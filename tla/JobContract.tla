------------------------------ MODULE JobContract ------------------------------
(***************************************************************************)
(* What the backend and the orchestrator together promise a client that    *)
(* asks for a build, a run or a prompt, with the streams, the tasks, the   *)
(* waiters, the workers and the failures of each left out: an outcome is   *)
(* published for a job only once the job was asked for, what reaches the   *)
(* job is an outcome published for it, the request is answered at most     *)
(* once, with an outcome that reached it, and never with a failure when    *)
(* the success is there too.  JobRoundTrip implements this module.         *)
(***************************************************************************)

CONSTANTS Jobs,        \* the operations a client can ask for
          Outcomes,    \* what the end of a job may be reported as
          Success      \* Success[j]: the outcome that says job j was done

VARIABLES request,     \* request[j]: "idle", "waiting", "answered", "timedOut", or
                       \* "none" for a job that no request waits for
          answer,      \* answer[j]: the outcome request j was answered with, or "none"
          published,   \* published[j]: the outcomes published for job j
          arrived      \* arrived[j]: those of them that a request for j can see

contractVars == <<request, answer, published, arrived>>

ContractInit ==
    /\ request = [j \in Jobs |-> "idle"]
    /\ answer = [j \in Jobs |-> "none"]
    /\ published = [j \in Jobs |-> {}]
    /\ arrived = [j \in Jobs |-> {}]

Ask(j) ==
    /\ request[j] = "idle"
    /\ \E as \in {"waiting", "none"} : request' = [request EXCEPT ![j] = as]
    /\ UNCHANGED <<answer, published, arrived>>

\* A job may be worked on more than once, with different outcomes.
Publish(j, o) ==
    /\ request[j] # "idle"
    /\ published' = [published EXCEPT ![j] = @ \cup {o}]
    /\ UNCHANGED <<request, answer, arrived>>

Arrive(j, o) ==
    /\ o \in published[j]
    /\ arrived' = [arrived EXCEPT ![j] = @ \cup {o}]
    /\ UNCHANGED <<request, answer, published>>

AnswerWith(j, o) ==
    /\ request[j] = "waiting"
    /\ o \in arrived[j]
    /\ Success[j] \in arrived[j] => o = Success[j]
    /\ request' = [request EXCEPT ![j] = "answered"]
    /\ answer' = [answer EXCEPT ![j] = o]
    /\ UNCHANGED <<published, arrived>>

TimeOut(j) ==
    /\ request[j] = "waiting"
    /\ request' = [request EXCEPT ![j] = "timedOut"]
    /\ UNCHANGED <<answer, published, arrived>>

ContractNext ==
    \E j \in Jobs :
        \/ Ask(j) \/ TimeOut(j)
        \/ \E o \in Outcomes : Publish(j, o) \/ Arrive(j, o) \/ AnswerWith(j, o)

ContractSpec == ContractInit /\ [][ContractNext]_contractVars

-----------------------------------------------------------------------------
(* What a client may rely on *)

ContractTypeOK ==
    /\ request \in [Jobs -> {"idle", "none", "waiting", "answered", "timedOut"}]
    /\ answer \in [Jobs -> Outcomes \cup {"none"}]
    /\ published \in [Jobs -> SUBSET Outcomes]
    /\ arrived \in [Jobs -> SUBSET Outcomes]

\* An answer is an outcome that reached the request and was published for its job, and
\* no outcome is published for a job nobody asked for.
AnswersAreEarned ==
    \A j \in Jobs :
        /\ request[j] = "answered" => answer[j] \in arrived[j]
        /\ arrived[j] \subseteq published[j]
        /\ request[j] = "idle" => published[j] = {}

=============================================================================
