------------------------------ MODULE JobRoundTrip ------------------------------
(***************************************************************************)
(* The round trip of a build, run or prompt of one project:                *)
(*   apps/backend      the HTTP request and its wait (ResponseManager)     *)
(*   apps/orchestator  buildProject, runProject, handlePrompt, the waiters *)
(*                     of CorrelationResolver and the three stream loops   *)
(*   apps/control, apps/serve   the workers, as the replies they publish   *)
(*                                                                         *)
(* The orchestrator acknowledges a request as soon as it has started a     *)
(* task for it; the task publishes the request to a worker, then registers *)
(* a waiter, then forwards the reply that resolves the waiter, or a failure*)
(* when the waiter times out.  A reply nobody waits for is forwarded as    *)
(* it is.                                                                  *)
(*                                                                         *)
(* A stream is a sequence read in order (StreamReliability says what that  *)
(* rests on); an entry that has to be redelivered goes behind the entries  *)
(* read meanwhile.  Timeouts may fire at any time.  Payloads are left out. *)
(* Redeliveries, crashes and lost publishes are bounded by MaxFaults.      *)
(***************************************************************************)
EXTENDS Integers, Sequences, FiniteSets, Functions

CONSTANTS
    Builds, Runs, Prompts, \* jobs, by the operation they ask for
    Initial,     \* prompts the orchestrator starts itself, without a job id
    Project,     \* the project's id
    NoJob,       \* no job
    MaxTries,    \* bound: tasks the orchestrator starts for one job
    MaxFaults    \* bound: redeliveries, crashes and lost publishes together

Jobs == Builds \cup Runs \cup Prompts

ASSUME JobsAssumption ==
    /\ Builds \cap Runs = {} /\ Builds \cap Prompts = {} /\ Runs \cap Prompts = {}
    /\ Initial \subseteq Prompts
    /\ Project \notin Jobs /\ NoJob \notin Jobs
    /\ MaxTries \in Nat \ {0} /\ MaxFaults \in Nat

Workers == {"control", "serve"}
WorkerOf(j) == IF j \in Runs THEN "serve" ELSE "control"

\* The job id a message of job j carries; an initial prompt has none.
JobId(j) == IF j \in Initial THEN NoJob ELSE j

\* How the resolver used to work: every job of a project has the same key.
KeyPerProject(id) == Project

\* The key of a waiter: the job id, or the project id for a message without one.
idKey(id) == IF id = NoJob THEN Project ELSE id

\* The key of a result in the backend.
ResultKey(id) == IF id = NoJob THEN Project ELSE id

Keys == Jobs \cup {Project}

BuildTypes == {"BUILD_SUCCESS", "BUILD_FAILED"}
RunTypes == {"RUN_SUCCESS", "RUN_FAILED"}
Types == BuildTypes \cup RunTypes \cup {"PROJECT_FAILED", "PROMPT_RESPONSE"}

\* The reply of a job that was done.
SuccessType(j) ==
    IF j \in Builds THEN "BUILD_SUCCESS"
    ELSE IF j \in Runs THEN "RUN_SUCCESS" ELSE "PROMPT_RESPONSE"

\* A bug the wait could have: it looks for failures first.
ExpectedFailureFirst(j) ==
    IF j \in Builds THEN <<"BUILD_FAILED", "PROJECT_FAILED", "BUILD_SUCCESS">>
    ELSE IF j \in Runs THEN <<"RUN_FAILED", "PROJECT_FAILED", "RUN_SUCCESS">>
    ELSE <<"PROJECT_FAILED", "PROMPT_RESPONSE">>

\* What the backend waits for, in the order it looks for it.
Expected(j) ==
    IF j \in Builds THEN <<"BUILD_SUCCESS", "BUILD_FAILED", "PROJECT_FAILED">>
    ELSE IF j \in Runs THEN <<"RUN_SUCCESS", "RUN_FAILED", "PROJECT_FAILED">>
    ELSE <<"PROMPT_RESPONSE", "PROJECT_FAILED">>

\* What a task reports when its waiter timed out or its forward failed.
FailureType(j) ==
    IF j \in Builds THEN "BUILD_FAILED"
    ELSE IF j \in Runs THEN "RUN_FAILED" ELSE "PROMPT_RESPONSE"

\* What a task passes on; handlePrompt only logs anything but a PROMPT_RESPONSE.
Forwards(j) ==
    IF j \in Builds THEN BuildTypes \cup {"PROJECT_FAILED"}
    ELSE IF j \in Runs THEN RunTypes \cup {"PROJECT_FAILED"} ELSE {"PROMPT_RESPONSE"}

Task == Jobs \X (1..MaxTries)
NoTask == <<NoJob, 0>>
JobOf(t) == t[1]

\* Where the waiter of task t registers.
WorkerFor(t) == WorkerOf(JobOf(t))
KeyFor(t) == idKey(JobId(JobOf(t)))

VARIABLES
    http,       \* http[j]: the HTTP request of job j
    answer,     \* answer[j]: the type the request was answered with, or "none"
    toOrch,     \* stream backend:orch
    task,       \* task[t]: where the orchestrator's task t is
    value,      \* value[t]: the type its waiter was resolved with, while "forward"
    waiters,    \* waiters[w]: the slots of the resolver for replies of worker w
    toWorker,   \* streams orch:control and orch:serve
    script,     \* script[w]: replies worker w has yet to publish for its entry
    busy,       \* busy[w]: the job worker w is handling, or NoJob
    fromWorker, \* streams control:orch and serve:orch
    toBackend,  \* stream orch:backend
    results,    \* results[k]: the fields of the Redis hash of key k
    reported,   \* history: reported[j], the types published as the outcome of j by
                \* its worker, or by a task of j whose wait or forward failed
    faults      \* redeliveries, crashes and failed publishes so far

backendVars == <<http, answer, results>>
orchVars    == <<task, value, waiters>>
workerVars  == <<script, busy>>
streamVars  == <<toOrch, toWorker, fromWorker, toBackend>>
vars == <<backendVars, orchVars, workerVars, streamVars, reported, faults>>

Init ==
    /\ http = [j \in Jobs |-> "idle"]
    /\ answer = [j \in Jobs |-> "none"]
    /\ toOrch = <<>>
    /\ task = [t \in Task |-> "none"]
    /\ value = [t \in Task |-> "none"]
    /\ waiters = [w \in Workers |-> [k \in Keys |-> NoTask]]
    /\ toWorker = [w \in Workers |-> <<>>]
    /\ script = [w \in Workers |-> <<>>]
    /\ busy = [w \in Workers |-> NoJob]
    /\ fromWorker = [w \in Workers |-> <<>>]
    /\ toBackend = <<>>
    /\ results = [k \in Keys |-> {}]
    /\ reported = [j \in Jobs |-> {}]
    /\ faults = 0

Fault ==
    /\ faults < MaxFaults
    /\ faults' = faults + 1

Message(id, type) == [job |-> id, type |-> type]

-----------------------------------------------------------------------------
(* Backend *)

\* routes/project.ts, createConversation: publish the request, then wait.
Request(j) ==
    /\ j \notin Initial
    /\ http[j] = "idle"
    /\ http' = [http EXCEPT ![j] = "waiting"]
    /\ toOrch' = Append(toOrch, j)
    /\ UNCHANGED <<answer, results, orchVars, workerVars, toWorker, fromWorker, toBackend,
                   reported, faults>>

\* orchestatorListener: the message becomes a field of the job's hash.  Storing
\* it twice changes nothing, so its redelivery is not modelled.
StoreResult ==
    /\ toBackend # <<>>
    /\ LET msg == Head(toBackend) IN
        results' = [results EXCEPT ![ResultKey(msg.job)] = @ \cup {msg.type}]
    /\ toBackend' = Tail(toBackend)
    /\ UNCHANGED <<http, answer, orchVars, workerVars, toOrch, toWorker, fromWorker, reported, faults>>

\* A bug wait could have: it returns after the first poll, result or not.
AnswerFirstPoll(j) ==
    /\ http[j] = "waiting"
    /\ http' = [http EXCEPT ![j] = "answered"]
    /\ UNCHANGED <<answer, results, orchVars, workerVars, streamVars, reported, faults>>

\* ResponseManager.wait finds a result: the first expected type the hash has.
Answer(j) ==
    /\ http[j] = "waiting"
    /\ \E i \in DOMAIN Expected(j) :
        /\ Expected(j)[i] \in results[j]
        /\ \A h \in 1..(i - 1) : Expected(j)[h] \notin results[j]
        /\ answer' = [answer EXCEPT ![j] = Expected(j)[i]]
    /\ http' = [http EXCEPT ![j] = "answered"]
    /\ UNCHANGED <<results, orchVars, workerVars, streamVars, reported, faults>>

\* ResponseManager.wait gives up: 504.
RequestTimesOut(j) ==
    /\ http[j] = "waiting"
    /\ http' = [http EXCEPT ![j] = "timedOut"]
    /\ UNCHANGED <<answer, results, orchVars, workerVars, streamVars, reported, faults>>

-----------------------------------------------------------------------------
(* Orchestrator: tasks *)

\* A free task of job j starts: its first await is the publish to the worker.
StartTask(j) ==
    \E n \in 1..MaxTries :
        /\ task[<<j, n>>] = "none"
        /\ \A m \in 1..(n - 1) : task[<<j, m>>] # "none"
        /\ task' = [task EXCEPT ![<<j, n>>] = "publish"]

\* ListenBackend: the task is started and not awaited, so the entry is XACKed.
ListenBackend ==
    /\ toOrch # <<>>
    /\ StartTask(Head(toOrch))
    /\ toOrch' = Tail(toOrch)
    /\ UNCHANGED <<backendVars, value, waiters, workerVars, toWorker, fromWorker, toBackend,
                   reported, faults>>

\* The XACK fails: the entry is claimed and handled once more later on.
RequestRedelivered ==
    /\ toOrch # <<>>
    /\ Fault
    /\ StartTask(Head(toOrch))
    /\ toOrch' = Append(Tail(toOrch), Head(toOrch))
    /\ UNCHANGED <<backendVars, value, waiters, workerVars, toWorker, fromWorker, toBackend,
                   reported>>

\* ListenServingPod after PROJECT_CREATED: the prompt the project was created with.
InitialPrompt(j) ==
    /\ j \in Initial
    /\ http[j] = "idle"
    /\ http' = [http EXCEPT ![j] = "none"]
    /\ StartTask(j)
    /\ UNCHANGED <<answer, results, value, waiters, workerVars, streamVars, reported,
                   faults>>

\* The publish to the worker's stream.
PublishRequest(t) ==
    /\ task[t] = "publish"
    /\ task' = [task EXCEPT ![t] = "register"]
    /\ toWorker' = [toWorker EXCEPT ![WorkerFor(t)] = Append(@, JobOf(t))]
    /\ UNCHANGED <<backendVars, value, waiters, workerVars, toOrch, fromWorker, toBackend,
                   reported, faults>>

\* The publish fails: it is outside the task's try, the task ends and nothing is
\* reported.
PublishRequestFails(t) ==
    /\ task[t] = "publish"
    /\ Fault
    /\ task' = [task EXCEPT ![t] = "over"]
    /\ UNCHANGED <<backendVars, value, waiters, workerVars, streamVars, reported>>

\* CorrelationResolver.wait: takes the key's slot, whoever had it.
Wait(t) ==
    /\ task[t] = "register"
    /\ task' = [task EXCEPT ![t] = "waiting"]
    /\ waiters' = [waiters EXCEPT ![WorkerFor(t)][KeyFor(t)] = t]
    /\ UNCHANGED <<backendVars, value, workerVars, streamVars, reported, faults>>

\* A bug the timer could have: it rejects and leaves the slot taken.
TimeoutKeepsSlot(t) ==
    /\ task[t] = "waiting"
    /\ task' = [task EXCEPT ![t] = "failing"]
    /\ UNCHANGED <<backendVars, waiters, value, workerVars, streamVars, reported, faults>>

\* Another: the task gives up without reporting.
TimeoutSilent(t) ==
    /\ task[t] = "waiting"
    /\ task' = [task EXCEPT ![t] = "over"]
    /\ waiters' = [waiters EXCEPT ![WorkerFor(t)][KeyFor(t)] = NoTask]
    /\ UNCHANGED <<backendVars, value, workerVars, streamVars, reported, faults>>

\* The timer of wait: frees the key's slot, whoever has it, and rejects.
WaitTimesOut(t) ==
    /\ task[t] = "waiting"
    /\ task' = [task EXCEPT ![t] = "failing"]
    /\ waiters' = [waiters EXCEPT ![WorkerFor(t)][KeyFor(t)] = NoTask]
    /\ UNCHANGED <<backendVars, value, workerVars, streamVars, reported, faults>>

Forwarded(t) ==
    IF value[t] \in Forwards(JobOf(t))
    THEN Append(toBackend, Message(JobId(JobOf(t)), value[t]))
    ELSE toBackend

\* The waiter was resolved: the reply goes to the backend.
Forward(t) ==
    /\ task[t] = "forward"
    /\ task' = [task EXCEPT ![t] = "over"]
    /\ value' = [value EXCEPT ![t] = "none"]
    /\ toBackend' = Forwarded(t)
    /\ UNCHANGED <<backendVars, waiters, workerVars, toOrch, toWorker, fromWorker,
                   reported, faults>>

\* That publish fails, executed or not: it is inside the try, so the task goes
\* on as if the worker had failed.
ForwardFails(t) ==
    /\ task[t] = "forward"
    /\ value[t] \in Forwards(JobOf(t))
    /\ Fault
    /\ task' = [task EXCEPT ![t] = "failing"]
    /\ value' = [value EXCEPT ![t] = "none"]
    /\ toBackend' \in {toBackend, Forwarded(t)}
    /\ UNCHANGED <<backendVars, waiters, workerVars, toOrch, toWorker, fromWorker,
                   reported>>

\* The catch of the task: a failure is reported in the worker's place.
ReportFailure(t) ==
    LET j == JobOf(t) IN
    /\ task[t] = "failing"
    /\ task' = [task EXCEPT ![t] = "over"]
    /\ toBackend' = Append(toBackend, Message(JobId(j), FailureType(j)))
    /\ reported' = [reported EXCEPT ![j] = @ \cup {FailureType(j)}]
    /\ UNCHANGED <<backendVars, value, waiters, workerVars, toOrch, toWorker, fromWorker,
                   faults>>

\* That publish fails: the error is only logged.
ReportFails(t) ==
    /\ task[t] = "failing"
    /\ Fault
    /\ task' = [task EXCEPT ![t] = "over"]
    /\ UNCHANGED <<backendVars, value, waiters, workerVars, streamVars, reported>>

\* The orchestrator dies: its tasks and waiters were only in memory.
OrchestratorCrash ==
    /\ Fault
    /\ \E t \in Task : task[t] \notin {"none", "over"}
    /\ task' = [t \in Task |-> IF task[t] = "none" THEN "none" ELSE "over"]
    /\ value' = [t \in Task |-> "none"]
    /\ waiters' = [w \in Workers |-> [k \in Keys |-> NoTask]]
    /\ UNCHANGED <<backendVars, workerVars, streamVars, reported>>

-----------------------------------------------------------------------------
(* Orchestrator: replies *)

\* A bug: a reply nobody waits for is dropped.
HandleReplyDropsLate(w) ==
    LET msg == Head(fromWorker[w])
        k == idKey(msg.job)
        t == waiters[w][k]
    IN  IF t # NoTask
        THEN /\ waiters' = [waiters EXCEPT ![w][k] = NoTask]
             /\ task' = [task EXCEPT ![t] = "forward"]
             /\ value' = [value EXCEPT ![t] = msg.type]
             /\ UNCHANGED toBackend
        ELSE UNCHANGED <<waiters, task, value, toBackend>>

\* ListenControlPod and ListenServingPod: a waiter under the reply's key is
\* resolved, else the reply goes to the backend as it is.  The serving loop
\* passes a PROJECT_FAILED on in either case.
HandleReply(w) ==
    LET msg == Head(fromWorker[w])
        k == idKey(msg.job)
        t == waiters[w][k]
        again == IF w = "serve" /\ msg.type = "PROJECT_FAILED" THEN <<msg>> ELSE <<>>
    IN  IF t # NoTask
        THEN /\ waiters' = [waiters EXCEPT ![w][k] = NoTask]
             /\ task' = [task EXCEPT ![t] = "forward"]
             /\ value' = [value EXCEPT ![t] = msg.type]
             /\ toBackend' = toBackend \o again
        ELSE /\ toBackend' = Append(toBackend, msg) \o again
             /\ UNCHANGED <<waiters, task, value>>

ListenWorker(w) ==
    /\ fromWorker[w] # <<>>
    /\ HandleReply(w)
    /\ fromWorker' = [fromWorker EXCEPT ![w] = Tail(@)]
    /\ UNCHANGED <<backendVars, workerVars, toOrch, toWorker, reported, faults>>

\* The entry's XACK fails, or its handler on the way: it is handled once more
\* later on.
ReplyRedelivered(w) ==
    /\ fromWorker[w] # <<>>
    /\ Fault
    /\ HandleReply(w) \/ UNCHANGED <<orchVars, toBackend>>
    /\ fromWorker' = [fromWorker EXCEPT ![w] = Append(Tail(@), Head(@))]
    /\ UNCHANGED <<backendVars, workerVars, toOrch, toWorker, reported>>

-----------------------------------------------------------------------------
(* Workers *)

\* The replies a worker publishes for a job, in order.  A failing build reports
\* in buildProject and again in its caller; a failing run reports in
\* serveTheProject without the job id and again in handleRunProject; a prompt
\* answers before the workflow starts, or not at all when reading the memory
\* or the publish fails.
Scripts(j) ==
    IF j \in Builds
    THEN {<<Message(j, "BUILD_SUCCESS")>>} \cup
         {<<Message(j, type), Message(j, "BUILD_FAILED")>> :
             type \in {"BUILD_FAILED", "PROJECT_FAILED"}}
    ELSE IF j \in Runs
    THEN {<<Message(j, "RUN_SUCCESS")>>, <<Message(j, "RUN_FAILED")>>} \cup
         {<<Message(NoJob, type), Message(j, "RUN_FAILED")>> :
             type \in {"RUN_FAILED", "PROJECT_FAILED"}}
    ELSE {<<Message(JobId(j), "PROMPT_RESPONSE")>>, <<>>}

\* A worker handles one entry at a time.
Begin(w) ==
    /\ busy[w] = NoJob
    /\ toWorker[w] # <<>>
    /\ busy' = [busy EXCEPT ![w] = Head(toWorker[w])]
    /\ \E s \in Scripts(Head(toWorker[w])) : script' = [script EXCEPT ![w] = s]
    /\ UNCHANGED <<backendVars, orchVars, streamVars, reported, faults>>

PublishReply(w) ==
    /\ busy[w] # NoJob
    /\ script[w] # <<>>
    /\ fromWorker' = [fromWorker EXCEPT ![w] = Append(@, Head(script[w]))]
    /\ reported' = [reported EXCEPT ![busy[w]] = @ \cup {Head(script[w]).type}]
    /\ script' = [script EXCEPT ![w] = Tail(@)]
    /\ UNCHANGED <<backendVars, orchVars, busy, toOrch, toWorker, toBackend, faults>>

\* The publish of a first failure, or of the prompt's answer, fails: it is
\* swallowed (publishStreamEvent), or caught by handleRunProject, which goes on
\* to report the failure.
ReplySwallowed(w) ==
    /\ busy[w] # NoJob
    /\ Len(script[w]) > (IF busy[w] \in Prompts THEN 0 ELSE 1)
    /\ Fault
    /\ script' = [script EXCEPT ![w] = Tail(@)]
    /\ UNCHANGED <<backendVars, orchVars, busy, streamVars, reported>>

\* The publish of a success fails, executed or not: it is inside the try, and
\* the catch reports a failure after it.
SuccessFails(w) ==
    LET j == busy[w]
        msg == Head(script[w])
    IN  /\ j # NoJob
        /\ script[w] # <<>>
        /\ msg.type \in {"BUILD_SUCCESS", "RUN_SUCCESS"}
        /\ Fault
        /\ script' = [script EXCEPT ![w] = <<Message(j, FailureType(j))>>]
        /\ \/ /\ fromWorker' = [fromWorker EXCEPT ![w] = Append(@, msg)]
              /\ reported' = [reported EXCEPT ![j] = @ \cup {msg.type}]
           \/ UNCHANGED <<fromWorker, reported>>
        /\ UNCHANGED <<backendVars, orchVars, busy, toOrch, toWorker, toBackend>>

Finish(w) ==
    /\ busy[w] # NoJob
    /\ script[w] = <<>>
    /\ busy' = [busy EXCEPT ![w] = NoJob]
    /\ toWorker' = [toWorker EXCEPT ![w] = Tail(@)]
    /\ UNCHANGED <<backendVars, orchVars, script, toOrch, fromWorker, toBackend,
                   reported, faults>>

\* The worker dies, or the XACK fails after the work: the entry is handled again.
WorkRedelivered(w) ==
    /\ busy[w] # NoJob
    /\ Fault
    /\ busy' = [busy EXCEPT ![w] = NoJob]
    /\ script' = [script EXCEPT ![w] = <<>>]
    /\ toWorker' = [toWorker EXCEPT ![w] = Append(Tail(@), Head(@))]
    /\ UNCHANGED <<backendVars, orchVars, toOrch, fromWorker, toBackend, reported>>

-----------------------------------------------------------------------------
BackendStep == StoreResult \/ \E j \in Jobs : Request(j) \/ Answer(j) \/ RequestTimesOut(j)

TaskStep(t) == PublishRequest(t) \/ Wait(t) \/ Forward(t) \/ ReportFailure(t)

WorkerStep(w) == Begin(w) \/ PublishReply(w) \/ Finish(w)

Failure ==
    \/ RequestRedelivered \/ OrchestratorCrash
    \/ \E t \in Task : PublishRequestFails(t) \/ ForwardFails(t) \/ ReportFails(t)
    \/ \E w \in Workers :
        ReplyRedelivered(w) \/ WorkRedelivered(w) \/ ReplySwallowed(w) \/ SuccessFails(w)

Next ==
    \/ BackendStep
    \/ ListenBackend
    \/ \E j \in Jobs : InitialPrompt(j)
    \/ \E t \in Task : TaskStep(t) \/ WaitTimesOut(t)
    \/ \E w \in Workers : ListenWorker(w) \/ WorkerStep(w)
    \/ Failure

\* The loops read on, tasks run, workers finish their work, timers fire.
Fairness ==
    /\ WF_vars(StoreResult)
    /\ WF_vars(ListenBackend)
    /\ \A t \in Task : WF_vars(TaskStep(t)) /\ WF_vars(WaitTimesOut(t))
    /\ \A w \in Workers : WF_vars(ListenWorker(w)) /\ WF_vars(WorkerStep(w))

Spec == Init /\ [][Next]_vars
FairSpec == Spec /\ Fairness

-----------------------------------------------------------------------------
(* Properties *)

Pcs == {"none", "publish", "register", "waiting", "forward", "failing", "over"}

Messages == [job : Jobs \cup {NoJob}, type : Types]

\* Every variable has its type; a busy worker has not consumed its entry, a task
\* has a value from the moment its waiter is resolved until it forwards it, and a
\* request has an answer when it was answered.
TypeOK ==
    /\ http \in [Jobs -> {"idle", "none", "waiting", "answered", "timedOut"}]
    /\ answer \in [Jobs -> Types \cup {"none"}]
    /\ results \in [Keys -> SUBSET Types]
    /\ task \in [Task -> Pcs]
    /\ value \in [Task -> Types \cup {"none"}]
    /\ waiters \in [Workers -> [Keys -> Task \cup {NoTask}]]
    /\ busy \in [Workers -> Jobs \cup {NoJob}]
    /\ reported \in [Jobs -> SUBSET Types]
    /\ toOrch \in Seq(Jobs) /\ toBackend \in Seq(Messages)
    /\ toWorker \in [Workers -> Seq(Jobs)]
    /\ script \in [Workers -> Seq(Messages)]
    /\ fromWorker \in [Workers -> Seq(Messages)]
    /\ \A w \in Workers : busy[w] # NoJob => toWorker[w] # <<>>
    /\ \A j \in Jobs : answer[j] = "none" <=> http[j] # "answered"
    /\ \A t \in Task : task[t] = "forward" <=> value[t] # "none"

\* "Each resolves with its own correct response" (spec-06): a request is only
\* answered with an outcome of this very job.
AnswersAreOwn ==
    \A j \in Jobs : http[j] = "answered" => answer[j] \in reported[j]

\* No slot of a resolver outlives its task: whoever is registered is waiting,
\* under its own key.  A slot left behind would swallow a later job's reply.
SlotsAreLive ==
    \A w \in Workers, k \in Keys : waiters[w][k] # NoTask =>
        /\ task[waiters[w][k]] = "waiting"
        /\ KeyFor(waiters[w][k]) = k
        /\ WorkerFor(waiters[w][k]) = w

\* Unless an entry is redelivered, a waiting task stays reachable: no other
\* operation of the project takes or frees its slot (correlation.ts:5-9).
WaitersAreReachable ==
    faults = 0 =>
        \A t \in Task : task[t] = "waiting" => waiters[WorkerFor(t)][KeyFor(t)] = t

\* An outcome a worker or a task published reaches the backend, in time or late,
\* as long as the orchestrator keeps running: no interleaving of publish,
\* registration, timeout and reply loses it.
VerdictsReachBackend ==
    \A j \in Builds \cup Runs : \A type \in Range(Expected(j)) :
        (type \in reported[j]) ~> (type \in results[j] \cup results[Project])

\* A task that was started ends with something in the job's hash, so a request
\* that is polling finds an answer.
TasksReport ==
    \A t \in Task :
        (task[t] = "publish") ~> (results[ResultKey(JobId(JobOf(t)))] # {})

-----------------------------------------------------------------------------
(* The contract it implements *)

Contract == INSTANCE JobContract
    WITH Outcomes <- Types,
         Success <- [j \in Jobs |-> SuccessType(j)],
         request <- http,
         published <- reported,
         arrived <- [j \in Jobs |-> results[j]]

\* The round trip implements the contract, whatever is late, redelivered or lost and
\* whoever crashes: work is only done for a job that was asked for, and a request is
\* answered at most once, with an outcome of its job, its success if that has come.
ImplementsContract == Contract!ContractSpec

-----------------------------------------------------------------------------
(* Statements of the code's comments that its behaviour contradicts *)

\* correlation.ts:41 and index.ts:146: a reply nobody waits for is "a late reply
\* after the HTTP caller already timed out".  A task publishes its request
\* before it registers its waiter, so the reply can also be too early.
UnmatchedIsLate ==
    [][\A w \in Workers, t \in Task :
        (/\ task[t] = "register"
         /\ WorkerFor(t) = w
         /\ ListenWorker(w))
            => KeyFor(t) # idKey(Head(fromWorker[w]).job)]_vars

\* correlation.ts:18: "Exactly one resolver may be pending per key".  wait
\* takes the slot of a task that is still pending when a request is redelivered.
OnePendingPerKey ==
    \A s, t \in Task :
        (/\ task[s] = "waiting" /\ task[t] = "waiting"
         /\ KeyFor(s) = KeyFor(t)) => s = t

=============================================================================
