---------------------------- MODULE PreviewServer ----------------------------
(***************************************************************************)
(* The serving container of one project and the ingress that routes to it  *)
(* (apps/serve, apps/ingress).  Two stream loops of the container handle   *)
(* run requests, each one request at a time but both at the same time.     *)
(* serveTheProject frees port 3000, installs, starts the server and waits  *)
(* until something answers on the port; the preview is then registered     *)
(* with the ingress by a stream entry and by a request, and the run is     *)
(* answered.  A handler that cannot even publish its failure rejects, and  *)
(* the loop delivers the request again until its bound is reached.         *)
(*                                                                         *)
(* A process is killed by SIGKILL (what lsof finds on the port) or by      *)
(* SIGTERM (what runningProcesses knows): after SIGTERM it lives, and      *)
(* holds the port, until it exits.  Its close event arrives later, and has *)
(* a handler only if one was attached by then.                             *)
(***************************************************************************)
EXTENDS Integers, FiniteSets

CONSTANTS
    Loops,          \* the stream loops: ListenControl and ListenOrchestator
    MaxDeliveries,  \* retry bound of readGroupLoop (maxDeliveries)
    MaxRuns,        \* bound: runs, one for each delivery of a request
    MaxLosses,      \* bound: restarts of the ingress and unregister requests
    ClusterRouting  \* PREVIEW_ROUTING_MODE = "cluster": routes follow from the slug

ASSUME PreviewAssumption ==
    /\ {MaxRuns, MaxDeliveries} \subseteq Nat \ {0} /\ MaxLosses \in Nat
    /\ ClusterRouting \in BOOLEAN

Runs == 1 .. MaxRuns
NoRun == 0
\* A run starts at most one server, which has the number of the run.
Procs == Runs
NoProc == 0

\* A request has the number of its first run.
VARIABLES
    request,      \* the request each loop handles
    pending,      \* of each loop: requests whose handler rejected, to be redelivered
    failures,     \* the failed deliveries counted for each request
    answered      \* history: requests whose answer was published
requests == <<request, pending, failures, answered>>

VARIABLES
    stage,        \* where each loop is in handleRunProject
    run,          \* the run each loop handles
    started,      \* runs so far
    reports,      \* servers whose close handler published PROJECT_RUN_FAILED
    running,      \* runningProcesses: the server of the project
    mark,         \* restartingProjects holds the project
    installed     \* node_modules is there
serving == <<requests, stage, run, started, reports, running, mark, installed>>

VARIABLES
    state,        \* of each process: unused, starting, listening, exited, closed
    code,         \* its exit code: "quiet" (0, 143, a signal) or "bad"
    handler,      \* its close handler is attached
    replaced,     \* it was killed to make room for another one
    terminated    \* SIGTERM was sent to it
processes == <<state, code, handler, replaced, terminated>>

VARIABLES
    route,        \* the ingress has a route for the slug
    entries,      \* register entries the ingress has not read
    losses        \* restarts and unregister requests so far
ingress == <<route, entries, losses>>

VARIABLES
    announced,    \* history: a run succeeded, its registration was accepted, and
                  \* the ingress has neither restarted nor unregistered since
    undisturbed   \* history: lsof found every server, none was still starting when the
                  \* port was freed or ended by itself, and no loop freed the port
                  \* while the other served
history == <<announced, undisturbed>>

vars == <<serving, processes, ingress, history>>

TypeOK ==
    /\ request \in [Loops -> Runs \cup {NoRun}] /\ pending \in [Loops -> SUBSET Runs]
    /\ failures \in [Runs -> Nat] /\ answered \subseteq Runs
    /\ stage \in [Loops -> {"idle", "checking", "installing", "waiting", "publishing",
                            "posting", "answering", "failing"}]
    /\ run \in [Loops -> Runs \cup {NoRun}] /\ started \in 0 .. MaxRuns
    /\ reports \subseteq Procs
    /\ running \in Procs \cup {NoProc} /\ {mark, installed} \subseteq BOOLEAN
    /\ state \in [Procs -> {"unused", "starting", "listening", "exited", "closed"}]
    /\ code \in [Procs -> {"quiet", "bad"}]
    /\ handler \in [Procs -> BOOLEAN] /\ replaced \subseteq Procs
    /\ terminated \subseteq Procs
    /\ route \in BOOLEAN /\ entries \in Nat /\ losses \in 0 .. MaxLosses
    /\ {announced, undisturbed} \subseteq BOOLEAN

Init ==
    /\ request = [l \in Loops |-> NoRun] /\ pending = [l \in Loops |-> {}]
    /\ failures = [r \in Runs |-> 0] /\ answered = {}
    /\ stage = [l \in Loops |-> "idle"] /\ run = [l \in Loops |-> NoRun] /\ started = 0
    /\ reports = {} /\ running = NoProc /\ mark = FALSE
    /\ installed \in BOOLEAN
    /\ state = [p \in Procs |-> "unused"] /\ code = [p \in Procs |-> "quiet"]
    /\ handler = [p \in Procs |-> FALSE] /\ replaced = {} /\ terminated = {}
    /\ route = FALSE /\ entries = 0 /\ losses = 0
    /\ announced = FALSE /\ undisturbed = TRUE

Alive(p) == state[p] \in {"starting", "listening"}
Listening == {p \in Procs : state[p] = "listening"}

-------------------------------------------------------------------------------
\* handleRunProject starts on request r; without files, manifest or script the run
\* fails at once.
StartRun(l, r) ==
    /\ stage[l] = "idle" /\ started < MaxRuns
    /\ started' = started + 1 /\ run' = [run EXCEPT ![l] = started + 1]
    /\ request' = [request EXCEPT ![l] = r]
    /\ \E servable \in BOOLEAN :
         stage' = [stage EXCEPT ![l] = IF servable THEN "checking" ELSE "failing"]
    /\ UNCHANGED <<failures, answered, reports, running, mark, installed, processes,
                   ingress, history>>

\* Redeliveries still to come: MaxRuns leaves a run for each.
Owed == Cardinality(UNION {pending[l] : l \in Loops})

\* The loop reads a new request.
AcceptRun(l) ==
    /\ started + Owed < MaxRuns
    /\ StartRun(l, started + 1) /\ UNCHANGED pending

\* reclaimStale claims a request whose handler rejected, and runs it again.
Redeliver(l) ==
    \E r \in pending[l] :
        /\ StartRun(l, r)
        /\ pending' = [pending EXCEPT ![l] = @ \ {r}]

\* The server of the run of loop l is spawned and entered in runningProcesses.
Spawn(l) ==
    /\ state' = [state EXCEPT ![run[l]] = "starting"]
    /\ running' = run[l] /\ stage' = [stage EXCEPT ![l] = "waiting"]

\* mutant: a project without a server is not told from one that has it.
ExistingUnchecked(p) == {p}

\* The server runningProcesses knows, if there is one.
Existing(p) == {p} \ {NoProc}

\* mutant: the processes on the port are found but not killed.
KilledNone(pids) == {}

\* The processes SIGKILL ends: all that lsof found.
Killed(pids) == pids

\* mutant: the project is not marked.
Unmarked(marked, replaces) == marked

MarkAfter(marked, replaces) == marked \/ replaces

\* pidsListeningOnPort: lsof names every process that listens and maybe one that has
\* exited by the time of the answer, or nothing (lsof failed).
Found == {{}} \cup {Listening \cup gone : gone \in SUBSET {p \in Procs : state[p] = "exited"}}

\* What was found gets SIGKILL, the server runningProcesses knows gets SIGTERM, and
\* the project is marked when there was one of either.  With node_modules in place the
\* new server is spawned before any close event.
FreePort(l) ==
    /\ stage[l] = "checking"
    /\ \E pids \in Found :
       LET dead == Killed(pids) \cap Listening
           after == [p \in Procs |-> IF p \in dead THEN "exited" ELSE state[p]]
       IN  /\ mark' = MarkAfter(mark, pids # {} \/ running # NoProc)
           /\ code' = [p \in Procs |-> IF p \in dead THEN "quiet" ELSE code[p]]
           /\ replaced' = replaced \cup pids \cup Existing(running)
           /\ terminated' = terminated \cup Existing(running)
           /\ undisturbed' = (undisturbed
                /\ pids = Listening /\ (\A p \in Procs : state[p] # "starting")
                /\ \A k \in Loops \ {l} : stage[k] \in {"idle", "checking", "failing"})
           /\ IF installed
              THEN /\ state' = [after EXCEPT ![run[l]] = "starting"]
                   /\ running' = run[l] /\ stage' = [stage EXCEPT ![l] = "waiting"]
              ELSE /\ state' = after
                   /\ running' = NoProc /\ stage' = [stage EXCEPT ![l] = "installing"]
    /\ UNCHANGED <<requests, run, started, reports, installed, handler, ingress, announced>>

\* bun install ends; a failure is reported without a job and fails the run.
InstallEnds(l) ==
    /\ stage[l] = "installing"
    /\ \/ installed' = TRUE /\ Spawn(l)
       \/ stage' = [stage EXCEPT ![l] = "failing"] /\ UNCHANGED <<installed, state, running>>
    /\ UNCHANGED <<requests, run, started, reports, mark, code, handler, replaced,
                   terminated, ingress, history>>

\* The wait of a run ends, with an answer or without one.
WaitEnds(s) == s = "waiting"

\* previewResponds: something on the port answers well.
Responds == Listening # {}

\* waitForPort: any process that answers on the port will do.  Only now is the close
\* handler attached; a server whose close event has gone by keeps none that fires.
Ready(l) ==
    /\ stage[l] = "waiting" /\ Responds
    /\ handler' = [handler EXCEPT ![run[l]] = TRUE]
    /\ stage' = [stage EXCEPT ![l] = IF ClusterRouting THEN "answering" ELSE "publishing"]
    /\ UNCHANGED <<requests, run, started, reports, running, mark, installed, state, code,
                   replaced, terminated, ingress, history>>

\* Nothing answered well within a minute: the server is stopped, the entry of the
\* project removed, whichever server it names.
TimesOut(l) ==
    /\ WaitEnds(stage[l])
    /\ terminated' = terminated \cup {run[l]} /\ running' = NoProc
    /\ stage' = [stage EXCEPT ![l] = "failing"]
    /\ UNCHANGED <<requests, run, started, reports, mark, installed, state, code, handler,
                   replaced, ingress, history>>

\* registerPreview: the stream entry, then the request; failures are only logged.
PublishRegister(l) ==
    /\ stage[l] = "publishing"
    /\ \E ok \in BOOLEAN :
         /\ entries' = IF ok THEN entries + 1 ELSE entries
         /\ announced' = (announced \/ ok)
    /\ stage' = [stage EXCEPT ![l] = "posting"]
    /\ UNCHANGED <<requests, run, started, reports, running, mark, installed, processes,
                   route, losses, undisturbed>>

\* mutant: the request publishes the entry but sets no route.
RouteAfterEntryOnly(r) == r

RouteAfterRegister(r) == TRUE

\* handleAdmin register: the route is set, and published as an entry again.
PostRegister(l) ==
    /\ stage[l] = "posting"
    /\ \/ UNCHANGED <<route, entries, announced>>
       \/ /\ route' = RouteAfterRegister(route) /\ announced' = TRUE
          /\ \E ok \in BOOLEAN : entries' = IF ok THEN entries + 1 ELSE entries
    /\ stage' = [stage EXCEPT ![l] = "answering"]
    /\ UNCHANGED <<requests, run, started, reports, running, mark, installed, processes,
                   losses, undisturbed>>

\* PROJECT_RUN_SUCCESS, or PROJECT_RUN_FAILED when publishing it fails.
AnswerSuccess(l) ==
    /\ stage[l] = "answering"
    /\ \/ /\ stage' = [stage EXCEPT ![l] = "idle"] /\ run' = [run EXCEPT ![l] = NoRun]
          /\ request' = [request EXCEPT ![l] = NoRun]
          /\ answered' = answered \cup {request[l]}
       \/ stage' = [stage EXCEPT ![l] = "failing"] /\ UNCHANGED <<run, request, answered>>
    /\ UNCHANGED <<pending, failures, started, reports, running, mark, installed,
                   processes, ingress, history>>

\* mutant: the entry of a request whose handler rejected is acknowledged at once.
AckedAnyway(unacked, r, count) == unacked

\* handleMessage after a rejected handler, the count of its failures taken: the entry
\* stays pending until the bound, where it is dead-lettered and acknowledged.
PendingAfter(unacked, r, count) ==
    IF count < MaxDeliveries THEN unacked \cup {r} ELSE unacked

\* PROJECT_RUN_FAILED with the job of the run.  When that cannot be published either,
\* the handler rejects (MaxRuns bounds how often a redelivery follows).
AnswerFailed(l) ==
    /\ stage[l] = "failing"
    /\ stage' = [stage EXCEPT ![l] = "idle"] /\ run' = [run EXCEPT ![l] = NoRun]
    /\ request' = [request EXCEPT ![l] = NoRun]
    /\ \/ answered' = answered \cup {request[l]} /\ UNCHANGED <<pending, failures>>
       \/ LET r == request[l]
              count == failures[r] + 1
          IN  /\ count < MaxDeliveries => started + Owed < MaxRuns
              /\ failures' = [failures EXCEPT ![r] = count]
              /\ pending' = [pending EXCEPT ![l] = PendingAfter(@, r, count)]
              /\ UNCHANGED answered
    /\ UNCHANGED <<started, reports, running, mark, installed, processes, ingress, history>>

-------------------------------------------------------------------------------
\* A starting server gets the port, or ends because it is taken (--strictPort).
Bind(p) ==
    /\ state[p] = "starting"
    /\ IF Listening = {}
       THEN state' = [state EXCEPT ![p] = "listening"] /\ UNCHANGED code
       ELSE state' = [state EXCEPT ![p] = "exited"] /\ code' = [code EXCEPT ![p] = "bad"]
    /\ UNCHANGED <<serving, handler, replaced, terminated, ingress, history>>

\* A server ends, after SIGTERM or by itself, with a code of its own.
Exit(p) ==
    /\ Alive(p)
    /\ state' = [state EXCEPT ![p] = "exited"]
    /\ \E c \in {"quiet", "bad"} : code' = [code EXCEPT ![p] = c]
    /\ undisturbed' = (undisturbed /\ p \in terminated)
    /\ UNCHANGED <<serving, handler, replaced, terminated, ingress, announced>>

\* The close event.  Its handler removes the entry of the project, whichever server
\* it names, and reports a bad code unless the project is marked.
CloseEvent(p) ==
    /\ state[p] = "exited"
    /\ state' = [state EXCEPT ![p] = "closed"]
    /\ IF ~handler[p] THEN UNCHANGED <<running, mark, reports>>
       ELSE /\ running' = NoProc
            /\ mark' = FALSE
            /\ reports' = IF ~mark /\ code[p] = "bad" THEN reports \cup {p}
                          ELSE reports
    /\ UNCHANGED <<requests, stage, run, started, installed, code, handler, replaced,
                   terminated, ingress, history>>

-------------------------------------------------------------------------------
\* listenRegisterStream handles one entry.
IngressReads ==
    /\ entries > 0
    /\ entries' = entries - 1 /\ route' = TRUE
    /\ UNCHANGED <<serving, processes, losses, history>>

\* The ingress restarts: the routes were in memory, the entries it read are gone.
IngressRestarts ==
    /\ losses < MaxLosses /\ losses' = losses + 1
    /\ route' = FALSE /\ announced' = FALSE
    /\ UNCHANGED <<serving, processes, entries, undisturbed>>

\* handleAdmin unregister, or a PREVIEW_UNREGISTER entry.
Unregister ==
    /\ losses < MaxLosses /\ losses' = losses + 1 /\ route
    /\ route' = FALSE /\ announced' = FALSE
    /\ UNCHANGED <<serving, processes, entries, undisturbed>>

Handle(l) ==
    \/ FreePort(l) \/ InstallEnds(l) \/ Ready(l) \/ TimesOut(l) \/ PublishRegister(l)
    \/ PostRegister(l) \/ AnswerSuccess(l) \/ AnswerFailed(l)

Next ==
    \/ \E l \in Loops : AcceptRun(l) \/ Redeliver(l) \/ Handle(l)
    \/ \E p \in Procs : Bind(p) \/ Exit(p) \/ CloseEvent(p)
    \/ IngressReads \/ IngressRestarts \/ Unregister

Spec == Init /\ [][Next]_vars

\* The handlers go on: each await has a time limit of its own (lsof is assumed to
\* end).  The loops claim what is pending, the ingress reads its stream.  Requests, exits
\* and losses need not happen.
FairSpec ==
    /\ Spec
    /\ \A l \in Loops : WF_vars(Handle(l)) /\ WF_vars(Redeliver(l))
    /\ WF_vars(IngressReads)

-------------------------------------------------------------------------------
\* Every run request a loop has read is answered, whatever the server, the port, the
\* install and the ingress do, or has failed as often as the loop delivers it: a request
\* whose failure could not be published is run again.
RunsAnswered ==
    \A r \in Runs :
        (\E l \in Loops : request[l] = r) ~> r \in answered \/ failures[r] >= MaxDeliveries

\* When nothing else disturbed it, the server that answers on the port is the one
\* the run has started: the success is not reported for a server that is being
\* replaced.
ReadyIsOwn ==
    undisturbed =>
        \A l \in Loops :
            stage[l] \in {"publishing", "posting", "answering"} => run[l] \in Listening

\* A success whose registration was accepted leads to a route: it is set, or an
\* entry that sets it is on the way.
AnnouncedIsRouted == announced => route \/ entries > 0

\* The close of a server that made room for another one is not reported as a failed
\* run, unless the close of some other server has used up the one mark before it.
ReplacedIsQuiet ==
    \A p \in reports \cap replaced : \E q \in Procs \ {p} : state[q] = "closed"
=============================================================================
