------------------------------ MODULE ProjectInit ------------------------------
(***************************************************************************)
(* The creation of one project:                                            *)
(*   apps/backend      createProject: the request and its wait             *)
(*   apps/orchestator  createProject, createProjectPod, waitForWorkers,    *)
(*                     ListenServingPod, pendingInitialPrompts             *)
(*   apps/control      the PROJECT_INITIALIZED and PROMPT commands,        *)
(*                     waitForServingConfirmation, ListenServing           *)
(*   apps/serve        the PROJECT_INITIALIZED command                     *)
(*   Kubernetes        the pod's two containers, as the code sees them     *)
(*                                                                         *)
(* The control pod and the serving pod create the groups they read with at *)
(* "$" when they start: what is published before is never read.  An entry  *)
(* whose handler throws, whose process dies or whose XACK fails stays in   *)
(* pending until a sweep (StreamReliability) brings it back.  Timeouts may *)
(* fire at any time.  Failures are bounded by MaxFaults, the tasks that a  *)
(* redelivered request starts by MaxTasks.                                 *)
(***************************************************************************)
EXTENDS Integers, Sequences, FiniteSets, Functions

CONSTANTS
    MaxTasks,   \* bound: times the orchestrator handles the request
    MaxFaults   \* bound: crashes, failing calls and redeliveries together

ASSUME BoundsAssumption == MaxTasks \in Nat \ {0} /\ MaxFaults \in Nat

Tasks == 1..MaxTasks
Workers == {"control", "serve"}

\* The job id a message carries; "none" stands for a message without one.
Ids == {"job", "none"}

Streams == {"BackendToOrchestator", "OrchestatorToControl", "ControlToServing",
            "ServingToControl", "ServingToOrchestrator", "OrchestatorToBackend"}

\* Whose group reads a stream; the platform's groups exist from the start.
Reader(s) ==
    IF s \in {"OrchestatorToControl", "ServingToControl"} THEN "control"
    ELSE IF s = "ControlToServing" THEN "serve" ELSE "platform"

\* CONFIRMED and REFUSED are the PROJECT_INITIALIZED of serving:control with its
\* success field.
Types == {"CREATE_PROJECT", "PROJECT_INITIALIZED", "CONFIRMED", "REFUSED",
          "PROJECT_CREATED", "PROJECT_FAILED", "PROMPT"}

VARIABLES
    http,     \* the HTTP request
    results,  \* results[id]: the types in the Redis hash of a job id, or of the project
    task,     \* task[n]: where the n-th run of the orchestrator's createProject is
    prompt,   \* pendingInitialPrompts has the project's prompt
    due,      \* timers that will start the initial prompt
    objects,  \* Kubernetes objects of the project
    up,       \* workers whose process runs
    seen,     \* workers that Kubernetes reports as started
    groups,   \* readers whose consumer groups exist
    files,    \* the workspace: "none", "empty", "template", or "edited" by the agent
    control,  \* where the control pod's command loop is
    serve,    \* where the serving pod's loop over control:serving is
    streams,  \* streams[s]: entries not yet handled; a handler's entry is the first
    pending,  \* pending[s]: entries to be redelivered
    prompts,  \* history: initial prompts started
    lost,     \* history: the pod was replaced, and the workspace with it
    faults    \* failures so far

backendVars == <<http, results>>
orchVars    == <<task, prompt, due, prompts>>
k8sVars     == <<objects, up, seen, groups, lost>>
podVars     == <<files, control, serve>>
streamVars  == <<streams, pending>>
vars == <<backendVars, orchVars, k8sVars, podVars, streamVars, faults>>

Init ==
    /\ http = "idle"
    /\ results = [id \in Ids |-> {}]
    /\ task = [n \in Tasks |-> "none"]
    /\ prompt = FALSE /\ due = 0 /\ prompts = 0
    /\ objects = {} /\ up = {} /\ seen = {} /\ groups = {"platform"} /\ lost = FALSE
    /\ files = "none" /\ control = "idle" /\ serve = "idle"
    /\ streams = [s \in Streams |-> <<>>]
    /\ pending = [s \in Streams |-> <<>>]
    /\ faults = 0

-----------------------------------------------------------------------------
(* Streams and failures *)

Message(type, id) == [type |-> type, job |-> id]

\* The streams after a publish: nobody reads what precedes the reader's group.
Published(st, s, type, id) ==
    IF Reader(s) \in groups THEN [st EXCEPT ![s] = Append(@, Message(type, id))] ELSE st

Fault ==
    /\ faults < MaxFaults
    /\ faults' = faults + 1

\* The first entry of s has been handled, with st as its publications; its XACK
\* may fail.
Handled(s, st) ==
    /\ streams' = [st EXCEPT ![s] = Tail(@)]
    /\ \/ UNCHANGED <<pending, faults>>
       \/ /\ Fault
          /\ pending' = [pending EXCEPT ![s] = Append(@, Head(streams[s]))]

\* The handler of the first entry of s throws.
Thrown(s, st) ==
    /\ Fault
    /\ streams' = [st EXCEPT ![s] = Tail(@)]
    /\ pending' = [pending EXCEPT ![s] = Append(@, Head(streams[s]))]

\* The reader of s is between two entries.
Between(s) ==
    CASE s = "OrchestatorToControl" -> "control" \in up /\ control = "idle"
      [] s = "ServingToControl" -> "control" \in up
      [] s = "ControlToServing" -> "serve" \in up /\ serve = "idle"
      [] OTHER -> TRUE

\* A sweep redelivers an entry, ahead of the new ones.
Reclaim(s) ==
    /\ pending[s] # <<>>
    /\ Between(s)
    /\ streams' = [streams EXCEPT ![s] = <<Head(pending[s])>> \o @]
    /\ pending' = [pending EXCEPT ![s] = Tail(@)]
    /\ UNCHANGED <<backendVars, orchVars, k8sVars, podVars, faults>>

\* The next entry of s, whose reader is free, has this type.
Reads(s, type) == Between(s) /\ streams[s] # <<>> /\ Head(streams[s]).type = type

-----------------------------------------------------------------------------
(* Backend *)

\* createProject: the rows are inserted and the request is published.
Request ==
    /\ http = "idle"
    /\ http' = "waiting"
    /\ streams' = Published(streams, "BackendToOrchestator", "CREATE_PROJECT", "job")
    /\ UNCHANGED <<results, orchVars, k8sVars, podVars, pending, faults>>

\* orchestatorListener.  Storing a result twice changes nothing.
StoreResult ==
    /\ streams["OrchestatorToBackend"] # <<>>
    /\ LET msg == Head(streams["OrchestatorToBackend"]) IN
        results' = [results EXCEPT ![msg.job] = @ \cup {msg.type}]
    /\ streams' = [streams EXCEPT !["OrchestatorToBackend"] = Tail(@)]
    /\ UNCHANGED <<http, orchVars, k8sVars, podVars, pending, faults>>

\* responseManager.wait finds a verdict (201 or 500), PROJECT_INITIALIZED first.
Answer ==
    /\ http = "waiting"
    /\ results["job"] # {}
    /\ http' = IF "PROJECT_INITIALIZED" \in results["job"] THEN "created" ELSE "failed"
    /\ UNCHANGED <<results, orchVars, k8sVars, podVars, streamVars, faults>>

\* It gives up: 504.
RequestTimesOut ==
    /\ http = "waiting"
    /\ http' = "timedOut"
    /\ UNCHANGED <<results, orchVars, k8sVars, podVars, streamVars, faults>>

-----------------------------------------------------------------------------
(* Kubernetes, as far as the code relies on it *)

\* main of a worker: the groups are created, then the loops and the health
\* server are started.
Boot(w) ==
    /\ "deployment" \in objects
    /\ w \notin up
    /\ up' = up \cup {w}
    /\ groups' = groups \cup {w}
    /\ UNCHANGED <<backendVars, orchVars, objects, seen, lost, podVars, streamVars, faults>>

\* A probe of the worker's health server succeeds.
Probe(w) ==
    /\ w \in up \ seen
    /\ seen' = seen \cup {w}
    /\ UNCHANGED <<backendVars, orchVars, objects, up, groups, lost, podVars, streamVars, faults>>

\* The streams whose entries the workers ws are handling.
InHand(ws) ==
    {s \in Streams :
        \/ s = "OrchestatorToControl" /\ "control" \in ws /\ control # "idle"
        \/ s = "ControlToServing" /\ "serve" \in ws /\ serve # "idle"}

\* The processes of ws die in whatever they were doing.
Stop(ws) ==
    /\ Fault
    /\ up' = up \ ws
    /\ control' = IF "control" \in ws THEN "idle" ELSE control
    /\ serve' = IF "serve" \in ws THEN "idle" ELSE serve
    /\ streams' = [s \in Streams |->
                    IF s \in InHand(ws) THEN Tail(streams[s]) ELSE streams[s]]
    /\ pending' = [s \in Streams |->
                    IF s \in InHand(ws) THEN Append(pending[s], Head(streams[s]))
                    ELSE pending[s]]
    /\ UNCHANGED <<backendVars, orchVars, objects, groups>>

\* A container dies; its report may lag behind.
WorkerCrash(w) ==
    /\ w \in up
    /\ Stop({w})
    /\ seen' \in {seen, seen \ {w}}
    /\ UNCHANGED <<files, lost>>

\* The pod is evicted: the deployment replaces it, with an empty workspace.
PodReplaced ==
    /\ "deployment" \in objects
    /\ Stop(Workers)
    /\ seen' = {}
    /\ files' = "none"
    /\ lost' = TRUE

-----------------------------------------------------------------------------
(* Orchestrator *)

\* ListenBackend: the prompt is kept, the task is started and not awaited.
ListenBackend ==
    /\ Reads("BackendToOrchestator", "CREATE_PROJECT")
    /\ \E n \in Tasks :
        /\ task[n] = "none"
        /\ \A m \in 1..(n - 1) : task[m] # "none"
        /\ task' = [task EXCEPT ![n] = "service"]
    /\ prompt' = TRUE
    /\ Handled("BackendToOrchestator", streams)
    /\ UNCHANGED <<backendVars, due, prompts, k8sVars, podVars>>

\* createProjectPod: the service, then the deployment; existing ones are kept.
CreateObject(n, here, object, next) ==
    /\ task[n] = here
    /\ objects' = objects \cup {object}
    /\ task' = [task EXCEPT ![n] = next]
    /\ UNCHANGED <<backendVars, prompt, due, prompts, up, seen, groups, lost, podVars,
                   streamVars, faults>>

CreateService(n) == CreateObject(n, "service", "service", "deployment")
CreateDeployment(n) == CreateObject(n, "deployment", "deployment", "workers")

\* A call of the Kubernetes API fails, executed or not.
CreateFails(n) ==
    /\ task[n] \in {"service", "deployment"}
    /\ Fault
    /\ objects' \in {objects, objects \cup {task[n]}}
    /\ task' = [task EXCEPT ![n] = "failing"]
    /\ UNCHANGED <<backendVars, prompt, due, prompts, up, seen, groups, lost, podVars,
                   streamVars>>

\* A weaker check: the control container alone.
WorkersStartedControl == "control" \in seen

workersStarted == Workers \subseteq seen

\* waitForWorkers sees both containers started ...
WaitForWorkers(n) ==
    /\ task[n] = "workers"
    /\ workersStarted
    /\ task' = [task EXCEPT ![n] = "dispatch"]
    /\ UNCHANGED <<backendVars, prompt, due, prompts, k8sVars, podVars, streamVars, faults>>

\* ... or gives up, or the API call fails.
WorkersTimeOut(n) ==
    /\ task[n] = "workers"
    /\ task' = [task EXCEPT ![n] = "failing"]
    /\ UNCHANGED <<backendVars, prompt, due, prompts, k8sVars, podVars, streamVars, faults>>

\* The initialization is dispatched to the control pod.
Dispatch(n) ==
    /\ task[n] = "dispatch"
    /\ task' = [task EXCEPT ![n] = "over"]
    /\ streams' = Published(streams, "OrchestatorToControl", "PROJECT_INITIALIZED", "job")
    /\ UNCHANGED <<backendVars, prompt, due, prompts, k8sVars, podVars, pending, faults>>

\* The catch of createProject.
ReportFailure(n) ==
    /\ task[n] = "failing"
    /\ task' = [task EXCEPT ![n] = "over"]
    /\ streams' = Published(streams, "OrchestatorToBackend", "PROJECT_FAILED", "job")
    /\ UNCHANGED <<backendVars, prompt, due, prompts, k8sVars, podVars, pending, faults>>

\* Either publish fails before it is executed: the error is logged, no more.
PublishFails(n) ==
    /\ task[n] \in {"dispatch", "failing"}
    /\ Fault
    /\ task' = [task EXCEPT ![n] = "over"]
    /\ UNCHANGED <<backendVars, prompt, due, prompts, k8sVars, podVars, streamVars>>

\* A bug: the prompt is not taken out of pendingInitialPrompts.
ListenCreatedKeepsPrompt ==
    LET s == "ServingToOrchestrator"
        st == Published(streams, "OrchestatorToBackend", "PROJECT_INITIALIZED", Head(streams[s]).job)
    IN  /\ Reads(s, "PROJECT_CREATED")
        /\ Handled(s, st)
        /\ due' = due + (IF prompt THEN 1 ELSE 0)
        /\ UNCHANGED <<backendVars, prompt, task, prompts, k8sVars, podVars>>

\* Another: a publish that fails is taken for done.
ListenCreatedSwallows ==
    LET s == "ServingToOrchestrator"
        st == Published(streams, "OrchestatorToBackend", "PROJECT_INITIALIZED", Head(streams[s]).job)
    IN  /\ Reads(s, "PROJECT_CREATED")
        /\ \/ Handled(s, st)
           \/ Fault /\ streams' = [streams EXCEPT ![s] = Tail(@)] /\ UNCHANGED pending
        /\ due' = due + (IF prompt THEN 1 ELSE 0)
        /\ prompt' = FALSE
        /\ UNCHANGED <<backendVars, task, prompts, k8sVars, podVars>>

\* ListenServingPod, PROJECT_CREATED: the backend is told, the prompt scheduled.
ListenCreated ==
    LET s == "ServingToOrchestrator"
        st == Published(streams, "OrchestatorToBackend", "PROJECT_INITIALIZED", Head(streams[s]).job)
    IN  /\ Reads(s, "PROJECT_CREATED")
        /\ \/ /\ Handled(s, st)
              /\ due' = due + (IF prompt THEN 1 ELSE 0)
              /\ prompt' = FALSE
           \/ /\ Thrown(s, streams) \/ Thrown(s, st)
              /\ UNCHANGED <<due, prompt>>
        /\ UNCHANGED <<backendVars, task, prompts, k8sVars, podVars>>

\* ListenServingPod, PROJECT_FAILED: forwarded as a reply without a waiter and
\* once more below it.
ListenFailed ==
    LET s == "ServingToOrchestrator"
        id == Head(streams[s]).job
        once == Published(streams, "OrchestatorToBackend", "PROJECT_FAILED", id)
        twice == Published(once, "OrchestatorToBackend", "PROJECT_FAILED", id)
    IN  /\ Reads(s, "PROJECT_FAILED")
        /\ Handled(s, twice) \/ Thrown(s, streams) \/ Thrown(s, once)
        /\ UNCHANGED <<backendVars, orchVars, k8sVars, podVars>>

\* The timer fires: handlePrompt publishes the initial prompt.
StartPrompt ==
    /\ due > 0
    /\ due' = due - 1
    /\ prompts' = prompts + 1
    /\ \/ /\ streams' = Published(streams, "OrchestatorToControl", "PROMPT", "none")
          /\ UNCHANGED faults
       \/ Fault /\ UNCHANGED streams
    /\ UNCHANGED <<backendVars, task, prompt, k8sVars, podVars, pending>>

\* The orchestrator dies: tasks, prompts and timers were only in memory.
OrchestratorCrash ==
    /\ Fault
    /\ prompt \/ due > 0 \/ \E n \in Tasks : task[n] \notin {"none", "over"}
    /\ task' = [n \in Tasks |-> IF task[n] = "none" THEN "none" ELSE "over"]
    /\ prompt' = FALSE /\ due' = 0
    /\ UNCHANGED <<backendVars, prompts, k8sVars, podVars, streamVars>>

-----------------------------------------------------------------------------
(* Control pod *)

\* PROJECT_INITIALIZED: the template is pulled; the handler holds the entry from
\* here on, so processing never has the project when the next one is read.  A
\* file that cannot be downloaded is skipped.
PullTemplate ==
    /\ Reads("OrchestatorToControl", "PROJECT_INITIALIZED")
    /\ \/ /\ control' = "tell"
          /\ files' \in {"template", IF files = "none" THEN "empty" ELSE files}
       \/ /\ control' = "report"
          /\ files' \in {files, IF files = "none" THEN "empty" ELSE files}
    /\ UNCHANGED <<backendVars, orchVars, k8sVars, serve, streamVars, faults>>

\* The serving pod is told; a publish that fails ends in the catch.
TellServing ==
    /\ control = "tell"
    /\ \/ /\ control' = "register"
          /\ streams' = Published(streams, "ControlToServing", "PROJECT_INITIALIZED",
                                  Head(streams["OrchestatorToControl"]).job)
          /\ UNCHANGED faults
       \/ /\ control' = "report"
          /\ Fault
          /\ streams' \in {streams, Published(streams, "ControlToServing", "PROJECT_INITIALIZED",
                                              Head(streams["OrchestatorToControl"]).job)}
    /\ UNCHANGED <<backendVars, orchVars, k8sVars, files, serve, pending>>

\* waitForServingConfirmation sets processing.
Register ==
    /\ control = "register"
    /\ control' = "wait"
    /\ UNCHANGED <<backendVars, orchVars, k8sVars, files, serve, streamVars, faults>>

\* Its timer.
ConfirmationTimesOut ==
    /\ control = "wait"
    /\ control' = "report"
    /\ UNCHANGED <<backendVars, orchVars, k8sVars, files, serve, streamVars, faults>>

\* A bug: the resolver stays in processing when its timer has fired, and a late
\* confirmation resolves it.
ListenServingLate ==
    /\ "control" \in up
    /\ streams["ServingToControl"] # <<>>
    /\ control' = IF control \in {"tell", "register", "report"} THEN control
                  ELSE IF Head(streams["ServingToControl"]).type = "CONFIRMED"
                  THEN "done" ELSE "report"
    /\ Handled("ServingToControl", streams)
    /\ UNCHANGED <<backendVars, orchVars, k8sVars, files, serve>>

\* ListenServing: a confirmation resolves the wait; without one it is dropped.
ListenServing ==
    /\ "control" \in up
    /\ streams["ServingToControl"] # <<>>
    /\ control' = IF control # "wait" THEN control
                  ELSE IF Head(streams["ServingToControl"]).type = "CONFIRMED"
                  THEN "done" ELSE "report"
    /\ Handled("ServingToControl", streams)
    /\ UNCHANGED <<backendVars, orchVars, k8sVars, files, serve>>

InitDone ==
    /\ control = "done"
    /\ control' = "idle"
    /\ Handled("OrchestatorToControl", streams)
    /\ UNCHANGED <<backendVars, orchVars, k8sVars, files, serve>>

ReportTo(id) ==
    LET s == "OrchestatorToControl"
        st == Published(streams, "ServingToOrchestrator", "PROJECT_FAILED", id)
    IN  /\ control = "report"
        /\ control' = "idle"
        /\ Handled(s, st) \/ Thrown(s, streams) \/ Thrown(s, st)
        /\ UNCHANGED <<backendVars, orchVars, k8sVars, files, serve>>

\* The report as one might repair it: with the job id of the entry.
ReportWithJob == ReportTo(Head(streams["OrchestatorToControl"]).job)

\* A bug: nothing is reported.
ReportNothing ==
    /\ control = "report"
    /\ control' = "idle"
    /\ Handled("OrchestatorToControl", streams)
    /\ UNCHANGED <<backendVars, orchVars, k8sVars, files, serve>>

\* The catch: PROJECT_FAILED, in the serving pod's name and without the job id.
Report == ReportTo("none")

\* PROMPT: the agent may work on the files, whatever is there.
RunPrompt ==
    /\ Reads("OrchestatorToControl", "PROMPT")
    /\ files' \in {files, "edited"}
    /\ Handled("OrchestatorToControl", streams)
    /\ UNCHANGED <<backendVars, orchVars, k8sVars, control, serve>>

-----------------------------------------------------------------------------
(* Serving pod *)

\* A weaker check: the directory exists.
DirectoryExists == files # "none"

HasFiles == files \notin {"none", "empty"}

\* PROJECT_INITIALIZED: the workspace is looked at.
CheckWorkspace ==
    /\ Reads("ControlToServing", "PROJECT_INITIALIZED")
    /\ serve' = IF HasFiles THEN "confirm" ELSE "refuse"
    /\ UNCHANGED <<backendVars, orchVars, k8sVars, files, control, streamVars, faults>>

ServeJob == Head(streams["ControlToServing"]).job

\* Inside the try: the control pod is told, then the orchestrator.  A publish
\* that fails, executed or not, ends in the catch.
Confirm ==
    LET st == Published(streams, "ServingToControl", "CONFIRMED", ServeJob) IN
    /\ serve = "confirm"
    /\ \/ serve' = "created" /\ streams' = st /\ UNCHANGED faults
       \/ serve' = "refuse" /\ Fault /\ streams' \in {streams, st}
    /\ UNCHANGED <<backendVars, orchVars, k8sVars, files, control, pending>>

Created ==
    LET s == "ControlToServing"
        st == Published(streams, "ServingToOrchestrator", "PROJECT_CREATED", ServeJob)
    IN  /\ serve = "created"
        /\ \/ serve' = "idle" /\ Handled(s, st)
           \/ serve' = "refuse" /\ Fault /\ streams' \in {streams, st} /\ UNCHANGED pending
        /\ UNCHANGED <<backendVars, orchVars, k8sVars, files, control>>

\* The catch: both are told; a publish that fails makes the handler throw.
Refuse ==
    LET s == "ControlToServing"
        st == Published(streams, "ServingToControl", "REFUSED", ServeJob)
    IN  /\ serve = "refuse"
        /\ \/ serve' = "failed" /\ streams' = st /\ UNCHANGED <<pending, faults>>
           \/ serve' = "idle" /\ (Thrown(s, streams) \/ Thrown(s, st))
        /\ UNCHANGED <<backendVars, orchVars, k8sVars, files, control>>

Failed ==
    LET s == "ControlToServing"
        st == Published(streams, "ServingToOrchestrator", "PROJECT_FAILED", ServeJob)
    IN  /\ serve = "failed"
        /\ serve' = "idle"
        /\ Handled(s, st) \/ Thrown(s, streams) \/ Thrown(s, st)
        /\ UNCHANGED <<backendVars, orchVars, k8sVars, files, control>>

-----------------------------------------------------------------------------
BackendStep == Request \/ StoreResult \/ Answer \/ RequestTimesOut

TaskStep(n) ==
    \/ CreateService(n) \/ CreateDeployment(n) \/ WaitForWorkers(n) \/ Dispatch(n)
    \/ ReportFailure(n)

OrchestratorStep == ListenBackend \/ ListenCreated \/ ListenFailed \/ StartPrompt

ControlStep == PullTemplate \/ TellServing \/ Register \/ InitDone \/ Report \/ RunPrompt

ServeStep == CheckWorkspace \/ Confirm \/ Created \/ Refuse \/ Failed

Failure ==
    \/ OrchestratorCrash \/ PodReplaced
    \/ \E w \in Workers : WorkerCrash(w)
    \/ \E n \in Tasks : CreateFails(n) \/ PublishFails(n)

Next ==
    \/ BackendStep
    \/ OrchestratorStep
    \/ \E n \in Tasks : TaskStep(n) \/ WorkersTimeOut(n)
    \/ \E w \in Workers : Boot(w) \/ Probe(w)
    \/ ControlStep \/ ListenServing \/ ConfirmationTimesOut
    \/ ServeStep
    \/ \E s \in Streams : Reclaim(s)
    \/ Failure

\* The loops read on and sweep, handlers and timers run, containers are restarted.
Fairness ==
    /\ WF_vars(StoreResult)
    /\ WF_vars(ListenCreated) /\ WF_vars(ListenFailed)
    /\ WF_vars(ControlStep) /\ WF_vars(ListenServing) /\ WF_vars(ConfirmationTimesOut)
    /\ WF_vars(ServeStep)
    /\ \A w \in Workers : WF_vars(Boot(w))
    /\ \A s \in Streams : WF_vars(Reclaim(s))

Spec == Init /\ [][Next]_vars
FairSpec == Spec /\ Fairness

-----------------------------------------------------------------------------
(* Properties *)

Messages == [type : Types, job : Ids]

\* Every variable has its type; whoever is handling an entry has one, and a
\* process that is down handles none.
TypeOK ==
    /\ http \in {"idle", "waiting", "created", "failed", "timedOut"}
    /\ results \in [Ids -> SUBSET Types]
    /\ task \in [Tasks -> {"none", "service", "deployment", "workers", "dispatch", "failing", "over"}]
    /\ prompt \in BOOLEAN /\ due \in Nat /\ prompts \in Nat /\ lost \in BOOLEAN
    /\ objects \subseteq {"service", "deployment"}
    /\ up \subseteq Workers /\ seen \subseteq Workers
    /\ groups \subseteq Workers \cup {"platform"} /\ "platform" \in groups
    /\ files \in {"none", "empty", "template", "edited"}
    /\ control \in {"idle", "tell", "register", "wait", "done", "report"}
    /\ serve \in {"idle", "confirm", "created", "refuse", "failed"}
    /\ streams \in [Streams -> Seq(Messages)] /\ pending \in [Streams -> Seq(Messages)]
    /\ faults \in Nat
    /\ control # "idle" => "control" \in up /\ streams["OrchestatorToControl"] # <<>>
    /\ serve # "idle" => "serve" \in up /\ streams["ControlToServing"] # <<>>

\* decision.md:39: entries published before a group exists are missed.  Whoever is
\* about to publish to a pod finds the group of that pod.
RequestsAreSeen ==
    /\ (\E n \in Tasks : task[n] = "dispatch") \/ due > 0 => "control" \in groups
    /\ control = "tell" => "serve" \in groups
    /\ serve \in {"confirm", "refuse"} => "control" \in groups

\* As long as the pod is not replaced, a project that the backend was told is
\* created has a workspace with files, and so does one whose prompt is run.
WorkspaceFirst ==
    ~lost =>
        /\ "PROJECT_INITIALIZED" \in results["job"] => files \in {"template", "edited"}
        /\ Reads("OrchestatorToControl", "PROMPT") => files \in {"template", "edited"}

\* Without failures a request gets one verdict under its job id, however the
\* timeouts fall; it is never told both.
OneVerdict == faults = 0 => Cardinality(results["job"]) <= 1

\* An initial prompt is started at most once for each time the request was
\* handled, also when PROJECT_CREATED is redelivered.
PromptPerRequest ==
    prompts + due + (IF prompt THEN 1 ELSE 0) <= Cardinality({n \in Tasks : task[n] # "none"})

HasEntry(s, type) == type \in {streams[s][i].type : i \in DOMAIN streams[s]}

\* What the serving pod reported as created reaches the backend, whatever fails.
CreatedReachesBackend ==
    HasEntry("ServingToOrchestrator", "PROJECT_CREATED")
        ~> ("PROJECT_INITIALIZED" \in results["job"])

\* A dispatched initialization ends in a verdict, under the job or under the
\* project, whatever fails on the way.
InitSettles ==
    HasEntry("OrchestatorToControl", "PROJECT_INITIALIZED")
        ~> (results["job"] \cup results["none"] # {})

\* correlation.ts:11 keeps the project as a key "only for callers that never had a
\* jobId".  The control pod's catch had one and reports without it.
VerdictsCarryJob == results["none"] = {}

=============================================================================
