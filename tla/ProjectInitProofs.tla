--------------------------- MODULE ProjectInitProofs ---------------------------
(***************************************************************************)
(* Theorems about ProjectInit for any number of tasks and failures.        *)
(***************************************************************************)
EXTENDS ProjectInit, FiniteSetTheorems, SequenceTheorems, TLAPS

-----------------------------------------------------------------------------
(* Streams *)

StreamsType == [Streams -> Seq(Messages)]

\* The first entry of s leaves it, and may come back.
Leaves(s, st) ==
    /\ streams' = [st EXCEPT ![s] = Tail(@)]
    /\ pending' \in {pending, [pending EXCEPT ![s] = Append(@, Head(streams[s]))]}

\* A publish adds at most its message, to its stream.
LEMMA PublishedFacts ==
    ASSUME NEW st \in StreamsType, NEW s \in Streams, NEW type \in Types, NEW id \in Ids
    PROVE  /\ Published(st, s, type, id) \in StreamsType
           /\ \A r \in Streams : r # s => Published(st, s, type, id)[r] = st[r]
           /\ \/ Published(st, s, type, id)[s] = st[s]
              \/ Published(st, s, type, id)[s] = Append(st[s], Message(type, id))
<1>1. Message(type, id) \in Messages
    BY DEF Message, Messages
<1>2. Append(st[s], Message(type, id)) \in Seq(Messages)
    BY <1>1, AppendProperties DEF StreamsType
<1> QED
    BY <1>2 DEF Published, StreamsType

\* Ending a handler, well or badly, is an entry leaving its stream.
LEMMA HandledLeaves ==
    ASSUME NEW s, NEW st, Handled(s, st) \/ Thrown(s, st), faults \in Nat
    PROVE  Leaves(s, st) /\ faults' \in Nat
BY DEF Handled, Thrown, Leaves, Fault

\* What an entry that leaves changes.
LEMMA LeavesFacts ==
    ASSUME streams \in StreamsType, pending \in StreamsType, NEW st \in StreamsType,
           NEW s \in Streams, st[s] # <<>>, streams[s] # <<>>, Leaves(s, st)
    PROVE  /\ streams' \in StreamsType /\ pending' \in StreamsType
           /\ streams'[s] = Tail(st[s])
           /\ \A r \in Streams : r # s => streams'[r] = st[r] /\ pending'[r] = pending[r]
           /\ pending'[s] \in {pending[s], Append(pending[s], Head(streams[s]))}
<1>1. Tail(st[s]) \in Seq(Messages)
    BY HeadTailProperties DEF StreamsType
<1>2. Append(pending[s], Head(streams[s])) \in Seq(Messages)
    BY AppendProperties, HeadTailProperties DEF StreamsType
<1> QED
    BY <1>1, <1>2 DEF Leaves, StreamsType

\* What a loop that reads an entry relies on.
LEMMA ReadsFacts ==
    ASSUME NEW s \in Streams, NEW type, Reads(s, type), streams \in StreamsType
    PROVE  /\ streams[s] # <<>> /\ Head(streams[s]) \in Messages
           /\ Head(streams[s]).type = type /\ Head(streams[s]).job \in Ids
           /\ s = "OrchestatorToControl" => "control" \in up /\ control = "idle"
           /\ s = "ControlToServing" => "serve" \in up /\ serve = "idle"
<1>1. streams[s] # <<>> /\ Head(streams[s]).type = type /\ Between(s)
    BY DEF Reads
<1>2. Head(streams[s]) \in Messages
    BY <1>1, HeadTailProperties DEF StreamsType
<1> QED
    BY <1>1, <1>2 DEF Between, Messages

-----------------------------------------------------------------------------
(* Type correctness *)

\* The part of TypeOK that speaks of streams and handlers.
HandlersType ==
    /\ streams \in StreamsType /\ pending \in StreamsType
    /\ control \in {"idle", "tell", "register", "wait", "done", "report"}
    /\ serve \in {"idle", "confirm", "created", "refuse", "failed"}
    /\ control # "idle" => "control" \in up /\ streams["OrchestatorToControl"] # <<>>
    /\ serve # "idle" => "serve" \in up /\ streams["ControlToServing"] # <<>>

\* The rest.
StateType ==
    /\ http \in {"idle", "waiting", "created", "failed", "timedOut"}
    /\ results \in [Ids -> SUBSET Types]
    /\ task \in [Tasks -> {"none", "service", "deployment", "workers", "dispatch", "failing", "over"}]
    /\ prompt \in BOOLEAN /\ due \in Nat /\ prompts \in Nat /\ lost \in BOOLEAN
    /\ objects \subseteq {"service", "deployment"}
    /\ up \subseteq Workers /\ seen \subseteq Workers
    /\ groups \subseteq Workers \cup {"platform"} /\ "platform" \in groups
    /\ files \in {"none", "empty", "template", "edited"}
    /\ faults \in Nat

LEMMA TypeParts == TypeOK <=> StateType /\ HandlersType
BY DEF TypeOK, StateType, HandlersType, StreamsType

\* A publish outside a handler leaves the entries in hand where they are.
LEMMA PublishKeepsHandlers ==
    ASSUME HandlersType, NEW s \in Streams, NEW type \in Types, NEW id \in Ids,
           streams' \in {streams, Published(streams, s, type, id)},
           UNCHANGED <<pending, up>>,
           control' \in {"idle", "tell", "register", "wait", "done", "report"},
           serve' \in {"idle", "confirm", "created", "refuse", "failed"},
           control' # "idle" => control # "idle",
           serve' # "idle" => serve # "idle"
    PROVE  HandlersType'
<1> DEFINE st == Published(streams, s, type, id)
<1>1. /\ st \in StreamsType
      /\ \A r \in Streams : st[r] = streams[r] \/ st[r] = Append(streams[r], Message(type, id))
    BY PublishedFacts DEF HandlersType
<1>2. \A r \in Streams : streams[r] \in Seq(Messages)
    BY DEF HandlersType, StreamsType
<1>3. Message(type, id) \in Messages
    BY DEF Message, Messages
<1>4. \A r \in Streams : streams[r] # <<>> => st[r] # <<>>
  <2> SUFFICES ASSUME NEW r \in Streams, streams[r] # <<>>, st[r] = Append(streams[r], Message(type, id))
               PROVE  st[r] # <<>>
      BY <1>1
  <2> QED
      BY <1>2, <1>3, AppendProperties
<1>5. streams' \in StreamsType /\ \A r \in Streams : streams[r] # <<>> => streams'[r] # <<>>
    BY <1>1, <1>4 DEF HandlersType
<1>6. "OrchestatorToControl" \in Streams /\ "ControlToServing" \in Streams
    BY DEF Streams
<1> QED
    BY <1>5, <1>6 DEF HandlersType

\* An entry that leaves a stream outside of the workers' handlers does so too.
LEMMA LeavesKeepsHandlers ==
    ASSUME HandlersType, NEW s \in Streams, NEW st \in StreamsType, streams[s] # <<>>, st[s] # <<>>,
           Leaves(s, st), UNCHANGED up,
           control' \in {"idle", "tell", "register", "wait", "done", "report"},
           serve' \in {"idle", "confirm", "created", "refuse", "failed"},
           \A r \in Streams : r # s => st[r] = streams[r] \/ \E m \in Messages : st[r] = Append(streams[r], m),
           control' # "idle" => control # "idle" /\ s # "OrchestatorToControl",
           serve' # "idle" => serve # "idle" /\ s # "ControlToServing"
    PROVE  HandlersType'
<1>1. streams' \in StreamsType /\ pending' \in StreamsType /\ \A r \in Streams : r # s => streams'[r] = st[r]
    BY LeavesFacts DEF HandlersType
<1>2. \A r \in Streams : r # s /\ streams[r] # <<>> => st[r] # <<>>
  <2> SUFFICES ASSUME NEW r \in Streams, streams[r] # <<>>, NEW m \in Messages, st[r] = Append(streams[r], m)
               PROVE  st[r] # <<>>
      OBVIOUS
  <2>1. streams[r] \in Seq(Messages)
      BY DEF HandlersType, StreamsType
  <2> QED
      BY <2>1, AppendProperties
<1>3. "OrchestatorToControl" \in Streams /\ "ControlToServing" \in Streams
    BY DEF Streams
<1> QED
    BY <1>1, <1>2, <1>3 DEF HandlersType

\* What a step may do to the variables other than streams and handlers.
LEMMA StateStep ==
    ASSUME TypeOK, [Next]_vars
    PROVE  StateType'
<1> USE TypeParts
<1>a. StateType /\ HandlersType /\ faults \in Nat
    BY DEF StateType
<1>1. CASE Request \/ Answer \/ RequestTimesOut
    BY <1>1, <1>a DEF Request, Answer, RequestTimesOut, StateType, backendVars, orchVars, k8sVars, podVars, streamVars, vars, Fault
<1>2. CASE StoreResult
  <2> DEFINE msg == Head(streams["OrchestatorToBackend"])
  <2>1. msg \in Messages
      BY <1>2, <1>a, HeadTailProperties DEF StoreResult, HandlersType, StreamsType, Streams
  <2>2. msg.type \in Types /\ msg.job \in Ids
      BY <2>1 DEF Messages
  <2>3. results' = [results EXCEPT ![msg.job] = @ \cup {msg.type}]
      BY <1>2 DEF StoreResult
  <2>4. results' \in [Ids -> SUBSET Types]
      BY <1>a, <2>2, <2>3 DEF StateType
  <2> QED
      BY <1>2, <1>a, <2>4 DEF StoreResult, StateType, backendVars, orchVars, k8sVars, podVars, streamVars, vars, Fault
<1>3. CASE ListenBackend
  <2>1. faults' \in Nat
      BY <1>3, <1>a, HandledLeaves DEF ListenBackend
  <2> QED
      BY <1>3, <1>a, <2>1 DEF ListenBackend, StateType, backendVars, orchVars, k8sVars, podVars, streamVars, vars, Fault
<1>4. CASE ListenCreated
  <2>1. faults' \in Nat
      BY <1>4, <1>a, HandledLeaves DEF ListenCreated
  <2>2. due' \in Nat
      BY <1>4, <1>a DEF ListenCreated, StateType
  <2> QED
      BY <1>4, <1>a, <2>1, <2>2 DEF ListenCreated, StateType, backendVars, orchVars, k8sVars, podVars, streamVars, vars, Fault
<1>5. CASE ListenFailed
  <2>1. faults' \in Nat
      BY <1>5, <1>a, HandledLeaves DEF ListenFailed
  <2> QED
      BY <1>5, <1>a, <2>1 DEF ListenFailed, StateType, backendVars, orchVars, k8sVars, podVars, streamVars, vars, Fault
<1>6. CASE StartPrompt
    BY <1>6, <1>a DEF StartPrompt, StateType, backendVars, orchVars, k8sVars, podVars, streamVars, vars, Fault
<1>7. CASE \E k \in Tasks : TaskStep(k) \/ WorkersTimeOut(k) \/ CreateFails(k) \/ PublishFails(k)
  <2> PICK k \in Tasks : TaskStep(k) \/ WorkersTimeOut(k) \/ CreateFails(k) \/ PublishFails(k)
      BY <1>7
  <2>1. CASE CreateService(k)
      BY <2>1, <1>a DEF CreateService, CreateObject, StateType, backendVars, orchVars, k8sVars, podVars, streamVars, vars, Fault
  <2>2. CASE CreateDeployment(k)
      BY <2>2, <1>a DEF CreateDeployment, CreateObject, StateType, backendVars, orchVars, k8sVars, podVars, streamVars, vars, Fault
  <2>3. CASE WaitForWorkers(k) \/ WorkersTimeOut(k)
      BY <2>3, <1>a DEF WaitForWorkers, WorkersTimeOut, StateType, backendVars, orchVars, k8sVars, podVars, streamVars, vars, Fault
  <2>4. CASE Dispatch(k) \/ ReportFailure(k)
      BY <2>4, <1>a DEF Dispatch, ReportFailure, StateType, backendVars, orchVars, k8sVars, podVars, streamVars, vars, Fault
  <2>5. CASE CreateFails(k)
      BY <2>5, <1>a DEF CreateFails, StateType, backendVars, orchVars, k8sVars, podVars, streamVars, vars, Fault
  <2>6. CASE PublishFails(k)
      BY <2>6, <1>a DEF PublishFails, StateType, backendVars, orchVars, k8sVars, podVars, streamVars, vars, Fault
  <2> QED
      BY <1>7, <2>1, <2>2, <2>3, <2>4, <2>5, <2>6 DEF TaskStep
<1>8. CASE \E w \in Workers : Boot(w) \/ Probe(w)
    BY <1>8, <1>a DEF Boot, Probe, StateType, backendVars, orchVars, k8sVars, podVars, streamVars, vars, Fault
<1>9. CASE PullTemplate \/ TellServing \/ Register \/ ConfirmationTimesOut
  <2>1. CASE PullTemplate
      BY <2>1, <1>a DEF PullTemplate, StateType, backendVars, orchVars, k8sVars, podVars, streamVars, vars, Fault
  <2>2. CASE TellServing
      BY <2>2, <1>a DEF TellServing, StateType, backendVars, orchVars, k8sVars, podVars, streamVars, vars, Fault
  <2>3. CASE Register \/ ConfirmationTimesOut
      BY <2>3, <1>a DEF Register, ConfirmationTimesOut, StateType, backendVars, orchVars, k8sVars, podVars, streamVars, vars, Fault
  <2> QED
      BY <1>9, <2>1, <2>2, <2>3
<1>10. CASE ListenServing \/ InitDone \/ Report \/ RunPrompt
  <2>1. faults' \in Nat
      BY <1>10, <1>a, HandledLeaves DEF ListenServing, InitDone, Report, ReportTo, RunPrompt
  <2> QED
      BY <1>10, <1>a, <2>1 DEF ListenServing, InitDone, Report, ReportTo, RunPrompt, StateType, backendVars, orchVars, k8sVars, podVars, streamVars, vars, Fault
<1>11. CASE ServeStep
  <2>1. faults' \in Nat
      BY <1>11, <1>a, HandledLeaves DEF ServeStep, CheckWorkspace, Confirm, Created, Refuse, Failed, Fault
  <2> QED
      BY <1>11, <1>a, <2>1 DEF ServeStep, CheckWorkspace, Confirm, Created, Refuse, Failed, StateType, backendVars, orchVars, k8sVars, podVars, streamVars, vars, Fault
<1>12. CASE \E s \in Streams : Reclaim(s)
    BY <1>12, <1>a DEF Reclaim, StateType, backendVars, orchVars, k8sVars, podVars, streamVars, vars, Fault
<1>13. CASE OrchestratorCrash
  <2>1. task' \in [Tasks -> {"none", "service", "deployment", "workers", "dispatch", "failing", "over"}]
      BY <1>13 DEF OrchestratorCrash
  <2>2. Fault /\ prompt' = FALSE /\ due' = 0 /\ UNCHANGED <<backendVars, prompts, k8sVars, podVars>>
      BY <1>13, Zenon DEF OrchestratorCrash
  <2>3. prompt' \in BOOLEAN
      BY <2>2
  <2>4. due' \in Nat /\ faults' \in Nat
      BY <1>a, <2>2 DEF Fault
  <2>5. UNCHANGED <<http, results, prompts, objects, up, seen, groups, lost, files>>
      BY <2>2 DEF backendVars, k8sVars, podVars
  <2> QED
      BY <1>a, <2>1, <2>3, <2>4, <2>5 DEF StateType
<1>14. CASE PodReplaced \/ \E w \in Workers : WorkerCrash(w)
  <2>1. CASE PodReplaced
      BY <2>1, <1>a DEF PodReplaced, Stop, StateType, backendVars, orchVars, k8sVars, podVars, streamVars, vars, Fault
  <2>2. CASE \E w \in Workers : WorkerCrash(w)
      BY <2>2, <1>a DEF WorkerCrash, Stop, StateType, backendVars, orchVars, k8sVars, podVars, streamVars, vars, Fault
  <2> QED
      BY <1>14, <2>1, <2>2
<1>15. CASE UNCHANGED vars
    BY <1>15, <1>a DEF StateType, backendVars, orchVars, k8sVars, podVars, streamVars, vars, Fault
<1> QED
    BY <1>1, <1>2, <1>3, <1>4, <1>5, <1>6, <1>7, <1>8, <1>9, <1>10, <1>11, <1>12, <1>13, <1>14, <1>15 DEF Next, BackendStep, OrchestratorStep, ControlStep, Failure

\* What a publication adds is one message.
LEMMA PublishedAppends ==
    ASSUME NEW st \in StreamsType, NEW s \in Streams, NEW type \in Types, NEW id \in Ids
    PROVE  \A r \in Streams :
               \/ Published(st, s, type, id)[r] = st[r]
               \/ \E m \in Messages : Published(st, s, type, id)[r] = Append(st[r], m)
<1>1. Message(type, id) \in Messages
    BY DEF Message, Messages
<1> QED
    BY <1>1, PublishedFacts

\* The job of the entry in hand.
LEMMA EntryInHand ==
    ASSUME HandlersType, NEW s \in Streams, streams[s] # <<>>
    PROVE  Head(streams[s]) \in Messages /\ Head(streams[s]).job \in Ids
<1>1. Head(streams[s]) \in Messages
    BY HeadTailProperties DEF HandlersType, StreamsType
<1> QED
    BY <1>1 DEF Messages

\* A stream a publication does not go to keeps its first entry.
LEMMA PublishedElsewhere ==
    ASSUME HandlersType, NEW s \in Streams, NEW r \in Streams, r # s, streams[r] # <<>>,
           NEW type \in Types, NEW id \in Ids
    PROVE  /\ Published(streams, s, type, id) \in StreamsType
           /\ Published(streams, s, type, id)[r] # <<>>
BY PublishedFacts DEF HandlersType

\* The streams and the handlers' entries stay what TypeOK says of them.
LEMMA HandlersStep ==
    ASSUME TypeOK, [Next]_vars
    PROVE  HandlersType'
<1>a. HandlersType /\ faults \in Nat /\ streams \in StreamsType
    BY TypeParts DEF StateType, HandlersType
<1>b. /\ {"BackendToOrchestator", "OrchestatorToControl", "ControlToServing",
           "ServingToControl", "ServingToOrchestrator", "OrchestatorToBackend"} = Streams
      /\ "job" \in Ids /\ "none" \in Ids
    BY DEF Streams, Ids
<1>c. /\ {"CREATE_PROJECT", "PROJECT_INITIALIZED", "CONFIRMED", "REFUSED",
           "PROJECT_CREATED", "PROJECT_FAILED", "PROMPT"} = Types
    BY DEF Types
<1>d. /\ control \in {"idle", "tell", "register", "wait", "done", "report"}
      /\ serve \in {"idle", "confirm", "created", "refuse", "failed"}
    BY <1>a DEF HandlersType
<1>1. CASE Request
    BY <1>1, <1>a, <1>b, <1>c, <1>d, PublishKeepsHandlers DEF Request, podVars, k8sVars
<1>2. CASE StartPrompt
    BY <1>2, <1>a, <1>b, <1>c, <1>d, PublishKeepsHandlers DEF StartPrompt, podVars, k8sVars
<1>3. CASE \E n \in Tasks : Dispatch(n) \/ ReportFailure(n)
    BY <1>3, <1>a, <1>b, <1>c, <1>d, PublishKeepsHandlers DEF Dispatch, ReportFailure, podVars, k8sVars
<1>4. CASE StoreResult
  <2>1. Leaves("OrchestatorToBackend", streams) /\ UNCHANGED <<up, control, serve>>
      BY <1>4 DEF StoreResult, Leaves, podVars, k8sVars
  <2> QED
      BY <1>4, <2>1, <1>a, <1>b, <1>d, LeavesKeepsHandlers DEF StoreResult
<1>5. CASE ListenBackend
  <2>1. /\ Leaves("BackendToOrchestator", streams) /\ UNCHANGED <<up, control, serve>>
        /\ streams["BackendToOrchestator"] # <<>>
      BY <1>5, <1>a, <1>b, HandledLeaves, ReadsFacts DEF ListenBackend, podVars, k8sVars
  <2> QED
      BY <2>1, <1>a, <1>b, <1>d, LeavesKeepsHandlers
<1>6. CASE ListenCreated \/ ListenFailed
  <2> DEFINE s == "ServingToOrchestrator"
             id == Head(streams[s]).job
             created == Published(streams, "OrchestatorToBackend", "PROJECT_INITIALIZED", id)
             once == Published(streams, "OrchestatorToBackend", "PROJECT_FAILED", id)
             twice == Published(once, "OrchestatorToBackend", "PROJECT_FAILED", id)
  <2>1. streams[s] # <<>> /\ UNCHANGED <<up, control, serve>> /\ id \in Ids
      BY <1>6, <1>a, <1>b, ReadsFacts DEF ListenCreated, ListenFailed, podVars, k8sVars
  <2>2. Leaves(s, streams) \/ Leaves(s, created) \/ Leaves(s, once) \/ Leaves(s, twice)
      BY <1>6, <1>a, HandledLeaves DEF ListenCreated, ListenFailed
  <2>3. \A st \in {created, once} :
           /\ st \in StreamsType
           /\ \A r \in Streams : r # "OrchestatorToBackend" => st[r] = streams[r]
           /\ st[s] # <<>>
           /\ \A r \in Streams : st[r] = streams[r] \/ \E m \in Messages : st[r] = Append(streams[r], m)
    <3> HIDE DEF id
    <3>1. ASSUME NEW type \in Types
          PROVE  LET st == Published(streams, "OrchestatorToBackend", type, id) IN
                 /\ st \in StreamsType
                 /\ \A r \in Streams : r # "OrchestatorToBackend" => st[r] = streams[r]
                 /\ \A r \in Streams : st[r] = streams[r] \/ \E m \in Messages : st[r] = Append(streams[r], m)
      <4>1. "OrchestatorToBackend" \in Streams
          BY <1>b
      <4> QED
          BY <4>1, <2>1, <1>a, PublishedFacts, PublishedAppends
    <3>2. "PROJECT_INITIALIZED" \in Types /\ "PROJECT_FAILED" \in Types
        BY <1>c
    <3> QED
        BY <3>1, <3>2, <2>1, <1>b
  <2>4. CASE Leaves(s, twice)
    <3>1. /\ twice \in StreamsType
          /\ \A r \in Streams : r # "OrchestatorToBackend" => twice[r] = streams[r]
      <4>1. once \in StreamsType /\ "OrchestatorToBackend" \in Streams /\ "PROJECT_FAILED" \in Types
          BY <2>3, <1>b, <1>c
      <4> HIDE DEF id, once
      <4>2. /\ twice \in StreamsType
            /\ \A r \in Streams : r # "OrchestatorToBackend" => twice[r] = once[r]
          BY <2>1, <4>1, PublishedFacts
      <4> QED
          BY <2>3, <4>2
    <3>2. streams' \in StreamsType /\ pending' \in StreamsType
          /\ \A r \in Streams : r # s => streams'[r] = twice[r]
        BY <2>1, <2>4, <3>1, <1>a, <1>b, LeavesFacts DEF HandlersType
    <3> QED
        BY <2>1, <3>1, <3>2, <1>a, <1>b DEF HandlersType
  <2>5. CASE Leaves(s, created) \/ Leaves(s, once) \/ Leaves(s, streams)
      BY <2>1, <2>3, <2>5, <1>a, <1>b, <1>d, LeavesKeepsHandlers
  <2> QED
      BY <2>2, <2>4, <2>5
<1>7. CASE PullTemplate
    BY <1>7, <1>a, <1>b, ReadsFacts DEF PullTemplate, HandlersType, StreamsType, streamVars, k8sVars
<1>8. CASE TellServing
  <2>1. control # "idle" /\ streams["OrchestatorToControl"] # <<>> /\ UNCHANGED <<up, serve, pending>>
      BY <1>8, <1>a DEF TellServing, HandlersType, k8sVars
  <2>2. Head(streams["OrchestatorToControl"]).job \in Ids
      BY <2>1, <1>a, <1>b, EntryInHand
  <2>3. control' \in {"register", "report"}
      BY <1>8 DEF TellServing
  <2>4. streams' \in {streams, Published(streams, "ControlToServing", "PROJECT_INITIALIZED",
                                          Head(streams["OrchestatorToControl"]).job)}
      BY <1>8 DEF TellServing
  <2> QED
      BY <2>1, <2>2, <2>3, <2>4, <1>a, <1>b, <1>c, <1>d, PublishKeepsHandlers
<1>9. CASE Register \/ ConfirmationTimesOut
    BY <1>9, <1>a DEF Register, ConfirmationTimesOut, HandlersType, StreamsType, streamVars, k8sVars
<1>10. CASE ListenServing
  <2>1. Leaves("ServingToControl", streams) /\ UNCHANGED <<up, serve>> /\ streams["ServingToControl"] # <<>>
      BY <1>10, <1>a, HandledLeaves DEF ListenServing, k8sVars
  <2>2. control' = control \/ (control = "wait" /\ control' \in {"done", "report"})
      BY <1>10 DEF ListenServing
  <2> QED
      BY <2>1, <2>2, <1>a, <1>b, <1>d, LeavesKeepsHandlers
<1>11. CASE InitDone \/ Report
  <2> DEFINE s == "OrchestatorToControl"
             st == Published(streams, "ServingToOrchestrator", "PROJECT_FAILED", "none")
  <2>1. /\ streams[s] # <<>> /\ UNCHANGED <<up, serve>> /\ control' = "idle"
        /\ Leaves(s, streams) \/ Leaves(s, st)
      BY <1>11, <1>a, HandledLeaves DEF InitDone, Report, ReportTo, HandlersType, k8sVars
  <2>2. st \in StreamsType /\ st[s] # <<>>
      BY <2>1, <1>a, <1>b, <1>c, PublishedElsewhere
  <2>3. \A r \in Streams : st[r] = streams[r] \/ \E m \in Messages : st[r] = Append(streams[r], m)
    <3>1. "ServingToOrchestrator" \in Streams /\ "PROJECT_FAILED" \in Types
        BY <1>b, <1>c
    <3> QED
        BY <3>1, <1>a, <1>b, PublishedAppends
  <2> QED
      BY <2>1, <2>2, <2>3, <1>a, <1>b, <1>d, LeavesKeepsHandlers
<1>12. CASE RunPrompt
  <2>1. /\ streams["OrchestatorToControl"] # <<>> /\ UNCHANGED <<up, control, serve>> /\ control = "idle"
        /\ Leaves("OrchestatorToControl", streams)
      BY <1>12, <1>a, <1>b, ReadsFacts, HandledLeaves DEF RunPrompt, k8sVars
  <2> QED
      BY <2>1, <1>a, <1>b, <1>d, LeavesKeepsHandlers
<1>13. CASE CheckWorkspace
    BY <1>13, <1>a, <1>b, ReadsFacts DEF CheckWorkspace, HandlersType, StreamsType, streamVars, k8sVars
<1>14. CASE Confirm \/ Created \/ Refuse \/ Failed
  <2> DEFINE s == "ControlToServing"
             Pub(t, type) == Published(streams, t, type, ServeJob)
             pubs == {Pub("ServingToControl", "CONFIRMED"), Pub("ServingToControl", "REFUSED"),
                      Pub("ServingToOrchestrator", "PROJECT_CREATED"),
                      Pub("ServingToOrchestrator", "PROJECT_FAILED")}
  <2>1. streams[s] # <<>> /\ serve # "idle" /\ UNCHANGED <<up, control>>
      BY <1>14, <1>a DEF Confirm, Created, Refuse, Failed, HandlersType, k8sVars
  <2>2. ServeJob \in Ids
      BY <2>1, <1>a, <1>b, EntryInHand DEF ServeJob
  <2>3. \/ /\ UNCHANGED pending /\ serve' \in {"created", "refuse", "failed"}
           /\ streams' \in {streams} \cup pubs
        \/ serve' = "idle" /\ \E st \in {streams} \cup pubs : Leaves(s, st)
      BY <1>14, <1>a, HandledLeaves DEF Confirm, Created, Refuse, Failed
  <2>4. \A st \in {streams} \cup pubs :
            /\ st \in StreamsType /\ st[s] # <<>>
            /\ \A r \in Streams : st[r] = streams[r] \/ \E m \in Messages : st[r] = Append(streams[r], m)
    <3> DEFINE Fine(st) == /\ st \in StreamsType /\ st[s] # <<>>
                           /\ \A r \in Streams : \/ st[r] = streams[r]
                                                  \/ \E m \in Messages : st[r] = Append(streams[r], m)
    <3>1. ASSUME NEW t \in Streams, t # s, NEW type \in Types PROVE Fine(Pub(t, type))
        BY <3>1, <2>1, <2>2, <1>a, <1>b, PublishedElsewhere, PublishedAppends
    <3>2. Fine(streams)
        BY <2>1, <1>a
    <3>3. /\ \A t \in {"ServingToControl", "ServingToOrchestrator"} : t \in Streams /\ t # s
          /\ \A type \in {"CONFIRMED", "REFUSED", "PROJECT_CREATED", "PROJECT_FAILED"} : type \in Types
        BY <1>b, <1>c
    <3>4. \A st \in {streams} \cup pubs : Fine(st)
      <4> HIDE DEF Fine, s, Pub
      <4> QED
          BY <3>1, <3>2, <3>3 DEF pubs
    <3> QED
        BY <3>4
  <2>5. CASE serve' = "idle" /\ \E st \in {streams} \cup pubs : Leaves(s, st)
      BY <2>1, <2>4, <2>5, <1>a, <1>b, <1>d, LeavesKeepsHandlers
  <2>6. CASE /\ UNCHANGED pending /\ serve' \in {"created", "refuse", "failed"}
             /\ streams' \in {streams} \cup pubs
      BY <2>1, <2>2, <2>6, <1>a, <1>b, <1>c, <1>d, PublishKeepsHandlers
  <2> QED
      BY <2>3, <2>5, <2>6
<1>15. CASE \E s \in Streams : Reclaim(s)
  <2> PICK s \in Streams : Reclaim(s)
      BY <1>15
  <2> DEFINE e == Head(pending[s])
  <2>1. /\ e \in Messages /\ Tail(pending[s]) \in Seq(Messages) /\ streams[s] \in Seq(Messages)
      BY <1>a, HeadTailProperties DEF Reclaim, HandlersType, StreamsType
  <2>2. <<e>> \o streams[s] \in Seq(Messages) /\ <<e>> \o streams[s] # <<>>
      BY <2>1
  <2> QED
      BY <2>1, <2>2, <1>a, <1>b DEF Reclaim, HandlersType, StreamsType, podVars, k8sVars
<1>16. CASE PodReplaced \/ \E w \in Workers : WorkerCrash(w)
  <2> PICK ws \in SUBSET Workers : Stop(ws)
      BY <1>16 DEF PodReplaced, WorkerCrash
  <2>1. \A r \in InHand(ws) : streams[r] # <<>>
      BY <1>a DEF InHand, HandlersType
  <2>2. streams' \in StreamsType /\ pending' \in StreamsType
    <3>1. \A r \in InHand(ws) : Tail(streams[r]) \in Seq(Messages) /\ Append(pending[r], Head(streams[r])) \in Seq(Messages)
        BY <2>1, <1>a, HeadTailProperties, AppendProperties DEF InHand, HandlersType, StreamsType
    <3> QED
        BY <3>1, <1>a DEF Stop, HandlersType, StreamsType
  <2>3. /\ control' # "idle" => control # "idle" /\ "control" \notin ws
        /\ serve' # "idle" => serve # "idle" /\ "serve" \notin ws
        /\ control' \in {control, "idle"} /\ serve' \in {serve, "idle"}
        /\ up' = up \ ws
      BY DEF Stop
  <2>4. /\ control' # "idle" => streams'["OrchestatorToControl"] = streams["OrchestatorToControl"]
        /\ serve' # "idle" => streams'["ControlToServing"] = streams["ControlToServing"]
      BY <2>3, <1>b DEF Stop, InHand
  <2> QED
      BY <2>2, <2>3, <2>4, <1>a DEF HandlersType
<1>17. CASE \E w \in Workers : Boot(w) \/ Probe(w)
    BY <1>17, <1>a DEF Boot, Probe, HandlersType, StreamsType, streamVars, podVars
<1>18. CASE UNCHANGED <<streamVars, podVars, k8sVars>> \/ UNCHANGED <<streamVars, podVars, up>>
    BY <1>18, <1>a DEF HandlersType, StreamsType, streamVars, podVars, k8sVars
<1>19. CASE Answer \/ RequestTimesOut \/ OrchestratorCrash \/ UNCHANGED vars
    BY <1>18, <1>19 DEF Answer, RequestTimesOut, OrchestratorCrash, vars
<1>20. CASE \E n \in Tasks : \/ CreateService(n) \/ CreateDeployment(n) \/ WaitForWorkers(n)
                            \/ WorkersTimeOut(n) \/ CreateFails(n) \/ PublishFails(n)
    BY <1>18, <1>20 DEF CreateService, CreateDeployment, CreateObject, WaitForWorkers, WorkersTimeOut,
                        CreateFails, PublishFails, k8sVars
<1> QED
    BY <1>1, <1>2, <1>3, <1>4, <1>5, <1>6, <1>7, <1>8, <1>9, <1>10, <1>11, <1>12, <1>13, <1>14, <1>15,
       <1>16, <1>17, <1>19, <1>20
    DEF Next, BackendStep, OrchestratorStep, ControlStep, ServeStep, Failure, TaskStep

\* Every variable of ProjectInit has its type, whatever crashes or fails, and an
\* entry in hand is still the first of its stream.
THEOREM TypeCorrect == Spec => []TypeOK
<1>1. Init => TypeOK
  <2> SUFFICES ASSUME Init PROVE StateType /\ HandlersType
      BY TypeParts
  <2>1. StateType
      BY DEF Init, StateType, Ids
  <2>2. HandlersType
      BY DEF Init, HandlersType, StreamsType
  <2> QED
      BY <2>1, <2>2
<1>2. TypeOK /\ [Next]_vars => TypeOK'
  <2> SUFFICES ASSUME TypeOK, [Next]_vars PROVE TypeOK'
      OBVIOUS
  <2>1. StateType' /\ HandlersType'
      BY StateStep, HandlersStep
  <2> QED
      BY <2>1 DEF TypeOK, StateType, HandlersType, StreamsType
<1> QED
    BY <1>1, <1>2, PTL DEF Spec

-----------------------------------------------------------------------------
(* Nobody publishes to a group that does not exist *)

PodStreams == {"OrchestatorToControl", "ControlToServing", "ServingToControl",
               "ServingToOrchestrator"}

\* The state of the streams of the pods before anything was dispatched.
Untouched ==
    /\ \A n \in Tasks : task[n] # "dispatch"
    /\ due = 0
    /\ \A s \in PodStreams : streams[s] = <<>> /\ pending[s] = <<>>

\* A worker that runs, or that Kubernetes reports, has its groups; until both
\* have them, the pods' streams are untouched.
GroupsFirst ==
    /\ up \cup seen \subseteq groups
    /\ Workers \subseteq groups \/ Untouched

LEMMA GroupsFirstImplies == TypeOK /\ GroupsFirst => RequestsAreSeen
<1> SUFFICES ASSUME TypeOK, GroupsFirst PROVE RequestsAreSeen
    OBVIOUS
<1>1. CASE Workers \subseteq groups
    BY <1>1 DEF RequestsAreSeen, Workers
<1>2. CASE Untouched
    BY <1>2 DEF RequestsAreSeen, Untouched, PodStreams, TypeOK
<1> QED
    BY <1>1, <1>2 DEF GroupsFirst

\* Groups are never dropped, and workers have theirs before they run.
LEMMA GroupsGrow ==
    ASSUME GroupsFirst, [Next]_vars
    PROVE  up' \cup seen' \subseteq groups' /\ groups \subseteq groups'
<1>1. CASE \E w \in Workers : Boot(w) \/ Probe(w)
    BY <1>1 DEF Boot, Probe, GroupsFirst
<1>2. CASE PodReplaced \/ \E w \in Workers : WorkerCrash(w)
    BY <1>2 DEF PodReplaced, WorkerCrash, Stop, GroupsFirst
<1>3. CASE UNCHANGED <<up, seen, groups>>
    BY <1>3 DEF GroupsFirst
<1>4. CASE BackendStep \/ OrchestratorStep \/ UNCHANGED vars
    BY <1>3, <1>4 DEF BackendStep, OrchestratorStep, Request, StoreResult, Answer, RequestTimesOut,
                      ListenBackend, ListenCreated, ListenFailed, StartPrompt, k8sVars, vars
<1>5. CASE \E n \in Tasks : TaskStep(n) \/ WorkersTimeOut(n) \/ CreateFails(n) \/ PublishFails(n)
    BY <1>3, <1>5 DEF TaskStep, CreateService, CreateDeployment, CreateObject, WaitForWorkers, Dispatch,
                      ReportFailure, WorkersTimeOut, CreateFails, PublishFails, k8sVars
<1>6. CASE ControlStep \/ ListenServing \/ ConfirmationTimesOut
    BY <1>3, <1>6 DEF ControlStep, PullTemplate, TellServing, Register, InitDone, Report, ReportTo,
                      RunPrompt, ListenServing, ConfirmationTimesOut, k8sVars
<1>7. CASE ServeStep \/ OrchestratorCrash \/ \E s \in Streams : Reclaim(s)
    BY <1>3, <1>7 DEF ServeStep, CheckWorkspace, Confirm, Created, Refuse, Failed, OrchestratorCrash,
                      Reclaim, k8sVars
<1> QED
    BY <1>1, <1>2, <1>4, <1>5, <1>6, <1>7 DEF Next, Failure

\* Until both groups exist, no step touches the pods' streams.
LEMMA UntouchedStep ==
    ASSUME TypeOK, GroupsFirst, [Next]_vars, Untouched, ~(Workers \subseteq groups)
    PROVE  Untouched'
<1>a. /\ HandlersType /\ streams \in StreamsType /\ pending \in StreamsType
      /\ control = "idle" /\ serve = "idle"
    BY TypeParts DEF HandlersType, Untouched, PodStreams
<1>b. /\ PodStreams \subseteq Streams
      /\ "OrchestatorToBackend" \in Streams \ PodStreams
      /\ "BackendToOrchestator" \in Streams \ PodStreams
      /\ {"CREATE_PROJECT", "PROJECT_FAILED"} \subseteq Types /\ "job" \in Ids
    BY DEF PodStreams, Streams, Types, Ids
<1>c. Untouched' <=> /\ \A n \in Tasks : task'[n] # "dispatch"
                     /\ due' = 0
                     /\ \A s \in PodStreams : streams'[s] = <<>> /\ pending'[s] = <<>>
    BY DEF Untouched
<1>1. CASE Request
    BY <1>1, <1>a, <1>b, <1>c, PublishedFacts DEF Request, orchVars, Untouched
<1>2. CASE StoreResult
    BY <1>2, <1>a, <1>b, <1>c DEF StoreResult, orchVars, Untouched, StreamsType
<1>3. CASE ListenBackend
  <2>1. Leaves("BackendToOrchestator", streams) /\ streams["BackendToOrchestator"] # <<>>
      BY <1>3, <1>a, <1>b, HandledLeaves, ReadsFacts, TypeParts DEF ListenBackend, StateType
  <2>2. \A s \in PodStreams : streams'[s] = <<>> /\ pending'[s] = <<>>
      BY <2>1, <1>a, <1>b, LeavesFacts DEF Untouched
  <2>3. due' = 0 /\ \A n \in Tasks : task'[n] \in {task[n], "service"}
      BY <1>3, TypeParts DEF ListenBackend, Untouched, StateType
  <2> QED
      BY <2>2, <2>3, <1>c DEF Untouched
<1>4. CASE \E n \in Tasks : TaskStep(n) \/ WorkersTimeOut(n) \/ CreateFails(n) \/ PublishFails(n)
  <2> PICK n \in Tasks : TaskStep(n) \/ WorkersTimeOut(n) \/ CreateFails(n) \/ PublishFails(n)
      BY <1>4
  <2>1. ~WaitForWorkers(n) /\ ~Dispatch(n)
      BY DEF WaitForWorkers, workersStarted, Dispatch, GroupsFirst, Untouched
  <2>2. due' = due /\ \E pc \in {"deployment", "workers", "failing", "over"} : task' = [task EXCEPT ![n] = pc]
      BY <2>1 DEF TaskStep, CreateService, CreateDeployment, CreateObject, ReportFailure, WorkersTimeOut,
                  CreateFails, PublishFails
  <2>3. \A s \in PodStreams : streams'[s] = streams[s] /\ pending'[s] = pending[s]
    <3>1. CASE ReportFailure(n)
        BY <3>1, <1>a, <1>b, PublishedFacts DEF ReportFailure
    <3>2. CASE UNCHANGED streamVars
        BY <3>2 DEF streamVars
    <3> QED
        BY <2>1, <3>1, <3>2 DEF TaskStep, CreateService, CreateDeployment, CreateObject, WorkersTimeOut,
                                CreateFails, PublishFails
  <2>4. \A m \in Tasks : task'[m] # "dispatch"
      BY <2>2, TypeParts DEF Untouched, StateType
  <2> QED
      BY <2>2, <2>3, <2>4, <1>c DEF Untouched
<1>5. CASE \E s \in Streams : Reclaim(s)
    BY <1>5, <1>a, <1>b, <1>c DEF Reclaim, orchVars, Untouched, StreamsType
<1>6. CASE PodReplaced \/ \E w \in Workers : WorkerCrash(w)
  <2> PICK ws \in SUBSET Workers : Stop(ws)
      BY <1>6 DEF PodReplaced, WorkerCrash
  <2>1. InHand(ws) = {}
      BY <1>a DEF InHand
  <2> QED
      BY <2>1, <1>a, <1>b, <1>c DEF Stop, orchVars, Untouched, StreamsType
<1>7. CASE OrchestratorCrash
  <2>1. /\ task' = [n \in Tasks |-> IF task[n] = "none" THEN "none" ELSE "over"]
        /\ due' = 0 /\ UNCHANGED streamVars
      BY <1>7, Zenon DEF OrchestratorCrash
  <2> QED
      BY <2>1, <1>c DEF Untouched, streamVars
<1>8. CASE UNCHANGED <<task, due, streams, pending>>
    BY <1>8 DEF Untouched
<1>9. CASE \/ Answer \/ RequestTimesOut \/ UNCHANGED vars
           \/ \E w \in Workers : Boot(w) \/ Probe(w)
    BY <1>8, <1>9 DEF Answer, RequestTimesOut, Boot, Probe, orchVars, streamVars, vars
<1>10. ~ListenCreated /\ ~ListenFailed /\ ~StartPrompt
    BY DEF ListenCreated, ListenFailed, StartPrompt, Reads, Untouched, PodStreams
<1>11. ~ControlStep /\ ~ListenServing /\ ~ConfirmationTimesOut
    BY <1>a DEF ControlStep, PullTemplate, TellServing, Register, InitDone, Report, ReportTo, RunPrompt,
                ListenServing, ConfirmationTimesOut, Reads, Untouched, PodStreams
<1>12. ~ServeStep
    BY <1>a DEF ServeStep, CheckWorkspace, Confirm, Created, Refuse, Failed, Reads, Untouched, PodStreams
<1> QED
    BY <1>1, <1>2, <1>3, <1>4, <1>5, <1>6, <1>7, <1>9, <1>10, <1>11, <1>12
    DEF Next, BackendStep, OrchestratorStep, Failure

\* A message to a pod is published only when the pod's group exists: waiting for
\* both workers before the dispatch is enough, whatever restarts later.
THEOREM RequestsStaySeen == Spec => []RequestsAreSeen
<1>1. Init => GroupsFirst
    BY DEF Init, GroupsFirst, Untouched, PodStreams, Streams
<1>2. TypeOK /\ GroupsFirst /\ [Next]_vars => GroupsFirst'
  <2> SUFFICES ASSUME TypeOK, GroupsFirst, [Next]_vars PROVE GroupsFirst'
      OBVIOUS
  <2>1. up' \cup seen' \subseteq groups' /\ groups \subseteq groups'
      BY GroupsGrow
  <2>2. CASE Workers \subseteq groups
      BY <2>1, <2>2 DEF GroupsFirst
  <2>3. CASE ~(Workers \subseteq groups)
      BY <2>1, <2>3, UntouchedStep DEF GroupsFirst
  <2> QED
      BY <2>2, <2>3
<1> QED
    BY <1>1, <1>2, TypeCorrect, GroupsFirstImplies, PTL DEF Spec

-----------------------------------------------------------------------------
(* One initial prompt for each time the request was handled *)

Started == {n \in Tasks : task[n] # "none"}

LEMMA StartedFinite ==
    ASSUME NEW S \in SUBSET Tasks
    PROVE  IsFiniteSet(S) /\ Cardinality(S) \in Nat
<1>1. IsFiniteSet(Tasks)
    BY BoundsAssumption, FS_Interval DEF Tasks
<1> QED
    BY <1>1, FS_Subset, FS_CardinalityType

\* A prompt in pendingInitialPrompts counts as one.
Kept(b) == IF b THEN 1 ELSE 0

LEMMA PromptStep ==
    ASSUME TypeOK, PromptPerRequest, [Next]_vars
    PROVE  PromptPerRequest'
<1>a. /\ prompts \in Nat /\ due \in Nat /\ prompt \in BOOLEAN
      /\ task \in [Tasks -> {"none", "service", "deployment", "workers", "dispatch", "failing", "over"}]
    BY DEF TypeOK
<1>b. /\ PromptPerRequest <=> prompts + due + Kept(prompt) <= Cardinality(Started)
      /\ PromptPerRequest' <=> prompts' + due' + Kept(prompt') <= Cardinality(Started')
    BY DEF PromptPerRequest, Kept, Started
<1>c. /\ Started \in SUBSET Tasks /\ Started' \in SUBSET Tasks
      /\ Cardinality(Started) \in Nat /\ Cardinality(Started') \in Nat
    BY StartedFinite DEF Started
<1>d. Kept(prompt) \in {0, 1} /\ Kept(TRUE) = 1 /\ Kept(FALSE) = 0
    BY DEF Kept
<1>1. CASE ListenBackend
  <2> PICK n \in Tasks : task[n] = "none" /\ task' = [task EXCEPT ![n] = "service"]
      BY <1>1 DEF ListenBackend
  <2>1. Started' = Started \cup {n} /\ n \notin Started
      BY <1>a DEF Started
  <2>2. Cardinality(Started') = Cardinality(Started) + 1
      BY <2>1, <1>c, StartedFinite, FS_AddElement
  <2>3. prompt' = TRUE /\ prompts' = prompts /\ due' = due
      BY <1>1 DEF ListenBackend
  <2>4. Kept(prompt') = 1
      BY <2>3, <1>d
  <2> QED
      BY <2>2, <2>3, <2>4, <1>a, <1>b, <1>c, <1>d
<1>2. ASSUME Started' = Started,
             prompts' + due' + Kept(prompt') <= prompts + due + Kept(prompt),
             prompts' + due' + Kept(prompt') \in Nat
      PROVE  PromptPerRequest'
    BY <1>2, <1>a, <1>b, <1>c, <1>d
<1>3. CASE ListenCreated
  <2>1. /\ task' = task /\ prompts' = prompts
        /\ \/ due' = due + (IF prompt THEN 1 ELSE 0) /\ prompt' = FALSE
           \/ due' = due /\ prompt' = prompt
      BY <1>3 DEF ListenCreated
  <2>2. CASE due' = due + (IF prompt THEN 1 ELSE 0) /\ prompt' = FALSE
    <3>1. due' = due + Kept(prompt) /\ Kept(prompt') = 0
        BY <2>2, <1>d DEF Kept
    <3> QED
        BY <3>1, <2>1, <1>2, <1>a, <1>d DEF Started
  <2>3. CASE due' = due /\ prompt' = prompt
      BY <2>3, <2>1, <1>2, <1>a, <1>d DEF Started
  <2> QED
      BY <2>1, <2>2, <2>3
<1>4. CASE StartPrompt
  <2>1. task' = task /\ prompt' = prompt /\ due' = due - 1 /\ prompts' = prompts + 1 /\ due > 0
      BY <1>4 DEF StartPrompt
  <2> QED
      BY <2>1, <1>2, <1>a, <1>d DEF Started
<1>5. CASE OrchestratorCrash
  <2>1. /\ task' = [n \in Tasks |-> IF task[n] = "none" THEN "none" ELSE "over"]
        /\ prompt' = FALSE /\ due' = 0 /\ prompts' = prompts
      BY <1>5, Zenon DEF OrchestratorCrash
  <2>2. Started' = Started
      BY <2>1 DEF Started
  <2>3. Kept(prompt') = 0
      BY <2>1, <1>d
  <2> QED
      BY <2>1, <2>2, <2>3, <1>2, <1>a, <1>d
<1>6. CASE UNCHANGED <<prompt, due, prompts>> /\ Started' = Started
    BY <1>6, <1>2, <1>a, <1>d
<1>7. CASE \E n \in Tasks : TaskStep(n) \/ WorkersTimeOut(n) \/ CreateFails(n) \/ PublishFails(n)
  <2> PICK n \in Tasks : TaskStep(n) \/ WorkersTimeOut(n) \/ CreateFails(n) \/ PublishFails(n)
      BY <1>7
  <2>1. /\ UNCHANGED <<prompt, due, prompts>> /\ task[n] # "none"
        /\ \E pc \in {"deployment", "workers", "dispatch", "failing", "over"} : task' = [task EXCEPT ![n] = pc]
      BY DEF TaskStep, CreateService, CreateDeployment, CreateObject, WaitForWorkers, Dispatch,
             ReportFailure, WorkersTimeOut, CreateFails, PublishFails
  <2>2. Started' = Started
      BY <2>1, <1>a DEF Started
  <2> QED
      BY <2>1, <2>2, <1>6
<1>8. CASE UNCHANGED orchVars
    BY <1>6, <1>8 DEF orchVars, Started
<1>9. CASE BackendStep \/ ListenFailed \/ UNCHANGED vars
    BY <1>8, <1>9 DEF BackendStep, Request, StoreResult, Answer, RequestTimesOut, ListenFailed, vars
<1>10. CASE \/ ServeStep \/ \E s \in Streams : Reclaim(s)
            \/ \E w \in Workers : Boot(w) \/ Probe(w) \/ WorkerCrash(w)
            \/ PodReplaced
    BY <1>8, <1>10 DEF ServeStep, CheckWorkspace, Confirm, Created, Refuse, Failed, Reclaim, Boot, Probe,
                       WorkerCrash, PodReplaced, Stop
<1>11. CASE ControlStep \/ ListenServing \/ ConfirmationTimesOut
    BY <1>8, <1>11 DEF ControlStep, PullTemplate, TellServing, Register, InitDone, Report, ReportTo,
                       RunPrompt, ListenServing, ConfirmationTimesOut
<1> QED
    BY <1>1, <1>3, <1>4, <1>5, <1>7, <1>9, <1>10, <1>11 DEF Next, OrchestratorStep, Failure

\* However often PROJECT_CREATED is redelivered, an initial prompt is started at
\* most once for each time the creation request was handled.
THEOREM PromptsStayFew == Spec => []PromptPerRequest
<1>1. Init => PromptPerRequest
  <2> SUFFICES ASSUME Init PROVE PromptPerRequest
      OBVIOUS
  <2>1. Cardinality({n \in Tasks : task[n] # "none"}) \in Nat
      BY StartedFinite
  <2> QED
      BY <2>1 DEF Init, PromptPerRequest
<1>2. TypeOK /\ PromptPerRequest /\ [Next]_vars => PromptPerRequest'
    BY PromptStep
<1> QED
    BY <1>1, <1>2, TypeCorrect, PTL DEF Spec

-----------------------------------------------------------------------------
(* A project is reported as created, and prompted, with a workspace *)

TypesIn(q) == {q[i].type : i \in DOMAIN q}

\* The types of the entries of s, read or to be redelivered.
EntryTypes(s) == TypesIn(streams[s]) \cup TypesIn(pending[s])

LEMMA AppendTypes ==
    ASSUME NEW q \in Seq(Messages), NEW m \in Messages
    PROVE  TypesIn(Append(q, m)) \subseteq TypesIn(q) \cup {m.type}
BY AppendProperties DEF TypesIn

LEMMA TailTypes ==
    ASSUME NEW q \in Seq(Messages), q # <<>>
    PROVE  TypesIn(Tail(q)) \subseteq TypesIn(q) /\ Head(q).type \in TypesIn(q)
BY HeadTailProperties DEF TypesIn

LEMMA FrontTypes ==
    ASSUME NEW q \in Seq(Messages), NEW m \in Messages
    PROVE  TypesIn(<<m>> \o q) \subseteq TypesIn(q) \cup {m.type}
<1>1. /\ <<m>> \o q \in Seq(Messages) /\ Len(<<m>> \o q) = 1 + Len(q)
      /\ \A i \in 1..(1 + Len(q)) : (<<m>> \o q)[i] = IF i <= 1 THEN <<m>>[i] ELSE q[i - 1]
    BY ConcatProperties
<1>2. DOMAIN (<<m>> \o q) = 1..(1 + Len(q)) /\ DOMAIN q = 1..Len(q) /\ Len(q) \in Nat
    BY <1>1, LenProperties
<1>3. <<m>>[1] = m
    OBVIOUS
<1>4. \A i \in DOMAIN (<<m>> \o q) : (<<m>> \o q)[i] = m \/ (i - 1 \in DOMAIN q /\ (<<m>> \o q)[i] = q[i - 1])
    BY <1>1, <1>2, <1>3
<1> QED
    BY <1>4 DEF TypesIn

\* A publication adds its type to its stream.
LEMMA PublishedTypes ==
    ASSUME NEW st \in StreamsType, NEW s \in Streams, NEW type \in Types, NEW id \in Ids,
           NEW r \in Streams
    PROVE  TypesIn(Published(st, s, type, id)[r]) \subseteq TypesIn(st[r]) \cup (IF r = s THEN {type} ELSE {})
<1>1. CASE r # s \/ Published(st, s, type, id)[s] = st[s]
    BY <1>1, PublishedFacts
<1>2. CASE r = s /\ Published(st, s, type, id)[s] = Append(st[s], Message(type, id))
  <2>1. Message(type, id) \in Messages /\ Message(type, id).type = type /\ st[s] \in Seq(Messages)
      BY DEF Message, Messages, StreamsType
  <2> QED
      BY <1>2, <2>1, AppendTypes
<1> QED
    BY <1>1, <1>2, PublishedFacts

\* So does publishing it.
LEMMA PublishTypes ==
    ASSUME streams \in StreamsType, NEW s \in Streams, NEW type \in Types, NEW id \in Ids,
           streams' \in {streams, Published(streams, s, type, id)}, pending' = pending,
           NEW r \in Streams
    PROVE  EntryTypes(r)' \subseteq EntryTypes(r) \cup (IF r = s THEN {type} ELSE {})
BY PublishedTypes DEF EntryTypes

\* An entry that leaves adds no type to any stream.
LEMMA LeavesTypes ==
    ASSUME streams \in StreamsType, pending \in StreamsType, NEW st \in StreamsType,
           NEW s \in Streams, st[s] # <<>>, streams[s] # <<>>, Leaves(s, st), NEW r \in Streams
    PROVE  EntryTypes(r)' \subseteq EntryTypes(r) \cup TypesIn(st[r])
<1>1. /\ streams'[s] = Tail(st[s])
      /\ r # s => streams'[r] = st[r] /\ pending'[r] = pending[r]
      /\ pending'[s] \in {pending[s], Append(pending[s], Head(streams[s]))}
    BY LeavesFacts
<1>2. st[s] \in Seq(Messages) /\ pending[s] \in Seq(Messages) /\ streams[s] \in Seq(Messages)
    BY DEF StreamsType
<1>3. Head(streams[s]) \in Messages
    BY <1>2, HeadTailProperties
<1>4. TypesIn(streams'[s]) \subseteq TypesIn(st[s])
    BY <1>1, <1>2, TailTypes
<1>5. TypesIn(pending'[s]) \subseteq TypesIn(pending[s]) \cup TypesIn(streams[s])
  <2>1. TypesIn(Append(pending[s], Head(streams[s]))) \subseteq TypesIn(pending[s]) \cup {Head(streams[s]).type}
      BY <1>2, <1>3, AppendTypes
  <2>2. Head(streams[s]).type \in TypesIn(streams[s])
      BY <1>2, TailTypes
  <2> QED
      BY <1>1, <2>1, <2>2
<1> QED
    BY <1>1, <1>4, <1>5 DEF EntryTypes

\* A handler that ends after a publication adds its type.
LEMMA LeavesPublishedTypes ==
    ASSUME HandlersType, NEW s \in Streams, streams[s] # <<>>,
           NEW t \in Streams, t # s, NEW type \in Types, NEW id \in Ids,
           Leaves(s, streams) \/ Leaves(s, Published(streams, t, type, id)), NEW r \in Streams
    PROVE  EntryTypes(r)' \subseteq EntryTypes(r) \cup (IF r = t THEN {type} ELSE {})
<1> DEFINE st == Published(streams, t, type, id)
<1>1. streams \in StreamsType /\ pending \in StreamsType
    BY DEF HandlersType
<1>2. st \in StreamsType /\ st[s] # <<>>
    BY PublishedElsewhere
<1>3. TypesIn(st[r]) \subseteq EntryTypes(r) \cup (IF r = t THEN {type} ELSE {})
    BY <1>1, PublishedTypes DEF EntryTypes
<1> HIDE DEF st
<1>4. CASE Leaves(s, st)
    BY <1>1, <1>2, <1>3, <1>4, LeavesTypes
<1>5. CASE Leaves(s, streams)
  <2>1. EntryTypes(r)' \subseteq EntryTypes(r) \cup TypesIn(streams[r])
      BY <1>1, <1>5, LeavesTypes
  <2> QED
      BY <2>1 DEF EntryTypes
<1> QED
    BY <1>4, <1>5 DEF st

\* The entries that tell of a workspace: a stream and a type.
Tidings == {<<"ServingToOrchestrator", "PROJECT_CREATED">>,
            <<"OrchestatorToControl", "PROMPT">>,
            <<"OrchestatorToBackend", "PROJECT_INITIALIZED">>}

NoTidings == \A b \in Tidings : b[2] \notin EntryTypes(b[1])

LEMMA TidingsType == \A b \in Tidings : b[1] \in Streams /\ b[2] \in Types
BY DEF Tidings, Streams, Types

LEMMA PublishOther ==
    ASSUME streams \in StreamsType, NEW s \in Streams, NEW type \in Types, NEW id \in Ids,
           streams' \in {streams, Published(streams, s, type, id)}, pending' = pending,
           <<s, type>> \notin Tidings, NoTidings
    PROVE  NoTidings'
<1> SUFFICES ASSUME NEW b \in Tidings PROVE b[2] \notin EntryTypes(b[1])'
    BY DEF NoTidings, EntryTypes
<1>1. b = <<b[1], b[2]>> /\ b[1] \in Streams
    BY TidingsType DEF Tidings
<1>2. EntryTypes(b[1])' \subseteq EntryTypes(b[1]) \cup (IF b[1] = s THEN {type} ELSE {})
    BY <1>1, PublishTypes DEF EntryTypes
<1> QED
    BY <1>1, <1>2 DEF NoTidings

LEMMA LeavesOther ==
    ASSUME HandlersType, NEW s \in Streams, streams[s] # <<>>,
           NEW t \in Streams, t # s, NEW type \in Types, NEW id \in Ids,
           Leaves(s, streams) \/ Leaves(s, Published(streams, t, type, id)),
           <<t, type>> \notin Tidings, NoTidings
    PROVE  NoTidings'
<1> SUFFICES ASSUME NEW b \in Tidings PROVE b[2] \notin EntryTypes(b[1])'
    BY DEF NoTidings, EntryTypes
<1>1. b = <<b[1], b[2]>> /\ b[1] \in Streams
    BY TidingsType DEF Tidings
<1>2. EntryTypes(b[1])' \subseteq EntryTypes(b[1]) \cup (IF b[1] = t THEN {type} ELSE {})
  <2> DEFINE r == b[1]
  <2>1. r \in Streams
      BY <1>1
  <2> HIDE DEF r
  <2>2. EntryTypes(r)' \subseteq EntryTypes(r) \cup (IF r = t THEN {type} ELSE {})
      BY <2>1, LeavesPublishedTypes
  <2> QED
      BY <2>2 DEF r
<1> QED
    BY <1>1, <1>2 DEF NoTidings

\* An entry that only leaves tells of nothing.
LEMMA LeavesQuietly ==
    ASSUME HandlersType, NEW s \in Streams, streams[s] # <<>>, Leaves(s, streams), NoTidings
    PROVE  NoTidings'
<1>1. "BackendToOrchestator" \in Streams /\ "OrchestatorToBackend" \in Streams
      /\ "PROJECT_FAILED" \in Types /\ "CREATE_PROJECT" \in Types /\ "job" \in Ids
      /\ <<"BackendToOrchestator", "CREATE_PROJECT">> \notin Tidings
      /\ <<"OrchestatorToBackend", "PROJECT_FAILED">> \notin Tidings
    BY DEF Streams, Types, Ids, Tidings
<1>2. CASE s = "BackendToOrchestator"
    BY <1>1, <1>2, LeavesOther
<1>3. CASE s # "BackendToOrchestator"
    BY <1>1, <1>3, LeavesOther
<1> QED
    BY <1>2, <1>3

\* Nobody has been told of a workspace, nor is about to be.
Unconfirmed ==
    /\ serve \notin {"confirm", "created"} /\ due = 0
    /\ NoTidings
    /\ "PROJECT_INITIALIZED" \notin results["job"]

\* Until there are files, nobody is told, unless the pod was replaced.
FilesFirst == lost \/ files \in {"template", "edited"} \/ Unconfirmed

\* What is read has been there.
LEMMA ReadsTypes ==
    ASSUME HandlersType, NEW s \in Streams, NEW type, Reads(s, type)
    PROVE  type \in EntryTypes(s)
<1>1. streams[s] # <<>> /\ Head(streams[s]).type = type /\ streams[s] \in Seq(Messages)
    BY ReadsFacts DEF HandlersType, StreamsType
<1> QED
    BY <1>1, TailTypes DEF EntryTypes

LEMMA FilesFirstImplies == TypeOK /\ FilesFirst => WorkspaceFirst
<1> SUFFICES ASSUME TypeOK, Unconfirmed PROVE WorkspaceFirst
    BY DEF FilesFirst, WorkspaceFirst
<1>1. ~Reads("OrchestatorToControl", "PROMPT")
  <2>1. "PROMPT" \notin EntryTypes("OrchestatorToControl") /\ "OrchestatorToControl" \in Streams
      BY DEF Unconfirmed, NoTidings, Tidings, Streams
  <2> QED
      BY <2>1, ReadsTypes, TypeParts
<1> QED
    BY <1>1 DEF WorkspaceFirst, Unconfirmed

\* Without files, no step tells of a workspace.
LEMMA UnconfirmedStep ==
    ASSUME TypeOK, Unconfirmed, [Next]_vars, files \notin {"template", "edited"}
    PROVE  Unconfirmed'
<1>a. /\ HandlersType /\ streams \in StreamsType /\ pending \in StreamsType
      /\ NoTidings /\ due = 0 /\ serve \notin {"confirm", "created"}
      /\ "PROJECT_INITIALIZED" \notin results["job"]
    BY TypeParts DEF HandlersType, Unconfirmed
<1>b. /\ {"BackendToOrchestator", "OrchestatorToControl", "ControlToServing",
           "ServingToControl", "ServingToOrchestrator", "OrchestatorToBackend"} = Streams
      /\ "job" \in Ids /\ "none" \in Ids
      /\ {"CREATE_PROJECT", "PROJECT_INITIALIZED", "CONFIRMED", "REFUSED",
           "PROJECT_CREATED", "PROJECT_FAILED", "PROMPT"} = Types
    BY DEF Streams, Ids, Types
<1>c. /\ <<"BackendToOrchestator", "CREATE_PROJECT">> \notin Tidings
      /\ <<"OrchestatorToControl", "PROJECT_INITIALIZED">> \notin Tidings
      /\ <<"OrchestatorToBackend", "PROJECT_FAILED">> \notin Tidings
      /\ <<"ControlToServing", "PROJECT_INITIALIZED">> \notin Tidings
      /\ <<"ServingToOrchestrator", "PROJECT_FAILED">> \notin Tidings
      /\ <<"ServingToControl", "REFUSED">> \notin Tidings
    BY DEF Tidings
<1>d. /\ "PROJECT_CREATED" \notin EntryTypes("ServingToOrchestrator")
      /\ "PROMPT" \notin EntryTypes("OrchestatorToControl")
      /\ "PROJECT_INITIALIZED" \notin EntryTypes("OrchestatorToBackend")
    BY <1>a DEF NoTidings, Tidings
<1>e. ~ListenCreated /\ ~StartPrompt /\ ~RunPrompt /\ ~Confirm /\ ~Created
    BY <1>a, <1>b, <1>d, ReadsTypes DEF ListenCreated, StartPrompt, RunPrompt, Confirm, Created
<1>f. ASSUME NoTidings', UNCHANGED <<due, results>>, serve' \notin {"confirm", "created"}
      PROVE  Unconfirmed'
    BY <1>a, <1>f DEF Unconfirmed
<1>1. CASE Request
  <2>1. NoTidings'
      BY <1>1, <1>a, <1>b, <1>c, PublishOther DEF Request
  <2> QED
      BY <2>1, <1>1, <1>a, <1>f DEF Request, orchVars, podVars
<1>2. CASE StoreResult
  <2> DEFINE s == "OrchestatorToBackend"
             msg == Head(streams[s])
  <2>1. Leaves(s, streams) /\ streams[s] # <<>> /\ s \in Streams
      BY <1>2, <1>b DEF StoreResult, Leaves
  <2>2. msg.type \in EntryTypes(s) /\ msg \in Messages
      BY <2>1, <1>a, TailTypes, HeadTailProperties DEF EntryTypes, StreamsType
  <2>3. results' = [results EXCEPT ![msg.job] = @ \cup {msg.type}] /\ results \in [Ids -> SUBSET Types]
      BY <1>2 DEF StoreResult, TypeOK
  <2>4. "PROJECT_INITIALIZED" \notin results'["job"]
      BY <2>2, <2>3, <1>a, <1>b, <1>d
  <2>5. NoTidings'
    <3>1. "ServingToControl" \in Streams /\ "ServingToControl" # s /\ "REFUSED" \in Types
        BY <1>b
    <3> QED
        BY <2>1, <3>1, <1>a, <1>b, <1>c, LeavesOther
  <2> QED
      BY <2>4, <2>5, <1>2, <1>a DEF StoreResult, orchVars, podVars, Unconfirmed
<1>3. CASE ListenBackend
  <2>1. Leaves("BackendToOrchestator", streams) /\ streams["BackendToOrchestator"] # <<>>
      BY <1>3, <1>a, <1>b, HandledLeaves, ReadsFacts, TypeParts DEF ListenBackend, StateType
  <2>2. NoTidings'
      BY <2>1, <1>a, <1>b, <1>c, LeavesOther
  <2> QED
      BY <2>2, <1>3, <1>a, <1>f DEF ListenBackend, backendVars, podVars
<1>4. CASE ListenFailed
  <2> DEFINE s == "ServingToOrchestrator"
             t == "OrchestatorToBackend"
             id == Head(streams[s]).job
             once == Published(streams, t, "PROJECT_FAILED", id)
             twice == Published(once, t, "PROJECT_FAILED", id)
  <2>1. streams[s] # <<>> /\ id \in Ids /\ s \in Streams /\ t \in Streams /\ "PROJECT_FAILED" \in Types
      BY <1>4, <1>a, <1>b, ReadsFacts DEF ListenFailed
  <2>2. Leaves(s, streams) \/ Leaves(s, once) \/ Leaves(s, twice)
      BY <1>4, HandledLeaves, TypeParts DEF ListenFailed, StateType
  <2>3. ASSUME Leaves(s, streams) \/ Leaves(s, once) PROVE NoTidings'
    <3> HIDE DEF id
    <3>1. s # t
        OBVIOUS
    <3> QED
        BY <2>1, <2>3, <3>1, <1>a, <1>c, LeavesQuietly, LeavesOther
  <2>4. ASSUME Leaves(s, twice) PROVE NoTidings'
    <3>1. once \in StreamsType /\ once[s] # <<>>
        BY <2>1, <1>a, PublishedElsewhere
    <3> HIDE DEF id, once
    <3>2. twice \in StreamsType /\ twice[s] = once[s]
        BY <2>1, <3>1, PublishedFacts
    <3>3. \A r \in Streams : TypesIn(twice[r]) \subseteq TypesIn(once[r]) \cup (IF r = t THEN {"PROJECT_FAILED"} ELSE {})
        BY <2>1, <3>1, PublishedTypes
    <3>4. \A r \in Streams : TypesIn(once[r]) \subseteq TypesIn(streams[r]) \cup (IF r = t THEN {"PROJECT_FAILED"} ELSE {})
        BY <2>1, <1>a, PublishedTypes DEF once
    <3>5. \A r \in Streams : EntryTypes(r)' \subseteq EntryTypes(r) \cup TypesIn(twice[r])
      <4> HIDE DEF twice
      <4> QED
          BY <2>1, <2>4, <3>1, <3>2, <1>a, LeavesTypes
    <3>6. \A r \in Streams : EntryTypes(r)' \subseteq EntryTypes(r) \cup (IF r = t THEN {"PROJECT_FAILED"} ELSE {})
        BY <3>3, <3>4, <3>5 DEF EntryTypes
    <3>7. "PROJECT_FAILED" # "PROJECT_INITIALIZED" /\ t = "OrchestatorToBackend"
        OBVIOUS
    <3> HIDE DEF t, once, twice
    <3>8. \A b \in Tidings : b[1] \in Streams /\ b[2] # "PROJECT_FAILED" /\ b[2] \notin EntryTypes(b[1])
        BY <1>a, TidingsType DEF NoTidings, Tidings
    <3> QED
        BY <3>6, <3>8 DEF NoTidings
  <2>5. NoTidings'
      BY <2>2, <2>3, <2>4
  <2> QED
      BY <2>5, <1>4, <1>a, <1>f DEF ListenFailed, backendVars, orchVars, podVars

<1>g. ASSUME UNCHANGED <<streams, pending>> PROVE NoTidings'
    BY <1>a, <1>g DEF NoTidings, EntryTypes
<1>5. CASE \E n \in Tasks : Dispatch(n) \/ ReportFailure(n)
  <2>1. /\ \/ streams' = Published(streams, "OrchestatorToControl", "PROJECT_INITIALIZED", "job")
           \/ streams' = Published(streams, "OrchestatorToBackend", "PROJECT_FAILED", "job")
        /\ UNCHANGED <<due, results, serve, pending>>
      BY <1>5 DEF Dispatch, ReportFailure, backendVars, podVars
  <2>2. NoTidings'
      BY <2>1, <1>a, <1>b, <1>c, PublishOther
  <2> QED
      BY <2>1, <2>2, <1>a, <1>f
<1>6. CASE \E n \in Tasks : \/ CreateService(n) \/ CreateDeployment(n) \/ WaitForWorkers(n)
                           \/ WorkersTimeOut(n) \/ CreateFails(n) \/ PublishFails(n)
  <2>1. UNCHANGED <<due, results, serve, streams, pending>>
      BY <1>6 DEF CreateService, CreateDeployment, CreateObject, WaitForWorkers, WorkersTimeOut,
                  CreateFails, PublishFails, backendVars, podVars, streamVars
  <2> QED
      BY <2>1, <1>a, <1>f, <1>g
<1>7. CASE \/ Answer \/ RequestTimesOut \/ PullTemplate \/ Register \/ ConfirmationTimesOut
           \/ UNCHANGED vars \/ \E w \in Workers : Boot(w) \/ Probe(w)
  <2>1. UNCHANGED <<due, results, serve, streams, pending>>
      BY <1>7 DEF Answer, RequestTimesOut, PullTemplate, Register, ConfirmationTimesOut, Boot, Probe,
                  backendVars, orchVars, podVars, streamVars, vars
  <2> QED
      BY <2>1, <1>a, <1>f, <1>g
<1>8. CASE OrchestratorCrash
  <2>1. due' = 0 /\ UNCHANGED <<results, serve, streams, pending>>
      BY <1>8 DEF OrchestratorCrash, backendVars, podVars, streamVars
  <2> QED
      BY <2>1, <1>a, <1>f, <1>g
<1>9. CASE TellServing
  <2> DEFINE id == Head(streams["OrchestatorToControl"]).job
  <2>1. control # "idle" /\ streams["OrchestatorToControl"] # <<>> /\ UNCHANGED <<due, results, serve, pending>>
      BY <1>9, <1>a DEF TellServing, HandlersType, backendVars, orchVars
  <2>2. id \in Ids
      BY <2>1, <1>a, <1>b, EntryInHand
  <2>3. streams' \in {streams, Published(streams, "ControlToServing", "PROJECT_INITIALIZED", id)}
      BY <1>9 DEF TellServing
  <2> HIDE DEF id
  <2>4. NoTidings'
      BY <2>1, <2>2, <2>3, <1>a, <1>b, <1>c, PublishOther
  <2> QED
      BY <2>1, <2>4, <1>a, <1>f
<1>10. CASE ListenServing \/ InitDone \/ Report
  <2>1. UNCHANGED <<due, results, serve>>
      BY <1>10 DEF ListenServing, InitDone, Report, ReportTo, backendVars, orchVars
  <2>2. ASSUME ListenServing PROVE NoTidings'
    <3>1. Leaves("ServingToControl", streams) /\ streams["ServingToControl"] # <<>>
        BY <2>2, HandledLeaves, TypeParts DEF ListenServing, StateType
    <3> QED
        BY <3>1, <1>a, <1>b, LeavesQuietly
  <2>3. ASSUME InitDone \/ Report PROVE NoTidings'
    <3>1. /\ streams["OrchestatorToControl"] # <<>>
          /\ \/ Leaves("OrchestatorToControl", streams)
             \/ Leaves("OrchestatorToControl",
                       Published(streams, "ServingToOrchestrator", "PROJECT_FAILED", "none"))
        BY <2>3, <1>a, HandledLeaves, TypeParts DEF InitDone, Report, ReportTo, HandlersType, StateType
    <3>2. /\ "OrchestatorToControl" \in Streams /\ "ServingToOrchestrator" \in Streams
          /\ "PROJECT_FAILED" \in Types /\ "none" \in Ids
        BY <1>b
    <3> QED
        BY <3>1, <3>2, <1>a, <1>c, LeavesQuietly, LeavesOther
  <2> QED
      BY <2>1, <2>2, <2>3, <1>10, <1>a, <1>f
<1>11. CASE CheckWorkspace
  <2>1. files \notin {"template", "edited"} /\ files \in {"none", "empty", "template", "edited"}
      BY TypeParts DEF StateType
  <2>2. serve' = "refuse" /\ UNCHANGED <<due, results, streams, pending>>
      BY <1>11, <2>1 DEF CheckWorkspace, HasFiles, backendVars, orchVars, streamVars
  <2> QED
      BY <2>2, <1>f, <1>g
<1>12. CASE Refuse \/ Failed
  <2>1. streams["ControlToServing"] # <<>> /\ UNCHANGED <<due, results>> /\ serve' \in {"failed", "idle"}
      BY <1>12, <1>a DEF Refuse, Failed, HandlersType, backendVars, orchVars
  <2>2. ServeJob \in Ids
      BY <2>1, <1>a, <1>b, EntryInHand DEF ServeJob
  <2>3. \E b \in {<<"ServingToControl", "REFUSED">>, <<"ServingToOrchestrator", "PROJECT_FAILED">>} :
            \/ streams' = Published(streams, b[1], b[2], ServeJob) /\ pending' = pending
            \/ Leaves("ControlToServing", streams)
            \/ Leaves("ControlToServing", Published(streams, b[1], b[2], ServeJob))
    <3>1. CASE Refuse
        BY <3>1, HandledLeaves, TypeParts DEF Refuse, StateType
    <3>2. CASE Failed
        BY <3>2, HandledLeaves, TypeParts DEF Failed, StateType
    <3> QED
        BY <3>1, <3>2, <1>12
  <2>4. NoTidings'
    <3> PICK b \in {<<"ServingToControl", "REFUSED">>, <<"ServingToOrchestrator", "PROJECT_FAILED">>} :
            \/ streams' = Published(streams, b[1], b[2], ServeJob) /\ pending' = pending
            \/ Leaves("ControlToServing", streams)
            \/ Leaves("ControlToServing", Published(streams, b[1], b[2], ServeJob))
        BY <2>3
    <3>1. /\ b[1] \in Streams /\ b[2] \in Types /\ b[1] # "ControlToServing"
          /\ <<b[1], b[2]>> \notin Tidings /\ "ControlToServing" \in Streams
        BY <1>b, <1>c
    <3> QED
        BY <3>1, <2>1, <2>2, <1>a, LeavesOther, PublishOther
  <2> QED
      BY <2>1, <2>4, <1>f
<1>13. CASE \E s \in Streams : Reclaim(s)
  <2> PICK s \in Streams : Reclaim(s)
      BY <1>13
  <2>1. /\ streams' = [streams EXCEPT ![s] = <<Head(pending[s])>> \o @]
        /\ pending' = [pending EXCEPT ![s] = Tail(@)]
        /\ pending[s] # <<>> /\ UNCHANGED <<due, results, serve>>
      BY DEF Reclaim, backendVars, orchVars, podVars
  <2>2. pending[s] \in Seq(Messages) /\ streams[s] \in Seq(Messages) /\ Head(pending[s]) \in Messages
      BY <2>1, <1>a, HeadTailProperties DEF StreamsType
  <2>3. \A r \in Streams : EntryTypes(r)' \subseteq EntryTypes(r)
    <3>1. TypesIn(streams'[s]) \subseteq TypesIn(streams[s]) \cup TypesIn(pending[s])
      <4>1. TypesIn(<<Head(pending[s])>> \o streams[s]) \subseteq TypesIn(streams[s]) \cup {Head(pending[s]).type}
          BY <2>2, FrontTypes
      <4>2. Head(pending[s]).type \in TypesIn(pending[s])
          BY <2>1, <2>2, TailTypes
      <4>3. streams'[s] = <<Head(pending[s])>> \o streams[s]
          BY <2>1, <1>a DEF StreamsType
      <4> QED
          BY <4>1, <4>2, <4>3
    <3>2. TypesIn(pending'[s]) \subseteq TypesIn(pending[s])
        BY <2>1, <2>2, <1>a, TailTypes DEF StreamsType
    <3>3. \A r \in Streams : r # s => streams'[r] = streams[r] /\ pending'[r] = pending[r]
        BY <2>1, <1>a DEF StreamsType
    <3> QED
        BY <3>1, <3>2, <3>3 DEF EntryTypes
  <2>4. NoTidings'
      BY <2>3, <1>a, TidingsType DEF NoTidings
  <2> QED
      BY <2>1, <2>4, <1>a, <1>f
<1>14. CASE PodReplaced \/ \E w \in Workers : WorkerCrash(w)
  <2> PICK ws \in SUBSET Workers : Stop(ws)
      BY <1>14 DEF PodReplaced, WorkerCrash
  <2>1. UNCHANGED <<due, results>> /\ serve' \in {serve, "idle"}
      BY DEF Stop, backendVars, orchVars
  <2>2. ASSUME NEW r \in Streams PROVE EntryTypes(r)' \subseteq EntryTypes(r)
    <3>1. CASE r \notin InHand(ws)
        BY <3>1 DEF Stop, EntryTypes
    <3>2. CASE r \in InHand(ws)
      <4>1. streams[r] # <<>> /\ streams[r] \in Seq(Messages) /\ pending[r] \in Seq(Messages)
          BY <3>2, <1>a DEF InHand, HandlersType, StreamsType
      <4>2. streams'[r] = Tail(streams[r]) /\ pending'[r] = Append(pending[r], Head(streams[r]))
          BY <3>2 DEF Stop
      <4>3. Head(streams[r]) \in Messages
          BY <4>1, HeadTailProperties
      <4>4. TypesIn(Tail(streams[r])) \subseteq TypesIn(streams[r]) /\ Head(streams[r]).type \in TypesIn(streams[r])
          BY <4>1, TailTypes
      <4>5. TypesIn(Append(pending[r], Head(streams[r]))) \subseteq TypesIn(pending[r]) \cup {Head(streams[r]).type}
          BY <4>1, <4>3, AppendTypes
      <4> QED
          BY <4>2, <4>4, <4>5 DEF EntryTypes
    <3> QED
        BY <3>1, <3>2
  <2>3. NoTidings'
      BY <2>2, <1>a, TidingsType DEF NoTidings
  <2> QED
      BY <2>1, <2>3, <1>a, <1>f
<1> QED
    BY <1>e, <1>1, <1>2, <1>3, <1>4, <1>5, <1>6, <1>7, <1>8, <1>9, <1>10, <1>11, <1>12, <1>13, <1>14
    DEF Next, BackendStep, OrchestratorStep, ControlStep, ServeStep, Failure, TaskStep

\* A workspace with files keeps them, unless the pod is replaced, and a replaced
\* pod stays so.
LEMMA FilesStay ==
    ASSUME TypeOK, [Next]_vars, lost \/ files \in {"template", "edited"}
    PROVE  lost' \/ files' \in {"template", "edited"}
<1>1. CASE PodReplaced
    BY <1>1 DEF PodReplaced
<1>2. CASE PullTemplate
    BY <1>2 DEF PullTemplate, k8sVars
<1>3. CASE RunPrompt
    BY <1>3 DEF RunPrompt, k8sVars
<1>4. CASE UNCHANGED <<lost, files>>
    BY <1>4
<1>5. CASE BackendStep \/ OrchestratorStep \/ UNCHANGED vars
  <2>1. UNCHANGED <<lost, files>>
      BY <1>5 DEF BackendStep, Request, StoreResult, Answer, RequestTimesOut, OrchestratorStep,
                  ListenBackend, ListenCreated, ListenFailed, StartPrompt, k8sVars, podVars, vars
  <2> QED
      BY <2>1, <1>4
<1>6. CASE \E n \in Tasks : TaskStep(n) \/ WorkersTimeOut(n) \/ CreateFails(n) \/ PublishFails(n)
  <2>1. UNCHANGED <<lost, files>>
      BY <1>6 DEF TaskStep, CreateService, CreateDeployment, CreateObject, WaitForWorkers, WorkersTimeOut,
                  Dispatch, ReportFailure, CreateFails, PublishFails, k8sVars, podVars
  <2> QED
      BY <2>1, <1>4
<1>7. CASE OrchestratorCrash \/ \E w \in Workers : Boot(w) \/ Probe(w) \/ WorkerCrash(w)
  <2>1. UNCHANGED <<lost, files>>
      BY <1>7 DEF OrchestratorCrash, Boot, Probe, WorkerCrash, k8sVars, podVars
  <2> QED
      BY <2>1, <1>4
<1>8. CASE \/ TellServing \/ Register \/ InitDone \/ Report \/ ListenServing \/ ConfirmationTimesOut
           \/ ServeStep \/ \E s \in Streams : Reclaim(s)
  <2>1. UNCHANGED <<lost, files>>
      BY <1>8 DEF TellServing, Register, InitDone, Report, ReportTo, ListenServing, ConfirmationTimesOut,
                  ServeStep, CheckWorkspace, Confirm, Created, Refuse, Failed, Reclaim, k8sVars, podVars
  <2> QED
      BY <2>1, <1>4
<1> QED
    BY <1>1, <1>2, <1>3, <1>5, <1>6, <1>7, <1>8 DEF Next, ControlStep, Failure

\* As long as the pod is not replaced, the backend is never told that a project
\* without files is created, and no prompt is run in one, whatever else fails.
THEOREM WorkspaceStaysFirst == Spec => []WorkspaceFirst
<1>1. Init => FilesFirst
  <2> SUFFICES ASSUME Init PROVE Unconfirmed
      BY DEF FilesFirst
  <2>1. \A s \in Streams : EntryTypes(s) = {}
      BY DEF Init, EntryTypes, TypesIn
  <2> QED
      BY <2>1, TidingsType DEF Init, Unconfirmed, NoTidings, Ids
<1>2. TypeOK /\ FilesFirst /\ [Next]_vars => FilesFirst'
  <2> SUFFICES ASSUME TypeOK, FilesFirst, [Next]_vars PROVE FilesFirst'
      OBVIOUS
  <2>1. CASE lost \/ files \in {"template", "edited"}
      BY <2>1, FilesStay DEF FilesFirst
  <2>2. CASE files \notin {"template", "edited"} /\ Unconfirmed
      BY <2>2, UnconfirmedStep DEF FilesFirst
  <2> QED
      BY <2>1, <2>2 DEF FilesFirst
<1>3. TypeOK /\ FilesFirst => WorkspaceFirst
    BY FilesFirstImplies
<1> QED
    BY <1>1, <1>2, <1>3, TypeCorrect, PTL DEF Spec

-----------------------------------------------------------------------------
(* One verdict: without failures the job's token is in one place *)

\* q holds an entry of the job; it holds one at most.
Bears(q) == \E i \in DOMAIN q : q[i].job = "job"
BearsOne(q) == \A i, j \in DOMAIN q : q[i].job = "job" /\ q[j].job = "job" => i = j

\* The streams a verdict comes along, before the last.
Path == {"BackendToOrchestator", "OrchestatorToControl", "ControlToServing",
         "ServingToOrchestrator"}

Active(n) == task[n] \notin {"none", "over"}

\* The verdicts the job has in the hash and in the stream that leads there.
Told ==
    LET q == streams["OrchestatorToBackend"] IN
    {v \in Types : v \in results["job"] \/ \E i \in DOMAIN q : q[i] = Message(v, "job")}

\* Where the job can be.  From OrchestatorToControl it has moved on once the serving
\* pod was told, or will not be, although the entry is still in hand.
Stage(k) ==
    \/ k = 0 /\ http = "idle"
    \/ k = 1 /\ Bears(streams["BackendToOrchestator"])
    \/ k = 2 /\ \E n \in Tasks : Active(n)
    \/ k = 3 /\ Bears(streams["OrchestatorToControl"]) /\ control \in {"idle", "tell"}
    \/ k = 4 /\ Bears(streams["ControlToServing"])
    \/ k = 5 /\ Bears(streams["ServingToOrchestrator"])
    \/ k = 6 /\ Told # {}

Stages == 0..6

OneStage == \A j, k \in Stages : Stage(j) /\ Stage(k) => j = k

\* Which entries are the job's.
Marks ==
    /\ \A s \in Streams : pending[s] = <<>>
    /\ \A i \in DOMAIN streams["BackendToOrchestator"] :
          streams["BackendToOrchestator"][i].job = "job"
    /\ \A i \in DOMAIN streams["OrchestatorToControl"] :
          streams["OrchestatorToControl"][i].type # "PROMPT" <=>
              streams["OrchestatorToControl"][i].job = "job"
    /\ control # "idle" => Head(streams["OrchestatorToControl"]).job = "job"

\* Each place holds the job once, and the control pod has it after the tasks.
Single ==
    /\ \A s \in Path : BearsOne(streams[s])
    /\ \A m, n \in Tasks : Active(m) /\ Active(n) => m = n
    /\ \A v, w \in Told : v = w
    /\ Bears(streams["OrchestatorToControl"]) => \A k \in 0..2 : ~Stage(k)

Placed == OneStage /\ Marks /\ Single

\* A failure may send an entry twice; nothing is claimed then.
Token == faults = 0 => Placed

\* The streams' names.
LEMMA PathFacts ==
    /\ Path \subseteq Streams /\ "OrchestatorToBackend" \in Streams \ Path
    /\ "ServingToControl" \in Streams \ Path
    /\ "job" \in Ids /\ "none" \in Ids
    /\ {"BackendToOrchestator", "OrchestatorToControl", "ControlToServing",
        "ServingToOrchestrator"} = Path
BY DEF Path, Streams, Ids

\* An entry is added.
LEMMA AppendBears ==
    ASSUME NEW q \in Seq(Messages), NEW type \in Types, NEW id \in Ids
    PROVE  LET p == Append(q, Message(type, id)) IN
           /\ Bears(p) <=> Bears(q) \/ id = "job"
           /\ BearsOne(q) /\ (id = "job" => ~Bears(q)) => BearsOne(p)
           /\ \A i \in DOMAIN p : p[i] = Message(type, id) \/ \E j \in DOMAIN q : p[i] = q[j]
           /\ \E i \in DOMAIN p : p[i] = Message(type, id)
           /\ \A j \in DOMAIN q : j \in DOMAIN p /\ p[j] = q[j]
           /\ q # <<>> => Head(p) = Head(q)
<1> DEFINE m == Message(type, id)
           p == Append(q, m)
<1>1. m \in Messages /\ m.job = id
    BY DEF Message, Messages
<1> HIDE DEF m
<1>2. /\ p \in Seq(Messages) /\ Len(p) = Len(q) + 1 /\ p[Len(q) + 1] = m
      /\ \A i \in 1..Len(q) : p[i] = q[i]
    BY <1>1, AppendProperties
<1>3. DOMAIN p = 1..(Len(q) + 1) /\ DOMAIN q = 1..Len(q) /\ Len(q) \in Nat
    BY <1>2, LenProperties
<1> HIDE DEF p
<1>4. Bears(p) <=> Bears(q) \/ id = "job"
    BY <1>1, <1>2, <1>3 DEF Bears
<1>5. BearsOne(q) /\ (id = "job" => ~Bears(q)) => BearsOne(p)
    BY <1>1, <1>2, <1>3 DEF Bears, BearsOne
<1>6. q # <<>> => Head(p) = Head(q)
  <2> SUFFICES ASSUME q # <<>> PROVE Head(p) = Head(q)
      OBVIOUS
  <2>1. Len(q) >= 1
      BY <1>3, EmptySeq
  <2> QED
      BY <2>1, <1>2, <1>3
<1>7. \A i \in DOMAIN p : p[i] = m \/ \E j \in DOMAIN q : p[i] = q[j]
    BY <1>2, <1>3
<1>8. \E i \in DOMAIN p : p[i] = m
    BY <1>2, <1>3
<1>9. \A j \in DOMAIN q : j \in DOMAIN p /\ p[j] = q[j]
    BY <1>2, <1>3
<1> QED
    BY <1>4, <1>5, <1>6, <1>7, <1>8, <1>9 DEF p, m

\* The first entry is removed.
LEMMA TailBears ==
    ASSUME NEW q \in Seq(Messages), q # <<>>
    PROVE  /\ Bears(Tail(q)) => Bears(q)
           /\ Head(q).job = "job" => Bears(q)
           /\ BearsOne(q) => BearsOne(Tail(q))
           /\ BearsOne(q) /\ Head(q).job = "job" => ~Bears(Tail(q))
           /\ \A i \in DOMAIN Tail(q) : \E j \in DOMAIN q : Tail(q)[i] = q[j]
           /\ 1 \in DOMAIN q /\ Head(q) = q[1] /\ Head(q) \in Messages
<1> DEFINE t == Tail(q)
<1>1. /\ t \in Seq(Messages) /\ Len(t) = Len(q) - 1 /\ Head(q) \in Messages
      /\ \A i \in 1..Len(t) : t[i] = q[i + 1]
    BY HeadTailProperties
<1>2. DOMAIN q = 1..Len(q) /\ Len(q) \in Nat /\ DOMAIN t = 1..Len(t) /\ Len(t) \in Nat
    BY <1>1, LenProperties
<1>3. Head(q) = q[1] /\ Len(q) >= 1
    BY <1>1, <1>2
<1> HIDE DEF t
<1>4. \A i \in DOMAIN t : i + 1 \in DOMAIN q /\ t[i] = q[i + 1] /\ i + 1 # 1
    BY <1>1, <1>2
<1>5. 1 \in DOMAIN q
    BY <1>2, <1>3
<1>6. Bears(t) => Bears(q)
    BY <1>4 DEF Bears
<1>7. BearsOne(q) => BearsOne(t)
  <2> SUFFICES ASSUME BearsOne(q), NEW i \in DOMAIN t, NEW j \in DOMAIN t,
                      t[i].job = "job", t[j].job = "job"
               PROVE  i = j
      BY DEF BearsOne
  <2>1. i + 1 = j + 1
      BY <1>4 DEF BearsOne
  <2> QED
      BY <2>1, <1>2
<1>8. BearsOne(q) /\ Head(q).job = "job" => ~Bears(t)
    BY <1>3, <1>4, <1>5 DEF Bears, BearsOne
<1>9. Head(q).job = "job" => Bears(q)
    BY <1>3, <1>5 DEF Bears
<1> QED
    BY <1>1, <1>3, <1>4, <1>5, <1>6, <1>7, <1>8, <1>9 DEF t

\* A message that carries the job is the job's message of its type.
LEMMA MessageOf ==
    ASSUME NEW msg \in Messages
    PROVE  msg = Message(msg.type, msg.job) /\ msg.type \in Types /\ msg.job \in Ids
BY DEF Messages, Message

\* Without a failure a handler ends well, once.
LEMMA Faultless ==
    ASSUME faults = 0, faults' = 0
    PROVE  /\ ~Fault
           /\ \A s, st : ~Thrown(s, st)
           /\ \A s, st : Handled(s, st) =>
                 streams' = [st EXCEPT ![s] = Tail(@)] /\ UNCHANGED <<pending, faults>>
BY DEF Fault, Thrown, Handled

\* The number of failures never falls.
LEMMA FaultsGrow ==
    ASSUME TypeOK, [Next]_vars, faults' = 0
    PROVE  faults = 0
<1>1. faults \in Nat
    BY DEF TypeOK
<1>2. faults' = faults \/ faults' = faults + 1
    BY DEF vars, Next, BackendStep, Request, StoreResult, Answer, RequestTimesOut,
           OrchestratorStep, ListenBackend, ListenCreated, ListenFailed, StartPrompt,
           TaskStep, CreateService, CreateDeployment, CreateObject, WaitForWorkers, Dispatch,
           ReportFailure, WorkersTimeOut, Boot, Probe, ControlStep, PullTemplate, TellServing,
           Register, InitDone, Report, ReportTo, RunPrompt, ListenServing, ConfirmationTimesOut,
           ServeStep, CheckWorkspace, Confirm, Created, Refuse, Failed, Reclaim, Failure,
           OrchestratorCrash, PodReplaced, WorkerCrash, Stop, CreateFails, PublishFails,
           Fault, Handled, Thrown
<1> QED
    BY <1>1, <1>2

\* The job moves from stage j to stage k, or not at all.
LEMMA StagesMove ==
    ASSUME OneStage, NEW j \in Stages, NEW k \in Stages,
           \A i \in Stages : Stage(i)' => Stage(i) \/ (i = k /\ Stage(j) /\ ~Stage(j)')
    PROVE  OneStage'
BY DEF OneStage

\* The stream that leads to the hash gains at most entries of one message.
LEMMA ToldOf ==
    ASSUME UNCHANGED results, NEW type \in Types, NEW id \in Ids,
           \A i \in DOMAIN streams'["OrchestatorToBackend"] :
               \/ streams'["OrchestatorToBackend"][i] = Message(type, id)
               \/ \E j \in DOMAIN streams["OrchestatorToBackend"] :
                     streams'["OrchestatorToBackend"][i] = streams["OrchestatorToBackend"][j]
    PROVE  Told' \subseteq Told \cup (IF id = "job" THEN {type} ELSE {})
<1> DEFINE q == streams["OrchestatorToBackend"]
           p == streams'["OrchestatorToBackend"]
<1> SUFFICES ASSUME NEW v \in Types, NEW i \in DOMAIN p, p[i] = Message(v, "job")
             PROVE  (\E j \in DOMAIN q : q[j] = Message(v, "job")) \/ (id = "job" /\ v = type)
    BY DEF Told
<1> QED
    BY DEF Message

\* One publication to it.
LEMMA ToldMore ==
    ASSUME streams \in StreamsType, UNCHANGED results, NEW type \in Types, NEW id \in Ids,
           streams'["OrchestatorToBackend"]
               \in {streams["OrchestatorToBackend"],
                    Append(streams["OrchestatorToBackend"], Message(type, id))}
    PROVE  Told' \subseteq Told \cup (IF id = "job" THEN {type} ELSE {})
<1> DEFINE q == streams["OrchestatorToBackend"]
           p == streams'["OrchestatorToBackend"]
<1>1. q \in Seq(Messages)
    BY PathFacts DEF StreamsType
<1>2. \A i \in DOMAIN p : p[i] = Message(type, id) \/ \E j \in DOMAIN q : p[i] = q[j]
  <2>1. \A i \in DOMAIN Append(q, Message(type, id)) :
           \/ Append(q, Message(type, id))[i] = Message(type, id)
           \/ \E j \in DOMAIN q : Append(q, Message(type, id))[i] = q[j]
      BY <1>1, AppendBears
  <2>2. CASE p = q
      BY <2>2
  <2>3. CASE p = Append(q, Message(type, id))
      BY <2>1, <2>3
  <2> QED
      BY <2>2, <2>3
<1> QED
    BY <1>2, ToldOf

\* Steps that leave the job where it is.
LEMMA QuietStep ==
    ASSUME Placed, UNCHANGED <<results, pending>>,
           \A s \in Path \cup {"OrchestatorToBackend"} : streams'[s] = streams[s],
           http' = "idle" => http = "idle",
           \A n \in Tasks : Active(n)' => Active(n),
           control' \in {"idle", "tell"} => control \in {"idle", "tell"},
           control' # "idle" => Head(streams["OrchestatorToControl"]).job = "job"
    PROVE  Placed'
<1>1. /\ streams'["BackendToOrchestator"] = streams["BackendToOrchestator"]
      /\ streams'["OrchestatorToControl"] = streams["OrchestatorToControl"]
      /\ streams'["ControlToServing"] = streams["ControlToServing"]
      /\ streams'["ServingToOrchestrator"] = streams["ServingToOrchestrator"]
      /\ streams'["OrchestatorToBackend"] = streams["OrchestatorToBackend"]
    BY PathFacts
<1>2. Told' = Told
    BY <1>1 DEF Told
<1>3. \A i \in Stages : Stage(i)' => Stage(i)
    BY <1>1, <1>2 DEF Stage
<1>4. OneStage'
    BY <1>3 DEF Placed, OneStage
<1>5. Marks'
    BY <1>1 DEF Placed, Marks
<1>6. Single'
  <2>1. \A s \in Path : BearsOne(streams'[s])
      BY DEF Placed, Single
  <2>2. \A m, n \in Tasks : Active(m)' /\ Active(n)' => m = n
      BY DEF Placed, Single
  <2>3. \A v, w \in Told' : v = w
      BY <1>2 DEF Placed, Single
  <2>4. Bears(streams'["OrchestatorToControl"]) => \A k \in 0..2 : ~Stage(k)'
      BY <1>1, <1>3 DEF Placed, Single, Stages
  <2> QED
      BY <2>1, <2>2, <2>3, <2>4 DEF Single
<1> QED
    BY <1>4, <1>5, <1>6 DEF Placed

\* The steps that touch none of these streams.
LEMMA QuietSteps ==
    ASSUME TypeOK, Placed, faults = 0, faults' = 0,
           \/ Answer \/ RequestTimesOut \/ PullTemplate \/ Register \/ ConfirmationTimesOut
           \/ ListenServing \/ CheckWorkspace \/ Confirm \/ Refuse \/ UNCHANGED vars
           \/ \E w \in Workers : Boot(w) \/ Probe(w)
           \/ \E n \in Tasks : CreateService(n) \/ CreateDeployment(n) \/ WaitForWorkers(n)
                               \/ WorkersTimeOut(n)
    PROVE  Placed'
<1>a. /\ streams \in StreamsType
      /\ task \in [Tasks -> {"none", "service", "deployment", "workers", "dispatch", "failing", "over"}]
    BY DEF TypeOK, StreamsType
<1>b. control # "idle" => Head(streams["OrchestatorToControl"]).job = "job"
    BY DEF Placed, Marks
<1> DEFINE SameStreams == \A s \in Path \cup {"OrchestatorToBackend"} : streams'[s] = streams[s]
<1>1. CASE Answer \/ RequestTimesOut
    BY <1>1, <1>b, QuietStep DEF Answer, RequestTimesOut, orchVars, podVars, streamVars, Active
<1>2. CASE UNCHANGED vars \/ \E w \in Workers : Boot(w) \/ Probe(w)
    BY <1>2, <1>b, QuietStep DEF Boot, Probe, vars, backendVars, orchVars, podVars, streamVars, Active
<1>3. CASE \E n \in Tasks : CreateService(n) \/ CreateDeployment(n) \/ WaitForWorkers(n) \/ WorkersTimeOut(n)
  <2>1. \A n \in Tasks : Active(n)' => Active(n)
      BY <1>3, <1>a DEF CreateService, CreateDeployment, CreateObject, WaitForWorkers, WorkersTimeOut, Active
  <2>2. UNCHANGED <<results, pending, streams, http, control>>
      BY <1>3 DEF CreateService, CreateDeployment, CreateObject, WaitForWorkers, WorkersTimeOut,
                  backendVars, podVars, streamVars
  <2> QED
      BY <2>1, <2>2, <1>b, QuietStep
<1>4. CASE PullTemplate
  <2>1. UNCHANGED <<results, pending, streams, http, task>> /\ control = "idle"
      BY <1>4, <1>a, PathFacts, ReadsFacts DEF PullTemplate, backendVars, orchVars, streamVars
  <2>2. Head(streams["OrchestatorToControl"]).job = "job"
    <3> DEFINE q == streams["OrchestatorToControl"]
    <3>1. q \in Seq(Messages) /\ q # <<>> /\ Head(q).type = "PROJECT_INITIALIZED"
        BY <1>4, <1>a, PathFacts DEF PullTemplate, Reads, StreamsType
    <3>2. 1 \in DOMAIN q /\ Head(q) = q[1]
        BY <3>1, TailBears
    <3> QED
        BY <3>1, <3>2 DEF Placed, Marks
  <2> QED
      BY <2>1, <2>2, QuietStep DEF Active
<1>5. CASE Register \/ ConfirmationTimesOut \/ CheckWorkspace
    BY <1>5, <1>b, QuietStep DEF Register, ConfirmationTimesOut, CheckWorkspace, backendVars, orchVars,
                                 streamVars, Active
<1>6. CASE ListenServing
  <2>1. UNCHANGED <<results, pending, http, task>> /\ SameStreams
      BY <1>6, <1>a, PathFacts, Faultless DEF ListenServing, backendVars, orchVars, StreamsType
  <2>2. control' = control \/ (control = "wait" /\ control' \in {"done", "report"})
      BY <1>6 DEF ListenServing
  <2> QED
      BY <2>1, <2>2, <1>b, QuietStep DEF Active
<1>7. CASE Confirm \/ Refuse
  <2>1. ServeJob \in Ids
    <3>1. streams["ControlToServing"] \in Seq(Messages) /\ streams["ControlToServing"] # <<>>
        BY <1>7, <1>a, PathFacts DEF TypeOK, StreamsType, Confirm, Refuse
    <3> QED
        BY <3>1, TailBears, MessageOf DEF ServeJob
  <2>2. \A type \in {"CONFIRMED", "REFUSED"} :
           LET st == Published(streams, "ServingToControl", type, ServeJob) IN
           \A s \in Path \cup {"OrchestatorToBackend"} : st[s] = streams[s]
    <3>1. {"CONFIRMED", "REFUSED"} \subseteq Types
        BY DEF Types
    <3>2. /\ "ServingToControl" \in Streams
          /\ \A s \in Path \cup {"OrchestatorToBackend"} : s \in Streams /\ s # "ServingToControl"
        BY PathFacts
    <3>3. \A type \in Types, r \in Streams : r # "ServingToControl" =>
             Published(streams, "ServingToControl", type, ServeJob)[r] = streams[r]
        BY <2>1, <3>2, <1>a, PublishedFacts
    <3> QED
        BY <3>1, <3>2, <3>3
  <2>3. UNCHANGED <<results, pending, http, task, control>> /\ SameStreams
      BY <1>7, <2>2, Faultless DEF Confirm, Refuse, backendVars, orchVars
  <2> QED
      BY <2>3, <1>b, QuietStep DEF Active
<1> QED
    BY <1>1, <1>2, <1>3, <1>4, <1>5, <1>6, <1>7

\* The tasks and the entries of the four streams, with what Placed says of them.
LEMMA PlacedFacts ==
    ASSUME TypeOK, Placed
    PROVE  /\ OneStage /\ Marks /\ Single
           /\ streams \in StreamsType /\ \A s \in Streams : streams[s] \in Seq(Messages)
           /\ task \in [Tasks -> {"none", "service", "deployment", "workers", "dispatch", "failing", "over"}]
           /\ control # "idle" => streams["OrchestatorToControl"] # <<>>
           /\ serve # "idle" => streams["ControlToServing"] # <<>>
BY DEF TypeOK, StreamsType, Placed

\* What a publication does to the streams.
LEMMA Publishes ==
    ASSUME TypeOK, NEW t \in Streams, NEW type \in Types, NEW id \in Ids,
           streams' = Published(streams, t, type, id)
    PROVE  /\ \A s \in Streams : s # t => streams'[s] = streams[s]
           /\ streams'[t] = streams[t] \/ streams'[t] = Append(streams[t], Message(type, id))
<1>1. streams \in StreamsType
    BY DEF TypeOK, StreamsType
<1> QED
    BY <1>1, PublishedFacts

\* A handler that publishes nothing, or the types of an ended entry.
LEMMA Receives ==
    ASSUME TypeOK, faults = 0, faults' = 0, NEW s \in Streams, Handled(s, streams)
    PROVE  /\ streams'[s] = Tail(streams[s]) /\ pending' = pending
           /\ \A r \in Streams : r # s => streams'[r] = streams[r]
<1>1. streams' = [streams EXCEPT ![s] = Tail(@)] /\ pending' = pending
    BY Faultless
<1> QED
    BY <1>1 DEF TypeOK

\* A handler that publishes once.
LEMMA ReceivesAndTells ==
    ASSUME TypeOK, faults = 0, faults' = 0, NEW s \in Streams, NEW t \in Streams, s # t,
           NEW type \in Types, NEW id \in Ids, Handled(s, Published(streams, t, type, id))
    PROVE  /\ streams'[s] = Tail(streams[s]) /\ pending' = pending
           /\ \A r \in Streams : r # s /\ r # t => streams'[r] = streams[r]
           /\ streams'[t] = streams[t] \/ streams'[t] = Append(streams[t], Message(type, id))
<1> DEFINE st == Published(streams, t, type, id)
<1>1. /\ st \in StreamsType
      /\ \A r \in Streams : r # t => st[r] = streams[r]
      /\ st[t] = streams[t] \/ st[t] = Append(streams[t], Message(type, id))
  <2>1. streams \in StreamsType
      BY DEF TypeOK, StreamsType
  <2> QED
      BY <2>1, PublishedFacts
<1>2. streams' = [st EXCEPT ![s] = Tail(@)] /\ pending' = pending
    BY Faultless
<1> QED
    BY <1>1, <1>2 DEF StreamsType

\* Request: the job enters BackendToOrchestator.
LEMMA RequestPlaced ==
    ASSUME TypeOK, Placed, Request
    PROVE  Placed'
<1> DEFINE q == streams["BackendToOrchestator"]
           p == streams'["BackendToOrchestator"]
<1>1. /\ q \in Seq(Messages) /\ "CREATE_PROJECT" \in Types
      /\ http = "idle" /\ http' = "waiting"
      /\ UNCHANGED <<results, task, control, pending>>
    BY PlacedFacts, PathFacts DEF Request, orchVars, podVars, Types
<1>2. /\ \A s \in Streams : s # "BackendToOrchestator" => streams'[s] = streams[s]
      /\ p = q \/ p = Append(q, Message("CREATE_PROJECT", "job"))
  <2>1. "BackendToOrchestator" \in Streams /\ "job" \in Ids
      BY PathFacts
  <2> QED
      BY <1>1, <2>1, Publishes DEF Request
<1>3. /\ streams'["OrchestatorToControl"] = streams["OrchestatorToControl"]
      /\ streams'["ControlToServing"] = streams["ControlToServing"]
      /\ streams'["ServingToOrchestrator"] = streams["ServingToOrchestrator"]
      /\ streams'["OrchestatorToBackend"] = streams["OrchestatorToBackend"]
    BY <1>2, PathFacts
<1>4. Stage(0) /\ ~Stage(0)' /\ Told' = Told
    BY <1>1, <1>3 DEF Stage, Told
<1>5. ~Bears(q) /\ ~Bears(streams["OrchestatorToControl"])
    BY <1>4, PlacedFacts DEF OneStage, Stages, Stage, Single
<1>6. OneStage'
  <2>1. \A i \in Stages : Stage(i)' => Stage(i) \/ i = 1
      BY <1>1, <1>3, <1>4 DEF Stage, Active
  <2> QED
      BY <2>1, <1>4, PlacedFacts, StagesMove DEF Stages
<1>7. Marks'
  <2>1. \A i \in DOMAIN p : p[i].job = "job"
    <3>1. \A i \in DOMAIN q : q[i].job = "job"
        BY PlacedFacts DEF Marks
    <3>2. CASE p = q
        BY <3>1, <3>2
    <3>3. CASE p = Append(q, Message("CREATE_PROJECT", "job"))
      <4>1. \A i \in DOMAIN p : p[i] = Message("CREATE_PROJECT", "job") \/ \E j \in DOMAIN q : p[i] = q[j]
          BY <1>1, <3>3, PathFacts, AppendBears
      <4> QED
          BY <3>1, <4>1 DEF Message
    <3> QED
        BY <3>2, <3>3, <1>2
  <2> QED
      BY <2>1, <1>1, <1>3, PlacedFacts DEF Marks
<1>8. Single'
  <2>1. BearsOne(p)
    <3>1. BearsOne(q) /\ "job" \in Ids
        BY PathFacts, PlacedFacts DEF Single
    <3>2. BearsOne(Append(q, Message("CREATE_PROJECT", "job")))
        BY <3>1, <1>1, <1>5, AppendBears
    <3> QED
        BY <3>1, <3>2, <1>2
  <2>2. \A s \in Path : BearsOne(streams'[s])
      BY <2>1, <1>2, PathFacts, PlacedFacts DEF Single
  <2>3. \A m, n \in Tasks : Active(m)' /\ Active(n)' => m = n
      BY <1>1, PlacedFacts DEF Single, Active
  <2>4. ~Bears(streams'["OrchestatorToControl"])
      BY <1>3, <1>5
  <2> QED
      BY <2>2, <2>3, <2>4, <1>4, PlacedFacts DEF Single
<1> QED
    BY <1>6, <1>7, <1>8 DEF Placed

\* StoreResult: a verdict moves from the stream into the hash.
LEMMA StorePlaced ==
    ASSUME TypeOK, Placed, StoreResult
    PROVE  Placed'
<1> DEFINE q == streams["OrchestatorToBackend"]
           msg == Head(q)
<1>1. /\ q \in Seq(Messages) /\ q # <<>>
      /\ streams'["OrchestatorToBackend"] = Tail(q)
      /\ \A s \in Path : streams'[s] = streams[s]
      /\ UNCHANGED <<http, task, control, pending>>
    BY PlacedFacts, PathFacts DEF StoreResult, orchVars, podVars, StreamsType
<1>2. /\ 1 \in DOMAIN q /\ msg = q[1] /\ msg \in Messages
      /\ \A i \in DOMAIN Tail(q) : \E j \in DOMAIN q : Tail(q)[i] = q[j]
    BY <1>1, TailBears
<1>3. msg.type \in Types /\ msg.job \in Ids /\ msg = Message(msg.type, msg.job)
    BY <1>2, MessageOf
<1>4. results'["job"] \subseteq results["job"] \cup (IF msg.job = "job" THEN {msg.type} ELSE {})
    BY <1>3, PathFacts DEF StoreResult, TypeOK
<1>5. Told' \subseteq Told
  <2> SUFFICES ASSUME NEW v \in Types,
                      v \in results'["job"] \/ \E i \in DOMAIN Tail(q) : Tail(q)[i] = Message(v, "job")
               PROVE  v \in Told
      BY <1>1 DEF Told
  <2>1. CASE v \in results'["job"]
      BY <2>1, <1>2, <1>3, <1>4 DEF Told
  <2>2. CASE \E i \in DOMAIN Tail(q) : Tail(q)[i] = Message(v, "job")
      BY <2>2, <1>2 DEF Told
  <2> QED
      BY <2>1, <2>2
<1>6. /\ streams'["BackendToOrchestator"] = streams["BackendToOrchestator"]
      /\ streams'["OrchestatorToControl"] = streams["OrchestatorToControl"]
      /\ streams'["ControlToServing"] = streams["ControlToServing"]
      /\ streams'["ServingToOrchestrator"] = streams["ServingToOrchestrator"]
    BY <1>1, PathFacts
<1>7. \A i \in Stages : Stage(i)' => Stage(i)
    BY <1>1, <1>5, <1>6 DEF Stage, Active
<1>8. OneStage'
    BY <1>7, PlacedFacts DEF OneStage
<1>9. Marks'
    BY <1>1, <1>6, PlacedFacts DEF Marks
<1>10. Single'
  <2>1. \A m, n \in Tasks : Active(m)' /\ Active(n)' => m = n
      BY <1>1, PlacedFacts DEF Single, Active
  <2>2. Bears(streams'["OrchestatorToControl"]) => \A k \in 0..2 : ~Stage(k)'
      BY <1>6, <1>7, PlacedFacts DEF Single, Stages
  <2>3. \A s \in Path : BearsOne(streams'[s])
      BY <1>1, PlacedFacts DEF Single
  <2> QED
      BY <2>1, <2>2, <2>3, <1>5, PlacedFacts DEF Single
<1> QED
    BY <1>8, <1>9, <1>10 DEF Placed

\* ListenBackend: the request becomes a task.
LEMMA ListenBackendPlaced ==
    ASSUME TypeOK, Placed, faults = 0, faults' = 0, ListenBackend
    PROVE  Placed'
<1> DEFINE q == streams["BackendToOrchestator"]
<1>1. /\ q \in Seq(Messages) /\ q # <<>>
      /\ UNCHANGED <<results, http, control>>
    BY PlacedFacts, PathFacts DEF ListenBackend, Reads, backendVars, podVars
<1>2. /\ streams'["BackendToOrchestator"] = Tail(q) /\ pending' = pending
      /\ \A s \in Streams : s # "BackendToOrchestator" => streams'[s] = streams[s]
    BY PathFacts, Receives DEF ListenBackend
<1>3. /\ streams'["OrchestatorToControl"] = streams["OrchestatorToControl"]
      /\ streams'["ControlToServing"] = streams["ControlToServing"]
      /\ streams'["ServingToOrchestrator"] = streams["ServingToOrchestrator"]
      /\ streams'["OrchestatorToBackend"] = streams["OrchestatorToBackend"]
    BY <1>2, PathFacts
<1>4. Head(q).job = "job" /\ \A i \in DOMAIN Tail(q) : Tail(q)[i].job = "job"
    BY <1>1, PlacedFacts, TailBears DEF Marks
<1>5. Bears(q) /\ ~Bears(Tail(q)) /\ BearsOne(Tail(q))
    BY <1>1, <1>4, PathFacts, PlacedFacts, TailBears DEF Single
<1>6. Stage(1) /\ ~Stage(1)' /\ Told' = Told
    BY <1>1, <1>2, <1>3, <1>5 DEF Stage, Told
<1>7. ~Bears(streams["OrchestatorToControl"]) /\ \A n \in Tasks : ~Active(n)
  <2>1. ~Stage(2)
      BY <1>6, PlacedFacts DEF OneStage, Stages
  <2> QED
      BY <2>1, <1>6, PlacedFacts DEF Stage, Single
<1>8. OneStage'
  <2>1. \A i \in Stages : Stage(i)' => Stage(i) \/ i = 2
      BY <1>1, <1>3, <1>6 DEF Stage
  <2> QED
      BY <2>1, <1>6, PlacedFacts, StagesMove DEF Stages
<1>9. Marks'
    BY <1>1, <1>2, <1>3, <1>4, PlacedFacts DEF Marks
<1>10. Single'
  <2>1. \A s \in Path : BearsOne(streams'[s])
      BY <1>2, <1>5, PathFacts, PlacedFacts DEF Single
  <2>2. \A m, n \in Tasks : Active(m)' /\ Active(n)' => m = n
      BY <1>7, PlacedFacts DEF ListenBackend, Active
  <2>3. ~Bears(streams'["OrchestatorToControl"])
      BY <1>3, <1>7
  <2> QED
      BY <2>1, <2>2, <2>3, <1>6, PlacedFacts DEF Single
<1> QED
    BY <1>8, <1>9, <1>10 DEF Placed

\* Dispatch: the task hands the job to the control pod.
LEMMA DispatchPlaced ==
    ASSUME TypeOK, Placed, NEW n \in Tasks, Dispatch(n)
    PROVE  Placed'
<1> DEFINE q == streams["OrchestatorToControl"]
           p == streams'["OrchestatorToControl"]
           m == Message("PROJECT_INITIALIZED", "job")
<1>1. /\ q \in Seq(Messages) /\ "PROJECT_INITIALIZED" \in Types /\ "job" \in Ids
      /\ "OrchestatorToControl" \in Streams
      /\ UNCHANGED <<results, http, control, pending>> /\ Active(n)
    BY PlacedFacts, PathFacts DEF Dispatch, backendVars, podVars, Types, Active
<1>2. /\ \A s \in Streams : s # "OrchestatorToControl" => streams'[s] = streams[s]
      /\ p = q \/ p = Append(q, m)
    BY <1>1, Publishes DEF Dispatch
<1>3. /\ streams'["BackendToOrchestator"] = streams["BackendToOrchestator"]
      /\ streams'["ControlToServing"] = streams["ControlToServing"]
      /\ streams'["ServingToOrchestrator"] = streams["ServingToOrchestrator"]
      /\ streams'["OrchestatorToBackend"] = streams["OrchestatorToBackend"]
    BY <1>2, PathFacts
<1>4. \A k \in Tasks : ~Active(k)'
    BY <1>1, PlacedFacts DEF Dispatch, Single, Active
<1>5. Stage(2) /\ ~Stage(2)' /\ Told' = Told
    BY <1>1, <1>3, <1>4 DEF Stage, Told
<1>6. ~Bears(q)
    BY <1>5, PlacedFacts DEF Single
<1>7. \A i \in Stages : Stage(i)' => Stage(i) \/ i = 3
    BY <1>1, <1>3, <1>4, <1>5 DEF Stage
<1>8. OneStage'
    BY <1>5, <1>7, PlacedFacts, StagesMove DEF Stages
<1>9. BearsOne(p)
  <2>1. BearsOne(q)
      BY PathFacts, PlacedFacts DEF Single
  <2>2. BearsOne(Append(q, m))
      BY <2>1, <1>1, <1>6, AppendBears
  <2> QED
      BY <2>1, <2>2, <1>2
<1>10. Marks'
  <2>1. \A i \in DOMAIN q : q[i].type # "PROMPT" <=> q[i].job = "job"
      BY PlacedFacts DEF Marks
  <2>2. \A i \in DOMAIN p : p[i].type # "PROMPT" <=> p[i].job = "job"
    <3>1. \A i \in DOMAIN Append(q, m) : Append(q, m)[i] = m \/ \E j \in DOMAIN q : Append(q, m)[i] = q[j]
        BY <1>1, AppendBears
    <3>2. m.type # "PROMPT" /\ m.job = "job"
        BY DEF Message
    <3> HIDE DEF m
    <3>3. CASE p = Append(q, m)
        BY <3>1, <3>2, <3>3, <2>1
    <3> QED
        BY <1>2, <2>1, <3>3
  <2>3. control # "idle" => Head(p).job = "job"
    <3>1. Head(q).job = "job" => Bears(q) \/ q = <<>>
        BY <1>1, TailBears
    <3> QED
        BY <3>1, <1>6, PlacedFacts DEF Marks
  <2> QED
      BY <2>2, <2>3, <1>1, <1>3, PlacedFacts DEF Marks
<1>11. Single'
  <2>1. \A s \in Path : BearsOne(streams'[s])
      BY <1>2, <1>9, PathFacts, PlacedFacts DEF Single
  <2>2. \A k \in 0..2 : ~Stage(k)'
      BY <1>5, <1>7, PlacedFacts DEF OneStage, Stages
  <2> QED
      BY <2>1, <2>2, <1>4, <1>5, PlacedFacts DEF Single
<1> QED
    BY <1>8, <1>10, <1>11 DEF Placed

\* ReportFailure: the task ends in a verdict.
LEMMA ReportFailurePlaced ==
    ASSUME TypeOK, Placed, NEW n \in Tasks, ReportFailure(n)
    PROVE  Placed'
<1>1. /\ "PROJECT_FAILED" \in Types /\ "job" \in Ids /\ "OrchestatorToBackend" \in Streams
      /\ UNCHANGED <<results, http, control, pending>> /\ Active(n)
    BY PathFacts DEF ReportFailure, backendVars, podVars, Types, Active
<1>2. /\ \A s \in Streams : s # "OrchestatorToBackend" => streams'[s] = streams[s]
      /\ streams'["OrchestatorToBackend"]
            \in {streams["OrchestatorToBackend"],
                 Append(streams["OrchestatorToBackend"], Message("PROJECT_FAILED", "job"))}
    BY <1>1, Publishes DEF ReportFailure
<1>3. /\ streams'["BackendToOrchestator"] = streams["BackendToOrchestator"]
      /\ streams'["OrchestatorToControl"] = streams["OrchestatorToControl"]
      /\ streams'["ControlToServing"] = streams["ControlToServing"]
      /\ streams'["ServingToOrchestrator"] = streams["ServingToOrchestrator"]
    BY <1>2, PathFacts
<1>4. \A k \in Tasks : ~Active(k)'
    BY <1>1, PlacedFacts DEF ReportFailure, Single, Active
<1>5. Stage(2) /\ ~Stage(2)'
    BY <1>1, <1>4 DEF Stage
<1>6. \A i \in Stages : Stage(i)' => Stage(i) \/ i = 6
    BY <1>1, <1>3, <1>4 DEF Stage, Stages
<1>7. OneStage'
    BY <1>5, <1>6, PlacedFacts, StagesMove DEF Stages
<1>8. Marks'
    BY <1>1, <1>3, PlacedFacts DEF Marks
<1>9. Told' \subseteq {"PROJECT_FAILED"}
  <2>1. Told = {}
      BY <1>5, PlacedFacts DEF OneStage, Stages, Stage
  <2> QED
      BY <2>1, <1>1, <1>2, PlacedFacts, ToldMore
<1>10. Single'
  <2>1. \A s \in Path : BearsOne(streams'[s])
      BY <1>3, PathFacts, PlacedFacts DEF Single
  <2>2. ~Bears(streams'["OrchestatorToControl"])
      BY <1>3, <1>5, PlacedFacts DEF Single
  <2>3. \A v, w \in Told' : v = w
      BY <1>9
  <2> QED
      BY <2>1, <2>2, <2>3, <1>4 DEF Single
<1> QED
    BY <1>7, <1>8, <1>10 DEF Placed

\* StartPrompt: an entry that is not the job's.
LEMMA StartPromptPlaced ==
    ASSUME TypeOK, Placed, faults = 0, faults' = 0, StartPrompt
    PROVE  Placed'
<1> DEFINE q == streams["OrchestatorToControl"]
           p == streams'["OrchestatorToControl"]
           m == Message("PROMPT", "none")
<1>1. /\ q \in Seq(Messages) /\ "PROMPT" \in Types /\ "none" \in Ids
      /\ "OrchestatorToControl" \in Streams
      /\ UNCHANGED <<results, http, control, pending, task>>
    BY PlacedFacts, PathFacts DEF StartPrompt, backendVars, podVars, Types
<1>2. /\ \A s \in Streams : s # "OrchestatorToControl" => streams'[s] = streams[s]
      /\ p = q \/ p = Append(q, m)
    BY <1>1, Publishes, Faultless DEF StartPrompt
<1>3. /\ streams'["BackendToOrchestator"] = streams["BackendToOrchestator"]
      /\ streams'["ControlToServing"] = streams["ControlToServing"]
      /\ streams'["ServingToOrchestrator"] = streams["ServingToOrchestrator"]
      /\ streams'["OrchestatorToBackend"] = streams["OrchestatorToBackend"]
    BY <1>2, PathFacts
<1>4. m.type = "PROMPT" /\ m.job = "none"
    BY DEF Message
<1>5. /\ Bears(p) <=> Bears(q)
      /\ BearsOne(q) => BearsOne(p)
      /\ q # <<>> => Head(p) = Head(q)
      /\ \A i \in DOMAIN p : p[i] = m \/ \E j \in DOMAIN q : p[i] = q[j]
  <2>1. CASE p = q
      BY <2>1
  <2>2. CASE p = Append(q, m)
      BY <2>2, <1>1, AppendBears
  <2> QED
      BY <2>1, <2>2, <1>2
<1>6. Told' = Told
    BY <1>1, <1>3 DEF Told
<1>7. \A i \in Stages : Stage(i)' => Stage(i)
    BY <1>1, <1>3, <1>5, <1>6 DEF Stage, Active
<1>8. OneStage'
    BY <1>7, PlacedFacts DEF OneStage
<1>9. Marks'
  <2>1. \A i \in DOMAIN p : p[i].type # "PROMPT" <=> p[i].job = "job"
    <3>1. \A i \in DOMAIN q : q[i].type # "PROMPT" <=> q[i].job = "job"
        BY PlacedFacts DEF Marks
    <3> HIDE DEF m
    <3> QED
        BY <3>1, <1>4, <1>5
  <2>2. control # "idle" => Head(p).job = "job"
      BY <1>5, PlacedFacts DEF Marks
  <2> QED
      BY <2>1, <2>2, <1>1, <1>3, PlacedFacts DEF Marks
<1>10. Single'
  <2>1. \A s \in Path : BearsOne(streams'[s])
      BY <1>2, <1>5, PathFacts, PlacedFacts DEF Single
  <2>2. Bears(p) => \A k \in 0..2 : ~Stage(k)'
      BY <1>5, <1>7, PlacedFacts DEF Single, Stages
  <2>3. \A i, k \in Tasks : Active(i)' /\ Active(k)' => i = k
      BY <1>1, PlacedFacts DEF Single, Active
  <2> QED
      BY <2>1, <2>2, <2>3, <1>6, PlacedFacts DEF Single
<1> QED
    BY <1>8, <1>9, <1>10 DEF Placed

\* TellServing: the control pod hands the job to the serving pod.
LEMMA TellServingPlaced ==
    ASSUME TypeOK, Placed, faults = 0, faults' = 0, TellServing
    PROVE  Placed'
<1> DEFINE q == streams["ControlToServing"]
           p == streams'["ControlToServing"]
           o == streams["OrchestatorToControl"]
           m == Message("PROJECT_INITIALIZED", "job")
<1>1. /\ q \in Seq(Messages) /\ "PROJECT_INITIALIZED" \in Types /\ "job" \in Ids
      /\ "ControlToServing" \in Streams
      /\ UNCHANGED <<results, http, task, pending>>
      /\ control = "tell" /\ control' = "register"
    BY PlacedFacts, PathFacts, Faultless DEF TellServing, backendVars, orchVars, Types
<1>2. o \in Seq(Messages) /\ o # <<>> /\ Head(o).job = "job"
    BY <1>1, PathFacts, PlacedFacts DEF Marks
<1>3. /\ \A s \in Streams : s # "ControlToServing" => streams'[s] = streams[s]
      /\ p = q \/ p = Append(q, m)
  <2>1. streams' = Published(streams, "ControlToServing", "PROJECT_INITIALIZED", "job")
      BY <1>2, Faultless DEF TellServing
  <2> QED
      BY <1>1, <2>1, Publishes
<1>4. /\ streams'["BackendToOrchestator"] = streams["BackendToOrchestator"]
      /\ streams'["OrchestatorToControl"] = streams["OrchestatorToControl"]
      /\ streams'["ServingToOrchestrator"] = streams["ServingToOrchestrator"]
      /\ streams'["OrchestatorToBackend"] = streams["OrchestatorToBackend"]
    BY <1>3, PathFacts
<1>5. Stage(3) /\ ~Stage(3)' /\ Told' = Told
    BY <1>1, <1>2, <1>4, TailBears DEF Stage, Told
<1>6. ~Bears(q)
    BY <1>5, PlacedFacts DEF OneStage, Stages, Stage
<1>7. \A i \in Stages : Stage(i)' => Stage(i) \/ i = 4
    BY <1>1, <1>4, <1>5 DEF Stage, Active
<1>8. OneStage'
    BY <1>5, <1>7, PlacedFacts, StagesMove DEF Stages
<1>9. Marks'
    BY <1>1, <1>2, <1>4, PlacedFacts DEF Marks
<1>10. Single'
  <2>1. BearsOne(q)
      BY PathFacts, PlacedFacts DEF Single
  <2>2. BearsOne(Append(q, m))
      BY <2>1, <1>1, <1>6, AppendBears
  <2>3. \A s \in Path : BearsOne(streams'[s])
      BY <2>1, <2>2, <1>3, PathFacts, PlacedFacts DEF Single
  <2>4. \A k \in 0..2 : ~Stage(k)'
      BY <1>5, <1>7, PlacedFacts DEF OneStage, Stages
  <2>5. \A i, k \in Tasks : Active(i)' /\ Active(k)' => i = k
      BY <1>1, PlacedFacts DEF Single, Active
  <2> QED
      BY <2>3, <2>4, <2>5, <1>5, PlacedFacts DEF Single
<1> QED
    BY <1>8, <1>9, <1>10 DEF Placed

\* InitDone, Report, RunPrompt: the control pod is through with an entry, and what it
\* reports is not the job's.
LEMMA ControlEndsPlaced ==
    ASSUME TypeOK, Placed, faults = 0, faults' = 0, InitDone \/ Report \/ RunPrompt
    PROVE  Placed'
<1> DEFINE q == streams["OrchestatorToControl"]
           o == streams["ServingToOrchestrator"]
           m == Message("PROJECT_FAILED", "none")
<1>1. /\ q \in Seq(Messages) /\ o \in Seq(Messages) /\ "PROJECT_FAILED" \in Types /\ "none" \in Ids
      /\ "OrchestatorToControl" \in Streams /\ "ServingToOrchestrator" \in Streams
      /\ UNCHANGED <<results, http, task>>
    BY PlacedFacts, PathFacts DEF InitDone, Report, ReportTo, RunPrompt, backendVars, orchVars, Types
<1>2. q # <<>> /\ control' = "idle" /\ (control = "idle" \/ Head(q).job = "job")
  <2>1. CASE InitDone \/ Report
      BY <2>1, PlacedFacts DEF InitDone, Report, ReportTo, Marks
  <2>2. CASE RunPrompt
      BY <2>2, <1>1, PlacedFacts, ReadsFacts DEF RunPrompt
  <2> QED
      BY <2>1, <2>2
<1>3. /\ streams'["OrchestatorToControl"] = Tail(q) /\ pending' = pending
      /\ \A s \in Streams \ {"OrchestatorToControl", "ServingToOrchestrator"} : streams'[s] = streams[s]
      /\ streams'["ServingToOrchestrator"] = o \/ streams'["ServingToOrchestrator"] = Append(o, m)
  <2>1. CASE Handled("OrchestatorToControl", streams)
      BY <2>1, <1>1, Receives
  <2>2. CASE Handled("OrchestatorToControl",
                     Published(streams, "ServingToOrchestrator", "PROJECT_FAILED", "none"))
      BY <2>2, <1>1, ReceivesAndTells
  <2> QED
      BY <2>1, <2>2, Faultless DEF InitDone, Report, ReportTo, RunPrompt
<1>4. /\ streams'["BackendToOrchestator"] = streams["BackendToOrchestator"]
      /\ streams'["ControlToServing"] = streams["ControlToServing"]
      /\ streams'["OrchestatorToBackend"] = streams["OrchestatorToBackend"]
    BY <1>3, PathFacts
<1>5. BearsOne(q) /\ BearsOne(o)
    BY PathFacts, PlacedFacts DEF Single
<1>6. /\ Bears(Tail(q)) => Bears(q) /\ control = "idle"
      /\ BearsOne(Tail(q))
      /\ \A i \in DOMAIN Tail(q) : Tail(q)[i].type # "PROMPT" <=> Tail(q)[i].job = "job"
  <2>1. \A i \in DOMAIN q : q[i].type # "PROMPT" <=> q[i].job = "job"
      BY PlacedFacts DEF Marks
  <2> QED
      BY <2>1, <1>1, <1>2, <1>5, TailBears
<1>7. /\ Bears(streams'["ServingToOrchestrator"]) <=> Bears(o)
      /\ BearsOne(streams'["ServingToOrchestrator"])
  <2>1. (Bears(Append(o, m)) <=> Bears(o)) /\ BearsOne(Append(o, m))
      BY <1>1, <1>5, AppendBears
  <2> QED
      BY <2>1, <1>3, <1>5
<1>8. Told' = Told
    BY <1>1, <1>4 DEF Told
<1>9. \A i \in Stages : Stage(i)' => Stage(i)
    BY <1>1, <1>2, <1>3, <1>4, <1>6, <1>7, <1>8 DEF Stage, Active
<1>10. OneStage'
    BY <1>9, PlacedFacts DEF OneStage
<1>11. Marks'
    BY <1>2, <1>3, <1>4, <1>6, PlacedFacts DEF Marks
<1>12. Single'
  <2>1. \A s \in Path : BearsOne(streams'[s])
      BY <1>3, <1>6, <1>7, PathFacts, PlacedFacts DEF Single
  <2>2. Bears(Tail(q)) => \A k \in 0..2 : ~Stage(k)'
      BY <1>6, <1>9, PlacedFacts DEF Single, Stages
  <2>3. \A i, k \in Tasks : Active(i)' /\ Active(k)' => i = k
      BY <1>1, PlacedFacts DEF Single, Active
  <2> QED
      BY <2>1, <2>2, <2>3, <1>3, <1>8, PlacedFacts DEF Single
<1> QED
    BY <1>10, <1>11, <1>12 DEF Placed

\* Created, Failed: the serving pod reports what became of the job.
LEMMA ServeEndsPlaced ==
    ASSUME TypeOK, Placed, faults = 0, faults' = 0, Created \/ Failed
    PROVE  Placed'
<1> DEFINE q == streams["ControlToServing"]
           o == streams["ServingToOrchestrator"]
           p == streams'["ServingToOrchestrator"]
<1>1. /\ q \in Seq(Messages) /\ q # <<>> /\ o \in Seq(Messages)
      /\ "ControlToServing" \in Streams /\ "ServingToOrchestrator" \in Streams
      /\ UNCHANGED <<results, http, task, control>>
    BY PlacedFacts, PathFacts DEF Created, Failed, backendVars, orchVars
<1>2. ServeJob \in Ids /\ ServeJob = Head(q).job
    BY <1>1, TailBears, MessageOf DEF ServeJob
<1>3. PICK type \in Types :
         Handled("ControlToServing", Published(streams, "ServingToOrchestrator", type, ServeJob))
    BY Faultless DEF Created, Failed, Types
<1> DEFINE m == Message(type, ServeJob)
<1>4. /\ streams'["ControlToServing"] = Tail(q) /\ pending' = pending
      /\ \A s \in Streams \ {"ControlToServing", "ServingToOrchestrator"} : streams'[s] = streams[s]
      /\ p = o \/ p = Append(o, m)
    BY <1>1, <1>2, <1>3, ReceivesAndTells
<1>5. /\ streams'["BackendToOrchestator"] = streams["BackendToOrchestator"]
      /\ streams'["OrchestatorToControl"] = streams["OrchestatorToControl"]
      /\ streams'["OrchestatorToBackend"] = streams["OrchestatorToBackend"]
    BY <1>4, PathFacts
<1>6. BearsOne(q) /\ BearsOne(o)
    BY PathFacts, PlacedFacts DEF Single
<1>7. /\ Bears(Tail(q)) => Bears(q) /\ ServeJob # "job"
      /\ ServeJob = "job" => Bears(q)
      /\ BearsOne(Tail(q))
    BY <1>1, <1>2, <1>6, TailBears
<1>8. Told' = Told
    BY <1>1, <1>5 DEF Told
<1>9. ServeJob = "job" => Stage(4) /\ ~Stage(4)' /\ ~Bears(o)
  <2>1. ServeJob = "job" => Stage(4) /\ ~Stage(4)'
      BY <1>4, <1>7 DEF Stage
  <2> QED
      BY <2>1, PlacedFacts DEF OneStage, Stages, Stage
<1>10. /\ Bears(p) => Bears(o) \/ ServeJob = "job"
       /\ BearsOne(p)
  <2>1. (Bears(Append(o, m)) <=> Bears(o) \/ ServeJob = "job") /\ BearsOne(Append(o, m))
      BY <1>1, <1>2, <1>6, <1>9, AppendBears
  <2> QED
      BY <2>1, <1>4, <1>6
<1>11. \A i \in Stages : Stage(i)' => Stage(i) \/ (i = 5 /\ ServeJob = "job")
    BY <1>1, <1>4, <1>5, <1>7, <1>8, <1>10 DEF Stage, Active
<1>12. OneStage'
    BY <1>9, <1>11, PlacedFacts, StagesMove DEF Stages
<1>13. Marks'
    BY <1>1, <1>4, <1>5, PlacedFacts DEF Marks
<1>14. Single'
  <2>1. \A s \in Path : BearsOne(streams'[s])
      BY <1>4, <1>7, <1>10, PathFacts, PlacedFacts DEF Single
  <2>2. Bears(streams'["OrchestatorToControl"]) => \A k \in 0..2 : ~Stage(k)'
      BY <1>5, <1>11, PlacedFacts DEF Single, Stages
  <2>3. \A i, k \in Tasks : Active(i)' /\ Active(k)' => i = k
      BY <1>1, PlacedFacts DEF Single, Active
  <2> QED
      BY <2>1, <2>2, <2>3, <1>8, PlacedFacts DEF Single
<1> QED
    BY <1>12, <1>13, <1>14 DEF Placed

\* What ListenServingPod publishes of a report, once or twice.
LEMMA ForwardedTwice ==
    ASSUME TypeOK, faults = 0, faults' = 0, NEW type \in Types, NEW id \in Ids, UNCHANGED results,
           LET s == "ServingToOrchestrator"
               once == Published(streams, "OrchestatorToBackend", type, id)
               twice == Published(once, "OrchestatorToBackend", type, id)
           IN  Handled(s, once) \/ Handled(s, twice)
    PROVE  /\ streams'["ServingToOrchestrator"] = Tail(streams["ServingToOrchestrator"])
           /\ pending' = pending
           /\ \A r \in Streams \ {"ServingToOrchestrator", "OrchestatorToBackend"} : streams'[r] = streams[r]
           /\ Told' \subseteq Told \cup (IF id = "job" THEN {type} ELSE {})
<1> DEFINE s == "ServingToOrchestrator"
           t == "OrchestatorToBackend"
           m == Message(type, id)
           once == Published(streams, t, type, id)
           twice == Published(once, t, type, id)
           Grown(st) == /\ st \in StreamsType
                        /\ \A r \in Streams : r # t => st[r] = streams[r]
                        /\ \A i \in DOMAIN st[t] :
                              st[t][i] = m \/ \E j \in DOMAIN streams[t] : st[t][i] = streams[t][j]
<1>1. s \in Streams /\ t \in Streams /\ s # t /\ streams \in StreamsType
    BY PathFacts DEF TypeOK, StreamsType
<1>2. ASSUME NEW st, Grown(st)
      PROVE  Grown(Published(st, t, type, id))
  <2> DEFINE p == Published(st, t, type, id)
  <2>1. st \in StreamsType /\ st[t] \in Seq(Messages)
      BY <1>1, <1>2 DEF StreamsType
  <2>2. /\ p \in StreamsType
        /\ \A r \in Streams : r # t => p[r] = st[r]
        /\ p[t] = st[t] \/ p[t] = Append(st[t], m)
      BY <1>1, <2>1, PublishedFacts
  <2>3. \A i \in DOMAIN Append(st[t], m) :
           Append(st[t], m)[i] = m \/ \E j \in DOMAIN st[t] : Append(st[t], m)[i] = st[t][j]
      BY <2>1, AppendBears
  <2> HIDE DEF p, m
  <2>4. \A i \in DOMAIN p[t] : p[t][i] = m \/ \E j \in DOMAIN st[t] : p[t][i] = st[t][j]
      BY <2>2, <2>3
  <2>5. \A i \in DOMAIN p[t] : p[t][i] = m \/ \E j \in DOMAIN streams[t] : p[t][i] = streams[t][j]
      BY <1>2, <2>4
  <2>6. Grown(p)
      BY <1>2, <2>2, <2>5
  <2> QED
      BY <2>6 DEF p
<1>3. Grown(streams)
    BY <1>1
<1> HIDE DEF Grown
<1>4. Grown(once) /\ Grown(twice)
    BY <1>2, <1>3
<1> HIDE DEF once, twice
<1>5. PICK st \in {once, twice} : streams' = [st EXCEPT ![s] = Tail(@)] /\ pending' = pending
    BY Faultless DEF once, twice
<1>6. Grown(st)
    BY <1>4, <1>5
<1>7. /\ streams'[s] = Tail(streams[s]) /\ streams'[t] = st[t]
      /\ \A r \in Streams \ {s, t} : streams'[r] = streams[r]
    BY <1>1, <1>5, <1>6 DEF Grown, StreamsType
<1>8. Told' \subseteq Told \cup (IF id = "job" THEN {type} ELSE {})
    BY <1>6, <1>7, ToldOf DEF Grown
<1> QED
    BY <1>5, <1>7, <1>8

\* ListenCreated, ListenFailed: the job's report becomes its verdict.
LEMMA ListenServingPodPlaced ==
    ASSUME TypeOK, Placed, faults = 0, faults' = 0, ListenCreated \/ ListenFailed
    PROVE  Placed'
<1> DEFINE q == streams["ServingToOrchestrator"]
           id == Head(q).job
<1>1. /\ q \in Seq(Messages) /\ q # <<>>
      /\ UNCHANGED <<results, http, task, control>>
    BY PlacedFacts, PathFacts DEF ListenCreated, ListenFailed, Reads, backendVars, orchVars, podVars
<1>2. id \in Ids
    BY <1>1, TailBears, MessageOf
<1>3. PICK type \in Types :
         LET s == "ServingToOrchestrator"
             once == Published(streams, "OrchestatorToBackend", type, id)
             twice == Published(once, "OrchestatorToBackend", type, id)
         IN  Handled(s, once) \/ Handled(s, twice)
  <2>1. "PROJECT_INITIALIZED" \in Types /\ "PROJECT_FAILED" \in Types
      BY DEF Types
  <2> QED
      BY <2>1, Faultless DEF ListenCreated, ListenFailed
<1> HIDE DEF id
<1>4. /\ streams'["ServingToOrchestrator"] = Tail(q) /\ pending' = pending
      /\ \A r \in Streams \ {"ServingToOrchestrator", "OrchestatorToBackend"} : streams'[r] = streams[r]
      /\ Told' \subseteq Told \cup (IF id = "job" THEN {type} ELSE {})
    BY <1>1, <1>2, <1>3, ForwardedTwice
<1>5. /\ streams'["BackendToOrchestator"] = streams["BackendToOrchestator"]
      /\ streams'["OrchestatorToControl"] = streams["OrchestatorToControl"]
      /\ streams'["ControlToServing"] = streams["ControlToServing"]
    BY <1>4, PathFacts
<1>6. /\ Bears(Tail(q)) => Bears(q) /\ id # "job"
      /\ id = "job" => Bears(q)
      /\ BearsOne(Tail(q))
  <2>1. BearsOne(q)
      BY PathFacts, PlacedFacts DEF Single
  <2> QED
      BY <2>1, <1>1, TailBears DEF id
<1>7. id = "job" => Stage(5) /\ ~Stage(5)' /\ Told = {}
  <2>1. id = "job" => Stage(5) /\ ~Stage(5)'
      BY <1>4, <1>6 DEF Stage
  <2> QED
      BY <2>1, PlacedFacts DEF OneStage, Stages, Stage
<1>8. \A i \in Stages : Stage(i)' => Stage(i) \/ (i = 6 /\ id = "job")
    BY <1>1, <1>4, <1>5, <1>6 DEF Stage, Active
<1>9. OneStage'
    BY <1>7, <1>8, PlacedFacts, StagesMove DEF Stages
<1>10. Marks'
    BY <1>1, <1>4, <1>5, PlacedFacts DEF Marks
<1>11. Single'
  <2>1. \A s \in Path : BearsOne(streams'[s])
      BY <1>4, <1>5, <1>6, PathFacts, PlacedFacts DEF Single
  <2>2. Bears(streams'["OrchestatorToControl"]) => \A k \in 0..2 : ~Stage(k)'
      BY <1>5, <1>8, PlacedFacts DEF Single, Stages
  <2>3. \A i, k \in Tasks : Active(i)' /\ Active(k)' => i = k
      BY <1>1, PlacedFacts DEF Single, Active
  <2>4. \A v, w \in Told' : v = w
      BY <1>4, <1>7, PlacedFacts DEF Single
  <2> QED
      BY <2>1, <2>2, <2>3, <2>4 DEF Single
<1> QED
    BY <1>9, <1>10, <1>11 DEF Placed

\* By action.
LEMMA PlacedStep ==
    ASSUME TypeOK, Placed, faults = 0, faults' = 0, [Next]_vars
    PROVE  Placed'
<1>1. CASE Request \/ StoreResult \/ ListenBackend \/ ListenCreated \/ ListenFailed \/ StartPrompt
    BY <1>1, RequestPlaced, StorePlaced, ListenBackendPlaced, ListenServingPodPlaced, StartPromptPlaced
<1>2. CASE \E n \in Tasks : Dispatch(n) \/ ReportFailure(n)
    BY <1>2, DispatchPlaced, ReportFailurePlaced
<1>3. CASE TellServing \/ InitDone \/ Report \/ RunPrompt \/ Created \/ Failed
    BY <1>3, TellServingPlaced, ControlEndsPlaced, ServeEndsPlaced
<1>4. ~Failure
    BY Faultless DEF Failure, OrchestratorCrash, PodReplaced, WorkerCrash, Stop, CreateFails, PublishFails
<1>5. ~\E s \in Streams : Reclaim(s)
    BY DEF Placed, Marks, Reclaim
<1>6. CASE \/ Answer \/ RequestTimesOut \/ PullTemplate \/ Register \/ ConfirmationTimesOut
           \/ ListenServing \/ CheckWorkspace \/ Confirm \/ Refuse \/ UNCHANGED vars
           \/ \E w \in Workers : Boot(w) \/ Probe(w)
           \/ \E n \in Tasks : CreateService(n) \/ CreateDeployment(n) \/ WaitForWorkers(n)
                               \/ WorkersTimeOut(n)
    BY <1>6, QuietSteps
<1> QED
    BY <1>1, <1>2, <1>3, <1>4, <1>5, <1>6
    DEF Next, BackendStep, OrchestratorStep, ControlStep, ServeStep, TaskStep

\* In the beginning the request is not yet made.
LEMMA PlacedInit == Init => Placed
<1> SUFFICES ASSUME Init PROVE Placed
    OBVIOUS
<1>1. \A s \in Streams : streams[s] = <<>> /\ pending[s] = <<>>
    BY DEF Init
<1>2. \A s \in Path \cup {"OrchestatorToBackend"} : streams[s] = <<>>
    BY <1>1, PathFacts
<1>3. \A n \in Tasks : ~Active(n)
    BY DEF Init, Active
<1>4. ~Bears(<<>>) /\ BearsOne(<<>>)
    BY DEF Bears, BearsOne
<1>5. Told = {}
  <2>1. streams["OrchestatorToBackend"] = <<>>
      BY <1>2
  <2>2. results["job"] = {}
      BY PathFacts DEF Init
  <2> QED
      BY <2>1, <2>2 DEF Told
<1>6. \A k \in Stages : Stage(k) => k = 0
    BY <1>2, <1>3, <1>4, <1>5, PathFacts DEF Stage
<1>7. OneStage
    BY <1>6 DEF OneStage
<1>8. Marks
    BY <1>1, <1>2, PathFacts DEF Marks, Init
<1>9. Single
    BY <1>2, <1>3, <1>4, <1>5, PathFacts DEF Single
<1> QED
    BY <1>7, <1>8, <1>9 DEF Placed

\* A hash with one verdict has one element.
LEMMA ToldImplies ==
    ASSUME TypeOK, Token
    PROVE  OneVerdict
<1> SUFFICES ASSUME faults = 0 PROVE Cardinality(results["job"]) <= 1
    BY DEF OneVerdict
<1>1. results["job"] \subseteq Told
    BY PathFacts DEF TypeOK, Told
<1>2. \A v, w \in results["job"] : v = w
    BY <1>1 DEF Token, Placed, Single
<1>3. CASE results["job"] = {}
    BY <1>3, FS_EmptySet
<1>4. CASE results["job"] # {}
  <2>1. PICK v : results["job"] = {v}
      BY <1>2, <1>4
  <2> QED
    <3>1. Cardinality({v}) = 1
        BY FS_Singleton
    <3> QED
        BY <2>1, <3>1
<1> QED
    BY <1>3, <1>4

\* Without failures a request is told one verdict under its job id: the report of a
\* failed task, or that of the serving pod, but not both, and neither twice with
\* different outcomes, however the timeouts of backend, orchestrator and control pod
\* fall (index.ts:174-185 of the control pod reports under the project instead).
THEOREM VerdictStaysOne == Spec => []OneVerdict
<1>1. Init => Token
    BY PlacedInit DEF Token
<1>2. TypeOK /\ Token /\ [Next]_vars => Token'
    BY FaultsGrow, PlacedStep DEF Token
<1>3. TypeOK /\ Token => OneVerdict
    BY ToldImplies
<1> QED
    BY <1>1, <1>2, <1>3, TypeCorrect, PTL DEF Spec

=============================================================================
