-------------------------- MODULE JobRoundTripProofs --------------------------
(***************************************************************************)
(* Proofs about JobRoundTrip: the slots of the orchestrator's two          *)
(* resolvers and the tasks agree, and a request is answered with its own   *)
(* job's outcome, for any number of jobs, redeliveries, crashes and lost   *)
(* publishes. Without such failures each waiting task is the one its slot  *)
(* names, if the project has one initial prompt. With them too, the round  *)
(* trip implements JobContract.                                            *)
(***************************************************************************)
EXTENDS JobRoundTrip, SequenceTheorems, TLAPS

\* The jobs and keys of messages and tasks.
LEMMA SlotOfTask ==
    ASSUME NEW t \in Task
    PROVE  /\ JobOf(t) \in Jobs
           /\ WorkerFor(t) \in Workers
           /\ KeyFor(t) \in Keys
           /\ t # NoTask
BY JobsAssumption DEF Task, NoTask, WorkerFor, WorkerOf, Workers, KeyFor, idKey, JobId,
                      JobOf, Keys, Jobs

LEMMA JobIdType ==
    ASSUME NEW j \in Jobs
    PROVE  /\ JobId(j) \in Jobs \cup {NoJob}
           /\ FailureType(j) \in Types
           /\ ResultKey(JobId(j)) \in Keys
BY DEF JobId, FailureType, Types, BuildTypes, RunTypes, ResultKey, Keys

LEMMA MessageType ==
    ASSUME NEW id \in Jobs \cup {NoJob}, NEW type \in Types
    PROVE  Message(id, type) \in Messages
BY DEF Message, Messages

LEMMA KeyOfMessage ==
    ASSUME NEW msg \in Messages
    PROVE  /\ msg.job \in Jobs \cup {NoJob}
           /\ msg.type \in Types
           /\ idKey(msg.job) \in Keys
           /\ ResultKey(msg.job) \in Keys
BY DEF Messages, idKey, ResultKey, Keys

\* No type is called "none".
LEMMA NoneIsNoType == "none" \notin Types
BY DEF Types, BuildTypes, RunTypes

\* Messages a worker may publish while it handles j.
MessagesOf(j) == {msg \in Messages : msg.job \in {j, NoJob}}

\* What a worker publishes for a job are messages that name the job, or none.
LEMMA ScriptsType ==
    ASSUME NEW j \in Jobs, NEW s \in Scripts(j)
    PROVE  s \in Seq(MessagesOf(j)) /\ s \in Seq(Messages)
<1> SUFFICES s \in Seq(MessagesOf(j))
  BY SeqMonotonic DEF MessagesOf
<1>1. \A id \in {j, NoJob, JobId(j)}, type \in Types : Message(id, type) \in MessagesOf(j)
  BY JobIdType, MessageType DEF MessagesOf, Message, JobId
<1>2. /\ {"BUILD_SUCCESS", "BUILD_FAILED", "PROJECT_FAILED"} \subseteq Types
      /\ {"RUN_SUCCESS", "RUN_FAILED", "PROMPT_RESPONSE"} \subseteq Types
  BY DEF Types, BuildTypes, RunTypes
<1>3. \A m \in MessagesOf(j) : <<m>> \in Seq(MessagesOf(j))
  OBVIOUS
<1>4. \A m, n \in MessagesOf(j) : <<m, n>> \in Seq(MessagesOf(j))
  OBVIOUS
<1>5. CASE j \in Builds
  <2>1. \/ s = <<Message(j, "BUILD_SUCCESS")>>
        \/ \E type \in {"BUILD_FAILED", "PROJECT_FAILED"} :
              s = <<Message(j, type), Message(j, "BUILD_FAILED")>>
    BY <1>5 DEF Scripts
  <2> QED
    BY <1>1, <1>2, <1>3, <1>4, <2>1
<1>6. CASE j \notin Builds /\ j \in Runs
  <2>1. \/ s = <<Message(j, "RUN_SUCCESS")>>
        \/ s = <<Message(j, "RUN_FAILED")>>
        \/ \E type \in {"RUN_FAILED", "PROJECT_FAILED"} :
              s = <<Message(NoJob, type), Message(j, "RUN_FAILED")>>
    BY <1>6 DEF Scripts
  <2> QED
    BY <1>1, <1>2, <1>3, <1>4, <2>1
<1>7. CASE j \notin Builds /\ j \notin Runs
  <2>1. s = <<Message(JobId(j), "PROMPT_RESPONSE")>> \/ s = << >>
    BY <1>7 DEF Scripts
  <2>2. << >> \in Seq(MessagesOf(j))
    OBVIOUS
  <2> QED
    BY <1>1, <1>2, <1>3, <2>1, <2>2
<1> QED
  BY <1>5, <1>6, <1>7

\* What reading the head of a stream, or putting it back behind the rest, gives.
LEMMA QueueType ==
    ASSUME NEW S, NEW q \in Seq(S), q # <<>>
    PROVE  /\ Head(q) \in S
           /\ Tail(q) \in Seq(S)
           /\ Append(Tail(q), Head(q)) \in Seq(S)
BY HeadTailProperties, AppendProperties

-----------------------------------------------------------------------------
(* Type correctness *)

\* The backend's steps.
LEMMA BackendType ==
    ASSUME TypeOK, BackendStep
    PROVE  TypeOK'
<1>1. CASE StoreResult
  <2>1. Head(toBackend) \in Messages /\ Tail(toBackend) \in Seq(Messages)
    BY <1>1, HeadTailProperties DEF StoreResult, TypeOK
  <2>2. results' \in [Keys -> SUBSET Types]
    BY <1>1, <2>1, KeyOfMessage DEF StoreResult, TypeOK
  <2> QED
    BY <1>1, <2>1, <2>2 DEF StoreResult, TypeOK, orchVars, workerVars
<1>2. ASSUME NEW j \in Jobs, Request(j)
      PROVE  TypeOK'
  <2>1. toOrch' \in Seq(Jobs)
    BY <1>2, AppendProperties DEF Request, TypeOK
  <2> QED
    BY <1>2, <2>1 DEF Request, TypeOK, orchVars, workerVars
<1>3. ASSUME NEW j \in Jobs, Answer(j)
      PROVE  TypeOK'
  <2>1. PICK i \in DOMAIN Expected(j) :
            /\ Expected(j)[i] \in results[j]
            /\ answer' = [answer EXCEPT ![j] = Expected(j)[i]]
    BY <1>3 DEF Answer
  <2>2. Expected(j)[i] \in Types /\ Expected(j)[i] # "none"
    BY <2>1, NoneIsNoType DEF TypeOK, Keys
  <2> QED
    BY <1>3, <2>1, <2>2 DEF Answer, TypeOK, orchVars, workerVars, streamVars
<1>4. ASSUME NEW j \in Jobs, RequestTimesOut(j)
      PROVE  TypeOK'
  BY <1>4 DEF RequestTimesOut, TypeOK, orchVars, workerVars, streamVars
<1> QED
  BY <1>1, <1>2, <1>3, <1>4 DEF BackendStep

\* StartTask moves a free task to its first await.
LEMMA StartTaskMoves ==
    ASSUME TypeOK, NEW j \in Jobs, StartTask(j)
    PROVE  \E t \in Task : /\ task[t] = "none"
                           /\ task' = [task EXCEPT ![t] = "publish"]
<1>1. PICK n \in 1..MaxTries : /\ task[<<j, n>>] = "none"
                               /\ task' = [task EXCEPT ![<<j, n>>] = "publish"]
  BY DEF StartTask
<1>2. <<j, n>> \in Task
  BY DEF Task
<1> QED
  BY <1>1, <1>2

\* The steps that start a task.
LEMMA StartType ==
    ASSUME TypeOK,
           ListenBackend \/ RequestRedelivered \/ \E j \in Jobs : InitialPrompt(j)
    PROVE  TypeOK'
<1>1. CASE ListenBackend \/ RequestRedelivered
  <2>6. /\ toOrch # <<>>
        /\ toOrch' \in {Tail(toOrch), Append(Tail(toOrch), Head(toOrch))}
    BY <1>1 DEF ListenBackend, RequestRedelivered
  <2>7. toOrch \in Seq(Jobs)
    BY DEF TypeOK
  <2>1. Head(toOrch) \in Jobs
    BY <2>6, <2>7, QueueType
  <2>2. toOrch' \in Seq(Jobs)
    BY <2>6, <2>7, QueueType
  <2>3. PICK t \in Task : /\ task[t] = "none"
                          /\ task' = [task EXCEPT ![t] = "publish"]
    BY <1>1, <2>1, StartTaskMoves DEF ListenBackend, RequestRedelivered
  <2>4. /\ task' \in [Task -> Pcs]
        /\ \A u \in Task : task'[u] = "forward" <=> value[u] # "none"
    BY <2>3 DEF TypeOK, Pcs
  <2>5. UNCHANGED <<backendVars, value, waiters, workerVars, toWorker, fromWorker,
                     toBackend, reported>>
    BY <1>1 DEF ListenBackend, RequestRedelivered
  <2> QED
    BY <2>2, <2>4, <2>5 DEF TypeOK, backendVars, workerVars
<1>2. ASSUME NEW j \in Jobs, InitialPrompt(j)
      PROVE  TypeOK'
  <2>1. PICK t \in Task : /\ task[t] = "none"
                          /\ task' = [task EXCEPT ![t] = "publish"]
    BY <1>2, StartTaskMoves DEF InitialPrompt
  <2> QED
    BY <1>2, <2>1 DEF InitialPrompt, TypeOK, Pcs, workerVars, streamVars
<1> QED
  BY <1>1, <1>2

\* The steps of a task.
LEMMA TaskType ==
    ASSUME TypeOK, NEW t \in Task,
           \/ TaskStep(t) \/ WaitTimesOut(t)
           \/ PublishRequestFails(t) \/ ForwardFails(t) \/ ReportFails(t)
    PROVE  TypeOK'
<1> DEFINE j == JobOf(t)
<1>1. /\ j \in Jobs /\ WorkerFor(t) \in Workers /\ KeyFor(t) \in Keys
      /\ JobId(j) \in Jobs \cup {NoJob} /\ FailureType(j) \in Types
  BY SlotOfTask, JobIdType
<1>2. CASE PublishRequest(t)
  <2>1. toWorker[WorkerFor(t)] \in Seq(Jobs)
    BY <1>1 DEF TypeOK
  <2>2. /\ Append(toWorker[WorkerFor(t)], j) \in Seq(Jobs)
        /\ Append(toWorker[WorkerFor(t)], j) # <<>>
    BY <1>1, <2>1, AppendProperties
  <2> QED
    BY <1>1, <1>2, <2>2 DEF PublishRequest, TypeOK, Pcs, backendVars, workerVars
<1>3. CASE PublishRequestFails(t) \/ ReportFails(t)
  BY <1>3 DEF PublishRequestFails, ReportFails, TypeOK, Pcs, backendVars, workerVars,
              streamVars
<1>4. CASE Wait(t)
  BY <1>1, <1>4 DEF Wait, TypeOK, Pcs, backendVars, workerVars, streamVars
<1>5. CASE WaitTimesOut(t)
  BY <1>1, <1>5 DEF WaitTimesOut, TypeOK, Pcs, backendVars, workerVars, streamVars
<1>6. CASE Forward(t) \/ ForwardFails(t)
  <2>1. task[t] = "forward" /\ value[t] \in Types
    BY <1>6 DEF Forward, ForwardFails, TypeOK
  <2>2. Forwarded(t) \in Seq(Messages)
    BY <1>1, <2>1, MessageType, AppendProperties DEF Forwarded, TypeOK
  <2>3. toBackend' \in Seq(Messages)
    BY <1>6, <2>2 DEF Forward, ForwardFails, TypeOK
  <2>4. /\ task' \in [Task -> Pcs]
        /\ value' \in [Task -> Types \cup {"none"}]
        /\ \A u \in Task : task'[u] = "forward" <=> value'[u] # "none"
    BY <1>6 DEF Forward, ForwardFails, TypeOK, Pcs
  <2>5. UNCHANGED <<backendVars, waiters, workerVars, toOrch, toWorker, fromWorker,
                     reported>>
    BY <1>6 DEF Forward, ForwardFails
  <2> QED
    BY <2>3, <2>4, <2>5 DEF TypeOK, backendVars, workerVars
<1>7. CASE ReportFailure(t)
  <2>1. Append(toBackend, Message(JobId(j), FailureType(j))) \in Seq(Messages)
    BY <1>1, MessageType, AppendProperties DEF TypeOK
  <2> QED
    BY <1>1, <1>7, <2>1 DEF ReportFailure, TypeOK, Pcs, backendVars, workerVars
<1> QED
  BY <1>2, <1>3, <1>4, <1>5, <1>6, <1>7 DEF TaskStep

\* The replies of the workers.
LEMMA ReplyType ==
    ASSUME TypeOK, NEW w \in Workers, ListenWorker(w) \/ ReplyRedelivered(w)
    PROVE  TypeOK'
<1> DEFINE msg == Head(fromWorker[w])
           k == idKey(msg.job)
           t == waiters[w][k]
           again == IF w = "serve" /\ msg.type = "PROJECT_FAILED" THEN <<msg>> ELSE <<>>
<1>1. /\ fromWorker[w] # <<>>
      /\ fromWorker' \in {[fromWorker EXCEPT ![w] = Tail(@)],
                          [fromWorker EXCEPT ![w] = Append(Tail(@), Head(@))]}
      /\ HandleReply(w) \/ UNCHANGED <<orchVars, toBackend>>
      /\ UNCHANGED <<backendVars, workerVars, toOrch, toWorker, reported>>
  BY DEF ListenWorker, ReplyRedelivered
<1>2. fromWorker[w] \in Seq(Messages)
  BY DEF TypeOK
<1>3. msg \in Messages
  BY <1>1, <1>2, QueueType
<1>4. fromWorker' \in [Workers -> Seq(Messages)]
  <2>1. Tail(fromWorker[w]) \in Seq(Messages)
    BY <1>1, <1>2, QueueType
  <2>2. Append(Tail(fromWorker[w]), Head(fromWorker[w])) \in Seq(Messages)
    BY <1>1, <1>2, QueueType
  <2> QED
    BY <1>1, <2>1, <2>2 DEF TypeOK
<1>5. ASSUME HandleReply(w)
      PROVE  /\ task' \in [Task -> Pcs]
             /\ value' \in [Task -> Types \cup {"none"}]
             /\ waiters' \in [Workers -> [Keys -> Task \cup {NoTask}]]
             /\ toBackend' \in Seq(Messages)
             /\ \A u \in Task : task'[u] = "forward" <=> value'[u] # "none"
  <2>1. /\ k \in Keys /\ msg.type \in Types /\ msg.type # "none"
        /\ t \in Task \cup {NoTask}
    BY <1>3, KeyOfMessage, NoneIsNoType DEF TypeOK
  <2>2. again \in Seq(Messages) /\ toBackend \in Seq(Messages)
    BY <1>3 DEF TypeOK
  <2>3. CASE t # NoTask
    <3>1. /\ waiters' = [waiters EXCEPT ![w][k] = NoTask]
          /\ task' = [task EXCEPT ![t] = "forward"]
          /\ value' = [value EXCEPT ![t] = msg.type]
          /\ toBackend' = toBackend \o again
      BY <1>5, <2>3 DEF HandleReply
    <3>2. toBackend' \in Seq(Messages)
      BY <2>2, <3>1, ConcatProperties
    <3> QED
      BY <2>1, <2>3, <3>1, <3>2 DEF TypeOK, Pcs
  <2>4. CASE t = NoTask
    <3>1. /\ toBackend' = Append(toBackend, msg) \o again
          /\ UNCHANGED <<waiters, task, value>>
      BY <1>5, <2>4 DEF HandleReply
    <3>2. Append(toBackend, msg) \in Seq(Messages)
      BY <1>3, <2>2, AppendProperties
    <3>3. toBackend' \in Seq(Messages)
      BY <2>2, <3>1, <3>2, ConcatProperties
    <3> QED
      BY <3>1, <3>3 DEF TypeOK
  <2> QED
    BY <2>3, <2>4
<1>6. CASE HandleReply(w)
  BY <1>1, <1>4, <1>5, <1>6 DEF TypeOK, backendVars, workerVars
<1>7. CASE UNCHANGED <<orchVars, toBackend>>
  BY <1>1, <1>4, <1>7 DEF TypeOK, backendVars, workerVars, orchVars
<1> QED
  BY <1>1, <1>6, <1>7

\* The steps of the workers.
LEMMA WorkerType ==
    ASSUME TypeOK, NEW w \in Workers,
           WorkerStep(w) \/ WorkRedelivered(w) \/ ReplySwallowed(w) \/ SuccessFails(w)
    PROVE  TypeOK'
<1>1. /\ toWorker[w] \in Seq(Jobs)
      /\ script[w] \in Seq(Messages)
      /\ fromWorker[w] \in Seq(Messages)
      /\ busy[w] # NoJob => busy[w] \in Jobs
  BY DEF TypeOK
<1>2. CASE Begin(w)
  <2>1. Head(toWorker[w]) \in Jobs
    BY <1>1, <1>2, QueueType DEF Begin
  <2>2. PICK s \in Scripts(Head(toWorker[w])) : script' = [script EXCEPT ![w] = s]
    BY <1>2 DEF Begin
  <2>3. s \in Seq(Messages)
    BY <2>1, ScriptsType
  <2> QED
    BY <1>2, <2>1, <2>2, <2>3 DEF Begin, TypeOK, backendVars, orchVars, streamVars
<1>3. CASE PublishReply(w)
  <2>1. Head(script[w]) \in Messages /\ Tail(script[w]) \in Seq(Messages)
    BY <1>1, <1>3, QueueType DEF PublishReply
  <2>2. Append(fromWorker[w], Head(script[w])) \in Seq(Messages)
    BY <1>1, <2>1, AppendProperties
  <2>3. busy[w] \in Jobs /\ Head(script[w]).type \in Types
    BY <1>1, <1>3, <2>1, KeyOfMessage DEF PublishReply
  <2> QED
    BY <1>3, <2>1, <2>2, <2>3 DEF PublishReply, TypeOK, backendVars, orchVars
<1>4. CASE ReplySwallowed(w)
  <2>1. script[w] # <<>>
    BY <1>1, <1>4 DEF ReplySwallowed
  <2>2. Tail(script[w]) \in Seq(Messages)
    BY <1>1, <2>1, QueueType
  <2> QED
    BY <1>4, <2>2 DEF ReplySwallowed, TypeOK, backendVars, orchVars, streamVars
<1>5. CASE SuccessFails(w)
  <2> DEFINE j == busy[w]
             msg == Head(script[w])
  <2>1. /\ j # NoJob /\ script[w] # <<>>
        /\ script' = [script EXCEPT ![w] = <<Message(j, FailureType(j))>>]
        /\ \/ /\ fromWorker' = [fromWorker EXCEPT ![w] = Append(@, msg)]
              /\ reported' = [reported EXCEPT ![j] = @ \cup {msg.type}]
           \/ UNCHANGED <<fromWorker, reported>>
        /\ UNCHANGED <<backendVars, orchVars, busy, toOrch, toWorker, toBackend>>
    BY <1>5 DEF SuccessFails
  <2>2. j \in Jobs /\ msg \in Messages
    BY <1>1, <2>1, QueueType
  <2>3. Message(j, FailureType(j)) \in Messages
    BY <2>2, JobIdType, MessageType
  <2>4. script' \in [Workers -> Seq(Messages)]
    BY <2>1, <2>3 DEF TypeOK
  <2>5. msg.type \in Types /\ Append(fromWorker[w], msg) \in Seq(Messages)
    BY <1>1, <2>2, KeyOfMessage, AppendProperties
  <2>6. /\ fromWorker \in [Workers -> Seq(Messages)]
        /\ reported \in [Jobs -> SUBSET Types]
    BY DEF TypeOK
  <2>7. /\ [fromWorker EXCEPT ![w] = Append(@, msg)] \in [Workers -> Seq(Messages)]
        /\ [reported EXCEPT ![j] = @ \cup {msg.type}] \in [Jobs -> SUBSET Types]
    BY <2>2, <2>5, <2>6
  <2>8. fromWorker' \in [Workers -> Seq(Messages)] /\ reported' \in [Jobs -> SUBSET Types]
    BY <2>1, <2>6, <2>7
  <2> QED
    BY <2>1, <2>4, <2>8 DEF TypeOK, backendVars, orchVars
<1>6. CASE Finish(w)
  <2>1. Tail(toWorker[w]) \in Seq(Jobs)
    BY <1>1, <1>6, QueueType DEF Finish, TypeOK
  <2> QED
    BY <1>6, <2>1 DEF Finish, TypeOK, backendVars, orchVars
<1>7. CASE WorkRedelivered(w)
  <2>1. Append(Tail(toWorker[w]), Head(toWorker[w])) \in Seq(Jobs)
    BY <1>1, <1>7, QueueType DEF WorkRedelivered, TypeOK
  <2> QED
    BY <1>7, <2>1 DEF WorkRedelivered, TypeOK, backendVars, orchVars
<1> QED
  BY <1>2, <1>3, <1>4, <1>5, <1>6, <1>7 DEF WorkerStep

\* The orchestrator dies.
LEMMA CrashType ==
    ASSUME TypeOK, OrchestratorCrash
    PROVE  TypeOK'
<1>1. \A t \in Task : task'[t] # "forward" /\ value'[t] = "none"
  BY DEF OrchestratorCrash
<1> QED
  BY <1>1 DEF OrchestratorCrash, TypeOK, Pcs, backendVars, workerVars, streamVars

\* Next, action by action.
LEMMA NextCases ==
    ASSUME [Next]_vars
    PROVE  \/ BackendStep
           \/ ListenBackend \/ RequestRedelivered \/ \E j \in Jobs : InitialPrompt(j)
           \/ \E t \in Task :
                \/ TaskStep(t) \/ WaitTimesOut(t)
                \/ PublishRequestFails(t) \/ ForwardFails(t) \/ ReportFails(t)
           \/ \E w \in Workers : ListenWorker(w) \/ ReplyRedelivered(w)
           \/ \E w \in Workers :
                WorkerStep(w) \/ WorkRedelivered(w) \/ ReplySwallowed(w) \/ SuccessFails(w)
           \/ OrchestratorCrash
           \/ UNCHANGED vars
BY DEF Next, Failure

LEMMA TypeInductive ==
    ASSUME TypeOK, [Next]_vars
    PROVE  TypeOK'
<1>1. CASE UNCHANGED vars
  BY <1>1 DEF vars, backendVars, orchVars, workerVars, streamVars, TypeOK
<1> QED
  BY <1>1, NextCases, BackendType, StartType, TaskType, ReplyType, WorkerType, CrashType

\* Every variable has its type, whatever is redelivered, lost or crashes.
THEOREM TypeCorrect == Spec => []TypeOK
<1>1. Init => TypeOK
  <2> SUFFICES ASSUME Init PROVE TypeOK
    OBVIOUS
  <2>1. << >> \in Seq(Jobs) /\ << >> \in Seq(Messages)
    OBVIOUS
  <2> QED
    BY <2>1 DEF Init, TypeOK, Pcs
<1>2. TypeOK /\ [Next]_vars => TypeOK'
  BY TypeInductive
<1> QED
  BY <1>1, <1>2, PTL DEF Spec

-----------------------------------------------------------------------------
(* The slots of the resolvers *)

\* A task that is not waiting holds no slot, so moving it disturbs none.
LEMMA OtherTaskMoves ==
    ASSUME TypeOK, SlotsAreLive, NEW t \in Task, NEW l \in Pcs,
           task[t] # "waiting",
           task' = [task EXCEPT ![t] = l],
           waiters' = waiters
    PROVE  SlotsAreLive'
BY DEF TypeOK, SlotsAreLive

\* Registering a waiter puts a waiting task into its own slot.
LEMMA WaitKeepsSlots ==
    ASSUME TypeOK, SlotsAreLive, NEW t \in Task, Wait(t)
    PROVE  SlotsAreLive'
<1> DEFINE w == WorkerFor(t)
           k == KeyFor(t)
<1>1. w \in Workers /\ k \in Keys
  BY SlotOfTask
<1>2. /\ task' = [task EXCEPT ![t] = "waiting"]
      /\ waiters' = [waiters EXCEPT ![w][k] = t]
  BY DEF Wait
<1> SUFFICES ASSUME NEW v \in Workers, NEW i \in Keys, waiters'[v][i] # NoTask
             PROVE  /\ task'[waiters'[v][i]] = "waiting"
                    /\ KeyFor(waiters'[v][i]) = i
                    /\ WorkerFor(waiters'[v][i]) = v
  BY DEF SlotsAreLive
<1>3. CASE v = w /\ i = k
  BY <1>1, <1>2, <1>3 DEF TypeOK
<1>4. CASE ~(v = w /\ i = k)
  <2>1. waiters'[v][i] = waiters[v][i]
    BY <1>1, <1>2, <1>4 DEF TypeOK
  <2> QED
    BY <1>2, <2>1 DEF TypeOK, SlotsAreLive
<1> QED
  BY <1>3, <1>4

\* The slot of a task is freed and the task moves on: no other slot held it.
LEMMA FreeKeepsSlots ==
    ASSUME TypeOK, SlotsAreLive, NEW t \in Task, NEW l \in Pcs,
           task' = [task EXCEPT ![t] = l],
           waiters' = [waiters EXCEPT ![WorkerFor(t)][KeyFor(t)] = NoTask]
    PROVE  SlotsAreLive'
<1> DEFINE w == WorkerFor(t)
           k == KeyFor(t)
<1>1. w \in Workers /\ k \in Keys
  BY SlotOfTask
<1> SUFFICES ASSUME NEW v \in Workers, NEW i \in Keys, waiters'[v][i] # NoTask
             PROVE  /\ task'[waiters'[v][i]] = "waiting"
                    /\ KeyFor(waiters'[v][i]) = i
                    /\ WorkerFor(waiters'[v][i]) = v
  BY DEF SlotsAreLive
<1>2. ~(v = w /\ i = k) /\ waiters'[v][i] = waiters[v][i]
  BY <1>1 DEF TypeOK
<1>3. waiters[v][i] # t
  BY <1>2 DEF SlotsAreLive
<1> QED
  BY <1>2, <1>3 DEF TypeOK, SlotsAreLive

\* A reply frees the slot of the task it resolves, or none.
LEMMA ReplyKeepsSlots ==
    ASSUME TypeOK, SlotsAreLive, NEW w \in Workers, ListenWorker(w) \/ ReplyRedelivered(w)
    PROVE  SlotsAreLive'
<1> DEFINE k == idKey(Head(fromWorker[w]).job)
           t == waiters[w][k]
<1>1. /\ fromWorker[w] # <<>>
      /\ HandleReply(w) \/ UNCHANGED <<task, waiters>>
  BY DEF ListenWorker, ReplyRedelivered, orchVars
<1>2. Head(fromWorker[w]) \in Messages
  BY <1>1, QueueType DEF TypeOK
<1>3. k \in Keys
  BY <1>2, KeyOfMessage
<1>4. CASE HandleReply(w) /\ t # NoTask
  <2>1. /\ waiters' = [waiters EXCEPT ![w][k] = NoTask]
        /\ task' = [task EXCEPT ![t] = "forward"]
    BY <1>4 DEF HandleReply
  <2>2. t \in Task /\ KeyFor(t) = k /\ WorkerFor(t) = w
    BY <1>3, <1>4 DEF TypeOK, SlotsAreLive
  <2> QED
    BY <2>1, <2>2, FreeKeepsSlots DEF Pcs
<1>5. CASE HandleReply(w) /\ t = NoTask
  BY <1>5 DEF HandleReply, SlotsAreLive
<1>6. CASE UNCHANGED <<task, waiters>>
  BY <1>6 DEF SlotsAreLive
<1> QED
  BY <1>1, <1>4, <1>5, <1>6

\* The other steps of a task.
LEMMA TaskKeepsSlots ==
    ASSUME TypeOK, SlotsAreLive, NEW t \in Task,
           \/ TaskStep(t) \/ WaitTimesOut(t)
           \/ PublishRequestFails(t) \/ ForwardFails(t) \/ ReportFails(t)
    PROVE  SlotsAreLive'
<1>1. CASE Wait(t)
  BY <1>1, WaitKeepsSlots
<1>2. CASE WaitTimesOut(t)
  BY <1>2, FreeKeepsSlots DEF WaitTimesOut, Pcs
<1>3. CASE \/ PublishRequest(t) \/ PublishRequestFails(t) \/ Forward(t)
           \/ ForwardFails(t) \/ ReportFailure(t) \/ ReportFails(t)
  <2>1. PICK l \in Pcs : task' = [task EXCEPT ![t] = l]
    BY <1>3 DEF PublishRequest, PublishRequestFails, Forward, ForwardFails, ReportFailure,
                ReportFails, Pcs
  <2>2. task[t] # "waiting" /\ waiters' = waiters
    BY <1>3 DEF PublishRequest, PublishRequestFails, Forward, ForwardFails, ReportFailure,
                ReportFails, orchVars
  <2> QED
    BY <2>1, <2>2, OtherTaskMoves
<1> QED
  BY <1>1, <1>2, <1>3 DEF TaskStep

\* A request, or the creation of the project, starts a task.
LEMMA StartKeepsSlots ==
    ASSUME TypeOK, SlotsAreLive,
           ListenBackend \/ RequestRedelivered \/ \E j \in Jobs : InitialPrompt(j)
    PROVE  SlotsAreLive'
<1>1. PICK j \in Jobs : StartTask(j)
  <2>1. CASE ListenBackend \/ RequestRedelivered
    <3>1. toOrch # <<>> /\ StartTask(Head(toOrch))
      BY <2>1 DEF ListenBackend, RequestRedelivered
    <3>2. Head(toOrch) \in Jobs
      BY <3>1, QueueType DEF TypeOK
    <3> QED
      BY <3>1, <3>2
  <2>2. CASE \E j \in Jobs : InitialPrompt(j)
    BY <2>2 DEF InitialPrompt
  <2> QED
    BY <2>1, <2>2
<1>2. PICK t \in Task : /\ task[t] = "none"
                        /\ task' = [task EXCEPT ![t] = "publish"]
  BY <1>1, StartTaskMoves
<1>3. waiters' = waiters
  BY DEF ListenBackend, RequestRedelivered, InitialPrompt
<1> QED
  BY <1>2, <1>3, OtherTaskMoves DEF Pcs

LEMMA SlotsInductive ==
    ASSUME TypeOK, SlotsAreLive, [Next]_vars
    PROVE  SlotsAreLive'
<1>1. CASE BackendStep
  BY <1>1 DEF BackendStep, StoreResult, Request, Answer, RequestTimesOut, orchVars,
              SlotsAreLive
<1>2. ASSUME NEW w \in Workers,
             WorkerStep(w) \/ WorkRedelivered(w) \/ ReplySwallowed(w) \/ SuccessFails(w)
      PROVE  SlotsAreLive'
  BY <1>2 DEF WorkerStep, Begin, PublishReply, Finish, WorkRedelivered, ReplySwallowed,
              SuccessFails, orchVars, SlotsAreLive
<1>3. CASE OrchestratorCrash
  BY <1>3 DEF OrchestratorCrash, SlotsAreLive
<1>4. CASE UNCHANGED vars
  BY <1>4 DEF vars, orchVars, SlotsAreLive
<1> QED
  BY <1>1, <1>2, <1>3, <1>4, NextCases, StartKeepsSlots, TaskKeepsSlots, ReplyKeepsSlots

\* No slot of a resolver outlives its task (correlation.ts): whatever requests
\* and replies are redelivered, whichever timers fire and however often the
\* orchestrator dies, a slot in use belongs to a waiting task, under its own key.
THEOREM SlotsStayLive == Spec => []SlotsAreLive
<1>1. Init => SlotsAreLive
  BY DEF Init, SlotsAreLive
<1>2. TypeOK /\ SlotsAreLive /\ [Next]_vars => SlotsAreLive'
  BY SlotsInductive
<1>3. Spec => []TypeOK
  BY TypeCorrect
<1> QED
  BY <1>1, <1>2, <1>3, PTL DEF Spec

-----------------------------------------------------------------------------
(* Answers *)

\* Messages that name their job by id, if any, and a published outcome of it.
OwnMessages == {msg \in Messages : msg.job # NoJob => msg.type \in reported[msg.job]}

\* Wherever an outcome is on its way to a request, it is an outcome of its job.
OwnInv ==
    /\ \A w \in Workers : script[w] \in Seq(MessagesOf(busy[w]))
    /\ \A w \in Workers : fromWorker[w] \in Seq(OwnMessages)
    /\ \A t \in Task :
          task[t] = "forward" => Message(JobId(JobOf(t)), value[t]) \in OwnMessages
    /\ toBackend \in Seq(OwnMessages)
    /\ \A j \in Jobs : results[j] \subseteq reported[j]
    /\ AnswersAreOwn

\* A published outcome stays published, so what was an outcome of its job remains one.
LEMMA OwnStays ==
    ASSUME \A j \in Jobs : reported[j] \subseteq reported'[j]
    PROVE  /\ OwnMessages \subseteq OwnMessages'
           /\ \A q \in Seq(OwnMessages) : q \in Seq(OwnMessages')
<1>1. OwnMessages \subseteq OwnMessages'
  BY DEF OwnMessages, Messages
<1> QED
  BY <1>1, SeqMonotonic

\* The backend stores and returns what it was sent.
LEMMA BackendOwn ==
    ASSUME TypeOK, OwnInv, BackendStep
    PROVE  OwnInv'
<1>1. OwnMessages' = OwnMessages
  BY DEF BackendStep, StoreResult, Request, Answer, RequestTimesOut, OwnMessages
<1>2. /\ UNCHANGED <<script, busy, fromWorker, task, value, reported>>
  BY DEF BackendStep, StoreResult, Request, Answer, RequestTimesOut, orchVars, workerVars,
         streamVars
<1>3. CASE StoreResult
  <2> DEFINE msg == Head(toBackend)
  <2>1. /\ toBackend # <<>>
        /\ results' = [results EXCEPT ![ResultKey(msg.job)] = @ \cup {msg.type}]
        /\ toBackend' = Tail(toBackend)
        /\ UNCHANGED <<http, answer>>
    BY <1>3 DEF StoreResult
  <2>2. msg \in OwnMessages /\ toBackend' \in Seq(OwnMessages)
    BY <2>1, QueueType DEF OwnInv
  <2>3. ASSUME NEW j \in Jobs
        PROVE  results'[j] \subseteq reported[j]
    <3>1. CASE ResultKey(msg.job) = j
      <4>1. msg.job = j
        BY <3>1, JobsAssumption DEF ResultKey
      <4> QED
        BY <2>1, <2>2, <3>1, <4>1, JobsAssumption DEF OwnInv, OwnMessages, TypeOK, Keys
    <3>2. CASE ResultKey(msg.job) # j
      BY <2>1, <3>2 DEF OwnInv, TypeOK, Keys
    <3> QED
      BY <3>1, <3>2
  <2> QED
    BY <1>1, <1>2, <2>1, <2>2, <2>3 DEF OwnInv, AnswersAreOwn
<1>4. ASSUME NEW j \in Jobs, Answer(j)
      PROVE  OwnInv'
  <2>1. PICK i \in DOMAIN Expected(j) :
            /\ Expected(j)[i] \in results[j]
            /\ answer' = [answer EXCEPT ![j] = Expected(j)[i]]
    BY <1>4 DEF Answer
  <2>2. /\ http' = [http EXCEPT ![j] = "answered"]
        /\ UNCHANGED <<results, toBackend>>
    BY <1>4 DEF Answer, streamVars
  <2>3. AnswersAreOwn'
    BY <1>2, <2>1, <2>2 DEF OwnInv, AnswersAreOwn, TypeOK
  <2> QED
    BY <1>1, <1>2, <2>2, <2>3 DEF OwnInv
<1>5. ASSUME NEW j \in Jobs, Request(j) \/ RequestTimesOut(j)
      PROVE  OwnInv'
  <2>1. /\ http' \in {[http EXCEPT ![j] = "waiting"], [http EXCEPT ![j] = "timedOut"]}
        /\ UNCHANGED <<answer, results, toBackend>>
    BY <1>5 DEF Request, RequestTimesOut, streamVars
  <2>2. AnswersAreOwn'
    BY <1>2, <2>1 DEF OwnInv, AnswersAreOwn, TypeOK
  <2> QED
    BY <1>1, <1>2, <2>1, <2>2 DEF OwnInv
<1> QED
  BY <1>3, <1>4, <1>5 DEF BackendStep

\* A task that starts has nothing to forward.
LEMMA StartOwn ==
    ASSUME TypeOK, OwnInv,
           ListenBackend \/ RequestRedelivered \/ \E j \in Jobs : InitialPrompt(j)
    PROVE  OwnInv'
<1>1. /\ UNCHANGED <<script, busy, fromWorker, toBackend, value, results, answer, reported>>
      /\ \/ http' = http
         \/ \E j \in Jobs : http' = [http EXCEPT ![j] = "none"]
  BY DEF ListenBackend, RequestRedelivered, InitialPrompt, backendVars, workerVars, streamVars
<1>2. OwnMessages' = OwnMessages
  BY <1>1 DEF OwnMessages
<1>3. AnswersAreOwn'
  BY <1>1 DEF OwnInv, AnswersAreOwn, TypeOK
<1>4. PICK t \in Task : task' = [task EXCEPT ![t] = "publish"]
  <2>1. ASSUME NEW j \in Jobs, StartTask(j)
        PROVE  \E t \in Task : task' = [task EXCEPT ![t] = "publish"]
    BY <2>1, StartTaskMoves
  <2>2. CASE ListenBackend \/ RequestRedelivered
    <3>1. toOrch # <<>> /\ StartTask(Head(toOrch))
      BY <2>2 DEF ListenBackend, RequestRedelivered
    <3>2. Head(toOrch) \in Jobs
      BY <3>1, QueueType DEF TypeOK
    <3> QED
      BY <2>1, <3>1, <3>2
  <2>3. CASE \E j \in Jobs : InitialPrompt(j)
    BY <2>1, <2>3 DEF InitialPrompt
  <2> QED
    BY <2>2, <2>3
<1> QED
  BY <1>1, <1>2, <1>3, <1>4 DEF OwnInv, TypeOK

\* A task forwards what its waiter was resolved with, or reports a failure of its own.
LEMMA TaskOwn ==
    ASSUME TypeOK, OwnInv, NEW t \in Task,
           \/ TaskStep(t) \/ WaitTimesOut(t)
           \/ PublishRequestFails(t) \/ ForwardFails(t) \/ ReportFails(t)
    PROVE  OwnInv'
<1> DEFINE j == JobOf(t)
<1>1. j \in Jobs /\ JobId(j) \in Jobs \cup {NoJob} /\ FailureType(j) \in Types
  BY SlotOfTask, JobIdType
<1>2. UNCHANGED <<script, busy, fromWorker, results, http, answer>>
  BY DEF TaskStep, PublishRequest, Wait, Forward, ReportFailure, WaitTimesOut,
         PublishRequestFails, ForwardFails, ReportFails, backendVars, workerVars, streamVars
<1>3. CASE \/ PublishRequest(t) \/ PublishRequestFails(t) \/ Wait(t) \/ WaitTimesOut(t)
           \/ ReportFails(t)
  <2>1. UNCHANGED <<toBackend, reported, value>>
    BY <1>3 DEF PublishRequest, PublishRequestFails, Wait, WaitTimesOut, ReportFails,
                streamVars
  <2>2. OwnMessages' = OwnMessages
    BY <2>1 DEF OwnMessages
  <2>3. PICK l \in Pcs \ {"forward"} : task' = [task EXCEPT ![t] = l]
    BY <1>3 DEF PublishRequest, PublishRequestFails, Wait, WaitTimesOut, ReportFails, Pcs
  <2> QED
    BY <1>2, <2>1, <2>2, <2>3 DEF OwnInv, AnswersAreOwn, TypeOK
<1>4. CASE Forward(t) \/ ForwardFails(t)
  <2>1. /\ task[t] = "forward"
        /\ UNCHANGED reported
        /\ toBackend' \in {toBackend, Forwarded(t)}
        /\ value' = [value EXCEPT ![t] = "none"]
    BY <1>4 DEF Forward, ForwardFails
  <2>2. OwnMessages' = OwnMessages
    BY <2>1 DEF OwnMessages
  <2>3. Message(JobId(j), value[t]) \in OwnMessages
    BY <2>1 DEF OwnInv
  <2>4. Forwarded(t) \in Seq(OwnMessages)
    BY <2>3, AppendProperties DEF Forwarded, OwnInv
  <2>5. toBackend' \in Seq(OwnMessages)
    BY <2>1, <2>4 DEF OwnInv
  <2>6. PICK l \in Pcs \ {"forward"} : task' = [task EXCEPT ![t] = l]
    BY <1>4 DEF Forward, ForwardFails, Pcs
  <2> QED
    BY <1>2, <2>1, <2>2, <2>5, <2>6 DEF OwnInv, AnswersAreOwn, TypeOK
<1>5. CASE ReportFailure(t)
  <2> DEFINE msg == Message(JobId(j), FailureType(j))
  <2>1. /\ task' = [task EXCEPT ![t] = "over"]
        /\ toBackend' = Append(toBackend, msg)
        /\ reported' = [reported EXCEPT ![j] = @ \cup {FailureType(j)}]
        /\ UNCHANGED value
    BY <1>5 DEF ReportFailure
  <2>2. \A i \in Jobs : reported[i] \subseteq reported'[i]
    BY <1>1, <2>1 DEF TypeOK
  <2>3. OwnMessages \subseteq OwnMessages' /\ \A q \in Seq(OwnMessages) : q \in Seq(OwnMessages')
    BY <2>2, OwnStays
  <2>4. msg \in OwnMessages'
    BY <1>1, <2>1, MessageType DEF OwnMessages, Message, JobId, TypeOK
  <2>5. toBackend' \in Seq(OwnMessages')
    BY <2>1, <2>3, <2>4, AppendProperties DEF OwnInv
  <2>6. \A u \in Task : task'[u] = "forward" =>
            Message(JobId(JobOf(u)), value'[u]) \in OwnMessages'
    BY <2>1, <2>3 DEF OwnInv, TypeOK
  <2> QED
    BY <1>2, <2>2, <2>3, <2>5, <2>6 DEF OwnInv, AnswersAreOwn
<1> QED
  BY <1>3, <1>4, <1>5 DEF TaskStep

\* A waiter is resolved with a reply to its own job: a reply that names a job is
\* looked up under that job, where only a task of that job can be waiting.
LEMMA ReplyOwn ==
    ASSUME TypeOK, SlotsAreLive, OwnInv, NEW w \in Workers,
           ListenWorker(w) \/ ReplyRedelivered(w)
    PROVE  OwnInv'
<1> DEFINE msg == Head(fromWorker[w])
           k == idKey(msg.job)
           t == waiters[w][k]
           again == IF w = "serve" /\ msg.type = "PROJECT_FAILED" THEN <<msg>> ELSE <<>>
<1>1. /\ fromWorker[w] # <<>>
      /\ fromWorker' \in {[fromWorker EXCEPT ![w] = Tail(@)],
                          [fromWorker EXCEPT ![w] = Append(Tail(@), Head(@))]}
      /\ HandleReply(w) \/ UNCHANGED <<orchVars, toBackend>>
      /\ UNCHANGED <<results, http, answer, script, busy, reported>>
  BY DEF ListenWorker, ReplyRedelivered, backendVars, workerVars
<1>2. OwnMessages' = OwnMessages
  BY <1>1 DEF OwnMessages
<1>3. /\ msg \in OwnMessages
      /\ Tail(fromWorker[w]) \in Seq(OwnMessages)
      /\ Append(Tail(fromWorker[w]), msg) \in Seq(OwnMessages)
  BY <1>1, QueueType DEF OwnInv
<1>4. \A v \in Workers : fromWorker'[v] \in Seq(OwnMessages)
  BY <1>1, <1>3 DEF OwnInv, TypeOK
<1>5. ASSUME HandleReply(w)
      PROVE  /\ toBackend' \in Seq(OwnMessages)
             /\ \A u \in Task : task'[u] = "forward" =>
                    Message(JobId(JobOf(u)), value'[u]) \in OwnMessages
  <2>1. msg \in Messages /\ k \in Keys
    BY <1>3, KeyOfMessage DEF OwnMessages
  <2>2. again \in Seq(OwnMessages) /\ toBackend \in Seq(OwnMessages)
    BY <1>3 DEF OwnInv
  <2>3. CASE t # NoTask
    <3>1. /\ task' = [task EXCEPT ![t] = "forward"]
          /\ value' = [value EXCEPT ![t] = msg.type]
          /\ toBackend' = toBackend \o again
      BY <1>5, <2>3 DEF HandleReply
    <3>2. t \in Task /\ KeyFor(t) = k
      BY <2>1, <2>3 DEF TypeOK, SlotsAreLive
    <3>3. JobId(JobOf(t)) \in {msg.job, NoJob}
      BY <2>1, <3>2, SlotOfTask, JobsAssumption DEF KeyFor, idKey, JobId, Messages
    <3>4. Message(JobId(JobOf(t)), msg.type) \in OwnMessages
      BY <1>3, <2>1, <3>2, <3>3, SlotOfTask, JobIdType, KeyOfMessage, MessageType
      DEF OwnMessages, Message
    <3>5. toBackend' \in Seq(OwnMessages)
      BY <2>2, <3>1, ConcatProperties
    <3> QED
      BY <3>1, <3>2, <3>4, <3>5 DEF OwnInv, TypeOK
  <2>4. CASE t = NoTask
    <3>1. /\ toBackend' = Append(toBackend, msg) \o again
          /\ UNCHANGED <<task, value>>
      BY <1>5, <2>4 DEF HandleReply
    <3>2. Append(toBackend, msg) \in Seq(OwnMessages)
      BY <1>3, <2>2, AppendProperties
    <3>3. toBackend' \in Seq(OwnMessages)
      BY <2>2, <3>1, <3>2, ConcatProperties
    <3> QED
      BY <3>1, <3>3 DEF OwnInv
  <2> QED
    BY <2>3, <2>4
<1>6. CASE HandleReply(w)
  BY <1>1, <1>2, <1>4, <1>5, <1>6 DEF OwnInv, AnswersAreOwn
<1>7. CASE UNCHANGED <<orchVars, toBackend>>
  BY <1>1, <1>2, <1>4, <1>7 DEF OwnInv, AnswersAreOwn, orchVars
<1> QED
  BY <1>1, <1>6, <1>7

\* Publishing a reply makes it a published outcome of the job at hand.
LEMMA WorkerOwn ==
    ASSUME TypeOK, OwnInv, NEW w \in Workers,
           WorkerStep(w) \/ WorkRedelivered(w) \/ ReplySwallowed(w) \/ SuccessFails(w)
    PROVE  OwnInv'
<1>1. UNCHANGED <<task, value, toBackend, results, http, answer>>
  BY DEF WorkerStep, Begin, PublishReply, Finish, WorkRedelivered, ReplySwallowed,
         SuccessFails, backendVars, orchVars, streamVars
<1>2. /\ script[w] \in Seq(MessagesOf(busy[w]))
      /\ fromWorker[w] \in Seq(OwnMessages)
      /\ busy[w] # NoJob => busy[w] \in Jobs
  BY DEF OwnInv, TypeOK
<1>3. ASSUME UNCHANGED <<fromWorker, reported>>,
             \A v \in Workers : script'[v] \in Seq(MessagesOf(busy'[v]))
      PROVE  OwnInv'
  <2>1. OwnMessages' = OwnMessages
    BY <1>3 DEF OwnMessages
  <2> QED
    BY <1>1, <1>3, <2>1 DEF OwnInv, AnswersAreOwn, MessagesOf
<1>4. ASSUME NEW msg \in MessagesOf(busy[w]), busy[w] \in Jobs,
             busy' = busy,
             \A v \in Workers : script'[v] \in Seq(MessagesOf(busy[v])),
             fromWorker' = [fromWorker EXCEPT ![w] = Append(@, msg)],
             reported' = [reported EXCEPT ![busy[w]] = @ \cup {msg.type}]
      PROVE  OwnInv'
  <2>1. \A i \in Jobs : reported[i] \subseteq reported'[i]
    BY <1>4 DEF TypeOK
  <2>2. OwnMessages \subseteq OwnMessages' /\ \A q \in Seq(OwnMessages) : q \in Seq(OwnMessages')
    BY <2>1, OwnStays
  <2>3. msg \in OwnMessages'
    BY <1>4 DEF OwnMessages, MessagesOf, TypeOK
  <2>4. Append(fromWorker[w], msg) \in Seq(OwnMessages')
    BY <1>2, <2>2, <2>3, AppendProperties
  <2>5. \A v \in Workers : fromWorker'[v] \in Seq(OwnMessages')
    BY <1>4, <2>2, <2>4 DEF OwnInv, TypeOK
  <2> QED
    BY <1>1, <1>4, <2>1, <2>2, <2>5 DEF OwnInv, AnswersAreOwn, MessagesOf
<1>5. CASE Begin(w)
  <2>1. Head(toWorker[w]) \in Jobs
    BY <1>5, QueueType DEF Begin, TypeOK
  <2>2. PICK s \in Scripts(Head(toWorker[w])) : script' = [script EXCEPT ![w] = s]
    BY <1>5 DEF Begin
  <2>3. s \in Seq(MessagesOf(Head(toWorker[w])))
    BY <2>1, ScriptsType
  <2>4. /\ busy' = [busy EXCEPT ![w] = Head(toWorker[w])]
        /\ UNCHANGED <<fromWorker, reported>>
    BY <1>5 DEF Begin, streamVars
  <2>5. \A v \in Workers : script'[v] \in Seq(MessagesOf(busy'[v]))
    BY <2>2, <2>3, <2>4 DEF OwnInv, TypeOK
  <2> QED
    BY <1>3, <2>4, <2>5
<1>6. CASE PublishReply(w)
  <2>1. /\ busy[w] # NoJob /\ script[w] # <<>>
        /\ script' = [script EXCEPT ![w] = Tail(@)]
        /\ fromWorker' = [fromWorker EXCEPT ![w] = Append(@, Head(script[w]))]
        /\ reported' = [reported EXCEPT ![busy[w]] = @ \cup {Head(script[w]).type}]
        /\ UNCHANGED busy
    BY <1>6 DEF PublishReply
  <2>2. /\ Head(script[w]) \in MessagesOf(busy[w])
        /\ Tail(script[w]) \in Seq(MessagesOf(busy[w]))
    BY <1>2, <2>1, QueueType
  <2>3. \A v \in Workers : script'[v] \in Seq(MessagesOf(busy[v]))
    BY <2>1, <2>2 DEF OwnInv, TypeOK
  <2> QED
    BY <1>2, <1>4, <2>1, <2>2, <2>3
<1>7. CASE ReplySwallowed(w)
  <2>1. /\ script[w] # <<>>
        /\ script' = [script EXCEPT ![w] = Tail(@)]
        /\ UNCHANGED <<busy, fromWorker, reported>>
    BY <1>2, <1>7 DEF ReplySwallowed, streamVars
  <2>2. Tail(script[w]) \in Seq(MessagesOf(busy[w]))
    BY <1>2, <2>1, QueueType
  <2>3. \A v \in Workers : script'[v] \in Seq(MessagesOf(busy'[v]))
    BY <2>1, <2>2 DEF OwnInv, TypeOK
  <2> QED
    BY <1>3, <2>1, <2>3
<1>8. CASE SuccessFails(w)
  <2> DEFINE j == busy[w]
             msg == Head(script[w])
             failure == Message(j, FailureType(j))
  <2>1. /\ j # NoJob /\ script[w] # <<>>
        /\ script' = [script EXCEPT ![w] = <<failure>>]
        /\ \/ /\ fromWorker' = [fromWorker EXCEPT ![w] = Append(@, msg)]
              /\ reported' = [reported EXCEPT ![j] = @ \cup {msg.type}]
           \/ UNCHANGED <<fromWorker, reported>>
        /\ UNCHANGED busy
    BY <1>8 DEF SuccessFails
  <2>2. j \in Jobs /\ msg \in MessagesOf(j)
    BY <1>2, <2>1, QueueType
  <2>3. failure \in MessagesOf(j)
    BY <2>2, JobIdType, MessageType DEF MessagesOf, Message
  <2>4. <<failure>> \in Seq(MessagesOf(j))
    BY <2>3
  <2>5. \A v \in Workers : script'[v] \in Seq(MessagesOf(busy[v]))
    BY <2>1, <2>4 DEF OwnInv, TypeOK
  <2>6. CASE UNCHANGED <<fromWorker, reported>>
    BY <1>3, <2>1, <2>5, <2>6
  <2>7. CASE /\ fromWorker' = [fromWorker EXCEPT ![w] = Append(@, msg)]
             /\ reported' = [reported EXCEPT ![j] = @ \cup {msg.type}]
    BY <1>4, <2>1, <2>2, <2>5, <2>7
  <2> QED
    BY <2>1, <2>6, <2>7
<1>9. CASE Finish(w) \/ WorkRedelivered(w)
  <2>1. /\ busy' = [busy EXCEPT ![w] = NoJob]
        /\ script' = [script EXCEPT ![w] = <<>>]
        /\ UNCHANGED <<fromWorker, reported>>
    BY <1>9 DEF Finish, WorkRedelivered, TypeOK
  <2>2. << >> \in Seq(MessagesOf(NoJob))
    OBVIOUS
  <2>3. \A v \in Workers : script'[v] \in Seq(MessagesOf(busy'[v]))
    BY <2>1, <2>2 DEF OwnInv, TypeOK
  <2> QED
    BY <1>3, <2>1, <2>3
<1> QED
  BY <1>5, <1>6, <1>7, <1>8, <1>9 DEF WorkerStep

LEMMA OwnInductive ==
    ASSUME TypeOK, SlotsAreLive, OwnInv, [Next]_vars
    PROVE  OwnInv'
<1>1. CASE OrchestratorCrash
  <2>1. \A t \in Task : task'[t] # "forward"
    BY <1>1 DEF OrchestratorCrash
  <2>2. OwnMessages' = OwnMessages
    BY <1>1 DEF OrchestratorCrash, OwnMessages
  <2> QED
    BY <1>1, <2>1, <2>2
    DEF OrchestratorCrash, OwnInv, AnswersAreOwn, MessagesOf, backendVars, workerVars, streamVars
<1>2. CASE UNCHANGED vars
  <2>1. OwnMessages' = OwnMessages
    BY <1>2 DEF vars, OwnMessages
  <2> QED
    BY <1>2, <2>1
    DEF vars, backendVars, orchVars, workerVars, streamVars, OwnInv, AnswersAreOwn, MessagesOf
<1> QED
  BY <1>1, <1>2, NextCases, BackendOwn, StartOwn, TaskOwn, ReplyOwn, WorkerOwn

LEMMA OwnHolds == Spec => []OwnInv
<1>1. Init => OwnInv
  <2> SUFFICES ASSUME Init PROVE OwnInv
    OBVIOUS
  <2>1. << >> \in Seq(OwnMessages) /\ \A w \in Workers : << >> \in Seq(MessagesOf(busy[w]))
    OBVIOUS
  <2>2. \A w \in Workers : script[w] \in Seq(MessagesOf(busy[w]))
    BY <2>1 DEF Init
  <2>3. \A w \in Workers : fromWorker[w] \in Seq(OwnMessages)
    BY <2>1 DEF Init
  <2>4. \A t \in Task : task[t] # "forward"
    BY DEF Init
  <2>5. toBackend \in Seq(OwnMessages)
    BY <2>1 DEF Init
  <2>6. (\A j \in Jobs : results[j] \subseteq reported[j]) /\ AnswersAreOwn
    BY DEF Init, AnswersAreOwn, Keys
  <2> QED
    BY <2>2, <2>3, <2>4, <2>5, <2>6 DEF OwnInv
<1>2. TypeOK /\ SlotsAreLive /\ OwnInv /\ [Next]_vars => OwnInv'
  BY OwnInductive
<1>3. Spec => []TypeOK /\ []SlotsAreLive
  BY TypeCorrect, SlotsStayLive
<1> QED
  BY <1>1, <1>2, <1>3, PTL DEF Spec

\* "Each resolves with its own correct response" (spec-06): no interleaving of the
\* jobs of a project, no late, repeated or lost reply and no crash answers a
\* request with the outcome of another job.
THEOREM AnswersStayOwn == Spec => []AnswersAreOwn
<1>1. OwnInv => AnswersAreOwn
  BY DEF OwnInv
<1> QED
  BY <1>1, OwnHolds, PTL

-----------------------------------------------------------------------------
(* Waiting tasks stay reachable *)

\* A project is created once, with one prompt.
OneInitialPrompt == \A i, j \in Initial : i = j

\* TypeOK does not need the failure counter; these proofs do.
FaultsCounted == faults \in Nat

\* While nothing has failed, a job has one task at most, which its request, still
\* in the stream or not yet made, has not started.
OneTaskPerJob ==
    faults = 0 =>
        /\ \A s, t \in Task :
              task[s] # "none" /\ task[t] # "none" /\ JobOf(s) = JobOf(t) => s = t
        /\ \A t \in Task : task[t] # "none" => http[JobOf(t)] # "idle"
        /\ \A i \in DOMAIN toOrch :
              /\ http[toOrch[i]] # "idle"
              /\ \A t \in Task : JobOf(t) = toOrch[i] => task[t] = "none"
        /\ \A i, k \in DOMAIN toOrch : toOrch[i] = toOrch[k] => i = k

\* Two tasks with the same slot are tasks of the same job.
LEMMA SlotNamesJob ==
    ASSUME OneInitialPrompt, NEW s \in Task, NEW t \in Task, KeyFor(s) = KeyFor(t)
    PROVE  JobOf(s) = JobOf(t)
<1>1. JobOf(s) \in Jobs /\ JobOf(t) \in Jobs
  BY SlotOfTask
<1>2. \A j \in Jobs : idKey(JobId(j)) = IF j \in Initial THEN Project ELSE j
  BY JobsAssumption DEF idKey, JobId
<1>3. Project \notin Jobs
  BY JobsAssumption
<1> QED
  BY <1>1, <1>2, <1>3 DEF KeyFor, OneInitialPrompt

\* A failure ends what is claimed of runs without one.
LEMMA FailureCounts ==
    ASSUME TypeOK, FaultsCounted, [Next]_vars, faults' = 0
    PROVE  faults = 0 /\ ~Failure
<1>1. Failure => faults' = faults + 1
  BY DEF Failure, RequestRedelivered, OrchestratorCrash, PublishRequestFails, ForwardFails,
         ReportFails, ReplyRedelivered, WorkRedelivered, ReplySwallowed, SuccessFails, Fault
<1>2. ~Failure => faults' = faults
  BY DEF Next, BackendStep, StoreResult, Request, Answer, RequestTimesOut, ListenBackend,
         InitialPrompt, TaskStep, PublishRequest, Wait, Forward, ReportFailure, WaitTimesOut,
         ListenWorker, WorkerStep, Begin, PublishReply, Finish, vars
<1> QED
  BY <1>1, <1>2 DEF FaultsCounted

\* A job without a task gets its first.
LEMMA FirstTask ==
    ASSUME TypeOK, NEW j \in Jobs, StartTask(j)
    PROVE  \E t \in Task : /\ JobOf(t) = j /\ task[t] = "none"
                           /\ task' = [task EXCEPT ![t] = "publish"]
<1>1. PICK n \in 1..MaxTries : /\ task[<<j, n>>] = "none"
                               /\ task' = [task EXCEPT ![<<j, n>>] = "publish"]
  BY DEF StartTask
<1>2. <<j, n>> \in Task /\ JobOf(<<j, n>>) = j
  BY DEF Task, JobOf
<1> QED
  BY <1>1, <1>2

LEMMA OneTaskInductive ==
    ASSUME TypeOK, FaultsCounted, SlotsAreLive, OneTaskPerJob, [Next]_vars
    PROVE  OneTaskPerJob'
<1> SUFFICES ASSUME faults' = 0
             PROVE  OneTaskPerJob'
  BY DEF OneTaskPerJob
<1>1. faults = 0 /\ ~Failure
  BY FailureCounts
<1>2. /\ http \in [Jobs -> {"idle", "none", "waiting", "answered", "timedOut"}]
      /\ task \in [Task -> Pcs] /\ toOrch \in Seq(Jobs)
      /\ \A t \in Task : JobOf(t) \in Jobs
  BY SlotOfTask DEF TypeOK
<1>3. /\ \A s, t \in Task :
            task[s] # "none" /\ task[t] # "none" /\ JobOf(s) = JobOf(t) => s = t
      /\ \A t \in Task : task[t] # "none" => http[JobOf(t)] # "idle"
      /\ \A i \in DOMAIN toOrch :
            /\ http[toOrch[i]] # "idle"
            /\ \A t \in Task : JobOf(t) = toOrch[i] => task[t] = "none"
      /\ \A i, k \in DOMAIN toOrch : toOrch[i] = toOrch[k] => i = k
  BY <1>1 DEF OneTaskPerJob
<1>4. CASE \E j \in Jobs : Request(j)
  <2>1. PICK j \in Jobs : /\ http[j] = "idle" /\ http' = [http EXCEPT ![j] = "waiting"]
                          /\ toOrch' = Append(toOrch, j) /\ task' = task
    BY <1>4 DEF Request, orchVars
  <2>2. /\ DOMAIN toOrch = 1..Len(toOrch) /\ Len(toOrch) \in Nat
        /\ DOMAIN toOrch' = 1..(Len(toOrch) + 1)
        /\ \A i \in 1..Len(toOrch) : toOrch'[i] = toOrch[i] /\ toOrch[i] \in Jobs
        /\ toOrch'[Len(toOrch) + 1] = j
    BY <1>2, <2>1, AppendProperties
  <2>3. \A t \in Task : JobOf(t) = j => task[t] = "none"
    BY <1>3, <2>1
  <2>4. \A i \in 1..Len(toOrch) : toOrch[i] # j
    BY <1>3, <2>1, <2>2
  <2>5. \A i \in 1..(Len(toOrch) + 1) : i \in 1..Len(toOrch) \/ i = Len(toOrch) + 1
    BY <2>2
  <2>6. \A i \in DOMAIN toOrch' :
            /\ http'[toOrch'[i]] # "idle"
            /\ \A t \in Task : JobOf(t) = toOrch'[i] => task'[t] = "none"
    BY <1>2, <1>3, <2>1, <2>2, <2>3, <2>5
  <2>7. \A i, k \in DOMAIN toOrch' : toOrch'[i] = toOrch'[k] => i = k
    BY <1>3, <2>2, <2>4, <2>5
  <2>8. \A t \in Task : task'[t] # "none" => http'[JobOf(t)] # "idle"
    BY <1>2, <1>3, <2>1
  <2> QED
    BY <1>3, <2>1, <2>6, <2>7, <2>8 DEF OneTaskPerJob
<1>5. CASE ListenBackend
  <2>1. toOrch # <<>> /\ toOrch' = Tail(toOrch) /\ StartTask(Head(toOrch)) /\ http' = http
    BY <1>5 DEF ListenBackend, backendVars
  <2>2. /\ Len(toOrch) \in Nat /\ DOMAIN toOrch = 1..Len(toOrch) /\ Len(toOrch) > 0
        /\ DOMAIN toOrch' = 1..(Len(toOrch) - 1) /\ Head(toOrch) = toOrch[1]
        /\ Head(toOrch) \in Jobs
        /\ \A i \in 1..(Len(toOrch) - 1) :
              toOrch'[i] = toOrch[i + 1] /\ i + 1 \in 1..Len(toOrch) /\ i + 1 # 1
    BY <1>2, <2>1, HeadTailProperties
  <2>3. PICK u \in Task : /\ JobOf(u) = toOrch[1] /\ task[u] = "none"
                          /\ task' = [task EXCEPT ![u] = "publish"]
    BY <2>1, <2>2, FirstTask
  <2>4. 1 \in DOMAIN toOrch
    BY <2>2
  <2>5. \A t \in Task : JobOf(t) = toOrch[1] => task[t] = "none"
    BY <1>3, <2>4
  <2>6. \A s, t \in Task :
            task'[s] # "none" /\ task'[t] # "none" /\ JobOf(s) = JobOf(t) => s = t
    BY <1>2, <1>3, <2>3, <2>5
  <2>7. \A t \in Task : task'[t] # "none" => http'[JobOf(t)] # "idle"
    BY <1>2, <1>3, <2>1, <2>3, <2>4
  <2>8. \A i \in DOMAIN toOrch' : toOrch'[i] # toOrch[1]
    BY <1>3, <2>2, <2>4
  <2>9. \A i \in DOMAIN toOrch' :
            /\ http'[toOrch'[i]] # "idle"
            /\ \A t \in Task : JobOf(t) = toOrch'[i] => task'[t] = "none"
    BY <1>2, <1>3, <2>1, <2>2, <2>3, <2>8
  <2>10. \A i, k \in DOMAIN toOrch' : toOrch'[i] = toOrch'[k] => i = k
    <3>1. SUFFICES ASSUME NEW i \in 1..(Len(toOrch) - 1), NEW k \in 1..(Len(toOrch) - 1),
                          toOrch[i + 1] = toOrch[k + 1]
                   PROVE  i = k
      BY <2>2
    <3>2. i + 1 = k + 1
      BY <1>3, <2>2, <3>1
    <3> QED
      BY <3>2
  <2> QED
    BY <2>6, <2>7, <2>9, <2>10 DEF OneTaskPerJob
<1>6. CASE \E j \in Jobs : InitialPrompt(j)
  <2>1. PICK j \in Jobs : /\ http[j] = "idle" /\ http' = [http EXCEPT ![j] = "none"]
                          /\ StartTask(j) /\ toOrch' = toOrch
    BY <1>6 DEF InitialPrompt, streamVars
  <2>2. PICK u \in Task : /\ JobOf(u) = j /\ task[u] = "none"
                          /\ task' = [task EXCEPT ![u] = "publish"]
    BY <2>1, FirstTask
  <2>3. \A t \in Task : JobOf(t) = j => task[t] = "none"
    BY <1>3, <2>1
  <2>4. \A i \in DOMAIN toOrch : toOrch[i] \in Jobs /\ toOrch[i] # j
    BY <1>2, <1>3, <2>1
  <2>5. \A s, t \in Task :
            task'[s] # "none" /\ task'[t] # "none" /\ JobOf(s) = JobOf(t) => s = t
    BY <1>2, <1>3, <2>2, <2>3
  <2>6. \A t \in Task : task'[t] # "none" => http'[JobOf(t)] # "idle"
    BY <1>2, <1>3, <2>1, <2>2
  <2>7. \A i \in DOMAIN toOrch' :
            /\ http'[toOrch'[i]] # "idle"
            /\ \A t \in Task : JobOf(t) = toOrch'[i] => task'[t] = "none"
    BY <1>2, <1>3, <2>1, <2>2, <2>4
  <2> QED
    BY <1>3, <2>1, <2>5, <2>6, <2>7 DEF OneTaskPerJob
\* The other steps move tasks that were started.
<1>7. ASSUME toOrch' = toOrch,
             \A j \in Jobs : http'[j] = "idle" => http[j] = "idle",
             \A t \in Task : task'[t] # "none" => task[t] # "none"
      PROVE  OneTaskPerJob'
  <2>1. \A i \in DOMAIN toOrch : toOrch[i] \in Jobs
    BY <1>2
  <2> QED
    BY <1>2, <1>3, <1>7, <2>1 DEF OneTaskPerJob
<1>8. CASE \/ StoreResult \/ \E j \in Jobs : Answer(j) \/ RequestTimesOut(j)
  BY <1>2, <1>7, <1>8 DEF StoreResult, Answer, RequestTimesOut, orchVars, streamVars
<1>9. ASSUME NEW t \in Task, TaskStep(t) \/ WaitTimesOut(t)
      PROVE  OneTaskPerJob'
  BY <1>2, <1>7, <1>9 DEF TaskStep, PublishRequest, Wait, Forward, ReportFailure, WaitTimesOut,
     backendVars, streamVars
<1>10. ASSUME NEW w \in Workers, ListenWorker(w) \/ WorkerStep(w)
       PROVE  OneTaskPerJob'
  <2>1. toOrch' = toOrch /\ http' = http
    BY <1>10 DEF ListenWorker, WorkerStep, Begin, PublishReply, Finish, backendVars, streamVars
  <2>2. CASE WorkerStep(w)
    BY <1>7, <2>1, <2>2 DEF WorkerStep, Begin, PublishReply, Finish, orchVars
  <2>3. CASE ListenWorker(w)
    <3> DEFINE u == waiters[w][idKey(Head(fromWorker[w]).job)]
    <3>1. idKey(Head(fromWorker[w]).job) \in Keys
      BY <2>3, QueueType, KeyOfMessage DEF ListenWorker, TypeOK
    <3>2. task' = task \/ (u # NoTask /\ task' = [task EXCEPT ![u] = "forward"])
      BY <2>3 DEF ListenWorker, HandleReply
    <3>3. u # NoTask => task[u] = "waiting"
      BY <3>1 DEF SlotsAreLive
    <3>4. \A t \in Task : task'[t] # "none" => task[t] # "none"
      BY <1>2, <3>2, <3>3
    <3> QED
      BY <1>7, <2>1, <3>4
  <2> QED
    BY <1>10, <2>2, <2>3
<1>11. CASE UNCHANGED vars
  BY <1>7, <1>11 DEF vars, backendVars, orchVars, streamVars
<1> QED
  BY <1>1, <1>4, <1>5, <1>6, <1>8, <1>9, <1>10, <1>11 DEF Next, BackendStep

LEMMA ReachableInductive ==
    ASSUME OneInitialPrompt, TypeOK, FaultsCounted, SlotsAreLive, OneTaskPerJob,
           WaitersAreReachable, [Next]_vars
    PROVE  WaitersAreReachable'
<1> SUFFICES ASSUME faults' = 0, NEW s \in Task, task'[s] = "waiting"
             PROVE  waiters'[WorkerFor(s)][KeyFor(s)] = s
  BY DEF WaitersAreReachable
<1>1. faults = 0 /\ ~Failure
  BY FailureCounts
<1>2. /\ task \in [Task -> Pcs] /\ waiters \in [Workers -> [Keys -> Task \cup {NoTask}]]
      /\ WorkerFor(s) \in Workers /\ KeyFor(s) \in Keys /\ s # NoTask
  BY SlotOfTask DEF TypeOK
<1>3. task[s] = "waiting" => waiters[WorkerFor(s)][KeyFor(s)] = s
  BY <1>1 DEF WaitersAreReachable
<1>4. CASE waiters' = waiters /\ task[s] = "waiting"
  BY <1>3, <1>4
<1>5. ASSUME NEW t \in Task, Wait(t)
      PROVE  waiters'[WorkerFor(s)][KeyFor(s)] = s
  <2>1. /\ WorkerFor(t) \in Workers /\ KeyFor(t) \in Keys /\ task[t] = "register"
        /\ task' = [task EXCEPT ![t] = "waiting"]
        /\ waiters' = [waiters EXCEPT ![WorkerFor(t)][KeyFor(t)] = t]
    BY <1>5, SlotOfTask DEF Wait
  <2>2. CASE s = t
    BY <1>2, <2>1, <2>2
  <2>3. CASE s # t
    <3>1. task[s] = "waiting"
      BY <1>2, <2>1, <2>3
    <3>2. JobOf(s) # JobOf(t)
      BY <1>1, <2>1, <2>3, <3>1 DEF OneTaskPerJob
    <3>3. KeyFor(s) # KeyFor(t)
      BY <3>2, SlotNamesJob
    <3> QED
      BY <1>2, <1>3, <2>1, <3>1, <3>3
  <2> QED
    BY <2>2, <2>3
\* The slot of another waiting task is freed.
<1>6. ASSUME NEW t \in Task, task[t] = "waiting", NEW l \in Pcs \ {"waiting"},
             task' = [task EXCEPT ![t] = l],
             waiters' = [waiters EXCEPT ![WorkerFor(t)][KeyFor(t)] = NoTask]
      PROVE  waiters'[WorkerFor(s)][KeyFor(s)] = s
  <2>1. s # t /\ task[s] = "waiting"
    BY <1>2, <1>6
  <2>2. waiters[WorkerFor(t)][KeyFor(t)] = t
    BY <1>1, <1>6 DEF WaitersAreReachable
  <2>3. ~(WorkerFor(s) = WorkerFor(t) /\ KeyFor(s) = KeyFor(t))
    BY <1>3, <2>1, <2>2
  <2>4. WorkerFor(t) \in Workers /\ KeyFor(t) \in Keys
    BY SlotOfTask
  <2> QED
    BY <1>2, <1>3, <1>6, <2>1, <2>3, <2>4
<1>7. ASSUME NEW t \in Task, WaitTimesOut(t)
      PROVE  waiters'[WorkerFor(s)][KeyFor(s)] = s
  BY <1>6, <1>7 DEF WaitTimesOut, Pcs
<1>8. ASSUME NEW w \in Workers, ListenWorker(w)
      PROVE  waiters'[WorkerFor(s)][KeyFor(s)] = s
  <2>1. PICK k \in Keys : k = idKey(Head(fromWorker[w]).job)
    BY <1>8, QueueType, KeyOfMessage DEF ListenWorker, TypeOK
  <2>2. PICK t \in Task \cup {NoTask} : t = waiters[w][k]
    BY <1>2, <2>1
  <2>3. CASE t = NoTask
    BY <1>3, <1>8, <2>1, <2>2, <2>3 DEF ListenWorker, HandleReply
  <2>4. CASE t # NoTask
    <3>1. task[t] = "waiting" /\ KeyFor(t) = k /\ WorkerFor(t) = w /\ t \in Task
      BY <2>1, <2>2, <2>4 DEF SlotsAreLive
    <3>2. /\ waiters' = [waiters EXCEPT ![w][k] = NoTask]
          /\ task' = [task EXCEPT ![t] = "forward"]
      BY <1>8, <2>1, <2>2, <2>4 DEF ListenWorker, HandleReply
    <3> QED
      BY <1>6, <3>1, <3>2 DEF Pcs
  <2> QED
    BY <2>3, <2>4
<1>9. ASSUME NEW t \in Task, PublishRequest(t) \/ Forward(t) \/ ReportFailure(t)
      PROVE  waiters' = waiters /\ task[s] = "waiting"
  BY <1>2, <1>9 DEF PublishRequest, Forward, ReportFailure
<1>10. ASSUME ListenBackend \/ \E j \in Jobs : InitialPrompt(j)
       PROVE  waiters' = waiters /\ task[s] = "waiting"
  BY <1>2, <1>10 DEF ListenBackend, InitialPrompt, StartTask
<1>11. ASSUME BackendStep \/ UNCHANGED vars \/ \E w \in Workers : WorkerStep(w)
       PROVE  waiters' = waiters /\ task[s] = "waiting"
  BY <1>11 DEF BackendStep, StoreResult, Request, Answer, RequestTimesOut, WorkerStep, Begin,
     PublishReply, Finish, orchVars, vars
<1> QED
  BY <1>1, <1>4, <1>5, <1>7, <1>8, <1>9, <1>10, <1>11 DEF Next, TaskStep

\* Without failures a waiting task is the one its slot names, however the
\* publishes, registrations, timeouts and replies of a project's operations
\* interleave: no build, run or prompt takes or frees the slot of another
\* (correlation.ts:5-9).
THEOREM WaitersStayReachable ==
    ASSUME OneInitialPrompt
    PROVE  Spec => []WaitersAreReachable
<1>1. Init => FaultsCounted /\ OneTaskPerJob /\ WaitersAreReachable
  BY DEF Init, FaultsCounted, OneTaskPerJob, WaitersAreReachable
<1>2. FaultsCounted /\ [Next]_vars => FaultsCounted'
  BY DEF FaultsCounted, Next, Failure, RequestRedelivered, OrchestratorCrash,
         PublishRequestFails, ForwardFails, ReportFails, ReplyRedelivered, WorkRedelivered, ReplySwallowed, SuccessFails, Fault,
         BackendStep, StoreResult, Request, Answer, RequestTimesOut, ListenBackend,
         InitialPrompt, TaskStep, PublishRequest, Wait, Forward, ReportFailure, WaitTimesOut,
         ListenWorker, WorkerStep, Begin, PublishReply, Finish, vars
<1>3. TypeOK /\ FaultsCounted /\ SlotsAreLive /\ OneTaskPerJob /\ WaitersAreReachable
        /\ [Next]_vars => OneTaskPerJob' /\ WaitersAreReachable'
  BY OneTaskInductive, ReachableInductive
<1> QED
  BY <1>1, <1>2, <1>3, TypeCorrect, SlotsStayLive, PTL DEF Spec

-----------------------------------------------------------------------------
(* The contract *)

\* The jobs somebody asked for.
AskedJobs == {j \in Jobs : http[j] # "idle"}

\* Whatever is under way for a job, the job was asked for.
AskedInv ==
    /\ toOrch \in Seq(AskedJobs)
    /\ \A w \in Workers : toWorker[w] \in Seq(AskedJobs)
    /\ \A w \in Workers : busy[w] # NoJob => busy[w] \in AskedJobs
    /\ \A t \in Task : task[t] # "none" => JobOf(t) \in AskedJobs

\* A job that was asked for remains one.
LEMMA AskedStays ==
    ASSUME TypeOK,
           \/ http' = http
           \/ \E j \in Jobs, as \in {"none", "waiting", "answered", "timedOut"} :
                http' = [http EXCEPT ![j] = as]
    PROVE  /\ AskedJobs \subseteq AskedJobs'
           /\ \A q \in Seq(AskedJobs) : q \in Seq(AskedJobs')
<1>1. AskedJobs \subseteq AskedJobs'
  BY DEF AskedJobs, TypeOK
<1> QED
  BY <1>1, SeqMonotonic

\* Steps that move one task that was started, or none, and no job between the streams
\* and the workers.
LEMMA TaskKeepsAsked ==
    ASSUME TypeOK, AskedInv,
           \/ task' = task
           \/ \E t \in Task, pc \in Pcs : task[t] # "none" /\ task' = [task EXCEPT ![t] = pc],
           UNCHANGED <<http, toOrch, toWorker, busy>>
    PROVE  AskedInv'
<1>1. AskedJobs' = AskedJobs
  BY DEF AskedJobs
<1>2. \A t \in Task : task'[t] # "none" => task[t] # "none"
  BY DEF TypeOK
<1> QED
  BY <1>1, <1>2 DEF AskedInv

\* The task that starts is one of a job that was asked for.
LEMMA StartKeepsAsked ==
    ASSUME TypeOK, AskedInv, NEW j \in Jobs, j \in AskedJobs', StartTask(j),
           AskedJobs \subseteq AskedJobs'
    PROVE  \A t \in Task : task'[t] # "none" => JobOf(t) \in AskedJobs'
<1>1. PICK n \in 1..MaxTries : task' = [task EXCEPT ![<<j, n>>] = "publish"]
  BY DEF StartTask
<1>2. \A t \in Task : t # <<j, n>> => task'[t] = task[t]
  BY <1>1 DEF TypeOK
<1>3. JobOf(<<j, n>>) = j
  BY DEF JobOf
<1> QED
  BY <1>2, <1>3 DEF AskedInv

LEMMA BackendAsked ==
    ASSUME TypeOK, AskedInv, BackendStep
    PROVE  AskedInv'
<1>1. UNCHANGED <<task, toWorker, busy>>
  BY DEF BackendStep, StoreResult, Request, Answer, RequestTimesOut, orchVars, workerVars,
         streamVars
<1>2. CASE StoreResult
  BY <1>1, <1>2, TaskKeepsAsked DEF StoreResult
<1>3. ASSUME NEW j \in Jobs, Request(j) \/ Answer(j) \/ RequestTimesOut(j)
      PROVE  AskedInv'
  <2>1. PICK as \in {"waiting", "answered", "timedOut"} : http' = [http EXCEPT ![j] = as]
    BY <1>3 DEF Request, Answer, RequestTimesOut
  <2>2. AskedJobs \subseteq AskedJobs' /\ \A q \in Seq(AskedJobs) : q \in Seq(AskedJobs')
    BY <2>1, AskedStays
  <2>3. toOrch' \in {toOrch, Append(toOrch, j)}
    BY <1>3 DEF Request, Answer, RequestTimesOut, streamVars
  <2>4. j \in AskedJobs'
    BY <2>1 DEF AskedJobs, TypeOK
  <2>5. toOrch' \in Seq(AskedJobs')
    BY <2>2, <2>3, <2>4, AppendProperties DEF AskedInv
  <2> QED
    BY <1>1, <2>2, <2>5 DEF AskedInv
<1> QED
  BY <1>2, <1>3 DEF BackendStep

LEMMA StartAsked ==
    ASSUME TypeOK, AskedInv,
           ListenBackend \/ RequestRedelivered \/ \E j \in Jobs : InitialPrompt(j)
    PROVE  AskedInv'
<1>1. UNCHANGED <<toWorker, busy>>
  BY DEF ListenBackend, RequestRedelivered, InitialPrompt, workerVars, streamVars
<1>2. CASE ListenBackend \/ RequestRedelivered
  <2>1. /\ toOrch # <<>>
        /\ StartTask(Head(toOrch))
        /\ toOrch' \in {Tail(toOrch), Append(Tail(toOrch), Head(toOrch))}
        /\ UNCHANGED http
    BY <1>2 DEF ListenBackend, RequestRedelivered, backendVars
  <2>2. AskedJobs' = AskedJobs
    BY <2>1 DEF AskedJobs
  <2>3. Head(toOrch) \in AskedJobs /\ toOrch' \in Seq(AskedJobs)
    BY <2>1, QueueType DEF AskedInv
  <2>4. \A t \in Task : task'[t] # "none" => JobOf(t) \in AskedJobs'
    BY <2>1, <2>2, <2>3, StartKeepsAsked DEF AskedJobs
  <2> QED
    BY <1>1, <2>2, <2>3, <2>4 DEF AskedInv
<1>3. ASSUME NEW j \in Jobs, InitialPrompt(j)
      PROVE  AskedInv'
  <2>1. /\ http' = [http EXCEPT ![j] = "none"]
        /\ StartTask(j)
        /\ UNCHANGED toOrch
    BY <1>3 DEF InitialPrompt, streamVars
  <2>2. AskedJobs \subseteq AskedJobs' /\ \A q \in Seq(AskedJobs) : q \in Seq(AskedJobs')
    BY <2>1, AskedStays
  <2>3. j \in AskedJobs'
    BY <2>1 DEF AskedJobs, TypeOK
  <2>4. \A t \in Task : task'[t] # "none" => JobOf(t) \in AskedJobs'
    BY <2>1, <2>2, <2>3, StartKeepsAsked
  <2> QED
    BY <1>1, <2>1, <2>2, <2>4 DEF AskedInv
<1> QED
  BY <1>2, <1>3

LEMMA TaskAsked ==
    ASSUME TypeOK, AskedInv, NEW t \in Task,
           \/ TaskStep(t) \/ WaitTimesOut(t)
           \/ PublishRequestFails(t) \/ ForwardFails(t) \/ ReportFails(t)
    PROVE  AskedInv'
<1>1. /\ UNCHANGED <<http, toOrch, busy>>
      /\ task[t] # "none"
      /\ \E pc \in Pcs : task' = [task EXCEPT ![t] = pc]
  BY DEF TaskStep, PublishRequest, Wait, Forward, ReportFailure, WaitTimesOut,
         PublishRequestFails, ForwardFails, ReportFails, backendVars, workerVars, streamVars, Pcs
<1>2. CASE PublishRequest(t)
  <2>1. /\ toWorker' = [toWorker EXCEPT ![WorkerFor(t)] = Append(@, JobOf(t))]
    BY <1>2 DEF PublishRequest
  <2>2. AskedJobs' = AskedJobs
    BY <1>1 DEF AskedJobs
  <2>3. JobOf(t) \in AskedJobs
    BY <1>1 DEF AskedInv
  <2>4. \A w \in Workers : toWorker'[w] \in Seq(AskedJobs)
    BY <2>1, <2>3, SlotOfTask, AppendProperties DEF AskedInv, TypeOK
  <2>5. \A u \in Task : task'[u] # "none" => task[u] # "none"
    BY <1>1 DEF TypeOK
  <2> QED
    BY <1>1, <2>2, <2>4, <2>5 DEF AskedInv
<1>3. CASE ~PublishRequest(t)
  <2>1. UNCHANGED toWorker
    BY <1>3 DEF TaskStep, Wait, Forward, ReportFailure, WaitTimesOut, PublishRequestFails,
                ForwardFails, ReportFails, streamVars
  <2> QED
    BY <1>1, <2>1, TaskKeepsAsked
<1> QED
  BY <1>2, <1>3

\* A waiter that is resolved belongs to a task that was started.
LEMMA ReplyAsked ==
    ASSUME TypeOK, SlotsAreLive, AskedInv, NEW w \in Workers,
           ListenWorker(w) \/ ReplyRedelivered(w)
    PROVE  AskedInv'
<1> DEFINE k == idKey(Head(fromWorker[w]).job)
           t == waiters[w][k]
<1>1. /\ fromWorker[w] # <<>>
      /\ HandleReply(w) \/ UNCHANGED task
      /\ UNCHANGED <<http, toOrch, toWorker, busy>>
  BY DEF ListenWorker, ReplyRedelivered, backendVars, workerVars, orchVars
<1>2. k \in Keys
  BY <1>1, QueueType, KeyOfMessage DEF TypeOK
<1>3. task' = task \/ (t # NoTask /\ task' = [task EXCEPT ![t] = "forward"])
  BY <1>1 DEF HandleReply
<1>4. t # NoTask => t \in Task /\ task[t] = "waiting"
  BY <1>2 DEF TypeOK, SlotsAreLive
<1>5. "forward" \in Pcs
  BY DEF Pcs
<1> QED
  BY <1>1, <1>3, <1>4, <1>5, TaskKeepsAsked

LEMMA WorkerAsked ==
    ASSUME TypeOK, AskedInv, NEW w \in Workers,
           WorkerStep(w) \/ WorkRedelivered(w) \/ ReplySwallowed(w) \/ SuccessFails(w)
    PROVE  AskedInv'
<1>1. UNCHANGED <<http, task, toOrch>>
  BY DEF WorkerStep, Begin, PublishReply, Finish, WorkRedelivered, ReplySwallowed,
         SuccessFails, backendVars, orchVars, streamVars
<1>2. AskedJobs' = AskedJobs
  BY <1>1 DEF AskedJobs
<1>3. CASE Begin(w)
  <2>1. /\ toWorker[w] # <<>>
        /\ busy' = [busy EXCEPT ![w] = Head(toWorker[w])]
        /\ UNCHANGED toWorker
    BY <1>3 DEF Begin, streamVars
  <2>2. Head(toWorker[w]) \in AskedJobs
    BY <2>1, QueueType DEF AskedInv
  <2>3. \A v \in Workers : busy'[v] # NoJob => busy'[v] \in AskedJobs
    BY <2>1, <2>2 DEF AskedInv, TypeOK
  <2> QED
    BY <1>1, <1>2, <2>1, <2>3 DEF AskedInv
<1>4. CASE PublishReply(w) \/ ReplySwallowed(w) \/ SuccessFails(w)
  <2>1. UNCHANGED <<toWorker, busy>>
    BY <1>4 DEF PublishReply, ReplySwallowed, SuccessFails, streamVars
  <2> QED
    BY <1>1, <2>1, TaskKeepsAsked
<1>5. CASE Finish(w) \/ WorkRedelivered(w)
  <2>1. /\ busy[w] # NoJob
        /\ busy' = [busy EXCEPT ![w] = NoJob]
        /\ toWorker' \in {[toWorker EXCEPT ![w] = Tail(@)],
                          [toWorker EXCEPT ![w] = Append(Tail(@), Head(@))]}
    BY <1>5 DEF Finish, WorkRedelivered
  <2>2. toWorker[w] \in Seq(AskedJobs) /\ toWorker[w] # <<>>
    BY <2>1 DEF AskedInv, TypeOK
  <2>3. /\ Tail(toWorker[w]) \in Seq(AskedJobs)
        /\ Append(Tail(toWorker[w]), Head(toWorker[w])) \in Seq(AskedJobs)
    BY <2>2, QueueType
  <2>4. \A v \in Workers : toWorker'[v] \in Seq(AskedJobs)
    BY <2>1, <2>3 DEF AskedInv, TypeOK
  <2>5. \A v \in Workers : busy'[v] # NoJob => busy'[v] \in AskedJobs
    BY <2>1 DEF AskedInv, TypeOK
  <2> QED
    BY <1>1, <1>2, <2>4, <2>5 DEF AskedInv
<1> QED
  BY <1>3, <1>4, <1>5 DEF WorkerStep

LEMMA AskedInductive ==
    ASSUME TypeOK, SlotsAreLive, AskedInv, [Next]_vars
    PROVE  AskedInv'
<1>1. CASE OrchestratorCrash
  <2>1. \A t \in Task : task'[t] # "none" => task[t] # "none"
    BY <1>1 DEF OrchestratorCrash
  <2>2. UNCHANGED <<http, toOrch, toWorker, busy>>
    BY <1>1 DEF OrchestratorCrash, backendVars, workerVars, streamVars
  <2>3. AskedJobs' = AskedJobs
    BY <2>2 DEF AskedJobs
  <2> QED
    BY <2>1, <2>2, <2>3 DEF AskedInv
<1>2. CASE UNCHANGED vars
  BY <1>2, TaskKeepsAsked DEF vars, backendVars, orchVars, workerVars, streamVars
<1> QED
  BY <1>1, <1>2, NextCases, BackendAsked, StartAsked, TaskAsked, ReplyAsked, WorkerAsked

\* A published outcome, or none, is one step of the contract, or none.
LEMMA PublishMaps ==
    ASSUME TypeOK, NEW j \in AskedJobs, NEW o \in Types,
           \/ UNCHANGED reported
           \/ reported' = [reported EXCEPT ![j] = @ \cup {o}],
           UNCHANGED <<http, answer, results>>
    PROVE  [Contract!ContractNext]_Contract!contractVars
<1>1. CASE UNCHANGED reported
  BY <1>1 DEF Contract!contractVars
<1>2. CASE reported' = [reported EXCEPT ![j] = @ \cup {o}]
  <2>1. j \in Jobs /\ http[j] # "idle"
    BY DEF AskedJobs
  <2>2. Contract!Publish(j, o)
    BY <1>2, <2>1 DEF Contract!Publish
  <2> QED
    BY <2>1, <2>2 DEF Contract!ContractNext
<1> QED
  BY <1>1, <1>2

\* The backend stores what was published for the job, and looks for the success first.
LEMMA BackendMaps ==
    ASSUME TypeOK, OwnInv, BackendStep
    PROVE  [Contract!ContractNext]_Contract!contractVars
<1>1. CASE StoreResult
  <2> DEFINE msg == Head(toBackend)
  <2>1. /\ toBackend # <<>>
        /\ results' = [results EXCEPT ![ResultKey(msg.job)] = @ \cup {msg.type}]
        /\ UNCHANGED <<http, answer, reported>>
    BY <1>1 DEF StoreResult
  <2>2. msg \in OwnMessages
    BY <2>1, QueueType DEF OwnInv
  <2>3. CASE msg.job = NoJob
    <3>1. \A j \in Jobs : results'[j] = results[j]
      BY <2>1, <2>3, JobsAssumption DEF ResultKey, TypeOK, Keys
    <3>2. [j \in Jobs |-> results'[j]] = [j \in Jobs |-> results[j]]
      BY <3>1
    <3> QED
      BY <2>1, <3>2 DEF Contract!contractVars
  <2>4. CASE msg.job # NoJob
    <3>1. PICK j \in Jobs : j = msg.job /\ j = ResultKey(msg.job)
      BY <2>2, <2>4 DEF OwnMessages, Messages, ResultKey
    <3>2. PICK o \in Types : o = msg.type /\ o \in reported[j]
      BY <2>2, <2>4, <3>1 DEF OwnMessages, Messages
    <3>3. [i \in Jobs |-> results'[i]] =
              [[i \in Jobs |-> results[i]] EXCEPT ![j] = @ \cup {o}]
      BY <2>1, <3>1, <3>2 DEF TypeOK, Keys
    <3>4. Contract!Arrive(j, o)
      BY <2>1, <3>2, <3>3 DEF Contract!Arrive
    <3> QED
      BY <3>4 DEF Contract!ContractNext
  <2> QED
    BY <2>3, <2>4
<1>2. ASSUME NEW j \in Jobs, Request(j)
      PROVE  Contract!ContractNext
  <2>1. Contract!Ask(j)
    BY <1>2 DEF Request, Contract!Ask
  <2> QED
    BY <2>1 DEF Contract!ContractNext
<1>3. ASSUME NEW j \in Jobs, RequestTimesOut(j)
      PROVE  Contract!ContractNext
  <2>1. Contract!TimeOut(j)
    BY <1>3 DEF RequestTimesOut, Contract!TimeOut
  <2> QED
    BY <2>1 DEF Contract!ContractNext
<1>4. ASSUME NEW j \in Jobs, Answer(j)
      PROVE  Contract!ContractNext
  <2>1. PICK i \in DOMAIN Expected(j) :
            /\ Expected(j)[i] \in results[j]
            /\ \A h \in 1..(i - 1) : Expected(j)[h] \notin results[j]
            /\ answer' = [answer EXCEPT ![j] = Expected(j)[i]]
    BY <1>4 DEF Answer
  <2>2. /\ http[j] = "waiting"
        /\ http' = [http EXCEPT ![j] = "answered"]
        /\ UNCHANGED <<results, reported>>
    BY <1>4 DEF Answer
  <2>3. /\ Expected(j)[1] = SuccessType(j)
        /\ i \in 1..3
    BY <2>1 DEF Expected, SuccessType
  <2>4. SuccessType(j) \in results[j] => Expected(j)[i] = SuccessType(j)
    <3>1. CASE i = 1
      BY <2>3, <3>1
    <3>2. CASE i # 1
      <4>1. 1 \in 1..(i - 1)
        BY <2>3, <3>2
      <4> QED
        BY <2>1, <2>3, <4>1
    <3> QED
      BY <3>1, <3>2
  <2>5. Expected(j)[i] \in Types
    BY <2>1 DEF TypeOK, Keys
  <2>6. Contract!AnswerWith(j, Expected(j)[i])
    BY <2>1, <2>2, <2>4 DEF Contract!AnswerWith
  <2> QED
    BY <2>5, <2>6 DEF Contract!ContractNext
<1> QED
  BY <1>1, <1>2, <1>3, <1>4 DEF BackendStep

\* A request starts a task, and that shows in the contract only for an initial prompt.
LEMMA StartMaps ==
    ASSUME ListenBackend \/ RequestRedelivered \/ \E j \in Jobs : InitialPrompt(j)
    PROVE  [Contract!ContractNext]_Contract!contractVars
<1>1. CASE ListenBackend \/ RequestRedelivered
  BY <1>1 DEF ListenBackend, RequestRedelivered, backendVars, Contract!contractVars
<1>2. ASSUME NEW j \in Jobs, InitialPrompt(j)
      PROVE  Contract!ContractNext
  <2>1. Contract!Ask(j)
    BY <1>2 DEF InitialPrompt, Contract!Ask
  <2> QED
    BY <2>1 DEF Contract!ContractNext
<1> QED
  BY <1>1, <1>2

\* A task publishes an outcome when it reports a failure.
LEMMA TaskMaps ==
    ASSUME TypeOK, AskedInv, NEW t \in Task,
           \/ TaskStep(t) \/ WaitTimesOut(t)
           \/ PublishRequestFails(t) \/ ForwardFails(t) \/ ReportFails(t)
    PROVE  [Contract!ContractNext]_Contract!contractVars
<1>1. UNCHANGED <<http, answer, results>>
  BY DEF TaskStep, PublishRequest, Wait, Forward, ReportFailure, WaitTimesOut,
         PublishRequestFails, ForwardFails, ReportFails, backendVars
<1>2. CASE ReportFailure(t)
  <2>1. JobOf(t) \in AskedJobs
    BY <1>2 DEF ReportFailure, AskedInv
  <2>2. FailureType(JobOf(t)) \in Types
    BY SlotOfTask, JobIdType
  <2>3. reported' = [reported EXCEPT ![JobOf(t)] = @ \cup {FailureType(JobOf(t))}]
    BY <1>2 DEF ReportFailure
  <2> QED
    BY <1>1, <2>1, <2>2, <2>3, PublishMaps
<1>3. CASE ~ReportFailure(t)
  <2>1. UNCHANGED reported
    BY <1>3 DEF TaskStep, PublishRequest, Wait, Forward, WaitTimesOut, PublishRequestFails,
                ForwardFails, ReportFails
  <2> QED
    BY <1>1, <2>1 DEF Contract!contractVars
<1> QED
  BY <1>2, <1>3

\* A worker publishes an outcome of the job it handles.
LEMMA WorkerMaps ==
    ASSUME TypeOK, OwnInv, AskedInv, NEW w \in Workers,
           WorkerStep(w) \/ WorkRedelivered(w) \/ ReplySwallowed(w) \/ SuccessFails(w)
    PROVE  [Contract!ContractNext]_Contract!contractVars
<1>1. UNCHANGED <<http, answer, results>>
  BY DEF WorkerStep, Begin, PublishReply, Finish, WorkRedelivered, ReplySwallowed,
         SuccessFails, backendVars
<1>2. CASE PublishReply(w) \/ SuccessFails(w)
  <2>1. /\ busy[w] # NoJob /\ script[w] # <<>>
        /\ \/ UNCHANGED reported
           \/ reported' = [reported EXCEPT ![busy[w]] = @ \cup {Head(script[w]).type}]
    BY <1>2 DEF PublishReply, SuccessFails
  <2>2. busy[w] \in AskedJobs
    BY <2>1 DEF AskedInv
  <2>3. Head(script[w]) \in Messages
    BY <2>1, QueueType DEF TypeOK
  <2>4. Head(script[w]).type \in Types
    BY <2>3, KeyOfMessage
  <2> QED
    BY <1>1, <2>1, <2>2, <2>4, PublishMaps
<1>3. CASE ~(PublishReply(w) \/ SuccessFails(w))
  <2>1. UNCHANGED reported
    BY <1>3 DEF WorkerStep, Begin, Finish, WorkRedelivered, ReplySwallowed
  <2> QED
    BY <1>1, <2>1 DEF Contract!contractVars
<1> QED
  BY <1>2, <1>3

\* Replies on their way and a crash of the orchestrator do not show in the contract.
LEMMA StepMaps ==
    ASSUME TypeOK, OwnInv, AskedInv, [Next]_vars
    PROVE  [Contract!ContractNext]_Contract!contractVars
<1>1. ASSUME \/ OrchestratorCrash \/ UNCHANGED vars
             \/ \E w \in Workers : ListenWorker(w) \/ ReplyRedelivered(w)
      PROVE  UNCHANGED Contract!contractVars
  <2>1. UNCHANGED <<http, answer, results, reported>>
    BY <1>1 DEF OrchestratorCrash, vars, ListenWorker, ReplyRedelivered, backendVars
  <2> QED
    BY <2>1 DEF Contract!contractVars
<1> QED
  BY <1>1, NextCases, BackendMaps, StartMaps, TaskMaps, WorkerMaps

\* The round trip implements its contract, whatever is late, redelivered or lost and
\* whoever crashes: work is done and reported only for jobs that were asked for, a
\* request is answered at most once, with an outcome of its own job that has reached it,
\* and with the success if that has (JobContract).
THEOREM ImplementsJobContract == Spec => ImplementsContract
<1>1. Init => Contract!ContractInit
  <2> SUFFICES ASSUME Init PROVE Contract!ContractInit
    OBVIOUS
  <2>1. [j \in Jobs |-> results[j]] = [j \in Jobs |-> {}]
    BY DEF Init, Keys
  <2> QED
    BY <2>1 DEF Init, Contract!ContractInit
<1>2. Init => AskedInv
  <2> SUFFICES ASSUME Init PROVE AskedInv
    OBVIOUS
  <2>1. << >> \in Seq(AskedJobs)
    OBVIOUS
  <2> QED
    BY <2>1 DEF Init, AskedInv
<1>3. TypeOK /\ SlotsAreLive /\ AskedInv /\ [Next]_vars => AskedInv'
  BY AskedInductive
<1>4. TypeOK /\ OwnInv /\ AskedInv /\ [Next]_vars
        => [Contract!ContractNext]_Contract!contractVars
  BY StepMaps
<1> QED
  BY <1>1, <1>2, <1>3, <1>4, TypeCorrect, SlotsStayLive, OwnHolds, PTL
  DEF Spec, ImplementsContract, Contract!ContractSpec

\* What the contract says of one job, step by step.
LEMMA EarnedInductive ==
    ASSUME Contract!ContractTypeOK, Contract!AnswersAreEarned, Contract!ContractNext
    PROVE  Contract!ContractTypeOK' /\ Contract!AnswersAreEarned'
<1>1. PICK j \in Jobs :
          \/ Contract!Ask(j) \/ Contract!TimeOut(j)
          \/ \E o \in Types :
                Contract!Publish(j, o) \/ Contract!Arrive(j, o) \/ Contract!AnswerWith(j, o)
  BY DEF Contract!ContractNext
<1>2. CASE Contract!Ask(j) \/ Contract!TimeOut(j)
  BY <1>2 DEF Contract!Ask, Contract!TimeOut, Contract!ContractTypeOK,
              Contract!AnswersAreEarned
<1>3. ASSUME NEW o \in Types, Contract!Publish(j, o)
      PROVE  Contract!ContractTypeOK' /\ Contract!AnswersAreEarned'
  BY <1>3 DEF Contract!Publish, Contract!ContractTypeOK, Contract!AnswersAreEarned
<1>4. ASSUME NEW o \in Types, Contract!Arrive(j, o)
      PROVE  Contract!ContractTypeOK' /\ Contract!AnswersAreEarned'
  <2> DEFINE seen == [i \in Jobs |-> results[i]]
  <2>1. /\ o \in reported[j]
        /\ seen' = [seen EXCEPT ![j] = @ \cup {o}]
        /\ UNCHANGED <<http, answer, reported>>
    BY <1>4 DEF Contract!Arrive
  <2>2. /\ seen \in [Jobs -> SUBSET Types]
        /\ \A i \in Jobs : seen[i] \subseteq reported[i]
        /\ \A i \in Jobs : http[i] = "answered" => answer[i] \in seen[i]
    BY DEF Contract!ContractTypeOK, Contract!AnswersAreEarned
  <2> HIDE DEF seen
  <2>3. /\ seen' \in [Jobs -> SUBSET Types]
        /\ \A i \in Jobs : seen[i] \subseteq seen'[i] /\ seen'[i] \subseteq reported[i]
    BY <2>1, <2>2
  <2>4. \A i \in Jobs : http'[i] = "answered" => answer'[i] \in seen'[i]
    BY <2>1, <2>2, <2>3
  <2> USE DEF seen
  <2>5. Contract!AnswersAreEarned'
    BY <2>1, <2>3, <2>4 DEF Contract!AnswersAreEarned
  <2>6. Contract!ContractTypeOK'
    BY <2>1, <2>3 DEF Contract!ContractTypeOK
  <2> QED
    BY <2>5, <2>6
<1>5. ASSUME NEW o \in Types, Contract!AnswerWith(j, o)
      PROVE  Contract!ContractTypeOK' /\ Contract!AnswersAreEarned'
  BY <1>5 DEF Contract!AnswerWith, Contract!ContractTypeOK, Contract!AnswersAreEarned
<1> QED
  BY <1>1, <1>2, <1>3, <1>4, <1>5

\* What a client may rely on, from the contract alone and so of the round trip too: an
\* answer has reached the request and was published for its job, and nothing is published
\* for a job nobody asked for.
THEOREM ContractIsEarned ==
    /\ Contract!ContractSpec => []Contract!AnswersAreEarned
    /\ Spec => []Contract!AnswersAreEarned
<1>1. Contract!ContractInit => Contract!ContractTypeOK /\ Contract!AnswersAreEarned
  BY DEF Contract!ContractInit, Contract!ContractTypeOK, Contract!AnswersAreEarned
<1>2. /\ Contract!ContractTypeOK /\ Contract!AnswersAreEarned
      /\ [Contract!ContractNext]_Contract!contractVars
      => Contract!ContractTypeOK' /\ Contract!AnswersAreEarned'
  <2>1. CASE Contract!ContractNext
    BY <2>1, EarnedInductive
  <2>2. CASE UNCHANGED Contract!contractVars
    BY <2>2 DEF Contract!contractVars, Contract!ContractTypeOK, Contract!AnswersAreEarned
  <2> QED
    BY <2>1, <2>2
<1>3. Contract!ContractSpec => []Contract!AnswersAreEarned
  BY <1>1, <1>2, PTL DEF Contract!ContractSpec
<1> QED
  BY <1>3, ImplementsJobContract DEF ImplementsContract

=============================================================================
