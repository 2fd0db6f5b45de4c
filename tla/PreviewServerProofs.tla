-------------------------- MODULE PreviewServerProofs --------------------------
(***************************************************************************)
(* Theorems about PreviewServer, for any number of loops, runs, retries,   *)
(* losses of the ingress: a replaced server is quiet, an undisturbed       *)
(* success is the run's own, an accepted registration is not lost.         *)
(***************************************************************************)
EXTENDS PreviewServer, TLAPS

-----------------------------------------------------------------------------
(* The strengthening *)

Stages == {"idle", "checking", "installing", "waiting", "publishing", "posting",
           "answering", "failing"}
\* The stages in which the server of the run has not been spawned, and has been.
Before == {"checking", "installing"}
After == {"waiting", "publishing", "posting", "answering"}
\* The stages between the port being freed and the answer.
Serving == {"installing"} \cup After

\* TypeOK, group by group.
ServingType ==
    /\ stage \in [Loops -> Stages] /\ run \in [Loops -> Runs \cup {NoRun}]
    /\ started \in 0 .. MaxRuns /\ reports \subseteq Procs
    /\ running \in Procs \cup {NoProc} /\ mark \in BOOLEAN /\ installed \in BOOLEAN
ProcessType ==
    /\ state \in [Procs -> {"unused", "starting", "listening", "exited", "closed"}]
    /\ code \in [Procs -> {"quiet", "bad"}]
    /\ handler \in [Procs -> BOOLEAN] /\ replaced \subseteq Procs /\ terminated \subseteq Procs
IngressType ==
    /\ route \in BOOLEAN /\ entries \in Nat /\ losses \in 0 .. MaxLosses
    /\ announced \in BOOLEAN /\ undisturbed \in BOOLEAN

RequestType ==
    /\ request \in [Loops -> Runs \cup {NoRun}] /\ pending \in [Loops -> SUBSET Runs]
    /\ failures \in [Runs -> Nat] /\ answered \subseteq Runs

LEMMA TypeParts == TypeOK <=> RequestType /\ ServingType /\ ProcessType /\ IngressType
<1>1. {mark, installed} \subseteq BOOLEAN <=> mark \in BOOLEAN /\ installed \in BOOLEAN
    BY Zenon
<1>2. {announced, undisturbed} \subseteq BOOLEAN
      <=> announced \in BOOLEAN /\ undisturbed \in BOOLEAN
    BY Zenon
<1> QED
    BY <1>1, <1>2, Zenon
    DEF TypeOK, RequestType, ServingType, ProcessType, IngressType, Stages

\* A busy loop has the request it was given.
RequestsHeld == \A l \in Loops : stage[l] # "idle" => request[l] \in Runs

\* Each busy loop has a run of its own, numbered by the runs accepted so far.
RunsDistinct ==
    /\ \A l \in Loops : stage[l] # "idle" => run[l] \in 1 .. started
    /\ \A l, k \in Loops :
         l # k /\ stage[l] # "idle" /\ stage[k] # "idle" => run[l] # run[k]

\* A server is spawned once, by its run; what is known of it was.
SpawnedOnce ==
    /\ \A p \in Procs : p > started => state[p] = "unused"
    /\ \A l \in Loops : stage[l] \in Before => state[run[l]] = "unused"
    /\ \A l \in Loops : stage[l] \in After => state[run[l]] # "unused"
    /\ \A p \in replaced \cup terminated \cup ({running} \ {NoProc}) : state[p] # "unused"

\* The mark outlives every close it is there for, until some close uses it up.
MarkKept ==
    /\ \A p \in replaced :
         state[p] # "closed" => mark \/ \E q \in Procs \ {p} : state[q] = "closed"
    /\ \A p \in reports : state[p] = "closed" /\ running # p

\* Undisturbed, the loop that serves is the only one, and its server the only one alive.
OwnServer ==
    undisturbed => \A l \in Loops : stage[l] \in Serving =>
        /\ \A k \in Loops \ {l} : stage[k] \notin Serving
        /\ \A p \in Procs : Alive(p) => p = run[l]
        /\ run[l] \notin terminated
        /\ stage[l] \in After => Alive(run[l])
        /\ stage[l] \in {"publishing", "posting", "answering"} => state[run[l]] = "listening"

IInv == TypeOK /\ RequestsHeld /\ RunsDistinct /\ SpawnedOnce /\ MarkKept /\ OwnServer
        /\ AnnouncedIsRouted

LEMMA InitHolds == Init => IInv
<1> SUFFICES ASSUME Init PROVE IInv
    OBVIOUS
<1>1. RequestType /\ ServingType /\ ProcessType /\ IngressType
  <2>1. 0 \in 0 .. MaxRuns /\ 0 \in 0 .. MaxLosses
      BY PreviewAssumption
  <2> QED
      BY <2>1 DEF Init, RequestType, ServingType, ProcessType, IngressType, Stages
<1>2. RequestsHeld /\ RunsDistinct /\ SpawnedOnce
    BY DEF Init, RequestsHeld, RunsDistinct, SpawnedOnce, Before, After, Procs, Runs
<1>3. MarkKept /\ OwnServer /\ AnnouncedIsRouted
    BY DEF Init, MarkKept, OwnServer, Serving, After, AnnouncedIsRouted
<1> QED
    BY <1>1, <1>2, <1>3, TypeParts DEF IInv

-----------------------------------------------------------------------------
(* The steps *)

\* A busy loop has a run that is a process number.
LEMMA BusyRuns ==
    ASSUME ServingType, RunsDistinct, NEW l \in Loops, stage[l] # "idle"
    PROVE  run[l] \in Procs /\ run[l] \in 1 .. started /\ run[l] # NoProc
BY PreviewAssumption DEF ServingType, RunsDistinct, Procs, Runs, NoProc

\* What FreePort does when lsof has found pids.
PortFreed(l, pids) ==
    /\ \A p \in pids : state[p] \in {"listening", "exited"}
    /\ mark' = (mark \/ pids # {} \/ running # NoProc)
    /\ replaced' = replaced \cup pids \cup ({running} \ {NoProc})
    /\ terminated' = terminated \cup ({running} \ {NoProc})
    /\ undisturbed' = (undisturbed /\ pids = Listening
         /\ (\A p \in Procs : state[p] # "starting")
         /\ \A k \in Loops \ {l} : stage[k] \in {"idle", "checking", "failing"})
    /\ \A p \in Procs : p # run[l] =>
         state'[p] = IF p \in pids /\ state[p] = "listening" THEN "exited" ELSE state[p]
    /\ \/ /\ stage' = [stage EXCEPT ![l] = "waiting"] /\ running' = run[l]
          /\ run[l] \in Procs => state'[run[l]] = "starting"
       \/ /\ stage' = [stage EXCEPT ![l] = "installing"] /\ running' = NoProc
          /\ run[l] \in Procs /\ run[l] \notin pids => state'[run[l]] = state[run[l]]
    /\ ProcessType'
    /\ UNCHANGED <<requests, run, started, reports, installed, ingress, announced>>

LEMMA FreePortEffect ==
    ASSUME ServingType, ProcessType, NEW l \in Loops, FreePort(l)
    PROVE  stage[l] = "checking" /\ \E pids \in SUBSET Procs : PortFreed(l, pids)
<1> DEFINE dead(pids) == Killed(pids) \cap Listening
           after(pids) == [p \in Procs |-> IF p \in dead(pids) THEN "exited" ELSE state[p]]
<1>1. PICK pids \in Found :
         /\ mark' = MarkAfter(mark, pids # {} \/ running # NoProc)
         /\ code' = [p \in Procs |-> IF p \in dead(pids) THEN "quiet" ELSE code[p]]
         /\ replaced' = replaced \cup pids \cup Existing(running)
         /\ terminated' = terminated \cup Existing(running)
         /\ undisturbed' = (undisturbed
              /\ pids = Listening /\ (\A p \in Procs : state[p] # "starting")
              /\ \A k \in Loops \ {l} : stage[k] \in {"idle", "checking", "failing"})
         /\ IF installed
            THEN /\ state' = [after(pids) EXCEPT ![run[l]] = "starting"]
                 /\ running' = run[l] /\ stage' = [stage EXCEPT ![l] = "waiting"]
            ELSE /\ state' = after(pids)
                 /\ running' = NoProc /\ stage' = [stage EXCEPT ![l] = "installing"]
    BY Zenon DEF FreePort
<1>2. pids \in SUBSET Procs /\ \A p \in pids : state[p] \in {"listening", "exited"}
    BY DEF Found, Listening
<1>3. UNCHANGED <<requests, run, started, reports, installed, handler, ingress, announced>>
    BY DEF FreePort
<1>4. \A p \in Procs : after(pids)[p] = IF p \in pids /\ state[p] = "listening" THEN "exited"
                                        ELSE state[p]
    BY <1>2 DEF Killed, Listening
<1>5. \A p \in Procs :
         after(pids)[p] \in {"unused", "starting", "listening", "exited", "closed"}
    BY <1>4 DEF ProcessType
<1>6. /\ after(pids) \in [Procs -> {"unused", "starting", "listening", "exited", "closed"}]
      /\ code' \in [Procs -> {"quiet", "bad"}]
    BY <1>1, <1>5 DEF ProcessType
<1>7. Existing(running) = {running} \ {NoProc} /\ Existing(running) \subseteq Procs
    BY DEF Existing, ServingType
<1> HIDE DEF after
<1>8. state' \in [Procs -> {"unused", "starting", "listening", "exited", "closed"}]
    BY <1>1, <1>6
<1>9. ProcessType'
    BY <1>1, <1>2, <1>3, <1>6, <1>7, <1>8 DEF ProcessType
<1>10. \A p \in Procs : p # run[l] => state'[p] = after(pids)[p]
    BY <1>1, <1>6
<1>11. mark' = (mark \/ pids # {} \/ running # NoProc)
    BY <1>1, Zenon DEF MarkAfter
<1>12. \/ /\ stage' = [stage EXCEPT ![l] = "waiting"] /\ running' = run[l]
          /\ run[l] \in Procs => state'[run[l]] = "starting"
       \/ /\ stage' = [stage EXCEPT ![l] = "installing"] /\ running' = NoProc
          /\ run[l] \in Procs /\ run[l] \notin pids => state'[run[l]] = state[run[l]]
    BY <1>1, <1>4, <1>6
<1>13. \A p \in Procs : p # run[l] =>
         state'[p] = IF p \in pids /\ state[p] = "listening" THEN "exited" ELSE state[p]
    BY <1>4, <1>10
<1>14. /\ replaced' = replaced \cup pids \cup ({running} \ {NoProc})
       /\ terminated' = terminated \cup ({running} \ {NoProc})
       /\ UNCHANGED <<requests, run, started, reports, installed, ingress, announced>>
    BY <1>1, <1>3, <1>7
<1>16. undisturbed' = (undisturbed /\ pids = Listening
         /\ (\A p \in Procs : state[p] # "starting")
         /\ \A k \in Loops \ {l} : stage[k] \in {"idle", "checking", "failing"})
    BY <1>1, Zenon
<1>17. PortFreed(l, pids)
    BY <1>2, <1>9, <1>11, <1>12, <1>13, <1>14, <1>16, Zenon DEF PortFreed
<1>15. stage[l] = "checking"
    BY DEF FreePort
<1> QED
    BY <1>2, <1>15, <1>17, Zenon

\* A run starts, on a new request or on one that is delivered again.
Begins(l) ==
    /\ stage[l] = "idle" /\ started < MaxRuns
    /\ started' = started + 1 /\ run' = [run EXCEPT ![l] = started + 1]
    /\ \E servable \in BOOLEAN :
         stage' = [stage EXCEPT ![l] = IF servable THEN "checking" ELSE "failing"]
    /\ UNCHANGED <<reports, running, mark, installed, processes, ingress, history>>

LEMMA RunBegins == \A l \in Loops : AcceptRun(l) \/ Redeliver(l) => Begins(l)
BY DEF AcceptRun, Redeliver, StartRun, Begins

\* The parts that most actions leave alone.
LEMMA SameProcesses == ProcessType /\ UNCHANGED processes => ProcessType'
BY DEF ProcessType, processes

LEMMA SameServing == ServingType /\ UNCHANGED serving => ServingType'
BY DEF ServingType, serving

\* Only the steps that start and end a run touch the requests.
LEMMA RequestStep ==
    ASSUME TypeOK, RequestsHeld, [Next]_vars
    PROVE  RequestType' /\ RequestsHeld'
<1>0. RequestType /\ ServingType /\ ProcessType
    BY TypeParts
<1>1. ASSUME NEW l \in Loops, NEW r \in Runs, StartRun(l, r),
             pending' \in [Loops -> SUBSET Runs]
      PROVE  RequestType' /\ RequestsHeld'
  <2>1. /\ request' = [request EXCEPT ![l] = r] /\ UNCHANGED <<failures, answered>>
        /\ \A k \in Loops \ {l} : stage'[k] = stage[k]
      BY <1>0, <1>1 DEF StartRun, ServingType
  <2> QED
      BY <1>0, <1>1, <2>1 DEF RequestType, RequestsHeld
<1>2. ASSUME NEW l \in Loops, AcceptRun(l) PROVE RequestType' /\ RequestsHeld'
  <2>1. started + 1 \in Runs
      BY <1>0, <1>2, PreviewAssumption DEF AcceptRun, StartRun, ServingType, Runs
  <2> QED
      BY <1>0, <1>1, <1>2, <2>1 DEF AcceptRun, RequestType
<1>3. ASSUME NEW l \in Loops, Redeliver(l) PROVE RequestType' /\ RequestsHeld'
  <2>1. PICK r \in pending[l] : /\ StartRun(l, r)
                                /\ pending' = [pending EXCEPT ![l] = pending[l] \ {r}]
      BY <1>3 DEF Redeliver
  <2> QED
      BY <1>0, <1>1, <2>1 DEF RequestType
<1>4. ASSUME NEW l \in Loops, stage[l] # "idle", UNCHANGED requests,
             \A k \in Loops \ {l} : stage'[k] = stage[k]
      PROVE  RequestType' /\ RequestsHeld'
    BY <1>0, <1>4 DEF RequestType, RequestsHeld, requests
<1>5. ASSUME NEW l \in Loops, FreePort(l) PROVE RequestType' /\ RequestsHeld'
  <2>1. stage[l] = "checking" /\ UNCHANGED requests
      BY <1>5 DEF FreePort
  <2>2. \A k \in Loops \ {l} : stage'[k] = stage[k]
      BY <1>0, <1>5, FreePortEffect DEF PortFreed, ServingType
  <2> QED
      BY <1>4, <2>1, <2>2
<1>6. ASSUME NEW l \in Loops, InstallEnds(l) \/ Ready(l) \/ TimesOut(l) \/ PublishRegister(l)
                              \/ PostRegister(l)
      PROVE  RequestType' /\ RequestsHeld'
  <2>1. /\ stage[l] # "idle" /\ UNCHANGED requests
        /\ \A k \in Loops \ {l} : stage'[k] = stage[k]
      BY <1>0, <1>6 DEF InstallEnds, Spawn, Ready, TimesOut, WaitEnds, PublishRegister,
                        PostRegister, ServingType
  <2> QED
      BY <1>4, <2>1
<1>7. ASSUME NEW l \in Loops, AnswerSuccess(l) \/ AnswerFailed(l)
      PROVE  RequestType' /\ RequestsHeld'
  <2>1. request[l] \in Runs /\ stage[l] # "idle"
      BY <1>7 DEF AnswerSuccess, AnswerFailed, RequestsHeld
  <2>2. /\ \A k \in Loops \ {l} : stage'[k] = stage[k]
        /\ \/ request' = [request EXCEPT ![l] = NoRun] /\ stage'[l] = "idle"
           \/ request' = request
      BY <1>0, <1>7 DEF AnswerSuccess, AnswerFailed, ServingType
  <2>3. RequestsHeld'
      BY <1>0, <2>1, <2>2 DEF RequestsHeld, RequestType
  <2>4. request' \in [Loops -> Runs \cup {NoRun}]
      BY <1>0, <2>2 DEF RequestType
  <2>5. answered' \subseteq Runs
      BY <1>0, <1>7, <2>1 DEF AnswerSuccess, AnswerFailed, RequestType
  <2>6. pending' \in [Loops -> SUBSET Runs] /\ failures' \in [Runs -> Nat]
    <3>1. CASE UNCHANGED <<pending, failures>>
        BY <1>0, <3>1 DEF RequestType
    <3>2. CASE AnswerFailed(l) /\ ~UNCHANGED <<pending, failures>>
      <4>1. /\ failures' = [failures EXCEPT ![request[l]] = failures[request[l]] + 1]
            /\ pending' = [pending EXCEPT ![l] =
                 PendingAfter(pending[l], request[l], failures[request[l]] + 1)]
          BY <3>2 DEF AnswerFailed
      <4>2. PendingAfter(pending[l], request[l], failures[request[l]] + 1) \in SUBSET Runs
          BY <1>0, <2>1 DEF PendingAfter, RequestType
      <4> QED
          BY <1>0, <2>1, <4>1, <4>2 DEF RequestType
    <3> QED
        BY <1>7, <3>1, <3>2 DEF AnswerSuccess
  <2> QED
      BY <2>3, <2>4, <2>5, <2>6 DEF RequestType
<1>8. ASSUME NEW p \in Procs, Bind(p) \/ Exit(p) \/ CloseEvent(p)
      PROVE  RequestType' /\ RequestsHeld'
    BY <1>0, <1>8 DEF Bind, Exit, CloseEvent, serving, requests, RequestType, RequestsHeld
<1>9. CASE IngressReads \/ IngressRestarts \/ Unregister \/ UNCHANGED vars
    BY <1>0, <1>9 DEF IngressReads, IngressRestarts, Unregister, vars, serving, requests,
                      RequestType, RequestsHeld
<1> QED
    BY <1>2, <1>3, <1>5, <1>6, <1>7, <1>8, <1>9 DEF Next, Handle

LEMMA TypeStep ==
    ASSUME TypeOK, RequestsHeld, RunsDistinct, [Next]_vars
    PROVE  TypeOK'
<1> SUFFICES ServingType' /\ ProcessType' /\ IngressType'
    BY TypeParts, RequestStep, PTL
<1>0. ServingType /\ ProcessType /\ IngressType
    BY TypeParts
<1>1. ASSUME NEW l \in Loops, Begins(l) PROVE ServingType' /\ ProcessType' /\ IngressType'
  <2>1. started + 1 \in Runs /\ started' \in 0 .. MaxRuns
      BY <1>0, <1>1, PreviewAssumption DEF Begins, ServingType, Runs
  <2>2. ServingType'
      BY <1>0, <1>1, <2>1 DEF Begins, ServingType, Stages
  <2> QED
      BY <1>0, <1>1, <2>2, SameProcesses DEF Begins, IngressType, ingress, history
<1>2. ASSUME NEW l \in Loops, FreePort(l) PROVE ServingType' /\ ProcessType' /\ IngressType'
  <2>1. PICK pids \in SUBSET Procs : PortFreed(l, pids)
      BY <1>0, <1>2, FreePortEffect
  <2>2. run[l] \in Procs
      BY <1>0, <1>2, BusyRuns DEF FreePort
  <2>3. mark' \in BOOLEAN /\ undisturbed' \in BOOLEAN
      BY <2>1, Zenon DEF PortFreed
  <2>4. ServingType'
      BY <1>0, <2>1, <2>2, <2>3 DEF PortFreed, ServingType, Stages
  <2>5. IngressType'
      BY <1>0, <2>1, <2>3 DEF PortFreed, IngressType, ingress
  <2> QED
      BY <2>1, <2>4, <2>5 DEF PortFreed
<1>3. ASSUME NEW l \in Loops, InstallEnds(l)
      PROVE  ServingType' /\ ProcessType' /\ IngressType'
  <2>1. run[l] \in Procs
      BY <1>0, <1>3, BusyRuns DEF InstallEnds
  <2>2. ServingType'
      BY <1>0, <1>3, <2>1 DEF InstallEnds, Spawn, ServingType, Stages
  <2>3. ProcessType'
      BY <1>0, <1>3, <2>1 DEF InstallEnds, Spawn, ProcessType
  <2> QED
      BY <1>0, <1>3, <2>2, <2>3 DEF InstallEnds, IngressType, ingress, history
<1>4. ASSUME NEW l \in Loops, Ready(l) PROVE ServingType' /\ ProcessType' /\ IngressType'
    BY <1>0, <1>4 DEF Ready, ServingType, ProcessType, IngressType, Stages, ingress, history
<1>5. ASSUME NEW l \in Loops, TimesOut(l) PROVE ServingType' /\ ProcessType' /\ IngressType'
  <2>1. run[l] \in Procs
      BY <1>0, <1>5, BusyRuns DEF TimesOut, WaitEnds
  <2> QED
      BY <1>0, <1>5, <2>1
      DEF TimesOut, ServingType, ProcessType, IngressType, Stages, ingress, history
<1>6. ASSUME NEW l \in Loops, PublishRegister(l)
      PROVE  ServingType' /\ ProcessType' /\ IngressType'
  <2>1. announced' \in BOOLEAN
      BY <1>6, Zenon DEF PublishRegister
  <2> QED
      BY <1>0, <1>6, <2>1, SameProcesses DEF PublishRegister, ServingType, IngressType, Stages
<1>7. ASSUME NEW l \in Loops, PostRegister(l)
      PROVE  ServingType' /\ ProcessType' /\ IngressType'
  <2>1. entries' \in Nat /\ route' \in BOOLEAN /\ announced' \in BOOLEAN
    <3>1. CASE UNCHANGED <<route, entries, announced>>
        BY <1>0, <3>1 DEF IngressType
    <3>2. CASE /\ route' = TRUE /\ announced' = TRUE
               /\ \E ok \in BOOLEAN : entries' = IF ok THEN entries + 1 ELSE entries
        BY <1>0, <3>2 DEF IngressType
    <3> QED
        BY <1>7, <3>1, <3>2, Zenon DEF PostRegister, RouteAfterRegister
  <2>2. ServingType'
      BY <1>0, <1>7 DEF PostRegister, ServingType, Stages
  <2>3. ProcessType'
      BY <1>0, <1>7, SameProcesses DEF PostRegister
  <2> QED
      BY <1>0, <1>7, <2>1, <2>2, <2>3 DEF PostRegister, IngressType
<1>8. ASSUME NEW l \in Loops, AnswerSuccess(l) \/ AnswerFailed(l)
      PROVE  ServingType' /\ ProcessType' /\ IngressType'
    BY <1>0, <1>8, SameProcesses
    DEF AnswerSuccess, AnswerFailed, ServingType, IngressType, Stages, ingress, history
<1>9. ASSUME NEW p \in Procs, Bind(p) PROVE ServingType' /\ ProcessType' /\ IngressType'
    BY <1>0, <1>9, SameServing DEF Bind, ProcessType, IngressType, ingress, history
<1>10. ASSUME NEW p \in Procs, Exit(p) PROVE ServingType' /\ ProcessType' /\ IngressType'
  <2>1. undisturbed' \in BOOLEAN
      BY <1>10, Zenon DEF Exit
  <2> QED
      BY <1>0, <1>10, <2>1, SameServing DEF Exit, ProcessType, IngressType, ingress
<1>11. ASSUME NEW p \in Procs, CloseEvent(p)
       PROVE  ServingType' /\ ProcessType' /\ IngressType'
    BY <1>0, <1>11 DEF CloseEvent, ServingType, ProcessType, IngressType, ingress, history
<1>12. ASSUME IngressReads \/ IngressRestarts \/ Unregister
       PROVE  ServingType' /\ ProcessType' /\ IngressType'
  <2>1. UNCHANGED <<serving, processes>>
      BY <1>12 DEF IngressReads, IngressRestarts, Unregister
  <2>2. ServingType' /\ ProcessType'
      BY <1>0, <2>1, SameServing, SameProcesses
  <2>3. CASE IngressReads
      BY <1>0, <2>2, <2>3 DEF IngressReads, IngressType, history
  <2>4. CASE IngressRestarts \/ Unregister
    <3>1. losses' \in 0 .. MaxLosses
        BY <1>0, <2>4, PreviewAssumption DEF IngressRestarts, Unregister, IngressType
    <3>2. route' = FALSE /\ announced' = FALSE /\ UNCHANGED <<entries, undisturbed>>
        BY <2>4 DEF IngressRestarts, Unregister
    <3> QED
        BY <1>0, <2>2, <3>1, <3>2 DEF IngressType
  <2> QED
      BY <1>12, <2>3, <2>4
<1>13. CASE UNCHANGED vars
    BY <1>0, <1>13, SameServing, SameProcesses DEF vars, IngressType, ingress, history
<1> QED
    BY <1>1, <1>2, <1>3, <1>4, <1>5, <1>6, <1>7, <1>8, <1>9, <1>10, <1>11, <1>12, <1>13,
       RunBegins
    DEF Next, Handle

\* The steps of a loop that neither accept a run, free the port nor spawn a server,
\* and leave the run where it is or end it.
GoesOn(l) == Ready(l) \/ TimesOut(l) \/ PublishRegister(l) \/ PostRegister(l)
             \/ AnswerSuccess(l) \/ AnswerFailed(l)

LEMMA GoesOnEffect ==
    ASSUME NEW l \in Loops, ServingType, GoesOn(l)
    PROVE  /\ stage[l] \in After \cup {"failing"}
           /\ stage' = [stage EXCEPT ![l] = stage'[l]]
           /\ stage'[l] \in {"idle", "publishing", "posting", "answering", "failing"}
           /\ stage'[l] \in After => stage[l] \in After
           /\ \/ run' = run
              \/ run' = [run EXCEPT ![l] = NoRun] /\ stage'[l] = "idle"
           /\ UNCHANGED <<started, reports, mark, state, replaced>>
           /\ running' = running \/ running' = NoProc
<1>1. CASE Ready(l)
    BY <1>1 DEF Ready, ServingType, After
<1>2. CASE TimesOut(l)
    BY <1>2 DEF TimesOut, WaitEnds, ServingType, After
<1>3. CASE PublishRegister(l) \/ PostRegister(l)
    BY <1>3 DEF PublishRegister, PostRegister, ServingType, After, processes
<1>4. CASE AnswerSuccess(l) \/ AnswerFailed(l)
    BY <1>4 DEF AnswerSuccess, AnswerFailed, ServingType, After, processes
<1> QED
    BY <1>1, <1>2, <1>3, <1>4 DEF GoesOn

\* The steps that touch neither loops nor processes.
LEMMA IngressEffect ==
    ASSUME IngressReads \/ IngressRestarts \/ Unregister \/ UNCHANGED vars
    PROVE  UNCHANGED <<serving, processes, undisturbed>>
BY DEF IngressReads, IngressRestarts, Unregister, vars, history

LEMMA RunsStep ==
    ASSUME TypeOK, RunsDistinct, [Next]_vars
    PROVE  RunsDistinct'
<1>0. ServingType /\ ProcessType /\ started \in Nat
    BY TypeParts, PreviewAssumption DEF ServingType
<1>1. ASSUME NEW l \in Loops, Begins(l) PROVE RunsDistinct'
  <2>1. /\ started' = started + 1 /\ run'[l] = started + 1
        /\ \A k \in Loops \ {l} : run'[k] = run[k] /\ stage'[k] = stage[k]
      BY <1>0, <1>1 DEF Begins, ServingType
  <2> QED
      BY <1>0, <2>1 DEF RunsDistinct
<1>2. ASSUME NEW l \in Loops, stage[l] # "idle", UNCHANGED <<run, started>>,
             \A k \in Loops \ {l} : stage'[k] = stage[k]
      PROVE  RunsDistinct'
    BY <1>2 DEF RunsDistinct
<1>3. ASSUME NEW l \in Loops, FreePort(l) \/ InstallEnds(l) PROVE RunsDistinct'
  <2>1. stage[l] # "idle" /\ UNCHANGED <<run, started>>
      BY <1>3 DEF FreePort, InstallEnds
  <2>2. \A k \in Loops \ {l} : stage'[k] = stage[k]
    <3>1. CASE FreePort(l)
        BY <1>0, <3>1, FreePortEffect DEF PortFreed, ServingType
    <3>2. CASE InstallEnds(l)
        BY <1>0, <3>2 DEF InstallEnds, Spawn, ServingType
    <3> QED
        BY <1>3, <3>1, <3>2
  <2> QED
      BY <1>2, <2>1, <2>2
<1>4. ASSUME NEW l \in Loops, GoesOn(l) PROVE RunsDistinct'
  <2>1. /\ \A k \in Loops \ {l} : stage'[k] = stage[k] /\ run'[k] = run[k]
        /\ stage[l] # "idle" /\ UNCHANGED started
        /\ run'[l] = run[l] \/ stage'[l] = "idle"
      BY <1>0, <1>4, GoesOnEffect DEF ServingType, After
  <2> QED
      BY <2>1 DEF RunsDistinct
<1>5. ASSUME NEW p \in Procs, Bind(p) \/ Exit(p) \/ CloseEvent(p) PROVE RunsDistinct'
    BY <1>5 DEF Bind, Exit, CloseEvent, serving, RunsDistinct
<1>6. CASE IngressReads \/ IngressRestarts \/ Unregister \/ UNCHANGED vars
    BY <1>6, IngressEffect DEF serving, RunsDistinct
<1> QED
    BY <1>1, <1>3, <1>4, <1>5, <1>6, RunBegins DEF Next, Handle, GoesOn

LEMMA SpawnedStep ==
    ASSUME TypeOK, RunsDistinct, SpawnedOnce, [Next]_vars
    PROVE  SpawnedOnce'
<1>0. ServingType /\ ProcessType /\ started \in Nat /\ NoProc \notin Procs
    BY TypeParts, PreviewAssumption DEF ServingType, NoProc, Procs, Runs
<1>1. ASSUME NEW l \in Loops, Begins(l) PROVE SpawnedOnce'
  <2>1. /\ started' = started + 1 /\ run'[l] = started + 1 /\ started + 1 \in Procs
        /\ stage'[l] \in {"checking", "failing"}
        /\ \A k \in Loops \ {l} : run'[k] = run[k] /\ stage'[k] = stage[k]
        /\ UNCHANGED <<state, replaced, terminated, running>>
      BY <1>0, <1>1, PreviewAssumption DEF Begins, ServingType, processes, Procs, Runs
  <2>2. \A p \in Procs : p > started + 1 => p > started
      BY <1>0 DEF Procs, Runs
  <2>3. state[started + 1] = "unused"
      BY <1>0, <2>1 DEF SpawnedOnce
  <2> QED
      BY <2>1, <2>2, <2>3 DEF SpawnedOnce, Before, After
<1>2. ASSUME NEW l \in Loops, FreePort(l) PROVE SpawnedOnce'
  <2>1. PICK pids \in SUBSET Procs : PortFreed(l, pids)
      BY <1>0, <1>2, FreePortEffect
  <2>2. stage[l] = "checking" /\ run[l] \in Procs /\ run[l] \in 1 .. started
      BY <1>0, <1>2, BusyRuns DEF FreePort
  <2>3. state[run[l]] = "unused" /\ run[l] \notin pids /\ run[l] # running
      BY <1>0, <2>1, <2>2 DEF SpawnedOnce, Before, PortFreed
  <2>4. \A p \in Procs : p # run[l] => (state'[p] = "unused" <=> state[p] = "unused")
      BY <2>1 DEF PortFreed
  <2>5. \A p \in Procs : p > started => state'[p] = "unused"
      BY <1>0, <2>2, <2>4 DEF SpawnedOnce
  <2>6. \A k \in Loops \ {l} : stage'[k] = stage[k] /\ run'[k] = run[k]
      BY <1>0, <2>1 DEF PortFreed, ServingType
  <2>7. \A k \in Loops \ {l} : stage[k] # "idle" => run[k] \in Procs /\ run[k] # run[l]
      BY <1>0, <2>2, BusyRuns DEF RunsDistinct
  <2>8. \/ stage'[l] = "waiting" /\ state'[run[l]] # "unused" /\ running' = run[l]
        \/ stage'[l] = "installing" /\ state'[run[l]] = "unused" /\ running' = NoProc
      BY <1>0, <2>1, <2>2, <2>3 DEF PortFreed, ServingType
  <2>9. run'[l] = run[l] /\ started' = started
      BY <2>1 DEF PortFreed
  <2>10. \A p \in replaced' \cup terminated' : state'[p] # "unused"
    <3>1. \A p \in replaced' \cup terminated' : p \in Procs /\ state[p] # "unused"
        BY <1>0, <2>1 DEF PortFreed, SpawnedOnce, ServingType, ProcessType
    <3> QED
        BY <2>3, <2>4, <3>1
  <2>11. \A k \in Loops : stage'[k] \in Before => state'[run'[k]] = "unused"
      BY <2>4, <2>6, <2>7, <2>8, <2>9 DEF SpawnedOnce, Before
  <2>12. \A k \in Loops : stage'[k] \in After => state'[run'[k]] # "unused"
      BY <2>4, <2>6, <2>7, <2>8, <2>9 DEF SpawnedOnce, After
  <2> QED
      BY <2>5, <2>8, <2>9, <2>10, <2>11, <2>12 DEF SpawnedOnce
<1>3. ASSUME NEW l \in Loops, InstallEnds(l) PROVE SpawnedOnce'
  <2>1. /\ stage[l] = "installing" /\ run[l] \in Procs /\ run[l] \in 1 .. started
        /\ UNCHANGED <<run, started, replaced, terminated>>
      BY <1>0, <1>3, BusyRuns DEF InstallEnds
  <2>2. CASE Spawn(l)
    <3>1. /\ state'[run[l]] = "starting" /\ running' = run[l] /\ stage'[l] = "waiting"
          /\ \A p \in Procs \ {run[l]} : state'[p] = state[p]
          /\ \A k \in Loops \ {l} : stage'[k] = stage[k]
        BY <1>0, <2>1, <2>2 DEF Spawn, ServingType, ProcessType
    <3>2. \A k \in Loops \ {l} : stage[k] # "idle" => run[k] \in Procs /\ run[k] # run[l]
        BY <1>0, <2>1, BusyRuns DEF RunsDistinct
    <3>3. \A p \in Procs : p > started => state'[p] = "unused"
        BY <1>0, <2>1, <3>1 DEF SpawnedOnce
    <3>4. \A p \in replaced \cup terminated : p \in Procs /\ state'[p] # "unused"
        BY <1>0, <3>1 DEF SpawnedOnce, ProcessType
    <3> QED
        BY <2>1, <3>1, <3>2, <3>3, <3>4 DEF SpawnedOnce, Before, After
  <2>3. CASE stage' = [stage EXCEPT ![l] = "failing"] /\ UNCHANGED <<installed, state, running>>
      BY <1>0, <2>1, <2>3 DEF SpawnedOnce, Before, After, ServingType
  <2> QED
      BY <1>3, <2>2, <2>3 DEF InstallEnds
<1>4. ASSUME NEW l \in Loops, GoesOn(l) PROVE SpawnedOnce'
  <2>1. /\ \A k \in Loops \ {l} : stage'[k] = stage[k] /\ run'[k] = run[k]
        /\ stage'[l] \notin Before
        /\ stage'[l] \in After => stage[l] \in After /\ run'[l] = run[l]
        /\ UNCHANGED <<started, state, replaced>> /\ running' \in {running, NoProc}
      BY <1>0, <1>4, GoesOnEffect DEF ServingType, Before, After
  <2>2. \A p \in terminated' : state[p] # "unused"
    <3>1. terminated' = terminated \/ (stage[l] \in After /\ terminated' = terminated \cup {run[l]})
        BY <1>4 DEF GoesOn, Ready, TimesOut, WaitEnds, PublishRegister, PostRegister,
                    AnswerSuccess, AnswerFailed, processes, After
    <3> QED
        BY <3>1 DEF SpawnedOnce
  <2> QED
      BY <2>1, <2>2 DEF SpawnedOnce
<1>5. ASSUME NEW p \in Procs, Bind(p) \/ Exit(p) \/ CloseEvent(p) PROVE SpawnedOnce'
  <2>1. /\ UNCHANGED <<stage, run, started, replaced, terminated>>
        /\ running' \in {running, NoProc}
        /\ state[p] # "unused" /\ state'[p] # "unused"
        /\ \A q \in Procs \ {p} : state'[q] = state[q]
      BY <1>0, <1>5 DEF Bind, Exit, CloseEvent, serving, ProcessType, Alive
  <2>2. \A q \in Procs : state'[q] = "unused" <=> state[q] = "unused"
      BY <2>1
  <2>3. \A k \in Loops : stage[k] \in Before \cup After => run[k] \in Procs
      BY <1>0, BusyRuns DEF Before, After
  <2>4. replaced \cup terminated \cup ({running} \ {NoProc}) \subseteq Procs
      BY <1>0 DEF ServingType, ProcessType
  <2> QED
      BY <2>1, <2>2, <2>3, <2>4 DEF SpawnedOnce
<1>6. CASE IngressReads \/ IngressRestarts \/ Unregister \/ UNCHANGED vars
    BY <1>6, IngressEffect DEF serving, processes, SpawnedOnce
<1> QED
    BY <1>1, <1>2, <1>3, <1>4, <1>5, <1>6, RunBegins DEF Next, Handle, GoesOn

\* Once a close event has gone by it has.
LEMMA ClosedStays ==
    ASSUME TypeOK, RunsDistinct, SpawnedOnce, [Next]_vars, NEW q \in Procs, state[q] = "closed"
    PROVE  state'[q] = "closed"
<1>0. ServingType /\ ProcessType
    BY TypeParts
<1>1. ASSUME NEW l \in Loops, FreePort(l) PROVE state'[q] = "closed"
  <2>1. PICK pids \in SUBSET Procs : PortFreed(l, pids)
      BY <1>0, <1>1, FreePortEffect
  <2>2. q # run[l]
      BY <1>1 DEF FreePort, SpawnedOnce, Before
  <2> QED
      BY <2>1, <2>2 DEF PortFreed
<1>2. ASSUME NEW l \in Loops, InstallEnds(l) PROVE state'[q] = "closed"
  <2>1. q # run[l]
      BY <1>2 DEF InstallEnds, SpawnedOnce, Before
  <2> QED
      BY <1>0, <1>2, <2>1 DEF InstallEnds, Spawn, ProcessType
<1>3. ASSUME NEW l \in Loops, GoesOn(l) \/ Begins(l) PROVE state'[q] = "closed"
    BY <1>0, <1>3, GoesOnEffect DEF Begins, processes
<1>4. ASSUME NEW p \in Procs, Bind(p) \/ Exit(p) \/ CloseEvent(p) PROVE state'[q] = "closed"
    BY <1>0, <1>4 DEF Bind, Exit, CloseEvent, Alive, ProcessType
<1>5. CASE IngressReads \/ IngressRestarts \/ Unregister \/ UNCHANGED vars
    BY <1>5, IngressEffect DEF processes
<1> QED
    BY <1>1, <1>2, <1>3, <1>4, <1>5, RunBegins DEF Next, Handle, GoesOn

LEMMA MarkStep ==
    ASSUME TypeOK, RunsDistinct, SpawnedOnce, MarkKept, [Next]_vars
    PROVE  MarkKept'
<1>0. ServingType /\ ProcessType /\ NoProc \notin Procs
    BY TypeParts DEF NoProc, Procs, Runs
<1>1. \A q \in Procs : state[q] = "closed" => state'[q] = "closed"
    BY ClosedStays
\* Steps that report nothing, and replace nothing without a mark.
<1>2. ASSUME UNCHANGED reports, mark => mark',
             \A p \in replaced' : p \in Procs /\ (p \in replaced \/ mark'),
             \A p \in reports : running' # p
      PROVE  MarkKept'
  <2>1. reports \subseteq Procs
      BY <1>0 DEF ServingType
  <2>2. \A p \in reports' : state'[p] = "closed" /\ running' # p
      BY <1>1, <1>2, <2>1 DEF MarkKept
  <2>3. ASSUME NEW p \in replaced', state'[p] # "closed"
        PROVE  mark' \/ \E q \in Procs \ {p} : state'[q] = "closed"
      BY <1>1, <1>2, <2>3 DEF MarkKept
  <2> QED
      BY <2>2, <2>3 DEF MarkKept
<1>3. replaced \subseteq Procs /\ reports \subseteq Procs
    BY <1>0 DEF ServingType, ProcessType
<1>4. ASSUME NEW l \in Loops, FreePort(l) PROVE MarkKept'
  <2>1. PICK pids \in SUBSET Procs : PortFreed(l, pids)
      BY <1>0, <1>4, FreePortEffect
  <2>2. \A p \in reports : p # run[l]
      BY <1>4 DEF FreePort, SpawnedOnce, Before, MarkKept
  <2>3. \A p \in replaced' : p \in Procs /\ (p \in replaced \/ mark')
      BY <1>0, <1>3, <2>1 DEF PortFreed, ServingType
  <2>4. running' = run[l] \/ running' = NoProc
      BY <2>1 DEF PortFreed
  <2>5. \A p \in reports : running' # p
      BY <1>0, <1>3, <2>2, <2>4
  <2>6. UNCHANGED reports /\ (mark => mark')
      BY <2>1 DEF PortFreed
  <2> QED
      BY <1>2, <2>3, <2>5, <2>6
<1>5. ASSUME NEW l \in Loops, InstallEnds(l) PROVE MarkKept'
  <2>1. \A p \in reports : p # run[l]
      BY <1>5 DEF InstallEnds, SpawnedOnce, Before, MarkKept
  <2>2. UNCHANGED <<reports, mark, replaced>> /\ (running' = running \/ running' = run[l])
      BY <1>5 DEF InstallEnds, Spawn
  <2> QED
      BY <1>2, <1>3, <2>1, <2>2 DEF MarkKept
<1>6. ASSUME NEW l \in Loops, GoesOn(l) \/ Begins(l) PROVE MarkKept'
  <2>1. /\ UNCHANGED <<reports, mark, replaced>>
        /\ running' = running \/ running' = NoProc
      BY <1>0, <1>6, GoesOnEffect DEF Begins, processes
  <2> QED
      BY <1>0, <1>2, <1>3, <2>1 DEF MarkKept
<1>7. ASSUME NEW p \in Procs, Bind(p) \/ Exit(p) PROVE MarkKept'
  <2>1. UNCHANGED <<reports, mark, replaced, running>>
      BY <1>7 DEF Bind, Exit, serving
  <2> QED
      BY <1>2, <1>3, <2>1 DEF MarkKept
<1>8. ASSUME NEW p \in Procs, CloseEvent(p) PROVE MarkKept'
  <2>1. state'[p] = "closed" /\ UNCHANGED replaced
      BY <1>0, <1>8 DEF CloseEvent, ProcessType
  <2>2. \A q \in replaced : state'[q] # "closed" => \E r \in Procs \ {q} : state'[r] = "closed"
      BY <2>1
  <2>3. reports' \subseteq reports \cup {p} /\ (running' = running \/ running' = NoProc)
      BY <1>8 DEF CloseEvent
  <2>4. p \in reports' => running' = NoProc \/ p \in reports
      BY <1>8 DEF CloseEvent
  <2> QED
      BY <1>0, <1>1, <1>3, <2>1, <2>2, <2>3, <2>4 DEF MarkKept
<1>9. CASE IngressReads \/ IngressRestarts \/ Unregister \/ UNCHANGED vars
    BY <1>2, <1>3, <1>9, IngressEffect DEF serving, processes, MarkKept
<1> QED
    BY <1>4, <1>5, <1>6, <1>7, <1>8, <1>9, RunBegins DEF Next, Handle, GoesOn

\* What OwnServer says of loop l.
OwnBy(l) ==
    /\ \A k \in Loops \ {l} : stage[k] \notin Serving
    /\ \A p \in Procs : Alive(p) => p = run[l]
    /\ run[l] \notin terminated
    /\ stage[l] \in After => Alive(run[l])
    /\ stage[l] \in {"publishing", "posting", "answering"} => state[run[l]] = "listening"

LEMMA OwnStep ==
    ASSUME TypeOK, RunsDistinct, SpawnedOnce, OwnServer, [Next]_vars
    PROVE  OwnServer'
<1>0. ServingType /\ ProcessType /\ NoProc \notin Procs
    BY TypeParts DEF NoProc, Procs, Runs
<1>1. \A l \in Loops : undisturbed /\ stage[l] \in Serving => OwnBy(l)
    BY DEF OwnServer, OwnBy
<1>2. SUFFICES ASSUME undisturbed', NEW l \in Loops, stage'[l] \in Serving
               PROVE  OwnBy(l)'
    BY DEF OwnServer, OwnBy, Alive
\* Another loop takes a step while loop l serves.
<1>3. ASSUME NEW k \in Loops, k # l, Begins(k) \/ FreePort(k) \/ InstallEnds(k) \/ GoesOn(k)
      PROVE  OwnBy(l)'
  <2>1. ~FreePort(k)
    <3>1. SUFFICES ASSUME FreePort(k) PROVE FALSE
        OBVIOUS
    <3>2. PICK pids \in SUBSET Procs : PortFreed(k, pids)
        BY <1>0, <3>1, FreePortEffect
    <3>3. stage[l] \in {"idle", "checking", "failing"}
        BY <1>2, <1>3, <3>2 DEF PortFreed
    <3>4. stage'[l] = stage[l]
        BY <1>0, <1>3, <3>2 DEF PortFreed, ServingType
    <3> QED
        BY <1>2, <3>3, <3>4 DEF Serving, After
  <2>2. stage'[l] = stage[l] /\ run'[l] = run[l]
    <3>1. CASE Begins(k)
        BY <1>0, <1>3, <3>1 DEF Begins, ServingType
    <3>2. CASE InstallEnds(k)
        BY <1>0, <1>3, <3>2 DEF InstallEnds, Spawn, ServingType
    <3>3. CASE GoesOn(k)
        BY <1>0, <1>3, <3>3, GoesOnEffect DEF ServingType
    <3> QED
        BY <1>3, <2>1, <3>1, <3>2, <3>3
  <2>3. undisturbed' = undisturbed
      BY <1>3, <2>1 DEF Begins, InstallEnds, GoesOn, Ready, TimesOut, PublishRegister,
                        PostRegister, AnswerSuccess, AnswerFailed, history
  <2>4. OwnBy(l) /\ stage[k] \notin Serving
      BY <1>1, <1>2, <1>3, <2>2, <2>3 DEF OwnBy
  <2>5. ~InstallEnds(k) /\ (GoesOn(k) => AnswerFailed(k))
      BY <2>4 DEF InstallEnds, GoesOn, Ready, TimesOut, WaitEnds, PublishRegister,
                  PostRegister, AnswerSuccess, AnswerFailed, Serving, After
  <2>6. /\ UNCHANGED <<state, terminated>>
        /\ stage'[k] \in {"checking", "failing", "idle"}
        /\ \A j \in Loops \ {k} : stage'[j] = stage[j]
      BY <1>0, <1>3, <2>1, <2>5 DEF Begins, AnswerFailed, processes, ServingType
  <2> QED
      BY <2>2, <2>4, <2>6 DEF OwnBy, Alive, Serving, After
<1>4. ASSUME Begins(l) PROVE FALSE
    BY <1>0, <1>2, <1>4 DEF Begins, ServingType, Serving, After
<1>5. ASSUME FreePort(l) PROVE OwnBy(l)'
  <2>1. PICK pids \in SUBSET Procs : PortFreed(l, pids)
      BY <1>0, <1>5, FreePortEffect
  <2>2. run[l] \in Procs /\ state[run[l]] = "unused" /\ run[l] \notin terminated
      BY <1>0, <1>5, BusyRuns DEF FreePort, SpawnedOnce, Before
  <2>3. /\ pids = Listening /\ \A p \in Procs : state[p] # "starting"
        /\ \A k \in Loops \ {l} : stage[k] \in {"idle", "checking", "failing"}
      BY <1>2, <2>1 DEF PortFreed
  <2>4. \A k \in Loops \ {l} : stage'[k] \notin Serving
      BY <1>0, <2>1, <2>3 DEF PortFreed, ServingType, Serving, After
  <2>5. \A p \in Procs : Alive(p)' => p = run[l]
      BY <2>1, <2>3 DEF PortFreed, Alive, Listening
  <2>6. run[l] \notin terminated' /\ run'[l] = run[l]
      BY <1>0, <2>1, <2>2 DEF PortFreed, SpawnedOnce
  <2>7. stage'[l] = "installing" \/ (stage'[l] = "waiting" /\ state'[run[l]] = "starting")
      BY <1>0, <2>1, <2>2 DEF PortFreed, ServingType
  <2> QED
      BY <2>4, <2>5, <2>6, <2>7 DEF OwnBy, Alive, After
<1>6. ASSUME InstallEnds(l) PROVE OwnBy(l)'
  <2>1. OwnBy(l) /\ run[l] \in Procs
      BY <1>0, <1>1, <1>2, <1>6, BusyRuns DEF InstallEnds, history, Serving
  <2>2. Spawn(l) /\ UNCHANGED <<run, terminated>>
      BY <1>0, <1>2, <1>6 DEF InstallEnds, ServingType, Serving, After
  <2>3. /\ stage'[l] = "waiting" /\ state'[run[l]] = "starting"
        /\ \A p \in Procs \ {run[l]} : state'[p] = state[p]
        /\ \A k \in Loops \ {l} : stage'[k] = stage[k]
      BY <1>0, <2>1, <2>2 DEF Spawn, ServingType, ProcessType
  <2> QED
      BY <2>1, <2>2, <2>3 DEF OwnBy, Alive
<1>7. ASSUME GoesOn(l) PROVE OwnBy(l)'
  <2>1. /\ stage[l] \in After /\ run'[l] = run[l] /\ UNCHANGED state
        /\ stage'[l] \in {"publishing", "posting", "answering"}
        /\ \A k \in Loops \ {l} : stage'[k] = stage[k]
      BY <1>0, <1>2, <1>7, GoesOnEffect DEF ServingType, Serving, After
  <2>2. ~TimesOut(l) /\ UNCHANGED <<terminated, undisturbed>>
      BY <1>0, <1>7, <2>1 DEF GoesOn, Ready, TimesOut, PublishRegister, PostRegister,
           AnswerSuccess, AnswerFailed, processes, history, ServingType
  <2>3. OwnBy(l)
      BY <1>1, <1>2, <2>1, <2>2 DEF Serving
  <2>4. state[run[l]] = "listening"
    <3>1. CASE Ready(l)
      <4>1. PICK q \in Procs : state[q] = "listening"
          BY <3>1 DEF Ready, Responds, Listening
      <4> QED
          BY <2>3, <4>1 DEF OwnBy, Alive
    <3>2. CASE ~Ready(l)
        BY <1>7, <2>1, <2>2, <2>3, <3>2 DEF GoesOn, PublishRegister, PostRegister, AnswerSuccess,
                                      AnswerFailed, OwnBy, After
    <3> QED
        BY <3>1, <3>2
  <2> QED
      BY <2>1, <2>2, <2>3, <2>4 DEF OwnBy, Alive
<1>8. ASSUME NEW p \in Procs, Bind(p) \/ Exit(p) \/ CloseEvent(p) PROVE OwnBy(l)'
  <2>1. /\ UNCHANGED <<stage, run, terminated>> /\ undisturbed
        /\ Exit(p) => p \in terminated
      BY <1>2, <1>8 DEF Bind, Exit, CloseEvent, serving, history
  <2>2. OwnBy(l)
      BY <1>1, <1>2, <2>1
  <2>3. ~(Exit(p) /\ p = run[l])
      BY <2>1, <2>2 DEF OwnBy
  <2>4. Bind(p) /\ p = run[l] => state'[p] = "listening"
      BY <1>0, <2>2 DEF Bind, Listening, OwnBy, Alive, ProcessType
  <2>5. CloseEvent(p) => ~Alive(p)
      BY DEF CloseEvent, Alive
  <2>6. \A q \in Procs : Alive(q)' => Alive(q)
      BY <1>0, <1>8 DEF Bind, Exit, CloseEvent, Alive, ProcessType
  <2>7. \A q \in Procs \ {p} : state'[q] = state[q]
      BY <1>0, <1>8 DEF Bind, Exit, CloseEvent, ProcessType
  <2>8. stage[l] \in After => run[l] \in Procs
      BY <1>0, BusyRuns DEF After
  <2>9. stage[l] \in After => /\ Alive(run[l])'
                              /\ state[run[l]] = "listening" => state'[run[l]] = "listening"
    <3>1. SUFFICES ASSUME stage[l] \in After
                   PROVE  /\ Alive(run[l])'
                          /\ state[run[l]] = "listening" => state'[run[l]] = "listening"
        OBVIOUS
    <3>2. Alive(run[l]) /\ run'[l] = run[l]
        BY <2>1, <2>2, <3>1 DEF OwnBy
    <3>3. CASE p = run[l]
        BY <1>8, <2>3, <2>4, <2>5, <3>2, <3>3 DEF Alive
    <3>4. CASE p # run[l]
        BY <2>7, <2>8, <3>1, <3>2, <3>4 DEF Alive
    <3> QED
        BY <3>3, <3>4
  <2> QED
      BY <2>1, <2>2, <2>6, <2>9 DEF OwnBy, After
<1>9. CASE IngressReads \/ IngressRestarts \/ Unregister \/ UNCHANGED vars
  <2>1. UNCHANGED <<stage, run, state, terminated, undisturbed>>
      BY <1>9, IngressEffect DEF serving, processes
  <2> QED
      BY <1>1, <1>2, <2>1 DEF OwnBy, Alive
<1> QED
    BY <1>3, <1>4, <1>5, <1>6, <1>7, <1>8, <1>9, RunBegins DEF Next, Handle, GoesOn

LEMMA AnnouncedStep ==
    ASSUME TypeOK, AnnouncedIsRouted, [Next]_vars
    PROVE  AnnouncedIsRouted'
<1>0. ServingType /\ ProcessType /\ entries \in Nat
    BY TypeParts DEF IngressType
<1>1. ASSUME UNCHANGED <<route, entries, announced>> PROVE AnnouncedIsRouted'
    BY <1>1 DEF AnnouncedIsRouted
<1>2. ASSUME NEW l \in Loops, PublishRegister(l) PROVE AnnouncedIsRouted'
    BY <1>0, <1>2 DEF PublishRegister, AnnouncedIsRouted
<1>3. ASSUME NEW l \in Loops, PostRegister(l) PROVE AnnouncedIsRouted'
    BY <1>3 DEF PostRegister, RouteAfterRegister, AnnouncedIsRouted
<1>4. CASE IngressReads \/ IngressRestarts \/ Unregister
    BY <1>4 DEF IngressReads, IngressRestarts, Unregister, AnnouncedIsRouted
<1>5. ASSUME NEW l \in Loops, FreePort(l) PROVE AnnouncedIsRouted'
    BY <1>0, <1>1, <1>5, FreePortEffect DEF PortFreed, ingress
<1>6. ASSUME NEW l \in Loops, Begins(l) \/ InstallEnds(l) \/ Ready(l) \/ TimesOut(l)
                               \/ AnswerSuccess(l) \/ AnswerFailed(l)
      PROVE  AnnouncedIsRouted'
    BY <1>1, <1>6 DEF Begins, InstallEnds, Ready, TimesOut, AnswerSuccess, AnswerFailed,
                      ingress, history
<1>7. ASSUME NEW p \in Procs, Bind(p) \/ Exit(p) \/ CloseEvent(p) PROVE AnnouncedIsRouted'
    BY <1>1, <1>7 DEF Bind, Exit, CloseEvent, ingress, history
<1>8. CASE UNCHANGED vars
    BY <1>1, <1>8 DEF vars, ingress, history
<1> QED
    BY <1>2, <1>3, <1>4, <1>5, <1>6, <1>7, <1>8, RunBegins DEF Next, Handle

-----------------------------------------------------------------------------
(* The properties *)

LEMMA StrengtheningStep == IInv /\ [Next]_vars => IInv'
BY RequestStep, TypeStep, RunsStep, SpawnedStep, MarkStep, OwnStep, AnnouncedStep DEF IInv

\* The inductive invariant: types, one request and one run per loop, one spawn per run,
\* the mark, the undisturbed server and the route.
THEOREM Strengthening == Spec => []IInv
BY InitHolds, StrengtheningStep, PTL DEF Spec

\* The variables keep their types, whatever the processes and the ingress do.
THEOREM TypeCorrect == Spec => []TypeOK
<1>1. IInv => TypeOK
    BY DEF IInv
<1> QED
    BY <1>1, Strengthening, PTL

\* The close handler of serveTheProject reports no server that was replaced, but for
\* the one whose mark the close of another server has used up.
LEMMA QuietStep ==
    ASSUME IInv, ReplacedIsQuiet, [Next]_vars
    PROVE  ReplacedIsQuiet'
<1>0. ServingType /\ ProcessType /\ TypeOK /\ RunsDistinct /\ SpawnedOnce /\ MarkKept
    BY TypeParts DEF IInv
<1>1. \A q \in Procs : state[q] = "closed" => state'[q] = "closed"
    BY <1>0, ClosedStays
<1>2. ASSUME NEW p \in reports', p \in replaced', p \in reports /\ p \in replaced
      PROVE  \E q \in Procs \ {p} : state'[q] = "closed"
    BY <1>1, <1>2 DEF ReplacedIsQuiet
<1>3. ASSUME UNCHANGED <<reports, replaced>> PROVE ReplacedIsQuiet'
    BY <1>2, <1>3 DEF ReplacedIsQuiet
<1>4. ASSUME NEW l \in Loops, FreePort(l) PROVE ReplacedIsQuiet'
  <2>1. PICK pids \in SUBSET Procs : PortFreed(l, pids)
      BY <1>0, <1>4, FreePortEffect
  <2>2. reports' = reports /\ \A p \in reports : p \in replaced' => p \in replaced
      BY <1>0, <2>1 DEF PortFreed, MarkKept
  <2> QED
      BY <1>2, <2>2 DEF ReplacedIsQuiet
<1>5. ASSUME NEW p \in Procs, CloseEvent(p) PROVE ReplacedIsQuiet'
  <2>1. UNCHANGED replaced /\ state[p] = "exited"
      BY <1>5 DEF CloseEvent
  <2>2. reports' = reports \/ (~mark /\ reports' = reports \cup {p})
      BY <1>5 DEF CloseEvent
  <2>3. p \in replaced /\ ~mark => \E q \in Procs \ {p} : state[q] = "closed"
      BY <1>0, <2>1 DEF MarkKept
  <2> QED
      BY <1>1, <1>2, <2>1, <2>2, <2>3 DEF ReplacedIsQuiet
<1>6. ASSUME NEW l \in Loops, GoesOn(l) \/ Begins(l) \/ InstallEnds(l)
      PROVE  ReplacedIsQuiet'
    BY <1>0, <1>3, <1>6, GoesOnEffect DEF Begins, InstallEnds, processes
<1>7. ASSUME NEW p \in Procs, Bind(p) \/ Exit(p) PROVE ReplacedIsQuiet'
    BY <1>3, <1>7 DEF Bind, Exit, serving
<1>8. CASE IngressReads \/ IngressRestarts \/ Unregister \/ UNCHANGED vars
    BY <1>3, <1>8, IngressEffect DEF serving, processes
<1> QED
    BY <1>4, <1>5, <1>6, <1>7, <1>8, RunBegins DEF Next, Handle, GoesOn

\* A replaced server is not reported as a failed run while its mark stands, however the
\* two loops, the signals and the close events interleave.
THEOREM ReplacedQuiet == Spec => []ReplacedIsQuiet
<1>1. Init => ReplacedIsQuiet
    BY DEF Init, ReplacedIsQuiet
<1>2. IInv /\ ReplacedIsQuiet /\ [Next]_vars => ReplacedIsQuiet'
    BY QuietStep
<1> QED
    BY <1>1, <1>2, Strengthening, PTL DEF Spec

\* Undisturbed, waitForPort was answered by the server of the run and by no other.
THEOREM ReadyOwn == Spec => []ReadyIsOwn
<1>1. IInv => ReadyIsOwn
  <2> SUFFICES ASSUME IInv, undisturbed, NEW l \in Loops,
                      stage[l] \in {"publishing", "posting", "answering"}
               PROVE  run[l] \in Listening
      BY DEF ReadyIsOwn
  <2>1. run[l] \in Procs
      BY TypeParts, BusyRuns DEF IInv
  <2> QED
      BY <2>1 DEF IInv, OwnServer, Serving, After, Listening
<1> QED
    BY <1>1, Strengthening, PTL

\* A registration the stream or the ingress accepted leads to a route until the ingress
\* restarts or unregisters it.
THEOREM AnnouncedRouted == Spec => []AnnouncedIsRouted
<1>1. IInv => AnnouncedIsRouted
    BY DEF IInv
<1> QED
    BY <1>1, Strengthening, PTL
=============================================================================
