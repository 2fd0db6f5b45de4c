------------------------ MODULE StreamReliabilityProofs ------------------------
(***************************************************************************)
(* Proofs about StreamReliability, for every number of groups, processes,  *)
(* entries and failures:                                                   *)
(*   TypeCorrect        the type invariant                                 *)
(*   InvariantHolds     what the steps of handleMessage rely on            *)
(*   Implements         the loop implements DeliveryContract               *)
(*   NothingUnaccounted SettledIsAccounted, from the contract              *)
(* and, how often an entry is run, and in which order:                     *)
(*   GivenUpAfterBound   with one group, any number of processes           *)
(*   RunsOnlyPending     with one process in each group                    *)
(*   ReadsInOrder        with one process in each group                    *)
(*   RunsStayBounded     with one process                                  *)
(***************************************************************************)
EXTENDS StreamReliability, FiniteSetTheorems, TLAPS

-----------------------------------------------------------------------------
(* Type correctness *)

\* Inside handleMessage there is an entry.
LEMMA CurrentIsEntry ==
    ASSUME TypeOK, NEW c \in Consumers, pc[c] \notin {"down", "read", "next", "claim"}
    PROVE  current[c] \in Msgs
BY DEF TypeOK, None

\* The ids an XREADGROUP can return.
LEMMA NewEntriesType ==
    ASSUME TypeOK, NEW g \in Groups
    PROVE  /\ LastNew(g) \in 0..MaxMsgs
           /\ LastNew(g) <= published
           /\ NewEntries(g) \subseteq Msgs
           /\ NewEntries(g) \subseteq 1..LastNew(g)
<1>1. LastNew(g) \in 0..MaxMsgs /\ LastNew(g) <= published
  BY ConstantsAssumption DEF TypeOK, LastNew
<1>2. cursor[g] \in 0..MaxMsgs
  BY DEF TypeOK
<1> QED
  BY <1>1, <1>2, ConstantsAssumption DEF NewEntries, Msgs

LEMMA StartType ==
    ASSUME TypeOK, NEW c \in Consumers, Start(c)
    PROVE  TypeOK'
<1> DEFINE g == GroupOf[c]
<1>1. g \in Groups
  BY ConstantsAssumption
<1>2. /\ base' \in [Groups -> 0..MaxMsgs]
      /\ cursor' \in [Groups -> 0..MaxMsgs]
      /\ created' \subseteq Groups
  <2>1. CASE g \in created
    BY <2>1 DEF Start, EnsureGroup, TypeOK
  <2>2. CASE g \notin created
    <3>1. PICK start \in {0, published} :
              /\ base' = [base EXCEPT ![g] = start]
              /\ cursor' = [cursor EXCEPT ![g] = start]
              /\ created' = created \cup {g}
      BY <2>2 DEF Start, EnsureGroup
    <3>2. start \in 0..MaxMsgs
      BY <3>1, ConstantsAssumption DEF TypeOK
    <3> QED
      BY <1>1, <3>1, <3>2 DEF TypeOK
  <2> QED
    BY <2>1, <2>2
<1>3. pc[c] = "down" /\ pc' = [pc EXCEPT ![c] = "read"] /\ due' = [due EXCEPT ![c] = TRUE]
  BY DEF Start, Goto
<1> QED
  BY <1>2, <1>3 DEF Start, TypeOK, historyVars, Labels

LEMMA ReadType ==
    ASSUME TypeOK, NEW c \in Consumers, Read(c) \/ ReadReplyLost(c)
    PROVE  TypeOK'
<1>1. GroupOf[c] \in Groups
  BY ConstantsAssumption
<1>2. LastNew(GroupOf[c]) \in 0..MaxMsgs /\ NewEntries(GroupOf[c]) \subseteq Msgs
  BY <1>1, NewEntriesType
<1>3. CASE Read(c)
  BY <1>1, <1>2, <1>3 DEF TypeOK, Read, Goto, historyVars, None, Labels
<1>4. CASE ReadReplyLost(c)
  BY <1>1, <1>2, <1>4 DEF TypeOK, ReadReplyLost, Fault, processVars, historyVars
<1> QED
  BY <1>3, <1>4

LEMMA TakeType ==
    ASSUME TypeOK, NEW c \in Consumers, Take(c)
    PROVE  TypeOK'
<1>1. PICK m \in batch[c] : /\ current' = [current EXCEPT ![c] = m]
                            /\ batch' = [batch EXCEPT ![c] = @ \ {m}]
                            /\ runs' = [runs EXCEPT ![GroupOf[c]][m] = @ + 1]
  BY DEF Take
<1>2. m \in Msgs /\ m # None
  BY DEF TypeOK, Msgs, None
<1>3. runs' \in [Groups -> [Msgs -> Nat]]
  <2>1. GroupOf[c] \in Groups
    BY ConstantsAssumption
  <2> QED
    BY <1>1, <1>2, <2>1 DEF TypeOK
<1> QED
  BY <1>1, <1>2, <1>3 DEF TypeOK, Take, Goto, Labels, redisVars

LEMMA ClaimType ==
    ASSUME TypeOK, NEW c \in Consumers, Claim(c) \/ ClaimFails(c)
    PROVE  TypeOK'
<1> DEFINE g == GroupOf[c]
<1>1. g \in Groups
  BY ConstantsAssumption
<1>2. CASE Claim(c)
  <2>1. PICK S \in SUBSET idle[g], n \in Msgs \cup {None} :
            /\ idle' = [idle EXCEPT ![g] = @ \ S]
            /\ batch' = [batch EXCEPT ![c] = S]
            /\ scan' = [scan EXCEPT ![c] = n]
    BY <1>2 DEF Claim
  <2>2. S \subseteq Msgs
    BY <1>1 DEF TypeOK
  <2> QED
    BY <1>1, <1>2, <2>1, <2>2 DEF TypeOK, Claim, Goto, historyVars, Labels
<1>3. CASE ClaimFails(c)
  BY <1>1, <1>3 DEF TypeOK, ClaimFails, Fault, Abandon, Goto, historyVars, Labels
<1> QED
  BY <1>2, <1>3

\* The steps between a handler's end and its XACK.
LEMMA HandlerType ==
    ASSUME TypeOK, NEW c \in Consumers, HandlerResolves(c) \/ HandlerThrows(c)
    PROVE  TypeOK'
<1>1. GroupOf[c] \in Groups
  BY ConstantsAssumption
<1>2. CASE HandlerResolves(c)
  <2>1. current[c] \in Msgs
    BY <1>2, CurrentIsEntry DEF HandlerResolves
  <2> QED
    BY <1>1, <1>2, <2>1 DEF TypeOK, HandlerResolves, Goto, Labels, redisVars
<1>3. CASE HandlerThrows(c)
  BY <1>3 DEF TypeOK, HandlerThrows, Goto, Labels, redisVars, historyVars
<1> QED
  BY <1>2, <1>3

\* An XACK, executed or not, keeps the idle entries among the pending ones.
LEMMA AckedType ==
    ASSUME TypeOK, NEW c \in Consumers,
           \/ pel' = Acked(pel, c) /\ idle' = Acked(idle, c)
           \/ UNCHANGED <<pel, idle>>
    PROVE  /\ pel' \in [Groups -> SUBSET Msgs]
           /\ idle' \in [Groups -> SUBSET Msgs]
           /\ \A g \in Groups : idle'[g] \subseteq pel'[g]
<1>1. /\ pel \in [Groups -> SUBSET Msgs]
      /\ idle \in [Groups -> SUBSET Msgs]
      /\ \A g \in Groups : idle[g] \subseteq pel[g]
  BY DEF TypeOK
<1>2. CASE UNCHANGED <<pel, idle>>
  BY <1>1, <1>2
<1>3. CASE pel' = Acked(pel, c) /\ idle' = Acked(idle, c)
  BY <1>1, <1>3, ConstantsAssumption DEF Acked
<1> QED
  BY <1>2, <1>3

LEMMA AckType ==
    ASSUME TypeOK, NEW c \in Consumers,
           Ack(c) \/ AckFails(c) \/ DeadAck(c) \/ DeadAckFails(c)
    PROVE  TypeOK'
<1>1. /\ pel' \in [Groups -> SUBSET Msgs]
      /\ idle' \in [Groups -> SUBSET Msgs]
      /\ \A g \in Groups : idle'[g] \subseteq pel'[g]
  BY AckedType DEF Ack, AckFails, DeadAck, DeadAckFails
<1>2. CASE Ack(c)
  BY <1>1, <1>2 DEF TypeOK, Ack, Done, Goto, Labels, historyVars, None
<1>3. CASE AckFails(c)
  <2>1. /\ faults' \in Nat /\ pc[c] = "ack" /\ pc' = [pc EXCEPT ![c] = "count"]
        /\ UNCHANGED <<published, created, base, cursor, deliveries, mode, batch, current,
                       scan, due, dead, lost, handled, runs>>
    BY <1>3 DEF TypeOK, AckFails, Fault, Goto, historyVars
  <2> QED
    BY <1>1, <2>1 DEF TypeOK, Labels
<1>4. CASE DeadAck(c)
  BY <1>1, <1>4 DEF TypeOK, DeadAck, Goto, Labels, historyVars
<1>5. CASE DeadAckFails(c)
  BY <1>1, <1>5 DEF TypeOK, DeadAckFails, Fault, Abandon, Goto, Labels, historyVars, None
<1> QED
  BY <1>2, <1>3, <1>4, <1>5

LEMMA CounterType ==
    ASSUME TypeOK, NEW c \in Consumers,
           CountFailure(c) \/ CountFails(c) \/ Clear(c) \/ ClearFails(c)
    PROVE  TypeOK'
<1>1. current[c] \in Msgs
  BY CurrentIsEntry DEF CountFailure, CountFails, Clear, ClearFails
<1>2. deliveries' \in [Msgs -> Nat]
  <2>1. deliveries \in [Msgs -> Nat]
    BY DEF TypeOK
  <2> QED
    BY <1>1, <2>1 DEF CountFailure, CountFails, Clear, ClearFails
<1>3. CASE CountFailure(c)
  <2>1. CASE pc' = [pc EXCEPT ![c] = "deadLetter"] /\ UNCHANGED current
    BY <1>2, <1>3, <2>1 DEF TypeOK, CountFailure, historyVars, Labels
  <2>2. CASE Done(c)
    BY <1>2, <1>3, <2>2 DEF TypeOK, CountFailure, Done, Goto, historyVars, Labels, None
  <2> QED
    BY <1>3, <2>1, <2>2 DEF CountFailure, Goto
<1>4. CASE CountFails(c)
  BY <1>2, <1>4 DEF TypeOK, CountFails, Fault, Abandon, Goto, historyVars, Labels, None
<1>5. CASE Clear(c)
  BY <1>2, <1>5 DEF TypeOK, Clear, Done, Goto, historyVars, Labels, None
<1>6. CASE ClearFails(c)
  BY <1>2, <1>6 DEF TypeOK, ClearFails, Fault, Abandon, Goto, historyVars, Labels, None
<1> QED
  BY <1>3, <1>4, <1>5, <1>6

LEMMA DeadLetterType ==
    ASSUME TypeOK, NEW c \in Consumers, DeadLetter(c) \/ DeadLetterFails(c)
    PROVE  TypeOK'
<1>1. current[c] \in Msgs
  BY CurrentIsEntry DEF DeadLetter, DeadLetterFails
<1>2. dead' \in [Groups -> SUBSET Msgs] /\ lost' \in [Groups -> SUBSET Msgs]
  <2>1. /\ dead \in [Groups -> SUBSET Msgs] /\ lost \in [Groups -> SUBSET Msgs]
        /\ GroupOf[c] \in Groups
    BY ConstantsAssumption DEF TypeOK
  <2>2. CASE DeadLetter(c)
    BY <1>1, <2>1, <2>2 DEF DeadLetter
  <2>3. CASE DeadLetterFails(c)
    BY <1>1, <2>1, <2>3 DEF DeadLetterFails
  <2> QED
    BY <2>2, <2>3
<1>3. /\ faults' \in Nat
      /\ pc[c] = "deadLetter"
      /\ pc' = [pc EXCEPT ![c] = "deadAck"]
      /\ UNCHANGED <<published, redisVars, mode, batch, current, scan, due, handled, runs>>
  BY DEF TypeOK, DeadLetter, DeadLetterFails, Fault, Goto
<1> QED
  BY <1>2, <1>3 DEF TypeOK, redisVars, Labels

\* Every step keeps every variable in its type.
LEMMA TypeInductive ==
    ASSUME TypeOK, [Next]_vars
    PROVE  TypeOK'
<1>1. CASE Publish
  BY <1>1, ConstantsAssumption DEF TypeOK, Publish, redisVars, processVars, historyVars
<1>2. ASSUME NEW g \in Groups, NEW m \in Msgs, Age(g, m)
      PROVE  TypeOK'
  BY <1>2 DEF TypeOK, Age, processVars, historyVars
<1>3. ASSUME NEW c \in Consumers, EndOfRead(c) \/ EndOfClaim(c)
      PROVE  TypeOK'
  BY <1>3 DEF TypeOK, EndOfRead, EndOfClaim, Goto, Labels, redisVars, historyVars
<1>4. ASSUME NEW c \in Consumers, Crash(c)
      PROVE  TypeOK'
  BY <1>4 DEF TypeOK, Crash, Fault, Goto, Labels, redisVars, historyVars, None
<1>5. ASSUME NEW c \in Consumers, SweepDue(c)
      PROVE  TypeOK'
  BY <1>5 DEF TypeOK, SweepDue, redisVars, historyVars
<1>6. CASE UNCHANGED vars
  BY <1>6 DEF TypeOK, vars, redisVars, processVars, historyVars
<1> QED
  BY <1>1, <1>2, <1>3, <1>4, <1>5, <1>6, StartType, ReadType, TakeType, ClaimType, HandlerType,
     AckType, CounterType, DeadLetterType DEF Next, Step, Failure

\* The type invariant of the loop holds in every reachable state.
THEOREM TypeCorrect == Spec => []TypeOK
<1>1. Init => TypeOK
  BY ConstantsAssumption DEF Init, TypeOK, Msgs, None, Labels
<1>2. TypeOK /\ [Next]_vars => TypeOK'
  BY TypeInductive
<1> QED
  BY <1>1, <1>2, PTL DEF Spec

-----------------------------------------------------------------------------
(* The invariant the refinement rests on *)

\* A group has been handed the entries behind its cursor, and holds no others.
Bounds ==
    \A g \in Groups :
        /\ base[g] <= cursor[g]
        /\ cursor[g] <= published
        /\ pel[g] \subseteq 1..cursor[g]
        /\ g \notin created => cursor[g] = 0

\* A running process reads for a group that exists, and works on entries the
\* group was handed.
Holdings ==
    \A c \in Consumers :
        /\ pc[c] # "down" => GroupOf[c] \in created
        /\ batch[c] \subseteq 1..cursor[GroupOf[c]]
        /\ current[c] <= cursor[GroupOf[c]]

\* An entry has its outcome before handleMessage XACKs it.
OutcomeFirst ==
    \A c \in Consumers :
        /\ pc[c] = "ack" => current[c] \in handled[GroupOf[c]]
        /\ pc[c] \in {"deadAck", "clear"} =>
              current[c] \in dead[GroupOf[c]] \cup lost[GroupOf[c]]

Inv == TypeOK /\ Bounds /\ Holdings /\ OutcomeFirst

LEMMA StartBounds ==
    ASSUME TypeOK, Bounds, NEW c \in Consumers, Start(c)
    PROVE  Bounds'
<1> DEFINE g == GroupOf[c]
<1>1. g \in Groups
  BY ConstantsAssumption
<1>2. /\ base \in [Groups -> 0..MaxMsgs] /\ cursor \in [Groups -> 0..MaxMsgs]
      /\ published \in 0..MaxMsgs /\ MaxMsgs \in Nat
  BY ConstantsAssumption DEF TypeOK
<1>3. CASE g \in created
  BY <1>3 DEF Start, EnsureGroup, Bounds
<1>4. CASE g \notin created
  <2>1. PICK start \in {0, published} :
            /\ base' = [base EXCEPT ![g] = start]
            /\ cursor' = [cursor EXCEPT ![g] = start]
            /\ created' = created \cup {g}
    BY <1>4 DEF Start, EnsureGroup
  <2>2. published' = published /\ pel' = pel
    BY DEF Start
  <2>3. cursor[g] = 0
    BY <1>1, <1>4 DEF Bounds
  <2> QED
    BY <1>1, <1>2, <2>1, <2>2, <2>3 DEF Bounds
<1> QED
  BY <1>3, <1>4

LEMMA ReadBounds ==
    ASSUME TypeOK, Bounds, Holdings, NEW c \in Consumers, Read(c) \/ ReadReplyLost(c)
    PROVE  Bounds'
<1> DEFINE g == GroupOf[c]
           n == LastNew(g)
           N == NewEntries(g)
<1>1. g \in Groups /\ g \in created
  BY ConstantsAssumption DEF Holdings, Read, ReadReplyLost
<1>2. n \in 0..MaxMsgs /\ n <= published /\ N \subseteq 1..n
  BY <1>1, NewEntriesType
<1>3. /\ base \in [Groups -> 0..MaxMsgs] /\ cursor \in [Groups -> 0..MaxMsgs]
      /\ published \in 0..MaxMsgs /\ MaxMsgs \in Nat /\ pel \in [Groups -> SUBSET Msgs]
  BY ConstantsAssumption DEF TypeOK
<1>4. cursor[g] <= n
  BY <1>1, <1>3, ConstantsAssumption DEF Bounds, LastNew
<1>5. /\ cursor' = [cursor EXCEPT ![g] = n] /\ pel' = [pel EXCEPT ![g] = @ \cup N]
      /\ UNCHANGED <<published, created, base>>
  BY DEF Read, ReadReplyLost
<1> HIDE DEF n, N
<1> SUFFICES ASSUME NEW h \in Groups
             PROVE  /\ base[h] <= cursor'[h]
                    /\ cursor'[h] <= published
                    /\ pel'[h] \subseteq 1..cursor'[h]
                    /\ h \notin created => cursor'[h] = 0
  BY <1>5 DEF Bounds
<1>6. CASE h = g
  <2>1. cursor'[h] = n /\ pel'[h] = pel[h] \cup N
    BY <1>1, <1>3, <1>5, <1>6
  <2>2. base[h] <= cursor[h] /\ pel[h] \subseteq 1..cursor[h]
    BY DEF Bounds
  <2>3. base[h] \in Nat /\ cursor[h] \in Nat /\ n \in Nat
    BY <1>1, <1>2, <1>3
  <2>4. cursor[h] <= n /\ n <= published /\ N \subseteq 1..n
    BY <1>2, <1>4, <1>6
  <2>5. pel'[h] \subseteq 1..n
    <3>1. 1..cursor[h] \subseteq 1..n
      BY <2>3, <2>4
    <3> QED
      BY <2>1, <2>2, <2>4, <3>1
  <2>6. base[h] <= n
    BY <2>2, <2>3, <2>4, <1>3
  <2> QED
    BY <1>1, <1>6, <2>1, <2>4, <2>5, <2>6
<1>7. CASE h # g
  BY <1>5, <1>7, <1>3 DEF Bounds
<1> QED
  BY <1>6, <1>7

\* A step that at most acknowledges entries.
LEMMA AckBounds ==
    ASSUME TypeOK, Bounds, NEW c \in Consumers,
           pel' = Acked(pel, c) \/ pel' = pel,
           UNCHANGED <<published, created, base, cursor>>
    PROVE  Bounds'
<1>1. pel \in [Groups -> SUBSET Msgs]
  BY DEF TypeOK
<1>2. \A g \in Groups : pel'[g] \subseteq pel[g]
  BY <1>1 DEF Acked
<1> QED
  BY <1>2 DEF Bounds

LEMMA BoundsInductive ==
    ASSUME TypeOK, Bounds, Holdings, [Next]_vars
    PROVE  Bounds'
<1>1. CASE Publish
  <2>1. /\ \A g \in Groups : cursor[g] \in Nat
        /\ published \in Nat
    BY ConstantsAssumption DEF TypeOK
  <2> QED
    BY <1>1, <2>1 DEF Bounds, Publish, redisVars
<1>2. ASSUME NEW c \in Consumers,
             Ack(c) \/ AckFails(c) \/ DeadAck(c) \/ DeadAckFails(c)
      PROVE  Bounds'
  BY <1>2, AckBounds DEF Ack, AckFails, DeadAck, DeadAckFails
<1>3. CASE UNCHANGED <<published, created, base, cursor, pel>>
  BY <1>3 DEF Bounds
<1>4. ASSUME NEW c \in Consumers,
             \/ Crash(c) \/ SweepDue(c) \/ Take(c) \/ EndOfRead(c) \/ EndOfClaim(c)
             \/ Claim(c) \/ ClaimFails(c) \/ HandlerResolves(c) \/ HandlerThrows(c)
             \/ CountFailure(c) \/ CountFails(c) \/ DeadLetter(c) \/ DeadLetterFails(c)
             \/ Clear(c) \/ ClearFails(c)
      PROVE  UNCHANGED <<published, created, base, cursor, pel>>
  BY <1>4 DEF Crash, SweepDue, Take, EndOfRead, EndOfClaim, Claim, ClaimFails, HandlerResolves,
     HandlerThrows, CountFailure, CountFails, DeadLetter, DeadLetterFails, Clear, ClearFails,
     redisVars
<1>5. ASSUME NEW g \in Groups, NEW m \in Msgs, Age(g, m)
      PROVE  UNCHANGED <<published, created, base, cursor, pel>>
  BY <1>5 DEF Age
<1>6. CASE UNCHANGED vars
  BY <1>6, <1>3 DEF vars, redisVars
<1> QED
  BY <1>1, <1>2, <1>3, <1>4, <1>5, <1>6, StartBounds, ReadBounds DEF Next, Step, Failure

\* A step after which every process still works on entries it had, or on
\* entries its group was handed.
LEMMA KeepsHoldings ==
    ASSUME TypeOK, Holdings, created \subseteq created',
           \A g \in Groups : cursor'[g] \in Nat /\ cursor[g] <= cursor'[g],
           \A c \in Consumers :
              /\ batch'[c] \subseteq batch[c] \/ batch'[c] \subseteq 1..cursor'[GroupOf[c]]
              /\ current'[c] \in {current[c], None} \cup batch[c]
              /\ pc'[c] # "down" => pc[c] # "down" \/ GroupOf[c] \in created'
    PROVE  Holdings'
<1> SUFFICES ASSUME NEW c \in Consumers
             PROVE  /\ pc'[c] # "down" => GroupOf[c] \in created'
                    /\ batch'[c] \subseteq 1..cursor'[GroupOf[c]]
                    /\ current'[c] <= cursor'[GroupOf[c]]
  BY DEF Holdings
<1>1. GroupOf[c] \in Groups
  BY ConstantsAssumption
<1>2. /\ cursor[GroupOf[c]] \in Nat /\ cursor'[GroupOf[c]] \in Nat
      /\ cursor[GroupOf[c]] <= cursor'[GroupOf[c]]
  BY <1>1, ConstantsAssumption DEF TypeOK
<1>3. current[c] \in Nat /\ batch[c] \subseteq Nat
  BY ConstantsAssumption DEF TypeOK, Msgs, None
<1>4. batch[c] \subseteq 1..cursor[GroupOf[c]] /\ current[c] <= cursor[GroupOf[c]]
  BY DEF Holdings
<1>5. batch[c] \subseteq 1..cursor'[GroupOf[c]]
  BY <1>2, <1>4
<1>6. current'[c] <= cursor'[GroupOf[c]]
  BY <1>2, <1>3, <1>4, <1>5 DEF None
<1> QED
  BY <1>5, <1>6 DEF Holdings

LEMMA HoldingsInductive ==
    ASSUME TypeOK, Bounds, Holdings, TypeOK', [Next]_vars
    PROVE  Holdings'
<1>1. \A g \in Groups : cursor[g] \in Nat /\ cursor'[g] \in Nat
  BY ConstantsAssumption DEF TypeOK
<1>2. /\ batch \in [Consumers -> SUBSET Msgs] /\ current \in [Consumers -> Msgs \cup {None}]
      /\ pc \in [Consumers -> Labels] /\ cursor \in [Groups -> 0..MaxMsgs]
      /\ GroupOf \in [Consumers -> Groups]
  BY ConstantsAssumption DEF TypeOK
<1> USE <1>1, <1>2
<1>3. ASSUME UNCHANGED <<created, cursor, pc, batch, current>>
      PROVE  Holdings'
  BY <1>3 DEF Holdings
<1>4. ASSUME NEW c \in Consumers, Start(c)
      PROVE  Holdings'
  <2>1. created \subseteq created' /\ GroupOf[c] \in created'
    BY <1>4 DEF Start, EnsureGroup
  <2>2. \A g \in Groups : cursor[g] <= cursor'[g]
    <3>1. CASE GroupOf[c] \in created
      <4>1. cursor' = cursor
        BY <1>4, <3>1 DEF Start, EnsureGroup
      <4> QED
        BY <4>1
    <3>2. CASE GroupOf[c] \notin created
      <4>1. PICK start \in {0, published} : cursor' = [cursor EXCEPT ![GroupOf[c]] = start]
        BY <1>4, <3>2 DEF Start, EnsureGroup
      <4>2. \A g \in Groups : g # GroupOf[c] => cursor'[g] = cursor[g]
        BY <4>1
      <4>3. cursor[GroupOf[c]] = 0
        BY <3>2 DEF Bounds
      <4> QED
        BY <4>2, <4>3
    <3> QED
      BY <3>1, <3>2
  <2>3. UNCHANGED <<batch, current>> /\ pc' = [pc EXCEPT ![c] = "read"]
    BY <1>4 DEF Start, Goto
  <2> QED
    BY <2>1, <2>2, <2>3, KeepsHoldings
<1>5. ASSUME NEW c \in Consumers, Read(c) \/ ReadReplyLost(c)
      PROVE  Holdings'
  <2> DEFINE g == GroupOf[c]
             n == LastNew(g)
             N == NewEntries(g)
  <2>1. n \in 0..MaxMsgs /\ N \subseteq 1..n
    BY NewEntriesType
  <2>2. cursor[g] <= n
    BY ConstantsAssumption DEF TypeOK, Bounds, LastNew
  <2>3. /\ cursor' = [cursor EXCEPT ![g] = n]
        /\ batch' = [batch EXCEPT ![c] = N] \/ batch' = batch
        /\ pc[c] = "read"
        /\ UNCHANGED <<created, current>>
        /\ pc' = [pc EXCEPT ![c] = "next"] \/ pc' = pc
    BY <1>5 DEF Read, ReadReplyLost, Goto, processVars
  <2> HIDE DEF n, N
  <2>4. \A h \in Groups : cursor[h] <= cursor'[h]
    BY <2>2, <2>3
  <2>5. cursor'[g] = n
    BY <2>3
  <2>6. \A d \in Consumers : batch'[d] \subseteq batch[d] \/ batch'[d] \subseteq 1..cursor'[GroupOf[d]]
    BY <2>1, <2>3, <2>5
  <2> QED
    BY <2>3, <2>4, <2>6, KeepsHoldings
<1>6. ASSUME NEW c \in Consumers, Take(c)
      PROVE  Holdings'
  <2>1. PICK m \in batch[c] : /\ current' = [current EXCEPT ![c] = m]
                              /\ batch' = [batch EXCEPT ![c] = @ \ {m}]
    BY <1>6 DEF Take
  <2>2. pc[c] = "next" /\ pc' = [pc EXCEPT ![c] = "handle"] /\ UNCHANGED <<created, cursor>>
    BY <1>6 DEF Take, Goto, redisVars
  <2> QED
    BY <2>1, <2>2, KeepsHoldings
<1>7. ASSUME NEW c \in Consumers, Claim(c)
      PROVE  Holdings'
  <2>1. PICK S \in SUBSET idle[GroupOf[c]] : batch' = [batch EXCEPT ![c] = S]
    BY <1>7 DEF Claim
  <2>2. idle[GroupOf[c]] \subseteq pel[GroupOf[c]]
    BY DEF TypeOK
  <2>3. /\ pc[c] = "claim" /\ pc' = [pc EXCEPT ![c] = "next"]
        /\ UNCHANGED <<created, cursor, current>>
    BY <1>7 DEF Claim, Goto
  <2>4. S \subseteq 1..cursor'[GroupOf[c]]
    BY <2>1, <2>2, <2>3 DEF Bounds
  <2>5. \A d \in Consumers :
            batch'[d] \subseteq batch[d] \/ batch'[d] \subseteq 1..cursor'[GroupOf[d]]
    BY <2>1, <2>4
  <2>6. \A d \in Consumers : pc'[d] # "down" => pc[d] # "down"
    BY <2>3
  <2> QED
    BY <2>3, <2>5, <2>6, KeepsHoldings
<1>8. ASSUME NEW c \in Consumers, UNCHANGED <<created, cursor, batch>>, pc[c] # "down", Done(c)
      PROVE  Holdings'
  BY <1>8, KeepsHoldings DEF Done, Goto
<1>9. ASSUME NEW c \in Consumers, UNCHANGED <<created, cursor, batch, current>>, pc[c] # "down",
             NEW l, Goto(c, l)
      PROVE  Holdings'
  BY <1>9, KeepsHoldings DEF Goto
<1>10. ASSUME NEW c \in Consumers, Crash(c)
       PROVE  Holdings'
  BY <1>10, KeepsHoldings DEF Crash, Goto, redisVars
<1>11. ASSUME NEW c \in Consumers,
              \/ EndOfRead(c) \/ EndOfClaim(c) \/ HandlerResolves(c) \/ HandlerThrows(c)
              \/ AckFails(c) \/ DeadLetter(c) \/ DeadLetterFails(c) \/ DeadAck(c)
       PROVE  Holdings'
  <2>1. UNCHANGED <<created, cursor, batch, current>> /\ pc[c] # "down"
    BY <1>11 DEF EndOfRead, EndOfClaim, HandlerResolves, HandlerThrows, AckFails, DeadLetter,
       DeadLetterFails, DeadAck, redisVars
  <2>2. PICK l : Goto(c, l)
    BY <1>11 DEF EndOfRead, EndOfClaim, HandlerResolves, HandlerThrows, AckFails, DeadLetter,
       DeadLetterFails, DeadAck
  <2> QED
    BY <1>9, <2>1, <2>2
<1>12. ASSUME NEW c \in Consumers,
              \/ Ack(c) \/ CountFails(c) \/ DeadAckFails(c) \/ Clear(c) \/ ClearFails(c)
              \/ ClaimFails(c)
       PROVE  Holdings'
  <2>1. /\ UNCHANGED <<created, cursor>> /\ pc[c] # "down"
        /\ Abandon(c) \/ (Done(c) /\ UNCHANGED batch)
    BY <1>12 DEF Ack, CountFails, DeadAckFails, Clear, ClearFails, ClaimFails
  <2> QED
    BY <2>1, KeepsHoldings DEF Abandon, Done, Goto
<1>13. ASSUME NEW c \in Consumers, CountFailure(c)
       PROVE  Holdings'
  <2>1. UNCHANGED <<created, cursor, batch>> /\ pc[c] # "down"
    BY <1>13 DEF CountFailure
  <2>2. Done(c) \/ (UNCHANGED current /\ Goto(c, "deadLetter"))
    BY <1>13 DEF CountFailure
  <2> QED
    BY <1>8, <1>9, <2>1, <2>2
<1>14. ASSUME \/ Publish \/ UNCHANGED vars
              \/ \E g \in Groups, m \in Msgs : Age(g, m)
              \/ \E c \in Consumers : SweepDue(c)
       PROVE  Holdings'
  BY <1>3, <1>14 DEF Publish, Age, SweepDue, vars, redisVars, processVars
<1>15. ASSUME NEW c \in Consumers, Step(c)
       PROVE  Holdings'
  BY <1>4, <1>5, <1>6, <1>7, <1>11, <1>12, <1>13, <1>15 DEF Step
<1>16. ASSUME NEW c \in Consumers, Failure(c)
       PROVE  Holdings'
  BY <1>5, <1>10, <1>11, <1>12, <1>16 DEF Failure
<1> QED
  BY <1>14, <1>15, <1>16 DEF Next

LEMMA OutcomeInductive ==
    ASSUME TypeOK, OutcomeFirst, [Next]_vars
    PROVE  OutcomeFirst'
<1>1. /\ GroupOf \in [Consumers -> Groups] /\ pc \in [Consumers -> Labels]
      /\ current \in [Consumers -> Msgs \cup {None}]
      /\ handled \in [Groups -> SUBSET Msgs]
      /\ dead \in [Groups -> SUBSET Msgs] /\ lost \in [Groups -> SUBSET Msgs]
  BY ConstantsAssumption DEF TypeOK
<1> USE <1>1 DEF OutcomeFirst
\* A step that moves one process to an await without an outcome to show.
<1>2. ASSUME NEW c \in Consumers, NEW l \in Labels \ {"ack", "deadAck", "clear"}, Goto(c, l),
             UNCHANGED <<dead, lost, handled>>,
             \A d \in Consumers \ {c} : current'[d] = current[d]
      PROVE  OutcomeFirst'
  BY <1>2 DEF Goto
<1>3. ASSUME UNCHANGED <<pc, current, dead, lost, handled>>
      PROVE  OutcomeFirst'
  BY <1>3
<1>4. ASSUME NEW c \in Consumers, HandlerResolves(c)
      PROVE  OutcomeFirst'
  BY <1>4 DEF HandlerResolves, Goto
<1>5. ASSUME NEW c \in Consumers, DeadLetter(c) \/ DeadLetterFails(c)
      PROVE  OutcomeFirst'
  <2>1. /\ UNCHANGED <<current, handled>>
        /\ pc' = [pc EXCEPT ![c] = "deadAck"]
    BY <1>5 DEF DeadLetter, DeadLetterFails, Goto
  <2>2. \A g \in Groups : dead[g] \subseteq dead'[g] /\ lost[g] \subseteq lost'[g]
    BY <1>5 DEF DeadLetter, DeadLetterFails
  <2>3. current[c] \in dead'[GroupOf[c]] \cup lost'[GroupOf[c]]
    BY <1>5 DEF DeadLetter, DeadLetterFails
  <2> QED
    BY <2>1, <2>2, <2>3
<1>6. ASSUME NEW c \in Consumers, DeadAck(c)
      PROVE  OutcomeFirst'
  BY <1>6 DEF DeadAck, Goto, historyVars
<1>7. ASSUME NEW c \in Consumers,
             \/ Start(c) \/ Crash(c) \/ Read(c) \/ Take(c) \/ EndOfRead(c) \/ EndOfClaim(c)
             \/ Claim(c) \/ ClaimFails(c) \/ HandlerThrows(c) \/ Ack(c) \/ AckFails(c)
             \/ CountFailure(c) \/ CountFails(c) \/ DeadAckFails(c) \/ Clear(c) \/ ClearFails(c)
      PROVE  OutcomeFirst'
  <2>1. \E l \in Labels \ {"ack", "deadAck", "clear"} : Goto(c, l)
    BY <1>7 DEF Start, Crash, Read, Take, EndOfRead, EndOfClaim, Claim, ClaimFails, HandlerThrows,
       Ack, AckFails, CountFailure, CountFails, DeadAckFails, Clear, ClearFails, Done, Abandon,
       Labels
  <2>2. UNCHANGED <<dead, lost, handled>>
    BY <1>7 DEF Start, Crash, Read, Take, EndOfRead, EndOfClaim, Claim, ClaimFails, HandlerThrows,
       Ack, AckFails, CountFailure, CountFails, DeadAckFails, Clear, ClearFails, historyVars
  <2>3. \A d \in Consumers \ {c} : current'[d] = current[d]
    <3>1. \E m : current' \in {current, [current EXCEPT ![c] = m]}
      BY <1>7 DEF Start, Crash, Read, Take, EndOfRead, EndOfClaim, Claim, ClaimFails,
         HandlerThrows, Ack, AckFails, CountFailure, CountFails, DeadAckFails, Clear, ClearFails,
         Done, Abandon
    <3> QED
      BY <3>1
  <2> QED
    BY <1>2, <2>1, <2>2, <2>3
<1>8. ASSUME \/ Publish \/ UNCHANGED vars
             \/ \E g \in Groups, m \in Msgs : Age(g, m)
             \/ \E c \in Consumers : SweepDue(c) \/ ReadReplyLost(c)
      PROVE  OutcomeFirst'
  BY <1>3, <1>8 DEF Publish, Age, SweepDue, ReadReplyLost, vars, processVars, historyVars
<1>9. ASSUME NEW c \in Consumers, Step(c) \/ Failure(c)
      PROVE  OutcomeFirst'
  BY <1>4, <1>5, <1>6, <1>7, <1>8, <1>9 DEF Step, Failure
<1> QED
  BY <1>8, <1>9 DEF Next

\* A process only works on entries its group was handed, and acknowledges an
\* entry only after it has an outcome, wherever the processes stop or die.
THEOREM InvariantHolds == Spec => []Inv
<1>1. Init => Inv
  <2>1. Init => TypeOK
    BY ConstantsAssumption DEF Init, TypeOK, Msgs, None, Labels
  <2>2. Init => Bounds /\ Holdings /\ OutcomeFirst
    BY ConstantsAssumption DEF Init, Bounds, Holdings, OutcomeFirst, None
  <2> QED
    BY <2>1, <2>2 DEF Inv
<1>2. Inv /\ [Next]_vars => Inv'
  BY TypeInductive, BoundsInductive, HoldingsInductive, OutcomeInductive DEF Inv
<1> QED
  BY <1>1, <1>2, PTL DEF Spec

-----------------------------------------------------------------------------
(* The loop implements the contract *)

GivenUp == [g \in Groups |-> dead[g] \cup lost[g]]

LEMMA StartRefines ==
    ASSUME Inv, NEW c \in Consumers, Start(c)
    PROVE  [Contract!ContractNext]_Contract!contractVars
<1> DEFINE g == GroupOf[c]
<1>1. g \in Groups
  BY ConstantsAssumption
<1>2. UNCHANGED <<published, pel, handled, dead, lost>>
  BY DEF Start, historyVars
<1>3. CASE g \in created
  <2>1. UNCHANGED <<created, base, cursor>>
    BY <1>3 DEF Start, EnsureGroup
  <2> QED
    BY <1>2, <2>1 DEF Contract!contractVars
<1>4. CASE g \notin created
  <2>1. PICK start \in {0, published} : /\ base' = [base EXCEPT ![g] = start]
                                       /\ cursor' = [cursor EXCEPT ![g] = start]
                                       /\ created' = created \cup {g}
    BY <1>4 DEF Start, EnsureGroup
  <2>2. Contract!Join(g, start)
    BY <1>2, <1>4, <2>1 DEF Contract!Join
  <2> QED
    BY <1>1, <2>1, <2>2 DEF Contract!ContractNext
<1> QED
  BY <1>3, <1>4

LEMMA ReadRefines ==
    ASSUME Inv, NEW c \in Consumers, Read(c) \/ ReadReplyLost(c)
    PROVE  [Contract!ContractNext]_Contract!contractVars
<1> DEFINE g == GroupOf[c]
<1>1. g \in Groups /\ g \in created
  BY ConstantsAssumption DEF Inv, Holdings, Read, ReadReplyLost
<1>2. LastNew(g) \in 0..MaxMsgs /\ LastNew(g) <= published
  BY <1>1, NewEntriesType DEF Inv
<1>3. /\ cursor' = [cursor EXCEPT ![g] = LastNew(g)]
      /\ pel' = [pel EXCEPT ![g] = @ \cup NewEntries(g)]
      /\ UNCHANGED <<published, created, base, handled, dead, lost>>
  BY DEF Read, ReadReplyLost, historyVars
<1>4. /\ cursor \in [Groups -> Nat] /\ published \in Nat /\ MaxMsgs \in Nat
      /\ pel \in [Groups -> SUBSET Msgs]
  BY ConstantsAssumption DEF Inv, TypeOK
<1>5. cursor[g] <= LastNew(g)
  BY <1>1, <1>4, ConstantsAssumption DEF Inv, Bounds, LastNew
<1>6. CASE LastNew(g) = cursor[g]
  <2>1. NewEntries(g) = {}
    BY <1>1, <1>4, <1>6 DEF NewEntries
  <2>2. UNCHANGED <<cursor, pel>>
    BY <1>1, <1>3, <1>4, <1>6, <2>1
  <2> QED
    BY <1>3, <2>2 DEF Contract!contractVars
<1>7. CASE LastNew(g) # cursor[g]
  <2>1. LastNew(g) \in Contract!Msgs /\ LastNew(g) \in (cursor[g] + 1)..published
    BY <1>1, <1>2, <1>4, <1>5, <1>7 DEF Contract!Msgs
  <2>2. Contract!Deliver(g, LastNew(g))
    BY <1>1, <1>3, <2>1 DEF Contract!Deliver, NewEntries
  <2> QED
    BY <1>1, <2>1, <2>2 DEF Contract!ContractNext
<1> QED
  BY <1>6, <1>7

\* A handler that resolves, and a group giving up, add an outcome.
LEMMA OutcomeRefines ==
    ASSUME Inv, NEW c \in Consumers, HandlerResolves(c) \/ DeadLetter(c) \/ DeadLetterFails(c)
    PROVE  [Contract!ContractNext]_Contract!contractVars
<1> DEFINE g == GroupOf[c]
           m == current[c]
<1>1. g \in Groups /\ m \in Msgs /\ m <= cursor[g]
  BY ConstantsAssumption, CurrentIsEntry
  DEF Inv, Holdings, HandlerResolves, DeadLetter, DeadLetterFails
<1>2. m \in Contract!Msgs
  BY <1>1 DEF Contract!Msgs, Msgs
<1>3. UNCHANGED <<published, created, base, cursor, pel>>
  BY DEF HandlerResolves, DeadLetter, DeadLetterFails, redisVars
<1>4. CASE HandlerResolves(c)
  <2>1. Contract!Succeed(g, m)
    BY <1>1, <1>3, <1>4 DEF HandlerResolves, Contract!Succeed
  <2> QED
    BY <1>1, <1>2, <2>1 DEF Contract!ContractNext
<1>5. CASE DeadLetter(c) \/ DeadLetterFails(c)
  <2>1. /\ \/ dead' = [dead EXCEPT ![g] = @ \cup {m}] /\ UNCHANGED lost
           \/ lost' = [lost EXCEPT ![g] = @ \cup {m}] /\ UNCHANGED dead
        /\ UNCHANGED handled
    BY <1>5 DEF DeadLetter, DeadLetterFails
  <2>2. GivenUp' = [GivenUp EXCEPT ![g] = @ \cup {m}]
    <3>1. dead \in [Groups -> SUBSET Msgs] /\ lost \in [Groups -> SUBSET Msgs]
      BY DEF Inv, TypeOK
    <3>2. ASSUME NEW h \in Groups
          PROVE  dead'[h] \cup lost'[h]
                   = IF h = g THEN (dead[h] \cup lost[h]) \cup {m} ELSE dead[h] \cup lost[h]
      BY <2>1, <3>1, <3>2
    <3> QED
      BY <1>1, <3>2 DEF GivenUp
  <2>3. Contract!GiveUp(g, m)
    BY <1>1, <1>3, <2>1, <2>2 DEF Contract!GiveUp, GivenUp
  <2> QED
    BY <1>1, <1>2, <2>3 DEF Contract!ContractNext, Contract!GiveUp
<1> QED
  BY <1>4, <1>5

LEMMA AckRefines ==
    ASSUME Inv, NEW c \in Consumers,
           Ack(c) \/ AckFails(c) \/ DeadAck(c) \/ DeadAckFails(c)
    PROVE  [Contract!ContractNext]_Contract!contractVars
<1> DEFINE g == GroupOf[c]
           m == current[c]
<1>1. g \in Groups /\ m \in Msgs
  BY ConstantsAssumption, CurrentIsEntry DEF Inv, Ack, AckFails, DeadAck, DeadAckFails
<1>2. m \in Contract!Msgs
  BY <1>1 DEF Contract!Msgs, Msgs
<1>3. UNCHANGED <<published, created, base, cursor, handled, dead, lost>>
  BY DEF Ack, AckFails, DeadAck, DeadAckFails, historyVars
<1>4. pel' = Acked(pel, c) \/ pel' = pel
  BY DEF Ack, AckFails, DeadAck, DeadAckFails
<1>5. m \in handled[g] \cup GivenUp[g]
  BY <1>1 DEF Inv, OutcomeFirst, Ack, AckFails, DeadAck, DeadAckFails, GivenUp
<1>6. CASE pel' = Acked(pel, c) /\ m \in pel[g]
  <2>1. Contract!Settle(g, m)
    BY <1>3, <1>5, <1>6 DEF Contract!Settle, Acked, GivenUp
  <2> QED
    BY <1>1, <1>2, <2>1 DEF Contract!ContractNext
<1>7. CASE pel' = pel \/ m \notin pel[g]
  <2>1. pel \in [Groups -> SUBSET Msgs]
    BY DEF Inv, TypeOK
  <2>2. pel' = pel
    BY <1>1, <1>4, <1>7, <2>1 DEF Acked
  <2> QED
    BY <1>3, <2>2 DEF Contract!contractVars
<1> QED
  BY <1>4, <1>6, <1>7

\* Every other step changes nothing the contract speaks of.
LEMMA StepRefines ==
    ASSUME Inv, [Next]_vars
    PROVE  [Contract!ContractNext]_Contract!contractVars
<1>1. CASE Publish
  BY <1>1 DEF Publish, redisVars, historyVars, Contract!ContractNext, Contract!Append
<1>2. ASSUME UNCHANGED <<published, created, base, cursor, pel, handled, dead, lost>>
      PROVE  UNCHANGED Contract!contractVars
  BY <1>2 DEF Contract!contractVars
<1>3. ASSUME NEW c \in Consumers,
             \/ Crash(c) \/ SweepDue(c) \/ Take(c) \/ EndOfRead(c) \/ EndOfClaim(c)
             \/ Claim(c) \/ ClaimFails(c) \/ HandlerThrows(c) \/ CountFailure(c)
             \/ CountFails(c) \/ Clear(c) \/ ClearFails(c)
      PROVE  UNCHANGED <<published, created, base, cursor, pel, handled, dead, lost>>
  BY <1>3 DEF Crash, SweepDue, Take, EndOfRead, EndOfClaim, Claim, ClaimFails, HandlerThrows,
     CountFailure, CountFails, Clear, ClearFails, redisVars, historyVars
<1>4. ASSUME \/ UNCHANGED vars
             \/ \E g \in Groups, m \in Msgs : Age(g, m)
      PROVE  UNCHANGED <<published, created, base, cursor, pel, handled, dead, lost>>
  BY <1>4 DEF Age, vars, redisVars, historyVars
<1> QED
  BY <1>1, <1>2, <1>3, <1>4, StartRefines, ReadRefines, OutcomeRefines, AckRefines
  DEF Next, Step, Failure

\* readGroupLoop keeps the promise of the delivery contract, under every
\* interleaving of processes, lost replies and crashes.
THEOREM Implements == Spec => ImplementsContract
<1>1. Init => Contract!ContractInit
  BY DEF Init, Contract!ContractInit
<1>2. Inv /\ [Next]_vars => [Contract!ContractNext]_Contract!contractVars
  BY StepRefines
<1> QED
  BY <1>1, <1>2, InvariantHolds, PTL DEF Spec, ImplementsContract, Contract!ContractSpec

Proved == INSTANCE DeliveryContractProofs
    WITH log <- published,
         joined <- created,
         skipped <- base,
         upTo <- cursor,
         inflight <- pel,
         succeeded <- handled,
         givenUp <- [g \in Groups |-> dead[g] \cup lost[g]]

\* No entry leaves a group without having been handled or given up.
THEOREM NothingUnaccounted == Spec => []SettledIsAccounted
<1>1. Proved!ContractSpec => []Proved!Accounted
  BY Proved!AccountedHolds
<1>2. Contract!ContractSpec <=> Proved!ContractSpec
  BY DEF Contract!ContractSpec, Contract!ContractInit, Contract!ContractNext, Contract!contractVars,
     Contract!Append, Contract!Join, Contract!Deliver, Contract!Succeed, Contract!GiveUp,
     Contract!Settle, Contract!Msgs,
     Proved!ContractSpec, Proved!ContractInit, Proved!ContractNext, Proved!contractVars,
     Proved!Append, Proved!Join, Proved!Deliver, Proved!Succeed, Proved!GiveUp,
     Proved!Settle, Proved!Msgs
<1>3. Proved!Accounted => SettledIsAccounted
  BY DEF Proved!Accounted, SettledIsAccounted, Settled
<1> QED
  BY <1>1, <1>2, <1>3, Implements, PTL DEF ImplementsContract

-----------------------------------------------------------------------------
(* Deployments of which more is true *)

\* The stream has one consumer group, so only its processes touch the counters.
OneGroup == \A g, h \in Groups : g = h

\* Each group has at most one process (a Recreate deployment with one replica).
OnePerGroup == \A c, d \in Consumers : GroupOf[c] = GroupOf[d] => c = d

\* At most one process reads the stream.
OneReader == \A c, d \in Consumers : c = d

-----------------------------------------------------------------------------
(* One group: a failure counted is a run that happened *)

\* The processes with a run of m that the counter has not seen.
InFlight(m) == {c \in Consumers : current[c] = m /\ pc[c] \in {"handle", "ack", "count"}}

\* Every count of the hash, and every run under way, is a run of its own; an
\* entry on its way to the dead-letter stream has had its runs.
RunsCovered ==
    /\ \A m \in Msgs : IsFiniteSet(InFlight(m))
    /\ \A g \in Groups, m \in Msgs : deliveries[m] + Cardinality(InFlight(m)) <= runs[g][m]
    /\ \A c \in Consumers : pc[c] = "deadLetter" =>
          MaxDeliveries <= runs[GroupOf[c]][current[c]]

\* A step that starts no run and counts none.
LEMMA KeepsCovered ==
    ASSUME TypeOK, TypeOK', RunsCovered, UNCHANGED runs,
           \A m \in Msgs : InFlight(m)' \subseteq InFlight(m) /\ deliveries'[m] <= deliveries[m],
           \A c \in Consumers : pc'[c] = "deadLetter" =>
              pc[c] = "deadLetter" /\ current'[c] = current[c]
    PROVE  RunsCovered'
<1>1. ASSUME NEW m \in Msgs
      PROVE  /\ IsFiniteSet(InFlight(m)')
             /\ \A g \in Groups : deliveries'[m] + Cardinality(InFlight(m)') <= runs'[g][m]
  <2>1. IsFiniteSet(InFlight(m)) /\ Cardinality(InFlight(m)) \in Nat
    BY FS_CardinalityType DEF RunsCovered
  <2>2. /\ IsFiniteSet(InFlight(m)')
        /\ Cardinality(InFlight(m)') <= Cardinality(InFlight(m))
    BY <2>1, FS_Subset
  <2>3. Cardinality(InFlight(m)') \in Nat
    BY <2>2, FS_CardinalityType
  <2>4. deliveries[m] \in Nat /\ deliveries'[m] \in Nat /\ deliveries'[m] <= deliveries[m]
    BY DEF TypeOK
  <2>5. ASSUME NEW g \in Groups
        PROVE  deliveries'[m] + Cardinality(InFlight(m)') <= runs'[g][m]
    <3>1. runs[g][m] \in Nat /\ runs'[g][m] = runs[g][m]
      BY DEF TypeOK
    <3>2. deliveries[m] + Cardinality(InFlight(m)) <= runs[g][m]
      BY DEF RunsCovered
    <3>3. \A a, b, x, y, r \in Nat : a <= b /\ x <= y /\ b + y <= r => a + x <= r
      OBVIOUS
    <3> QED
      BY <2>1, <2>2, <2>3, <2>4, <3>1, <3>2, <3>3
  <2> QED
    BY <2>2, <2>5
<1>2. \A c \in Consumers : pc'[c] = "deadLetter" =>
          MaxDeliveries <= runs'[GroupOf[c]][current'[c]]
  BY DEF RunsCovered
<1> QED
  BY <1>1, <1>2 DEF RunsCovered

\* Take starts a run: one more under way, one more in the history.
LEMMA TakeCovered ==
    ASSUME OneGroup, TypeOK, TypeOK', RunsCovered, NEW c \in Consumers, Take(c)
    PROVE  RunsCovered'
<1> DEFINE g == GroupOf[c]
<1>1. PICK m \in batch[c] : /\ current' = [current EXCEPT ![c] = m]
                            /\ runs' = [runs EXCEPT ![g][m] = @ + 1]
  BY DEF Take
<1>2. /\ pc[c] = "next" /\ pc' = [pc EXCEPT ![c] = "handle"]
      /\ deliveries' = deliveries /\ m \in Msgs /\ g \in Groups
  BY ConstantsAssumption DEF Take, Goto, redisVars, TypeOK
<1>3. /\ pc \in [Consumers -> Labels] /\ current \in [Consumers -> Msgs \cup {None}]
      /\ runs \in [Groups -> [Msgs -> Nat]] /\ deliveries \in [Msgs -> Nat]
  BY DEF TypeOK
<1>4. InFlight(m)' = InFlight(m) \cup {c} /\ c \notin InFlight(m)
  BY <1>1, <1>2, <1>3 DEF InFlight
<1>5. \A n \in Msgs \ {m} : InFlight(n)' = InFlight(n)
  BY <1>1, <1>2, <1>3 DEF InFlight
<1>6. /\ IsFiniteSet(InFlight(m)')
      /\ Cardinality(InFlight(m)') = Cardinality(InFlight(m)) + 1
      /\ Cardinality(InFlight(m)) \in Nat
  BY <1>2, <1>4, FS_AddElement, FS_CardinalityType DEF RunsCovered
<1>7. runs'[g][m] = runs[g][m] + 1 /\ \A n \in Msgs \ {m} : runs'[g][n] = runs[g][n]
  BY <1>1, <1>2, <1>3
<1>8. \A h \in Groups : h = g
  BY <1>2 DEF OneGroup
<1>9. ASSUME NEW h \in Groups, NEW n \in Msgs
      PROVE  deliveries'[n] + Cardinality(InFlight(n)') <= runs'[h][n]
  <2>1. h = g
    BY <1>8
  <2>2. deliveries[n] + Cardinality(InFlight(n)) <= runs[h][n]
    BY DEF RunsCovered
  <2>3. CASE n = m
    <3>1. \A d, k, r \in Nat : d + k <= r => d + (k + 1) <= r + 1
      OBVIOUS
    <3> QED
      BY <1>2, <1>3, <1>6, <1>7, <2>1, <2>2, <2>3, <3>1
  <2>4. CASE n # m
    BY <1>2, <1>5, <1>7, <2>1, <2>2, <2>4
  <2> QED
    BY <2>3, <2>4
<1>10. \A n \in Msgs : IsFiniteSet(InFlight(n)')
  BY <1>5, <1>6 DEF RunsCovered
<1>11. ASSUME NEW d \in Consumers, pc'[d] = "deadLetter"
       PROVE  MaxDeliveries <= runs'[GroupOf[d]][current'[d]]
  <2>1. d # c /\ pc[d] = "deadLetter" /\ current'[d] = current[d]
    BY <1>1, <1>2, <1>3, <1>11
  <2>2. GroupOf[d] = g /\ current[d] \in Msgs
    BY <1>8, <2>1, CurrentIsEntry, ConstantsAssumption
  <2>3. MaxDeliveries <= runs[g][current[d]] /\ MaxDeliveries \in Nat
    BY <2>1, <2>2, ConstantsAssumption DEF RunsCovered
  <2>4. runs'[g][current[d]] \in {runs[g][current[d]], runs[g][current[d]] + 1}
    BY <1>7, <2>2
  <2>5. runs[g][current[d]] \in Nat
    BY <1>2, <1>3, <2>2
  <2>6. \A x, y \in Nat : x <= y => x <= y + 1
    OBVIOUS
  <2> QED
    BY <2>1, <2>2, <2>3, <2>4, <2>5, <2>6
<1> QED
  BY <1>9, <1>10, <1>11 DEF RunsCovered

\* CountFailure and CountFails turn a run under way into a count.
LEMMA CountCovered ==
    ASSUME OneGroup, TypeOK, TypeOK', RunsCovered, NEW c \in Consumers,
           CountFailure(c) \/ CountFails(c)
    PROVE  RunsCovered'
<1>0. PICK m \in Msgs : m = current[c]
  BY CurrentIsEntry DEF CountFailure, CountFails
<1> DEFINE I == InFlight(m)
<1>1. /\ pc[c] = "count" /\ UNCHANGED runs /\ GroupOf[c] \in Groups
  BY ConstantsAssumption DEF CountFailure, CountFails, historyVars
<1>2. /\ pc \in [Consumers -> Labels] /\ current \in [Consumers -> Msgs \cup {None}]
      /\ runs \in [Groups -> [Msgs -> Nat]] /\ deliveries \in [Msgs -> Nat]
  BY DEF TypeOK
<1>3. \E l \in {"deadLetter", "next", "read"} :
         /\ pc' = [pc EXCEPT ![c] = l]
         /\ IF l = "deadLetter" THEN current' = current
                                ELSE current' = [current EXCEPT ![c] = None]
  BY DEF CountFailure, CountFails, Done, Abandon, Goto
<1>4. c \in I /\ I' = I \ {c}
  BY <1>0, <1>1, <1>2, <1>3 DEF InFlight, None, Msgs
<1>5. \A n \in Msgs \ {m} : InFlight(n)' = InFlight(n)
  BY <1>0, <1>1, <1>2, <1>3 DEF InFlight, None, Msgs
<1>6. /\ IsFiniteSet(I) /\ IsFiniteSet(I') /\ Cardinality(I) \in Nat /\ Cardinality(I') \in Nat
      /\ Cardinality(I') = Cardinality(I) - 1
  BY <1>1, <1>4, FS_RemoveElement, FS_CardinalityType DEF RunsCovered
<1>7. /\ deliveries'[m] \in {deliveries[m], deliveries[m] + 1}
      /\ \A n \in Msgs \ {m} : deliveries'[n] = deliveries[n]
  BY <1>0, <1>1, <1>2 DEF CountFailure, CountFails
<1> HIDE DEF I
<1>8. ASSUME NEW h \in Groups, NEW n \in Msgs
      PROVE  deliveries'[n] + Cardinality(InFlight(n)') <= runs'[h][n]
  <2>1. deliveries[n] + Cardinality(InFlight(n)) <= runs[h][n]
    BY DEF RunsCovered
  <2>2. CASE n = m
    <3>1. \A d, k, j, r, e \in Nat : d + k <= r /\ j = k - 1 /\ e \in {d, d + 1} => e + j <= r
      OBVIOUS
    <3>2. deliveries'[m] \in Nat /\ deliveries[m] \in Nat /\ runs[h][m] \in Nat
      BY <1>1, <1>2 DEF TypeOK
    <3>3. deliveries[m] + Cardinality(I) <= runs[h][m]
      BY <2>1, <2>2 DEF I
    <3>4. deliveries'[m] + Cardinality(I') <= runs[h][m]
      BY <1>6, <1>7, <3>1, <3>2, <3>3
    <3> QED
      BY <1>1, <2>2, <3>4 DEF I
  <2>3. CASE n # m
    BY <1>1, <1>5, <1>7, <2>1, <2>3
  <2> QED
    BY <2>2, <2>3
<1>9. \A n \in Msgs : IsFiniteSet(InFlight(n)')
  BY <1>5, <1>6 DEF RunsCovered, I
<1>10. ASSUME NEW d \in Consumers, pc'[d] = "deadLetter"
       PROVE  MaxDeliveries <= runs'[GroupOf[d]][current'[d]]
  <2>1. CASE d # c
    BY <1>1, <1>2, <1>3, <1>10, <2>1 DEF RunsCovered
  <2>2. CASE d = c
    <3>1. CountFailure(c) /\ current'[c] = m
      BY <1>0, <1>2, <1>3, <1>10, <2>2 DEF CountFails, Abandon, Goto
    <3>2. MaxDeliveries <= deliveries[m] + 1
      BY <1>0, <1>2, <1>10, <2>2, <3>1 DEF CountFailure, Done, Goto
    <3>3. deliveries[m] + Cardinality(I) <= runs[GroupOf[c]][m] /\ Cardinality(I) > 0
      BY <1>1, <1>4, <1>6, FS_EmptySet DEF RunsCovered, I
    <3>4. runs[GroupOf[c]][m] \in Nat /\ deliveries[m] \in Nat /\ MaxDeliveries \in Nat
      BY <1>1, <1>2, ConstantsAssumption
    <3>5. MaxDeliveries <= runs[GroupOf[c]][m]
      BY <1>6, <3>2, <3>3, <3>4
    <3> QED
      BY <1>1, <2>2, <3>1, <3>5
  <2> QED
    BY <2>1, <2>2
<1> QED
  BY <1>8, <1>9, <1>10 DEF RunsCovered

LEMMA CoveredInductive ==
    ASSUME OneGroup, TypeOK, TypeOK', RunsCovered, [Next]_vars
    PROVE  RunsCovered'
<1>1. /\ pc \in [Consumers -> Labels] /\ current \in [Consumers -> Msgs \cup {None}]
      /\ deliveries \in [Msgs -> Nat]
  BY DEF TypeOK
\* A step that moves c out of the await it is at, or leaves it among the three.
<1>2. ASSUME UNCHANGED <<runs, deliveries, pc, current>>
      PROVE  RunsCovered'
  <2>1. \A m \in Msgs : InFlight(m)' = InFlight(m)
    BY <1>2 DEF InFlight
  <2> QED
    BY <1>1, <1>2, <2>1, KeepsCovered
<1>3. ASSUME NEW c \in Consumers, NEW l \in Labels \ {"deadLetter"}, Goto(c, l),
             l \in {"handle", "ack", "count"} => pc[c] \in {"handle", "ack", "count"},
             current' \in {current, [current EXCEPT ![c] = None]}, UNCHANGED runs,
             \A m \in Msgs : deliveries'[m] <= deliveries[m]
      PROVE  RunsCovered'
  <2>1. \A m \in Msgs : InFlight(m)' \subseteq InFlight(m)
    BY <1>1, <1>3 DEF InFlight, Goto, None, Msgs
  <2>2. \A d \in Consumers : pc'[d] = "deadLetter" =>
            pc[d] = "deadLetter" /\ current'[d] = current[d]
    BY <1>1, <1>3 DEF Goto
  <2> QED
    BY <1>3, <2>1, <2>2, KeepsCovered
<1>4. ASSUME NEW c \in Consumers,
             \/ Start(c) \/ Crash(c) \/ Read(c) \/ EndOfRead(c) \/ EndOfClaim(c)
             \/ Claim(c) \/ ClaimFails(c) \/ HandlerResolves(c) \/ HandlerThrows(c)
             \/ Ack(c) \/ AckFails(c) \/ DeadLetter(c) \/ DeadLetterFails(c)
             \/ DeadAck(c) \/ DeadAckFails(c)
      PROVE  RunsCovered'
  <2>1. UNCHANGED <<runs, deliveries>>
    BY <1>4 DEF Start, Crash, Read, EndOfRead, EndOfClaim, Claim, ClaimFails, HandlerResolves,
       HandlerThrows, Ack, AckFails, DeadLetter, DeadLetterFails, DeadAck, DeadAckFails,
       redisVars, historyVars
  <2>2. \E l \in Labels \ {"deadLetter"} :
           Goto(c, l) /\ (l \in {"handle", "ack", "count"} => pc[c] \in {"handle", "ack", "count"})
    BY <1>4 DEF Start, Crash, Read, EndOfRead, EndOfClaim, Claim, ClaimFails, HandlerResolves,
       HandlerThrows, Ack, AckFails, DeadLetter, DeadLetterFails, DeadAck, DeadAckFails,
       Done, Abandon, Labels
  <2>3. current' \in {current, [current EXCEPT ![c] = None]}
    BY <1>4 DEF Start, Crash, Read, EndOfRead, EndOfClaim, Claim, ClaimFails, HandlerResolves,
       HandlerThrows, Ack, AckFails, DeadLetter, DeadLetterFails, DeadAck, DeadAckFails,
       Done, Abandon
  <2>4. \A m \in Msgs : deliveries'[m] <= deliveries[m]
    BY <1>1, <2>1
  <2> QED
    BY <1>3, <2>1, <2>2, <2>3, <2>4
<1>5. ASSUME NEW c \in Consumers, Clear(c) \/ ClearFails(c)
      PROVE  RunsCovered'
  <2>1. UNCHANGED runs /\ \E l \in {"next", "read"} : Goto(c, l)
    BY <1>5 DEF Clear, ClearFails, Done, Abandon, historyVars
  <2>2. current' = [current EXCEPT ![c] = None]
    BY <1>5 DEF Clear, ClearFails, Done, Abandon
  <2>3. \A m \in Msgs : deliveries'[m] <= deliveries[m]
    BY <1>1, <1>5 DEF Clear, ClearFails
  <2> QED
    BY <1>3, <2>1, <2>2, <2>3 DEF Labels
<1>6. ASSUME \/ Publish \/ UNCHANGED vars
             \/ \E g \in Groups, m \in Msgs : Age(g, m)
             \/ \E c \in Consumers : SweepDue(c) \/ ReadReplyLost(c)
      PROVE  RunsCovered'
  BY <1>2, <1>6 DEF Publish, Age, SweepDue, ReadReplyLost, vars, redisVars, processVars,
     historyVars
<1>7. ASSUME NEW c \in Consumers, Step(c) \/ Failure(c)
      PROVE  RunsCovered'
  BY <1>4, <1>5, <1>6, <1>7, TakeCovered, CountCovered DEF Step, Failure
<1> QED
  BY <1>6, <1>7 DEF Next

\* A group gives up on an entry only after its runs, and runs are not undone.
LEMMA GivenUpInductive ==
    ASSUME TypeOK, TypeOK', RunsCovered, DeadOnlyAfterBound, [Next]_vars
    PROVE  DeadOnlyAfterBound'
<1>1. /\ runs \in [Groups -> [Msgs -> Nat]] /\ runs' \in [Groups -> [Msgs -> Nat]]
      /\ dead \in [Groups -> SUBSET Msgs] /\ lost \in [Groups -> SUBSET Msgs]
      /\ MaxDeliveries \in Nat /\ GroupOf \in [Consumers -> Groups]
  BY ConstantsAssumption DEF TypeOK
<1>2. ASSUME UNCHANGED <<dead, lost, runs>>
      PROVE  DeadOnlyAfterBound'
  BY <1>2 DEF DeadOnlyAfterBound
<1>3. ASSUME NEW c \in Consumers, Take(c)
      PROVE  DeadOnlyAfterBound'
  <2>1. PICK m \in batch[c] : runs' = [runs EXCEPT ![GroupOf[c]][m] = @ + 1]
    BY <1>3 DEF Take
  <2>2. m \in Msgs /\ GroupOf[c] \in Groups /\ UNCHANGED <<dead, lost>>
    BY <1>3, ConstantsAssumption DEF TypeOK, Take
  <2>3. \A g \in Groups, n \in Msgs : runs'[g][n] \in {runs[g][n], runs[g][n] + 1}
    BY <1>1, <2>1, <2>2
  <2>4. \A x, y \in Nat : x <= y => x <= y + 1
    OBVIOUS
  <2>5. ASSUME NEW g \in Groups, NEW n \in dead'[g] \cup lost'[g]
        PROVE  MaxDeliveries <= runs'[g][n]
    <3>1. n \in Msgs /\ MaxDeliveries <= runs[g][n]
      BY <1>1, <2>2 DEF DeadOnlyAfterBound
    <3> QED
      BY <1>1, <2>3, <2>4, <3>1
  <2> QED
    BY <1>1, <2>5 DEF DeadOnlyAfterBound
<1>4. ASSUME NEW c \in Consumers, DeadLetter(c) \/ DeadLetterFails(c)
      PROVE  DeadOnlyAfterBound'
  <2>1. MaxDeliveries <= runs[GroupOf[c]][current[c]] /\ UNCHANGED runs
    BY <1>4 DEF RunsCovered, DeadLetter, DeadLetterFails
  <2>2. \A g \in Groups : dead'[g] \cup lost'[g] \subseteq dead[g] \cup lost[g]
          \/ (g = GroupOf[c] /\ dead'[g] \cup lost'[g] = (dead[g] \cup lost[g]) \cup {current[c]})
    BY <1>1, <1>4 DEF DeadLetter, DeadLetterFails
  <2>3. ASSUME NEW g \in Groups, NEW n \in dead'[g] \cup lost'[g]
        PROVE  runs'[g][n] >= MaxDeliveries
    <3>1. CASE n \in dead[g] \cup lost[g]
      BY <2>1, <3>1 DEF DeadOnlyAfterBound
    <3>2. CASE n \notin dead[g] \cup lost[g]
      <4>1. g = GroupOf[c] /\ n = current[c]
        BY <2>2, <3>2
      <4>2. current[c] \in Msgs
        BY <1>4, CurrentIsEntry DEF DeadLetter, DeadLetterFails
      <4> QED
        BY <1>1, <2>1, <4>1, <4>2
    <3> QED
      BY <3>1, <3>2
  <2> QED
    BY <2>3 DEF DeadOnlyAfterBound
<1>5. ASSUME NEW c \in Consumers,
             \/ Start(c) \/ Read(c) \/ EndOfRead(c) \/ EndOfClaim(c) \/ Claim(c)
             \/ HandlerResolves(c) \/ HandlerThrows(c) \/ Ack(c) \/ CountFailure(c)
             \/ DeadAck(c) \/ Clear(c) \/ Crash(c) \/ ReadReplyLost(c) \/ ClaimFails(c)
             \/ AckFails(c) \/ CountFails(c) \/ DeadAckFails(c) \/ ClearFails(c) \/ SweepDue(c)
      PROVE  UNCHANGED <<dead, lost, runs>>
  BY <1>5 DEF Start, Read, EndOfRead, EndOfClaim, Claim, HandlerResolves, HandlerThrows, Ack,
     CountFailure, DeadAck, Clear, Crash, ReadReplyLost, ClaimFails, AckFails, CountFails,
     DeadAckFails, ClearFails, SweepDue, historyVars
<1>6. ASSUME \/ Publish \/ UNCHANGED vars
             \/ \E g \in Groups, m \in Msgs : Age(g, m)
      PROVE  UNCHANGED <<dead, lost, runs>>
  BY <1>6 DEF Publish, Age, vars, historyVars
<1> QED
  BY <1>2, <1>3, <1>4, <1>5, <1>6 DEF Next, Step, Failure

\* "Max delivery attempts before a message is routed to the dead-letter stream"
\* (index.ts:69), from below: on a stream with one group, whatever fails and
\* however its processes interleave, the group gives up on an entry only after
\* maxDeliveries runs of it.
THEOREM GivenUpAfterBound ==
    ASSUME OneGroup
    PROVE  Spec => []DeadOnlyAfterBound
<1>1. Init => RunsCovered /\ DeadOnlyAfterBound
  <2> SUFFICES ASSUME Init
               PROVE  RunsCovered /\ DeadOnlyAfterBound
    OBVIOUS
  <2>1. \A m \in Msgs : InFlight(m) = {}
    BY DEF Init, InFlight
  <2>2. \A m \in Msgs : IsFiniteSet(InFlight(m)) /\ Cardinality(InFlight(m)) = 0
    BY <2>1, FS_EmptySet
  <2>3. \A g \in Groups, m \in Msgs : deliveries[m] = 0 /\ runs[g][m] = 0
    BY DEF Init
  <2>4. \A c \in Consumers : pc[c] # "deadLetter"
    BY DEF Init
  <2> QED
    BY <2>2, <2>3, <2>4 DEF Init, RunsCovered, DeadOnlyAfterBound
<1>2. TypeOK /\ TypeOK' /\ RunsCovered /\ DeadOnlyAfterBound /\ [Next]_vars
        => RunsCovered' /\ DeadOnlyAfterBound'
  BY CoveredInductive, GivenUpInductive
<1> QED
  BY <1>1, <1>2, TypeCorrect, PTL DEF Spec

-----------------------------------------------------------------------------
(* One process in a group: what it has in hand is pending *)

\* A step of process c is a step of its group: the others see nothing of it.
LEMMA StepsAreLocal ==
    ASSUME TypeOK, NEW c \in Consumers, Step(c) \/ Failure(c) \/ SweepDue(c)
    PROVE  /\ \A d \in Consumers \ {c} :
                 pc'[d] = pc[d] /\ batch'[d] = batch[d] /\ current'[d] = current[d]
           /\ \A g \in Groups \ {GroupOf[c]} :
                 /\ base'[g] = base[g] /\ cursor'[g] = cursor[g]
                 /\ pel'[g] = pel[g] /\ runs'[g] = runs[g]
<1>1. /\ GroupOf \in [Consumers -> Groups] /\ pc \in [Consumers -> Labels]
      /\ batch \in [Consumers -> SUBSET Msgs] /\ current \in [Consumers -> Msgs \cup {None}]
      /\ base \in [Groups -> 0..MaxMsgs] /\ cursor \in [Groups -> 0..MaxMsgs]
      /\ pel \in [Groups -> SUBSET Msgs] /\ runs \in [Groups -> [Msgs -> Nat]]
  BY ConstantsAssumption DEF TypeOK
<1> DEFINE Local == /\ \A d \in Consumers \ {c} :
                          pc'[d] = pc[d] /\ batch'[d] = batch[d] /\ current'[d] = current[d]
                    /\ \A g \in Groups \ {GroupOf[c]} :
                          /\ base'[g] = base[g] /\ cursor'[g] = cursor[g]
                          /\ pel'[g] = pel[g] /\ runs'[g] = runs[g]
<1>2. CASE Start(c)
  BY <1>1, <1>2 DEF Start, EnsureGroup, Goto, historyVars
<1>3. CASE Read(c) \/ ReadReplyLost(c)
  BY <1>1, <1>3 DEF Read, ReadReplyLost, Goto, processVars, historyVars
<1>4. CASE Take(c)
  <2>1. PICK m \in batch[c] : /\ current' = [current EXCEPT ![c] = m]
                              /\ batch' = [batch EXCEPT ![c] = @ \ {m}]
                              /\ runs' = [runs EXCEPT ![GroupOf[c]][m] = @ + 1]
    BY <1>4 DEF Take
  <2> QED
    BY <1>1, <1>4, <2>1 DEF Take, Goto, redisVars
<1>5. CASE Claim(c)
  <2>1. PICK S : batch' = [batch EXCEPT ![c] = S]
    BY <1>5 DEF Claim
  <2> QED
    BY <1>1, <1>5, <2>1 DEF Claim, Goto, historyVars
<1>6. CASE EndOfRead(c) \/ EndOfClaim(c) \/ HandlerResolves(c) \/ HandlerThrows(c)
           \/ DeadLetter(c) \/ DeadLetterFails(c) \/ SweepDue(c) \/ Crash(c)
  BY <1>1, <1>6 DEF EndOfRead, EndOfClaim, HandlerResolves, HandlerThrows, DeadLetter,
     DeadLetterFails, SweepDue, Crash, Goto, redisVars, historyVars
<1>7. CASE Ack(c) \/ AckFails(c) \/ DeadAck(c) \/ DeadAckFails(c)
  <2>1. \A g \in Groups \ {GroupOf[c]} : pel'[g] = pel[g]
    BY <1>1, <1>7 DEF Ack, AckFails, DeadAck, DeadAckFails, Acked
  <2> QED
    BY <1>1, <1>7, <2>1 DEF Ack, AckFails, DeadAck, DeadAckFails, Done, Abandon, Goto, historyVars
<1>8. CASE CountFailure(c)
  BY <1>1, <1>8 DEF CountFailure, Done, Goto, historyVars
<1>9. CASE CountFails(c) \/ Clear(c) \/ ClearFails(c) \/ ClaimFails(c)
  BY <1>1, <1>9 DEF CountFails, Clear, ClearFails, ClaimFails, Done, Abandon, Goto, historyVars
<1> QED
  BY <1>2, <1>3, <1>4, <1>5, <1>6, <1>7, <1>8, <1>9 DEF Step, Failure

\* Process c has only pending entries in its batch, each once; an entry whose
\* counter it is about to clear is pending no more; and what its group was not
\* handed was not run.
InPlaceAt(c) ==
    /\ batch[c] \subseteq pel[GroupOf[c]]
    /\ current[c] \notin batch[c]
    /\ pc[c] = "clear" => current[c] \notin pel[GroupOf[c]]
    /\ \A m \in Msgs : m > cursor[GroupOf[c]] => runs[GroupOf[c]][m] = 0

InPlace == \A c \in Consumers : InPlaceAt(c)

\* Reads: what comes new was not run.
LEMMA ReadInPlace ==
    ASSUME Inv, Inv', NEW c \in Consumers, InPlaceAt(c),
           Start(c) \/ Read(c) \/ ReadReplyLost(c)
    PROVE  InPlaceAt(c)'
<1> DEFINE g == GroupOf[c]
<1>1. /\ GroupOf \in [Consumers -> Groups] /\ g \in Groups /\ g \in Groups
      /\ batch \in [Consumers -> SUBSET Msgs] /\ current \in [Consumers -> Msgs \cup {None}]
      /\ cursor \in [Groups -> 0..MaxMsgs] /\ cursor' \in [Groups -> 0..MaxMsgs]
      /\ pel \in [Groups -> SUBSET Msgs] /\ pc \in [Consumers -> Labels]
      /\ published \in 0..MaxMsgs /\ MaxMsgs \in Nat /\ Count \in Nat
  BY ConstantsAssumption DEF Inv, TypeOK
<1>2. cursor[g] <= cursor'[g]
  <2>1. CASE Start(c)
    <3>1. CASE g \in created
      BY <1>1, <2>1, <3>1 DEF Start, EnsureGroup
    <3>2. CASE g \notin created
      <4>1. cursor[g] = 0
        BY <1>1, <3>2 DEF Inv, Bounds
      <4> QED
        BY <1>1, <4>1
    <3> QED
      BY <3>1, <3>2
  <2>2. CASE Read(c) \/ ReadReplyLost(c)
    <3>1. cursor'[g] = LastNew(g)
      BY <1>1, <2>2 DEF Read, ReadReplyLost
    <3>2. cursor[g] <= LastNew(g)
      BY <1>1, ConstantsAssumption DEF Inv, Bounds, LastNew
    <3> QED
      BY <3>1, <3>2
  <2> QED
    BY <2>1, <2>2
<1>3. runs' = runs
  BY DEF Start, Read, ReadReplyLost, historyVars
<1>4. ASSUME NEW m \in Msgs, m > cursor'[g]
      PROVE  runs'[g][m] = 0
  <2>1. m > cursor[g]
    <3>1. \A x, y, z \in Int : x <= y /\ z > y => z > x
      OBVIOUS
    <3>2. cursor[g] \in Int /\ cursor'[g] \in Int /\ m \in Int
      BY <1>1 DEF Msgs
    <3> QED
      BY <1>2, <1>4, <3>1, <3>2
  <2> QED
    BY <1>3, <2>1 DEF InPlaceAt
<1>5. /\ pel[g] \subseteq pel'[g] /\ current'[c] = current[c] /\ current[c] = None
      /\ batch'[c] = batch[c] \/ batch'[c] \subseteq pel'[g]
      /\ pc'[c] # "clear"
  <2>1. CASE Start(c)
    BY <1>1, <2>1 DEF Start, Goto, Inv, TypeOK
  <2>2. CASE Read(c)
    BY <1>1, <2>2 DEF Read, Goto, Inv, TypeOK
  <2>3. CASE ReadReplyLost(c)
    BY <1>1, <2>3 DEF ReadReplyLost, Inv, TypeOK, processVars
  <2> QED
    BY <2>1, <2>2, <2>3
<1>6. batch'[c] \subseteq Msgs /\ None \notin Msgs
  BY DEF Inv, TypeOK, Msgs, None
<1> QED
  BY <1>4, <1>5, <1>6 DEF InPlaceAt

LEMMA InPlaceStep ==
    ASSUME Inv, Inv', NEW c \in Consumers, InPlaceAt(c), Step(c) \/ Failure(c) \/ SweepDue(c)
    PROVE  InPlaceAt(c)'
<1> DEFINE g == GroupOf[c]
<1>0. TypeOK /\ None \notin Msgs /\ MaxMsgs \in Nat /\ GroupOf \in [Consumers -> Groups]
  BY ConstantsAssumption DEF Inv, Msgs, None
<1>1. /\ GroupOf \in [Consumers -> Groups] /\ g \in Groups
      /\ batch \in [Consumers -> SUBSET Msgs] /\ current \in [Consumers -> Msgs \cup {None}]
      /\ cursor \in [Groups -> 0..MaxMsgs] /\ MaxMsgs \in Nat
      /\ pel \in [Groups -> SUBSET Msgs] /\ pc \in [Consumers -> Labels]
      /\ idle \in [Groups -> SUBSET Msgs] /\ idle[g] \subseteq pel[g]
      /\ runs \in [Groups -> [Msgs -> Nat]] /\ None \notin Msgs
      /\ pc[c] \in {"down", "read", "next", "claim"} => current[c] = None
  BY <1>0 DEF TypeOK
<1>2. CASE Take(c)
  <2>1. PICK m \in batch[c] : /\ current' = [current EXCEPT ![c] = m]
                              /\ batch' = [batch EXCEPT ![c] = @ \ {m}]
                              /\ runs' = [runs EXCEPT ![g][m] = @ + 1]
    BY <1>2 DEF Take
  <2>2. m \in Msgs /\ m <= cursor[g] /\ UNCHANGED <<pel, cursor>> /\ pc'[c] = "handle"
    BY <1>1, <1>2, <2>1 DEF Take, Goto, redisVars, Inv, Holdings
  <2>3. \A n \in Msgs \ {m} : runs'[g][n] = runs[g][n]
    BY <1>1, <2>1, <2>2
  <2>4. ~(m > cursor[g])
    BY <1>1, <2>2 DEF Msgs
  <2>5. \A n \in Msgs : n > cursor'[g] => runs'[g][n] = 0
    BY <2>2, <2>3, <2>4 DEF InPlaceAt
  <2>6. current'[c] = m /\ batch'[c] = batch[c] \ {m}
    BY <1>1, <2>1
  <2> QED
    BY <2>2, <2>5, <2>6 DEF InPlaceAt
<1>3. CASE Claim(c)
  <2>1. PICK S \in SUBSET idle[g] : batch' = [batch EXCEPT ![c] = S]
    BY <1>3 DEF Claim
  <2>2. UNCHANGED <<cursor, pel, current, runs>> /\ pc'[c] = "next" /\ current[c] = None
    BY <1>1, <1>3 DEF Claim, Goto, historyVars
  <2> QED
    BY <1>1, <2>1, <2>2 DEF InPlaceAt
<1>4. CASE Ack(c) \/ DeadAck(c) \/ AckFails(c)
  <2>1. /\ pel' = Acked(pel, c) \/ (pel' = pel /\ pc'[c] = "count")
        /\ UNCHANGED <<cursor, runs, batch>>
        /\ current'[c] \in {current[c], None}
        /\ pc'[c] = "clear" => current'[c] = current[c]
    BY <1>1, <1>4 DEF Ack, DeadAck, AckFails, Done, Goto, historyVars
  <2>2. pel'[g] = pel[g] \ {current[c]} \/ (pel'[g] = pel[g] /\ pc'[c] = "count")
    BY <1>1, <2>1 DEF Acked
  <2> QED
    BY <1>1, <2>1, <2>2 DEF InPlaceAt
<1>5. CASE Crash(c) \/ ClaimFails(c) \/ CountFails(c) \/ DeadAckFails(c) \/ ClearFails(c)
  <2>1. /\ batch'[c] = {} /\ pc'[c] # "clear" /\ UNCHANGED <<cursor, runs>>
    BY <1>1, <1>5 DEF Crash, ClaimFails, CountFails, DeadAckFails, ClearFails, Abandon, Goto,
       redisVars, historyVars
  <2> QED
    BY <2>1 DEF InPlaceAt
<1>6. CASE \/ EndOfRead(c) \/ EndOfClaim(c) \/ HandlerResolves(c) \/ HandlerThrows(c)
           \/ CountFailure(c) \/ DeadLetter(c) \/ DeadLetterFails(c) \/ Clear(c) \/ SweepDue(c)
  <2>1. /\ UNCHANGED <<cursor, runs, batch, pel>>
        /\ current'[c] \in {current[c], None}
        /\ pc'[c] = "clear" => pc[c] = "clear" /\ current'[c] = current[c]
    BY <1>1, <1>6 DEF EndOfRead, EndOfClaim, HandlerResolves, HandlerThrows, CountFailure,
       DeadLetter, DeadLetterFails, Clear, SweepDue, Done, Goto, redisVars, historyVars
  <2> QED
    BY <1>1, <2>1 DEF InPlaceAt
<1> QED
  BY <1>2, <1>3, <1>4, <1>5, <1>6, ReadInPlace DEF Step, Failure

LEMMA InPlaceInductive ==
    ASSUME OnePerGroup, Inv, Inv', InPlace, [Next]_vars
    PROVE  InPlace'
<1>1. ASSUME NEW c \in Consumers, Step(c) \/ Failure(c) \/ SweepDue(c), NEW d \in Consumers
      PROVE  InPlaceAt(d)'
  <2>1. CASE d = c
    BY <1>1, <2>1, InPlaceStep DEF InPlace
  <2>2. CASE d # c
    <3>1. GroupOf[d] \in Groups \ {GroupOf[c]}
      BY <2>2, ConstantsAssumption DEF OnePerGroup
    <3> QED
      BY <1>1, <2>2, <3>1, StepsAreLocal DEF Inv, InPlace, InPlaceAt
  <2> QED
    BY <2>1, <2>2
<1>2. ASSUME \/ Publish \/ UNCHANGED vars
             \/ \E g \in Groups, m \in Msgs : Age(g, m)
      PROVE  InPlace'
  <2>1. UNCHANGED <<pc, batch, current, pel, cursor, runs>>
    BY <1>2 DEF Publish, Age, vars, redisVars, processVars, historyVars
  <2> QED
    BY <2>1 DEF InPlace, InPlaceAt
<1> QED
  BY <1>1, <1>2 DEF Next, InPlace

LEMMA InPlaceHolds ==
    ASSUME OnePerGroup
    PROVE  Spec => []InPlace
<1>1. Init => InPlace
  <2>1. None \notin Msgs
    BY DEF None, Msgs
  <2> QED
    BY <2>1, ConstantsAssumption DEF Init, InPlace, InPlaceAt
<1>2. Inv /\ Inv' /\ InPlace /\ [Next]_vars => InPlace'
  BY InPlaceInductive
<1> QED
  BY <1>1, <1>2, InvariantHolds, PTL DEF Spec

\* The handlers of a group with one process only ever start on entries that are
\* still pending: an entry that was acknowledged is never handled again,
\* whatever fails around handleMessage.
THEOREM RunsOnlyPending ==
    ASSUME OnePerGroup
    PROVE  Spec => NoRunAfterSettled
<1> DEFINE Pending == \A g \in Groups, m \in Msgs : runs'[g][m] > runs[g][m] => m \in pel[g]
<1>1. ASSUME Inv, InPlace, Next
      PROVE  Pending
  <2>1. runs \in [Groups -> [Msgs -> Nat]] /\ GroupOf \in [Consumers -> Groups]
    BY <1>1, ConstantsAssumption DEF Inv, TypeOK
  <2>2. ASSUME NEW c \in Consumers, Take(c)
        PROVE  Pending
    <3>1. PICK n \in batch[c] : runs' = [runs EXCEPT ![GroupOf[c]][n] = @ + 1]
      BY <2>2 DEF Take
    <3>2. n \in pel[GroupOf[c]]
      BY <1>1, <3>1 DEF InPlace, InPlaceAt
    <3>3. \A g \in Groups, m \in Msgs :
              ~(g = GroupOf[c] /\ m = n) => runs'[g][m] = runs[g][m]
      BY <2>1, <3>1
    <3>4. \A x \in Nat : ~(x > x)
      OBVIOUS
    <3> QED
      BY <2>1, <3>2, <3>3, <3>4
  <2>3. ASSUME UNCHANGED runs
        PROVE  Pending
    <3>1. \A x \in Nat : ~(x > x)
      OBVIOUS
    <3> QED
      BY <2>1, <2>3, <3>1
  <2>4. ASSUME NEW c \in Consumers, Step(c) \/ Failure(c) \/ SweepDue(c), ~Take(c)
        PROVE  UNCHANGED runs
    BY <2>4 DEF Step, Failure, Start, Read, EndOfRead, EndOfClaim, Claim, HandlerResolves,
       HandlerThrows, Ack, CountFailure, DeadLetter, DeadAck, Clear, Crash, ReadReplyLost,
       ClaimFails, AckFails, CountFails, DeadLetterFails, DeadAckFails, ClearFails, SweepDue,
       historyVars
  <2>5. ASSUME Publish \/ \E g \in Groups, m \in Msgs : Age(g, m)
        PROVE  UNCHANGED runs
    BY <2>5 DEF Publish, Age, historyVars
  <2> QED
    BY <1>1, <2>2, <2>3, <2>4, <2>5 DEF Next
<1>2. Inv /\ InPlace /\ [Next]_vars => [Pending]_vars
  BY <1>1
<1> QED
  BY <1>2, InvariantHolds, InPlaceHolds, PTL DEF Spec, NoRunAfterSettled

-----------------------------------------------------------------------------
(* One process in a group, nothing failing: the reader never overtakes itself *)

\* Groups that no process reads for are never created, and run nothing.
Unread ==
    \A g \in Groups : (\A c \in Consumers : GroupOf[c] # g) =>
        g \notin created /\ \A m \in Msgs : runs[g][m] = 0

LEMMA UnreadInductive ==
    ASSUME TypeOK, Unread, [Next]_vars
    PROVE  Unread'
<1> SUFFICES ASSUME NEW g \in Groups, \A c \in Consumers : GroupOf[c] # g
             PROVE  g \notin created' /\ \A m \in Msgs : runs'[g][m] = 0
  BY DEF Unread
<1>1. g \notin created /\ \A m \in Msgs : runs[g][m] = 0
  BY DEF Unread
<1>2. ASSUME NEW c \in Consumers, Step(c) \/ Failure(c) \/ SweepDue(c)
      PROVE  g \notin created' /\ runs'[g] = runs[g]
  <2>1. runs'[g] = runs[g]
    BY <1>2, StepsAreLocal
  <2>2. CASE Start(c)
    BY <1>1, <2>1, <2>2 DEF Start, EnsureGroup
  <2>3. CASE ~Start(c)
    <3>1. created' = created
      BY <1>2, <2>3 DEF Step, Failure, Read, Take, EndOfRead, EndOfClaim, Claim, HandlerResolves,
         HandlerThrows, Ack, CountFailure, DeadLetter, DeadAck, Clear, Crash, ReadReplyLost,
         ClaimFails, AckFails, CountFails, DeadLetterFails, DeadAckFails, ClearFails, SweepDue,
         redisVars
    <3> QED
      BY <1>1, <2>1, <3>1
  <2> QED
    BY <2>2, <2>3
<1>3. ASSUME \/ Publish \/ UNCHANGED vars
             \/ \E h \in Groups, m \in Msgs : Age(h, m)
      PROVE  created' = created /\ runs' = runs
  BY <1>3 DEF Publish, Age, vars, redisVars, historyVars
<1> QED
  BY <1>1, <1>2, <1>3 DEF Next

\* The entries of c's group from its starting point.
Seen(g) == (base[g] + 1)..cursor[g]

\* While nothing has failed, an entry the group was handed was run or is in the
\* process's batch; between two batches everything was run; and what was run has
\* no gap before it.
InOrderAt(c) ==
    LET g == GroupOf[c] IN
    faults = 0 =>
        /\ pc[c] \in {"down", "read", "claim"} => batch[c] = {}
        /\ \A n \in Seen(g) : runs[g][n] = 0 => n \in batch[c]
        /\ \A m \in Seen(g) : runs[g][m] > 0 => \A n \in (base[g] + 1)..m : runs[g][n] > 0

InOrder == \A c \in Consumers : InOrderAt(c)

\* A start or a read extends what the group has seen by entries nobody ran.
LEMMA ReadInOrder ==
    ASSUME Inv, NEW c \in Consumers, InPlaceAt(c), InOrderAt(c), Start(c) \/ Read(c)
    PROVE  InOrderAt(c)'
<1> DEFINE g == GroupOf[c]
<1>1. /\ g \in Groups /\ GroupOf \in [Consumers -> Groups]
      /\ base \in [Groups -> 0..MaxMsgs] /\ cursor \in [Groups -> 0..MaxMsgs]
      /\ batch \in [Consumers -> SUBSET Msgs] /\ pc \in [Consumers -> Labels]
      /\ runs \in [Groups -> [Msgs -> Nat]]
      /\ published \in 0..MaxMsgs /\ MaxMsgs \in Nat /\ Count \in Nat
      /\ base[g] \in Nat /\ cursor[g] \in Nat
  BY ConstantsAssumption DEF Inv, TypeOK
<1> SUFFICES ASSUME faults' = 0
             PROVE  /\ pc'[c] \in {"down", "read", "claim"} => batch'[c] = {}
                    /\ \A n \in Seen(g)' : runs'[g][n] = 0 => n \in batch'[c]
                    /\ \A m \in Seen(g)' : runs'[g][m] > 0 =>
                          \A n \in (base'[g] + 1)..m : runs'[g][n] > 0
  BY DEF InOrderAt
<1>2. faults = 0 /\ runs' = runs /\ pc[c] \in {"down", "read"}
  BY DEF Start, Read, historyVars
<1>3. /\ batch[c] = {}
      /\ \A n \in Seen(g) : runs[g][n] # 0
      /\ \A m \in Seen(g) : runs[g][m] > 0 => \A n \in (base[g] + 1)..m : runs[g][n] > 0
  BY <1>2 DEF InOrderAt
<1>4. CASE Start(c)
  <2>1. batch'[c] = {} /\ pc'[c] = "read"
    BY <1>1, <1>3, <1>4 DEF Start, Goto
  <2>2. CASE g \in created
    <3>1. base' = base /\ cursor' = cursor
      BY <1>4, <2>2 DEF Start, EnsureGroup
    <3> QED
      BY <1>2, <1>3, <2>1, <3>1 DEF Seen
  <2>3. CASE g \notin created
    <3>1. PICK s \in 0..MaxMsgs : base'[g] = s /\ cursor'[g] = s
      <4>1. PICK s \in {0, published} : /\ base' = [base EXCEPT ![g] = s]
                                        /\ cursor' = [cursor EXCEPT ![g] = s]
        BY <1>4, <2>3 DEF Start, EnsureGroup
      <4> QED
        BY <1>1, <4>1
    <3>2. Seen(g)' = {}
      BY <1>1, <3>1 DEF Seen
    <3> QED
      BY <2>1, <3>2
  <2> QED
    BY <2>2, <2>3
<1>5. CASE Read(c)
  <2>1. /\ base' = base /\ cursor'[g] = LastNew(g) /\ batch'[c] = NewEntries(g)
        /\ pc'[c] = "next"
    BY <1>1, <1>5 DEF Read, Goto
  <2>2. LastNew(g) \in 0..MaxMsgs /\ LastNew(g) \in Nat
    BY <1>1, NewEntriesType DEF Inv
  <2>3. \A n \in Seen(g)' : n \in Seen(g) \/ (n \in NewEntries(g) /\ n > cursor[g] /\ n \in Msgs)
    <3>1. SUFFICES ASSUME NEW n \in (base[g] + 1)..LastNew(g), ~(n > cursor[g])
                   PROVE  n \in (base[g] + 1)..cursor[g]
      BY <1>1, <2>1, <2>2 DEF Seen, NewEntries, Msgs
    <3> QED
      BY <1>1, <2>2, <3>1
  <2>4. \A n \in Msgs : n > cursor[g] => runs[g][n] = 0
    BY DEF InPlaceAt
  <2>5. \A m \in Seen(g)' : runs'[g][m] > 0 => \A n \in (base'[g] + 1)..m : runs'[g][n] > 0
    BY <1>2, <1>3, <2>1, <2>3, <2>4
  <2> QED
    BY <1>2, <1>3, <2>1, <2>3, <2>5
<1> QED
  BY <1>4, <1>5

\* Take runs the first entry of the batch: everything before it was run.
LEMMA TakeInOrder ==
    ASSUME Inv, NEW c \in Consumers, InOrderAt(c), Take(c)
    PROVE  InOrderAt(c)'
<1> DEFINE g == GroupOf[c]
<1>1. /\ g \in Groups /\ GroupOf \in [Consumers -> Groups]
      /\ base \in [Groups -> 0..MaxMsgs] /\ cursor \in [Groups -> 0..MaxMsgs]
      /\ batch \in [Consumers -> SUBSET Msgs] /\ pc \in [Consumers -> Labels]
      /\ runs \in [Groups -> [Msgs -> Nat]] /\ MaxMsgs \in Nat
      /\ base[g] \in Nat /\ cursor[g] \in Nat /\ cursor[g] <= MaxMsgs
  BY ConstantsAssumption DEF Inv, TypeOK
<1>2. PICK m \in batch[c] : /\ \A n \in batch[c] : m <= n
                            /\ batch' = [batch EXCEPT ![c] = @ \ {m}]
                            /\ runs' = [runs EXCEPT ![g][m] = @ + 1]
  BY DEF Take
<1>3. /\ pc'[c] = "handle" /\ base' = base /\ cursor' = cursor /\ faults' = faults
      /\ m \in Msgs /\ m \in Nat /\ m <= cursor[g] /\ batch'[c] = batch[c] \ {m}
  BY <1>1, <1>2 DEF Take, Goto, redisVars, Inv, Holdings, Msgs
<1>4. runs'[g][m] > 0 /\ \A n \in Msgs \ {m} : runs'[g][n] = runs[g][n]
  BY <1>1, <1>2, <1>3
<1> SUFFICES ASSUME faults = 0
             PROVE  /\ \A n \in Seen(g) : runs'[g][n] = 0 => n \in batch[c] \ {m}
                    /\ \A k \in Seen(g) : runs'[g][k] > 0 =>
                          \A n \in (base[g] + 1)..k : runs'[g][n] > 0
  BY <1>3 DEF InOrderAt, Seen
<1>5. Seen(g) \subseteq Msgs /\ Seen(g) \subseteq Nat
  BY <1>1 DEF Seen, Msgs
<1>6. ASSUME NEW n \in Seen(g), runs'[g][n] = 0
      PROVE  n \in batch[c] \ {m}
  <2>1. n # m
    BY <1>4, <1>6
  <2> QED
    BY <1>4, <1>5, <1>6, <2>1 DEF InOrderAt
<1>7. ASSUME NEW k \in Seen(g), runs'[g][k] > 0, NEW n \in (base[g] + 1)..k
      PROVE  runs'[g][n] > 0
  <2>1. n \in Seen(g) /\ n \in Msgs /\ n <= k /\ k \in Nat /\ n \in Nat
    BY <1>1, <1>5, <1>7 DEF Seen
  <2>2. runs[g][n] \in Nat
    BY <1>1, <2>1
  <2>3. CASE k = m
    <3>1. CASE n = m
      BY <1>4, <3>1
    <3>2. CASE n # m
      <4>1. ~(m <= n)
        BY <1>3, <2>1, <2>3, <3>2
      <4>2. runs[g][n] # 0
        BY <1>2, <2>1, <4>1 DEF InOrderAt
      <4> QED
        BY <1>4, <2>1, <2>2, <3>2, <4>2
    <3> QED
      BY <3>1, <3>2
  <2>4. CASE k # m
    <3>1. runs[g][k] > 0
      BY <1>4, <1>5, <1>7, <2>4
    <3>2. runs[g][n] > 0
      BY <1>7, <3>1 DEF InOrderAt
    <3> QED
      BY <1>4, <2>1, <3>2
  <2> QED
    BY <2>3, <2>4
<1> QED
  BY <1>6, <1>7

LEMMA InOrderStep ==
    ASSUME Inv, NEW c \in Consumers, InPlaceAt(c), InOrderAt(c),
           Step(c) \/ Failure(c) \/ SweepDue(c)
    PROVE  InOrderAt(c)'
<1> DEFINE g == GroupOf[c]
<1>1. /\ batch \in [Consumers -> SUBSET Msgs] /\ pc \in [Consumers -> Labels] /\ faults \in Nat
  BY DEF Inv, TypeOK
<1>2. CASE Failure(c)
  <2>1. faults' = faults + 1
    BY <1>2 DEF Failure, Crash, ReadReplyLost, ClaimFails, AckFails, CountFails,
       DeadLetterFails, DeadAckFails, ClearFails, Fault
  <2> QED
    BY <1>1, <2>1 DEF InOrderAt
<1>3. CASE Claim(c)
  <2>1. /\ UNCHANGED <<base, cursor, runs, faults>> /\ pc[c] = "claim" /\ pc'[c] = "next"
    BY <1>1, <1>3 DEF Claim, Goto, historyVars
  <2>2. faults = 0 => \A n \in Seen(g) : runs[g][n] # 0
    BY <2>1 DEF InOrderAt
  <2> QED
    BY <2>1, <2>2 DEF InOrderAt, Seen
<1>4. CASE \/ EndOfRead(c) \/ EndOfClaim(c) \/ HandlerResolves(c) \/ HandlerThrows(c) \/ Ack(c)
           \/ CountFailure(c) \/ DeadLetter(c) \/ DeadAck(c) \/ Clear(c) \/ SweepDue(c)
  <2>1. /\ UNCHANGED <<base, cursor, runs, faults, batch>>
        /\ pc'[c] \in {"down", "read", "claim"} => batch[c] = {} \/ pc'[c] = pc[c]
    BY <1>1, <1>4 DEF EndOfRead, EndOfClaim, HandlerResolves, HandlerThrows, Ack, CountFailure,
       DeadLetter, DeadAck, Clear, SweepDue, Done, Goto, redisVars, historyVars
  <2> QED
    BY <2>1 DEF InOrderAt, Seen
<1> QED
  BY <1>2, <1>3, <1>4, ReadInOrder, TakeInOrder DEF Step

LEMMA InOrderInductive ==
    ASSUME OnePerGroup, Inv, InPlace, InOrder, [Next]_vars
    PROVE  InOrder'
<1>1. ASSUME NEW c \in Consumers, Step(c) \/ Failure(c) \/ SweepDue(c), NEW d \in Consumers
      PROVE  InOrderAt(d)'
  <2>1. CASE d = c
    BY <1>1, <2>1, InOrderStep DEF InOrder, InPlace
  <2>2. CASE d # c
    <3>1. GroupOf[d] \in Groups \ {GroupOf[c]}
      BY <2>2, ConstantsAssumption DEF OnePerGroup
    <3>2. faults' = faults \/ faults' = faults + 1
      BY <1>1 DEF Step, Failure, Start, Read, Take, EndOfRead, EndOfClaim, Claim, HandlerResolves,
         HandlerThrows, Ack, CountFailure, DeadLetter, DeadAck, Clear, Crash, ReadReplyLost,
         ClaimFails, AckFails, CountFails, DeadLetterFails, DeadAckFails, ClearFails, SweepDue,
         Fault
    <3>3. faults' = 0 => faults = 0
      BY <3>2 DEF Inv, TypeOK
    <3>4. InOrderAt(d)
      BY DEF InOrder
    <3> QED
      BY <1>1, <2>2, <3>1, <3>3, <3>4, StepsAreLocal DEF Inv, InOrderAt, Seen
  <2> QED
    BY <2>1, <2>2
<1>2. ASSUME \/ Publish \/ UNCHANGED vars
             \/ \E g \in Groups, m \in Msgs : Age(g, m)
      PROVE  InOrder'
  <2>1. UNCHANGED <<pc, batch, base, cursor, runs, faults>>
    BY <1>2 DEF Publish, Age, vars, redisVars, processVars, historyVars
  <2> QED
    BY <2>1 DEF InOrder, InOrderAt, Seen
<1> QED
  BY <1>1, <1>2 DEF Next, InOrder

\* readGroupLoop awaits each handler in turn: with one process in each group, as long
\* as nothing fails around the handlers, the first runs come in the order of the
\* stream, whatever the handlers throw and however sweeps and reads alternate.
THEOREM ReadsInOrder ==
    ASSUME OnePerGroup
    PROVE  Spec => []FirstRunsInOrder
<1>1. Init => InOrder /\ Unread
  <2>1. \A g \in Groups : Init => Seen(g) = {}
    BY DEF Init, Seen
  <2> QED
    BY <2>1, ConstantsAssumption DEF Init, InOrder, InOrderAt, Unread
<1>2. Inv /\ InPlace /\ InOrder /\ Unread /\ [Next]_vars => InOrder' /\ Unread'
  BY InOrderInductive, UnreadInductive DEF Inv
<1>3. Inv /\ InOrder /\ Unread => FirstRunsInOrder
  <2> SUFFICES ASSUME Inv, InOrder, Unread, faults = 0, NEW g \in Groups,
                      NEW m \in (base[g] + 1)..cursor[g], runs[g][m] > 0
               PROVE  \A n \in (base[g] + 1)..m : runs[g][n] > 0
    BY DEF FirstRunsInOrder
  <2>1. CASE \E c \in Consumers : GroupOf[c] = g
    BY <2>1 DEF InOrder, InOrderAt, Seen
  <2>2. CASE \A c \in Consumers : GroupOf[c] # g
    <3>1. cursor[g] = 0 /\ base[g] \in Nat
      BY <2>2 DEF Unread, Inv, Bounds, TypeOK
    <3> QED
      BY <3>1
  <2> QED
    BY <2>1, <2>2
<1> QED
  BY <1>1, <1>2, <1>3, InvariantHolds, InPlaceHolds, PTL DEF Spec

-----------------------------------------------------------------------------
(* One process: the runs of an entry are paid for by its counter and by faults *)

\* More counts and more faults keep a budget; one more fault pays for one run.
LEMMA BudgetGrows ==
    \A r, d, e, f, h, D \in Nat :
        d <= e /\ f <= h =>
            /\ r <= D + f => r <= D + h
            /\ r < D + f => r < D + h
            /\ r <= d + f => r <= e + h
            /\ r <= d + f + 1 => r <= e + h + 1
OBVIOUS

LEMMA FaultPays ==
    \A r, d, e, f, D \in Nat :
        d <= e =>
            /\ r <= D + f => r < D + (f + 1)
            /\ r <= d + f + 1 => r <= e + (f + 1)
OBVIOUS

LEMMA CountPays ==
    \A r, d, f, D \in Nat :
        r <= d + f + 1 => /\ r <= (d + 1) + f
                          /\ d + 1 < D => r < D + f
OBVIOUS

\* A run was counted or a failure kept it from being counted, except the one
\* under way; at rest, a pending entry has a run left.
BudgetAt(c, m) ==
    LET r == runs[GroupOf[c]][m] IN
    /\ r <= MaxDeliveries + faults
    /\ m \in pel[GroupOf[c]] /\ m # current[c] =>
          r <= deliveries[m] + faults /\ r < MaxDeliveries + faults
    /\ m = current[c] /\ pc[c] \in {"handle", "ack", "count"} =>
          r <= deliveries[m] + faults + 1
    /\ m = current[c] /\ pc[c] \in {"deadLetter", "deadAck"} =>
          r <= deliveries[m] + faults

Budget == \A c \in Consumers, m \in Msgs : BudgetAt(c, m)

\* What the budgets are made of.
LEMMA BudgetTypes ==
    ASSUME TypeOK, NEW c \in Consumers, NEW m \in Msgs
    PROVE  /\ runs[GroupOf[c]][m] \in Nat /\ deliveries[m] \in Nat /\ faults \in Nat
           /\ MaxDeliveries \in Nat /\ GroupOf[c] \in Groups /\ None \notin Msgs
<1>1. None \notin Msgs
  BY DEF None, Msgs
<1> QED
  BY <1>1, ConstantsAssumption DEF TypeOK

\* A step that keeps the entry where it is, at rest, in hand or settled.
LEMMA BudgetKept ==
    ASSUME TypeOK, TypeOK', NEW c \in Consumers, NEW m \in Msgs, BudgetAt(c, m),
           runs'[GroupOf[c]][m] = runs[GroupOf[c]][m],
           deliveries'[m] >= deliveries[m], faults' >= faults,
           m \in pel'[GroupOf[c]] => m \in pel[GroupOf[c]],
           m # current'[c] => m # current[c] \/ m \notin pel'[GroupOf[c]],
           m = current'[c] => /\ m = current[c]
                              /\ pc'[c] \in {"handle", "ack", "count"} =>
                                    pc[c] \in {"handle", "ack", "count"}
                              /\ pc'[c] \in {"deadLetter", "deadAck"} =>
                                    pc[c] \in {"deadLetter", "deadAck"}
    PROVE  BudgetAt(c, m)'
<1> DEFINE r == runs[GroupOf[c]][m]
<1>1. /\ r \in Nat /\ deliveries[m] \in Nat /\ faults \in Nat /\ MaxDeliveries \in Nat
      /\ deliveries'[m] \in Nat /\ faults' \in Nat
  BY BudgetTypes DEF TypeOK
<1>2. deliveries[m] <= deliveries'[m] /\ faults <= faults'
  BY <1>1
<1>3. /\ r <= MaxDeliveries + faults => r <= MaxDeliveries + faults'
      /\ r < MaxDeliveries + faults => r < MaxDeliveries + faults'
      /\ r <= deliveries[m] + faults => r <= deliveries'[m] + faults'
      /\ r <= deliveries[m] + faults + 1 => r <= deliveries'[m] + faults' + 1
  BY <1>1, <1>2, BudgetGrows
<1> QED
  BY <1>3 DEF BudgetAt

\* A failure that drops what the process has in hand.
LEMMA BudgetDropped ==
    ASSUME TypeOK, TypeOK', NEW c \in Consumers, NEW m \in Msgs, InPlaceAt(c), BudgetAt(c, m),
           UNCHANGED runs, faults' = faults + 1, current'[c] = None,
           pel'[GroupOf[c]] \subseteq pel[GroupOf[c]],
           m \in pel[GroupOf[c]] => deliveries'[m] >= deliveries[m]
    PROVE  BudgetAt(c, m)'
<1> DEFINE r == runs[GroupOf[c]][m]
<1>1. /\ r \in Nat /\ deliveries[m] \in Nat /\ faults \in Nat /\ MaxDeliveries \in Nat
      /\ deliveries'[m] \in Nat /\ None \notin Msgs
  BY BudgetTypes DEF TypeOK
<1>2. r < MaxDeliveries + faults' /\ r <= MaxDeliveries + faults'
  <2>1. r <= MaxDeliveries + faults
    BY DEF BudgetAt
  <2>2. r < MaxDeliveries + (faults + 1)
    BY <1>1, <2>1, FaultPays
  <2> QED
    BY <1>1, <2>2
<1>3. ASSUME m \in pel'[GroupOf[c]]
      PROVE  r <= deliveries'[m] + faults'
  <2>1. m \in pel[GroupOf[c]] /\ deliveries[m] <= deliveries'[m]
    BY <1>1, <1>3
  <2>2. r <= deliveries[m] + faults + 1
    <3>1. r <= deliveries[m] + faults \/ r <= deliveries[m] + faults + 1
      <4>1. CASE m = current[c]
        <5>1. pc[c] \in {"handle", "ack", "count", "deadLetter", "deadAck"}
          BY <1>1, <2>1, <4>1 DEF TypeOK, Labels, InPlaceAt
        <5> QED
          BY <4>1, <5>1 DEF BudgetAt
      <4>2. CASE m # current[c]
        BY <2>1, <4>2 DEF BudgetAt
      <4> QED
        BY <4>1, <4>2
    <3>2. \A x, y, z \in Nat : x <= y + z => x <= y + z + 1
      OBVIOUS
    <3> QED
      BY <1>1, <3>1, <3>2
  <2>3. r <= deliveries'[m] + (faults + 1)
    BY <1>1, <2>1, <2>2, FaultPays
  <2> QED
    BY <2>3
<1> QED
  BY <1>1, <1>2, <1>3 DEF BudgetAt

\* A read adds entries that were never run.
LEMMA BudgetRead ==
    ASSUME Inv, Inv', NEW c \in Consumers, NEW m \in Msgs, InPlaceAt(c), BudgetAt(c, m),
           Read(c) \/ ReadReplyLost(c)
    PROVE  BudgetAt(c, m)'
<1> DEFINE g == GroupOf[c]
<1>1. /\ runs[g][m] \in Nat /\ deliveries[m] \in Nat /\ faults \in Nat /\ None \notin Msgs
      /\ MaxDeliveries \in Nat \ {0} /\ g \in Groups /\ faults' \in Nat
      /\ cursor[g] \in Nat /\ pel \in [Groups -> SUBSET Msgs]
      /\ pc \in [Consumers -> Labels] /\ MaxMsgs \in Nat
  BY BudgetTypes, ConstantsAssumption DEF Inv, TypeOK
<1>2. /\ UNCHANGED <<runs, deliveries, current>> /\ current[c] = None
      /\ pel'[g] = pel[g] \cup NewEntries(g)
      /\ faults' \in {faults, faults + 1}
  BY <1>1 DEF Read, ReadReplyLost, Fault, Inv, TypeOK, historyVars, processVars
<1>3. faults' >= faults
  BY <1>1, <1>2
<1>4. CASE m \in NewEntries(g)
  <2>1. m > cursor[g]
    <3>1. LastNew(g) \in Nat
      BY <1>1, NewEntriesType DEF Inv
    <3> QED
      BY <1>1, <1>4, <3>1 DEF NewEntries
  <2>2. runs'[g][m] = 0
    BY <1>2, <2>1 DEF InPlaceAt
  <2>3. \A d, f, D \in Nat : 0 <= d + f /\ (D # 0 => 0 < D + f) /\ 0 <= D + f
    OBVIOUS
  <2>4. 0 <= deliveries'[m] + faults' /\ 0 < MaxDeliveries + faults' /\ 0 <= MaxDeliveries + faults'
    BY <1>1, <1>2, <2>3
  <2> QED
    BY <1>1, <1>2, <2>2, <2>4 DEF BudgetAt
<1>5. CASE m \notin NewEntries(g)
  <2>1. deliveries'[m] >= deliveries[m] /\ runs'[g][m] = runs[g][m]
    BY <1>1, <1>2
  <2> QED
    BY <1>1, <1>2, <1>3, <1>5, <2>1, BudgetKept DEF Inv
<1> QED
  BY <1>4, <1>5

\* Take spends the run that a pending entry at rest has left.
LEMMA BudgetTake ==
    ASSUME Inv, Inv', NEW c \in Consumers, NEW m \in Msgs, InPlaceAt(c), BudgetAt(c, m), Take(c)
    PROVE  BudgetAt(c, m)'
<1> DEFINE g == GroupOf[c]
<1>1. /\ runs[g][m] \in Nat /\ deliveries[m] \in Nat /\ faults \in Nat /\ None \notin Msgs
      /\ MaxDeliveries \in Nat /\ g \in Groups /\ runs \in [Groups -> [Msgs -> Nat]]
      /\ pc \in [Consumers -> Labels] /\ current \in [Consumers -> Msgs \cup {None}]
      /\ batch[c] \subseteq Msgs
  BY BudgetTypes DEF Inv, TypeOK
<1>2. PICK n \in batch[c] : /\ current' = [current EXCEPT ![c] = n]
                            /\ runs' = [runs EXCEPT ![g][n] = @ + 1]
  BY DEF Take
<1>3. /\ UNCHANGED <<deliveries, faults, pel>> /\ current[c] = None /\ pc'[c] = "handle"
      /\ current'[c] = n
  BY <1>1, <1>2 DEF Take, Goto, redisVars, Inv, TypeOK
<1>4. CASE m = n
  <2>1. m \in pel[g] /\ m # current[c]
    BY <1>1, <1>2, <1>3, <1>4 DEF InPlaceAt
  <2>2. runs[g][m] <= deliveries[m] + faults /\ runs[g][m] < MaxDeliveries + faults
    BY <2>1 DEF BudgetAt
  <2>3. runs'[g][m] = runs[g][m] + 1
    BY <1>1, <1>2, <1>4
  <2>4. \A r, d, f, D \in Nat :
            r <= d + f /\ r < D + f => r + 1 <= d + f + 1 /\ r + 1 <= D + f
    OBVIOUS
  <2>5. /\ runs'[g][m] <= deliveries'[m] + faults' + 1
        /\ runs'[g][m] <= MaxDeliveries + faults'
    BY <1>1, <1>3, <2>2, <2>3, <2>4
  <2> QED
    BY <1>3, <1>4, <2>5 DEF BudgetAt
<1>5. CASE m # n
  <2>1. runs'[g][m] = runs[g][m] /\ deliveries'[m] >= deliveries[m] /\ faults' >= faults
    BY <1>1, <1>2, <1>3, <1>5
  <2> QED
    BY <1>1, <1>3, <1>5, <2>1, BudgetKept DEF Inv
<1> QED
  BY <1>4, <1>5

\* HINCRBY pays for the run in hand; below the bound the entry has another left.
LEMMA BudgetCount ==
    ASSUME Inv, Inv', NEW c \in Consumers, NEW m \in Msgs, BudgetAt(c, m), CountFailure(c)
    PROVE  BudgetAt(c, m)'
<1> DEFINE g == GroupOf[c]
<1>1. /\ runs[g][m] \in Nat /\ deliveries[m] \in Nat /\ faults \in Nat /\ None \notin Msgs
      /\ MaxDeliveries \in Nat /\ g \in Groups /\ deliveries \in [Msgs -> Nat]
      /\ pc \in [Consumers -> Labels] /\ current \in [Consumers -> Msgs \cup {None}]
  BY BudgetTypes DEF Inv, TypeOK
<1>2. /\ pc[c] = "count" /\ UNCHANGED <<runs, faults, pel>>
      /\ deliveries' = [deliveries EXCEPT ![current[c]] = deliveries[current[c]] + 1]
  BY DEF CountFailure, historyVars
<1>3. \/ pc'[c] = "deadLetter" /\ current'[c] = current[c]
      \/ /\ pc'[c] = "next" /\ current'[c] = None
         /\ ~(deliveries[current[c]] + 1 >= MaxDeliveries)
  BY <1>1 DEF CountFailure, Done, Goto
<1>4. CASE m = current[c]
  <2>1. runs[g][m] <= deliveries[m] + faults + 1
    BY <1>2, <1>4 DEF BudgetAt
  <2>2. deliveries'[m] = deliveries[m] + 1
    BY <1>1, <1>2, <1>4
  <2>3. /\ runs[g][m] <= (deliveries[m] + 1) + faults
        /\ deliveries[m] + 1 < MaxDeliveries => runs[g][m] < MaxDeliveries + faults
    BY <1>1, <2>1, CountPays
  <2>4. runs'[g][m] <= deliveries'[m] + faults'
    BY <1>2, <2>2, <2>3
  <2>5. runs'[g][m] <= MaxDeliveries + faults'
    BY <1>2 DEF BudgetAt
  <2>6. CASE pc'[c] = "deadLetter" /\ current'[c] = current[c]
    BY <1>4, <2>4, <2>5, <2>6 DEF BudgetAt
  <2>7. CASE /\ pc'[c] = "next" /\ current'[c] = None
             /\ ~(deliveries[current[c]] + 1 >= MaxDeliveries)
    <3>1. deliveries[m] + 1 < MaxDeliveries
      BY <1>1, <1>4, <2>7
    <3>2. runs'[g][m] < MaxDeliveries + faults'
      BY <1>2, <2>3, <3>1
    <3> QED
      BY <1>1, <2>4, <2>5, <2>7, <3>2 DEF BudgetAt
  <2> QED
    BY <1>3, <2>6, <2>7
<1>5. CASE m # current[c]
  <2>1. /\ runs'[g][m] = runs[g][m] /\ deliveries'[m] >= deliveries[m] /\ faults' >= faults
        /\ m # current'[c]
    BY <1>1, <1>2, <1>3, <1>5
  <2> QED
    BY <1>2, <1>5, <2>1, BudgetKept DEF Inv
<1> QED
  BY <1>4, <1>5

LEMMA BudgetStep ==
    ASSUME Inv, Inv', NEW c \in Consumers, NEW m \in Msgs, InPlaceAt(c), BudgetAt(c, m),
           Step(c) \/ Failure(c) \/ SweepDue(c)
    PROVE  BudgetAt(c, m)'
<1> DEFINE g == GroupOf[c]
<1>1. /\ runs[g][m] \in Nat /\ deliveries[m] \in Nat /\ faults \in Nat /\ None \notin Msgs
      /\ MaxDeliveries \in Nat /\ g \in Groups /\ deliveries \in [Msgs -> Nat]
      /\ pc \in [Consumers -> Labels] /\ current \in [Consumers -> Msgs \cup {None}]
      /\ pel \in [Groups -> SUBSET Msgs] /\ TypeOK /\ TypeOK'
      /\ pc[c] \in {"down", "read", "next", "claim"} <=> current[c] = None
  BY BudgetTypes DEF Inv, TypeOK
<1>2. ASSUME UNCHANGED <<runs, deliveries>>, faults' \in {faults, faults + 1}
      PROVE  /\ runs'[g][m] = runs[g][m] /\ deliveries'[m] >= deliveries[m]
             /\ faults' >= faults
  BY <1>1, <1>2
<1>3. CASE \/ Start(c) \/ EndOfRead(c) \/ EndOfClaim(c) \/ Claim(c) \/ SweepDue(c)
           \/ HandlerResolves(c) \/ HandlerThrows(c) \/ DeadLetter(c) \/ DeadLetterFails(c)
  <2>1. /\ UNCHANGED <<runs, deliveries, pel, current>> /\ faults' \in {faults, faults + 1}
        /\ \/ pc'[c] = pc[c]
           \/ pc[c] \in {"down", "read", "next", "claim"}
           \/ pc[c] = "handle" /\ pc'[c] \in {"ack", "count"}
           \/ pc[c] = "deadLetter" /\ pc'[c] = "deadAck"
    BY <1>1, <1>3 DEF Start, EndOfRead, EndOfClaim, Claim, SweepDue, HandlerResolves,
       HandlerThrows, DeadLetter, DeadLetterFails, Goto, Fault, redisVars, historyVars
  <2> QED
    BY <1>1, <1>2, <2>1, BudgetKept
<1>4. CASE Ack(c) \/ AckFails(c) \/ DeadAck(c)
  <2>1. /\ UNCHANGED <<runs, deliveries>> /\ faults' \in {faults, faults + 1}
        /\ pel' = Acked(pel, c) \/ (pel' = pel /\ current' = current)
        /\ \/ pc[c] = "ack" /\ pc'[c] = "next" /\ current'[c] = None
           \/ pc[c] = "ack" /\ pc'[c] = "count" /\ current' = current
           \/ pc[c] = "deadAck" /\ pc'[c] = "clear" /\ current' = current
    BY <1>1, <1>4 DEF Ack, AckFails, DeadAck, Done, Goto, Fault, historyVars
  <2>2. pel'[g] \in {pel[g], pel[g] \ {current[c]}}
        /\ (current'[c] = current[c] \/ current[c] \notin pel'[g])
    BY <1>1, <2>1 DEF Acked
  <2> QED
    BY <1>1, <1>2, <2>1, <2>2, BudgetKept
<1>5. CASE Crash(c) \/ ClaimFails(c) \/ CountFails(c) \/ DeadAckFails(c) \/ ClearFails(c)
  <2>1. UNCHANGED runs /\ faults' = faults + 1 /\ current'[c] = None
    BY <1>1, <1>5 DEF Crash, ClaimFails, CountFails, DeadAckFails, ClearFails, Abandon, Fault,
       historyVars
  <2>2. pel'[g] \subseteq pel[g]
    BY <1>1, <1>5 DEF Crash, ClaimFails, CountFails, DeadAckFails, ClearFails, Acked, redisVars
  <2>3. m \in pel[g] => deliveries'[m] >= deliveries[m]
    <3>1. CASE ClearFails(c)
      <4>1. current[c] \notin pel[g]
        BY <3>1 DEF ClearFails, InPlaceAt
      <4> QED
        BY <1>1, <3>1, <4>1 DEF ClearFails
    <3>2. CASE CountFails(c)
      BY <1>1, <3>2 DEF CountFails
    <3>3. CASE Crash(c) \/ ClaimFails(c) \/ DeadAckFails(c)
      BY <1>1, <3>3 DEF Crash, ClaimFails, DeadAckFails, redisVars
    <3> QED
      BY <1>5, <3>1, <3>2, <3>3
  <2> QED
    BY <1>1, <2>1, <2>2, <2>3, BudgetDropped
<1>6. CASE Clear(c)
  <2>1. /\ UNCHANGED <<runs, faults, pel>> /\ current'[c] = None /\ current[c] \notin pel[g]
        /\ deliveries' = [deliveries EXCEPT ![current[c]] = 0]
    BY <1>1, <1>6 DEF Clear, Done, InPlaceAt, historyVars
  <2>2. CASE m = current[c]
    BY <1>1, <2>1, <2>2 DEF BudgetAt
  <2>3. CASE m # current[c]
    BY <1>1, <2>1, <2>3 DEF BudgetAt
  <2> QED
    BY <2>2, <2>3
<1> QED
  BY <1>3, <1>4, <1>5, <1>6, BudgetRead, BudgetTake, BudgetCount DEF Step, Failure

LEMMA BudgetInductive ==
    ASSUME OneReader, Inv, Inv', InPlace, Budget, [Next]_vars
    PROVE  Budget'
<1>1. ASSUME NEW c \in Consumers, Step(c) \/ Failure(c) \/ SweepDue(c)
      PROVE  Budget'
  <2>1. \A m \in Msgs : BudgetAt(c, m)'
    BY <1>1, BudgetStep DEF InPlace, Budget
  <2> QED
    BY <2>1 DEF OneReader, Budget
<1>2. ASSUME \/ Publish \/ UNCHANGED vars
             \/ \E g \in Groups, m \in Msgs : Age(g, m)
      PROVE  Budget'
  <2>1. UNCHANGED <<pc, current, pel, runs, deliveries, faults>>
    BY <1>2 DEF Publish, Age, vars, redisVars, processVars, historyVars
  <2> QED
    BY <2>1 DEF Budget, BudgetAt
<1> QED
  BY <1>1, <1>2 DEF Next

\* With one process on the stream, handleMessage starts a handler on an entry at
\* most maxDeliveries times, and once more for each command failure or crash:
\* the counter in the hash and the pending entries list never disagree by more.
THEOREM RunsStayBounded ==
    ASSUME OneReader
    PROVE  Spec => []RunsBounded
<1>1. OnePerGroup
  BY DEF OneReader, OnePerGroup
<1>2. Init => Budget /\ Unread
  BY ConstantsAssumption DEF Init, Budget, BudgetAt, Unread
<1>3. Inv /\ Inv' /\ InPlace /\ Budget /\ Unread /\ [Next]_vars => Budget' /\ Unread'
  BY BudgetInductive, UnreadInductive DEF Inv
<1>4. Inv /\ Budget /\ Unread => RunsBounded
  <2> SUFFICES ASSUME Inv, Budget, Unread, NEW g \in Groups, NEW m \in Msgs
               PROVE  runs[g][m] <= MaxDeliveries + faults
    BY DEF RunsBounded
  <2>1. CASE \E c \in Consumers : GroupOf[c] = g
    BY <2>1 DEF Budget, BudgetAt
  <2>2. CASE \A c \in Consumers : GroupOf[c] # g
    <3>1. runs[g][m] = 0 /\ faults \in Nat /\ MaxDeliveries \in Nat
      BY <2>2, ConstantsAssumption DEF Unread, Inv, TypeOK
    <3> QED
      BY <3>1
  <2> QED
    BY <2>1, <2>2
<1> QED
  BY <1>1, <1>2, <1>3, <1>4, InvariantHolds, InPlaceHolds, PTL DEF Spec

=============================================================================
