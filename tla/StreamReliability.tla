--------------------------- MODULE StreamReliability ---------------------------
(***************************************************************************)
(* packages/shared-redis/index.ts: readGroupLoop and StreamReliability.    *)
(*                                                                         *)
(* One Redis stream, the consumer groups that read it, and the processes   *)
(* that run readGroupLoop for a group.  A process reads a batch with       *)
(* XREADGROUP ">", runs the handler on each entry in order and XACKs it;   *)
(* every claimIntervalMs it also sweeps the group's pending entries list   *)
(* (PEL) with XAUTOCLAIM.  Each await of the code is a step of its own, so *)
(* the processes of a group interleave at exactly those points.            *)
(*                                                                         *)
(* Abstractions.  An entry is its position in the stream (Redis ids are    *)
(* ordered).  The PEL's owner field is left out: neither XAUTOCLAIM nor    *)
(* XACK looks at it.  Time is the two facts the code reads from it: an     *)
(* entry has been idle for claimIdleMs, a sweep is due.  Handlers either   *)
(* resolve or throw; a handler that never settles is not modelled.         *)
(*                                                                         *)
(* A Redis command can fail in two ways: it was not executed, or it was    *)
(* executed and its reply was lost with the connection.  Such failures and *)
(* crashes of a process are bounded together by MaxFaults.                 *)
(***************************************************************************)
EXTENDS Integers, FiniteSets

CONSTANTS Groups,        \* consumer groups of the stream
          Consumers,     \* processes running readGroupLoop
          GroupOf,       \* GroupOf[c]: the group process c reads for
          FromStart,     \* groups created with startId "0" (the others with "$")
          MaxDeliveries, \* retry bound of the loop (maxDeliveries)
          Count,         \* batch size (count)
          MaxMsgs,       \* bound: entries ever written to the stream
          MaxFaults      \* bound: command failures and crashes together

ASSUME ConstantsAssumption ==
    /\ GroupOf \in [Consumers -> Groups]
    /\ FromStart \subseteq Groups
    /\ MaxDeliveries \in Nat \ {0}
    /\ Count \in Nat \ {0}
    /\ MaxMsgs \in Nat
    /\ MaxFaults \in Nat

Msgs == 1..MaxMsgs
None == 0                \* no entry; also the XAUTOCLAIM cursor "0-0"

VARIABLES
    published,  \* number of entries written to the stream
    created,    \* groups that exist in Redis
    base,       \* base[g]: last entry before the group's starting point
    cursor,     \* cursor[g]: last-delivered id of the group
    pel,        \* pel[g]: pending entries of the group
    idle,       \* idle[g]: pending entries idle for at least claimIdleMs
    deliveries, \* the hash stream:<stream>:deliveries
    pc,         \* pc[c]: the await the process is at ("down": not running)
    mode,       \* mode[c]: whether the batch came from a read or from a sweep
    batch,      \* batch[c]: entries of the reply not yet handled
    current,    \* current[c]: the entry being handled
    scan,       \* scan[c]: cursor of the sweep
    due,        \* due[c]: claimIntervalMs has passed since the last sweep
    dead,       \* dead[g]: entries g wrote to the dead-letter stream
    lost,       \* history: entries whose dead-letter write failed in g
    handled,    \* history: entries some handler of g resolved
    runs,       \* history: runs[g][m], handler runs of g on m
    faults      \* history: command failures and crashes so far

redisVars   == <<created, base, cursor, pel, idle, deliveries>>
processVars == <<pc, mode, batch, current, scan, due>>
historyVars == <<dead, lost, handled, runs>>
vars == <<published, redisVars, processVars, historyVars, faults>>

Init ==
    /\ published = 0
    /\ created = {}
    /\ base = [g \in Groups |-> 0]
    /\ cursor = [g \in Groups |-> 0]
    /\ pel = [g \in Groups |-> {}]
    /\ idle = [g \in Groups |-> {}]
    /\ deliveries = [m \in Msgs |-> 0]
    /\ pc = [c \in Consumers |-> "down"]
    /\ mode = [c \in Consumers |-> "read"]
    /\ batch = [c \in Consumers |-> {}]
    /\ current = [c \in Consumers |-> None]
    /\ scan = [c \in Consumers |-> None]
    /\ due = [c \in Consumers |-> TRUE]
    /\ dead = [g \in Groups |-> {}]
    /\ lost = [g \in Groups |-> {}]
    /\ handled = [g \in Groups |-> {}]
    /\ runs = [g \in Groups |-> [m \in Msgs |-> 0]]
    /\ faults = 0

-----------------------------------------------------------------------------
(* Helpers *)

\* XACK of c's current entry, applied to the PEL (or to its idle part).
Acked(S, c) == [S EXCEPT ![GroupOf[c]] = @ \ {current[c]}]

\* Last id an XREADGROUP ">" COUNT Count returns to group g.
LastNew(g) == IF cursor[g] + Count <= published THEN cursor[g] + Count ELSE published

NewEntries(g) == (cursor[g] + 1)..LastNew(g)

\* The entries an XAUTOCLAIM from cursor `from` looks at that are idle enough.
Eligible(g, from) == {m \in idle[g] : m >= from}

\* S is the reply of XAUTOCLAIM: the first Count of them in id order.
IsClaim(S, g, from) ==
    /\ S \subseteq Eligible(g, from)
    /\ Cardinality(S) <= Count
    /\ Cardinality(S) < Count => S = Eligible(g, from)
    /\ \A a \in S, b \in Eligible(g, from) \ S : a < b

\* Pending entries behind a full reply: the reply's cursor is the first of them.
Behind(S, g) == {m \in pel[g] : Cardinality(S) = Count /\ \A a \in S : a < m}

IsNextCursor(n, S, g) ==
    \/ Behind(S, g) = {} /\ n = None
    \/ n \in Behind(S, g) /\ \A m \in Behind(S, g) : n <= m

Fault ==
    /\ faults < MaxFaults
    /\ faults' = faults + 1

Goto(c, l) == pc' = [pc EXCEPT ![c] = l]

\* handleMessage returns: the loop goes to the next entry of the batch.
Done(c) ==
    /\ Goto(c, "next")
    /\ current' = [current EXCEPT ![c] = None]

\* A bug a change to the code could bring: the entry stays the current one.
AbandonKeepsCurrent(c) ==
    /\ Goto(c, "read")
    /\ batch' = [batch EXCEPT ![c] = {}]
    /\ scan' = [scan EXCEPT ![c] = None]
    /\ UNCHANGED <<mode, due, current>>

\* An exception leaves handleMessage: the rest of the batch is forgotten and the
\* loop goes on with the next read (reclaimStale and readGroupLoop both catch it).
Abandon(c) ==
    /\ Goto(c, "read")
    /\ batch' = [batch EXCEPT ![c] = {}]
    /\ current' = [current EXCEPT ![c] = None]
    /\ scan' = [scan EXCEPT ![c] = None]
    /\ UNCHANGED <<mode, due>>

-----------------------------------------------------------------------------
(* The stream and the process's life *)

\* publish: XADD by some service.
Publish ==
    /\ published < MaxMsgs
    /\ published' = published + 1
    /\ UNCHANGED <<redisVars, processVars, historyVars, faults>>

\* ensureConsumerGroup: XGROUP CREATE at "0" or "$"; BUSYGROUP is ignored.
EnsureGroup(g) ==
    LET start == IF g \in FromStart THEN 0 ELSE published
    IN  IF g \in created
        THEN UNCHANGED <<created, base, cursor>>
        ELSE /\ created' = created \cup {g}
             /\ base' = [base EXCEPT ![g] = start]
             /\ cursor' = [cursor EXCEPT ![g] = start]

\* The prologue of readGroupLoop; lastClaimAt = 0 makes a sweep due at once.
Start(c) ==
    /\ pc[c] = "down"
    /\ EnsureGroup(GroupOf[c])
    /\ Goto(c, "read")
    /\ due' = [due EXCEPT ![c] = TRUE]
    /\ UNCHANGED <<published, pel, idle, deliveries, mode, batch, current, scan,
                   historyVars, faults>>

\* The process dies: what it held in memory is gone, Redis keeps its entries pending.
Crash(c) ==
    /\ pc[c] # "down"
    /\ Fault
    /\ Goto(c, "down")
    /\ batch' = [batch EXCEPT ![c] = {}]
    /\ current' = [current EXCEPT ![c] = None]
    /\ scan' = [scan EXCEPT ![c] = None]
    /\ UNCHANGED <<published, redisVars, mode, due, historyVars>>

\* claimIntervalMs has passed since c's last sweep.
SweepDue(c) ==
    /\ pc[c] # "down"
    /\ ~due[c]
    /\ due' = [due EXCEPT ![c] = TRUE]
    /\ UNCHANGED <<published, redisVars, pc, mode, batch, current, scan, historyVars, faults>>

\* claimIdleMs has passed since entry m was last delivered or claimed.
Age(g, m) ==
    /\ m \in pel[g] \ idle[g]
    /\ idle' = [idle EXCEPT ![g] = @ \cup {m}]
    /\ UNCHANGED <<published, created, base, cursor, pel, deliveries, processVars,
                   historyVars, faults>>

-----------------------------------------------------------------------------
(* readGroupLoop and reclaimStale *)

\* A bug a change to the call could bring: NOACK, the entries are not made pending.
ReadNoAck(c) ==
    LET g == GroupOf[c] IN
    /\ pc[c] = "read"
    /\ cursor' = [cursor EXCEPT ![g] = LastNew(g)]
    /\ batch' = [batch EXCEPT ![c] = NewEntries(g)]
    /\ mode' = [mode EXCEPT ![c] = "read"]
    /\ Goto(c, "next")
    /\ UNCHANGED <<published, created, base, pel, idle, deliveries, current, scan, due,
                   historyVars, faults>>

\* XREADGROUP ">": the new entries join the PEL and the process's batch.  With
\* no new entry the BLOCK runs out and the reply is empty.
Read(c) ==
    LET g == GroupOf[c] IN
    /\ pc[c] = "read"
    /\ cursor' = [cursor EXCEPT ![g] = LastNew(g)]
    /\ pel' = [pel EXCEPT ![g] = @ \cup NewEntries(g)]
    /\ batch' = [batch EXCEPT ![c] = NewEntries(g)]
    /\ mode' = [mode EXCEPT ![c] = "read"]
    /\ Goto(c, "next")
    /\ UNCHANGED <<published, created, base, idle, deliveries, current, scan, due,
                   historyVars, faults>>

\* The read was executed and its reply lost: readGroupLoop backs off and reads again.
ReadReplyLost(c) ==
    LET g == GroupOf[c] IN
    /\ pc[c] = "read"
    /\ NewEntries(g) # {}
    /\ Fault
    /\ cursor' = [cursor EXCEPT ![g] = LastNew(g)]
    /\ pel' = [pel EXCEPT ![g] = @ \cup NewEntries(g)]
    /\ UNCHANGED <<published, created, base, idle, deliveries, processVars, historyVars>>

\* A bug a change to the loops could bring: the entry is not consumed.
TakeKeepsEntry(c) ==
    /\ pc[c] = "next"
    /\ \E m \in batch[c] :
        /\ \A n \in batch[c] : m <= n
        /\ current' = [current EXCEPT ![c] = m]
        /\ runs' = [runs EXCEPT ![GroupOf[c]][m] = @ + 1]
    /\ Goto(c, "handle")
    /\ UNCHANGED <<published, redisVars, mode, batch, scan, due, dead, lost, handled, faults>>

\* Another: the entries are handled concurrently (forEach with an async callback).
TakeAnyEntry(c) ==
    /\ pc[c] = "next"
    /\ \E m \in batch[c] :
        /\ current' = [current EXCEPT ![c] = m]
        /\ batch' = [batch EXCEPT ![c] = @ \ {m}]
        /\ runs' = [runs EXCEPT ![GroupOf[c]][m] = @ + 1]
    /\ Goto(c, "handle")
    /\ UNCHANGED <<published, redisVars, mode, scan, due, dead, lost, handled, faults>>

\* The loops over a batch take its entries in the order of the reply and hand
\* each to handleMessage, which starts the handler.
Take(c) ==
    /\ pc[c] = "next"
    /\ \E m \in batch[c] :
        /\ \A n \in batch[c] : m <= n
        /\ current' = [current EXCEPT ![c] = m]
        /\ batch' = [batch EXCEPT ![c] = @ \ {m}]
        /\ runs' = [runs EXCEPT ![GroupOf[c]][m] = @ + 1]
    /\ Goto(c, "handle")
    /\ UNCHANGED <<published, redisVars, mode, scan, due, dead, lost, handled, faults>>

\* A bug a change to the clock test could bring: no sweep is ever found due.
EndOfReadNoSweep(c) ==
    /\ pc[c] = "next"
    /\ mode[c] = "read"
    /\ batch[c] = {}
    /\ Goto(c, "read")
    /\ UNCHANGED <<published, redisVars, mode, batch, current, scan, due, historyVars, faults>>

\* The batch of a read is finished: a sweep if one is due, else the next read.
EndOfRead(c) ==
    /\ pc[c] = "next"
    /\ mode[c] = "read"
    /\ batch[c] = {}
    /\ Goto(c, IF due[c] THEN "claim" ELSE "read")
    /\ due' = [due EXCEPT ![c] = FALSE]
    /\ UNCHANGED <<published, redisVars, mode, batch, current, scan, historyVars, faults>>

\* The batch of a claim is finished: the sweep goes on unless its cursor is "0-0".
EndOfClaim(c) ==
    /\ pc[c] = "next"
    /\ mode[c] = "sweep"
    /\ batch[c] = {}
    /\ Goto(c, IF scan[c] = None THEN "read" ELSE "claim")
    /\ UNCHANGED <<published, redisVars, mode, batch, current, scan, due, historyVars, faults>>

\* XAUTOCLAIM: a page of idle pending entries becomes the batch and is idle no more.
Claim(c) ==
    LET g == GroupOf[c] IN
    /\ pc[c] = "claim"
    /\ \E S \in SUBSET idle[g] :
        /\ IsClaim(S, g, scan[c])
        /\ idle' = [idle EXCEPT ![g] = @ \ S]
        /\ batch' = [batch EXCEPT ![c] = S]
        /\ \E n \in Msgs \cup {None} :
            /\ IsNextCursor(n, S, g)
            /\ scan' = [scan EXCEPT ![c] = n]
    /\ mode' = [mode EXCEPT ![c] = "sweep"]
    /\ Goto(c, "next")
    /\ UNCHANGED <<published, created, base, cursor, pel, deliveries, current, due,
                   historyVars, faults>>

\* The XPENDING or XAUTOCLAIM of a sweep fails: the sweep ends, the page (if the
\* claim was executed) is idle no more and in nobody's batch.
ClaimFails(c) ==
    LET g == GroupOf[c] IN
    /\ pc[c] = "claim"
    /\ Fault
    /\ \E S \in SUBSET idle[g] :
        /\ S = {} \/ IsClaim(S, g, scan[c])
        /\ idle' = [idle EXCEPT ![g] = @ \ S]
    /\ Abandon(c)
    /\ UNCHANGED <<published, created, base, cursor, pel, deliveries, historyVars>>

-----------------------------------------------------------------------------
(* handleMessage and deadLetter *)

\* The handler resolves; the XACK is next.
HandlerResolves(c) ==
    /\ pc[c] = "handle"
    /\ handled' = [handled EXCEPT ![GroupOf[c]] = @ \cup {current[c]}]
    /\ Goto(c, "ack")
    /\ UNCHANGED <<published, redisVars, mode, batch, current, scan, due, dead, lost, runs, faults>>

\* A bug a change to the code could bring: the XACK in a `finally`.
HandlerThrowsAcks(c) ==
    /\ pc[c] = "handle"
    /\ Goto(c, "ack")
    /\ UNCHANGED <<published, redisVars, mode, batch, current, scan, due, historyVars, faults>>

\* The handler throws; the delivery counter is next.
HandlerThrows(c) ==
    /\ pc[c] = "handle"
    /\ Goto(c, "count")
    /\ UNCHANGED <<published, redisVars, mode, batch, current, scan, due, historyVars, faults>>

\* XACK after the handler.
Ack(c) ==
    /\ pc[c] = "ack"
    /\ pel' = Acked(pel, c)
    /\ idle' = Acked(idle, c)
    /\ Done(c)
    /\ UNCHANGED <<published, created, base, cursor, deliveries, mode, batch, scan, due,
                   historyVars, faults>>

\* The XACK after a handler that resolved fails.  It is inside the try, so the
\* catch counts it like a failure of the handler.
AckFails(c) ==
    /\ pc[c] = "ack"
    /\ Fault
    /\ \/ pel' = Acked(pel, c) /\ idle' = Acked(idle, c)
       \/ UNCHANGED <<pel, idle>>
    /\ Goto(c, "count")
    /\ UNCHANGED <<published, created, base, cursor, deliveries, mode, batch, current, scan,
                   due, historyVars>>

\* Bugs a change to the comparison could bring.
CountTooLate(c) ==
    LET m == current[c]
        attempts == deliveries[m] + 1 IN
    /\ pc[c] = "count"
    /\ deliveries' = [deliveries EXCEPT ![m] = attempts]
    /\ IF attempts > MaxDeliveries
       THEN Goto(c, "deadLetter") /\ UNCHANGED current
       ELSE Done(c)
    /\ UNCHANGED <<published, created, base, cursor, pel, idle, mode, batch, scan, due,
                   historyVars, faults>>

CountTooEarly(c) ==
    LET m == current[c]
        attempts == deliveries[m] + 1 IN
    /\ pc[c] = "count"
    /\ deliveries' = [deliveries EXCEPT ![m] = attempts]
    /\ IF attempts >= MaxDeliveries - 1
       THEN Goto(c, "deadLetter") /\ UNCHANGED current
       ELSE Done(c)
    /\ UNCHANGED <<published, created, base, cursor, pel, idle, mode, batch, scan, due,
                   historyVars, faults>>

\* deliveryCount: HINCRBY, then the comparison with maxDeliveries.
CountFailure(c) ==
    LET m == current[c]
        attempts == deliveries[m] + 1 IN
    /\ pc[c] = "count"
    /\ deliveries' = [deliveries EXCEPT ![m] = attempts]
    /\ IF attempts >= MaxDeliveries
       THEN Goto(c, "deadLetter") /\ UNCHANGED current
       ELSE Done(c)
    /\ UNCHANGED <<published, created, base, cursor, pel, idle, mode, batch, scan, due,
                   historyVars, faults>>

\* The HINCRBY fails: the exception leaves handleMessage.
CountFails(c) ==
    /\ pc[c] = "count"
    /\ Fault
    /\ \/ deliveries' = [deliveries EXCEPT ![current[c]] = @ + 1]
       \/ UNCHANGED deliveries
    /\ Abandon(c)
    /\ UNCHANGED <<published, created, base, cursor, pel, idle, historyVars>>

\* deadLetter: XADD to the dead-letter stream.
DeadLetter(c) ==
    /\ pc[c] = "deadLetter"
    /\ dead' = [dead EXCEPT ![GroupOf[c]] = @ \cup {current[c]}]
    /\ Goto(c, "deadAck")
    /\ UNCHANGED <<published, redisVars, mode, batch, current, scan, due, lost, handled, runs,
                   faults>>

\* The XADD fails: deadLetter logs the error and returns, and the entry is XACKed
\* all the same.
DeadLetterFails(c) ==
    LET g == GroupOf[c] IN
    /\ pc[c] = "deadLetter"
    /\ Fault
    /\ \/ /\ dead' = [dead EXCEPT ![g] = @ \cup {current[c]}]
          /\ UNCHANGED lost
       \/ /\ lost' = [lost EXCEPT ![g] = @ \cup {current[c]}]
          /\ UNCHANGED dead
    /\ Goto(c, "deadAck")
    /\ UNCHANGED <<published, redisVars, mode, batch, current, scan, due, handled, runs>>

\* XACK of the dead-lettered entry.
DeadAck(c) ==
    /\ pc[c] = "deadAck"
    /\ pel' = Acked(pel, c)
    /\ idle' = Acked(idle, c)
    /\ Goto(c, "clear")
    /\ UNCHANGED <<published, created, base, cursor, deliveries, mode, batch, current, scan,
                   due, historyVars, faults>>

\* It fails: the entry stays pending, or is acked with its counter left behind.
DeadAckFails(c) ==
    /\ pc[c] = "deadAck"
    /\ Fault
    /\ \/ pel' = Acked(pel, c) /\ idle' = Acked(idle, c)
       \/ UNCHANGED <<pel, idle>>
    /\ Abandon(c)
    /\ UNCHANGED <<published, created, base, cursor, deliveries, historyVars>>

\* clearDelivery: HDEL of the entry's counter.
Clear(c) ==
    /\ pc[c] = "clear"
    /\ deliveries' = [deliveries EXCEPT ![current[c]] = 0]
    /\ Done(c)
    /\ UNCHANGED <<published, created, base, cursor, pel, idle, mode, batch, scan, due,
                   historyVars, faults>>

\* The HDEL fails: the exception leaves handleMessage.
ClearFails(c) ==
    /\ pc[c] = "clear"
    /\ Fault
    /\ \/ deliveries' = [deliveries EXCEPT ![current[c]] = 0]
       \/ UNCHANGED deliveries
    /\ Abandon(c)
    /\ UNCHANGED <<published, created, base, cursor, pel, idle, historyVars>>

-----------------------------------------------------------------------------
\* What the process does on its own.
Step(c) ==
    \/ Start(c)
    \/ Read(c) \/ Take(c) \/ EndOfRead(c) \/ EndOfClaim(c) \/ Claim(c)
    \/ HandlerResolves(c) \/ HandlerThrows(c) \/ Ack(c)
    \/ CountFailure(c) \/ DeadLetter(c) \/ DeadAck(c) \/ Clear(c)

\* What goes wrong around it.
Failure(c) ==
    \/ Crash(c) \/ ReadReplyLost(c) \/ ClaimFails(c) \/ AckFails(c) \/ CountFails(c)
    \/ DeadLetterFails(c) \/ DeadAckFails(c) \/ ClearFails(c)

Next ==
    \/ Publish
    \/ \E c \in Consumers : Step(c) \/ Failure(c) \/ SweepDue(c)
    \/ \E g \in Groups, m \in Msgs : Age(g, m)

\* Processes are restarted and keep running, handlers settle, and time passes.
Fairness ==
    /\ \A c \in Consumers : WF_vars(Step(c)) /\ WF_vars(SweepDue(c))
    /\ \A g \in Groups, m \in Msgs : WF_vars(Age(g, m))

Spec == Init /\ [][Next]_vars
FairSpec == Spec /\ Fairness

-----------------------------------------------------------------------------
(* Properties *)

Labels == {"down", "read", "next", "claim", "handle", "ack", "count",
           "deadLetter", "deadAck", "clear"}

\* Every variable has its type; an idle entry is pending, and a process has a
\* current entry exactly while it is inside handleMessage.
TypeOK ==
    /\ published \in 0..MaxMsgs
    /\ created \subseteq Groups
    /\ base \in [Groups -> 0..MaxMsgs]
    /\ cursor \in [Groups -> 0..MaxMsgs]
    /\ pel \in [Groups -> SUBSET Msgs]
    /\ idle \in [Groups -> SUBSET Msgs]
    /\ deliveries \in [Msgs -> Nat]
    /\ pc \in [Consumers -> Labels]
    /\ mode \in [Consumers -> {"read", "sweep"}]
    /\ batch \in [Consumers -> SUBSET Msgs]
    /\ current \in [Consumers -> Msgs \cup {None}]
    /\ scan \in [Consumers -> Msgs \cup {None}]
    /\ due \in [Consumers -> BOOLEAN]
    /\ dead \in [Groups -> SUBSET Msgs]
    /\ lost \in [Groups -> SUBSET Msgs]
    /\ handled \in [Groups -> SUBSET Msgs]
    /\ runs \in [Groups -> [Msgs -> Nat]]
    /\ faults \in Nat
    /\ \A g \in Groups : idle[g] \subseteq pel[g]
    /\ \A c \in Consumers : current[c] = None <=> pc[c] \in {"down", "read", "next", "claim"}

\* The entries of g's stream that g was handed and that are pending no more.
Settled(g) == ((base[g] + 1)..cursor[g]) \ pel[g]

\* No entry falls out of a group unnoticed: one that is no longer pending was
\* handled, or the code took the path of deadLetter for it.  (handleMessage
\* XACKs on exactly two paths, and XREADGROUP never returns the entry again.)
SettledIsAccounted ==
    \A g \in Groups : Settled(g) \subseteq handled[g] \cup dead[g] \cup lost[g]

\* With one process in the group, an entry is run at most maxDeliveries times,
\* and one more time for each failure around it: the counter and the PEL agree.
RunsBounded ==
    \A g \in Groups, m \in Msgs : runs[g][m] <= MaxDeliveries + faults

\* "Max delivery attempts before a message is routed to the dead-letter
\* stream": no group gives up on an entry it has run fewer than maxDeliveries
\* times.
DeadOnlyAfterBound ==
    \A g \in Groups : \A m \in dead[g] \cup lost[g] : runs[g][m] >= MaxDeliveries

\* Exactly-once past the acknowledgement: with one process in the group, a
\* handler is only ever started on an entry that is still pending.
NoRunAfterSettled ==
    [][\A g \in Groups, m \in Msgs : runs'[g][m] > runs[g][m] => m \in pel[g]]_vars

\* Without failures the first run of each entry comes in stream order, retries
\* of earlier entries notwithstanding: the reader never overtakes itself.
FirstRunsInOrder ==
    faults = 0 =>
        \A g \in Groups : \A m \in (base[g] + 1)..cursor[g] :
            runs[g][m] > 0 => \A n \in (base[g] + 1)..m : runs[g][n] > 0

\* The acceptance criterion of spec-06: whatever fails (finitely often), every
\* entry written after the group exists is retried until it is handled or the
\* group gives up on it, and it does not stay pending.
EventuallySettled ==
    \A g \in Groups, m \in Msgs :
        (g \in created /\ m \in (base[g] + 1)..published) ~> (m \in Settled(g))

(* Statements of the code's comments that its behaviour contradicts *)

\* index.ts:69: maxDeliveries is the "Max delivery attempts before a message is
\* routed to the dead-letter stream".  A process that dies in a handler counts
\* nothing, so an entry that kills its process is delivered without bound.
DeliveryAttemptsBounded ==
    \A g \in Groups, m \in Msgs : runs[g][m] <= MaxDeliveries

\* index.ts:304: at the bound "the message is written to the dead-letter stream
\* and XACKed".  deadLetter swallows the failure of the write, and the XACK follows.
NothingVanishes ==
    \A g \in Groups : Settled(g) \subseteq handled[g] \cup dead[g]

-----------------------------------------------------------------------------
(* The contract it implements *)

Contract == INSTANCE DeliveryContract
    WITH log <- published,
         joined <- created,
         skipped <- base,
         upTo <- cursor,
         inflight <- pel,
         succeeded <- handled,
         givenUp <- [g \in Groups |-> dead[g] \cup lost[g]]

\* The loop implements the contract, failures and crashes included.
ImplementsContract == Contract!ContractSpec

=============================================================================
