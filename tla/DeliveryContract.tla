---------------------------- MODULE DeliveryContract ----------------------------
(***************************************************************************)
(* What packages/shared-redis promises the services that read a stream     *)
(* through a consumer group, with Redis, the consumers' loops and the      *)
(* retry counter left out: a group is handed the entries of the stream in  *)
(* order, each entry it was handed stays with it until it has an outcome   *)
(* (a handler that resolved, or the group giving up on the entry), and an  *)
(* entry that has left the group never comes back.                         *)
(* StreamReliability implements this module.                               *)
(***************************************************************************)
EXTENDS Integers

CONSTANTS Groups,      \* the consumer groups of one stream
          MaxMsgs      \* bound: entries ever written to the stream

Msgs == 1..MaxMsgs

VARIABLES log,         \* number of entries written; entry ids are 1..log
          joined,      \* groups that exist
          skipped,     \* skipped[g]: last entry g was never to see
          upTo,        \* upTo[g]: last id handed to group g
          inflight,    \* inflight[g]: entries handed to g and not yet settled
          succeeded,   \* succeeded[g]: entries some handler of g resolved
          givenUp      \* givenUp[g]: entries g stopped retrying

contractVars == <<log, joined, skipped, upTo, inflight, succeeded, givenUp>>

ContractInit ==
    /\ log = 0
    /\ joined = {}
    /\ skipped = [g \in Groups |-> 0]
    /\ upTo = [g \in Groups |-> 0]
    /\ inflight = [g \in Groups |-> {}]
    /\ succeeded = [g \in Groups |-> {}]
    /\ givenUp = [g \in Groups |-> {}]

Append ==
    /\ log < MaxMsgs
    /\ log' = log + 1
    /\ UNCHANGED <<joined, skipped, upTo, inflight, succeeded, givenUp>>

\* A group is created at the start of the stream or at its end.
Join(g, start) ==
    /\ g \notin joined
    /\ joined' = joined \cup {g}
    /\ skipped' = [skipped EXCEPT ![g] = start]
    /\ upTo' = [upTo EXCEPT ![g] = start]
    /\ UNCHANGED <<log, inflight, succeeded, givenUp>>

Deliver(g, n) ==
    /\ g \in joined
    /\ n \in (upTo[g] + 1)..log
    /\ upTo' = [upTo EXCEPT ![g] = n]
    /\ inflight' = [inflight EXCEPT ![g] = @ \cup ((upTo[g] + 1)..n)]
    /\ UNCHANGED <<log, joined, skipped, succeeded, givenUp>>

Succeed(g, m) ==
    /\ m <= upTo[g]
    /\ succeeded' = [succeeded EXCEPT ![g] = @ \cup {m}]
    /\ UNCHANGED <<log, joined, skipped, upTo, inflight, givenUp>>

GiveUp(g, m) ==
    /\ m <= upTo[g]
    /\ givenUp' = [givenUp EXCEPT ![g] = @ \cup {m}]
    /\ UNCHANGED <<log, joined, skipped, upTo, inflight, succeeded>>

Settle(g, m) ==
    /\ m \in inflight[g]
    /\ m \in succeeded[g] \cup givenUp[g]
    /\ inflight' = [inflight EXCEPT ![g] = @ \ {m}]
    /\ UNCHANGED <<log, joined, skipped, upTo, succeeded, givenUp>>

ContractNext ==
    \/ Append
    \/ \E g \in Groups :
        \/ Join(g, 0) \/ Join(g, log)
        \/ \E m \in Msgs : Deliver(g, m) \/ Succeed(g, m) \/ GiveUp(g, m) \/ Settle(g, m)

ContractSpec == ContractInit /\ [][ContractNext]_contractVars

=============================================================================
