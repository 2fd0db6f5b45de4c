------------------------- MODULE DeliveryContractProofs -------------------------
(***************************************************************************)
(* What follows from DeliveryContract alone, for every number of groups    *)
(* and entries.                                                            *)
(***************************************************************************)
EXTENDS DeliveryContract, TLAPS

ContractTypeOK ==
    /\ log \in Nat
    /\ skipped \in [Groups -> Nat]
    /\ upTo \in [Groups -> Nat]
    /\ inflight \in [Groups -> SUBSET Nat]
    /\ succeeded \in [Groups -> SUBSET Nat]
    /\ givenUp \in [Groups -> SUBSET Nat]

\* An entry that was handed out and is in flight no more has an outcome.
Accounted ==
    \A g \in Groups : ((skipped[g] + 1)..upTo[g]) \ inflight[g] \subseteq succeeded[g] \cup givenUp[g]

ContractInv == ContractTypeOK /\ Accounted

LEMMA JoinKeepsInv ==
    ASSUME ContractInv, NEW g \in Groups, Join(g, 0) \/ Join(g, log)
    PROVE  ContractInv'
<1>1. PICK start \in Nat : Join(g, start)
  BY DEF ContractInv, ContractTypeOK
<1>2. ContractTypeOK'
  BY <1>1 DEF ContractInv, ContractTypeOK, Join
<1>3. ASSUME NEW h \in Groups
      PROVE  ((skipped[h] + 1)..upTo[h])' \ inflight'[h] \subseteq succeeded'[h] \cup givenUp'[h]
  <2>1. CASE h = g
    <3>1. skipped'[h] = start /\ upTo'[h] = start
      BY <1>1, <2>1 DEF ContractInv, ContractTypeOK, Join
    <3> QED
      BY <3>1
  <2>2. CASE h # g
    <3>1. UNCHANGED <<skipped[h], upTo[h], inflight, succeeded, givenUp>>
      BY <1>1, <2>2 DEF ContractInv, ContractTypeOK, Join
    <3> QED
      BY <3>1 DEF ContractInv, Accounted
  <2> QED
    BY <2>1, <2>2
<1> QED
  BY <1>2, <1>3 DEF ContractInv, Accounted

LEMMA DeliverKeepsInv ==
    ASSUME ContractInv, NEW g \in Groups, NEW n \in Msgs, Deliver(g, n)
    PROVE  ContractInv'
<1>1. /\ n \in Nat /\ upTo[g] \in Nat /\ upTo[g] < n
      /\ upTo' = [upTo EXCEPT ![g] = n]
      /\ inflight' = [inflight EXCEPT ![g] = @ \cup ((upTo[g] + 1)..n)]
      /\ UNCHANGED <<log, skipped, succeeded, givenUp>>
  BY DEF Deliver, Msgs, ContractInv, ContractTypeOK
<1>2. ContractTypeOK'
  BY <1>1 DEF ContractInv, ContractTypeOK
<1>3. ASSUME NEW h \in Groups, NEW m \in ((skipped[h] + 1)..upTo[h])', m \notin inflight'[h]
      PROVE  m \in succeeded[h] \cup givenUp[h]
  <2>1. skipped[h] \in Nat /\ upTo[h] \in Nat /\ m \in Int
    BY <1>1, <1>2, <1>3 DEF ContractInv, ContractTypeOK
  <2>2. m \in (skipped[h] + 1)..upTo[h] /\ m \notin inflight[h]
    <3>1. CASE h = g
      <4>1. upTo'[h] = n /\ inflight'[h] = inflight[h] \cup ((upTo[h] + 1)..n)
        BY <1>1, <3>1 DEF ContractInv, ContractTypeOK
      <4> QED
        BY <1>1, <1>3, <2>1, <4>1
    <3>2. CASE h # g
      BY <1>1, <1>3, <3>2 DEF ContractInv, ContractTypeOK
    <3> QED
      BY <3>1, <3>2
  <2> QED
    BY <2>2 DEF ContractInv, Accounted
<1> QED
  BY <1>1, <1>2, <1>3 DEF ContractInv, Accounted

\* The contract loses no entry: what has left a group has an outcome there.
THEOREM AccountedHolds == ContractSpec => []Accounted
<1>1. ContractInit => ContractInv
  BY DEF ContractInit, ContractInv, ContractTypeOK, Accounted
<1>2. ContractInv /\ [ContractNext]_contractVars => ContractInv'
  <2> SUFFICES ASSUME ContractInv, [ContractNext]_contractVars
               PROVE  ContractInv'
    OBVIOUS
  <2>1. CASE Append
    BY <2>1 DEF Append, ContractInv, ContractTypeOK, Accounted
  <2>2. ASSUME NEW g \in Groups, NEW m \in Msgs, Succeed(g, m) \/ GiveUp(g, m)
        PROVE  ContractInv'
    BY <2>2 DEF Succeed, GiveUp, Msgs, ContractInv, ContractTypeOK, Accounted
  <2>3. ASSUME NEW g \in Groups, NEW m \in Msgs, Settle(g, m)
        PROVE  ContractInv'
    BY <2>3 DEF Settle, ContractInv, ContractTypeOK, Accounted
  <2>4. CASE UNCHANGED contractVars
    BY <2>4 DEF contractVars, ContractInv, ContractTypeOK, Accounted
  <2> QED
    BY <2>1, <2>2, <2>3, <2>4, JoinKeepsInv, DeliverKeepsInv DEF ContractNext
<1> QED
  BY <1>1, <1>2, PTL DEF ContractSpec, ContractInv

=============================================================================
