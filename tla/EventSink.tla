------------------------------ MODULE EventSink ------------------------------
(***************************************************************************)
(* The sinks the control code records its events in during an evaluation   *)
(* (apps/control/src/events/sink.ts): a MultiSink over a MemorySink, which *)
(* drops the oldest events at its cap, and a FileSink, which appends to    *)
(* the event log.  The sequence numbers come from a static counter, so     *)
(* they go on when the sinks are composed anew; the chain of writes of a   *)
(* FileSink does not.                                                      *)
(***************************************************************************)
EXTENDS Integers, Sequences, SequencesExt

CONSTANTS
    MaxEvents,      \* bound: events recorded
    MaxInstances,   \* bound: compositions of the sinks
    MemoryCap       \* DEFAULT_MEMORY_CAP

ASSUME SinkAssumption ==
    MaxEvents \in Nat /\ MaxInstances \in Nat \ {0} /\ MemoryCap \in Nat \ {0}

Events == 1 .. MaxEvents
Instances == 1 .. MaxInstances

VARIABLES
    instance,   \* the current composition (sinkInstance)
    recorded,   \* seqCounter: events recorded so far
    pending,    \* of each FileSink: its writes under way, in the order of record
    log,        \* the event log: the numbers of its lines
    lost,       \* events whose append failed
    memory      \* the numbers in the current MemorySink
sink == <<instance, recorded, pending, log, lost, memory>>

SinkTypeOK ==
    /\ instance \in Instances /\ recorded \in 0 .. MaxEvents
    /\ \A i \in Instances : IsInjective(pending[i]) /\ ToSet(pending[i]) \subseteq Events
    /\ IsInjective(log) /\ ToSet(log) \cup lost \subseteq Events
    /\ Len(memory) <= MemoryCap

SinkInit ==
    /\ instance = 1 /\ recorded = 0 /\ pending = [i \in Instances |-> <<>>]
    /\ log = <<>> /\ lost = {} /\ memory = <<>>

\* mutant: the memory grows past its cap.
AllOf(s) == s

\* MemorySink.record: the oldest events beyond the cap go.
Newest(s) == IF Len(s) > MemoryCap THEN Tail(s) ELSE s

\* MultiSink.record: both children get the event with its number.
Record ==
    /\ recorded < MaxEvents /\ recorded' = recorded + 1
    /\ memory' = Newest(Append(memory, recorded + 1))
    /\ pending' = [pending EXCEPT ![instance] = Append(@, recorded + 1)]
    /\ UNCHANGED <<instance, log, lost>>

\* The write of a FileSink that may end next: each waits for the one before it.
NextWrite(writes) == {1} \cap DOMAIN writes

\* appendFile ends; the chain goes on after a failed append.
Append1(i) ==
    /\ \E k \in NextWrite(pending[i]) :
         /\ pending' = [pending EXCEPT ![i] = RemoveAt(@, k)]
         /\ \/ log' = Append(log, pending[i][k]) /\ UNCHANGED lost
            \/ lost' = lost \cup {pending[i][k]} /\ UNCHANGED log
    /\ UNCHANGED <<instance, recorded, memory>>

\* flush: the writes that are under way when it is called.
Awaited == ToSet(pending[instance])

\* resetEventSink: the next event composes new sinks.
Reset ==
    /\ instance' = IF instance < MaxInstances THEN instance + 1 ELSE instance
    /\ memory' = <<>>
    /\ UNCHANGED <<recorded, pending, log, lost>>
=============================================================================
