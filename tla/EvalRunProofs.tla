----------------------------- MODULE EvalRunProofs -----------------------------
(***************************************************************************)
(* Theorems about EvalRun, for any number of cases, events, compositions   *)
(* of the sinks and repairs, and for any projects and checks.              *)
(***************************************************************************)
EXTENDS EvalRun, FiniteSetTheorems, WellFoundedInduction, TLAPS

-----------------------------------------------------------------------------
(* Induction and folds                                                     *)
(*                                                                         *)
(* The folds of the community modules are recursive functions on the       *)
(* subsets of a finite set.  That they satisfy their equation is proved by *)
(* an induction whose predicates are sets, the only kind an assumption of  *)
(* a lemma can range over here.                                            *)

\* A set of numbers has a smallest one.
LEMMA NatMin ==
    ASSUME NEW T \in SUBSET Nat, T # {}
    PROVE  \E n \in T : \A m \in T : n <= m
<1> DEFINE R == {ss \in Nat \X Nat : ss[1] < ss[2]}
<1>1. IsWellFoundedOn(R, Nat)
    BY NatLessThanWellFounded DEF OpToRel
<1> HIDE DEF R
<1>2. PICK x \in T : \A y \in T : ~ (<<y, x>> \in R)
    BY <1>1, WFMin
<1>3. \A y \in T : x <= y
  <2> TAKE y \in T
  <2>1. <<y, x>> \in Nat \X Nat
      OBVIOUS
  <2>2. ~(y < x)
      BY <2>1, <1>2 DEF R
  <2> QED
      BY <2>2
<1> QED
    BY <1>3

\* Induction, for a property that is a set of numbers.
LEMMA NatSteps ==
    ASSUME NEW G, 0 \in G, \A n \in Nat : n \in G => n + 1 \in G
    PROVE  Nat \subseteq G
<1> SUFFICES ASSUME NEW n \in Nat, n \notin G PROVE FALSE
    OBVIOUS
<1> DEFINE B == {m \in Nat : m \notin G}
<1>1. PICK k \in B : \A m \in B : k <= m
    BY NatMin
<1>2. k \in Nat /\ k # 0
    OBVIOUS
<1>3. k - 1 \in Nat /\ k - 1 \in G
    BY <1>1, <1>2
<1>4. (k - 1) + 1 \in G
    BY <1>3
<1> QED
    BY <1>2, <1>4

\* A finite set of numbers from 1 has a largest one.
LEMMA MaxOf ==
    ASSUME NEW n \in Nat, NEW s \in SUBSET (1 .. n), s # {}
    PROVE  Max(s) \in s /\ \A y \in s : Max(s) >= y
<1> DEFINE T == {n - x : x \in s}
<1>1. T \subseteq Nat /\ T # {}
  <2>1. \A x \in s : n - x \in Nat
      OBVIOUS
  <2> QED
      BY <2>1
<1>2. PICK m \in T : \A k \in T : m <= k
    BY <1>1, NatMin
<1>3. PICK x \in s : m = n - x
    OBVIOUS
<1>4. \A y \in s : x >= y
  <2> TAKE y \in s
  <2>1. n - x <= n - y
      BY <1>2, <1>3
  <2> QED
      BY <2>1
<1> QED
    BY <1>4 DEF Max

\* The steps of the folds the model uses.
Opened(open, n) ==
    IF n.node \in {"fn", "arrow", "callback"} THEN Append(open, n)
    ELSE IF n.node \in {"fn_end", "callback_end"} THEN Front(open)
    ELSE open
FoldStep(how, z, n) ==
    IF how = "sum" THEN n + z
    ELSE IF how = "collect" THEN CollectTopLevel(z, n)
    ELSE IF how = "visit" THEN Visit(z, n)
    ELSE Opened(z, n)

\* A fold: over which set, by which step, from which value, of which values, and which
\* element comes last.
Foldable(f) ==
    /\ IsFiniteSet(f.set)
    /\ \A s \in SUBSET f.set : s # {} => f.last[s] \in s
Value(G, f, s) ==
    IF s = {} THEN f.base ELSE FoldStep(f.how, G[s \ {f.last[s]}], f.values[f.last[s]])
IsFold(G, f) ==
    /\ G = [s \in SUBSET f.set |-> G[s]]
    /\ \A s \in SUBSET f.set : G[s] = Value(G, f, s)

\* A fold exists: the function that satisfies its equation on the subsets of up to n
\* elements gives one for those of up to n + 1.
LEMMA FoldExists ==
    ASSUME NEW f, Foldable(f)
    PROVE  \E G : IsFold(G, f)
<1> DEFINE S == f.set
           UpTo(G, n) == /\ G = [s \in SUBSET S |-> G[s]]
                         /\ \A s \in SUBSET S : Cardinality(s) <= n => G[s] = Value(G, f, s)
           Done == {n \in Nat : \E G : UpTo(G, n)}
<1>0. IsFiniteSet(S) /\ \A s \in SUBSET S : s # {} => f.last[s] \in s
    BY DEF Foldable
<1>1. \A s \in SUBSET S : /\ IsFiniteSet(s) /\ Cardinality(s) \in Nat
                          /\ Cardinality(s) <= Cardinality(S)
                          /\ Cardinality(s) = 0 => s = {}
    BY <1>0, FS_Subset, FS_CardinalityType, FS_EmptySet
<1>2. \A s \in SUBSET S : s # {} =>
          /\ s \ {f.last[s]} \in SUBSET S
          /\ Cardinality(s \ {f.last[s]}) = Cardinality(s) - 1
    BY <1>0, <1>1, FS_RemoveElement
<1>3. 0 \in Done
  <2> DEFINE H == [s \in SUBSET S |-> f.base]
  <2>1. \A s \in SUBSET S : Cardinality(s) <= 0 => H[s] = Value(H, f, s)
      BY <1>1 DEF Value
  <2>2. H = [s \in SUBSET S |-> H[s]]
      OBVIOUS
  <2>3. UpTo(H, 0)
      BY <2>1, <2>2
  <2> QED
      BY <2>3
<1>4. ASSUME NEW n \in Nat, n \in Done
      PROVE  n + 1 \in Done
  <2>1. PICK G : UpTo(G, n)
      BY <1>4
  <2> DEFINE H == [s \in SUBSET S |-> Value(G, f, s)]
  <2>2. ASSUME NEW s \in SUBSET S, Cardinality(s) <= n + 1
        PROVE  H[s] = Value(H, f, s)
    <3>1. CASE s = {}
        BY <3>1 DEF Value
    <3>2. CASE s # {}
      <4> DEFINE t == s \ {f.last[s]}
      <4>1. t \in SUBSET S /\ Cardinality(t) <= n
          BY <1>1, <1>2, <2>2, <3>2
      <4>2. G[t] = Value(G, f, t) /\ H[t] = Value(G, f, t)
          BY <2>1, <4>1
      <4>3. H[s] = FoldStep(f.how, G[t], f.values[f.last[s]])
          BY <3>2 DEF Value
      <4>4. Value(H, f, s) = FoldStep(f.how, H[t], f.values[f.last[s]])
          BY <3>2 DEF Value
      <4> HIDE DEF H, t
      <4> QED
          BY <4>2, <4>3, <4>4
    <3> QED
        BY <3>1, <3>2
  <2>3. H = [s \in SUBSET S |-> H[s]]
      OBVIOUS
  <2> HIDE DEF H
  <2>4. UpTo(H, n + 1)
      BY <2>2, <2>3
  <2> HIDE DEF UpTo
  <2>5. \E F : UpTo(F, n + 1)
      BY <2>4
  <2> QED
      BY <2>5
<1> HIDE DEF Done
<1>5. Cardinality(S) \in Done
    BY <1>0, <1>3, <1>4, NatSteps, FS_CardinalityType
<1>6. PICK G : UpTo(G, Cardinality(S))
    BY <1>5 DEF Done
<1>7. \A s \in SUBSET S : G[s] = Value(G, f, s)
    BY <1>1, <1>6
<1> QED
    BY <1>6, <1>7 DEF IsFold

\* A fold of a sequence from the left, by which step and from which value.
FromLeft(how, base, seq, n) ==
    [set |-> 1 .. n, how |-> how, base |-> base, values |-> seq,
     last |-> [s \in SUBSET (1 .. n) |-> Max(s)]]

LEMMA LeftFoldable ==
    ASSUME NEW how, NEW base, NEW seq, NEW n \in Nat
    PROVE  Foldable(FromLeft(how, base, seq, n))
<1> DEFINE f == FromLeft(how, base, seq, n)
<1>1. f.set = 1 .. n /\ f.last = [s \in SUBSET (1 .. n) |-> Max(s)]
    BY DEF FromLeft
<1>2. IsFiniteSet(f.set)
    BY <1>1, FS_Interval
<1>3. \A s \in SUBSET (1 .. n) : s # {} => f.last[s] \in s
    BY <1>1, MaxOf
<1> HIDE DEF f
<1>4. Foldable(f)
    BY <1>1, <1>2, <1>3 DEF Foldable
<1> QED
    BY <1>4 DEF f

\* What such a fold is, set by set.
LeftValues(G, how, base, seq, n) ==
    /\ G = [s \in SUBSET (1 .. n) |-> G[s]]
    /\ \A s \in SUBSET (1 .. n) :
          G[s] = IF s = {} THEN base ELSE FoldStep(how, G[s \ {Max(s)}], seq[Max(s)])

LEMMA LeftValue ==
    ASSUME NEW how, NEW base, NEW seq, NEW n \in Nat, NEW G
    PROVE  IsFold(G, FromLeft(how, base, seq, n)) <=> LeftValues(G, how, base, seq, n)
<1> DEFINE f == FromLeft(how, base, seq, n)
<1>1. /\ f.set = 1 .. n /\ f.how = how /\ f.base = base /\ f.values = seq
      /\ f.last = [s \in SUBSET (1 .. n) |-> Max(s)]
    BY DEF FromLeft
<1> HIDE DEF f
<1>2. \A s \in SUBSET (1 .. n) : f.last[s] = Max(s)
    BY <1>1
<1>3. \A s \in SUBSET (1 .. n) :
          Value(G, f, s) = IF s = {} THEN base
                           ELSE FoldStep(how, G[s \ {Max(s)}], seq[Max(s)])
    BY <1>1, <1>2 DEF Value
<1>4. IsFold(G, f) <=> /\ G = [s \in SUBSET (1 .. n) |-> G[s]]
                       /\ \A s \in SUBSET (1 .. n) : G[s] = Value(G, f, s)
    BY <1>1 DEF IsFold
<1>5. IsFold(G, f) <=> LeftValues(G, how, base, seq, n)
    BY <1>3, <1>4 DEF LeftValues
<1> QED
    BY <1>5 DEF f

\* Prefix by prefix.
LEMMA PrefixFold ==
    ASSUME NEW how, NEW base, NEW seq, NEW n \in Nat, NEW G,
           IsFold(G, FromLeft(how, base, seq, n))
    PROVE  /\ G[1 .. 0] = base
           /\ \A k \in 1 .. n : G[1 .. k] = FoldStep(how, G[1 .. k - 1], seq[k])
<1>0. \A s \in SUBSET (1 .. n) :
          G[s] = IF s = {} THEN base ELSE FoldStep(how, G[s \ {Max(s)}], seq[Max(s)])
  <2>1. LeftValues(G, how, base, seq, n)
      BY LeftValue
  <2> QED
      BY <2>1 DEF LeftValues
<1>1. G[1 .. 0] = base
  <2>1. 1 .. 0 = {}
      OBVIOUS
  <2> QED
      BY <1>0, <2>1
<1>2. ASSUME NEW k \in 1 .. n
      PROVE  G[1 .. k] = FoldStep(how, G[1 .. k - 1], seq[k])
  <2>1. 1 .. k \in SUBSET (1 .. n) /\ 1 .. k # {} /\ k \in 1 .. k
      OBVIOUS
  <2>2. Max(1 .. k) = k
    <3>1. Max(1 .. k) \in 1 .. k /\ \A y \in 1 .. k : Max(1 .. k) >= y
        BY <2>1, MaxOf
    <3> QED
        BY <2>1, <3>1
  <2>3. (1 .. k) \ {k} = 1 .. k - 1
      OBVIOUS
  <2> QED
      BY <1>0, <2>1, <2>2, <2>3
<1> QED
    BY <1>1, <1>2

\* FoldLeft of the three steps, prefix by prefix.
LEMMA CollectFold ==
    ASSUME NEW seq, NEW n \in Nat, DOMAIN seq = 1 .. n
    PROVE  \E h : /\ h[0] = EmptyInfo
                  /\ \A k \in 1 .. n : h[k] = CollectTopLevel(h[k - 1], seq[k])
                  /\ FoldLeft(CollectTopLevel, EmptyInfo, seq) = h[n]
<1> DEFINE f == FromLeft("collect", EmptyInfo, seq, n)
           It == CHOOSE G : G = [s \in SUBSET DOMAIN seq |->
                    IF s = {} THEN EmptyInfo ELSE CollectTopLevel(G[s \ {Max(s)}], seq[Max(s)])]
<1>1. \A z, m : FoldStep("collect", z, m) = CollectTopLevel(z, m)
    BY DEF FoldStep
<1>2. \E G : G = [s \in SUBSET DOMAIN seq |->
                    IF s = {} THEN EmptyInfo ELSE CollectTopLevel(G[s \ {Max(s)}], seq[Max(s)])]
  <2>1. Foldable(f)
      BY LeftFoldable
  <2> HIDE DEF f
  <2>2. PICK G : IsFold(G, f)
      BY <2>1, FoldExists
  <2>3. IsFold(G, FromLeft("collect", EmptyInfo, seq, n))
      BY <2>2 DEF f
  <2>4. /\ G = [s \in SUBSET (1 .. n) |-> G[s]]
        /\ \A s \in SUBSET (1 .. n) :
              G[s] = IF s = {} THEN EmptyInfo
                     ELSE FoldStep("collect", G[s \ {Max(s)}], seq[Max(s)])
    <3>1. LeftValues(G, "collect", EmptyInfo, seq, n)
        BY <2>3, LeftValue
    <3> QED
        BY <3>1 DEF LeftValues
  <2>5. \A s \in SUBSET (1 .. n) :
            G[s] = IF s = {} THEN EmptyInfo ELSE CollectTopLevel(G[s \ {Max(s)}], seq[Max(s)])
      BY <1>1, <2>4
  <2> QED
      BY <2>4, <2>5
<1>3. It = [s \in SUBSET DOMAIN seq |->
                IF s = {} THEN EmptyInfo ELSE CollectTopLevel(It[s \ {Max(s)}], seq[Max(s)])]
    BY <1>2
<1>4. FoldLeft(CollectTopLevel, EmptyInfo, seq) = It[DOMAIN seq]
    BY DEF FoldLeft, MapThenFoldSet
<1> HIDE DEF It
<1>5. \A s \in SUBSET (1 .. n) :
          It[s] = IF s = {} THEN EmptyInfo ELSE FoldStep("collect", It[s \ {Max(s)}], seq[Max(s)])
    BY <1>1, <1>3
<1>6. IsFold(It, f)
  <2>1. It = [s \in SUBSET (1 .. n) |-> It[s]]
      BY <1>3
  <2> QED
      BY <1>5, <2>1, LeftValue DEF LeftValues
<1>7. /\ It[1 .. 0] = EmptyInfo
      /\ \A k \in 1 .. n : It[1 .. k] = FoldStep("collect", It[1 .. k - 1], seq[k])
    BY <1>6, PrefixFold
<1> DEFINE h == [k \in 0 .. n |-> It[1 .. k]]
<1>8. h[0] = EmptyInfo /\ \A k \in 1 .. n : h[k] = CollectTopLevel(h[k - 1], seq[k])
    BY <1>1, <1>7
<1>9. FoldLeft(CollectTopLevel, EmptyInfo, seq) = h[n]
    BY <1>4
<1> QED
    BY <1>8, <1>9

LEMMA VisitFold ==
    ASSUME NEW seq, NEW n \in Nat, DOMAIN seq = 1 .. n
    PROVE  \E h : /\ h[0] = FoldLeft(CollectTopLevel, EmptyInfo, seq)
                  /\ \A k \in 1 .. n : h[k] = Visit(h[k - 1], seq[k])
                  /\ Analyzed(seq) = h[n]
<1> DEFINE base == FoldLeft(CollectTopLevel, EmptyInfo, seq)
           f == FromLeft("visit", base, seq, n)
           It == CHOOSE G : G = [s \in SUBSET DOMAIN seq |->
                    IF s = {} THEN base ELSE Visit(G[s \ {Max(s)}], seq[Max(s)])]
<1>1. \A z, m : FoldStep("visit", z, m) = Visit(z, m)
    BY DEF FoldStep
<1>2. \E G : G = [s \in SUBSET DOMAIN seq |->
                    IF s = {} THEN base ELSE Visit(G[s \ {Max(s)}], seq[Max(s)])]
  <2>1. Foldable(f)
      BY LeftFoldable
  <2> HIDE DEF f
  <2>2. PICK G : IsFold(G, f)
      BY <2>1, FoldExists
  <2>3. IsFold(G, FromLeft("visit", base, seq, n))
      BY <2>2 DEF f
  <2>4. /\ G = [s \in SUBSET (1 .. n) |-> G[s]]
        /\ \A s \in SUBSET (1 .. n) :
              G[s] = IF s = {} THEN base
                     ELSE FoldStep("visit", G[s \ {Max(s)}], seq[Max(s)])
    <3>1. LeftValues(G, "visit", base, seq, n)
        BY <2>3, LeftValue
    <3> QED
        BY <3>1 DEF LeftValues
  <2>5. \A s \in SUBSET (1 .. n) :
            G[s] = IF s = {} THEN base ELSE Visit(G[s \ {Max(s)}], seq[Max(s)])
      BY <1>1, <2>4
  <2> QED
      BY <2>4, <2>5
<1>3. It = [s \in SUBSET DOMAIN seq |->
                IF s = {} THEN base ELSE Visit(It[s \ {Max(s)}], seq[Max(s)])]
    BY <1>2
<1>4. Analyzed(seq) = It[DOMAIN seq]
    BY DEF Analyzed, FoldLeft, MapThenFoldSet
<1> HIDE DEF It, base
<1>5. \A s \in SUBSET (1 .. n) :
          It[s] = IF s = {} THEN base ELSE FoldStep("visit", It[s \ {Max(s)}], seq[Max(s)])
    BY <1>1, <1>3
<1>6. IsFold(It, f)
  <2>1. It = [s \in SUBSET (1 .. n) |-> It[s]]
      BY <1>3
  <2> QED
      BY <1>5, <2>1, LeftValue DEF LeftValues
<1>7. /\ It[1 .. 0] = base
      /\ \A k \in 1 .. n : It[1 .. k] = FoldStep("visit", It[1 .. k - 1], seq[k])
    BY <1>6, PrefixFold
<1> DEFINE h == [k \in 0 .. n |-> It[1 .. k]]
<1>8. h[0] = base /\ \A k \in 1 .. n : h[k] = Visit(h[k - 1], seq[k])
    BY <1>1, <1>7
<1>9. Analyzed(seq) = h[n]
    BY <1>4
<1> QED
    BY <1>8, <1>9 DEF base

LEMMA OpenFold ==
    ASSUME NEW seq, NEW n \in Nat, DOMAIN seq = 1 .. n
    PROVE  \E h : /\ h[0] = <<>>
                  /\ \A k \in 1 .. n : h[k] = Opened(h[k - 1], seq[k])
                  /\ FoldLeft(Opened, <<>>, seq) = h[n]
<1> DEFINE f == FromLeft("open", <<>>, seq, n)
           It == CHOOSE G : G = [s \in SUBSET DOMAIN seq |->
                    IF s = {} THEN <<>> ELSE Opened(G[s \ {Max(s)}], seq[Max(s)])]
<1>1. \A z, m : FoldStep("open", z, m) = Opened(z, m)
    BY DEF FoldStep
<1>2. \E G : G = [s \in SUBSET DOMAIN seq |->
                    IF s = {} THEN <<>> ELSE Opened(G[s \ {Max(s)}], seq[Max(s)])]
  <2>1. Foldable(f)
      BY LeftFoldable
  <2> HIDE DEF f
  <2>2. PICK G : IsFold(G, f)
      BY <2>1, FoldExists
  <2>3. IsFold(G, FromLeft("open", <<>>, seq, n))
      BY <2>2 DEF f
  <2>4. /\ G = [s \in SUBSET (1 .. n) |-> G[s]]
        /\ \A s \in SUBSET (1 .. n) :
              G[s] = IF s = {} THEN <<>>
                     ELSE FoldStep("open", G[s \ {Max(s)}], seq[Max(s)])
    <3>1. LeftValues(G, "open", <<>>, seq, n)
        BY <2>3, LeftValue
    <3> QED
        BY <3>1 DEF LeftValues
  <2>5. \A s \in SUBSET (1 .. n) :
            G[s] = IF s = {} THEN <<>> ELSE Opened(G[s \ {Max(s)}], seq[Max(s)])
      BY <1>1, <2>4
  <2> QED
      BY <2>4, <2>5
<1>3. It = [s \in SUBSET DOMAIN seq |->
                IF s = {} THEN <<>> ELSE Opened(It[s \ {Max(s)}], seq[Max(s)])]
    BY <1>2
<1>4. FoldLeft(Opened, <<>>, seq) = It[DOMAIN seq]
    BY DEF FoldLeft, MapThenFoldSet
<1> HIDE DEF It
<1>5. \A s \in SUBSET (1 .. n) :
          It[s] = IF s = {} THEN <<>> ELSE FoldStep("open", It[s \ {Max(s)}], seq[Max(s)])
    BY <1>1, <1>3
<1>6. IsFold(It, f)
  <2>1. It = [s \in SUBSET (1 .. n) |-> It[s]]
      BY <1>3
  <2> QED
      BY <1>5, <2>1, LeftValue DEF LeftValues
<1>7. /\ It[1 .. 0] = <<>>
      /\ \A k \in 1 .. n : It[1 .. k] = FoldStep("open", It[1 .. k - 1], seq[k])
    BY <1>6, PrefixFold
<1> DEFINE h == [k \in 0 .. n |-> It[1 .. k]]
<1>8. h[0] = <<>> /\ \A k \in 1 .. n : h[k] = Opened(h[k - 1], seq[k])
    BY <1>1, <1>7
<1>9. FoldLeft(Opened, <<>>, seq) = h[n]
    BY <1>4
<1> QED
    BY <1>8, <1>9

-----------------------------------------------------------------------------
(* The invariants *)

\* The sinks hold sequences of events.
SinkShape ==
    /\ pending \in [Instances -> Seq(Events)]
    /\ log \in Seq(Events) /\ memory \in Seq(Events)

\* An event is where it was recorded, in the order of record, and in one place: a write
\* under way of one sink, or a line of the log.
EventsOnce ==
    /\ \A i \in Instances : \A a, b \in DOMAIN pending[i] :
          a < b => pending[i][a] < pending[i][b]
    /\ \A i \in Instances : \A a \in DOMAIN pending[i] : pending[i][a] <= recorded
    /\ \A a \in DOMAIN log : log[a] <= recorded
    /\ \A i, j \in Instances : i # j =>
          \A a \in DOMAIN pending[i], b \in DOMAIN pending[j] : pending[i][a] # pending[j][b]
    /\ \A i \in Instances : \A a \in DOMAIN pending[i], b \in DOMAIN log :
          pending[i][a] # log[b]

\* The time a case has taken, prompt by prompt.
Clock ==
    /\ stage = "agent" =>
          (turn = 1 /\ spent = 0) \/ (turn = 2 /\ spent < Budget)
    /\ spent < 2 * Budget

\* What a case has: a judged one has completed.
Judged(e) == e.status # "completed" => e.checks = NoChecks /\ e.grade = NoGrade

\* Past its turns a case has an outcome, and only completed cases were judged.
OutcomeKnown ==
    /\ stage \in {"judge", "flush", "flushing", "write"} => outcome.status \in Statuses
    /\ Judged(outcome) /\ \A c \in Cases : Judged(evaluated[c])

\* The workflow of a case is started by its seed, and at work during its turns only,
\* unless it outlives them.
WorkflowOfCase ==
    /\ \A c \in Cases : c > current => workflow[c] = "none"
    /\ stage = "seed" => workflow[current] = "none"
    /\ stage = "agent" => workflow[current] = "running"
    /\ stage = "grace" => workflow[current] \in {"aborting", "ended"}
    /\ stage = "judge" => workflow[current] = "ended"
    /\ \A c \in Cases : workflow[c] \in {"running", "aborting"} =>
          c = current /\ stage \in {"agent", "grace", "exited"}

\* While no workflow has outlived its grace: only the current sink has writes under way,
\* the log is a prefix of the order of record, and a flush awaits all there is.
LogFollowsRecord ==
    Outlived = {} =>
        /\ \A i \in Instances : i # instance => pending[i] = <<>>
        /\ \A i, j \in DOMAIN log : i < j => log[i] < log[j]
        /\ \A i \in Instances : \A a \in DOMAIN pending[i], b \in DOMAIN log :
              log[b] < pending[i][a]
        /\ stage = "flushing" => ToSet(pending[instance]) \subseteq awaited
        /\ stage \in {"agent", "grace"} => polluter \in {0, current}

\* The cases are evaluated in their order, and their results are on disk.
InCaseOrder ==
    /\ \A c \in Cases : stored[c] = evaluated[c].status
    /\ stage \in {"seed", "agent", "grace", "judge", "flush", "flushing", "write"} =>
          Evaluated = 1 .. current - 1 /\ exit = -1
    /\ stage \in {"report", "reporting", "gate"} /\ exit = -1 => Evaluated = Cases
    /\ stage = "gate" => exit = -1
    /\ exit = 0 => stage = "exited"
    /\ stage # "exited" => exit \in {-1, 1}

\* Unless a signal came in between, the report the run ends with is the one of main.
ReportOfMain ==
    ~signalled =>
        /\ writing \subseteq {<<"main", Cardinality(Evaluated)>>}
        /\ stage \notin {"reporting", "exited"} => writing = {}
        /\ stage = "reporting" /\ exit = -1 /\ writing = {} => report = Cases
        /\ stage = "gate" => report = Cases

Stages == {"seed", "agent", "grace", "judge", "flush", "flushing", "write", "report",
           "reporting", "gate", "exited"}

\* TypeOK of the runner and of its results, side by side.
RunnerType ==
    /\ stage \in Stages
    /\ current \in Cases /\ turn \in 1 .. 2 /\ spent \in 0 .. 3 * Budget
    /\ workflow \in [Cases -> {"none", "running", "aborting", "ended", "left", "late"}]
    /\ polluter \in Cases \cup {0} /\ outcome \in Outcomes /\ source \in Sources \cup {{}}
ResultsType ==
    /\ awaited \subseteq Events
    /\ stored \in [Cases -> Statuses \cup {Missing}]
    /\ evaluated \in [Cases -> Outcomes]
    /\ writing \subseteq {"main", "signal"} \X Cases /\ report \subseteq Cases
    /\ signalled \in BOOLEAN /\ exit \in {-1, 0, 1, 130}

SinkInv == SinkTypeOK /\ SinkShape /\ EventsOnce
TypeInv == SinkInv /\ RunnerType /\ ResultsType /\ Clock

-----------------------------------------------------------------------------
(* The sinks *)

LEMMA SinkInitHolds == SinkInit => SinkInv
<1> SUFFICES ASSUME SinkInit PROVE SinkInv
    OBVIOUS
<1>1. SinkShape
    BY DEF SinkInit, SinkShape
<1>2. SinkTypeOK
    BY SinkAssumption DEF SinkInit, SinkTypeOK, Instances, IsInjective, ToSet
<1>3. EventsOnce
    BY DEF SinkInit, EventsOnce
<1> QED
    BY <1>1, <1>2, <1>3 DEF SinkInv

\* MultiSink.record.
LEMMA RecordKeepsSinks ==
    ASSUME SinkInv, Record
    PROVE  SinkInv'
<1> USE SinkAssumption
<1> DEFINE e == recorded + 1
<1>0. SinkTypeOK /\ SinkShape /\ EventsOnce
    BY DEF SinkInv
<1>1. /\ e \in Events /\ recorded' = e /\ instance \in Instances /\ instance' = instance
      /\ log' = log /\ lost' = lost
      /\ pending' = [pending EXCEPT ![instance] = Append(@, e)]
      /\ memory' = Newest(Append(memory, e))
    BY <1>0 DEF Record, SinkTypeOK, Events
<1> DEFINE s == pending[instance]
<1>2. /\ s \in Seq(Events) /\ Append(s, e) \in Seq(Events) /\ Len(s) \in Nat
      /\ DOMAIN s = 1 .. Len(s)
      /\ DOMAIN Append(s, e) = 1 .. Len(s) + 1 /\ Append(s, e)[Len(s) + 1] = e
      /\ \A a \in 1 .. Len(s) : Append(s, e)[a] = s[a]
    BY <1>0, <1>1 DEF SinkShape
<1>3. \A i \in Instances : pending'[i] = IF i = instance THEN Append(s, e) ELSE pending[i]
    BY <1>0, <1>1 DEF SinkShape
<1>4. SinkShape'
  <2>1. pending' \in [Instances -> Seq(Events)]
      BY <1>0, <1>1, <1>2 DEF SinkShape
  <2>2. memory' \in Seq(Events)
    <3>1. memory \in Seq(Events)
        BY <1>0 DEF SinkShape
    <3>2. Append(memory, e) \in Seq(Events) /\ Append(memory, e) # <<>>
        BY <1>1, <3>1
    <3>3. Tail(Append(memory, e)) \in Seq(Events)
        BY <3>2
    <3> QED
        BY <1>1, <3>2, <3>3 DEF Newest
  <2> QED
      BY <1>0, <1>1, <2>1, <2>2 DEF SinkShape
<1>5. \A i \in Instances : \A a \in DOMAIN pending[i] : pending[i][a] \in Events /\ pending[i][a] <= recorded
    BY <1>0 DEF SinkShape, EventsOnce
<1>6. \A b \in DOMAIN log : log[b] \in Events /\ log[b] <= recorded
    BY <1>0 DEF SinkShape, EventsOnce
<1>r. recorded \in Nat /\ e \in Nat /\ e > recorded /\ Events \subseteq Nat
    BY <1>0 DEF SinkTypeOK, Events
<1> HIDE DEF e, s
<1>n. ASSUME NEW i \in Instances, NEW a \in DOMAIN pending'[i]
      PROVE  /\ a \in Nat
             /\ \/ a \in DOMAIN pending[i] /\ pending'[i][a] = pending[i][a]
                \/ i = instance /\ a > Len(s) /\ pending'[i][a] = e
  <2>1. CASE i # instance
    <3>1. pending'[i] = pending[i] /\ pending[i] \in Seq(Events)
        BY <1>0, <1>3, <2>1 DEF SinkShape
    <3> QED
        BY <3>1
  <2>2. CASE i = instance
    <3>1. pending'[i] = Append(s, e) /\ pending[i] = s
        BY <1>3, <2>2 DEF s
    <3>2. a \in 1 .. Len(s) + 1
        BY <1>2, <3>1
    <3>3. a \in 1 .. Len(s) \/ a = Len(s) + 1
        BY <1>2, <3>2
    <3> QED
        BY <1>2, <2>2, <3>1, <3>2, <3>3
  <2> QED
      BY <2>1, <2>2
<1>o. \A i \in Instances : \A a \in DOMAIN pending[i] :
          pending[i][a] \in Nat /\ pending[i][a] < e
  <2> TAKE i \in Instances
  <2> TAKE a \in DOMAIN pending[i]
  <2>1. pending[i][a] \in Events /\ pending[i][a] <= recorded
      BY <1>5
  <2>2. \A x, y, z \in Nat : x <= y /\ z > y => x < z
      OBVIOUS
  <2>3. pending[i][a] \in Nat
      BY <2>1, <1>r
  <2> QED
      BY <2>1, <2>2, <2>3, <1>r
<1>7. EventsOnce'
  <2>1. ASSUME NEW i \in Instances, NEW a \in DOMAIN pending'[i], NEW b \in DOMAIN pending'[i],
               a < b
        PROVE  pending'[i][a] < pending'[i][b]
    <3>1. CASE a \in DOMAIN pending[i] /\ b \in DOMAIN pending[i]
        BY <1>0, <1>2, <1>n, <2>1, <3>1 DEF EventsOnce, s
    <3>2. CASE a \in DOMAIN pending[i] /\ i = instance /\ pending'[i][b] = e
      <4>1. pending'[i][a] = pending[i][a]
          BY <1>2, <1>n, <3>2 DEF s
      <4> QED
          BY <1>o, <3>2, <4>1
    <3>3. CASE i = instance /\ a > Len(s)
        <4>1. b \in 1 .. Len(s) + 1 /\ a \in 1 .. Len(s) + 1
            BY <1>2, <1>3, <3>3
        <4> QED
            BY <1>2, <2>1, <3>3, <4>1
    <3> QED
        BY <1>n, <3>1, <3>2, <3>3
  <2>2. ASSUME NEW i \in Instances, NEW j \in Instances, i # j,
               NEW a \in DOMAIN pending'[i], NEW b \in DOMAIN pending'[j]
        PROVE  pending'[i][a] # pending'[j][b]
    <3>1. \/ a \in DOMAIN pending[i] /\ pending'[i][a] = pending[i][a]
          \/ i = instance /\ pending'[i][a] = e
        BY <1>n
    <3>2. \/ b \in DOMAIN pending[j] /\ pending'[j][b] = pending[j][b]
          \/ j = instance /\ pending'[j][b] = e
        BY <1>n
    <3>3. CASE a \in DOMAIN pending[i] /\ b \in DOMAIN pending[j]
               /\ pending'[i][a] = pending[i][a] /\ pending'[j][b] = pending[j][b]
        BY <1>0, <2>2, <3>3 DEF EventsOnce
    <3> QED
        BY <1>o, <1>r, <2>2, <3>1, <3>2, <3>3
  <2>3. ASSUME NEW i \in Instances, NEW a \in DOMAIN pending'[i]
        PROVE  /\ pending'[i][a] <= recorded'
               /\ \A b \in DOMAIN log : pending'[i][a] # log[b]
    <3>1. CASE a \in DOMAIN pending[i] /\ pending'[i][a] = pending[i][a]
      <4>1. pending[i][a] < e /\ pending[i][a] \in Nat
          BY <1>o, <3>1
      <4>2. \A b \in DOMAIN log : pending[i][a] # log[b]
          BY <1>0, <3>1 DEF EventsOnce
      <4> QED
          BY <1>1, <1>r, <3>1, <4>1, <4>2
    <3>2. CASE pending'[i][a] = e
        BY <1>1, <1>6, <1>r, <3>2
    <3> QED
        BY <1>n, <3>1, <3>2
  <2>4. \A b \in DOMAIN log' : log'[b] <= recorded'
    <3>1. log' = log /\ recorded' = e
        BY <1>1
    <3>2. \A b \in DOMAIN log : log[b] \in Nat /\ log[b] <= recorded
        BY <1>6, <1>r
    <3>3. \A b \in DOMAIN log : log[b] <= e
        BY <1>r, <3>2
    <3> QED
        BY <3>1, <3>3
  <2>5. log' = log
      BY <1>1
  <2> QED
      BY <2>1, <2>2, <2>3, <2>4, <2>5 DEF EventsOnce
<1>8. SinkTypeOK'
  <2>1. ASSUME NEW i \in Instances PROVE IsInjective(pending[i])' /\ ToSet(pending[i])' \subseteq Events
    <3>1. pending'[i] \in Seq(Events)
        BY <1>4 DEF SinkShape
    <3>2. \A a \in DOMAIN pending'[i] : a \in Nat /\ pending'[i][a] \in Events /\ pending'[i][a] \in Nat
      <4>1. DOMAIN pending'[i] = 1 .. Len(pending'[i]) /\ Len(pending'[i]) \in Nat
            /\ \A a \in DOMAIN pending'[i] : pending'[i][a] \in Events
          BY <3>1
      <4>2. \A x \in Events : x \in Nat
          BY <1>r
      <4>3. \A a \in 1 .. Len(pending'[i]) : a \in Nat
          BY <4>1
      <4> QED
          BY <4>1, <4>2, <4>3
    <3>3. \A a, b \in DOMAIN pending'[i] : a < b => pending'[i][a] < pending'[i][b]
        BY <1>7 DEF EventsOnce
    <3>4. \A a, b \in DOMAIN pending'[i] : pending'[i][a] = pending'[i][b] => a = b
        BY <3>2, <3>3
    <3> QED
        BY <3>1, <3>4 DEF IsInjective, ToSet
  <2>2. Len(memory') <= MemoryCap
    <3>1. memory \in Seq(Events) /\ Len(memory) <= MemoryCap /\ Len(memory) \in Nat
        BY <1>0 DEF SinkShape, SinkTypeOK
    <3>2. Append(memory, e) \in Seq(Events) /\ Len(Append(memory, e)) = Len(memory) + 1
        BY <1>1, <3>1
    <3>3. Append(memory, e) # <<>>
        BY <1>1, <3>1
    <3>4. Len(Tail(Append(memory, e))) = Len(memory)
        BY <3>1, <3>2, <3>3
    <3>5. MemoryCap \in Nat /\ memory' = IF Len(Append(memory, e)) > MemoryCap
                                         THEN Tail(Append(memory, e)) ELSE Append(memory, e)
        BY <1>1 DEF Newest
    <3> HIDE DEF e
    <3> QED
        BY <3>1, <3>2, <3>4, <3>5
  <2> QED
      BY <1>0, <1>1, <2>1, <2>2 DEF SinkTypeOK, IsInjective, ToSet, Events
<1> QED
    BY <1>4, <1>7, <1>8 DEF SinkInv

\* The first write of a chain is the one that ends.
LEMMA FirstRemoved ==
    ASSUME NEW S, NEW s \in Seq(S), 1 \in DOMAIN s
    PROVE  /\ RemoveAt(s, 1) \in Seq(S) /\ DOMAIN RemoveAt(s, 1) = 1 .. Len(s) - 1
           /\ \A a \in 1 .. Len(s) - 1 : RemoveAt(s, 1)[a] = s[a + 1]
           /\ \A a \in 1 .. Len(s) - 1 : a + 1 \in DOMAIN s
<1>0. Len(s) \in Nat /\ DOMAIN s = 1 .. Len(s)
    OBVIOUS
<1>1. Len(s) \in Nat /\ Len(s) >= 1 /\ DOMAIN s = 1 .. Len(s)
    BY <1>0
<1>2. /\ SubSeq(s, 1, 0) = <<>>
      /\ SubSeq(s, 2, Len(s)) \in Seq(S) /\ Len(SubSeq(s, 2, Len(s))) = Len(s) - 1
      /\ \A a \in 1 .. Len(s) - 1 : SubSeq(s, 2, Len(s))[a] = s[a + 1]
    BY <1>1
<1>3. RemoveAt(s, 1) = <<>> \o SubSeq(s, 2, Len(s))
    BY <1>2 DEF RemoveAt
<1>4. <<>> \o SubSeq(s, 2, Len(s)) = SubSeq(s, 2, Len(s))
    BY <1>2
<1> DEFINE t == SubSeq(s, 2, Len(s))
<1>5. t \in Seq(S) /\ Len(t) = Len(s) - 1 /\ RemoveAt(s, 1) = t
      /\ \A a \in 1 .. Len(s) - 1 : t[a] = s[a + 1]
    BY <1>2, <1>3, <1>4
<1> HIDE DEF t
<1>6. DOMAIN t = 1 .. Len(s) - 1
    BY <1>5
<1>7. \A a \in 1 .. Len(s) - 1 : a + 1 \in DOMAIN s
    BY <1>1
<1> QED
    BY <1>5, <1>6, <1>7, Zenon

\* What Append1 does: the first write under way ends, in the log or lost.
LEMMA AppendEffect ==
    ASSUME SinkShape, NEW i \in Instances, Append1(i)
    PROVE  /\ 1 \in DOMAIN pending[i]
           /\ pending' = [pending EXCEPT ![i] = RemoveAt(@, 1)]
           /\ \/ log' = Append(log, pending[i][1]) /\ lost' = lost
              \/ lost' = lost \cup {pending[i][1]} /\ log' = log
           /\ UNCHANGED <<instance, recorded, memory>>
           /\ \A j \in Instances : \A a \in DOMAIN pending'[j] :
                 LET b == IF j = i THEN a + 1 ELSE a
                 IN  a \in Nat \ {0} /\ b \in DOMAIN pending[j] /\ pending'[j][a] = pending[j][b]
<1>1. PICK k \in NextWrite(pending[i]) :
         /\ pending' = [pending EXCEPT ![i] = RemoveAt(@, k)]
         /\ \/ log' = Append(log, pending[i][k]) /\ UNCHANGED lost
            \/ lost' = lost \cup {pending[i][k]} /\ UNCHANGED log
    BY DEF Append1
<1>2. k = 1 /\ 1 \in DOMAIN pending[i]
    BY DEF NextWrite
<1>3. UNCHANGED <<instance, recorded, memory>>
    BY DEF Append1
<1>4. ASSUME NEW j \in Instances, NEW a \in DOMAIN pending'[j]
      PROVE  LET b == IF j = i THEN a + 1 ELSE a
             IN  a \in Nat \ {0} /\ b \in DOMAIN pending[j] /\ pending'[j][a] = pending[j][b]
  <2>1. CASE j = i
    <3>1. pending'[i] = RemoveAt(pending[i], 1) /\ pending[i] \in Seq(Events)
        BY <1>1, <1>2 DEF SinkShape
    <3> DEFINE s == pending[i]
    <3>0. s \in Seq(Events) /\ 1 \in DOMAIN s
        BY <1>2, <3>1
    <3> HIDE DEF s
    <3>2. /\ DOMAIN RemoveAt(s, 1) = 1 .. Len(s) - 1
          /\ \A x \in 1 .. Len(s) - 1 : RemoveAt(s, 1)[x] = s[x + 1] /\ x + 1 \in DOMAIN s
        BY <3>0, FirstRemoved
    <3>4. a \in 1 .. Len(s) - 1 /\ pending'[j][a] = RemoveAt(s, 1)[a] /\ pending[j] = s
        BY <2>1, <3>1, <3>2 DEF s
    <3>3. a \in Nat \ {0}
        BY <3>0, <3>4
    <3> QED
        BY <2>1, <3>2, <3>3, <3>4
  <2>2. CASE j # i
    <3>1. pending'[j] = pending[j] /\ pending[j] \in Seq(Events)
        BY <1>1, <2>2 DEF SinkShape
    <3> QED
        BY <2>2, <3>1
  <2> QED
      BY <2>1, <2>2
<1> QED
    BY <1>1, <1>2, <1>3, <1>4

\* FileSink: a write ends, well or not.
LEMMA AppendKeepsSinks ==
    ASSUME SinkInv, NEW i \in Instances, Append1(i)
    PROVE  SinkInv'
<1> DEFINE e == pending[i][1]
<1>0. SinkTypeOK /\ SinkShape /\ EventsOnce
    BY DEF SinkInv
<1>1. /\ 1 \in DOMAIN pending[i]
      /\ pending' = [pending EXCEPT ![i] = RemoveAt(@, 1)]
      /\ \/ log' = Append(log, e) /\ lost' = lost
         \/ lost' = lost \cup {e} /\ log' = log
      /\ UNCHANGED <<instance, recorded, memory>>
    BY <1>0, AppendEffect
<1>2. ASSUME NEW j \in Instances, NEW a \in DOMAIN pending'[j]
      PROVE  LET b == IF j = i THEN a + 1 ELSE a
             IN  a \in Nat \ {0} /\ b \in DOMAIN pending[j] /\ pending'[j][a] = pending[j][b]
    BY <1>0, AppendEffect
<1>3. e \in Events /\ e <= recorded /\ recorded \in Nat /\ recorded' = recorded
    BY <1>0, <1>1 DEF SinkShape, EventsOnce, SinkTypeOK
<1>4. \A a \in DOMAIN pending[i] : a # 1 => pending[i][a] # e
  <2>1. pending[i] \in Seq(Events)
      BY <1>0 DEF SinkShape
  <2>2. IsInjective(pending[i])
      BY <1>0 DEF SinkTypeOK
  <2> QED
      BY <1>1, <2>1, <2>2 DEF IsInjective
<1>5. \A j \in Instances : j # i => \A a \in DOMAIN pending[j] : pending[j][a] # e
    BY <1>0, <1>1 DEF EventsOnce
<1>6. ASSUME NEW j \in Instances, NEW a \in DOMAIN pending'[j]
      PROVE  pending'[j][a] # e
  <2>1. CASE j = i
    <3>1. a \in Nat \ {0} /\ a + 1 \in DOMAIN pending[i] /\ pending'[j][a] = pending[i][a + 1]
        BY <1>2, <2>1
    <3>2. a + 1 # 1
        BY <3>1
    <3> HIDE DEF e
    <3> QED
        BY <1>4, <3>1, <3>2
  <2>2. CASE j # i
    <3>1. a \in DOMAIN pending[j] /\ pending'[j][a] = pending[j][a]
        BY <1>2, <2>2
    <3> HIDE DEF e
    <3> QED
        BY <1>5, <2>2, <3>1
  <2> QED
      BY <2>1, <2>2
<1>7. \A b \in DOMAIN log : log[b] # e /\ log[b] <= recorded /\ log[b] \in Events
    BY <1>0, <1>1 DEF EventsOnce, SinkShape
<1> HIDE DEF e
<1>8. ASSUME NEW b \in DOMAIN log'
      PROVE  /\ \/ b \in DOMAIN log /\ log'[b] = log[b]
                \/ b = Len(log) + 1 /\ log'[b] = e
             /\ b \in Nat /\ DOMAIN log = 1 .. Len(log) /\ Len(log) \in Nat
  <2>1. log \in Seq(Events)
      BY <1>0 DEF SinkShape
  <2>2. Len(log) \in Nat /\ DOMAIN log = 1 .. Len(log)
      BY <2>1
  <2>3. CASE log' = log
      BY <2>2, <2>3
  <2>4. CASE log' = Append(log, e)
    <3>1. /\ DOMAIN Append(log, e) = 1 .. Len(log) + 1
          /\ Append(log, e)[Len(log) + 1] = e
          /\ \A x \in 1 .. Len(log) : Append(log, e)[x] = log[x]
        BY <1>3, <2>1, <2>2
    <3>2. b \in 1 .. Len(log) + 1 /\ log'[b] = Append(log, e)[b]
        BY <2>4, <3>1
    <3>3. b \in 1 .. Len(log) \/ b = Len(log) + 1
        BY <2>2, <3>2
    <3> QED
        BY <2>2, <3>1, <3>2, <3>3
  <2> QED
      BY <1>1, <2>3, <2>4
<1>9. SinkShape'
  <2>1. pending' \in [Instances -> Seq(Events)]
    <3>0. pending[i] \in Seq(Events)
        BY <1>0 DEF SinkShape
    <3>1. RemoveAt(pending[i], 1) \in Seq(Events)
        BY <1>1, <3>0, FirstRemoved
    <3> QED
        BY <1>0, <1>1, <3>1 DEF SinkShape
  <2>2. log' \in Seq(Events)
    <3>1. log \in Seq(Events)
        BY <1>0 DEF SinkShape
    <3>2. Append(log, e) \in Seq(Events)
        BY <1>3, <3>1
    <3> QED
        BY <1>1, <3>1, <3>2
  <2> QED
      BY <1>0, <1>1, <2>1, <2>2 DEF SinkShape
<1>10. EventsOnce'
  <2>1. ASSUME NEW j \in Instances, NEW a \in DOMAIN pending'[j], NEW b \in DOMAIN pending'[j],
               a < b
        PROVE  pending'[j][a] < pending'[j][b]
    <3>1. CASE j = i
      <4>1. /\ a + 1 \in DOMAIN pending[j] /\ b + 1 \in DOMAIN pending[j] /\ a + 1 < b + 1
            /\ pending'[j][a] = pending[j][a + 1] /\ pending'[j][b] = pending[j][b + 1]
          BY <1>2, <2>1, <3>1
      <4> QED
          BY <1>0, <4>1 DEF EventsOnce
    <3>2. CASE j # i
      <4>1. /\ a \in DOMAIN pending[j] /\ b \in DOMAIN pending[j]
            /\ pending'[j][a] = pending[j][a] /\ pending'[j][b] = pending[j][b]
          BY <1>2, <3>2
      <4> QED
          BY <1>0, <2>1, <4>1 DEF EventsOnce
    <3> QED
        BY <3>1, <3>2
  <2>2. ASSUME NEW j \in Instances, NEW a \in DOMAIN pending'[j]
        PROVE  /\ pending'[j][a] <= recorded'
               /\ \A b \in DOMAIN log' : pending'[j][a] # log'[b]
    <3>1. PICK x \in DOMAIN pending[j] : pending'[j][a] = pending[j][x]
        BY <1>2
    <3>2. pending[j][x] <= recorded /\ \A b \in DOMAIN log : pending[j][x] # log[b]
        BY <1>0 DEF EventsOnce
    <3>3. pending[j][x] # e
        BY <1>6, <3>1
    <3> QED
        BY <1>3, <1>8, <3>1, <3>2, <3>3
  <2>3. ASSUME NEW j \in Instances, NEW k \in Instances, j # k,
               NEW a \in DOMAIN pending'[j], NEW b \in DOMAIN pending'[k]
        PROVE  pending'[j][a] # pending'[k][b]
    <3>1. PICK x \in DOMAIN pending[j] : pending'[j][a] = pending[j][x]
        BY <1>2
    <3>2. PICK y \in DOMAIN pending[k] : pending'[k][b] = pending[k][y]
        BY <1>2
    <3> QED
        BY <1>0, <2>3, <3>1, <3>2 DEF EventsOnce
  <2>4. \A b \in DOMAIN log' : log'[b] <= recorded'
      BY <1>3, <1>7, <1>8
  <2> QED
      BY <2>1, <2>2, <2>3, <2>4 DEF EventsOnce
<1>11. SinkTypeOK'
  <2>1. ASSUME NEW j \in Instances
        PROVE  IsInjective(pending'[j]) /\ ToSet(pending'[j]) \subseteq Events
    <3>1. ASSUME NEW a \in DOMAIN pending'[j], NEW b \in DOMAIN pending'[j],
                 pending'[j][a] = pending'[j][b]
          PROVE  a = b
      <4>1. IsInjective(pending[j])
          BY <1>0 DEF SinkTypeOK
      <4>2. CASE j = i
        <5>1. a \in Nat /\ b \in Nat
              /\ a + 1 \in DOMAIN pending[j] /\ b + 1 \in DOMAIN pending[j]
              /\ pending'[j][a] = pending[j][a + 1] /\ pending'[j][b] = pending[j][b + 1]
            BY <1>2, <4>2
        <5>2. a + 1 = b + 1
            BY <3>1, <4>1, <5>1 DEF IsInjective
        <5> QED
            BY <5>1, <5>2
      <4>3. CASE j # i
        <5>1. /\ a \in DOMAIN pending[j] /\ b \in DOMAIN pending[j]
              /\ pending'[j][a] = pending[j][a] /\ pending'[j][b] = pending[j][b]
            BY <1>2, <4>3
        <5> QED
            BY <3>1, <4>1, <5>1 DEF IsInjective
      <4> QED
          BY <4>2, <4>3
    <3>2. pending'[j] \in Seq(Events)
        BY <1>9 DEF SinkShape
    <3> QED
        BY <3>1, <3>2 DEF IsInjective, ToSet
  <2>2. IsInjective(log') /\ ToSet(log') \cup lost' \subseteq Events
    <3>1. ASSUME NEW a \in DOMAIN log', NEW b \in DOMAIN log', log'[a] = log'[b]
          PROVE  a = b
      <4>1. \A x, y \in DOMAIN log : log[x] = log[y] => x = y
          BY <1>0 DEF SinkTypeOK, IsInjective
      <4> QED
          BY <1>7, <1>8, <3>1, <4>1
    <3>2. log' \in Seq(Events)
        BY <1>9 DEF SinkShape
    <3>3. lost' \subseteq Events
        BY <1>0, <1>1, <1>3 DEF SinkTypeOK
    <3> QED
        BY <3>1, <3>2, <3>3 DEF IsInjective, ToSet
  <2>3. \A j \in Instances : IsInjective(pending[j])' /\ ToSet(pending[j])' \subseteq Events
      BY <2>1 DEF IsInjective, ToSet
  <2>4. IsInjective(log)' /\ (ToSet(log) \cup lost)' \subseteq Events
      BY <2>2 DEF IsInjective, ToSet
  <2>5. instance' = instance /\ recorded' = recorded /\ memory' = memory
      BY <1>1
  <2> QED
      BY <1>0, <2>3, <2>4, <2>5, Zenon DEF SinkTypeOK, Events, Instances
<1> QED
    BY <1>9, <1>10, <1>11 DEF SinkInv

\* resetEventSink: other sinks, the same writes.
LEMMA ResetKeepsSinks ==
    ASSUME SinkInv, Reset
    PROVE  SinkInv'
<1>0. SinkTypeOK /\ SinkShape /\ EventsOnce
    BY DEF SinkInv
<1>1. /\ instance' \in Instances /\ memory' = <<>>
      /\ UNCHANGED <<recorded, pending, log, lost>>
    BY <1>0, SinkAssumption DEF Reset, SinkTypeOK, Instances
<1>2. SinkShape'
    BY <1>0, <1>1 DEF SinkShape
<1>3. EventsOnce'
    BY <1>0, <1>1 DEF EventsOnce
<1>4. SinkTypeOK'
    BY <1>0, <1>1, SinkAssumption DEF SinkTypeOK, IsInjective, ToSet
<1> QED
    BY <1>2, <1>3, <1>4 DEF SinkInv

LEMMA SinksUnchanged ==
    ASSUME SinkInv, UNCHANGED sink
    PROVE  SinkInv'
BY DEF SinkInv, sink, SinkTypeOK, SinkShape, EventsOnce, IsInjective, ToSet

-----------------------------------------------------------------------------
(* Type correctness *)

\* The numbers of the model.
LEMMA Numbers ==
    /\ NumCases \in Nat \ {0} /\ Budget \in Nat \ {0} /\ Repairs \in Nat
    /\ Features \in Nat /\ Floor \in 0 .. 100
    /\ Cases \subseteq Nat \ {0} /\ IsFiniteSet(Cases) /\ Cardinality(Cases) = NumCases
<1>1. NumCases \in Nat \ {0} /\ Budget \in Nat \ {0} /\ Repairs \in Nat /\ Floor \in 0 .. 100
    BY EvalAssumption
<1>2. Features \in Nat
    BY EvalAssumption, FS_CardinalityType DEF Features
<1>3. IsFiniteSet(Cases) /\ Cardinality(Cases) = NumCases
    BY <1>1, FS_Interval DEF Cases
<1>4. Cases \subseteq Nat \ {0}
    BY <1>1 DEF Cases
<1> QED
    BY <1>1, <1>2, <1>3, <1>4

\* How many cases are evaluated.
LEMMA EvaluatedCount ==
    /\ IsFiniteSet(Evaluated) /\ Cardinality(Evaluated) \in 0 .. NumCases
    /\ Evaluated # {} => Cardinality(Evaluated) \in Cases
<1>1. Evaluated \subseteq Cases
    BY DEF Evaluated
<1>2. /\ IsFiniteSet(Evaluated) /\ Cardinality(Evaluated) <= NumCases
      /\ Cardinality(Evaluated) \in Nat
    BY <1>1, Numbers, FS_Subset, FS_CardinalityType
<1>3. Cardinality(Evaluated) = 0 => Evaluated = {}
    BY <1>2, FS_EmptySet
<1> QED
    BY <1>2, <1>3, Numbers DEF Cases

LEMMA EmittedType ==
    ASSUME ResultsType, NEW who \in {"main", "signal"}
    PROVE  Emitted(who) \subseteq {"main", "signal"} \X Cases
BY EvaluatedCount DEF Emitted, ResultsType

\* Outcomes, field by field.
LEMMA OutcomeFields ==
    ASSUME NEW e
    PROVE  e \in Outcomes <=>
              /\ e = [status |-> e.status, attempts |-> e.attempts, duration |-> e.duration,
                      checks |-> e.checks, grade |-> e.grade]
              /\ e.status \in Statuses \cup {Missing} /\ e.attempts \in 0 .. Repairs
              /\ e.duration \in 0 .. 3 * Budget /\ e.checks \in {NoChecks} \cup 0 .. Features
              /\ e.grade \in {NoGrade} \cup 0 .. 100
BY DEF Outcomes

\* The outcomes the runner makes for itself.
LEMMA OutcomeOf ==
    ASSUME NEW s \in Statuses \cup {Missing}, NEW a \in 0 .. Repairs, NEW d \in 0 .. 3 * Budget
    PROVE  /\ [NoOutcome EXCEPT !.status = s, !.attempts = a, !.duration = d] \in Outcomes
           /\ [NoOutcome EXCEPT !.status = s, !.duration = d] \in Outcomes
           /\ [NoOutcome EXCEPT !.status = s] \in Outcomes
           /\ NoOutcome \in Outcomes
<1>1. /\ 0 \in 0 .. Repairs /\ 0 \in 0 .. 3 * Budget /\ Missing \in Statuses \cup {Missing}
      /\ NoChecks \in {NoChecks} \cup 0 .. Features /\ NoGrade \in {NoGrade} \cup 0 .. 100
    BY Numbers
<1>2. NoOutcome \in Outcomes
    BY <1>1 DEF NoOutcome, Outcomes
<1>3. [NoOutcome EXCEPT !.status = s] \in Outcomes
    BY <1>2 DEF Outcomes
<1>4. [NoOutcome EXCEPT !.status = s, !.duration = d] \in Outcomes
    BY <1>2 DEF Outcomes
<1>5. [NoOutcome EXCEPT !.status = s, !.attempts = a, !.duration = d] \in Outcomes
    BY <1>2 DEF Outcomes
<1> QED
    BY <1>2, <1>3, <1>4, <1>5

LEMMA NoOutcomeType == NoOutcome \in Outcomes
<1>1. Missing \in Statuses \cup {Missing} /\ 0 \in 0 .. Repairs /\ 0 \in 0 .. 3 * Budget
    BY Numbers
<1> QED
    BY <1>1, OutcomeOf

LEMMA TypeOKParts ==
    TypeOK <=> SinkTypeOK /\ RunnerType /\ ResultsType
BY DEF TypeOK, RunnerType, ResultsType, Stages

LEMMA InitTypes == Init => TypeInv
<1> SUFFICES ASSUME Init PROVE TypeInv
    OBVIOUS
<1>1. SinkInv
    BY SinkInitHolds DEF Init
<1>2. 1 \in Cases /\ 0 \in 0 .. 3 * Budget /\ 0 < 2 * Budget
    BY Numbers DEF Cases
<1>3. NoOutcome \in Outcomes
    BY NoOutcomeType
<1>4. RunnerType
    BY <1>2, <1>3 DEF Init, RunnerType, Stages
<1>5. ResultsType
    BY <1>3 DEF Init, ResultsType
<1>6. Clock
    BY <1>2 DEF Init, Clock
<1> QED
    BY <1>1, <1>4, <1>5, <1>6 DEF TypeInv

LEMMA SeedTypes == TypeInv /\ Seed => TypeInv'
<1> SUFFICES ASSUME TypeInv, Seed PROVE TypeInv'
    OBVIOUS
<1>0. SinkInv /\ RunnerType /\ ResultsType /\ Clock
    BY DEF TypeInv
<1>1. UNCHANGED sink /\ UNCHANGED results
    BY DEF Seed
<1>2. /\ stage' \in {"agent", "flush"} /\ turn' = 1 /\ spent' = 0 /\ source' = {}
      /\ current' = current
    BY DEF Seed
<1>3. outcome' \in Outcomes
  <2>1. "crashed" \in Statuses \cup {Missing} /\ 0 \in 0 .. Repairs /\ 0 \in 0 .. 3 * Budget
      BY Numbers DEF Statuses
  <2>2. outcome' = outcome \/ outcome' = [NoOutcome EXCEPT !.status = "crashed"]
      BY DEF Seed
  <2> QED
      BY <1>0, <2>1, <2>2, OutcomeOf DEF RunnerType
<1>4. /\ workflow' \in [Cases -> {"none", "running", "aborting", "ended", "left", "late"}]
      /\ polluter' \in Cases \cup {0}
    BY <1>0 DEF Seed, RunnerType, Pruned
<1>5. RunnerType'
    BY <1>0, <1>2, <1>3, <1>4, Numbers DEF RunnerType, Stages
<1>6. ResultsType'
    BY <1>0, <1>1 DEF ResultsType, results
<1>7. Clock'
    BY <1>2, Numbers DEF Clock
<1> QED
    BY <1>0, <1>1, <1>5, <1>6, <1>7, SinksUnchanged DEF TypeInv

LEMMA WorkflowTypes ==
    ASSUME TypeInv, NEW c \in Cases, AgentRecords(c) \/ AgentInstalls(c) \/ AgentAborts(c)
    PROVE  TypeInv'
<1>0. SinkInv /\ RunnerType /\ ResultsType /\ Clock
    BY DEF TypeInv
<1>1. SinkInv'
    BY <1>0, RecordKeepsSinks, SinksUnchanged DEF AgentRecords, AgentInstalls, AgentAborts
<1>2. UNCHANGED <<stage, current, turn, spent, outcome, source, results>>
    BY DEF AgentRecords, AgentInstalls, AgentAborts, running, progress
<1>3. /\ workflow' \in [Cases -> {"none", "running", "aborting", "ended", "left", "late"}]
      /\ polluter' \in Cases \cup {0}
    BY <1>0 DEF AgentRecords, AgentInstalls, AgentAborts, RunnerType, running, progress
<1>4. RunnerType'
    BY <1>0, <1>2, <1>3 DEF RunnerType
<1>5. ResultsType' /\ Clock'
    BY <1>0, <1>2 DEF ResultsType, Clock, results
<1> QED
    BY <1>1, <1>4, <1>5 DEF TypeInv

LEMMA TurnEndsTypes == TypeInv /\ TurnEnds => TypeInv'
<1> SUFFICES ASSUME TypeInv, TurnEnds PROVE TypeInv'
    OBVIOUS
<1>0. SinkInv /\ RunnerType /\ ResultsType /\ Clock
    BY DEF TypeInv
<1>1. PICK d \in TurnTimes, f \in Finals, a \in 0 .. Repairs :
         /\ spent' = spent + d
         /\ IF turn < Turns(current)
            THEN turn' = turn + 1 /\ UNCHANGED <<stage, workflow, outcome>>
            ELSE /\ outcome' = [NoOutcome EXCEPT !.status = StatusOfFinal(f), !.attempts = a,
                                                 !.duration = spent + d]
                 /\ stage' = "judge" /\ workflow' = [workflow EXCEPT ![current] = "ended"]
                 /\ UNCHANGED turn
    BY DEF TurnEnds
<1>2. /\ stage = "agent" /\ UNCHANGED <<sink, current, polluter, source, results>>
    BY DEF TurnEnds
<1>3. d \in Nat /\ d < Budget /\ Budget \in Nat /\ spent \in Nat
    BY <1>0, EvalAssumption DEF RunnerType
<1>4. (turn = 1 /\ spent = 0) \/ (turn = 2 /\ spent < Budget)
    BY <1>0, <1>2 DEF Clock
<1>5. spent' \in 0 .. 3 * Budget /\ spent' < 2 * Budget /\ (turn = 1 => spent' < Budget)
    BY <1>1, <1>3, <1>4
<1>6. CASE turn < Turns(current)
  <2>1. turn = 1 /\ turn' = 2 /\ UNCHANGED <<stage, workflow, outcome>>
      BY <1>1, <1>4, <1>6 DEF Turns
  <2>2. RunnerType'
      BY <1>0, <1>2, <1>5, <2>1 DEF RunnerType
  <2>3. Clock'
      BY <1>1, <1>3, <1>4, <1>5, <2>1 DEF Clock
  <2> QED
      BY <1>0, <1>2, <2>2, <2>3, SinksUnchanged DEF TypeInv, ResultsType, results
<1>7. CASE ~(turn < Turns(current))
  <2>1. /\ stage' = "judge" /\ turn' = turn
        /\ outcome' = [NoOutcome EXCEPT !.status = StatusOfFinal(f), !.attempts = a,
                                                 !.duration = spent + d]
        /\ workflow' = [workflow EXCEPT ![current] = "ended"]
      BY <1>1, <1>7
  <2>2. outcome' \in Outcomes
    <3>1. StatusOfFinal(f) \in Statuses \cup {Missing}
        BY DEF StatusOfFinal, Statuses
    <3>2. spent + d \in 0 .. 3 * Budget
        BY <1>1, <1>5
    <3> QED
        BY <2>1, <3>1, <3>2, OutcomeOf
  <2>3. RunnerType'
      BY <1>0, <1>2, <1>5, <2>1, <2>2 DEF RunnerType, Stages
  <2>4. Clock'
      BY <1>5, <2>1 DEF Clock
  <2> QED
      BY <1>0, <1>2, <2>3, <2>4, SinksUnchanged DEF TypeInv, ResultsType, results
<1> QED
    BY <1>6, <1>7

\* The ways a case ends without a judgement.
LEMMA CaseEndsTypes == TypeInv /\ (TurnThrows \/ TimesOut \/ GraceEnds) => TypeInv'
<1> SUFFICES ASSUME TypeInv, TurnThrows \/ TimesOut \/ GraceEnds PROVE TypeInv'
    OBVIOUS
<1>0. SinkInv /\ RunnerType /\ ResultsType /\ Clock
    BY DEF TypeInv
<1>1. UNCHANGED <<sink, current, turn, polluter, source, results>>
    BY DEF TurnThrows, TimesOut, GraceEnds
<1>2. stage' \in Stages \ {"agent"}
    BY DEF TurnThrows, TimesOut, GraceEnds, Stages
<1>3. workflow' \in [Cases -> {"none", "running", "aborting", "ended", "left", "late"}]
    BY <1>0 DEF TurnThrows, TimesOut, GraceEnds, RunnerType
<1>4. spent' \in 0 .. 3 * Budget /\ spent' < 2 * Budget
  <2>1. CASE TimesOut
    <3>1. spent < Budget /\ spent' = spent + Budget
        BY <1>0, <2>1, Numbers DEF TimesOut, Clock
    <3> QED
        BY <1>0, <3>1, Numbers DEF RunnerType
  <2>2. CASE TurnThrows \/ GraceEnds
      BY <1>0, <2>2 DEF TurnThrows, GraceEnds, RunnerType, Clock
  <2> QED
      BY <2>1, <2>2
<1>5. outcome' \in Outcomes
  <2>1. /\ spent \in 0 .. 3 * Budget /\ 0 \in 0 .. Repairs /\ outcome \in Outcomes
        /\ "crashed" \in Statuses \cup {Missing} /\ "timeout" \in Statuses \cup {Missing}
      BY <1>0, Numbers DEF RunnerType, Statuses
  <2>2. \/ outcome' = outcome
        \/ outcome' = [NoOutcome EXCEPT !.status = "crashed", !.duration = spent]
        \/ outcome' = [NoOutcome EXCEPT !.status = "timeout", !.duration = spent]
      BY DEF TurnThrows, TimesOut, GraceEnds
  <2> QED
      BY <2>1, <2>2, OutcomeOf
<1>6. RunnerType'
    BY <1>0, <1>1, <1>2, <1>3, <1>4, <1>5 DEF RunnerType
<1>7. Clock'
    BY <1>2, <1>4 DEF Clock
<1> QED
    BY <1>0, <1>1, <1>6, <1>7, SinksUnchanged DEF TypeInv, ResultsType, results

LEMMA JudgeTypes == TypeInv /\ Judge => TypeInv'
<1> SUFFICES ASSUME TypeInv, Judge PROVE TypeInv'
    OBVIOUS
<1>0. SinkInv /\ RunnerType /\ ResultsType /\ Clock
    BY DEF TypeInv
<1>1. stage' = "flush" /\ UNCHANGED <<sink, current, progress, results>>
    BY DEF Judge
<1>2. outcome' \in Outcomes /\ source' \in Sources \cup {{}}
  <2>0. outcome \in Outcomes /\ source \in Sources \cup {{}}
      BY <1>0 DEF RunnerType
  <2>1. CASE outcome.status # "completed"
    <3>1. outcome' = outcome /\ source' = source
        BY <2>1 DEF Judge
    <3> QED
        BY <2>0, <3>1
  <2>2. CASE outcome.status = "completed"
    <3>1. PICK src \in Sources, g \in Grades \cup {NoGrade} :
              LET hit == Cardinality({x \in Expected : MatchAst(AnalyzeProject(src), x)})
              IN  /\ source' = src
                  /\ outcome' = [outcome EXCEPT !.checks = hit,
                                    !.grade = IF hit = Features THEN g ELSE NoGrade]
        BY <2>2 DEF Judge
    <3> DEFINE passed == {x \in Expected : MatchAst(AnalyzeProject(src), x)}
               hit == Cardinality(passed)
               grade == IF hit = Features THEN g ELSE NoGrade
    <3>2. passed \subseteq Expected
        OBVIOUS
    <3> HIDE DEF passed
    <3>3. hit \in 0 .. Features
        BY <3>2, EvalAssumption, Numbers, FS_Subset, FS_CardinalityType DEF Features
    <3>4. outcome' = [outcome EXCEPT !.checks = hit, !.grade = grade] /\ source' = src
        BY <3>1 DEF passed
    <3>5. grade \in {NoGrade} \cup 0 .. 100
        BY EvalAssumption
    <3> HIDE DEF hit, grade
    <3> QED
        BY <2>0, <3>3, <3>4, <3>5 DEF Outcomes
  <2> QED
      BY <2>1, <2>2
<1>3. RunnerType'
    BY <1>0, <1>1, <1>2 DEF RunnerType, Stages, progress
<1>4. Clock'
    BY <1>0, <1>1 DEF Clock, progress
<1> QED
    BY <1>0, <1>1, <1>3, <1>4, SinksUnchanged DEF TypeInv, ResultsType, results

LEMMA FlushTypes == TypeInv /\ (FlushStarts \/ FlushEnds) => TypeInv'
<1> SUFFICES ASSUME TypeInv, FlushStarts \/ FlushEnds PROVE TypeInv'
    OBVIOUS
<1>0. SinkInv /\ RunnerType /\ ResultsType /\ Clock
    BY DEF TypeInv
<1>1. /\ stage' \in {"flushing", "write"}
      /\ UNCHANGED <<current, workflow, polluter, outcome, stored, evaluated, writing,
                     report, signalled, exit>>
    BY DEF FlushStarts, FlushEnds, progress
<1>a. /\ turn' \in 1 .. 2 /\ spent' \in 0 .. 3 * Budget
      /\ spent' < 2 * Budget
  <2>1. (turn' = 1 /\ spent' = 0) \/ (turn' = turn /\ spent' = spent)
      BY DEF FlushStarts, FlushEnds, progress
  <2>2. turn \in 1 .. 2 /\ spent \in 0 .. 3 * Budget /\ spent < 2 * Budget
      BY <1>0 DEF RunnerType, Clock
  <2> QED
      BY <2>1, <2>2, Numbers
<1>2. SinkInv'
    BY <1>0, ResetKeepsSinks, SinksUnchanged DEF FlushStarts, FlushEnds
<1>3. awaited' \subseteq Events
  <2>1. instance \in Instances /\ ToSet(pending[instance]) \subseteq Events
      BY <1>0 DEF SinkInv, SinkTypeOK
  <2> QED
      BY <2>1 DEF FlushStarts, FlushEnds, Awaited
<1>4. source' \in Sources \cup {{}}
    BY <1>0 DEF FlushStarts, FlushEnds, RunnerType
<1>5. RunnerType'
    BY <1>0, <1>1, <1>a, <1>4 DEF RunnerType, Stages
<1>6. ResultsType' /\ Clock'
    BY <1>0, <1>1, <1>a, <1>3 DEF ResultsType, Clock
<1> QED
    BY <1>2, <1>5, <1>6 DEF TypeInv

LEMMA WriteTypes == TypeInv /\ WriteResult => TypeInv'
<1> SUFFICES ASSUME TypeInv, WriteResult PROVE TypeInv'
    OBVIOUS
<1>0. SinkInv /\ RunnerType /\ ResultsType /\ Clock
    BY DEF TypeInv
<1>1. /\ UNCHANGED <<sink, progress, source, awaited, writing, report, signalled>>
      /\ outcome' \in Outcomes
    BY NoOutcomeType DEF WriteResult
<1>2. stage' \in {"seed", "report"} /\ current' \in Cases
  <2>1. \/ current' = current
        \/ current < NumCases /\ current' = current + 1
      BY DEF WriteResult
  <2>2. current \in Cases
      BY <1>0 DEF RunnerType
  <2>3. current' \in Cases
      BY <2>1, <2>2, Numbers DEF Cases
  <2> QED
      BY <2>3 DEF WriteResult
<1>3. /\ stored' \in [Cases -> Statuses \cup {Missing}]
      /\ evaluated' \in [Cases -> Outcomes] /\ exit' \in {-1, 0, 1, 130}
  <2>1. outcome \in Outcomes /\ outcome.status \in Statuses \cup {Missing}
      BY <1>0 DEF RunnerType, Outcomes
  <2>2. \/ stored' = [stored EXCEPT ![current] = outcome.status] /\ exit' = exit
           /\ evaluated' = [evaluated EXCEPT ![current] = outcome]
        \/ stored' = stored /\ evaluated' = evaluated /\ exit' = 1
      BY DEF WriteResult
  <2> QED
      BY <1>0, <2>1, <2>2 DEF ResultsType
<1>4. RunnerType'
    BY <1>0, <1>1, <1>2 DEF RunnerType, Stages, progress
<1>5. ResultsType' /\ Clock'
    BY <1>0, <1>1, <1>2, <1>3 DEF ResultsType, Clock, progress
<1> QED
    BY <1>0, <1>1, <1>4, <1>5, SinksUnchanged DEF TypeInv

\* The report, the gate, the exit and the signal.
LEMMA ReportTypes ==
    TypeInv /\ (\/ EmitReport \/ ReportDone \/ Gate \/ Signal \/ SignalExits
                \/ \E w \in writing : ReportLands(w) \/ ReportFails(w)) => TypeInv'
<1> SUFFICES ASSUME TypeInv,
                    \/ EmitReport \/ ReportDone \/ Gate \/ Signal \/ SignalExits
                    \/ \E w \in writing : ReportLands(w) \/ ReportFails(w)
             PROVE  TypeInv'
    OBVIOUS
<1>0. SinkInv /\ RunnerType /\ ResultsType /\ Clock
    BY DEF TypeInv
<1>1. /\ UNCHANGED <<sink, current, progress, outcome, source, awaited, stored, evaluated>>
      /\ stage' = stage \/ stage' \in {"reporting", "gate", "exited"}
    BY DEF EmitReport, ReportDone, Gate, Signal, SignalExits, ReportLands, ReportFails,
           running, results
<1>2. signalled' \in BOOLEAN
    BY <1>0 DEF EmitReport, ReportDone, Gate, Signal, SignalExits, ReportLands, ReportFails,
                results, ResultsType
<1>3. exit' \in {-1, 0, 1, 130}
    BY <1>0 DEF EmitReport, ReportDone, Gate, Signal, SignalExits, ReportLands, ReportFails,
                results, ResultsType, ExitCode
<1>4. writing' \subseteq {"main", "signal"} \X Cases
  <2>1. \/ writing' \subseteq writing
        \/ writing' = Emitted("main") \/ writing' = Emitted("signal")
      BY DEF EmitReport, ReportDone, Gate, Signal, SignalExits, ReportLands, ReportFails,
             results
  <2> QED
      BY <1>0, <2>1, EmittedType DEF ResultsType
<1>5. report' \subseteq Cases
  <2>1. \/ report' = report
        \/ \E w \in writing : \E n \in w[2] .. Cardinality(Evaluated) : report' = 1 .. n
      BY DEF EmitReport, ReportDone, Gate, Signal, SignalExits, ReportLands, ReportFails,
             results
  <2>2. ASSUME NEW w \in writing, NEW n \in w[2] .. Cardinality(Evaluated)
        PROVE  1 .. n \subseteq Cases
    <3>1. w[2] \in Cases
        BY <1>0 DEF ResultsType
    <3>2. n \in Int /\ n <= NumCases
        BY <3>1, EvaluatedCount, Numbers
    <3> QED
        BY <3>2, Numbers DEF Cases
  <2> QED
      BY <1>0, <2>1, <2>2 DEF ResultsType
<1>6. RunnerType'
    BY <1>0, <1>1 DEF RunnerType, Stages, progress
<1>7. ResultsType'
    BY <1>0, <1>1, <1>2, <1>3, <1>4, <1>5 DEF ResultsType
<1>8. Clock'
    BY <1>0, <1>1 DEF Clock, progress
<1> QED
    BY <1>0, <1>1, <1>6, <1>7, <1>8, SinksUnchanged DEF TypeInv

LEMMA AppendTypes == TypeInv /\ AppendEnds => TypeInv'
BY AppendKeepsSinks DEF TypeInv, AppendEnds, RunnerType, ResultsType, Clock, running, results,
                        progress

LEMMA StepTypes == TypeInv /\ [Next]_vars => TypeInv'
<1> SUFFICES ASSUME TypeInv, [Next]_vars PROVE TypeInv'
    OBVIOUS
<1>1. CASE Runner
    BY <1>1, SeedTypes, TurnEndsTypes, CaseEndsTypes, JudgeTypes, FlushTypes, WriteTypes,
       ReportTypes DEF Runner
<1>2. CASE AppendEnds
    BY <1>2, AppendTypes
<1>3. CASE Signal \/ SignalExits
    BY <1>3, ReportTypes
<1>4. ASSUME NEW c \in Cases, AgentRecords(c) \/ AgentInstalls(c) \/ AgentAborts(c)
      PROVE  TypeInv'
    BY <1>4, WorkflowTypes
<1>5. CASE UNCHANGED vars
    BY <1>5, SinksUnchanged DEF vars, TypeInv, RunnerType, ResultsType, Clock, running, results,
                                progress
<1> QED
    BY <1>1, <1>2, <1>3, <1>4, <1>5 DEF Next

LEMMA TypesStay == Spec => []TypeInv
BY InitTypes, StepTypes, PTL DEF Spec

\* Every variable of the runner and of the sinks has its type: the writes of a sink and
\* the log hold each event once, a result has a status of the harness and a duration
\* within its turns and its grace, the memory stays within its cap.
THEOREM TypeCorrect == Spec => []TypeOK
<1>1. TypeInv => TypeOK
    BY TypeOKParts DEF TypeInv, SinkInv
<1> QED
    BY <1>1, TypesStay, PTL

-----------------------------------------------------------------------------
(* Cases are isolated *)

LEMMA InitIsolated == Init => WorkflowOfCase /\ LogFollowsRecord
<1> SUFFICES ASSUME Init PROVE WorkflowOfCase /\ LogFollowsRecord
    OBVIOUS
<1>1. 1 \in Cases /\ current = 1 /\ stage = "seed" /\ workflow = [c \in Cases |-> "none"]
    BY Numbers DEF Cases, Init
<1>2. WorkflowOfCase
    BY <1>1 DEF WorkflowOfCase
<1>3. log = <<>> /\ \A i \in Instances : pending[i] = <<>>
    BY DEF Init, SinkInit
<1>4. LogFollowsRecord
    BY <1>1, <1>3 DEF LogFollowsRecord
<1> QED
    BY <1>2, <1>4

\* The workflow of a case is at work in the turns of that case, unless it is let go.
LEMMA StepWorkflow == TypeInv /\ WorkflowOfCase /\ [Next]_vars => WorkflowOfCase'
<1> SUFFICES ASSUME TypeInv, WorkflowOfCase, [Next]_vars PROVE WorkflowOfCase'
    OBVIOUS
<1>0. /\ workflow \in [Cases -> {"none", "running", "aborting", "ended", "left", "late"}]
      /\ current \in Cases /\ current \in Nat /\ \A c \in Cases : c \in Nat
    BY Numbers DEF TypeInv, RunnerType
<1>1. CASE Seed
  <2>1. /\ stage = "seed" /\ current' = current
        /\ \/ stage' = "agent" /\ workflow' = [workflow EXCEPT ![current] = "running"]
           \/ stage' = "flush" /\ workflow' = workflow
      BY <1>1 DEF Seed
  <2>2. workflow[current] = "none" /\ \A c \in Cases : workflow[c] \notin {"running", "aborting"}
      BY <2>1 DEF WorkflowOfCase
  <2> QED
      BY <1>0, <2>1, <2>2 DEF WorkflowOfCase
<1>2. CASE TurnEnds
  <2>1. /\ stage = "agent" /\ current' = current
        /\ \/ stage' = stage /\ workflow' = workflow
           \/ stage' = "judge" /\ workflow' = [workflow EXCEPT ![current] = "ended"]
      BY <1>2 DEF TurnEnds
  <2> QED
      BY <1>0, <2>1 DEF WorkflowOfCase
<1>3. CASE TurnThrows
  <2>1. /\ stage \in {"agent", "judge"} /\ current' = current
        /\ stage' = "flush" /\ workflow' = [workflow EXCEPT ![current] = "ended"]
      BY <1>3 DEF TurnThrows
  <2> QED
      BY <1>0, <2>1 DEF WorkflowOfCase
<1>4. CASE TimesOut
  <2>1. /\ stage = "agent" /\ current' = current
        /\ stage' = "grace" /\ workflow' = [workflow EXCEPT ![current] = "aborting"]
      BY <1>4 DEF TimesOut
  <2> QED
      BY <1>0, <2>1 DEF WorkflowOfCase
<1>5. CASE GraceEnds
  <2>1. /\ stage = "grace" /\ current' = current /\ stage' = "flush"
        /\ workflow' = [workflow EXCEPT ![current] =
                            IF workflow[current] = "aborting" THEN "left" ELSE workflow[current]]
      BY <1>5 DEF GraceEnds
  <2> QED
      BY <1>0, <2>1 DEF WorkflowOfCase
<1>6. CASE Judge \/ FlushStarts \/ FlushEnds
  <2>1. /\ stage \in {"judge", "flush", "flushing"} /\ current' = current
        /\ stage' \in {"flush", "flushing", "write"} /\ workflow' = workflow
      BY <1>6 DEF Judge, FlushStarts, FlushEnds, progress
  <2> QED
      BY <1>0, <2>1 DEF WorkflowOfCase
<1>7. CASE WriteResult
  <2>1. /\ stage = "write" /\ workflow' = workflow
        /\ \/ stage' = "seed" /\ current' = current + 1
           \/ stage' = "report" /\ current' = current
      BY <1>7 DEF WriteResult, progress
  <2>2. CASE stage' = "seed" /\ current' = current + 1
    <3>1. current + 1 \in Cases
        BY <1>0, <1>7, <2>2, Numbers DEF WriteResult, Cases
    <3>2. workflow[current + 1] = "none"
        BY <1>0, <3>1 DEF WorkflowOfCase
    <3>3. \A c \in Cases : c > current + 1 => workflow[c] = "none"
        BY <1>0 DEF WorkflowOfCase
    <3> QED
        BY <2>1, <2>2, <3>1, <3>2, <3>3 DEF WorkflowOfCase
  <2>3. CASE stage' = "report" /\ current' = current
      BY <2>1, <2>3 DEF WorkflowOfCase
  <2> QED
      BY <2>1, <2>2, <2>3
<1>8. CASE \/ EmitReport \/ ReportDone \/ Gate \/ Signal \/ SignalExits
           \/ \E w \in writing : ReportLands(w) \/ ReportFails(w)
  <2>1. /\ current' = current /\ workflow' = workflow
        /\ \/ stage' = stage
           \/ stage' = "exited"
           \/ stage \in {"report", "reporting"} /\ stage' \in {"reporting", "gate"}
      BY <1>8 DEF EmitReport, ReportDone, Gate, Signal, SignalExits, ReportLands, ReportFails,
                  running, progress
  <2> QED
      BY <2>1 DEF WorkflowOfCase
<1>9. CASE AppendEnds \/ UNCHANGED vars
    BY <1>9 DEF AppendEnds, vars, running, progress, WorkflowOfCase
<1>10. ASSUME NEW c \in Cases, AgentRecords(c) \/ AgentInstalls(c) \/ AgentAborts(c)
       PROVE  WorkflowOfCase'
  <2>1. CASE AgentRecords(c) \/ AgentInstalls(c)
      BY <2>1 DEF AgentRecords, AgentInstalls, running, progress, WorkflowOfCase
  <2>2. CASE AgentAborts(c)
    <3>1. /\ stage' = stage /\ current' = current /\ stage # "exited"
          /\ \/ workflow[c] = "aborting" /\ workflow' = [workflow EXCEPT ![c] = "ended"]
             \/ workflow[c] = "left" /\ workflow' = [workflow EXCEPT ![c] = "late"]
        BY <2>2 DEF AgentAborts
    <3> QED
        BY <1>0, <3>1 DEF WorkflowOfCase
  <2> QED
      BY <1>10, <2>1, <2>2
<1> QED
    BY <1>1, <1>2, <1>3, <1>4, <1>5, <1>6, <1>7, <1>8, <1>9, <1>10 DEF Next, Runner

\* A workflow that has outlived its grace has done so for good.
LEMMA OutlivedGrows ==
    ASSUME TypeInv, WorkflowOfCase, [Next]_vars, Outlived' = {}
    PROVE  Outlived = {}
<1>0. /\ workflow \in [Cases -> {"none", "running", "aborting", "ended", "left", "late"}]
      /\ current \in Cases
    BY DEF TypeInv, RunnerType
<1>1. SUFFICES ASSUME NEW c \in Cases, workflow[c] \in {"left", "late"}
               PROVE  workflow'[c] \in {"left", "late"}
    BY DEF Outlived
<1>2. CASE Seed \/ TurnEnds \/ TurnThrows \/ TimesOut \/ GraceEnds
  <2>1. \/ workflow' = workflow
        \/ workflow' = [workflow EXCEPT ![current] = workflow'[current]]
      BY <1>0, <1>2 DEF Seed, TurnEnds, TurnThrows, TimesOut, GraceEnds
  <2>2. stage \in {"seed", "agent", "judge", "grace"}
      BY <1>2 DEF Seed, TurnEnds, TurnThrows, TimesOut, GraceEnds
  <2>3. workflow[current] \notin {"left", "late"}
      BY <2>2 DEF WorkflowOfCase
  <2> QED
      BY <1>0, <1>1, <2>1, <2>3
<1>3. CASE \/ Judge \/ FlushStarts \/ FlushEnds \/ WriteResult \/ EmitReport \/ ReportDone
           \/ Gate \/ Signal \/ SignalExits \/ AppendEnds \/ UNCHANGED vars
           \/ \E w \in writing : ReportLands(w) \/ ReportFails(w)
  <2>1. workflow' = workflow
      BY <1>3 DEF Judge, FlushStarts, FlushEnds, WriteResult, EmitReport, ReportDone, Gate,
                  Signal, SignalExits, AppendEnds, ReportLands, ReportFails, vars, running,
                  progress
  <2> QED
      BY <1>1, <2>1
<1>4. ASSUME NEW d \in Cases, AgentRecords(d) \/ AgentInstalls(d) \/ AgentAborts(d)
      PROVE  workflow'[c] \in {"left", "late"}
  <2>1. \/ workflow' = workflow
        \/ workflow[d] = "aborting" /\ workflow' = [workflow EXCEPT ![d] = "ended"]
        \/ workflow[d] = "left" /\ workflow' = [workflow EXCEPT ![d] = "late"]
      BY <1>4 DEF AgentRecords, AgentInstalls, AgentAborts, running, progress
  <2> QED
      BY <1>0, <1>1, <2>1
<1> QED
    BY <1>2, <1>3, <1>4 DEF Next, Runner

\* LogFollowsRecord, without its condition.
InRecordOrder ==
    /\ \A i \in Instances : i # instance => pending[i] = <<>>
    /\ \A i, j \in DOMAIN log : i < j => log[i] < log[j]
    /\ \A i \in Instances : \A a \in DOMAIN pending[i], b \in DOMAIN log :
          log[b] < pending[i][a]
FlushAwaitsAll == stage = "flushing" => ToSet(pending[instance]) \subseteq awaited
OwnPolluter == stage \in {"agent", "grace"} => polluter \in {0, current}

LEMMA LogFollowsRecordParts ==
    LogFollowsRecord <=> (Outlived = {} => InRecordOrder /\ FlushAwaitsAll /\ OwnPolluter)
BY DEF LogFollowsRecord, InRecordOrder, FlushAwaitsAll, OwnPolluter

\* A record goes to the end of the current sink.
LEMMA RecordInOrder ==
    ASSUME SinkInv, InRecordOrder, Record
    PROVE  InRecordOrder'
<1> DEFINE e == recorded + 1
           s == pending[instance]
<1>0. SinkTypeOK /\ SinkShape /\ EventsOnce
    BY DEF SinkInv
<1>1. /\ instance \in Instances /\ instance' = instance /\ log' = log
      /\ pending' = [pending EXCEPT ![instance] = Append(@, e)]
      /\ recorded \in Nat /\ e \in Nat /\ e > recorded /\ e \in Events
    BY <1>0, SinkAssumption DEF Record, SinkTypeOK, Events
<1>2. \A i \in Instances : pending'[i] = IF i = instance THEN Append(s, e) ELSE pending[i]
    BY <1>0, <1>1 DEF SinkShape
<1>3. /\ s \in Seq(Events) /\ Len(s) \in Nat /\ DOMAIN s = 1 .. Len(s)
      /\ DOMAIN Append(s, e) = 1 .. Len(s) + 1 /\ Append(s, e)[Len(s) + 1] = e
      /\ \A a \in 1 .. Len(s) : Append(s, e)[a] = s[a]
    BY <1>0, <1>1 DEF SinkShape
<1>4. \A b \in DOMAIN log : log[b] < e
  <2>1. \A b \in DOMAIN log : log[b] \in Nat /\ log[b] <= recorded
    <3>1. \A b \in DOMAIN log : log[b] \in Events
        BY <1>0 DEF SinkShape
    <3>2. \A x \in Events : x \in Nat
        BY SinkAssumption DEF Events
    <3> QED
        BY <1>0, <3>1, <3>2 DEF EventsOnce
  <2>2. \A x, y, z \in Nat : x <= y /\ z > y => x < z
      OBVIOUS
  <2> QED
      BY <1>1, <2>1, <2>2
<1>5. ASSUME NEW i \in Instances, NEW a \in DOMAIN pending'[i], NEW b \in DOMAIN log
      PROVE  log[b] < pending'[i][a]
  <2>1. CASE i # instance
      BY <1>2, <2>1 DEF InRecordOrder
  <2>2. CASE i = instance
    <3> HIDE DEF e, s
    <3>1. pending'[i] = Append(s, e)
        BY <1>2, <2>2
    <3>2. a \in 1 .. Len(s) + 1
        BY <1>3, <3>1
    <3>3. a \in 1 .. Len(s) \/ a = Len(s) + 1
        BY <1>3, <3>2
    <3>4. CASE a \in 1 .. Len(s)
      <4>1. pending'[i][a] = s[a] /\ a \in DOMAIN s
          BY <1>3, <3>1, <3>4
      <4> QED
          BY <1>1, <4>1 DEF InRecordOrder, s
    <3>5. CASE a = Len(s) + 1
        BY <1>3, <1>4, <3>1, <3>5
    <3> QED
        BY <3>3, <3>4, <3>5
  <2> QED
      BY <2>1, <2>2
<1>6. \A i \in Instances : i # instance => pending'[i] = <<>>
    BY <1>2 DEF InRecordOrder
<1> QED
    BY <1>1, <1>5, <1>6 DEF InRecordOrder

\* The write that ends is the oldest there is.
LEMMA AppendInOrder ==
    ASSUME SinkInv, InRecordOrder, NEW i \in Instances, Append1(i)
    PROVE  InRecordOrder'
<1> DEFINE e == pending[i][1]
<1>0. SinkTypeOK /\ SinkShape /\ EventsOnce
    BY DEF SinkInv
<1>1. /\ 1 \in DOMAIN pending[i]
      /\ pending' = [pending EXCEPT ![i] = RemoveAt(@, 1)]
      /\ \/ log' = Append(log, e) /\ lost' = lost
         \/ lost' = lost \cup {e} /\ log' = log
      /\ UNCHANGED <<instance, recorded, memory>>
    BY <1>0, AppendEffect
<1>2. ASSUME NEW j \in Instances, NEW a \in DOMAIN pending'[j]
      PROVE  LET b == IF j = i THEN a + 1 ELSE a
             IN  a \in Nat \ {0} /\ b \in DOMAIN pending[j] /\ pending'[j][a] = pending[j][b]
    BY <1>0, AppendEffect
<1>3. i = instance /\ e \in Events
    BY <1>0, <1>1 DEF InRecordOrder, SinkShape
<1>4. \A b \in DOMAIN log : log[b] < e
    BY <1>1 DEF InRecordOrder
<1>5. ASSUME NEW j \in Instances, NEW a \in DOMAIN pending'[j]
      PROVE  e < pending'[j][a] /\ \A b \in DOMAIN log : log[b] < pending'[j][a]
  <2>1. j = i
    <3>1. CASE j # i
      <4>1. a \in DOMAIN pending[j] /\ pending[j] = <<>>
          BY <1>2, <1>3, <3>1 DEF InRecordOrder
      <4> QED
          BY <4>1
    <3> QED
        BY <3>1
  <2>2. /\ a \in Nat \ {0} /\ a + 1 \in DOMAIN pending[i]
        /\ pending'[j][a] = pending[i][a + 1] /\ 1 < a + 1
      BY <1>2, <2>1
  <2> QED
      BY <1>0, <1>1, <2>2 DEF EventsOnce, InRecordOrder
<1> HIDE DEF e
<1>6. ASSUME NEW b \in DOMAIN log'
      PROVE  /\ \/ b \in DOMAIN log /\ log'[b] = log[b]
                \/ b = Len(log) + 1 /\ log'[b] = e
             /\ b \in Nat /\ DOMAIN log = 1 .. Len(log) /\ Len(log) \in Nat
             /\ b <= Len(log) + 1
  <2>1. log \in Seq(Events)
      BY <1>0 DEF SinkShape
  <2>2. Len(log) \in Nat /\ DOMAIN log = 1 .. Len(log)
      BY <2>1
  <2>3. CASE log' = log
      BY <2>2, <2>3
  <2>4. CASE log' = Append(log, e)
    <3>1. /\ DOMAIN Append(log, e) = 1 .. Len(log) + 1
          /\ Append(log, e)[Len(log) + 1] = e
          /\ \A x \in 1 .. Len(log) : Append(log, e)[x] = log[x]
        BY <1>3, <2>1, <2>2
    <3>2. b \in 1 .. Len(log) + 1 /\ log'[b] = Append(log, e)[b]
        BY <2>4, <3>1
    <3>3. b \in 1 .. Len(log) \/ b = Len(log) + 1
        BY <2>2, <3>2
    <3> QED
        BY <2>2, <3>1, <3>2, <3>3
  <2> QED
      BY <1>1, <2>3, <2>4
<1>7. ASSUME NEW a \in DOMAIN log', NEW b \in DOMAIN log', a < b
      PROVE  log'[a] < log'[b]
  <2>1. CASE b \in DOMAIN log /\ log'[b] = log[b]
    <3>1. a \in DOMAIN log /\ log'[a] = log[a]
        BY <1>6, <1>7, <2>1
    <3> QED
        BY <1>7, <2>1, <3>1 DEF InRecordOrder
  <2>2. CASE b = Len(log) + 1 /\ log'[b] = e
    <3>1. a \in DOMAIN log /\ log'[a] = log[a]
        BY <1>6, <1>7, <2>2
    <3> QED
        BY <1>4, <2>2, <3>1
  <2> QED
      BY <1>6, <2>1, <2>2
<1>8. ASSUME NEW j \in Instances, NEW a \in DOMAIN pending'[j], NEW b \in DOMAIN log'
      PROVE  log'[b] < pending'[j][a]
    BY <1>5, <1>6
<1>9. ASSUME NEW j \in Instances, j # instance' PROVE pending'[j] = <<>>
    BY <1>0, <1>1, <1>3, <1>9 DEF InRecordOrder, SinkShape
<1> QED
    BY <1>7, <1>8, <1>9 DEF InRecordOrder

\* A flush that has ended leaves the sink it flushed empty.
LEMMA FlushedIsEmpty ==
    ASSUME SinkInv, InRecordOrder, FlushAwaitsAll, FlushEnds
    PROVE  InRecordOrder'
<1>0. /\ instance \in Instances /\ pending \in [Instances -> Seq(Events)]
      /\ pending' = pending /\ log' = log
    BY DEF SinkInv, SinkTypeOK, SinkShape, FlushEnds, Reset
<1>1. ToSet(pending[instance]) = {}
    BY DEF FlushEnds, Flushed, FlushAwaitsAll
<1>2. pending[instance] = <<>>
  <2>1. pending[instance] \in Seq(Events)
      BY <1>0
  <2>2. DOMAIN pending[instance] = {}
      BY <1>1 DEF ToSet
  <2>3. Len(pending[instance]) \in Nat /\ DOMAIN pending[instance] = 1 .. Len(pending[instance])
      BY <2>1
  <2>4. Len(pending[instance]) = 0
    <3>1. 1 \notin 1 .. Len(pending[instance])
        BY <2>2, <2>3
    <3>2. \A n \in Nat : 1 \notin 1 .. n => n = 0
        OBVIOUS
    <3> QED
        BY <2>3, <3>1, <3>2
  <2> QED
      BY <2>1, <2>4
<1>3. \A i \in Instances : pending[i] = <<>>
    BY <1>2 DEF InRecordOrder
<1>4. \A i \in Instances : \A a \in DOMAIN pending[i], b \in DOMAIN log : log[b] < pending[i][a]
    BY DEF InRecordOrder
<1> QED
    BY <1>0, <1>3, <1>4 DEF InRecordOrder

LEMMA SameSinksInOrder ==
    ASSUME InRecordOrder, UNCHANGED sink
    PROVE  InRecordOrder'
BY DEF InRecordOrder, sink

LEMMA StepInOrder ==
    TypeInv /\ WorkflowOfCase /\ LogFollowsRecord /\ [Next]_vars => LogFollowsRecord'
<1> SUFFICES ASSUME TypeInv, WorkflowOfCase, LogFollowsRecord, [Next]_vars, Outlived' = {}
             PROVE  (InRecordOrder /\ FlushAwaitsAll /\ OwnPolluter)'
    BY LogFollowsRecordParts DEF LogFollowsRecord, InRecordOrder, FlushAwaitsAll, OwnPolluter
<1>0. Outlived = {} /\ InRecordOrder /\ FlushAwaitsAll /\ OwnPolluter /\ SinkInv
    BY OutlivedGrows, LogFollowsRecordParts DEF TypeInv
<1>1. CASE Seed
    BY <1>0, <1>1, SameSinksInOrder DEF Seed, FlushAwaitsAll, OwnPolluter, Pruned
<1>2. CASE TurnEnds \/ TurnThrows \/ TimesOut \/ GraceEnds
  <2>1. /\ UNCHANGED <<sink, polluter, current>>
        /\ stage' \in {"agent", "grace"} => stage = "agent"
      BY <1>2 DEF TurnEnds, TurnThrows, TimesOut, GraceEnds
  <2>2. stage' # "flushing"
      BY <1>2 DEF TurnEnds, TurnThrows, TimesOut, GraceEnds
  <2> QED
      BY <1>0, <2>1, <2>2, SameSinksInOrder DEF FlushAwaitsAll, OwnPolluter
<1>3. CASE Judge \/ WriteResult
  <2>1. UNCHANGED sink /\ stage' \in {"flush", "seed", "report"}
      BY <1>3 DEF Judge, WriteResult
  <2> QED
      BY <1>0, <2>1, SameSinksInOrder DEF FlushAwaitsAll, OwnPolluter
<1>4. CASE FlushStarts
    BY <1>0, <1>4, SameSinksInOrder DEF FlushStarts, FlushAwaitsAll, OwnPolluter, Awaited, sink
<1>5. CASE FlushEnds
    BY <1>0, <1>5, FlushedIsEmpty DEF FlushEnds, FlushAwaitsAll, OwnPolluter
<1>6. CASE \/ EmitReport \/ ReportDone \/ Gate \/ Signal \/ SignalExits \/ UNCHANGED vars
           \/ \E w \in writing : ReportLands(w) \/ ReportFails(w)
  <2>1. /\ UNCHANGED <<sink, polluter, current, awaited>>
        /\ stage' = stage \/ stage' \in {"reporting", "gate", "exited"}
      BY <1>6 DEF EmitReport, ReportDone, Gate, Signal, SignalExits, ReportLands, ReportFails,
                  running, progress, results, vars
  <2> QED
      BY <1>0, <2>1, SameSinksInOrder DEF FlushAwaitsAll, OwnPolluter, sink
<1>7. CASE AppendEnds
  <2>1. PICK i \in Instances : Append1(i)
      BY <1>7 DEF AppendEnds
  <2>2. InRecordOrder'
      BY <1>0, <2>1, AppendInOrder
  <2>3. /\ instance \in Instances /\ instance' = instance
        /\ ToSet(pending'[instance]) \subseteq ToSet(pending[instance])
    <3>1. instance \in Instances /\ SinkShape
        BY <1>0 DEF SinkInv, SinkTypeOK
    <3>2. \A a \in DOMAIN pending'[instance] :
              \E b \in DOMAIN pending[instance] : pending'[instance][a] = pending[instance][b]
        BY <2>1, <3>1, AppendEffect
    <3>3. instance' = instance
        BY <2>1 DEF Append1
    <3> QED
        BY <3>1, <3>2, <3>3 DEF ToSet
  <2>4. UNCHANGED <<stage, polluter, current, awaited>>
      BY <1>7 DEF AppendEnds, running, results, progress
  <2>5. FlushAwaitsAll'
    <3> SUFFICES ASSUME stage = "flushing" PROVE ToSet(pending[instance])' \subseteq awaited
        BY <2>4 DEF FlushAwaitsAll
    <3>1. ToSet(pending[instance])' = ToSet(pending'[instance])
        BY <2>3 DEF ToSet
    <3>2. ToSet(pending[instance]) \subseteq awaited
        BY <1>0 DEF FlushAwaitsAll
    <3> QED
        BY <2>3, <3>1, <3>2
  <2>6. OwnPolluter'
      BY <1>0, <2>4 DEF OwnPolluter
  <2> QED
      BY <2>2, <2>5, <2>6
<1>8. ASSUME NEW c \in Cases, AgentRecords(c) \/ AgentInstalls(c) \/ AgentAborts(c)
      PROVE  (InRecordOrder /\ FlushAwaitsAll /\ OwnPolluter)'
  <2>1. /\ c = current /\ stage \in {"agent", "grace"}
        /\ UNCHANGED <<stage, current>>
      BY <1>0, <1>8 DEF AgentRecords, AgentInstalls, AgentAborts, Outlived, WorkflowOfCase,
                        running, progress
  <2>2. FlushAwaitsAll'
      BY <2>1 DEF FlushAwaitsAll
  <2>3. CASE AgentRecords(c)
      BY <1>0, <2>1, <2>2, <2>3, RecordInOrder DEF AgentRecords, OwnPolluter, running, progress
  <2>4. CASE AgentInstalls(c) \/ AgentAborts(c)
    <3>1. UNCHANGED sink /\ polluter' \in {polluter, c}
        BY <2>4 DEF AgentInstalls, AgentAborts
    <3> QED
        BY <1>0, <2>1, <2>2, <3>1, SameSinksInOrder DEF OwnPolluter
  <2> QED
      BY <1>8, <2>3, <2>4
<1> QED
    BY <1>1, <1>2, <1>3, <1>4, <1>5, <1>6, <1>7, <1>8 DEF Next, Runner

\* As long as no workflow outlives its grace, cases are isolated, whatever the
\* workflows record and install and whichever appends fail: the log is in the order of
\* record, the sinks of the cases before have nothing left to write, and no placeholder
\* of an earlier case is in the node_modules a workflow uses.
THEOREM CasesStayIsolated == Spec => []CasesAreIsolated
<1> DEFINE Inv == TypeInv /\ WorkflowOfCase /\ LogFollowsRecord
<1>1. Init => Inv
    BY InitTypes, InitIsolated
<1>2. Inv /\ [Next]_vars => Inv'
    BY StepTypes, StepWorkflow, StepInOrder
<1>3. Inv => CasesAreIsolated
  <2> SUFFICES ASSUME TypeInv, LogFollowsRecord, Outlived = {}
               PROVE  /\ \A i, j \in DOMAIN log : i < j => log[i] < log[j]
                      /\ \A i \in 1 .. instance - 1 : pending[i] = <<>>
                      /\ stage \in {"agent", "grace"} => polluter \in {0, current}
      BY DEF CasesAreIsolated
  <2>1. InRecordOrder /\ OwnPolluter
      BY LogFollowsRecordParts
  <2>2. \A i \in 1 .. instance - 1 : i \in Instances /\ i # instance
      BY SinkAssumption DEF TypeInv, SinkInv, SinkTypeOK, Instances
  <2> QED
      BY <2>1, <2>2 DEF InRecordOrder, OwnPolluter
<1> QED
    BY <1>1, <1>2, <1>3, PTL DEF Spec

-----------------------------------------------------------------------------
(* The structural checks *)

Fields == {"stack", "imports", "exports", "hooks", "topLevelHooks", "components",
           "elements", "renders"}

\* What collectTopLevel leaves for the visitors.
Collected(info) ==
    /\ DOMAIN info = Fields
    /\ info.stack = <<>> /\ info.imports = {} /\ info.topLevelHooks = {} /\ info.renders = {}

LEMMA CollectKeeps ==
    ASSUME NEW info, Collected(info), NEW n
    PROVE  Collected(CollectTopLevel(info, n))
<1>1. CASE n.node = "export"
    BY <1>1 DEF Collected, CollectTopLevel, Fields
<1>2. CASE n.node = "export_default"
    BY <1>2 DEF Collected, CollectTopLevel, Fields
<1>3. CASE n.node \notin {"export", "export_default"}
    BY <1>3 DEF Collected, CollectTopLevel, Fields
<1> QED
    BY <1>1, <1>2, <1>3

LEMMA CollectedFile ==
    ASSUME NEW file, NEW n \in Nat, DOMAIN file = 1 .. n
    PROVE  Collected(FoldLeft(CollectTopLevel, EmptyInfo, file))
<1>1. PICK h : /\ h[0] = EmptyInfo
               /\ \A k \in 1 .. n : h[k] = CollectTopLevel(h[k - 1], file[k])
               /\ FoldLeft(CollectTopLevel, EmptyInfo, file) = h[n]
    BY CollectFold
<1> DEFINE G == {k \in Nat : k <= n => Collected(h[k])}
<1>2. 0 \in G
  <2>1. Collected(EmptyInfo)
      BY DEF Collected, EmptyInfo, Fields
  <2> QED
      BY <1>1, <2>1
<1>3. ASSUME NEW k \in Nat, k \in G PROVE k + 1 \in G
  <2> SUFFICES ASSUME k + 1 <= n PROVE Collected(h[k + 1])
      OBVIOUS
  <2>1. Collected(h[k])
      BY <1>3
  <2>2. k + 1 \in 1 .. n /\ (k + 1) - 1 = k
      OBVIOUS
  <2>3. h[k + 1] = CollectTopLevel(h[k], file[k + 1])
      BY <1>1, <2>2
  <2> QED
      BY <2>1, <2>3, CollectKeeps
<1> HIDE DEF G
<1>4. n \in G
    BY <1>2, <1>3, NatSteps
<1> QED
    BY <1>1, <1>4 DEF G

\* What the visitors do to each part.
VisitGives(info, n, next) ==
    /\ DOMAIN next = Fields
    /\ next.stack =
          IF n.node \in {"fn", "arrow"} THEN Append(info.stack, n)
          ELSE IF n.node = "fn_end" THEN Front(info.stack) ELSE info.stack
    /\ next.imports =
          IF n.node = "import"
          THEN {i \in info.imports : i.module # n.module} \cup {n} ELSE info.imports
    /\ next.components =
          IF n.node \in {"fn", "arrow"} /\ (n.capital \/ n.node = "arrow")
          THEN info.components \cup {n.name} ELSE info.components
    /\ next.topLevelHooks =
          IF n.node = "hook" /\ TopLevel(info.stack)
          THEN info.topLevelHooks \cup {n.name} ELSE info.topLevelHooks
    /\ next.renders =
          IF n.node = "element" /\ n.custom
          THEN info.renders \cup (TopComponent(info.stack) \X {n.name})
          ELSE info.renders

LEMMA VisitParts ==
    ASSUME NEW info, DOMAIN info = Fields, NEW n
    PROVE  VisitGives(info, n, Visit(info, n))
<1>1. CASE n.node = "import"
    BY <1>1 DEF Visit, Fields, VisitGives
<1>2. CASE n.node \in {"fn", "arrow"}
    BY <1>2 DEF Visit, Fields, VisitGives
<1>3. CASE n.node = "fn_end"
    BY <1>3 DEF Visit, Fields, VisitGives
<1>4. CASE n.node = "hook"
    BY <1>4 DEF Visit, Fields, VisitGives
<1>5. CASE n.node = "element"
    BY <1>5 DEF Visit, Fields, VisitGives
<1>6. CASE n.node \notin {"import", "fn", "arrow", "fn_end", "hook", "element"}
    BY <1>6 DEF Visit, Fields, VisitGives
<1> QED
    BY <1>1, <1>2, <1>3, <1>4, <1>5, <1>6

-----------------------------------------------------------------------------
(* What is open at a node *)

LEMMA OpenAtFold ==
    ASSUME NEW file, NEW i
    PROVE  OpenAt(file, i) = FoldLeft(Opened, <<>>, SubSeq(file, 1, i - 1))
BY DEF OpenAt, Opened, FoldLeft, MapThenFoldSet

\* A prefix of a file, and the functions open at its nodes.
LEMMA OpenTrace ==
    ASSUME NEW file \in Seq(Nodes), NEW i \in 1 .. Len(file) + 1
    PROVE  \E h : /\ h[0] = <<>>
                  /\ \A k \in 1 .. i - 1 : h[k] = Opened(h[k - 1], file[k])
                  /\ OpenAt(file, i) = h[i - 1]
<1> DEFINE s == SubSeq(file, 1, i - 1)
           m == i - 1
<1>1. m \in Nat /\ m <= Len(file) /\ Len(file) \in Nat
    OBVIOUS
<1>2. s \in Seq(Nodes) /\ Len(s) = m /\ \A k \in 1 .. m : s[k] = file[k]
    BY <1>1
<1>3. DOMAIN s = 1 .. m
    BY <1>2
<1> HIDE DEF s
<1>4. PICK h : /\ h[0] = <<>>
               /\ \A k \in 1 .. m : h[k] = Opened(h[k - 1], s[k])
               /\ FoldLeft(Opened, <<>>, s) = h[m]
    BY <1>1, <1>3, OpenFold
<1>5. OpenAt(file, i) = FoldLeft(Opened, <<>>, s)
    BY OpenAtFold DEF s
<1> QED
    BY <1>2, <1>4, <1>5

\* At the first node nothing is open; what is open at the next one is what this one
\* makes of it.
LEMMA OpenSteps ==
    ASSUME NEW file \in Seq(Nodes)
    PROVE  /\ OpenAt(file, 1) = <<>>
           /\ \A i \in 1 .. Len(file) : OpenAt(file, i + 1) = Opened(OpenAt(file, i), file[i])
<1>0. Len(file) \in Nat
    OBVIOUS
<1>1. OpenAt(file, 1) = <<>>
  <2>1. 1 \in 1 .. Len(file) + 1
      BY <1>0
  <2>2. PICK h : h[0] = <<>> /\ OpenAt(file, 1) = h[1 - 1]
      BY <2>1, OpenTrace
  <2> QED
      BY <2>2
<1>2. ASSUME NEW i \in 1 .. Len(file)
      PROVE  OpenAt(file, i + 1) = Opened(OpenAt(file, i), file[i])
  <2>1. i \in Nat \ {0} /\ i \in 1 .. Len(file) + 1 /\ i + 1 \in 1 .. Len(file) + 1
        /\ (i + 1) - 1 = i
      BY <1>0
  <2>2. PICK g : /\ g[0] = <<>>
                 /\ \A k \in 1 .. i - 1 : g[k] = Opened(g[k - 1], file[k])
                 /\ OpenAt(file, i) = g[i - 1]
      BY <2>1, OpenTrace
  <2>3. PICK h : /\ h[0] = <<>>
                 /\ \A k \in 1 .. (i + 1) - 1 : h[k] = Opened(h[k - 1], file[k])
                 /\ OpenAt(file, i + 1) = h[(i + 1) - 1]
      BY <2>1, OpenTrace
  <2> DEFINE G == {k \in Nat : k <= i - 1 => g[k] = h[k]}
  <2>4. 0 \in G
      BY <2>2, <2>3
  <2>5. ASSUME NEW k \in Nat, k \in G PROVE k + 1 \in G
    <3> SUFFICES ASSUME k + 1 <= i - 1 PROVE g[k + 1] = h[k + 1]
        OBVIOUS
    <3>1. k + 1 \in 1 .. i - 1 /\ k + 1 \in 1 .. (i + 1) - 1 /\ (k + 1) - 1 = k /\ k <= i - 1
        BY <2>1
    <3>2. g[k] = h[k]
        BY <2>5, <3>1
    <3> QED
        BY <2>2, <2>3, <3>1, <3>2
  <2> HIDE DEF G
  <2>6. i - 1 \in G /\ i - 1 \in Nat
      BY <2>1, <2>4, <2>5, NatSteps
  <2>7. g[i - 1] = h[i - 1]
      BY <2>1, <2>6 DEF G
  <2>8. h[i] = Opened(h[i - 1], file[i])
      BY <2>1, <2>3
  <2> QED
      BY <2>1, <2>2, <2>3, <2>7, <2>8
<1> QED
    BY <1>1, <1>2

-----------------------------------------------------------------------------
(* What the visitors know after k nodes *)

\* The nodes among the first k that are hooks in the body of an outermost component.
TopHooks(file, k) ==
    {j \in 1 .. k : /\ file[j].node = "hook"
                    /\ LET open == OpenAt(file, j)
                       IN  Len(open) = 1 /\ open[1].node # "callback" /\ open[1].capital}

Visited(info, file, k) ==
    /\ DOMAIN info = Fields /\ info.stack \in Seq(Nodes)
    /\ \A i \in DOMAIN info.stack :
          /\ info.stack[i].node \in {"fn", "arrow"}
          /\ info.stack[i].capital => info.stack[i].name \in info.components
    /\ info.imports \subseteq ImportNodes(file)
    /\ \A j \in 1 .. k : file[j].node = "import" =>
          \E i \in info.imports : i.module = file[j].module
    /\ \A r \in info.renders : r[1] \in info.components
    /\ ~HasCallbacks(file) =>
          /\ info.stack = OpenAt(file, k + 1)
          /\ info.topLevelHooks = {file[i].name : i \in TopHooks(file, k)}

LEMMA FileType ==
    ASSUME NEW file \in Files
    PROVE  /\ file \in Seq(Nodes) /\ Len(file) \in Nat /\ DOMAIN file = 1 .. Len(file)
           /\ ~HasCallbacks(file) =>
                 \A i \in 1 .. Len(file) : file[i].node \notin {"callback", "callback_end"}
<1>1. file \in Seq(Nodes)
    BY DEF Files
<1>2. Len(file) \in Nat /\ DOMAIN file = 1 .. Len(file)
    BY <1>1
<1>3. ASSUME ~HasCallbacks(file), NEW i \in 1 .. Len(file)
      PROVE  file[i].node \notin {"callback", "callback_end"}
  <2>1. \A j \in 1 .. Len(file) : file[j].node # "callback"
      BY <1>2, <1>3 DEF HasCallbacks
  <2>2. file[i].node = "callback_end" => \E j \in 1 .. i - 1 : file[j].node = "callback"
      BY <1>2 DEF Files
  <2>3. \A j \in 1 .. i - 1 : j \in 1 .. Len(file)
      BY <1>2
  <2> QED
      BY <2>1, <2>2, <2>3
<1> QED
    BY <1>1, <1>2, <1>3

\* The end of a function takes the last one from the stack.
LEMMA FrontOf ==
    ASSUME NEW S, NEW s \in Seq(S)
    PROVE  /\ Front(s) \in Seq(S) /\ DOMAIN Front(s) \subseteq DOMAIN s
           /\ \A i \in DOMAIN Front(s) : Front(s)[i] = s[i]
<1>1. Len(s) \in Nat /\ DOMAIN s = 1 .. Len(s)
    OBVIOUS
<1>2. CASE Len(s) = 0
  <2>1. Len(s) - 1 < 1
      BY <1>2
  <2>2. SubSeq(s, 1, Len(s) - 1) = <<>>
      BY <1>1, <2>1
  <2> QED
      BY <2>2 DEF Front
<1>3. CASE Len(s) # 0
  <2> DEFINE t == SubSeq(s, 1, Len(s) - 1)
  <2>1. t \in Seq(S) /\ Len(t) = Len(s) - 1 /\ \A i \in 1 .. Len(s) - 1 : t[i] = s[i]
      BY <1>1, <1>3
  <2>2. DOMAIN t = 1 .. Len(s) - 1
      BY <2>1
  <2>3. 1 .. Len(s) - 1 \subseteq 1 .. Len(s)
      BY <1>1
  <2>4. Front(s) = t
      BY DEF Front
  <2> HIDE DEF t
  <2> QED
      BY <1>1, <2>1, <2>2, <2>3, <2>4
<1> QED
    BY <1>1, <1>2, <1>3

LEMMA TopComponentIn ==
    ASSUME NEW stack, NEW names,
           \A i \in DOMAIN stack : stack[i].capital => stack[i].name \in names
    PROVE  TopComponent(stack) \subseteq names
BY DEF TopComponent

LEMMA VisitedFirst ==
    ASSUME NEW file \in Files, NEW info, Collected(info)
    PROVE  Visited(info, file, 0)
<1>1. OpenAt(file, 0 + 1) = <<>> /\ TopHooks(file, 0) = {}
    BY FileType, OpenSteps DEF TopHooks
<1> QED
    BY <1>1 DEF Collected, Visited

LEMMA VisitedNext ==
    ASSUME NEW file \in Files, NEW k \in Nat, k + 1 <= Len(file), NEW info,
           Visited(info, file, k)
    PROVE  Visited(Visit(info, file[k + 1]), file, k + 1)
<1> DEFINE n == file[k + 1]
           next == Visit(info, n)
<1>0. /\ file \in Seq(Nodes) /\ Len(file) \in Nat /\ DOMAIN file = 1 .. Len(file)
      /\ k + 1 \in 1 .. Len(file) /\ n \in Nodes
    BY FileType
<1>1. /\ DOMAIN info = Fields /\ info.stack \in Seq(Nodes)
      /\ \A i \in DOMAIN info.stack :
            /\ info.stack[i].node \in {"fn", "arrow"}
            /\ info.stack[i].capital => info.stack[i].name \in info.components
      /\ info.imports \subseteq ImportNodes(file)
      /\ \A r \in info.renders : r[1] \in info.components
    BY DEF Visited
<1>2. n = file[k + 1]
    OBVIOUS
<1> HIDE DEF n, next
<1>3. VisitGives(info, n, next)
    BY <1>1, VisitParts DEF next
<1>4. info.components \subseteq next.components
    BY <1>3 DEF VisitGives
<1>5. /\ next.stack \in Seq(Nodes)
      /\ \A i \in DOMAIN next.stack :
            /\ next.stack[i].node \in {"fn", "arrow"}
            /\ next.stack[i].capital => next.stack[i].name \in next.components
  <2>1. CASE n.node \in {"fn", "arrow"}
    <3>1. next.stack = Append(info.stack, n) /\ n.capital => n.name \in next.components
        BY <1>3, <2>1 DEF VisitGives
    <3> DEFINE s == info.stack
    <3>2. s \in Seq(Nodes) /\ Len(s) \in Nat /\ DOMAIN s = 1 .. Len(s)
        BY <1>1
    <3>3. /\ Append(s, n) \in Seq(Nodes) /\ DOMAIN Append(s, n) = 1 .. Len(s) + 1
          /\ Append(s, n)[Len(s) + 1] = n
          /\ \A i \in 1 .. Len(s) : Append(s, n)[i] = s[i]
        BY <1>0, <3>2
    <3>4. next.stack = Append(s, n)
        BY <1>3, <2>1 DEF VisitGives
    <3>5. n.capital => n.name \in next.components
        BY <1>3, <2>1 DEF VisitGives
    <3>6. \A i \in DOMAIN s : /\ s[i].node \in {"fn", "arrow"}
                              /\ s[i].capital => s[i].name \in next.components
        BY <1>1, <1>4
    <3> HIDE DEF s
    <3>7. \A i \in 1 .. Len(s) + 1 : i \in 1 .. Len(s) \/ i = Len(s) + 1
        BY <3>2
    <3> QED
        BY <2>1, <3>2, <3>3, <3>4, <3>5, <3>6, <3>7
  <2>2. CASE n.node = "fn_end"
    <3>1. next.stack = Front(info.stack)
        BY <1>3, <2>2 DEF VisitGives
    <3>2. /\ Front(info.stack) \in Seq(Nodes) /\ DOMAIN Front(info.stack) \subseteq DOMAIN info.stack
          /\ \A i \in DOMAIN Front(info.stack) : Front(info.stack)[i] = info.stack[i]
        BY <1>1, FrontOf
    <3> QED
        BY <1>1, <1>4, <3>1, <3>2
  <2>3. CASE n.node \notin {"fn", "arrow", "fn_end"}
    <3>1. next.stack = info.stack
        BY <1>3, <2>3 DEF VisitGives
    <3> QED
        BY <1>1, <1>4, <3>1
  <2> QED
      BY <2>1, <2>2, <2>3
<1>6. next.imports \subseteq ImportNodes(file)
  <2>1. n.node = "import" => n \in ImportNodes(file)
      BY <1>0, <1>2 DEF ImportNodes
  <2> QED
      BY <1>1, <1>3, <2>1 DEF VisitGives
<1>7. \A r \in next.renders : r[1] \in next.components
  <2>1. TopComponent(info.stack) \subseteq info.components
      BY <1>1, TopComponentIn
  <2>2. \A r \in TopComponent(info.stack) \X {n.name} : r[1] \in info.components
      BY <2>1
  <2> QED
      BY <1>1, <1>3, <1>4, <2>2 DEF VisitGives
<1>8. ASSUME ~HasCallbacks(file)
      PROVE  /\ next.stack = OpenAt(file, (k + 1) + 1)
             /\ next.topLevelHooks = {file[i].name : i \in TopHooks(file, k + 1)}
  <2>1. /\ info.stack = OpenAt(file, k + 1)
        /\ info.topLevelHooks = {file[i].name : i \in TopHooks(file, k)}
      BY <1>8 DEF Visited
  <2>2. n.node \notin {"callback", "callback_end"}
      BY <1>0, <1>2, <1>8, FileType
  <2>3. OpenAt(file, (k + 1) + 1) = Opened(info.stack, n)
      BY <1>0, <1>2, <2>1, OpenSteps
  <2>4. next.stack = Opened(info.stack, n)
      BY <1>3, <2>2 DEF Opened, VisitGives
  <2>5. TopLevel(info.stack) <=>
           /\ Len(OpenAt(file, k + 1)) = 1 /\ OpenAt(file, k + 1)[1].node # "callback"
           /\ OpenAt(file, k + 1)[1].capital
    <3>1. Len(info.stack) = 1 => 1 \in DOMAIN info.stack
        BY <1>1
    <3>2. Len(info.stack) = 1 => info.stack[1].node # "callback"
        BY <1>1, <3>1
    <3> QED
        BY <2>1, <3>2 DEF TopLevel
  <2>6. TopHooks(file, k + 1) =
            IF n.node = "hook" /\ TopLevel(info.stack)
            THEN TopHooks(file, k) \cup {k + 1} ELSE TopHooks(file, k)
    <3>1. 1 .. k + 1 = (1 .. k) \cup {k + 1} /\ k + 1 \notin 1 .. k
        OBVIOUS
    <3> QED
        BY <1>2, <2>5, <3>1 DEF TopHooks
  <2>7. next.topLevelHooks = {file[i].name : i \in TopHooks(file, k + 1)}
      BY <1>2, <1>3, <2>1, <2>6 DEF VisitGives
  <2> QED
      BY <2>3, <2>4, <2>7
<1>9. ASSUME NEW j \in 1 .. k + 1, file[j].node = "import"
      PROVE  \E i \in next.imports : i.module = file[j].module
  <2>1. CASE j = k + 1
    <3>1. n.node = "import" /\ n \in next.imports
        BY <1>2, <1>3, <1>9, <2>1 DEF VisitGives
    <3> QED
        BY <1>2, <2>1, <3>1
  <2>2. CASE j # k + 1
    <3>1. j \in 1 .. k
        BY <2>2
    <3>2. PICK i \in info.imports : i.module = file[j].module
        BY <1>9, <3>1 DEF Visited
    <3>3. i \in next.imports \/ (n \in next.imports /\ i.module = n.module)
        BY <1>3 DEF VisitGives
    <3> QED
        BY <3>2, <3>3
  <2> QED
      BY <2>1, <2>2
<1>10. Visited(next, file, k + 1)
    BY <1>3, <1>5, <1>6, <1>7, <1>8, <1>9 DEF Visited, VisitGives
<1> QED
    BY <1>10 DEF next, n

LEMMA VisitedFile ==
    ASSUME NEW file \in Files
    PROVE  Visited(Analyzed(file), file, Len(file))
<1> DEFINE n == Len(file)
<1>0. n \in Nat /\ DOMAIN file = 1 .. n
    BY FileType
<1> HIDE DEF n
<1>1. PICK h : /\ h[0] = FoldLeft(CollectTopLevel, EmptyInfo, file)
               /\ \A k \in 1 .. n : h[k] = Visit(h[k - 1], file[k])
               /\ Analyzed(file) = h[n]
    BY <1>0, VisitFold
<1> DEFINE G == {k \in Nat : k <= n => Visited(h[k], file, k)}
<1>2. 0 \in G
    BY <1>0, <1>1, CollectedFile, VisitedFirst
<1>3. ASSUME NEW k \in Nat, k \in G PROVE k + 1 \in G
  <2> SUFFICES ASSUME k + 1 <= n PROVE Visited(h[k + 1], file, k + 1)
      OBVIOUS
  <2>1. Visited(h[k], file, k)
      BY <1>0, <1>3
  <2>2. k + 1 \in 1 .. n /\ (k + 1) - 1 = k
      BY <1>0
  <2>3. h[k + 1] = Visit(h[k], file[k + 1])
      BY <1>1, <2>2
  <2>4. k + 1 <= Len(file)
      BY DEF n
  <2> QED
      BY <2>1, <2>3, <2>4, VisitedNext
<1> HIDE DEF G
<1>4. n \in G
    BY <1>0, <1>2, <1>3, NatSteps
<1>5. Visited(h[n], file, n)
    BY <1>0, <1>4 DEF G
<1> QED
    BY <1>1, <1>5 DEF n

LEMMA ImportNames ==
    ASSUME NEW file \in Files, NEW n \in ImportNodes(file)
    PROVE  "" \notin n.names
<1>1. PICK a \in DOMAIN file : file[a].node = "import" /\ n = file[a]
    BY DEF ImportNodes
<1>2. n \in Nodes
    BY <1>1, FileType
<1> QED
    BY <1>1, <1>2 DEF Nodes

LEMMA ChecksSayWhatIs ==
    ASSUME NEW file \in Files
    PROVE  LET info == Analyzed(file)
               names == UNION {n.names : n \in ImportNodes(file) \cup info.imports}
           IN  /\ ~HasCallbacks(file) => info.topLevelHooks = ReallyTopLevel(file)
               /\ \A mod \in Specifiers(file), name \in names :
                    LET found == MatchAst({info}, [kind |-> "import", module |-> mod,
                                                   name |-> name])
                    IN  /\ found => name \in ReallyImported(file, mod)
                        /\ ImportedOnce(file, mod) =>
                               (name \in ReallyImported(file, mod) => found)
               /\ \A r \in info.renders :
                    MatchAst({info}, [kind |-> "component", name |-> r[1]])
<1> DEFINE info == Analyzed(file)
           names == UNION {n.names : n \in ImportNodes(file) \cup info.imports}
<1>1. Visited(info, file, Len(file)) /\ DOMAIN file = 1 .. Len(file)
    BY VisitedFile, FileType
<1> HIDE DEF info
<1>2. ~HasCallbacks(file) => info.topLevelHooks = ReallyTopLevel(file)
    BY <1>1 DEF Visited, TopHooks, ReallyTopLevel
<1>3. ASSUME NEW mod, NEW name \in names
      PROVE  LET found == MatchAst({info}, [kind |-> "import", module |-> mod,
                                            name |-> name])
             IN  /\ found => name \in ReallyImported(file, mod)
                 /\ ImportedOnce(file, mod) =>
                        (name \in ReallyImported(file, mod) => found)
  <2> DEFINE check == [kind |-> "import", module |-> mod, name |-> name]
  <2>1. info.imports \subseteq ImportNodes(file)
      BY <1>1 DEF Visited
  <2>2. name # ""
      BY <2>1, ImportNames
  <2>3. check.kind = "import" /\ check.module = mod /\ check.name = name
      OBVIOUS
  <2> HIDE DEF check, names
  <2>4. MatchAst({info}, check) <=>
            \E i \in info.imports : Matches(i.module, mod) /\ name \in i.names \cup {""}
      BY <2>3 DEF MatchAst
  <2>5. MatchAst({info}, check) => name \in ReallyImported(file, mod)
      BY <2>1, <2>2, <2>4 DEF ReallyImported
  <2>6. ASSUME ImportedOnce(file, mod), name \in ReallyImported(file, mod)
        PROVE  MatchAst({info}, check)
    <3>1. PICK m \in ImportNodes(file) : Matches(m.module, mod) /\ name \in m.names
        BY <2>6 DEF ReallyImported
    <3>2. PICK a \in DOMAIN file : file[a].node = "import" /\ m = file[a]
        BY DEF ImportNodes
    <3>3. PICK i \in info.imports : i.module = m.module
        BY <1>1, <3>2 DEF Visited
    <3>4. i = m
        BY <2>1, <2>6, <3>1, <3>3 DEF ImportedOnce
    <3> QED
        BY <2>4, <3>1, <3>4
  <2> QED
      BY <2>5, <2>6 DEF check
<1>4. ASSUME NEW r \in info.renders
      PROVE  MatchAst({info}, [kind |-> "component", name |-> r[1]])
  <2>1. r[1] \in info.components
      BY <1>1 DEF Visited
  <2> DEFINE check == [kind |-> "component", name |-> r[1]]
  <2>2. check.kind = "component" /\ check.name = r[1]
      OBVIOUS
  <2> HIDE DEF check
  <2>3. MatchAst({info}, check)
      BY <2>1, <2>2 DEF MatchAst
  <2> QED
      BY <2>3 DEF check
<1> QED
    BY <1>2, <1>3, <1>4 DEF info

\* Whatever projects the workflows leave: hooks the checks call top-level are called in
\* the body of an outermost component, a name an import check finds is imported from a
\* module the check names at least in part, all such names are found when each of these
\* modules is imported once, and what renders something is a component.
THEOREM ChecksStayStructural == Spec => []ChecksAreStructural
<1>1. RunnerType => ChecksAreStructural
  <2> SUFFICES ASSUME RunnerType, NEW file \in source PROVE file \in Files
      BY ChecksSayWhatIs DEF ChecksAreStructural
  <2> QED
      BY EvalAssumption DEF RunnerType
<1> QED
    BY <1>1, TypesStay, PTL DEF TypeInv


-----------------------------------------------------------------------------
(* A green run is earned *)

LEMMA SameEvaluated ==
    ASSUME UNCHANGED evaluated
    PROVE  Evaluated' = Evaluated
BY DEF Evaluated

\* Nothing happens after the exit.
LEMMA ExitedIsFinal ==
    ASSUME [Next]_vars, stage = "exited"
    PROVE  UNCHANGED vars
BY DEF Next, Runner, Seed, TurnEnds, TurnThrows, TimesOut, GraceEnds, Judge, FlushStarts,
       FlushEnds, WriteResult, EmitReport, ReportDone, Gate, ReportLands, ReportFails,
       AppendEnds, Signal, SignalExits, AgentRecords, AgentInstalls, AgentAborts

\* What the steps do to the results, action by action.
LEMMA WhatIsWritten ==
    ASSUME [Next]_vars, ~WriteResult
    PROVE  UNCHANGED <<stored, evaluated>>
BY DEF Next, Runner, Seed, TurnEnds, TurnThrows, TimesOut, GraceEnds, Judge, FlushStarts,
       FlushEnds, EmitReport, ReportDone, Gate, ReportLands, ReportFails, AppendEnds, Signal,
       SignalExits, AgentRecords, AgentInstalls, AgentAborts, vars, running, results

LEMMA InitOutcomes == Init => OutcomeKnown /\ InCaseOrder /\ ReportOfMain /\ GreenIsEarned
<1> SUFFICES ASSUME Init PROVE OutcomeKnown /\ InCaseOrder /\ ReportOfMain /\ GreenIsEarned
    OBVIOUS
<1>1. OutcomeKnown
    BY DEF Init, OutcomeKnown, Judged, NoOutcome
<1>2. InCaseOrder
  <2>1. Evaluated = {}
      BY DEF Init, Evaluated, NoOutcome
  <2>2. \A c \in Cases : stored[c] = evaluated[c].status
      BY DEF Init, NoOutcome
  <2>3. 1 .. current - 1 = {}
      BY DEF Init
  <2> QED
      BY <2>1, <2>2, <2>3 DEF Init, InCaseOrder
<1>3. ReportOfMain
    BY DEF Init, ReportOfMain
<1>4. GreenIsEarned
  <2>1. exit # 0
      BY DEF Init
  <2> QED
      BY <2>1 DEF GreenIsEarned
<1> QED
    BY <1>1, <1>2, <1>3, <1>4

\* Only completed cases are judged.
LEMMA StepOutcome == TypeInv /\ OutcomeKnown /\ [Next]_vars => OutcomeKnown'
<1> SUFFICES ASSUME TypeInv, OutcomeKnown, [Next]_vars PROVE OutcomeKnown'
    OBVIOUS
<1>0. /\ outcome \in Outcomes /\ evaluated \in [Cases -> Outcomes] /\ current \in Cases
      /\ NoOutcome \in Outcomes /\ NoOutcome.checks = NoChecks /\ NoOutcome.grade = NoGrade
      /\ Judged(outcome) /\ \A c \in Cases : Judged(evaluated[c])
    BY NoOutcomeType DEF TypeInv, RunnerType, ResultsType, OutcomeKnown, NoOutcome
<1>1. (\A c \in Cases : Judged(evaluated[c]))'
  <2>1. CASE WriteResult
    <3>1. \/ evaluated' = [evaluated EXCEPT ![current] = outcome]
          \/ evaluated' = evaluated
        BY <2>1 DEF WriteResult
    <3>2. \A c \in Cases : evaluated'[c] = outcome \/ evaluated'[c] = evaluated[c]
        BY <1>0, <3>1
    <3> QED
        BY <1>0, <3>2 DEF Judged
  <2>2. CASE ~WriteResult
      BY <1>0, <2>2, WhatIsWritten DEF Judged
  <2> QED
      BY <2>1, <2>2
<1>2. /\ stage' \in {"judge", "flush", "flushing", "write"} => outcome'.status \in Statuses
      /\ Judged(outcome')
  <2>1. CASE Seed
    <3>1. \/ outcome' = outcome /\ stage' = "agent"
          \/ outcome' = [NoOutcome EXCEPT !.status = "crashed"]
        BY <2>1 DEF Seed
    <3>2. LET e == [NoOutcome EXCEPT !.status = "crashed"]
          IN  e.status = "crashed" /\ e.checks = NoChecks /\ e.grade = NoGrade
        BY <1>0 DEF NoOutcome
    <3> QED
        BY <1>0, <3>1, <3>2 DEF Judged, Statuses
  <2>2. CASE TurnEnds
    <3>1. \/ outcome' = outcome /\ stage' = "agent"
          \/ \E d \in TurnTimes, f \in Finals, a \in 0 .. Repairs :
                outcome' = [NoOutcome EXCEPT !.status = StatusOfFinal(f), !.attempts = a,
                                             !.duration = spent + d]
        BY <2>2 DEF TurnEnds
    <3>2. ASSUME NEW d \in TurnTimes, NEW f \in Finals, NEW a \in 0 .. Repairs
          PROVE  LET e == [NoOutcome EXCEPT !.status = StatusOfFinal(f), !.attempts = a,
                                            !.duration = spent + d]
                 IN  e.status \in Statuses /\ e.checks = NoChecks /\ e.grade = NoGrade
      <4>1. StatusOfFinal(f) \in Statuses
          BY DEF StatusOfFinal, Statuses
      <4> QED
          BY <1>0, <4>1 DEF NoOutcome
    <3> QED
        BY <1>0, <3>1, <3>2 DEF Judged
  <2>3. CASE TurnThrows \/ GraceEnds
    <3>1. \/ outcome' = [NoOutcome EXCEPT !.status = "crashed", !.duration = spent]
          \/ outcome' = [NoOutcome EXCEPT !.status = "timeout", !.duration = spent]
        BY <2>3 DEF TurnThrows, GraceEnds
    <3>2. \A s \in Statuses :
            LET e == [NoOutcome EXCEPT !.status = s, !.duration = spent]
            IN  e.status = s /\ e.checks = NoChecks /\ e.grade = NoGrade
        BY <1>0 DEF NoOutcome
    <3>3. "crashed" \in Statuses /\ "timeout" \in Statuses
        BY DEF Statuses
    <3> QED
        BY <3>1, <3>2, <3>3 DEF Judged
  <2>4. CASE Judge
    <3>1. stage = "judge" /\ outcome.status \in Statuses
        BY <2>4 DEF Judge, OutcomeKnown
    <3>2. outcome'.status = outcome.status
        BY <1>0, <2>4 DEF Judge, Outcomes
    <3>3. outcome.status # "completed" => outcome' = outcome
        BY <2>4 DEF Judge
    <3> QED
        BY <1>0, <3>1, <3>2, <3>3 DEF Judged
  <2>5. CASE WriteResult
    <3>1. outcome' = NoOutcome /\ stage' \in {"seed", "report"}
        BY <2>5 DEF WriteResult
    <3> QED
        BY <1>0, <3>1 DEF Judged
  <2>6. CASE ~(Seed \/ TurnEnds \/ TurnThrows \/ GraceEnds \/ Judge \/ WriteResult)
    <3>1. /\ outcome' = outcome
          /\ stage' \in {"judge", "flush", "flushing", "write"} =>
                stage \in {"judge", "flush", "flushing", "write"}
        BY <2>6 DEF Next, Runner, TimesOut, FlushStarts, FlushEnds, EmitReport,
                    ReportDone, Gate, ReportLands, ReportFails, AppendEnds, Signal,
                    SignalExits, AgentRecords, AgentInstalls, AgentAborts, vars, running
    <3> QED
        BY <1>0, <3>1 DEF OutcomeKnown
  <2> QED
      BY <2>1, <2>2, <2>3, <2>4, <2>5, <2>6
<1> QED
    BY <1>1, <1>2 DEF OutcomeKnown, Judged

\* The result of a case joins those of the cases before it.
LEMMA WriteInOrder ==
    ASSUME TypeInv, OutcomeKnown, InCaseOrder, WriteResult
    PROVE  InCaseOrder'
<1>0. /\ stage = "write" /\ exit = -1 /\ Evaluated = 1 .. current - 1
      /\ current \in Cases /\ outcome.status \in Statuses /\ Missing \notin Statuses
      /\ stored \in [Cases -> Statuses \cup {Missing}] /\ evaluated \in [Cases -> Outcomes]
      /\ \A c \in Cases : stored[c] = evaluated[c].status
    BY DEF WriteResult, TypeInv, RunnerType, ResultsType, OutcomeKnown, InCaseOrder, Statuses,
           Missing
<1>1. CASE /\ stored' = [stored EXCEPT ![current] = outcome.status]
           /\ evaluated' = [evaluated EXCEPT ![current] = outcome]
           /\ IF current < NumCases THEN stage' = "seed" /\ current' = current + 1
              ELSE stage' = "report" /\ UNCHANGED current
           /\ UNCHANGED exit
  <2>1. \A c \in Cases : /\ stored'[c] = evaluated'[c].status
                         /\ evaluated'[c].status # Missing <=>
                               evaluated[c].status # Missing \/ c = current
      BY <1>0, <1>1
  <2>2. Evaluated' = Evaluated \cup {current}
      BY <1>0, <2>1 DEF Evaluated
  <2>3. Evaluated' = 1 .. current
      BY <1>0, <2>2, Numbers DEF Cases
  <2>4. CASE current < NumCases
    <3>1. current' - 1 = current
        BY <1>0, <1>1, <2>4, Numbers
    <3> QED
        BY <1>0, <1>1, <2>1, <2>3, <2>4, <3>1 DEF InCaseOrder
  <2>5. CASE ~(current < NumCases)
    <3>1. current = NumCases
        BY <1>0, <2>5, Numbers DEF Cases
    <3>2. Evaluated' = Cases
        BY <2>3, <3>1 DEF Cases
    <3> QED
        BY <1>0, <1>1, <2>1, <2>5, <3>2 DEF InCaseOrder
  <2> QED
      BY <2>4, <2>5
<1>2. CASE stage' = "report" /\ exit' = 1 /\ UNCHANGED <<stored, evaluated, current>>
    BY <1>0, <1>2 DEF InCaseOrder
<1> QED
    BY <1>1, <1>2 DEF WriteResult

LEMMA StepInCaseOrder ==
    TypeInv /\ OutcomeKnown /\ InCaseOrder /\ [Next]_vars => InCaseOrder'
<1> SUFFICES ASSUME TypeInv, OutcomeKnown, InCaseOrder, [Next]_vars, ~WriteResult
             PROVE  InCaseOrder'
    BY WriteInOrder
<1> DEFINE Early == {"seed", "agent", "grace", "judge", "flush", "flushing", "write"}
<1>0. UNCHANGED <<stored, evaluated>> /\ Evaluated' = Evaluated
    BY WhatIsWritten, SameEvaluated
<1>1. CASE \/ Seed \/ TurnEnds \/ TurnThrows \/ TimesOut \/ GraceEnds \/ Judge
           \/ FlushStarts \/ FlushEnds
  <2>1. stage \in Early /\ stage' \in Early /\ current' = current /\ exit' = exit
      BY <1>1 DEF Seed, TurnEnds, TurnThrows, TimesOut, GraceEnds, Judge, FlushStarts,
                  FlushEnds, results
  <2> QED
      BY <1>0, <2>1 DEF InCaseOrder
<1>2. CASE EmitReport \/ ReportDone \/ Gate
    BY <1>0, <1>2 DEF EmitReport, ReportDone, Gate, InCaseOrder, results, ExitCode
<1>3. CASE SignalExits \/ \E w \in writing : ReportLands(w) \/ ReportFails(w)
    BY <1>0, <1>3 DEF SignalExits, ReportLands, ReportFails, InCaseOrder, running
<1>4. CASE \/ Signal \/ AppendEnds \/ UNCHANGED vars
           \/ \E c \in Cases : AgentRecords(c) \/ AgentInstalls(c) \/ AgentAborts(c)
  <2>1. UNCHANGED <<stage, current, exit>>
      BY <1>4 DEF Signal, AppendEnds, vars, AgentRecords, AgentInstalls, AgentAborts, running,
                  results
  <2> QED
      BY <1>0, <2>1 DEF InCaseOrder
<1> QED
    BY <1>1, <1>2, <1>3, <1>4 DEF Next, Runner

\* The report of main has all cases, when no other one is in its way.
LEMMA StepReport ==
    TypeInv /\ InCaseOrder /\ ReportOfMain /\ [Next]_vars => ReportOfMain'
<1> SUFFICES ASSUME TypeInv, InCaseOrder, ReportOfMain, [Next]_vars, ~signalled'
             PROVE  ReportOfMain'
    BY DEF ReportOfMain
<1> DEFINE main == <<"main", Cardinality(Evaluated)>>
<1>0. ~signalled
    BY DEF Next, Runner, Seed, TurnEnds, TurnThrows, TimesOut, GraceEnds, Judge, FlushStarts,
           FlushEnds, WriteResult, EmitReport, ReportDone, Gate, ReportLands, ReportFails,
           AppendEnds, Signal, SignalExits, AgentRecords, AgentInstalls, AgentAborts, vars,
           results
<1>1. /\ writing \subseteq {main}
      /\ stage \notin {"reporting", "exited"} => writing = {}
      /\ stage = "reporting" /\ exit = -1 /\ writing = {} => report = Cases
      /\ stage = "gate" => report = Cases
    BY <1>0 DEF ReportOfMain
<1>2. ~WriteResult => Evaluated' = Evaluated
    BY WhatIsWritten, SameEvaluated
<1>3. CASE \/ Seed \/ TurnEnds \/ TurnThrows \/ TimesOut \/ GraceEnds \/ Judge
           \/ FlushStarts \/ FlushEnds \/ WriteResult
  <2>1. /\ stage \notin {"reporting", "exited"} /\ writing' = writing
        /\ stage' \notin {"reporting", "exited", "gate"}
      BY <1>3 DEF Seed, TurnEnds, TurnThrows, TimesOut, GraceEnds, Judge, FlushStarts,
                  FlushEnds, WriteResult, results
  <2> QED
      BY <1>1, <2>1 DEF ReportOfMain
<1>4. CASE EmitReport
  <2>1. /\ writing = {} /\ stage' = "reporting" /\ UNCHANGED <<evaluated, exit, report>>
        /\ writing' = IF Evaluated = {} THEN {} ELSE {main}
      BY <1>1, <1>4 DEF EmitReport, Emitted
  <2>2. exit = -1 => Evaluated # {}
    <3>1. exit = -1 => Evaluated = Cases
        BY <1>4 DEF EmitReport, InCaseOrder
    <3>2. 1 \in Cases
        BY Numbers DEF Cases
    <3> QED
        BY <3>1, <3>2
  <2>3. Evaluated' = Evaluated
      BY <2>1, SameEvaluated
  <2> QED
      BY <2>1, <2>2, <2>3 DEF ReportOfMain
<1>5. ASSUME NEW w \in writing, ReportLands(w)
      PROVE  ReportOfMain'
  <2>1. /\ stage = "reporting" /\ w = main /\ stage' = stage /\ exit' = exit
        /\ evaluated' = evaluated /\ writing' = {}
        /\ \E n \in w[2] .. Cardinality(Evaluated) : report' = 1 .. n
      BY <1>1, <1>5 DEF ReportLands, running
  <2>2. report' = 1 .. Cardinality(Evaluated)
      BY <2>1, EvaluatedCount
  <2>3. exit = -1 => Evaluated = Cases
      BY <2>1 DEF InCaseOrder
  <2>4. exit = -1 => report' = Cases
      BY <2>2, <2>3, Numbers DEF Cases
  <2> QED
      BY <2>1, <2>4 DEF ReportOfMain
<1>6. ASSUME NEW w \in writing, ReportFails(w)
      PROVE  ReportOfMain'
  <2>1. w = main /\ writing' = {} /\ stage' = "exited"
      BY <1>1, <1>6 DEF ReportFails
  <2> QED
      BY <2>1 DEF ReportOfMain
<1>7. CASE ReportDone
  <2>1. /\ writing = {} /\ stage = "reporting"
        /\ stage' = IF exit = -1 THEN "gate" ELSE "exited"
        /\ UNCHANGED <<writing, report, exit>>
      BY <1>1, <1>7 DEF ReportDone, results
  <2> QED
      BY <1>1, <2>1 DEF ReportOfMain
<1>8. CASE Gate
    BY <1>1, <1>2, <1>8 DEF Gate, WriteResult, ReportOfMain
<1>9. CASE Signal \/ SignalExits
    BY <1>0, <1>9 DEF Signal, SignalExits
<1>10. CASE \/ AppendEnds \/ UNCHANGED vars
            \/ \E c \in Cases : AgentRecords(c) \/ AgentInstalls(c) \/ AgentAborts(c)
  <2>1. UNCHANGED <<stage, writing, report, exit, evaluated>>
      BY <1>10 DEF AppendEnds, vars, AgentRecords, AgentInstalls, AgentAborts, running, results
  <2>2. Evaluated' = Evaluated
      BY <2>1, SameEvaluated
  <2> QED
      BY <1>1, <2>1, <2>2 DEF ReportOfMain
<1> QED
    BY <1>3, <1>4, <1>5, <1>6, <1>7, <1>8, <1>9, <1>10 DEF Next, Runner

-----------------------------------------------------------------------------
(* The gate, and the product score *)

LEMMA MaxWithOne ==
    ASSUME NEW n \in Nat
    PROVE  Max({n, 1}) = IF n >= 1 THEN n ELSE 1
<1> DEFINE m == IF n >= 1 THEN n ELSE 1
<1>1. m \in {n, 1} /\ \A y \in {n, 1} : m >= y
    OBVIOUS
<1>2. \A x \in {n, 1} : (\A y \in {n, 1} : x >= y) => x = m
    OBVIOUS
<1> HIDE DEF m
<1>3. Max({n, 1}) = m
    BY <1>1, <1>2 DEF Max
<1> QED
    BY <1>3 DEF m

\* The scale of the scores.
Total == Max({Features, 1})
LEMMA TotalType == Total \in Nat \ {0}
<1>1. Features \in Nat
    BY Numbers
<1> QED
    BY <1>1, MaxWithOne DEF Total

LEMMA RoundedType ==
    ASSUME NEW num \in Int, NEW den \in Nat \ {0}
    PROVE  Rounded(num, den) \in Int
<1>1. 2 * num + den \in Int /\ 2 * den \in Nat \ {0}
    OBVIOUS
<1>2. \A a \in Int, d \in Nat \ {0} : a \div d \in Int
    OBVIOUS
<1> QED
    BY <1>1, <1>2 DEF Rounded

\* The score of a case, from its parts.
Weight(e) == IF e.grade # NoGrade THEN 80 ELSE 60
Points(e) == Total * (35 * BuildRaw(e.status) + IF e.grade # NoGrade THEN 20 * e.grade ELSE 0)
             + 25 * 100 * FeaturesHit(e)

LEMMA ProductScoreParts ==
    ASSUME NEW e
    PROVE  ProductScore(e, Features) = Rounded(100 * Points(e), Weight(e) * Total)
BY DEF ProductScore, ProductPoints, ProductWeight, Points, Weight, Total

LEMMA BuildRaws ==
    /\ BuildRaw("completed") = 100 /\ BuildRaw("build_failed") = 40
    /\ BuildRaw("agent_error") = 10 /\ BuildRaw("timeout") = 0 /\ BuildRaw("crashed") = 0
BY DEF BuildRaw

LEMMA ScoreType ==
    ASSUME NEW e \in Outcomes, e.status \in Statuses
    PROVE  /\ ProductScore(e, Features) \in Int
           /\ Points(e) \in Int /\ Weight(e) * Total \in Nat \ {0}
<1>1. BuildRaw(e.status) \in Int
    BY BuildRaws DEF Statuses
<1>2. FeaturesHit(e) \in Int
    BY Numbers, OutcomeFields DEF FeaturesHit
<1>3. (IF e.grade # NoGrade THEN 20 * e.grade ELSE 0) \in Int
    BY OutcomeFields
<1>4. Points(e) \in Int
  <2>1. \A t, a, b, c \in Int : t * (35 * a + b) + 25 * 100 * c \in Int
      OBVIOUS
  <2> QED
      BY <1>1, <1>2, <1>3, <2>1, TotalType DEF Points
<1>5. Weight(e) * Total \in Nat \ {0}
    BY TotalType DEF Weight
<1>6. 100 * Points(e) \in Int
    BY <1>4
<1> QED
    BY <1>4, <1>5, <1>6, ProductScoreParts, RoundedType

LEMMA GateEarns ==
    ASSUME TypeInv, InCaseOrder, ReportOfMain, Gate, exit' = 0
    PROVE  GreenIsEarned'
<1>1. /\ stage = "gate" /\ exit = -1 /\ Evaluated = Cases
      /\ \A c \in Cases : stored[c] = evaluated[c].status
      /\ UNCHANGED <<stored, report, signalled>>
    BY DEF Gate, InCaseOrder
<1>2. {evaluated[c].status : c \in Evaluated} \subseteq {"completed"}
    BY DEF Gate, ExitCode
<1>3. \A c \in Cases : stored[c] = "completed"
  <2>1. \A c \in Evaluated : evaluated[c].status \in {"completed"}
      BY <1>2
  <2> QED
      BY <1>1, <2>1
<1>4. signalled \/ report = Cases
    BY <1>1 DEF ReportOfMain
<1> QED
    BY <1>1, <1>3, <1>4 DEF GreenIsEarned

LEMMA StepEarned ==
    TypeInv /\ InCaseOrder /\ ReportOfMain /\ GreenIsEarned /\ [Next]_vars => GreenIsEarned'
<1> SUFFICES ASSUME TypeInv, InCaseOrder, ReportOfMain, GreenIsEarned, [Next]_vars, exit' = 0
             PROVE  GreenIsEarned'
    BY DEF GreenIsEarned
<1>1. CASE exit = 0
  <2>1. UNCHANGED vars
      BY <1>1, ExitedIsFinal DEF InCaseOrder
  <2> QED
      BY <1>1, <2>1 DEF vars, results, GreenIsEarned
<1>2. CASE exit # 0
  <2>1. CASE WriteResult \/ SignalExits \/ \E w \in writing : ReportLands(w) \/ ReportFails(w)
      BY <1>2, <2>1 DEF WriteResult, SignalExits, ReportLands, ReportFails
  <2>2. CASE ~(\/ WriteResult \/ SignalExits \/ Gate
               \/ \E w \in writing : ReportLands(w) \/ ReportFails(w))
    <3>1. exit' = exit
        BY <2>2 DEF Next, Runner, Seed, TurnEnds, TurnThrows, TimesOut, GraceEnds, Judge,
                    FlushStarts, FlushEnds, EmitReport, ReportDone, AppendEnds, Signal,
                    AgentRecords, AgentInstalls, AgentAborts, vars, results
    <3> QED
        BY <1>2, <3>1
  <2> QED
      BY <2>1, <2>2, GateEarns
<1> QED
    BY <1>1, <1>2

\* Exit code 0 is earned, whatever the signals, failed writes and workflows: every case
\* has its completed result on disk, and the report has them all unless the run was told
\* to stop.
THEOREM GreenStaysEarned == Spec => []GreenIsEarned
<1> DEFINE Inv == TypeInv /\ OutcomeKnown /\ InCaseOrder /\ ReportOfMain /\ GreenIsEarned
<1>1. Init => Inv
    BY InitTypes, InitOutcomes
<1>2. Inv /\ [Next]_vars => Inv'
    BY StepTypes, StepOutcome, StepInCaseOrder, StepReport, StepEarned
<1> QED
    BY <1>1, <1>2, PTL DEF Spec

-----------------------------------------------------------------------------
(* Comparisons *)

\* A quotient is the largest number whose product does not exceed the dividend.
LEMMA QuotientLargest ==
    ASSUME NEW a \in Int, NEW d \in Nat \ {0}, NEW q \in Int, d * q <= a
    PROVE  q <= a \div d
<1> DEFINE p == a \div d
<1>1. p \in Int /\ a < d * (p + 1)
    OBVIOUS
<1> HIDE DEF p
<1>2. ASSUME q > p PROVE FALSE
  <2>1. q >= p + 1
      BY <1>1, <1>2
  <2>2. d * q >= d * (p + 1)
      BY <1>1, <2>1
  <2>3. d * q \in Int /\ d * (p + 1) \in Int
      BY <1>1
  <2> QED
      BY <1>1, <2>2, <2>3
<1>3. q <= p
    BY <1>1, <1>2
<1> QED
    BY <1>3 DEF p

\* Rounding respects the order of fractions.
LEMMA RoundedInOrder ==
    ASSUME NEW m \in Int, NEW d \in Nat \ {0}, NEW n \in Int, NEW e \in Nat \ {0},
           m * e <= n * d
    PROVE  Rounded(m, d) <= Rounded(n, e)
<1> DEFINE q == (2 * m + d) \div (2 * d)
<1>1. q \in Int /\ (2 * d) * q <= 2 * m + d
  <2>1. 2 * m + d \in Int /\ 2 * d \in Nat \ {0}
      OBVIOUS
  <2>2. \A a \in Int, c \in Nat \ {0} : a \div c \in Int /\ c * (a \div c) <= a
      OBVIOUS
  <2> QED
      BY <2>1, <2>2
<1> HIDE DEF q
<1>2. d * ((2 * e) * q) <= d * (2 * n + e)
  <2>1. d * ((2 * e) * q) = e * ((2 * d) * q)
      BY <1>1
  <2>2. e * ((2 * d) * q) <= e * (2 * m + d)
      BY <1>1
  <2>3. e * (2 * m + d) = 2 * (m * e) + d * e
      OBVIOUS
  <2>4. d * (2 * n + e) = 2 * (n * d) + d * e
      OBVIOUS
  <2>5. /\ m * e \in Int /\ n * d \in Int /\ d * e \in Int /\ e * ((2 * d) * q) \in Int
      BY <1>1
  <2> QED
      BY <2>1, <2>2, <2>3, <2>4, <2>5
<1>3. (2 * e) * q <= 2 * n + e
  <2> DEFINE x == (2 * e) * q
             y == 2 * n + e
  <2>1. x \in Int /\ y \in Int /\ d * x <= d * y
      BY <1>1, <1>2
  <2> HIDE DEF x, y
  <2>2. ASSUME x > y PROVE FALSE
    <3>1. x >= y + 1
        BY <2>1, <2>2
    <3>2. d * x >= d * (y + 1) /\ d * (y + 1) = d * y + d
        BY <2>1, <3>1
    <3>3. d * x \in Int /\ d * y \in Int
        BY <2>1
    <3> QED
        BY <2>1, <3>2, <3>3
  <2>3. x <= y
      BY <2>1, <2>2
  <2> QED
      BY <2>3 DEF x, y
<1>4. q <= (2 * n + e) \div (2 * e)
  <2>1. 2 * n + e \in Int /\ 2 * e \in Nat \ {0}
      OBVIOUS
  <2> QED
      BY <1>1, <1>3, <2>1, QuotientLargest
<1> QED
    BY <1>4 DEF Rounded, q

\* A better status weighs more, with or without a judge.
LEMMA ImprovedScores ==
    ASSUME NEW before \in Outcomes, NEW after \in Outcomes,
           before.status \in Statuses, after.status \in Statuses,
           Judged(before), Judged(after),
           Transition(before.status, after.status) = "improved"
    PROVE  ProductScore(after, Features) >= ProductScore(before, Features)
<1> DEFINE b == BuildRaw(before.status)
           a == BuildRaw(after.status)
<1>1. /\ before.status # Missing /\ after.status # Missing
      /\ Rank(after.status) > Rank(before.status)
  <2>1. before.status # Missing /\ after.status # Missing
      BY DEF Statuses, Missing
  <2> QED
      BY <2>1 DEF Transition
<1>2. /\ before.status # "completed"
      /\ b \in 0 .. 40 /\ a \in Int
      /\ \/ after.status = "completed" /\ a = 100
         \/ after.status # "completed" /\ b <= a
    BY <1>1, BuildRaws DEF Statuses, Rank
<1> HIDE DEF a, b
<1>3. Weight(before) = 60 /\ Points(before) = Total * (35 * b)
  <2>1. before.grade = NoGrade /\ before.checks = NoChecks
      BY <1>2 DEF Judged
  <2>2. Points(before) = Total * (35 * b + 0) + 25 * 100 * 0
      BY <2>1 DEF Points, FeaturesHit, b
  <2> QED
      BY <1>2, <2>1, <2>2, TotalType DEF Weight
<1>4. /\ Weight(after) \in {60, 80} /\ (after.status # "completed" => Weight(after) = 60)
      /\ Points(after) >= Total * (35 * a) /\ Points(after) \in Int
  <2>1. FeaturesHit(after) \in Nat
      BY Numbers, OutcomeFields DEF FeaturesHit
  <2>2. PICK g \in Nat : g = IF after.grade # NoGrade THEN 20 * after.grade ELSE 0
      BY OutcomeFields
  <2>3. Points(after) = Total * (35 * a + g) + 25 * 100 * FeaturesHit(after)
      BY <2>2 DEF Points, a
  <2>4. \A t, x, y, z \in Int : t >= 0 /\ y >= 0 /\ z >= 0 =>
            t * (35 * x + y) + 25 * 100 * z >= t * (35 * x)
    <3> TAKE t, x, y, z \in Int
    <3> HAVE t >= 0 /\ y >= 0 /\ z >= 0
    <3>1. t * (35 * x + y) = t * (35 * x) + t * y
        OBVIOUS
    <3>2. t * y >= 0 /\ t * y \in Int /\ t * (35 * x) \in Int
        OBVIOUS
    <3> QED
        BY <3>1, <3>2
  <2>5. Points(after) >= Total * (35 * a)
      BY <1>2, <2>1, <2>2, <2>3, <2>4, TotalType
  <2>6. Points(after) \in Int
      BY ScoreType
  <2>7. /\ Weight(after) \in {60, 80}
        /\ after.status # "completed" => Weight(after) = 60
      BY DEF Judged, Weight
  <2> QED
      BY <2>5, <2>6, <2>7
<1> DEFINE w == Weight(after)
           p == Points(after)
<1>5. (35 * b) * w <= (35 * a) * 60
  <2>1. CASE after.status = "completed"
      BY <1>2, <1>4, <2>1
  <2>2. CASE after.status # "completed"
      BY <1>2, <1>4, <2>2
  <2> QED
      BY <2>1, <2>2
<1>6. /\ w \in Nat \ {0} /\ p \in Int /\ p >= Total * (35 * a) /\ Total \in Nat \ {0}
      /\ b \in Int /\ a \in Int
    BY <1>2, <1>4, TotalType
<1> HIDE DEF w, p
<1>7. (Total * (35 * b)) * (w * Total) <= p * (60 * Total)
  <2> DEFINE t == Total
  <2>1. t \in Nat \ {0}
      BY <1>6
  <2> HIDE DEF t
  <2>2. (t * (35 * b)) * (w * t) = (t * t) * ((35 * b) * w)
      BY <1>6, <2>1
  <2>3. (t * t) * ((35 * b) * w) <= (t * t) * ((35 * a) * 60)
    <3>1. \A x, y, z \in Int : x >= 0 /\ y <= z => x * y <= x * z
        OBVIOUS
    <3>2. t * t \in Int /\ t * t >= 0 /\ (35 * b) * w \in Int /\ (35 * a) * 60 \in Int
        BY <1>6, <2>1
    <3> QED
        BY <1>5, <3>1, <3>2
  <2>4. (t * t) * ((35 * a) * 60) = (60 * t) * (t * (35 * a))
      BY <1>6, <2>1
  <2>5. (60 * t) * (t * (35 * a)) <= (60 * t) * p
    <3>1. \A x, y, z \in Int : x >= 0 /\ y <= z => x * y <= x * z
        OBVIOUS
    <3>2. 60 * t \in Int /\ 60 * t >= 0 /\ t * (35 * a) \in Int /\ t * (35 * a) <= p
        BY <1>6, <2>1 DEF t
    <3> QED
        BY <1>6, <3>1, <3>2
  <2>6. (60 * t) * p = p * (60 * t)
      BY <1>6, <2>1
  <2>7. /\ (t * (35 * b)) * (w * t) \in Int /\ (t * t) * ((35 * a) * 60) \in Int
        /\ p * (60 * t) \in Int
      BY <1>6, <2>1
  <2>8. (t * (35 * b)) * (w * t) <= p * (60 * t)
      BY <2>2, <2>3, <2>4, <2>5, <2>6, <2>7
  <2> QED
      BY <2>8 DEF t
<1> DEFINE o == Total * (35 * b)
           u == 60 * Total
           v == w * Total
<1>8. o \in Int /\ u \in Nat \ {0} /\ v \in Nat \ {0}
    BY <1>6
<1>9. o * v <= p * u
    BY <1>7
<1> HIDE DEF o, u, v
<1>10. (100 * o) * v <= (100 * p) * u
  <2>1. (100 * o) * v = 100 * (o * v) /\ (100 * p) * u = 100 * (p * u)
      BY <1>6, <1>8
  <2>2. o * v \in Int /\ p * u \in Int
      BY <1>6, <1>8
  <2> QED
      BY <1>9, <2>1, <2>2
<1>11. /\ Rounded(100 * o, u) <= Rounded(100 * p, v)
       /\ Rounded(100 * o, u) \in Int /\ Rounded(100 * p, v) \in Int
  <2>1. 100 * o \in Int /\ 100 * p \in Int
      BY <1>6, <1>8
  <2> QED
      BY <1>8, <1>10, <2>1, RoundedInOrder, RoundedType
<1> QED
    BY <1>3, <1>11, ProductScoreParts DEF w, p, o, u, v

LEMMA MaxType ==
    ASSUME NEW x \in Int, NEW y \in Int
    PROVE  Max({x, y}) \in Int
<1>1. PICK m \in {x, y} : \A z \in {x, y} : m >= z
  <2>1. CASE x >= y
      BY <2>1
  <2>2. CASE ~(x >= y)
      BY <2>2
  <2> QED
      BY <2>1, <2>2
<1>2. Max({x, y}) \in {x, y}
    BY <1>1 DEF Max
<1> QED
    BY <1>2

LEMMA MinInOrder ==
    ASSUME NEW x \in Int, NEW y \in Int, x <= y
    PROVE  Min({100, x}) <= Min({100, y})
<1> DEFINE M(z) == IF z <= 100 THEN z ELSE 100
<1>1. ASSUME NEW z \in Int PROVE Min({100, z}) = M(z)
  <2> DEFINE m == M(z)
  <2>1. m \in {100, z} /\ \A v \in {100, z} : m <= v
      OBVIOUS
  <2>2. \A u \in {100, z} : (\A v \in {100, z} : u <= v) => u = m
      OBVIOUS
  <2> HIDE DEF m
  <2>3. Min({100, z}) = m
      BY <2>1, <2>2 DEF Min
  <2> QED
      BY <2>3 DEF m
<1>2. M(x) <= M(y)
    OBVIOUS
<1> QED
    BY <1>1, <1>2

\* The points of a case, but for its duration.
Fixed(e) == 35 * BuildRaw(e.status) + 20 * QualityRaw(e) + 10 * FixRaw(e.attempts, Repairs)
AllPoints(e) == Total * (Fixed(e) + 10 * DurationRaw(e.duration, Budget))
                + 25 * 100 * FeaturesHit(e)

LEMMA OverallScoreParts ==
    ASSUME NEW e
    PROVE  OverallScore(e, Features, Repairs, Budget, 110) =
               Min({100, Rounded(AllPoints(e) * 110, 100 * 100 * Total)})
BY DEF OverallScore, AllPoints, Fixed, Total

\* Of two cases that differ in their duration, the faster one does not score lower.
LEMMA FasterIsNotLess ==
    ASSUME NEW before \in Outcomes, NEW after \in Outcomes, before.status \in Statuses,
           before.duration < after.duration, after.duration < Budget,
           after = [before EXCEPT !.duration = after.duration]
    PROVE  OverallScore(before, Features, Repairs, Budget, 110)
               >= OverallScore(after, Features, Repairs, Budget, 110)
<1>1. /\ after.status = before.status /\ after.attempts = before.attempts
      /\ after.checks = before.checks /\ after.grade = before.grade
    BY DEF Outcomes
<1>2. /\ before.duration \in Nat /\ after.duration \in Nat /\ before.attempts \in Nat
      /\ before.duration < Budget /\ Budget \in Nat \ {0} /\ Repairs \in Nat
      /\ before.grade \in Int
  <2>1. /\ before.duration \in 0 .. 3 * Budget /\ after.duration \in 0 .. 3 * Budget
        /\ before.attempts \in 0 .. Repairs /\ before.grade \in {NoGrade} \cup 0 .. 100
      BY OutcomeFields
  <2> QED
      BY <2>1, Numbers DEF NoGrade
<1>3. Fixed(after) = Fixed(before) /\ FeaturesHit(after) = FeaturesHit(before)
    BY <1>1 DEF Fixed, FeaturesHit, QualityRaw
<1>4. Fixed(before) \in Int /\ FeaturesHit(before) \in Int
  <2>1. BuildRaw(before.status) \in Int
      BY BuildRaws DEF Statuses
  <2>2. QualityRaw(before) \in Int
      BY <1>2 DEF QualityRaw
  <2>3. FixRaw(before.attempts, Repairs) \in Int
    <3>1. CASE before.attempts <= 0 \/ Repairs <= 0
        BY <3>1 DEF FixRaw
    <3>2. CASE ~(before.attempts <= 0 \/ Repairs <= 0)
      <4>1. 60 * before.attempts \in Int /\ Repairs \in Nat \ {0}
          BY <1>2, <3>2
      <4>2. 100 - Rounded(60 * before.attempts, Repairs) \in Int
          BY <4>1, RoundedType
      <4>3. Max({0, 100 - Rounded(60 * before.attempts, Repairs)}) \in Int
          BY <4>2, MaxType
      <4> QED
          BY <3>2, <4>3 DEF FixRaw
    <3> QED
        BY <3>1, <3>2
  <2>4. FeaturesHit(before) \in Int
      BY Numbers, OutcomeFields DEF FeaturesHit
  <2> QED
      BY <2>1, <2>2, <2>3, <2>4 DEF Fixed
<1> DEFINE x == DurationRaw(before.duration, Budget)
           y == DurationRaw(after.duration, Budget)
<1>5. x \in Int /\ y \in Int /\ y <= x
  <2> DEFINE m == 100 * (Budget - after.duration)
             n == 100 * (Budget - before.duration)
  <2>1. x = Rounded(n, Budget) /\ y = Rounded(m, Budget)
      BY <1>2 DEF DurationRaw
  <2>2. m \in Int /\ n \in Int /\ m <= n
      BY <1>2
  <2> HIDE DEF m, n
  <2>3. m * Budget <= n * Budget
    <3>1. \A u, v, z \in Int : z >= 0 /\ u <= v => u * z <= v * z
        OBVIOUS
    <3> QED
        BY <1>2, <2>2, <3>1
  <2>4. Rounded(m, Budget) <= Rounded(n, Budget)
      BY <1>2, <2>2, <2>3, RoundedInOrder
  <2> QED
      BY <1>2, <2>1, <2>2, <2>4, RoundedType
<1> HIDE DEF x, y
<1> DEFINE p == AllPoints(before)
           q == AllPoints(after)
           d == 100 * 100 * Total
<1>6. p \in Int /\ q \in Int /\ q <= p
  <2> DEFINE t == Total
             f == Fixed(before)
             h == FeaturesHit(before)
  <2>1. t \in Int /\ t >= 0 /\ f \in Int /\ h \in Int
      BY <1>4, TotalType
  <2>2. p = t * (f + 10 * x) + 25 * 100 * h /\ q = t * (f + 10 * y) + 25 * 100 * h
      BY <1>3 DEF AllPoints, x, y
  <2> HIDE DEF t, f, h, p, q
  <2>3. f + 10 * y \in Int /\ f + 10 * x \in Int /\ f + 10 * y <= f + 10 * x
      BY <1>5, <2>1
  <2>4. \A u, v, z \in Int : z >= 0 /\ u <= v => z * u <= z * v /\ z * u \in Int /\ z * v \in Int
      OBVIOUS
  <2>5. /\ t * (f + 10 * y) <= t * (f + 10 * x)
        /\ t * (f + 10 * y) \in Int /\ t * (f + 10 * x) \in Int
      BY <2>1, <2>3, <2>4
  <2> QED
      BY <2>1, <2>2, <2>5
<1>7. d \in Nat \ {0}
    BY TotalType
<1> HIDE DEF p, q, d
<1>8. Rounded(q * 110, d) <= Rounded(p * 110, d)
  <2>1. q * 110 \in Int /\ p * 110 \in Int /\ q * 110 <= p * 110
      BY <1>6
  <2>2. \A u, v, z \in Int : z >= 0 /\ u <= v => u * z <= v * z
      OBVIOUS
  <2>3. (q * 110) * d <= (p * 110) * d
      BY <1>7, <2>1, <2>2
  <2> QED
      BY <1>7, <2>1, <2>3, RoundedInOrder
<1>9. Rounded(q * 110, d) \in Int /\ Rounded(p * 110, d) \in Int
    BY <1>6, <1>7, RoundedType
<1>10. Min({100, Rounded(q * 110, d)}) <= Min({100, Rounded(p * 110, d)})
    BY <1>8, <1>9, MinInOrder
<1>11. /\ OverallScore(before, Features, Repairs, Budget, 110) = Min({100, Rounded(p * 110, d)})
       /\ OverallScore(after, Features, Repairs, Budget, 110) = Min({100, Rounded(q * 110, d)})
    BY OverallScoreParts DEF p, q, d
<1>12. \A u, v : u <= v => v >= u
    OBVIOUS
<1> QED
    BY <1>10, <1>11, <1>12

\* A success that was lost is not called unchanged.
LEMMA LostIsReported ==
    ASSUME NEW after \in Statuses, after # "completed"
    PROVE  Verdict("completed", after) \in {"regressed", "failed"}
<1>1. CASE after \in {"timeout", "crashed"}
    BY <1>1 DEF Verdict
<1>2. CASE after \in {"build_failed", "agent_error"}
  <2>1. Rank(after) < Rank("completed") /\ ~(Rank(after) > Rank("completed"))
      BY <1>2 DEF Rank
  <2>2. Transition("completed", after) = "regressed"
      BY <1>2, <2>1 DEF Transition, Missing
  <2> QED
      BY <1>2, <2>2 DEF Verdict, Missing
<1> QED
    BY <1>1, <1>2 DEF Statuses

\* Whatever the run: an improvement does not score lower than what it improves on, a
\* success that was lost is reported, and below the budget a faster case does not score
\* lower.
THEOREM ComparisonsStayTrue == Spec => []ComparisonsAgree
<1> DEFINE Inv == TypeInv /\ OutcomeKnown
<1>1. Init => Inv
    BY InitTypes, InitOutcomes
<1>2. Inv /\ [Next]_vars => Inv'
    BY StepTypes, StepOutcome
<1>3. Inv => ComparisonsAgree
  <2> SUFFICES ASSUME Inv, NEW c \in Evaluated, NEW d \in Evaluated
               PROVE  LET before == evaluated[c]  after == evaluated[d]
                      IN  /\ Transition(before.status, after.status) = "improved" =>
                                ProductScore(after, Features) >= ProductScore(before, Features)
                          /\ before.status = "completed" /\ after.status # "completed" =>
                                Verdict(before.status, after.status) \in {"regressed", "failed"}
                          /\ before.duration < after.duration /\ after.duration < Budget
                             => FasterScores(before, after)
      BY DEF ComparisonsAgree
  <2> DEFINE before == evaluated[c]
             after == evaluated[d]
  <2>1. c \in Cases /\ d \in Cases /\ before.status # Missing /\ after.status # Missing
      BY DEF Evaluated
  <2>2. before \in Outcomes /\ after \in Outcomes
      BY <2>1 DEF TypeInv, ResultsType
  <2>3. before.status \in Statuses /\ after.status \in Statuses
      BY <2>1, <2>2, OutcomeFields
  <2>4. Judged(before) /\ Judged(after)
      BY <2>1 DEF OutcomeKnown
  <2> HIDE DEF before, after
  <2>5. Transition(before.status, after.status) = "improved" =>
            ProductScore(after, Features) >= ProductScore(before, Features)
      BY <2>2, <2>3, <2>4, ImprovedScores
  <2>6. before.status = "completed" /\ after.status # "completed" =>
            Verdict(before.status, after.status) \in {"regressed", "failed"}
      BY <2>3, LostIsReported
  <2>7. before.duration < after.duration /\ after.duration < Budget
        => FasterScores(before, after)
      BY <2>2, <2>3, FasterIsNotLess DEF FasterScores
  <2> QED
      BY <2>5, <2>6, <2>7 DEF before, after
<1> QED
    BY <1>1, <1>2, <1>3, PTL DEF Spec
-----------------------------------------------------------------------------
(* The average *)

\* A fold over a set takes its elements in the order of CHOOSE.
OverSet(S, how, base, values) ==
    [set |-> S, how |-> how, base |-> base, values |-> values,
     last |-> [s \in SUBSET S |-> CHOOSE x \in s : TRUE]]

SumsOf(G, S, values) ==
    /\ G = [s \in SUBSET S |-> G[s]]
    /\ \A s \in SUBSET S :
          G[s] = IF s = {} THEN 0
                 ELSE values[CHOOSE x \in s : TRUE] + G[s \ {CHOOSE x \in s : TRUE}]

LEMMA SumsExist ==
    ASSUME NEW S, IsFiniteSet(S), NEW values
    PROVE  \E G : SumsOf(G, S, values)
<1> DEFINE f == OverSet(S, "sum", 0, values)
<1>1. /\ f.set = S /\ f.how = "sum" /\ f.base = 0 /\ f.values = values
      /\ f.last = [s \in SUBSET S |-> CHOOSE x \in s : TRUE]
    BY DEF OverSet
<1>2. \A s \in SUBSET S : f.last[s] = CHOOSE x \in s : TRUE
    BY <1>1
<1> HIDE DEF f
<1>3. Foldable(f)
    BY <1>1, <1>2 DEF Foldable
<1>4. PICK G : IsFold(G, f)
    BY <1>3, FoldExists
<1>5. SumsOf(G, S, values)
    BY <1>1, <1>2, <1>4 DEF SumsOf, IsFold, Value, FoldStep
<1> QED
    BY <1>5

\* MapThenSumSet.
SumOf(f, S) == MapThenSumSet(LAMBDA c : f[c], S)

LEMMA SumIsFold ==
    ASSUME NEW S, IsFiniteSet(S), NEW f
    PROVE  \E G : /\ SumsOf(G, S, f)
                  /\ SumOf(f, S) = G[S]
<1> DEFINE It == CHOOSE G : G = [s \in SUBSET S |->
                    IF s = {} THEN 0
                    ELSE f[CHOOSE x \in s : TRUE] + G[s \ {CHOOSE x \in s : TRUE}]]
<1>1. PICK F : SumsOf(F, S, f)
    BY SumsExist
<1>2. F = [s \in SUBSET S |->
              IF s = {} THEN 0
              ELSE f[CHOOSE x \in s : TRUE] + F[s \ {CHOOSE x \in s : TRUE}]]
    BY <1>1 DEF SumsOf
<1>3. It = [s \in SUBSET S |->
              IF s = {} THEN 0
              ELSE f[CHOOSE x \in s : TRUE] + It[s \ {CHOOSE x \in s : TRUE}]]
    BY <1>2
<1>4. SumOf(f, S) = It[S]
    BY DEF SumOf, MapThenSumSet, MapThenFoldSet
<1> HIDE DEF It
<1>5. SumsOf(It, S, f)
    BY <1>3 DEF SumsOf
<1> QED
    BY <1>4, <1>5

\* A sum is at least the number of its terms times their least value.
LEMMA SumAtLeast ==
    ASSUME NEW S, IsFiniteSet(S), NEW f \in [S -> Int], NEW least \in Int,
           \A c \in S : f[c] >= least
    PROVE  SumOf(f, S) \in Int /\ SumOf(f, S) >= least * Cardinality(S)
<1>1. PICK G : SumsOf(G, S, f) /\ SumOf(f, S) = G[S]
    BY SumIsFold
<1>2. ASSUME NEW s \in SUBSET S, s # {}
      PROVE  \E x \in s : LET t == s \ {x}
             IN  /\ t \in SUBSET S /\ IsFiniteSet(s)
                 /\ Cardinality(t) = Cardinality(s) - 1
                 /\ Cardinality(s) \in Nat
                 /\ G[s] = f[x] + G[t]
  <2> DEFINE x == CHOOSE z \in s : TRUE
  <2>1. x \in s
      BY <1>2
  <2>2. G[s] = f[x] + G[s \ {x}]
      BY <1>1, <1>2 DEF SumsOf
  <2> HIDE DEF x
  <2>3. IsFiniteSet(s) /\ Cardinality(s \ {x}) = Cardinality(s) - 1 /\ Cardinality(s) \in Nat
      BY <2>1, FS_Subset, FS_CardinalityType, FS_RemoveElement
  <2> QED
      BY <2>1, <2>2, <2>3
<1> DEFINE Done == {n \in Nat : \A s \in SUBSET S : Cardinality(s) = n =>
                        G[s] \in Int /\ G[s] >= least * n}
<1>3. 0 \in Done
  <2> SUFFICES ASSUME NEW s \in SUBSET S, Cardinality(s) = 0
               PROVE  G[s] \in Int /\ G[s] >= least * 0
      OBVIOUS
  <2>1. s = {}
      BY FS_Subset, FS_EmptySet
  <2>2. G[s] = 0
      BY <1>1, <2>1 DEF SumsOf
  <2> QED
      BY <2>2
<1>4. ASSUME NEW n \in Nat, n \in Done
      PROVE  n + 1 \in Done
  <2> SUFFICES ASSUME NEW s \in SUBSET S, Cardinality(s) = n + 1
               PROVE  G[s] \in Int /\ G[s] >= least * (n + 1)
      OBVIOUS
  <2>1. s # {}
      BY FS_EmptySet
  <2>2. PICK x \in s : /\ s \ {x} \in SUBSET S
                       /\ Cardinality(s \ {x}) = Cardinality(s) - 1
                       /\ G[s] = f[x] + G[s \ {x}]
      BY <1>2, <2>1
  <2>3. Cardinality(s \ {x}) = n
      BY <2>2
  <2>4. G[s \ {x}] \in Int /\ G[s \ {x}] >= least * n
      BY <1>4, <2>2, <2>3
  <2>5. f[x] \in Int /\ f[x] >= least
      OBVIOUS
  <2>6. least * (n + 1) = least * n + least /\ least * n \in Int
      OBVIOUS
  <2> QED
      BY <2>2, <2>4, <2>5, <2>6
<1> HIDE DEF Done
<1>5. Cardinality(S) \in Nat /\ Cardinality(S) \in Done
    BY <1>3, <1>4, NatSteps, FS_CardinalityType
<1> QED
    BY <1>1, <1>5 DEF Done

\* A case that has completed scores at least 100, whatever else is said of it.
LEMMA CompletedScores ==
    ASSUME NEW e \in Outcomes, e.status = "completed"
    PROVE  ProductScore(e, Features) \in Int /\ ProductScore(e, Features) >= 100
<1> DEFINE t == Total
           p == Points(e)
           w == Weight(e) * Total
<1>1. /\ ProductScore(e, Features) = Rounded(100 * p, w)
      /\ p \in Int /\ w \in Nat \ {0} /\ ProductScore(e, Features) \in Int
    BY ProductScoreParts, ScoreType DEF Statuses
<1>2. t \in Nat \ {0} /\ w <= 80 * t
  <2>1. t \in Nat \ {0}
      BY TotalType
  <2>2. CASE e.grade # NoGrade
      BY <2>1, <2>2 DEF Weight
  <2>3. CASE e.grade = NoGrade
      BY <2>1, <2>3 DEF Weight
  <2> QED
      BY <2>1, <2>2, <2>3
<1>3. p >= t * 3500
  <2>1. FeaturesHit(e) \in Nat
      BY Numbers, OutcomeFields DEF FeaturesHit
  <2>2. PICK g \in Nat : g = IF e.grade # NoGrade THEN 20 * e.grade ELSE 0
      BY OutcomeFields
  <2>3. p = t * (35 * 100 + g) + 25 * 100 * FeaturesHit(e)
      BY <2>2, BuildRaws DEF Points
  <2> HIDE DEF t, p
  <2>4. t * (35 * 100 + g) = t * 3500 + t * g /\ t * g \in Nat /\ t * 3500 \in Nat
      BY <1>2, <2>2
  <2> QED
      BY <2>1, <2>3, <2>4
<1> HIDE DEF t, p, w
<1>4. 100 * w <= (100 * p) * 1
    BY <1>1, <1>2, <1>3
<1>5. Rounded(100, 1) <= Rounded(100 * p, w)
  <2>1. 100 * p \in Int
      BY <1>1
  <2> QED
      BY <1>1, <1>4, <2>1, RoundedInOrder
<1>6. Rounded(100, 1) = 100
  <2>1. 2 * 100 + 1 = 201 /\ 2 * 1 = 2 /\ 201 \div 2 = 100
      OBVIOUS
  <2> QED
      BY <2>1 DEF Rounded
<1> QED
    BY <1>1, <1>5, <1>6

\* The floor of the gate decides nothing: when the cases that were evaluated have
\* completed, their average is no breach, at whatever floor its thresholds allow.  The
\* score is compared on another scale than the floor (toGateCases), so that the gate asks
\* no more of a run than its statuses do.
THEOREM FloorNeverBinds ==
    Spec => [](LET scores == [c \in Evaluated |-> GateScore(evaluated[c], Features)]
               IN  (\A c \in Evaluated : evaluated[c].status = "completed") =>
                       "average" \notin GateBreaches(scores, Floor, <<>>, NumCases))
<1> DEFINE scores == [c \in Evaluated |-> GateScore(evaluated[c], Features)]
           Moot == (\A c \in Evaluated : evaluated[c].status = "completed") =>
                       "average" \notin GateBreaches(scores, Floor, <<>>, NumCases)
<1>1. TypeInv => Moot
  <2> SUFFICES ASSUME TypeInv, \A c \in Evaluated : evaluated[c].status = "completed",
                      Evaluated # {}
               PROVE  ~(Average(scores, Evaluated) < Floor)
      BY DEF GateBreaches
  <2>1. /\ Evaluated \subseteq Cases /\ IsFiniteSet(Evaluated)
        /\ Cardinality(Evaluated) \in Nat \ {0}
    <3>1. Evaluated \subseteq Cases
        BY DEF Evaluated
    <3> QED
        BY <3>1, Numbers, FS_Subset, FS_CardinalityType, FS_EmptySet
  <2>2. \A c \in Evaluated : evaluated[c] \in Outcomes
      BY <2>1 DEF TypeInv, ResultsType
  <2>3. scores \in [Evaluated -> Int] /\ \A c \in Evaluated : scores[c] >= 100
      BY <2>2, CompletedScores DEF GateScore
  <2> HIDE DEF scores
  <2> DEFINE sum == SumOf(scores, Evaluated)
             n == Cardinality(Evaluated)
  <2>4. sum \in Int /\ sum >= 100 * n
      BY <2>1, <2>3, SumAtLeast
  <2>5. Average(scores, Evaluated) = Rounded(sum, n)
      BY DEF Average, SumOf
  <2> HIDE DEF sum, n
  <2>6. 100 * n <= sum * 1 /\ n \in Nat \ {0}
      BY <2>1, <2>4 DEF n
  <2>7. Rounded(100, 1) <= Rounded(sum, n) /\ Rounded(sum, n) \in Int
      BY <2>4, <2>6, RoundedInOrder, RoundedType
  <2>8. Rounded(100, 1) = 100
    <3>1. 2 * 100 + 1 = 201 /\ 2 * 1 = 2 /\ 201 \div 2 = 100
        OBVIOUS
    <3> QED
        BY <3>1 DEF Rounded
  <2>9. Floor \in Int /\ Floor <= 100
      BY EvalAssumption
  <2> QED
      BY <2>5, <2>7, <2>8, <2>9
<1> QED
    BY <1>1, TypesStay, PTL DEF TypeInv
=============================================================================
