------------------------------- MODULE EvalRun -------------------------------
(***************************************************************************)
(* A run of the evaluation harness (apps/evals): the cases one after       *)
(* another, each in a workspace of its own, then the report, the gate and  *)
(* the exit code.  The workflow of a case that exceeds its budget is       *)
(* aborted and waited for during a grace period only: it may still be at   *)
(* work, and record events, while later cases run.  A signal writes a      *)
(* partial report beside all that.                                         *)
(***************************************************************************)
EXTENDS EventSink, EvalScore, EvalAst

CONSTANTS
    NumCases,       \* the cases selected, in their order
    FollowUps,      \* the cases with a second prompt
    Budget,         \* maxDurationMs and the time limit of a turn, in units
    TurnTimes,      \* how long a turn that ends in time can take
    Sources,        \* the projects a workflow can leave, each a set of source files
    Expected,       \* the structural checks of a case
    Repairs,        \* bound: repairs a workflow may need
    Grades,         \* the grades a judge can give
    Floor           \* the floor of the average of the gate

Cases == 1 .. NumCases

ASSUME EvalAssumption ==
    /\ NumCases \in Nat \ {0} /\ FollowUps \subseteq Cases /\ Budget \in Nat \ {0}
    /\ TurnTimes \subseteq 1 .. Budget - 1 /\ Repairs \in Nat
    /\ Grades \subseteq 0 .. 100 /\ Floor \in 0 .. 100 /\ IsFiniteSet(Expected)
    /\ UNION Sources \subseteq Files /\ Includes \subseteq STRING \X STRING

VARIABLES
    stage,      \* where the runner is
    current,    \* the case it runs
    turn,       \* the prompt of the case
    spent,      \* the time the case has taken
    workflow,   \* of each case: none, running, aborting, ended, left (running past its
                \* grace), late (ended past it)
    polluter,   \* the case that left a placeholder in the shared node_modules, or 0
    outcome,    \* what is known of the current case
    source      \* the source its checks were run on
progress == <<turn, spent, workflow, polluter>>
running == <<stage, current, progress, outcome, source>>

VARIABLES
    awaited,    \* the writes flushEventSink waits for
    stored,     \* results/<case>.json: the status in it
    evaluated,  \* the cases in `evaluated', with their outcome
    writing,    \* reports under way: who writes, and how many cases there were
    report,     \* the cases in report.md
    signalled, exit
results == <<awaited, stored, evaluated, writing, report, signalled, exit>>

vars == <<sink, running, results>>

NoOutcome == [status |-> Missing, attempts |-> 0, duration |-> 0, checks |-> NoChecks,
              grade |-> NoGrade]
Features == Cardinality(Expected)
Outcomes == [status : Statuses \cup {Missing}, attempts : 0 .. Repairs,
             duration : 0 .. 3 * Budget, checks : {NoChecks} \cup 0 .. Features,
             grade : {NoGrade} \cup 0 .. 100]

TypeOK ==
    /\ SinkTypeOK
    /\ stage \in {"seed", "agent", "grace", "judge", "flush", "flushing", "write", "report",
                  "reporting", "gate", "exited"}
    /\ current \in Cases /\ turn \in 1 .. 2 /\ spent \in 0 .. 3 * Budget
    /\ workflow \in [Cases -> {"none", "running", "aborting", "ended", "left", "late"}]
    /\ polluter \in Cases \cup {0} /\ outcome \in Outcomes /\ source \in Sources \cup {{}}
    /\ awaited \subseteq Events
    /\ stored \in [Cases -> Statuses \cup {Missing}]
    /\ evaluated \in [Cases -> Outcomes]
    /\ writing \subseteq {"main", "signal"} \X Cases /\ report \subseteq Cases
    /\ signalled \in BOOLEAN /\ exit \in {-1, 0, 1, 130}

Init ==
    /\ SinkInit
    /\ stage = "seed" /\ current = 1 /\ turn = 1 /\ spent = 0
    /\ workflow = [c \in Cases |-> "none"] /\ polluter = 0 /\ outcome = NoOutcome
    /\ source = {}
    /\ awaited = {} /\ stored = [c \in Cases |-> Missing]
    /\ evaluated = [c \in Cases |-> NoOutcome] /\ writing = {} /\ report = {}
    /\ signalled = FALSE /\ exit = -1

Evaluated == {c \in Cases : evaluated[c].status # Missing}
Outlived == {c \in Cases : workflow[c] \in {"left", "late"}}
Turns(c) == IF c \in FollowUps THEN 2 ELSE 1

-------------------------------------------------------------------------------
\* mutant: the placeholders stay.
NotPruned(p) == p

\* pruneSharedStorePollution.
Pruned(p) == 0

\* seedWorkspace prunes the placeholders of the shared node_modules and links it into
\* the workspace; when it throws, the case has crashed.
Seed ==
    /\ stage = "seed"
    /\ \/ /\ stage' = "agent" /\ workflow' = [workflow EXCEPT ![current] = "running"]
          /\ polluter' = Pruned(polluter) /\ UNCHANGED outcome
       \/ /\ stage' = "flush" /\ outcome' = [NoOutcome EXCEPT !.status = "crashed"]
          /\ UNCHANGED <<workflow, polluter>>
    /\ turn' = 1 /\ spent' = 0 /\ source' = {}
    /\ UNCHANGED <<sink, current, results>>

\* A workflow records an event; it does so past its grace too.
AgentRecords(c) ==
    /\ stage # "exited" /\ workflow[c] \in {"running", "aborting", "left"}
    /\ Record
    /\ UNCHANGED <<running, results>>

\* A workflow adds a package that is only a placeholder, through the linked node_modules.
AgentInstalls(c) ==
    /\ stage # "exited" /\ workflow[c] \in {"running", "aborting", "left"}
    /\ polluter' = c
    /\ UNCHANGED <<sink, stage, current, turn, spent, workflow, outcome, source, results>>

\* A workflow notices that it was aborted.
AgentAborts(c) ==
    /\ stage # "exited" /\ workflow[c] \in {"aborting", "left"}
    /\ workflow' = [workflow EXCEPT ![c] = IF @ = "left" THEN "late" ELSE "ended"]
    /\ UNCHANGED <<sink, stage, current, turn, spent, polluter, outcome, source, results>>

\* The workflow of a turn ends in time, or throws.  Whatever came of the first prompt,
\* the second one follows.
TurnEnds ==
    /\ stage = "agent"
    /\ \E d \in TurnTimes, f \in Finals, a \in 0 .. Repairs :
         /\ spent' = spent + d
         /\ IF turn < Turns(current)
            THEN turn' = turn + 1 /\ UNCHANGED <<stage, workflow, outcome>>
            ELSE /\ outcome' = [NoOutcome EXCEPT !.status = StatusOfFinal(f), !.attempts = a,
                                                 !.duration = spent + d]
                 /\ stage' = "judge" /\ workflow' = [workflow EXCEPT ![current] = "ended"]
                 /\ UNCHANGED turn
    /\ UNCHANGED <<sink, current, polluter, source, results>>

\* runCase's catch: a turn throws, or what follows the turns does.
TurnThrows ==
    /\ stage \in {"agent", "judge"}
    /\ outcome' = [NoOutcome EXCEPT !.status = "crashed", !.duration = spent]
    /\ stage' = "flush" /\ workflow' = [workflow EXCEPT ![current] = "ended"]
    /\ UNCHANGED <<sink, current, turn, spent, polluter, source, results>>

\* The budget of the turn is exceeded: the workflow is told to stop.
TimesOut ==
    /\ stage = "agent"
    /\ workflow' = [workflow EXCEPT ![current] = "aborting"]
    /\ stage' = "grace" /\ spent' = spent + Budget
    /\ UNCHANGED <<sink, current, turn, polluter, outcome, source, results>>

\* mutant: the workflow is waited for until it has ended.
GraceUntilEnded(w) == w = "ended"

\* The wait for an aborted workflow ends with it or with the grace period.  The snapshot
\* of the workspace that follows may throw, on a file the workflow deletes meanwhile.
GraceOver(w) == TRUE

GraceEnds ==
    /\ stage = "grace" /\ GraceOver(workflow[current])
    /\ workflow' = [workflow EXCEPT ![current] = IF @ = "aborting" THEN "left" ELSE @]
    /\ \E s \in {"timeout", "crashed"} :
         outcome' = [NoOutcome EXCEPT !.status = s, !.duration = spent]
    /\ stage' = "flush"
    /\ UNCHANGED <<sink, current, turn, spent, polluter, source, results>>

\* runChecks for a completed case, and the judge when all of them pass.
Judge ==
    /\ stage = "judge" /\ stage' = "flush"
    /\ IF outcome.status # "completed" THEN UNCHANGED <<outcome, source>>
       ELSE \E src \in Sources, g \in Grades \cup {NoGrade} :
              LET hit == Cardinality({x \in Expected : MatchAst(AnalyzeProject(src), x)})
              IN  /\ source' = src
                  /\ outcome' = [outcome EXCEPT !.checks = hit,
                                    !.grade = IF hit = Features THEN g ELSE NoGrade]
    /\ UNCHANGED <<sink, current, progress, results>>

\* runCase has returned, and what it keeps of the turns is gone.
FlushStarts ==
    /\ stage = "flush" /\ stage' = "flushing" /\ awaited' = Awaited
    /\ turn' = 1 /\ spent' = 0 /\ source' = {}
    /\ UNCHANGED <<sink, current, workflow, polluter, outcome, stored, evaluated, writing,
                   report, signalled, exit>>

\* allSettled: every write that was under way has ended, well or not.
Flushed(writes, events) == ToSet(writes) \cap events = {}

FlushEnds ==
    /\ stage = "flushing" /\ Flushed(pending[instance], awaited)
    /\ Reset /\ stage' = "write" /\ awaited' = {}
    /\ UNCHANGED <<current, progress, outcome, source, stored, evaluated, writing,
                   report, signalled, exit>>

\* writeResultAtomically, then evaluated.push; a failed write ends the loop.
WriteResult ==
    /\ stage = "write"
    /\ \/ /\ stored' = [stored EXCEPT ![current] = outcome.status]
          /\ evaluated' = [evaluated EXCEPT ![current] = outcome]
          /\ IF current < NumCases THEN stage' = "seed" /\ current' = current + 1
             ELSE stage' = "report" /\ UNCHANGED current
          /\ UNCHANGED exit
       \/ stage' = "report" /\ exit' = 1 /\ UNCHANGED <<stored, evaluated, current>>
    /\ outcome' = NoOutcome
    /\ UNCHANGED <<sink, progress, source, awaited, writing, report, signalled>>

-------------------------------------------------------------------------------
\* emitReport writes the cases evaluated so far, if there are any.
Emitted(who) ==
    IF Evaluated = {} THEN writing ELSE writing \cup {<<who, Cardinality(Evaluated)>>}

EmitReport ==
    /\ stage = "report" /\ stage' = "reporting"
    /\ writing' = Emitted("main")
    /\ UNCHANGED <<sink, current, progress, outcome, source, awaited, stored, evaluated,
                   report, signalled, exit>>

\* writeReport reads the array of cases after the score board is written: it may have
\* grown since.
ReportLands(w) ==
    /\ w \in writing /\ stage # "exited"
    /\ writing' = writing \ {w}
    /\ \E n \in w[2] .. Cardinality(Evaluated) : report' = 1 .. n
    /\ UNCHANGED <<sink, running, awaited, stored, evaluated, signalled, exit>>

\* A report that fails ends the run, and is only logged by the handler of a signal.
ReportFails(w) ==
    /\ w \in writing /\ stage # "exited"
    /\ writing' = writing \ {w}
    /\ IF w[1] = "main" THEN stage' = "exited" /\ exit' = 1 ELSE UNCHANGED <<stage, exit>>
    /\ UNCHANGED <<sink, current, progress, outcome, source, awaited, stored, evaluated,
                   report, signalled>>

ReportDone ==
    /\ stage = "reporting" /\ \A w \in writing : w[1] # "main"
    /\ stage' = IF exit = -1 THEN "gate" ELSE "exited"
    /\ UNCHANGED <<sink, current, progress, outcome, source, results>>

\* mutant: the exit code is that of the gate alone.
ExitCodeOfGate(statuses, breaches) == IF breaches = {} THEN 0 ELSE 1

\* The exit code: every evaluated case has completed and the gate has no breach.
ExitCode(statuses, breaches) ==
    IF statuses \subseteq {"completed"} /\ breaches = {} THEN 0 ELSE 1

\* The gate over the scores of the last report, and the exit; thresholds that cannot be
\* read fail the run.
Gate ==
    /\ stage = "gate" /\ stage' = "exited"
    /\ LET scores == [c \in Evaluated |-> GateScore(evaluated[c], Features)]
           breaches == GateBreaches(scores, Floor, <<>>, NumCases)
       IN  exit' \in {1, ExitCode({evaluated[c].status : c \in Evaluated}, breaches)}
    /\ UNCHANGED <<sink, current, progress, outcome, source, awaited, stored, evaluated,
                   writing, report, signalled>>

\* SIGINT or SIGTERM: a report of what there is, and exit 130 once it is written.
Signal ==
    /\ stage # "exited" /\ ~signalled /\ signalled' = TRUE
    /\ writing' = Emitted("signal")
    /\ UNCHANGED <<sink, running, awaited, stored, evaluated, report, exit>>

SignalExits ==
    /\ stage # "exited" /\ signalled /\ \A w \in writing : w[1] # "signal"
    /\ stage' = "exited" /\ exit' = 130
    /\ UNCHANGED <<sink, current, progress, outcome, source, awaited, stored, evaluated,
                   writing, report, signalled>>

Runner ==
    \/ Seed \/ TurnEnds \/ TurnThrows \/ TimesOut \/ GraceEnds \/ Judge \/ FlushStarts
    \/ FlushEnds \/ WriteResult \/ EmitReport \/ ReportDone \/ Gate
    \/ \E w \in writing : ReportLands(w) \/ ReportFails(w)


AppendEnds ==
    /\ stage # "exited" /\ \E i \in Instances : Append1(i)
    /\ UNCHANGED <<running, results>>

Next ==
    \/ Runner \/ AppendEnds \/ Signal \/ SignalExits
    \/ \E c \in Cases : AgentRecords(c) \/ AgentInstalls(c) \/ AgentAborts(c)

Spec == Init /\ [][Next]_vars

\* The runner goes on and appends end.  A workflow need not end, abort or do anything:
\* its turn is bounded by a timer, the judge by one of its own.
FairSpec == Spec /\ WF_vars(Runner) /\ WF_vars(AppendEnds)

-------------------------------------------------------------------------------
\* A run ends, whatever its workflows do: each is given its budget and its grace.
RunEnds == <>(stage = "exited")

\* As long as no workflow outlives its grace, one case does not reach into another: the
\* lines of the event log are in the order of record (FileSink), when the sinks are
\* composed anew no event of the cases before is still to be written (flushEventSink),
\* and while a workflow runs the shared node_modules holds no placeholder of an earlier
\* one ("so one bad case can't poison the whole run", workspace.ts).
CasesAreIsolated ==
    Outlived = {} =>
        /\ \A i, j \in DOMAIN log : i < j => log[i] < log[j]
        /\ \A i \in 1 .. instance - 1 : pending[i] = <<>>
        /\ stage \in {"agent", "grace"} => polluter \in {0, current}

\* What the duration does to the score of two results that differ in nothing else.
FasterScores(fast, slow) ==
    slow = [fast EXCEPT !.duration = slow.duration] =>
        OverallScore(fast, Features, Repairs, Budget, 110)
            >= OverallScore(slow, Features, Repairs, Budget, 110)

\* Exit code 0 is earned: every case that was selected has its result on disk, every one
\* has completed, and unless the run was told to stop the report has them all.  That the
\* average meets the floor is not part of it: see GreenMeetsFloor.
GreenIsEarned ==
    exit = 0 => (\A c \in Cases : stored[c] = "completed") /\ (signalled \/ report = Cases)

\* The cases of a green run score the floor of the gate on average, on the scale of its
\* thresholds ("minimum run average (overall, 0-100)", gate.ts:9).
GreenMeetsFloor ==
    exit = 0 =>
        LET percent == [c \in Cases |-> ProductPercent(evaluated[c], Features)]
        IN  MapThenSumSet(LAMBDA c : 2 * percent[c] + 1, Cases) >= 2 * Floor * NumCases

\* The comparison of two results agrees with their scores: what compareRuns calls an
\* improvement does not score lower, a success that was lost is called a regression or
\* a failure; and of two cases that differ in their duration only, both below the
\* budget, the faster one does not score lower.  At the budget it may: FasterScoresMore.
ComparisonsAgree ==
    \A c, d \in Evaluated :
        LET before == evaluated[c]  after == evaluated[d]
        IN  /\ Transition(before.status, after.status) = "improved" =>
                  ProductScore(after, Features) >= ProductScore(before, Features)
            /\ before.status = "completed" /\ after.status # "completed" =>
                  Verdict(before.status, after.status) \in {"regressed", "failed"}
            /\ before.duration < after.duration /\ after.duration < Budget
               => FasterScores(before, after)

\* Of two completed cases that differ in their duration only, the faster one does not
\* score lower: "faster vs budget = better" (DECISIONS.md:79).
FasterScoresMore ==
    \A c, d \in Evaluated :
        /\ evaluated[c].status = "completed"
        /\ evaluated[c].duration < evaluated[d].duration
        => FasterScores(evaluated[c], evaluated[d])

\* What the checks say of a project is so.  ast:hook:<name>:top is true of hooks in the
\* body of a component and of no other, in files without inline callbacks; a name
\* ast:import finds is imported from a module of which the check names at least a part,
\* and every imported name is found when the file imports each such module once; a
\* component that renders something is defined.
ChecksAreStructural ==
    \A file \in source :
        LET info == Analyzed(file)
            names == UNION {n.names : n \in ImportNodes(file) \cup info.imports}
        IN  /\ ~HasCallbacks(file) => info.topLevelHooks = ReallyTopLevel(file)
            /\ \A mod \in Specifiers(file), name \in names :
                 LET found == MatchAst({info}, [kind |-> "import", module |-> mod,
                                                name |-> name])
                 IN  /\ found => name \in ReallyImported(file, mod)
                     /\ ImportedOnce(file, mod) =>
                            (name \in ReallyImported(file, mod) => found)
            /\ \A r \in info.renders : MatchAst({info}, [kind |-> "component", name |-> r[1]])

\* "hooks called at the top level of a component body (not nested handler)" (ast.ts:33).
TopLevelHooksAre ==
    \A file \in source : Analyzed(file).topLevelHooks \subseteq ReallyTopLevel(file)
=============================================================================
