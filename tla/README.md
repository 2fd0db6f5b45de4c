# Verification of lovable-v0

TLA+ models of the parts of this repository whose correctness depends on
interleavings, failures and redelivery; TLC configurations that check them on
small instances; and proofs, checked by TLAPS, of their central invariants for
all instances.

Contents: the system (1), the modules (2), the runs (3), the proofs (4), where
the code and its documentation disagree (5), what is abstracted or not modelled
(6), and the plan (7).

## 1. The system

A user describes an application; an agent writes it in a pod of its own and a
second container of that pod serves a live preview. The services talk through
Redis streams (`README.md:105-113`):

| stream | from | to |
|---|---|---|
| `backend:orch`, `orch:backend` | backend, orchestrator | orchestrator, backend |
| `orch:control`, `control:orch` | orchestrator, control | control (one group per project), orchestrator |
| `orch:serve`, `serve:orch` | orchestrator, serve | serve (one group per project), orchestrator |
| `control:serving`, `serving:control` | control, serve | serve, control (the workspace handshake, runs the agent starts) |
| `preview:register` | serve | ingress |
| `agent:sse:<project>` (pub/sub) | control | backend's event relay |

| component | state it keeps | operations | what makes it hard | what makes it correct |
|---|---|---|---|---|
| shared-redis: `readGroupLoop`, `StreamReliability` | consumer group and pending list, delivery counters, dead-letter stream (all in Redis), the time of the next sweep | publish, read, handle, XACK, count, dead-letter, sweep (XAUTOCLAIM) | crash in a handler, lost replies, an XACK that fails, two processes of one group, a counter shared by groups | no entry leaves a group unaccounted for; bounded retries; order; every entry is settled |
| shared-redis: `RedisManager` | the writer, open connections, connects in flight | getWriter, getReader, close | concurrent callers | one writer per registry |
| orchestrator: round trips | resolver slots by key and their timers, tasks in memory | buildProject, runProject, handlePrompt, three stream loops | reply before registration, late reply, redelivered request, two jobs of a project, crash | an outcome reaches its own request; no slot outlives its task |
| orchestrator: project creation | Kubernetes resources, `pendingInitialPrompts` and its timers, tasks in memory | createProject, createProjectPod, waitForWorkers, PROJECT_CREATED, PROJECT_FAILED | partial creation, redelivery, crash between steps, groups that start at "$" | a request is published only when its reader exists; no report without a workspace; one verdict; the prompt starts once |
| backend: requests and results | HTTP requests, the result hash of each job in Redis | publish, poll, answer, 504, store | timeout racing an answer, replies stored under the wrong key | a request is answered with its own outcome |
| backend: SSE relay, tickets | a subscriber and a heartbeat per request, tickets with a TTL | mint, redeem, subscribe, relay, clean up | client closes while the subscription is being set up; a ticket expires between two retries | no live handler has missed its close; a stream comes back while its ticket lives |
| backend: rate limits | counters with an expiry in Redis | increment, reset | one script in Redis, a library's | a window ends |
| control: command loop | confirmation resolvers | INIT, BUILD, PROMPT | confirmation before registration, redelivery over a changed workspace | one outcome per command |
| control: agent workflow, tool loop | plan, budgets, results of the tools, conversation | check, plan, react, validate, repair, summarize, push, run | budgets that interact; repeated calls; tool failures; a crash and the redelivered prompt | terminates; success only after a successful build of what is on disk |
| control: file tools | the files | create, read, update, replace, delete, search, add packages and components | a file that changed after it was read; a process that outlives its time limit | the outcome reported is the change made |
| control: upload | the objects under the project's prefix | walk, batches of puts | a put that fails half way, a crash between puts | nothing is stored that was not built |
| control: event publication | sinks, sequence numbers, writes under way | record, flush, reset | writes that are still under way when the sinks are reset | the event log is in order |
| serve: run requests and preview processes | processes, restart mark, the port | free the port, install, spawn, wait, register, report | two loops that restart one project at the same time, exit of a replaced process, an answer from the old process | a success report means the new process serves; a replaced one is not a failure |
| ingress | the routes | register, look up, proxy, unregister | a restart forgets the routes while their entries are acknowledged | a registered preview is reachable |
| web: the workspace page | an EventSource, the events shown | open, send, attach, retry, leave | tickets that arrive after the page has gone on | one stream; events in order, once |
| evals | workspaces, results, report, sinks | seed, run, abort, judge, flush, write, report, gate | a workflow that outlives its case; a signal during the report | cases are isolated; a green exit is earned; comparisons agree with scores |
| database, r2 client, types, infra | - | rows, objects, names, manifests | nothing concurrent | - |

`PROJECT.json` lists all components with their source files and status, and the
hazards, each at its line, with the properties that watch over them.

## 2. The modules

### StreamReliability (packages/shared-redis/index.ts)

One stream, any number of groups that read it, any number of processes per group.
Every Redis command is a step of its own, because a process can die and a
command can fail between any two of them.

| model | code |
|---|---|
| the stream's length `len`, a group's `base`, `last`, `pending`, `idle` | the stream and the group in Redis: starting point, last-delivered id, pending entries, those idle for `claimIdleMs` |
| `count`, `dead` | `reliability:<stream>` and `<stream>:dead` |
| a process's `pc`, `batch`, `cur`, `cursor` | where `readGroupLoop` is: between reads, in a batch of a read or of a sweep, in `handleMessage` and before which command |
| `Read`, `Take`, `EndOfRead` | lines 470-493: XREADGROUP, the `for` over its reply, the check of the sweep interval |
| `Claim`, `EndOfClaim` | `reclaimStale`: XAUTOCLAIM page by page |
| `HandlerResolves`, `Ack` | `handler(...)` resolves; XACK inside the same `try` |
| `HandlerThrows`, `CountFailure`, `DeadLetter`, `DeadAck`, `Clear` | the `catch`: HINCRBY, and at the bound XADD to the dead-letter stream, XACK, HDEL |
| `AckFails`, `CountFails`, `DeadLetterFails`, `DeadAckFails`, `ClearFails`, `ClaimFails`, `ReadReplyLost` | the command throws, executed or not, and the code's own `catch` decides what happens next |
| `Crash`, `Start`, `SweepDue`, `Age` | the process dies and is started again; time passes |

### DeliveryContract

What a consumer loop promises its handlers, without processes, sweeps or
commands: an entry handed to a group is with it until it is settled, it is
settled only when it has an outcome (handled, or given up), and deliveries may
be repeated. `StreamReliability` implements it under a refinement mapping
(`ImplementsContract`).

### JobRoundTrip (backend, orchestrator, workers)

A build, a run or a prompt from the HTTP request to its answer. A stream is a
sequence read in order, which is what `FirstRunsInOrder` and
`EventuallySettled` of the first module justify; a redelivered entry goes behind
those read meanwhile.

| model | code |
|---|---|
| `http`, `answer`, `results`: `Request`, `StoreResult`, `Answer`, `RequestTimesOut` | the routes of `routes/project.ts`, `createConversation`, `ResponseManager`, `orchestatorListener` |
| `task`, `value`: `ListenBackend`, `PublishRequest`, `Wait`, `Forward`, `ReportFailure` | `buildProject`, `runProject`, `handlePrompt`: one step per `await` |
| `waiters`: `Wait`, `WaitTimesOut`, `HandleReply` | the two `CorrelationResolver`s and their timers |
| `InitialPrompt` | `ListenServingPod` after PROJECT_CREATED; the prompt carries no job id |
| `script`, `busy`: `Begin`, `PublishReply`, `Finish` | the replies of control and serve, in their order; what a worker does in between is a choice among the scripts the code can produce (`Scripts`) |
| `RequestRedelivered`, `ReplyRedelivered`, `WorkRedelivered`, `OrchestratorCrash`, `PublishRequestFails`, `ForwardFails`, `ReportFails`, `ReplySwallowed`, `SuccessFails` | an XACK that fails, a process that dies, a publish that fails in the `try` or outside it |

`reported` is a history variable: what was published as the outcome of a job.

### JobContract

What the round trip promises the client of a build, run or prompt, without streams, tasks,
waiters and workers: an outcome is published only for a job that was asked for, what
reaches a job was published for it, and its request is answered at most once, with an
outcome that has reached it, and never with a failure when the success is there as well
(a timer that fires before a late reply, or a second task, can report both).
`JobRoundTrip` implements it (`ImplementsContract`): the request is `http`, what is
published is `reported`, and what has arrived is the part of the result hashes that
belongs to jobs; an outcome stored under the project's id reaches nobody.

### ProjectInit (backend, orchestrator, Kubernetes, control, serve)

The creation of one project, from the HTTP request to the verdict and the
initial prompt. It composes five programs over six streams; each stream is a
sequence whose first entry is with its handler while that handler runs, and
`pending` holds what the next sweep brings back. A publish before the reader's
group exists is lost, as it is with a group created at `$`.

| model | code |
|---|---|
| `http`, `results`: `Request`, `StoreResult`, `Answer`, `RequestTimesOut` | `createProject` of `controller/project.ts`, `ResponseManager`, `orchestatorListener`; `results["none"]` is the hash of the project id |
| `task`: `ListenBackend`, `CreateService`, `CreateDeployment`, `WaitForWorkers`, `WorkersTimeOut`, `CreateFails`, `Dispatch`, `ReportFailure`, `PublishFails` | `createProject` and `createProjectPod`, one step per await; a task is not awaited, so a redelivered request starts a second one |
| `prompt`, `due`, `prompts`: `ListenCreated`, `StartPrompt` | `pendingInitialPrompts`, its `setTimeout`, and (history) the prompts started |
| `ListenFailed` | the reply without a waiter and the `switch` below it: forwarded twice |
| `objects`, `up`, `seen`, `groups`: `Boot`, `Probe`, `WorkerCrash`, `PodReplaced` | the service and the deployment, the processes of the two containers, what the probes report of them, `main` creating groups before it serves health |
| `files`, `control`: `PullTemplate`, `TellServing`, `Register`, `ConfirmationTimesOut`, `InitDone`, `Report`, `RunPrompt`; `ListenServing` | the control pod's two loops; `control = "wait"` is the resolver in `processing`, so a confirmation read in `"register"` finds none |
| `serve`: `CheckWorkspace`, `Confirm`, `Created`, `Refuse`, `Failed` | the serving pod's handler, one step per publish, its `catch` after either |
| `Handled`, `Thrown`, `Reclaim`, `Stop` | the end of a handler, with an XACK that may fail; a handler that throws; a sweep; a process that dies in a handler |

The guard `processing.has(projectId)` (`control/src/index.ts:145`) never holds:
the loop reads its next entry after the handler of the last one, and by then the
resolver is gone. The model has no action for it.

### AgentTools, AgentWorkflow (apps/control/src/agent)

One prompt of a control pod, from the security check to the client's answer. A
workspace maps paths to contents or `Absent`; what the language model chooses
(tool, path, text, when to stop) is a nondeterministic choice. `AgentTools` holds
the tools as operators from a workspace to the set of outcomes a call can have:
the files afterwards, the `changedFiles` it reports, whether it succeeded, and the
paths a process that outlived the time limit may still write (`runChild` kills the
child, not its descendants). A crash of the pod starts the workflow again on the
files the first attempt left; in eval mode the harness may abort it, and nothing is
uploaded.

| model | code |
|---|---|
| `CreateFile`, `UpdateFile`, `PatchFile`, `DeleteFile`, `ReadFile`, `SearchFiles`, `ChangeDependency`, `AddShadcnComponent`, `RunProcess`; `Targets` | the tools in `tool/simple`, `security.ts`: `runProcess`, `resolveSafePath` |
| `phase`: `CheckPrompt`, `CollectFacts`, `Plan` | `userGivenPromptCheckerNode`, `collectWorkspaceFactsNode`, `planerNode` in `executeWorkflow` |
| `steps`, `queue`, `calls`, `stall`: `ModelTurn`, `ToolCall`, `CallsExhausted`, `PassFails`, `EndPass` | `runReactLoop`: its limits, and the stall check after the effect of a call |
| `buildStatus`, `fixAttempts`: `Validate`, `StartRepair`, `GiveUp`, `StopAborted`, `FinishSuccess` | `validateNode` and the repair loop of `executeWorkflow` |
| `results`, `summary`: `SummarizeChanges` | `toolResults`, `analyzeToolResults`; the `catch` of `summarizeChangesNode`, which lists nothing (`NoSummary`) |
| `r2`, `unsent`, `sending`, `pushFailed`: `StartPush`, `StartBatch`, `PutSettles`, `FinishPush` | `pushFilesToR2`, `uploadBatch`, `getAllFiles`, `shouldIgnoreFile` |
| `completed`, `verdict`: `RunNode`, `Report`; `Throw` | `runNode`, `processPrompt`; the `catch` of `executeWorkflow` |
| `Abort`, `Crash`, `StrayWrites` | the harness's signal; the pod dies; a process left behind writes |

`built`, `strayed` and `crashes` are history variables.

### PreviewServer (apps/serve, apps/ingress)

The serving container and the ingress. The container's two stream loops handle run
requests side by side and share the port, `runningProcesses` and
`restartingProjects`. A process is a variable of its own: it binds the port or ends
because it is taken, it ends when it likes or when it is killed, and its close event
comes later.

| model | code |
|---|---|
| `stage`, `run`, `answered`: `StartRun`, `AnswerSuccess`, `AnswerFailed` | `handleRunProject`, one step per `await`; the publish in its `catch` may throw as well |
| `request`, `pending`, `failures`: `AcceptRun`, `Redeliver`, `PendingAfter` | the stream loop around it: a rejected handler is counted, and its entry delivered again until the bound |
| `FreePort`, `InstallEnds`, `Ready`, `TimesOut`; `Found`, `Responds` | `serveTheProject`: `pidsListeningOnPort`, SIGKILL and SIGTERM, `bun install`, spawn, `waitForPort` |
| `running`, `mark`, `handler`: `CloseEvent` | `runningProcesses`, `restartingProjects`, the close handler that is attached only after the wait |
| `state`, `code`, `terminated`: `Bind`, `Exit` | the vite servers (external) |
| `PublishRegister`, `PostRegister` | `registerPreview`: the stream entry, then the request |
| `route`, `entries`: `IngressReads`, `Unregister`, `IngressRestarts` | `listenRegisterStream`, `handleAdmin`, `main` of the ingress |

`announced` and `undisturbed` are history variables: what the registration was told,
and whether anything the code cannot see (a failing lsof, a server that ends by
itself, the other loop) came between.

### LiveEvents (apps/web, apps/backend, apps/control/src/sse)

The live status of a project: page, tickets, the handlers of the event stream
requests, and the Redis channel. Each request is one connection with what is on its
wire; a handler that has lost its client goes on until the close reaches it.

| model | code |
|---|---|
| `page`, `mount`, `sending`, `created`, `current`, `source`, `shown`: `TicketArrives`, `Send`, `SendAnswered`, `Attach`, `Read`, `Leave` | `WorkspacePage`: the effect that asks for a ticket, `onSend`, `attachSse`, `onmessage`, the unmount |
| `Retry`, `Drops` | EventSource's own retries (external) |
| `valid`, `expired`: `Expires`, `Redeemed` | `mintSseTicket`, `redeemSseTicket` |
| `handler`: `Authorize`, `Ends`, `Subscribe`, `SetupFails`, `CloseNoticed` | `resolveIdentity` and `projectEvents`: the head or an error status (401, or 404 and 500 when a look-up fails), the subscriber, the listeners of the close, `cleanup` |
| `published`, `wire`: `Publish` | `sendSSEMessage`, and `onMessage` of each live handler |

### EvalScore, EvalAst, EventSink, EvalRun (apps/evals, apps/control/src/events)

`EvalScore` has the pure part of the harness as operators: `mapStatus`,
`computeScore` dimension by dimension (fractions as numerator and denominator,
`Rounded` for `Math.round`), `evaluateGate`, `compareRuns`. `EvalAst` has `analyzeAst`
as a fold over the nodes of a file with its function stack, and `matchAstCheck`; which
module names contain which others is a constant (`Includes`), because an import check
matches by `src.includes(mod)`. `ProductScore` is on the scale the code computes,
0..10000, and `ProductPercent` on the one its comment promises.
`EventSink` is the multi sink over memory and file that the control code records
events in. `EvalRun` composes them:

| model | code |
|---|---|
| `stage`, `current`, `turn`, `spent`: `Seed`, `TurnEnds`, `TurnThrows`, `TimesOut`, `GraceEnds`, `Judge` | `seedWorkspace`, `pruneSharedStorePollution`, `runCase` |
| `workflow`, `polluter`: `AgentRecords`, `AgentInstalls`, `AgentAborts` | a workflow that goes on past its abort, and what it may do meanwhile |
| `pending`, `log`, `memory`: `Record`, `Append1`, `Awaited`, `Flushed`, `Reset` | `MultiSink`, `MemorySink`, `FileSink`, `flushEventSink`, `resetEventSink` |
| `stored`, `evaluated`: `FlushStarts`, `FlushEnds`, `WriteResult` | the end of `runCase`, `writeResultAtomically`, `evaluated.push` |
| `writing`, `report`, `exit`: `EmitReport`, `ReportLands`, `ReportFails`, `ReportDone`, `Gate`, `Signal`, `SignalExits` | `emitReport`, `writeReport`, `main`'s `finally`, the gate, the signal handlers |

### MC modules

`MCProjectInit`, `MCAgentWorkflow`, `MCPreviewServer` and `MCLiveEvents` only
instantiate. `MCStreamReliability` and `MCJobRoundTrip` name the model values, the
process topologies (one process; two processes of one group; two groups with a
process each) and the symmetry sets. `MCEvalRun` has the source files the structural
checks are run on.

## 3. The runs

| run | instance | shows |
|---|---|---|
| `stream_single` | 1 process, 3 entries, batches of 2, bound 2, 1 failure, fair | type, bounded runs per entry, first runs in order, no run after the entry was settled, every entry is settled |
| `stream_rolling` | 2 processes of a group created at "0", 2 entries, 1 failure | nothing leaves the group unaccounted for, dead-lettering only after the bound, the loop implements the contract |
| `stream_dead_write_fails` | 1 process, 1 failure | section 5 (a counterexample) |
| `round_trip_builds` | 2 builds of one project | no operation takes another's waiter; `JobContract`: one answer, one's own, a success before a failure |
| `round_trip_faults` | 1 build, 2 tasks, 2 failures of any kind | type; no slot outlives its task |
| `round_trip_live` | a run and the initial prompt, fair | every outcome reaches the backend, every task reports |
| `project_init` | 2 tasks (the request and one redelivery), 1 failure of any kind, fair | type; no publish before its reader's group; no report and no prompt without files; one verdict per request; one prompt per request; a created project is reported, a dispatched initialization ends in a verdict |
| `agent` | 2 files, 2 contents, 2 steps (3 in a repair), 2 calls a pass, 1 repair, uploads one at a time, 1 crash, fair | type; what is in R2 was built; a completed prompt is built, and in R2 if no put failed; the summary covers the edits or says that it failed; every prompt ends |
| `agent_persisted` | 4 files (one ignored), uploads two at a time, no repair, 1 crash | section 5 (a counterexample) |
| `preview` | 2 loops, 2 runs, a bound of 2 deliveries, 1 loss of the ingress, fair | type; a replaced server is quiet; an undisturbed success is the run's own server; an accepted registration leads to a route; every request is answered or has used up its deliveries |
| `live_events` | 2 event sources, 2 events, 1 fault, refused requests, fair | type; one stream in order and once; a dropped stream comes back while its ticket lives, unless a retry was refused with an error status |
| `evals` | 2 cases, one with a second prompt, 2 recorded events, a memory of 1, fair | type; cases are isolated; exit code 0 is earned; comparisons agree with scores; structural checks say what is so; a run ends |

**Bounds.** `MaxMsgs` 3 with batches of 2 gives a full batch, a second read and
a sweep that overlaps both; the loop treats all later entries alike.
`MaxDeliveries` 2 is the least bound at which an entry is both retried and
given up. One failure (`MaxFaults`) is enough to leave any command half done,
two make a failure of the recovery; runs under two failures are kept to one
process or one job. `MaxTries` bounds how many tasks one redelivered request
starts; a second one already competes with the first. Two jobs are enough for
any statement about two keys, and the resolver is symmetric in them. In
`ProjectInit`, `MaxTasks` 2 lets a redelivered request compete with the first
one, which is also what a redelivered initialization looks like to the pods, and
`MaxFaults` 1 leaves any one of the five programs in the middle of a handler.
The liveness properties hold of a number of failures below `maxDeliveries`: an
entry that failed that often goes to the dead-letter stream, which this model
leaves to `StreamReliability`. The safety properties do not need this bound,
they also hold of the entries that are redelivered for ever (section 4).
In `AgentWorkflow` two files, one of them essential to the build, separate the
manifest from a component, and two contents tell an edited file from an unedited
one; two calls in a pass are the least at which the stall check (`StallRepeat` 2)
and the call limit both fire, and one repair distinguishes the first pass from the
later ones. In `PreviewServer` two run requests put both loops into
`serveTheProject` at once, or one after the other in one loop, or they are the two
deliveries of one request (`MaxDeliveries` 2, after which it is given up; every delivery
takes a run, and no request is accepted that would leave none for a redelivery that is
owed); a third server adds only a further listener that lsof names. In `LiveEvents` two
sources are a ticket that is overtaken by another, and one fault is a dropped connection,
a failed set-up or a lost publication (the proofs cover any number); a request may be
refused besides, each retry included, since that ends its source. In `EvalRun` two cases are one
that outlives its grace and one it can reach into; scores, checks and comparisons are
evaluated on every outcome the two cases can have.

**Fairness.** `StreamReliability` is fair in the steps of a process, in
`SweepDue` and in `Age`: the pods are restarted by Kubernetes, handlers settle
(each is bounded by a timeout of its own), and time passes. No fairness is
assumed of failures, and they are bounded. `JobRoundTrip` is fair in the loops,
the tasks, the workers and the timers, not in HTTP requests or their answers. `ProjectInit` is fair in the
stream loops and their sweeps (`StoreResult`, `ListenCreated`, `ListenFailed`,
`ListenServing`, `Reclaim`), in the handlers of the two pods (`ControlStep`,
`ServeStep`, `ConfirmationTimesOut`) and in `Boot`, since Kubernetes restarts
containers. No probe, no task of the orchestrator and no answer is assumed.
`AgentWorkflow` is fair in the steps of the workflow taken together: each model call
and each child process it awaits has a time limit, except the model calls of the
security check and of the planner, which are assumed to return; no stray write, abort
or crash is assumed. `PreviewServer` is fair in each handler (installs and waits have
time limits; that `lsof` ends is assumed), in the redelivery of what a loop has pending,
and in the ingress's reading; processes may stay or end as they like. `LiveEvents` is fair in the browser (reading and retrying)
and in the handlers, not in publication, expiry or the user. `EvalRun` is fair in the
runner and in the appends to the event log; its workflows may run for ever, since the
timer of a turn and the grace period end the wait for them.

**Deadlock** is checked in the stream runs. Elsewhere everything stops when all jobs
are over, the project exists, the prompt is answered, every run request is handled,
the evaluation has exited or nobody sends, and it is switched off there.

Every property has a mutant of the code that TLC finds (`PROJECT.json`): a
counter that is compared too early, an XACK on the failure path, a timer that
leaves its slot, a resolver keyed by project, a late reply that is dropped, a
readiness check of one container, a prompt that stays in its map, a build whose
failure parses to nothing taken for a success, a server that is found on the port and
not killed, a request acknowledged although its handler rejected, a ticket that is good
for one request, placeholder packages that are not pruned.

## 4. The proofs

`DeliveryContractProofs`, `StreamReliabilityProofs`, `JobRoundTripProofs`,
`ProjectInitProofs`, `AgentWorkflowProofs`, `PreviewServerProofs`, `LiveEventsProofs`,
`EvalRunProofs`; every theorem is for all values of the constants that
satisfy the named assumptions (`ConstantsAssumption`, `JobsAssumption`,
`BoundsAssumption`, `ToolsAssumption`, `AgentAssumption`, `PreviewAssumption`,
`LiveAssumption`, `SinkAssumption`, `EvalAssumption`), which ask only for disjoint job
kinds, positive bounds, processes that belong to a group, files that are among the
paths, a floor between 0 and 100, finitely many checks of a case, and source files a traversal can produce
(`Files`: it leaves only the callbacks it has entered). Every invariant a passing run
checks is the property of a theorem.

- `StreamReliabilityProofs!TypeCorrect`, `!InvariantHolds`. `TypeOK` is not
  enough by itself: an `Ack` is only harmless when the process's entry was
  handed to its group and has its outcome. The invariant therefore adds
  `Bounds` (a group's numbers are within the stream), `Holdings` (batches and
  current entries were handed out) and `OutcomeFirst` (whoever stands before an
  XACK has recorded an outcome). One step per action, one per conjunct it can
  disturb.
- `!Implements`: initial states map to initial states, and under the invariant
  every step of the loop is a step of `DeliveryContract` or a stutter.
- `!NothingUnaccounted`: `SettledIsAccounted` from the contract's `Accounted`
  (`DeliveryContractProofs!AccountedHolds`) through the refinement.
- The second part of `StreamReliabilityProofs` has what is true only of some
  deployments, each as the hypothesis of its theorem, since the loop itself checks none
  of it. Two groups on one stream break the first (section 5, 9), a second process in a
  group the other three.
  - `!GivenUpAfterBound`, if the stream has one group (`OneGroup`: every stream
    but the four that control and serving pods read, with a group per project). `RunsCovered`: the
    count in the hash, and the processes whose run it has not seen yet
    (`InFlight`, counted with `Cardinality`), are all runs that happened.
  - `!RunsOnlyPending`, if each group has one process (`OnePerGroup`: the orchestrator
    and the project pods, whose `Recreate` strategy keeps an old and a new one apart). `InPlace`: what a
    process was handed and has not run is still pending and it is not holding it twice.
  - `!ReadsInOrder`, under the same hypothesis. `InOrder`: of the entries up to the
    group's cursor, those never run are in the batch, and none behind a run entry was
    skipped; `Unread` disposes of groups nobody reads for.
  - `!RunsStayBounded`, if one process reads the stream (`OneReader`). `Budget`: runs
    are at most the counted ones and the failures that kept one from being counted, and
    a pending entry at rest has a run left.
- `JobRoundTripProofs!TypeCorrect`, `!SlotsStayLive`: a timer frees a slot only
  of its own key, and a slot is taken only by a task that then waits. The hard
  case is a second task of a job: the timer of the first frees the slot of the
  second, which is harmless for this property.
- `!AnswersStayOwn`: the invariant `OwnInv` says where a message of a job may be
  (scripts, three streams, a task's value, a hash) and that each was reported by
  its worker or task. Streams are seen as the sets of their messages
  (`MessagesOf`), with lemmas for append, tail and concatenation.
- `!ImplementsJobContract`: the round trip implements `JobContract`, with any failures.
  `OwnInv` shows that what the backend stores was published for the job; `AskedInv`, that
  every request, task, command and busy worker is one of a job that was asked for, so
  nothing is published for others. The backend's steps are steps of the contract, a worker
  or task publishes at most one outcome in a step, and everything else is a stutter.
  `!ContractIsEarned` draws from the contract what a client may rely on.
- `!WaitersStayReachable`: `OneTaskPerJob` says that without failures a job has at most
  one task, started by the one message of its request, so no other task has its key and
  its own timer is the only one that can free its slot. `OneInitialPrompt` is the
  hypothesis that a project is created once: prompts without a job id share the
  project's key, and two of them would take each other's slot.
- `ProjectInitProofs!TypeCorrect`: an entry in hand is the first of its stream,
  although other programs append to the stream and a crash takes it away.
- `!RequestsStaySeen`: `RequestsAreSeen` is not inductive, since it says nothing
  of the messages that lead to a publish. `GroupsFirst` adds that a worker that
  runs or was reported has its groups, and that until both have them nothing has
  been published to any pod and no task is past `waitForWorkers` (`Untouched`).
  The proof is one lemma for the growth of the groups and one for `Untouched`.
- `!PromptsStayFew`: every handling of the request adds one started task and at
  most one prompt; PROJECT_CREATED moves the prompt from the map to the timer,
  a crash only loses it.
- `!WorkspaceStaysFirst`: `FilesFirst` says that as long as there are no files
  the serving pod is not between its two reports, no stream holds an entry that
  tells of a workspace (`NoTidings`, over the types in a stream and in what is
  to be redelivered) and no prompt is scheduled. A step without files preserves
  this (`UnconfirmedStep`, by action); a workspace with files keeps them unless
  the pod is replaced (`FilesStay`).
- `!VerdictStaysOne`: without failures the job is a token that is in one place at a
  time (`OneStage`): the request not yet made, its entry, a task, the entry the control
  pod has not passed on, the serving pod's, its report, or a verdict (`Told`: in the hash
  or on the way to it). `Marks` says which entries are the job's, and `Single` that each
  place holds it once; that the control pod reports *without* the job id is what keeps
  its timeout from making a second token. Each step leaves the token or moves it on
  (`StagesMove`); one lemma for each step that does.

- `AgentWorkflowProofs!Strengthening`. `CompletedIsEarned` speaks of the end of a
  prompt, so the invariant follows it through the nodes: which phase allows which
  `error`, `buildStatus` and `results`; that from a successful build to the end the
  files are among `built` (unless a stray process wrote); that what is being sent was
  read from such files; and that once a push is over without a failure each file is in
  R2. A summary lists everything that was recorded or is `NoSummary` (`Listed`). `!CompletionEarned`, `!PushedBuilt` and `!SummaryComplete` follow;
  `!TypeCorrect` also bounds repairs and calls. The tools enter only through one lemma
  about all their outcomes (`OutcomesType`), so the theorems hold of any tools that
  turn workspaces into workspaces.
- `PreviewServerProofs!Strengthening`: a busy loop has a request (`RequestsHeld`); busy loops have different runs
  (`RunsDistinct`), redeliveries included, a run's server is spawned once (`SpawnedOnce`), a mark set for a
  replaced server lasts until some close (`MarkKept`), and while nothing disturbed it,
  the loop that serves is the only one and its server the only one alive
  (`OwnServer`). The last is why `ReadyIsOwn` is not inductive: `waitForPort` asks the
  port, and only the state at the time it was freed says who can answer.
- `LiveEventsProofs!Strengthening`: there is one standing connection and it belongs to
  the attached source (`OneStream`); every request is owed to a source or to a fault
  (`Counted`, which bounds the requests); a request that is not authorized has nothing
  on its wire (`Unasked`); and what is on the wire is in order and later than what is
  shown (`InOrder`). From the last, each event is shown once, and the number of
  events shown is bounded by the last one's own number (`!TypeCorrect`).

- `EvalRunProofs!TypeCorrect`. That the log holds no event twice needs to know where
  an event can be: `EventsOnce` says that it is in one place, a write under way of one
  sink or a line of the log, and not later than the last one recorded. `Clock` bounds
  the time of a case by its two turns, one of which may use up the budget.
- `!CasesStayIsolated`. `WorkflowOfCase` says in which stages the workflow of a case is
  at work, so that a record while none has outlived its grace is one of the current
  case. `LogFollowsRecord` then says that only the current sink has writes under way,
  all of them later than the log, and that a flush awaits every one of them: the sink
  is empty when the sinks are composed anew (`FlushedIsEmpty`).
- `!GreenStaysEarned`. `InCaseOrder`: up to the report the evaluated cases are those
  before the current one, and a run that has not failed reaches the gate with all of
  them. `ReportOfMain`: without a signal the only report under way is that of `main`,
  over all cases. Nothing happens after the exit (`ExitedIsFinal`). The average is no part
  of it, because of the next theorem.
- `!FloorNeverBinds`: cases that have completed score 100 at least on the scale of
  `productScore` (`CompletedScores`: the points of the build alone), so their average
  (`SumAtLeast`) is never below a floor of 0 to 100. The gate asks for nothing that the
  statuses do not give already.
- `!ComparisonsStayTrue`. The one fact about reachable states is `Judged`: only
  completed cases have checks and a grade. The rest is arithmetic of rounded fractions
  (`RoundedInOrder`), for any number of checks, repairs and any budget: a completed case
  beats every other one even when a judge gives it no points, and a shorter duration never
  costs points below the budget.
- `!ChecksStayStructural`. `Visited` says what the visitors know after `k` nodes of a
  file: on the stack are functions only, an open component is a known one, imports are
  imports of the file (by which modules a check matches is any relation), and without callbacks the stack is what is open at the next node.
- Folds and sums are recursive functions on subsets in the community modules, and
  whatever is said of them takes an induction. The library's induction theorems take an
  operator as a parameter; `NatSteps` does without, since its predicate is a set of
  numbers, and comes from the well-foundedness of the naturals. `FoldExists` proves by
  it that a fold has a value, size by size of the subsets; `CollectFold`, `VisitFold`,
  `OpenFold` and `SumIsFold` read it off for the folds of the model.

**Only model-checked:** all liveness (`EventuallySettled`, `VerdictsReachBackend`,
`TasksReport`, `CreatedReachesBackend`, `InitSettles`, `PromptsEnd`, `RunsAnswered`,
`DroppedReconnects`, `RunEnds`): liveness under fairness and ENABLED are out of this
prover's reach.

## 5. Where code and documentation disagree

Two are runs that TLC ends with a counterexample:

1. `stream_dead_write_fails`: at the bound an entry "is written to the dead-letter
   stream and XACKed" (`packages/shared-redis/index.ts:303-304`); `deadLetter`
   swallows a failing XADD and the XACK follows.
2. `agent_persisted`: "whatever's in R2 for a project is, by definition, the last
   state that actually built" (`specs/spec-04-data-durability.md:64`). `pushFilesToR2`
   puts file by file under one prefix, keeps what was stored when a put fails, and
   removes nothing: R2 can hold a mixture of workspaces that was never built. What
   does hold is `PushedWasBuilt`, file by file.

Ten more are stated as properties in their modules; give one to the instance named
and TLC finds the counterexample:

3. `PushFailureSparesRequest` (as `agent`): "Push failures do not block or fail the
   user-facing request" (`specs/spec-04-data-durability.md:103`, and line 91).
   `finishSuccess` returns the error of a push (`workflow.ts:73-75`): the prompt of a
   build that has passed is answered as failed, and the preview is not run.
   `apps/control/agents-flow.md:132` describes what the code does; the two texts
   disagree, and `CompletedIsEarned` takes neither side.
4. `GreenMeetsFloor` (as `evals`): the gate's floors are "0-100" (`gate.ts:9`) and so
   is productScore by its comment (`score.ts:35`), but `score.ts:183` multiplies the
   mean of dimensions that are 0..100 by 100. productScore is 0..10000, and every
   completed case meets every floor (theorem `FloorNeverBinds`). efficiencyScore has
   the same scale (`score.ts:189`).
5. `FasterScoresMore` (as `evals`, with `TurnTimes = {3}`): "faster vs budget =
   better" (`apps/evals/DECISIONS.md:79`). The duration score falls to 0 towards the
   budget and jumps to 100 at it (`score.ts:155`). `ComparisonsAgree` therefore
   compares durations below the budget.
6. `TopLevelHooksAre` (as `evals`): topLevelHooks are "not nested handler"
   (`ast.ts:33`); inline callbacks are not pushed on the stack (`ast.ts:208`), so
   their hooks count as top level.
7. `ErrorsAreRetried` (as `live_events`): "EventSource retries", says the page
   (`WorkspacePage.tsx:138`), and tells the user so (line 146). An error status, a 401
   for an expired ticket or a 500 of a failing redis or database (`events.ts:63`,
   `backend/src/index.ts:72`), ends it for good.
8. `DeliveryAttemptsBounded` (as `stream_single`): `maxDeliveries` is documented as
   the bound of delivery *attempts* (`packages/shared-redis/index.ts:69`); only
   attempts whose handler throws are counted, so an entry that kills its process is
   delivered without bound.
9. `DeadOnlyAfterBound` with two groups (`Groups = {g1, g2}`, `TwoGroups`): the
   counter is named by the stream and not by the group, so the groups of
   `orch:control` (one per project) count together and a group gives up an entry that
   it has run once.
10. `UnmatchedIsLate` (as `round_trip_faults`): an unmatched reply is said to be a
    late one (`correlation.ts:41`, `index.ts:146`); the request is published before
    the waiter is registered, so it may be early. The reply is forwarded all the same,
    and the task reports a failure when its wait ends.
11. `OnePendingPerKey` (as `round_trip_faults`): "Exactly one resolver may be pending
    per key" (`correlation.ts:18`); nothing enforces it when a request is redelivered.
12. `VerdictsCarryJob` (as `project_init`): the project is a key "only for callers
    that never had a jobId" (`correlation.ts:11`). The control pod has the job id of
    an initialization and reports its failure without it (`control/src/index.ts:179`);
    the request waits for PROJECT_FAILED under the job id and times out. Adding the
    job id alone is not the repair: a confirmation that times out races one that was
    published, and then the request would be told both (the mutant of `OneVerdict`).

Seen while modelling, part of the models where they concern them, and not properties:

- `serve/src/lib/helper.ts:295-316`: the close handler is attached after the wait, so
  a server that ends before is never reported; it deletes the map entry of whichever
  server is current; a restart mark no close used up swallows the next report.
- `backend/src/controller/events.ts:137`: a client that closes while the subscriber
  connects is not noticed; subscriber and heartbeat stay (`handler = "leaked"`).
- `backend/src/lib/sseTicket.ts:9`: tickets are reusable by design;
  `specs/spec-05-security-hardening.md:61` still asks for single-use ones.
- `serve/src/index.ts:139`: when PROJECT_RUN_FAILED cannot be published, the run is not
  answered but run again, up to the bound of the loop and then not at all.
- `control/src/agent/tool/simple/summarizeChanges.ts:186`: a summary that fails lists no
  edit at all, also those it had found.
- `evals/src/offline/runner.ts:164`: the snapshot after a timeout may throw on a file the
  workflow deletes meanwhile, and the case is then called crashed.
- `evals/src/diff.ts:126`: `a ? aRank : 0 - (b ? bRank : 0)` is the new rank and not
  the difference whenever the case is in the new run.
- `evals/src/gate.ts:43` gates on `productScore`, where line 66 says tier-bonused
  `overall`; `evals/src/index.ts:310` saves a baseline also when the gate failed.
- `control/src/events/sink.ts:154`: a flush counts a failed append as done, where the
  comment says "durably stored".
- `evals/src/ast.ts:177` keeps the last import of a module only; 184 counts any
  function a variable holds as a component; 326 matches modules by substring, so that a
  check for `react-router` accepts `react-router-dom`.
- `shouldIgnoreFile` matches substrings of a path.

## 6. What is abstracted, and what is not modelled

- Payloads, envelopes and project ids: a message is its kind and its job.
- Time: timeouts may fire at any moment; an entry becomes idle at any moment
  while pending (so a long handler and a dead process look alike, as they do to
  XAUTOCLAIM). The 30 minute TTL of a result outlives every wait.
- The consumer name of a pending entry: the code never reads it, XAUTOCLAIM takes
  from anyone.
- A handler that never settles: it blocks its loop for ever; all handlers of the
  repository have timeouts.
- In the round trip, the HTTP request's own publish cannot fail (the request is
  then answered with an error and nothing else happens).
- In `ProjectInit`, payloads, builds and runs are left out; the prompt is one
  step, in which the agent may or may not change the files, and files that an
  agent deletes again are not distinguished from edited ones. `SKIP_K8S=true`
  (`orchestator/src/index.ts:253-274`), a switch for development without a cluster, is
  not modelled: it dispatches without `createProjectPod` and `waitForWorkers`, and
  `RequestsAreSeen` does not hold with it. Both pods read
  through groups of their own project and skip the entries of other projects on
  the shared streams, so one project is enough.
- In `AgentWorkflow`: the texts of prompts, plans and diagnostics; hashes (the guard of
  an update is that the caller knows the current content, which the language model may
  or may not); the order in which results are logged. A push's notice to the other
  services carries no key and is ignored by them. One prompt is in hand at a time,
  because the pod's stream loop awaits its handler.
- In `PreviewServer`: environment variables, output of the servers, the proxy. An
  answer of the port is any listening process, since `previewResponds` asks for a path
  every server has. Exit codes are those the close handler ignores and the others.
- In `LiveEvents`: the JWT in place of a ticket, heartbeat lines, the marks the page
  puts among its events ("interrupted", raw lines), and the payloads. Redis delivers
  publications to the subscribers at once and in order.
- In `EvalRun`: names, tiers and texts; report layout; browser checks and workspace
  diffs, which change no status; runs without `--gate` (a run with it is the same up
  to the last step). A workspace is its source files and what its case does to the
  shared `node_modules`.
- Not modelled: `RedisManager` (a map of connections without protocol state), the
  health servers, authentication and rate limits (a library and single database
  calls), process start and stop, `stitchApp` (on no path of the workflow), prompts,
  observability, database schema, the R2 client, and the screens besides the
  workspace page.
- The components with status `not_modelled` or `partly` in `PROJECT.json`, each
  with its reason there.

## 7. The plan

Done: `StreamReliability` with `DeliveryContract`, `JobRoundTrip` with `JobContract`,
`ProjectInit`, `AgentWorkflow` with `AgentTools`, `PreviewServer`, `LiveEvents`, and
`EvalRun` with its parts, each with its proofs. Left, in order of importance:

1. An abstract specification of the creation of a project (a request, its verdicts, the
   workspace they speak of) that `ProjectInit` implements, with the proof of its steps.
2. The statement that the work of an agent is kept when PROJECT_INITIALIZED is
   redelivered (`control/src/index.ts:155` pulls the template again), once the restore
   of `specs/spec-04-data-durability.md` exists.
3. The composition of `AgentWorkflow` and `PreviewServer`: the run request a finished
   prompt publishes, against a run request of the user, over the control loop's stream.
4. `RedisManager`, and the browser checks of the evaluation harness.
