---------------------------- MODULE AgentWorkflow ----------------------------
(***************************************************************************)
(* One prompt of a control pod: security check, facts, plan, the ReAct     *)
(* tool loop, the build, its repairs, the change summary, the upload to R2 *)
(* and the request for a preview (apps/control/src/agent).                 *)
(*                                                                         *)
(* The control pod handles one prompt at a time (its stream loop awaits    *)
(* the handler).  It may crash; the stream then redelivers the prompt and  *)
(* the workflow starts again on the files the first attempt left.  In eval *)
(* mode the harness runs the same workflow: it may abort it, and neither   *)
(* uploads nor publishes.                                                  *)
(*                                                                         *)
(* Several files are uploaded at a time; a process that outlived the time  *)
(* limit of its tool may write while the workflow goes on.                 *)
(***************************************************************************)
EXTENDS AgentTools

CONSTANTS
    MaxSteps,           \* MAX_AGENT_STEPS
    MaxRepairSteps,     \* MAX_REPAIR_STEPS
    MaxToolCalls,       \* MAX_TOOL_CALLS of one pass
    StallRepeat,        \* STALL_REPEAT
    RepairBudget,       \* maxFixAttempts
    UploadConcurrency,  \* UPLOAD_CONCURRENCY
    MaxResponseCalls,   \* bound: tool calls of one model response
    MaxCrashes,         \* bound: crashes of the pod during the prompt
    Template,           \* what the files contain before the prompt
    Essential,          \* files the build asks for: package.json, App, main
    Ignored             \* files shouldIgnoreFile drops from the upload

ASSUME AgentAssumption ==
    /\ {MaxSteps, MaxRepairSteps, RepairBudget, MaxCrashes} \subseteq Nat
    /\ {MaxToolCalls, StallRepeat, UploadConcurrency, MaxResponseCalls} \subseteq Nat \ {0}
    /\ Template \in Contents /\ Essential \subseteq Paths /\ Ignored \subseteq Paths

VARIABLES
    mode,         \* "production" or "eval"
    phase,        \* the node of the workflow that runs
    error,        \* state.error: "none", "failed", or "aborted"
    buildStatus,  \* state.buildStatus
    fixAttempts,  \* state.fixAttempts
    completed,    \* state.completed
    results,      \* state.toolResults: the mutating tools with a successful call
    hasResults,   \* state.toolResults is not empty
    summary,      \* the tools whose calls changeSummary lists, or NoSummary
    verdict,      \* what processPrompt told the client last
    aborted       \* state.abortSignal.aborted
agent == <<mode, phase, error, buildStatus, fixAttempts, completed, results,
           hasResults, summary, verdict, aborted>>

VARIABLES
    steps,        \* model turns of this pass
    queue,        \* tool calls of the last response still to execute
    calls,        \* toolCalls of this pass
    stall         \* stallSig and stallCount
loop == <<steps, queue, calls, stall>>

VARIABLES
    files,        \* the workspace on disk
    strays,       \* paths that processes left behind may still write
    r2,           \* the objects under the prefix of the project
    unsent,       \* files of the push not yet handed to a batch
    sending,      \* the batch under way: what was read of each file
    pushFailed    \* a put of this push was rejected
storage == <<files, strays, r2, unsent, sending, pushFailed>>

VARIABLES
    built,        \* history: the workspaces of the successful builds
    strayed,      \* history: a process left behind has written
    crashes       \* history: crashes so far
history == <<built, strayed, crashes>>

vars == <<agent, loop, storage, history>>

NoStall == [sig |-> <<"none", Manifest>>, count |-> 0]
NoFiles == [p \in Paths |-> Absent]

\* The listing of a changeSummary that says "Summary generation failed."
NoSummary == {"failed"}
Present(ws) == {p \in Paths : ws[p] # Absent}

TypeOK ==
    /\ mode \in {"production", "eval"}
    /\ phase \in {"security", "facts", "plan", "react", "build", "decide",
                  "summarize", "push", "sending", "run", "report", "done"}
    /\ error \in {"none", "failed", "aborted"}
    /\ buildStatus \in {"pending", "success", "errors"}
    /\ fixAttempts \in 0 .. RepairBudget
    /\ {completed, hasResults, aborted, pushFailed, strayed} \subseteq BOOLEAN
    /\ results \subseteq Tools /\ (summary \subseteq Tools \/ summary = NoSummary)
    /\ verdict \in {"none", "completed", "error"}
    /\ steps \in Nat /\ queue \in 0 .. MaxResponseCalls /\ calls \in 0 .. MaxToolCalls
    /\ stall \in [sig : (Tools \cup {"none"}) \X Paths, count : 0 .. StallRepeat]
    /\ strays \subseteq Paths /\ unsent \subseteq Paths
    /\ {files, r2, sending} \subseteq Workspaces /\ built \subseteq Workspaces
    /\ crashes \in 0 .. MaxCrashes

\* The prompt arrives at a project whose template is on disk, persisted and built.
Init ==
    /\ mode \in {"production", "eval"}
    /\ phase = "security" /\ error = "none" /\ buildStatus = "pending"
    /\ fixAttempts = 0 /\ completed = FALSE /\ verdict = "none" /\ aborted = FALSE
    /\ results = {} /\ hasResults = FALSE /\ summary = {}
    /\ steps = 0 /\ queue = 0 /\ calls = 0 /\ stall = NoStall
    /\ files = [p \in Paths |-> Template]
    /\ strays = {} /\ r2 = files /\ built = {files}
    /\ unsent = {} /\ sending = NoFiles /\ pushFailed = FALSE
    /\ strayed = FALSE /\ crashes = 0

-------------------------------------------------------------------------------
\* The parts of an action that most actions leave alone.
Bucket == <<r2, unsent, sending, pushFailed>>

\* The catch of executeWorkflow: the error is kept, and the results of the tools
\* are summarised unless the run was aborted.
Throw(e) ==
    /\ error' = e /\ completed' = FALSE
    /\ phase' = IF hasResults /\ ~aborted THEN "summarize" ELSE "report"

\* userGivenPromptCheckerNode: an unsafe prompt, a verdict that does not parse and
\* a model that fails all end the run.
CheckPrompt ==
    /\ phase = "security"
    /\ \/ phase' = "facts" /\ UNCHANGED <<error, completed>>
       \/ Throw("failed")
    /\ UNCHANGED <<mode, buildStatus, fixAttempts, results, hasResults, summary, verdict,
                   aborted, loop, storage, history>>

\* collectWorkspaceFactsNode shows the model the working files with their hashes.
CollectFacts ==
    /\ phase = "facts"
    /\ \/ phase' = "plan" /\ UNCHANGED <<error, completed>>
       \/ Throw("failed")
    /\ UNCHANGED <<mode, buildStatus, fixAttempts, results, hasResults, summary, verdict,
                   aborted, steps, queue, calls, stall, storage, history>>

\* planerNode, and the first isAborted check.
Plan ==
    /\ phase = "plan"
    /\ \/ ~aborted /\ phase' = "react" /\ UNCHANGED <<error, completed>>
       \/ aborted /\ phase' = "report" /\ error' = "aborted" /\ completed' = FALSE
       \/ Throw("failed")
    /\ UNCHANGED <<mode, buildStatus, fixAttempts, results, hasResults, summary, verdict,
                   aborted, loop, storage, history>>

-------------------------------------------------------------------------------
\* runReactLoop returns, and its counters are gone.  An error of the first pass is
\* thrown, an error of a repair goes back to the repair loop without a build.
EndPass(e) ==
    /\ steps' = 0 /\ queue' = 0 /\ calls' = 0 /\ stall' = NoStall
    /\ IF e = "none" THEN phase' = "build" /\ error' = "none" /\ UNCHANGED completed
       ELSE IF fixAttempts = 0 THEN Throw(e)
       ELSE phase' = "decide" /\ error' = e /\ UNCHANGED completed

StepLimit == IF fixAttempts = 0 THEN MaxSteps ELSE MaxRepairSteps

\* The pass runs out of steps, sees the abort, runs out of time, or the model fails.
PassFails ==
    /\ phase = "react" /\ queue = 0
    /\ EndPass(IF steps < StepLimit /\ aborted THEN "aborted" ELSE "failed")
    /\ UNCHANGED <<mode, buildStatus, fixAttempts, results, hasResults, summary, verdict,
                   aborted, storage, history>>

\* A model turn: a response without tool calls ends the pass.
ModelTurn ==
    /\ phase = "react" /\ queue = 0 /\ steps < StepLimit /\ ~aborted
    /\ \/ EndPass("none")
       \/ /\ steps' = steps + 1 /\ queue' \in 1 .. MaxResponseCalls
          /\ UNCHANGED <<phase, error, completed, calls, stall>>
    /\ UNCHANGED <<mode, buildStatus, fixAttempts, results, hasResults, summary, verdict,
                   aborted, storage, history>>

CallsExhausted ==
    /\ phase = "react" /\ queue > 0 /\ calls >= MaxToolCalls
    /\ EndPass("failed")
    /\ UNCHANGED <<mode, buildStatus, fixAttempts, results, hasResults, summary, verdict,
                   aborted, storage, history>>

\* stallCount after a mutating call with the same signature as the one before
\* (the same arguments too, when same) that reports no changed file.
StallAfter(sig, same, reported) ==
    [sig |-> sig,
     count |-> IF same /\ stall.sig = sig /\ reported = {} THEN stall.count + 1 ELSE 1]

\* The call is recorded with its outcome o, and the next one may follow.
Record(tool, o, counted) ==
    /\ results' = IF o.ok THEN results \cup ({tool} \cap MutationTools) ELSE results
    /\ hasResults' = TRUE /\ calls' = calls + 1 /\ queue' = queue - 1
    /\ stall' = counted
    /\ UNCHANGED <<phase, error, completed, steps>>

\* A tool call.  Its effect on the files is made before the stall check, and a call
\* on which the check fires is not recorded.
ToolCall ==
    /\ phase = "react" /\ queue > 0 /\ calls < MaxToolCalls
    /\ \E tool \in Tools : \E p \in Targets(tool) : \E o \in Outcomes(files, tool, p) :
       \E same \in {FALSE, stall.sig = <<tool, p>>} :
         LET counted == IF tool \in MutationTools
                        THEN StallAfter(<<tool, p>>, same, o.reported) ELSE stall
         IN  /\ files' = o.files /\ strays' = strays \cup o.stray
             /\ IF tool \in MutationTools /\ counted.count >= StallRepeat
                THEN EndPass("failed") /\ UNCHANGED <<results, hasResults>>
                ELSE Record(tool, o, counted)
    /\ UNCHANGED <<mode, buildStatus, fixAttempts, summary, verdict, aborted, Bucket,
                   built, strayed, crashes>>

-------------------------------------------------------------------------------
\* mutant: a failed build without parsed errors is taken for a success.
StatusOfParsed(passed, parsed) == IF passed \/ ~parsed THEN "success" ELSE "errors"

\* The verdict of validateNode: what counts is that the command succeeded, not how
\* many errors were parsed from its output.
StatusOf(passed, parsed) == IF passed THEN "success" ELSE "errors"

\* validateNode.  The build needs package.json, App and main, and may fail for
\* reasons of its own: the install, the time limit, an error in the code.
Validate ==
    /\ phase = "build"
    /\ \E passed \in BOOLEAN, parsed \in BOOLEAN :
         /\ passed => Essential \subseteq Present(files) /\ ~parsed
         /\ built' = IF passed THEN built \cup {files} ELSE built
         /\ buildStatus' = StatusOf(passed, parsed)
    /\ error' = IF buildStatus' = "success" THEN "none" ELSE error
    /\ phase' = "decide"
    /\ UNCHANGED <<mode, fixAttempts, completed, results, hasResults, summary, verdict,
                   aborted, loop, storage, strayed, crashes>>

\* The isAborted checks after the build and in and after the repair loop.
StopAborted ==
    /\ phase = "decide" /\ aborted
    /\ error' = "aborted" /\ completed' = FALSE /\ phase' = "report"
    /\ UNCHANGED <<mode, buildStatus, fixAttempts, results, hasResults, summary, verdict,
                   aborted, loop, storage, history>>

\* mutant: one repair too many.
RepairsLeftOrEqual(n) == n <= RepairBudget

RepairsLeft(n) == n < RepairBudget

\* mutant: fixAttempts is not counted.
AttemptsUncounted(n) == n

AttemptsAfter(n) == n + 1

\* A repair: a new pass with the diagnostics, on the files as they are now.
StartRepair ==
    /\ phase = "decide" /\ ~aborted /\ buildStatus = "errors" /\ RepairsLeft(fixAttempts)
    /\ fixAttempts' = AttemptsAfter(fixAttempts) /\ phase' = "react"
    /\ UNCHANGED <<mode, error, buildStatus, completed, results, hasResults, summary,
                   verdict, aborted, loop, storage, history>>

\* finishSuccess begins.
FinishSuccess ==
    /\ phase = "decide" /\ ~aborted /\ buildStatus = "success"
    /\ phase' = "summarize"
    /\ UNCHANGED <<mode, error, buildStatus, fixAttempts, completed, results, hasResults,
                   summary, verdict, aborted, loop, storage, history>>

\* The repair budget is spent.
GiveUp ==
    /\ phase = "decide" /\ ~aborted /\ buildStatus = "errors" /\ ~RepairsLeft(fixAttempts)
    /\ error' = IF error = "none" THEN "failed" ELSE error
    /\ completed' = FALSE
    /\ phase' = IF hasResults THEN "summarize" ELSE "report"
    /\ UNCHANGED <<mode, buildStatus, fixAttempts, results, hasResults, summary, verdict,
                   aborted, loop, storage, history>>

\* mutant: the switch of analyzeToolResults has no case "patchFile".
SummarisedWithoutPatch(tools) == tools \cap (SummarisedTools \ {"patchFile"})

-------------------------------------------------------------------------------
\* analyzeToolResults lists the successful calls of the tools it knows.
Summarised(tools) == tools \cap SummarisedTools

\* mutant: the workspace is uploaded although the build failed.
AlwaysPush(e) == "push"

\* Only finishSuccess goes on to the upload.
AfterSummary(e) == IF e = "none" THEN "push" ELSE "report"

\* summarizeChangesNode: a model that fails leaves the plain listing.  Its catch, for
\* a call whose arguments cannot be listed or a context that cannot be saved, leaves
\* empty lists and says so.  context.json is never uploaded.
SummarizeChanges ==
    /\ phase = "summarize"
    /\ summary' \in {Summarised(results), NoSummary}
    /\ phase' = AfterSummary(error)
    /\ UNCHANGED <<mode, error, buildStatus, fixAttempts, completed, results, hasResults,
                   verdict, aborted, loop, storage, history>>

\* getAllFiles and shouldIgnoreFile.
ToUpload(ws) == Present(ws) \ Ignored

\* pushFilesToR2 begins; eval mode uploads nothing.
StartPush ==
    /\ phase = "push"
    /\ \/ /\ ToUpload(files) = {}
          /\ phase' = "report" /\ error' = "failed" /\ completed' = FALSE
          /\ UNCHANGED <<unsent, pushFailed>>
       \/ /\ ToUpload(files) # {} /\ mode = "eval"
          /\ phase' = "run" /\ UNCHANGED <<error, completed, unsent, pushFailed>>
       \/ /\ ToUpload(files) # {} /\ mode = "production"
          /\ phase' = "sending" /\ unsent' = ToUpload(files) /\ pushFailed' = FALSE
          /\ UNCHANGED <<error, completed>>
    /\ UNCHANGED <<mode, buildStatus, fixAttempts, results, hasResults, summary, verdict,
                   aborted, loop, files, strays, r2, sending, history>>

\* uploadBatch: the next batch, its files read when the batch starts.
StartBatch ==
    /\ phase = "sending" /\ Present(sending) = {} /\ unsent # {}
    /\ \E batch \in SUBSET unsent :
         /\ \/ Cardinality(batch) = UploadConcurrency
            \/ batch = unsent /\ Cardinality(unsent) < UploadConcurrency
         /\ unsent' = unsent \ batch
         /\ sending' = [p \in Paths |-> IF p \in batch THEN files[p] ELSE Absent]
    /\ UNCHANGED <<agent, loop, files, strays, r2, pushFailed, history>>

\* One putObject settles: stored, stored although it reports a failure, or not.
PutSettles ==
    /\ phase = "sending"
    /\ \E p \in Present(sending), stored \in BOOLEAN, ok \in BOOLEAN :
         /\ ok => stored
         /\ r2' = IF stored THEN [r2 EXCEPT ![p] = sending[p]] ELSE r2
         /\ pushFailed' = (pushFailed \/ ~ok)
         /\ sending' = [sending EXCEPT ![p] = Absent]
    /\ UNCHANGED <<agent, loop, files, strays, unsent, history>>

\* All puts have settled: one failure fails the push, and nothing is taken back.
FinishPush ==
    /\ phase = "sending" /\ Present(sending) = {} /\ unsent = {}
    /\ IF pushFailed THEN phase' = "report" /\ error' = "failed" /\ completed' = FALSE
       ELSE phase' = "run" /\ UNCHANGED <<error, completed>>
    /\ UNCHANGED <<mode, buildStatus, fixAttempts, results, hasResults, summary, verdict,
                   aborted, loop, storage, history>>

\* runNode: publishStreamEvent reports no failure, so the run is complete.
RunNode ==
    /\ phase = "run"
    /\ completed' = TRUE /\ phase' = "report"
    /\ UNCHANGED <<mode, error, buildStatus, fixAttempts, results, hasResults, summary,
                   verdict, aborted, loop, storage, history>>

\* processPrompt tells the client.
Report ==
    /\ phase = "report"
    /\ verdict' = IF completed THEN "completed" ELSE "error"
    /\ phase' = "done"
    /\ UNCHANGED <<mode, error, buildStatus, fixAttempts, completed, results, hasResults,
                   summary, aborted, loop, storage, history>>

-------------------------------------------------------------------------------
\* The eval harness aborts the run at its time limit.
Abort ==
    /\ mode = "eval" /\ ~aborted /\ phase # "done"
    /\ aborted' = TRUE
    /\ UNCHANGED <<mode, phase, error, buildStatus, fixAttempts, completed, results,
                   hasResults, summary, verdict, loop, storage, history>>

\* The pod dies, at the latest before the entry is acknowledged, and the stream
\* redelivers the prompt: the state in memory is gone,
\* the files are not, and a put under way may have been stored.
Crash ==
    /\ mode = "production" /\ crashes < MaxCrashes
    /\ crashes' = crashes + 1
    /\ \E stored \in SUBSET Present(sending) :
         r2' = [p \in Paths |-> IF p \in stored THEN sending[p] ELSE r2[p]]
    /\ phase' = "security" /\ error' = "none" /\ buildStatus' = "pending"
    /\ fixAttempts' = 0 /\ completed' = FALSE
    /\ results' = {} /\ hasResults' = FALSE /\ summary' = {}
    /\ steps' = 0 /\ queue' = 0 /\ calls' = 0 /\ stall' = NoStall
    /\ strays' = {} /\ unsent' = {} /\ sending' = NoFiles /\ pushFailed' = FALSE
    /\ UNCHANGED <<mode, verdict, aborted, files, built, strayed>>

\* A process left behind by a tool writes; it may also never do so.
StrayWrites ==
    /\ \E p \in strays, c \in Contents : files' = [files EXCEPT ![p] = c]
    /\ strayed' = TRUE
    /\ UNCHANGED <<agent, loop, strays, Bucket, built, crashes>>

Work ==
    \/ CheckPrompt \/ CollectFacts \/ Plan
    \/ PassFails \/ ModelTurn \/ CallsExhausted \/ ToolCall
    \/ Validate \/ StopAborted \/ StartRepair \/ FinishSuccess \/ GiveUp
    \/ SummarizeChanges \/ StartPush \/ StartBatch \/ PutSettles \/ FinishPush
    \/ RunNode \/ Report

Next == Work \/ Abort \/ Crash \/ StrayWrites

Spec == Init /\ [][Next]_vars

\* The workflow goes on: every model call and child process it awaits has a time
\* limit, except the security check and the planner, which are assumed to answer.
FairSpec == Spec /\ WF_vars(Work)

-------------------------------------------------------------------------------
\* Every object under the project's prefix holds what the file held in some
\* successful build (or the template), unless a process left behind has written.
PushedWasBuilt ==
    ~strayed => \A p \in Present(r2) : \E ws \in built : ws[p] = r2[p]

\* A run that ends completed has no error, built the files that are on disk, was
\* not given up, and (in production) has every one of its files in R2 but the
\* ignored ones, if no put has failed.  Whether a failed put may complete is left
\* open here: see PushFailureSparesRequest.
CompletedIsEarned ==
    completed =>
        /\ error = "none" /\ buildStatus = "success"
        /\ strayed \/ files \in built
        /\ mode = "production" /\ ~strayed /\ ~pushFailed =>
               \A p \in ToUpload(files) : r2[p] = files[p]

\* specs/spec-04-data-durability.md, section 6: a push that fails does not fail the
\* request, whose build has passed.
PushFailureSparesRequest ==
    phase = "done" /\ pushFailed => verdict = "completed"

\* The summary of a run that was not aborted lists the calls of every mutating tool
\* that succeeded and were recorded, those of the repairs included, also when the run
\* failed; one that lists less says that it failed.
SummaryCoversEdits ==
    phase = "done" /\ ~aborted => results \subseteq summary \/ summary = NoSummary

\* specs/spec-04-data-durability.md: what is in R2 is always one built workspace.
PersistedIsABuild ==
    phase = "done" /\ ~strayed => r2 \in built

\* Every prompt is answered, whatever the model does.
PromptsEnd == <>(phase = "done")
=============================================================================
