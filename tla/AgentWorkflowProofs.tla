------------------------- MODULE AgentWorkflowProofs -------------------------
(***************************************************************************)
(* Theorems about AgentWorkflow, for any files, contents, budgets, number  *)
(* of uploads at a time and number of crashes: what is uploaded was built, *)
(* a completed prompt has earned it, the summary covers the edits.         *)
(***************************************************************************)
EXTENDS AgentWorkflow, TLAPS

-----------------------------------------------------------------------------
(* Tools *)

\* What is known of an outcome whatever the tool.
IsOutcome(x) == x.ok \in BOOLEAN /\ x.files \in Workspaces /\ x.stray \subseteq Paths

LEMMA WriteType ==
    ASSUME NEW ws \in Workspaces, NEW p \in Paths, NEW c \in Contents \cup {Absent}
    PROVE  [ws EXCEPT ![p] = c] \in Workspaces
BY DEF Workspaces

LEMMA WrittenType ==
    ASSUME NEW ws \in Workspaces, NEW p \in Paths,
           NEW cs \in SUBSET (Contents \cup {Absent}), NEW x \in Written(ws, p, cs)
    PROVE  IsOutcome(x)
<1>1. PICK c \in cs : x = Outcome(TRUE, [ws EXCEPT ![p] = c], {p}, {})
    BY DEF Written
<1>2. [ws EXCEPT ![p] = c] \in Workspaces
    BY WriteType
<1> QED
    BY <1>1, <1>2 DEF Outcome, IsOutcome

LEMMA RunProcessType ==
    ASSUME NEW ws \in Workspaces, NEW p \in Paths, NEW r \in RunProcess(ws, p)
    PROVE  r.ok \in BOOLEAN /\ r.files \in Workspaces
<1>1. \A c \in Contents : [ws EXCEPT ![p] = c] \in Workspaces
    BY WriteType
<1>2. {[ws EXCEPT ![p] = c] : c \in Contents} \subseteq Workspaces
    BY <1>1, Zenon
<1>3. /\ r.ok \in BOOLEAN
      /\ r.files \in {ws} \cup {[ws EXCEPT ![p] = c] : c \in Contents}
    BY DEF RunProcess
<1> QED
    BY <1>2, <1>3, Zenon

\* A tool call turns a workspace into one, and leaves behind writers of its paths.
LEMMA OutcomesType ==
    ASSUME NEW ws \in Workspaces, NEW tool \in Tools, NEW p \in Targets(tool),
           NEW o \in Outcomes(ws, tool, p)
    PROVE  IsOutcome(o) /\ p \in Paths
<1>1. p \in Paths
    BY ToolsAssumption DEF Targets, Tools, MutationTools, RetrievalTools
<1>2. Contents \in SUBSET (Contents \cup {Absent}) /\ {Absent} \in SUBSET (Contents \cup {Absent})
    OBVIOUS
<1>3. \A x \in CreateFile(ws, p) \cup UpdateFile(ws, p) \cup PatchFile(ws, p)
              \cup DeleteFile(ws, p) : IsOutcome(x)
    BY <1>1, <1>2, WrittenType, Zenon DEF CreateFile, UpdateFile, PatchFile, DeleteFile
<1>4. ASSUME NEW x \in ChangeDependency(ws) PROVE IsOutcome(x)
  <2>1. PICK r \in RunProcess(ws, Manifest) : x = Outcome(r.ok, r.files, {}, {})
      BY DEF ChangeDependency
  <2>2. r.ok \in BOOLEAN /\ r.files \in Workspaces
      BY RunProcessType, ToolsAssumption
  <2> QED
      BY <2>1, <2>2 DEF Outcome, IsOutcome
<1>5. ASSUME NEW x \in AddShadcnComponent(ws) PROVE IsOutcome(x)
  <2>1. PICK r \in RunProcess(ws, Component) :
          x = Outcome(r.ok, r.files, IF r.ok THEN {Component} ELSE {},
                      IF r.ok THEN {} ELSE {Component})
      BY DEF AddShadcnComponent
  <2>2. r.ok \in BOOLEAN /\ r.files \in Workspaces
      BY RunProcessType, ToolsAssumption
  <2> QED
      BY <2>1, <2>2, ToolsAssumption DEF Outcome, IsOutcome
<1>6. IsOutcome(Refused(ws))
    BY DEF Refused, Outcome, IsOutcome
<1>7. ASSUME NEW x \in SearchFiles(ws) \cup ReadFile(ws, p) PROVE IsOutcome(x)
  <2>1. x = Outcome(TRUE, ws, {}, {})
      BY DEF SearchFiles, ReadFile
  <2> QED
      BY <2>1 DEF Outcome, IsOutcome
<1>8. o = Refused(ws) \/ o \in CreateFile(ws, p) \/ o \in UpdateFile(ws, p)
      \/ o \in PatchFile(ws, p) \/ o \in DeleteFile(ws, p) \/ o \in ReadFile(ws, p)
      \/ o \in SearchFiles(ws) \/ o \in ChangeDependency(ws) \/ o \in AddShadcnComponent(ws)
    BY DEF Outcomes, Tools, MutationTools, RetrievalTools
<1> QED
    BY <1>1, <1>3, <1>4, <1>5, <1>6, <1>7, <1>8, Zenon

-----------------------------------------------------------------------------
(* Type correctness *)

Phases == {"security", "facts", "plan", "react", "build", "decide",
           "summarize", "push", "sending", "run", "report", "done"}

\* TypeOK, variable by variable.
AgentType ==
    /\ mode \in {"production", "eval"} /\ phase \in Phases
    /\ error \in {"none", "failed", "aborted"}
    /\ buildStatus \in {"pending", "success", "errors"}
    /\ fixAttempts \in 0 .. RepairBudget
    /\ completed \in BOOLEAN /\ hasResults \in BOOLEAN /\ aborted \in BOOLEAN
    /\ results \subseteq Tools /\ (summary \subseteq Tools \/ summary = NoSummary)
    /\ verdict \in {"none", "completed", "error"}
LoopType ==
    /\ steps \in Nat /\ queue \in 0 .. MaxResponseCalls /\ calls \in 0 .. MaxToolCalls
    /\ stall \in [sig : (Tools \cup {"none"}) \X Paths, count : 0 .. StallRepeat]
StorageType ==
    /\ files \in Workspaces /\ r2 \in Workspaces /\ sending \in Workspaces
    /\ strays \subseteq Paths /\ unsent \subseteq Paths /\ pushFailed \in BOOLEAN
HistoryType ==
    /\ built \subseteq Workspaces /\ strayed \in BOOLEAN /\ crashes \in 0 .. MaxCrashes

LEMMA TypeParts == TypeOK <=> AgentType /\ LoopType /\ StorageType /\ HistoryType
<1>1. {completed, hasResults, aborted, pushFailed, strayed} \subseteq BOOLEAN
      <=> /\ completed \in BOOLEAN /\ hasResults \in BOOLEAN /\ aborted \in BOOLEAN
          /\ pushFailed \in BOOLEAN /\ strayed \in BOOLEAN
    BY Zenon
<1>2. {files, r2, sending} \subseteq Workspaces
      <=> files \in Workspaces /\ r2 \in Workspaces /\ sending \in Workspaces
    BY Zenon
<1> QED
    BY <1>1, <1>2, Zenon DEF TypeOK, AgentType, LoopType, StorageType, HistoryType, Phases

LEMMA Constants ==
    /\ MaxSteps \in Nat /\ MaxRepairSteps \in Nat /\ RepairBudget \in Nat /\ MaxCrashes \in Nat
    /\ MaxToolCalls \in Nat \ {0} /\ StallRepeat \in Nat \ {0}
    /\ UploadConcurrency \in Nat \ {0} /\ MaxResponseCalls \in Nat \ {0}
    /\ Template \in Contents /\ Absent \notin Contents /\ Manifest \in Paths
    /\ NoFiles \in Workspaces
    /\ NoStall \in [sig : (Tools \cup {"none"}) \X Paths, count : 0 .. StallRepeat]
<1>1. NoFiles \in Workspaces
    BY DEF NoFiles, Workspaces
<1>2. NoStall \in [sig : (Tools \cup {"none"}) \X Paths, count : 0 .. StallRepeat]
    BY ToolsAssumption, AgentAssumption DEF NoStall
<1> QED
    BY <1>1, <1>2, ToolsAssumption, AgentAssumption

\* What the end of a pass, good or bad, does to the types.
LEMMA EndPassType ==
    ASSUME AgentType, NEW e \in {"none", "failed", "aborted"}, EndPass(e)
    PROVE  /\ phase' \in {"build", "summarize", "report", "decide"}
           /\ error' \in {"none", "failed", "aborted"} /\ completed' \in BOOLEAN
           /\ LoopType'
<1>1. LoopType'
    BY Constants, SMT DEF EndPass, LoopType
<1> QED
    BY <1>1 DEF EndPass, Throw, AgentType

\* The parts that most actions leave alone.
LEMMA SameLoop == LoopType /\ UNCHANGED loop => LoopType'
BY DEF LoopType, loop

LEMMA SameStorage == StorageType /\ UNCHANGED storage => StorageType'
BY DEF StorageType, storage

LEMMA SameHistory == HistoryType /\ UNCHANGED history => HistoryType'
BY DEF HistoryType, history

\* A tool call, recorded or stopped by the stall check, preserves the types.
LEMMA ToolCallType ==
    ASSUME AgentType, LoopType, StorageType, HistoryType, ToolCall
    PROVE  AgentType' /\ LoopType' /\ StorageType' /\ HistoryType'
<1> DEFINE After(tool, p, o, same) ==
        LET counted == IF tool \in MutationTools
                       THEN StallAfter(<<tool, p>>, same, o.reported) ELSE stall
        IN  /\ files' = o.files /\ strays' = strays \cup o.stray
            /\ IF tool \in MutationTools /\ counted.count >= StallRepeat
               THEN EndPass("failed") /\ UNCHANGED <<results, hasResults>>
               ELSE Record(tool, o, counted)
<1>a. PICK tool \in Tools : \E p \in Targets(tool) : \E o \in Outcomes(files, tool, p) :
        \E same \in {FALSE, stall.sig = <<tool, p>>} : After(tool, p, o, same)
    BY DEF ToolCall
<1>b. PICK p \in Targets(tool) : \E o \in Outcomes(files, tool, p) :
        \E same \in {FALSE, stall.sig = <<tool, p>>} : After(tool, p, o, same)
    BY <1>a
<1>1. PICK o \in Outcomes(files, tool, p), same \in {FALSE, stall.sig = <<tool, p>>} :
        After(tool, p, o, same)
    BY <1>b
<1> DEFINE counted == IF tool \in MutationTools
                      THEN StallAfter(<<tool, p>>, same, o.reported) ELSE stall
<1>2. IsOutcome(o) /\ p \in Paths
    BY OutcomesType DEF StorageType
<1>3. phase = "react" /\ queue > 0 /\ calls < MaxToolCalls
    BY DEF ToolCall
<1>4. UNCHANGED <<mode, buildStatus, fixAttempts, summary, verdict, aborted, built,
                  strayed, crashes, r2, unsent, sending, pushFailed>>
    BY DEF ToolCall, Bucket
<1>5. StorageType'
    BY <1>1, <1>2, <1>4 DEF StorageType, IsOutcome
<1>6. HistoryType'
    BY <1>4 DEF HistoryType
<1>7. CASE tool \in MutationTools /\ counted.count >= StallRepeat
  <2>1. EndPass("failed") /\ UNCHANGED <<results, hasResults>>
      BY <1>1, <1>7
  <2>2. phase' \in Phases /\ error' \in {"none", "failed", "aborted"}
        /\ completed' \in BOOLEAN /\ LoopType'
      BY <2>1, EndPassType DEF Phases
  <2>3. AgentType'
      BY <2>1, <2>2, <1>4 DEF AgentType
  <2> QED
      BY <2>2, <2>3, <1>5, <1>6
<1>8. CASE ~(tool \in MutationTools /\ counted.count >= StallRepeat)
  <2>1. Record(tool, o, counted)
      BY <1>1, <1>8
  <2>2. AgentType'
      BY <2>1, <1>4 DEF AgentType, Record
  <2>3. counted \in [sig : (Tools \cup {"none"}) \X Paths, count : 0 .. StallRepeat]
    <3>1. CASE tool \notin MutationTools
        BY <3>1 DEF LoopType
    <3>2. CASE tool \in MutationTools
      <4>1. counted = StallAfter(<<tool, p>>, same, o.reported)
          BY <3>2
      <4>2. counted.count \in Nat
          BY <4>1, Constants DEF StallAfter, LoopType
      <4>3. counted.count \in 0 .. StallRepeat
          BY <4>2, <3>2, <1>8, Constants
      <4>4. <<tool, p>> \in (Tools \cup {"none"}) \X Paths
          BY <1>2
      <4>5. counted = [sig |-> <<tool, p>>, count |-> counted.count]
          BY <4>1 DEF StallAfter
      <4> HIDE DEF counted
      <4> QED
          BY <4>3, <4>4, <4>5
    <3> QED
        BY <3>1, <3>2
  <2> HIDE DEF counted
  <2>4. LoopType'
      BY <2>1, <2>3, <1>3, Constants DEF LoopType, Record
  <2> QED
      BY <2>2, <2>4, <1>5, <1>6
<1> QED
    BY <1>7, <1>8

\* Every step preserves the types.
LEMMA TypeStep ==
    ASSUME TypeOK, [Next]_vars
    PROVE  TypeOK'
<1> SUFFICES AgentType' /\ LoopType' /\ StorageType' /\ HistoryType'
    BY TypeParts, PTL
<1>0. AgentType /\ LoopType /\ StorageType /\ HistoryType
    BY TypeParts
<1>1. CASE CheckPrompt
    BY <1>0, <1>1, SameLoop, SameStorage, SameHistory
    DEF CheckPrompt, Throw, AgentType, Phases
<1>2. CASE CollectFacts
    BY <1>0, <1>2, SameLoop, SameStorage, SameHistory
    DEF CollectFacts, Throw, AgentType, Phases, loop
<1>3. CASE Plan
    BY <1>0, <1>3, SameLoop, SameStorage, SameHistory DEF Plan, Throw, AgentType, Phases
<1>4. CASE PassFails
  <2>1. PICK e \in {"failed", "aborted"} : EndPass(e)
      BY <1>4 DEF PassFails
  <2> QED
      BY <1>0, <1>4, <2>1, EndPassType, SameStorage, SameHistory
      DEF PassFails, AgentType, Phases
<1>5. CASE ModelTurn
  <2>1. CASE EndPass("none")
      BY <1>0, <1>5, <2>1, EndPassType, SameStorage, SameHistory
      DEF ModelTurn, AgentType, Phases
  <2>2. CASE /\ steps' = steps + 1 /\ queue' \in 1 .. MaxResponseCalls
             /\ UNCHANGED <<phase, error, completed, calls, stall>>
    <3>1. LoopType'
        BY <1>0, <2>2, Constants DEF LoopType
    <3> QED
        BY <1>0, <1>5, <2>2, <3>1, SameStorage, SameHistory DEF ModelTurn, AgentType
  <2> QED
      BY <1>5, <2>1, <2>2 DEF ModelTurn
<1>6. CASE CallsExhausted
    BY <1>0, <1>6, EndPassType, SameStorage, SameHistory
    DEF CallsExhausted, AgentType, Phases
<1>7. CASE ToolCall
    BY <1>0, <1>7, ToolCallType
<1>8. CASE Validate
  <2>1. built' \subseteq Workspaces
      BY <1>0, <1>8 DEF Validate, HistoryType, StorageType
  <2>2. buildStatus' \in {"success", "errors"}
      BY <1>8 DEF Validate, StatusOf
  <2>3. HistoryType'
      BY <1>0, <1>8, <2>1 DEF Validate, HistoryType
  <2>4. AgentType'
      BY <1>0, <1>8, <2>2 DEF Validate, AgentType, Phases
  <2> QED
      BY <1>0, <1>8, <2>3, <2>4, SameLoop, SameStorage DEF Validate
<1>9. CASE StopAborted
    BY <1>0, <1>9, SameLoop, SameStorage, SameHistory DEF StopAborted, AgentType, Phases
<1>10. CASE StartRepair
    BY <1>0, <1>10, Constants, SameLoop, SameStorage, SameHistory
    DEF StartRepair, RepairsLeft, AttemptsAfter, AgentType, Phases
<1>11. CASE FinishSuccess
    BY <1>0, <1>11, SameLoop, SameStorage, SameHistory DEF FinishSuccess, AgentType, Phases
<1>12. CASE GiveUp
    BY <1>0, <1>12, SameLoop, SameStorage, SameHistory DEF GiveUp, AgentType, Phases
<1>13. CASE SummarizeChanges
    BY <1>0, <1>13, SameLoop, SameStorage, SameHistory
    DEF SummarizeChanges, Summarised, AfterSummary, AgentType, Phases
<1>14. CASE StartPush
  <2>1. AgentType'
      BY <1>0, <1>14 DEF StartPush, AgentType, Phases
  <2>2. StorageType'
      BY <1>0, <1>14 DEF StartPush, StorageType, ToUpload, Present
  <2> QED
      BY <1>0, <1>14, <2>1, <2>2, SameLoop, SameHistory DEF StartPush
<1>15. CASE StartBatch
  <2>1. StorageType'
      BY <1>0, <1>15, Constants DEF StartBatch, StorageType, Workspaces
  <2> QED
      BY <1>0, <1>15, <2>1, SameLoop, SameHistory DEF StartBatch, AgentType, agent
<1>16. CASE PutSettles
  <2>1. PICK p \in Present(sending), stored \in BOOLEAN, ok \in BOOLEAN :
           /\ ok => stored
           /\ r2' = IF stored THEN [r2 EXCEPT ![p] = sending[p]] ELSE r2
           /\ pushFailed' = (pushFailed \/ ~ok)
           /\ sending' = [sending EXCEPT ![p] = Absent]
      BY <1>16 DEF PutSettles
  <2>2. p \in Paths /\ sending[p] \in Contents \cup {Absent}
      BY <1>0 DEF Present, StorageType, Workspaces
  <2>3. [r2 EXCEPT ![p] = sending[p]] \in Workspaces
        /\ [sending EXCEPT ![p] = Absent] \in Workspaces
      BY <1>0, <2>2, WriteType DEF StorageType
  <2>4. StorageType'
      BY <1>0, <1>16, <2>1, <2>3 DEF PutSettles, StorageType
  <2> QED
      BY <1>0, <1>16, <2>4, SameLoop, SameHistory DEF PutSettles, AgentType, agent
<1>17. CASE FinishPush
    BY <1>0, <1>17, SameLoop, SameStorage, SameHistory DEF FinishPush, AgentType, Phases
<1>18. CASE RunNode
    BY <1>0, <1>18, SameLoop, SameStorage, SameHistory DEF RunNode, AgentType, Phases
<1>19. CASE Report
    BY <1>0, <1>19, SameLoop, SameStorage, SameHistory DEF Report, AgentType, Phases
<1>20. CASE Abort
    BY <1>0, <1>20, SameLoop, SameStorage, SameHistory DEF Abort, AgentType
<1>21. CASE Crash
  <2>1. PICK stored \in SUBSET Present(sending) :
           r2' = [p \in Paths |-> IF p \in stored THEN sending[p] ELSE r2[p]]
      BY <1>21 DEF Crash
  <2>2. r2' \in Workspaces
      BY <1>0, <2>1 DEF StorageType, Workspaces
  <2>3. StorageType'
      BY <1>0, <1>21, <2>2, Constants DEF Crash, StorageType
  <2>4. LoopType'
      BY <1>0, <1>21, Constants DEF Crash, LoopType
  <2>5. HistoryType'
      BY <1>0, <1>21, Constants DEF Crash, HistoryType
  <2>6. fixAttempts' \in 0 .. RepairBudget
      BY <1>21, Constants DEF Crash
  <2>7. AgentType'
      BY <1>0, <1>21, <2>6, Zenon DEF Crash, AgentType, Phases
  <2> QED
      BY <2>3, <2>4, <2>5, <2>7
<1>22. CASE StrayWrites
  <2>1. files' \in Workspaces
    <3>1. PICK p \in strays, c \in Contents : files' = [files EXCEPT ![p] = c]
        BY <1>22 DEF StrayWrites
    <3> QED
        BY <1>0, <3>1, WriteType DEF StorageType
  <2>2. StorageType'
      BY <1>0, <1>22, <2>1 DEF StrayWrites, StorageType, Bucket
  <2>3. HistoryType'
      BY <1>0, <1>22 DEF StrayWrites, HistoryType
  <2> QED
      BY <1>0, <1>22, <2>2, <2>3, SameLoop DEF StrayWrites, AgentType, agent
<1>23. CASE UNCHANGED vars
    BY <1>0, <1>23, SameLoop, SameStorage, SameHistory DEF vars, AgentType, agent
<1> QED
    BY <1>1, <1>2, <1>3, <1>4, <1>5, <1>6, <1>7, <1>8, <1>9, <1>10, <1>11, <1>12, <1>13,
       <1>14, <1>15, <1>16, <1>17, <1>18, <1>19, <1>20, <1>21, <1>22, <1>23
    DEF Next, Work

LEMMA TypeInit == Init => TypeOK
<1> SUFFICES ASSUME Init PROVE AgentType /\ LoopType /\ StorageType /\ HistoryType
    BY TypeParts
<1>1. files \in Workspaces
    BY Constants DEF Init, Workspaces
<1>2. fixAttempts \in 0 .. RepairBudget
    BY Constants DEF Init
<1>3. AgentType
    BY <1>2, Zenon DEF Init, AgentType, Phases
<1>4. LoopType
    BY Constants DEF Init, LoopType
<1>5. StorageType
    BY <1>1, Constants DEF Init, StorageType
<1>6. HistoryType
  <2>1. built = {files} /\ strayed = FALSE /\ crashes = 0
      BY DEF Init
  <2>2. built \subseteq Workspaces
      BY <1>1, <2>1
  <2>3. crashes \in 0 .. MaxCrashes
      BY <2>1, Constants
  <2> QED
      BY <2>1, <2>2, <2>3, Zenon DEF HistoryType
<1> QED
    BY <1>3, <1>4, <1>5, <1>6

\* The variables keep their types whatever the model, the tools, the uploads and the
\* crashes do: repairs within their budget, tool calls within theirs.
THEOREM TypeCorrect == Spec => []TypeOK
<1>1. TypeOK /\ [Next]_vars => TypeOK'
    BY TypeStep
<1> QED
    BY <1>1, TypeInit, PTL DEF Spec

-----------------------------------------------------------------------------
(* The strengthening *)

\* Where the workflow can be, with what status.
Control ==
    /\ buildStatus = "success" =>
         phase \in {"decide", "summarize", "push", "sending", "run", "report", "done"}
    /\ phase \in {"push", "sending", "run"} => buildStatus = "success" /\ error = "none"
    /\ phase = "summarize" /\ error = "none" => buildStatus = "success"
    /\ completed => /\ phase \in {"report", "done"} /\ error = "none"
                    /\ buildStatus = "success"
    /\ pushFailed => phase = "sending" \/ (phase \in {"report", "done"} /\ ~completed)
    /\ phase = "sending" => mode = "production"
    /\ phase # "sending" => unsent = {} /\ Present(sending) = {}

\* A successful status is that of the files on disk, and so is what is being sent.
Built ==
    /\ buildStatus = "success" /\ ~strayed => files \in built
    /\ ~strayed => \A p \in Present(sending) : sending[p] = files[p]

\* What the upload has done so far.
Uploaded ==
    /\ unsent \subseteq Present(files)
    /\ phase = "sending" /\ ~pushFailed /\ ~strayed =>
         \A p \in ToUpload(files) : p \in unsent \/ p \in Present(sending) \/ r2[p] = files[p]
    /\ (phase = "run" \/ completed) /\ mode = "production" /\ ~strayed =>
         \A p \in ToUpload(files) : r2[p] = files[p]

\* What the summary covers.
Listed == results \subseteq summary \/ summary = NoSummary
Summary ==
    /\ results \subseteq MutationTools
    /\ ~hasResults => results = {}
    /\ phase \in {"push", "sending", "run"} => Listed
    /\ phase \in {"report", "done"} => Listed \/ aborted

\* What a thrown error, at the end of a pass or elsewhere, does to the control.
LEMMA PassOutcome ==
    ASSUME NEW e \in {"none", "failed", "aborted"}, EndPass(e)
    PROVE  \/ phase' = "build" /\ error' = "none" /\ completed' = completed
           \/ phase' = "decide" /\ completed' = completed
           \/ /\ phase' \in {"summarize", "report"} /\ error' # "none" /\ completed' = FALSE
              /\ phase' = "report" => ~hasResults \/ aborted
BY DEF EndPass, Throw

\* The variables each part of the strengthening is about, with their types.
Typed ==
    /\ phase \in Phases /\ completed \in BOOLEAN /\ pushFailed \in BOOLEAN
    /\ strayed \in BOOLEAN /\ aborted \in BOOLEAN /\ hasResults \in BOOLEAN
    /\ files \in Workspaces /\ r2 \in Workspaces /\ sending \in Workspaces
    /\ unsent \subseteq Paths

LEMMA TypedVariables == TypeOK => Typed
BY TypeParts DEF Typed, AgentType, StorageType, HistoryType

LEMMA ControlStep ==
    ASSUME TypeOK, Control, [Next]_vars
    PROVE  Control'
<1>0. Typed
    BY TypedVariables
<1>1. CASE CheckPrompt
    BY <1>0, <1>1 DEF Typed, Control, CheckPrompt, Throw, storage, Present
<1>2. CASE CollectFacts
    BY <1>0, <1>2 DEF Typed, Control, CollectFacts, Throw, storage, Present
<1>3. CASE Plan
    BY <1>0, <1>3 DEF Typed, Control, Plan, Throw, storage, Present
<1>4. CASE PassFails
  <2>1. PICK e \in {"failed", "aborted"} : EndPass(e)
      BY <1>4 DEF PassFails
  <2> QED
      BY <1>0, <1>4, <2>1, PassOutcome DEF Typed, Control, PassFails, storage, Present
<1>5. CASE ModelTurn
  <2>1. /\ phase = "react" /\ UNCHANGED <<mode, buildStatus, unsent, sending, pushFailed>>
        /\ EndPass("none") \/ UNCHANGED <<phase, error, completed>>
      BY <1>5 DEF ModelTurn, storage
  <2>2. CASE EndPass("none")
    <3>1. \/ phase' = "build" /\ error' = "none" /\ completed' = completed
          \/ phase' = "decide" /\ completed' = completed
          \/ phase' \in {"summarize", "report"} /\ error' # "none" /\ completed' = FALSE
        BY <2>2, PassOutcome
    <3> QED
        BY <1>0, <2>1, <3>1 DEF Typed, Control, Present
  <2>3. CASE UNCHANGED <<phase, error, completed>>
      BY <1>0, <2>1, <2>3 DEF Typed, Control, Present
  <2> QED
      BY <2>1, <2>2, <2>3
<1>6. CASE CallsExhausted
    BY <1>0, <1>6, PassOutcome DEF Typed, Control, CallsExhausted, storage, Present
<1>7. CASE ToolCall
  <2>1. EndPass("failed") \/ UNCHANGED <<phase, error, completed>>
      BY <1>7 DEF ToolCall, Record
  <2> QED
      BY <1>0, <1>7, <2>1, PassOutcome DEF Typed, Control, ToolCall, Bucket, Present
<1>8. CASE Validate
    BY <1>0, <1>8 DEF Typed, Control, Validate, storage, Present
<1>9. CASE StopAborted
    BY <1>0, <1>9 DEF Typed, Control, StopAborted, storage, Present
<1>10. CASE StartRepair
    BY <1>0, <1>10 DEF Typed, Control, StartRepair, storage, Present
<1>11. CASE FinishSuccess
    BY <1>0, <1>11 DEF Typed, Control, FinishSuccess, storage, Present
<1>12. CASE GiveUp
    BY <1>0, <1>12 DEF Typed, Control, GiveUp, storage, Present
<1>13. CASE SummarizeChanges
    BY <1>0, <1>13 DEF Typed, Control, SummarizeChanges, AfterSummary, storage, Present
<1>14. CASE StartPush
    BY <1>0, <1>14 DEF Typed, Control, StartPush, Present
<1>15. CASE StartBatch
    BY <1>0, <1>15 DEF Typed, Control, StartBatch, agent
<1>16. CASE PutSettles
    BY <1>0, <1>16 DEF Typed, Control, PutSettles, agent
<1>17. CASE FinishPush
    BY <1>0, <1>17 DEF Typed, Control, FinishPush, storage, Present
<1>18. CASE RunNode
    BY <1>0, <1>18 DEF Typed, Control, RunNode, storage, Present
<1>19. CASE Report
    BY <1>0, <1>19 DEF Typed, Control, Report, storage, Present
<1>20. CASE Abort
    BY <1>0, <1>20 DEF Typed, Control, Abort, storage, Present
<1>21. CASE Crash
    BY <1>0, <1>21 DEF Typed, Control, Crash, Present, NoFiles
<1>22. CASE StrayWrites
    BY <1>0, <1>22 DEF Typed, Control, StrayWrites, agent, Bucket, Present
<1>23. CASE UNCHANGED vars
    BY <1>0, <1>23 DEF Typed, Control, vars, agent, storage, Present
<1> QED
    BY <1>1, <1>2, <1>3, <1>4, <1>5, <1>6, <1>7, <1>8, <1>9, <1>10, <1>11, <1>12, <1>13,
       <1>14, <1>15, <1>16, <1>17, <1>18, <1>19, <1>20, <1>21, <1>22, <1>23
    DEF Next, Work

\* The steps that only move the workflow on, with the files and the upload as they were,
\* neither earn a status nor reach the upload.
Moves == CheckPrompt \/ CollectFacts \/ Plan \/ PassFails \/ ModelTurn \/ CallsExhausted
         \/ StopAborted \/ StartRepair \/ FinishSuccess \/ GiveUp \/ SummarizeChanges
         \/ Report \/ Abort

LEMMA MovesLeave ==
    ASSUME Moves
    PROVE  /\ UNCHANGED <<storage, history, mode, buildStatus>>
           /\ results' = results /\ hasResults' = hasResults
           /\ phase' \notin {"sending", "run"} \/ phase' = phase
           /\ completed' => completed
<1>1. CASE CheckPrompt \/ CollectFacts \/ Plan
    BY <1>1 DEF CheckPrompt, CollectFacts, Plan, Throw
<1>2. CASE PassFails \/ ModelTurn \/ CallsExhausted
    BY <1>2 DEF PassFails, ModelTurn, CallsExhausted, EndPass, Throw
<1>3. CASE StopAborted \/ StartRepair \/ FinishSuccess \/ GiveUp
    BY <1>3 DEF StopAborted, StartRepair, FinishSuccess, GiveUp
<1>4. CASE SummarizeChanges \/ Report \/ Abort
    BY <1>4 DEF SummarizeChanges, Report, Abort, AfterSummary
<1> QED
    BY <1>1, <1>2, <1>3, <1>4 DEF Moves

LEMMA BuiltStep ==
    ASSUME TypeOK, Control, Built, [Next]_vars
    PROVE  Built'
<1>0. Typed
    BY TypedVariables
<1>1. CASE Moves
    BY <1>0, <1>1, MovesLeave DEF Typed, Built, storage, history, Present
<1>2. CASE ToolCall
  <2>1. phase = "react" /\ UNCHANGED <<buildStatus, sending, strayed, built>>
      BY <1>2 DEF ToolCall, Bucket
  <2> QED
      BY <1>0, <2>1 DEF Typed, Control, Built, Present
<1>3. CASE Validate
  <2>1. phase = "build" /\ UNCHANGED <<files, sending, strayed>>
      BY <1>3 DEF Validate, storage
  <2>2. buildStatus' = "success" => files \in built'
      BY <1>3 DEF Validate, StatusOf
  <2> QED
      BY <1>0, <2>1, <2>2 DEF Typed, Control, Built, Present
<1>4. CASE StartPush
    BY <1>0, <1>4 DEF Typed, Built, StartPush, history, Present
<1>5. CASE StartBatch
  <2>1. UNCHANGED <<buildStatus, files, strayed, built>>
      BY <1>5 DEF StartBatch, agent, history
  <2>2. \A p \in Present(sending)' : sending'[p] = files[p]
      BY <1>5 DEF StartBatch, Present
  <2> QED
      BY <2>1, <2>2 DEF Built, Present
<1>6. CASE PutSettles
  <2>1. UNCHANGED <<buildStatus, files, strayed, built>>
      BY <1>6 DEF PutSettles, agent, history
  <2>2. \A p \in Present(sending)' : p \in Present(sending) /\ sending'[p] = sending[p]
      BY <1>0, <1>6 DEF Typed, Workspaces, PutSettles, Present
  <2> QED
      BY <2>1, <2>2 DEF Built
<1>7. CASE FinishPush \/ RunNode
    BY <1>0, <1>7 DEF Typed, Built, FinishPush, RunNode, storage, history, Present
<1>8. CASE Crash
    BY <1>8 DEF Built, Crash, Present, NoFiles
<1>9. CASE StrayWrites
    BY <1>9 DEF Built, StrayWrites
<1>10. CASE UNCHANGED vars
    BY <1>10 DEF Built, Present, vars, agent, storage, history
<1> QED
    BY <1>1, <1>2, <1>3, <1>4, <1>5, <1>6, <1>7, <1>8, <1>9, <1>10 DEF Next, Work, Moves

LEMMA UploadedStep ==
    ASSUME TypeOK, Control, Built, Uploaded, [Next]_vars
    PROVE  Uploaded'
<1>0. Typed
    BY TypedVariables
<1>1. CASE Moves
  <2>1. /\ UNCHANGED <<files, r2, unsent, sending, pushFailed, strayed, mode>>
        /\ phase' \notin {"sending", "run"} \/ phase' = phase
        /\ completed' => completed
      BY <1>1, MovesLeave DEF storage, history
  <2> QED
      BY <1>0, <2>1 DEF Typed, Uploaded, ToUpload, Present
<1>2. CASE ToolCall
  <2>1. phase = "react" /\ UNCHANGED unsent
      BY <1>2 DEF ToolCall, Bucket
  <2>2. phase' \notin {"sending", "run"} /\ (completed' => completed)
    <3>1. EndPass("failed") \/ UNCHANGED <<phase, error, completed>>
        BY <1>2 DEF ToolCall, Record
    <3>2. CASE EndPass("failed")
        BY <3>2, PassOutcome
    <3> QED
        BY <2>1, <3>1, <3>2
  <2>3. unsent' = {} /\ ~completed' /\ phase' \notin {"sending", "run"}
      BY <2>1, <2>2 DEF Control
  <2> QED
      BY <2>3 DEF Uploaded
<1>3. CASE Validate
    BY <1>0, <1>3 DEF Typed, Control, Uploaded, Validate, storage, Present, ToUpload
<1>4. CASE StartPush
    BY <1>0, <1>4 DEF Typed, Control, Uploaded, StartPush, history, Present, ToUpload
<1>5. CASE StartBatch
  <2>1. PICK batch \in SUBSET unsent :
           /\ unsent' = unsent \ batch
           /\ sending' = [p \in Paths |-> IF p \in batch THEN files[p] ELSE Absent]
      BY <1>5 DEF StartBatch
  <2>2. /\ phase = "sending" /\ Present(sending) = {}
        /\ UNCHANGED <<phase, mode, completed, files, strayed, r2, pushFailed>>
      BY <1>5 DEF StartBatch, agent, history
  <2>3. batch \subseteq Present(sending)'
      BY <2>1 DEF Uploaded, Present
  <2> QED
      BY <1>0, <2>1, <2>2, <2>3 DEF Typed, Control, Uploaded, Present, ToUpload
<1>6. CASE PutSettles
  <2>1. PICK p \in Present(sending), stored \in BOOLEAN, ok \in BOOLEAN :
           /\ ok => stored
           /\ r2' = IF stored THEN [r2 EXCEPT ![p] = sending[p]] ELSE r2
           /\ pushFailed' = (pushFailed \/ ~ok)
           /\ sending' = [sending EXCEPT ![p] = Absent]
      BY <1>6 DEF PutSettles
  <2>2. phase = "sending" /\ UNCHANGED <<phase, mode, completed, files, strayed, unsent>>
      BY <1>6 DEF PutSettles, agent, history
  <2>3. p \in Paths /\ r2 \in [Paths -> Contents \cup {Absent}]
        /\ sending \in [Paths -> Contents \cup {Absent}]
      BY <1>0 DEF Typed, Workspaces, Present
  <2>4. \A q \in Paths \ {p} : r2'[q] = r2[q] /\ sending'[q] = sending[q]
      BY <2>1, <2>3
  <2>5. ok /\ ~strayed => r2'[p] = files[p]
      BY <2>1, <2>3 DEF Built
  <2>6. ASSUME ~pushFailed', ~strayed, NEW q \in ToUpload(files)
        PROVE  q \in unsent \/ q \in Present(sending)' \/ r2'[q] = files[q]
    <3>1. CASE q = p
        BY <2>1, <2>5, <2>6, <3>1
    <3>2. CASE q # p
        BY <2>1, <2>2, <2>4, <2>6, <3>2 DEF Uploaded, ToUpload, Present
    <3> QED
        BY <3>1, <3>2
  <2>7. phase # "run" /\ ~completed
      BY <2>2 DEF Control
  <2> QED
      BY <2>2, <2>6, <2>7 DEF Uploaded, Present, ToUpload
<1>7. CASE FinishPush
    BY <1>0, <1>7 DEF Typed, Control, Uploaded, FinishPush, storage, history, Present, ToUpload
<1>8. CASE RunNode
    BY <1>0, <1>8 DEF Typed, Control, Uploaded, RunNode, storage, history, Present, ToUpload
<1>9. CASE Crash
    BY <1>9 DEF Uploaded, Crash
<1>10. CASE StrayWrites
  <2>1. PICK p \in strays, c \in Contents : files' = [files EXCEPT ![p] = c]
      BY <1>10 DEF StrayWrites
  <2>2. Present(files) \subseteq Present(files)'
      BY <1>0, <2>1, ToolsAssumption DEF Typed, Workspaces, Present
  <2> QED
      BY <1>10, <2>2 DEF Uploaded, StrayWrites, Bucket
<1>11. CASE UNCHANGED vars
    BY <1>11 DEF Uploaded, Present, ToUpload, vars, agent, storage, history
<1> QED
    BY <1>1, <1>2, <1>3, <1>4, <1>5, <1>6, <1>7, <1>8, <1>9, <1>10, <1>11
    DEF Next, Work, Moves

LEMMA SummaryStep ==
    ASSUME TypeOK, Control, Summary, [Next]_vars
    PROVE  Summary'
<1>0. Typed
    BY TypedVariables
<1>1. CASE CheckPrompt \/ CollectFacts \/ Plan
    BY <1>0, <1>1 DEF Typed, Summary, Listed, CheckPrompt, CollectFacts, Plan, Throw
<1>2. CASE PassFails \/ ModelTurn \/ CallsExhausted
  <2>1. /\ phase = "react" /\ UNCHANGED <<results, hasResults, summary, aborted>>
        /\ (\E e \in {"none", "failed", "aborted"} : EndPass(e)) \/ UNCHANGED phase
      BY <1>2 DEF PassFails, ModelTurn, CallsExhausted
  <2> QED
      BY <1>0, <2>1, PassOutcome DEF Typed, Summary, Listed
<1>3. CASE ToolCall
  <2>1. /\ phase = "react" /\ UNCHANGED <<summary, aborted>>
        /\ \/ EndPass("failed") /\ UNCHANGED <<results, hasResults>>
           \/ /\ UNCHANGED phase /\ hasResults' = TRUE
              /\ results' \subseteq results \cup MutationTools
      BY <1>3 DEF ToolCall, Record
  <2>2. CASE EndPass("failed") /\ UNCHANGED <<results, hasResults>>
      BY <1>0, <2>1, <2>2, PassOutcome DEF Typed, Summary, Listed
  <2>3. CASE /\ UNCHANGED phase /\ hasResults' = TRUE
             /\ results' \subseteq results \cup MutationTools
      BY <2>1, <2>3 DEF Summary, Listed
  <2> QED
      BY <2>1, <2>2, <2>3
<1>4. CASE Validate \/ StopAborted \/ StartRepair \/ FinishSuccess \/ GiveUp
    BY <1>0, <1>4
    DEF Typed, Summary, Listed, Validate, StopAborted, StartRepair, FinishSuccess, GiveUp
<1>5. CASE SummarizeChanges
  <2>1. Listed' /\ UNCHANGED <<results, hasResults>>
      BY <1>5 DEF Summary, Listed, SummarizeChanges, Summarised, SummarisedTools
  <2> QED
      BY <1>5, <2>1 DEF Summary, Listed, SummarizeChanges
<1>6. CASE StartPush \/ StartBatch \/ PutSettles \/ FinishPush \/ RunNode \/ Report
    BY <1>6
    DEF Summary, Listed, StartPush, StartBatch, PutSettles, FinishPush, RunNode, Report,
        agent
<1>7. CASE Abort
    BY <1>7 DEF Summary, Listed, Abort
<1>8. CASE Crash
    BY <1>8 DEF Summary, Listed, Crash
<1>9. CASE StrayWrites \/ UNCHANGED vars
    BY <1>9 DEF Summary, Listed, StrayWrites, vars, agent
<1> QED
    BY <1>1, <1>2, <1>3, <1>4, <1>5, <1>6, <1>7, <1>8, <1>9 DEF Next, Work
-----------------------------------------------------------------------------
(* The properties *)

IInv == TypeOK /\ Control /\ Built /\ Uploaded /\ Summary

LEMMA StrengtheningInit == Init => IInv
<1> SUFFICES ASSUME Init PROVE IInv
    OBVIOUS
<1>1. TypeOK
    BY TypeInit
<1>2. Present(sending) = {}
    BY DEF Init, NoFiles, Present
<1>3. Control
    BY <1>2 DEF Init, Control
<1>4. Built
    BY <1>2 DEF Init, Built
<1>5. Uploaded /\ Summary
    BY DEF Init, Uploaded, Summary, Listed
<1> QED
    BY <1>1, <1>3, <1>4, <1>5 DEF IInv

LEMMA StrengtheningStep == IInv /\ [Next]_vars => IInv'
BY TypeStep, ControlStep, BuiltStep, UploadedStep, SummaryStep DEF IInv

THEOREM Strengthening == Spec => []IInv
BY StrengtheningInit, StrengtheningStep, PTL DEF Spec

\* What a run that ends completed promises: validateNode built the files on disk and
\* pushFilesToR2 stored each of them unless a put of its failed, whatever the tools, the
\* repairs and the crashes did.
THEOREM CompletionEarned == Spec => []CompletedIsEarned
<1>1. IInv => CompletedIsEarned
    BY TypedVariables DEF IInv, Typed, Control, Built, Uploaded, CompletedIsEarned
<1> QED
    BY <1>1, Strengthening, PTL

\* The changeSummary of a run that was not aborted leaves out no tool with a recorded
\* edit, the edits of failed runs and of their repairs included, unless the node failed
\* and its text says so (summarizeChanges.ts, the catch).
THEOREM SummaryComplete == Spec => []SummaryCoversEdits
<1>1. IInv => SummaryCoversEdits
    BY TypedVariables DEF IInv, Typed, Summary, Listed, SummaryCoversEdits
<1> QED
    BY <1>1, Strengthening, PTL

\* The contents that reach R2 are those of a successful build.
LEMMA PushedStep ==
    ASSUME IInv, PushedWasBuilt, [Next]_vars
    PROVE  PushedWasBuilt'
<1>0. Typed
    BY TypedVariables DEF IInv
<1>1. CASE UNCHANGED <<r2, built, strayed>>
    BY <1>1 DEF PushedWasBuilt, Present
<1>2. CASE Validate
  <2>1. built \subseteq built' /\ UNCHANGED <<r2, strayed>>
      BY <1>2 DEF Validate, storage
  <2> QED
      BY <2>1 DEF PushedWasBuilt, Present
<1>3. ASSUME ~strayed, NEW p \in Present(sending)
      PROVE  \E ws \in built : ws[p] = sending[p]
    BY <1>3 DEF IInv, Control, Built
<1>4. CASE PutSettles
  <2>1. PICK p \in Present(sending), stored \in BOOLEAN :
           r2' = IF stored THEN [r2 EXCEPT ![p] = sending[p]] ELSE r2
      BY <1>4 DEF PutSettles
  <2>2. UNCHANGED <<built, strayed>>
      BY <1>4 DEF PutSettles, history
  <2>3. p \in Paths /\ r2 \in [Paths -> Contents \cup {Absent}]
      BY <1>0 DEF Typed, Workspaces, Present
  <2>4. \A q \in Paths : r2'[q] = r2[q] \/ (q = p /\ r2'[q] = sending[q])
      BY <2>1, <2>3
  <2> QED
      BY <1>3, <2>2, <2>4 DEF PushedWasBuilt, Present
<1>5. CASE Crash
  <2>1. PICK stored \in SUBSET Present(sending) :
           r2' = [p \in Paths |-> IF p \in stored THEN sending[p] ELSE r2[p]]
      BY <1>5 DEF Crash
  <2>2. UNCHANGED <<built, strayed>>
      BY <1>5 DEF Crash
  <2>3. \A q \in Paths : r2'[q] = r2[q] \/ (q \in Present(sending) /\ r2'[q] = sending[q])
      BY <2>1
  <2> QED
      BY <1>3, <2>2, <2>3 DEF PushedWasBuilt, Present
<1>6. CASE StrayWrites
    BY <1>6 DEF StrayWrites, PushedWasBuilt
<1>7. CASE Moves
    BY <1>1, <1>7, MovesLeave DEF storage, history
<1>8. CASE ToolCall
    BY <1>1, <1>8 DEF ToolCall, Bucket
<1>9. CASE StartPush \/ StartBatch \/ FinishPush \/ RunNode
    BY <1>1, <1>9 DEF StartPush, StartBatch, FinishPush, RunNode, storage, history
<1>10. CASE UNCHANGED vars
    BY <1>1, <1>10 DEF vars, storage, history
<1> QED
    BY <1>2, <1>4, <1>5, <1>6, <1>7, <1>8, <1>9, <1>10 DEF Next, Work, Moves

\* R2 never holds a content that no successful build has seen, unless a process that
\* outlived its tool call has written: uploadBatch reads the files the build read.
THEOREM PushedBuilt == Spec => []PushedWasBuilt
<1>1. Init => PushedWasBuilt
    BY DEF Init, PushedWasBuilt, Present
<1>2. IInv /\ PushedWasBuilt /\ [Next]_vars => PushedWasBuilt'
    BY PushedStep
<1> QED
    BY <1>1, <1>2, Strengthening, PTL DEF Spec
=============================================================================
