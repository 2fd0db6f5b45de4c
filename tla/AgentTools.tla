------------------------------ MODULE AgentTools ------------------------------
(***************************************************************************)
(* The tools the coding agent calls on the workspace of its project        *)
(* (apps/control/src/agent/tool/simple), as functions from the files to    *)
(* the outcomes a call can have.                                           *)
(*                                                                         *)
(* The workspace is a function from paths to contents.  What a tool writes *)
(* is chosen by the language model: any content.  Whether the hash or the  *)
(* text a call passes is the one of the file is the model's affair too: a  *)
(* call may always be refused.                                             *)
(***************************************************************************)
EXTENDS Integers, FiniteSets

CONSTANTS
    Paths,      \* files of the workspace
    Contents,   \* what a file may contain
    Absent,     \* no file
    Manifest,   \* package.json
    Component   \* the file an addShadcnComponent call writes

ASSUME ToolsAssumption ==
    Manifest \in Paths /\ Component \in Paths /\ Absent \notin Contents

Workspaces == [Paths -> Contents \cup {Absent}]

\* MUTATION_TOOLS and RETRIEVAL_TOOLS of the registry; "dependency" stands for
\* addDependency and removeDependency, "search" for listFiles and searchFiles.
MutationTools == {"createFile", "updateFile", "patchFile", "deleteFile",
                  "dependency", "addShadcnComponent"}
RetrievalTools == {"readFile", "search"}
Tools == MutationTools \cup RetrievalTools

\* The tools whose successful calls analyzeToolResults lists in the summary.
SummarisedTools == MutationTools

(***************************************************************************)
(* The outcome of a call: its success field, the files after it, the paths *)
(* in its changedFiles, and the paths a process that outlives the call may *)
(* still write.                                                            *)
(***************************************************************************)
Outcome(ok, files, reported, stray) ==
    [ok |-> ok, files |-> files, reported |-> reported, stray |-> stray]

\* toolFail: a check failed, the schema or the path was refused, or the call threw.
Refused(files) == Outcome(FALSE, files, {}, {})

\* toolOk of a tool that wrote one of the contents cs to path p.
Written(files, p, cs) == {Outcome(TRUE, [files EXCEPT ![p] = c], {p}, {}) : c \in cs}

CreateFile(files, p) == IF files[p] = Absent THEN Written(files, p, Contents) ELSE {}

\* The hash the model passes is the one of the file as it is, or the call is refused.
UpdateFile(files, p) == IF files[p] # Absent THEN Written(files, p, Contents) ELSE {}

\* oldString occurs once, or replaceAll is set, and the text is another one.
PatchFile(files, p) ==
    IF files[p] # Absent THEN Written(files, p, Contents) ELSE {}

DeleteFile(files, p) == IF files[p] # Absent THEN Written(files, p, {Absent}) ELSE {}

\* A line range outside the file fails; nothing is written.
ReadFile(files, p) == {Outcome(TRUE, files, {}, {}) : c \in {files[p]} \ {Absent}}

\* listFiles and searchFiles; a directory that is not there is an empty answer.
SearchFiles(files) == {Outcome(TRUE, files, {}, {})}

\* runProcess: a command that writes p.  It ends well, fails or is killed at its time
\* limit, and whichever it does it may have written already.
RunProcess(files, p) ==
    [ok : BOOLEAN, files : {files} \cup {[files EXCEPT ![p] = c] : c \in Contents}]

\* bun add and bun remove: the result has no changedFiles.
ChangeDependency(files) == {Outcome(r.ok, r.files, {}, {}) : r \in RunProcess(files, Manifest)}

\* bunx shadcn add -y --overwrite.  A time limit kills bunx, not the process it started,
\* which may go on writing the component.
AddShadcnComponent(files) ==
    {Outcome(r.ok, r.files, IF r.ok THEN {Component} ELSE {},
             IF r.ok THEN {} ELSE {Component}) : r \in RunProcess(files, Component)}

\* The paths a call can name: the manifest and the component are fixed by the tool.
Targets(tool) ==
    CASE tool = "dependency" -> {Manifest}
      [] tool = "addShadcnComponent" -> {Component}
      [] tool = "search" -> {Manifest}
      [] OTHER -> Paths

\* Every outcome of a call of tool on path p.
Outcomes(files, tool, p) ==
  {Refused(files)} \cup
    CASE tool = "createFile" -> CreateFile(files, p)
      [] tool = "updateFile" -> UpdateFile(files, p)
      [] tool = "patchFile" -> PatchFile(files, p)
      [] tool = "deleteFile" -> DeleteFile(files, p)
      [] tool = "readFile" -> ReadFile(files, p)
      [] tool = "search" -> SearchFiles(files)
      [] tool = "dependency" -> ChangeDependency(files)
      [] tool = "addShadcnComponent" -> AddShadcnComponent(files)
=============================================================================
