------------------------------- MODULE EvalAst -------------------------------
(***************************************************************************)
(* The structural checks of a generated project (apps/evals/src/ast.ts).   *)
(* A project is a set of source files, a file the sequence of the nodes    *)
(* the traversal meets: imports, exports, functions and their ends, inline *)
(* callbacks and their ends, calls of hooks, and elements.  A file that    *)
(* does not parse has no nodes.  analyzeAst keeps a stack of the functions *)
(* that are open, on which declared functions are pushed, and functions a  *)
(* variable is initialised with: a callback passed to a call or to an      *)
(* attribute is not.                                                       *)
(***************************************************************************)
EXTENDS Integers, Sequences, SequencesExt

CONSTANT Includes   \* the pairs of different texts of which the first contains the second

\* capital: the name starts with an upper-case letter.
Import(module, names) == [node |-> "import", module |-> module, names |-> names]
Export(name, capital) == [node |-> "export", name |-> name, capital |-> capital]
ExportDefault(name) == [node |-> "export_default", name |-> name]
Fn(name, capital) == [node |-> "fn", name |-> name, capital |-> capital]
Arrow(name, capital) == [node |-> "arrow", name |-> name, capital |-> capital]
FnEnd == [node |-> "fn_end"]
Callback == [node |-> "callback"]
CallbackEnd == [node |-> "callback_end"]
Hook(name) == [node |-> "hook", name |-> name]
Element(name, custom, attrs) ==
    [node |-> "element", name |-> name, custom |-> custom, attrs |-> attrs]

\* What a traversal can meet.
Nodes ==
    [node : {"import"}, module : STRING, names : SUBSET (STRING \ {""})]
    \cup [node : {"export", "fn", "arrow"}, name : STRING, capital : BOOLEAN]
    \cup [node : {"export_default", "hook"}, name : STRING]
    \cup [node : {"fn_end", "callback", "callback_end"}]
    \cup [node : {"element"}, name : STRING, custom : BOOLEAN, attrs : SUBSET STRING]

\* A traversal leaves only what it has entered.
Files ==
    {file \in Seq(Nodes) :
        \A i \in DOMAIN file : file[i].node = "callback_end" =>
            \E j \in 1 .. i - 1 : file[j].node = "callback"}

EmptyInfo == [stack |-> <<>>, imports |-> {}, exports |-> {}, hooks |-> {},
              topLevelHooks |-> {}, components |-> {}, elements |-> {}, renders |-> {}]

\* topComponent: the innermost open component, as a set of at most one name.
TopComponent(stack) ==
    {stack[i].name : i \in {k \in DOMAIN stack :
        /\ stack[k].capital
        /\ \A j \in k + 1 .. Len(stack) : ~stack[j].capital}}

\* mutant: a hook counts as top-level wherever a component is open.
TopLevelAnywhere(stack) == TopComponent(stack) # {}

\* A hook is at the top level when one function is open, a component.
TopLevel(stack) == Len(stack) = 1 /\ stack[1].capital

\* collectTopLevel: an exported declaration, and the name exported by default,
\* which counts as a component whatever it names.
CollectTopLevel(info, n) ==
    CASE n.node = "export" ->
            [info EXCEPT !.exports = @ \cup {n.name},
                         !.components = IF n.capital THEN @ \cup {n.name} ELSE @]
      [] n.node = "export_default" -> [info EXCEPT !.components = @ \cup {n.name}]
      [] OTHER -> info

\* The visitors of analyzeAst, for one node.  An import replaces what the file
\* imported from the same module before; a variable that holds a function counts as
\* a component whatever its name.
Visit(info, n) ==
    CASE n.node = "import" ->
            [info EXCEPT !.imports = {i \in @ : i.module # n.module} \cup {n}]
      [] n.node \in {"fn", "arrow"} ->
            [info EXCEPT !.stack = Append(@, n),
                         !.components = IF n.capital \/ n.node = "arrow"
                                        THEN @ \cup {n.name} ELSE @]
      [] n.node = "fn_end" -> [info EXCEPT !.stack = Front(@)]
      [] n.node = "hook" ->
            [info EXCEPT !.hooks = @ \cup {n.name},
                         !.topLevelHooks =
                            IF TopLevel(info.stack) THEN @ \cup {n.name} ELSE @]
      [] n.node = "element" ->
            [info EXCEPT !.elements = @ \cup {n},
                         !.renders = IF n.custom
                                     THEN @ \cup (TopComponent(info.stack) \X {n.name})
                                     ELSE @]
      [] OTHER -> info

\* analyzeAst of one file, and analyzeProject: what is known of every file.
Analyzed(file) == FoldLeft(Visit, FoldLeft(CollectTopLevel, EmptyInfo, file), file)

AnalyzeProject(project) == {Analyzed(file) : file \in project}

\* src.includes(mod): the check names the module a file imports from, or a part of its name.
Matches(src, mod) == src = mod \/ <<src, mod>> \in Includes

\* matchAstCheck: some file has what the check names.  A name "" stands for a part the
\* check leaves out: the imported name, the attribute, the parent.
MatchAst(index, check) ==
  \E info \in index :
    CASE check.kind = "import" ->
            \E i \in info.imports :
                Matches(i.module, check.module) /\ check.name \in i.names \cup {""}
      [] check.kind = "jsx" ->
            \E e \in info.elements : e.name = check.name /\ check.attr \in e.attrs \cup {""}
      [] check.kind = "hook" ->
            check.name \in IF check.top THEN info.topLevelHooks ELSE info.hooks
      [] check.kind = "render" ->
            \E r \in info.renders : r[2] = check.name /\ check.parent \in {"", r[1]}
      [] check.kind = "component" -> check.name \in info.components
      [] check.kind = "exports" -> check.name \in info.exports

-------------------------------------------------------------------------------
\* What the checks are about: the functions open at the i-th node, callbacks too.
OpenAt(file, i) ==
    LET Step(open, n) == IF n.node \in {"fn", "arrow", "callback"} THEN Append(open, n)
                         ELSE IF n.node \in {"fn_end", "callback_end"} THEN Front(open)
                         ELSE open
    IN  FoldLeft(Step, <<>>, SubSeq(file, 1, i - 1))

HasCallbacks(file) == \E i \in DOMAIN file : file[i].node = "callback"

\* Hooks called in the body of an outermost component and of no function in it.
ReallyTopLevel(file) ==
    {file[i].name : i \in {k \in DOMAIN file :
        /\ file[k].node = "hook"
        /\ LET open == OpenAt(file, k)
           IN  Len(open) = 1 /\ open[1].node # "callback" /\ open[1].capital}}

\* The names a file imports, from the modules a check for `mod' matches; and whether it
\* imports from each of these in one declaration.
ImportNodes(file) == {file[i] : i \in {k \in DOMAIN file : file[k].node = "import"}}
ReallyImported(file, mod) ==
    UNION {n.names : n \in {m \in ImportNodes(file) : Matches(m.module, mod)}}
Specifiers(file) == {n.module : n \in ImportNodes(file)} \cup {p[2] : p \in Includes}
ImportedOnce(file, mod) ==
    \A m, n \in ImportNodes(file) :
        m.module = n.module /\ Matches(m.module, mod) => m = n
=============================================================================
