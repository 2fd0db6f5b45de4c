----------------------------- MODULE MCEvalRun -----------------------------
EXTENDS EvalRun

\* A component that calls a hook itself, one that leaves it to a named function, one
\* that calls it in an inline callback, and none; a module imported twice; a module with
\* another in its name; a file that does not parse.
React == Import("react", {"useState"})
Direct == <<React, Export("App", TRUE), Fn("App", TRUE), Hook("useState"),
            Element("Card", TRUE, {"title"}), FnEnd>>
Nested == <<React, Import("react", {"useRef"}), Arrow("App", TRUE), Arrow("load", FALSE),
            Hook("useState"), FnEnd, Element("Card", TRUE, {}), FnEnd, ExportDefault("App")>>
Inline == <<React, Fn("App", TRUE), Callback, Hook("useEffect"), CallbackEnd, FnEnd>>
Card == <<Export("Card", TRUE), Fn("Card", TRUE), FnEnd, Arrow("util", FALSE),
          Element("div", FALSE, {}), FnEnd>>
Routes == <<Import("react-router-dom", {"Route"}), Fn("App", TRUE), Element("Route", TRUE, {}),
            FnEnd>>
SourcesMC == {{Direct, Card}, {Nested, Inline, Routes, <<>>}}

IncludesMC == {<<"react-router-dom", "react-router">>, <<"react-router-dom", "react">>}

ExpectedMC == {[kind |-> "hook", name |-> "useState", top |-> TRUE],
               [kind |-> "render", name |-> "Card", parent |-> "App"]}
=============================================================================
