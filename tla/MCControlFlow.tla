----------------------------- MODULE MCControlFlow -----------------------------
(* Small programs for ControlFlow.  Node ids are short.                        *)
EXTENDS ControlFlow

a == Act("a", None, FALSE)
b == Act("b", None, FALSE)
c == Act("c", None, FALSE)
Undone(id) == Act(id, None, TRUE)

\* What the compiler emits, and race and try as graphs are written by hand.
Programs ==
    [branch |-> <<If("if", <<a>>, <<Data("d")>>), Match("sw", <<<<b>>, <<>>>>, <<Check("k")>>)>>,
     repeat |-> <<For("for", 2, 3, <<a, Data("d")>>), b>>,
     capped |-> <<For("for", 3, 2, <<a>>)>>,
     poll |-> <<While("w", 2, <<a>>), b>>,
     fan |-> <<Parallel("par", "join", "all", <<<<a, b>>, <<If("if", <<c>>, <<Data("d")>>)>>>>)>>,
     any |-> <<Parallel("par", "join", "any", <<<<a>>, <<b>>>>), c>>,
     race |-> <<Race("race", TRUE, "first_success", <<<<a>>, <<b>>>>), c>>,
     guarded |-> <<Try("try", TRUE, <<a>>, <<b>>, <<c>>), Data("d")>>,
     cleanup |-> <<Try("try", TRUE, <<a>>, <<>>, <<c>>)>>,
     rescue |-> <<Try("try", TRUE, <<a>>, <<b>>, <<>>)>>,
     saga |-> <<Undone("a"), Undone("b"), Act("c", "fail", FALSE)>>,
     sagas |-> <<For("for", 2, 2, <<Undone("a")>>), Fail("x")>>]

\* `try { a } catch { b } finally { c }` as the compiler lowers it.
WdlTry == [try |-> <<Try("try", FALSE, <<a>>, <<b>>, <<c>>)>>]

\* The loop of packs/sdlc/wdl/sdlc-deploy.wdl: for each ticket, deploy in parallel.
DeployScan ==
    [deploy |-> <<For("tickets", 2, 2, <<a, Parallel("par", "join", "all", <<<<b>>, <<c>>>>)>>)>>]
===============================================================================
