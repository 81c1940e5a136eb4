------------------------ MODULE MCQueryJobCoordinator ------------------------
(***************************************************************************)
(* Small instances of QueryJobCoordinator.                                 *)
(***************************************************************************)
EXTENDS QueryJobCoordinator

Prompt(c, g, s) == [client |-> c, gen |-> g, session |-> s]

\* One prompt.
OnePrompt == {Prompt("c1", 1, "s1")}

\* Two prompts of one conversation.
TwoPrompts == {Prompt("c1", 1, "s1"), Prompt("c2", 1, "s1")}
=============================================================================
