--------------------------- MODULE MCQueryJobStore ---------------------------
(***************************************************************************)
(* A small instance of QueryJobStore: a prompt and its Retry.              *)
(***************************************************************************)
EXTENDS QueryJobStore

Prompt(c, g, s) == [client |-> c, gen |-> g, session |-> s]

\* A prompt and its Retry, which may arrive in either order and be sent twice.
PromptAndRetry == {Prompt("c1", 1, "s1"), Prompt("c1", 2, "s1")}
=============================================================================
