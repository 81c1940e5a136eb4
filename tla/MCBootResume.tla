----------------------------- MODULE MCBootResume -----------------------------
(***************************************************************************)
(* A small instance of BootResume: a meeting finalization, which has a      *)
(* second chance, and a prompt, which has none.                            *)
(***************************************************************************)
EXTENDS BootResume

CONSTANTS meeting, prompt

TwoItems == {meeting, prompt}
Meetings == {meeting}
=============================================================================
