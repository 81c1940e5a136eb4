-------------------------- MODULE MCThreadTurnQueue --------------------------
(***************************************************************************)
(* Small instances of ThreadTurnQueue: one turn, which an older build may  *)
(* have left, and two, of which one may be sent again as the other.        *)
(***************************************************************************)
EXTENDS ThreadTurnQueue, TLC

CONSTANTS first, second, none

TwoKeys == {first, second}
OneKey == {first}

Same == Permutations(TwoKeys)
=============================================================================
