---------------------------- MODULE MCVideoUpload ---------------------------
(***************************************************************************)
(* A small instance of VideoUpload: two chunks, two ids, one queue item.   *)
(***************************************************************************)
EXTENDS VideoUpload, TLC

CONSTANTS m1, m2, item

Ids == {m1, m2}
Items == {item}
TwoChunks == {1, 2}
Same == Permutations(Ids)
=============================================================================
