---------------------------- MODULE MCMediaStore ----------------------------
(***************************************************************************)
(* A small instance of MediaStore: a photo and a video, two queue items.   *)
(***************************************************************************)
EXTENDS MediaStore, TLC

CONSTANTS photo, video, q1, q2

PhotoAndVideo == {photo, video}
Videos == {video}
Items == {q1, q2}
Same == Permutations(Items)
=============================================================================
