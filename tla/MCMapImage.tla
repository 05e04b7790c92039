----------------------------- MODULE MCMapImage -----------------------------
(* Small instances of MapImage for TLC. *)
EXTENDS MapImage

\* Three partitions, as p1, p2, p3 and as p1, p10, p2 are listed.
LikeAndUnlikeNumbers == {<<1, 2, 3>>, <<1, 3, 2>>}
=============================================================================
