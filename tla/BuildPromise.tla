---------------------------- MODULE BuildPromise ----------------------------
(***************************************************************************)
(* What a build promises its host, whatever its steps are and whatever     *)
(* fails: it takes resources only while it is building and only gives back *)
(* once it has begun to release; it hands out an artifact only when the    *)
(* resources in MustRelease are free.                                      *)
(***************************************************************************)
CONSTANTS Resources, MustRelease

VARIABLES status, held

vars == <<status, held>>

Final == {"artifact", "failed", "crashed"}

Init == status = "building" /\ held = {}

\* A step takes something, or gives it back before the build ends.
Build == status = "building" /\ status' = status /\ held' \in SUBSET Resources

\* The last step has run, or one of them was the last to run.
Turn == status = "building" /\ status' = "releasing" /\ held' = held

Release == status = "releasing" /\ status' = status /\ held' \in SUBSET held

Deliver ==
    /\ status = "releasing" /\ held \cap MustRelease = {}
    /\ status' = "artifact" /\ held' = held

Fail == status = "releasing" /\ status' \in {"failed", "crashed"} /\ held' = held

Next == Build \/ Turn \/ Release \/ Deliver \/ Fail

Spec == Init /\ [][Next]_vars
=============================================================================
