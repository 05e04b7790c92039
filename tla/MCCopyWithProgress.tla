------------------------ MODULE MCCopyWithProgress ------------------------
(* Small instances of CopyWithProgress for TLC. *)
EXTENDS CopyWithProgress

\* Sources of none to four different units, with a buffer of two.
UpToFour == {[i \in 1..k |-> i] : k \in 0..4}
=============================================================================
