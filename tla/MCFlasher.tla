----------------------------- MODULE MCFlasher -----------------------------
(* Small instances of Flasher for TLC. *)
EXTENDS Flasher

ThreeUnits == <<1, 2, 3>>

AllFaults == {"prepare", "open", "read", "reread", "write", "media", "cancel"}
NoFaults == {}
=============================================================================
