----------------------------- MODULE MCNemoFeed -----------------------------
(* Small instances of NemoFeed for TLC: the settings written over time. *)
EXTENDS NemoFeed

S(t, b) == [token |-> t, buffer |-> b]

(* The token rotates, then the buffer, and the fourth write goes back to   *)
(* the settings of the first.                                              *)
Rotations == <<S("t1", 1), S("t2", 1), S("t2", 2), S("t1", 1)>>
=============================================================================
