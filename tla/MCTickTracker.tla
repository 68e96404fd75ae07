--------------------------- MODULE MCTickTracker ----------------------------
(* Small instances of TickTracker for TLC: two ranges that share their     *)
(* lower tick.                                                             *)
EXTENDS TickTracker

MCRanges == {<<1, 2>>, <<1, 3>>}

MCEvent == [range : MCRanges, delta : {1, -1}] \cup {[range |-> <<1, 2>>, delta |-> 0]}
=============================================================================
