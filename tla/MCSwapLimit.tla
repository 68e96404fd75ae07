---------------------------- MODULE MCSwapLimit -----------------------------
(* Small instances of SwapLimit for TLC: the trades that are made. *)
EXTENDS SwapLimit

CONSTANTS a, b

Trades(dec, inc, out, in) ==
    {[obj |-> o, dec |-> dec, inc |-> inc, out |-> out, in |-> in] : o \in Objects}

(* One key for the other, one for itself, and the way back, in amounts     *)
(* that differ.                                                            *)
Mixed == Trades(a, b, 2, 1) \cup Trades(b, b, 1, 2) \cup Trades(b, a, 2, 2)

(* Every pair of keys. *)
Small ==
    UNION {Trades(d, i, n, 1) : d \in Keys, i \in Keys, n \in {1, 2}}
=============================================================================
