---------------------------- MODULE MCLimitOrder ----------------------------
(***************************************************************************)
(* Four orders of two makers: o1 and o2 in one listing, o3 giving the same *)
(* asset of the maker of o1 in another pool, o4 the way back.  o1 and the  *)
(* old orders of the second maker are partly filled when the book is read. *)
(* Fees, and whether the order of the second maker is an old one or is     *)
(* reserved for another sender, vary.                                      *)
(***************************************************************************)
EXTENDS LimitOrder, TLC

CONSTANTS o1, o2, o3, o4, m1, m2, a, b, c, s1, s2

MCRanking == <<o1, o2, o3, o4>>

Plain(maker, give, get, making, taking, available, allowance) ==
    [maker |-> maker, give |-> give, get |-> get, making |-> making, taking |-> taking,
     filledMaking |-> 0, filledTaking |-> 0,
     available |-> available, allowance |-> allowance,
     fee |-> 0, takerFee |-> FALSE, sender |-> None]

PartlyFilled(d, making, taking) == [d EXCEPT !.filledMaking = making, !.filledTaking = taking]

Fees(d) == {d, [d EXCEPT !.fee = 1], [d EXCEPT !.fee = 1, !.takerFee = TRUE]}

Second ==
    Fees(Plain(m1, a, b, 3, 2, 3, 5)) \cup
    Fees(PartlyFilled(Plain(m2, a, b, 4, 5, None, None), 1, 2)) \cup
    {[Plain(m2, a, b, 3, 3, 2, 2) EXCEPT !.sender = s2]}

MCBooks ==
    {o1 :> first @@ o2 :> second @@ o3 :> Plain(m1, a, c, 4, 2, 4, 5)
                 @@ o4 :> Plain(m1, b, a, 2, 3, 2, 2) :
       first \in Fees(PartlyFilled(Plain(m1, a, b, 4, 2, 3, 5), 1, 1)), second \in Second}
=============================================================================
