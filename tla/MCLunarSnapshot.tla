-------------------------- MODULE MCLunarSnapshot ---------------------------
(* Small instances of LunarSnapshot for TLC: a chain of two blocks whose   *)
(* second one can be replaced, and back.  Two callers share the cache, for *)
(* the same pool or for two; or they refresh pool r without it.            *)
EXTENDS LunarSnapshot

CONSTANTS c1, c2, p, q, r, a, b

MCChains == {<<a>>, <<a, a>>, <<a, b>>}

MCOwners == {[c \in Callers |-> IF c = c1 THEN x ELSE y] :
                <<x, y>> \in {<<p, p>>, <<p, q>>, <<r, r>>}}

Poll(c, x, m) == [caller |-> c, pool |-> x, mode |-> m, logs |-> {}, headers |-> {}]

MCCalls ==
    {Poll(c, x, "cached") : c \in Callers, x \in {p, q}}
      \cup {Poll(c1, r, "override"), Poll(c2, r, "single"),
            [Poll(c2, r, "single") EXCEPT !.headers = {2}],
            [Poll(c1, r, "override") EXCEPT
                !.logs = {[number |-> 1, pool |-> r, removed |-> FALSE],
                          [number |-> 2, pool |-> r, removed |-> TRUE],
                          [number |-> 2, pool |-> q, removed |-> FALSE]}]}
=============================================================================
