---------------------------- MODULE MCHeaderChain ----------------------------
(* A small universe of headers for HeaderChain: two valid branches a and b  *)
(* that tie at height 1, a heavier block <<a, c>>, and headers that fail    *)
(* one check each.                                                          *)
EXTENDS HeaderChain

MCLabel == {"a", "b", "c", "x", "y"}
MCHeader ==
  { << >>, <<"a">>, <<"a", "a">>, <<"a", "c">>, <<"b">>, <<"b", "b">>,
    <<"b", "b", "b">>, <<"x">>, <<"y">>, <<"x", "a">> }
MCValidBits == MCHeader \ {<<"x">>}
MCValidPow == MCHeader \ {<<"y">>}
MCWork == [h \in MCHeader |-> IF h = <<"a", "c">> THEN 2 ELSE 1]

(* Any batch of at most three headers, duplicates and mixed branches        *)
(* included.                                                                *)
UpTo(n) == UNION {[1 .. k -> MCHeader] : k \in 1 .. n}
MCBatches == UpTo(2) \cup {<<h, i, j>> : h \in {<<"a">>, <<"b">>, << >>},
  i \in {<<"a">>, <<"b">>, <<"b", "b">>, <<"a", "a">>},
  j \in {<<"a", "c">>, <<"b", "b">>, <<"b", "b", "b">>, <<"x", "a">>}}

AllFaults == {"crash", "storage", "read"}
=============================================================================
