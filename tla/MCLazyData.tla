----------------------------- MODULE MCLazyData -----------------------------
(* TLC instance of LazyData.                                               *)
EXTENDS LazyData

CONSTANTS p1, p2

\* Two words of block 1 and one of block 2.
MCBlockOf == [l \in Loc |-> IF l = "c" THEN 2 ELSE 1]

\* The threads write different words of block 1, and thread p2 writes two
\* blocks, one of which p1 loads.
MCLoads == {<<p1, "c">>, <<p2, "a">>}
MCStores == {<<p1, "a", 1>>, <<p2, "b", 1>>, <<p2, "c", 1>>}
MCOutsideStores == {<<p1, "b", 2>>}
=============================================================================
