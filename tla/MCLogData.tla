---------------------------- MODULE MCLogData ----------------------------
(***************************************************************************)
(* LogData for TLC.                                                        *)
(***************************************************************************)
EXTENDS LogData

CONSTANTS x, y  \* the blocks

MCMaxOutstanding == [p \in Proc |-> IF p = 1 THEN 3 ELSE 4]
MCLoads == {<<1, y>>, <<2, x>>}
MCStores == {<<1, x, 1>>, <<2, x, 2>>, <<2, y, 1>>}
MCOutsideStores == {<<2, x, 3>>}
=============================================================================
