--------------------------- MODULE MCAbortHandler ---------------------------
(* Instances of AbortHandler for TLC.                                      *)
EXTENDS AbortHandler

\* The first thread enters two critical sections, the others one.
MCSections == [t \in Thread |-> IF t = 1 THEN 2 ELSE 1]

\* Every library with control of its own.
AllHandlers == {"sgl", "fallbacklock", "fallbacklock2phase", "powertm"}
=============================================================================
