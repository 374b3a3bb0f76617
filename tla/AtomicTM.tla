------------------------------ MODULE AtomicTM ------------------------------
(***************************************************************************)
(* What a transactional memory promises, whatever its implementation: a    *)
(* transaction collects the values it reads and the values it writes, its  *)
(* writes reach the memory all at once when it commits, and it commits     *)
(* only if every value it has read is the memory's value at that moment.   *)
(*                                                                         *)
(* A read may return any value: a speculative one that another transaction *)
(* has forwarded, for example.  A transaction may be aborted at any time,  *)
(* without a trace in the memory.  LazyData, Chats and LogData are shown   *)
(* to implement this module, and AbortHandler runs on top of it.           *)
(***************************************************************************)
CONSTANTS Proc,     \* hardware threads
          Addr,     \* memory blocks
          Val,      \* values of a block
          None,     \* no value
          InitVal,  \* value of every block at the start
          OutsideStores  \* <<block, value>> stored outside transactions

VARIABLES
  mem,     \* committed value of each block
  status,  \* of each thread's latest transaction
  reads,   \* value of each block the running transaction has read, or None
  writes   \* value of each block it has written, or None

vars == <<mem, status, reads, writes>>

Status == {"idle", "running", "committed", "aborted"}

NoValues == [a \in Addr |-> None]

Running == {p \in Proc : status[p] = "running"}

Init ==
  /\ mem = [a \in Addr |-> InitVal]
  /\ status = [p \in Proc |-> "idle"]
  /\ reads = [p \in Proc |-> NoValues]
  /\ writes = [p \in Proc |-> NoValues]

\* The transactions of the set S end with the outcome s.
End(S, s) ==
  /\ status' = [p \in Proc |-> IF p \in S THEN s ELSE status[p]]
  /\ reads' = [p \in Proc |-> IF p \in S THEN NoValues ELSE reads[p]]
  /\ writes' = [p \in Proc |-> IF p \in S THEN NoValues ELSE writes[p]]

Begin(p) ==
  /\ p \notin Running
  /\ status' = [status EXCEPT ![p] = "running"]
  /\ UNCHANGED <<mem, reads, writes>>

\* The transactions of S, aborted by the conflict, yield to the reader.
Read(p, a, v, S) ==
  /\ p \in Running /\ reads[p][a] = None /\ writes[p][a] = None
  /\ S \subseteq Running \ {p}
  /\ status' = [q \in Proc |-> IF q \in S THEN "aborted" ELSE status[q]]
  /\ reads' = [q \in Proc |-> IF q \in S THEN NoValues
                             ELSE IF q = p THEN [reads[p] EXCEPT ![a] = v]
                             ELSE reads[q]]
  /\ writes' = [q \in Proc |-> IF q \in S THEN NoValues ELSE writes[q]]
  /\ UNCHANGED mem

Write(p, a, v) ==
  /\ p \in Running
  /\ writes' = [writes EXCEPT ![p][a] = v]
  /\ UNCHANGED <<mem, status, reads>>

Commit(p) ==
  /\ p \in Running
  /\ \A a \in Addr : reads[p][a] \in {None, mem[a]}
  /\ mem' = [a \in Addr |-> IF writes[p][a] # None THEN writes[p][a]
                            ELSE mem[a]]
  /\ End({p}, "committed")

Abort(S) ==
  /\ S \subseteq Running
  /\ End(S, "aborted")
  /\ UNCHANGED mem

\* A store outside transactions; the transactions of S yield to it.
StoreOutside(a, v, S) ==
  /\ S \subseteq Running
  /\ mem' = [mem EXCEPT ![a] = v]
  /\ End(S, "aborted")

Next ==
  \/ \E S \in SUBSET Proc : Abort(S)
  \/ \E p \in Proc : Begin(p) \/ Commit(p)
  \/ \E p \in Proc, a \in Addr, v \in Val :
       Write(p, a, v) \/ \E S \in SUBSET Proc : Read(p, a, v, S)
  \/ \E o \in OutsideStores, S \in SUBSET Proc : StoreOutside(o[1], o[2], S)

Spec == Init /\ [][Next]_vars
=============================================================================
