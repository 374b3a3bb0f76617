------------------------------ MODULE LogData ------------------------------
(***************************************************************************)
(* The data of LogTM.  A transaction stores in place.  Its first store to  *)
(* a block waits until the block's old value and address are in the undo   *)
(* log, two stores of their own that complete in any order.  After an      *)
(* abort the CPU's handler walks the log backwards and restores each block *)
(* with an ordinary store, while the write set keeps the blocks isolated.  *)
(*                                                                         *)
(* The log is memory, laid out by LogLayout: a word keeps what an earlier  *)
(* transaction left in it until it is written again.  StallConflict        *)
(* decides who is nacked and who aborts; every step here is one of its     *)
(* steps or leaves its variables unchanged.                                *)
(***************************************************************************)
EXTENDS StallConflict, LogLayout

CONSTANTS Val, InitVal,
          MaxOutstanding, \* m_max_outstanding_requests of each core's sequencer
          Loads,          \* the workload: <<core, block>>
          Stores,         \* <<core, block, value>>
          OutsideStores   \* <<core, block, value>>

ASSUME LogAssumption ==
  /\ LazyVM = {FALSE} /\ Kinds = {"GETS", "GETX"} /\ IsFiniteSet(Addr)
  /\ MaxOutstanding \in [Proc -> Nat]
ASSUME ValAssumption == InitVal \in Val /\ None \notin Val /\ None \notin Addr
ASSUME WorkloadAssumption ==
  /\ Loads \subseteq Proc \X Addr
  /\ Stores \subseteq Proc \X Addr \X Val
  /\ OutsideStores \subseteq Proc \X Addr \X Val

VARIABLES
  mem,            \* contents of each block
  log,            \* words of each core's log, in memory
  logNumEntries,  \* m_logNumEntries
  logReq,         \* m_logRequestTable: the log stores a store waits for
  logSize,        \* the handler's entries still to restore: log_size + 1
  data_log_ptr,   \* of the handler
  addr_log_ptr,   \* of the handler
  loaded,         \* values the transaction has loaded
  stored,         \* values it has stored
  outcome         \* how the latest transaction ended

unrollVars == <<logSize, data_log_ptr, addr_log_ptr>>
undoVars == <<log, logNumEntries, logReq, unrollVars>>
txVars == <<loaded, stored, outcome>>
dataVars == <<mem, undoVars, txVars>>

NoBlocks == [a \in Addr |-> None]

Index == 0 .. LogEntries - 1
LogWords == 0 .. MAX_LOG_SIZE_PAGES * LOG_PAGE_SIZE - 1

\* left: the log stores that have not completed.
LogRequests == [index : Index, old : Val, left : SUBSET {"addr", "data"}]

ASSUME NoLogRequestAssumption == None \notin LogRequests

DataTypeOK ==
  /\ mem \in [Addr -> Val]
  /\ log \in [Proc -> [LogWords -> Addr \cup Val \cup {None}]]
  /\ logNumEntries \in [Proc -> 0..LogEntries]
  /\ logReq \in [Proc -> [Addr -> {None} \cup LogRequests]]
  /\ logSize \in [Proc -> 0..LogEntries]
  /\ data_log_ptr \in [Proc -> LogWords] /\ addr_log_ptr \in [Proc -> LogWords]
  /\ loaded \in [Proc -> [Addr -> Val \cup {None}]]
  /\ stored \in [Proc -> [Addr -> Val \cup {None}]]
  /\ outcome \in [Proc -> {"idle", "committed", "aborted"}]

DataInit ==
  /\ Init
  /\ mem = [a \in Addr |-> InitVal]
  /\ log = [p \in Proc |-> [w \in LogWords |-> None]]
  /\ logNumEntries = [p \in Proc |-> 0]
  /\ logReq = [p \in Proc |-> NoBlocks]
  /\ logSize = [p \in Proc |-> 0]
  /\ data_log_ptr = [p \in Proc |-> 0] /\ addr_log_ptr = [p \in Proc |-> 0]
  /\ loaded = [p \in Proc |-> NoBlocks] /\ stored = [p \in Proc |-> NoBlocks]
  /\ outcome = [p \in Proc |-> "idle"]

-----------------------------------------------------------------------------
(* Outstanding requests: a store that will be logged keeps two more        *)
(* entries for its log packets.                                            *)

\* A store stays outstanding until its log stores have completed.
outstanding_count(p) ==
  Cardinality({a \in Addr : req[p][a] # None \/ logReq[p][a] # None})
  + Cardinality({s \in Addr \X {"addr", "data"} :
                   logReq[p][s[1]] # None /\ s[2] \in logReq[p][s[1]].left})

pendingLogging(p) ==
  {a \in Addr : req[p][a] # None /\ req[p][a].kind = "GETX" /\ req[p][a].trans}

\* Entries that a store reserves for its log packets.
logReservation_None == 0

logReservation == 2

\* extra: entries that the request needs beyond its own and those reserved.
canMakeRequest(p, extra) ==
  outstanding_count(p) + logReservation * Cardinality(pendingLogging(p)) + extra
    < MaxOutstanding[p]

\* The two log packets use the entries that their store has reserved.
makeLogRequests(p) ==
  canMakeRequest(p, -logReservation) /\ canMakeRequest(p, 1 - logReservation)

-----------------------------------------------------------------------------
(* Accesses                                                                *)

\* Stores whose log stores are under way are not complete.
storesDone_Always(p) == TRUE

storesDone(p) == \A a \in Addr : logReq[p][a] = None

issueLoad(p, a) ==
  /\ <<p, a>> \in Loads /\ issueRequest(p, a, "GETS") /\ canMakeRequest(p, 0)
  /\ UNCHANGED dataVars

\* Total store order: one store at a time.
issueStore(p, a) ==
  /\ \E v \in Val : <<p, a, v>> \in Stores
  /\ storesDone(p)
  /\ \A b \in Addr : req[p][b] # None => req[p][b].kind = "GETS"
  /\ issueRequest(p, a, "GETX") /\ canMakeRequest(p, logReservation)
  /\ UNCHANGED dataVars

issueOutside(p, a) ==
  /\ \E v \in Val : <<p, a, v>> \in OutsideStores
  /\ issueNonTransactional(p, a, "GETX") /\ canMakeRequest(p, 0)
  /\ UNCHANGED dataVars

\* A load that has failed or that belongs to an earlier transaction is lost.
loadCallback(p, a) ==
  /\ receiveData(p, a) /\ req[p][a].kind = "GETS"
  /\ loaded' = IF a \in readSet'[p] THEN [loaded EXCEPT ![p][a] = mem[a]]
               ELSE loaded
  /\ UNCHANGED <<mem, undoVars, stored, outcome>>

addLogEntry_Last(p) == IF logNumEntries[p] = 0 THEN 0 ELSE logNumEntries[p] - 1

addLogEntry(p) == logNumEntries[p]

\* The two log packets leave; the old value travels in one of them.  A panic
\* stops the simulator if they cannot.
logTransactionalStores(p, a) ==
  /\ receiveData(p, a) /\ req[p][a].kind = "GETX" /\ req[p][a].trans
  /\ logNumEntries[p] < LogEntries /\ makeLogRequests(p)
  /\ logNumEntries' = [logNumEntries EXCEPT ![p] = @ + 1]
  /\ logReq' = [logReq EXCEPT ![p][a] =
       [index |-> addLogEntry(p), old |-> mem[a], left |-> {"addr", "data"}]]
  /\ UNCHANGED <<mem, log, unrollVars, txVars>>

\* One of the log stores completes; the program's store follows the second.
handleStoresToLog(p, a, part) ==
  LET r == logReq[p][a]
      logDataPtr == data_log_pointer(r.index)
  IN /\ r # None /\ part \in r.left
     /\ log' = IF part = "addr"
               THEN [log EXCEPT ![p][addr_ptr_from_data_ptr(logDataPtr)] = a]
               ELSE [log EXCEPT ![p] =
                 [w \in LogWords |-> IF w \in DataWords(logDataPtr) THEN r.old
                                     ELSE @[w]]]
     /\ IF r.left = {part}
        THEN \E v \in Val :
               /\ <<p, a, v>> \in Stores
               /\ mem' = [mem EXCEPT ![a] = v]
               /\ stored' = [stored EXCEPT ![p][a] = v]
               /\ logReq' = [logReq EXCEPT ![p][a] = None]
        ELSE /\ logReq' = [logReq EXCEPT ![p][a].left = @ \ {part}]
             /\ UNCHANGED <<mem, stored>>
     /\ UNCHANGED <<vars, logNumEntries, unrollVars, loaded, outcome>>
     /\ ~assertFailed

\* A store to a block of the write set needs no log entry.
storeHit(p, a, v) ==
  /\ inTx[p] /\ ~isDoomed(p) /\ ~assertFailed
  /\ a \in writeSet[p] /\ <<p, a, v>> \in Stores
  /\ storesDone(p)
  /\ \A b \in Addr : req[p][b] # None => req[p][b].kind = "GETS"
  /\ mem' = [mem EXCEPT ![a] = v]
  /\ stored' = [stored EXCEPT ![p][a] = v]
  /\ UNCHANGED <<vars, undoVars, loaded, outcome>>

outsideStore(p, a, v) ==
  /\ <<p, a, v>> \in OutsideStores
  /\ receiveData(p, a) /\ ~req[p][a].trans /\ ~unrolling[p]
  /\ mem' = [mem EXCEPT ![a] = v]
  /\ UNCHANGED <<undoVars, txVars>>

-----------------------------------------------------------------------------
(* Commit, abort and log unroll                                            *)

\* A commit and an abort wait for the stores of the CPU.
commit(p) ==
  /\ commitTransaction(p) /\ storesDone(p)
  /\ logNumEntries' = [logNumEntries EXCEPT ![p] = 0]
  /\ loaded' = [loaded EXCEPT ![p] = NoBlocks]
  /\ stored' = [stored EXCEPT ![p] = NoBlocks]
  /\ outcome' = [outcome EXCEPT ![p] = "committed"]
  /\ UNCHANGED <<mem, log, logReq, unrollVars>>

\* The abort status tells the handler the size of the log; its pointers start
\* at the last entry.
lastEntry_NextFree(p) == logNumEntries[p] % LogEntries

lastEntry(p) == logNumEntries[p] - 1

abort(p) ==
  /\ abortTransaction(p) /\ storesDone(p)
  /\ logSize' = [logSize EXCEPT ![p] = logNumEntries[p]]
  /\ IF logNumEntries[p] = 0 THEN UNCHANGED <<data_log_ptr, addr_log_ptr>>
     ELSE /\ data_log_ptr' =
               [data_log_ptr EXCEPT ![p] = data_log_pointer(lastEntry(p))]
          /\ addr_log_ptr' =
               [addr_log_ptr EXCEPT ![p] = addr_log_pointer(lastEntry(p))]
  /\ loaded' = [loaded EXCEPT ![p] = NoBlocks]
  /\ stored' = [stored EXCEPT ![p] = NoBlocks]
  /\ outcome' = [outcome EXCEPT ![p] = "aborted"]
  /\ UNCHANGED <<mem, log, logNumEntries, logReq>>

logtm_log_unroll(p) ==
  /\ logSize[p] > 0 /\ canMakeRequest(p, 0)
  /\ issueRestore(p, log[p][addr_log_ptr[p]])
  /\ UNCHANGED dataVars

\* The block is restored and the pointers move to the entry before.
restored(p, a) ==
  LET n == logSize[p] - 1
  IN /\ receiveData(p, a) /\ ~req[p][a].trans /\ unrolling[p]
     /\ mem' = [mem EXCEPT ![a] = log[p][data_log_ptr[p]]]
     /\ logSize' = [logSize EXCEPT ![p] = n]
     /\ data_log_ptr' = [data_log_ptr EXCEPT ![p] =
          IF n = 0 THEN 0 ELSE previousData(n, @)]
     /\ addr_log_ptr' = [addr_log_ptr EXCEPT ![p] =
          IF n = 0 THEN 0 ELSE previousAddr(n, data_log_ptr[p], @)]
     /\ UNCHANGED <<log, logNumEntries, logReq, txVars>>

\* The handler signals the end of the unroll.
simEndLogUnroll(p) ==
  /\ logSize[p] = 0 /\ endLogUnroll(p)
  /\ logNumEntries' = [logNumEntries EXCEPT ![p] = 0]
  /\ UNCHANGED <<mem, log, logReq, unrollVars, txVars>>

\* Steps of the conflict manager that touch no data.
ControlStep(p) ==
  /\ \/ beginTransaction(p)
     \/ \E a \in Addr : \/ serveRequest(p, a) \/ answer(p, a)
                        \/ receiveNack(p, a) \/ xactReplacement(p, a)
  /\ UNCHANGED dataVars

DataStep(p) ==
  \/ ControlStep(p)
  \/ commit(p) \/ abort(p)
  \/ logtm_log_unroll(p) \/ simEndLogUnroll(p)
  \/ \E a \in Addr :
       \/ issueLoad(p, a) \/ issueStore(p, a) \/ issueOutside(p, a)
       \/ loadCallback(p, a) \/ logTransactionalStores(p, a)
       \/ \E part \in {"addr", "data"} : handleStoresToLog(p, a, part)
       \/ \E v \in Val : storeHit(p, a, v) \/ outsideStore(p, a, v)
       \/ restored(p, a)

DataNext == \E p \in Proc : DataStep(p)

DataSpec == DataInit /\ [][DataNext]_<<vars, dataVars>>

-----------------------------------------------------------------------------
(* Refinement                                                              *)

\* Entry i of core p's log is the old value of a block that p has stored to.
InUse(p, i) ==
  /\ i < IF unrolling[p] THEN logSize[p] ELSE logNumEntries[p]
  /\ \A a \in Addr : logReq[p][a] # None => logReq[p][a].index # i

Logged(a) ==
  {e \in Proc \X Index : /\ log[e[1]][addr_log_pointer(e[2])] = a
                         /\ InUse(e[1], e[2])}

\* The committed value of a block is its contents, unless the block's old
\* value is in a log.
txMem ==
  [a \in Addr |-> LET old == Logged(a)
                  IN IF old = {} THEN mem[a]
                     ELSE LET e == CHOOSE e \in old : TRUE
                          IN log[e[1]][data_log_pointer(e[2])]]

\* A doomed transaction counts as aborted.
Live(p) == inTx[p] /\ ~isDoomed(p)

txStatus ==
  [p \in Proc |-> IF Live(p) THEN "running"
                  ELSE IF inTx[p] THEN "aborted" ELSE outcome[p]]

txReads == [p \in Proc |-> IF Live(p) THEN loaded[p] ELSE NoBlocks]
txWrites == [p \in Proc |-> IF Live(p) THEN stored[p] ELSE NoBlocks]

A == INSTANCE AtomicTM WITH
       mem <- txMem, status <- txStatus, reads <- txReads, writes <- txWrites,
       OutsideStores <- {<<o[2], o[3]>> : o \in OutsideStores}

\* As long as no assertion stops it, LogTM is an atomic transactional memory:
\* a commit publishes every store at once and only if the values it has read
\* are current, an abort leaves no trace after the log has been unrolled, and
\* nobody sees the blocks in between (logTransactionalStores, handleStoresToLog,
\* logtm_log_unroll).
AtomicTransactions == A!Spec

\* The log of a transaction that has no store under way holds every block of
\* its write set, once, and the handler walks exactly the blocks that are not
\* restored yet (abortTransaction compares the two sizes and tolerates one more
\* entry, "assert(wsetsize+1 == logsize)": that entry never occurs).
LogExact ==
  \A p \in Proc : inTx[p] /\ storesDone(p) =>
    LET Addrs(size) == {log[p][addr_log_pointer(i)] : i \in 0 .. size - 1}
    IN /\ logNumEntries[p] = Cardinality(writeSet[p])
       /\ Addrs(logNumEntries[p]) = writeSet[p]
       /\ unrolling[p] => toRestore[p] = Addrs(logSize[p])

\* When the block of a store arrives, its two log packets can be issued: the
\* panic "Cannot make log requests!" is out of reach, whatever loads, of this
\* transaction or lingering from an earlier one, share the sequencer
\* (canMakeRequest reserves two entries for each pending store).
LogRequestsIssue ==
  \A p \in Proc, a \in Addr :
    Answered(p, a) /\ busy[a].eldest = None /\ a \in pendingLogging(p)
      => makeLogRequests(p)
=============================================================================
