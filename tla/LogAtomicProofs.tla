-------------------------- MODULE LogAtomicProofs --------------------------
(***************************************************************************)
(* LogTM implements an atomic transactional memory under the base policy,  *)
(* for every number of cores, blocks and log pages and any workload.       *)
(***************************************************************************)
EXTENDS LogDataProofs, TLAPS

-----------------------------------------------------------------------------
(* The committed value of a block                                          *)

\* Entry i of core p's log holds the committed value of block a.
Holds(p, i, a) == InUse(p, i) /\ AddrAt(p, i) = a

\* What is proved of the conflict manager and of the log under the base policy.
GInv == policy = "requester_stalls_cda_base" /\ SInv /\ DInv

\* The first entry is entry 0.
LEMMA NoEntryBelow ==
  ASSUME NEW i \in Index
  PROVE  ~(i < 0)
BY EntriesExist DEF Index

\* An entry in use is complete, and its block is in the write set.
LEMMA HoldsKept ==
  ASSUME GInv, NEW p \in Proc, NEW i \in Index, NEW a, Holds(p, i, a)
  PROVE  i \in Kept(p) /\ a \in writeSet[p] /\ logReq[p][a] = None
<1>1. /\ logSize[p] \in Int /\ logNumEntries[p] \in Int /\ i \in Int
      /\ unrolling[p] => logSize[p] <= logNumEntries[p]
  BY EntriesExist
  DEF GInv, DInv, DataTypeOK, CoreInv, LogInv, UnrollPosition, Index
<1>2. i < logNumEntries[p]
  BY <1>1 DEF Holds, InUse
<1>3. i \in Kept(p)
  BY Zenon, <1>2 DEF Kept, Holds, InUse
<1> QED
  BY Zenon, <1>3 DEF GInv, DInv, CoreInv, LogInv, Entries, Holds

\* At most one entry of all logs holds the value of a block.
LEMMA OneHolder ==
  ASSUME GInv, NEW p \in Proc, NEW q \in Proc, NEW i \in Index, NEW j \in Index,
         NEW a, Holds(p, i, a), Holds(q, j, a)
  PROVE  p = q /\ i = j
<1>1. /\ i \in Kept(p) /\ a \in writeSet[p] /\ j \in Kept(q) /\ a \in writeSet[q]
  BY Zenon, HoldsKept
<1>2. p = q
  BY Zenon, <1>1, LogControl DEF GInv, SInv, LogDisjoint
<1> QED
  BY Zenon, <1>1, <1>2 DEF GInv, DInv, CoreInv, LogInv, Entries, Holds

\* The committed value of a block is the one that an entry holds, and the
\* contents of the block if none does.
CommittedValues ==
  \A a \in Addr :
    /\ \A p \in Proc, i \in Index : Holds(p, i, a) => txMem[a] = DataAt(p, i)
    /\ (\A p \in Proc, i \in Index : ~Holds(p, i, a)) => txMem[a] = mem[a]

\* At most one entry holds a block, so the choice in txMem is none.
LEMMA CommittedValue == GInv => CommittedValues
<1> SUFFICES ASSUME GInv, NEW a \in Addr
             PROVE  /\ \A p \in Proc, i \in Index :
                         Holds(p, i, a) => txMem[a] = DataAt(p, i)
                    /\ (\A p \in Proc, i \in Index : ~Holds(p, i, a))
                         => txMem[a] = mem[a]
  BY Zenon DEF CommittedValues
<1> DEFINE old == Logged(a)
           e == CHOOSE e \in old : TRUE
<1>1. txMem[a] = IF old = {} THEN mem[a] ELSE log[e[1]][data_log_pointer(e[2])]
  BY Zenon DEF txMem
<1>2. \A d : d \in old <=> d \in Proc \X Index /\ Holds(d[1], d[2], a)
  BY Zenon DEF Logged, Holds, AddrAt
<1>3. (\A p \in Proc, i \in Index : ~Holds(p, i, a)) => old = {}
  BY <1>2
<1>4. ASSUME NEW p \in Proc, NEW i \in Index, Holds(p, i, a)
      PROVE  txMem[a] = DataAt(p, i)
  <2>1. <<p, i>> \in old
    BY Zenon, <1>2, <1>4
  <2>2. e \in old
    BY Zenon, <2>1
  <2>3. e[1] \in Proc /\ e[2] \in Index /\ Holds(e[1], e[2], a)
    BY <1>2, <2>2
  <2> HIDE DEF old, e
  <2>4. e[1] = p /\ e[2] = i
    BY <1>4, <2>3, OneHolder
  <2> QED
    BY Zenon, <1>1, <2>1, <2>4 DEF DataAt
<1> QED
  BY Zenon, <1>1, <1>3, <1>4

\* A step of core p that leaves the holder of a block alone, or its contents if
\* it has none, leaves its committed value alone.
LEMMA ValueStands ==
  ASSUME GInv, GInv', NEW p \in Proc, DataStep(p), NEW a \in Addr,
         \A i \in Index : /\ Holds(p, i, a)' <=> Holds(p, i, a)
                          /\ Holds(p, i, a) => DataAt(p, i)' = DataAt(p, i),
         (\A q \in Proc, i \in Index : ~Holds(q, i, a)) => mem'[a] = mem[a]
  PROVE  txMem'[a] = txMem[a]
<1>1. \A q \in Proc, i \in Index :
        /\ Holds(q, i, a)' <=> Holds(q, i, a)
        /\ Holds(q, i, a) => DataAt(q, i)' = DataAt(q, i)
  <2> SUFFICES ASSUME NEW q \in Proc, q # p, NEW i \in Index
               PROVE  /\ Holds(q, i, a)' <=> Holds(q, i, a)
                      /\ DataAt(q, i)' = DataAt(q, i)
    OBVIOUS
  <2>1. ControlStands(q) /\ DataStands(q)
    BY Zenon, OthersStand DEF GInv, SInv, DInv
  <2> QED
    BY <2>1 DEF Holds, InUse, AddrAt, DataAt, ControlStands, DataStands
<1>2. CommittedValues /\ CommittedValues'
  BY CommittedValue, PTL
<1>3. CASE \E q \in Proc, i \in Index : Holds(q, i, a)
  <2>1. PICK q \in Proc, i \in Index : Holds(q, i, a)
    BY Zenon, <1>3
  <2>2. txMem[a] = DataAt(q, i)
    BY Zenon, <1>2, <2>1 DEF CommittedValues
  <2>3. txMem'[a] = DataAt(q, i)'
    BY Zenon, <1>1, <1>2, <2>1 DEF CommittedValues
  <2> QED
    BY Zenon, <1>1, <2>1, <2>2, <2>3
<1>4. CASE \A q \in Proc, i \in Index : ~Holds(q, i, a)
  <2>1. txMem[a] = mem[a]
    BY Zenon, <1>2, <1>4 DEF CommittedValues
  <2>2. txMem'[a] = mem'[a]
    BY Zenon, <1>1, <1>2, <1>4 DEF CommittedValues
  <2> QED
    BY Zenon, <1>4, <2>1, <2>2
<1> QED
  BY Zenon, <1>3, <1>4

\* A block that the transaction has stored to is held by its log.
LEMMA WriterHolds ==
  ASSUME GInv, NEW p \in Proc, NEW a \in Addr, ~unrolling[p],
         a \in writeSet[p], logReq[p][a] = None
  PROVE  \E i \in Index : Holds(p, i, a)
<1>1. PICK i \in Kept(p) : AddrAt(p, i) = a
  BY Zenon DEF GInv, DInv, CoreInv, LogInv, Entries
<1>2. i \in Index /\ Holds(p, i, a)
  BY Zenon, <1>1 DEF Kept, Holds, InUse
<1> QED
  BY Zenon, <1>2

\* A block that is in no write set is in no log.
LEMMA NoHolder ==
  ASSUME GInv, NEW a \in Addr, \A q \in Proc : a \notin writeSet[q]
  PROVE  /\ \A q \in Proc, i \in Index : ~Holds(q, i, a)
         /\ txMem[a] = mem[a]
<1>1. \A q \in Proc, i \in Index : ~Holds(q, i, a)
  BY Zenon, HoldsKept
<1> QED
  BY Zenon, <1>1, CommittedValue DEF CommittedValues

\* The committed values are compared block by block.
LEMMA ValuesPointwise ==
  ASSUME \A a \in Addr : txMem'[a] = txMem[a]
  PROVE  txMem' = txMem
<1>1. txMem' = [a \in Addr |-> txMem'[a]]
  BY Zenon DEF txMem
<1>2. txMem = [a \in Addr |-> txMem[a]]
  BY Zenon DEF txMem
<1> QED
  BY Zenon, <1>1, <1>2

\* Steps that touch neither the blocks nor the log.
LEMMA QuietValues ==
  ASSUME UNCHANGED <<mem, log, logNumEntries, logReq, logSize, unrolling>>
  PROVE  txMem' = txMem
BY DEF txMem, Logged, InUse

\* The unroll starts with every entry in use.
LEMMA AbortValues ==
  ASSUME GInv, GInv', NEW p \in Proc, abort(p)
  PROVE  txMem' = txMem
<1>1. /\ ~unrolling[p] /\ log' = log /\ mem' = mem /\ logReq' = logReq
      /\ logNumEntries' = logNumEntries /\ logSize'[p] = logNumEntries[p]
  BY Zenon DEF abort, abortTransaction, GInv, DInv, DataTypeOK
<1>2. ASSUME NEW a \in Addr, NEW i \in Index
      PROVE  (Holds(p, i, a)' <=> Holds(p, i, a)) /\ DataAt(p, i)' = DataAt(p, i)
  BY Zenon, <1>1 DEF Holds, InUse, AddrAt, DataAt
<1>3. DataStep(p)
  BY Zenon DEF DataStep
<1> QED
  BY Zenon, <1>1, <1>2, <1>3, ValueStands, ValuesPointwise

\* It ends when no entry is in use any more.
LEMMA UnrollEndValues ==
  ASSUME GInv, GInv', NEW p \in Proc, simEndLogUnroll(p)
  PROVE  txMem' = txMem
<1>1. /\ unrolling[p] /\ ~unrolling'[p] /\ mem' = mem /\ logSize[p] = 0
      /\ logNumEntries'[p] = 0
  BY DEF simEndLogUnroll, endLogUnroll, GInv, SInv, TypeOK, DInv, DataTypeOK
<1>2. ASSUME NEW a \in Addr, NEW i \in Index
      PROVE  ~Holds(p, i, a) /\ ~Holds(p, i, a)'
  BY <1>1, EntryWords DEF Holds, InUse
<1>3. DataStep(p)
  BY Zenon DEF DataStep
<1> QED
  BY Zenon, <1>1, <1>2, <1>3, ValueStands, ValuesPointwise

\* A new entry does not count until it is complete.
LEMMA StartValues ==
  ASSUME GInv, GInv', NEW p \in Proc, NEW a \in Addr,
         logTransactionalStores(p, a)
  PROVE  txMem' = txMem
<1>0. TypeOK /\ DataTypeOK /\ Serving /\ RequestInv(p)
  BY Zenon DEF GInv, SInv, DInv, CoreInv
<1>1. req[p][a] # None /\ req[p][a].kind = "GETX" /\ req[p][a].trans
  BY Zenon, <1>0 DEF logTransactionalStores, receiveData, Answered, Serving
<1>2. ~unrolling[p] /\ storesDone(p)
  BY Zenon, <1>0, <1>1 DEF RequestInv, StoreRequests
<1>3. PICK n \in Index : n = logNumEntries[p]
  BY <1>0, EntriesExist DEF logTransactionalStores, DataTypeOK, Index
<1>4. /\ unrolling' = unrolling /\ log' = log /\ mem' = mem
      /\ logNumEntries'[p] = n + 1
      /\ \A b \in Addr : b # a => logReq'[p][b] = None
      /\ logReq'[p][a] = [index |-> n, old |-> mem[a], left |-> {"addr", "data"}]
  BY Zenon, <1>0, <1>2, <1>3
  DEF logTransactionalStores, receiveData, addLogEntry, storesDone, DataTypeOK
<1>5. logReq'[p][a] # None /\ logReq'[p][a].index = n
  BY <1>0, <1>3, <1>4, NoLogRequestAssumption DEF LogRequests, DataTypeOK
<1>6. ASSUME NEW i \in Index
      PROVE  InUse(p, i)' <=> InUse(p, i)
  <2>1. i \in Int /\ n \in Int
    BY EntryWords
  <2>2. InUse(p, i) <=> i < n
    BY Zenon, <1>2, <1>3 DEF InUse, storesDone
  <2>3. InUse(p, i)' <=> i < n + 1 /\ i # n
    BY Zenon, <1>2, <1>4, <1>5 DEF InUse
  <2> QED
    BY <2>1, <2>2, <2>3
<1>7. DataStep(p)
  BY Zenon DEF DataStep
<1> QED
  BY Zenon, <1>4, <1>6, <1>7, ValueStands, ValuesPointwise DEF Holds, AddrAt, DataAt

-----------------------------------------------------------------------------
(* The values that transactions load and store                             *)

\* A transaction has stored what is in the blocks of its write set, except
\* where it waits for the log, which takes the block's contents.
StoredValues(p) ==
  \A a \in Addr :
    /\ stored[p][a] # None => a \in writeSet[p] /\ logReq[p][a] = None
    /\ logReq[p][a] # None => logReq[p][a].old = mem[a]
    /\ inTx[p] /\ ~unrolling[p] /\ a \in writeSet[p] /\ logReq[p][a] = None
         => stored[p][a] = mem[a]

\* What a live transaction has loaded is committed.
LoadedValues(p) ==
  \A a \in Addr : loaded[p][a] # None =>
    a \in readSet[p] /\ (Live(p) => loaded[p][a] = txMem[a])

\* A transaction that is being undone has ended.
Undone(p) == unrolling[p] => outcome[p] = "aborted"

ValueInv == \A p \in Proc : StoredValues(p) /\ LoadedValues(p) /\ Undone(p)

\* The second log store makes the entry the holder of the block, with the
\* value that was committed all along.
LEMMA CompleteValues ==
  ASSUME GInv, GInv', ValueInv, NEW p \in Proc, NEW a \in Addr,
         NEW part \in {"addr", "data"}, handleStoresToLog(p, a, part)
  PROVE  txMem' = txMem
<1>0. TypeOK /\ DataTypeOK /\ LogStores(p) /\ DataStep(p)
  BY Zenon DEF GInv, SInv, DInv, CoreInv, LogInv, DataStep
<1>1. /\ logReq[p][a] # None /\ logReq[p][a] \in LogRequests
      /\ part \in logReq[p][a].left
      /\ \A b \in Addr : b # a => logReq'[p][b] = logReq[p][b]
  BY Zenon, <1>0, LogRequestEffect
<1>2. PICK n \in Index : n = logReq[p][a].index /\ n = logNumEntries[p] - 1
  BY Zenon, <1>0, <1>1 DEF LogStores, LogRequests
<1>3. /\ ~unrolling[p] /\ a \in writeSet[p]
      /\ "addr" \notin logReq[p][a].left => AddrAt(p, n) = a
      /\ "data" \notin logReq[p][a].left => DataAt(p, n) = logReq[p][a].old
      /\ \A b \in Addr : b # a => logReq[p][b] = None
  BY Zenon, <1>0, <1>1, <1>2 DEF LogStores
<1>4. EntryWritten(p, a, part, n)
  BY Zenon, <1>0, <1>2, LogWordEffect
<1>5. unrolling' = unrolling /\ logNumEntries' = logNumEntries
  BY Zenon DEF handleStoresToLog, vars, logVars
<1>6. \A i \in Index : InUse(p, i) <=> i < logNumEntries[p] /\ i # n
  BY Zenon, <1>1, <1>2, <1>3 DEF InUse
<1>7. \A i \in Index : i # n =>
        AddrAt(p, i)' = AddrAt(p, i) /\ DataAt(p, i)' = DataAt(p, i)
  BY Zenon, <1>4 DEF EntryWritten
<1>8. CASE LogRequestGoesOn(p, a, part)
  <2>1. /\ logReq'[p][a] # None /\ logReq'[p][a].index = n
        /\ logReq[p][a].left # {part}
    BY Zenon, <1>2, <1>8 DEF LogRequestGoesOn
  <2>2. mem' = mem
    BY Zenon, <2>1 DEF handleStoresToLog
  <2>3. \A i \in Index : InUse(p, i)' <=> i < logNumEntries[p] /\ i # n
    BY Zenon, <1>1, <1>3, <1>5, <2>1 DEF InUse
  <2>4. ASSUME NEW b \in Addr, NEW i \in Index
        PROVE  /\ Holds(p, i, b)' <=> Holds(p, i, b)
               /\ Holds(p, i, b) => DataAt(p, i)' = DataAt(p, i)
    BY Zenon, <1>6, <1>7, <2>3 DEF Holds
  <2> QED
    BY Zenon, <1>0, <2>2, <2>4, ValueStands, ValuesPointwise
<1>9. CASE LogRequestEnds(p, a, part)
  <2>1. logReq'[p][a] = None /\ logReq[p][a].left = {part}
    BY Zenon, <1>9 DEF LogRequestEnds
  <2>2. AddrAt(p, n)' = a /\ DataAt(p, n)' = logReq[p][a].old
    BY Zenon, <1>3, <1>4, <2>1 DEF EntryWritten
  <2>3. \A i \in Index : InUse(p, i)' <=> i < logNumEntries[p]
    BY Zenon, <1>1, <1>3, <1>5, <2>1 DEF InUse
  <2>4. \A b \in Addr : b # a => mem'[b] = mem[b]
    BY Zenon, <1>0, <2>1 DEF handleStoresToLog, DataTypeOK
  <2>5. ASSUME NEW b \in Addr, b # a
        PROVE  txMem'[b] = txMem[b]
    <3>1. ASSUME NEW i \in Index
          PROVE  /\ Holds(p, i, b)' <=> Holds(p, i, b)
                 /\ Holds(p, i, b) => DataAt(p, i)' = DataAt(p, i)
      BY Zenon, <1>6, <1>7, <2>2, <2>3, <2>5 DEF Holds
    <3> QED
      BY Zenon, <1>0, <2>4, <2>5, <3>1, ValueStands
  <2>6. txMem[a] = mem[a]
    <3>1. ASSUME NEW q \in Proc, NEW i \in Index, Holds(q, i, a)
          PROVE  FALSE
      <4>1. a \in writeSet[q] /\ logReq[q][a] = None
        BY Zenon, <3>1, HoldsKept
      <4>2. q # p
        BY Zenon, <1>1, <4>1
      <4> QED
        BY Zenon, <1>0, <1>3, <4>1, <4>2, LogControl DEF GInv, SInv, LogDisjoint
    <3> QED
      BY Zenon, <3>1, CommittedValue DEF CommittedValues
  <2>7. txMem'[a] = logReq[p][a].old
    <3>1. CommittedValues'
      BY CommittedValue, PTL
    <3>2. n < logNumEntries[p]
      BY <1>0, <1>2, EntriesExist DEF DataTypeOK
    <3>3. Holds(p, n, a)'
      BY Zenon, <2>2, <2>3, <3>2 DEF Holds
    <3> QED
      BY Zenon, <2>2, <3>1, <3>3 DEF CommittedValues
  <2>8. txMem'[a] = txMem[a]
    BY Zenon, <1>1, <2>6, <2>7 DEF ValueInv, StoredValues
  <2> QED
    BY Zenon, <2>5, <2>8, ValuesPointwise
<1> QED
  BY Zenon, <1>0, <1>8, <1>9, LogRequestEffect

\* A store in place leaves the value in the log.
LEMMA HitValues ==
  ASSUME GInv, GInv', NEW p \in Proc, NEW a \in Addr, NEW v \in Val,
         storeHit(p, a, v)
  PROVE  txMem' = txMem
<1>1. /\ DataStep(p) /\ DataTypeOK
      /\ UNCHANGED <<log, logNumEntries, logReq, logSize, unrolling>>
  BY Zenon DEF DataStep, storeHit, vars, logVars, undoVars, unrollVars, GInv, DInv
<1>2. \E i \in Index : Holds(p, i, a)
  BY Zenon, WriterHolds DEF storeHit, isDoomed, storesDone
<1>3. \A b \in Addr : b # a => mem'[b] = mem[b]
  BY Zenon, <1>1 DEF storeHit, DataTypeOK
<1>4. ASSUME NEW b \in Addr, NEW i \in Index
      PROVE  (Holds(p, i, b)' <=> Holds(p, i, b)) /\ DataAt(p, i)' = DataAt(p, i)
  BY Zenon, <1>1 DEF Holds, InUse, AddrAt, DataAt
<1> QED
  BY Zenon, <1>1, <1>2, <1>3, <1>4, ValueStands, ValuesPointwise

\* The holders in the logs of the other cores stand.
LEMMA OthersHold ==
  ASSUME GInv, NEW p \in Proc, DataStep(p), NEW q \in Proc, q # p,
         NEW i \in Index, NEW a
  PROVE  Holds(q, i, a)' <=> Holds(q, i, a)
<1>1. ControlStands(q) /\ DataStands(q)
  BY Zenon, OthersStand DEF GInv, SInv, DInv
<1> QED
  BY Zenon, <1>1 DEF Holds, InUse, AddrAt, ControlStands, DataStands

\* When a request is granted, no other core has written the block, and one that
\* has read a block that is stored to is to abort.
LEMMA Granted ==
  ASSUME GInv, NEW p \in Proc, NEW a \in Addr, receiveData(p, a)
  PROVE  /\ req[p][a] # None
         /\ \A q \in Proc : q # p =>
              /\ a \notin writeSet[q]
              /\ req[p][a].kind = "GETX" /\ a \in readSet[q] => abortFlag[q]
<1>1. /\ busy[a] # None /\ busy[a].eldest = None /\ ~assertFailed
      /\ busy[a].proc = p /\ busy[a].waiting = {}
  BY Zenon DEF receiveData, Answered, Running
<1>2. req[p][a] # None
  BY Zenon, <1>1 DEF GInv, SInv, Serving
<1>3. \A q \in Proc : q # p => Yielded(q, a, req[p][a])
  BY Zenon, <1>1 DEF GInv, SInv, AnswersStand
<1>4. ~lazyVM
  BY Zenon, LogControl DEF GInv, SInv
<1> QED
  BY Zenon, <1>2, <1>3, <1>4 DEF Yielded, GInv

\* A store outside transactions is committed at once.
LEMMA OutsideValues ==
  ASSUME GInv, GInv', NEW p \in Proc, NEW a \in Addr, NEW v \in Val,
         outsideStore(p, a, v)
  PROVE  /\ txMem' = [txMem EXCEPT ![a] = v]
         /\ \A q \in Proc : Live(q) => a \notin readSet[q]
<1>0. /\ TypeOK /\ DataTypeOK /\ RequestInv(p) /\ DataStep(p)
      /\ receiveData(p, a) /\ ~req[p][a].trans /\ ~unrolling[p]
  BY Zenon DEF GInv, SInv, DInv, CoreInv, DataStep, outsideStore
<1>1. req[p][a] # None /\ req[p][a].kind = "GETX"
  <2>1. req[p][a] # None
    BY Zenon, <1>0, Granted
  <2>2. req[p][a].kind \in {"GETS", "GETX"}
    BY <1>0, <2>1 DEF TypeOK, Requests
  <2> QED
    BY Zenon, <1>0, <2>1, <2>2 DEF RequestInv, LoadRequests
<1>2. ~inTx[p] /\ writeSet[p] = {}
  BY Zenon, <1>0, <1>1 DEF RequestInv, PlainRequests, Outside
<1>3. \A q \in Proc : a \notin writeSet[q]
  BY Zenon, <1>0, <1>2, Granted
<1>4. \A q \in Proc : Live(q) => a \notin readSet[q]
  BY Zenon, <1>0, <1>1, <1>2, Granted DEF Live, isDoomed
<1>5. UNCHANGED <<log, logNumEntries, logReq, logSize, unrolling>>
  BY Zenon, <1>0 DEF outsideStore, receiveData, undoVars, unrollVars
<1>6. \A b \in Addr : mem'[b] = IF b = a THEN v ELSE mem[b]
  BY Zenon, <1>0 DEF outsideStore, DataTypeOK
<1>7. ASSUME NEW q \in Proc, NEW b \in Addr, NEW i \in Index
      PROVE  /\ Holds(q, i, b)' <=> Holds(q, i, b)
             /\ DataAt(q, i)' = DataAt(q, i)
  BY Zenon, <1>5 DEF Holds, InUse, AddrAt, DataAt
<1>8. \A b \in Addr : b # a => txMem'[b] = txMem[b]
  BY Zenon, <1>0, <1>6, <1>7, ValueStands
<1>9. txMem'[a] = v
  <2>1. \A q \in Proc, i \in Index : ~Holds(q, i, a)'
    BY Zenon, <1>3, <1>7, NoHolder
  <2>2. CommittedValues'
    BY CommittedValue, PTL
  <2> QED
    BY Zenon, <1>6, <2>1, <2>2 DEF CommittedValues
<1>10. txMem' = [b \in Addr |-> txMem'[b]]
  BY DEF txMem
<1>11. txMem' = [b \in Addr |-> IF b = a THEN v ELSE txMem[b]]
  BY Zenon, <1>8, <1>9, <1>10
<1> QED
  BY Zenon, <1>4, <1>11 DEF txMem

\* The value that the log held is in the block again.
LEMMA RestoreValues ==
  ASSUME GInv, GInv', NEW p \in Proc, NEW a \in Addr, restored(p, a)
  PROVE  txMem' = txMem
<1>0. /\ TypeOK /\ DataTypeOK /\ RequestInv(p) /\ LogInv(p) /\ DataStep(p)
      /\ receiveData(p, a) /\ ~req[p][a].trans /\ unrolling[p]
  BY Zenon DEF GInv, SInv, DInv, CoreInv, DataStep, restored
<1>1. req[p][a] # None
  BY Zenon, <1>0, Granted
<1>2. logSize[p] > 0 /\ a = log[p][addr_log_ptr[p]]
  BY Zenon, <1>0, <1>1 DEF RequestInv, PlainRequests
<1>3. PICK n \in Index : n = logSize[p] - 1
  <2>1. logSize[p] \in 0 .. LogEntries /\ logSize[p] > 0
    BY Zenon, <1>0, <1>2 DEF DataTypeOK
  <2> QED
    BY <2>1, EntriesExist DEF Index
<1>4. AddrAt(p, n) = a /\ data_log_ptr[p] = data_log_pointer(n)
  BY Zenon, <1>0, <1>2, <1>3 DEF LogInv, UnrollPosition, AddrAt
<1>5. /\ unrolling' = unrolling /\ log' = log /\ logSize'[p] = n
      /\ logNumEntries' = logNumEntries /\ logReq' = logReq
      /\ \A b \in Addr : mem'[b] = IF b = a THEN DataAt(p, n) ELSE mem[b]
  BY Zenon, <1>0, <1>3, <1>4 DEF restored, receiveData, DataTypeOK, DataAt
<1>6. storesDone(p)
  BY Zenon, <1>0 DEF LogInv, LogStores, storesDone
<1>7. \A i \in Index : i \in Int /\ n \in Int /\ logSize[p] = n + 1
  <2>1. logSize[p] \in 0 .. LogEntries
    BY Zenon, <1>0 DEF DataTypeOK
  <2> QED
    BY <1>3, <2>1, EntriesExist DEF Index
<1>8. \A i \in Index : /\ InUse(p, i) <=> i < n + 1
                       /\ InUse(p, i)' <=> i < n
  BY Zenon, <1>0, <1>5, <1>6, <1>7 DEF InUse, storesDone
<1>9. ASSUME NEW b \in Addr, b # a
      PROVE  txMem'[b] = txMem[b]
  <2>1. ASSUME NEW i \in Index
        PROVE  /\ Holds(p, i, b)' <=> Holds(p, i, b)
               /\ DataAt(p, i)' = DataAt(p, i)
    <3>1. AddrAt(p, i)' = AddrAt(p, i) /\ DataAt(p, i)' = DataAt(p, i)
      BY Zenon, <1>5 DEF AddrAt, DataAt
    <3>2. i # n => (InUse(p, i)' <=> InUse(p, i))
      BY <1>7, <1>8
    <3> QED
      BY Zenon, <1>4, <1>9, <3>1, <3>2 DEF Holds
  <2> QED
    BY Zenon, <1>0, <1>5, <1>9, <2>1, ValueStands
<1>10. Holds(p, n, a)
  BY <1>4, <1>7, <1>8 DEF Holds
<1>11. txMem[a] = DataAt(p, n)
  BY Zenon, <1>10, CommittedValue DEF CommittedValues
<1>12. \A q \in Proc, i \in Index : ~Holds(q, i, a)'
  <2>1. ASSUME NEW q \in Proc, NEW i \in Index, q # p
        PROVE  ~Holds(q, i, a)'
    BY Zenon, <1>0, <1>10, <2>1, OthersHold, OneHolder
  <2>2. ASSUME NEW i \in Index, Holds(p, i, a)'
        PROVE  FALSE
    <3>1. i < n /\ AddrAt(p, i) = a
      BY Zenon, <1>5, <1>8, <2>2 DEF Holds, AddrAt
    <3>2. Holds(p, i, a) /\ i # n
      BY <1>7, <1>8, <3>1 DEF Holds
    <3> QED
      BY Zenon, <1>10, <3>2, OneHolder
  <2> QED
    BY Zenon, <2>1, <2>2
<1>13. txMem'[a] = txMem[a]
  <2>1. CommittedValues'
    BY CommittedValue, PTL
  <2> QED
    BY Zenon, <1>5, <1>11, <1>12, <2>1 DEF CommittedValues
<1> QED
  BY Zenon, <1>9, <1>13, ValuesPointwise

\* A commit publishes what the transaction has stored.
LEMMA CommitValues ==
  ASSUME GInv, GInv', ValueInv, NEW p \in Proc, commit(p)
  PROVE  txMem' = [a \in Addr |-> IF stored[p][a] # None THEN stored[p][a]
                                  ELSE txMem[a]]
<1>0. /\ TypeOK /\ DataTypeOK /\ DataStep(p) /\ storesDone(p) /\ inTx[p]
      /\ ~unrolling[p] /\ unrolling' = unrolling /\ mem' = mem
      /\ logNumEntries'[p] = 0
  BY Zenon DEF GInv, SInv, DInv, DataStep, commit, commitTransaction, isDoomed, logVars,
         DataTypeOK
<1>1. \A a \in Addr, i \in Index : ~Holds(p, i, a)'
  BY Zenon, <1>0, NoEntryBelow DEF Holds, InUse
<1>2. ASSUME NEW a \in Addr, a \in writeSet[p]
      PROVE  txMem'[a] = stored[p][a] /\ stored[p][a] # None
  <2>1. stored[p][a] = mem[a] /\ mem[a] \in Val
    BY Zenon, <1>0, <1>2 DEF ValueInv, StoredValues, storesDone, DataTypeOK
  <2>2. ASSUME NEW q \in Proc, NEW i \in Index, Holds(q, i, a)'
        PROVE  FALSE
    <3>1. q # p
      BY Zenon, <1>1, <2>2
    <3>2. a \in writeSet[q]
      BY Zenon, <1>0, <2>2, <3>1, OthersHold, HoldsKept
    <3> QED
      BY Zenon, <1>0, <1>2, <3>1, <3>2, LogControl DEF GInv, SInv, LogDisjoint
  <2>3. CommittedValues'
    BY CommittedValue, PTL
  <2> QED
    BY Zenon, <1>0, <2>1, <2>2, <2>3, ValAssumption DEF CommittedValues
<1>3. ASSUME NEW a \in Addr, a \notin writeSet[p]
      PROVE  txMem'[a] = txMem[a] /\ stored[p][a] = None
  <2>1. \A i \in Index : ~Holds(p, i, a)
    BY Zenon, <1>3, HoldsKept
  <2> QED
    BY Zenon, <1>0, <1>1, <1>3, <2>1, ValueStands DEF ValueInv, StoredValues
<1>4. txMem' = [a \in Addr |-> txMem'[a]]
  BY DEF txMem
<1> QED
  BY Zenon, <1>2, <1>3, <1>4

\* The committed values change only at commits and at stores outside
\* transactions.
LEMMA ValueChange ==
  ASSUME GInv, GInv', ValueInv, NEW p \in Proc, DataStep(p), ~commit(p),
         \A a \in Addr, v \in Val : ~outsideStore(p, a, v)
  PROVE  txMem' = txMem
<1> USE DEF dataVars, undoVars, unrollVars
<1>1. CASE ControlStep(p)
  BY Zenon, <1>1, QuietValues
  DEF ControlStep, beginTransaction, serveRequest, answer, receiveNack,
      xactReplacement, logVars
<1>2. CASE logtm_log_unroll(p)
  BY Zenon, <1>2, QuietValues DEF logtm_log_unroll, issueRestore, logVars
<1>3. ASSUME NEW a \in Addr,
             issueLoad(p, a) \/ issueStore(p, a) \/ issueOutside(p, a)
      PROVE  txMem' = txMem
  BY Zenon, <1>3, QuietValues
  DEF issueLoad, issueStore, issueOutside, issueRequest, issueNonTransactional,
      logVars
<1>4. ASSUME NEW a \in Addr, loadCallback(p, a)
      PROVE  txMem' = txMem
  BY Zenon, <1>4, QuietValues DEF loadCallback, receiveData
<1> QED
  BY Zenon, <1>1, <1>2, <1>3, <1>4, AbortValues, UnrollEndValues, StartValues,
     CompleteValues, HitValues, RestoreValues DEF DataStep

\* The stores of a core whose state stands are not disturbed by others.
LEMMA StoredStand ==
  ASSUME NEW q \in Proc, StoredValues(q), LogStores(q), ControlStands(q),
         DataStands(q),
         \A b \in Addr : b \in writeSet[q] => mem'[b] = mem[b]
  PROVE  StoredValues(q)'
BY Zenon DEF StoredValues, LogStores, ControlStands, DataStands

\* A step of one core changes no block of another's write set.
LEMMA WrittenStand ==
  ASSUME GInv, NEW p \in Proc, DataStep(p), NEW q \in Proc, q # p,
         NEW b \in writeSet[q]
  PROVE  mem'[b] = mem[b]
<1>0. /\ TypeOK /\ DataTypeOK /\ b \in Addr /\ RequestInv(p) /\ LogInv(p)
      /\ b \notin writeSet[p]
  <2>1. TypeOK /\ DataTypeOK /\ RequestInv(p) /\ LogInv(p)
    BY Zenon DEF GInv, SInv, DInv, CoreInv
  <2>2. b \in Addr /\ b \notin writeSet[p]
    BY Zenon, <2>1, LogControl DEF GInv, SInv, LogDisjoint, TypeOK
  <2> QED
    BY Zenon, <2>1, <2>2
<1>1. ASSUME NEW a \in Addr, NEW v, mem' = [mem EXCEPT ![a] = v], a # b
      PROVE  mem'[b] = mem[b]
  BY Zenon, <1>0, <1>1 DEF DataTypeOK
<1>2. ASSUME NEW a \in Addr, NEW part \in {"addr", "data"},
             handleStoresToLog(p, a, part)
      PROVE  mem'[b] = mem[b]
  <2>1. logReq[p][a] # None
    BY Zenon, <1>2 DEF handleStoresToLog
  <2>2. a \in writeSet[p]
    BY Zenon, <1>0, <2>1 DEF LogInv, LogStores
  <2>3. mem' = mem \/ \E v \in Val : mem' = [mem EXCEPT ![a] = v]
    BY Zenon, <1>2 DEF handleStoresToLog
  <2> QED
    BY Zenon, <1>0, <1>1, <2>2, <2>3
<1>3. ASSUME NEW a \in Addr, NEW v \in Val, storeHit(p, a, v)
      PROVE  mem'[b] = mem[b]
  BY Zenon, <1>0, <1>1, <1>3 DEF storeHit
<1>4. ASSUME NEW a \in Addr, receiveData(p, a)
      PROVE  a # b
  BY Zenon, <1>4, Granted
<1>5. ASSUME NEW a \in Addr, NEW v \in Val, outsideStore(p, a, v)
      PROVE  mem'[b] = mem[b]
  BY Zenon, <1>1, <1>4, <1>5 DEF outsideStore
<1>6. ASSUME NEW a \in Addr, restored(p, a)
      PROVE  mem'[b] = mem[b]
  BY Zenon, <1>1, <1>4, <1>6 DEF restored
<1>7. CASE mem' = mem
  BY Zenon, <1>7
<1> QED
  BY Zenon, <1>2, <1>3, <1>5, <1>6, <1>7
  DEF DataStep, ControlStep, commit, abort, logtm_log_unroll, simEndLogUnroll,
      issueLoad, issueStore, issueOutside, loadCallback, logTransactionalStores,
      dataVars

\* The stores of a core after its own steps.
LEMMA StoredStep ==
  ASSUME GInv, NEW p \in Proc, StoredValues(p), DataStep(p)
  PROVE  StoredValues(p)'
<1>0. TypeOK /\ DataTypeOK /\ RequestInv(p) /\ LogInv(p) /\ Serving /\ UnrollState
  BY Zenon DEF GInv, SInv, DInv, CoreInv
<1> USE DEF dataVars, undoVars, unrollVars, txVars
<1>1. ASSUME inTx'[p] = inTx[p], unrolling'[p] = unrolling[p],
             writeSet'[p] = writeSet[p], logReq'[p] = logReq[p],
             stored'[p] = stored[p], mem' = mem
      PROVE  StoredValues(p)'
  BY Zenon, <1>1 DEF StoredValues
<1>2. ASSUME ~inTx[p] \/ unrolling[p], inTx'[p] => unrolling'[p],
             logReq' = logReq, stored' = stored
      PROVE  StoredValues(p)'
  <2>1. \A a \in Addr : logReq[p][a] = None /\ stored[p][a] = None
    BY Zenon, <1>0, <1>2 DEF RequestInv, Outside, NoBlocks, LogInv, LogStores
  <2> QED
    BY Zenon, <1>2, <2>1 DEF StoredValues
<1>3. CASE beginTransaction(p) /\ UNCHANGED dataVars
  <2>1. ~inTx[p] /\ writeSet' = writeSet /\ writeSet[p] = {}
    BY Zenon, <1>0, <1>3 DEF beginTransaction, setVars, RequestInv, Outside
  <2> QED
    BY Zenon, <1>3, <2>1 DEF StoredValues
<1>4. CASE commit(p)
  <2>1. /\ \A a \in Addr : logReq'[p][a] = None
        /\ stored'[p] = NoBlocks /\ ~inTx'[p]
    BY Zenon, <1>0, <1>4 DEF commit, commitTransaction, storesDone, TypeOK, DataTypeOK
  <2> QED
    BY Zenon, <2>1 DEF StoredValues, NoBlocks
<1>5. CASE abort(p)
  <2>1. /\ \A a \in Addr : logReq'[p][a] = None
        /\ stored'[p] = NoBlocks /\ (inTx'[p] => unrolling'[p])
    BY Zenon, <1>0, <1>5 DEF abort, abortTransaction, storesDone, TypeOK, DataTypeOK
  <2> QED
    BY Zenon, <2>1 DEF StoredValues, NoBlocks
<1>6. CASE simEndLogUnroll(p)
  <2>1. unrolling[p] /\ ~inTx'[p] /\ logReq' = logReq /\ stored' = stored
    BY Zenon, <1>0, <1>6 DEF simEndLogUnroll, endLogUnroll, TypeOK
  <2> QED
    BY Zenon, <1>2, <2>1
<1>7. ASSUME NEW a \in Addr, logTransactionalStores(p, a)
      PROVE  StoredValues(p)'
  <2>1. req[p][a] # None /\ req[p][a].kind = "GETX" /\ req[p][a].trans
        /\ receiveData(p, a)
    BY Zenon, <1>7, Granted DEF logTransactionalStores
  <2>2. a \notin writeSet[p] /\ storesDone(p) /\ req[p][a].age = 0
    BY Zenon, <1>0, <2>1 DEF RequestInv, StoreRequests
  <2>3. /\ writeSet'[p] = writeSet[p] \cup {a} /\ inTx' = inTx
        /\ unrolling' = unrolling /\ mem' = mem /\ stored' = stored
    BY Zenon, <1>0, <1>7, <2>1, <2>2
    DEF logTransactionalStores, receiveData, TypeOK
  <2>4. /\ \A b \in Addr : b # a => logReq'[p][b] = None
        /\ logReq'[p][a] = [index |-> addLogEntry(p), old |-> mem[a],
                            left |-> {"addr", "data"}]
    BY Zenon, <1>0, <1>7, <2>2 DEF logTransactionalStores, storesDone, DataTypeOK
  <2>5. logReq'[p][a].old = mem[a] /\ logReq'[p][a] # None
    <3>1. addLogEntry(p) \in Index
      BY <1>0, <1>7, EntriesExist
      DEF logTransactionalStores, addLogEntry, DataTypeOK, Index
    <3> QED
      BY <1>0, <2>4, <3>1, NoLogRequestAssumption DEF LogRequests, DataTypeOK
  <2> QED
    BY Zenon, <2>2, <2>3, <2>4, <2>5 DEF StoredValues, storesDone
<1>8. ASSUME NEW a \in Addr, NEW v \in Val, a \in writeSet[p],
             mem' = [mem EXCEPT ![a] = v],
             stored' = [stored EXCEPT ![p][a] = v],
             logReq'[p][a] = None,
             \A b \in Addr : b # a => logReq'[p][b] = logReq[p][b],
             UNCHANGED vars
      PROVE  StoredValues(p)'
  <2>1. \A b \in Addr : /\ mem'[b] = IF b = a THEN v ELSE mem[b]
                        /\ stored'[p][b] = IF b = a THEN v ELSE stored[p][b]
    BY Zenon, <1>0, <1>8 DEF DataTypeOK
  <2>2. UNCHANGED <<writeSet, inTx, unrolling>>
    BY Zenon, <1>8 DEF vars, setVars, logVars
  <2> QED
    BY <1>8, <2>1, <2>2 DEF StoredValues
<1>9. ASSUME NEW a \in Addr, NEW part \in {"addr", "data"},
             handleStoresToLog(p, a, part)
      PROVE  StoredValues(p)'
  <2>1. /\ logReq[p][a] # None /\ UNCHANGED vars
        /\ \A b \in Addr : b # a => logReq'[p][b] = logReq[p][b]
        /\ LogRequestEnds(p, a, part) \/ LogRequestGoesOn(p, a, part)
    BY Zenon, <1>0, <1>9, LogRequestEffect DEF handleStoresToLog
  <2>2. CASE LogRequestEnds(p, a, part)
    <3>1. logReq'[p][a] = None /\ a \in writeSet[p]
      BY Zenon, <1>0, <2>1, <2>2 DEF LogRequestEnds, LogInv, LogStores
    <3>2. \E v \in Val : /\ mem' = [mem EXCEPT ![a] = v]
                         /\ stored' = [stored EXCEPT ![p][a] = v]
      BY Zenon, <1>9, <2>2 DEF handleStoresToLog, LogRequestEnds
    <3> QED
      BY Zenon, <1>8, <2>1, <3>1, <3>2
  <2>3. CASE LogRequestGoesOn(p, a, part)
    <3>1. mem' = mem /\ stored' = stored
      BY Zenon, <1>9, <2>3 DEF handleStoresToLog, LogRequestGoesOn
    <3>2. /\ \A b \in Addr : logReq'[p][b] = None <=> logReq[p][b] = None
          /\ logReq'[p][a].old = logReq[p][a].old
      BY Zenon, <2>1, <2>3 DEF LogRequestGoesOn
    <3>3. UNCHANGED <<writeSet, inTx, unrolling>>
      BY Zenon, <2>1 DEF vars, setVars, logVars
    <3> QED
      BY Zenon, <2>1, <3>1, <3>2, <3>3 DEF StoredValues
  <2> QED
    BY Zenon, <2>1, <2>2, <2>3
<1>10. ASSUME NEW a \in Addr, NEW v \in Val, storeHit(p, a, v)
       PROVE  StoredValues(p)'
  <2>1. /\ a \in writeSet[p] /\ mem' = [mem EXCEPT ![a] = v] /\ UNCHANGED vars
        /\ stored' = [stored EXCEPT ![p][a] = v] /\ logReq' = logReq
        /\ logReq[p][a] = None
    BY Zenon, <1>10 DEF storeHit, storesDone
  <2> QED
    BY Zenon, <1>8, <2>1
<1>11. ASSUME NEW a \in Addr, NEW v \in Val,
              outsideStore(p, a, v) \/ restored(p, a)
       PROVE  StoredValues(p)'
  <2>1. /\ receiveData(p, a) /\ ~req[p][a].trans /\ logReq' = logReq
        /\ stored' = stored
    BY Zenon, <1>11 DEF outsideStore, restored
  <2>2. inTx' = inTx /\ unrolling' = unrolling
    BY Zenon, <2>1 DEF receiveData
  <2>3. inTx[p] => unrolling[p]
    BY Zenon, <1>0, <2>1, Granted DEF RequestInv, PlainRequests
  <2> QED
    BY Zenon, <1>2, <2>1, <2>2, <2>3
<1>12. ASSUME NEW a \in Addr, loadCallback(p, a)
       PROVE  StoredValues(p)'
  BY Zenon, <1>1, <1>12 DEF loadCallback, receiveData
<1>13. ASSUME NEW a \in Addr, UNCHANGED dataVars,
              \/ serveRequest(p, a) \/ answer(p, a) \/ receiveNack(p, a)
              \/ xactReplacement(p, a) \/ issueRestore(p, a)
              \/ \E kind \in Kinds : issueRequest(p, a, kind)
                                     \/ issueNonTransactional(p, a, kind)
       PROVE  StoredValues(p)'
  BY Zenon, <1>1, <1>13
  DEF serveRequest, answer, receiveNack, xactReplacement, issueRestore,
      issueRequest, issueNonTransactional, logVars, setVars
<1>14. CASE ControlStep(p)
  BY Zenon, <1>3, <1>13, <1>14 DEF ControlStep
<1>15. CASE logtm_log_unroll(p)
  <2>1. log[p][addr_log_ptr[p]] \in Addr
    BY Zenon, <1>0, <1>15 DEF logtm_log_unroll, issueRestore, TypeOK
  <2> QED
    BY Zenon, <1>13, <1>15, <2>1 DEF logtm_log_unroll
<1>16. ASSUME NEW a \in Addr,
              issueLoad(p, a) \/ issueStore(p, a) \/ issueOutside(p, a)
       PROVE  StoredValues(p)'
  BY Zenon, <1>13, <1>16, LogAssumption DEF issueLoad, issueStore, issueOutside
<1> QED
  BY Zenon, <1>4, <1>5, <1>6, <1>7, <1>9, <1>10, <1>11, <1>12, <1>14, <1>15, <1>16,
     ValAssumption DEF DataStep

\* A transaction goes on living only if it lived, unless it begins.
LEMMA LiveKept ==
  ASSUME GInv, NEW p \in Proc, DataStep(p), NEW q \in Proc, Live(q)'
  PROVE  Live(q) \/ (q = p /\ beginTransaction(p))
<1>0. TypeOK /\ DataTypeOK
  BY Zenon DEF GInv, SInv, DInv
<1>1. CASE q # p
  BY Zenon, <1>0, <1>1, OthersStand DEF ControlStands, Live, isDoomed
<1>2. CASE q = p
  <2> USE <1>2 DEF Live, isDoomed
  <2>1. CASE UNCHANGED vars
    BY Zenon, <2>1 DEF vars, logVars
  <2>2. CASE commitTransaction(p) \/ endLogUnroll(p)
    BY Zenon, <1>0, <2>2 DEF commitTransaction, endLogUnroll, TypeOK
  <2>3. CASE abortTransaction(p)
    BY Zenon, <1>0, <2>3 DEF abortTransaction, TypeOK
  <2>4. ASSUME NEW a \in Addr, NEW kind \in Kinds,
               \/ issueRequest(p, a, kind) \/ issueNonTransactional(p, a, kind)
               \/ issueRestore(p, a) \/ serveRequest(p, a) \/ receiveData(p, a)
        PROVE  Live(p)
    BY Zenon, <2>4
    DEF issueRequest, issueNonTransactional, issueRestore, serveRequest,
        receiveData, logVars
  <2>5. ASSUME NEW a \in Addr,
               answer(p, a) \/ receiveNack(p, a) \/ xactReplacement(p, a)
        PROVE  Live(p)
    BY Zenon, <1>0, <2>5
    DEF answer, receiveNack, xactReplacement, TypeOK, logVars
  <2> QED
    BY Zenon, <1>0, <2>1, <2>2, <2>3, <2>4, <2>5, ControlOfData, LogAssumption DEF Step
<1> QED
  BY Zenon, <1>1, <1>2

\* What a transaction loads and what it has loaded is committed.
LEMMA LoadedStep ==
  ASSUME GInv, GInv', ValueInv, NEW p \in Proc, DataStep(p), NEW q \in Proc
  PROVE  LoadedValues(q)'
<1>0. TypeOK /\ DataTypeOK /\ RequestInv(p)
  BY Zenon DEF GInv, SInv, DInv, CoreInv
<1>1. ASSUME loaded'[q] = NoBlocks
      PROVE  LoadedValues(q)'
  BY Zenon, <1>1 DEF LoadedValues, NoBlocks
<1>2. CASE q = p /\ beginTransaction(p)
  <2>1. loaded'[p] = NoBlocks
    <3>1. loaded[p] = NoBlocks
      BY Zenon, <1>0, <1>2 DEF beginTransaction, RequestInv, Outside
    <3>2. ~UNCHANGED vars /\ ~commitTransaction(p) /\ ~abortTransaction(p)
      BY Zenon, <1>0, <1>2
      DEF beginTransaction, commitTransaction, abortTransaction, vars, TypeOK
    <3>3. \A a \in Addr : ~receiveData(p, a)
      BY Zenon, <1>0, <1>2 DEF beginTransaction, receiveData, TypeOK
    <3> QED
      BY Zenon, <3>1, <3>2, <3>3
      DEF DataStep, ControlStep, commit, abort, logtm_log_unroll,
          simEndLogUnroll, issueLoad, issueStore, issueOutside, loadCallback,
          logTransactionalStores, handleStoresToLog, storeHit, outsideStore,
          restored, dataVars, txVars
  <2> QED
    BY Zenon, <1>1, <1>2, <2>1
<1>3. CASE ~(q = p /\ beginTransaction(p))
  <2>0. Live(q)' => Live(q)
    BY Zenon, <1>3, LiveKept
  <2>1. ASSUME NEW a \in Addr, q = p, loadCallback(p, a)
        PROVE  LoadedValues(q)'
    <3>1. receiveData(p, a) /\ req[p][a].kind = "GETS" /\ mem' = mem
      BY Zenon, <2>1 DEF loadCallback
    <3>2. a \notin writeSet[p] /\ a \notin readSet[p]
      BY Zenon, <1>0, <3>1, Granted DEF RequestInv, LoadRequests
    <3>3. txMem[a] = mem[a]
      BY Zenon, <3>1, <3>2, Granted, NoHolder
    <3>4. txMem' = txMem
      BY Zenon, <2>1, QuietValues DEF loadCallback, receiveData, undoVars, unrollVars
    <3>5. readSet'[p] = readSet[p] \/ readSet'[p] = readSet[p] \cup {a}
      BY Zenon, <1>0, <3>1 DEF receiveData, TypeOK
    <3>6. \A b \in Addr : loaded'[p][b] = IF b = a /\ a \in readSet'[p] THEN mem[a]
                                         ELSE loaded[p][b]
      BY Zenon, <1>0, <2>1 DEF loadCallback, DataTypeOK
    <3> QED
      BY Zenon, <2>0, <2>1, <3>3, <3>4, <3>5, <3>6 DEF ValueInv, LoadedValues
  <2>2. ASSUME loaded'[q] = loaded[q], readSet'[q] = readSet[q]
        PROVE  LoadedValues(q)'
    <3> SUFFICES ASSUME NEW b \in Addr, loaded[q][b] # None, Live(q)
                 PROVE  txMem'[b] = txMem[b]
      BY Zenon, <2>0, <2>2 DEF ValueInv, LoadedValues
    <3>1. b \in readSet[q]
      BY Zenon DEF ValueInv, LoadedValues
    <3>2. CASE commit(p)
      <4>1. txMem'[b] = IF stored[p][b] # None THEN stored[p][b] ELSE txMem[b]
        BY Zenon, <3>2, CommitValues
      <4>2. CASE stored[p][b] # None
        <5>1. b \in writeSet[p]
          BY Zenon, <4>2 DEF ValueInv, StoredValues
        <5>2. q # p
          <6>1. loaded'[p] = NoBlocks
            BY Zenon, <1>0, <3>2 DEF commit, DataTypeOK
          <6> QED
            BY Zenon, <2>2, <6>1 DEF NoBlocks
        <5> QED
          BY Zenon, <1>0, <3>1, <5>1, <5>2, LogControl
          DEF GInv, SInv, WriteIsolation, Live, isDoomed
      <4> QED
        BY Zenon, <4>1, <4>2
    <3>3. ASSUME NEW a \in Addr, NEW v \in Val, outsideStore(p, a, v)
          PROVE  txMem'[b] = txMem[b]
      BY Zenon, <3>1, <3>3, OutsideValues DEF txMem
    <3> QED
      BY Zenon, <3>2, <3>3, ValueChange
  <2>3. CASE q # p
    BY Zenon, <1>0, <2>2, <2>3, OthersStand DEF ControlStands, DataStands
  <2>4. CASE q = p /\ (commit(p) \/ abort(p))
    BY Zenon, <1>0, <1>1, <2>4 DEF commit, abort, DataTypeOK
  <2>5. ASSUME NEW a \in Addr, q = p, receiveData(p, a), ~loadCallback(p, a),
               req[p][a].kind # "GETS", loaded' = loaded
        PROVE  LoadedValues(q)'
    BY Zenon, <2>2, <2>5 DEF receiveData
  <2>6. CASE q = p /\ loaded' = loaded /\ readSet' = readSet
    BY Zenon, <2>2, <2>6
  <2>7. ASSUME NEW a \in Addr, q = p, NEW v \in Val,
               \/ logTransactionalStores(p, a) \/ outsideStore(p, a, v)
               \/ restored(p, a)
        PROVE  LoadedValues(q)'
    <3>1. receiveData(p, a) /\ loaded' = loaded
      BY Zenon, <2>7 DEF logTransactionalStores, outsideStore, restored, txVars
    <3>2. req[p][a].kind = "GETS" => req[p][a].trans
      BY Zenon, <1>0, <3>1, Granted DEF RequestInv, LoadRequests
    <3>3. req[p][a].kind # "GETS"
      BY Zenon, <2>7, <3>2 DEF logTransactionalStores, outsideStore, restored
    <3> QED
      BY Zenon, <2>5, <2>7, <3>1, <3>3 DEF loadCallback
  <2>8. ASSUME NEW a \in Addr, q = p,
               issueLoad(p, a) \/ issueStore(p, a) \/ issueOutside(p, a)
        PROVE  LoadedValues(q)'
    BY Zenon, <2>6, <2>8
    DEF issueLoad, issueStore, issueOutside, issueRequest,
        issueNonTransactional, setVars, dataVars, txVars
  <2>9. ASSUME NEW a \in Addr, q = p,
               \/ \E part \in {"addr", "data"} : handleStoresToLog(p, a, part)
               \/ \E v \in Val : storeHit(p, a, v)
        PROVE  LoadedValues(q)'
    BY Zenon, <2>6, <2>9 DEF handleStoresToLog, storeHit, vars, setVars
  <2>10. CASE /\ q = p
              /\ ControlStep(p) \/ logtm_log_unroll(p) \/ simEndLogUnroll(p)
    BY Zenon, <2>6, <2>10
    DEF ControlStep, beginTransaction, serveRequest, answer, receiveNack,
        xactReplacement, logtm_log_unroll, issueRestore, simEndLogUnroll,
        endLogUnroll, setVars, dataVars, txVars
  <2> QED
    BY Zenon, <2>1, <2>3, <2>4, <2>7, <2>8, <2>9, <2>10, ValAssumption DEF DataStep
<1> QED
  BY Zenon, <1>2, <1>3

\* A log is unrolled only after an abort.
LEMMA UndoneStep ==
  ASSUME TypeOK, DataTypeOK, NEW p \in Proc, Undone(p), DataStep(p)
  PROVE  Undone(p)'
<1>1. CASE abort(p)
  BY Zenon, <1>1 DEF abort, Undone, DataTypeOK
<1>2. CASE commit(p)
  <2>1. ~unrolling'[p]
    BY Zenon, <1>2 DEF commit, commitTransaction, isDoomed, logVars
  <2> QED
    BY Zenon, <2>1 DEF Undone
<1>3. CASE simEndLogUnroll(p)
  BY Zenon, <1>3 DEF simEndLogUnroll, endLogUnroll, TypeOK, Undone
<1>4. CASE unrolling' = unrolling /\ outcome' = outcome
  BY Zenon, <1>4 DEF Undone
<1> USE DEF logVars, dataVars, txVars
<1>5. CASE ControlStep(p) \/ logtm_log_unroll(p)
  BY Zenon, <1>4, <1>5
  DEF ControlStep, beginTransaction, serveRequest, answer, receiveNack,
      xactReplacement, logtm_log_unroll, issueRestore
<1>6. ASSUME NEW a \in Addr,
             issueLoad(p, a) \/ issueStore(p, a) \/ issueOutside(p, a)
      PROVE  Undone(p)'
  BY Zenon, <1>4, <1>6
  DEF issueLoad, issueStore, issueOutside, issueRequest, issueNonTransactional
<1>7. ASSUME NEW a \in Addr, NEW v \in Val,
             \/ loadCallback(p, a) \/ logTransactionalStores(p, a)
             \/ outsideStore(p, a, v) \/ restored(p, a)
      PROVE  Undone(p)'
  BY Zenon, <1>4, <1>7
  DEF loadCallback, logTransactionalStores, outsideStore, restored, receiveData
<1>8. ASSUME NEW a \in Addr,
             \/ \E part \in {"addr", "data"} : handleStoresToLog(p, a, part)
             \/ \E v \in Val : storeHit(p, a, v)
      PROVE  Undone(p)'
  BY Zenon, <1>4, <1>8 DEF handleStoresToLog, storeHit, vars
<1> QED
  BY Zenon, <1>1, <1>2, <1>3, <1>5, <1>6, <1>7, <1>8, ValAssumption DEF DataStep

\* Under the base policy the values are where ValueInv says.
LEMMA ValueInvariance ==
  ASSUME CountFacts, policy = "requester_stalls_cda_base"
  PROVE  DataSpec => [](GInv /\ ValueInv)
<1>1. DataInit => ValueInv
  BY DEF DataInit, Init, ValueInv, StoredValues, LoadedValues, Undone, NoBlocks
<1>2. GInv /\ GInv' /\ ValueInv /\ [DataNext]_<<vars, dataVars>> => ValueInv'
  <2> SUFFICES ASSUME GInv, GInv', ValueInv, [DataNext]_<<vars, dataVars>>
               PROVE  ValueInv'
    OBVIOUS
  <2>0. TypeOK /\ DataTypeOK /\ \A q \in Proc : LogStores(q)
    BY Zenon DEF GInv, SInv, DInv, CoreInv, LogInv
  <2>1. CASE DataNext
    <3>1. PICK p \in Proc : DataStep(p)
      BY Zenon, <2>1 DEF DataNext
    <3>2. ASSUME NEW q \in Proc
          PROVE  StoredValues(q)' /\ LoadedValues(q)' /\ Undone(q)'
      <4>1. LoadedValues(q)'
        BY Zenon, <3>1, LoadedStep
      <4>2. CASE q = p
        BY Zenon, <2>0, <3>1, <4>1, <4>2, StoredStep, UndoneStep DEF ValueInv
      <4>3. CASE q # p
        <5>1. ControlStands(q) /\ DataStands(q)
          BY Zenon, <2>0, <3>1, <4>3, OthersStand
        <5>2. \A b \in Addr : b \in writeSet[q] => mem'[b] = mem[b]
          BY Zenon, <3>1, <4>3, WrittenStand
        <5>3. StoredValues(q)'
          BY Zenon, <2>0, <5>1, <5>2, StoredStand DEF ValueInv
        <5>4. Undone(q)'
          BY Zenon, <5>1 DEF ValueInv, Undone, ControlStands, DataStands
        <5> QED
          BY Zenon, <4>1, <5>3, <5>4
      <4> QED
        BY Zenon, <4>2, <4>3
    <3> QED
      BY Zenon, <3>2 DEF ValueInv
  <2>2. CASE UNCHANGED <<vars, dataVars>>
    <3>1. /\ UNCHANGED <<inTx, abortFlag, unrolling, readSet, writeSet, mem, log>>
          /\ UNCHANGED <<logNumEntries, logReq, logSize, loaded, stored, outcome>>
      BY Zenon, <2>2
      DEF vars, logVars, setVars, dataVars, undoVars, unrollVars, txVars
    <3>2. txMem' = txMem
      BY Zenon, <3>1, QuietValues
    <3> QED
      BY Zenon, <3>1, <3>2
      DEF ValueInv, StoredValues, LoadedValues, Undone, Live, isDoomed
  <2> QED
    BY Zenon, <2>1, <2>2
<1>3. SInv /\ UInv /\ DInv => GInv
  BY Zenon DEF GInv
<1> QED
  BY <1>1, <1>2, <1>3, DataInvariance, DataRefinesControl,
     IsolationInvariance, PTL DEF DataSpec

-----------------------------------------------------------------------------
(* LogTM implements an atomic transactional memory                         *)

\* The abstract transactions that run are those that are live.
LEMMA RunningLive ==
  ASSUME DataTypeOK
  PROVE  A!Running = {p \in Proc : Live(p)}
BY Zenon DEF A!Running, txStatus, DataTypeOK

\* The mapped state of the cores after a step, one at a time.
LEMMA MappedNext ==
  /\ txStatus' = [p \in Proc |-> IF Live(p)' THEN "running"
                                ELSE IF inTx'[p] THEN "aborted" ELSE outcome'[p]]
  /\ txReads' = [p \in Proc |-> IF Live(p)' THEN loaded'[p] ELSE NoBlocks]
  /\ txWrites' = [p \in Proc |-> IF Live(p)' THEN stored'[p] ELSE NoBlocks]
BY Zenon DEF txStatus, txReads, txWrites, NoBlocks

\* The transactions a step makes fail.
DoomedNow == {p \in Proc : Live(p) /\ ~Live(p)'}

\* The mapped status when transactions fail and none begins or ends.
LEMMA DoomedStatus ==
  ASSUME UNCHANGED <<inTx, outcome>>, \A p \in Proc : Live(p)' => Live(p)
  PROVE  txStatus' = [p \in Proc |-> IF p \in DoomedNow THEN "aborted"
                                    ELSE txStatus[p]]
<1>1. ASSUME NEW p \in Proc
      PROVE  txStatus'[p] = IF p \in DoomedNow THEN "aborted" ELSE txStatus[p]
  BY Zenon, MappedNext DEF txStatus, DoomedNow, Live
<1>2. txStatus' = [p \in Proc |-> txStatus'[p]]
  BY Zenon, MappedNext
<1> QED
  BY Zenon, <1>1, <1>2

\* The mapped values when transactions fail and the others go on.
LEMMA DoomedSets ==
  ASSUME \A p \in Proc : Live(p)' => /\ Live(p) /\ loaded'[p] = loaded[p]
                                     /\ stored'[p] = stored[p]
  PROVE  /\ txReads' = [p \in Proc |-> IF p \in DoomedNow THEN A!NoValues
                                      ELSE txReads[p]]
         /\ txWrites' = [p \in Proc |-> IF p \in DoomedNow THEN A!NoValues
                                       ELSE txWrites[p]]
BY Zenon, MappedNext DEF txReads, txWrites, DoomedNow, A!NoValues, NoBlocks

\* A step that leaves the values of the transactions it spares alone is an
\* Abort of the others.
LEMMA DoomStep ==
  ASSUME DataTypeOK, UNCHANGED <<inTx, outcome, txMem>>,
         \A p \in Proc : Live(p)' => /\ Live(p) /\ loaded'[p] = loaded[p]
                                     /\ stored'[p] = stored[p]
  PROVE  A!Next
<1>1. DoomedNow \subseteq A!Running /\ DoomedNow \in SUBSET Proc
  BY Zenon, RunningLive DEF DoomedNow
<1>2. A!Abort(DoomedNow)
  BY Zenon, <1>1, DoomedStatus, DoomedSets DEF A!Abort, A!End
<1> QED
  BY Zenon, <1>1, <1>2 DEF A!Next

\* A step that changes the values of one core, and fails nobody.
LEMMA MappedValues ==
  ASSUME UNCHANGED <<inTx, outcome>>, \A q \in Proc : Live(q)' <=> Live(q)
  PROVE  /\ txStatus' = txStatus
         /\ loaded' = loaded => txReads' = txReads
         /\ stored' = stored => txWrites' = txWrites
<1>1. txStatus' = txStatus
  BY Zenon, MappedNext DEF txStatus
<1>2. loaded' = loaded => txReads' = txReads
  BY Zenon, MappedNext DEF txReads, NoBlocks
<1>3. stored' = stored => txWrites' = txWrites
  BY Zenon, MappedNext DEF txWrites, NoBlocks
<1> QED
  BY Zenon, <1>1, <1>2, <1>3

\* A store of a live transaction is a Write.
LEMMA WriteStep ==
  ASSUME DataTypeOK, UNCHANGED <<inTx, outcome, loaded, txMem>>,
         NEW p \in Proc, NEW a \in Addr, NEW v \in Val,
         stored' = [stored EXCEPT ![p][a] = v],
         \A q \in Proc : Live(q)' <=> Live(q)
  PROVE  A!Next
<1>1. \A q \in Proc : q # p => stored'[q] = stored[q]
  BY Zenon DEF DataTypeOK
<1>2. CASE ~Live(p)
  BY Zenon, <1>1, <1>2, DoomStep
<1>3. CASE Live(p)
  <2>1. p \in A!Running
    BY Zenon, <1>3, RunningLive
  <2>2. stored'[p] = [txWrites[p] EXCEPT ![a] = v]
    BY Zenon, <1>3 DEF DataTypeOK, txWrites
  <2>3. ASSUME NEW q \in Proc
        PROVE  (IF Live(q)' THEN stored'[q] ELSE NoBlocks)
             = IF q = p THEN [txWrites[p] EXCEPT ![a] = v] ELSE txWrites[q]
    <3>1. CASE q = p
      BY Zenon, <1>3, <2>2, <3>1
    <3>2. CASE q # p
      BY Zenon, <1>1, <3>2 DEF txWrites, NoBlocks
    <3> QED
      BY Zenon, <3>1, <3>2
  <2>4. txWrites' = [q \in Proc |-> IF q = p THEN [txWrites[p] EXCEPT ![a] = v]
                                    ELSE txWrites[q]]
    BY Zenon, <2>3, MappedNext
  <2>5. txWrites' = [txWrites EXCEPT ![p][a] = v]
    BY Zenon, <2>4 DEF txWrites
  <2>6. A!Write(p, a, v)
    BY Zenon, <2>1, <2>5, MappedValues DEF A!Write
  <2> QED
    BY Zenon, <2>6 DEF A!Next
<1> QED
  BY Zenon, <1>2, <1>3

\* A load of a live transaction is a Read.
LEMMA ReadStep ==
  ASSUME DataTypeOK, UNCHANGED <<inTx, outcome, stored, txMem>>,
         NEW p \in Proc, NEW a \in Addr, NEW v \in Val,
         Live(p) => loaded[p][a] = None /\ stored[p][a] = None,
         loaded' = [loaded EXCEPT ![p][a] = v],
         \A q \in Proc : Live(q)' <=> Live(q)
  PROVE  A!Next
<1>1. \A q \in Proc : q # p => loaded'[q] = loaded[q]
  BY Zenon DEF DataTypeOK
<1>2. CASE ~Live(p)
  BY Zenon, <1>1, <1>2, DoomStep
<1>3. CASE Live(p)
  <2>1. /\ p \in A!Running /\ txReads[p] = loaded[p] /\ txWrites[p] = stored[p]
        /\ {} \subseteq A!Running \ {p}
    BY Zenon, <1>3, RunningLive DEF txReads, txWrites
  <2>2. loaded'[p] = [txReads[p] EXCEPT ![a] = v]
    BY Zenon, <2>1 DEF DataTypeOK
  <2>3. ASSUME NEW q \in Proc
        PROVE  (IF Live(q)' THEN loaded'[q] ELSE NoBlocks)
             = IF q \in {} THEN A!NoValues
               ELSE IF q = p THEN [txReads[p] EXCEPT ![a] = v] ELSE txReads[q]
    <3>1. CASE q = p
      BY Zenon, <1>3, <2>2, <3>1
    <3>2. CASE q # p
      BY Zenon, <1>1, <3>2 DEF txReads, NoBlocks
    <3> QED
      BY Zenon, <3>1, <3>2
  <2>4. txReads' = [q \in Proc |->
          IF q \in {} THEN A!NoValues
          ELSE IF q = p THEN [txReads[p] EXCEPT ![a] = v] ELSE txReads[q]]
    BY Zenon, <2>3, MappedNext
  <2>5. /\ txStatus' = [q \in Proc |-> IF q \in {} THEN "aborted" ELSE txStatus[q]]
        /\ txWrites' = [q \in Proc |-> IF q \in {} THEN A!NoValues
                                       ELSE txWrites[q]]
    BY Zenon, MappedValues DEF txStatus, txWrites
  <2>6. A!Read(p, a, v, {})
    BY Zenon, <1>3, <2>1, <2>4, <2>5 DEF A!Read
  <2> QED
    BY Zenon, <2>6 DEF A!Next
<1> QED
  BY Zenon, <1>2, <1>3

\* A transaction begins with nothing loaded and nothing stored: a Begin.
LEMMA BeginRefines ==
  ASSUME GInv, NEW p \in Proc, beginTransaction(p), UNCHANGED dataVars
  PROVE  A!Next
<1>0. TypeOK /\ DataTypeOK /\ RequestInv(p) /\ UnrollState
  BY Zenon DEF GInv, SInv, DInv, CoreInv
<1>1. /\ ~inTx[p] /\ inTx' = [inTx EXCEPT ![p] = TRUE]
      /\ UNCHANGED <<abortFlag, unrolling, loaded, stored, outcome>>
  BY Zenon DEF beginTransaction, logVars, dataVars, txVars
<1>2. /\ ~abortFlag[p] /\ ~unrolling[p] /\ loaded[p] = NoBlocks
      /\ stored[p] = NoBlocks /\ ~Live(p)
  BY Zenon, <1>0, <1>1 DEF RequestInv, Outside, UnrollState, Live
<1>3. \A q \in Proc : Live(q)' <=> q = p \/ Live(q)
  BY Zenon, <1>0, <1>1, <1>2 DEF Live, isDoomed, TypeOK
<1>4. txStatus' = [txStatus EXCEPT ![p] = "running"]
  <2>1. \A q \in Proc : q # p => inTx'[q] = inTx[q]
    BY Zenon, <1>0, <1>1 DEF TypeOK
  <2>2. ASSUME NEW q \in Proc
        PROVE  txStatus'[q] = IF q = p THEN "running" ELSE txStatus[q]
    BY Zenon, <1>1, <1>3, <2>1, MappedNext DEF txStatus
  <2>3. txStatus' = [q \in Proc |-> txStatus'[q]]
    BY Zenon, MappedNext
  <2> QED
    BY Zenon, <2>2, <2>3 DEF txStatus
<1>5. txReads' = txReads /\ txWrites' = txWrites
  BY Zenon, <1>1, <1>2, <1>3, MappedNext DEF txReads, txWrites, NoBlocks
<1>6. txMem' = txMem
  BY Zenon, QuietValues DEF beginTransaction, logVars, dataVars, undoVars, unrollVars
<1>7. A!Begin(p)
  BY Zenon, <1>0, <1>2, <1>4, <1>5, <1>6, RunningLive DEF A!Begin
<1> QED
  BY Zenon, <1>7 DEF A!Next

\* What has been loaded is committed when the transaction commits, and what it
\* has stored becomes the committed value, in one step.
LEMMA CommitRefines ==
  ASSUME GInv, GInv', ValueInv, NEW p \in Proc, commit(p)
  PROVE  A!Next
<1>0. TypeOK /\ DataTypeOK
  BY Zenon DEF GInv, SInv, DInv
<1>1. /\ Live(p) /\ inTx' = [inTx EXCEPT ![p] = FALSE]
      /\ loaded' = [loaded EXCEPT ![p] = NoBlocks]
      /\ stored' = [stored EXCEPT ![p] = NoBlocks]
      /\ outcome' = [outcome EXCEPT ![p] = "committed"]
      /\ UNCHANGED <<abortFlag, unrolling>>
  BY Zenon DEF commit, commitTransaction, Live, logVars
<1>2. \A q \in Proc : Live(q)' <=> q # p /\ Live(q)
  BY Zenon, <1>0, <1>1 DEF Live, isDoomed, TypeOK
<1>3. txStatus' = [q \in Proc |-> IF q \in {p} THEN "committed" ELSE txStatus[q]]
  <2>1. \A q \in Proc : /\ inTx'[q] = IF q = p THEN FALSE ELSE inTx[q]
                        /\ outcome'[q] = IF q = p THEN "committed" ELSE outcome[q]
    BY Zenon, <1>0, <1>1 DEF TypeOK, DataTypeOK
  <2>2. ASSUME NEW q \in Proc
        PROVE  txStatus'[q] = IF q \in {p} THEN "committed" ELSE txStatus[q]
    BY Zenon, <1>2, <2>1, MappedNext DEF txStatus
  <2>3. txStatus' = [q \in Proc |-> txStatus'[q]]
    BY Zenon, MappedNext
  <2> QED
    BY Zenon, <2>2, <2>3
<1>4. /\ txReads' = [q \in Proc |-> IF q \in {p} THEN A!NoValues ELSE txReads[q]]
      /\ txWrites' = [q \in Proc |-> IF q \in {p} THEN A!NoValues ELSE txWrites[q]]
  BY Zenon, <1>0, <1>1, <1>2, MappedNext
  DEF txReads, txWrites, A!NoValues, NoBlocks, DataTypeOK
<1>5. \A a \in Addr : txReads[p][a] \in {None, txMem[a]}
  BY Zenon, <1>1 DEF ValueInv, LoadedValues, txReads
<1>6. txMem' = [a \in Addr |-> IF txWrites[p][a] # None THEN txWrites[p][a]
                              ELSE txMem[a]]
  BY Zenon, <1>1, CommitValues DEF txWrites
<1>7. p \in A!Running
  BY Zenon, <1>0, <1>1, RunningLive
<1>8. A!Commit(p)
  BY Zenon, <1>3, <1>4, <1>5, <1>6, <1>7 DEF A!Commit, A!End
<1> QED
  BY Zenon, <1>8 DEF A!Next

\* An abort ends a transaction that had failed, or fails it; its log still
\* holds the committed values.
LEMMA AbortRefines ==
  ASSUME GInv, GInv', NEW p \in Proc, abort(p)
  PROVE  A!Next
<1> DEFINE S == IF Live(p) THEN {p} ELSE {}
<1>0. TypeOK /\ DataTypeOK
  BY Zenon DEF GInv, SInv, DInv
<1>1. /\ inTx[p] /\ inTx' = [inTx EXCEPT ![p] = unrolling'[p]]
      /\ \A q \in Proc : q # p => /\ unrolling'[q] = unrolling[q]
                                  /\ abortFlag'[q] = abortFlag[q]
      /\ loaded' = [loaded EXCEPT ![p] = NoBlocks]
      /\ stored' = [stored EXCEPT ![p] = NoBlocks]
      /\ outcome' = [outcome EXCEPT ![p] = "aborted"]
  BY Zenon, <1>0 DEF abort, abortTransaction, TypeOK
<1>2. \A q \in Proc : Live(q)' <=> q # p /\ Live(q)
  BY Zenon, <1>0, <1>1 DEF Live, isDoomed, TypeOK
<1>3. txStatus' = [q \in Proc |-> IF q \in S THEN "aborted" ELSE txStatus[q]]
  <2>1. \A q \in Proc : /\ q # p => inTx'[q] = inTx[q]
                        /\ outcome'[q] = IF q = p THEN "aborted" ELSE outcome[q]
    BY Zenon, <1>0, <1>1 DEF TypeOK, DataTypeOK
  <2>2. ASSUME NEW q \in Proc
        PROVE  txStatus'[q] = IF q \in S THEN "aborted" ELSE txStatus[q]
    BY Zenon, <1>1, <1>2, <2>1, MappedNext DEF txStatus
  <2>3. txStatus' = [q \in Proc |-> txStatus'[q]]
    BY Zenon, MappedNext
  <2> QED
    BY Zenon, <2>2, <2>3
<1>4. /\ txReads' = [q \in Proc |-> IF q \in S THEN A!NoValues ELSE txReads[q]]
      /\ txWrites' = [q \in Proc |-> IF q \in S THEN A!NoValues ELSE txWrites[q]]
  BY Zenon, <1>0, <1>1, <1>2, MappedNext
  DEF txReads, txWrites, A!NoValues, NoBlocks, DataTypeOK
<1>5. S \subseteq A!Running /\ S \in SUBSET Proc
  BY Zenon, <1>0, RunningLive
<1>6. A!Abort(S)
  BY Zenon, <1>3, <1>4, <1>5, AbortValues DEF A!Abort, A!End
<1> QED
  BY Zenon, <1>5, <1>6 DEF A!Next

\* The end of the unroll is invisible: the transaction had failed before.
LEMMA UnrollEndRefines ==
  ASSUME GInv, GInv', ValueInv, NEW p \in Proc, simEndLogUnroll(p)
  PROVE  UNCHANGED A!vars
<1>0. TypeOK /\ UnrollState
  BY Zenon DEF GInv, SInv
<1>1. /\ unrolling[p] /\ inTx' = [inTx EXCEPT ![p] = FALSE]
      /\ unrolling' = [unrolling EXCEPT ![p] = FALSE]
      /\ UNCHANGED <<abortFlag, loaded, stored, outcome>>
  BY Zenon DEF simEndLogUnroll, endLogUnroll, txVars
<1>2. /\ \A q \in Proc : Live(q)' <=> Live(q)
      /\ \A q \in Proc : inTx'[q] = IF q = p THEN FALSE ELSE inTx[q]
      /\ ~Live(p) /\ inTx[p] /\ outcome[p] = "aborted"
  BY Zenon, <1>0, <1>1 DEF Live, isDoomed, TypeOK, UnrollState, ValueInv, Undone
<1>3. txStatus' = txStatus
  BY <1>1, <1>2, MappedNext DEF txStatus
<1>4. txReads' = txReads /\ txWrites' = txWrites
  BY Zenon, <1>1, <1>2, MappedNext DEF txReads, txWrites, NoBlocks
<1> QED
  BY Zenon, <1>3, <1>4, UnrollEndValues DEF A!vars

\* A store outside transactions conflicts with no live transaction.
LEMMA OutsideRefines ==
  ASSUME GInv, GInv', NEW p \in Proc, NEW a \in Addr, NEW v \in Val,
         outsideStore(p, a, v)
  PROVE  A!Next
<1>0. DataTypeOK
  BY Zenon DEF GInv, DInv
<1>1. UNCHANGED <<inTx, abortFlag, unrolling, loaded, stored, outcome>>
  BY Zenon DEF outsideStore, receiveData, txVars
<1>2. \A q \in Proc : Live(q)' <=> Live(q)
  BY Zenon, <1>1 DEF Live, isDoomed
<1>3. txStatus' = txStatus /\ txReads' = txReads /\ txWrites' = txWrites
  BY Zenon, <1>1, <1>2, MappedValues
<1>4. A!End({}, "aborted")
  BY Zenon, <1>3 DEF A!End, txStatus, txReads, txWrites
<1>5. A!StoreOutside(a, v, {})
  BY Zenon, <1>4, OutsideValues DEF A!StoreOutside
<1>6. <<a, v>> \in {<<o[2], o[3]>> : o \in OutsideStores}
  <2>1. <<p, a, v>> \in OutsideStores
    BY Zenon DEF outsideStore
  <2> QED
    BY <2>1
<1>7. A!StoreOutside(<<a, v>>[1], <<a, v>>[2], {})
  BY Zenon, <1>5
<1> QED
  BY Zenon, <1>6, <1>7 DEF A!Next

\* A load whose transaction still lives is a Read; a load that has failed or
\* comes too late is invisible.
LEMMA LoadRefines ==
  ASSUME GInv, GInv', ValueInv, NEW p \in Proc, NEW a \in Addr,
         loadCallback(p, a)
  PROVE  A!Next
<1>0. DataTypeOK /\ TypeOK /\ RequestInv(p) /\ mem[a] \in Val
  BY Zenon DEF GInv, SInv, DInv, CoreInv, DataTypeOK
<1>1. UNCHANGED <<inTx, abortFlag, unrolling, stored, outcome>>
  BY Zenon DEF loadCallback, receiveData
<1>2. \A q \in Proc : Live(q)' <=> Live(q)
  BY Zenon, <1>1 DEF Live, isDoomed
<1>3. txMem' = txMem
  BY Zenon, QuietValues DEF loadCallback, receiveData, undoVars, unrollVars
<1>4. CASE loaded' = loaded
  BY Zenon, <1>0, <1>1, <1>2, <1>3, <1>4, DoomStep
<1>5. CASE loaded' = [loaded EXCEPT ![p][a] = mem[a]]
  <2>1. a \notin readSet[p] /\ a \notin writeSet[p]
    BY Zenon, <1>0, Granted DEF loadCallback, RequestInv, LoadRequests
  <2>2. loaded[p][a] = None /\ stored[p][a] = None
    BY Zenon, <2>1 DEF ValueInv, LoadedValues, StoredValues
  <2> QED
    BY Zenon, <1>0, <1>1, <1>2, <1>3, <1>5, <2>2, ReadStep
<1> QED
  BY Zenon, <1>4, <1>5 DEF loadCallback

\* A store in place, at once or when its log entry is complete, is a Write.
LEMMA StoreRefines ==
  ASSUME GInv, GInv', ValueInv, NEW p \in Proc, NEW a \in Addr,
         \/ \E part \in {"addr", "data"} : handleStoresToLog(p, a, part)
         \/ \E v \in Val : storeHit(p, a, v)
  PROVE  A!Next
<1>0. DataTypeOK
  BY Zenon DEF GInv, DInv
<1>1. UNCHANGED <<inTx, abortFlag, unrolling, loaded, outcome>>
  BY Zenon DEF handleStoresToLog, storeHit, vars, logVars
<1>2. \A q \in Proc : Live(q)' <=> Live(q)
  BY Zenon, <1>1 DEF Live, isDoomed
<1>3. txMem' = txMem
  BY Zenon, CompleteValues, HitValues
<1>4. CASE stored' = stored
  BY Zenon, <1>0, <1>1, <1>2, <1>3, <1>4, DoomStep
<1>5. CASE \E v \in Val : stored' = [stored EXCEPT ![p][a] = v]
  BY Zenon, <1>0, <1>1, <1>2, <1>3, <1>5, WriteStep
<1> QED
  BY Zenon, <1>4, <1>5 DEF handleStoresToLog, storeHit

\* Every other step fails some transactions, or none.
LEMMA OtherRefines ==
  ASSUME GInv, GInv', ValueInv, NEW p \in Proc, DataStep(p), ~beginTransaction(p),
         UNCHANGED <<inTx, outcome, loaded, stored, txMem>>
  PROVE  A!Next
<1>1. DataTypeOK
  BY Zenon DEF GInv, DInv
<1>2. \A q \in Proc : Live(q)' => Live(q)
  BY Zenon, LiveKept
<1> QED
  BY Zenon, <1>1, <1>2, DoomStep

\* Every step is one of AtomicTM or invisible.
LEMMA StepRefines ==
  ASSUME GInv, GInv', ValueInv, NEW p \in Proc, DataStep(p)
  PROVE  [A!Next]_A!vars
<1>0. TypeOK
  BY Zenon DEF GInv, SInv
<1>1. CASE beginTransaction(p) /\ UNCHANGED dataVars
  BY Zenon, <1>1, BeginRefines
<1>2. CASE inTx' = inTx
  <2>1. ~beginTransaction(p)
    BY Zenon, <1>0, <1>2 DEF beginTransaction, TypeOK
  <2>2. CASE ControlStep(p) \/ logtm_log_unroll(p)
    <3>1. txMem' = txMem
      BY Zenon, <2>2, QuietValues
      DEF ControlStep, beginTransaction, serveRequest, answer, receiveNack,
          xactReplacement, logtm_log_unroll, issueRestore, logVars, dataVars,
          undoVars, unrollVars
    <3> QED
      BY Zenon, <1>2, <2>1, <2>2, <3>1, OtherRefines
      DEF ControlStep, logtm_log_unroll, dataVars, txVars
  <2>3. ASSUME NEW a \in Addr,
               issueLoad(p, a) \/ issueStore(p, a) \/ issueOutside(p, a)
        PROVE  A!Next
    <3>1. txMem' = txMem
      BY Zenon, <2>3, QuietValues
      DEF issueLoad, issueStore, issueOutside, issueRequest,
          issueNonTransactional, logVars, dataVars, undoVars, unrollVars
    <3> QED
      BY Zenon, <1>2, <2>1, <2>3, <3>1, OtherRefines
      DEF issueLoad, issueStore, issueOutside, dataVars, txVars
  <2>4. ASSUME NEW a \in Addr, logTransactionalStores(p, a) \/ restored(p, a)
        PROVE  A!Next
    BY Zenon, <1>2, <2>1, <2>4, StartValues, RestoreValues, OtherRefines
    DEF logTransactionalStores, restored, txVars
  <2> QED
    BY Zenon, <2>2, <2>3, <2>4, CommitRefines, AbortRefines, UnrollEndRefines,
       OutsideRefines, LoadRefines, StoreRefines DEF DataStep
<1>3. CASE inTx' # inTx
  <2>1. ~UNCHANGED vars
    BY Zenon, <1>3 DEF vars
  <2>2. \A a \in Addr : ~receiveData(p, a)
    BY Zenon, <1>3 DEF receiveData
  <2>3. \A a \in Addr : /\ ~serveRequest(p, a) /\ ~answer(p, a)
                        /\ ~receiveNack(p, a) /\ ~xactReplacement(p, a)
    BY Zenon, <1>3 DEF serveRequest, answer, receiveNack, xactReplacement
  <2>4. /\ ~logtm_log_unroll(p)
        /\ \A a \in Addr :
             ~issueLoad(p, a) /\ ~issueStore(p, a) /\ ~issueOutside(p, a)
    BY Zenon, <1>3
    DEF logtm_log_unroll, issueRestore, issueLoad, issueStore, issueOutside,
        issueRequest, issueNonTransactional
  <2> QED
    BY Zenon, <1>1, <2>1, <2>2, <2>3, <2>4, CommitRefines, AbortRefines,
       UnrollEndRefines
    DEF DataStep, ControlStep, loadCallback, logTransactionalStores,
        handleStoresToLog, storeHit, outsideStore, restored
<1> QED
  BY Zenon, <1>2, <1>3

-----------------------------------------------------------------------------
(* The theorems                                                            *)

INSTANCE FiniteSetTheorems

\* Sets of blocks and of log packets are finite, so their sizes are as expected.
LEMMA Counting == CountFacts
<1>1. ASSUME NEW U, IsFiniteSet(U)
      PROVE  CountsIn(U)
  <2> SUFFICES ASSUME NEW S \in SUBSET U
               PROVE  /\ Cardinality(S) \in Nat
                      /\ \A T \in SUBSET S : Cardinality(T) <= Cardinality(S)
                      /\ \A x \in U \ S :
                           Cardinality(S \cup {x}) = Cardinality(S) + 1
    BY Zenon DEF CountsIn
  <2>1. IsFiniteSet(S)
    BY Zenon, <1>1, FS_Subset
  <2> QED
    BY Zenon, <2>1, FS_CardinalityType, FS_Subset, FS_AddElement
<1>2. IsFiniteSet(Addr)
  BY Zenon, LogAssumption
<1>3. IsFiniteSet({"addr", "data"})
  <2>1. IsFiniteSet({"addr"}) /\ {"addr", "data"} = {"addr"} \cup {"data"}
    BY Zenon, FS_Singleton
  <2> QED
    BY Zenon, <2>1, FS_AddElement
<1>4. IsFiniteSet(Addr \X {"addr", "data"})
  BY Zenon, <1>2, <1>3, FS_Product
<1> QED
  BY Zenon, <1>1, <1>2, <1>4, FS_EmptySet DEF CountFacts

\* Under both policies, for any number of cores, blocks and log pages: the log
\* of a transaction without a store under way holds each block of its write
\* set once, so the assertion of abortTransaction on the two sizes holds without
\* the entry it tolerates, and the handler walks exactly the blocks that are
\* not restored (logTransactionalStores, handleStoresToLog, logtm_log_unroll).
THEOREM LogIsExact == DataSpec => []LogExact
<1>1. UInv /\ DInv => LogExact
  <2> SUFFICES ASSUME UInv, DInv, NEW p \in Proc, inTx[p], storesDone(p)
               PROVE  /\ logNumEntries[p] = Cardinality(writeSet[p])
                      /\ {log[p][addr_log_pointer(i)] :
                            i \in 0 .. logNumEntries[p] - 1} = writeSet[p]
                      /\ unrolling[p] => toRestore[p] =
                           {log[p][addr_log_pointer(i)] : i \in 0 .. logSize[p] - 1}
    BY Zenon DEF LogExact
  <2>1. Entries(p) /\ UnrollPosition(p)
    BY Zenon DEF DInv, CoreInv, LogInv
  <2>2. Kept(p) = 0 .. logNumEntries[p] - 1
    BY Zenon, KeptDone DEF DInv
  <2>3. writeSet[p] \subseteq Addr
    BY Zenon DEF UInv, TypeOK
  <2>4. {AddrAt(p, i) : i \in 0 .. logNumEntries[p] - 1} = writeSet[p]
    BY <2>1, <2>2, <2>3 DEF Entries, storesDone
  <2> QED
    BY Zenon, <2>1, <2>4 DEF Entries, UnrollPosition, AddrAt
<1> QED
  BY <1>1, Counting, DataInvariance, PTL

\* Under both policies: when the block of a store arrives, the sequencer has
\* room for its two log packets, whatever else it has outstanding, so the panic
\* "Cannot make log requests!" is out of reach (canMakeRequest,
\* makeLogRequests).
THEOREM LogRequestsAreIssued == DataSpec => []LogRequestsIssue
<1>1. UInv /\ DInv => LogRequestsIssue
  <2> SUFFICES ASSUME DInv, NEW p \in Proc, NEW a \in Addr,
                      a \in pendingLogging(p)
               PROVE  makeLogRequests(p)
    BY Zenon DEF LogRequestsIssue
  <2>1. Charge(p) <= MaxOutstanding[p] /\ Charge(p) \in Nat
        /\ MaxOutstanding[p] \in Nat
    BY Zenon, Counting, ChargeSets, LogAssumption DEF DInv, Charged
  <2>2. /\ Charge(p) + (-2) < MaxOutstanding[p]
        /\ Charge(p) + (1 - 2) < MaxOutstanding[p]
    BY <2>1
  <2>3. canMakeRequest(p, -2) /\ canMakeRequest(p, 1 - 2)
    <3>1. -2 \in Int /\ 1 - 2 \in Int
      OBVIOUS
    <3> QED
      BY Zenon, <2>2, <3>1, Counting, ChargeSets
  <2> QED
    BY Zenon, <2>3 DEF makeLogRequests, logReservation
<1> QED
  BY <1>1, Counting, DataInvariance, PTL

\* Under the base policy, for any number of cores, blocks and log pages and any
\* workload: LogTM implements an atomic transactional memory.  Stores in place,
\* the late log stores, the handler's unroll and stores outside transactions
\* are interleaved in every way, and still a commit publishes its stores in one
\* step and has loaded nothing but committed values, and an abort leaves no
\* trace (logTransactionalStores, handleStoresToLog, logtm_log_unroll).
THEOREM LogIsAtomic ==
  ASSUME policy = "requester_stalls_cda_base"
  PROVE  DataSpec => AtomicTransactions
<1>1. DataInit => A!Init
  <2> SUFFICES ASSUME DataInit PROVE A!Init
    OBVIOUS
  <2>1. \A p \in Proc : ~Live(p) /\ ~inTx[p] /\ outcome[p] = "idle"
    BY Zenon DEF DataInit, Init, Live
  <2>2. \A a \in Addr : Logged(a) = {}
    BY Zenon, NoEntryBelow DEF DataInit, Init, Logged, InUse
  <2>3. txMem = [a \in Addr |-> InitVal]
    BY Zenon, <2>2 DEF txMem, DataInit
  <2> QED
    BY Zenon, <2>1, <2>3 DEF A!Init, A!NoValues, NoBlocks, txStatus, txReads, txWrites
<1>2. /\ GInv /\ ValueInv /\ GInv' /\ [DataNext]_<<vars, dataVars>>
      => [A!Next]_A!vars
  <2> SUFFICES ASSUME GInv, ValueInv, GInv', [DataNext]_<<vars, dataVars>>
               PROVE  [A!Next]_A!vars
    OBVIOUS
  <2>1. CASE DataNext
    BY Zenon, <2>1, StepRefines DEF DataNext
  <2>2. CASE UNCHANGED <<vars, dataVars>>
    <3>1. /\ UNCHANGED <<inTx, abortFlag, unrolling, mem, log, logNumEntries>>
          /\ UNCHANGED <<logReq, logSize, loaded, stored, outcome>>
      BY Zenon, <2>2 DEF vars, logVars, dataVars, undoVars, unrollVars, txVars
    <3>2. UNCHANGED <<txMem, txStatus, txReads, txWrites>>
      BY Zenon, <3>1, QuietValues DEF txStatus, txReads, txWrites, Live, isDoomed
    <3> QED
      BY Zenon, <3>2 DEF A!vars
  <2> QED
    BY Zenon, <2>1, <2>2
<1> QED
  BY <1>1, <1>2, Counting, ValueInvariance, PTL
  DEF DataSpec, AtomicTransactions, A!Spec
=============================================================================
