--------------------------- MODULE LazyDataProofs ---------------------------
(***************************************************************************)
(* The lazy system implements AtomicTM, for every number of processors,    *)
(* blocks and bytes and for every workload.  DataInv says where the bytes  *)
(* of a transaction are; it needs the invariant IInv of LazyCommit.        *)
(***************************************************************************)
EXTENDS LazyData, LazyCommitProofs

\* Nothing is left of the last transaction of a thread that is in none.
QuietData(p) ==
  ~inTx[p] => /\ writeBuffer[p] = NoBytes
              /\ loaded[p] = NoBytes /\ stored[p] = NoBytes

\* Until validation, and for the blocks not flushed yet, the write buffer
\* holds the bytes stored; it is empty when no block is left.
BufferData(p) ==
  /\ Live(p) /\ ~atCommit[p] => writeBuffer[p] = stored[p]
  /\ Live(p) /\ Empty(block[p]) => writeBuffer[p] = NoBytes
  /\ \A l \in Loc :
       /\ stored[p][l] # None => BlockOf[l] \in wsetInWB[p]
       /\ Live(p) /\ block[p][BlockOf[l]] # "absent"
            => writeBuffer[p][l] = stored[p][l]

\* The bytes of a flushed block, and the bytes loaded.
CacheData(p) ==
  \A l \in Loc :
    /\ loaded[p][l] # None => /\ BlockOf[l] \in readSet[p]
                              /\ \/ BlockOf[l] \in stale[p]
                                 \/ loaded[p][l] = mem[l]
    /\ Live(p) /\ BlockOf[l] \in writeSet[p]
         => line[p][l] = IF stored[p][l] # None THEN stored[p][l] ELSE mem[l]

DataInv ==
  /\ DataTypeOK
  /\ \A p \in Proc : QuietData(p) /\ BufferData(p) /\ CacheData(p)

allVars == <<vars, dataVars>>

-----------------------------------------------------------------------------
\* Without its data a step of LazyData is a step of LazyCommit.
LEMMA ControlStepOf ==
  ASSUME NEW q \in Proc, DataStep(q)
  PROVE  [Next]_vars
<1>1. CASE ControlStep(q)
  BY Zenon, <1>1 DEF ControlStep, Next, Step
<1>2. CASE commit(q)
  BY Zenon, <1>2 DEF commit, Next, Step
<1>3. CASE abort(q)
  BY Zenon, <1>3 DEF abort, Next, Step
<1>4. ASSUME NEW a \in Addr, merge(q, a)
      PROVE  [Next]_vars
  BY Zenon, <1>4 DEF merge, Next, Step
<1>5. ASSUME NEW l \in Loc, load(q, l)
      PROVE  [Next]_vars
  <2>1. BlockOf[l] \in Addr
    BY Zenon, LocAssumption
  <2> QED
    BY Zenon, <1>5, <2>1 DEF load, Next, Step
<1>6. ASSUME NEW l \in Loc, NEW v \in Val, addToWriteBuffer(q, l, v)
      PROVE  [Next]_vars
  <2>1. BlockOf[l] \in Addr
    BY Zenon, LocAssumption
  <2> QED
    BY Zenon, <1>6, <2>1 DEF addToWriteBuffer, Next, Step
<1>7. ASSUME NEW l \in Loc, NEW v \in Val, outsideStore(q, l, v)
      PROVE  [Next]_vars
  <2>1. BlockOf[l] \in Addr
    BY Zenon, LocAssumption
  <2> QED
    BY Zenon, <1>7, <2>1 DEF outsideStore, Next, Step
<1> QED
  BY Zenon, <1>1, <1>2, <1>3, <1>4, <1>5, <1>6, <1>7 DEF DataStep

\* Whatever happens to the blocks, LazyData keeps the invariant of LazyCommit.
LEMMA DataIInv == DataSpec => []IInv
<1>1. DataInit => Init
  BY Zenon DEF DataInit
<1>2. [DataNext]_allVars => [Next]_vars
  BY Zenon, ControlStepOf DEF DataNext, allVars
<1>3. DataSpec => Spec
  BY <1>1, <1>2, PTL DEF DataSpec, Spec, allVars
<1> QED
  BY <1>3, Invariance, PTL

\* Typing of the data.
LEMMA DataTypeStep ==
  ASSUME DataInv, IInv, NEW q \in Proc, DataStep(q)
  PROVE  DataTypeOK'
<1> USE DEF DataTypeOK, Bytes, NoBytes
<1>0. /\ DataTypeOK /\ BlockOf \in [Loc -> Addr]
      /\ InitVal \in Val /\ None \notin Val
  BY Zenon, LocAssumption, ValAssumption DEF DataInv
<1>1. CASE ControlStep(q)
  BY Zenon, <1>0, <1>1 DEF ControlStep, dataVars
<1>2. CASE commit(q)
  <2>1. Live(q)
    BY Zenon, <1>2 DEF commit, commitTransaction
  <2>2. ASSUME NEW l \in Loc, BlockOf[l] \in writeSet[q]
        PROVE  line[q][l] \in Val
    <3>1. CacheData(q)
      BY Zenon DEF DataInv
    <3>2. line[q][l] = IF stored[q][l] # None THEN stored[q][l] ELSE mem[l]
      BY Zenon, <2>1, <2>2, <3>1 DEF CacheData
    <3>3. mem[l] \in Val /\ stored[q][l] \in Val \cup {None}
      BY Zenon, <1>0
    <3> QED
      BY Zenon, <3>2, <3>3
  <2>3. mem' \in [Loc -> Val]
    BY Zenon, <1>0, <1>2, <2>2 DEF commit
  <2> QED
    BY Zenon, <1>0, <1>2, <2>3 DEF commit
<1>3. CASE abort(q)
  BY Zenon, <1>0, <1>3 DEF abort, discardWriteBuffer
<1>4. ASSUME NEW a \in Addr, merge(q, a)
      PROVE  DataTypeOK'
  <2>1. \A l \in Loc : MergedByte(q, l) \in Val \cup {None}
    BY Zenon, <1>0 DEF MergedByte
  <2> QED
    BY Zenon, <1>0, <1>4, <2>1 DEF merge
<1>5. ASSUME NEW l \in Loc, load(q, l)
      PROVE  DataTypeOK'
  BY Zenon, <1>0, <1>5 DEF load
<1>6. ASSUME NEW l \in Loc, NEW v \in Val, addToWriteBuffer(q, l, v)
      PROVE  DataTypeOK'
  BY Zenon, <1>0, <1>6 DEF addToWriteBuffer
<1>7. ASSUME NEW l \in Loc, NEW v \in Val, outsideStore(q, l, v)
      PROVE  DataTypeOK'
  BY Zenon, <1>0, <1>7 DEF outsideStore
<1> QED
  BY Zenon, <1>1, <1>2, <1>3, <1>4, <1>5, <1>6, <1>7 DEF DataStep

-----------------------------------------------------------------------------
(* A step of one processor and the data of another.                        *)

\* What a step of q leaves alone at p, in LazyCommit and in the data.
SameControl(p) ==
  /\ inTx'[p] = inTx[p] /\ atCommit'[p] = atCommit[p]
  /\ readSet'[p] = readSet[p] /\ writeSet'[p] = writeSet[p]
  /\ wsetInWB'[p] = wsetInWB[p] /\ stale[p] \subseteq stale'[p]
  /\ Live(p)' => Live(p) /\ block'[p] = block[p]

SameData(p) ==
  /\ writeBuffer'[p] = writeBuffer[p] /\ line'[p] = line[p]
  /\ loaded'[p] = loaded[p] /\ stored'[p] = stored[p]

\* A byte that gets a new committed value is one p has not flushed, and not
\* read or read in vain.
NewValuesSeen(p) ==
  \A l \in Loc :
    mem'[l] # mem[l] =>
      /\ BlockOf[l] \in readSet[p] => BlockOf[l] \in stale'[p]
      /\ Live(p)' => BlockOf[l] \notin writeSet[p]

\* These three keep the data of p as the invariant says.
LEMMA SameDataInv ==
  ASSUME NEW p \in Proc, QuietData(p), BufferData(p), CacheData(p),
         SameControl(p), SameData(p), NewValuesSeen(p)
  PROVE  (QuietData(p) /\ BufferData(p) /\ CacheData(p))'
<1>1. QuietData(p)'
  BY Zenon DEF QuietData, SameControl, SameData
<1>2. BufferData(p)'
  BY Zenon DEF BufferData, SameControl, SameData, Empty
<1>3. CacheData(p)'
  BY Zenon DEF CacheData, SameControl, SameData, NewValuesSeen
<1> QED
  BY Zenon, <1>1, <1>2, <1>3

\* setAbortFlag spares the transactions that live on, and their blocks.
LEMMA AbortSpares ==
  ASSUME TypeOK, NEW S, NEW cause \in Causes \ {"Undefined"},
         setAbortFlag(S, cause), inTx' = inTx, NEW p \in Proc, Live(p)'
  PROVE  Live(p) /\ ~Hit(S, p) /\ BlocksAfterAbort(S, block)[p] = block[p]
BY Zenon DEF TypeOK, setAbortFlag, Live, abortFlag, Hit, BlocksAfterAbort, Causes

\* No step touches the data of another processor, and new values are seen.
LEMMA OthersStep ==
  ASSUME DataInv, IInv, NEW q \in Proc, DataStep(q), NEW p \in Proc \ {q}
  PROVE  SameControl(p) /\ SameData(p) /\ NewValuesSeen(p)
<1> USE DEF SameControl, SameData, NewValuesSeen
<1>0. TypeOK /\ DataTypeOK /\ BlockOf \in [Loc -> Addr]
  BY Zenon, LocAssumption DEF IInv, DataInv
<1>a. ASSUME inTx' = inTx, UNCHANGED <<abortCause, block>>
      PROVE  Live(p)' => Live(p) /\ block'[p] = block[p]
  BY Zenon, <1>a DEF Live, abortFlag
<1>b. ASSUME inTx' = inTx, NEW S, NEW cause \in Causes \ {"Undefined"},
             setAbortFlag(S, cause), block' = BlocksAfterAbort(S, block)
      PROVE  Live(p)' => Live(p) /\ block'[p] = block[p]
  BY Zenon, <1>0, <1>b, AbortSpares
<1>1. CASE ControlStep(q)
  <2>1. SameData(p) /\ NewValuesSeen(p)
    BY Zenon, <1>1 DEF ControlStep, dataVars
  <2>2. CASE beginTransaction(q)
    BY Zenon, <1>0, <2>1, <2>2 DEF beginTransaction, TypeOK, Live, abortFlag
  <2>3. CASE cancelTransaction(q)
    BY Zenon, <1>0, <2>1, <2>3
    DEF cancelTransaction, TypeOK, Live, abortFlag, isoVars, vmVars
  <2>4. CASE xactReplacement(q)
    <3>1. Live(p)' => Live(p) /\ block'[p] = block[p]
      BY Zenon, <1>b, <2>4 DEF xactReplacement, Causes
    <3> QED
      BY Zenon, <2>1, <2>4, <3>1 DEF xactReplacement, isoVars
  <2>5. CASE initiateValidateTransaction(q)
    BY Zenon, <1>0, <2>1, <2>5
    DEF initiateValidateTransaction, TypeOK, Live, abortFlag, isoVars, vmVars
  <2>6. CASE commitWriteBuffer(q)
    BY Zenon, <1>0, <2>1, <2>6
    DEF commitWriteBuffer, flushWriteBuffer, TypeOK, Live, abortFlag, isoVars
  <2>7. CASE signalAbort(q)
    BY Zenon, <1>0, <2>1, <2>7
    DEF signalAbort, TypeOK, Live, abortFlag, isoVars, vmVars
  <2>8. ASSUME NEW a \in Addr, nonTransactionalLoad(q, a)
        PROVE  SameControl(p) /\ SameData(p) /\ NewValuesSeen(p)
    <3>1. Live(p)' => Live(p) /\ block'[p] = block[p]
      BY Zenon, <1>b, <2>8 DEF nonTransactionalLoad, Causes
    <3> QED
      BY Zenon, <2>1, <2>8, <3>1 DEF nonTransactionalLoad, isoVars
  <2> QED
    BY Zenon, <1>1, <2>2, <2>3, <2>4, <2>5, <2>6, <2>7, <2>8 DEF ControlStep
<1>2. CASE commit(q)
  <2>1. commitTransaction(q)
    BY Zenon, <1>2 DEF commit
  <2>2. SameControl(p)
    BY Zenon, <1>0, <2>1 DEF commitTransaction, TypeOK, Live, abortFlag, NewValues
  <2>3. SameData(p)
    BY Zenon, <1>0, <1>2 DEF commit, DataTypeOK
  <2>4. NewValuesSeen(p)
    <3> SUFFICES ASSUME NEW l \in Loc, mem'[l] # mem[l]
                 PROVE  /\ BlockOf[l] \in readSet[p] => BlockOf[l] \in stale'[p]
                        /\ Live(p)' => BlockOf[l] \notin writeSet[p]
      OBVIOUS
    <3>1. BlockOf[l] \in writeSet[q]
      BY Zenon, <1>2 DEF commit
    <3>2. BlockOf[l] \in readSet[p] => BlockOf[l] \in stale'[p]
      BY Zenon, <2>1, <3>1 DEF commitTransaction, NewValues
    <3>3. Live(q) /\ (Live(p)' => Live(p))
      BY Zenon, <2>1, <2>2 DEF commitTransaction
    <3>4. Live(p) => BlockOf[l] \notin writeSet[p]
      BY Zenon, <3>1, <3>3 DEF IInv, Isolation
    <3> QED
      BY Zenon, <3>2, <3>3, <3>4
  <2> QED
    BY Zenon, <2>2, <2>3, <2>4
<1>3. CASE abort(q)
  <2>1. SameControl(p)
    BY Zenon, <1>0, <1>3 DEF abort, abortTransaction, TypeOK, Live, abortFlag
  <2>2. SameData(p) /\ NewValuesSeen(p)
    BY Zenon, <1>0, <1>3 DEF abort, discardWriteBuffer, DataTypeOK
  <2> QED
    BY Zenon, <2>1, <2>2
<1>4. ASSUME NEW a \in Addr, merge(q, a)
      PROVE  SameControl(p) /\ SameData(p) /\ NewValuesSeen(p)
  <2>1. mergeDataFromWriteBuffer(q, a)
    BY Zenon, <1>4 DEF merge
  <2>2. block'[p] = BlocksAfterAbort(Sharers(q, a), block)[p]
    BY Zenon, <1>0, <2>1
    DEF mergeDataFromWriteBuffer, flushWriteBuffer, BlocksAfterAbort
  <2>3. Live(p)' => Live(p) /\ block'[p] = block[p]
    BY Zenon, <1>0, <2>1, <2>2, AbortSpares DEF mergeDataFromWriteBuffer, Causes
  <2>4. SameControl(p)
    BY Zenon, <1>0, <2>1, <2>3 DEF mergeDataFromWriteBuffer, TypeOK
  <2>5. SameData(p) /\ NewValuesSeen(p)
    BY Zenon, <1>0, <1>4 DEF merge, DataTypeOK
  <2> QED
    BY Zenon, <2>4, <2>5
<1>5. ASSUME NEW l \in Loc, load(q, l)
      PROVE  SameControl(p) /\ SameData(p) /\ NewValuesSeen(p)
  <2>1. SameData(p) /\ NewValuesSeen(p)
    BY Zenon, <1>0, <1>5 DEF load, DataTypeOK
  <2>2. CASE UNCHANGED vars
    BY Zenon, <1>a, <2>1, <2>2 DEF vars, isoVars, vmVars
  <2>3. CASE isolateTransactionLoad(q, BlockOf[l])
    <3>1. Live(p)' => Live(p) /\ block'[p] = block[p]
      BY Zenon, <1>b, <2>3 DEF isolateTransactionLoad, Causes
    <3> QED
      BY Zenon, <1>0, <2>1, <2>3, <3>1 DEF isolateTransactionLoad, TypeOK
  <2> QED
    BY Zenon, <1>5, <2>2, <2>3 DEF load
<1>6. ASSUME NEW l \in Loc, NEW v \in Val, addToWriteBuffer(q, l, v)
      PROVE  SameControl(p) /\ SameData(p) /\ NewValuesSeen(p)
  <2>1. SameData(p) /\ NewValuesSeen(p)
    BY Zenon, <1>0, <1>6 DEF addToWriteBuffer, DataTypeOK
  <2>2. SameControl(p)
    BY Zenon, <1>0, <1>6
    DEF addToWriteBuffer, redirectStoreToWriteBuffer, TypeOK, Live, abortFlag
  <2> QED
    BY Zenon, <2>1, <2>2
<1>7. ASSUME NEW l \in Loc, NEW v \in Val, outsideStore(q, l, v)
      PROVE  SameControl(p) /\ SameData(p) /\ NewValuesSeen(p)
  <2>1. SameData(p)
    BY Zenon, <1>0, <1>7 DEF outsideStore, DataTypeOK
  <2>2. \A k \in Loc \ {l} : mem'[k] = mem[k]
    BY Zenon, <1>0, <1>7 DEF outsideStore, DataTypeOK
  <2>3. CASE nonTransactionalStore(q, BlockOf[l])
    <3> DEFINE S == Sharers(q, BlockOf[l])
    <3>1. Live(p)' => Live(p) /\ block'[p] = block[p]
      BY Zenon, <1>b, <2>3 DEF nonTransactionalStore, Causes
    <3>2. SameControl(p)
      BY Zenon, <1>0, <2>3, <3>1 DEF nonTransactionalStore, TypeOK, NewValues, isoVars
    <3>3. BlockOf[l] \in readSet[p] => BlockOf[l] \in stale'[p]
      BY Zenon, <2>3 DEF nonTransactionalStore, NewValues
    <3>4. Live(p)' => Live(p) /\ ~Hit(S, p)
      BY Zenon, <1>0, <2>3, AbortSpares DEF nonTransactionalStore, Causes
    <3>5. Live(p)' => BlockOf[l] \notin writeSet[p]
      BY Zenon, <3>4 DEF Hit, Sharers, Live
    <3> QED
      BY Zenon, <2>1, <2>2, <3>2, <3>3, <3>5
  <2>4. CASE Sharers(q, BlockOf[l]) = {} /\ UNCHANGED vars
    <3>1. SameControl(p)
      BY Zenon, <1>a, <2>4 DEF vars, isoVars, vmVars
    <3>2. inTx[p] => BlockOf[l] \notin readSet[p] \cup writeSet[p]
      BY Zenon, <2>4 DEF Sharers
    <3>3. ~inTx[p] => readSet[p] = {}
      BY Zenon DEF IInv, Structure, Quiet
    <3> QED
      BY Zenon, <2>1, <2>2, <3>1, <3>2, <3>3 DEF Live
  <2> QED
    BY Zenon, <1>7, <2>3, <2>4 DEF outsideStore
<1> QED
  BY Zenon, <1>1, <1>2, <1>3, <1>4, <1>5, <1>6, <1>7 DEF DataStep

-----------------------------------------------------------------------------
(* A step of a processor and its own data.                                 *)

\* Control steps of q move no data, and leave its sets alone.
LEMMA OwnControl ==
  ASSUME DataInv, IInv, NEW q \in Proc, ControlStep(q)
  PROVE  (QuietData(q) /\ BufferData(q) /\ CacheData(q))'
<1>0. TypeOK /\ QuietData(q) /\ BufferData(q) /\ CacheData(q)
  BY Zenon DEF IInv, DataInv
<1>1. UNCHANGED dataVars
  BY Zenon DEF ControlStep
<1>2. CASE beginTransaction(q)
  <2>1. /\ inTx'[q] /\ ~inTx[q] /\ writeSet'[q] = {}
        /\ UNCHANGED <<block, wsetInWB, readSet, stale, mem>>
        /\ writeBuffer'[q] = NoBytes /\ stored'[q] = NoBytes
        /\ loaded'[q] = NoBytes
    BY Zenon, <1>0, <1>1, <1>2 DEF beginTransaction, TypeOK, QuietData, dataVars
  <2> QED
    BY Zenon, <2>1 DEF QuietData, BufferData, CacheData, NoBytes
<1>3. ASSUME /\ UNCHANGED <<inTx, readSet, writeSet, wsetInWB, stale>>
             /\ atCommit[q] => atCommit'[q]
             /\ Live(q)' => Live(q)
             /\ Live(q)' => \A a \in Addr :
                  block'[q][a] = "absent" <=> block[q][a] = "absent"
      PROVE  (QuietData(q) /\ BufferData(q) /\ CacheData(q))'
  <2>1. BlockOf \in [Loc -> Addr]
    BY Zenon, LocAssumption
  <2>2. QuietData(q)' /\ CacheData(q)'
    BY Zenon, <1>0, <1>1, <1>3 DEF QuietData, CacheData, dataVars
  <2>3. Live(q)' /\ Empty(block[q])' => Empty(block[q])
    BY Zenon, <1>3 DEF Empty
  <2>4. BufferData(q)'
    BY Zenon, <1>0, <1>1, <1>3, <2>1, <2>3 DEF BufferData, dataVars
  <2> QED
    BY Zenon, <2>2, <2>4
<1>4. CASE cancelTransaction(q)
  BY Zenon, <1>0, <1>3, <1>4
  DEF cancelTransaction, TypeOK, Live, abortFlag, isoVars, vmVars
<1>5. CASE xactReplacement(q)
  <2>1. Live(q)' => Live(q) /\ block'[q] = block[q]
    BY Zenon, <1>0, <1>5, AbortSpares DEF xactReplacement, Causes
  <2> QED
    BY Zenon, <1>3, <1>5, <2>1 DEF xactReplacement, isoVars
<1>6. CASE initiateValidateTransaction(q)
  BY Zenon, <1>0, <1>3, <1>6
  DEF initiateValidateTransaction, TypeOK, Live, abortFlag, isoVars, vmVars
<1>7. CASE commitWriteBuffer(q)
  <2>1. \A a \in Addr : block'[q][a] = "absent" <=> block[q][a] = "absent"
    BY <1>0, <1>7
    DEF commitWriteBuffer, flushWriteBuffer, Blocks, TypeOK
  <2> QED
    BY Zenon, <1>0, <1>3, <1>7, <2>1
    DEF commitWriteBuffer, Live, abortFlag, isoVars
<1>8. CASE signalAbort(q)
  BY Zenon, <1>0, <1>3, <1>8 DEF signalAbort, Live, abortFlag, isoVars, vmVars
<1>9. ASSUME NEW a \in Addr, nonTransactionalLoad(q, a)
      PROVE  (QuietData(q) /\ BufferData(q) /\ CacheData(q))'
  <2>1. Live(q)' => Live(q) /\ block'[q] = block[q]
    BY Zenon, <1>0, <1>9, AbortSpares DEF nonTransactionalLoad, Causes
  <2> QED
    BY Zenon, <1>3, <1>9, <2>1 DEF nonTransactionalLoad, isoVars
<1> QED
  BY Zenon, <1>2, <1>4, <1>5, <1>6, <1>7, <1>8, <1>9 DEF ControlStep

\* A merge completes block a with the committed bytes: no other transaction
\* can have a newer value of them.
LEMMA OwnMerge ==
  ASSUME DataInv, IInv, NEW q \in Proc, NEW a \in Addr, merge(q, a)
  PROVE  (QuietData(q) /\ BufferData(q) /\ CacheData(q))'
<1>0. /\ TypeOK /\ DataTypeOK /\ BlockOf \in [Loc -> Addr]
      /\ QuietData(q) /\ BufferData(q) /\ CacheData(q)
  BY Zenon, LocAssumption DEF IInv, DataInv
<1>1. mergeDataFromWriteBuffer(q, a)
  BY Zenon DEF merge
<1>2. inTx[q] /\ block[q][a] = "Issued" /\ atCommit[q]
  BY Zenon, <1>1 DEF mergeDataFromWriteBuffer, IInv, Structure, Quiet, Flags, Sets,
              Empty
<1>3. /\ UNCHANGED <<inTx, atCommit, readSet, wsetInWB, stale, mem, loaded,
                    stored>>
      /\ writeSet'[q] = writeSet[q] \cup {a}
  BY Zenon, <1>0, <1>1 DEF merge, mergeDataFromWriteBuffer, TypeOK
<1>4. Live(q)' => Live(q)
  BY Zenon, <1>0, <1>1, AbortSpares DEF mergeDataFromWriteBuffer, Causes
<1>5. \A l \in Loc : line'[q][l] = IF BlockOf[l] = a THEN MergedByte(q, l)
                                  ELSE line[q][l]
  BY Zenon, <1>0 DEF merge, DataTypeOK, Bytes
<1>6. writeBuffer'[q] = IF Empty(block'[q]) THEN NoBytes ELSE writeBuffer[q]
  BY Zenon, <1>0 DEF merge, DataTypeOK
<1>7. \A b \in Addr :
        block'[q][b] # "absent" => b # a /\ block[q][b] # "absent"
  <2> DEFINE b == [block[q] EXCEPT ![a] = "absent"]
  <2>1. block \in [Proc -> [Addr -> Statuses]]
    BY Zenon, <1>0 DEF TypeOK, Statuses
  <2>2. \A c \in Addr : b[c] # "absent" => c # a /\ block[q][c] # "absent"
    BY Zenon, <2>1
  <2>3. BlocksAfterAbort(Sharers(q, a), block) \in [Proc -> [Addr -> Statuses]]
    BY Zenon, <1>0, <1>1, AbortTyping DEF mergeDataFromWriteBuffer, Causes
  <2>4. \A c \in Addr : block'[q][c] # "absent" => b[c] # "absent"
    <3>1. \/ block'[q] = b
          \/ \E S \in SUBSET Blocks(b, "Pending") :
               block'[q] = [c \in Addr |-> IF c \in S THEN "Issued" ELSE b[c]]
      BY Zenon, <1>1, <2>3 DEF mergeDataFromWriteBuffer, flushWriteBuffer
    <3> QED
      BY Zenon, <3>1 DEF Blocks
  <2> QED
    BY Zenon, <2>2, <2>4
<1>8. QuietData(q)'
  BY Zenon, <1>2, <1>3 DEF QuietData
<1>9. BufferData(q)'
  <2>1. ASSUME NEW l \in Loc, Live(q)', block'[q][BlockOf[l]] # "absent"
        PROVE  writeBuffer'[q][l] = stored'[q][l]
    <3>1. BlockOf[l] \in Addr /\ ~Empty(block'[q])
      BY Zenon, <1>0, <2>1 DEF Empty
    <3>2. block[q][BlockOf[l]] # "absent"
      BY Zenon, <1>7, <2>1, <3>1
    <3> QED
      BY Zenon, <1>0, <1>3, <1>4, <1>6, <2>1, <3>1, <3>2 DEF BufferData
  <2>2. Empty(block[q])' => writeBuffer'[q] = NoBytes
    BY Zenon, <1>6 DEF Empty
  <2> QED
    BY Zenon, <1>0, <1>2, <1>3, <2>1, <2>2 DEF BufferData
<1>10. CacheData(q)'
  <2> SUFFICES ASSUME NEW l \in Loc, Live(q)', BlockOf[l] \in writeSet'[q]
               PROVE  line'[q][l] = IF stored[q][l] # None THEN stored[q][l]
                                    ELSE mem[l]
    BY Zenon, <1>0, <1>3 DEF CacheData
  <2>1. CASE BlockOf[l] = a
    <3>1. writeBuffer[q][l] = stored[q][l]
      BY Zenon, <1>0, <1>2, <1>4, <2>1 DEF BufferData
    <3> QED
      BY Zenon, <1>5, <2>1, <3>1 DEF MergedByte
  <2>2. CASE BlockOf[l] # a
    BY Zenon, <1>0, <1>3, <1>4, <1>5, <2>2 DEF CacheData
  <2> QED
    BY Zenon, <2>1, <2>2
<1> QED
  BY Zenon, <1>8, <1>9, <1>10

\* The end of a transaction leaves no data, and the accesses of a transaction
\* keep the bytes it has loaded and stored.
LEMMA OwnAccess ==
  ASSUME DataInv, IInv, NEW q \in Proc,
         \/ commit(q) \/ abort(q)
         \/ \E l \in Loc :
              load(q, l) \/ \E v \in Val : addToWriteBuffer(q, l, v)
                                           \/ outsideStore(q, l, v)
  PROVE  (QuietData(q) /\ BufferData(q) /\ CacheData(q))'
<1>0. /\ TypeOK /\ DataTypeOK /\ BlockOf \in [Loc -> Addr]
      /\ QuietData(q) /\ BufferData(q) /\ CacheData(q) /\ Quiet(q)
  BY Zenon, LocAssumption DEF IInv, DataInv, Structure
<1>1. ASSUME ~inTx'[q], writeBuffer'[q] = NoBytes, loaded'[q] = NoBytes,
             stored'[q] = NoBytes
      PROVE  (QuietData(q) /\ BufferData(q) /\ CacheData(q))'
  BY Zenon, <1>1 DEF QuietData, BufferData, CacheData, Live, NoBytes
<1>2. CASE commit(q)
  <2>1. commitTransaction(q) /\ Live(q) /\ committed[q]
    BY Zenon, <1>2 DEF commit, commitTransaction, canCommitTransaction, Live
  <2>2. Empty(block[q])
    BY Zenon, <2>1 DEF IInv, Structure, Sets
  <2>3. writeBuffer[q] = NoBytes
    BY Zenon, <1>0, <2>1, <2>2 DEF BufferData
  <2>4. ~inTx'[q] /\ writeBuffer'[q] = NoBytes
    BY Zenon, <1>0, <1>2, <2>1, <2>3 DEF commit, commitTransaction, TypeOK
  <2>5. loaded'[q] = NoBytes /\ stored'[q] = NoBytes
    BY Zenon, <1>0, <1>2 DEF commit, DataTypeOK
  <2> QED
    BY Zenon, <1>1, <2>4, <2>5
<1>3. CASE abort(q)
  <2>1. ~inTx'[q]
    BY Zenon, <1>0, <1>3 DEF abort, abortTransaction, TypeOK
  <2>2. /\ writeBuffer'[q] = NoBytes
        /\ loaded'[q] = NoBytes /\ stored'[q] = NoBytes
    BY Zenon, <1>0, <1>3 DEF abort, discardWriteBuffer, DataTypeOK
  <2> QED
    BY Zenon, <1>1, <2>1, <2>2
<1>4. ASSUME NEW l \in Loc, load(q, l)
      PROVE  (QuietData(q) /\ BufferData(q) /\ CacheData(q))'
  <2>1. /\ UNCHANGED <<inTx, atCommit, wsetInWB, writeSet, stale, mem,
                      writeBuffer, line, stored>>
        /\ BlockOf[l] \in readSet'[q] /\ readSet[q] \subseteq readSet'[q]
        /\ Live(q)
    <3>1. UNCHANGED <<mem, writeBuffer, line, stored>>
      BY Zenon, <1>4 DEF load
    <3>2. CASE UNCHANGED vars /\ Live(q) /\ BlockOf[l] \in readSet[q]
      BY Zenon, <3>1, <3>2 DEF vars, isoVars
    <3>3. CASE isolateTransactionLoad(q, BlockOf[l])
      BY Zenon, <1>0, <3>1, <3>3 DEF isolateTransactionLoad, TypeOK
    <3> QED
      BY Zenon, <1>4, <3>2, <3>3 DEF load
  <2>2. Live(q)' => block'[q] = block[q]
    <3>1. CASE UNCHANGED vars
      BY Zenon, <3>1 DEF vars, vmVars
    <3>2. CASE isolateTransactionLoad(q, BlockOf[l])
      BY Zenon, <1>0, <3>2, AbortSpares DEF isolateTransactionLoad, Causes
    <3> QED
      BY Zenon, <1>4, <3>1, <3>2 DEF load
  <2>3. \A k \in Loc : \/ loaded'[q][k] = loaded[q][k]
                       \/ k = l /\ loaded'[q][k] = mem[k]
    BY Zenon, <1>0, <1>4 DEF load, DataTypeOK, Bytes
  <2>4. QuietData(q)'
    BY Zenon, <2>1 DEF QuietData, Live
  <2>5. BufferData(q)'
    BY Zenon, <1>0, <2>1, <2>2 DEF BufferData, Empty
  <2>6. CacheData(q)'
    BY Zenon, <1>0, <2>1, <2>3 DEF CacheData
  <2> QED
    BY Zenon, <2>4, <2>5, <2>6
<1>5. ASSUME NEW l \in Loc, NEW v \in Val, addToWriteBuffer(q, l, v)
      PROVE  (QuietData(q) /\ BufferData(q) /\ CacheData(q))'
  <2>1. /\ UNCHANGED <<inTx, abortCause, atCommit, readSet, writeSet, stale,
                      mem, line, loaded>>
        /\ Live(q) /\ ~atCommit[q] /\ BlockOf[l] \in wsetInWB'[q]
        /\ wsetInWB[q] \subseteq wsetInWB'[q]
        /\ block'[q] = [block[q] EXCEPT ![BlockOf[l]] = "Pending"]
    BY Zenon, <1>0, <1>5 DEF addToWriteBuffer, redirectStoreToWriteBuffer, TypeOK
  <2>2. /\ writeBuffer'[q] = [writeBuffer[q] EXCEPT ![l] = v]
        /\ stored'[q] = [stored[q] EXCEPT ![l] = v]
        /\ writeBuffer[q] = stored[q]
    BY Zenon, <1>0, <1>5, <2>1 DEF addToWriteBuffer, DataTypeOK, BufferData
  <2>3. writeSet[q] = {}
    <3>1. Flags(q) /\ Sets(q)
      BY Zenon DEF IInv, Structure
    <3>2. ~committing[q]
      BY Zenon, <2>1, <3>1 DEF Flags
    <3>3. writeSet[q] \subseteq Addr
      BY Zenon, <1>0 DEF TypeOK
    <3> QED
      BY Zenon, <3>1, <3>2, <3>3 DEF Sets
  <2>4. ~Empty(block'[q])
    <3>1. BlockOf[l] \in Addr
      BY Zenon, LocAssumption
    <3>2. block[q] \in [Addr -> {"absent", "Pending", "Issued"}]
      BY Zenon, <1>0 DEF TypeOK
    <3>3. block'[q][BlockOf[l]] = "Pending"
      BY Zenon, <2>1, <3>1, <3>2
    <3> QED
      BY Zenon, <3>1, <3>3 DEF Empty
  <2>5. QuietData(q)'
    BY Zenon, <2>1 DEF QuietData, Live
  <2>6. BufferData(q)'
    <3>1. Empty(block[q])' = Empty(block'[q])
      BY Zenon DEF Empty
    <3>2. stored[q] \in [Loc -> Val \cup {None}]
      BY Zenon, <1>0 DEF DataTypeOK, Bytes
    <3> QED
      BY Zenon, <1>0, <2>1, <2>2, <2>4, <3>1, <3>2 DEF BufferData
  <2>7. CacheData(q)'
    BY Zenon, <1>0, <2>1, <2>3 DEF CacheData
  <2> QED
    BY Zenon, <2>5, <2>6, <2>7
<1>6. ASSUME NEW l \in Loc, NEW v \in Val, outsideStore(q, l, v)
      PROVE  (QuietData(q) /\ BufferData(q) /\ CacheData(q))'
  <2>1. ~inTx[q] /\ inTx' = inTx
    BY Zenon, <1>6 DEF outsideStore, nonTransactionalStore, vars
  <2>2. UNCHANGED <<writeBuffer, loaded, stored>>
    BY Zenon, <1>6 DEF outsideStore
  <2> QED
    BY Zenon, <1>0, <1>1, <2>1, <2>2 DEF QuietData
<1> QED
  BY Zenon, <1>2, <1>3, <1>4, <1>5, <1>6

\* DataInv is an invariant, with IInv.
LEMMA DataStepInv ==
  ASSUME DataInv, IInv, NEW q \in Proc, DataStep(q)
  PROVE  DataInv'
<1>1. DataTypeOK'
  BY Zenon, DataTypeStep
<1>2. (QuietData(q) /\ BufferData(q) /\ CacheData(q))'
  BY Zenon, OwnControl, OwnMerge, OwnAccess DEF DataStep
<1>3. ASSUME NEW p \in Proc \ {q}
      PROVE  (QuietData(p) /\ BufferData(p) /\ CacheData(p))'
  <2>1. QuietData(p) /\ BufferData(p) /\ CacheData(p)
    BY Zenon DEF DataInv
  <2> QED
    BY Zenon, <2>1, OthersStep, SameDataInv
<1> QED
  BY Zenon, <1>1, <1>2, <1>3 DEF DataInv

\* The bytes of every transaction are where DataInv says, whatever the order
\* of flushes, merges, conflicts and aborts.
THEOREM DataInvariance == DataSpec => []DataInv
<1>1. DataInit => DataInv
  <2> SUFFICES ASSUME DataInit
               PROVE  DataInv
    OBVIOUS
  <2>1. DataTypeOK
    BY Zenon, ValAssumption DEF DataInit, DataTypeOK, Bytes, NoBytes
  <2>2. ASSUME NEW p \in Proc
        PROVE  QuietData(p) /\ BufferData(p) /\ CacheData(p)
    BY Zenon DEF DataInit, Init, QuietData, BufferData, CacheData, NoBytes, Live
  <2> QED
    BY Zenon, <2>1, <2>2 DEF DataInv
<1>2. DataInv /\ IInv /\ [DataNext]_allVars => DataInv'
  <2> SUFFICES ASSUME DataInv, IInv, [DataNext]_allVars
               PROVE  DataInv'
    OBVIOUS
  <2>1. CASE DataNext
    BY Zenon, <2>1, DataStepInv DEF DataNext
  <2>2. CASE UNCHANGED allVars
    <3>1. DataTypeOK'
      BY Zenon, <2>2 DEF allVars, dataVars, DataInv, DataTypeOK
    <3>2. ASSUME NEW p \in Proc
          PROVE  SameControl(p) /\ SameData(p) /\ NewValuesSeen(p)
      BY Zenon, <2>2 DEF allVars, vars, vmVars, isoVars, dataVars, SameControl,
                  SameData, NewValuesSeen, Live, abortFlag
    <3> QED
      BY Zenon, <3>1, <3>2, SameDataInv DEF DataInv
  <2> QED
    BY Zenon, <2>1, <2>2
<1> QED
  BY <1>1, <1>2, DataIInv, PTL DEF DataSpec, allVars

-----------------------------------------------------------------------------
(* Refinement                                                              *)

\* The running transactions of AtomicTM are the ones that can still commit.
LEMMA RunningLive ==
  ASSUME DataTypeOK
  PROVE  A!Running = {p \in Proc : Live(p)}
BY Zenon DEF DataTypeOK, A!Running, txStatus

\* The transactions a step dooms.
DoomedNow == {p \in Proc : Live(p) /\ ~Live(p)'}

\* How the mapped state changes when transactions are doomed and the others
\* go on.
LEMMA DoomMapping ==
  ASSUME inTx' = inTx, outcome' = outcome,
         \A p \in Proc : Live(p)' => Live(p)
  PROVE  txStatus' = [p \in Proc |-> IF p \in DoomedNow THEN "aborted"
                                    ELSE txStatus[p]]
<1> SUFFICES ASSUME NEW p \in Proc
             PROVE  txStatus'[p] = IF p \in DoomedNow THEN "aborted"
                                   ELSE txStatus[p]
  BY Zenon DEF txStatus
<1>1. txStatus'[p] = IF Live(p)' THEN "running"
                     ELSE IF inTx'[p] THEN "aborted" ELSE outcome'[p]
  BY Zenon DEF txStatus
<1> QED
  BY Zenon, <1>1 DEF txStatus, DoomedNow, Live

\* A step that only dooms transactions is an Abort of AtomicTM (of none of
\* them, if it dooms none).
LEMMA DoomStep ==
  ASSUME DataTypeOK, inTx' = inTx, UNCHANGED <<mem, loaded, stored, outcome>>,
         \A p \in Proc : Live(p)' => Live(p)
  PROVE  A!Next
<1>1. DoomedNow \subseteq A!Running
  BY Zenon, RunningLive DEF DoomedNow
<1>2. txReads' = [p \in Proc |-> IF p \in DoomedNow THEN A!NoValues
                                ELSE txReads[p]]
  <2>1. txReads' = [p \in Proc |-> IF Live(p)' THEN loaded[p] ELSE NoBytes]
    BY Zenon DEF txReads, NoBytes
  <2> QED
    BY Zenon, <2>1 DEF txReads, DoomedNow, A!NoValues, NoBytes
<1>3. txWrites' = [p \in Proc |-> IF p \in DoomedNow THEN A!NoValues
                                 ELSE txWrites[p]]
  <2>1. txWrites' = [p \in Proc |-> IF Live(p)' THEN stored[p] ELSE NoBytes]
    BY Zenon DEF txWrites, NoBytes
  <2> QED
    BY Zenon, <2>1 DEF txWrites, DoomedNow, A!NoValues, NoBytes
<1>4. A!Abort(DoomedNow)
  BY Zenon, <1>1, <1>2, <1>3, DoomMapping DEF A!Abort, A!End
<1>5. DoomedNow \in SUBSET Proc
  BY Zenon DEF DoomedNow
<1> QED
  BY Zenon, <1>4, <1>5 DEF A!Next

\* The mapped state of the processors after a step, one at a time.
LEMMA MappedNext ==
  /\ txStatus' = [p \in Proc |-> IF Live(p)' THEN "running"
                    ELSE IF inTx'[p] THEN "aborted" ELSE outcome'[p]]
  /\ txReads' = [p \in Proc |-> IF Live(p)' THEN loaded'[p] ELSE NoBytes]
  /\ txWrites' = [p \in Proc |-> IF Live(p)' THEN stored'[p] ELSE NoBytes]
BY Zenon DEF txStatus, txReads, txWrites, NoBytes

\* The control steps are a Begin, or doom some transactions or none.
LEMMA ControlRefines ==
  ASSUME DataInv, IInv, NEW q \in Proc, ControlStep(q)
  PROVE  A!Next
<1>0. TypeOK /\ DataTypeOK /\ UNCHANGED <<mem, loaded, stored, outcome>>
  BY Zenon DEF IInv, DataInv, ControlStep, dataVars
<1>1. CASE beginTransaction(q)
  <2>1. ~inTx[q] /\ inTx' = [inTx EXCEPT ![q] = TRUE] /\ ~abortFlag(q)
        /\ abortCause' = abortCause
    BY Zenon, <1>1 DEF beginTransaction, IInv, Structure, Quiet
  <2>2. \A p \in Proc : Live(p)' <=> p = q \/ Live(p)
    BY Zenon, <1>0, <2>1 DEF Live, abortFlag, TypeOK
  <2>3. loaded[q] = NoBytes /\ stored[q] = NoBytes /\ ~Live(q)
    BY Zenon, <2>1 DEF DataInv, QuietData, Live
  <2>4. txStatus' = [txStatus EXCEPT ![q] = "running"]
    BY Zenon, <1>0, <2>1, <2>2, MappedNext DEF txStatus, TypeOK
  <2>5. txReads' = txReads /\ txWrites' = txWrites
    BY Zenon, <1>0, <2>2, <2>3, MappedNext DEF txReads, txWrites
  <2>6. A!Begin(q)
    BY Zenon, <1>0, <2>3, <2>4, <2>5, RunningLive DEF A!Begin
  <2> QED
    BY Zenon, <2>6 DEF A!Next
<1>2. CASE ~beginTransaction(q)
  <2>1. inTx' = inTx
    BY Zenon, <1>2 DEF ControlStep, cancelTransaction, xactReplacement,
                initiateValidateTransaction, commitWriteBuffer, signalAbort,
                nonTransactionalLoad
  <2>2. \A p \in Proc : Live(p)' => Live(p)
    <3>1. CASE cancelTransaction(q)
      BY Zenon, <1>0, <3>1 DEF cancelTransaction, Live, abortFlag, TypeOK
    <3>2. CASE xactReplacement(q)
      BY Zenon, <1>0, <2>1, <3>2, AbortSpares DEF xactReplacement, Causes
    <3>3. CASE \/ initiateValidateTransaction(q) \/ commitWriteBuffer(q)
               \/ signalAbort(q)
      BY Zenon, <3>3 DEF initiateValidateTransaction, commitWriteBuffer, signalAbort,
                  Live, abortFlag
    <3>4. ASSUME NEW a \in Addr, nonTransactionalLoad(q, a)
          PROVE  \A p \in Proc : Live(p)' => Live(p)
      BY Zenon, <1>0, <2>1, <3>4, AbortSpares DEF nonTransactionalLoad, Causes
    <3> QED
      BY Zenon, <1>2, <3>1, <3>2, <3>3, <3>4 DEF ControlStep
  <2> QED
    BY Zenon, <1>0, <2>1, <2>2, DoomStep
<1> QED
  BY Zenon, <1>1, <1>2

\* A merge dooms the sharers of the block.
LEMMA MergeRefines ==
  ASSUME DataInv, IInv, NEW q \in Proc, NEW a \in Addr, merge(q, a)
  PROVE  A!Next
<1>1. TypeOK /\ DataTypeOK /\ UNCHANGED <<mem, loaded, stored, outcome>>
  BY Zenon DEF IInv, DataInv, merge
<1>2. /\ inTx' = inTx
      /\ setAbortFlag(Sharers(q, a), "TxStore")
  BY Zenon DEF merge, mergeDataFromWriteBuffer
<1>3. \A p \in Proc : Live(p)' => Live(p)
  BY Zenon, <1>1, <1>2, AbortSpares DEF Causes
<1> QED
  BY Zenon, <1>1, <1>2, <1>3, DoomStep

\* The commit publishes exactly the bytes stored, and the bytes loaded are
\* still the committed ones.
LEMMA CommitRefines ==
  ASSUME DataInv, IInv, NEW q \in Proc, commit(q)
  PROVE  A!Next
<1>0. /\ TypeOK /\ DataTypeOK /\ BlockOf \in [Loc -> Addr]
      /\ BufferData(q) /\ CacheData(q)
  BY Zenon, LocAssumption DEF IInv, DataInv
<1>1. commitTransaction(q) /\ Live(q) /\ committed[q]
  BY Zenon DEF commit, commitTransaction, canCommitTransaction, Live
<1>2. stale[q] = {}
  BY Zenon, <1>1 DEF IInv, NoStaleRead
<1>3. \A a \in Addr : a \in wsetInWB[q] => a \in writeSet[q]
  BY Zenon, <1>1 DEF IInv, Structure, Sets, Empty, Live
<1>4. ASSUME NEW l \in Loc
      PROVE  txReads[q][l] \in {None, mem[l]}
  BY Zenon, <1>0, <1>1, <1>2 DEF txReads, CacheData
<1>5. mem' = [l \in Loc |-> IF txWrites[q][l] # None THEN txWrites[q][l]
                           ELSE mem[l]]
  <2> SUFFICES ASSUME NEW l \in Loc
               PROVE  (IF BlockOf[l] \in writeSet[q] THEN line[q][l]
                       ELSE mem[l])
                    = (IF stored[q][l] # None THEN stored[q][l] ELSE mem[l])
    BY Zenon, <1>1 DEF commit, txWrites
  <2>1. stored[q][l] # None => BlockOf[l] \in writeSet[q]
    BY Zenon, <1>0, <1>3 DEF BufferData
  <2>2. BlockOf[l] \in writeSet[q]
          => line[q][l] = IF stored[q][l] # None THEN stored[q][l] ELSE mem[l]
    BY Zenon, <1>0, <1>1 DEF CacheData
  <2> QED
    BY Zenon, <2>1, <2>2
<1>6. /\ inTx' = [inTx EXCEPT ![q] = FALSE] /\ abortCause' = abortCause
      /\ outcome' = [outcome EXCEPT ![q] = "committed"]
      /\ loaded' = [loaded EXCEPT ![q] = NoBytes]
      /\ stored' = [stored EXCEPT ![q] = NoBytes]
  BY Zenon, <1>1 DEF commit, commitTransaction
<1>7. \A p \in Proc : Live(p)' <=> p # q /\ Live(p)
  BY Zenon, <1>0, <1>6 DEF Live, abortFlag, TypeOK
<1>8. txStatus' = [p \in Proc |-> IF p \in {q} THEN "committed"
                                 ELSE txStatus[p]]
  BY Zenon, <1>0, <1>6, <1>7, MappedNext DEF txStatus, TypeOK, DataTypeOK
<1>9. /\ txReads' = [p \in Proc |-> IF p \in {q} THEN A!NoValues
                                    ELSE txReads[p]]
      /\ txWrites' = [p \in Proc |-> IF p \in {q} THEN A!NoValues
                                     ELSE txWrites[p]]
  BY Zenon, <1>0, <1>6, <1>7, MappedNext
  DEF txReads, txWrites, DataTypeOK, A!NoValues, NoBytes
<1>10. A!Commit(q)
  <2>1. q \in A!Running
    BY Zenon, <1>0, <1>1, RunningLive
  <2> QED
    BY Zenon, <1>4, <1>5, <1>8, <1>9, <2>1 DEF A!Commit, A!End
<1> QED
  BY Zenon, <1>10 DEF A!Next

\* HTM_ABORT ends a transaction that was doomed, or dooms it.
LEMMA AbortRefines ==
  ASSUME DataInv, IInv, NEW q \in Proc, abort(q)
  PROVE  A!Next
<1> DEFINE S == IF Live(q) THEN {q} ELSE {}
<1>0. TypeOK /\ DataTypeOK /\ mem' = mem
  BY Zenon DEF IInv, DataInv, abort
<1>1. /\ inTx[q] /\ inTx' = [inTx EXCEPT ![q] = FALSE]
      /\ abortCause' = [abortCause EXCEPT ![q] = "Undefined"]
      /\ outcome' = [outcome EXCEPT ![q] = "aborted"]
      /\ loaded' = [loaded EXCEPT ![q] = NoBytes]
      /\ stored' = [stored EXCEPT ![q] = NoBytes]
  BY Zenon DEF abort, abortTransaction
<1>2. \A p \in Proc : Live(p)' <=> p # q /\ Live(p)
  BY Zenon, <1>0, <1>1 DEF Live, abortFlag, TypeOK
<1>3. txStatus' = [p \in Proc |-> IF p \in S THEN "aborted"
                                 ELSE txStatus[p]]
  BY Zenon, <1>0, <1>1, <1>2, MappedNext DEF txStatus, TypeOK, DataTypeOK
<1>4. /\ txReads' = [p \in Proc |-> IF p \in S THEN A!NoValues
                                    ELSE txReads[p]]
      /\ txWrites' = [p \in Proc |-> IF p \in S THEN A!NoValues
                                     ELSE txWrites[p]]
  BY Zenon, <1>0, <1>1, <1>2, MappedNext
  DEF txReads, txWrites, DataTypeOK, A!NoValues, NoBytes
<1>5. A!Abort(S)
  <2>1. S \subseteq A!Running
    BY Zenon, <1>0, RunningLive
  <2> QED
    BY Zenon, <1>0, <1>3, <1>4, <2>1 DEF A!Abort, A!End
<1>6. S \in SUBSET Proc
  OBVIOUS
<1> QED
  BY Zenon, <1>5, <1>6 DEF A!Next

\* A load from memory is a Read of the committed value; a load of a byte of
\* the write buffer, or of a byte loaded before, only dooms others.
LEMMA LoadRefines ==
  ASSUME DataInv, IInv, NEW q \in Proc, NEW l \in Loc, load(q, l)
  PROVE  A!Next
<1>0. TypeOK /\ DataTypeOK /\ UNCHANGED <<mem, stored, outcome>>
  BY Zenon DEF IInv, DataInv, load
<1>1. inTx' = inTx /\ Live(q) /\ ~atCommit[q]
  BY Zenon DEF load, isolateTransactionLoad, vars
<1>2. /\ \A p \in Proc : Live(p)' => Live(p)
      /\ Live(q)'
  <2>1. CASE UNCHANGED vars
    BY Zenon, <1>1, <2>1 DEF Live, abortFlag, vars
  <2>2. CASE isolateTransactionLoad(q, BlockOf[l])
    <3>1. PICK S \in LoadVictims(q, BlockOf[l]) : setAbortFlag(S, "TxLoad")
      BY Zenon, <2>2 DEF isolateTransactionLoad
    <3>v. q \notin S
      BY Zenon, <3>1, VictimSets
    <3>2. Live(q)'
      BY Zenon, <1>0, <1>1, <3>1, <3>v DEF setAbortFlag, Hit, Live, abortFlag
    <3> QED
      BY Zenon, <1>0, <1>1, <3>1, <3>2, AbortSpares DEF Causes
  <2> QED
    BY Zenon, <2>1, <2>2 DEF load
<1>3. CASE loaded[q][l] = None /\ writeBuffer[q][l] = None
  <2>1. loaded' = [loaded EXCEPT ![q][l] = mem[l]]
    BY Zenon, <1>0, <1>3 DEF load, DataTypeOK, Bytes
  <2>2. txReads[q][l] = None /\ txWrites[q][l] = None
    BY Zenon, <1>1, <1>3 DEF txReads, txWrites, DataInv, BufferData
  <2>3. q \in A!Running /\ DoomedNow \subseteq A!Running \ {q}
    BY Zenon, <1>0, <1>1, <1>2, RunningLive DEF DoomedNow
  <2>4. txReads' = [p \in Proc |->
          IF p \in DoomedNow THEN A!NoValues
          ELSE IF p = q THEN [txReads[q] EXCEPT ![l] = mem[l]]
          ELSE txReads[p]]
    <3>1. ASSUME NEW p \in Proc
          PROVE  (IF Live(p)' THEN loaded'[p] ELSE NoBytes)
               = IF p \in DoomedNow THEN A!NoValues
                 ELSE IF p = q THEN [txReads[q] EXCEPT ![l] = mem[l]]
                 ELSE txReads[p]
      <4>1. CASE p = q
        BY Zenon, <1>0, <1>1, <1>2, <2>1, <4>1 DEF txReads, DoomedNow, DataTypeOK
      <4>2. CASE p # q
        BY Zenon, <1>0, <1>2, <2>1, <4>2
        DEF txReads, DoomedNow, DataTypeOK, A!NoValues, NoBytes
      <4> QED
        BY Zenon, <4>1, <4>2
    <3> QED
      BY <3>1, MappedNext, Zenon
  <2>5. txWrites' = [p \in Proc |-> IF p \in DoomedNow THEN A!NoValues
                                   ELSE txWrites[p]]
    BY Zenon, <1>0, <1>2, MappedNext DEF txWrites, DoomedNow, A!NoValues, NoBytes
  <2>6. A!Read(q, l, mem[l], DoomedNow)
    BY Zenon, <1>0, <1>1, <1>2, <2>2, <2>3, <2>4, <2>5, DoomMapping DEF A!Read
  <2>7. mem[l] \in Val /\ DoomedNow \in SUBSET Proc
    BY Zenon, <1>0 DEF DataTypeOK, DoomedNow
  <2> QED
    BY Zenon, <2>6, <2>7 DEF A!Next
<1>4. CASE ~(loaded[q][l] = None /\ writeBuffer[q][l] = None)
  <2>1. loaded' = loaded
    BY Zenon, <1>0, <1>4 DEF load, DataTypeOK, Bytes
  <2> QED
    BY Zenon, <1>0, <1>1, <1>2, <2>1, DoomStep
<1> QED
  BY Zenon, <1>3, <1>4

\* A store to the write buffer is a Write.
LEMMA StoreRefines ==
  ASSUME DataInv, IInv, NEW q \in Proc, NEW l \in Loc, NEW v \in Val,
         addToWriteBuffer(q, l, v)
  PROVE  A!Next
<1>0. DataTypeOK /\ UNCHANGED <<inTx, abortCause, mem, loaded, outcome>>
  BY Zenon DEF IInv, DataInv, addToWriteBuffer, redirectStoreToWriteBuffer
<1>1. Live(q) /\ stored' = [stored EXCEPT ![q][l] = v]
  BY Zenon DEF addToWriteBuffer, redirectStoreToWriteBuffer
<1>2. \A p \in Proc : Live(p)' <=> Live(p)
  BY Zenon, <1>0 DEF Live, abortFlag
<1>3. txStatus' = txStatus /\ txReads' = txReads
  BY Zenon, <1>0, <1>2, MappedNext DEF txStatus, txReads
<1>4. txWrites' = [txWrites EXCEPT ![q][l] = v]
  BY Zenon, <1>0, <1>1, <1>2, MappedNext DEF txWrites, DataTypeOK
<1>5. A!Write(q, l, v)
  BY Zenon, <1>0, <1>1, <1>3, <1>4, RunningLive DEF A!Write
<1> QED
  BY Zenon, <1>5 DEF A!Next

\* A store outside transactions dooms the sharers of its block.
LEMMA OutsideRefines ==
  ASSUME DataInv, IInv, NEW q \in Proc, NEW l \in Loc, NEW v \in Val,
         outsideStore(q, l, v)
  PROVE  A!Next
<1>0. TypeOK /\ DataTypeOK /\ UNCHANGED <<inTx, loaded, stored, outcome>>
  BY Zenon DEF IInv, DataInv, outsideStore, nonTransactionalStore, vars
<1>1. mem' = [mem EXCEPT ![l] = v]
  BY Zenon DEF outsideStore
<1>2. \A p \in Proc : Live(p)' => Live(p)
  <2>1. CASE UNCHANGED vars
    BY Zenon, <2>1 DEF Live, abortFlag, vars
  <2>2. CASE nonTransactionalStore(q, BlockOf[l])
    BY Zenon, <1>0, <2>2, AbortSpares DEF nonTransactionalStore, Causes
  <2> QED
    BY Zenon, <2>1, <2>2 DEF outsideStore
<1>3. DoomedNow \subseteq A!Running
  BY Zenon, <1>0, RunningLive DEF DoomedNow
<1>4. /\ txReads' = [p \in Proc |-> IF p \in DoomedNow THEN A!NoValues
                                    ELSE txReads[p]]
      /\ txWrites' = [p \in Proc |-> IF p \in DoomedNow THEN A!NoValues
                                     ELSE txWrites[p]]
  BY Zenon, <1>0, <1>2, MappedNext
  DEF txReads, txWrites, DoomedNow, A!NoValues, NoBytes
<1>5. A!StoreOutside(l, v, DoomedNow)
  BY Zenon, <1>0, <1>1, <1>2, <1>3, <1>4, DoomMapping DEF A!StoreOutside, A!End
<1>6. DoomedNow \in SUBSET Proc
  BY Zenon DEF DoomedNow
<1>7. <<q, l, v>> \in OutsideStores
  BY Zenon DEF outsideStore
<1>8. <<l, v>> \in {<<o[2], o[3]>> : o \in OutsideStores}
  <2>1. <<l, v>> = <<(<<q, l, v>>)[2], (<<q, l, v>>)[3]>>
    OBVIOUS
  <2>2. \E o \in OutsideStores : <<l, v>> = <<o[2], o[3]>>
    BY Zenon, <1>7, <2>1
  <2> QED
    BY Zenon, <2>2
<1>9. \E o \in {<<o[2], o[3]>> : o \in OutsideStores} :
        A!StoreOutside(o[1], o[2], DoomedNow)
  BY Zenon, <1>5, <1>8
<1> QED
  BY Zenon, <1>6, <1>9 DEF A!Next

\* The lazy system with its write buffers and block-wise flushes implements
\* an atomic transactional memory, byte by byte: every commit publishes
\* exactly the bytes stored, all at once, and only if every byte loaded from
\* memory still has the value loaded.
THEOREM LazyAtomicity == DataSpec => AtomicTransactions
<1>1. DataInit => A!Init
  <2> SUFFICES ASSUME DataInit
               PROVE  A!Init
    OBVIOUS
  <2>1. \A p \in Proc : ~Live(p) /\ ~inTx[p]
    BY Zenon DEF DataInit, Init, Live
  <2> QED
    BY Zenon, <2>1 DEF DataInit, A!Init, A!NoValues, NoBytes, txStatus, txReads,
                txWrites
<1>2. DataInv /\ IInv /\ [DataNext]_allVars => [A!Next]_A!vars
  <2> SUFFICES ASSUME DataInv, IInv, [DataNext]_allVars
               PROVE  [A!Next]_A!vars
    OBVIOUS
  <2>1. ASSUME NEW q \in Proc, DataStep(q)
        PROVE  A!Next
    BY Zenon, <2>1, ControlRefines, MergeRefines, CommitRefines, AbortRefines,
       LoadRefines, StoreRefines, OutsideRefines DEF DataStep
  <2>2. CASE UNCHANGED allVars
    <3>1. \A p \in Proc : Live(p)' <=> Live(p)
      BY Zenon, <2>2 DEF allVars, vars, Live, abortFlag
    <3>2. UNCHANGED <<inTx, mem, loaded, stored, outcome>>
      BY Zenon, <2>2 DEF allVars, vars, dataVars
    <3>3. UNCHANGED <<txStatus, txReads, txWrites>>
      BY Zenon, <3>1, <3>2, MappedNext DEF txStatus, txReads, txWrites
    <3> QED
      BY Zenon, <3>2, <3>3 DEF A!vars
  <2> QED
    BY Zenon, <2>1, <2>2 DEF DataNext
<1> QED
  BY <1>1, <1>2, DataIInv, DataInvariance, PTL
  DEF DataSpec, allVars, AtomicTransactions, A!Spec
=============================================================================
