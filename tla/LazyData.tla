------------------------------ MODULE LazyData ------------------------------
(***************************************************************************)
(* LazyCommit with data.  Conflicts are detected on blocks, but the write  *)
(* buffer keeps bytes: a flushed block is the committed block with the     *)
(* buffered bytes merged into it, and the commit publishes whole blocks.   *)
(* Loads are served from the write buffer, or else from the cache.         *)
(*                                                                         *)
(* The data paths of LazyTransactionVersionManager and of the sequencer    *)
(* that calls it; shown to implement AtomicTM, byte by byte.               *)
(***************************************************************************)
EXTENDS LazyCommit

CONSTANTS Loc,           \* bytes (or words) that the threads access
          BlockOf,       \* makeLineAddress
          Val,           \* values of a byte
          None,          \* no value
          InitVal,       \* value of every byte at the start
          Loads,         \* workload: <<thread, byte>> loaded in transactions
          Stores,        \* workload: <<thread, byte, value>> stored in them
          OutsideStores  \* workload: stores outside transactions

ASSUME LocAssumption == BlockOf \in [Loc -> Addr]
ASSUME ValAssumption == InitVal \in Val /\ None \notin Val
ASSUME WorkloadAssumption ==
  /\ Loads \subseteq Proc \X Loc
  /\ Stores \subseteq Proc \X Loc \X Val
  /\ OutsideStores \subseteq Proc \X Loc \X Val

VARIABLES
  mem,          \* committed value of each byte
  writeBuffer,  \* m_writeBuffer
  line,         \* speculative contents of the blocks flushed into the cache
  loaded,       \* history: value of the first load of each byte from memory
  stored,       \* history: value of the last store of each byte
  outcome       \* history: of the last transaction that has ended

dataVars == <<mem, writeBuffer, line, loaded, stored, outcome>>

Bytes == [Loc -> Val \cup {None}]
NoBytes == [l \in Loc |-> None]

DataTypeOK ==
  /\ mem \in [Loc -> Val]
  /\ writeBuffer \in [Proc -> Bytes] /\ line \in [Proc -> Bytes]
  /\ loaded \in [Proc -> Bytes] /\ stored \in [Proc -> Bytes]
  /\ outcome \in [Proc -> {"idle", "committed", "aborted"}]

DataInit ==
  /\ Init
  /\ mem = [l \in Loc |-> InitVal]
  /\ writeBuffer = [p \in Proc |-> NoBytes]
  /\ line = [p \in Proc |-> NoBytes]
  /\ loaded = [p \in Proc |-> NoBytes]
  /\ stored = [p \in Proc |-> NoBytes]
  /\ outcome = [p \in Proc |-> "idle"]

-----------------------------------------------------------------------------
\* A load of byte l: the first of its block reaches the isolation manager.  A
\* byte of the write buffer is forwarded; the others come from the cache.
load(p, l) ==
  /\ <<p, l>> \in Loads
  /\ \/ isolateTransactionLoad(p, BlockOf[l])
     \/ /\ Live(p) /\ ~atCommit[p] /\ BlockOf[l] \in readSet[p]
        /\ UNCHANGED vars
  /\ loaded' = [loaded EXCEPT ![p][l] =
       IF @ = None /\ writeBuffer[p][l] = None THEN mem[l] ELSE @]
  /\ UNCHANGED <<mem, writeBuffer, line, stored, outcome>>

addToWriteBuffer(p, l, v) ==
  /\ <<p, l, v>> \in Stores
  /\ redirectStoreToWriteBuffer(p, BlockOf[l])
  /\ writeBuffer' = [writeBuffer EXCEPT ![p][l] = v]
  /\ stored' = [stored EXCEPT ![p][l] = v]
  /\ UNCHANGED <<mem, line, loaded, outcome>>

\* The bytes of block a in the cache once it is merged.
MergedByte_Zero(p, l) == IF writeBuffer[p][l] # None THEN writeBuffer[p][l]
                         ELSE InitVal

MergedByte(p, l) == IF writeBuffer[p][l] # None THEN writeBuffer[p][l]
                    ELSE mem[l]

\* The write buffer is cleared with its last block.
merge(p, a) ==
  /\ mergeDataFromWriteBuffer(p, a)
  /\ line' = [line EXCEPT ![p] =
       [l \in Loc |-> IF BlockOf[l] = a THEN MergedByte(p, l) ELSE @[l]]]
  /\ writeBuffer' = IF Empty(block'[p])
                    THEN [writeBuffer EXCEPT ![p] = NoBytes] ELSE writeBuffer
  /\ UNCHANGED <<mem, loaded, stored, outcome>>

\* The flushed blocks lose their speculative state and are now committed.
commit(p) ==
  /\ commitTransaction(p)
  /\ mem' = [l \in Loc |-> IF BlockOf[l] \in writeSet[p] THEN line[p][l]
                           ELSE mem[l]]
  /\ line' = [line EXCEPT ![p] = NoBytes]
  /\ loaded' = [loaded EXCEPT ![p] = NoBytes]
  /\ stored' = [stored EXCEPT ![p] = NoBytes]
  /\ outcome' = [outcome EXCEPT ![p] = "committed"]
  /\ UNCHANGED writeBuffer

\* The flushed blocks are invalidated, and discardWriteBuffer.
discardWriteBuffer(p) == [writeBuffer EXCEPT ![p] = NoBytes]

abort(p) ==
  /\ abortTransaction(p)
  /\ writeBuffer' = discardWriteBuffer(p)
  /\ line' = [line EXCEPT ![p] = NoBytes]
  /\ loaded' = [loaded EXCEPT ![p] = NoBytes]
  /\ stored' = [stored EXCEPT ![p] = NoBytes]
  /\ outcome' = [outcome EXCEPT ![p] = "aborted"]
  /\ UNCHANGED mem

\* A store outside transactions, with or without a transaction in its way.
outsideStore(p, l, v) ==
  /\ <<p, l, v>> \in OutsideStores
  /\ \/ nonTransactionalStore(p, BlockOf[l])
     \/ ~inTx[p] /\ Sharers(p, BlockOf[l]) = {} /\ UNCHANGED vars
  /\ mem' = [mem EXCEPT ![l] = v]
  /\ UNCHANGED <<writeBuffer, line, loaded, stored, outcome>>

-----------------------------------------------------------------------------
\* The steps of LazyCommit that move no data.
ControlStep(p) ==
  /\ \/ beginTransaction(p) \/ cancelTransaction(p) \/ xactReplacement(p)
     \/ initiateValidateTransaction(p) \/ commitWriteBuffer(p)
     \/ signalAbort(p)
     \/ \E a \in Addr : nonTransactionalLoad(p, a)
  /\ UNCHANGED dataVars

DataStep(p) ==
  \/ ControlStep(p)
  \/ commit(p) \/ abort(p)
  \/ \E a \in Addr : merge(p, a)
  \/ \E l \in Loc :
       load(p, l) \/ \E v \in Val : addToWriteBuffer(p, l, v)
                                    \/ outsideStore(p, l, v)

DataNext == \E p \in Proc : DataStep(p)

DataSpec == DataInit /\ [][DataNext]_<<vars, dataVars>>

-----------------------------------------------------------------------------
(* Refinement: a transaction is running for the abstract memory until it   *)
(* is doomed, and its stores are those it has made, flushed or not.        *)

txStatus ==
  [p \in Proc |-> IF Live(p) THEN "running"
                 ELSE IF inTx[p] THEN "aborted" ELSE outcome[p]]

txReads == [p \in Proc |-> IF Live(p) THEN loaded[p] ELSE NoBytes]

txWrites == [p \in Proc |-> IF Live(p) THEN stored[p] ELSE NoBytes]

A == INSTANCE AtomicTM WITH
       Addr <- Loc, status <- txStatus, reads <- txReads, writes <- txWrites,
       OutsideStores <- {<<o[2], o[3]>> : o \in OutsideStores}

\* The lazy system implements an atomic transactional memory: whatever the
\* order of validations, flushes, cancelled flushes and conflicts, the blocks
\* a commit publishes carry the bytes the transaction has stored and, in the
\* other bytes, what is committed (mergeDataFromWriteBuffer), and all it has
\* loaded is still the committed value.
AtomicTransactions == A!Spec
=============================================================================
