----------------------------- MODULE LazyCommit -----------------------------
(***************************************************************************)
(* Commit of a lazy-lazy transaction (lazy versioning, lazy conflict       *)
(* detection): stores are kept in a write buffer, the transaction is       *)
(* validated by the commit arbiter, and the write buffer is then flushed   *)
(* to the cache block by block before the transaction commits.             *)
(*                                                                         *)
(* Models LazyTransactionVersionManager, LazyTransactionCommitArbiter, the *)
(* token queue of HTM, TransactionIsolationManager and the lazy-lazy paths *)
(* of TransactionInterfaceManager and TransactionalSequencer, with the     *)
(* conflict resolution the lazy-lazy configuration asserts (requester      *)
(* wins).  A memory access is atomic: the L2 directory serialises the      *)
(* requests for one block.                                                 *)
(***************************************************************************)
EXTENDS Integers, Sequences, FiniteSets

CONSTANTS Proc,             \* hardware threads, one transaction each
          Addr,             \* cache blocks, ordered as the write buffer map
          Arbitration,      \* lazy_arbitration: "magic" or "token"
          lazyCommitWidth,  \* flush requests in flight at once
          CanRefuse,        \* may Sequencer::makeRequest refuse a request?
          l0_downgrade_on_l1_gets  \* does a remote load leave a shared copy?

ASSUME AddrAssumption == Addr \subseteq Nat
ASSUME ArbitrationAssumption == Arbitration \in {"magic", "token"}
ASSUME WidthAssumption == lazyCommitWidth \in Nat \ {0}
ASSUME RefuseAssumption == CanRefuse \in BOOLEAN
ASSUME DowngradeAssumption == l0_downgrade_on_l1_gets \in BOOLEAN

VARIABLES
  inTx,           \* m_transactionLevel = 1 (nesting is asserted away)
  abortCause,     \* m_abortCause; m_abortFlag is "not Undefined"
  atCommit,       \* m_atCommit
  commitPending,  \* sequencer: the commit packet is polled every cycle
  arbiter,        \* m_validating, m_validated
  committing,     \* version manager flags
  committed,
  aborting,
  flushPending,
  block,          \* m_writeBufferBlocks: status of each block, or absent
  readSet,        \* isolation manager's read set
  writeSet,       \* blocks already flushed into the cache
  wsetInWB,       \* m_writeSetInWriteBuffer
  tokens,         \* HTM's list of commit token requests
  stale           \* ghost: blocks read whose committed value has changed

arbVars == <<arbiter, tokens>>
vmVars == <<committing, committed, aborting, flushPending, block>>
isoVars == <<readSet, writeSet, wsetInWB>>
vars == <<inTx, abortCause, atCommit, commitPending, arbVars, vmVars,
          isoVars, stale>>

Causes == {"Undefined", "Explicit", "Capacity", "TxLoad", "TxStore", "NonTx"}

TypeOK ==
  /\ inTx \in [Proc -> BOOLEAN]
  /\ abortCause \in [Proc -> Causes]
  /\ atCommit \in [Proc -> BOOLEAN]
  /\ commitPending \in [Proc -> BOOLEAN]
  /\ arbiter \in [Proc -> {"idle", "validating", "validated"}]
  /\ committing \in [Proc -> BOOLEAN]
  /\ committed \in [Proc -> BOOLEAN]
  /\ aborting \in [Proc -> BOOLEAN]
  /\ flushPending \in [Proc -> BOOLEAN]
  /\ block \in [Proc -> [Addr -> {"absent", "Pending", "Issued"}]]
  /\ readSet \in [Proc -> SUBSET Addr]
  /\ writeSet \in [Proc -> SUBSET Addr]
  /\ wsetInWB \in [Proc -> SUBSET Addr]
  /\ tokens \in Seq(Proc)
  /\ stale \in [Proc -> SUBSET Addr]

Init ==
  /\ inTx = [p \in Proc |-> FALSE]
  /\ abortCause = [p \in Proc |-> "Undefined"]
  /\ atCommit = [p \in Proc |-> FALSE]
  /\ commitPending = [p \in Proc |-> FALSE]
  /\ arbiter = [p \in Proc |-> "idle"]
  /\ committing = [p \in Proc |-> FALSE]
  /\ committed = [p \in Proc |-> FALSE]
  /\ aborting = [p \in Proc |-> FALSE]
  /\ flushPending = [p \in Proc |-> FALSE]
  /\ block = [p \in Proc |-> [a \in Addr |-> "absent"]]
  /\ readSet = [p \in Proc |-> {}]
  /\ writeSet = [p \in Proc |-> {}]
  /\ wsetInWB = [p \in Proc |-> {}]
  /\ tokens = <<>>
  /\ stale = [p \in Proc |-> {}]

-----------------------------------------------------------------------------
(* State predicates and helpers                                            *)

abortFlag(p) == abortCause[p] # "Undefined"

\* A transaction that can still commit.
Live(p) == inTx[p] /\ ~abortFlag(p)

Blocks(b, status) == {a \in Addr : b[a] = status}

Empty_NoneIssued(b) == \A a \in Addr : b[a] # "Issued"

Empty(b) == \A a \in Addr : b[a] = "absent"

hasConflictWith(p, q) ==
  wsetInWB[p] \cap (readSet[q] \cup wsetInWB[q]) # {}

canCommitTransaction_AbortAtOnce(p) == committed[p] \/ abortFlag(p)

canCommitTransaction_CommittedOnly(p) == committed[p]

canCommitTransaction(p) ==
  committed[p] \/ (~committing[p] /\ abortFlag(p))

getTokenOwner_Last(queue) == queue[Len(queue)]

getTokenOwner(queue) == Head(queue)

\* setAbortFlag on every transaction of the set S that is not doomed yet:
\* a committer also cancels the part of its flush that is not in flight.
Hit(S, q) == q \in S /\ ~abortFlag(q)

cancelWriteBufferFlush_KeepEntry(b) ==
  [a \in Addr |-> IF b[a] = "Pending" THEN "Cancelled" ELSE b[a]]

cancelWriteBufferFlush(b) ==
  [a \in Addr |-> IF b[a] = "Pending" THEN "absent" ELSE b[a]]

setAbortFlag(S, cause) ==
  /\ abortCause' = [q \in Proc |-> IF Hit(S, q) THEN cause ELSE abortCause[q]]
  /\ aborting' = [q \in Proc |-> aborting[q] \/ (Hit(S, q) /\ committing[q])]

\* The blocks after a call of setAbortFlag on S, b being the blocks before.
BlocksAfterAbort(S, b) ==
  [q \in Proc |-> IF Hit(S, q) /\ committing[q]
                  THEN cancelWriteBufferFlush(b[q]) ELSE b[q]]

\* Transactions that a remote load or store of block a conflicts with.
Writers_None(p, a) == {}

Writers(p, a) == {q \in Proc \ {p} : inTx[q] /\ a \in writeSet[q]}

Sharers_WritersOnly(p, a) == {q \in Proc \ {p} : inTx[q] /\ a \in writeSet[q]}

Sharers(p, a) ==
  {q \in Proc \ {p} : inTx[q] /\ a \in readSet[q] \cup writeSet[q]}

\* The sets of transactions a load of block a by p may abort.  Where the L0 is
\* not downgraded, a load reaches a core that holds the block exclusively as
\* an invalidation: a reader is then mistaken for a writer.  At most one core
\* holds the block so; which one, the model leaves open.
LoadVictims(p, a) ==
  {Writers(p, a)} \cup
  {Writers(p, a) \cup {q} : q \in IF l0_downgrade_on_l1_gets THEN {}
                                 ELSE Sharers(p, a)}

\* Ghost: block set W gets a new committed value.
NewValues(W, p) ==
  stale' = [q \in Proc |-> IF q = p THEN {}
                           ELSE stale[q] \cup (readSet[q] \cap W)]

-----------------------------------------------------------------------------
(* Transactional execution                                                 *)

beginTransaction(p) ==
  /\ ~inTx[p]
  /\ inTx' = [inTx EXCEPT ![p] = TRUE]
  /\ committing' = [committing EXCEPT ![p] = FALSE]
  /\ committed' = [committed EXCEPT ![p] = FALSE]
  /\ writeSet' = [writeSet EXCEPT ![p] = {}]
  /\ UNCHANGED <<abortCause, atCommit, commitPending, arbVars, aborting,
                 flushPending, block, readSet, wsetInWB, stale>>

\* A load brings the last committed value and retires (HTM_ISOLATE).  The
\* GETS aborts a transaction that has the block in its (flushed) write set,
\* and perhaps one that has read it.
isolateTransactionLoad(p, a) ==
  /\ Live(p) /\ ~atCommit[p] /\ a \notin readSet[p]
  /\ \E S \in LoadVictims(p, a) : /\ setAbortFlag(S, "TxLoad")
                                  /\ block' = BlocksAfterAbort(S, block)
  /\ readSet' = [readSet EXCEPT ![p] = @ \cup {a}]
  /\ UNCHANGED <<inTx, atCommit, commitPending, arbVars, committing,
                 committed, flushPending, writeSet, wsetInWB, stale>>

redirectStoreToWriteBuffer(p, a) ==
  /\ Live(p) /\ ~atCommit[p]
  /\ block' = [block EXCEPT ![p][a] = "Pending"]
  /\ wsetInWB' = [wsetInWB EXCEPT ![p] = @ \cup {a}]
  /\ UNCHANGED <<inTx, abortCause, atCommit, commitPending, arbVars,
                 committing, committed, aborting, flushPending, readSet,
                 writeSet, stale>>

cancelTransaction(p) ==
  /\ Live(p) /\ ~atCommit[p]
  /\ abortCause' = [abortCause EXCEPT ![p] = "Explicit"]
  /\ UNCHANGED <<inTx, atCommit, commitPending, arbVars, vmVars, isoVars,
                 stale>>

\* Eviction of a transactional block from the caches.
xactReplacement(p) ==
  /\ inTx[p] /\ readSet[p] \cup writeSet[p] # {}
  /\ setAbortFlag({p}, "Capacity")
  /\ block' = BlocksAfterAbort({p}, block)
  /\ UNCHANGED <<inTx, atCommit, commitPending, arbVars, committing,
                 committed, flushPending, isoVars, stale>>

\* Accesses of a thread that is not in a transaction; the acquisition of the
\* fallback lock is such a store.
nonTransactionalLoad(p, a) ==
  /\ ~inTx[p]
  /\ \E S \in LoadVictims(p, a) \ {{}} : /\ setAbortFlag(S, "NonTx")
                                         /\ block' = BlocksAfterAbort(S, block)
  /\ UNCHANGED <<inTx, atCommit, commitPending, arbVars, committing,
                 committed, flushPending, isoVars, stale>>

nonTransactionalStore(p, a) ==
  /\ ~inTx[p]
  /\ Sharers(p, a) # {}
  /\ setAbortFlag(Sharers(p, a), "NonTx")
  /\ block' = BlocksAfterAbort(Sharers(p, a), block)
  /\ NewValues({a}, p)
  /\ UNCHANGED <<inTx, atCommit, commitPending, arbVars, committing,
                 committed, flushPending, isoVars>>

-----------------------------------------------------------------------------
(* Commit: each poll of the commit packet by lazyCommitCheckEvent takes    *)
(* one of the next four steps (notifyXactionEvent, HTMCommit).             *)

\* initiateCommitTransaction, not validated: ask the arbiter.
MagicGranted_OneWay(p) ==
  \A q \in Proc \ {p} : arbiter[q] = "validated" => ~hasConflictWith(q, p)

MagicGranted(p) ==
  \A q \in Proc \ {p} :
    arbiter[q] = "validated" =>
      ~hasConflictWith(q, p) /\ ~hasConflictWith(p, q)

initiateValidateTransaction(p) ==
  /\ Live(p) /\ ~committed[p] /\ arbiter[p] # "validated"
  /\ atCommit' = [atCommit EXCEPT ![p] = TRUE]
  /\ commitPending' = [commitPending EXCEPT ![p] = TRUE]
  /\ tokens' = IF Arbitration = "token" /\ arbiter[p] = "idle"
               THEN Append(tokens, p) ELSE tokens
  /\ LET granted == IF Arbitration = "token" THEN getTokenOwner(tokens') = p
                    ELSE MagicGranted(p)
     IN arbiter' = [arbiter EXCEPT ![p] = IF granted THEN "validated"
                                          ELSE "validating"]
  /\ UNCHANGED <<inTx, abortCause, vmVars, isoVars, stale>>

\* flushWriteBuffer on blocks b: the pending blocks are tried in address
\* order until lazyCommitWidth requests are in flight; the others of them
\* were refused by makeRequest.  S is the set of blocks issued.
InFlightBefore(b, S, a) ==
  Cardinality(Blocks(b, "Issued") \cup {c \in S : c < a})

CanIssue(b, S) ==
  /\ S \subseteq Blocks(b, "Pending")
  /\ \A a \in S : InFlightBefore(b, S, a) < lazyCommitWidth
  /\ CanRefuse \/ \A a \in Blocks(b, "Pending") \ S :
                    InFlightBefore(b, S, a) = lazyCommitWidth

FlushIncomplete(b, S) ==
  \E a \in Addr :
    /\ b[a] # "absent"
    /\ \/ a \in Blocks(b, "Pending") \ S
       \/ InFlightBefore(b, S, a) = lazyCommitWidth

\* The effect of flushWriteBuffer on p: b are p's blocks before it, others
\* the blocks of the other processors after the step.
flushWriteBuffer(p, b, others) ==
  /\ committed' = [committed EXCEPT ![p] = @ \/ Empty(b)]
  /\ \E S \in SUBSET Blocks(b, "Pending") :
       /\ CanIssue(b, S)
       /\ flushPending' = [flushPending EXCEPT ![p] = FlushIncomplete(b, S)]
       /\ block' = [others EXCEPT
            ![p] = [a \in Addr |-> IF a \in S THEN "Issued" ELSE b[a]]]

\* initiateCommitTransaction, validated: (re)start the flush.
commitWriteBuffer(p) ==
  /\ Live(p) /\ ~committed[p] /\ arbiter[p] = "validated"
  /\ committing' = [committing EXCEPT ![p] = TRUE]
  /\ flushWriteBuffer(p, block[p], block)
  /\ UNCHANGED <<inTx, abortCause, atCommit, commitPending, arbVars,
                 aborting, isoVars, stale>>

\* The poll finds the abort flag set and nothing left to wait for: the
\* commit packet is answered with a failure.
signalAbort(p) ==
  /\ inTx[p] /\ abortFlag(p) /\ commitPending[p]
  /\ canCommitTransaction(p)
  /\ commitPending' = [commitPending EXCEPT ![p] = FALSE]
  /\ UNCHANGED <<inTx, abortCause, atCommit, arbVars, vmVars, isoVars, stale>>

commitTransaction(p) ==
  /\ Live(p) /\ canCommitTransaction(p)
  /\ committing' = [committing EXCEPT ![p] = FALSE]
  /\ committed' = [committed EXCEPT ![p] = FALSE]
  /\ tokens' = IF Arbitration = "token" THEN Tail(tokens) ELSE tokens
  /\ arbiter' = [arbiter EXCEPT ![p] = "idle"]
  /\ atCommit' = [atCommit EXCEPT ![p] = FALSE]
  /\ readSet' = [readSet EXCEPT ![p] = {}]
  /\ writeSet' = [writeSet EXCEPT ![p] = {}]
  /\ wsetInWB' = [wsetInWB EXCEPT ![p] = {}]
  /\ inTx' = [inTx EXCEPT ![p] = FALSE]
  /\ commitPending' = [commitPending EXCEPT ![p] = FALSE]
  /\ NewValues(writeSet[p], p)
  /\ UNCHANGED <<abortCause, aborting, flushPending, block>>

-----------------------------------------------------------------------------
(* A flush request of p completes: exclusive permission was obtained, the  *)
(* sharers were aborted and the block is merged into the cache             *)
(* (handleTransactionalWrite, then mergeDataFromWriteBuffer).              *)

mergeDataFromWriteBuffer(p, a) ==
  /\ block[p][a] = "Issued"
  /\ setAbortFlag(Sharers(p, a), "TxStore")
  /\ writeSet' = [writeSet EXCEPT ![p] = @ \cup {a}]
  /\ LET others == BlocksAfterAbort(Sharers(p, a), block)
         b == [block[p] EXCEPT ![a] = "absent"]
     IN \/ /\ Empty(b)
           /\ committed' = [committed EXCEPT ![p] = TRUE]
           /\ block' = [others EXCEPT ![p] = b]
           /\ UNCHANGED flushPending
        \/ /\ ~Empty(b) /\ (aborting[p] \/ ~flushPending[p])
           /\ block' = [others EXCEPT ![p] = b]
           /\ UNCHANGED <<committed, flushPending>>
        \/ /\ ~Empty(b) /\ ~aborting[p] /\ flushPending[p]
           /\ flushWriteBuffer(p, b, others)
  /\ UNCHANGED <<inTx, atCommit, commitPending, arbVars, committing, readSet,
                 wsetInWB, stale>>

-----------------------------------------------------------------------------
(* Abort: the CPU sends HTM_ABORT after it saw the failure (the abort flag *)
(* is set) or on its own (LSQ conflict, exception, interrupt); never while *)
(* it waits for the response to its commit packet.                         *)

removeCommitTokenRequest_Release(p) == Tail(tokens)

removeCommitTokenRequest(p) ==
  LET it == CHOOSE i \in DOMAIN tokens : tokens[i] = p
  IN  SubSeq(tokens, 1, it - 1) \o SubSeq(tokens, it + 1, Len(tokens))

abortTransaction(p) ==
  /\ inTx[p] /\ ~commitPending[p]
  /\ committing' = [committing EXCEPT ![p] = FALSE]
  /\ committed' = [committed EXCEPT ![p] = FALSE]
  /\ aborting' = [aborting EXCEPT ![p] = FALSE]
  /\ block' = [block EXCEPT ![p] = [a \in Addr |-> "absent"]]
  /\ tokens' = IF Arbitration = "token" /\ arbiter[p] # "idle"
               THEN removeCommitTokenRequest(p) ELSE tokens
  /\ arbiter' = [arbiter EXCEPT ![p] = "idle"]
  /\ atCommit' = [atCommit EXCEPT ![p] = FALSE]
  /\ readSet' = [readSet EXCEPT ![p] = {}]
  /\ writeSet' = [writeSet EXCEPT ![p] = {}]
  /\ wsetInWB' = [wsetInWB EXCEPT ![p] = {}]
  /\ inTx' = [inTx EXCEPT ![p] = FALSE]
  /\ abortCause' = [abortCause EXCEPT ![p] = "Undefined"]
  /\ stale' = [stale EXCEPT ![p] = {}]
  /\ UNCHANGED <<commitPending, flushPending>>

-----------------------------------------------------------------------------
Step(p) ==
  \/ beginTransaction(p)
  \/ cancelTransaction(p)
  \/ xactReplacement(p)
  \/ initiateValidateTransaction(p)
  \/ commitWriteBuffer(p)
  \/ signalAbort(p)
  \/ commitTransaction(p)
  \/ abortTransaction(p)
  \/ \E a \in Addr : \/ isolateTransactionLoad(p, a)
                     \/ redirectStoreToWriteBuffer(p, a)
                     \/ nonTransactionalLoad(p, a)
                     \/ nonTransactionalStore(p, a)
                     \/ mergeDataFromWriteBuffer(p, a)

Next == \E p \in Proc : Step(p)

Spec == Init /\ [][Next]_vars

\* The commit packet is polled every cycle while it is pending, the memory
\* system answers every flush request, and the CPU aborts a transaction
\* whose failure it has been told of.  A flush that is tried again and again
\* is not refused for ever: what refuses it (full MSHRs, an aliased request)
\* is itself answered.
Fairness ==
  \A p \in Proc :
    /\ WF_vars(commitPending[p] /\ initiateValidateTransaction(p))
    /\ WF_vars(commitWriteBuffer(p))
    /\ SF_vars(commitWriteBuffer(p) /\ block' # block)
    /\ WF_vars(signalAbort(p))
    /\ WF_vars(commitTransaction(p))
    /\ WF_vars(abortFlag(p) /\ abortTransaction(p))
    /\ \A a \in Addr : WF_vars(mergeDataFromWriteBuffer(p, a))

FairSpec == Spec /\ Fairness

-----------------------------------------------------------------------------
(* Properties                                                              *)

\* The list of commit token requests holds exactly the transactions that are
\* validating or validated, once each, and a validated one is its head, so
\* that releaseCommitToken erases the entry of its caller (the asserts of
\* HTM::requestCommitToken, releaseCommitToken, removeCommitTokenRequest).
TokenQueue ==
  Arbitration = "token" =>
    /\ \A i, j \in DOMAIN tokens : tokens[i] = tokens[j] => i = j
    /\ \A p \in Proc :
         /\ arbiter[p] # "idle" <=> \E i \in DOMAIN tokens : tokens[i] = p
         /\ arbiter[p] = "validated" => tokens[1] = p

\* Two transactions validated at the same time do not conflict, whichever
\* arbitration granted them (initiateValidateTransaction).
ValidatedDisjoint ==
  \A p, q \in Proc :
    p # q /\ arbiter[p] = "validated" /\ arbiter[q] = "validated"
      => ~hasConflictWith(p, q)

\* What validation is for: the flush of a committer never aborts another
\* validated transaction (LazyTransactionCommitArbiter.cc, "Already validated
\* committer (guaranteed commit)").
CommitterNotKilledByCommitter ==
  \A p \in Proc : arbiter[p] = "validated" => abortCause[p] # "TxStore"

\* A validated transaction that has not begun its flush is aborted only by
\* non-transactional accesses and evictions and, where the L0 is not
\* downgraded, by the load of a transaction that mistakes it for a writer (the
\* causes abortTransaction lists as the only ones admitted): no store of
\* another transaction aborts it.
ValidatedAbortCause ==
  \A p \in Proc :
    arbiter[p] = "validated" /\ ~committing[p]
      => \/ abortCause[p] \in {"Undefined", "NonTx", "Capacity"}
         \/ ~l0_downgrade_on_l1_gets /\ abortCause[p] = "TxLoad"

\* Isolation (XactIsolationChecker::checkXACTIsolation): a block flushed by a
\* live transaction is in no set of another live transaction.
Isolation ==
  \A p, q \in Proc :
    p # q /\ Live(p) /\ Live(q)
      => writeSet[p] \cap (readSet[q] \cup writeSet[q]) = {}

\* A transaction that can still commit has read no block whose committed
\* value has changed since: the reads of a transaction are consistent with
\* the point at which it commits, whatever the order of the flushes.
NoStaleRead == \A p \in Proc : Live(p) => stale[p] = {}

\* When a live transaction is found committed every buffered store is in the
\* cache and nothing is in flight (the asserts of notifyCommittedTransaction).
CommitComplete ==
  \A p \in Proc :
    Live(p) /\ committed[p]
      => /\ Empty(block[p]) /\ writeSet[p] = wsetInWB[p]
         /\ committing[p] /\ ~aborting[p] /\ arbiter[p] = "validated"

\* When HTM_ABORT reaches the transaction no flush request is in flight, and
\* the version manager is aborting exactly if it was committing (the asserts
\* of LazyTransactionVersionManager::restartTransaction): no late store of an
\* aborted transaction reaches the cache.
AbortDrained ==
  \A p \in Proc :
    inTx[p] /\ ~commitPending[p]
      => /\ Blocks(block[p], "Issued") = {}
         /\ committing[p] <=> aborting[p]

\* A transaction that has reached commit eventually commits or aborts: the
\* pending commit packet is answered (notifyXactionEvent polls it "to complete
\* the abort the such outstanding actions are done").
CommitResolves ==
  \A p \in Proc : commitPending[p] ~> ~commitPending[p]
=============================================================================
