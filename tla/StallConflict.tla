--------------------------- MODULE StallConflict ---------------------------
(***************************************************************************)
(* Conflict management by stalling: a transaction nacks the requests that  *)
(* conflict with it and the requester retries.  Timestamps, kept over the  *)
(* retries of a transaction, break the cycles: a transaction that has      *)
(* nacked an older one and is nacked by an older one aborts.               *)
(*                                                                         *)
(* Models TransactionConflictManager under requester_stalls_cda_base and   *)
(* requester_stalls_cda_hybrid, with lazy versioning (lazyVM) or with      *)
(* LogTM's undo log, which keeps the write set isolated until it is        *)
(* unrolled.  The L2 serves one request per block at a time and forwards   *)
(* it to the cores that hold the block; a core whose sets do not hold the  *)
(* block acknowledges without effect.  A failed assertion stops the        *)
(* simulator.                                                              *)
(***************************************************************************)
EXTENDS Integers, FiniteSets

CONSTANTS Proc,          \* cores, numbered: the number breaks ties
          Addr,          \* cache blocks
          None,
          Kinds,         \* the workload: loads (GETS), stores (GETX) or both
          policy,        \* conflict_resolution
          LazyVM,        \* values of lazy_vm: FALSE is LogTM
          l0_downgrade_on_l1_gets,
          allow_read_set_l1_cache_evictions,
          Interfering,   \* cores with CPU aborts, evictions and
                         \* non-transactional code
          MaxTime,       \* bound: curCycle
          MaxAttempts    \* bound: transactions started or retried per core

ASSUME ProcAssumption == Proc \subseteq Nat /\ None \notin Proc
ASSUME PolicyAssumption ==
  policy \in {"requester_stalls_cda_base", "requester_stalls_cda_hybrid"}
ASSUME KindsAssumption == Kinds \subseteq {"GETS", "GETX"}
ASSUME FlagsAssumption == LazyVM \subseteq BOOLEAN /\ Interfering \subseteq Proc
ASSUME CacheAssumption ==
  /\ l0_downgrade_on_l1_gets \in BOOLEAN
  /\ allow_read_set_l1_cache_evictions \in BOOLEAN
ASSUME BoundAssumption == MaxTime \in Nat \ {0} /\ MaxAttempts \in Nat

VARIABLES
  lazyVM,         \* lazy_vm, a parameter of the system
  clock,          \* curCycle
  attempts,       \* transactions started, retries included
  inTx,           \* m_transactionLevel = 1
  abortFlag,      \* m_abortFlag
  unrolling,      \* m_unrollingLogFlag
  toRestore,      \* blocks of the log that the handler has not restored yet
  timestamp,      \* m_timestamp
  lockTimestamp,  \* m_lock_timestamp
  possibleCycle,  \* m_possible_cycle
  readSet, writeSet,
  req,            \* outstanding request of each core for each block
  busy,           \* request each block is serving, with its eldest nacker
  assertFailed    \* an assertion of the code has failed

setVars == <<readSet, writeSet>>
logVars == <<unrolling, toRestore>>
tsVars == <<clock, attempts, timestamp, lockTimestamp>>
vars == <<lazyVM, tsVars, inTx, abortFlag, logVars, possibleCycle, setVars,
          req, busy, assertFailed>>

\* age: 0, issued by this transaction; 1, by the one that aborted last; 2, by
\* an earlier one.
Requests == [kind : {"GETS", "GETX"}, trans : BOOLEAN, ts : Nat, age : 0..2]

ASSUME NoneAssumption == None \notin Requests

TypeOK ==
  /\ lazyVM \in LazyVM
  /\ clock \in 1..MaxTime /\ attempts \in [Proc -> 0..MaxAttempts]
  /\ inTx \in [Proc -> BOOLEAN] /\ abortFlag \in [Proc -> BOOLEAN]
  /\ unrolling \in [Proc -> BOOLEAN] /\ toRestore \in [Proc -> SUBSET Addr]
  /\ timestamp \in [Proc -> 0..MaxTime]
  /\ lockTimestamp \in [Proc -> BOOLEAN]
  /\ possibleCycle \in [Proc -> BOOLEAN]
  /\ readSet \in [Proc -> SUBSET Addr] /\ writeSet \in [Proc -> SUBSET Addr]
  /\ req \in [Proc -> [Addr -> {None} \cup Requests]]
  /\ busy \in [Addr -> {None} \cup
       [proc : Proc, waiting : SUBSET Proc, eldest : Proc \cup {None},
        ts : Nat]]
  /\ assertFailed \in BOOLEAN

Init ==
  /\ lazyVM \in LazyVM
  /\ clock = 1 /\ attempts = [p \in Proc |-> 0]
  /\ inTx = [p \in Proc |-> FALSE] /\ abortFlag = [p \in Proc |-> FALSE]
  /\ unrolling = [p \in Proc |-> FALSE] /\ toRestore = [p \in Proc |-> {}]
  /\ timestamp = [p \in Proc |-> 0]
  /\ lockTimestamp = [p \in Proc |-> FALSE]
  /\ possibleCycle = [p \in Proc |-> FALSE]
  /\ readSet = [p \in Proc |-> {}] /\ writeSet = [p \in Proc |-> {}]
  /\ req = [p \in Proc |-> [a \in Addr |-> None]]
  /\ busy = [a \in Addr |-> None]
  /\ assertFailed = FALSE

-----------------------------------------------------------------------------
\* A failed assertion stops the simulator.
Running == ~assertFailed /\ UNCHANGED <<assertFailed, lazyVM>>

isDoomed(p) == abortFlag[p] \/ unrolling[p]

isRemoteOlder_NoTie(p, ts, q) == ts < timestamp[p]

isRemoteOlder(p, ts, q) ==
  IF ts = timestamp[p] THEN q < p ELSE ts < timestamp[p]

\* A retry keeps the timestamp of the first attempt.
newTimestamp_NextCycle(p) == IF lockTimestamp[p] THEN timestamp[p] ELSE clock' + 1

newTimestamp(p) == IF lockTimestamp[p] THEN timestamp[p] ELSE clock'

beginTransaction(p) ==
  /\ ~inTx[p] /\ attempts[p] < MaxAttempts
  /\ \A a \in Addr : req[p][a] # None => req[p][a].trans
  /\ attempts' = [attempts EXCEPT ![p] = @ + 1]
  /\ inTx' = [inTx EXCEPT ![p] = TRUE]
  /\ lockTimestamp' = [lockTimestamp EXCEPT ![p] = TRUE]
  /\ clock' \in {clock, clock + 1} /\ clock' <= MaxTime
  /\ timestamp' = [timestamp EXCEPT ![p] = newTimestamp(p)]
  /\ UNCHANGED <<abortFlag, logVars, possibleCycle, setVars, req, busy>>
  /\ Running

issueRequest(p, a, kind) ==
  /\ inTx[p] /\ ~isDoomed(p) /\ req[p][a] = None
  /\ a \notin writeSet[p] /\ (kind = "GETS" => a \notin readSet[p])
  /\ req' = [req EXCEPT ![p][a] =
       [kind |-> kind, trans |-> TRUE, ts |-> timestamp[p], age |-> 0]]
  /\ UNCHANGED <<tsVars, inTx, abortFlag, logVars, possibleCycle, setVars,
                 busy>>
  /\ Running

issueNonTransactional(p, a, kind) ==
  /\ p \in Interfering /\ ~inTx[p] /\ req[p][a] = None
  /\ req' = [req EXCEPT ![p][a] =
       [kind |-> kind, trans |-> FALSE, ts |-> clock, age |-> 0]]
  /\ UNCHANGED <<tsVars, inTx, abortFlag, logVars, possibleCycle, setVars,
                 busy>>
  /\ Running

\* The CPU restores a block from the log: an escaped store, not transactional.
issueRestore(p, a) ==
  /\ a \in toRestore[p] /\ \A b \in Addr : req[p][b] # None => req[p][b].trans
  /\ req[p][a] = None
  /\ req' = [req EXCEPT ![p][a] =
       [kind |-> "GETX", trans |-> FALSE, ts |-> clock, age |-> 0]]
  /\ UNCHANGED <<tsVars, inTx, abortFlag, logVars, possibleCycle, setVars,
                 busy>>
  /\ Running

serveRequest(p, a) ==
  /\ req[p][a] # None /\ busy[a] = None
  /\ busy' = [busy EXCEPT ![a] =
       [proc |-> p, waiting |-> Proc \ {p}, eldest |-> None, ts |-> 0]]
  /\ UNCHANGED <<tsVars, inTx, abortFlag, logVars, possibleCycle, setVars,
                 req>>
  /\ Running

-----------------------------------------------------------------------------
(* A request r of core p for block a reaches core t                        *)

isWriter(t, a) == a \in writeSet[t]

\* As what the request reaches the conflict manager of t.  Unless the L0 is
\* downgraded, a load reaches the core that holds the block exclusively as an
\* invalidation, so as a store: a writer does, a reader may.
seenAs(t, a, r) ==
  IF r.kind = "GETX" \/ l0_downgrade_on_l1_gets THEN {r}
  ELSE {[r EXCEPT !.kind = "GETX"]} \cup (IF isWriter(t, a) THEN {} ELSE {r})

existConflict(t, a, r) ==
  isWriter(t, a) \/ (r.kind = "GETX" /\ a \in readSet[t])

\* shouldNackRemoteRequest.
shouldNackRemoteRequest(t, r) == ~isDoomed(t) /\ (r.trans \/ ~lazyVM)

\* What shouldNackStore makes of it.
shouldNackStore_ElderPasses(t, a, p, r) ==
  IF ~r.trans THEN ~lazyVM /\ isWriter(t, a) ELSE ~isRemoteOlder(t, r.ts, p)

shouldNackStore(t, a, p, r) ==
  IF ~r.trans THEN ~lazyVM /\ isWriter(t, a)
  ELSE ~(/\ policy = "requester_stalls_cda_hybrid" /\ ~isWriter(t, a)
         /\ isRemoteOlder(t, r.ts, p))

shouldNack_Readers(t, a, p, r) ==
  isWriter(t, a) /\ (IF r.kind = "GETS" THEN shouldNackRemoteRequest(t, r)
                     ELSE shouldNackStore(t, a, p, r))

shouldNack(t, a, p, r) ==
  existConflict(t, a, r) /\ (IF r.kind = "GETS" THEN shouldNackRemoteRequest(t, r)
                             ELSE shouldNackStore(t, a, p, r))

\* setAbortFlag is called: by shouldNackRemoteRequest when it does not nack or
\* the requester is not transactional, and by shouldNackStore.
callsSetAbortFlag(t, a, r) ==
  /\ existConflict(t, a, r)
  /\ \/ ~isDoomed(t) /\ ~r.trans
     \/ ~r.trans /\ r.kind = "GETX" /\ ~lazyVM /\ isWriter(t, a)

notifySendNack_Never(t, a, p, r) == FALSE

notifySendNack(t, a, p, r) ==
  /\ existConflict(t, a, r) /\ shouldNackRemoteRequest(t, r)
  /\ isRemoteOlder(t, r.ts, p)

\* Where blocks of the sets may leave the L1 (LogTM requires it of the write
\* set) the L1 asks the conflict manager before the L0, and asserts that no
\* load is nacked.
failsAtL1(t, a, r) ==
  /\ r.kind = "GETS" /\ (~lazyVM \/ allow_read_set_l1_cache_evictions)
  /\ isWriter(t, a) /\ shouldNackRemoteRequest(t, r)

\* The assertions further on: setAbortFlag, and the L0 when it yields a block
\* of the sets.  The L0 asserts on a read-set block only if it shares it.
assertionsOf(t, a, p, r) ==
  IF callsSetAbortFlag(t, a, r) /\ unrolling[t] THEN {TRUE}
  ELSE IF shouldNack(t, a, p, r) \/ ~existConflict(t, a, r) THEN {FALSE}
  ELSE IF isWriter(t, a) THEN {~lazyVM}
  ELSE IF isDoomed(t) \/ callsSetAbortFlag(t, a, r) THEN {FALSE} ELSE BOOLEAN

\* The requester's L1 keeps the eldest nacker, the first of equals.
recordNack(b, t) ==
  [b EXCEPT !.waiting = @ \ {t},
            !.eldest = IF b.eldest = None \/ timestamp[t] < b.ts THEN t ELSE @,
            !.ts = IF b.eldest = None \/ timestamp[t] < b.ts THEN timestamp[t]
                   ELSE @]

recordAck(b, t) == [b EXCEPT !.waiting = @ \ {t}]

answer(t, a) ==
  /\ busy[a] # None /\ t \in busy[a].waiting
  /\ LET p == busy[a].proc
     IN \E r \in seenAs(t, a, req[p][a]) :
          /\ abortFlag' = [abortFlag EXCEPT ![t] =
               @ \/ (callsSetAbortFlag(t, a, r) /\ ~unrolling[t])]
          /\ possibleCycle' = [possibleCycle EXCEPT
               ![t] = @ \/ notifySendNack(t, a, p, r)]
          /\ busy' = [busy EXCEPT ![a] =
               IF shouldNack(t, a, p, r) THEN recordNack(busy[a], t)
               ELSE recordAck(busy[a], t)]
          /\ assertFailed' \in IF failsAtL1(t, a, req[p][a]) THEN {TRUE}
                               ELSE assertionsOf(t, a, p, r)
  /\ ~assertFailed
  /\ UNCHANGED <<lazyVM, tsVars, inTx, logVars, setVars, req>>

-----------------------------------------------------------------------------
(* The answer reaches the requester                                        *)

Answered(p, a) == busy[a] # None /\ busy[a].proc = p /\ busy[a].waiting = {}

\* failedCallback and notifyReceiveNack: a transaction that may close a cycle
\* aborts; otherwise the request is retried, unless it is to be sunk.
receiveNack(p, a) ==
  /\ Answered(p, a) /\ busy[a].eldest # None
  /\ abortFlag' = [abortFlag EXCEPT ![p] = @ \/
       (/\ inTx[p] /\ req[p][a].age # 1 /\ ~unrolling[p] /\ possibleCycle[p]
        /\ isRemoteOlder(p, busy[a].ts, busy[a].eldest))]
  /\ req' = IF req[p][a].trans /\ (req[p][a].age > 0 \/ abortFlag'[p])
            THEN [req EXCEPT ![p][a] = None] ELSE req
  /\ busy' = [busy EXCEPT ![a] = None]
  /\ UNCHANGED <<tsVars, inTx, logVars, possibleCycle, setVars>>
  /\ Running

\* A load that finds the abort flag set has failed; a store is performed and
\* isolated even then.
receiveData(p, a) ==
  /\ Answered(p, a) /\ busy[a].eldest = None
  /\ LET own == req[p][a].trans /\ req[p][a].age = 0
         kind == req[p][a].kind
     IN /\ readSet' = IF own /\ kind = "GETS" /\ ~abortFlag[p]
                      THEN [readSet EXCEPT ![p] = @ \cup {a}] ELSE readSet
        /\ writeSet' = IF own /\ kind = "GETX"
                       THEN [writeSet EXCEPT ![p] = @ \cup {a}] ELSE writeSet
  /\ toRestore' = IF req[p][a].trans THEN toRestore
                   ELSE [toRestore EXCEPT ![p] = @ \ {a}]
  /\ req' = [req EXCEPT ![p][a] = None]
  /\ busy' = [busy EXCEPT ![a] = None]
  /\ UNCHANGED <<tsVars, inTx, abortFlag, unrolling, possibleCycle>>
  /\ Running

-----------------------------------------------------------------------------
(* Commit and abort                                                        *)

commitTransaction(p) ==
  /\ inTx[p] /\ ~isDoomed(p)
  /\ \A a \in Addr : req[p][a] # None => req[p][a].age > 0
  /\ inTx' = [inTx EXCEPT ![p] = FALSE]
  /\ lockTimestamp' = [lockTimestamp EXCEPT ![p] = FALSE]
  /\ possibleCycle' = [possibleCycle EXCEPT ![p] = FALSE]
  /\ readSet' = [readSet EXCEPT ![p] = {}]
  /\ writeSet' = [writeSet EXCEPT ![p] = {}]
  /\ UNCHANGED <<clock, attempts, timestamp, abortFlag, logVars, req, busy>>
  /\ Running

\* LogTM keeps the write set until the log is unrolled.
writeSetAfterAbort_Released(p) == {}

writeSetAfterAbort(p) == IF lazyVM THEN {} ELSE writeSet[p]

\* A request that outlives its transaction.
aged(r) ==
  IF r = None \/ ~r.trans THEN r
  ELSE [r EXCEPT !.age = IF @ < 2 THEN @ + 1 ELSE 2]

\* The CPU aborts when its stores have completed; loads may linger.
abortTransaction(p) ==
  /\ inTx[p] /\ ~unrolling[p] /\ (p \in Interfering \/ abortFlag[p])
  /\ \A a \in Addr : req[p][a] # None => req[p][a].kind = "GETS"
  /\ LET kept == writeSetAfterAbort(p)
     IN /\ writeSet' = [writeSet EXCEPT ![p] = kept]
        /\ unrolling' = [unrolling EXCEPT ![p] = ~lazyVM /\ writeSet[p] # {}]
        /\ possibleCycle' = [possibleCycle EXCEPT ![p] = @ /\ unrolling'[p]]
        /\ toRestore' = [toRestore EXCEPT ![p] = kept]
        /\ inTx' = [inTx EXCEPT ![p] = unrolling'[p]]
  /\ readSet' = [readSet EXCEPT ![p] = {}]
  /\ abortFlag' = [abortFlag EXCEPT ![p] = FALSE]
  /\ req' = [req EXCEPT ![p] = [a \in Addr |-> aged(req[p][a])]]
  /\ UNCHANGED <<tsVars, busy>>
  /\ Running

\* The CPU has restored every block of the log.
endLogUnroll(p) ==
  /\ unrolling[p] /\ toRestore[p] = {}
  /\ unrolling' = [unrolling EXCEPT ![p] = FALSE]
  /\ inTx' = [inTx EXCEPT ![p] = FALSE]
  /\ possibleCycle' = [possibleCycle EXCEPT ![p] = FALSE]
  /\ writeSet' = [writeSet EXCEPT ![p] = {}]
  /\ UNCHANGED <<tsVars, abortFlag, toRestore, readSet, req, busy>>
  /\ Running

\* Eviction: LogTM tolerates it for the write set.
xactReplacement(p, a) ==
  /\ p \in Interfering /\ inTx[p] /\ ~unrolling[p]
  /\ a \in readSet[p] \ writeSet[p] \/ (a \in writeSet[p] /\ lazyVM)
  /\ abortFlag' = [abortFlag EXCEPT ![p] = TRUE]
  /\ UNCHANGED <<tsVars, inTx, logVars, possibleCycle, setVars, req, busy>>
  /\ Running

-----------------------------------------------------------------------------
Step(p) ==
  \/ beginTransaction(p)
  \/ commitTransaction(p)
  \/ abortTransaction(p)
  \/ endLogUnroll(p)
  \/ \E a \in Addr :
       \/ \E kind \in Kinds :
            issueRequest(p, a, kind) \/ issueNonTransactional(p, a, kind)
       \/ issueRestore(p, a)
       \/ serveRequest(p, a)
       \/ answer(p, a)
       \/ receiveNack(p, a)
       \/ receiveData(p, a)
       \/ xactReplacement(p, a)

Next == \E p \in Proc : Step(p)

Spec == Init /\ [][Next]_vars

\* The L2 takes the requests for a block in turn (its input buffers are
\* queues), every core answers, and the CPU commits or aborts in the end.
Fairness ==
  \A p \in Proc :
    /\ WF_vars(commitTransaction(p))
    /\ WF_vars(abortFlag[p] /\ abortTransaction(p))
    /\ WF_vars(endLogUnroll(p))
    /\ \A a \in Addr :
         /\ WF_vars(issueRestore(p, a))
         /\ SF_vars(serveRequest(p, a))
         /\ WF_vars(answer(p, a))
         /\ WF_vars(receiveNack(p, a))
         /\ WF_vars(receiveData(p, a))

FairSpec == Spec /\ Fairness

-----------------------------------------------------------------------------
(* Properties                                                              *)

\* A written block is in no other transaction's sets, except in those of a
\* transaction that is to abort; with the log it stays so until the old value
\* is restored (shouldNackRemoteRequest, releaseReadIsolation).
WriteIsolation ==
  \A p, q \in Proc : p # q =>
    \A a \in writeSet[p] : a \in readSet[q] \cup writeSet[q] =>
      abortFlag[q] \/ (lazyVM /\ abortFlag[p])

\* A transaction that is unrolling its log has its abort flag clear, holds
\* only its write set, and stays in the transaction until the end of the
\* unroll (the assertions of isDoomed, abortTransaction and endLogUnroll).
UnrollState ==
  \A p \in Proc : unrolling[p] =>
    /\ inTx[p] /\ ~abortFlag[p] /\ readSet[p] = {} /\ writeSet[p] # {}
    /\ toRestore[p] \subseteq writeSet[p]

\* With a bounded number of retries every attempt ends, unless an assertion
\* stops the simulator: stalled transactions never wait for each other for
\* ever (notifySendNack, notifyReceiveNack), and an unroll completes.
AttemptResolves ==
  \A p \in Proc : inTx[p] ~> ~inTx[p] \/ assertFailed

\* The requests r of core p for block a that make an assertion fail at t.
FailsFor(t, a, p, r) ==
  \/ /\ isWriter(t, a) /\ r.kind = "GETS" /\ shouldNackRemoteRequest(t, r)
     /\ ~lazyVM \/ allow_read_set_l1_cache_evictions
  \/ /\ ~lazyVM /\ isWriter(t, a) /\ isDoomed(t)
     /\ \/ r.kind = "GETS" /\ l0_downgrade_on_l1_gets
        \/ ~r.trans /\ ~inTx[p] /\ unrolling[t]
  \/ /\ policy = "requester_stalls_cda_hybrid"
     /\ a \in readSet[t] \ writeSet[t] /\ ~isDoomed(t)
     /\ r.kind = "GETX" \/ ~l0_downgrade_on_l1_gets
     /\ r.trans /\ isRemoteOlder(t, r.ts, p)

\* An assertion fails in four situations only.  A load is nacked by a live
\* writer in a system whose L1 asks first, as LogTM's always does.  With the
\* log, a load that downgrades the L0 reaches a writer that is to abort or
\* unrolls its log, which does not nack it.  With the log, an access from
\* outside a transaction reaches a writer that unrolls its log, and never a
\* store by which a core restores its own.  Under the hybrid policy, an
\* elder's access passes a reader that goes on (the L1's forwarded GETS,
\* shouldNackRemoteRequest, shouldNackStore, setAbortFlag).
AssertionFailures ==
  [][assertFailed' => \/ assertFailed
                      \/ \E t \in Proc, a \in Addr :
                           /\ busy[a] # None /\ t \in busy[a].waiting
                           /\ FailsFor(t, a, busy[a].proc,
                                       req[busy[a].proc][a])]_vars

\* The assertions of the L0 and L1 controllers and of setAbortFlag hold.
AssertionsHold == ~assertFailed
=============================================================================
