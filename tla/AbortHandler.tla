---------------------------- MODULE AbortHandler ----------------------------
(***************************************************************************)
(* The abort handler library that the benchmarks are linked with: a        *)
(* critical section runs as a hardware transaction that subscribes to the  *)
(* fallback lock; it is retried after an abort, in power mode after too    *)
(* many of them (POWERTM), and runs under the fallback lock in the end.    *)
(*                                                                         *)
(* The hardware is AtomicTM, on whose memory the fallback lock and the     *)
(* data lie; it may abort a transaction at any time and for any cause.     *)
(* Every section increments the shared counter Data once.                  *)
(***************************************************************************)
EXTENDS Integers

CONSTANTS Thread,           \* thread ids
          Handlers,         \* HANDLER of the Makefile: libraries considered
          htm_max_retries,  \* env.config.htm_max_retries
          Sections,         \* bound: critical sections of each thread
          MaxCancel,        \* bound: attempts up to which the body may cancel
          Modulus,          \* bound: the counter is modulo this number
          None              \* no value

ASSUME ThreadAssumption == -1 \notin Thread
ASSUME HandlersAssumption ==
  Handlers \subseteq {"sgl", "fallbacklock", "fallbacklock2phase", "powertm",
                      "powertmplus"}
ASSUME BoundsAssumption ==
  /\ htm_max_retries \in Nat /\ MaxCancel \in Nat
  /\ Sections \in [Thread -> Nat]
  /\ Modulus \in Nat \ {0, 1} /\ None \notin 0..(Modulus - 1)

fallbackLock == "fallbackLock"
Data == "data"
Block == {fallbackLock, Data}
Val == 0..(Modulus - 1)
Inc(v) == (v + 1) % Modulus

VARIABLES
  mem, status, reads, writes,  \* the hardware (AtomicTM)
  handler,            \* library the program is linked with; never changes
  pc,                 \* where the thread is
  left,               \* critical sections the thread has still to start
  speculative,        \* between xbegin and the end or the abort handler
  ret,                \* abort status
  nretries,           \* attempts that count
  nRetriesPowerMode,  \* aborts in power mode
  txExecOnPower,      \* the transaction runs, or will run, in power mode
  retryWithLock,      \* leave the loop and take the lock
  tmp,                \* register: the counter loaded under the lock
  powerFlag,          \* *(locks.powerFlag): thread that has the power, or -1
  preFallbackLock,    \* *(locks.preFallbackLock)
  assertFailed,       \* an assert has ended the program
  done                \* history: sections completed, modulo Modulus

htmVars == <<mem, status, reads, writes>>
countVars == <<nretries, nRetriesPowerMode, txExecOnPower, retryWithLock>>
flagVars == <<powerFlag, preFallbackLock, assertFailed>>
vars == <<htmVars, handler, pc, left, speculative, ret, countVars, tmp,
          flagVars, done>>

H == INSTANCE AtomicTM WITH Proc <- Thread, Addr <- Block, InitVal <- 0,
                            OutsideStores <- Block \X Val

Active(t) == t \in H!Running

POWERTM == handler \in {"powertm", "powertmplus"}

\* htm_may_succeed_on_retry: HTMCheckpoint::restore sets the retry bit.
Status == {"none", "conflict", "conflictPower", "other", "noRetry",
           "lockAcquired", "cancelled"}
cause_conflict(r) == r \in {"conflict", "conflictPower"}
cause_explicit(r) == r \in {"lockAcquired", "cancelled"}
may_succeed_on_retry(r) == r \in {"conflict", "conflictPower", "other"}

PC == {"out", "retry", "subscribe", "cancel", "load", "store", "commit",
       "xend", "release", "aborted", "wait", "decide", "cas", "pause", "exit",
       "preLock", "lock", "preUnlock", "lockedLoad", "lockedStore"}

TypeOK ==
  /\ mem \in [Block -> Val] /\ status \in [Thread -> H!Status]
  /\ reads \in [Thread -> [Block -> Val \cup {None}]]
  /\ writes \in [Thread -> [Block -> Val \cup {None}]]
  /\ handler \in Handlers
  /\ pc \in [Thread -> PC] /\ left \in [Thread -> Nat]
  /\ speculative \in [Thread -> BOOLEAN] /\ ret \in [Thread -> Status]
  /\ nretries \in [Thread -> Int] /\ nRetriesPowerMode \in [Thread -> Nat]
  /\ txExecOnPower \in [Thread -> BOOLEAN]
  /\ retryWithLock \in [Thread -> BOOLEAN] /\ tmp \in [Thread -> Val]
  /\ powerFlag \in Thread \cup {-1} /\ preFallbackLock \in BOOLEAN
  /\ assertFailed \in BOOLEAN /\ done \in Val

Init ==
  /\ H!Init
  /\ handler \in Handlers
  /\ pc = [t \in Thread |-> "out"] /\ left = Sections
  /\ speculative = [t \in Thread |-> FALSE]
  /\ ret = [t \in Thread |-> "none"]
  /\ nretries = [t \in Thread |-> 0]
  /\ nRetriesPowerMode = [t \in Thread |-> 0]
  /\ txExecOnPower = [t \in Thread |-> FALSE]
  /\ retryWithLock = [t \in Thread |-> FALSE]
  /\ tmp = [t \in Thread |-> 0]
  /\ powerFlag = -1 /\ preFallbackLock = FALSE
  /\ assertFailed = FALSE /\ done = 0

\* t runs the code at a label, unless its transaction is already aborted or an
\* assert has ended the program.
At(t, label) ==
  /\ pc[t] = label /\ ~assertFailed
  /\ speculative[t] => Active(t)

Goto(t, label) == pc' = [pc EXCEPT ![t] = label]

-----------------------------------------------------------------------------
(* beginTransaction: the speculative attempt                               *)

beginTransaction(t) ==
  /\ At(t, "out") /\ left[t] > 0
  /\ left' = [left EXCEPT ![t] = @ - 1]
  /\ nretries' = [nretries EXCEPT ![t] = 0]
  /\ nRetriesPowerMode' = [nRetriesPowerMode EXCEPT ![t] = 0]
  /\ retryWithLock' = [retryWithLock EXCEPT ![t] = FALSE]
  /\ Goto(t, IF handler = "sgl" THEN "lock" ELSE "retry")
  /\ UNCHANGED <<htmVars, handler, speculative, ret, txExecOnPower, tmp,
                 flagVars, done>>

\* Head of the loop: only t writes powerFlag from or to t, so the test of the
\* flag and xbegin are one step.
htm_start(t) ==
  /\ At(t, "retry")
  /\ nretries' = [nretries EXCEPT ![t] = @ + 1]
  /\ txExecOnPower' = [txExecOnPower EXCEPT ![t] = POWERTM /\ powerFlag = t]
  /\ H!Begin(t)
  /\ speculative' = [speculative EXCEPT ![t] = TRUE]
  /\ Goto(t, "subscribe")
  /\ UNCHANGED <<handler, left, ret, nRetriesPowerMode, retryWithLock, tmp,
                 flagVars, done>>

\* The transaction reads the fallback lock.
subscribe_Skip(t) ==
  /\ At(t, "subscribe")
  /\ Goto(t, "load")
  /\ UNCHANGED <<htmVars, handler, left, speculative, ret, countVars, tmp,
                 flagVars, done>>

subscribe(t) ==
  /\ At(t, "subscribe")
  /\ H!Read(t, fallbackLock, mem[fallbackLock], {})
  /\ Goto(t, IF mem[fallbackLock] = 0 THEN "load" ELSE "cancel")
  /\ UNCHANGED <<handler, left, speculative, ret, countVars, tmp, flagVars,
                 done>>

\* The handler continues after xbegin with the abort status r.
toHandler(t, r) ==
  /\ speculative' = [speculative EXCEPT ![t] = FALSE]
  /\ ret' = [ret EXCEPT ![t] = r]
  /\ Goto(t, "aborted")
  /\ UNCHANGED <<handler, left, countVars, tmp, flagVars, done>>

htm_cancel_lock_acquired(t) ==
  /\ At(t, "cancel")
  /\ H!Abort({t})
  /\ toHandler(t, "lockAcquired")

\* The body loads the counter: the committed value, or one that another
\* transaction has written and the hardware forwards.
txLoad(t) ==
  /\ At(t, "load")
  /\ \E v \in {mem[Data]} \cup ({writes[q][Data] : q \in Thread} \ {None}) :
       H!Read(t, Data, v, {})
  /\ Goto(t, "store")
  /\ UNCHANGED <<handler, left, speculative, ret, countVars, tmp, flagVars,
                 done>>

txStore(t) ==
  /\ At(t, "store")
  /\ H!Write(t, Data, Inc(reads[t][Data]))
  /\ Goto(t, "commit")
  /\ UNCHANGED <<handler, left, speculative, ret, countVars, tmp, flagVars,
                 done>>

\* The body gives up on its own (TM_RESTART of the benchmarks).
cancelTransaction(t) ==
  /\ At(t, "store") /\ nretries[t] <= MaxCancel
  /\ H!Abort({t})
  /\ toHandler(t, "cancelled")

\* The hardware aborts a transaction of t ...
htmAbort(t) ==
  /\ ~assertFailed /\ speculative[t] /\ Active(t)
  /\ H!Abort({t})
  /\ UNCHANGED <<handler, pc, left, speculative, ret, countVars, tmp,
                 flagVars, done>>

\* ... and t finds out: HTMCheckpoint::restore encodes the cause.
restore(t) ==
  /\ ~assertFailed /\ speculative[t] /\ ~Active(t)
  /\ \E r \in {"conflict", "other", "noRetry"} \cup
              (IF POWERTM THEN {"conflictPower"} ELSE {}) : toHandler(t, r)
  /\ UNCHANGED htmVars

-----------------------------------------------------------------------------
(* beginTransaction: the abort handler                                     *)

\* A conflict while the lock is held is not counted.
aborted(t) ==
  /\ At(t, "aborted")
  /\ nretries' = [nretries EXCEPT ![t] =
       IF cause_conflict(ret[t]) /\ mem[fallbackLock] # 0 THEN @ - 1 ELSE @]
  /\ Goto(t, "wait")
  /\ UNCHANGED <<htmVars, handler, left, speculative, ret, nRetriesPowerMode,
                 txExecOnPower, retryWithLock, tmp, flagVars, done>>

spinlock_whileIsLocked(t) ==
  /\ At(t, "wait") /\ mem[fallbackLock] = 0
  /\ Goto(t, "decide")
  /\ UNCHANGED <<htmVars, handler, left, speculative, ret, countVars, tmp,
                 flagVars, done>>

\* Attempts that count, after the ones that do not: the lock was taken, or a
\* power transaction is running.
counted(t) ==
  IF \/ ret[t] = "lockAcquired"
     \/ /\ ~cause_explicit(ret[t]) /\ handler = "powertm"
        /\ ~txExecOnPower[t] /\ powerFlag # -1
     \/ handler = "powertmplus" /\ ret[t] = "conflictPower"
  THEN nretries[t] - 1 ELSE nretries[t]

PowerRetries(t) == nRetriesPowerMode[t] + (IF txExecOnPower[t] THEN 1 ELSE 0)

\* Aborts in power mode that may be followed by a retry in power mode.
powerModeExhausted_AtMax(t) ==
  /\ txExecOnPower[t] /\ may_succeed_on_retry(ret[t])
  /\ PowerRetries(t) >= htm_max_retries

powerModeExhausted(t) ==
  /\ txExecOnPower[t] /\ may_succeed_on_retry(ret[t])
  /\ PowerRetries(t) > htm_max_retries

\* continue: retry in power mode at once.
retryInPowerMode(t) ==
  /\ At(t, "decide")
  /\ txExecOnPower[t] /\ may_succeed_on_retry(ret[t]) /\ ~powerModeExhausted(t)
  /\ nRetriesPowerMode' = [nRetriesPowerMode EXCEPT ![t] = @ + 1]
  /\ Goto(t, "retry")
  /\ UNCHANGED <<htmVars, handler, left, speculative, ret, nretries,
                 txExecOnPower, retryWithLock, tmp, flagVars, done>>

tooManyRetries(t) == counted(t) >= htm_max_retries

\* Take the lock if a retry cannot succeed; after too many retries, the power
\* (POWERTM) or the lock.
decide(t) ==
  /\ At(t, "decide")
  /\ \/ ~(txExecOnPower[t] /\ may_succeed_on_retry(ret[t]))
     \/ powerModeExhausted(t)
  /\ LET hopeless == ~cause_explicit(ret[t]) /\ ~may_succeed_on_retry(ret[t])
         tooMany == ~hopeless /\ tooManyRetries(t) /\ ~powerModeExhausted(t)
     IN /\ assertFailed' = (tooMany /\ POWERTM /\ txExecOnPower[t])
        /\ retryWithLock' = [retryWithLock EXCEPT ![t] =
             powerModeExhausted(t) \/ hopeless \/ (tooMany /\ ~POWERTM)]
        /\ Goto(t, IF tooMany /\ POWERTM THEN "cas" ELSE "pause")
  /\ nretries' = [nretries EXCEPT ![t] = counted(t)]
  /\ nRetriesPowerMode' = [nRetriesPowerMode EXCEPT ![t] = PowerRetries(t)]
  /\ UNCHANGED <<htmVars, handler, left, speculative, ret, txExecOnPower, tmp,
                 powerFlag, preFallbackLock, done>>

\* compare_and_swap(powerFlag, -1, t)
takePower_Store(t) ==
  /\ At(t, "cas")
  /\ powerFlag' = t
  /\ txExecOnPower' = [txExecOnPower EXCEPT ![t] = TRUE]
  /\ Goto(t, "pause")
  /\ UNCHANGED <<htmVars, handler, left, speculative, ret, nretries,
                 nRetriesPowerMode, retryWithLock, tmp, preFallbackLock,
                 assertFailed, done>>

takePower(t) ==
  /\ At(t, "cas")
  /\ powerFlag' = IF powerFlag = -1 THEN t ELSE powerFlag
  /\ txExecOnPower' = [txExecOnPower EXCEPT ![t] = powerFlag = -1]
  /\ Goto(t, "pause")
  /\ UNCHANGED <<htmVars, handler, left, speculative, ret, nretries,
                 nRetriesPowerMode, retryWithLock, tmp, preFallbackLock,
                 assertFailed, done>>

\* End of the loop: 2PHASE waits for a thread that is acquiring the lock.  The
\* backoff only takes time.
pause(t) ==
  /\ At(t, "pause")
  /\ handler = "fallbacklock2phase" => ~preFallbackLock
  /\ Goto(t, IF retryWithLock[t] THEN "exit" ELSE "retry")
  /\ UNCHANGED <<htmVars, handler, left, speculative, ret, countVars, tmp,
                 flagVars, done>>

-----------------------------------------------------------------------------
(* beginTransaction: the fallback lock                                     *)

releasePowerFlag_Zero(t) ==
  /\ At(t, "exit")
  /\ powerFlag' = IF powerFlag = t THEN 0 ELSE powerFlag
  /\ Goto(t, IF handler = "fallbacklock2phase" THEN "preLock" ELSE "lock")
  /\ UNCHANGED <<htmVars, handler, left, speculative, ret, countVars, tmp,
                 preFallbackLock, assertFailed, done>>

releasePowerFlag(t) ==
  /\ At(t, "exit")
  /\ powerFlag' = IF powerFlag = t THEN -1 ELSE powerFlag
  /\ assertFailed' = (powerFlag = t /\ ~(txExecOnPower[t]
       /\ (~may_succeed_on_retry(ret[t])
           \/ nRetriesPowerMode[t] > htm_max_retries)))
  /\ Goto(t, IF handler = "fallbacklock2phase" THEN "preLock" ELSE "lock")
  /\ UNCHANGED <<htmVars, handler, left, speculative, ret, countVars, tmp,
                 preFallbackLock, done>>

spinlock_prefb_lock(t) ==
  /\ At(t, "preLock") /\ ~preFallbackLock
  /\ preFallbackLock' = TRUE
  /\ Goto(t, "lock")
  /\ UNCHANGED <<htmVars, handler, left, speculative, ret, countVars, tmp,
                 powerFlag, assertFailed, done>>

spinlock_lock_Store(t) ==
  /\ At(t, "lock")
  /\ H!StoreOutside(fallbackLock, 1, {})
  /\ Goto(t, IF handler = "fallbacklock2phase" THEN "preUnlock"
             ELSE "lockedLoad")
  /\ UNCHANGED <<handler, left, speculative, ret, countVars, tmp, flagVars,
                 done>>

spinlock_lock(t) ==
  /\ At(t, "lock") /\ mem[fallbackLock] = 0
  /\ H!StoreOutside(fallbackLock, 1, {})
  /\ Goto(t, IF handler = "fallbacklock2phase" THEN "preUnlock"
             ELSE "lockedLoad")
  /\ UNCHANGED <<handler, left, speculative, ret, countVars, tmp, flagVars,
                 done>>

spinlock_prefb_unlock(t) ==
  /\ At(t, "preUnlock")
  /\ preFallbackLock' = FALSE
  /\ Goto(t, "lockedLoad")
  /\ UNCHANGED <<htmVars, handler, left, speculative, ret, countVars, tmp,
                 powerFlag, assertFailed, done>>

lockedLoad(t) ==
  /\ At(t, "lockedLoad")
  /\ tmp' = [tmp EXCEPT ![t] = mem[Data]]
  /\ Goto(t, "lockedStore")
  /\ UNCHANGED <<htmVars, handler, left, speculative, ret, countVars,
                 flagVars, done>>

lockedStore(t) ==
  /\ At(t, "lockedStore")
  /\ H!StoreOutside(Data, Inc(tmp[t]), {})
  /\ Goto(t, "commit")
  /\ UNCHANGED <<handler, left, speculative, ret, countVars, tmp, flagVars,
                 done>>

-----------------------------------------------------------------------------
(* commitTransaction                                                       *)

\* spinlock_isLocked: inside a transaction that has read the lock it returns
\* what the transaction has read.
spinlock_isLocked(t) ==
  IF speculative[t] /\ reads[t][fallbackLock] # None
  THEN reads[t][fallbackLock] # 0
  ELSE mem[fallbackLock] # 0

sectionDone == done' = Inc(done)

spinlock_unlock(t) ==
  /\ At(t, "commit") /\ (handler = "sgl" \/ spinlock_isLocked(t))
  /\ H!StoreOutside(fallbackLock, 0, {})
  /\ sectionDone
  /\ Goto(t, "out")
  /\ UNCHANGED <<handler, left, speculative, ret, countVars, tmp, flagVars>>

\* The section ends without the lock: xend ...
toXend(t) ==
  /\ At(t, "commit") /\ handler # "sgl" /\ ~spinlock_isLocked(t)
  /\ Goto(t, "xend")
  /\ UNCHANGED <<htmVars, handler, left, speculative, ret, countVars, tmp,
                 flagVars, done>>

htm_commit(t) ==
  /\ At(t, "xend")
  /\ H!Commit(t)
  /\ speculative' = [speculative EXCEPT ![t] = FALSE]
  /\ sectionDone
  /\ Goto(t, "release")
  /\ UNCHANGED <<handler, left, ret, countVars, tmp, flagVars>>

\* ... after which the power is given back.
clearPowerFlag_Keep(t) ==
  /\ At(t, "release")
  /\ Goto(t, "out")
  /\ UNCHANGED <<htmVars, handler, left, speculative, ret, countVars, tmp,
                 flagVars, done>>

clearPowerFlag(t) ==
  /\ At(t, "release")
  /\ powerFlag' = IF powerFlag = t THEN -1 ELSE powerFlag
  /\ Goto(t, "out")
  /\ UNCHANGED <<htmVars, handler, left, speculative, ret, countVars, tmp,
                 preFallbackLock, assertFailed, done>>

-----------------------------------------------------------------------------
begin(t) ==
  \/ beginTransaction(t) \/ htm_start(t) \/ subscribe(t)
  \/ htm_cancel_lock_acquired(t) \/ restore(t)
  \/ aborted(t) \/ spinlock_whileIsLocked(t) \/ retryInPowerMode(t)
  \/ decide(t) \/ takePower(t) \/ pause(t) \/ releasePowerFlag(t)
  \/ spinlock_prefb_lock(t) \/ spinlock_lock(t) \/ spinlock_prefb_unlock(t)

body(t) ==
  txLoad(t) \/ txStore(t) \/ cancelTransaction(t) \/ lockedLoad(t)
  \/ lockedStore(t)

commit(t) ==
  spinlock_unlock(t) \/ toXend(t) \/ htm_commit(t) \/ clearPowerFlag(t)

\* The program ends when every section is done, or with a failed assert.
Terminated ==
  /\ assertFailed \/ \A t \in Thread : pc[t] = "out" /\ left[t] = 0
  /\ UNCHANGED vars

Next ==
  \/ \E t \in Thread : begin(t) \/ body(t) \/ commit(t) \/ htmAbort(t)
  \/ Terminated

Spec == Init /\ [][Next]_vars

\* Every thread runs; the hardware answers an xend with a commit or an abort.
Fairness ==
  \A t \in Thread :
    /\ WF_vars(begin(t) \/ body(t) \/ commit(t))
    /\ WF_vars(htm_commit(t) \/ (pc[t] = "xend" /\ htmAbort(t)))

FairSpec == Spec /\ Fairness

-----------------------------------------------------------------------------
(* Properties                                                              *)

InLockedSection(t) == pc[t] \in {"preUnlock", "lockedLoad", "lockedStore"}
HoldsLock(t) == InLockedSection(t) \/ (pc[t] = "commit" /\ ~speculative[t])

\* No section is lost or done twice, whether it ran as a transaction or under
\* the fallback lock: the counter is the number of completed sections, plus
\* one while a lock holder has stored it and not yet unlocked.  It fails if a
\* transaction commits between the load and the store of a lock holder, which
\* the subscription of beginTransaction_fallbackLock prevents.
SectionsAtomic ==
  mem[Data] =
    IF \E t \in Thread : pc[t] = "commit" /\ ~speculative[t]
    THEN Inc(done) ELSE done

\* commitTransaction_fallbackLock decides from the lock alone whether the
\* section ran under it: a thread that can go on unlocks if and only if it is
\* the holder, and ends a transaction if and only if it is in one.
CommitMode ==
  \A t \in Thread :
    pc[t] = "commit" /\ (speculative[t] => Active(t))
      => (spinlock_isLocked(t) <=> ~speculative[t])

\* At most one thread holds the fallback lock, and it is then locked.
LockExclusive ==
  \A t \in Thread : HoldsLock(t) =>
    mem[fallbackLock] = 1 /\ \A u \in Thread \ {t} : ~HoldsLock(u)

\* Two power transactions never run at the same time, which the coherence
\* protocol relies on ("Only one transaction can have sw prio", setNack), and a
\* thread that holds the fallback lock has given the power back.
PowerExclusive ==
  \A t \in Thread :
    /\ speculative[t] /\ txExecOnPower[t] => powerFlag = t
    /\ HoldsLock(t) => powerFlag # t

\* An assert of beginTransaction_fallbackLock fails in one situation only: the
\* explicit abort of a power transaction, which is not retried in power mode
\* and not counted.  The asserts on the way to the fallback lock hold: a
\* thread that still has the power there has used up its retries in power
\* mode, or a retry cannot succeed.
AssertFailures ==
  [][assertFailed' => \/ assertFailed
                      \/ \E t \in Thread :
                           /\ pc[t] = "decide" /\ POWERTM /\ txExecOnPower[t]
                           /\ cause_explicit(ret[t])]_vars

\* Every critical section is eventually completed, whatever the hardware
\* aborts: the retries are bounded (htm_max_retries, nRetriesPowerMode) and
\* the power and the locks are given back.
SectionCompletes ==
  \A t \in Thread : pc[t] # "out" ~> (pc[t] = "out" \/ assertFailed)

\* The asserts of beginTransaction_fallbackLock hold: a transaction in power
\* mode never reaches the code that acquires the power ("assert(!txExecOnPower)
\* ... Go into power mode").
AssertsHold == ~assertFailed
=============================================================================
