------------------------- MODULE AbortHandlerProofs -------------------------
(***************************************************************************)
(* The safety properties of AbortHandler, for every number of threads and  *)
(* sections, every library and every htm_max_retries.                      *)
(***************************************************************************)
EXTENDS AbortHandler, TLAPS

\* Which labels are inside a transaction; HANDLER = sgl has no transactions.
Where(t) ==
  /\ speculative[t] =>
       pc[t] \in {"subscribe", "cancel", "load", "store", "commit", "xend"}
  /\ pc[t] \in {"subscribe", "cancel", "load", "store", "xend"}
       => speculative[t]
  /\ handler = "sgl" =>
       /\ ~speculative[t] /\ powerFlag = -1
       /\ pc[t] \in {"out", "lock", "lockedLoad", "lockedStore", "commit"}

\* A transaction past its subscription has read the lock free, writes only the
\* data and has incremented what it has read.
Speculation(t) ==
  /\ ~Active(t) => writes[t] = H!NoValues
  /\ writes[t][fallbackLock] = None
  /\ Active(t) /\ speculative[t] =>
       /\ pc[t] \in {"load", "store", "commit", "xend"}
            => reads[t][fallbackLock] = 0
       /\ pc[t] \in {"store", "commit", "xend"} => reads[t][Data] \in Val
       /\ pc[t] \in {"commit", "xend"}
            => writes[t][Data] = Inc(reads[t][Data])

\* The lock holder is alone, and what it has loaded stays current.
Locked(t) ==
  /\ HoldsLock(t) => /\ mem[fallbackLock] = 1
                     /\ \A u \in Thread \ {t} : ~HoldsLock(u)
  /\ pc[t] = "lockedStore" => tmp[t] = mem[Data]

\* The power is given back before the lock is acquired.
Power(t) ==
  /\ speculative[t] /\ txExecOnPower[t] => powerFlag = t
  /\ HoldsLock(t) \/ pc[t] \in {"preLock", "lock"} => powerFlag # t

ThreadInv(t) == Where(t) /\ Speculation(t) /\ Locked(t) /\ Power(t)

HInv ==
  /\ TypeOK
  /\ \A t \in Thread : ThreadInv(t)
  /\ SectionsAtomic

-----------------------------------------------------------------------------
\* Facts about the constants, and the increments of the counter.
LEMMA ValFacts ==
  /\ 0 \in Val /\ 1 \in Val /\ None \notin Val
  /\ \A v \in Val : Inc(v) \in Val
<1>1. Modulus \in Nat /\ Modulus > 1
  BY BoundsAssumption
<1>2. ASSUME NEW v \in Val
      PROVE  Inc(v) \in Val
  BY <1>1 DEF Val, Inc
<1> QED
  BY <1>1, <1>2, BoundsAssumption DEF Val

\* The hardware keeps its types.
LEMMA HardwareTypes ==
  ASSUME TypeOK, NEW t \in Thread,
         \/ H!Begin(t) \/ H!Commit(t) \/ H!Abort({t})
         \/ \E a \in Block, v \in Val :
              H!Read(t, a, v, {}) \/ H!Write(t, a, v) \/ H!StoreOutside(a, v, {})
         \/ UNCHANGED htmVars
  PROVE  /\ mem' \in [Block -> Val] /\ status' \in [Thread -> H!Status]
         /\ reads' \in [Thread -> [Block -> Val \cup {None}]]
         /\ writes' \in [Thread -> [Block -> Val \cup {None}]]
<1> USE DEF TypeOK, H!Status, H!NoValues, H!End
<1>1. CASE H!Begin(t)
  BY Zenon, <1>1 DEF H!Begin
<1>2. CASE H!Commit(t)
  <2>1. mem' \in [Block -> Val]
    BY <1>2 DEF H!Commit
  <2> QED
    BY Zenon, <1>2, <2>1 DEF H!Commit
<1>3. CASE H!Abort({t})
  BY Zenon, <1>3 DEF H!Abort
<1>4. ASSUME NEW a \in Block, NEW v \in Val, H!Read(t, a, v, {})
      PROVE  /\ mem' \in [Block -> Val] /\ status' \in [Thread -> H!Status]
             /\ reads' \in [Thread -> [Block -> Val \cup {None}]]
             /\ writes' \in [Thread -> [Block -> Val \cup {None}]]
  BY Zenon, <1>4 DEF H!Read
<1>5. ASSUME NEW a \in Block, NEW v \in Val, H!Write(t, a, v)
      PROVE  /\ mem' \in [Block -> Val] /\ status' \in [Thread -> H!Status]
             /\ reads' \in [Thread -> [Block -> Val \cup {None}]]
             /\ writes' \in [Thread -> [Block -> Val \cup {None}]]
  BY Zenon, <1>5 DEF H!Write
<1>6. ASSUME NEW a \in Block, NEW v \in Val, H!StoreOutside(a, v, {})
      PROVE  /\ mem' \in [Block -> Val] /\ status' \in [Thread -> H!Status]
             /\ reads' \in [Thread -> [Block -> Val \cup {None}]]
             /\ writes' \in [Thread -> [Block -> Val \cup {None}]]
  BY Zenon, <1>6 DEF H!StoreOutside
<1>7. CASE UNCHANGED htmVars
  BY Zenon, <1>7 DEF htmVars
<1> QED
  BY Zenon, <1>1, <1>2, <1>3, <1>4, <1>5, <1>6, <1>7

\* What the steps of the hardware do to the transaction of t, and that they
\* leave the others alone.
LEMMA BeginStep ==
  ASSUME TypeOK, NEW t \in Thread, H!Begin(t)
  PROVE  /\ UNCHANGED <<mem, reads, writes>> /\ Active(t)'
         /\ \A u \in Thread \ {t} : Active(u)' <=> Active(u)
BY Zenon DEF TypeOK, Active, H!Running, H!Begin

\* A transaction that ends leaves no reads and writes behind.
LEMMA EndStep ==
  ASSUME TypeOK, NEW t \in Thread, H!Abort({t}) \/ H!Commit(t)
  PROVE  /\ ~Active(t)' /\ writes'[t] = H!NoValues
         /\ \A u \in Thread \ {t} :
              /\ Active(u)' <=> Active(u)
              /\ reads'[u] = reads[u] /\ writes'[u] = writes[u]
BY Zenon DEF TypeOK, Active, H!Running, H!Abort, H!Commit, H!End

\* A read is recorded.
LEMMA ReadStep ==
  ASSUME TypeOK, NEW t \in Thread, NEW a, NEW v, H!Read(t, a, v, {})
  PROVE  /\ UNCHANGED <<mem, writes>> /\ Active(t)
         /\ \A u \in Thread : Active(u)' <=> Active(u)
         /\ reads' = [reads EXCEPT ![t][a] = v]
BY Zenon DEF TypeOK, Active, H!Running, H!Read

\* A write is kept from the memory.
LEMMA WriteStep ==
  ASSUME TypeOK, NEW t \in Thread, NEW a, NEW v, H!Write(t, a, v)
  PROVE  /\ UNCHANGED <<mem, reads>> /\ Active(t)
         /\ \A u \in Thread : Active(u)' <=> Active(u)
         /\ writes' = [writes EXCEPT ![t][a] = v]
BY Zenon DEF TypeOK, Active, H!Running, H!Write

\* A store outside transactions reaches the memory.
LEMMA StoreStep ==
  ASSUME TypeOK, NEW a, NEW v, H!StoreOutside(a, v, {})
  PROVE  /\ mem' = [mem EXCEPT ![a] = v] /\ UNCHANGED <<reads, writes>>
         /\ \A u \in Thread : Active(u)' <=> Active(u)
BY Zenon DEF TypeOK, Active, H!Running, H!StoreOutside, H!End

-----------------------------------------------------------------------------
\* Steps of one thread.
Step(t) == begin(t) \/ body(t) \/ commit(t) \/ htmAbort(t)

\* Typing of the variables the library writes.
LEMMA TypeStep ==
  ASSUME TypeOK, \A u \in Thread : Where(u) /\ Speculation(u),
         NEW t \in Thread, Step(t)
  PROVE  TypeOK'
<1> USE DEF TypeOK, At, Goto, PC, Status, toHandler, countVars, flagVars
<1>1. CASE beginTransaction(t)
  BY <1>1 DEF beginTransaction, htmVars
<1>2. CASE htm_start(t)
  <2>1. /\ mem' \in [Block -> Val] /\ status' \in [Thread -> H!Status]
        /\ reads' \in [Thread -> [Block -> Val \cup {None}]]
        /\ writes' \in [Thread -> [Block -> Val \cup {None}]]
    BY Zenon, <1>2, HardwareTypes DEF htm_start
  <2>2. (POWERTM /\ powerFlag = t) \in BOOLEAN
    OBVIOUS
  <2>3. txExecOnPower' \in [Thread -> BOOLEAN]
    BY Zenon, <1>2, <2>2 DEF htm_start
  <2> QED
    BY <1>2, <2>1, <2>3 DEF htm_start
<1>3. CASE subscribe(t)
  <2>1. /\ mem' \in [Block -> Val] /\ status' \in [Thread -> H!Status]
        /\ reads' \in [Thread -> [Block -> Val \cup {None}]]
        /\ writes' \in [Thread -> [Block -> Val \cup {None}]]
    BY Zenon, <1>3, ValFacts, HardwareTypes
       DEF subscribe, Block, fallbackLock, Data
  <2> QED
    BY Zenon, <1>3, <2>1, ValFacts DEF subscribe
<1>4. CASE htm_cancel_lock_acquired(t)
  <2>1. /\ mem' \in [Block -> Val] /\ status' \in [Thread -> H!Status]
        /\ reads' \in [Thread -> [Block -> Val \cup {None}]]
        /\ writes' \in [Thread -> [Block -> Val \cup {None}]]
    BY Zenon, <1>4, ValFacts, HardwareTypes
       DEF htm_cancel_lock_acquired, Block, fallbackLock, Data
  <2> QED
    BY Zenon, <1>4, <2>1, ValFacts DEF htm_cancel_lock_acquired
<1>5. CASE restore(t)
  BY <1>5 DEF restore, htmVars
<1>6. CASE aborted(t)
  BY <1>6 DEF aborted, htmVars
<1>7. CASE spinlock_whileIsLocked(t)
  BY Zenon, <1>7 DEF spinlock_whileIsLocked, htmVars
<1>8. CASE retryInPowerMode(t)
  BY <1>8 DEF retryInPowerMode, htmVars
<1>9. CASE decide(t)
  BY <1>9 DEF decide, counted, PowerRetries, htmVars
<1>10. CASE takePower(t)
  BY Zenon, <1>10 DEF takePower, htmVars
<1>11. CASE pause(t)
  BY Zenon, <1>11 DEF pause, htmVars
<1>12. CASE releasePowerFlag(t)
  BY Zenon, <1>12 DEF releasePowerFlag, htmVars
<1>13. CASE spinlock_prefb_lock(t)
  BY Zenon, <1>13 DEF spinlock_prefb_lock, htmVars
<1>14. CASE spinlock_lock(t)
  <2>1. /\ mem' \in [Block -> Val] /\ status' \in [Thread -> H!Status]
        /\ reads' \in [Thread -> [Block -> Val \cup {None}]]
        /\ writes' \in [Thread -> [Block -> Val \cup {None}]]
    BY Zenon, <1>14, ValFacts, HardwareTypes
       DEF spinlock_lock, Block, fallbackLock, Data
  <2> QED
    BY Zenon, <1>14, <2>1, ValFacts DEF spinlock_lock
<1>15. CASE spinlock_prefb_unlock(t)
  BY Zenon, <1>15 DEF spinlock_prefb_unlock, htmVars
<1>16. CASE txLoad(t)
  <2>1. PICK v \in {mem[Data]} \cup ({writes[q][Data] : q \in Thread} \ {None}) :
          H!Read(t, Data, v, {})
    BY Zenon, <1>16 DEF txLoad
  <2>2. v \in Val /\ Data \in Block
    BY DEF Block, Data
  <2>3. /\ mem' \in [Block -> Val] /\ status' \in [Thread -> H!Status]
        /\ reads' \in [Thread -> [Block -> Val \cup {None}]]
        /\ writes' \in [Thread -> [Block -> Val \cup {None}]]
    BY Zenon, <2>1, <2>2, HardwareTypes
  <2> QED
    BY Zenon, <1>16, <2>3 DEF txLoad
<1>17. CASE txStore(t)
  <2>1. reads[t][Data] \in Val /\ Data \in Block
    BY Zenon, <1>17 DEF txStore, Where, Speculation, Block
  <2>2. Inc(reads[t][Data]) \in Val
    BY Zenon, <2>1, ValFacts
  <2>3. /\ mem' \in [Block -> Val] /\ status' \in [Thread -> H!Status]
        /\ reads' \in [Thread -> [Block -> Val \cup {None}]]
        /\ writes' \in [Thread -> [Block -> Val \cup {None}]]
    BY Zenon, <1>17, <2>1, <2>2, HardwareTypes DEF txStore
  <2> QED
    BY Zenon, <1>17, <2>3 DEF txStore
<1>18. CASE cancelTransaction(t)
  <2>1. /\ mem' \in [Block -> Val] /\ status' \in [Thread -> H!Status]
        /\ reads' \in [Thread -> [Block -> Val \cup {None}]]
        /\ writes' \in [Thread -> [Block -> Val \cup {None}]]
    BY Zenon, <1>18, ValFacts, HardwareTypes
       DEF cancelTransaction, Block, fallbackLock, Data
  <2> QED
    BY Zenon, <1>18, <2>1, ValFacts DEF cancelTransaction
<1>19. CASE lockedLoad(t)
  BY Zenon, <1>19 DEF lockedLoad, Block, Data, htmVars
<1>20. CASE lockedStore(t)
  <2>1. /\ mem' \in [Block -> Val] /\ status' \in [Thread -> H!Status]
        /\ reads' \in [Thread -> [Block -> Val \cup {None}]]
        /\ writes' \in [Thread -> [Block -> Val \cup {None}]]
    BY Zenon, <1>20, ValFacts, HardwareTypes
       DEF lockedStore, Block, fallbackLock, Data
  <2> QED
    BY Zenon, <1>20, <2>1, ValFacts DEF lockedStore
<1>21. CASE spinlock_unlock(t)
  <2>1. /\ mem' \in [Block -> Val] /\ status' \in [Thread -> H!Status]
        /\ reads' \in [Thread -> [Block -> Val \cup {None}]]
        /\ writes' \in [Thread -> [Block -> Val \cup {None}]]
    BY Zenon, <1>21, ValFacts, HardwareTypes
       DEF spinlock_unlock, Block, fallbackLock, Data
  <2> QED
    BY Zenon, <1>21, <2>1, ValFacts DEF spinlock_unlock, sectionDone
<1>22. CASE toXend(t)
  BY Zenon, <1>22 DEF toXend, htmVars
<1>23. CASE htm_commit(t)
  <2>1. /\ mem' \in [Block -> Val] /\ status' \in [Thread -> H!Status]
        /\ reads' \in [Thread -> [Block -> Val \cup {None}]]
        /\ writes' \in [Thread -> [Block -> Val \cup {None}]]
    BY Zenon, <1>23, ValFacts, HardwareTypes
       DEF htm_commit, Block, fallbackLock, Data
  <2> QED
    BY Zenon, <1>23, <2>1, ValFacts DEF htm_commit, sectionDone
<1>24. CASE clearPowerFlag(t)
  BY Zenon, <1>24 DEF clearPowerFlag, htmVars
<1>25. CASE htmAbort(t)
  <2>1. /\ mem' \in [Block -> Val] /\ status' \in [Thread -> H!Status]
        /\ reads' \in [Thread -> [Block -> Val \cup {None}]]
        /\ writes' \in [Thread -> [Block -> Val \cup {None}]]
    BY Zenon, <1>25, ValFacts, HardwareTypes
       DEF htmAbort, Block, fallbackLock, Data
  <2> QED
    BY Zenon, <1>25, <2>1, ValFacts DEF htmAbort
<1> QED
  BY Zenon, <1>1, <1>2, <1>3, <1>4, <1>5, <1>6, <1>7, <1>8, <1>9, <1>10, <1>11, <1>12, <1>13, <1>14, <1>15, <1>16, <1>17, <1>18, <1>19, <1>20, <1>21, <1>22, <1>23, <1>24, <1>25
  DEF Step, begin, body, commit

-----------------------------------------------------------------------------
(* A step of one thread and the others.                                 *)

\* What a step of another thread leaves alone at u.
Untouched(u) ==
  /\ pc'[u] = pc[u] /\ speculative'[u] = speculative[u]
  /\ txExecOnPower'[u] = txExecOnPower[u] /\ tmp'[u] = tmp[u]
  /\ reads'[u] = reads[u] /\ writes'[u] = writes[u]
  /\ Active(u)' <=> Active(u)
  /\ handler' = handler

\* A step of t leaves the other threads alone.
LEMMA UntouchedStep ==
  ASSUME HInv, NEW t \in Thread, Step(t), NEW u \in Thread \ {t}
  PROVE  Untouched(u)
<1>0. TypeOK
  BY Zenon DEF HInv
<1>a. UNCHANGED htmVars => /\ reads'[u] = reads[u] /\ writes'[u] = writes[u]
                           /\ Active(u)' <=> Active(u)
  BY Zenon DEF htmVars, Active, H!Running
<1>b. ASSUME \/ H!Begin(t) \/ H!Commit(t) \/ H!Abort({t})
             \/ \E a \in Block, v \in Val :
                  \/ H!Read(t, a, v, {}) \/ H!Write(t, a, v)
                  \/ H!StoreOutside(a, v, {})
      PROVE  /\ reads'[u] = reads[u] /\ writes'[u] = writes[u]
             /\ Active(u)' <=> Active(u)
  <2>1. CASE H!Begin(t)
    BY Zenon, <1>0, <2>1, BeginStep
  <2>2. CASE H!Commit(t) \/ H!Abort({t})
    BY Zenon, <1>0, <2>2, EndStep
  <2>3. ASSUME NEW a \in Block, NEW v \in Val,
               \/ H!Read(t, a, v, {}) \/ H!Write(t, a, v)
               \/ H!StoreOutside(a, v, {})
        PROVE  /\ reads'[u] = reads[u] /\ writes'[u] = writes[u]
               /\ Active(u)' <=> Active(u)
    <3>1. CASE H!Read(t, a, v, {})
      BY <1>0, <3>1, ReadStep DEF TypeOK
    <3>2. CASE H!Write(t, a, v)
      BY <1>0, <3>2, WriteStep DEF TypeOK
    <3>3. CASE H!StoreOutside(a, v, {})
      BY Zenon, <1>0, <3>3, StoreStep
    <3> QED
      BY Zenon, <2>3, <3>1, <3>2, <3>3
  <2> QED
    BY Zenon, <1>b, <2>1, <2>2, <2>3
<1> USE DEF Untouched, TypeOK, Goto, toHandler, countVars
<1>1. CASE beginTransaction(t)
  BY Zenon, <1>0, <1>a, <1>1 DEF beginTransaction
<1>2. CASE htm_start(t)
  <2>1. /\ reads'[u] = reads[u] /\ writes'[u] = writes[u]
        /\ Active(u)' <=> Active(u)
    BY Zenon, <1>0, <1>b, <1>2, ValFacts DEF htm_start, Block, fallbackLock, Data
  <2> QED
    BY Zenon, <1>0, <1>2, <2>1 DEF htm_start
<1>3. CASE subscribe(t)
  <2>1. /\ reads'[u] = reads[u] /\ writes'[u] = writes[u]
        /\ Active(u)' <=> Active(u)
    BY Zenon, <1>0, <1>b, <1>3, ValFacts DEF subscribe, Block, fallbackLock, Data
  <2> QED
    BY Zenon, <1>0, <1>3, <2>1 DEF subscribe
<1>4. CASE htm_cancel_lock_acquired(t)
  <2>1. /\ reads'[u] = reads[u] /\ writes'[u] = writes[u]
        /\ Active(u)' <=> Active(u)
    BY Zenon, <1>0, <1>b, <1>4, ValFacts DEF htm_cancel_lock_acquired, Block, fallbackLock, Data
  <2> QED
    BY Zenon, <1>0, <1>4, <2>1 DEF htm_cancel_lock_acquired
<1>5. CASE restore(t)
  BY Zenon, <1>0, <1>a, <1>5 DEF restore
<1>6. CASE aborted(t)
  BY Zenon, <1>0, <1>a, <1>6 DEF aborted
<1>7. CASE spinlock_whileIsLocked(t)
  BY Zenon, <1>0, <1>a, <1>7 DEF spinlock_whileIsLocked
<1>8. CASE retryInPowerMode(t)
  BY Zenon, <1>0, <1>a, <1>8 DEF retryInPowerMode
<1>9. CASE decide(t)
  BY Zenon, <1>0, <1>a, <1>9 DEF decide
<1>10. CASE takePower(t)
  BY Zenon, <1>0, <1>a, <1>10 DEF takePower
<1>11. CASE pause(t)
  BY Zenon, <1>0, <1>a, <1>11 DEF pause
<1>12. CASE releasePowerFlag(t)
  BY Zenon, <1>0, <1>a, <1>12 DEF releasePowerFlag
<1>13. CASE spinlock_prefb_lock(t)
  BY Zenon, <1>0, <1>a, <1>13 DEF spinlock_prefb_lock
<1>14. CASE spinlock_lock(t)
  <2>1. /\ reads'[u] = reads[u] /\ writes'[u] = writes[u]
        /\ Active(u)' <=> Active(u)
    BY Zenon, <1>0, <1>b, <1>14, ValFacts DEF spinlock_lock, Block, fallbackLock, Data
  <2> QED
    BY Zenon, <1>0, <1>14, <2>1 DEF spinlock_lock
<1>15. CASE spinlock_prefb_unlock(t)
  BY Zenon, <1>0, <1>a, <1>15 DEF spinlock_prefb_unlock
<1>16. CASE txLoad(t)
  <2>1. PICK v \in {mem[Data]} \cup ({writes[q][Data] : q \in Thread} \ {None}) :
          H!Read(t, Data, v, {})
    BY Zenon, <1>16 DEF txLoad
  <2>2. v \in Val /\ Data \in Block
    BY <1>0 DEF Block, Data
  <2>3. /\ reads'[u] = reads[u] /\ writes'[u] = writes[u]
        /\ Active(u)' <=> Active(u)
    BY Zenon, <1>b, <2>1, <2>2
  <2> QED
    BY Zenon, <1>0, <1>16, <2>3 DEF txLoad
<1>17. CASE txStore(t)
  <2>1. Inc(reads[t][Data]) \in Val /\ Data \in Block
    BY Zenon, <1>17, ValFacts DEF txStore, HInv, ThreadInv, Where, Speculation, Block, At
  <2>2. /\ reads'[u] = reads[u] /\ writes'[u] = writes[u]
        /\ Active(u)' <=> Active(u)
    BY Zenon, <1>b, <1>17, <2>1 DEF txStore
  <2> QED
    BY Zenon, <1>0, <1>17, <2>2 DEF txStore
<1>18. CASE cancelTransaction(t)
  <2>1. /\ reads'[u] = reads[u] /\ writes'[u] = writes[u]
        /\ Active(u)' <=> Active(u)
    BY Zenon, <1>0, <1>b, <1>18, ValFacts DEF cancelTransaction, Block, fallbackLock, Data
  <2> QED
    BY Zenon, <1>0, <1>18, <2>1 DEF cancelTransaction
<1>19. CASE lockedLoad(t)
  BY Zenon, <1>0, <1>a, <1>19 DEF lockedLoad
<1>20. CASE lockedStore(t)
  <2>1. /\ reads'[u] = reads[u] /\ writes'[u] = writes[u]
        /\ Active(u)' <=> Active(u)
    BY Zenon, <1>0, <1>b, <1>20, ValFacts DEF lockedStore, Block, fallbackLock, Data
  <2> QED
    BY Zenon, <1>0, <1>20, <2>1 DEF lockedStore
<1>21. CASE spinlock_unlock(t)
  <2>1. /\ reads'[u] = reads[u] /\ writes'[u] = writes[u]
        /\ Active(u)' <=> Active(u)
    BY Zenon, <1>0, <1>b, <1>21, ValFacts DEF spinlock_unlock, Block, fallbackLock, Data
  <2> QED
    BY Zenon, <1>0, <1>21, <2>1 DEF spinlock_unlock
<1>22. CASE toXend(t)
  BY Zenon, <1>0, <1>a, <1>22 DEF toXend
<1>23. CASE htm_commit(t)
  <2>1. /\ reads'[u] = reads[u] /\ writes'[u] = writes[u]
        /\ Active(u)' <=> Active(u)
    BY Zenon, <1>0, <1>b, <1>23, ValFacts
       DEF htm_commit, Block, fallbackLock, Data
  <2> QED
    BY Zenon, <1>0, <1>23, <2>1 DEF htm_commit
<1>24. CASE clearPowerFlag(t)
  BY Zenon, <1>0, <1>a, <1>24 DEF clearPowerFlag
<1>25. CASE htmAbort(t)
  <2>1. /\ reads'[u] = reads[u] /\ writes'[u] = writes[u]
        /\ Active(u)' <=> Active(u)
    BY Zenon, <1>0, <1>b, <1>25, ValFacts
       DEF htmAbort, Block, fallbackLock, Data
  <2> QED
    BY Zenon, <1>0, <1>25, <2>1 DEF htmAbort
<1> QED
  BY Zenon, <1>1, <1>2, <1>3, <1>4, <1>5, <1>6, <1>7, <1>8, <1>9, <1>10, <1>11, <1>12, <1>13, <1>14, <1>15, <1>16, <1>17, <1>18, <1>19, <1>20, <1>21, <1>22, <1>23, <1>24, <1>25
  DEF Step, begin, body, commit

-----------------------------------------------------------------------------
(* A step of one thread and its own invariant.                           *)

\* The invariant implies what commitTransaction relies on.
LEMMA CommitModeHolds ==
  ASSUME HInv
  PROVE  CommitMode
<1> SUFFICES ASSUME NEW t \in Thread, pc[t] = "commit",
                    speculative[t] => Active(t)
             PROVE  spinlock_isLocked(t) <=> ~speculative[t]
  BY Zenon DEF CommitMode
<1>1. ThreadInv(t) /\ TypeOK
  BY Zenon DEF HInv
<1>2. CASE speculative[t]
  <2>1. reads[t][fallbackLock] = 0
    BY Zenon, <1>1, <1>2 DEF ThreadInv, Speculation
  <2>2. 0 # None
    BY Zenon, ValFacts
  <2> QED
    BY Zenon, <1>2, <2>1, <2>2 DEF spinlock_isLocked
<1>3. CASE ~speculative[t]
  <2>1. mem[fallbackLock] = 1
    BY Zenon, <1>1, <1>3 DEF ThreadInv, Locked, HoldsLock
  <2> QED
    BY <1>3, <2>1 DEF spinlock_isLocked
<1> QED
  BY Zenon, <1>2, <1>3

\* Who unlocks holds the lock, and who executes xend is in a transaction.
LEMMA CommitModeSteps ==
  ASSUME HInv, NEW t \in Thread
  PROVE  /\ spinlock_unlock(t) => ~speculative[t] /\ HoldsLock(t)
         /\ toXend(t) => speculative[t] /\ Active(t)
<1>1. TypeOK /\ Where(t)
  BY Zenon DEF HInv, ThreadInv
<1>2. spinlock_unlock(t) => ~speculative[t] /\ HoldsLock(t)
  BY Zenon, <1>1, CommitModeHolds
  DEF spinlock_unlock, At, CommitMode, HoldsLock, Where
<1>3. toXend(t) => speculative[t] /\ Active(t)
  BY Zenon, <1>1, CommitModeHolds DEF toXend, At, CommitMode
<1> QED
  BY Zenon, <1>2, <1>3

\* A step of t leads from label to label as Where says.
LEMMA WhereStep ==
  ASSUME HInv, NEW t \in Thread, Step(t)
  PROVE  Where(t)'
<1>0. TypeOK /\ Where(t) /\ TypeOK'
  BY Zenon, TypeStep DEF HInv, ThreadInv
<1> USE DEF Where, TypeOK, At, Goto, toHandler, countVars, flagVars, PC
<1>1. CASE beginTransaction(t)
  BY Zenon, <1>0, <1>1 DEF beginTransaction
<1>2. CASE htm_start(t)
  BY Zenon, <1>0, <1>2 DEF htm_start
<1>3. CASE subscribe(t)
  BY Zenon, <1>0, <1>3 DEF subscribe
<1>4. CASE htm_cancel_lock_acquired(t)
  BY Zenon, <1>0, <1>4 DEF htm_cancel_lock_acquired
<1>5. CASE restore(t)
  <2>1. PICK r : toHandler(t, r)
    BY Zenon, <1>5 DEF restore
  <2> QED
    BY Zenon, <1>0, <1>5, <2>1 DEF restore
<1>6. CASE aborted(t)
  BY Zenon, <1>0, <1>6 DEF aborted
<1>7. CASE spinlock_whileIsLocked(t)
  BY Zenon, <1>0, <1>7 DEF spinlock_whileIsLocked
<1>8. CASE retryInPowerMode(t)
  BY Zenon, <1>0, <1>8 DEF retryInPowerMode
<1>9. CASE decide(t)
  BY Zenon, <1>0, <1>9 DEF decide
<1>10. CASE takePower(t)
  BY Zenon, <1>0, <1>10 DEF takePower
<1>11. CASE pause(t)
  BY Zenon, <1>0, <1>11 DEF pause
<1>12. CASE releasePowerFlag(t)
  BY Zenon, <1>0, <1>12 DEF releasePowerFlag
<1>13. CASE spinlock_prefb_lock(t)
  BY Zenon, <1>0, <1>13 DEF spinlock_prefb_lock
<1>14. CASE spinlock_lock(t)
  BY Zenon, <1>0, <1>14 DEF spinlock_lock
<1>15. CASE spinlock_prefb_unlock(t)
  BY Zenon, <1>0, <1>15 DEF spinlock_prefb_unlock
<1>16. CASE txLoad(t)
  BY Zenon, <1>0, <1>16 DEF txLoad
<1>17. CASE txStore(t)
  BY Zenon, <1>0, <1>17 DEF txStore
<1>18. CASE cancelTransaction(t)
  BY Zenon, <1>0, <1>18 DEF cancelTransaction
<1>19. CASE lockedLoad(t)
  BY Zenon, <1>0, <1>19 DEF lockedLoad
<1>20. CASE lockedStore(t)
  BY Zenon, <1>0, <1>20 DEF lockedStore
<1>21. CASE spinlock_unlock(t)
  BY Zenon, <1>0, <1>21, CommitModeSteps DEF spinlock_unlock
<1>22. CASE toXend(t)
  BY Zenon, <1>0, <1>22, CommitModeSteps DEF toXend
<1>23. CASE htm_commit(t)
  BY Zenon, <1>0, <1>23 DEF htm_commit
<1>24. CASE clearPowerFlag(t)
  BY Zenon, <1>0, <1>24 DEF clearPowerFlag
<1>25. CASE htmAbort(t)
  BY Zenon, <1>0, <1>25 DEF htmAbort
<1> QED
  BY Zenon, <1>1, <1>2, <1>3, <1>4, <1>5, <1>6, <1>7, <1>8, <1>9, <1>10, <1>11, <1>12, <1>13, <1>14, <1>15, <1>16, <1>17, <1>18, <1>19, <1>20, <1>21, <1>22, <1>23, <1>24, <1>25
  DEF Step, begin, body, commit

\* Only t acquires the power for itself, and only t gives it back.
LEMMA PowerStep ==
  ASSUME HInv, NEW t \in Thread, Step(t)
  PROVE  /\ Power(t)'
         /\ \A u \in Thread \ {t} : powerFlag' = u <=> powerFlag = u
<1>0. TypeOK /\ Where(t) /\ Power(t) /\ -1 \notin Thread
  BY Zenon, ThreadAssumption DEF HInv, ThreadInv
<1> USE DEF Power, HoldsLock, InLockedSection, Where, TypeOK, At, Goto,
            toHandler, countVars, flagVars
<1>1. CASE beginTransaction(t)
  BY Zenon, <1>0, <1>1 DEF beginTransaction
<1>2. CASE htm_start(t)
  BY Zenon, <1>0, <1>2 DEF htm_start
<1>3. CASE subscribe(t)
  BY Zenon, <1>0, <1>3 DEF subscribe
<1>4. CASE htm_cancel_lock_acquired(t)
  BY Zenon, <1>0, <1>4 DEF htm_cancel_lock_acquired
<1>5. CASE restore(t)
  BY Zenon, <1>0, <1>5 DEF restore
<1>6. CASE aborted(t)
  BY Zenon, <1>0, <1>6 DEF aborted
<1>7. CASE spinlock_whileIsLocked(t)
  BY Zenon, <1>0, <1>7 DEF spinlock_whileIsLocked
<1>8. CASE retryInPowerMode(t)
  BY Zenon, <1>0, <1>8 DEF retryInPowerMode
<1>9. CASE decide(t)
  BY Zenon, <1>0, <1>9 DEF decide
<1>10. CASE takePower(t)
  BY Zenon, <1>0, <1>10 DEF takePower
<1>11. CASE pause(t)
  BY Zenon, <1>0, <1>11 DEF pause
<1>12. CASE releasePowerFlag(t)
  BY Zenon, <1>0, <1>12 DEF releasePowerFlag
<1>13. CASE spinlock_prefb_lock(t)
  BY Zenon, <1>0, <1>13 DEF spinlock_prefb_lock
<1>14. CASE spinlock_lock(t)
  BY Zenon, <1>0, <1>14 DEF spinlock_lock
<1>15. CASE spinlock_prefb_unlock(t)
  BY Zenon, <1>0, <1>15 DEF spinlock_prefb_unlock
<1>16. CASE txLoad(t)
  BY Zenon, <1>0, <1>16 DEF txLoad
<1>17. CASE txStore(t)
  BY Zenon, <1>0, <1>17 DEF txStore
<1>18. CASE cancelTransaction(t)
  BY Zenon, <1>0, <1>18 DEF cancelTransaction
<1>19. CASE lockedLoad(t)
  BY Zenon, <1>0, <1>19 DEF lockedLoad
<1>20. CASE lockedStore(t)
  BY Zenon, <1>0, <1>20 DEF lockedStore
<1>21. CASE spinlock_unlock(t)
  BY Zenon, <1>0, <1>21, CommitModeSteps DEF spinlock_unlock
<1>22. CASE toXend(t)
  BY Zenon, <1>0, <1>22, CommitModeSteps DEF toXend
<1>23. CASE htm_commit(t)
  BY Zenon, <1>0, <1>23 DEF htm_commit
<1>24. CASE clearPowerFlag(t)
  BY Zenon, <1>0, <1>24 DEF clearPowerFlag
<1>25. CASE htmAbort(t)
  BY Zenon, <1>0, <1>25 DEF htmAbort
<1> QED
  BY Zenon, <1>1, <1>2, <1>3, <1>4, <1>5, <1>6, <1>7, <1>8, <1>9, <1>10, <1>11, <1>12, <1>13, <1>14, <1>15, <1>16, <1>17, <1>18, <1>19, <1>20, <1>21, <1>22, <1>23, <1>24, <1>25
  DEF Step, begin, body, commit

\* The transaction of t, past its subscription, has read the lock free.
LEMMA SpeculationStep ==
  ASSUME HInv, NEW t \in Thread, Step(t)
  PROVE  Speculation(t)'
<1>0. TypeOK /\ Where(t) /\ Speculation(t) /\ TypeOK'
  BY Zenon, TypeStep DEF HInv, ThreadInv
<1>a. ASSUME UNCHANGED htmVars, ~speculative'[t]
      PROVE  Speculation(t)'
  BY Zenon, <1>0, <1>a DEF Speculation, htmVars, Active, H!Running
<1>b. ASSUME H!Abort({t}) \/ H!Commit(t)
      PROVE  Speculation(t)'
  <2>1. ~Active(t)' /\ writes'[t] = H!NoValues
    BY Zenon, <1>0, <1>b, EndStep
  <2> QED
    BY Zenon, <2>1 DEF Speculation, H!NoValues, Block
<1>c. ASSUME NEW a \in Block, NEW v \in Val, H!StoreOutside(a, v, {}),
             ~speculative'[t]
      PROVE  Speculation(t)'
  <2>1. writes' = writes /\ (Active(t)' <=> Active(t))
    BY Zenon, <1>0, <1>c, StoreStep
  <2> QED
    BY Zenon, <1>0, <1>c, <2>1 DEF Speculation
<1>d. Data \in Block /\ fallbackLock \in Block /\ Data # fallbackLock
      /\ 0 \in Val /\ 1 \in Val
  BY Zenon, ValFacts DEF Block, Data, fallbackLock
<1>1. CASE htm_start(t)
  <2>1. /\ UNCHANGED <<reads, writes>> /\ pc'[t] = "subscribe" /\ Active(t)'
    BY Zenon, <1>0, <1>1, BeginStep DEF htm_start, Goto, TypeOK
  <2> QED
    BY Zenon, <1>0, <2>1 DEF Speculation
<1>2. CASE subscribe(t)
  <2>1. H!Read(t, fallbackLock, mem[fallbackLock], {})
        /\ mem[fallbackLock] \in Val
    BY Zenon, <1>0, <1>2, <1>d DEF subscribe, TypeOK
  <2>2. /\ writes' = writes /\ Active(t) /\ Active(t)'
        /\ reads' = [reads EXCEPT ![t][fallbackLock] = mem[fallbackLock]]
    BY <1>0, <1>d, <2>1, ReadStep
  <2>3. reads'[t][fallbackLock] = mem[fallbackLock]
    BY <1>0, <1>d, <2>2 DEF TypeOK
  <2>4. pc'[t] = IF mem[fallbackLock] = 0 THEN "load" ELSE "cancel"
    BY Zenon, <1>0, <1>2 DEF subscribe, Goto, TypeOK
  <2> QED
    BY Zenon, <1>0, <2>2, <2>3, <2>4 DEF Speculation
<1>3. CASE txLoad(t)
  <2>1. PICK v \in {mem[Data]} \cup ({writes[q][Data] : q \in Thread} \ {None}) :
          H!Read(t, Data, v, {})
    BY Zenon, <1>3 DEF txLoad
  <2>2. v \in Val
    BY <1>0, <1>d DEF TypeOK
  <2>3. /\ writes' = writes /\ Active(t) /\ Active(t)'
        /\ reads' = [reads EXCEPT ![t][Data] = v]
    BY Zenon, <1>0, <1>d, <2>1, <2>2, ReadStep
  <2>4. /\ reads'[t][Data] = v
        /\ reads'[t][fallbackLock] = reads[t][fallbackLock]
    BY <1>0, <1>d, <2>3 DEF TypeOK
  <2>5. pc[t] = "load" /\ pc'[t] = "store" /\ speculative[t]
    BY Zenon, <1>0, <1>3 DEF txLoad, Goto, At, TypeOK, Where
  <2> QED
    BY Zenon, <1>0, <2>2, <2>3, <2>4, <2>5 DEF Speculation
<1>4. CASE txStore(t)
  <2>1. pc[t] = "store" /\ pc'[t] = "commit" /\ speculative[t] /\ Active(t)
    BY Zenon, <1>0, <1>4 DEF txStore, Goto, At, TypeOK, Where
  <2>2. reads[t][Data] \in Val /\ Inc(reads[t][Data]) \in Val
    BY Zenon, <1>0, <2>1, ValFacts DEF Speculation
  <2>3. /\ reads' = reads
        /\ writes' = [writes EXCEPT ![t][Data] = Inc(reads[t][Data])]
    BY <1>0, <1>4, <1>d, <2>2, WriteStep DEF txStore
  <2>4. /\ writes'[t][Data] = Inc(reads[t][Data])
        /\ writes'[t][fallbackLock] = writes[t][fallbackLock]
    BY <1>0, <1>d, <2>3 DEF TypeOK
  <2>5. Active(t)'
    BY Zenon, <1>0, <1>4, <1>d, <2>1, <2>2, WriteStep DEF txStore
  <2> QED
    BY Zenon, <1>0, <2>1, <2>2, <2>3, <2>4, <2>5 DEF Speculation
<1>5. CASE toXend(t)
  <2>1. pc[t] = "commit" /\ speculative[t] /\ Active(t)
    BY Zenon, <1>5, CommitModeSteps DEF toXend, At
  <2>2. UNCHANGED <<reads, writes, speculative>> /\ Active(t)'
    BY Zenon, <1>5, <2>1 DEF toXend, htmVars, Active, H!Running
  <2> QED
    BY Zenon, <1>0, <2>1, <2>2 DEF Speculation
<1>6. CASE \/ htm_cancel_lock_acquired(t) \/ cancelTransaction(t)
           \/ htmAbort(t) \/ htm_commit(t)
  BY Zenon, <1>6, <1>b
  DEF htm_cancel_lock_acquired, cancelTransaction, htmAbort, htm_commit
<1>7. CASE spinlock_lock(t) \/ spinlock_unlock(t)
  <2>1. ~speculative'[t]
    BY Zenon, <1>0, <1>7, CommitModeSteps
    DEF spinlock_lock, spinlock_unlock, At, Where
  <2> QED
    BY Zenon, <1>7, <1>c, <1>d, <2>1 DEF spinlock_lock, spinlock_unlock
<1>8. CASE lockedStore(t)
  <2>1. ~speculative'[t]
    BY Zenon, <1>0, <1>8 DEF lockedStore, At, Where
  <2>2. Inc(tmp[t]) \in Val
    BY Zenon, <1>0, ValFacts DEF TypeOK
  <2> QED
    BY Zenon, <1>8, <1>c, <1>d, <2>1, <2>2 DEF lockedStore
<1>9. CASE restore(t)
  <2>1. UNCHANGED htmVars /\ \E r : toHandler(t, r)
    BY Zenon, <1>9 DEF restore
  <2>2. ~speculative'[t]
    BY Zenon, <1>0, <2>1 DEF toHandler, TypeOK
  <2> QED
    BY Zenon, <1>a, <2>1, <2>2
<1>10. CASE \/ beginTransaction(t) \/ aborted(t) \/ spinlock_whileIsLocked(t)
            \/ retryInPowerMode(t) \/ decide(t) \/ takePower(t) \/ pause(t)
  BY Zenon, <1>0, <1>10, <1>a
  DEF beginTransaction, aborted, spinlock_whileIsLocked, retryInPowerMode,
      decide, takePower, pause, At, Where
<1>11. CASE \/ releasePowerFlag(t) \/ spinlock_prefb_lock(t)
            \/ spinlock_prefb_unlock(t) \/ lockedLoad(t)
            \/ clearPowerFlag(t)
  BY Zenon, <1>0, <1>11, <1>a
  DEF releasePowerFlag, spinlock_prefb_lock, spinlock_prefb_unlock,
      lockedLoad, clearPowerFlag, At, Where
<1> QED
  BY Zenon, <1>1, <1>2, <1>3, <1>4, <1>5, <1>6, <1>7, <1>8, <1>9, <1>10, <1>11
  DEF Step, begin, body, commit

\* A step of a thread that holds the lock neither before nor after it, and
\* that leaves memory and counter alone, changes nothing for the lock.
LEMMA NotHolding ==
  ASSUME HInv, NEW t \in Thread, \A u \in Thread \ {t} : Untouched(u),
         ~HoldsLock(t), ~HoldsLock(t)', UNCHANGED <<mem, done>>
  PROVE  Locked(t)' /\ SectionsAtomic'
<1>1. Locked(t)'
  BY Zenon DEF Locked, HoldsLock, InLockedSection
<1>2. \A u \in Thread : (pc[u] = "commit" /\ ~speculative[u])'
                       <=> (pc[u] = "commit" /\ ~speculative[u])
  BY Zenon DEF Untouched, HoldsLock
<1> QED
  BY Zenon, <1>1, <1>2 DEF HInv, SectionsAtomic

\* The lock, the data it protects and the counter of completed sections.
LEMMA LockStep ==
  ASSUME HInv, NEW t \in Thread, Step(t)
  PROVE  /\ Locked(t)' /\ SectionsAtomic'
         /\ \A u \in Thread \ {t} :
              HoldsLock(u) => mem' = mem /\ ~HoldsLock(t)'
<1>0. TypeOK /\ Where(t) /\ Speculation(t) /\ Locked(t) /\ SectionsAtomic
  BY Zenon DEF HInv, ThreadInv
<1>a. \A u \in Thread \ {t} : Untouched(u)
  BY Zenon, UntouchedStep
<1>b. \A u \in Thread \ {t} :
        /\ HoldsLock(u)' <=> HoldsLock(u)
        /\ pc'[u] = pc[u] /\ speculative'[u] = speculative[u]
  BY Zenon, <1>a DEF Untouched, HoldsLock, InLockedSection
<1>c. \A u \in Thread : HoldsLock(u) =>
        mem[fallbackLock] = 1 /\ \A w \in Thread \ {u} : ~HoldsLock(w)
  BY Zenon DEF HInv, ThreadInv, Locked
<1>d. Data \in Block /\ fallbackLock \in Block /\ Data # fallbackLock
      /\ 0 \in Val /\ 1 \in Val
  BY Zenon, ValFacts DEF Block, Data, fallbackLock
<1>1. CASE /\ ~HoldsLock(t) /\ ~HoldsLock(t)'
           /\ UNCHANGED <<mem, done>>
  BY Zenon, <1>1, <1>a, NotHolding
<1>2. CASE spinlock_lock(t)
  <2>1. /\ mem[fallbackLock] = 0 /\ pc[t] = "lock" /\ done' = done
        /\ pc'[t] \in {"preUnlock", "lockedLoad"}
        /\ H!StoreOutside(fallbackLock, 1, {})
    BY Zenon, <1>0, <1>2 DEF spinlock_lock, At, Goto, TypeOK
  <2>2. mem' = [mem EXCEPT ![fallbackLock] = 1]
    BY Zenon, <1>0, <2>1, StoreStep
  <2>3. mem'[fallbackLock] = 1 /\ mem'[Data] = mem[Data]
    BY Zenon, <1>0, <1>d, <2>2 DEF TypeOK
  <2>4. \A u \in Thread : ~HoldsLock(u)
    <3>1. mem[fallbackLock] # 1
      BY <2>1
    <3> QED
      BY <1>c, <3>1, Zenon
  <2>5. Locked(t)'
    BY Zenon, <1>b, <2>1, <2>3, <2>4 DEF Locked
  <2>6. \A u \in Thread : ~(pc[u] = "commit" /\ ~speculative[u])
    BY Zenon, <2>4 DEF HoldsLock
  <2>7. \A u \in Thread : ~(pc'[u] = "commit" /\ ~speculative'[u])
    BY Zenon, <1>b, <2>1, <2>6
  <2>8. SectionsAtomic'
    BY Zenon, <1>0, <2>1, <2>3, <2>6, <2>7 DEF SectionsAtomic
  <2> QED
    BY Zenon, <2>4, <2>5, <2>8
<1>3. CASE spinlock_prefb_unlock(t) \/ lockedLoad(t)
  <2>1. /\ HoldsLock(t) /\ pc[t] # "commit" /\ UNCHANGED <<mem, done>>
        /\ pc'[t] \in {"lockedLoad", "lockedStore"}
        /\ pc'[t] = "lockedStore" => tmp'[t] = mem[Data]
    BY Zenon, <1>0, <1>3 DEF spinlock_prefb_unlock, lockedLoad, At, Goto, TypeOK,
                      htmVars, HoldsLock, InLockedSection
  <2>2. Locked(t)'
    BY Zenon, <1>b, <1>c, <2>1 DEF Locked
  <2>3. \A u \in Thread : pc'[u] = "commit" /\ ~speculative'[u]
                         <=> pc[u] = "commit" /\ ~speculative[u]
    BY Zenon, <1>b, <2>1
  <2>4. SectionsAtomic'
    BY Zenon, <1>0, <2>1, <2>3 DEF SectionsAtomic
  <2> QED
    BY Zenon, <1>c, <2>1, <2>2, <2>4
<1>4. CASE lockedStore(t)
  <2>1. /\ HoldsLock(t) /\ pc[t] = "lockedStore" /\ pc'[t] = "commit"
        /\ ~speculative[t] /\ ~speculative'[t] /\ done' = done
        /\ H!StoreOutside(Data, Inc(tmp[t]), {})
    BY Zenon, <1>0, <1>4 DEF lockedStore, At, Goto, TypeOK, Where, HoldsLock,
                      InLockedSection
  <2>2. mem' = [mem EXCEPT ![Data] = Inc(tmp[t])]
    BY Zenon, <1>0, <2>1, StoreStep
  <2>3. /\ mem'[fallbackLock] = mem[fallbackLock]
        /\ mem'[Data] = Inc(tmp[t]) /\ tmp[t] = mem[Data]
    BY Zenon, <1>0, <1>d, <2>1, <2>2 DEF TypeOK, Locked
  <2>4. \A u \in Thread \ {t} : ~HoldsLock(u)
    BY Zenon, <1>c, <2>1
  <2>5. Locked(t)'
    BY Zenon, <1>b, <1>c, <2>1, <2>3, <2>4 DEF Locked
  <2>6. \A u \in Thread : ~(pc[u] = "commit" /\ ~speculative[u])
    BY Zenon, <2>1, <2>4 DEF HoldsLock
  <2>7. mem[Data] = done
    BY Zenon, <1>0, <2>6 DEF SectionsAtomic
  <2>8. SectionsAtomic'
    BY Zenon, <2>1, <2>3, <2>7 DEF SectionsAtomic
  <2> QED
    BY Zenon, <2>4, <2>5, <2>8
<1>5. CASE spinlock_unlock(t)
  <2>1. /\ HoldsLock(t) /\ pc[t] = "commit" /\ pc'[t] = "out"
        /\ ~speculative[t] /\ ~speculative'[t] /\ done' = Inc(done)
        /\ H!StoreOutside(fallbackLock, 0, {})
    BY Zenon, <1>0, <1>5, CommitModeSteps
    DEF spinlock_unlock, At, Goto, TypeOK, sectionDone
  <2>2. mem' = [mem EXCEPT ![fallbackLock] = 0]
    BY Zenon, <1>0, <2>1, StoreStep
  <2>3. mem'[Data] = Inc(done)
    BY Zenon, <1>0, <1>d, <2>1, <2>2 DEF TypeOK, SectionsAtomic
  <2>4. \A u \in Thread \ {t} : ~HoldsLock(u)
    BY Zenon, <1>c, <2>1
  <2>5. ~HoldsLock(t)' /\ Locked(t)'
    BY Zenon, <2>1 DEF Locked, HoldsLock, InLockedSection
  <2>6. \A u \in Thread : ~(pc'[u] = "commit" /\ ~speculative'[u])
    BY Zenon, <1>b, <2>1, <2>4 DEF HoldsLock
  <2>7. SectionsAtomic'
    BY Zenon, <2>1, <2>3, <2>6 DEF SectionsAtomic
  <2> QED
    BY Zenon, <2>4, <2>5, <2>7
<1>6. CASE htm_commit(t)
  <2>1. /\ H!Commit(t) /\ pc[t] = "xend" /\ pc'[t] = "release"
        /\ speculative[t] /\ Active(t) /\ done' = Inc(done)
    BY Zenon, <1>0, <1>6 DEF htm_commit, At, Goto, TypeOK, sectionDone, Where
  <2>2. /\ reads[t][fallbackLock] = 0 /\ reads[t][Data] \in Val
        /\ writes[t][fallbackLock] = None
        /\ writes[t][Data] = Inc(reads[t][Data])
    BY Zenon, <1>0, <2>1 DEF Speculation
  <2>3. mem[fallbackLock] = 0 /\ mem[Data] = reads[t][Data]
    BY Zenon, <1>d, <2>1, <2>2, ValFacts DEF H!Commit
  <2>4. mem'[Data] = Inc(mem[Data])
    <3>1. Inc(reads[t][Data]) # None
      BY Zenon, <2>2, ValFacts
    <3> QED
      BY Zenon, <1>d, <2>1, <2>2, <2>3, <3>1 DEF H!Commit
  <2>5. \A u \in Thread : ~HoldsLock(u)
    <3>1. mem[fallbackLock] # 1
      BY <2>3
    <3> QED
      BY Zenon, <1>c, <3>1
  <2>6. \A u \in Thread : /\ ~(pc[u] = "commit" /\ ~speculative[u])
                          /\ ~(pc'[u] = "commit" /\ ~speculative'[u])
    BY Zenon, <1>b, <2>1, <2>5 DEF HoldsLock
  <2>7. SectionsAtomic'
    BY Zenon, <1>0, <2>1, <2>4, <2>6 DEF SectionsAtomic
  <2>8. ~HoldsLock(t)' /\ Locked(t)'
    BY Zenon, <2>1 DEF Locked, HoldsLock, InLockedSection
  <2> QED
    BY Zenon, <2>5, <2>7, <2>8
<1>7. CASE beginTransaction(t)
  <2>1. UNCHANGED <<mem, done>>
    BY Zenon, <1>0, <1>7 DEF beginTransaction, toHandler, htmVars
  <2>2. ~HoldsLock(t) /\ ~HoldsLock(t)'
    BY Zenon, <1>0, <1>7 DEF beginTransaction, toHandler, At, Goto, TypeOK, Where,
       HoldsLock, InLockedSection
  <2> QED
    BY Zenon, <1>1, <2>1, <2>2
<1>8. CASE htm_start(t)
  <2>1. UNCHANGED <<mem, done>>
    BY Zenon, <1>0, <1>8, BeginStep DEF htm_start, toHandler, htmVars
  <2>2. ~HoldsLock(t) /\ ~HoldsLock(t)'
    BY Zenon, <1>0, <1>8, BeginStep DEF htm_start, toHandler, At, Goto, TypeOK, Where,
       HoldsLock, InLockedSection
  <2> QED
    BY Zenon, <1>1, <2>1, <2>2
<1>9. CASE subscribe(t)
  <2>1. UNCHANGED <<mem, done>>
    BY Zenon, <1>0, <1>9, ReadStep DEF subscribe, toHandler, htmVars
  <2>2. ~HoldsLock(t) /\ ~HoldsLock(t)'
    BY Zenon, <1>0, <1>9, ReadStep
       DEF subscribe, toHandler, At, Goto, TypeOK, Where,
       HoldsLock, InLockedSection
  <2> QED
    BY Zenon, <1>1, <2>1, <2>2
<1>10. CASE htm_cancel_lock_acquired(t)
  <2>1. UNCHANGED <<mem, done>>
    BY Zenon, <1>0, <1>10 DEF htm_cancel_lock_acquired, toHandler, htmVars, H!Abort
  <2>2. ~HoldsLock(t) /\ ~HoldsLock(t)'
    BY Zenon, <1>0, <1>10 DEF htm_cancel_lock_acquired, toHandler, At, Goto, TypeOK, Where,
       HoldsLock, InLockedSection
  <2> QED
    BY Zenon, <1>1, <2>1, <2>2
<1>11. CASE restore(t)
  <2>1. UNCHANGED <<mem, done>>
    BY Zenon, <1>0, <1>11 DEF restore, toHandler, htmVars
  <2>2. ~HoldsLock(t) /\ ~HoldsLock(t)'
    BY Zenon, <1>0, <1>11 DEF restore, toHandler, At, Goto, TypeOK, Where,
       HoldsLock, InLockedSection
  <2> QED
    BY Zenon, <1>1, <2>1, <2>2
<1>12. CASE aborted(t)
  <2>1. UNCHANGED <<mem, done>>
    BY Zenon, <1>0, <1>12 DEF aborted, toHandler, htmVars
  <2>2. ~HoldsLock(t) /\ ~HoldsLock(t)'
    BY Zenon, <1>0, <1>12 DEF aborted, toHandler, At, Goto, TypeOK, Where,
       HoldsLock, InLockedSection
  <2> QED
    BY Zenon, <1>1, <2>1, <2>2
<1>13. CASE spinlock_whileIsLocked(t)
  <2>1. UNCHANGED <<mem, done>>
    BY Zenon, <1>0, <1>13 DEF spinlock_whileIsLocked, toHandler, htmVars
  <2>2. ~HoldsLock(t) /\ ~HoldsLock(t)'
    BY Zenon, <1>0, <1>13 DEF spinlock_whileIsLocked, toHandler, At, Goto, TypeOK, Where,
       HoldsLock, InLockedSection
  <2> QED
    BY Zenon, <1>1, <2>1, <2>2
<1>14. CASE retryInPowerMode(t)
  <2>1. UNCHANGED <<mem, done>>
    BY Zenon, <1>0, <1>14 DEF retryInPowerMode, toHandler, htmVars
  <2>2. ~HoldsLock(t) /\ ~HoldsLock(t)'
    BY Zenon, <1>0, <1>14 DEF retryInPowerMode, toHandler, At, Goto, TypeOK, Where,
       HoldsLock, InLockedSection
  <2> QED
    BY Zenon, <1>1, <2>1, <2>2
<1>15. CASE decide(t)
  <2>1. UNCHANGED <<mem, done>>
    BY Zenon, <1>0, <1>15 DEF decide, toHandler, htmVars
  <2>2. ~HoldsLock(t) /\ ~HoldsLock(t)'
    BY Zenon, <1>0, <1>15 DEF decide, toHandler, At, Goto, TypeOK, Where,
       HoldsLock, InLockedSection
  <2> QED
    BY Zenon, <1>1, <2>1, <2>2
<1>16. CASE takePower(t)
  <2>1. UNCHANGED <<mem, done>>
    BY Zenon, <1>0, <1>16 DEF takePower, toHandler, htmVars
  <2>2. ~HoldsLock(t) /\ ~HoldsLock(t)'
    BY Zenon, <1>0, <1>16 DEF takePower, toHandler, At, Goto, TypeOK, Where,
       HoldsLock, InLockedSection
  <2> QED
    BY Zenon, <1>1, <2>1, <2>2
<1>17. CASE pause(t)
  <2>1. UNCHANGED <<mem, done>>
    BY Zenon, <1>0, <1>17 DEF pause, toHandler, htmVars
  <2>2. ~HoldsLock(t) /\ ~HoldsLock(t)'
    BY Zenon, <1>0, <1>17 DEF pause, toHandler, At, Goto, TypeOK, Where,
       HoldsLock, InLockedSection
  <2> QED
    BY Zenon, <1>1, <2>1, <2>2
<1>18. CASE releasePowerFlag(t)
  <2>1. UNCHANGED <<mem, done>>
    BY Zenon, <1>0, <1>18 DEF releasePowerFlag, toHandler, htmVars
  <2>2. ~HoldsLock(t) /\ ~HoldsLock(t)'
    BY Zenon, <1>0, <1>18 DEF releasePowerFlag, toHandler, At, Goto, TypeOK, Where,
       HoldsLock, InLockedSection
  <2> QED
    BY Zenon, <1>1, <2>1, <2>2
<1>19. CASE spinlock_prefb_lock(t)
  <2>1. UNCHANGED <<mem, done>>
    BY Zenon, <1>0, <1>19 DEF spinlock_prefb_lock, toHandler, htmVars
  <2>2. ~HoldsLock(t) /\ ~HoldsLock(t)'
    BY Zenon, <1>0, <1>19 DEF spinlock_prefb_lock, toHandler, At, Goto, TypeOK, Where,
       HoldsLock, InLockedSection
  <2> QED
    BY Zenon, <1>1, <2>1, <2>2
<1>20. CASE txLoad(t)
  <2>1. UNCHANGED <<mem, done>>
    BY Zenon, <1>0, <1>20, ReadStep DEF txLoad, toHandler, htmVars
  <2>2. ~HoldsLock(t) /\ ~HoldsLock(t)'
    BY Zenon, <1>0, <1>20, ReadStep DEF txLoad, toHandler, At, Goto, TypeOK, Where,
       HoldsLock, InLockedSection
  <2> QED
    BY Zenon, <1>1, <2>1, <2>2
<1>21. CASE txStore(t)
  <2>1. UNCHANGED <<mem, done>>
    BY Zenon, <1>0, <1>21, WriteStep DEF txStore, toHandler, htmVars
  <2>2. ~HoldsLock(t) /\ ~HoldsLock(t)'
    BY Zenon, <1>0, <1>21, WriteStep DEF txStore, toHandler, At, Goto, TypeOK, Where,
       HoldsLock, InLockedSection
  <2> QED
    BY Zenon, <1>1, <2>1, <2>2
<1>22. CASE cancelTransaction(t)
  <2>1. UNCHANGED <<mem, done>>
    BY Zenon, <1>0, <1>22 DEF cancelTransaction, toHandler, htmVars, H!Abort
  <2>2. ~HoldsLock(t) /\ ~HoldsLock(t)'
    BY Zenon, <1>0, <1>22 DEF cancelTransaction, toHandler, At, Goto, TypeOK, Where,
       HoldsLock, InLockedSection
  <2> QED
    BY Zenon, <1>1, <2>1, <2>2
<1>23. CASE toXend(t)
  <2>1. UNCHANGED <<mem, done>>
    BY Zenon, <1>0, <1>23, CommitModeSteps DEF toXend, toHandler, htmVars
  <2>2. ~HoldsLock(t) /\ ~HoldsLock(t)'
    BY Zenon, <1>0, <1>23, CommitModeSteps
       DEF toXend, toHandler, At, Goto, TypeOK, Where,
       HoldsLock, InLockedSection
  <2> QED
    BY Zenon, <1>1, <2>1, <2>2
<1>24. CASE clearPowerFlag(t)
  <2>1. UNCHANGED <<mem, done>>
    BY Zenon, <1>0, <1>24 DEF clearPowerFlag, toHandler, htmVars
  <2>2. ~HoldsLock(t) /\ ~HoldsLock(t)'
    BY Zenon, <1>0, <1>24 DEF clearPowerFlag, toHandler, At, Goto, TypeOK, Where,
       HoldsLock, InLockedSection
  <2> QED
    BY Zenon, <1>1, <2>1, <2>2
<1>25. CASE htmAbort(t)
  <2>1. UNCHANGED <<mem, done>>
    BY Zenon, <1>0, <1>25 DEF htmAbort, toHandler, htmVars, H!Abort
  <2>2. ~HoldsLock(t) /\ ~HoldsLock(t)'
    BY Zenon, <1>0, <1>25 DEF htmAbort, toHandler, At, Goto, TypeOK, Where,
       HoldsLock, InLockedSection
  <2> QED
    BY Zenon, <1>1, <2>1, <2>2
<1> QED
  BY Zenon, <1>2, <1>3, <1>4, <1>5, <1>6, <1>7, <1>8, <1>9, <1>10, <1>11, <1>12, <1>13, <1>14, <1>15, <1>16, <1>17, <1>18, <1>19, <1>20, <1>21, <1>22, <1>23, <1>24, <1>25
  DEF Step, begin, body, commit

\* What the invariant says of the other threads survives a step of t.
LEMMA OthersStep ==
  ASSUME HInv, NEW t \in Thread, Step(t), NEW u \in Thread \ {t}
  PROVE  ThreadInv(u)'
<1>0. ThreadInv(u) /\ Untouched(u)
  BY Zenon, UntouchedStep DEF HInv
<1>1. /\ HoldsLock(u) => mem' = mem /\ ~HoldsLock(t)'
      /\ powerFlag' = u <=> powerFlag = u
  BY Zenon, LockStep, PowerStep
<1>2. \A w \in Thread \ {t} : HoldsLock(w)' <=> HoldsLock(w)
  BY Zenon, UntouchedStep DEF Untouched, HoldsLock, InLockedSection
<1>3. Where(u)'
  <2>1. Where(t)' /\ Where(u)
    BY Zenon, <1>0, WhereStep DEF ThreadInv
  <2> QED
    BY Zenon, <1>0, <2>1 DEF Where, Untouched
<1>4. Speculation(u)'
  BY Zenon, <1>0 DEF ThreadInv, Speculation, Untouched
<1>5. Locked(u)'
  <2>1. HoldsLock(u)' => HoldsLock(u) /\ mem' = mem
    BY Zenon, <1>1, <1>2
  <2>2. HoldsLock(u)' => \A w \in Thread \ {u} : ~HoldsLock(w)'
    BY Zenon, <1>0, <1>1, <1>2 DEF ThreadInv, Locked
  <2>3. pc'[u] = "lockedStore" => HoldsLock(u) /\ tmp'[u] = tmp[u]
    BY Zenon, <1>0 DEF Untouched, HoldsLock, InLockedSection
  <2>4. pc'[u] = "lockedStore" => pc[u] = "lockedStore"
    BY Zenon, <1>0 DEF Untouched
  <2> QED
    BY Zenon, <1>0, <1>1, <2>1, <2>2, <2>3, <2>4 DEF ThreadInv, Locked
<1>6. Power(u)'
  BY Zenon, <1>0, <1>1, <1>2 DEF ThreadInv, Power, Untouched
<1> QED
  BY Zenon, <1>3, <1>4, <1>5, <1>6 DEF ThreadInv

-----------------------------------------------------------------------------
\* The inductive invariant holds at the start ...
LEMMA InitHInv == Init => HInv
<1> SUFFICES ASSUME Init
             PROVE  HInv
  OBVIOUS
<1>1. /\ mem = [a \in Block |-> 0] /\ status = [t \in Thread |-> "idle"]
      /\ reads = [t \in Thread |-> H!NoValues]
      /\ writes = [t \in Thread |-> H!NoValues]
  BY Zenon DEF Init, H!Init
<1>2. TypeOK
  <2>1. /\ mem \in [Block -> Val] /\ status \in [Thread -> H!Status]
        /\ reads \in [Thread -> [Block -> Val \cup {None}]]
        /\ writes \in [Thread -> [Block -> Val \cup {None}]]
    BY Zenon, <1>1, ValFacts DEF H!Status, H!NoValues
  <2>2. left \in [Thread -> Nat]
    BY Zenon, BoundsAssumption DEF Init
  <2>3. pc \in [Thread -> PC] /\ ret \in [Thread -> Status]
    BY Zenon DEF Init, PC, Status
  <2>4. /\ speculative \in [Thread -> BOOLEAN]
        /\ txExecOnPower \in [Thread -> BOOLEAN]
        /\ retryWithLock \in [Thread -> BOOLEAN]
        /\ preFallbackLock \in BOOLEAN /\ assertFailed \in BOOLEAN
    BY Zenon DEF Init
  <2>5. /\ nretries \in [Thread -> Int] /\ nRetriesPowerMode \in [Thread -> Nat]
        /\ tmp \in [Thread -> Val] /\ done \in Val
        /\ powerFlag \in Thread \cup {-1} /\ handler \in Handlers
    BY ValFacts DEF Init
  <2> QED
    BY Zenon, <2>1, <2>2, <2>3, <2>4, <2>5 DEF TypeOK
<1>3. ASSUME NEW t \in Thread
      PROVE  ThreadInv(t)
  <2>1. ~Active(t) /\ ~HoldsLock(t) /\ pc[t] = "out" /\ ~speculative[t]
        /\ writes[t] = H!NoValues /\ powerFlag = -1
    BY Zenon, <1>1 DEF Init, Active, H!Running, HoldsLock, InLockedSection
  <2>2. writes[t][fallbackLock] = None
    BY Zenon, <2>1 DEF H!NoValues, Block
  <2> QED
    BY Zenon, <2>1, <2>2 DEF ThreadInv, Where, Speculation, Locked, Power
<1>4. SectionsAtomic
  BY Zenon, <1>1 DEF Init, SectionsAtomic, Block
<1> QED
  BY Zenon, <1>2, <1>3, <1>4 DEF HInv

\* ... and every step keeps it.
LEMMA StepHInv == HInv /\ [Next]_vars => HInv'
<1> SUFFICES ASSUME HInv, [Next]_vars
             PROVE  HInv'
  OBVIOUS
<1>1. ASSUME NEW t \in Thread, Step(t)
      PROVE  HInv'
  <2>1. TypeOK'
    BY Zenon, <1>1, TypeStep DEF HInv, ThreadInv
  <2>2. ThreadInv(t)' /\ SectionsAtomic'
    BY Zenon, <1>1, WhereStep, SpeculationStep, LockStep, PowerStep DEF ThreadInv
  <2>3. \A u \in Thread \ {t} : ThreadInv(u)'
    BY Zenon, <1>1, OthersStep
  <2> QED
    BY Zenon, <2>1, <2>2, <2>3 DEF HInv
<1>2. CASE UNCHANGED vars
  <2>1. UNCHANGED <<htmVars, handler, pc, left, speculative, ret, countVars,
                    tmp, flagVars, done>>
    BY Zenon, <1>2 DEF vars
  <2>2. TypeOK'
    BY Zenon, <2>1 DEF HInv, TypeOK, htmVars, countVars, flagVars
  <2>3. ASSUME NEW t \in Thread
        PROVE  ThreadInv(t)'
    <3>1. ThreadInv(t)
      BY Zenon DEF HInv
    <3> QED
      BY Zenon, <2>1, <3>1
      DEF htmVars, countVars, flagVars, ThreadInv, Where, Speculation, Locked,
          Power, Active, H!Running, HoldsLock, InLockedSection
  <2>4. SectionsAtomic'
    BY Zenon, <2>1 DEF HInv, SectionsAtomic, htmVars
  <2> QED
    BY Zenon, <2>2, <2>3, <2>4 DEF HInv
<1> QED
  BY Zenon, <1>1, <1>2 DEF Next, Step, Terminated

\* The invariant of the library.
THEOREM HandlerInvariance == Spec => []HInv
BY InitHInv, StepHInv, PTL DEF Spec

\* Every critical section takes effect exactly once and atomically, however
\* transactions, aborts, power mode and the fallback lock are interleaved.
THEOREM CriticalSections == Spec => []SectionsAtomic
<1>1. HInv => SectionsAtomic
  BY Zenon DEF HInv
<1> QED
  BY <1>1, HandlerInvariance, PTL

\* The counters, the lock, the flags and the states of the threads keep their
\* types.
THEOREM HandlerTypes == Spec => []TypeOK
<1>1. HInv => TypeOK
  BY Zenon DEF HInv
<1> QED
  BY <1>1, HandlerInvariance, PTL

\* At most one thread holds the fallback lock, and it is then locked
\* (spinlock_lock, spinlock_unlock).
THEOREM LockIsExclusive == Spec => []LockExclusive
<1>1. HInv => LockExclusive
  BY Zenon DEF HInv, ThreadInv, Locked, LockExclusive
<1> QED
  BY <1>1, HandlerInvariance, PTL

\* The test of the lock by commitTransaction is right: a section ends in the
\* mode in which it began.
THEOREM SectionsEndAsBegun == Spec => []CommitMode
<1>1. HInv => CommitMode
  BY Zenon, CommitModeHolds
<1> QED
  BY <1>1, HandlerInvariance, PTL

\* A transaction in power mode owns the power flag, so one does at a time, and
\* the power is given back before the lock is taken (powerFlag).
THEOREM PowerIsExclusive == Spec => []PowerExclusive
<1>1. HInv => PowerExclusive
  BY Zenon DEF HInv, ThreadInv, Power, PowerExclusive
<1> QED
  BY <1>1, HandlerInvariance, PTL

-----------------------------------------------------------------------------
(* The asserts                                                             *)

\* The counts and the abort status of u are its own.
OwnCounts(u) ==
  /\ ret'[u] = ret[u] /\ retryWithLock'[u] = retryWithLock[u]
  /\ nRetriesPowerMode'[u] = nRetriesPowerMode[u]

\* A step of t leaves the counts of the others alone, and is not taken after
\* an assert has failed.
LEMMA CountsStep ==
  ASSUME TypeOK, NEW t \in Thread, Step(t)
  PROVE  ~assertFailed /\ \A u \in Thread \ {t} : OwnCounts(u)
<1> USE DEF OwnCounts, TypeOK, At, toHandler, countVars
<1>1. CASE beginTransaction(t)
  BY Zenon, <1>1 DEF beginTransaction
<1>2. CASE htm_start(t)
  BY Zenon, <1>2 DEF htm_start
<1>3. CASE subscribe(t)
  BY Zenon, <1>3 DEF subscribe
<1>4. CASE htm_cancel_lock_acquired(t)
  BY Zenon, <1>4 DEF htm_cancel_lock_acquired
<1>5. CASE restore(t)
  BY Zenon, <1>5 DEF restore
<1>6. CASE aborted(t)
  BY Zenon, <1>6 DEF aborted
<1>7. CASE spinlock_whileIsLocked(t)
  BY Zenon, <1>7 DEF spinlock_whileIsLocked
<1>8. CASE retryInPowerMode(t)
  BY Zenon, <1>8 DEF retryInPowerMode
<1>9. CASE decide(t)
  BY Zenon, <1>9 DEF decide
<1>10. CASE takePower(t)
  BY Zenon, <1>10 DEF takePower
<1>11. CASE pause(t)
  BY Zenon, <1>11 DEF pause
<1>12. CASE releasePowerFlag(t)
  BY Zenon, <1>12 DEF releasePowerFlag
<1>13. CASE spinlock_prefb_lock(t)
  BY Zenon, <1>13 DEF spinlock_prefb_lock
<1>14. CASE spinlock_lock(t)
  BY Zenon, <1>14 DEF spinlock_lock
<1>15. CASE spinlock_prefb_unlock(t)
  BY Zenon, <1>15 DEF spinlock_prefb_unlock
<1>16. CASE txLoad(t)
  BY Zenon, <1>16 DEF txLoad
<1>17. CASE txStore(t)
  BY Zenon, <1>17 DEF txStore
<1>18. CASE cancelTransaction(t)
  BY Zenon, <1>18 DEF cancelTransaction
<1>19. CASE lockedLoad(t)
  BY Zenon, <1>19 DEF lockedLoad
<1>20. CASE lockedStore(t)
  BY Zenon, <1>20 DEF lockedStore
<1>21. CASE spinlock_unlock(t)
  BY Zenon, <1>21 DEF spinlock_unlock
<1>22. CASE toXend(t)
  BY Zenon, <1>22 DEF toXend
<1>23. CASE htm_commit(t)
  BY Zenon, <1>23 DEF htm_commit
<1>24. CASE clearPowerFlag(t)
  BY Zenon, <1>24 DEF clearPowerFlag
<1>25. CASE htmAbort(t)
  BY Zenon, <1>25 DEF htmAbort
<1> QED
  BY Zenon, <1>1, <1>2, <1>3, <1>4, <1>5, <1>6, <1>7, <1>8, <1>9, <1>10,
     <1>11, <1>12, <1>13, <1>14, <1>15, <1>16, <1>17, <1>18, <1>19, <1>20, <1>21,
     <1>22, <1>23, <1>24, <1>25
  DEF Step, begin, body, commit

\* A thread that has the power runs in power mode, does not ask for it again,
\* and gives up speculation only when a retry cannot succeed or its retries in
\* power mode are used up.
Fallback(t) ==
  /\ pc[t] = "cas" => POWERTM /\ ~retryWithLock[t]
  /\ pc[t] = "exit" => retryWithLock[t]
  /\ powerFlag = t =>
       /\ POWERTM /\ txExecOnPower[t] /\ pc[t] # "out"
       /\ pc[t] = "cas" => assertFailed
       /\ pc[t] \in {"pause", "exit"} /\ retryWithLock[t] =>
            \/ ~may_succeed_on_retry(ret[t])
            \/ nRetriesPowerMode[t] > htm_max_retries

\* It is kept by the steps that do not change who has the power and lead to no
\* label that it is about.
LEMMA FallbackKept ==
  ASSUME NEW t \in Thread, Fallback(t), handler' = handler,
         powerFlag' = powerFlag, txExecOnPower'[t] = txExecOnPower[t],
         pc'[t] \notin {"cas", "exit", "pause", "out"}
  PROVE  Fallback(t)'
BY Zenon DEF Fallback, POWERTM

\* ... and by every step of t.
LEMMA FallbackStep ==
  ASSUME HInv, NEW t \in Thread, Fallback(t), Step(t)
  PROVE  Fallback(t)'
<1>0. TypeOK /\ Where(t) /\ Power(t) /\ -1 # t
  BY Zenon, ThreadAssumption DEF HInv, ThreadInv
<1> USE DEF At
<1>1. CASE beginTransaction(t)
  <2>1. pc[t] = "out" /\ pc'[t] \in {"lock", "retry"}
    BY Zenon, <1>0, <1>1 DEF beginTransaction, Goto, TypeOK
  <2> QED
    BY Zenon, <1>1, <2>1 DEF beginTransaction, Fallback, flagVars
<1>2. CASE htm_start(t)
  <2>1. pc'[t] = "subscribe"
    BY Zenon, <1>0, <1>2 DEF htm_start, Goto, TypeOK
  <2>2. txExecOnPower'[t] <=> POWERTM /\ powerFlag = t
    BY Zenon, <1>0, <1>2 DEF htm_start, TypeOK
  <2>3. handler' = handler /\ powerFlag' = powerFlag
    BY Zenon, <1>2 DEF htm_start, flagVars
  <2> QED
    BY Zenon, <2>1, <2>2, <2>3 DEF Fallback, POWERTM
<1>3. CASE subscribe(t)
  <2>1. pc'[t] \notin {"cas", "exit", "pause", "out"}
    BY Zenon, <1>0, <1>3 DEF subscribe, Goto, TypeOK
  <2> QED
    BY Zenon, <1>3, <2>1, FallbackKept
    DEF subscribe, countVars, flagVars
<1>4. CASE htm_cancel_lock_acquired(t)
  <2>1. pc'[t] \notin {"cas", "exit", "pause", "out"}
    BY Zenon, <1>0, <1>4 DEF htm_cancel_lock_acquired, Goto, toHandler, TypeOK
  <2> QED
    BY Zenon, <1>4, <2>1, FallbackKept
    DEF htm_cancel_lock_acquired, toHandler, countVars, flagVars
<1>5. CASE restore(t)
  <2>1. pc'[t] \notin {"cas", "exit", "pause", "out"}
    BY Zenon, <1>0, <1>5 DEF restore, Goto, toHandler, TypeOK
  <2> QED
    BY Zenon, <1>5, <2>1, FallbackKept
    DEF restore, toHandler, countVars, flagVars
<1>6. CASE aborted(t)
  <2>1. pc'[t] \notin {"cas", "exit", "pause", "out"}
    BY Zenon, <1>0, <1>6 DEF aborted, Goto, TypeOK
  <2> QED
    BY Zenon, <1>6, <2>1, FallbackKept
    DEF aborted, countVars, flagVars
<1>7. CASE spinlock_whileIsLocked(t)
  <2>1. pc'[t] \notin {"cas", "exit", "pause", "out"}
    BY Zenon, <1>0, <1>7 DEF spinlock_whileIsLocked, Goto, TypeOK
  <2> QED
    BY Zenon, <1>7, <2>1, FallbackKept
    DEF spinlock_whileIsLocked, countVars, flagVars
<1>8. CASE retryInPowerMode(t)
  <2>1. pc'[t] \notin {"cas", "exit", "pause", "out"}
    BY Zenon, <1>0, <1>8 DEF retryInPowerMode, Goto, TypeOK
  <2> QED
    BY Zenon, <1>8, <2>1, FallbackKept
    DEF retryInPowerMode, countVars, flagVars
<1>9. CASE decide(t)
  <2> DEFINE hopeless == ~cause_explicit(ret[t]) /\ ~may_succeed_on_retry(ret[t])
             tooMany == /\ ~hopeless /\ tooManyRetries(t)
                        /\ ~powerModeExhausted(t)
  <2>1. /\ assertFailed' <=> tooMany /\ POWERTM /\ txExecOnPower[t]
        /\ retryWithLock'[t] <=>
             powerModeExhausted(t) \/ hopeless \/ (tooMany /\ ~POWERTM)
        /\ nRetriesPowerMode'[t] = PowerRetries(t)
        /\ handler' = handler /\ powerFlag' = powerFlag /\ ret' = ret
        /\ txExecOnPower' = txExecOnPower
    BY Zenon, <1>0, <1>9 DEF decide, TypeOK
  <2>2. pc'[t] = IF tooMany /\ POWERTM THEN "cas" ELSE "pause"
    BY Zenon, <1>0, <1>9 DEF decide, Goto, TypeOK
  <2>3. powerModeExhausted(t) => PowerRetries(t) > htm_max_retries
    BY Zenon DEF powerModeExhausted
  <2>4. tooMany => ~powerModeExhausted(t) /\ ~hopeless
    OBVIOUS
  <2>5. hopeless => ~may_succeed_on_retry(ret[t])
    OBVIOUS
  <2>6. pc'[t] # "exit" /\ pc'[t] # "out"
    BY Zenon, <2>2
  <2> HIDE DEF hopeless, tooMany
  <2>7. pc'[t] = "cas" => tooMany /\ POWERTM
    BY Zenon, <2>2
  <2>8. pc'[t] = "cas" => POWERTM' /\ ~retryWithLock'[t]
    BY Zenon, <2>1, <2>4, <2>7 DEF POWERTM
  <2>9. ASSUME powerFlag = t
        PROVE  /\ POWERTM' /\ txExecOnPower'[t]
               /\ pc'[t] = "cas" => assertFailed'
               /\ retryWithLock'[t] =>
                    \/ ~may_succeed_on_retry(ret'[t])
                    \/ nRetriesPowerMode'[t] > htm_max_retries
    BY Zenon, <2>1, <2>3, <2>4, <2>5, <2>7, <2>9 DEF Fallback, POWERTM
  <2> QED
    BY Zenon, <2>1, <2>6, <2>8, <2>9 DEF Fallback
<1>10. CASE takePower(t)
  <2>1. /\ pc[t] = "cas" /\ pc'[t] = "pause" /\ ~assertFailed
        /\ powerFlag' = (IF powerFlag = -1 THEN t ELSE powerFlag)
        /\ txExecOnPower'[t] <=> powerFlag = -1
        /\ UNCHANGED <<handler, retryWithLock>>
    BY Zenon, <1>0, <1>10 DEF takePower, Goto, TypeOK
  <2>2. powerFlag # t /\ POWERTM /\ ~retryWithLock[t]
    BY Zenon, <2>1 DEF Fallback
  <2> QED
    BY Zenon, <2>1, <2>2 DEF Fallback, POWERTM
<1>11. CASE pause(t)
  <2>1. /\ pc[t] = "pause"
        /\ pc'[t] = IF retryWithLock[t] THEN "exit" ELSE "retry"
        /\ UNCHANGED <<handler, ret, countVars, flagVars>>
    BY Zenon, <1>0, <1>11 DEF pause, Goto, TypeOK
  <2> QED
    BY Zenon, <2>1 DEF Fallback, POWERTM, countVars, flagVars
<1>12. CASE releasePowerFlag(t)
  <2>1. powerFlag' # t /\ pc'[t] \in {"preLock", "lock"}
    BY Zenon, <1>0, <1>12 DEF releasePowerFlag, Goto, TypeOK
  <2> QED
    BY Zenon, <2>1 DEF Fallback
<1>13. CASE spinlock_prefb_lock(t)
  <2>1. pc'[t] \notin {"cas", "exit", "pause", "out"}
    BY Zenon, <1>0, <1>13 DEF spinlock_prefb_lock, Goto, TypeOK
  <2> QED
    BY Zenon, <1>13, <2>1, FallbackKept
    DEF spinlock_prefb_lock, countVars, flagVars
<1>14. CASE spinlock_lock(t)
  <2>1. pc'[t] \notin {"cas", "exit", "pause", "out"}
    BY Zenon, <1>0, <1>14 DEF spinlock_lock, Goto, TypeOK
  <2> QED
    BY Zenon, <1>14, <2>1, FallbackKept
    DEF spinlock_lock, countVars, flagVars
<1>15. CASE spinlock_prefb_unlock(t)
  <2>1. pc'[t] \notin {"cas", "exit", "pause", "out"}
    BY Zenon, <1>0, <1>15 DEF spinlock_prefb_unlock, Goto, TypeOK
  <2> QED
    BY Zenon, <1>15, <2>1, FallbackKept
    DEF spinlock_prefb_unlock, countVars, flagVars
<1>16. CASE txLoad(t)
  <2>1. pc'[t] \notin {"cas", "exit", "pause", "out"}
    BY Zenon, <1>0, <1>16 DEF txLoad, Goto, TypeOK
  <2> QED
    BY Zenon, <1>16, <2>1, FallbackKept
    DEF txLoad, countVars, flagVars
<1>17. CASE txStore(t)
  <2>1. pc'[t] \notin {"cas", "exit", "pause", "out"}
    BY Zenon, <1>0, <1>17 DEF txStore, Goto, TypeOK
  <2> QED
    BY Zenon, <1>17, <2>1, FallbackKept
    DEF txStore, countVars, flagVars
<1>18. CASE cancelTransaction(t)
  <2>1. pc'[t] \notin {"cas", "exit", "pause", "out"}
    BY Zenon, <1>0, <1>18 DEF cancelTransaction, Goto, toHandler, TypeOK
  <2> QED
    BY Zenon, <1>18, <2>1, FallbackKept
    DEF cancelTransaction, toHandler, countVars, flagVars
<1>19. CASE lockedLoad(t)
  <2>1. pc'[t] \notin {"cas", "exit", "pause", "out"}
    BY Zenon, <1>0, <1>19 DEF lockedLoad, Goto, TypeOK
  <2> QED
    BY Zenon, <1>19, <2>1, FallbackKept
    DEF lockedLoad, countVars, flagVars
<1>20. CASE lockedStore(t)
  <2>1. pc'[t] \notin {"cas", "exit", "pause", "out"}
    BY Zenon, <1>0, <1>20 DEF lockedStore, Goto, TypeOK
  <2> QED
    BY Zenon, <1>20, <2>1, FallbackKept
    DEF lockedStore, countVars, flagVars
<1>21. CASE spinlock_unlock(t)
  <2>1. powerFlag # t /\ pc'[t] = "out"
    BY Zenon, <1>0, <1>21, CommitModeSteps
    DEF spinlock_unlock, Power, HoldsLock, Where, Goto, TypeOK
  <2> QED
    BY Zenon, <1>21, <2>1 DEF spinlock_unlock, Fallback, flagVars
<1>22. CASE toXend(t)
  <2>1. pc'[t] \notin {"cas", "exit", "pause", "out"}
    BY Zenon, <1>0, <1>22 DEF toXend, Goto, TypeOK
  <2> QED
    BY Zenon, <1>22, <2>1, FallbackKept
    DEF toXend, countVars, flagVars
<1>23. CASE htm_commit(t)
  <2>1. pc'[t] \notin {"cas", "exit", "pause", "out"}
    BY Zenon, <1>0, <1>23 DEF htm_commit, Goto, TypeOK
  <2> QED
    BY Zenon, <1>23, <2>1, FallbackKept
    DEF htm_commit, countVars, flagVars
<1>24. CASE clearPowerFlag(t)
  <2>1. powerFlag' # t /\ pc'[t] = "out"
    BY Zenon, <1>0, <1>24 DEF clearPowerFlag, Goto, TypeOK
  <2> QED
    BY Zenon, <2>1 DEF Fallback
<1>25. CASE htmAbort(t)
  BY Zenon, <1>25 DEF htmAbort, Fallback, POWERTM, countVars, flagVars
<1> QED
  BY Zenon, <1>1, <1>2, <1>3, <1>4, <1>5, <1>6, <1>7, <1>8, <1>9, <1>10,
     <1>11, <1>12, <1>13, <1>14, <1>15, <1>16, <1>17, <1>18, <1>19, <1>20, <1>21,
     <1>22, <1>23, <1>24, <1>25
  DEF Step, begin, body, commit

\* The steps of the others leave it alone.
LEMMA FallbackOthers ==
  ASSUME HInv, NEW t \in Thread, Step(t), NEW u \in Thread \ {t}, Fallback(u)
  PROVE  Fallback(u)'
<1>1. ~assertFailed /\ OwnCounts(u)
  BY Zenon, CountsStep DEF HInv
<1>2. Untouched(u) /\ (powerFlag' = u <=> powerFlag = u)
  BY Zenon, UntouchedStep, PowerStep
<1> QED
  BY Zenon, <1>1, <1>2 DEF Fallback, Untouched, OwnCounts, POWERTM

\* The inductive invariant of the asserts.
FInv == HInv /\ \A t \in Thread : Fallback(t)

\* No thread has the power at the start ...
LEMMA InitFInv == Init => FInv
<1> SUFFICES ASSUME Init, NEW t \in Thread
             PROVE  Fallback(t)
  BY Zenon, InitHInv DEF FInv
<1>1. pc[t] = "out" /\ powerFlag # t
  BY Zenon, ThreadAssumption DEF Init
<1> QED
  BY Zenon, <1>1 DEF Fallback

\* ... and every step keeps the invariant.
LEMMA StepFInv == FInv /\ [Next]_vars => FInv'
<1> SUFFICES ASSUME FInv, [Next]_vars
             PROVE  FInv'
  OBVIOUS
<1>1. HInv'
  BY Zenon, StepHInv DEF FInv
<1>2. ASSUME NEW t \in Thread, Step(t)
      PROVE  FInv'
  <2>1. Fallback(t)'
    BY Zenon, <1>2, FallbackStep DEF FInv
  <2>2. \A u \in Thread \ {t} : Fallback(u)'
    BY Zenon, <1>2, FallbackOthers DEF FInv
  <2> QED
    BY Zenon, <1>1, <2>1, <2>2 DEF FInv
<1>3. CASE UNCHANGED vars
  <2>1. UNCHANGED <<handler, pc, ret, countVars, flagVars>>
    BY Zenon, <1>3 DEF vars
  <2> QED
    BY Zenon, <1>1, <2>1 DEF FInv, Fallback, POWERTM, countVars, flagVars
<1> QED
  BY Zenon, <1>2, <1>3 DEF Next, Step, Terminated

\* A step on which an assert fails is the decision after an explicit abort in
\* power mode.
LEMMA AssertStep ==
  ASSUME FInv, NEW t \in Thread, Step(t), assertFailed'
  PROVE  /\ pc[t] = "decide" /\ POWERTM /\ txExecOnPower[t]
         /\ cause_explicit(ret[t])
<1>1. ~assertFailed /\ TypeOK
  BY Zenon, CountsStep DEF FInv, HInv
<1>2. CASE decide(t)
  <2>1. /\ pc[t] = "decide" /\ POWERTM /\ txExecOnPower[t]
        /\ ~powerModeExhausted(t)
        /\ ~(~cause_explicit(ret[t]) /\ ~may_succeed_on_retry(ret[t]))
        /\ ~may_succeed_on_retry(ret[t]) \/ powerModeExhausted(t)
    BY Zenon, <1>2 DEF decide, At
  <2> QED
    BY Zenon, <2>1
<1>3. CASE releasePowerFlag(t)
  <2>1. /\ pc[t] = "exit" /\ powerFlag = t
        /\ ~(txExecOnPower[t] /\ (~may_succeed_on_retry(ret[t])
                                  \/ nRetriesPowerMode[t] > htm_max_retries))
    BY Zenon, <1>3 DEF releasePowerFlag, At
  <2> QED
    BY Zenon, <2>1 DEF FInv, Fallback
<1>4. CASE ~decide(t) /\ ~releasePowerFlag(t)
  <2>1. CASE begin(t)
    BY Zenon, <1>1, <1>4, <2>1
    DEF begin, beginTransaction, htm_start, subscribe, restore, aborted,
        htm_cancel_lock_acquired, spinlock_whileIsLocked, retryInPowerMode,
        takePower, pause, spinlock_prefb_lock, spinlock_lock,
        spinlock_prefb_unlock, toHandler, flagVars
  <2>2. CASE body(t)
    BY Zenon, <1>1, <2>2
    DEF body, txLoad, txStore, cancelTransaction, lockedLoad, lockedStore,
        toHandler, flagVars
  <2>3. CASE commit(t)
    BY Zenon, <1>1, <2>3
    DEF commit, spinlock_unlock, toXend, htm_commit, clearPowerFlag, flagVars
  <2>4. CASE htmAbort(t)
    BY Zenon, <1>1, <2>4 DEF htmAbort, flagVars
  <2> QED
    BY Zenon, <2>1, <2>2, <2>3, <2>4 DEF Step
<1> QED
  BY Zenon, <1>2, <1>3, <1>4

\* The invariant with which the asserts are reached.
THEOREM FallbackInvariance == Spec => []FInv
BY InitFInv, StepFInv, PTL DEF Spec

\* The asserts of beginTransaction_fallbackLock fail in one situation only: a
\* power transaction that aborted explicitly reaches the code that acquires
\* the power.  The asserts before the fallback lock never fail.
THEOREM KnownAssertFailures == Spec => AssertFailures
<1>1. FInv /\ [Next]_vars =>
     [assertFailed' => \/ assertFailed
                       \/ \E t \in Thread :
                            /\ pc[t] = "decide" /\ POWERTM /\ txExecOnPower[t]
                            /\ cause_explicit(ret[t])]_vars
  <2> SUFFICES ASSUME FInv, [Next]_vars, assertFailed', ~assertFailed
               PROVE  \E t \in Thread :
                        /\ pc[t] = "decide" /\ POWERTM /\ txExecOnPower[t]
                        /\ cause_explicit(ret[t])
    BY Zenon
  <2>1. ~UNCHANGED vars
    BY Zenon DEF vars, flagVars
  <2>2. PICK t \in Thread : Step(t)
    BY Zenon, <2>1 DEF Next, Step, Terminated
  <2> QED
    BY Zenon, <2>2, AssertStep
<1> QED
  BY <1>1, FallbackInvariance, PTL DEF Spec, AssertFailures

\* A build without power transactions: the handlers other than powertm and
\* powertmplus.
NoPower == \A h \in Handlers : h \notin {"powertm", "powertmplus"}

\* In such builds every assert holds.
THEOREM AssertsHoldWithoutPower ==
  ASSUME NoPower
  PROVE  Spec => []AssertsHold
<1>1. Init => AssertsHold
  BY Zenon DEF Init, AssertsHold
<1>2. FInv /\ AssertsHold /\ [Next]_vars => AssertsHold'
  <2> SUFFICES ASSUME FInv, AssertsHold, [Next]_vars, ~AssertsHold'
               PROVE  FALSE
    OBVIOUS
  <2>1. ~POWERTM
    BY Zenon, NoPower DEF FInv, HInv, TypeOK, POWERTM, NoPower
  <2> QED
    BY Zenon, <2>1, AssertStep
    DEF Next, Step, Terminated, vars, flagVars, AssertsHold
<1> QED
  BY <1>1, <1>2, FallbackInvariance, PTL DEF Spec
=============================================================================
