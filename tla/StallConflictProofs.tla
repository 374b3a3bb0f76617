------------------------ MODULE StallConflictProofs ------------------------
(***************************************************************************)
(* Isolation under the stalling policies, for every number of cores and    *)
(* blocks and any bounds.                                                  *)
(***************************************************************************)
EXTENDS StallConflict, TLAPS

-----------------------------------------------------------------------------
(* The inductive invariant                                                 *)

\* A block serves a request that is outstanding, of a core that does not wait
\* for itself.
Serving ==
  \A a \in Addr : busy[a] # None =>
    req[busy[a].proc][a] # None /\ busy[a].proc \notin busy[a].waiting

\* A core that has answered without a nack no longer stands in the way: the
\* block is not in its write set, unless lazy versioning discards it, and,
\* under the base policy, not in its read set if the request stores, unless
\* it is to abort.
Yielded(t, a, r) ==
  /\ a \in writeSet[t] => lazyVM /\ abortFlag[t]
  /\ policy = "requester_stalls_cda_base" /\ r.kind = "GETX" /\ a \in readSet[t]
       => abortFlag[t]

AnswersStand ==
  \A a \in Addr : busy[a] # None /\ busy[a].eldest = None /\ ~assertFailed =>
    \A t \in Proc \ (busy[a].waiting \cup {busy[a].proc}) :
      Yielded(t, a, req[busy[a].proc][a])

\* With the log, write sets are disjoint: nothing discards them at an abort.
LogDisjoint ==
  ~lazyVM => \A p, q \in Proc : p # q => writeSet[p] \cap writeSet[q] = {}

\* Outside a transaction and during the unroll of its log, a core's
\* transactional requests are lingering ones.
Lingering ==
  \A p \in Proc, a \in Addr :
    (unrolling[p] \/ ~inTx[p]) /\ req[p][a] # None /\ req[p][a].trans
      => req[p][a].age > 0

LogOnly == \A p \in Proc : unrolling[p] => ~lazyVM

\* Blocks are to be restored only during the unroll, and the requests that are
\* not transactional of a core in a transaction are those that restore them.
Restoring ==
  \A p \in Proc :
    /\ ~unrolling[p] => toRestore[p] = {}
    /\ \A a \in Addr :
         inTx[p] /\ req[p][a] # None /\ ~req[p][a].trans => a \in toRestore[p]

\* The invariant of both policies, and that of the base policy.
UInv ==
  /\ TypeOK /\ Serving /\ AnswersStand /\ LogDisjoint /\ Lingering /\ LogOnly
  /\ UnrollState /\ Restoring

SInv ==
  /\ TypeOK /\ Serving /\ AnswersStand /\ LogDisjoint /\ Lingering /\ LogOnly
  /\ WriteIsolation /\ UnrollState

-----------------------------------------------------------------------------
(* Types                                                                   *)

\* A request stays one when it outlives its transaction.
LEMMA AgedType ==
  ASSUME NEW r \in {None} \cup Requests
  PROVE  aged(r) \in {None} \cup Requests
BY DEF aged, Requests

\* The requests a core issues.
LEMMA RequestTypes ==
  ASSUME TypeOK, NEW p \in Proc, NEW kind \in {"GETS", "GETX"}
  PROVE  /\ [kind |-> kind, trans |-> TRUE, ts |-> timestamp[p], age |-> 0]
              \in Requests
         /\ [kind |-> kind, trans |-> FALSE, ts |-> clock, age |-> 0]
              \in Requests
<1>1. timestamp[p] \in Nat /\ clock \in Nat
  BY BoundAssumption DEF TypeOK
<1> QED
  BY <1>1 DEF Requests

\* A request is seen as itself or, if it loads and the L0 is not downgraded,
\* as the same request to store; a writer then always sees a store.
LEMMA SeenFacts ==
  ASSUME NEW t \in Proc, NEW a \in Addr, NEW q \in Requests,
         NEW r \in seenAs(t, a, q)
  PROVE  /\ r.trans \in BOOLEAN /\ r.kind \in {"GETS", "GETX"}
         /\ r.trans = q.trans /\ r.ts = q.ts
         /\ q.kind = "GETX" => r.kind = "GETX"
         /\ r.kind = "GETX" => q.kind = "GETX" \/ ~l0_downgrade_on_l1_gets
         /\ r.kind = "GETS" =>
              q.kind = "GETS" /\ (isWriter(t, a) => l0_downgrade_on_l1_gets)
<1> DEFINE s == [q EXCEPT !.kind = "GETX"]
<1>1. /\ q.kind \in {"GETS", "GETX"} /\ q.trans \in BOOLEAN
      /\ s.kind = "GETX" /\ s.trans = q.trans /\ s.ts = q.ts
  BY DEF Requests
<1>2. \/ r = q /\ (q.kind = "GETX" \/ l0_downgrade_on_l1_gets \/ ~isWriter(t, a))
      \/ r = s /\ ~(q.kind = "GETX" \/ l0_downgrade_on_l1_gets)
  BY Zenon DEF seenAs
<1> HIDE DEF s
<1> QED
  BY Zenon, <1>1, <1>2

\* What the answer changes in the record of the block: a nack is recorded with
\* its core, and only a core that does not nack leaves the eldest nacker out.
LEMMA RecordFacts ==
  ASSUME TypeOK, NEW t \in Proc, NEW a \in Addr, busy[a] # None
  PROVE  LET R == [proc : Proc, waiting : SUBSET Proc,
                   eldest : Proc \cup {None}, ts : Nat]
         IN /\ recordNack(busy[a], t) \in R
            /\ recordNack(busy[a], t).proc = busy[a].proc
            /\ recordNack(busy[a], t).waiting = busy[a].waiting \ {t}
            /\ recordNack(busy[a], t).eldest # None
            /\ recordAck(busy[a], t) \in R
            /\ recordAck(busy[a], t).proc = busy[a].proc
            /\ recordAck(busy[a], t).waiting = busy[a].waiting \ {t}
            /\ recordAck(busy[a], t).eldest = busy[a].eldest
<1> DEFINE R == [proc : Proc, waiting : SUBSET Proc,
                 eldest : Proc \cup {None}, ts : Nat]
<1>1. busy[a] \in R /\ timestamp[t] \in Nat
  BY BoundAssumption DEF TypeOK
<1>2. /\ recordNack(busy[a], t) \in R
      /\ recordNack(busy[a], t).proc = busy[a].proc
      /\ recordNack(busy[a], t).waiting = busy[a].waiting \ {t}
      /\ recordNack(busy[a], t).eldest # None
  BY Zenon, <1>1, ProcAssumption DEF recordNack
<1>3. /\ recordAck(busy[a], t) \in R
      /\ recordAck(busy[a], t).proc = busy[a].proc
      /\ recordAck(busy[a], t).waiting = busy[a].waiting \ {t}
      /\ recordAck(busy[a], t).eldest = busy[a].eldest
  BY Zenon, <1>1 DEF recordAck
<1> QED
  BY Zenon, <1>2, <1>3

\* What an answer does, for the request as it is seen.
LEMMA AnsweredAs ==
  ASSUME TypeOK, NEW t \in Proc, NEW a \in Addr, answer(t, a)
  PROVE  LET p == busy[a].proc
         IN \E r \in seenAs(t, a, req[p][a]) :
              /\ callsSetAbortFlag(t, a, r) /\ ~unrolling[t] => abortFlag'[t]
              /\ busy'[a] = IF shouldNack(t, a, p, r) THEN recordNack(busy[a], t)
                            ELSE recordAck(busy[a], t)
              /\ busy'[a].eldest = None => ~shouldNack(t, a, p, r)
              /\ assertFailed' \in IF failsAtL1(t, a, req[p][a]) THEN {TRUE}
                                   ELSE assertionsOf(t, a, p, r)
<1> DEFINE p == busy[a].proc
<1>1. PICK r \in seenAs(t, a, req[p][a]) :
        /\ abortFlag' = [abortFlag EXCEPT ![t] =
             @ \/ (callsSetAbortFlag(t, a, r) /\ ~unrolling[t])]
        /\ busy' = [busy EXCEPT ![a] =
             IF shouldNack(t, a, p, r) THEN recordNack(busy[a], t)
             ELSE recordAck(busy[a], t)]
        /\ assertFailed' \in IF failsAtL1(t, a, req[p][a]) THEN {TRUE}
                             ELSE assertionsOf(t, a, p, r)
  BY Zenon DEF answer
<1>2. callsSetAbortFlag(t, a, r) /\ ~unrolling[t] => abortFlag'[t]
  BY Zenon, <1>1 DEF TypeOK
<1>3. busy'[a] = IF shouldNack(t, a, p, r) THEN recordNack(busy[a], t)
                 ELSE recordAck(busy[a], t)
  BY Zenon, <1>1 DEF TypeOK
<1>4. busy'[a].eldest = None => ~shouldNack(t, a, p, r)
  <2>1. busy[a] # None
    BY Zenon DEF answer
  <2> QED
    BY Zenon, <1>3, <2>1, RecordFacts
<1> QED
  BY Zenon, <1>1, <1>2, <1>3, <1>4

\* An answer leaves the requester's record to the same requester and takes the
\* core that answers off it.
LEMMA AnswerRecord ==
  ASSUME TypeOK, NEW t \in Proc, NEW a \in Addr, answer(t, a)
  PROVE  /\ busy'[a] \in [proc : Proc, waiting : SUBSET Proc,
                          eldest : Proc \cup {None}, ts : Nat]
         /\ busy'[a].proc = busy[a].proc
         /\ busy'[a].waiting = busy[a].waiting \ {t}
         /\ busy'[a].eldest = None => busy[a].eldest = None
<1>1. busy'[a] = recordNack(busy[a], t) \/ busy'[a] = recordAck(busy[a], t)
  BY Zenon, AnsweredAs
<1>2. busy[a] # None
  BY Zenon DEF answer
<1> DEFINE R == [proc : Proc, waiting : SUBSET Proc,
                 eldest : Proc \cup {None}, ts : Nat]
           n == recordNack(busy[a], t)
           k == recordAck(busy[a], t)
<1>3. /\ n \in R /\ n.proc = busy[a].proc
      /\ n.waiting = busy[a].waiting \ {t} /\ n.eldest # None
  BY Zenon, <1>2, RecordFacts
<1>4. /\ k \in R /\ k.proc = busy[a].proc
      /\ k.waiting = busy[a].waiting \ {t} /\ k.eldest = busy[a].eldest
  BY Zenon, <1>2, RecordFacts
<1> HIDE DEF R, n, k
<1>5. busy'[a] = n \/ busy'[a] = k
  BY Zenon, <1>1 DEF n, k
<1>6. /\ busy'[a] \in R /\ busy'[a].proc = busy[a].proc
      /\ busy'[a].waiting = busy[a].waiting \ {t}
      /\ busy'[a].eldest = None => busy[a].eldest = None
  BY Zenon, <1>3, <1>4, <1>5
<1> QED
  BY Zenon, <1>6 DEF R

\* Every step keeps the types.
LEMMA TypeStep ==
  ASSUME TypeOK, NEW p \in Proc, Step(p)
  PROVE  TypeOK'
<1> USE ProcAssumption, KindsAssumption, FlagsAssumption, BoundAssumption
<1>1. CASE beginTransaction(p)
  <2>1. newTimestamp(p) \in 0..MaxTime
    BY <1>1 DEF beginTransaction, newTimestamp, TypeOK
  <2> QED
    BY <1>1, <2>1 DEF beginTransaction, TypeOK, setVars, logVars, Running
<1>2. CASE commitTransaction(p)
  BY Zenon, <1>2 DEF commitTransaction, TypeOK, logVars, Running
<1>3. CASE abortTransaction(p)
  <2>1. writeSetAfterAbort(p) \in SUBSET Addr
    BY Zenon DEF writeSetAfterAbort, TypeOK
  <2>2. req' \in [Proc -> [Addr -> {None} \cup Requests]]
    <3>1. \A a \in Addr : aged(req[p][a]) \in {None} \cup Requests
      BY AgedType DEF TypeOK
    <3> QED
      BY Zenon, <1>3, <3>1 DEF abortTransaction, TypeOK
  <2> QED
    BY Zenon, <1>3, <2>1, <2>2 DEF abortTransaction, TypeOK, tsVars, Running
<1>4. CASE endLogUnroll(p)
  BY Zenon, <1>4 DEF endLogUnroll, TypeOK, tsVars, Running
<1>5. ASSUME NEW a \in Addr, NEW kind \in Kinds, issueRequest(p, a, kind)
      PROVE  TypeOK'
  <2>1. [kind |-> kind, trans |-> TRUE, ts |-> timestamp[p], age |-> 0]
          \in Requests
    <3>1. timestamp[p] \in Nat
      BY DEF TypeOK
    <3> QED
      BY <3>1 DEF Requests
  <2> QED
    BY Zenon, <1>5, <2>1
    DEF issueRequest, TypeOK, tsVars, logVars, setVars, Running
<1>6. ASSUME NEW a \in Addr, NEW kind \in Kinds,
             issueNonTransactional(p, a, kind)
      PROVE  TypeOK'
  <2>1. [kind |-> kind, trans |-> FALSE, ts |-> clock, age |-> 0] \in Requests
    BY DEF Requests, TypeOK
  <2> QED
    BY Zenon, <1>6, <2>1
    DEF issueNonTransactional, TypeOK, tsVars, logVars, setVars, Running
<1>7. ASSUME NEW a \in Addr, issueRestore(p, a)
      PROVE  TypeOK'
  <2>1. [kind |-> "GETX", trans |-> FALSE, ts |-> clock, age |-> 0]
          \in Requests
    BY DEF Requests, TypeOK
  <2> QED
    BY Zenon, <1>7, <2>1
    DEF issueRestore, TypeOK, tsVars, logVars, setVars, Running
<1>8. ASSUME NEW a \in Addr, serveRequest(p, a)
      PROVE  TypeOK'
  BY Zenon, <1>8 DEF serveRequest, TypeOK, tsVars, logVars, setVars, Running
<1>9. ASSUME NEW a \in Addr, answer(p, a)
      PROVE  TypeOK'
  <2>3. assertFailed' \in BOOLEAN
    <3>1. \A b, r : assertionsOf(p, a, b, r) \subseteq BOOLEAN
      BY Zenon DEF assertionsOf
    <3> QED
      BY Zenon, <1>9, <3>1, AnsweredAs
  <2>4. abortFlag' \in [Proc -> BOOLEAN] /\ possibleCycle' \in [Proc -> BOOLEAN]
    BY Zenon, <1>9 DEF answer, TypeOK, callsSetAbortFlag, notifySendNack
  <2>5. busy' \in [Addr -> {None} \cup
          [proc : Proc, waiting : SUBSET Proc, eldest : Proc \cup {None},
           ts : Nat]]
    <3>1. busy' = [busy EXCEPT ![a] = busy'[a]]
      BY Zenon, <1>9 DEF answer, TypeOK
    <3>2. busy'[a] \in [proc : Proc, waiting : SUBSET Proc,
                        eldest : Proc \cup {None}, ts : Nat]
      BY Zenon, <1>9, AnswerRecord
    <3> QED
      BY Zenon, <3>1, <3>2 DEF TypeOK
  <2> QED
    BY Zenon, <1>9, <2>3, <2>4, <2>5 DEF answer, TypeOK, tsVars, logVars, setVars
<1>10. ASSUME NEW a \in Addr, receiveNack(p, a)
       PROVE  TypeOK'
  <2>1. abortFlag' \in [Proc -> BOOLEAN]
    BY Zenon, <1>10 DEF receiveNack, TypeOK
  <2> QED
    BY Zenon, <1>10, <2>1 DEF receiveNack, TypeOK, tsVars, logVars, setVars, Running
<1>11. ASSUME NEW a \in Addr, receiveData(p, a)
       PROVE  TypeOK'
  BY <1>11 DEF receiveData, TypeOK, tsVars, Running
<1>12. ASSUME NEW a \in Addr, xactReplacement(p, a)
       PROVE  TypeOK'
  BY Zenon, <1>12 DEF xactReplacement, TypeOK, tsVars, logVars, setVars, Running
<1> QED
  BY Zenon, <1>1, <1>2, <1>3, <1>4, <1>5, <1>6, <1>7, <1>8, <1>9, <1>10, <1>11,
     <1>12 DEF Step

\* What an abort leaves of an outstanding request.
LEMMA AgedFacts ==
  ASSUME NEW r \in Requests
  PROVE  /\ aged(r) # None /\ aged(r).kind = r.kind
         /\ aged(r).trans = r.trans
         /\ r.trans => aged(r).age > 0
BY NoneAssumption DEF aged, Requests

-----------------------------------------------------------------------------
(* Requests                                                                *)

\* The L2 forgets a request when it is answered, and a core drops none that
\* is being served.
LEMMA ServingStep ==
  ASSUME TypeOK, Serving, NEW p \in Proc, Step(p)
  PROVE  Serving'
<1> USE ProcAssumption, NoneAssumption, KindsAssumption
<1>1. CASE beginTransaction(p)
  BY Zenon, <1>1 DEF beginTransaction, Serving
<1>2. CASE commitTransaction(p)
  BY Zenon, <1>2 DEF commitTransaction, Serving
<1>3. CASE abortTransaction(p)
  <2>1. \A a \in Addr : req[p][a] # None => aged(req[p][a]) # None
    BY AgedFacts DEF TypeOK
  <2>2. \A a \in Addr : req'[p][a] = aged(req[p][a])
    BY Zenon, <1>3 DEF abortTransaction, TypeOK
  <2>3. \A q \in Proc : q # p => req'[q] = req[q]
    BY Zenon, <1>3 DEF abortTransaction, TypeOK
  <2>4. busy' = busy
    BY Zenon, <1>3 DEF abortTransaction
  <2>5. \A a \in Addr : busy[a] # None => busy[a].proc \in Proc
    BY Zenon DEF TypeOK
  <2>6. \A q \in Proc, a \in Addr : req[q][a] # None => req'[q][a] # None
    BY Zenon, <2>1, <2>2, <2>3
  <2> QED
    BY Zenon, <2>4, <2>5, <2>6 DEF Serving
<1>4. CASE endLogUnroll(p)
  BY Zenon, <1>4 DEF endLogUnroll, Serving
<1>5. ASSUME NEW a \in Addr, busy' = busy, NEW r \in Requests,
             req' = [req EXCEPT ![p][a] = r]
      PROVE  Serving'
  BY Zenon, <1>5 DEF Serving, TypeOK
<1>6. ASSUME NEW a \in Addr, NEW kind \in Kinds, issueRequest(p, a, kind)
      PROVE  Serving'
  BY Zenon, <1>5, <1>6, RequestTypes DEF issueRequest
<1>7. ASSUME NEW a \in Addr, NEW kind \in Kinds,
             issueNonTransactional(p, a, kind)
      PROVE  Serving'
  BY Zenon, <1>5, <1>7, RequestTypes DEF issueNonTransactional
<1>8. ASSUME NEW a \in Addr, issueRestore(p, a)
      PROVE  Serving'
  BY Zenon, <1>5, <1>8, RequestTypes DEF issueRestore
<1>9. ASSUME NEW a \in Addr, serveRequest(p, a)
      PROVE  Serving'
  BY Zenon, <1>9 DEF serveRequest, Serving, TypeOK
<1>10. ASSUME NEW a \in Addr, answer(p, a)
       PROVE  Serving'
  <2>1. req' = req /\ \A b \in Addr : b # a => busy'[b] = busy[b]
    BY Zenon, <1>10 DEF answer, TypeOK
  <2>2. /\ busy'[a].proc = busy[a].proc
        /\ busy'[a].waiting \subseteq busy[a].waiting
    BY <1>10, AnswerRecord
  <2> QED
    BY Zenon, <1>10, <2>1, <2>2 DEF Serving, answer
<1>11. ASSUME NEW a \in Addr, busy' = [busy EXCEPT ![a] = None],
              busy[a].proc = p, busy[a] # None,
              req' = [req EXCEPT ![p][a] = None] \/ req' = req
       PROVE  Serving'
  <2>1. \A b \in Addr : b # a => busy'[b] = busy[b]
    BY Zenon, <1>11 DEF TypeOK
  <2>2. busy'[a] = None
    BY Zenon, <1>11 DEF TypeOK
  <2>3. \A b \in Addr, q \in Proc : b # a => req'[q][b] = req[q][b]
    <3>1. CASE req' = [req EXCEPT ![p][a] = None]
      <4>1. req'[p] = [req[p] EXCEPT ![a] = None]
            /\ \A q \in Proc : q # p => req'[q] = req[q]
        BY Zenon, <3>1 DEF TypeOK
      <4>2. req[p] \in [Addr -> {None} \cup Requests]
        BY Zenon DEF TypeOK
      <4> QED
        BY Zenon, <4>1, <4>2
    <3>2. CASE req' = req
      BY Zenon, <3>2
    <3> QED
      BY Zenon, <1>11, <3>1, <3>2
  <2>4. \A b \in Addr : busy[b] # None => busy[b].proc \in Proc
    BY Zenon DEF TypeOK
  <2> QED
    BY Zenon, <2>1, <2>2, <2>3, <2>4 DEF Serving
<1>12. ASSUME NEW a \in Addr, receiveNack(p, a)
       PROVE  Serving'
  BY Zenon, <1>11, <1>12 DEF receiveNack, Answered
<1>13. ASSUME NEW a \in Addr, receiveData(p, a)
       PROVE  Serving'
  BY Zenon, <1>11, <1>13 DEF receiveData, Answered
<1>14. ASSUME NEW a \in Addr, xactReplacement(p, a)
       PROVE  Serving'
  BY Zenon, <1>14 DEF xactReplacement, Serving
<1> QED
  BY Zenon, <1>1, <1>2, <1>3, <1>4, <1>6, <1>7, <1>8, <1>9, <1>10, <1>12, <1>13,
     <1>14 DEF Step

-----------------------------------------------------------------------------
(* Answers                                                                 *)

\* A core that conflicts with a request and does not nack it is to abort,
\* unless it reads and the policy is the hybrid one; the L0's assertion rules
\* out that it gives up a block of the log.
LEMMA AckYields ==
  ASSUME TypeOK, LogOnly, UnrollState, NEW t \in Proc, NEW a \in Addr,
         answer(t, a), ~assertFailed',
         req[busy[a].proc][a] \in Requests, busy'[a].eldest = None
  PROVE  Yielded(t, a, req[busy[a].proc][a])'
<1> DEFINE p == busy[a].proc
           q == req[p][a]
<1>0. PICK r \in seenAs(t, a, q) :
        /\ callsSetAbortFlag(t, a, r) /\ ~unrolling[t] => abortFlag'[t]
        /\ ~shouldNack(t, a, p, r)
        /\ assertFailed' \in IF failsAtL1(t, a, q) THEN {TRUE}
                             ELSE assertionsOf(t, a, p, r)
  BY Zenon, AnsweredAs
<1>1. assertFailed' \in assertionsOf(t, a, p, r) /\ ~shouldNack(t, a, p, r)
  BY Zenon, <1>0
<1>2. /\ lazyVM' = lazyVM /\ readSet' = readSet /\ writeSet' = writeSet
      /\ req' = req /\ busy'[a].proc = p
  BY Zenon, AnswerRecord DEF answer, setVars
<1>3. /\ abortFlag[t] => abortFlag'[t]
      /\ callsSetAbortFlag(t, a, r) /\ ~unrolling[t] => abortFlag'[t]
  <2>1. abortFlag[t] => abortFlag'[t]
    BY Zenon DEF answer, TypeOK
  <2> QED
    BY Zenon, <1>0, <2>1
<1>4. /\ r.trans \in BOOLEAN /\ r.kind \in {"GETS", "GETX"}
      /\ q.kind = "GETX" => r.kind = "GETX"
  BY SeenFacts
<1> HIDE DEF p, q
<1>5. ASSUME a \in writeSet[t]
      PROVE  lazyVM /\ abortFlag'[t]
  <2>1. CASE ~lazyVM
    <3>1. assertionsOf(t, a, p, r) = {TRUE} \/ assertionsOf(t, a, p, r) = {~lazyVM}
      BY Zenon, <1>1, <1>5 DEF assertionsOf, isWriter, existConflict
    <3>2. (~lazyVM) = TRUE
      BY Zenon, <2>1
    <3>3. assertionsOf(t, a, p, r) = {TRUE}
      BY Zenon, <3>1, <3>2
    <3>4. assertFailed' = TRUE
      BY Zenon, <1>1, <3>3
    <3> QED
      BY Zenon, <3>4
  <2>2. CASE lazyVM
    <3>1. ~unrolling[t]
      BY Zenon, <2>2 DEF LogOnly
    <3>2. CASE isDoomed(t)
      BY Zenon, <1>3, <2>2, <3>1, <3>2 DEF isDoomed
    <3>3. CASE ~isDoomed(t)
      <4>1. ~r.trans
        BY Zenon, <1>1, <1>4, <1>5, <3>3
        DEF shouldNack, existConflict, isWriter, shouldNackRemoteRequest,
            shouldNackStore
      <4> QED
        BY Zenon, <1>3, <1>5, <2>2, <3>1, <3>3, <4>1
        DEF callsSetAbortFlag, existConflict, isWriter
    <3> QED
      BY Zenon, <3>2, <3>3
  <2> QED
    BY Zenon, <2>1, <2>2
<1>6. ASSUME policy = "requester_stalls_cda_base", r.kind = "GETX",
             a \in readSet[t]
      PROVE  abortFlag'[t]
  <2>1. ~unrolling[t]
    BY Zenon, <1>6 DEF UnrollState
  <2>2. CASE isDoomed(t)
    BY Zenon, <1>3, <2>1, <2>2 DEF isDoomed
  <2>3. CASE ~isDoomed(t)
    <3>1. ~r.trans
      BY Zenon, <1>1, <1>6 DEF shouldNack, existConflict, shouldNackStore
    <3> QED
      BY Zenon, <1>3, <1>6, <2>1, <2>3, <3>1 DEF callsSetAbortFlag, existConflict
  <2> QED
    BY Zenon, <2>2, <2>3
<1> QED
  BY Zenon, <1>2, <1>4, <1>5, <1>6 DEF Yielded, p, q

\* The answers given stand when sets shrink, flags are raised and the requests
\* being served stay.
LEMMA StandsKept ==
  ASSUME TypeOK, AnswersStand, busy' = busy, lazyVM' = lazyVM, ~assertFailed,
         \A b \in Addr : busy[b] # None =>
           req'[busy[b].proc][b].kind = req[busy[b].proc][b].kind,
         \A t \in Proc :
           /\ readSet'[t] \subseteq readSet[t]
           /\ writeSet'[t] \subseteq writeSet[t]
           /\ \/ abortFlag[t] => abortFlag'[t]
              \/ readSet'[t] = {} /\ (lazyVM => writeSet'[t] = {})
  PROVE  AnswersStand'
<1> SUFFICES ASSUME NEW b \in Addr, busy[b] # None, busy[b].eldest = None,
                    NEW t \in Proc \ (busy[b].waiting \cup {busy[b].proc})
             PROVE  Yielded(t, b, req[busy[b].proc][b])'
  BY Zenon DEF AnswersStand
<1>1. Yielded(t, b, req[busy[b].proc][b])
  BY Zenon DEF AnswersStand
<1> QED
  BY Zenon, <1>1 DEF Yielded

\* Every step lets the answers given stand.
LEMMA AnswersStandStep ==
  ASSUME TypeOK, Serving, AnswersStand, LogOnly, UnrollState, NEW p \in Proc,
         Step(p)
  PROVE  AnswersStand'
<1> USE ProcAssumption
<1>0. \A b \in Addr : busy[b] # None => busy[b].proc \in Proc
  BY Zenon DEF TypeOK
<1>1. CASE beginTransaction(p)
  BY Zenon, <1>1, StandsKept DEF beginTransaction, setVars, Running
<1>2. CASE commitTransaction(p)
  <2>1. \A t \in Proc : readSet'[t] \subseteq readSet[t]
                        /\ writeSet'[t] \subseteq writeSet[t]
    BY Zenon, <1>2 DEF commitTransaction, TypeOK
  <2> QED
    BY Zenon, <1>2, <2>1, StandsKept DEF commitTransaction, Running
<1>3. CASE abortTransaction(p)
  <2>1. \A t \in Proc : readSet'[t] \subseteq readSet[t]
                        /\ writeSet'[t] \subseteq writeSet[t]
    BY Zenon, <1>3 DEF abortTransaction, writeSetAfterAbort, TypeOK
  <2>2. readSet'[p] = {} /\ (lazyVM => writeSet'[p] = {})
    BY Zenon, <1>3 DEF abortTransaction, writeSetAfterAbort, TypeOK
  <2>3. \A t \in Proc : t # p => abortFlag'[t] = abortFlag[t]
    BY Zenon, <1>3 DEF abortTransaction, TypeOK
  <2>4. \A a \in Addr : req[p][a] # None =>
          aged(req[p][a]).kind = req[p][a].kind
    BY AgedFacts DEF TypeOK
  <2>5. \A a \in Addr : req'[p][a] = aged(req[p][a])
    BY Zenon, <1>3 DEF abortTransaction, TypeOK
  <2>6. \A q \in Proc : q # p => req'[q] = req[q]
    BY Zenon, <1>3 DEF abortTransaction, TypeOK
  <2>7. \A b \in Addr : busy[b] # None =>
          req'[busy[b].proc][b].kind = req[busy[b].proc][b].kind
    BY Zenon, <1>0, <2>4, <2>5, <2>6 DEF Serving
  <2> QED
    BY Zenon, <1>3, <2>1, <2>2, <2>3, <2>7, StandsKept DEF abortTransaction, Running
<1>4. CASE endLogUnroll(p)
  <2>1. \A t \in Proc : writeSet'[t] \subseteq writeSet[t]
    BY Zenon, <1>4 DEF endLogUnroll, TypeOK
  <2> QED
    BY Zenon, <1>4, <2>1, StandsKept DEF endLogUnroll, Running
<1>5. ASSUME NEW a \in Addr, req[p][a] = None, NEW r,
             req' = [req EXCEPT ![p][a] = r],
             UNCHANGED <<abortFlag, setVars, busy>>, Running
      PROVE  AnswersStand'
  <2>1. \A b \in Addr : busy[b] # None => req'[busy[b].proc][b] = req[busy[b].proc][b]
    BY Zenon, <1>0, <1>5 DEF Serving, TypeOK
  <2> QED
    BY Zenon, <1>5, <2>1, StandsKept DEF setVars, Running
<1>6. ASSUME NEW a \in Addr, NEW kind \in Kinds, issueRequest(p, a, kind)
      PROVE  AnswersStand'
  BY Zenon, <1>5, <1>6 DEF issueRequest
<1>7. ASSUME NEW a \in Addr, NEW kind \in Kinds,
             issueNonTransactional(p, a, kind)
      PROVE  AnswersStand'
  BY Zenon, <1>5, <1>7 DEF issueNonTransactional
<1>8. ASSUME NEW a \in Addr, issueRestore(p, a)
      PROVE  AnswersStand'
  BY Zenon, <1>5, <1>8 DEF issueRestore
<1>9. ASSUME NEW a \in Addr, serveRequest(p, a)
      PROVE  AnswersStand'
  <2> SUFFICES ASSUME NEW b \in Addr, busy'[b] # None, busy'[b].eldest = None,
                      NEW t \in Proc \ (busy'[b].waiting \cup {busy'[b].proc})
               PROVE  Yielded(t, b, req[busy[b].proc][b])'
    BY Zenon DEF AnswersStand
  <2>1. b # a
    BY Zenon, <1>9 DEF serveRequest, TypeOK
  <2>2. busy'[b] = busy[b]
    BY Zenon, <1>9, <2>1 DEF serveRequest, TypeOK
  <2>3. Yielded(t, b, req[busy[b].proc][b])
    BY Zenon, <1>9, <2>2 DEF AnswersStand, serveRequest, Running
  <2> QED
    BY Zenon, <1>9, <2>2, <2>3 DEF Yielded, serveRequest, setVars, Running
<1>10. ASSUME NEW a \in Addr, answer(p, a)
       PROVE  AnswersStand'
  <2> SUFFICES ASSUME NEW b \in Addr, busy'[b] # None, busy'[b].eldest = None,
                      ~assertFailed',
                      NEW t \in Proc \ (busy'[b].waiting \cup {busy'[b].proc})
               PROVE  Yielded(t, b, req[busy[b].proc][b])'
    BY Zenon DEF AnswersStand
  <2>1. /\ lazyVM' = lazyVM /\ readSet' = readSet /\ writeSet' = writeSet
        /\ req' = req /\ ~assertFailed /\ busy[a] # None
        /\ \A q \in Proc : abortFlag[q] => abortFlag'[q]
        /\ \A c \in Addr : c # a => busy'[c] = busy[c]
    BY Zenon, <1>10 DEF answer, setVars, TypeOK
  <2>a. /\ busy'[a].proc = busy[a].proc
        /\ busy'[a].waiting = busy[a].waiting \ {p}
        /\ busy'[a].eldest = None => busy[a].eldest = None
    BY Zenon, <1>10, AnswerRecord
  <2>2. busy'[b].proc = busy[b].proc /\ busy[b] # None /\ busy[b].eldest = None
    BY Zenon, <2>1, <2>a
  <2>3. CASE b = a /\ t = p
    <3>1. req[busy[a].proc][a] \in Requests
      <4>1. busy[a].proc \in Proc /\ req[busy[a].proc][a] # None
        BY Zenon, <1>0, <2>1 DEF Serving
      <4>2. \A q \in Proc : req[q][a] \in {None} \cup Requests
        BY DEF TypeOK
      <4> QED
        BY Zenon, <4>1, <4>2
    <3>2. busy'[a].eldest = None
      BY Zenon, <2>3
    <3>3. Yielded(p, a, req[busy[a].proc][a])'
      BY Zenon, <1>10, <3>1, <3>2, AckYields
    <3> QED
      BY Zenon, <2>3, <3>3
  <2>4. CASE ~(b = a /\ t = p)
    <3>1. t \in Proc \ (busy[b].waiting \cup {busy[b].proc})
      BY Zenon, <2>1, <2>2, <2>4, <2>a
    <3>2. Yielded(t, b, req[busy[b].proc][b])
      BY Zenon, <2>1, <2>2, <3>1 DEF AnswersStand
    <3> QED
      BY Zenon, <2>1, <2>2, <3>2 DEF Yielded
  <2> QED
    BY Zenon, <2>3, <2>4
<1>11. ASSUME NEW a \in Addr, receiveNack(p, a)
       PROVE  AnswersStand'
  <2> SUFFICES ASSUME NEW b \in Addr, busy'[b] # None, busy'[b].eldest = None,
                      NEW t \in Proc \ (busy'[b].waiting \cup {busy'[b].proc})
               PROVE  Yielded(t, b, req[busy[b].proc][b])'
    BY Zenon DEF AnswersStand
  <2>1. b # a /\ busy'[b] = busy[b]
    BY Zenon, <1>11 DEF receiveNack, TypeOK
  <2>2. \A q \in Proc : req'[q][b] = req[q][b]
    BY Zenon, <1>11, <2>1 DEF receiveNack, TypeOK
  <2>3. abortFlag[t] => abortFlag'[t]
    <3>1. t # p => abortFlag'[t] = abortFlag[t]
      BY Zenon, <1>11 DEF receiveNack, TypeOK
    <3>2. abortFlag[p] => abortFlag'[p]
      BY Zenon, <1>11 DEF receiveNack, TypeOK
    <3> QED
      BY Zenon, <3>1, <3>2
  <2>4. Yielded(t, b, req[busy[b].proc][b])
    BY Zenon, <1>11, <2>1 DEF AnswersStand, receiveNack, Running
  <2> QED
    BY <1>0, <1>11, <2>1, <2>2, <2>3, <2>4
    DEF Yielded, receiveNack, setVars, Running
<1>12. ASSUME NEW a \in Addr, receiveData(p, a)
       PROVE  AnswersStand'
  <2> SUFFICES ASSUME NEW b \in Addr, busy'[b] # None, busy'[b].eldest = None,
                      NEW t \in Proc \ (busy'[b].waiting \cup {busy'[b].proc})
               PROVE  Yielded(t, b, req[busy[b].proc][b])'
    BY Zenon DEF AnswersStand
  <2>1. b # a /\ busy'[b] = busy[b]
    BY Zenon, <1>12 DEF receiveData, TypeOK
  <2>2. \A q \in Proc : req'[q][b] = req[q][b]
    BY Zenon, <1>12, <2>1 DEF receiveData, TypeOK
  <2>3. /\ b \in readSet'[t] => b \in readSet[t]
        /\ b \in writeSet'[t] => b \in writeSet[t]
    BY Zenon, <1>12, <2>1 DEF receiveData, TypeOK
  <2>4. Yielded(t, b, req[busy[b].proc][b])
    BY Zenon, <1>12, <2>1 DEF AnswersStand, receiveData, Running
  <2> QED
    BY Zenon, <1>0, <1>12, <2>1, <2>2, <2>3, <2>4 DEF Yielded, receiveData, Running
<1>13. ASSUME NEW a \in Addr, xactReplacement(p, a)
       PROVE  AnswersStand'
  <2>1. \A t \in Proc : abortFlag[t] => abortFlag'[t]
    BY Zenon, <1>13 DEF xactReplacement, TypeOK
  <2> QED
    BY Zenon, <1>13, <2>1, StandsKept DEF xactReplacement, setVars, Running
<1> QED
  BY Zenon, <1>1, <1>2, <1>3, <1>4, <1>6, <1>7, <1>8, <1>9, <1>10, <1>11, <1>12,
     <1>13 DEF Step

-----------------------------------------------------------------------------
(* The log                                                                 *)

\* Only a step without lazy versioning starts to unroll a log.
LEMMA LogOnlyStep ==
  ASSUME TypeOK, LogOnly, NEW p \in Proc, Step(p)
  PROVE  LogOnly'
<1> SUFFICES ASSUME NEW q \in Proc, unrolling'[q]
             PROVE  ~lazyVM'
  BY Zenon DEF LogOnly
<1>1. lazyVM' = lazyVM
  BY Zenon DEF Step, beginTransaction, commitTransaction, abortTransaction,
         endLogUnroll, issueRequest, issueNonTransactional, issueRestore,
         serveRequest, answer, receiveNack, receiveData, xactReplacement,
         Running
<1>2. CASE abortTransaction(p)
  BY Zenon, <1>1, <1>2 DEF abortTransaction, TypeOK, LogOnly
<1>3. CASE endLogUnroll(p)
  BY Zenon, <1>1, <1>3 DEF endLogUnroll, TypeOK, LogOnly
<1>4. CASE unrolling' = unrolling
  BY Zenon, <1>1, <1>4 DEF LogOnly
<1> QED
  BY Zenon, <1>2, <1>3, <1>4
  DEF Step, beginTransaction, commitTransaction, issueRequest,
      issueNonTransactional, issueRestore, serveRequest, answer, receiveNack,
      receiveData, xactReplacement, logVars

\* A transaction issues requests only while it may continue; commit waits for
\* its requests and abort ages them.
LEMMA LingeringStep ==
  ASSUME TypeOK, Lingering, NEW p \in Proc, Step(p)
  PROVE  Lingering'
<1> SUFFICES ASSUME NEW q \in Proc, NEW b \in Addr,
                    unrolling'[q] \/ ~inTx'[q], req'[q][b] # None,
                    req'[q][b].trans
             PROVE  req'[q][b].age > 0
  BY Zenon DEF Lingering
<1>1. CASE beginTransaction(p)
  BY Zenon, <1>1 DEF beginTransaction, TypeOK, Lingering, logVars
<1>2. CASE commitTransaction(p)
  BY Zenon, <1>2 DEF commitTransaction, TypeOK, Lingering, logVars
<1>3. CASE abortTransaction(p)
  <2>1. CASE q = p
    <3>1. req'[p][b] = aged(req[p][b])
      BY Zenon, <1>3 DEF abortTransaction, TypeOK
    <3>2. req[p][b] # None
      BY Zenon, <2>1, <3>1 DEF aged
    <3>3. req[p][b] \in Requests
      BY <3>2 DEF TypeOK
    <3> QED
      BY Zenon, <2>1, <3>1, <3>3, AgedFacts
  <2>2. CASE q # p
    BY Zenon, <1>3, <2>2 DEF abortTransaction, TypeOK, Lingering
  <2> QED
    BY Zenon, <2>1, <2>2
<1>4. CASE endLogUnroll(p)
  BY Zenon, <1>4 DEF endLogUnroll, TypeOK, Lingering
<1>5. ASSUME NEW a \in Addr, NEW kind \in Kinds, issueRequest(p, a, kind)
      PROVE  req'[q][b].age > 0
  BY Zenon, <1>5 DEF issueRequest, isDoomed, TypeOK, Lingering, logVars
<1>6. ASSUME NEW a \in Addr, NEW kind \in Kinds,
             issueNonTransactional(p, a, kind)
      PROVE  req'[q][b].age > 0
  BY Zenon, <1>6 DEF issueNonTransactional, TypeOK, Lingering, logVars
<1>7. ASSUME NEW a \in Addr, issueRestore(p, a)
      PROVE  req'[q][b].age > 0
  BY Zenon, <1>7 DEF issueRestore, TypeOK, Lingering, logVars
<1>8. ASSUME NEW a \in Addr, serveRequest(p, a) \/ answer(p, a)
                             \/ xactReplacement(p, a)
      PROVE  req'[q][b].age > 0
  BY Zenon, <1>8 DEF serveRequest, answer, xactReplacement, Lingering, logVars
<1>9. ASSUME NEW a \in Addr, receiveNack(p, a)
      PROVE  req'[q][b].age > 0
  BY Zenon, <1>9 DEF receiveNack, TypeOK, Lingering, logVars
<1>10. ASSUME NEW a \in Addr, receiveData(p, a)
       PROVE  req'[q][b].age > 0
  BY Zenon, <1>10 DEF receiveData, TypeOK, Lingering
<1> QED
  BY Zenon, <1>1, <1>2, <1>3, <1>4, <1>5, <1>6, <1>7, <1>8, <1>9, <1>10 DEF Step

\* Nothing but the end of the unroll disturbs an unroll.
LEMMA UnrollStep ==
  ASSUME TypeOK, Serving, Lingering, UnrollState, NEW p \in Proc, Step(p)
  PROVE  UnrollState'
<1> SUFFICES ASSUME NEW q \in Proc, unrolling'[q]
             PROVE  /\ inTx'[q] /\ ~abortFlag'[q] /\ readSet'[q] = {}
                    /\ writeSet'[q] # {} /\ toRestore'[q] \subseteq writeSet'[q]
  BY Zenon DEF UnrollState
<1>1. CASE beginTransaction(p)
  BY Zenon, <1>1 DEF beginTransaction, TypeOK, UnrollState, setVars, logVars
<1>2. CASE commitTransaction(p)
  BY Zenon, <1>2 DEF commitTransaction, isDoomed, TypeOK, UnrollState, logVars
<1>3. CASE abortTransaction(p)
  <2>1. CASE q = p
    BY Zenon, <1>3, <2>1 DEF abortTransaction, writeSetAfterAbort, TypeOK
  <2>2. CASE q # p
    BY Zenon, <1>3, <2>2 DEF abortTransaction, TypeOK, UnrollState
  <2> QED
    BY Zenon, <2>1, <2>2
<1>4. CASE endLogUnroll(p)
  BY Zenon, <1>4 DEF endLogUnroll, TypeOK, UnrollState
<1>5. ASSUME NEW a \in Addr, NEW kind \in Kinds,
             issueRequest(p, a, kind) \/ issueNonTransactional(p, a, kind)
      PROVE  UnrollState'
  BY Zenon, <1>5 DEF issueRequest, issueNonTransactional, UnrollState, setVars, logVars
<1>6. ASSUME NEW a \in Addr, issueRestore(p, a) \/ serveRequest(p, a)
      PROVE  UnrollState'
  BY Zenon, <1>6 DEF issueRestore, serveRequest, UnrollState, setVars, logVars
<1>7. ASSUME NEW a \in Addr, answer(p, a)
      PROVE  UnrollState'
  <2>1. \A t \in Proc : unrolling[t] => abortFlag'[t] = abortFlag[t]
    <3>1. PICK b : abortFlag' = [abortFlag EXCEPT ![p] =
                     abortFlag[p] \/ (b /\ ~unrolling[p])]
      BY Zenon, <1>7 DEF answer
    <3>2. abortFlag \in [Proc -> BOOLEAN]
      BY Zenon DEF TypeOK
    <3> QED
      BY Zenon, <3>1, <3>2
  <2> QED
    BY Zenon, <1>7, <2>1 DEF answer, UnrollState, setVars, logVars
<1>8. ASSUME NEW a \in Addr, receiveNack(p, a)
      PROVE  UnrollState'
  <2>1. \A t \in Proc : unrolling[t] => abortFlag'[t] = abortFlag[t]
    BY Zenon, <1>8 DEF receiveNack, TypeOK
  <2> QED
    BY Zenon, <1>8, <2>1 DEF receiveNack, UnrollState, setVars, logVars
<1>9. ASSUME NEW a \in Addr, receiveData(p, a)
      PROVE  UnrollState'
  <2>1. \A t \in Proc : toRestore'[t] \subseteq toRestore[t]
    BY Zenon, <1>9 DEF receiveData, TypeOK
  <2>2. \A t \in Proc : t # p =>
          readSet'[t] = readSet[t] /\ writeSet'[t] = writeSet[t]
    BY Zenon, <1>9 DEF receiveData, TypeOK
  <2>3. req[p][a] # None
    BY Zenon, <1>9 DEF receiveData, Answered, Serving
  <2>4. unrolling[p] => readSet' = readSet /\ writeSet' = writeSet
    BY <1>9, <2>3 DEF receiveData, Lingering
  <2> QED
    BY Zenon, <1>9, <2>1, <2>2, <2>4 DEF receiveData, UnrollState
<1>10. ASSUME NEW a \in Addr, xactReplacement(p, a)
       PROVE  UnrollState'
  <2>1. \A t \in Proc : unrolling[t] => abortFlag'[t] = abortFlag[t]
    BY Zenon, <1>10 DEF xactReplacement, TypeOK
  <2> QED
    BY Zenon, <1>10, <2>1 DEF xactReplacement, UnrollState, setVars, logVars
<1> QED
  BY Zenon, <1>1, <1>2, <1>3, <1>4, <1>5, <1>6, <1>7, <1>8, <1>9, <1>10
  DEF Step, UnrollState

\* A core stores outside its transaction only to restore blocks of its log.
LEMMA RestoringStep ==
  ASSUME TypeOK, Restoring, NEW p \in Proc, Step(p)
  PROVE  Restoring'
<1> DEFINE Others == \A q \in Proc : q # p =>
             /\ unrolling'[q] = unrolling[q] /\ toRestore'[q] = toRestore[q]
             /\ inTx'[q] = inTx[q] /\ req'[q] = req[q]
           Own == /\ ~unrolling'[p] => toRestore'[p] = {}
                  /\ \A b \in Addr :
                       inTx'[p] /\ req'[p][b] # None /\ ~req'[p][b].trans
                         => b \in toRestore'[p]
<1> SUFFICES Others /\ Own
  BY DEF Restoring
<1> USE DEF Restoring, TypeOK, logVars
<1>1. CASE beginTransaction(p)
  BY Zenon, <1>1 DEF beginTransaction
<1>2. CASE commitTransaction(p)
  BY Zenon, <1>2 DEF commitTransaction
<1>3. CASE abortTransaction(p)
  <2>1. Others
    BY Zenon, <1>3 DEF abortTransaction
  <2>2. ~unrolling'[p] => toRestore'[p] = {}
    BY Zenon, <1>3 DEF abortTransaction, writeSetAfterAbort
  <2>3. ASSUME NEW b \in Addr, req'[p][b] # None, ~req'[p][b].trans
        PROVE  FALSE
    <3>1. req'[p][b] = aged(req[p][b])
      BY Zenon, <1>3 DEF abortTransaction
    <3>2. req[p][b] # None
      BY Zenon, <2>3, <3>1 DEF aged
    <3>3. req[p][b] \in Requests
      BY <3>2
    <3>4. ~req[p][b].trans
      BY Zenon, <2>3, <3>1, <3>3, AgedFacts
    <3>5. inTx[p] /\ toRestore[p] = {}
      BY Zenon, <1>3 DEF abortTransaction
    <3> QED
      BY Zenon, <3>2, <3>4, <3>5
  <2> QED
    BY Zenon, <2>1, <2>2, <2>3
<1>4. CASE endLogUnroll(p)
  BY Zenon, <1>4 DEF endLogUnroll
<1>5. ASSUME NEW a \in Addr, NEW kind \in Kinds, issueRequest(p, a, kind)
      PROVE  Others /\ Own
  <2>1. /\ Others /\ req'[p][a].trans
        /\ \A b \in Addr : b # a => req'[p][b] = req[p][b]
    BY Zenon, <1>5 DEF issueRequest
  <2> QED
    BY Zenon, <1>5, <2>1 DEF issueRequest
<1>6. ASSUME NEW a \in Addr, NEW kind \in Kinds,
             issueNonTransactional(p, a, kind)
      PROVE  Others /\ Own
  BY Zenon, <1>6 DEF issueNonTransactional
<1>7. ASSUME NEW a \in Addr, issueRestore(p, a)
      PROVE  Others /\ Own
  <2>1. Others /\ \A b \in Addr : b # a => req'[p][b] = req[p][b]
    BY Zenon, <1>7 DEF issueRestore
  <2> QED
    BY Zenon, <1>7, <2>1 DEF issueRestore
<1>8. ASSUME NEW a \in Addr, serveRequest(p, a) \/ answer(p, a)
                             \/ xactReplacement(p, a)
      PROVE  Others /\ Own
  <2>1. UNCHANGED <<unrolling, toRestore, inTx, req>>
    BY Zenon, <1>8 DEF serveRequest, answer, xactReplacement
  <2> QED
    BY Zenon, <2>1
<1>9. ASSUME NEW a \in Addr, receiveNack(p, a)
      PROVE  Others /\ Own
  <2>1. Others /\ \A b \in Addr : req'[p][b] \in {None, req[p][b]}
    BY Zenon, <1>9 DEF receiveNack
  <2> QED
    BY Zenon, <1>9, <2>1 DEF receiveNack
<1>10. ASSUME NEW a \in Addr, receiveData(p, a)
       PROVE  Others /\ Own
  <2>1. /\ Others /\ req'[p][a] = None
        /\ \A b \in Addr : b # a => req'[p][b] = req[p][b]
    BY Zenon, <1>10 DEF receiveData
  <2>2. toRestore'[p] \in {toRestore[p], toRestore[p] \ {a}}
    BY Zenon, <1>10 DEF receiveData
  <2>3. unrolling' = unrolling /\ inTx' = inTx
    BY Zenon, <1>10 DEF receiveData
  <2>4. ~unrolling'[p] => toRestore'[p] = {}
    BY Zenon, <2>2, <2>3
  <2>5. ASSUME NEW b \in Addr, inTx'[p], req'[p][b] # None, ~req'[p][b].trans
        PROVE  b \in toRestore'[p]
    <3>1. b # a /\ b \in toRestore[p]
      BY Zenon, <2>1, <2>3, <2>5
    <3> QED
      BY Zenon, <2>2, <3>1
  <2> QED
    BY Zenon, <2>1, <2>4, <2>5
<1> QED
  BY Zenon, <1>1, <1>2, <1>3, <1>4, <1>5, <1>6, <1>7, <1>8, <1>9, <1>10 DEF Step

\* With the log, data that are stored to reach a core when no other has the
\* block in its write set.
LEMMA DisjointStep ==
  ASSUME TypeOK, AnswersStand, LogDisjoint, NEW p \in Proc, Step(p)
  PROVE  LogDisjoint'
<1>1. CASE \A t \in Proc : writeSet'[t] \subseteq writeSet[t]
  <2>1. lazyVM' = lazyVM
    BY Zenon
    DEF Step, beginTransaction, commitTransaction, abortTransaction,
        endLogUnroll, issueRequest, issueNonTransactional, issueRestore,
        serveRequest, answer, receiveNack, receiveData, xactReplacement,
        Running
  <2> QED
    BY Zenon, <1>1, <2>1 DEF LogDisjoint
<1>2. ASSUME NEW a \in Addr, receiveData(p, a)
      PROVE  LogDisjoint'
  <2>1. \A t \in Proc : t # p => Yielded(t, a, req[p][a])
    BY Zenon, <1>2 DEF receiveData, Answered, AnswersStand, Running
  <2>2. \A t \in Proc : t # p => writeSet'[t] = writeSet[t]
    BY Zenon, <1>2 DEF receiveData, TypeOK
  <2>3. writeSet'[p] \subseteq writeSet[p] \cup {a} /\ lazyVM' = lazyVM
    BY Zenon, <1>2 DEF receiveData, TypeOK, Running
  <2>4. ASSUME ~lazyVM, NEW t \in Proc, t # p
        PROVE  writeSet'[p] \cap writeSet'[t] = {}
    <3>1. a \notin writeSet[t] /\ writeSet[p] \cap writeSet[t] = {}
      BY Zenon, <2>1, <2>4 DEF Yielded, LogDisjoint
    <3> QED
      BY Zenon, <2>2, <2>3, <2>4, <3>1
  <2>5. ASSUME ~lazyVM, NEW x \in Proc, NEW y \in Proc, x # y
        PROVE  writeSet'[x] \cap writeSet'[y] = {}
    <3>1. CASE x # p /\ y # p
      BY Zenon, <2>2, <2>5, <3>1 DEF LogDisjoint
    <3>2. CASE x = p
      BY Zenon, <2>4, <2>5, <3>2
    <3>3. CASE y = p
      <4>1. writeSet'[p] \cap writeSet'[x] = {}
        BY Zenon, <2>4, <2>5, <3>3
      <4> QED
        BY Zenon, <3>3, <4>1
    <3> QED
      BY Zenon, <3>1, <3>2, <3>3
  <2> QED
    BY Zenon, <2>3, <2>5 DEF LogDisjoint
<1>3. CASE commitTransaction(p) \/ abortTransaction(p) \/ endLogUnroll(p)
  <2>1. \A t \in Proc : writeSet'[t] \subseteq writeSet[t]
    <3>1. writeSet \in [Proc -> SUBSET Addr]
      BY Zenon DEF TypeOK
    <3>2. \/ writeSet' = [writeSet EXCEPT ![p] = {}]
          \/ writeSet' = [writeSet EXCEPT ![p] = writeSetAfterAbort(p)]
      BY Zenon, <1>3 DEF commitTransaction, abortTransaction, endLogUnroll
    <3> QED
      BY Zenon, <3>1, <3>2 DEF writeSetAfterAbort
  <2> QED
    BY Zenon, <1>1, <2>1
<1>4. CASE UNCHANGED setVars
  BY Zenon, <1>1, <1>4 DEF setVars
<1> QED
  BY Zenon, <1>2, <1>3, <1>4
  DEF Step, beginTransaction, issueRequest, issueNonTransactional,
      issueRestore, serveRequest, answer, receiveNack, xactReplacement

-----------------------------------------------------------------------------
(* Isolation                                                               *)

\* Isolation is kept when sets shrink and flags are raised.
LEMMA IsolationKept ==
  ASSUME TypeOK, WriteIsolation, LogDisjoint, lazyVM' = lazyVM,
         \A t \in Proc :
           /\ readSet'[t] \subseteq readSet[t]
           /\ writeSet'[t] \subseteq writeSet[t]
           /\ \/ abortFlag[t] => abortFlag'[t]
              \/ readSet'[t] = {} /\ (lazyVM => writeSet'[t] = {})
  PROVE  WriteIsolation'
<1>1. ASSUME NEW p \in Proc, NEW q \in Proc, p # q, NEW a \in writeSet'[p],
             a \in readSet'[q] \cup writeSet'[q]
      PROVE  abortFlag'[q] \/ (lazyVM' /\ abortFlag'[p])
  <2>1. abortFlag[q] \/ (lazyVM /\ abortFlag[p])
    BY Zenon, <1>1 DEF WriteIsolation
  <2>2. CASE lazyVM
    BY Zenon, <1>1, <2>1, <2>2
  <2>3. CASE ~lazyVM
    BY Zenon, <1>1, <2>1, <2>3 DEF LogDisjoint
  <2> QED
    BY Zenon, <2>2, <2>3
<1> QED
  BY Zenon, <1>1 DEF WriteIsolation

\* Every step of the base policy keeps isolation: data reach a core when every
\* other has yielded the block.
LEMMA IsolationStep ==
  ASSUME policy = "requester_stalls_cda_base", TypeOK, AnswersStand,
         LogDisjoint, WriteIsolation, NEW p \in Proc, Step(p)
  PROVE  WriteIsolation'
<1>1. CASE beginTransaction(p)
  BY Zenon, <1>1, IsolationKept DEF beginTransaction, setVars, Running
<1>2. CASE commitTransaction(p)
  <2>1. \A t \in Proc : readSet'[t] \subseteq readSet[t]
                        /\ writeSet'[t] \subseteq writeSet[t]
    BY Zenon, <1>2 DEF commitTransaction, TypeOK
  <2> QED
    BY Zenon, <1>2, <2>1, IsolationKept DEF commitTransaction, Running
<1>3. CASE abortTransaction(p)
  <2>1. \A t \in Proc : readSet'[t] \subseteq readSet[t]
                        /\ writeSet'[t] \subseteq writeSet[t]
    BY Zenon, <1>3 DEF abortTransaction, writeSetAfterAbort, TypeOK
  <2>2. readSet'[p] = {} /\ (lazyVM => writeSet'[p] = {})
    BY Zenon, <1>3 DEF abortTransaction, writeSetAfterAbort, TypeOK
  <2>3. \A t \in Proc : t # p => abortFlag'[t] = abortFlag[t]
    BY Zenon, <1>3 DEF abortTransaction, TypeOK
  <2> QED
    BY Zenon, <1>3, <2>1, <2>2, <2>3, IsolationKept DEF abortTransaction, Running
<1>4. CASE endLogUnroll(p)
  <2>1. \A t \in Proc : writeSet'[t] \subseteq writeSet[t]
    BY Zenon, <1>4 DEF endLogUnroll, TypeOK
  <2> QED
    BY Zenon, <1>4, <2>1, IsolationKept DEF endLogUnroll, Running
<1>5. ASSUME NEW a \in Addr, NEW kind \in Kinds,
             issueRequest(p, a, kind) \/ issueNonTransactional(p, a, kind)
      PROVE  WriteIsolation'
  BY Zenon, <1>5, IsolationKept
  DEF issueRequest, issueNonTransactional, setVars, Running
<1>6. ASSUME NEW a \in Addr, issueRestore(p, a) \/ serveRequest(p, a)
      PROVE  WriteIsolation'
  BY Zenon, <1>6, IsolationKept DEF issueRestore, serveRequest, setVars, Running
<1>7. ASSUME NEW a \in Addr, answer(p, a) \/ receiveNack(p, a)
                             \/ xactReplacement(p, a)
      PROVE  WriteIsolation'
  <2>1. \A t \in Proc : abortFlag[t] => abortFlag'[t]
    BY Zenon, <1>7 DEF answer, receiveNack, xactReplacement, TypeOK
  <2> QED
    BY Zenon, <1>7, <2>1, IsolationKept
    DEF answer, receiveNack, xactReplacement, setVars, Running
<1>8. ASSUME NEW a \in Addr, receiveData(p, a)
      PROVE  WriteIsolation'
  <2> DEFINE r == req[p][a]
  <2>1. \A t \in Proc : t # p => Yielded(t, a, r)
    BY Zenon, <1>8 DEF receiveData, Answered, AnswersStand, Running
  <2>2. lazyVM' = lazyVM /\ abortFlag' = abortFlag
    BY Zenon, <1>8 DEF receiveData, Running
  <2>3. \A t \in Proc : t # p =>
          readSet'[t] = readSet[t] /\ writeSet'[t] = writeSet[t]
    BY Zenon, <1>8 DEF receiveData, TypeOK
  <2>4. /\ readSet'[p] \subseteq readSet[p] \cup {a}
        /\ writeSet'[p] \subseteq writeSet[p] \cup {a}
        /\ a \in writeSet'[p] => a \in writeSet[p] \/ r.kind = "GETX"
    BY Zenon, <1>8 DEF receiveData, TypeOK
  <2> HIDE DEF r
  <2>5. ASSUME NEW x \in Proc, NEW y \in Proc, x # y, NEW b \in writeSet'[x],
               b \in readSet'[y] \cup writeSet'[y]
        PROVE  abortFlag[y] \/ (lazyVM /\ abortFlag[x])
    <3>1. CASE b \in writeSet[x] /\ b \in readSet[y] \cup writeSet[y]
      BY Zenon, <2>5, <3>1 DEF WriteIsolation
    <3>2. CASE b \notin writeSet[x]
      <4>1. x = p /\ b = a /\ r.kind = "GETX"
        BY Zenon, <2>3, <2>4, <2>5, <3>2
      <4> QED
        BY Zenon, <2>1, <2>3, <2>5, <4>1 DEF Yielded
    <3>3. CASE b \in writeSet[x] /\ b \notin readSet[y] \cup writeSet[y]
      <4>1. y = p /\ b = a
        BY Zenon, <2>3, <2>4, <2>5, <3>3
      <4> QED
        BY Zenon, <2>1, <2>5, <3>3, <4>1 DEF Yielded
    <3> QED
      BY Zenon, <3>1, <3>2, <3>3
  <2> QED
    BY Zenon, <2>2, <2>5 DEF WriteIsolation
<1> QED
  BY Zenon, <1>1, <1>2, <1>3, <1>4, <1>5, <1>6, <1>7, <1>8 DEF Step

-----------------------------------------------------------------------------
(* Theorems                                                                *)

\* The inductive invariant holds initially.
LEMMA InitInv == Init => UInv /\ WriteIsolation
<1> SUFFICES ASSUME Init PROVE UInv /\ WriteIsolation
  OBVIOUS
<1>1. TypeOK
  <2>1. clock \in 1..MaxTime /\ attempts \in [Proc -> 0..MaxAttempts]
        /\ timestamp \in [Proc -> 0..MaxTime]
    BY BoundAssumption DEF Init
  <2>2. /\ inTx \in [Proc -> BOOLEAN] /\ abortFlag \in [Proc -> BOOLEAN]
        /\ unrolling \in [Proc -> BOOLEAN]
        /\ lockTimestamp \in [Proc -> BOOLEAN]
        /\ possibleCycle \in [Proc -> BOOLEAN]
    BY Zenon DEF Init
  <2>3. req \in [Proc -> [Addr -> {None} \cup Requests]]
    BY Zenon DEF Init
  <2> QED
    BY Zenon, <2>1, <2>2, <2>3 DEF Init, TypeOK
<1>2. Serving /\ AnswersStand /\ Lingering /\ LogOnly /\ UnrollState
  BY Zenon DEF Init, Serving, AnswersStand, Lingering, LogOnly, UnrollState
<1>3. Restoring
  BY Zenon DEF Init, Restoring
<1>4. LogDisjoint /\ WriteIsolation
  BY Zenon DEF Init, LogDisjoint, WriteIsolation
<1> QED
  BY Zenon, <1>1, <1>2, <1>3, <1>4 DEF UInv

\* The invariant of both policies is inductive ...
LEMMA StepUInv == UInv /\ [Next]_vars => UInv'
<1> SUFFICES ASSUME UInv, [Next]_vars PROVE UInv'
  OBVIOUS
<1>1. CASE Next
  <2>1. PICK p \in Proc : Step(p)
    BY Zenon, <1>1 DEF Next
  <2>2. TypeOK' /\ Serving' /\ Lingering' /\ UnrollState' /\ LogOnly'
    BY Zenon, <2>1, TypeStep, ServingStep, LingeringStep, UnrollStep, LogOnlyStep
    DEF UInv
  <2>3. AnswersStand' /\ LogDisjoint' /\ Restoring'
    BY Zenon, <2>1, AnswersStandStep, DisjointStep, RestoringStep DEF UInv
  <2> QED
    BY Zenon, <2>2, <2>3 DEF UInv
<1>2. CASE UNCHANGED vars
  <2> USE <1>2 DEF vars, tsVars, logVars, setVars, UInv
  <2>1. TypeOK'
    BY Zenon DEF TypeOK
  <2>2. Serving' /\ Lingering' /\ UnrollState' /\ LogOnly'
    BY Zenon DEF Serving, Lingering, UnrollState, LogOnly
  <2>3. AnswersStand' /\ LogDisjoint' /\ Restoring'
    BY Zenon DEF AnswersStand, Yielded, LogDisjoint, Restoring
  <2> QED
    BY Zenon, <2>1, <2>2, <2>3
<1> QED
  BY Zenon, <1>1, <1>2

\* ... and so an invariant.
LEMMA UnrollInvariance == Spec => []UInv
<1>1. Init => UInv
  BY Zenon, InitInv
<1> QED
  BY <1>1, StepUInv, PTL DEF Spec

\* Under both policies and both versionings the state of the controllers, of
\* the timestamps and of the log keeps its type.
THEOREM StallTypes == Spec => []TypeOK
<1>1. UInv => TypeOK
  BY Zenon DEF UInv
<1> QED
  BY <1>1, UnrollInvariance, PTL

\* Under both policies and both versionings: a transaction that unrolls its
\* log has released its read set, keeps its write set and its place in the
\* transaction, and is not asked to abort again (abortTransaction,
\* endLogUnroll, setAbortFlag).
THEOREM UnrollIsUndisturbed == Spec => []UnrollState
<1>1. UInv => UnrollState
  BY Zenon DEF UInv
<1> QED
  BY <1>1, UnrollInvariance, PTL

\* The inductive invariant of the base policy.
LEMMA IsolationInvariance ==
  ASSUME policy = "requester_stalls_cda_base"
  PROVE  Spec => []SInv
<1>1. Init => SInv
  BY Zenon, InitInv DEF UInv, SInv
<1>2. UInv /\ SInv /\ [Next]_vars /\ UInv' => SInv'
  <2> SUFFICES ASSUME SInv, [Next]_vars, UInv' PROVE WriteIsolation'
    BY Zenon DEF UInv, SInv
  <2>1. CASE Next
    BY Zenon, <2>1, IsolationStep DEF Next, SInv
  <2>2. CASE UNCHANGED vars
    BY Zenon, <2>2 DEF vars, setVars, SInv, WriteIsolation
  <2> QED
    BY Zenon, <2>1, <2>2
<1> QED
  BY <1>1, <1>2, UnrollInvariance, PTL DEF Spec

\* Under the base policy a written block is in the sets of no other
\* transaction that may still commit, with lazy versioning and with the log,
\* for any number of cores and blocks (shouldNackRemoteRequest,
\* shouldNackStore, releaseReadIsolation).
THEOREM StallingIsolates ==
  ASSUME policy = "requester_stalls_cda_base"
  PROVE  Spec => []WriteIsolation
<1>1. SInv => WriteIsolation
  BY Zenon DEF SInv
<1> QED
  BY <1>1, IsolationInvariance, PTL

-----------------------------------------------------------------------------
(* The assertions                                                          *)

\* An answer on which an assertion fails is one of the known ones.
LEMMA FailedAnswer ==
  ASSUME UInv, NEW t \in Proc, NEW a \in Addr, answer(t, a), assertFailed'
  PROVE  FailsFor(t, a, busy[a].proc, req[busy[a].proc][a])
<1> DEFINE p == busy[a].proc
           q == req[p][a]
<1>1. PICK r \in seenAs(t, a, q) :
        assertFailed' \in IF failsAtL1(t, a, q) THEN {TRUE}
                          ELSE assertionsOf(t, a, p, r)
  <2>1. TypeOK
    BY Zenon DEF UInv
  <2> QED
    BY Zenon, <2>1, AnsweredAs
<1>2. /\ p \in Proc /\ p # t /\ q \in Requests
  <2>1. busy[a] # None /\ t \in busy[a].waiting
    BY Zenon DEF answer
  <2>2. p \in Proc
    BY Zenon, <2>1 DEF UInv, TypeOK
  <2>3. q # None /\ p # t
    BY Zenon, <2>1 DEF UInv, Serving
  <2>4. \A o \in Proc : req[o][a] \in {None} \cup Requests
    BY DEF UInv, TypeOK
  <2> QED
    BY Zenon, <2>2, <2>3, <2>4
<1>3. q # None /\ (r.kind = "GETS" \/ r.kind = "GETX") /\ r.trans \in BOOLEAN
  BY <1>2, SeenFacts, NoneAssumption
<1>s. /\ r.trans = q.trans /\ r.ts = q.ts
      /\ r.kind = "GETX" => q.kind = "GETX" \/ ~l0_downgrade_on_l1_gets
      /\ r.kind = "GETS" =>
           q.kind = "GETS" /\ (isWriter(t, a) => l0_downgrade_on_l1_gets)
  BY <1>2, SeenFacts
<1>4. ASSUME inTx[p], ~q.trans
      PROVE  ~lazyVM => a \notin writeSet[t]
  <2>1. a \in toRestore[p]
    BY Zenon, <1>2, <1>3, <1>4 DEF UInv, Restoring
  <2>2. unrolling[p]
    BY Zenon, <1>2, <2>1 DEF UInv, Restoring
  <2>3. a \in writeSet[p]
    BY Zenon, <1>2, <2>1, <2>2 DEF UInv, UnrollState
  <2> QED
    BY Zenon, <1>2, <2>3 DEF UInv, LogDisjoint
<1> HIDE DEF p, q
<1>l. CASE failsAtL1(t, a, q)
  BY Zenon, <1>l DEF failsAtL1, FailsFor, p, q
<1> SUFFICES ASSUME ~failsAtL1(t, a, q)
             PROVE  FailsFor(t, a, p, q)
  BY Zenon, <1>l DEF p, q
<1>a. assertFailed' \in assertionsOf(t, a, p, r)
  BY Zenon, <1>1
<1>5. CASE callsSetAbortFlag(t, a, r) /\ unrolling[t]
  <2>1. ~r.trans /\ r.kind = "GETX" /\ ~lazyVM /\ isWriter(t, a)
    BY Zenon, <1>5 DEF callsSetAbortFlag, isDoomed
  <2>2. ~inTx[p]
    BY Zenon, <1>4, <1>s, <2>1 DEF isWriter
  <2> QED
    BY Zenon, <1>5, <1>s, <2>1, <2>2 DEF FailsFor, isDoomed
<1>6. CASE ~(callsSetAbortFlag(t, a, r) /\ unrolling[t])
  <2>1. ~shouldNack(t, a, p, r) /\ existConflict(t, a, r)
    <3>1. CASE shouldNack(t, a, p, r) \/ ~existConflict(t, a, r)
      <4>1. assertionsOf(t, a, p, r) = {FALSE}
        BY Zenon, <1>6, <3>1 DEF assertionsOf
      <4> QED
        BY Zenon, <1>a, <4>1
    <3> QED
      BY Zenon, <3>1
  <2>2. CASE isWriter(t, a)
    <3>1. assertionsOf(t, a, p, r) = {~lazyVM}
      BY Zenon, <1>6, <2>1, <2>2 DEF assertionsOf
    <3>2. ~lazyVM
      BY Zenon, <1>a, <3>1
    <3>3. r.kind = "GETS" /\ isDoomed(t)
      BY Zenon, <1>3, <2>1, <2>2, <3>2
      DEF shouldNack, shouldNackRemoteRequest, shouldNackStore
    <3> QED
      BY Zenon, <1>s, <2>2, <3>2, <3>3 DEF FailsFor
  <2>3. CASE ~isWriter(t, a)
    <3>1. ~isDoomed(t) /\ ~callsSetAbortFlag(t, a, r)
      <4>1. CASE isDoomed(t) \/ callsSetAbortFlag(t, a, r)
        <5>1. assertionsOf(t, a, p, r) = {FALSE}
          BY Zenon, <1>6, <2>1, <2>3, <4>1 DEF assertionsOf
        <5> QED
          BY Zenon, <1>a, <5>1
      <4> QED
        BY Zenon, <4>1
    <3>2. r.kind = "GETX" /\ a \in readSet[t] \ writeSet[t] /\ r.trans
      BY Zenon, <2>1, <2>3, <3>1
      DEF existConflict, callsSetAbortFlag, isWriter
    <3>3. r.kind # "GETS"
      BY Zenon, <3>2
    <3>4. /\ policy = "requester_stalls_cda_hybrid"
          /\ isRemoteOlder(t, r.ts, p)
      BY Zenon, <2>1, <2>3, <3>2, <3>3 DEF shouldNack, shouldNackStore
    <3> QED
      BY Zenon, <1>s, <3>1, <3>2, <3>4 DEF FailsFor
  <2> QED
    BY Zenon, <2>2, <2>3
<1> QED
  BY Zenon, <1>5, <1>6

\* Only an answer makes one fail.
LEMMA OnlyAnswersFail ==
  ASSUME NEW p \in Proc, Step(p), assertFailed', ~assertFailed
  PROVE  \E a \in Addr : answer(p, a)
<1> SUFFICES ASSUME \A a \in Addr : ~answer(p, a)
             PROVE  FALSE
  BY Zenon
<1>1. Running
  BY Zenon
  DEF Step, beginTransaction, commitTransaction, abortTransaction,
      endLogUnroll, issueRequest, issueNonTransactional, issueRestore,
      serveRequest, receiveNack, receiveData, xactReplacement
<1> QED
  BY Zenon, <1>1 DEF Running

\* Under both policies, both versionings and every setting of the caches an
\* assertion fails in four situations only: a live writer nacks a load in a
\* system whose L1 asks first; with the log, a load that downgrades the L0
\* reaches a writer that is to abort or unrolls its log, or an access from
\* outside a transaction reaches a writer that unrolls its log; under the
\* hybrid policy an elder's access passes a reader (the L1's forwarded GETS,
\* shouldNackRemoteRequest, shouldNackStore, setAbortFlag).
THEOREM KnownAssertionFailures == Spec => AssertionFailures
<1>1. UInv /\ [Next]_vars =>
      [assertFailed' => \/ assertFailed
                        \/ \E t \in Proc, a \in Addr :
                             /\ busy[a] # None /\ t \in busy[a].waiting
                             /\ FailsFor(t, a, busy[a].proc,
                                         req[busy[a].proc][a])]_vars
  <2> SUFFICES ASSUME UInv, [Next]_vars, assertFailed', ~assertFailed
               PROVE  \E t \in Proc, a \in Addr :
                        /\ busy[a] # None /\ t \in busy[a].waiting
                        /\ FailsFor(t, a, busy[a].proc, req[busy[a].proc][a])
    BY Zenon
  <2>1. ~UNCHANGED assertFailed
    BY Zenon
  <2>2. PICK t \in Proc : Step(t)
    BY Zenon, <2>1 DEF vars, Next
  <2>3. PICK a \in Addr : answer(t, a)
    BY Zenon, <2>2, OnlyAnswersFail
  <2> QED
    BY Zenon, <2>3, FailedAnswer DEF answer
<1> QED
  BY <1>1, UnrollInvariance, PTL DEF Spec, AssertionFailures

\* Under the base policy with lazy versioning every assertion holds, provided
\* that read-set blocks may not leave the L1 (the default; otherwise the L1
\* asserts when a live writer nacks a load).
THEOREM LazyStallingAsserts ==
  ASSUME policy = "requester_stalls_cda_base", LazyVM = {TRUE},
         ~allow_read_set_l1_cache_evictions
  PROVE  Spec => []AssertionsHold
<1>1. Init => AssertionsHold
  BY Zenon DEF Init, AssertionsHold
<1>2. UInv /\ AssertionsHold /\ [Next]_vars => AssertionsHold'
  <2> SUFFICES ASSUME UInv, [Next]_vars, assertFailed', ~assertFailed
               PROVE  FALSE
    BY Zenon DEF AssertionsHold
  <2>1. lazyVM
    BY Zenon DEF UInv, TypeOK
  <2>2. policy # "requester_stalls_cda_hybrid"
    BY Zenon
  <2>3. ~UNCHANGED assertFailed
    BY Zenon
  <2>4. PICK t \in Proc : Step(t)
    BY Zenon, <2>3 DEF vars, Next
  <2>5. PICK a \in Addr : answer(t, a)
    BY Zenon, <2>4, OnlyAnswersFail
  <2>6. FailsFor(t, a, busy[a].proc, req[busy[a].proc][a])
    BY Zenon, <2>5, FailedAnswer
  <2> QED
    BY Zenon, <2>1, <2>2, <2>6 DEF FailsFor
<1> QED
  BY <1>1, <1>2, UnrollInvariance, PTL DEF Spec
=============================================================================
