------------------------- MODULE ChatsAtomicProofs -------------------------
(***************************************************************************)
(* Forwarding implements AtomicTM; power, the shape of the chains and the  *)
(* order of the priorities, for every number of cores and blocks, every    *)
(* workload and every configuration.                                       *)
(***************************************************************************)
EXTENDS ChatsProofs

-----------------------------------------------------------------------------
(* Power and priorities                                                    *)

\* At most one transaction has power.  It has consumed nothing, and its
\* requests say so and are not nacked.
PowerInv ==
  /\ \A p, q \in Proc : powered[p] /\ powered[q] => p = q
  /\ \A p \in Proc : powered[p] =>
       isPowerTMPolicy /\ ~isConsumer(p) /\ prio[p] = NC_PRIO_VALUE
  /\ \A p \in Proc, a \in Addr :
       Current(p, a) /\ req[p][a].kind # "none" => req[p][a].sw = powered[p]
  /\ \A a \in Addr : busy[a] # None /\ powered[busy[a].proc]
       /\ Current(busy[a].proc, a) => ~busy[a].nack

\* The transactions of a set of producers are not of the future.
Past(from, u) == \A e \in from : e[2] <= u[e[1]]

\* The priority a nack reports is at most that of every nacker that is live.
Reported(a) ==
  busy[a] # None =>
    /\ NC_PRIO_VALUE <= busy[a].prio /\ Past(busy[a].from, uid)
    /\ busy[a].data # None => busy[a].prio # NC_PRIO_VALUE + 1
    /\ \A t \in Proc : Live(t) /\ <<t, uid[t]>> \in busy[a].from
         => busy[a].prio <= prio[t]

Ranked(p) ==
  /\ NC_PRIO_VALUE <= prio[p]
  /\ isConsumer(p) => prio[p] # NC_PRIO_VALUE
  /\ \A a \in Addr :
       /\ NC_PRIO_VALUE <= req[p][a].prio
       /\ consumed[p][a] # None => Past(consumed[p][a].from, uid)

PrioInv ==
  prioMechanism = "numeric" =>
    /\ \A p \in Proc : Ranked(p)
    /\ \A a \in Addr : Reported(a)

ShapeInv ==
  \A p \in Proc :
    /\ fwdMechanism \in {"W1_D1", "WN_D1"} => ~(isProducer(p) /\ isConsumer(p))
    /\ fwdMechanism \in {"W1_D1", "W1_DN"} /\ ~powered[p]
         => sentTo[p] = {} \/ \E q \in Proc : sentTo[p] = {q}

-----------------------------------------------------------------------------
(* Power, priorities and the shape of the chains                           *)

\* A step that starts or ends no transaction and creates no producer or
\* consumer.
Plain(p) ==
  /\ UNCHANGED <<inTx, uid, powered, prio, sentTo>>
  /\ \A b \in Addr : consumed'[p][b] # None =>
       consumed[p][b] # None /\ consumed'[p][b].from = consumed[p][b].from

\* A step that ends p's transaction.
Ends(p) == ~inTx'[p] /\ UNCHANGED <<uid, req, busy>>

\* The steps by what they do to priorities, producers and consumers.
LEMMA ForwardingStep ==
  ASSUME CInv, NEW p \in Proc, Step(p)
  PROVE  beginTransaction(p) \/ Ends(p) \/ Plain(p)
         \/ \E a \in Addr : answerNack(p, a) \/ notifyForwardedDataFromProducer(p, a)
<1>0. TypeOK /\ Validating(p)
  BY Zenon DEF CInv, CoreInv
<1>1. CASE commitTransaction(p) \/ abortTransaction(p)
  BY Zenon, <1>0, <1>1
  DEF commitTransaction, abortTransaction, resetTransaction, Ends, TypeOK
<1>2. CASE initiateCommitTransaction(p) \/ signalAbort(p)
           \/ validateConsumedData(p)
  BY Zenon, <1>2
  DEF initiateCommitTransaction, signalAbort, validateConsumedData, txVars,
      fwdVars, Plain
<1>3. ASSUME NEW a \in Addr,
             \/ loadHit(p, a) \/ nonTransactionalLoad(p, a)
             \/ \E v \in TxVal : storeHit(p, a, v)
             \/ \E v \in OutsideVal : nonTransactionalStore(p, a, v)
             \/ \E kind \in {"GETS", "GETX"} : issueRequest(p, a, kind)
             \/ xactReplacement(p, a) \/ serveRequest(p, a)
             \/ answerAck(p, a) \/ receiveNack(p, a)
      PROVE  Plain(p)
  BY Zenon, <1>3
  DEF loadHit, nonTransactionalLoad, storeHit, nonTransactionalStore,
      issueRequest, xactReplacement, serveRequest, answerAck, receiveNack,
      txVars, fwdVars, Plain
<1>4. ASSUME NEW a \in Addr, L1_Replacement(p, a)
      PROVE  Plain(p)
  BY Zenon, <1>4 DEF L1_Replacement, txVars, fwdVars, Plain
<1>5. ASSUME NEW a \in Addr, validateNacked(p, a)
      PROVE  Plain(p)
  <2>1. consumed[p][a] \in ConsumedType
    BY <1>0, <1>5
    DEF validateNacked, Usable, Current, Live, Validating, InFlight, TypeOK,
        ConsumedBlocks
  <2>2. \A b \in Addr : consumed'[p][b] # None =>
          consumed[p][b] # None /\ consumed'[p][b].from = consumed[p][b].from
    <3>1. consumed' = countValidation(p, a) /\ consumed[p][a] # None
      BY Zenon, <1>5, <2>1, NoneAssumption DEF validateNacked
    <3> QED
      BY <1>0, <2>1, <3>1, CountRecord
  <2> QED
    BY Zenon, <1>5, <2>2 DEF validateNacked, txVars, Plain
<1>6. ASSUME NEW a \in Addr, receiveData(p, a)
      PROVE  Plain(p)
  BY Zenon, <1>6 DEF receiveData, grant, txVars, Plain
<1>7. ASSUME NEW a \in Addr, validateDataBlock(p, a)
      PROVE  Plain(p)
  <2>1. \A b \in Addr : consumed'[p][b] # None => consumed'[p][b] = consumed[p][b]
    BY Zenon, <1>0, <1>7 DEF validateDataBlock, TypeOK
  <2> QED
    BY Zenon, <1>7, <2>1 DEF validateDataBlock, grant, txVars, Plain
<1> QED
  BY Zenon, <1>1, <1>2, <1>3, <1>4, <1>5, <1>6, <1>7 DEF Step

\* A power transaction's request makes every other transaction yield.
LEMMA PowerYields ==
  ASSUME CInv, PowerInv, NEW t \in Proc, NEW a \in Addr, answerNack(t, a),
         powered[busy[a].proc], Current(busy[a].proc, a)
  PROVE  FALSE
<1> DEFINE p == busy[a].proc
<1>1. /\ p \in Proc /\ p # t /\ req[p][a].kind # "none"
      /\ config \in Configs /\ powered \in [Proc -> BOOLEAN]
  BY Zenon DEF CInv, TypeOK, BusyType, Serving, answerNack
<1>2. RemoteSw(a) = TRUE /\ isPowerTMPolicy /\ powered[t] = FALSE
  BY <1>1 DEF PowerInv, RemoteSw
<1>3. ~chooseWinnerPriority(t, Remote(a), RemoteSw(a))
  <2>1. CASE prioMechanism = "numeric"
    BY Zenon, <1>2, <2>1 DEF chooseWinnerPriority
  <2>2. CASE prioMechanism # "numeric" /\ policy = "requester_loses_power"
    BY Zenon, <1>2, <2>2 DEF chooseWinnerPriority
  <2>3. CASE prioMechanism # "numeric" /\ policy = "requester_wins_power"
    BY Zenon, <1>2, <2>3 DEF chooseWinnerPriority
  <2> QED
    BY Zenon, <1>2, <2>1, <2>2, <2>3 DEF isPowerTMPolicy
<1> QED
  BY Zenon, <1>3 DEF answerNack

\* What a transaction that nacks sends, and what it keeps.
LEMMA SendEffect ==
  ASSUME TypeOK, NEW t \in Proc, NEW a \in Addr, answerNack(t, a)
  PROVE  /\ UNCHANGED <<inTx, uid, powered, consumed, req>>
         /\ \/ UNCHANGED <<prio, sentTo>>
            \/ /\ shouldForwardDataToConsumer(t, busy[a].proc, a, Remote(a))
               /\ prio'[t] = PrioAfterSend(t, Remote(a))
               /\ sentTo'[t] = sentTo[t] \cup {busy[a].proc}
BY Zenon DEF answerNack, addConsumer, TypeOK, txVars

\* Every step preserves what is claimed of power transactions.
LEMMA PowerStep ==
  ASSUME CInv, PowerInv, NEW p \in Proc, Step(p), CInv'
  PROVE  PowerInv'
<1>0. TypeOK /\ Quiet(p) /\ Uids(p) /\ Quiet(p)' /\ OthersKept(p) /\ TypeOK'
      /\ config' = config
  BY Zenon, OthersStep DEF CInv, CoreInv
<1>a. isPowerTMPolicy' = isPowerTMPolicy
  BY Zenon, <1>0 DEF isPowerTMPolicy, policy
<1>b. \A q \in Proc : q # p => isConsumer(q)' = isConsumer(q)
  BY <1>0 DEF OthersKept, isConsumer, ConsumedBlocks
<1>c. beginTransaction(p) => \A b \in Addr : ~Current(p, b)'
  <2> SUFFICES ASSUME beginTransaction(p), NEW b \in Addr
               PROVE  ~Current(p, b)'
    OBVIOUS
  <2>1. uid'[p] = uid[p] + 1 /\ uid[p] \in Nat /\ req[p][b].uid \in Nat
        /\ req[p][b].uid <= uid[p] /\ req' = req
    BY <1>0, BoundAssumption DEF beginTransaction, TypeOK, ReqType, Uids
  <2> QED
    BY <2>1 DEF Current
<1>1. /\ \A q \in Proc : powered'[p] /\ powered'[q] => p = q
      /\ powered'[p] => isPowerTMPolicy /\ ~isConsumer(p)' /\ prio'[p] = NC_PRIO_VALUE
  <2>1. CASE beginTransaction(p)
    <3>1. ~isConsumer(p)' /\ prio'[p] = NC_PRIO_VALUE
      BY Zenon, <1>0, <2>1
      DEF beginTransaction, Quiet, NoBlocks, isConsumer, ConsumedBlocks, fwdVars
    <3>2. powered'[p] => isPowerTMPolicy /\ \A q \in Proc : ~powered[q]
      BY Zenon, <1>0, <2>1 DEF beginTransaction, TypeOK
    <3> QED
      BY Zenon, <1>0, <3>1, <3>2 DEF OthersKept
  <2>2. CASE Ends(p)
    BY Zenon, <1>0, <2>2 DEF Ends, Quiet
  <2>3. CASE Plain(p)
    <3>1. isConsumer(p)' => isConsumer(p)
      BY Zenon, <2>3 DEF Plain, isConsumer, ConsumedBlocks
    <3> QED
      BY Zenon, <2>3, <3>1 DEF Plain, PowerInv
  <2>4. ASSUME NEW a \in Addr, answerNack(p, a)
        PROVE  /\ powered' = powered /\ isConsumer(p)' = isConsumer(p)
               /\ powered[p] => prio'[p] = prio[p]
    BY Zenon, <1>0, <2>4, SendEffect DEF PrioAfterSend, isConsumer, ConsumedBlocks
  <2>5. ASSUME NEW a \in Addr, notifyForwardedDataFromProducer(p, a)
        PROVE  powered' = powered /\ ~powered[p]
    BY Zenon, <2>5
    DEF notifyForwardedDataFromProducer, Answered, Usable, PowerInv, txVars
  <2> QED
    BY Zenon, <2>1, <2>2, <2>3, <2>4, <2>5, ForwardingStep DEF PowerInv
<1>2. ASSUME NEW q \in Proc, NEW b \in Addr, Current(q, b)',
             req'[q][b].kind # "none"
      PROVE  req'[q][b].sw = powered'[q]
  <2>1. CASE q # p
    BY <1>0, <1>2, <2>1 DEF OthersKept, PowerInv, Current
  <2>2. CASE q = p /\ req'[p][b] = req[p][b]
    <3>1. ~beginTransaction(p)
      BY Zenon, <1>2, <1>c, <2>2
    <3>2. UNCHANGED <<inTx, uid, powered>>
      <4>1. ASSUME NEW a \in Addr, notifyForwardedDataFromProducer(p, a)
            PROVE  UNCHANGED <<inTx, uid, powered>>
        BY Zenon, <4>1 DEF notifyForwardedDataFromProducer, txVars
      <4>2. ~Ends(p)
        BY Zenon, <1>2, <2>2 DEF Ends, Current
      <4> QED
        BY Zenon, <1>0, <3>1, <4>1, <4>2, ForwardingStep, SendEffect DEF Plain
    <3> QED
      BY <1>2, <2>2, <3>2 DEF PowerInv, Current
  <2>3. CASE q = p /\ req'[p][b] # req[p][b]
    <3>1. req'[p][b].sw = powered[p] /\ Live(p) /\ UNCHANGED <<inTx, uid>>
      BY <1>2, <2>3, RequestStep DEF NoReq
    <3>2. ~beginTransaction(p)
      BY Zenon, <3>1 DEF beginTransaction, Live
    <3>3. powered' = powered
      <4>1. ASSUME NEW a \in Addr, notifyForwardedDataFromProducer(p, a)
            PROVE  UNCHANGED powered
        BY Zenon, <4>1 DEF notifyForwardedDataFromProducer, txVars
      <4>2. ~Ends(p)
        BY Zenon, <1>2, <2>3 DEF Ends, Current
      <4> QED
        BY Zenon, <1>0, <3>2, <4>1, <4>2, ForwardingStep, SendEffect DEF Plain
    <3> QED
      BY Zenon, <2>3, <3>1, <3>3
  <2> QED
    BY Zenon, <2>1, <2>2, <2>3
<1>3. ASSUME NEW b \in Addr, NEW q \in Proc, busy'[b] # None,
             busy'[b].proc = q, powered'[q], Current(q, b)'
      PROVE  ~busy'[b].nack
  <2>1. CASE busy'[b] = busy[b]
    <3>1. Current(q, b) /\ powered[q]
      <4>1. CASE q # p
        BY Zenon, <1>0, <1>3, <4>1 DEF OthersKept, Current
      <4>2. CASE q = p
        <5>1. ~beginTransaction(p) /\ ~Ends(p)
          BY Zenon, <1>3, <1>c, <4>2 DEF Ends, Current
        <5>2. ASSUME NEW a \in Addr, notifyForwardedDataFromProducer(p, a)
              PROVE  UNCHANGED <<inTx, uid, powered>>
          BY Zenon, <5>2 DEF notifyForwardedDataFromProducer, txVars
        <5>3. UNCHANGED <<inTx, uid, powered>>
          BY Zenon, <1>0, <5>1, <5>2, ForwardingStep, SendEffect DEF Plain
        <5>4. req'[p][b] = req[p][b]
          <6>1. ~complete(p, b)
            BY Zenon, <1>0, <1>3, CompleteEffect
          <6> QED
            BY Zenon, <1>3, <2>1, <4>2, <6>1, RequestStands
        <5> QED
          BY Zenon, <1>3, <4>2, <5>3, <5>4 DEF Current
      <4> QED
        BY Zenon, <4>1, <4>2
    <3> QED
      BY Zenon, <1>3, <2>1, <3>1 DEF PowerInv
  <2>2. CASE complete(p, b)
    BY Zenon, <1>0, <1>3, <2>2, CompleteEffect
  <2>3. CASE serveRequest(p, b)
    BY Zenon, <1>0, <2>3 DEF serveRequest, TypeOK
  <2>4. CASE answerAck(p, b)
    <3>1. busy'[b].nack = busy[b].nack /\ busy[b].proc = q /\ busy[b] # None
      BY Zenon, <1>0, <1>3, <2>4, AckRecord DEF answerAck
    <3>2. UNCHANGED <<inTx, uid, powered, req>>
      BY Zenon, <2>4 DEF answerAck, txVars
    <3> QED
      BY Zenon, <1>3, <3>1, <3>2 DEF PowerInv, Current
  <2>5. CASE answerNack(p, b)
    <3>1. busy[b].proc = q
      BY Zenon, <1>0, <1>3, <2>5, NackEffect
    <3>2. UNCHANGED <<inTx, uid, powered, req>>
      BY Zenon, <2>5 DEF answerNack, txVars
    <3> QED
      BY Zenon, <1>3, <2>5, <3>1, <3>2, PowerYields DEF Current
  <2> QED
    BY Zenon, <1>0, <2>1, <2>2, <2>3, <2>4, <2>5, BusyStep
<1>4. \A q, r \in Proc : powered'[q] /\ powered'[r] => q = r
  BY <1>0, <1>1 DEF OthersKept, PowerInv
<1>5. \A q \in Proc : powered'[q] =>
        isPowerTMPolicy /\ ~isConsumer(q)' /\ prio'[q] = NC_PRIO_VALUE
  BY <1>0, <1>1, <1>b DEF OthersKept, PowerInv
<1>6. \A b \in Addr : (busy[b] # None)' => busy'[b].proc \in Proc
  BY Zenon, <1>0 DEF TypeOK, BusyType
<1> QED
  BY Zenon, <1>2, <1>3, <1>4, <1>5, <1>6, <1>a DEF PowerInv

\* Every step preserves the shape of the chains.
LEMMA ShapeStep ==
  ASSUME CInv, ShapeInv, NEW p \in Proc, Step(p), CInv'
  PROVE  ShapeInv'
<1>0. TypeOK /\ Quiet(p) /\ Quiet(p)' /\ OthersKept(p) /\ config' = config
  BY Zenon, OthersStep DEF CInv, CoreInv
<1> DEFINE OneWay(q) ==
      fwdMechanism \in {"W1_D1", "WN_D1"} => ~(isProducer(q) /\ isConsumer(q))
           OneConsumer(q) ==
      fwdMechanism \in {"W1_D1", "W1_DN"} /\ ~powered[q]
         => sentTo[q] = {} \/ \E r \in Proc : sentTo[q] = {r}
<1>1. \A q \in Proc : q # p => OneWay(q)' /\ OneConsumer(q)'
  BY <1>0
  DEF OthersKept, ShapeInv, fwdMechanism, isProducer, isConsumer, ConsumedBlocks
<1>2. sentTo'[p] = {} => OneWay(p)' /\ OneConsumer(p)'
  BY Zenon DEF isProducer
<1>3. ASSUME beginTransaction(p)
      PROVE  OneWay(p)' /\ OneConsumer(p)'
  BY Zenon, <1>0, <1>2, <1>3 DEF beginTransaction, Quiet, fwdVars
<1>4. ASSUME Plain(p)
      PROVE  OneWay(p)' /\ OneConsumer(p)'
  <2>1. isConsumer(p)' => isConsumer(p)
    BY Zenon, <1>4 DEF Plain, isConsumer, ConsumedBlocks
  <2> QED
    BY Zenon, <1>0, <1>4, <2>1 DEF Plain, ShapeInv, fwdMechanism, isProducer
<1>5. ASSUME NEW a \in Addr, answerNack(p, a)
      PROVE  OneWay(p)' /\ OneConsumer(p)'
  <2>1. isConsumer(p)' = isConsumer(p) /\ powered' = powered
    BY Zenon, <1>0, <1>5, SendEffect DEF isConsumer, ConsumedBlocks
  <2>2. CASE UNCHANGED sentTo
    BY Zenon, <1>0, <2>1, <2>2 DEF ShapeInv, fwdMechanism, isProducer
  <2>3. CASE shouldForwardDataToConsumer(p, busy[a].proc, a, Remote(a))
             /\ sentTo'[p] = sentTo[p] \cup {busy[a].proc}
    <3>1. fwdMechanism \in {"W1_D1", "WN_D1"} => ~isConsumer(p)
      BY Zenon, <2>3 DEF shouldForwardDataToConsumer, canProduce
    <3>2. fwdMechanism \in {"W1_D1", "W1_DN"} /\ ~powered[p]
            => sentTo[p] = {} \/ busy[a].proc \in sentTo[p]
      BY Zenon, <2>3 DEF shouldForwardDataToConsumer, shouldBecomeProducer, isProducer
    <3>3. busy[a].proc \in Proc
      BY Zenon, <1>0, <1>5 DEF answerNack, TypeOK, BusyType
    <3>4. sentTo[p] = {} => sentTo'[p] = {busy[a].proc}
      BY Zenon, <2>3
    <3>5. busy[a].proc \in sentTo[p] => sentTo'[p] = sentTo[p]
      BY Zenon, <2>3
    <3> QED
      BY Zenon, <1>0, <2>1, <3>1, <3>2, <3>3, <3>4, <3>5 DEF ShapeInv, fwdMechanism
  <2> QED
    BY Zenon, <1>0, <1>5, <2>2, <2>3, SendEffect
<1>6. ASSUME NEW a \in Addr, notifyForwardedDataFromProducer(p, a)
      PROVE  OneWay(p)' /\ OneConsumer(p)'
  <2>1. /\ powered' = powered /\ sentTo' = sentTo
        /\ fwdMechanism \in {"W1_D1", "WN_D1"} => ~isProducer(p)
    BY Zenon, <1>6
    DEF notifyForwardedDataFromProducer, Usable, shouldAcceptForwardedData,
        txVars
  <2> QED
    BY Zenon, <1>0, <2>1 DEF ShapeInv, fwdMechanism, isProducer
<1>7. ASSUME Ends(p)
      PROVE  OneWay(p)' /\ OneConsumer(p)'
  BY Zenon, <1>0, <1>2, <1>7 DEF Ends, Quiet
<1>8. OneWay(p)' /\ OneConsumer(p)'
  BY Zenon, <1>3, <1>4, <1>5, <1>6, <1>7, ForwardingStep
<1> QED
  BY Zenon, <1>1, <1>8 DEF ShapeInv

-----------------------------------------------------------------------------
(* The priorities order the chains                                         *)

\* A transaction that has lost does not come back to life.
LEMMA LiveStep ==
  ASSUME CInv, NEW p \in Proc, Step(p), NEW q \in Proc, Live(q)'
  PROVE  \/ q = p /\ beginTransaction(p)
         \/ Live(q) /\ uid'[q] = uid[q]
<1>0. TypeOK /\ OthersKept(p)
  BY Zenon, OthersStep DEF CInv
<1>1. CASE q # p
  BY Zenon, <1>0, <1>1 DEF OthersKept, Live, TypeOK
<1>2. CASE q = p
  <2> USE <1>0, <1>2
  <2>1. CASE commitTransaction(p) \/ abortTransaction(p)
    BY Zenon, <2>1
    DEF commitTransaction, abortTransaction, resetTransaction, TypeOK, Live
  <2>2. CASE validateConsumedData(p) \/ initiateCommitTransaction(p)
             \/ signalAbort(p)
    BY Zenon, <2>2
    DEF validateConsumedData, initiateCommitTransaction, signalAbort, txVars,
        Live
  <2>3. ASSUME NEW a \in Addr,
               \/ loadHit(p, a) \/ \E v \in TxVal : storeHit(p, a, v)
               \/ \E kind \in {"GETS", "GETX"} : issueRequest(p, a, kind)
               \/ serveRequest(p, a) \/ answerNack(p, a) \/ receiveData(p, a)
        PROVE  Live(p) /\ uid'[p] = uid[p]
    BY Zenon, <2>3
    DEF loadHit, storeHit, issueRequest, serveRequest, answerNack, receiveData,
        grant, txVars, Live
  <2>4. ASSUME NEW a \in Addr,
               xactReplacement(p, a) \/ L1_Replacement(p, a) \/ answerAck(p, a)
        PROVE  Live(p) /\ uid'[p] = uid[p]
    BY Zenon, <2>4
    DEF xactReplacement, L1_Replacement, answerAck, txVars, Live, TypeOK
  <2>5. ASSUME NEW a \in Addr,
               receiveNack(p, a) \/ validateDataBlock(p, a)
        PROVE  Live(p) /\ uid'[p] = uid[p]
    BY Zenon, <2>5
    DEF receiveNack, validateDataBlock, grant, txVars, Live, TypeOK
  <2>6. ASSUME NEW a \in Addr,
               notifyForwardedDataFromProducer(p, a) \/ validateNacked(p, a)
        PROVE  Live(p) /\ uid'[p] = uid[p]
    BY Zenon, <2>6
    DEF notifyForwardedDataFromProducer, validateNacked, Usable, Current,
        txVars, Live
  <2>7. ASSUME NEW a \in Addr,
               \/ nonTransactionalLoad(p, a)
               \/ \E v \in OutsideVal : nonTransactionalStore(p, a, v)
        PROVE  FALSE
    BY Zenon, <2>7
    DEF nonTransactionalLoad, nonTransactionalStore, txVars, Live
  <2> QED
    BY Zenon, <2>1, <2>2, <2>3, <2>4, <2>5, <2>6, <2>7 DEF Step
<1> QED
  BY Zenon, <1>1, <1>2

\* "No priority" is below the first priority, with room between them.
LEMMA PriorityValues ==
  /\ NC_PRIO_VALUE \in Int /\ INITIAL_PRIO_VALUE \in Int
  /\ NC_PRIO_VALUE + 1 < INITIAL_PRIO_VALUE
BY SMT DEF NC_PRIO_VALUE, INITIAL_PRIO_VALUE

\* Within a transaction the priority does not fall, and once data has been
\* consumed it stays.
LEMMA PrioGrows ==
  ASSUME CInv, PowerInv, NEW p \in Proc, Step(p), prioMechanism = "numeric",
         cycleSolveStrategy = "abort"
  PROVE  ~beginTransaction(p) /\ inTx'[p] =>
           /\ prio[p] <= prio'[p]
           /\ isConsumer(p) => prio'[p] = prio[p] \/ prio[p] = NC_PRIO_VALUE
<1>0. TypeOK /\ prio[p] \in Int
  BY Zenon DEF CInv, TypeOK
<1>1. ASSUME NEW a \in Addr, answerNack(p, a)
      PROVE  prio[p] <= prio'[p] /\ (isConsumer(p) => prio'[p] = prio[p])
  <2>1. Remote(a) \in Int
    BY <1>0, <1>1 DEF answerNack, TypeOK, BusyType, ReqType, Remote
  <2>2. /\ prio[p] <= PrioAfterSend(p, Remote(a))
        /\ isConsumer(p) => PrioAfterSend(p, Remote(a)) = prio[p]
    BY <1>0, <2>1, PriorityValues DEF PrioAfterSend
  <2> QED
    BY <1>0, <1>1, <2>2, SendEffect
<1>2. ASSUME NEW a \in Addr, notifyForwardedDataFromProducer(p, a)
      PROVE  /\ prio[p] <= prio'[p]
             /\ prio'[p] = prio[p] \/ prio[p] = NC_PRIO_VALUE
  <2>1. busy[a].prio \in Int /\ prio[p] < busy[a].prio
    BY <1>0, <1>2
    DEF notifyForwardedDataFromProducer, Answered, Usable, isIllegalNack,
        TypeOK, BusyType
  <2>2. prio'[p] = PrioAfterReceive(p, busy[a].prio)
    BY Zenon, <1>0, <1>2 DEF notifyForwardedDataFromProducer, TypeOK
  <2> QED
    BY <1>0, <2>1, <2>2 DEF PrioAfterReceive
<1>3. Plain(p) => prio'[p] = prio[p]
  BY Zenon DEF Plain
<1> QED
  BY <1>0, <1>1, <1>2, <1>3, ForwardingStep DEF Ends

\* Transactions are numbered upwards.
LEMMA PastStep ==
  ASSUME CInv, NEW p \in Proc, Step(p), NEW from \in SUBSET (Proc \X Nat),
         Past(from, uid)
  PROVE  Past(from, uid')
<1>0. TypeOK /\ OthersKept(p)
  BY Zenon, OthersStep DEF CInv
<1>1. uid'[p] = uid[p] \/ uid'[p] = uid[p] + 1
  <2>1. beginTransaction(p) => uid'[p] = uid[p] + 1
    BY Zenon, <1>0 DEF beginTransaction, TypeOK
  <2>2. \A a \in Addr : notifyForwardedDataFromProducer(p, a) => uid' = uid
    BY Zenon DEF notifyForwardedDataFromProducer, txVars
  <2> QED
    BY Zenon, <1>0, <2>1, <2>2, ForwardingStep, SendEffect DEF Plain, Ends
<1>2. \A q \in Proc : uid[q] \in Nat /\ uid'[q] \in Nat /\ uid[q] <= uid'[q]
  <2>1. \A q \in Proc : uid[q] \in Nat
    BY <1>0, BoundAssumption DEF TypeOK
  <2>2. \A q \in Proc : q # p => uid'[q] = uid[q]
    BY Zenon, <1>0 DEF OthersKept
  <2> QED
    BY <1>1, <2>1, <2>2
<1>3. ASSUME NEW e \in from
      PROVE  e[2] <= uid'[e[1]]
  <2>1. e[1] \in Proc /\ e[2] \in Nat /\ e[2] <= uid[e[1]]
    BY Zenon DEF Past
  <2> QED
    BY <1>2, <2>1
<1> QED
  BY Zenon, <1>3 DEF Past

\* A consumer has a priority, and what it consumed is of transactions begun.
LEMMA RankedStep ==
  ASSUME CInv, PowerInv, PrioInv, NEW p \in Proc, Step(p), CInv',
         prioMechanism = "numeric", cycleSolveStrategy = "abort",
         NEW q \in Proc
  PROVE  Ranked(q)'
<1>0. TypeOK /\ Quiet(p) /\ Quiet(p)' /\ OthersKept(p) /\ TypeOK'
      /\ Ranked(q) /\ Ranked(p) /\ prio[p] \in Int /\ NC_PRIO_VALUE \in Int
  <2>1. TypeOK /\ Quiet(p) /\ Quiet(p)' /\ TypeOK'
    BY Zenon DEF CInv, CoreInv
  <2>2. Ranked(q) /\ Ranked(p)
    BY Zenon DEF PrioInv
  <2> QED
    BY Zenon, <2>1, <2>2, OthersStep, PriorityValues DEF TypeOK
<1>1. \A b \in Addr : NC_PRIO_VALUE <= req'[p][b].prio
  <2>1. \A b \in Addr : \/ req'[p][b] = req[p][b] \/ req'[p][b] = NoReq
                        \/ req'[p][b].prio = prio[p]
    BY RequestStep
  <2> QED
    BY <1>0, <2>1 DEF Ranked, NoReq
<1>2. \A r \in Proc, b \in Addr :
        consumed[r][b] # None /\ Past(consumed[r][b].from, uid)
          => Past(consumed[r][b].from, uid')
  <2> SUFFICES ASSUME NEW r \in Proc, NEW b \in Addr, consumed[r][b] # None,
                      Past(consumed[r][b].from, uid)
               PROVE  Past(consumed[r][b].from, uid')
    OBVIOUS
  <2>1. consumed[r][b].from \in SUBSET (Proc \X Nat)
    BY <1>0 DEF TypeOK, ConsumedType
  <2> QED
    BY Zenon, <2>1, PastStep
<1>3. CASE q # p
  <2>1. isConsumer(q)' = isConsumer(q)
    BY <1>0, <1>3 DEF OthersKept, isConsumer, ConsumedBlocks
  <2> QED
    BY <1>0, <1>2, <1>3, <2>1 DEF OthersKept, Ranked
<1>4. CASE ~isConsumer(p)' /\ prio'[p] = NC_PRIO_VALUE
  BY <1>0, <1>1, <1>3, <1>4 DEF Ranked, isConsumer, ConsumedBlocks
<1>5. CASE beginTransaction(p) \/ Ends(p)
  BY <1>0, <1>4, <1>5
  DEF beginTransaction, Ends, Quiet, NoBlocks, fwdVars, isConsumer,
      ConsumedBlocks
<1>6. CASE Plain(p)
  <2>1. isConsumer(p)' => isConsumer(p)
    BY Zenon, <1>6 DEF Plain, isConsumer, ConsumedBlocks
  <2> QED
    BY Zenon, <1>0, <1>1, <1>2, <1>3, <1>6, <2>1 DEF Plain, Ranked
<1>7. ASSUME NEW a \in Addr, answerNack(p, a), q = p
      PROVE  Ranked(q)'
  <2>1. /\ isConsumer(p)' = isConsumer(p) /\ consumed' = consumed
        /\ uid' = uid /\ inTx' = inTx /\ inTx[p]
    BY Zenon, <1>0, <1>7, SendEffect
    DEF isConsumer, ConsumedBlocks, answerNack, hasConflict,
        checkWriteSignature, checkReadSignature
  <2>2. /\ prio[p] <= prio'[p] /\ prio'[p] \in Int
        /\ isConsumer(p) => prio'[p] = prio[p]
    BY Zenon, <1>0, <2>1, PrioGrows DEF beginTransaction, Ranked, TypeOK
  <2> QED
    BY <1>0, <1>1, <1>7, <2>1, <2>2 DEF Ranked
<1>8. ASSUME NEW a \in Addr, notifyForwardedDataFromProducer(p, a), q = p
      PROVE  Ranked(q)'
  <2>1. /\ busy[a].prio \in Int /\ prio[p] < busy[a].prio /\ busy[a].data # None
        /\ busy[a] # None /\ busy[a].from \in SUBSET (Proc \X Nat)
    BY <1>0, <1>8
    DEF notifyForwardedDataFromProducer, Answered, Usable, isIllegalNack,
        TypeOK, BusyType
  <2>2. busy[a].prio # NC_PRIO_VALUE + 1 /\ Past(busy[a].from, uid)
    BY Zenon, <2>1 DEF PrioInv, Reported
  <2>3. prio'[p] = IF prio[p] # NC_PRIO_VALUE THEN prio[p] ELSE busy[a].prio - 1
    BY Zenon, <1>0, <1>8
    DEF notifyForwardedDataFromProducer, TypeOK, PrioAfterReceive
  <2>4. NC_PRIO_VALUE <= prio'[p] /\ prio'[p] # NC_PRIO_VALUE
    BY <1>0, <2>1, <2>2, <2>3 DEF Ranked
  <2>5. \A b \in Addr : consumed'[p][b] = consumed[p][b]
                        \/ consumed'[p][b].from = busy[a].from
    <3>1. consumed'[p][a].from = busy[a].from
      BY Zenon, <1>0, <1>8, ForwardedEffect
    <3>2. \A b \in Addr : b # a => consumed'[p][b] = consumed[p][b]
      BY Zenon, <1>0, <1>8, ForwardedEffect
    <3> QED
      BY Zenon, <3>1, <3>2
  <2>6. uid' = uid
    BY Zenon, <1>8 DEF notifyForwardedDataFromProducer, txVars
  <2> QED
    BY Zenon, <1>0, <1>1, <1>8, <2>2, <2>4, <2>5, <2>6 DEF Ranked
<1> QED
  BY Zenon, <1>3, <1>5, <1>6, <1>7, <1>8, ForwardingStep

\* A producer that is live after the step was live before it, with a priority
\* that was not higher.
LEMMA ProducersStand ==
  ASSUME CInv, PowerInv, NEW p \in Proc, Step(p), CInv',
         prioMechanism = "numeric", cycleSolveStrategy = "abort",
         NEW from \in SUBSET (Proc \X Nat), Past(from, uid),
         NEW t \in Proc, Live(t)', <<t, uid'[t]>> \in from
  PROVE  /\ Live(t) /\ <<t, uid[t]>> \in from /\ prio[t] <= prio'[t]
         /\ prio[t] \in Int /\ prio'[t] \in Int
<1>0. TypeOK /\ TypeOK' /\ OthersKept(p)
  BY Zenon, OthersStep DEF CInv
<1>1. ~(t = p /\ beginTransaction(p))
  <2> SUFFICES ASSUME t = p, beginTransaction(p)
               PROVE  FALSE
    OBVIOUS
  <2>1. uid'[p] = uid[p] + 1 /\ uid[p] \in Nat
    BY <1>0, BoundAssumption DEF beginTransaction, TypeOK
  <2>2. <<p, uid'[p]>>[2] <= uid[<<p, uid'[p]>>[1]]
    BY Zenon DEF Past
  <2> QED
    BY <2>1, <2>2
<1>2. Live(t) /\ uid'[t] = uid[t]
  BY Zenon, <1>1, LiveStep
<1>3. prio[t] \in Int /\ prio'[t] \in Int
  BY Zenon, <1>0 DEF TypeOK
<1>4. CASE t = p
  BY Zenon, <1>1, <1>2, <1>3, <1>4, PrioGrows DEF Live
<1>5. CASE t # p
  BY <1>0, <1>2, <1>3, <1>5 DEF OthersKept
<1> QED
  BY Zenon, <1>2, <1>3, <1>4, <1>5

\* What a transaction that may forward sends as its priority.
LEMMA SentPriority ==
  ASSUME CInv, PowerInv, PrioInv, NEW t \in Proc, NEW a \in Addr,
         answerNack(t, a), prioMechanism = "numeric", fwdMechanism # "naive",
         shouldForwardDataToConsumer(t, busy[a].proc, a, Remote(a))
  PROVE  prio'[t] # NC_PRIO_VALUE + 1
<1>0. TypeOK /\ prio[t] \in Int /\ NC_PRIO_VALUE \in Int
  BY Zenon, PriorityValues DEF CInv, TypeOK
<1>1. powered[t] => prio[t] = NC_PRIO_VALUE
  BY Zenon DEF PowerInv
<1>2. prio[t] # NC_PRIO_VALUE + 1
  BY <1>0, <1>1 DEF shouldForwardDataToConsumer, shouldBecomeProducer
<1>3. Remote(a) \in Int /\ NC_PRIO_VALUE <= Remote(a)
  <2>1. busy[a].proc \in Proc
    BY Zenon, <1>0 DEF answerNack, TypeOK, BusyType
  <2> QED
    BY Zenon, <1>0, <2>1 DEF TypeOK, ReqType, Remote, PrioInv, Ranked
<1>4. PrioAfterSend(t, Remote(a)) # NC_PRIO_VALUE + 1
  BY <1>0, <1>2, <1>3, PriorityValues DEF PrioAfterSend
<1> QED
  BY Zenon, <1>0, <1>2, <1>4, SendEffect

\* The priority of a nack stays a lower bound of its senders' (setNack).
LEMMA ReportedStep ==
  ASSUME CInv, PowerInv, PrioInv, NEW p \in Proc, Step(p), CInv',
         prioMechanism = "numeric", cycleSolveStrategy = "abort",
         fwdMechanism # "naive", NEW b \in Addr, busy'[b] # None,
         \A q \in Proc : Ranked(q)'
  PROVE  Reported(b)'
<1>0. TypeOK /\ TypeOK' /\ Reported(b) /\ Serving(b)
  BY Zenon DEF CInv, PrioInv
<1>1. busy[b] # None => /\ busy[b].prio \in Int
                        /\ busy[b].from \in SUBSET (Proc \X Nat)
  BY Zenon, <1>0 DEF TypeOK, BusyType
<1>2. ASSUME busy[b] # None, NEW t \in Proc, Live(t)',
             <<t, uid'[t]>> \in busy[b].from
      PROVE  busy[b].prio <= prio'[t]
  <2>1. Past(busy[b].from, uid)
    BY Zenon, <1>0, <1>2 DEF Reported
  <2>2. /\ Live(t) /\ <<t, uid[t]>> \in busy[b].from /\ prio[t] <= prio'[t]
        /\ prio[t] \in Int /\ prio'[t] \in Int
    BY Zenon, <1>1, <1>2, <2>1, ProducersStand
  <2>3. busy[b].prio <= prio[t]
    BY Zenon, <1>0, <1>2, <2>2 DEF Reported
  <2> QED
    BY <1>1, <1>2, <2>2, <2>3
<1>3. busy[b] # None => Past(busy[b].from, uid')
  BY Zenon, <1>0, <1>1, PastStep DEF Reported
<1>4. CASE /\ busy[b] # None /\ busy'[b].prio = busy[b].prio
           /\ busy'[b].from = busy[b].from /\ busy'[b].data = busy[b].data
  BY Zenon, <1>0, <1>2, <1>3, <1>4 DEF Reported
<1>5. CASE serveRequest(p, b)
  BY <1>0, <1>5, PriorityValues DEF serveRequest, Reported, TypeOK, Past
<1>6. CASE answerNack(p, b)
  <2>1. busy[b] # None /\ Live(p) /\ UNCHANGED uid
    BY Zenon, <1>6
    DEF answerNack, hasConflict, checkReadSignature, checkWriteSignature, Live,
        txVars
  <2>2. prio'[p] \in Int /\ NC_PRIO_VALUE <= prio'[p]
    BY Zenon, <1>0 DEF TypeOK, Ranked
  <2>3. /\ busy'[b].prio \in Int /\ busy'[b].prio <= prio'[p]
        /\ NC_PRIO_VALUE <= busy'[b].prio
        /\ busy[b].nack => busy'[b].prio <= busy[b].prio
    BY <1>0, <1>1, <1>6, <2>1, <2>2, NackEffect, PriorityValues DEF Reported
  <2>4. Past(busy'[b].from, uid')
    <3>1. uid[p] \in Nat
      BY <1>0, BoundAssumption DEF TypeOK
    <3>2. busy'[b].from = busy[b].from \cup {<<p, uid[p]>>}
      BY Zenon, <1>0, <1>6, NackEffect
    <3> QED
      BY <1>3, <2>1, <3>1, <3>2 DEF Past
  <2>5. busy'[b].data # None => busy'[b].prio # NC_PRIO_VALUE + 1
    <3> SUFFICES ASSUME busy'[b].data # None
                 PROVE  busy'[b].prio # NC_PRIO_VALUE + 1
      OBVIOUS
    <3>1. prio'[p] # NC_PRIO_VALUE + 1
      BY Zenon, <1>0, <1>6, NackEffect, SentPriority
    <3>2. busy[b].nack => busy[b].prio # NC_PRIO_VALUE + 1
      BY Zenon, <1>0, <1>6, <2>1, NackEffect DEF Reported
    <3> QED
      BY Zenon, <1>0, <1>6, <3>1, <3>2, NackEffect
  <2>6. ASSUME NEW t \in Proc, Live(t)', <<t, uid'[t]>> \in busy'[b].from
        PROVE  busy'[b].prio <= prio'[t]
    <3>1. busy'[b].from = busy[b].from \cup {<<p, uid[p]>>}
      BY Zenon, <1>0, <1>6, NackEffect
    <3>2. CASE t = p
      BY Zenon, <2>3, <3>2
    <3>3. CASE t # p
      <4>1. <<t, uid'[t]>> \in busy[b].from
        BY Zenon, <2>6, <3>1, <3>3
      <4>2. busy[b].nack
        BY Zenon, <1>0, <2>1, <4>1 DEF Serving
      <4>3. busy[b].prio <= prio'[t] /\ prio'[t] \in Int
        BY Zenon, <1>0, <1>2, <2>1, <2>6, <4>1 DEF TypeOK
      <4> QED
        BY <1>1, <2>1, <2>3, <4>2, <4>3
    <3> QED
      BY Zenon, <3>2, <3>3
  <2> QED
    BY Zenon, <2>3, <2>4, <2>5, <2>6 DEF Reported
<1>7. CASE answerAck(p, b)
  BY Zenon, <1>0, <1>4, <1>7, AckRecord DEF answerAck
<1>8. ~complete(p, b)
  BY Zenon, <1>0, CompleteEffect
<1>9. CASE busy'[b] = busy[b]
  BY Zenon, <1>4, <1>9
<1> QED
  BY Zenon, <1>0, <1>5, <1>6, <1>7, <1>8, <1>9, BusyStep

\* A consumer stays below its producers (isIllegalNack, switchHwPrio).
LEMMA OrderStep ==
  ASSUME CInv, PowerInv, PrioInv, PrioOrder, NEW p \in Proc, Step(p), CInv',
         prioMechanism = "numeric", cycleSolveStrategy = "abort",
         NEW q \in Proc, NEW b \in Addr, Live(q)', consumed'[q][b] # None,
         NEW t \in Proc, Live(t)', <<t, uid'[t]>> \in consumed'[q][b].from
  PROVE  prio'[q] < prio'[t]
<1>0. TypeOK /\ TypeOK' /\ OthersKept(p) /\ Ranked(q) /\ Quiet(p)
  BY Zenon, OthersStep DEF CInv, CoreInv, PrioInv
<1>1. prio[q] \in Int /\ prio'[q] \in Int /\ prio[t] \in Int /\ prio'[t] \in Int
  BY Zenon, <1>0 DEF TypeOK
<1>2. ASSUME consumed[q][b] # None, prio'[q] = prio[q],
             consumed'[q][b].from = consumed[q][b].from, Live(q)
      PROVE  prio'[q] < prio'[t]
  <2>1. consumed[q][b].from \in SUBSET (Proc \X Nat)
    BY <1>0, <1>2 DEF TypeOK, ConsumedType
  <2>2. Past(consumed[q][b].from, uid)
    BY Zenon, <1>0, <1>2 DEF Ranked
  <2>3. Live(t) /\ <<t, uid[t]>> \in consumed[q][b].from /\ prio[t] <= prio'[t]
    BY Zenon, <1>2, <2>1, <2>2, ProducersStand
  <2>4. prio[q] < prio[t]
    BY Zenon, <1>2, <2>3 DEF PrioOrder
  <2> QED
    BY <1>1, <1>2, <2>3, <2>4
<1>3. CASE q # p
  BY Zenon, <1>0, <1>2, <1>3, LiveStep DEF OthersKept
<1>4. CASE q = p
  <2>1. ~beginTransaction(p)
    BY <1>0, <1>4
    DEF beginTransaction, Quiet, NoBlocks, fwdVars
  <2>2. Live(p) /\ ~Ends(p)
    BY Zenon, <1>4, <2>1, LiveStep DEF Ends, Live
  <2>3. CASE Plain(p)
    BY Zenon, <1>2, <1>4, <2>2, <2>3 DEF Plain
  <2>4. ASSUME NEW a \in Addr, answerNack(p, a)
        PROVE  prio'[q] < prio'[t]
    <3>1. consumed' = consumed /\ isConsumer(p)
      BY Zenon, <1>0, <1>4, <2>4, SendEffect DEF isConsumer, ConsumedBlocks
    <3>2. prio[p] # NC_PRIO_VALUE /\ prio'[p] = prio[p]
      BY Zenon, <1>0, <1>4, <2>1, <3>1, PrioGrows DEF Ranked, Live
    <3> QED
      BY Zenon, <1>2, <1>4, <2>2, <3>1, <3>2
  <2>5. ASSUME NEW a \in Addr, notifyForwardedDataFromProducer(p, a)
        PROVE  prio'[q] < prio'[t]
    <3>1. CASE a # b
      <4>1. consumed'[p][b] = consumed[p][b]
        BY Zenon, <1>0, <2>5, <3>1, ForwardedEffect
      <4>2. isConsumer(p)
        BY Zenon, <1>4, <4>1 DEF isConsumer, ConsumedBlocks
      <4>3. prio'[p] = prio[p]
        BY Zenon, <1>0, <1>4, <2>1, <4>2, PrioGrows DEF Ranked, Live
      <4> QED
        BY Zenon, <1>2, <1>4, <2>2, <4>1, <4>3
    <3>2. CASE a = b
      <4>1. /\ busy[b].prio \in Int /\ prio[p] < busy[b].prio /\ busy[b] # None
            /\ uid' = uid /\ consumed'[p][b].from = busy[b].from
            /\ prio'[p] = PrioAfterReceive(p, busy[b].prio)
        BY <1>0, <2>5, <3>2
        DEF notifyForwardedDataFromProducer, Answered, Usable, isIllegalNack,
            TypeOK, BusyType, txVars
      <4>2. Live(t) /\ <<t, uid[t]>> \in busy[b].from
        BY Zenon, <1>4, <2>1, <4>1, LiveStep
      <4>3. busy[b].prio <= prio[t]
        BY Zenon, <4>1, <4>2 DEF PrioInv, Reported
      <4>4. t # p
        BY <1>1, <1>4, <4>1, <4>3
      <4>5. prio'[t] = prio[t]
        BY Zenon, <1>0, <4>4 DEF OthersKept
      <4>6. prio'[p] = prio[p] \/ prio'[p] = busy[b].prio - 1
        BY Zenon, <4>1 DEF PrioAfterReceive
      <4> QED
        BY <1>1, <1>4, <4>1, <4>3, <4>5, <4>6
    <3> QED
      BY Zenon, <3>1, <3>2
  <2> QED
    BY Zenon, <2>1, <2>2, <2>3, <2>4, <2>5, ForwardingStep
<1> QED
  BY Zenon, <1>3, <1>4

-----------------------------------------------------------------------------
(* The hardware implements an atomic transactional memory                  *)

\* The abstract transactions that run are those that are live.
LEMMA RunningLive ==
  A!Running = {p \in Proc : Live(p)}
BY Zenon DEF A!Running, txStatus

\* What the transaction of core p has stored.
Stores(p) == [a \in Addr |-> Stored(p, a)]

\* A write set that stands keeps its stores.
LEMMA StoresStand ==
  ASSUME NEW p, writeSet'[p] = writeSet[p]
  PROVE  Stores(p)' = Stores(p)
<1>1. \A a \in Addr : Stored(p, a)' = Stored(p, a)
  BY Zenon DEF Stored
<1> QED
  BY Zenon, <1>1 DEF Stores

\* The mapped stores.
LEMMA MappedWrites ==
  txWrites = [p \in Proc |-> IF Live(p) THEN Stores(p) ELSE NoBlocks]
BY Zenon DEF txWrites, Stores, NoBlocks

\* The mapped state of the cores after a step, one at a time.
LEMMA MappedNext ==
  /\ txStatus' = [p \in Proc |->
       IF Live(p)' THEN "running" ELSE IF inTx'[p] THEN "aborted"
       ELSE IF uid'[p] = 0 THEN "idle"
       ELSE IF lastAbortUid'[p] = uid'[p] THEN "aborted" ELSE "committed"]
  /\ txReads' = [p \in Proc |-> IF Live(p)' THEN readSet'[p] ELSE NoBlocks]
  /\ txWrites' = [p \in Proc |-> IF Live(p)' THEN Stores(p)' ELSE NoBlocks]
BY Zenon DEF txStatus, txReads, txWrites, Stores, NoBlocks

\* The transactions a step makes fail.
DoomedNow == {p \in Proc : Live(p) /\ ~Live(p)'}

\* The mapped status when transactions fail and none begins or ends.
LEMMA DoomedStatus ==
  ASSUME UNCHANGED <<inTx, uid, lastAbortUid>>, \A p \in Proc : Live(p)' => Live(p)
  PROVE  txStatus' = [p \in Proc |-> IF p \in DoomedNow THEN "aborted"
                                    ELSE txStatus[p]]
<1> SUFFICES ASSUME NEW p \in Proc
             PROVE  txStatus'[p] = IF p \in DoomedNow THEN "aborted"
                                   ELSE txStatus[p]
  BY Zenon, MappedNext
<1> QED
  BY Zenon, MappedNext DEF txStatus, DoomedNow, Live

\* The mapped sets when transactions fail and the others go on.
LEMMA DoomedSets ==
  ASSUME \A p \in Proc : Live(p)' => /\ Live(p) /\ readSet'[p] = readSet[p]
                                     /\ Stores(p)' = Stores(p)
  PROVE  /\ txReads' = [p \in Proc |-> IF p \in DoomedNow THEN A!NoValues
                                      ELSE txReads[p]]
         /\ txWrites' = [p \in Proc |-> IF p \in DoomedNow THEN A!NoValues
                                       ELSE txWrites[p]]
BY Zenon, MappedNext, MappedWrites DEF txReads, DoomedNow, A!NoValues, NoBlocks

\* A step that leaves the sets of the transactions it spares alone is an Abort
\* of the others.
LEMMA DoomStep ==
  ASSUME UNCHANGED <<inTx, uid, lastAbortUid, mem>>,
         \A p \in Proc : Live(p)' => /\ Live(p) /\ readSet'[p] = readSet[p]
                                     /\ Stores(p)' = Stores(p)
  PROVE  A!Next
<1>1. DoomedNow \subseteq A!Running /\ DoomedNow \in SUBSET Proc
  BY Zenon, RunningLive DEF DoomedNow
<1>2. A!Abort(DoomedNow)
  BY Zenon, <1>1, DoomedStatus, DoomedSets DEF A!Abort, A!End
<1> QED
  BY Zenon, <1>1, <1>2 DEF A!Next

\* A step that records the value of a load is a Read, unless the transaction
\* has failed.
LEMMA ReadStep ==
  ASSUME TypeOK, UNCHANGED <<inTx, uid, lastAbortUid, mem>>,
         \A q \in Proc : Stores(q)' = Stores(q),
         NEW p \in Proc, NEW a \in Addr, NEW v \in Val,
         Live(p) => readSet[p][a] = None /\ Stores(p)[a] = None,
         readSet' = [readSet EXCEPT ![p][a] = v],
         \A q \in Proc : Live(q)' => Live(q)
  PROVE  A!Next
<1>1. \A q \in Proc : q # p => readSet'[q] = readSet[q]
  BY Zenon DEF TypeOK
<1>2. CASE ~Live(p)'
  BY Zenon, <1>1, <1>2, DoomStep
<1>3. CASE Live(p)'
  <2>1. Live(p) /\ txReads[p] = readSet[p] /\ txWrites[p] = Stores(p)
    BY Zenon, <1>3, MappedWrites DEF txReads
  <2>2. p \in A!Running /\ DoomedNow \subseteq A!Running \ {p}
        /\ DoomedNow \in SUBSET Proc
    BY Zenon, <1>3, <2>1, RunningLive DEF DoomedNow
  <2>3. readSet'[p] = [txReads[p] EXCEPT ![a] = v]
    BY Zenon, <2>1 DEF TypeOK
  <2>4. txReads' = [q \in Proc |-> IF q \in DoomedNow THEN A!NoValues
                     ELSE IF q = p THEN [txReads[p] EXCEPT ![a] = v]
                     ELSE txReads[q]]
    <3>1. ASSUME NEW q \in Proc
          PROVE  (IF Live(q)' THEN readSet'[q] ELSE NoBlocks)
               = IF q \in DoomedNow THEN A!NoValues
                 ELSE IF q = p THEN [txReads[p] EXCEPT ![a] = v]
                 ELSE txReads[q]
      <4>1. CASE q = p
        BY Zenon, <1>3, <2>3, <4>1 DEF DoomedNow
      <4>2. CASE q # p
        BY Zenon, <1>1, <4>2 DEF txReads, DoomedNow, A!NoValues, NoBlocks
      <4> QED
        BY Zenon, <4>1, <4>2
    <3> QED
      BY Zenon, <3>1, MappedNext
  <2>5. txWrites' = [q \in Proc |-> IF q \in DoomedNow THEN A!NoValues
                                   ELSE txWrites[q]]
    BY Zenon, MappedNext, MappedWrites DEF DoomedNow, A!NoValues, NoBlocks
  <2>6. A!Read(p, a, v, DoomedNow)
    BY Zenon, <2>1, <2>2, <2>4, <2>5, DoomedStatus DEF A!Read
  <2> QED
    BY Zenon, <2>2, <2>6 DEF A!Next
<1> QED
  BY Zenon, <1>2, <1>3

\* A step that records a store is a Write, unless the transaction has failed.
LEMMA WriteStep ==
  ASSUME TypeOK, UNCHANGED <<inTx, uid, lastAbortUid, mem, readSet>>,
         NEW p \in Proc, NEW a \in Addr, NEW v \in Val,
         writeSet' = [writeSet EXCEPT ![p][a] = v],
         Live(p)' => Live(p), \A q \in Proc : q # p => (Live(q)' <=> Live(q))
  PROVE  A!Next
<1>1. \A q \in Proc : q # p => Stores(q)' = Stores(q)
  <2>1. \A q \in Proc : q # p => writeSet'[q] = writeSet[q]
    BY Zenon DEF TypeOK
  <2> QED
    BY Zenon, <2>1, StoresStand
<1>2. CASE ~Live(p)'
  BY Zenon, <1>1, <1>2, DoomStep
<1>3. CASE Live(p)'
  <2>1. Live(p) /\ p \in A!Running /\ DoomedNow = {}
    BY Zenon, <1>3, RunningLive DEF DoomedNow
  <2>2. txStatus' = txStatus /\ txReads' = txReads
    <3>1. \A q \in Proc : Live(q)' <=> Live(q)
      BY Zenon, <1>3, <2>1
    <3>2. txStatus' = txStatus
      BY Zenon, <2>1, <3>1, DoomedStatus DEF txStatus
    <3>3. txReads' = txReads
      BY Zenon, <3>1, MappedNext DEF txReads, NoBlocks
    <3> QED
      BY Zenon, <3>2, <3>3
  <2>3. Stores(p)' = [txWrites[p] EXCEPT ![a] = v]
    <3>1. writeSet \in [Proc -> [Addr -> Written]]
      BY Zenon DEF TypeOK
    <3>2. \A b \in Addr : writeSet'[p][b] = IF b = a THEN v ELSE writeSet[p][b]
      BY Zenon, <3>1
    <3>3. v # Loaded
      BY Zenon, ValAssumption
    <3>4. \A b \in Addr : Stored(p, b)' = IF b = a THEN v ELSE Stored(p, b)
      BY Zenon, <3>2, <3>3 DEF Stored
    <3>5. Stores(p)' = [Stores(p) EXCEPT ![a] = v]
      BY Zenon, <3>4 DEF Stores
    <3> QED
      BY Zenon, <2>1, <3>5, MappedWrites
  <2>4. txWrites' = [txWrites EXCEPT ![p][a] = v]
    <3>1. ASSUME NEW q \in Proc
          PROVE  (IF Live(q)' THEN Stores(q)' ELSE NoBlocks)
               = IF q = p THEN [txWrites[p] EXCEPT ![a] = v] ELSE txWrites[q]
      <4>1. CASE q = p
        BY Zenon, <1>3, <2>3, <4>1
      <4>2. CASE q # p
        BY Zenon, <1>1, <4>2, MappedWrites
      <4> QED
        BY Zenon, <4>1, <4>2
    <3>2. txWrites' = [q \in Proc |->
                         IF q = p THEN [txWrites[p] EXCEPT ![a] = v]
                         ELSE txWrites[q]]
      BY Zenon, <3>1, MappedNext
    <3> QED
      BY Zenon, <3>2, MappedWrites
  <2>5. A!Write(p, a, v)
    BY Zenon, <2>1, <2>2, <2>4 DEF A!Write
  <2> QED
    BY Zenon, <2>5 DEF A!Next
<1> QED
  BY Zenon, <1>2, <1>3

\* A transaction begins with empty sets: a Begin.
LEMMA BeginRefines ==
  ASSUME CInv, NEW p \in Proc, beginTransaction(p)
  PROVE  A!Next
<1>0. TypeOK /\ Quiet(p)
  BY Zenon DEF CInv, CoreInv
<1>1. /\ ~inTx[p] /\ inTx' = [inTx EXCEPT ![p] = TRUE] /\ ~abortFlag[p]
      /\ uid' = [uid EXCEPT ![p] = @ + 1] /\ ~Live(p)
      /\ readSet[p] = NoBlocks /\ writeSet[p] = NoBlocks
      /\ UNCHANGED <<lastAbortUid, abortFlag, readSet, writeSet, mem>>
  BY Zenon, <1>0 DEF beginTransaction, Quiet, Live, dirVars
<1>2. \A q \in Proc : Live(q)' <=> q = p \/ Live(q)
  BY Zenon, <1>0, <1>1 DEF Live, TypeOK
<1>3. txStatus' = [txStatus EXCEPT ![p] = "running"]
  <2>1. \A q \in Proc : q # p => inTx'[q] = inTx[q] /\ uid'[q] = uid[q]
    BY Zenon, <1>0, <1>1 DEF TypeOK
  <2>2. ASSUME NEW q \in Proc
        PROVE  txStatus'[q] = IF q = p THEN "running" ELSE txStatus[q]
    BY Zenon, <1>1, <1>2, <2>1, MappedNext DEF txStatus
  <2>3. txStatus' = [q \in Proc |-> txStatus'[q]]
    BY Zenon, MappedNext
  <2> QED
    BY Zenon, <2>2, <2>3 DEF txStatus
<1>4. txReads' = txReads /\ txWrites' = txWrites
  <2>1. \A q \in Proc : Stores(q)' = Stores(q)
    BY Zenon, <1>1, StoresStand
  <2>2. Stores(p) = NoBlocks
    BY Zenon, <1>1 DEF Stores, Stored, NoBlocks
  <2>3. txReads' = txReads
    BY Zenon, <1>1, <1>2, MappedNext DEF txReads, NoBlocks
  <2>4. txWrites' = txWrites
    BY Zenon, <1>2, <2>1, <2>2, MappedNext, MappedWrites
  <2> QED
    BY Zenon, <2>3, <2>4
<1>5. A!Begin(p)
  BY Zenon, <1>1, <1>3, <1>4, RunningLive DEF A!Begin
<1> QED
  BY Zenon, <1>5 DEF A!Next

\* What has been read is committed when the transaction commits, and the
\* stores are published in one step.
LEMMA CommitRefines ==
  ASSUME CInv, NEW p \in Proc, commitTransaction(p)
  PROVE  A!Next
<1>0. TypeOK /\ Uids(p) /\ uid[p] \in Nat /\ lastAbortUid[p] \in Nat
  BY BoundAssumption DEF CInv, CoreInv, TypeOK
<1>1. /\ Live(p) /\ ~isConsumer(p) /\ inTx' = [inTx EXCEPT ![p] = FALSE]
      /\ readSet' = [readSet EXCEPT ![p] = NoBlocks]
      /\ writeSet' = [writeSet EXCEPT ![p] = NoBlocks]
      /\ UNCHANGED <<uid, lastAbortUid, abortFlag>>
  BY Zenon DEF commitTransaction, canCommitTransaction, resetTransaction, Live, NoBlocks
<1>2. \A q \in Proc : Live(q)' <=> q # p /\ Live(q)
  BY Zenon, <1>0, <1>1 DEF Live, TypeOK
<1>3. uid[p] # 0 /\ lastAbortUid[p] # uid[p]
  BY <1>0, <1>1 DEF Uids, Live
<1>4. txStatus' = [q \in Proc |-> IF q \in {p} THEN "committed" ELSE txStatus[q]]
  <2>1. \A q \in Proc : inTx'[q] = IF q = p THEN FALSE ELSE inTx[q]
    BY Zenon, <1>0, <1>1 DEF TypeOK
  <2>2. ASSUME NEW q \in Proc
        PROVE  txStatus'[q] = IF q \in {p} THEN "committed" ELSE txStatus[q]
    BY Zenon, <1>1, <1>2, <1>3, <2>1, MappedNext DEF txStatus
  <2>3. txStatus' = [q \in Proc |-> txStatus'[q]]
    BY Zenon, MappedNext
  <2> QED
    BY Zenon, <2>2, <2>3
<1>5. /\ txReads' = [q \in Proc |-> IF q \in {p} THEN A!NoValues ELSE txReads[q]]
      /\ txWrites' = [q \in Proc |-> IF q \in {p} THEN A!NoValues ELSE txWrites[q]]
  <2>1. \A q \in Proc : q # p => readSet'[q] = readSet[q]
                                 /\ writeSet'[q] = writeSet[q]
    BY Zenon, <1>0, <1>1 DEF TypeOK
  <2>2. \A q \in Proc : q # p => Stores(q)' = Stores(q)
    BY Zenon, <2>1, StoresStand
  <2>3. txReads' = [q \in Proc |-> IF q \in {p} THEN A!NoValues ELSE txReads[q]]
    BY Zenon, <1>2, <2>1, MappedNext DEF txReads, A!NoValues, NoBlocks
  <2>4. txWrites' = [q \in Proc |-> IF q \in {p} THEN A!NoValues ELSE txWrites[q]]
    BY Zenon, <1>2, <2>2, MappedNext, MappedWrites DEF A!NoValues, NoBlocks
  <2> QED
    BY Zenon, <2>3, <2>4
<1>6. \A a \in Addr : txReads[p][a] \in {None, mem[a]}
  <2>1. \A a \in Addr : consumed[p][a] = None
    BY Zenon, <1>1 DEF isConsumer, ConsumedBlocks
  <2> QED
    BY Zenon, <1>1, <2>1 DEF CInv, CoreInv, Isolated, txReads
<1>7. mem' = [a \in Addr |-> IF txWrites[p][a] # None THEN txWrites[p][a]
                            ELSE mem[a]]
  <2>1. \A a \in Addr : txWrites[p][a] = Stored(p, a)
    BY Zenon, <1>1 DEF txWrites
  <2> QED
    BY Zenon, <2>1 DEF commitTransaction
<1>8. A!Commit(p)
  <2>1. p \in A!Running
    BY Zenon, <1>1, RunningLive
  <2> QED
    BY Zenon, <1>4, <1>5, <1>6, <1>7, <2>1 DEF A!Commit, A!End
<1> QED
  BY Zenon, <1>8 DEF A!Next

\* HTM_ABORT ends a transaction that had failed, or aborts it.
LEMMA AbortRefines ==
  ASSUME CInv, NEW p \in Proc, abortTransaction(p)
  PROVE  A!Next
<1> DEFINE S == IF Live(p) THEN {p} ELSE {}
<1>0. TypeOK /\ Uids(p) /\ uid[p] \in Nat /\ lastAbortUid[p] \in Nat
  BY BoundAssumption DEF CInv, CoreInv, TypeOK
<1>1. /\ inTx[p] /\ inTx' = [inTx EXCEPT ![p] = FALSE]
      /\ abortFlag' = [abortFlag EXCEPT ![p] = FALSE]
      /\ lastAbortUid' = [lastAbortUid EXCEPT ![p] = uid[p]]
      /\ readSet' = [readSet EXCEPT ![p] = NoBlocks]
      /\ writeSet' = [writeSet EXCEPT ![p] = NoBlocks]
      /\ UNCHANGED <<uid, mem>>
  BY Zenon DEF abortTransaction, resetTransaction, NoBlocks
<1>2. \A q \in Proc : Live(q)' <=> q # p /\ Live(q)
  BY Zenon, <1>0, <1>1 DEF Live, TypeOK
<1>3. uid[p] # 0
  BY <1>0, <1>1 DEF Uids
<1>4. txStatus' = [q \in Proc |-> IF q \in S THEN "aborted" ELSE txStatus[q]]
  <2>1. \A q \in Proc :
          /\ inTx'[q] = IF q = p THEN FALSE ELSE inTx[q]
          /\ lastAbortUid'[q] = IF q = p THEN uid[p] ELSE lastAbortUid[q]
    BY Zenon, <1>0, <1>1 DEF TypeOK
  <2>2. ASSUME NEW q \in Proc
        PROVE  txStatus'[q] = IF q \in S THEN "aborted" ELSE txStatus[q]
    BY Zenon, <1>1, <1>2, <1>3, <2>1, MappedNext DEF txStatus
  <2>3. txStatus' = [q \in Proc |-> txStatus'[q]]
    BY Zenon, MappedNext
  <2> QED
    BY Zenon, <2>2, <2>3
<1>5. /\ txReads' = [q \in Proc |-> IF q \in S THEN A!NoValues ELSE txReads[q]]
      /\ txWrites' = [q \in Proc |-> IF q \in S THEN A!NoValues ELSE txWrites[q]]
  <2>1. \A q \in Proc : q # p => readSet'[q] = readSet[q]
                                 /\ writeSet'[q] = writeSet[q]
    BY Zenon, <1>0, <1>1 DEF TypeOK
  <2>2. \A q \in Proc : q # p => Stores(q)' = Stores(q)
    BY Zenon, <2>1, StoresStand
  <2>3. txReads' = [q \in Proc |-> IF q \in S THEN A!NoValues ELSE txReads[q]]
    BY Zenon, <1>2, <2>1, MappedNext DEF txReads, A!NoValues, NoBlocks
  <2>4. txWrites' = [q \in Proc |-> IF q \in S THEN A!NoValues ELSE txWrites[q]]
    BY Zenon, <1>2, <2>2, MappedNext, MappedWrites DEF A!NoValues, NoBlocks
  <2> QED
    BY Zenon, <2>3, <2>4
<1>6. A!Abort(S) /\ S \in SUBSET Proc
  <2>1. S \subseteq A!Running
    BY Zenon, RunningLive
  <2> QED
    BY Zenon, <1>1, <1>4, <1>5, <2>1 DEF A!Abort, A!End
<1> QED
  BY Zenon, <1>6 DEF A!Next

\* A store outside transactions fails the transactions that it conflicts with.
LEMMA OutsideRefines ==
  ASSUME CInv, NEW p \in Proc, NEW a \in Addr, NEW v \in OutsideVal,
         nonTransactionalStore(p, a, v)
  PROVE  A!Next
<1>0. TypeOK /\ UNCHANGED <<inTx, uid, lastAbortUid, readSet, writeSet>>
      /\ mem' = [mem EXCEPT ![a] = v]
  BY Zenon DEF CInv, nonTransactionalStore, txVars
<1>1. \A q \in Proc : Live(q)' => Live(q)
  BY Zenon, <1>0 DEF nonTransactionalStore, Live
<1>2. DoomedNow \subseteq A!Running /\ DoomedNow \in SUBSET Proc
  BY Zenon, RunningLive DEF DoomedNow
<1>3. A!StoreOutside(a, v, DoomedNow)
  <2>1. \A q \in Proc : Stores(q)' = Stores(q)
    BY Zenon, <1>0, StoresStand
  <2> QED
    BY Zenon, <1>0, <1>1, <1>2, <2>1, DoomedStatus, DoomedSets
    DEF A!StoreOutside, A!End
<1>4. \E o \in Addr \X OutsideVal : A!StoreOutside(o[1], o[2], DoomedNow)
  <2>1. <<a, v>> \in Addr \X OutsideVal
    OBVIOUS
  <2>2. A!StoreOutside(<<a, v>>[1], <<a, v>>[2], DoomedNow)
    BY Zenon, <1>3
  <2> QED
    BY Zenon, <2>1, <2>2
<1> QED
  BY Zenon, <1>2, <1>4 DEF A!Next

\* The loads and stores: at a hit, with the data of the L2, or with the data of
\* a producer.
LEMMA HitRefines ==
  ASSUME CInv, NEW p \in Proc, NEW a \in Addr,
         loadHit(p, a) \/ \E v \in TxVal : storeHit(p, a, v)
  PROVE  A!Next
<1>0. TypeOK /\ mem[a] \in Val /\ TxVal \subseteq Val
  BY Zenon, ValAssumption DEF CInv, TypeOK
<1>1. UNCHANGED <<inTx, uid, lastAbortUid, abortFlag, mem>>
  BY Zenon DEF loadHit, storeHit, txVars, dirVars
<1>2. \A q \in Proc : Live(q)' <=> Live(q)
  BY Zenon, <1>1 DEF Live
<1>3. CASE loadHit(p, a)
  <2>1. /\ writeSet' = writeSet /\ readSet' = [readSet EXCEPT ![p][a] = mem[a]]
        /\ readSet[p][a] = None /\ writeSet[p][a] = None
    BY Zenon, <1>3 DEF loadHit
  <2>2. Stores(p)[a] = None /\ \A q \in Proc : Stores(q)' = Stores(q)
    BY Zenon, <2>1, StoresStand DEF Stores, Stored
  <2> QED
    BY Zenon, <1>0, <1>1, <1>2, <2>1, <2>2, ReadStep
<1>4. ASSUME NEW v \in TxVal, storeHit(p, a, v)
      PROVE  A!Next
  <2>1. readSet' = readSet /\ writeSet' = [writeSet EXCEPT ![p][a] = v] /\ v \in Val
    BY Zenon, <1>0, <1>4 DEF storeHit
  <2> QED
    BY Zenon, <1>0, <1>1, <1>2, <2>1, WriteStep
<1> QED
  BY Zenon, <1>3, <1>4

\* Data from the L2 is a Read or a Write, if the transaction is live and the
\* request its own.
LEMMA ReceiveRefines ==
  ASSUME CInv, NEW p \in Proc, NEW a \in Addr, receiveData(p, a)
  PROVE  A!Next
<1>0. TypeOK /\ mem[a] \in Val /\ TxVal \subseteq Val /\ Requested(p, a)
  BY Zenon, ValAssumption DEF CInv, CoreInv, TypeOK
<1>1. UNCHANGED <<inTx, uid, lastAbortUid, abortFlag, mem>>
  BY Zenon DEF receiveData, grant, txVars
<1>2. \A q \in Proc : Live(q)' <=> Live(q)
  BY Zenon, <1>1 DEF Live
<1>3. CASE /\ req[p][a].kind = "GETS" /\ Current(p, a) /\ writeSet' = writeSet
           /\ readSet' = [readSet EXCEPT ![p][a] = mem[a]]
  <2>1. Live(p) => readSet[p][a] = None /\ Stores(p)[a] = None
    BY Zenon, <1>0, <1>3 DEF Requested, Stores, Stored
  <2>2. \A q \in Proc : Stores(q)' = Stores(q)
    BY Zenon, <1>3, StoresStand
  <2> QED
    BY Zenon, <1>0, <1>1, <1>2, <1>3, <2>1, <2>2, ReadStep
<1>4. ASSUME NEW v \in TxVal, readSet' = readSet,
             writeSet' = [writeSet EXCEPT ![p][a] = v]
      PROVE  A!Next
  <2>1. v \in Val
    BY Zenon, <1>0
  <2> QED
    BY Zenon, <1>0, <1>1, <1>2, <1>4, <2>1, WriteStep
<1>5. CASE UNCHANGED <<readSet, writeSet>>
  <2>1. \A q \in Proc : Stores(q)' = Stores(q)
    BY Zenon, <1>5, StoresStand
  <2> QED
    BY Zenon, <1>1, <1>2, <1>5, <2>1, DoomStep
<1> QED
  BY Zenon, <1>3, <1>4, <1>5 DEF receiveData

\* Forwarded data is a Read or a Write; the abstract transaction may read any
\* value.
LEMMA ConsumeRefines ==
  ASSUME CInv, NEW p \in Proc, NEW a \in Addr,
         notifyForwardedDataFromProducer(p, a)
  PROVE  A!Next
<1>0. /\ TypeOK /\ TxVal \subseteq Val /\ Requested(p, a) /\ Live(p)
      /\ Current(p, a) /\ busy[a].data \in Val
  BY Zenon, ValAssumption
  DEF CInv, CoreInv, notifyForwardedDataFromProducer, Answered, Usable, Live,
      Current, TypeOK, BusyType, Data
<1>1. UNCHANGED <<inTx, uid, lastAbortUid, mem>>
  BY Zenon DEF notifyForwardedDataFromProducer, txVars, dirVars
<1>2. \A q \in Proc : q # p => (Live(q)' <=> Live(q))
  BY Zenon, <1>0, <1>1 DEF notifyForwardedDataFromProducer, Live, TypeOK
<1>3. CASE /\ req[p][a].kind = "GETS"
           /\ writeSet' = [writeSet EXCEPT ![p][a] = isolateLoaded(@)]
           /\ readSet' = [readSet EXCEPT ![p][a] = busy[a].data]
  <2>1. readSet[p][a] = None /\ writeSet[p][a] = None
    BY Zenon, <1>0, <1>3 DEF Requested
  <2>2. \A q \in Proc : Stores(q)' = Stores(q)
    <3>1. writeSet \in [Proc -> [Addr -> Written]]
      BY Zenon, <1>0 DEF TypeOK
    <3>2. \A q \in Proc : q # p => Stores(q)' = Stores(q)
      <4>1. \A q \in Proc : q # p => writeSet'[q] = writeSet[q]
        BY Zenon, <1>3, <3>1
      <4> QED
        BY Zenon, <4>1, StoresStand
    <3>3. writeSet'[p] = [writeSet[p] EXCEPT ![a] = Loaded]
      BY Zenon, <1>3, <2>1, <3>1 DEF isolateLoaded
    <3>4. \A b \in Addr : Stored(p, b)' = Stored(p, b)
      BY Zenon, <2>1, <3>1, <3>3 DEF Stored
    <3>5. Stores(p)' = Stores(p)
      BY Zenon, <3>4 DEF Stores
    <3> QED
      BY Zenon, <3>2, <3>5
  <2>3. Stores(p)[a] = None
    BY Zenon, <2>1 DEF Stores, Stored
  <2> QED
    BY Zenon, <1>0, <1>1, <1>2, <1>3, <2>1, <2>2, <2>3, ReadStep
<1>4. ASSUME NEW v \in TxVal, readSet' = readSet,
             writeSet' = [writeSet EXCEPT ![p][a] = v]
      PROVE  A!Next
  <2>1. v \in Val
    BY Zenon, <1>0
  <2> QED
    BY Zenon, <1>0, <1>1, <1>2, <1>4, <2>1, WriteStep
<1> QED
  BY Zenon, <1>3, <1>4 DEF notifyForwardedDataFromProducer

\* Every other step makes some transactions fail, or none.
LEMMA OtherRefines ==
  ASSUME CInv, NEW p \in Proc, Step(p), UNCHANGED <<inTx, uid, lastAbortUid>>,
         UNCHANGED <<mem, readSet, writeSet>>
  PROVE  A!Next
<1>1. ~beginTransaction(p)
  BY Zenon DEF beginTransaction, CInv, TypeOK
<1>2. \A q \in Proc : Live(q)' => Live(q)
  BY Zenon, <1>1, LiveStep
<1>3. \A q \in Proc : Stores(q)' = Stores(q)
  BY Zenon, StoresStand
<1> QED
  BY Zenon, <1>2, <1>3, DoomStep

\* Every step is one of AtomicTM.
LEMMA StepRefines ==
  ASSUME CInv, NEW p \in Proc, Step(p)
  PROVE  A!Next
<1>1. CASE validateConsumedData(p) \/ initiateCommitTransaction(p)
           \/ signalAbort(p)
  BY Zenon, <1>1, OtherRefines
  DEF validateConsumedData, initiateCommitTransaction, signalAbort, txVars,
      dirVars
<1>2. ASSUME NEW a \in Addr,
             \/ \E kind \in {"GETS", "GETX"} : issueRequest(p, a, kind)
             \/ nonTransactionalLoad(p, a) \/ serveRequest(p, a)
             \/ xactReplacement(p, a) \/ L1_Replacement(p, a)
      PROVE  A!Next
  BY Zenon, <1>2, OtherRefines
  DEF issueRequest, nonTransactionalLoad, serveRequest, xactReplacement,
      L1_Replacement, txVars, dirVars
<1>3. ASSUME NEW a \in Addr,
             \/ answerAck(p, a) \/ answerNack(p, a) \/ receiveNack(p, a)
             \/ validateNacked(p, a) \/ validateDataBlock(p, a)
      PROVE  A!Next
  BY Zenon, <1>3, OtherRefines
  DEF answerAck, answerNack, receiveNack, validateNacked, validateDataBlock,
      grant, txVars, dirVars
<1> QED
  BY Zenon, <1>1, <1>2, <1>3, BeginRefines, CommitRefines, AbortRefines,
     OutsideRefines, HitRefines, ReceiveRefines, ConsumeRefines DEF Step

-----------------------------------------------------------------------------
(* The theorems                                                            *)

INSTANCE FiniteSetTheorems

\* A nonempty set of block numbers has a least one.
LEMMA LeastExists ==
  ASSUME NEW S, S \subseteq Nat, S # {}
  PROVE  \E b \in S : \A c \in S : b <= c
<1> DEFINE R == {ss \in Nat \X Nat : ss[1] < ss[2]}
<1>1. IsWellFoundedOn(R, Nat)
  BY Zenon, NatLessThanWellFounded DEF OpToRel
<1> HIDE DEF R
<1>2. PICK b \in S : \A c \in S : ~(<<c, b>> \in R)
  BY Zenon, <1>1, WFMin
<1>3. \A c \in S : ~(c < b)
  BY Zenon, <1>2 DEF R
<1> QED
  BY <1>3

\* The block validated next is one of the consumed blocks.
LEMMA NextIsMember ==
  NextExists
<1> SUFFICES ASSUME NEW S \in SUBSET Addr, NEW a \in Addr, S # {}
             PROVE  NextInOrder(S, a) \in S
  BY Zenon DEF NextExists
<1> DEFINE later == {b \in S : b > a}
           T == IF later # {} THEN later ELSE S
<1>1. T \subseteq S /\ T # {} /\ T \subseteq Nat
  BY Zenon, AddrAssumption
<1> HIDE DEF T
<1>2. \E b \in T : \A c \in T : b <= c
  BY Zenon, <1>1, LeastExists
<1>3. (CHOOSE b \in T : \A c \in T : b <= c) \in T
  BY Zenon, <1>2
<1>4. NextInOrder(S, a) = CHOOSE b \in T : \A c \in T : b <= c
  BY Zenon DEF NextInOrder, T
<1> QED
  BY Zenon, <1>1, <1>3, <1>4

\* Every step of every core preserves the invariant.
LEMMA InvStep ==
  ASSUME CInv, [Next]_vars
  PROVE  CInv'
<1>1. ASSUME NEW p \in Proc, Step(p)
      PROVE  CInv'
  <2>1. TypeOK'
    BY Zenon, <1>1, TypeStep, NextIsMember DEF CInv, CoreInv
  <2>2. OthersKept(p)
    BY Zenon, <1>1, OthersStep DEF CInv
  <2>3. ASSUME NEW q \in Proc
        PROVE  Quiet(q)' /\ Uids(q)' /\ Validating(q)'
               /\ \A a \in Addr : Requested(q, a)' /\ Isolated(q, a)'
    <3>1. CASE q = p
      <4>1. Quiet(p)' /\ Uids(p)'
        BY Zenon, <1>1, <2>1, QuietStep, UidsStep
      <4>2. Validating(p)'
        BY Zenon, <1>1, <2>1, <4>1, ValidatingStep, NextIsMember
      <4> QED
        BY Zenon, <1>1, <2>1, <3>1, <4>1, <4>2, RequestedStep, OwnIsolated
    <3>2. CASE q # p
      BY Zenon, <1>1, <2>1, <2>2, <3>2, OtherCores, OthersIsolated DEF CInv
    <3> QED
      BY Zenon, <3>1, <3>2
  <2>4. \A q \in Proc, a \in Addr : Copies(q, a)'
    BY Zenon, <1>1, <2>1, CopiesStep
  <2>5. \A a \in Addr : Serving(a)' /\ AnswersStand(a)'
    BY Zenon, <1>1, <2>1, ServingStep, AnswersStandStep
  <2> QED
    BY Zenon, <2>1, <2>3, <2>4, <2>5 DEF CInv, CoreInv
<1>2. CASE UNCHANGED vars
  <2> USE <1>2 DEF vars, txVars, fwdVars, dirVars
  <2>1. TypeOK'
    BY Zenon DEF CInv, TypeOK
  <2>2. ASSUME NEW p \in Proc
        PROVE  CoreInv(p)'
    <3>1. Quiet(p)' /\ Uids(p)'
      BY Zenon DEF CInv, CoreInv, Quiet, Uids
    <3>2. Validating(p)'
      BY Zenon DEF CInv, CoreInv, Validating, InFlight, ConsumedBlocks, isConsumer,
             Current, Live
    <3>3. \A a \in Addr : Requested(p, a)'
      BY Zenon DEF CInv, CoreInv, Requested, Current, Live
    <3>4. \A a \in Addr : Copies(p, a)'
      BY Zenon DEF CInv, CoreInv, Copies
    <3>5. \A a \in Addr : Isolated(p, a)'
      BY Zenon DEF CInv, CoreInv, Isolated, Live
    <3> QED
      BY Zenon, <3>1, <3>2, <3>3, <3>4, <3>5 DEF CoreInv
  <2>3. \A a \in Addr : Serving(a)' /\ AnswersStand(a)'
    BY Zenon DEF CInv, Serving, AnswersStand, Yielded
  <2> QED
    BY Zenon, <2>1, <2>2, <2>3 DEF CInv
<1> QED
  BY Zenon, <1>1, <1>2 DEF Next

\* The inductive invariant of the forwarding protocol.
LEMMA Invariance == Spec => []CInv
<1>1. Init => CInv
  BY Zenon, InitInv
<1>2. CInv /\ [Next]_vars => CInv'
  BY Zenon, InvStep
<1> QED
  BY <1>1, <1>2, PTL DEF Spec

\* The state of the forwarding hardware stays in its types: a validation is
\* scheduled for a block only, and what is forwarded is a value
\* (TransactionInterfaceManager, setNack).
THEOREM ForwardingTypes == Spec => []TypeOK
<1>1. CInv => TypeOK
  BY Zenon DEF CInv
<1> QED
  BY <1>1, Invariance, PTL

\* For every workload and configuration: what a live transaction has read and
\* need not validate is what is committed (validateDataBlock,
\* canCommitTransaction).
THEOREM ReadsAreCurrent == Spec => []ReadsCurrent
<1>1. CInv => ReadsCurrent
  BY Zenon DEF CInv, CoreInv, Isolated, ReadsCurrent
<1> QED
  BY <1>1, Invariance, PTL

\* For every workload and configuration: two live transactions share a block of
\* a write set, stored or loaded from a producer, only if one of them has
\* consumed it and not yet validated it (checkXACTIsolation).
THEOREM ForwardingIsolates == Spec => []ForwardedIsolation
<1>1. CInv => ForwardedIsolation
  <2> SUFFICES ASSUME CInv, NEW p \in Proc, NEW q \in Proc, NEW a \in Addr,
                      p # q, Live(p), Live(q), writeSet[p][a] # None,
                      readSet[q][a] # None \/ writeSet[q][a] # None,
                      consumed[p][a] = None, consumed[q][a] = None
               PROVE  FALSE
    BY Zenon DEF ForwardedIsolation
  <2>1. copy[p][a] = "M" /\ copy[q][a] # "I"
    BY Zenon DEF CInv, CoreInv, Isolated
  <2>2. copy[q][a] \in {"S", "M"}
    BY <2>1 DEF CInv, TypeOK
  <2> QED
    BY Zenon, <2>1, <2>2, ProcAssumption DEF CInv, CoreInv, Copies
<1> QED
  BY <1>1, Invariance, PTL

\* For every workload and configuration: a live consumer has exactly one
\* validation under way, and a transaction that has consumed nothing has none
\* (notifyForwardedDataFromProducer, validateDataBlock, commitTransaction).
THEOREM OneValidation == Spec => []ValidationUnderWay
<1>1. CInv => ValidationUnderWay
  <2> SUFFICES ASSUME CInv, NEW p \in Proc, Live(p)
               PROVE  IF ~isConsumer(p)
                      THEN validation[p] = None /\ InFlight(p) = {}
                      ELSE /\ validation[p] # None =>
                                consumed[p][validation[p]] # None
                           /\ InFlight(p) \subseteq ConsumedBlocks(p)
                           /\ Cardinality(InFlight(p)) =
                                IF validation[p] = None THEN 1 ELSE 0
    BY Zenon DEF ValidationUnderWay, InFlight
  <2>1. Validating(p)
    BY Zenon DEF CInv, CoreInv
  <2>2. CASE ~isConsumer(p)
    BY Zenon, <2>1, <2>2 DEF Validating
  <2>3. CASE isConsumer(p) /\ validation[p] # None
    BY Zenon, <2>1, <2>3, FS_EmptySet DEF Validating, ConsumedBlocks
  <2>4. CASE isConsumer(p) /\ validation[p] = None
    <3>1. PICK a \in ConsumedBlocks(p) : InFlight(p) = {a}
      BY Zenon, <2>1, <2>4 DEF Validating
    <3>2. Cardinality({a}) = 1
      BY Zenon, FS_Singleton
    <3> QED
      BY Zenon, <2>4, <3>1, <3>2
  <2> QED
    BY Zenon, <2>2, <2>3, <2>4
<1> QED
  BY <1>1, Invariance, PTL

\* The inductive invariant of the power transactions.
LEMMA PowerHolds == Spec => []PowerInv
<1>1. Init => PowerInv
  BY DEF Init, PowerInv, Current
<1>2. PowerInv /\ CInv /\ CInv' /\ [Next]_vars => PowerInv'
  <2> SUFFICES ASSUME PowerInv, CInv, CInv', [Next]_vars
               PROVE  PowerInv'
    OBVIOUS
  <2>1. CASE Next
    BY Zenon, <2>1, PowerStep DEF Next
  <2>2. CASE UNCHANGED vars
    BY Zenon, <2>2
    DEF vars, txVars, fwdVars, PowerInv, isPowerTMPolicy, policy, isConsumer,
        ConsumedBlocks, Current
  <2> QED
    BY Zenon, <2>1, <2>2
<1> QED
  BY <1>1, <1>2, Invariance, PTL DEF Spec

\* For every configuration: a power transaction consumes nothing, and no
\* request of its own is ever nacked, however long it was under way
\* (chooseWinnerPriority, "Power transaction cannot be consumer").
THEOREM PowerAlwaysWins == Spec => []PowerWins
<1>1. PowerInv => PowerWins
  BY Zenon DEF PowerInv, PowerWins
<1> QED
  BY <1>1, PowerHolds, PTL

\* The inductive invariant of the shape of the chains.
LEMMA ShapeHolds == Spec => []ShapeInv
<1>1. Init => ShapeInv
  BY Zenon DEF Init, ShapeInv, isProducer
<1>2. ShapeInv /\ CInv /\ CInv' /\ [Next]_vars => ShapeInv'
  <2> SUFFICES ASSUME ShapeInv, CInv, CInv', [Next]_vars
               PROVE  ShapeInv'
    OBVIOUS
  <2>1. CASE Next
    BY Zenon, <2>1, ShapeStep DEF Next
  <2>2. CASE UNCHANGED vars
    BY Zenon, <2>2
    DEF vars, txVars, fwdVars, ShapeInv, fwdMechanism, isProducer, isConsumer,
        ConsumedBlocks
  <2> QED
    BY Zenon, <2>1, <2>2
<1> QED
  BY <1>1, <1>2, Invariance, PTL DEF Spec

\* For every configuration: with D1 no transaction is producer and consumer,
\* with W1 one that is not powered has at most one consumer (canProduce,
\* shouldAcceptForwardedData, shouldBecomeProducer).
THEOREM ChainsAreBounded == Spec => []ChainShape
<1>1. ShapeInv => ChainShape
  <2> SUFFICES ASSUME ShapeInv, NEW p \in Proc,
                      sentTo[p] = {} \/ \E q \in Proc : sentTo[p] = {q}
               PROVE  Cardinality(sentTo[p]) <= 1
    BY Zenon DEF ShapeInv, ChainShape
  <2> QED
    BY FS_EmptySet, FS_Singleton
<1> QED
  BY <1>1, ShapeHolds, PTL

\* For every workload, with the strategy that aborts on a possible cycle: while
\* two chained transactions live, the consumer's priority is below the
\* producer's, so chains have no cycle (isIllegalNack, switchHwPrio).  Naive
\* forwarding is left out: it forwards even at the least priority
\* (shouldBecomeProducer returns before that test), below which there is none
\* for the consumer.
THEOREM ChainsAreOrdered ==
  ASSUME cycleSolveStrategy = "abort"
  PROVE  Spec => [](fwdMechanism # "naive" => PrioOrder)
<1> DEFINE OInv == fwdMechanism # "naive" => PrioInv /\ PrioOrder
<1>1. Init => OInv
  BY PriorityValues
  DEF Init, PrioInv, PrioOrder, Ranked, Reported, isConsumer, ConsumedBlocks,
      Live, NoReq
<1>2. OInv /\ CInv /\ PowerInv /\ CInv' /\ [Next]_vars => OInv'
  <2> SUFFICES ASSUME OInv, CInv, PowerInv, CInv', [Next]_vars
               PROVE  OInv'
    OBVIOUS
  <2>1. CASE Next
    <3>1. PICK p \in Proc : Step(p)
      BY Zenon, <2>1 DEF Next
    <3>2. TypeOK /\ config' = config
      BY Zenon, <3>1, OthersStep DEF CInv
    <3> SUFFICES ASSUME fwdMechanism # "naive"
                 PROVE  PrioInv' /\ PrioOrder'
      BY Zenon, <3>2 DEF fwdMechanism
    <3>3. PrioInv /\ PrioOrder
      BY Zenon
    <3>4. CASE prioMechanism = "numeric"
      <4>1. \A q \in Proc : Ranked(q)'
        BY Zenon, <3>1, <3>3, <3>4, RankedStep
      <4>2. \A b \in Addr : Reported(b)'
        <5> SUFFICES ASSUME NEW b \in Addr, busy'[b] # None
                     PROVE  Reported(b)'
          BY Zenon DEF Reported
        <5> QED
          BY Zenon, <3>1, <3>3, <3>4, <4>1, ReportedStep
      <4>3. PrioOrder'
        BY Zenon, <3>1, <3>3, <3>4, OrderStep DEF PrioOrder
      <4> QED
        BY Zenon, <4>1, <4>2, <4>3 DEF PrioInv
    <3>5. CASE prioMechanism # "numeric"
      BY Zenon, <3>2, <3>5 DEF PrioInv, PrioOrder, prioMechanism
    <3> QED
      BY Zenon, <3>4, <3>5
  <2>2. CASE UNCHANGED vars
    BY Zenon, <2>2
    DEF vars, txVars, fwdVars, PrioInv, PrioOrder, prioMechanism, fwdMechanism,
        Ranked, Reported, isConsumer, ConsumedBlocks, Live
  <2> QED
    BY Zenon, <2>1, <2>2
<1>3. OInv => (fwdMechanism # "naive" => PrioOrder)
  OBVIOUS
<1> QED
  BY <1>1, <1>2, <1>3, Invariance, PowerHolds, PTL DEF Spec

\* For every workload and every configuration (policies, forwarding and
\* priority mechanisms, power): the system implements an atomic transactional
\* memory.  Whatever is nacked, forwarded, validated late or evicted, a
\* transaction that commits has read nothing but committed values, and its
\* stores are published in one step.
THEOREM ForwardingIsAtomic == Spec => AtomicTransactions
<1>1. Init => A!Init
  BY Zenon DEF Init, A!Init, A!NoValues, txStatus, txReads, txWrites, Live
<1>2. CInv /\ [Next]_vars => [A!Next]_A!vars
  <2> SUFFICES ASSUME CInv, [Next]_vars
               PROVE  [A!Next]_A!vars
    OBVIOUS
  <2>1. CASE Next
    BY Zenon, <2>1, StepRefines DEF Next
  <2>2. CASE UNCHANGED vars
    <3>1. UNCHANGED <<inTx, uid, lastAbortUid, abortFlag, mem, readSet, writeSet>>
      BY Zenon, <2>2 DEF vars, txVars, dirVars
    <3>2. UNCHANGED <<txStatus, txReads, txWrites>>
      BY Zenon, <3>1 DEF txStatus, txReads, txWrites, Stored, Live
    <3> QED
      BY Zenon, <3>1, <3>2 DEF A!vars
  <2> QED
    BY Zenon, <2>1, <2>2
<1> QED
  BY <1>1, <1>2, Invariance, PTL DEF Spec, AtomicTransactions, A!Spec
=============================================================================
