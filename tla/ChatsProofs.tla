---------------------------- MODULE ChatsProofs ----------------------------
(***************************************************************************)
(* Forwarding is safe, for every number of cores and blocks, every         *)
(* workload and every configuration: what a transaction has read is        *)
(* committed or will be validated.  The invariant and its preservation by  *)
(* each step; ChatsAtomicProofs concludes.                                 *)
(***************************************************************************)
EXTENDS Chats, TLAPS

-----------------------------------------------------------------------------
(* The inductive invariant                                                 *)

NoBlocks == [a \in Addr |-> None]

\* Nothing is left of the last transaction of a core that is in none.
Quiet(p) ==
  ~inTx[p] =>
    /\ ~abortFlag[p] /\ ~commitPending[p] /\ ~powered[p]
    /\ prio[p] = NC_PRIO_VALUE
    /\ readSet[p] = NoBlocks /\ writeSet[p] = NoBlocks
    /\ consumed[p] = NoBlocks /\ sentTo[p] = {} /\ validation[p] = None

\* Requests are no younger than the transaction, and the transaction that
\* aborted last is an earlier one.
Uids(p) ==
  /\ lastAbortUid[p] <= uid[p]
  /\ inTx[p] => lastAbortUid[p] < uid[p]
  /\ \A a \in Addr : req[p][a].uid <= uid[p]

\* A consumed block is in the sets, and only its validation is requested; a
\* load is requested for a block that is not cached, nor in the sets.
Requested(p, a) ==
  /\ consumed[p][a] # None =>
       /\ readSet[p][a] # None \/ writeSet[p][a] # None
       /\ req[p][a].kind # "none" => req[p][a].kind = "VAL" /\ Current(p, a)
  /\ req[p][a].kind = "GETS" =>
       /\ copy[p][a] = "I"
       /\ Live(p) /\ Current(p, a) =>
            readSet[p][a] = None /\ writeSet[p][a] = None

InFlight(p) == {a \in Addr : Current(p, a) /\ req[p][a].kind = "VAL"}

\* Either the validation of a consumed block is scheduled or exactly one is in
\* flight; no validation without a consumed block.
Validating(p) ==
  Live(p) =>
    /\ ~isConsumer(p) => validation[p] = None /\ InFlight(p) = {}
    /\ isConsumer(p) /\ validation[p] # None =>
         validation[p] \in ConsumedBlocks(p) /\ InFlight(p) = {}
    /\ isConsumer(p) /\ validation[p] = None =>
         \E a \in ConsumedBlocks(p) : InFlight(p) = {a}

\* The L2 knows every copy, and the owner of a modified one.
Copies(p, a) ==
  /\ copy[p][a] = "M" => exclusive[a] = p
  /\ copy[p][a] = "S" =>
       exclusive[a] = p \/ (exclusive[a] = None /\ p \in sharers[a])

\* A block serves an outstanding request of a core that does not wait for
\* itself, and has nothing to tell until somebody nacks.
Serving(a) ==
  busy[a] # None =>
    /\ req[busy[a].proc][a].kind # "none" /\ busy[a].proc \notin busy[a].waiting
    /\ ~busy[a].nack => busy[a].from = {} /\ busy[a].data = None

\* A core that has acknowledged has given up its copy.
Yielded(t, a) ==
  IF req[busy[a].proc][a].kind = "GETS" THEN copy[t][a] # "M"
  ELSE copy[t][a] = "I"

AnswersStand(a) ==
  busy[a] # None /\ ~busy[a].nack =>
    \A t \in Proc \ (busy[a].waiting \cup {busy[a].proc}) : Yielded(t, a)

\* What a live transaction has read is the committed value of a block it holds
\* a copy of, or a forwarded value still to be validated; a block of its write
\* set that it need not validate it holds exclusively.
Isolated(p, a) ==
  Live(p) =>
    /\ readSet[p][a] # None =>
         IF copy[p][a] # "I" THEN readSet[p][a] = mem[a]
         ELSE consumed[p][a] # None /\ readSet[p][a] = consumed[p][a].data
    /\ writeSet[p][a] # None /\ consumed[p][a] = None => copy[p][a] = "M"

CoreInv(p) ==
  /\ Quiet(p) /\ Uids(p) /\ Validating(p)
  /\ \A a \in Addr : Requested(p, a) /\ Copies(p, a) /\ Isolated(p, a)

CInv ==
  /\ TypeOK
  /\ \A p \in Proc : CoreInv(p)
  /\ \A a \in Addr : Serving(a) /\ AnswersStand(a)

-----------------------------------------------------------------------------
(* Types                                                                   *)

\* The block validated next, in the order of the map, is one of the blocks.
NextExists ==
  \A S \in SUBSET Addr, a \in Addr : S # {} => NextInOrder(S, a) \in S

\* The records that the actions build.
LEMMA RecordTypes ==
  ASSUME TypeOK
  PROVE  /\ NoReq \in ReqType
         /\ \A p \in Proc, kind \in {"GETS", "GETX", "VAL"} :
              [kind |-> kind, uid |-> uid[p], prio |-> prio[p],
               sw |-> powered[p]] \in ReqType
         /\ \A p \in Proc, a \in Addr : Targets(p, a) \subseteq Proc
         /\ \A a \in Addr, t \in Proc, data \in Data, n \in Int :
              busy[a] # None => setNack(busy[a], t, data, n) \in BusyType
<1>1. NoReq \in ReqType
  BY DEF NoReq, ReqType, Kinds, NC_PRIO_VALUE
<1>2. ASSUME NEW p \in Proc, NEW kind \in {"GETS", "GETX", "VAL"}
      PROVE  [kind |-> kind, uid |-> uid[p], prio |-> prio[p],
              sw |-> powered[p]] \in ReqType
  BY BoundAssumption DEF TypeOK, ReqType, Kinds
<1>3. ASSUME NEW p \in Proc, NEW a \in Addr
      PROVE  Targets(p, a) \subseteq Proc
  BY Zenon DEF TypeOK, Targets
<1>4. ASSUME NEW a \in Addr, NEW t \in Proc, NEW data \in Data, NEW n \in Int,
             busy[a] # None
      PROVE  setNack(busy[a], t, data, n) \in BusyType
  <2>1. busy[a] \in BusyType
    BY Zenon, <1>4 DEF TypeOK, BusyType
  <2>2. <<t, uid[t]>> \in Proc \X Nat
    BY BoundAssumption DEF TypeOK
  <2> QED
    BY Zenon, <2>1, <2>2 DEF setNack, BusyType, Data
<1> QED
  BY Zenon, <1>1, <1>2, <1>3, <1>4

\* The types after an access, a request or a change of permission.
LEMMA AccessTypes ==
  ASSUME TypeOK, NEW p \in Proc, NEW a \in Addr
  PROVE  /\ \A v \in Data : readSet' = [readSet EXCEPT ![p][a] = v] =>
              readSet' \in [Proc -> [Addr -> Data]]
         /\ \A v \in Written : writeSet' = [writeSet EXCEPT ![p][a] = v] =>
              writeSet' \in [Proc -> [Addr -> Written]]
         /\ \A r \in ReqType : req' = [req EXCEPT ![p][a] = r] =>
              req' \in [Proc -> [Addr -> ReqType]]
         /\ \A c \in {"I", "S", "M"} : copy' = [copy EXCEPT ![p][a] = c] =>
              copy' \in [Proc -> [Addr -> {"I", "S", "M"}]]
<1>1. /\ readSet \in [Proc -> [Addr -> Data]]
      /\ writeSet \in [Proc -> [Addr -> Written]]
  BY Zenon DEF TypeOK
<1>2. req \in [Proc -> [Addr -> ReqType]]
  BY Zenon DEF TypeOK
<1>3. copy \in [Proc -> [Addr -> {"I", "S", "M"}]]
  BY Zenon DEF TypeOK
<1>4. ASSUME NEW v \in Data, readSet' = [readSet EXCEPT ![p][a] = v]
      PROVE  readSet' \in [Proc -> [Addr -> Data]]
  BY Zenon, <1>1, <1>4
<1>5. ASSUME NEW v \in Written, writeSet' = [writeSet EXCEPT ![p][a] = v]
      PROVE  writeSet' \in [Proc -> [Addr -> Written]]
  BY Zenon, <1>1, <1>5
<1>6. ASSUME NEW r \in ReqType, req' = [req EXCEPT ![p][a] = r]
      PROVE  req' \in [Proc -> [Addr -> ReqType]]
  BY Zenon, <1>2, <1>6
<1>7. ASSUME NEW c \in {"I", "S", "M"}, copy' = [copy EXCEPT ![p][a] = c]
      PROVE  copy' \in [Proc -> [Addr -> {"I", "S", "M"}]]
  BY Zenon, <1>3, <1>7
<1> QED
  BY Zenon, <1>4, <1>5, <1>6, <1>7

\* What a core has stored is a value.
LEMMA StoredType ==
  ASSUME TypeOK, NEW p \in Proc, NEW a \in Addr
  PROVE  Stored(p, a) \in Data
<1>1. writeSet[p][a] \in Written
  BY Zenon DEF TypeOK
<1> QED
  BY Zenon, <1>1 DEF Stored, Written, Data

\* The record of a block after an acknowledgement.
LEMMA AckRecord ==
  ASSUME TypeOK, NEW t \in Proc, NEW a \in Addr, answerAck(t, a)
  PROVE  /\ busy'[a] \in BusyType
         /\ \A b \in Addr : b # a => busy'[b] = busy[b]
         /\ busy' \in [Addr -> {None} \cup BusyType]
         /\ busy'[a].proc = busy[a].proc
         /\ busy'[a].waiting = busy[a].waiting \ {t}
         /\ busy'[a].nack = busy[a].nack /\ busy'[a].data = busy[a].data
         /\ busy'[a].prio = busy[a].prio /\ busy'[a].from = busy[a].from
<1> DEFINE b == busy[a]
           r == [b EXCEPT !.waiting = @ \ {t}]
<1>1. b \in BusyType /\ b # None
  BY Zenon DEF answerAck, TypeOK, BusyType
<1>2. busy' = [busy EXCEPT ![a] = r]
  BY Zenon DEF answerAck
<1> HIDE DEF b
<1>3. /\ r \in BusyType
      /\ r.proc = b.proc /\ r.waiting = b.waiting \ {t} /\ r.nack = b.nack
      /\ r.data = b.data /\ r.prio = b.prio /\ r.from = b.from
  BY Zenon, <1>1 DEF BusyType
<1>5. busy \in [Addr -> {None} \cup BusyType]
  BY Zenon DEF TypeOK, BusyType
<1> HIDE DEF r
<1>6. busy'[a] = r /\ \A c \in Addr : c # a => busy'[c] = busy[c]
  BY Zenon, <1>2, <1>5
<1> QED
  BY Zenon, <1>2, <1>3, <1>5, <1>6 DEF b

\* What commit and abort leave of a transaction.
LEMMA ResetTypes ==
  ASSUME TypeOK, NEW p \in Proc, resetTransaction(p)
  PROVE  /\ inTx' \in [Proc -> BOOLEAN] /\ powered' \in [Proc -> BOOLEAN]
         /\ prio' \in [Proc -> Int] /\ sentTo' \in [Proc -> SUBSET Proc]
         /\ readSet' \in [Proc -> [Addr -> Data]]
         /\ writeSet' \in [Proc -> [Addr -> Written]]
<1>1. [a \in Addr |-> None] \in [Addr -> Data] \cap [Addr -> Written]
  BY Zenon DEF Data, Written
<1> QED
  BY <1>1 DEF resetTransaction, TypeOK, NC_PRIO_VALUE

\* Counting a validation changes only the count of the block's record.
LEMMA CountRecord ==
  ASSUME TypeOK, NEW p \in Proc, NEW a \in Addr,
         consumed[p][a] \in ConsumedType
  PROVE  LET c == countValidation(p, a)
         IN /\ c \in [Proc -> [Addr -> {None} \cup ConsumedType]]
            /\ c[p][a] \in ConsumedType
            /\ c[p][a].data = consumed[p][a].data
            /\ c[p][a].from = consumed[p][a].from
            /\ \A q \in Proc, b \in Addr :
                 q # p \/ b # a => c[q][b] = consumed[q][b]
<1> DEFINE f == consumed[p][a]
           n == IF f.nVal > nValFwd THEN f.nVal ELSE f.nVal + 1
           r == [f EXCEPT !.nVal = n]
<1>1. n \in Nat
  BY BoundAssumption DEF ConsumedType
<1> HIDE DEF n
<1>2. r \in ConsumedType /\ r.data = f.data /\ r.from = f.from
  BY Zenon, <1>1 DEF ConsumedType
<1>3. countValidation(p, a) = consumed
      \/ countValidation(p, a) = [consumed EXCEPT ![p][a] = r]
  BY Zenon DEF countValidation, n
<1>4. consumed \in [Proc -> [Addr -> {None} \cup ConsumedType]]
  BY Zenon DEF TypeOK
<1> HIDE DEF r
<1> QED
  BY <1>2, <1>3, <1>4

\* Every step keeps the variables in their types: a validation is scheduled
\* for a consumed block, and a block that is compared has been consumed.
LEMMA TypeStep ==
  ASSUME NextExists, TypeOK, NEW p \in Proc, Validating(p), Step(p)
  PROVE  TypeOK'
<1> USE ProcAssumption, ValAssumption, BoundAssumption
<1>1. CASE beginTransaction(p)
  <2>1. powered' \in [Proc -> BOOLEAN]
    BY Zenon, <1>1 DEF beginTransaction, TypeOK, isPowerTMPolicy
  <2>2. uid' \in [Proc -> 0..MaxUid]
    BY <1>1 DEF beginTransaction, TypeOK
  <2> QED
    BY Zenon, <1>1, <2>1, <2>2 DEF beginTransaction, TypeOK, fwdVars, dirVars
<1>2. CASE validateConsumedData(p)
  <2>1. req' \in [Proc -> [Addr -> ReqType]]
    <3>1. validation[p] \in Addr
      BY Zenon, <1>2 DEF validateConsumedData, TypeOK
    <3>2. [kind |-> "VAL", uid |-> uid[p], prio |-> prio[p], sw |-> powered[p]]
            \in ReqType
      BY Zenon, RecordTypes
    <3>3. req' = req \/ \E r \in ReqType, b \in Addr : req' = [req EXCEPT ![p][b] = r]
      BY Zenon, <1>2, <3>1, <3>2 DEF validateConsumedData
    <3> QED
      BY Zenon, <3>3, AccessTypes DEF TypeOK
  <2> QED
    BY Zenon, <1>2, <2>1 DEF validateConsumedData, TypeOK, txVars, dirVars
<1>3. CASE initiateCommitTransaction(p) \/ signalAbort(p)
  <2>1. commitPending' \in [Proc -> BOOLEAN] /\ abortFlag' \in [Proc -> BOOLEAN]
    BY Zenon, <1>3 DEF initiateCommitTransaction, signalAbort, TypeOK
  <2>2. UNCHANGED <<config, uid, lastAbortUid, inTx, powered, prio, readSet,
                    writeSet, fwdVars, req, busy, dirVars>>
    BY Zenon, <1>3 DEF initiateCommitTransaction, signalAbort
  <2> QED
    BY Zenon, <2>1, <2>2 DEF TypeOK, fwdVars, dirVars
<1>4. CASE commitTransaction(p)
  <2>1. mem' \in [Addr -> Val]
    <3>1. mem' = [a \in Addr |-> IF Stored(p, a) # None THEN Stored(p, a)
                                ELSE mem[a]]
      BY Zenon, <1>4 DEF commitTransaction
    <3>2. \A a \in Addr : Stored(p, a) \in Data /\ mem[a] \in Val
      BY Zenon, StoredType DEF TypeOK
    <3> QED
      BY Zenon, <3>1, <3>2 DEF Data
  <2>2. commitPending' \in [Proc -> BOOLEAN]
    BY Zenon, <1>4 DEF commitTransaction, TypeOK
  <2>3. resetTransaction(p) /\ UNCHANGED <<lastAbortUid, abortFlag, consumed, validation>>
    BY Zenon, <1>4 DEF commitTransaction
  <2> QED
    BY Zenon, <2>1, <2>2, <2>3, ResetTypes DEF resetTransaction, TypeOK
<1>5. CASE abortTransaction(p)
  <2>1. consumed' \in [Proc -> [Addr -> {None} \cup ConsumedType]]
    BY Zenon, <1>5 DEF abortTransaction, TypeOK, ConsumedType
  <2> QED
    BY Zenon, <1>5, <2>1, ResetTypes
    DEF abortTransaction, resetTransaction, TypeOK, ConsumedType
<1>6. ASSUME NEW a \in Addr, loadHit(p, a)
      PROVE  TypeOK'
  BY Zenon, <1>6 DEF loadHit, TypeOK, Data, txVars, fwdVars, dirVars
<1>7. ASSUME NEW a \in Addr, nonTransactionalLoad(p, a)
      PROVE  TypeOK'
  <2>1. abortFlag' \in [Proc -> BOOLEAN]
    BY Zenon, <1>7 DEF nonTransactionalLoad, TypeOK, checkWriteSignature
  <2>2. copy' \in [Proc -> [Addr -> {"I", "S", "M"}]]
    BY <1>7 DEF nonTransactionalLoad, TypeOK
  <2>3. sharers' \in [Addr -> SUBSET Proc] /\ exclusive' \in [Addr -> Proc \cup {None}]
    BY <1>7 DEF nonTransactionalLoad, TypeOK
  <2> QED
    BY Zenon, <1>7, <2>1, <2>2, <2>3 DEF nonTransactionalLoad, TypeOK, txVars, fwdVars
<1>8. ASSUME NEW a \in Addr, NEW v \in TxVal, storeHit(p, a, v)
      PROVE  TypeOK'
  BY Zenon, <1>8 DEF storeHit, TypeOK, Data, Written, txVars, fwdVars, dirVars
<1>9. ASSUME NEW a \in Addr, NEW v \in OutsideVal, nonTransactionalStore(p, a, v)
      PROVE  TypeOK'
  <2>1. abortFlag' \in [Proc -> BOOLEAN]
    BY Zenon, <1>9
    DEF nonTransactionalStore, TypeOK, checkReadSignature, checkWriteSignature
  <2>2. copy' \in [Proc -> [Addr -> {"I", "S", "M"}]]
    BY <1>9 DEF nonTransactionalStore, TypeOK
  <2>3. /\ sharers' \in [Addr -> SUBSET Proc]
        /\ exclusive' \in [Addr -> Proc \cup {None}] /\ mem' \in [Addr -> Val]
    BY Zenon, <1>9 DEF nonTransactionalStore, TypeOK
  <2> QED
    BY Zenon, <1>9, <2>1, <2>2, <2>3 DEF nonTransactionalStore, TypeOK, txVars, fwdVars
<1>10. ASSUME NEW a \in Addr, NEW kind \in {"GETS", "GETX"},
              issueRequest(p, a, kind)
       PROVE  TypeOK'
  <2>1. req' \in [Proc -> [Addr -> ReqType]]
    BY Zenon, <1>10, RecordTypes, AccessTypes DEF issueRequest
  <2> QED
    BY Zenon, <1>10, <2>1 DEF issueRequest, TypeOK, txVars, fwdVars, dirVars
<1>11. ASSUME NEW a \in Addr, xactReplacement(p, a)
       PROVE  TypeOK'
  BY Zenon, <1>11 DEF xactReplacement, TypeOK, txVars, fwdVars, dirVars
<1>12. ASSUME NEW a \in Addr, L1_Replacement(p, a)
       PROVE  TypeOK'
  <2>1. abortFlag' \in [Proc -> BOOLEAN]
    BY Zenon, <1>12
    DEF L1_Replacement, TypeOK, checkReadSignature, checkWriteSignature
  <2> QED
    BY Zenon, <1>12, <2>1
    DEF L1_Replacement, TypeOK, ConsumedType, txVars, fwdVars
<1>13. ASSUME NEW a \in Addr, serveRequest(p, a)
       PROVE  TypeOK'
  <2>1. [proc |-> p, waiting |-> Targets(p, a), nack |-> FALSE, data |-> None,
         prio |-> NC_PRIO_VALUE, from |-> {}] \in BusyType
    BY RecordTypes DEF BusyType, Data, NC_PRIO_VALUE
  <2>2. busy' \in [Addr -> {None} \cup BusyType]
    BY Zenon, <1>13, <2>1 DEF serveRequest, TypeOK, BusyType
  <2> QED
    BY Zenon, <1>13, <2>2
    DEF serveRequest, TypeOK, BusyType, txVars, fwdVars, dirVars
<1>14. ASSUME NEW a \in Addr, answerAck(p, a)
       PROVE  TypeOK'
  <2>1. abortFlag' \in [Proc -> BOOLEAN]
    BY Zenon, <1>14
    DEF answerAck, TypeOK, hasConflict, checkReadSignature, checkWriteSignature
  <2>2. busy' \in [Addr -> {None} \cup BusyType]
    BY Zenon, <1>14, AckRecord DEF answerAck, TypeOK, BusyType
  <2>3. copy' \in [Proc -> [Addr -> {"I", "S", "M"}]]
    BY Zenon, <1>14 DEF answerAck, TypeOK
  <2> QED
    BY Zenon, <1>14, <2>1, <2>2, <2>3 DEF answerAck, TypeOK, BusyType, txVars, fwdVars
<1>15. ASSUME NEW a \in Addr, answerNack(p, a)
       PROVE  TypeOK'
  <2> DEFINE t == busy[a].proc
  <2>1. busy[a] # None /\ t \in Proc /\ Remote(a) \in Int
    BY <1>15 DEF answerNack, TypeOK, BusyType, ReqType, Remote
  <2>2. PrioAfterSend(p, Remote(a)) \in Int /\ Contents(p, a) \in Data
    <3>1. PrioAfterSend(p, Remote(a)) \in Int
      BY <2>1 DEF PrioAfterSend, TypeOK, INITIAL_PRIO_VALUE
    <3>2. /\ mem[a] \in Data
          /\ consumed[p][a] # None => consumed[p][a].data \in Data
      <4>1. /\ mem \in [Addr -> Val]
            /\ consumed \in [Proc -> [Addr -> {None} \cup ConsumedType]]
        BY Zenon DEF TypeOK
      <4>2. mem[a] \in Val /\ consumed[p][a] \in {None} \cup ConsumedType
        BY Zenon, <4>1
      <4> QED
        BY <4>2 DEF ConsumedType, Data
    <3> QED
      BY Zenon, <3>1, <3>2, StoredType DEF Contents
  <2>3. prio' \in [Proc -> Int] /\ sentTo' \in [Proc -> SUBSET Proc]
    <3>1. CASE addConsumer(p, t, Remote(a))
      BY <2>1, <2>2, <3>1 DEF addConsumer, TypeOK
    <3>2. CASE UNCHANGED <<prio, sentTo>>
      BY Zenon, <3>2 DEF TypeOK
    <3> QED
      BY Zenon, <1>15, <3>1, <3>2 DEF answerNack
  <2>4. \E data \in Data, n \in Int :
          busy' = [busy EXCEPT ![a] = setNack(busy[a], p, data, n)]
    <3>1. prio'[p] \in Int /\ prio[p] \in Int /\ None \in Data
      BY Zenon, <2>3 DEF TypeOK, Data
    <3> QED
      BY Zenon, <1>15, <2>2, <3>1 DEF answerNack
  <2>5. busy' \in [Addr -> {None} \cup BusyType]
    BY <2>1, <2>4, RecordTypes DEF TypeOK
  <2> QED
    BY Zenon, <1>15, <2>3, <2>5 DEF answerNack, TypeOK, txVars, dirVars
<1>16. ASSUME NEW a \in Addr, complete(p, a)
       PROVE  /\ req' \in [Proc -> [Addr -> ReqType]]
              /\ busy' \in [Addr -> {None} \cup BusyType]
  BY Zenon, <1>16, RecordTypes DEF complete, TypeOK
<1>17. ASSUME NEW a \in Addr, receiveNack(p, a)
       PROVE  TypeOK'
  <2>1. abortFlag' \in [Proc -> BOOLEAN]
    BY Zenon, <1>17 DEF receiveNack, TypeOK
  <2> QED
    BY Zenon, <1>16, <1>17, <2>1 DEF receiveNack, TypeOK, txVars, fwdVars, dirVars
<1>18. ASSUME NEW a \in Addr, notifyForwardedDataFromProducer(p, a)
       PROVE  TypeOK'
  <2>1. busy[a] \in BusyType /\ busy[a].data \in Val
    BY Zenon, <1>18
    DEF notifyForwardedDataFromProducer, Answered, Usable, TypeOK, BusyType, Data
  <2>2. prio' \in [Proc -> Int]
    BY <1>18, <2>1
    DEF notifyForwardedDataFromProducer, PrioAfterReceive, TypeOK, BusyType
  <2>3. consumed' \in [Proc -> [Addr -> {None} \cup ConsumedType]]
    <3>1. [data |-> busy[a].data, nVal |-> 0, from |-> busy[a].from]
            \in ConsumedType
      BY Zenon, <2>1 DEF BusyType, ConsumedType
    <3> QED
      BY Zenon, <1>18, <3>1 DEF notifyForwardedDataFromProducer, TypeOK
  <2>4. validation' \in [Proc -> Addr \cup {None}]
    BY Zenon, <1>18 DEF notifyForwardedDataFromProducer, scheduleFirst, TypeOK
  <2>5. /\ readSet' \in [Proc -> [Addr -> Data]]
        /\ writeSet' \in [Proc -> [Addr -> Written]]
    <3>1. \/ /\ readSet' = [readSet EXCEPT ![p][a] = busy[a].data]
             /\ writeSet' =
                  [writeSet EXCEPT ![p][a] = isolateLoaded(writeSet[p][a])]
          \/ /\ \E v \in TxVal : writeSet' = [writeSet EXCEPT ![p][a] = v]
             /\ readSet' = readSet
      BY Zenon, <1>18 DEF notifyForwardedDataFromProducer
    <3>2. busy[a].data \in Data /\ TxVal \subseteq Written
      BY Zenon, <2>1 DEF Data, Written
    <3>3. isolateLoaded(writeSet[p][a]) \in Written
      <4>1. writeSet \in [Proc -> [Addr -> Written]]
        BY Zenon DEF TypeOK
      <4>2. writeSet[p][a] \in Written /\ Loaded \in Written
        BY Zenon, <4>1 DEF Written
      <4> QED
        BY Zenon, <4>2 DEF isolateLoaded
    <3> QED
      BY Zenon, <3>1, <3>2, <3>3, AccessTypes DEF TypeOK
  <2>6. abortFlag' \in [Proc -> BOOLEAN]
    BY <1>18 DEF notifyForwardedDataFromProducer, TypeOK
  <2> QED
    BY Zenon, <1>16, <1>18, <2>2, <2>3, <2>4, <2>5, <2>6
    DEF notifyForwardedDataFromProducer, TypeOK, txVars, dirVars
<1>19. ASSUME NEW a \in Addr, validateNacked(p, a)
       PROVE  TypeOK'
  <2>1. consumed[p][a] \in ConsumedType
    BY <1>19
    DEF validateNacked, Usable, Current, Validating, InFlight, Live, TypeOK,
        ConsumedBlocks
  <2>2. consumed' \in [Proc -> [Addr -> {None} \cup ConsumedType]]
    BY Zenon, <1>19, <2>1, CountRecord DEF validateNacked
  <2>3. validation' \in [Proc -> Addr \cup {None}]
    <3>1. NextInOrder(ConsumedBlocks(p), a) \in ConsumedBlocks(p)
      BY <2>1, NoneAssumption DEF ConsumedBlocks, NextExists
    <3> QED
      BY Zenon, <1>19, <3>1 DEF validateNacked, TypeOK, ConsumedBlocks
  <2>4. abortFlag' \in [Proc -> BOOLEAN]
    BY Zenon, <1>19 DEF validateNacked, TypeOK
  <2> QED
    BY Zenon, <1>16, <1>19, <2>2, <2>3, <2>4 DEF validateNacked, TypeOK, txVars, dirVars
<1>20. ASSUME NEW a \in Addr, grant(p, a)
       PROVE  /\ copy' \in [Proc -> [Addr -> {"I", "S", "M"}]]
              /\ sharers' \in [Addr -> SUBSET Proc]
              /\ exclusive' \in [Addr -> Proc \cup {None}]
  <2>1. copy' \in [Proc -> [Addr -> {"I", "S", "M"}]]
    <3>1. \E c \in {"I", "S", "M"} : copy' = [copy EXCEPT ![p][a] = c]
      BY Zenon, <1>20 DEF grant
    <3> QED
      BY Zenon, <3>1, AccessTypes DEF TypeOK
  <2> DEFINE P == IF req[p][a].kind # "GETS" THEN {}
                  ELSE IF exclusive[a] # None THEN {exclusive[a], p}
                  ELSE IF sharers[a] = {} THEN {} ELSE sharers[a] \cup {p}
             q == IF req[p][a].kind # "GETS"
                     \/ (sharers[a] = {} /\ exclusive[a] = None)
                  THEN p ELSE None
  <2>2. P \in SUBSET Proc /\ q \in Proc \cup {None}
    BY DEF TypeOK
  <2>3. sharers' = [sharers EXCEPT ![a] = P] /\ exclusive' = [exclusive EXCEPT ![a] = q]
    BY Zenon, <1>20 DEF grant
  <2> HIDE DEF P, q
  <2> QED
    BY Zenon, <2>1, <2>2, <2>3 DEF TypeOK
<1>21. ASSUME NEW a \in Addr, receiveData(p, a)
       PROVE  TypeOK'
  <2>1. /\ readSet' \in [Proc -> [Addr -> Data]]
        /\ writeSet' \in [Proc -> [Addr -> Written]]
    <3>1. /\ readSet' = readSet
             \/ \E v \in Val : readSet' = [readSet EXCEPT ![p][a] = v]
          /\ writeSet' = writeSet
             \/ \E v \in Val : writeSet' = [writeSet EXCEPT ![p][a] = v]
      BY Zenon, <1>21 DEF receiveData, TypeOK
    <3> QED
      BY Zenon, <3>1, AccessTypes DEF TypeOK, Data, Written
  <2>2. grant(p, a) /\ UNCHANGED <<abortFlag, consumed, validation>>
    BY Zenon, <1>21 DEF receiveData
  <2> QED
    BY Zenon, <1>16, <1>20, <2>1, <2>2 DEF grant, TypeOK, txVars
<1>22. ASSUME NEW a \in Addr, validateDataBlock(p, a)
       PROVE  TypeOK'
  <2>1. /\ abortFlag' \in [Proc -> BOOLEAN]
        /\ consumed' \in [Proc -> [Addr -> {None} \cup ConsumedType]]
    BY Zenon, <1>22 DEF validateDataBlock, TypeOK
  <2>2. validation' \in [Proc -> Addr \cup {None}]
    BY <1>22 DEF validateDataBlock, ConsumedBlocks, TypeOK
  <2>3. grant(p, a) /\ UNCHANGED <<readSet, writeSet>>
    BY Zenon, <1>22 DEF validateDataBlock
  <2> QED
    BY Zenon, <1>16, <1>20, <2>1, <2>2, <2>3 DEF grant, TypeOK, txVars
<1> QED
  BY Zenon, <1>1, <1>2, <1>3, <1>4, <1>5, <1>6, <1>7, <1>8, <1>9, <1>10, <1>11, <1>12,
     <1>13, <1>14, <1>15, <1>17, <1>18, <1>19, <1>21, <1>22 DEF Step

-----------------------------------------------------------------------------
(* What a step changes                                                     *)

\* The request that is answered is the only one that leaves the tables.
LEMMA CompleteEffect ==
  ASSUME TypeOK, NEW p \in Proc, NEW a \in Addr, complete(p, a)
  PROVE  /\ req'[p][a] = NoReq /\ busy'[a] = None
         /\ \A q \in Proc, b \in Addr : q # p \/ b # a => req'[q][b] = req[q][b]
         /\ \A b \in Addr : b # a => busy'[b] = busy[b]
<1>1. req \in [Proc -> [Addr -> ReqType]] /\ busy \in [Addr -> {None} \cup BusyType]
  BY Zenon DEF TypeOK
<1> QED
  BY Zenon, <1>1 DEF complete

\* ... and of its core, that request only.
LEMMA CompleteOwn ==
  ASSUME TypeOK, NEW p \in Proc, NEW a \in Addr, complete(p, a)
  PROVE  /\ req'[p][a].kind = "none"
         /\ \A b \in Addr : b # a => req'[p][b] = req[p][b]
<1>1. NoReq.kind = "none"
  BY Zenon DEF NoReq
<1> QED
  BY Zenon, <1>1, CompleteEffect

\* A forwarded block is consumed, with its producers, and enters the sets of
\* its core; the other blocks of the core are left alone.
LEMMA ForwardedEffect ==
  ASSUME TypeOK, NEW p \in Proc, NEW a \in Addr,
         notifyForwardedDataFromProducer(p, a)
  PROVE  /\ consumed'[p][a] \in ConsumedType /\ consumed'[p][a] # None
         /\ consumed'[p][a].data = busy[a].data
         /\ consumed'[p][a].from = busy[a].from
         /\ \A b \in Addr : b # a =>
              /\ consumed'[p][b] = consumed[p][b]
              /\ readSet'[p][b] = readSet[p][b]
              /\ writeSet'[p][b] = writeSet[p][b]
<1> DEFINE c == [data |-> busy[a].data, nVal |-> 0, from |-> busy[a].from]
<1>1. busy[a] \in BusyType /\ busy[a].data \in Val
  BY Zenon
  DEF notifyForwardedDataFromProducer, Answered, Usable, TypeOK, BusyType, Data
<1>2. c \in ConsumedType /\ c.data = busy[a].data /\ c.from = busy[a].from
  BY <1>1 DEF BusyType, ConsumedType
<1>3. consumed' = [consumed EXCEPT ![p][a] = c]
  BY Zenon DEF notifyForwardedDataFromProducer
<1> HIDE DEF c
<1>4. consumed \in [Proc -> [Addr -> {None} \cup ConsumedType]]
  BY Zenon DEF TypeOK
<1>5. /\ consumed'[p][a] = c
      /\ \A b \in Addr : b # a => consumed'[p][b] = consumed[p][b]
  BY Zenon, <1>3, <1>4
<1>6. /\ readSet \in [Proc -> [Addr -> Data]]
      /\ writeSet \in [Proc -> [Addr -> Written]]
  BY Zenon DEF TypeOK
<1>7. readSet' = readSet \/ readSet' = [readSet EXCEPT ![p][a] = busy[a].data]
  BY Zenon DEF notifyForwardedDataFromProducer
<1>8. \E v : writeSet' = [writeSet EXCEPT ![p][a] = v]
  BY Zenon DEF notifyForwardedDataFromProducer
<1>9. \A b \in Addr : b # a => readSet'[p][b] = readSet[p][b]
  BY Zenon, <1>6, <1>7
<1>10. \A b \in Addr : b # a => writeSet'[p][b] = writeSet[p][b]
  BY Zenon, <1>6, <1>8
<1> QED
  BY Zenon, <1>2, <1>5, <1>9, <1>10, NoneAssumption

\* A grant changes the permissions of one core on one block.
LEMMA GrantOthers ==
  ASSUME TypeOK, NEW p \in Proc, NEW a \in Addr, grant(p, a)
  PROVE  /\ \A q \in Proc, b \in Addr : q # p \/ b # a => copy'[q][b] = copy[q][b]
         /\ \A b \in Addr : b # a =>
              exclusive'[b] = exclusive[b] /\ sharers'[b] = sharers[b]
<1>1. copy \in [Proc -> [Addr -> {"I", "S", "M"}]]
  BY Zenon DEF TypeOK
<1>2. \A q \in Proc, b \in Addr : q # p \/ b # a => copy'[q][b] = copy[q][b]
  BY Zenon, <1>1 DEF grant
<1>3. exclusive \in [Addr -> Proc \cup {None}] /\ sharers \in [Addr -> SUBSET Proc]
  BY Zenon DEF TypeOK
<1>4. \A b \in Addr : b # a =>
        exclusive'[b] = exclusive[b] /\ sharers'[b] = sharers[b]
  BY Zenon, <1>3 DEF grant
<1> QED
  BY Zenon, <1>2, <1>4

\* The permissions after a request that nobody nacked: shared for a load of a
\* block that somebody else may hold, exclusive otherwise.
LEMMA GrantHere ==
  ASSUME TypeOK, NEW p \in Proc, NEW a \in Addr, grant(p, a)
  PROVE  \/ /\ req[p][a].kind = "GETS"
            /\ copy'[p][a] = "S" /\ exclusive'[a] = None
            /\ p \in sharers'[a]
            /\ exclusive[a] # None => exclusive[a] \in sharers'[a]
            /\ exclusive[a] = None => sharers[a] \subseteq sharers'[a]
         \/ /\ req[p][a].kind # "GETS" \/ (exclusive[a] = None /\ sharers[a] = {})
            /\ copy'[p][a] = "M" /\ exclusive'[a] = p
<1>1. copy \in [Proc -> [Addr -> {"I", "S", "M"}]]
  BY Zenon DEF TypeOK
<1>2. exclusive \in [Addr -> Proc \cup {None}] /\ sharers \in [Addr -> SUBSET Proc]
  BY Zenon DEF TypeOK
<1>3. CASE req[p][a].kind = "GETS" /\ (exclusive[a] # None \/ sharers[a] # {})
  <2>1. copy' = [copy EXCEPT ![p][a] = "S"]
    BY Zenon, <1>3 DEF grant
  <2>2. exclusive' = [exclusive EXCEPT ![a] = None]
    BY Zenon, <1>3 DEF grant
  <2>3. sharers' = [sharers EXCEPT ![a] =
          IF exclusive[a] # None THEN {exclusive[a], p} ELSE sharers[a] \cup {p}]
    BY Zenon, <1>3 DEF grant
  <2>4. copy'[p][a] = "S" /\ exclusive'[a] = None
    BY Zenon, <1>1, <1>2, <2>1, <2>2
  <2>5. sharers'[a] = IF exclusive[a] # None THEN {exclusive[a], p}
                      ELSE sharers[a] \cup {p}
    BY Zenon, <1>2, <2>3
  <2> QED
    BY Zenon, <1>3, <2>4, <2>5
<1>4. CASE ~(req[p][a].kind = "GETS" /\ (exclusive[a] # None \/ sharers[a] # {}))
  <2>1. copy' = [copy EXCEPT ![p][a] = "M"]
    BY Zenon, <1>4 DEF grant
  <2>2. exclusive' = [exclusive EXCEPT ![a] = p]
    BY Zenon, <1>4 DEF grant
  <2> QED
    BY Zenon, <1>1, <1>2, <1>4, <2>1, <2>2
<1> QED
  BY Zenon, <1>3, <1>4

\* A step of one core leaves the state of the others alone, except that it may
\* abort their transactions and take their permissions.
OthersKept(p) ==
  \A q \in Proc : q # p =>
    /\ uid'[q] = uid[q] /\ lastAbortUid'[q] = lastAbortUid[q]
    /\ inTx'[q] = inTx[q] /\ powered'[q] = powered[q]
    /\ commitPending'[q] = commitPending[q] /\ prio'[q] = prio[q]
    /\ readSet'[q] = readSet[q] /\ writeSet'[q] = writeSet[q]
    /\ consumed'[q] = consumed[q] /\ sentTo'[q] = sentTo[q]
    /\ validation'[q] = validation[q] /\ req'[q] = req[q]
    /\ abortFlag[q] => abortFlag'[q]
    /\ ~inTx[q] => abortFlag'[q] = abortFlag[q]
    /\ \A a \in Addr : copy[q][a] = "I" => copy'[q][a] = "I"

\* Whatever core p does, the transactions of the others are left alone, except
\* that they may fail.
LEMMA OthersStep ==
  ASSUME TypeOK, NEW p \in Proc, Step(p)
  PROVE  OthersKept(p) /\ config' = config
<1>1. CASE beginTransaction(p)
  BY Zenon, <1>1 DEF beginTransaction, OthersKept, TypeOK, fwdVars, dirVars
<1>2. CASE validateConsumedData(p)
  BY Zenon, <1>2 DEF validateConsumedData, OthersKept, TypeOK, txVars, dirVars
<1>3. CASE initiateCommitTransaction(p) \/ signalAbort(p)
  BY Zenon, <1>3
  DEF initiateCommitTransaction, signalAbort, OthersKept, TypeOK, fwdVars,
      dirVars
<1>4. CASE commitTransaction(p)
  BY Zenon, <1>4 DEF commitTransaction, resetTransaction, OthersKept, TypeOK
<1>5. CASE abortTransaction(p)
  BY Zenon, <1>5 DEF abortTransaction, resetTransaction, OthersKept, TypeOK
<1>6. ASSUME NEW a \in Addr, loadHit(p, a)
      PROVE  OthersKept(p) /\ config' = config
  BY Zenon, <1>6 DEF loadHit, OthersKept, TypeOK, txVars, fwdVars, dirVars
<1>7. ASSUME NEW a \in Addr, nonTransactionalLoad(p, a)
      PROVE  OthersKept(p) /\ config' = config
  BY Zenon, <1>7
  DEF nonTransactionalLoad, OthersKept, TypeOK, txVars, fwdVars,
      checkWriteSignature
<1>8. ASSUME NEW a \in Addr, NEW v \in TxVal, storeHit(p, a, v)
      PROVE  OthersKept(p) /\ config' = config
  BY Zenon, <1>8 DEF storeHit, OthersKept, TypeOK, txVars, fwdVars, dirVars
<1>9. ASSUME NEW a \in Addr, NEW v \in OutsideVal, nonTransactionalStore(p, a, v)
      PROVE  OthersKept(p) /\ config' = config
  BY Zenon, <1>9
  DEF nonTransactionalStore, OthersKept, TypeOK, txVars, fwdVars,
      checkReadSignature, checkWriteSignature
<1>10. ASSUME NEW a \in Addr, NEW kind \in {"GETS", "GETX"},
              issueRequest(p, a, kind)
       PROVE  OthersKept(p) /\ config' = config
  BY Zenon, <1>10 DEF issueRequest, OthersKept, TypeOK, txVars, fwdVars, dirVars
<1>11. ASSUME NEW a \in Addr, xactReplacement(p, a)
       PROVE  OthersKept(p) /\ config' = config
  BY Zenon, <1>11 DEF xactReplacement, OthersKept, TypeOK, txVars, fwdVars, dirVars
<1>12. ASSUME NEW a \in Addr, L1_Replacement(p, a)
       PROVE  OthersKept(p) /\ config' = config
  BY Zenon, <1>12 DEF L1_Replacement, OthersKept, TypeOK, txVars, fwdVars
<1>13. ASSUME NEW a \in Addr, serveRequest(p, a)
       PROVE  OthersKept(p) /\ config' = config
  BY Zenon, <1>13 DEF serveRequest, OthersKept, TypeOK, txVars, fwdVars, dirVars
<1>14. ASSUME NEW a \in Addr, answerAck(p, a)
       PROVE  OthersKept(p) /\ config' = config
  BY Zenon, <1>14 DEF answerAck, OthersKept, TypeOK, txVars, fwdVars
<1>15. ASSUME NEW a \in Addr, answerNack(p, a)
       PROVE  OthersKept(p) /\ config' = config
  <2>1. \A q \in Proc : q # p => prio'[q] = prio[q] /\ sentTo'[q] = sentTo[q]
    BY Zenon, <1>15 DEF answerNack, addConsumer, TypeOK
  <2> QED
    BY Zenon, <1>15, <2>1 DEF answerNack, OthersKept, TypeOK, txVars, dirVars
<1>16. ASSUME NEW a \in Addr, receiveNack(p, a)
       PROVE  OthersKept(p) /\ config' = config
  BY Zenon, <1>16
  DEF receiveNack, complete, OthersKept, TypeOK, txVars, fwdVars, dirVars
<1>17. ASSUME NEW a \in Addr, notifyForwardedDataFromProducer(p, a)
       PROVE  OthersKept(p) /\ config' = config
  BY <1>17
  DEF notifyForwardedDataFromProducer, complete, scheduleFirst, OthersKept,
      TypeOK, txVars, dirVars
<1>18. ASSUME NEW a \in Addr, validateNacked(p, a)
       PROVE  OthersKept(p) /\ config' = config
  BY Zenon, <1>18
  DEF validateNacked, countValidation, complete, OthersKept, TypeOK, txVars,
      dirVars
<1>19. ASSUME NEW a \in Addr, receiveData(p, a)
       PROVE  OthersKept(p) /\ config' = config
  BY Zenon, <1>19 DEF receiveData, grant, complete, OthersKept, TypeOK, txVars
<1>20. ASSUME NEW a \in Addr, validateDataBlock(p, a)
       PROVE  OthersKept(p) /\ config' = config
  BY Zenon, <1>20 DEF validateDataBlock, grant, complete, OthersKept, TypeOK, txVars
<1> QED
  BY Zenon, <1>1, <1>2, <1>3, <1>4, <1>5, <1>6, <1>7, <1>8, <1>9, <1>10, <1>11, <1>12,
     <1>13, <1>14, <1>15, <1>16, <1>17, <1>18, <1>19, <1>20 DEF Step

-----------------------------------------------------------------------------
(* Each core's transaction, requests and validations                       *)

\* The invariant of a core is not disturbed by the steps of another.
LEMMA OtherCores ==
  ASSUME NEW p \in Proc, OthersKept(p), NEW q \in Proc, q # p, CoreInv(q)
  PROVE  /\ Quiet(q)' /\ Uids(q)' /\ Validating(q)'
         /\ \A a \in Addr : Requested(q, a)'
<1>1. Quiet(q)'
  BY Zenon DEF CoreInv, OthersKept, Quiet
<1>2. Uids(q)'
  BY Zenon DEF CoreInv, OthersKept, Uids
<1>3. Live(q)' => Live(q)
  BY Zenon DEF OthersKept, Live
<1>4. /\ ConsumedBlocks(q)' = ConsumedBlocks(q) /\ isConsumer(q)' = isConsumer(q)
      /\ InFlight(q)' = InFlight(q)
  BY DEF OthersKept, ConsumedBlocks, isConsumer, InFlight, Current
<1>5. Validating(q)'
  BY Zenon, <1>3, <1>4 DEF CoreInv, OthersKept, Validating
<1>6. \A a \in Addr : Requested(q, a)'
  BY <1>3 DEF CoreInv, OthersKept, Requested, Current
<1> QED
  BY Zenon, <1>1, <1>2, <1>5, <1>6

\* Commit and abort leave nothing behind (resetTransaction).
LEMMA QuietStep ==
  ASSUME CInv, NEW p \in Proc, Step(p), TypeOK'
  PROVE  Quiet(p)'
<1> USE DEF Quiet
<1>0. TypeOK /\ Quiet(p)
  BY Zenon DEF CInv, CoreInv
<1>1. CASE beginTransaction(p)
  BY Zenon, <1>0, <1>1 DEF beginTransaction, TypeOK
<1>2. CASE validateConsumedData(p)
  BY Zenon, <1>0, <1>2 DEF validateConsumedData, TypeOK, txVars
<1>3. CASE initiateCommitTransaction(p) \/ signalAbort(p)
  BY Zenon, <1>0, <1>3 DEF initiateCommitTransaction, signalAbort, TypeOK, fwdVars
<1>4. CASE commitTransaction(p)
  <2>1. \A a \in Addr : consumed[p][a] = None
    BY Zenon, <1>4
    DEF commitTransaction, Live, canCommitTransaction, isConsumer, ConsumedBlocks
  <2>2. consumed[p] = NoBlocks
    BY Zenon, <1>0, <2>1 DEF TypeOK, NoBlocks
  <2>3. validation[p] = None
    BY Zenon, <1>4
    DEF CInv, CoreInv, Validating, commitTransaction, Live, canCommitTransaction
  <2> QED
    BY <1>0, <1>4, <2>2, <2>3
    DEF commitTransaction, resetTransaction, Live, TypeOK, NoBlocks
<1>5. CASE abortTransaction(p)
  BY <1>0, <1>5 DEF abortTransaction, resetTransaction, TypeOK, NoBlocks
<1>6. ASSUME NEW a \in Addr, loadHit(p, a)
      PROVE  Quiet(p)'
  BY Zenon, <1>6 DEF loadHit, Live, txVars
<1>7. ASSUME NEW a \in Addr, nonTransactionalLoad(p, a)
      PROVE  Quiet(p)'
  BY Zenon, <1>0, <1>7
  DEF nonTransactionalLoad, TypeOK, txVars, fwdVars, checkWriteSignature
<1>8. ASSUME NEW a \in Addr, NEW v \in TxVal, storeHit(p, a, v)
      PROVE  Quiet(p)'
  BY Zenon, <1>8 DEF storeHit, Live, txVars
<1>9. ASSUME NEW a \in Addr, NEW v \in OutsideVal, nonTransactionalStore(p, a, v)
      PROVE  Quiet(p)'
  BY Zenon, <1>0, <1>9
  DEF nonTransactionalStore, TypeOK, txVars, fwdVars, checkReadSignature,
      checkWriteSignature
<1>10. ASSUME NEW a \in Addr, NEW kind \in {"GETS", "GETX"},
              issueRequest(p, a, kind)
       PROVE  Quiet(p)'
  BY Zenon, <1>10 DEF issueRequest, Live, txVars
<1>11. ASSUME NEW a \in Addr, xactReplacement(p, a)
       PROVE  Quiet(p)'
  BY Zenon, <1>11 DEF xactReplacement, checkWriteSignature, txVars
<1>12. ASSUME NEW a \in Addr, L1_Replacement(p, a)
       PROVE  Quiet(p)'
  BY Zenon, <1>0, <1>12
  DEF L1_Replacement, TypeOK, txVars, fwdVars, checkReadSignature,
      checkWriteSignature
<1>13. ASSUME NEW a \in Addr, serveRequest(p, a)
       PROVE  Quiet(p)'
  BY Zenon, <1>0, <1>13 DEF serveRequest, txVars, fwdVars
<1>14. ASSUME NEW a \in Addr, answerAck(p, a)
       PROVE  Quiet(p)'
  BY <1>0, <1>14
  DEF answerAck, TypeOK, txVars, fwdVars, hasConflict, checkReadSignature,
      checkWriteSignature
<1>15. ASSUME NEW a \in Addr, answerNack(p, a)
       PROVE  Quiet(p)'
  BY Zenon, <1>15
  DEF answerNack, hasConflict, checkReadSignature, checkWriteSignature, txVars
<1>16. ASSUME NEW a \in Addr, receiveNack(p, a)
       PROVE  Quiet(p)'
  BY Zenon, <1>0, <1>16 DEF receiveNack, TypeOK, txVars, fwdVars
<1>17. ASSUME NEW a \in Addr, notifyForwardedDataFromProducer(p, a)
       PROVE  Quiet(p)'
  BY Zenon, <1>17 DEF notifyForwardedDataFromProducer, Usable, Current, txVars
<1>18. ASSUME NEW a \in Addr, validateNacked(p, a)
       PROVE  Quiet(p)'
  BY Zenon, <1>18 DEF validateNacked, Usable, Current, txVars
<1>19. ASSUME NEW a \in Addr, receiveData(p, a)
       PROVE  Quiet(p)'
  BY Zenon, <1>0, <1>19 DEF receiveData, grant, Current, txVars
<1>20. ASSUME NEW a \in Addr, validateDataBlock(p, a)
       PROVE  Quiet(p)'
  BY Zenon, <1>20 DEF validateDataBlock, grant, Current, txVars
<1> QED
  BY Zenon, <1>1, <1>2, <1>3, <1>4, <1>5, <1>6, <1>7, <1>8, <1>9, <1>10, <1>11, <1>12,
     <1>13, <1>14, <1>15, <1>16, <1>17, <1>18, <1>19, <1>20 DEF Step

\* The requests of a core after a step of its own.
LEMMA RequestStep ==
  ASSUME CInv, NEW p \in Proc, Step(p), NEW b \in Addr, req'[p][b] # req[p][b]
  PROVE  /\ UNCHANGED <<inTx, uid>>
         /\ \/ complete(p, b) /\ req'[p][b] = NoReq
            \/ /\ req[p][b].kind = "none" /\ Live(p)
               /\ req'[p][b].kind \in {"GETS", "GETX", "VAL"}
               /\ req'[p][b].uid = uid[p] /\ req'[p][b].sw = powered[p]
               /\ req'[p][b].prio = prio[p]
<1>0. TypeOK /\ Quiet(p)
  BY Zenon DEF CInv, CoreInv
<1>1. CASE validateConsumedData(p)
  <2>1. inTx[p]
    BY Zenon, <1>0, <1>1 DEF validateConsumedData, Quiet
  <2>2. b = validation[p] /\ ~abortFlag[p] /\ req[p][b].kind = "none"
        /\ req'[p][b] = [kind |-> "VAL", uid |-> uid[p], prio |-> prio[p],
                         sw |-> powered[p]]
    BY <1>0, <1>1 DEF validateConsumedData, TypeOK
  <2> QED
    BY <1>1, <2>1, <2>2 DEF validateConsumedData, txVars, Live
<1>2. ASSUME NEW a \in Addr, NEW kind \in {"GETS", "GETX"},
             issueRequest(p, a, kind)
      PROVE  /\ UNCHANGED <<inTx, uid>>
             /\ req[p][b].kind = "none" /\ Live(p)
             /\ req'[p][b].kind \in {"GETS", "GETX", "VAL"}
             /\ req'[p][b].uid = uid[p] /\ req'[p][b].sw = powered[p]
             /\ req'[p][b].prio = prio[p]
  <2>1. a = b /\ req'[p][b] = [kind |-> kind, uid |-> uid[p], prio |-> prio[p],
                               sw |-> powered[p]]
    BY Zenon, <1>0, <1>2 DEF issueRequest, TypeOK
  <2> QED
    BY <1>2, <2>1 DEF issueRequest, txVars
<1>3. ASSUME NEW a \in Addr, complete(p, a), UNCHANGED <<inTx, uid>>
      PROVE  UNCHANGED <<inTx, uid>> /\ complete(p, b) /\ req'[p][b] = NoReq
  BY <1>0, <1>3, CompleteEffect
<1>4. \/ validateConsumedData(p)
      \/ \E a \in Addr, kind \in {"GETS", "GETX"} : issueRequest(p, a, kind)
      \/ \E a \in Addr : complete(p, a) /\ UNCHANGED <<inTx, uid>>
  <2>1. ASSUME NEW a \in Addr,
               receiveNack(p, a) \/ notifyForwardedDataFromProducer(p, a)
               \/ validateNacked(p, a) \/ receiveData(p, a)
               \/ validateDataBlock(p, a)
        PROVE  complete(p, a) /\ UNCHANGED <<inTx, uid>>
    BY Zenon, <2>1
    DEF receiveNack, notifyForwardedDataFromProducer, validateNacked,
        receiveData, validateDataBlock, grant, txVars
  <2>2. CASE beginTransaction(p) \/ initiateCommitTransaction(p)
             \/ commitTransaction(p) \/ signalAbort(p) \/ abortTransaction(p)
    BY Zenon, <2>2
    DEF beginTransaction, initiateCommitTransaction, commitTransaction,
        signalAbort, abortTransaction, resetTransaction
  <2>3. ASSUME NEW a \in Addr,
               \/ loadHit(p, a) \/ nonTransactionalLoad(p, a)
               \/ \E v \in TxVal : storeHit(p, a, v)
               \/ \E v \in OutsideVal : nonTransactionalStore(p, a, v)
               \/ xactReplacement(p, a) \/ L1_Replacement(p, a)
               \/ serveRequest(p, a) \/ answerAck(p, a) \/ answerNack(p, a)
        PROVE  FALSE
    BY Zenon, <2>3
    DEF loadHit, nonTransactionalLoad, storeHit, nonTransactionalStore,
        xactReplacement, L1_Replacement, serveRequest, answerAck, answerNack
  <2> QED
    BY Zenon, <2>1, <2>2, <2>3 DEF Step
<1> QED
  BY Zenon, <1>1, <1>2, <1>3, <1>4

\* A request is never of a transaction still to come (m_currentHtmUid).
LEMMA UidsStep ==
  ASSUME CInv, NEW p \in Proc, Step(p), TypeOK'
  PROVE  Uids(p)'
<1>0. TypeOK /\ Uids(p)
  BY Zenon DEF CInv, CoreInv
<1>1. uid[p] \in Nat /\ lastAbortUid[p] \in Nat
  BY <1>0, BoundAssumption DEF TypeOK
<1>2. \A b \in Addr : req[p][b].uid \in Nat
  BY <1>0 DEF TypeOK, ReqType
<1>3. CASE beginTransaction(p)
  <2>1. uid'[p] = uid[p] + 1 /\ lastAbortUid' = lastAbortUid /\ req' = req
    BY Zenon, <1>0, <1>3 DEF beginTransaction, TypeOK
  <2> QED
    BY <1>0, <1>1, <1>2, <2>1 DEF Uids
<1>4. CASE abortTransaction(p)
  BY <1>0, <1>1, <1>4 DEF abortTransaction, resetTransaction, TypeOK, Uids
<1>5. CASE /\ uid' = uid /\ lastAbortUid' = lastAbortUid
           /\ inTx'[p] => inTx[p]
  <2>1. ASSUME NEW b \in Addr
        PROVE  req'[p][b].uid <= uid[p]
    <3>1. CASE req'[p][b] = req[p][b]
      BY Zenon, <1>0, <3>1 DEF Uids
    <3>2. CASE req'[p][b] # req[p][b]
      BY <1>1, <3>2, RequestStep DEF NoReq
    <3> QED
      BY Zenon, <3>1, <3>2
  <2> QED
    BY Zenon, <1>0, <1>5, <2>1 DEF Uids
<1>6. \/ beginTransaction(p) \/ abortTransaction(p)
      \/ uid' = uid /\ lastAbortUid' = lastAbortUid /\ (inTx'[p] => inTx[p])
  <2>1. ASSUME NEW a \in Addr,
               \/ loadHit(p, a) \/ nonTransactionalLoad(p, a)
               \/ \E v \in TxVal : storeHit(p, a, v)
               \/ \E v \in OutsideVal : nonTransactionalStore(p, a, v)
               \/ xactReplacement(p, a) \/ L1_Replacement(p, a)
               \/ serveRequest(p, a) \/ answerAck(p, a) \/ answerNack(p, a)
        PROVE  UNCHANGED txVars
    BY Zenon, <2>1
    DEF loadHit, nonTransactionalLoad, storeHit, nonTransactionalStore,
        xactReplacement, L1_Replacement, serveRequest, answerAck, answerNack
  <2>2. ASSUME NEW a \in Addr,
               \/ receiveNack(p, a) \/ notifyForwardedDataFromProducer(p, a)
               \/ validateNacked(p, a) \/ receiveData(p, a)
               \/ validateDataBlock(p, a)
               \/ \E kind \in {"GETS", "GETX"} : issueRequest(p, a, kind)
        PROVE  UNCHANGED txVars
    BY Zenon, <2>2
    DEF receiveNack, notifyForwardedDataFromProducer, validateNacked,
        receiveData, validateDataBlock, grant, issueRequest
  <2>3. CASE validateConsumedData(p) \/ initiateCommitTransaction(p)
             \/ signalAbort(p)
    BY Zenon, <2>3
    DEF validateConsumedData, initiateCommitTransaction, signalAbort, txVars
  <2>4. CASE commitTransaction(p)
    BY <1>0, <2>4 DEF commitTransaction, resetTransaction, TypeOK
  <2> QED
    BY Zenon, <2>1, <2>2, <2>3, <2>4 DEF Step, txVars
<1> QED
  BY Zenon, <1>3, <1>4, <1>5, <1>6

\* A block for which nothing that Requested reads has changed.
LEMMA RequestedKept ==
  ASSUME NEW p \in Proc, NEW b \in Addr, Requested(p, b),
         req'[p][b] = req[p][b], UNCHANGED <<inTx, uid>>,
         consumed'[p][b] # None => consumed[p][b] # None,
         Live(p)' => Live(p), copy[p][b] = "I" => copy'[p][b] = "I",
         readSet'[p][b] = readSet[p][b], writeSet'[p][b] = writeSet[p][b]
  PROVE  Requested(p, b)'
BY Zenon DEF Requested, Current

\* A consumed block has at most its validation outstanding, and a load is not
\* requested twice.
LEMMA RequestedStep ==
  ASSUME CInv, NEW p \in Proc, Step(p), TypeOK', NEW b \in Addr
  PROVE  Requested(p, b)'
<1>0. TypeOK /\ Quiet(p) /\ Uids(p) /\ Requested(p, b) /\ Isolated(p, b)
      /\ Validating(p) /\ Copies(p, b)
  BY Zenon DEF CInv, CoreInv
<1>a. NoReq.kind = "none"
  BY Zenon DEF NoReq
<1>1. CASE beginTransaction(p)
  <2>1. req' = req /\ req'[p][b].uid # uid'[p] /\ consumed'[p][b] = None
        /\ copy' = copy
    <3>1. uid'[p] = uid[p] + 1 /\ uid[p] \in Nat /\ req[p][b].uid \in Nat
          /\ req[p][b].uid <= uid[p]
      BY <1>0, <1>1, BoundAssumption DEF beginTransaction, TypeOK, ReqType, Uids
    <3> QED
      BY <1>0, <1>1, <3>1
      DEF beginTransaction, Quiet, NoBlocks, fwdVars, dirVars
  <2> QED
    BY Zenon, <1>0, <2>1 DEF Requested, Current
<1>2. CASE validateConsumedData(p)
  <2>1. CASE req'[p][b] = req[p][b]
    BY Zenon, <1>0, <1>2, <2>1, RequestedKept
    DEF validateConsumedData, txVars, dirVars, Live
  <2>2. CASE req'[p][b] # req[p][b]
    <3>1. req'[p][b].kind = "VAL" /\ req'[p][b].uid = uid[p] /\ inTx[p]
      BY <1>0, <1>2, <2>2 DEF validateConsumedData, TypeOK, Quiet
    <3> QED
      BY Zenon, <1>0, <1>2, <3>1
      DEF validateConsumedData, Requested, Current, txVars
  <2> QED
    BY Zenon, <2>1, <2>2
<1>3. CASE initiateCommitTransaction(p) \/ signalAbort(p)
  BY Zenon, <1>0, <1>3, RequestedKept
  DEF initiateCommitTransaction, signalAbort, fwdVars, dirVars, Live
<1>4. CASE commitTransaction(p)
  <2>1. consumed[p][b] = None
    BY Zenon, <1>4
    DEF commitTransaction, Live, canCommitTransaction, isConsumer, ConsumedBlocks
  <2> QED
    BY <1>0, <1>4, <2>1
    DEF commitTransaction, resetTransaction, TypeOK, Requested, Live
<1>5. CASE abortTransaction(p)
  <2>1. consumed'[p][b] = None
    BY Zenon, <1>0, <1>5 DEF abortTransaction, TypeOK
  <2> QED
    BY <1>0, <1>5, <2>1
    DEF abortTransaction, resetTransaction, TypeOK, Requested, Live
<1>6. ASSUME NEW a \in Addr,
             loadHit(p, a) \/ \E v \in TxVal : storeHit(p, a, v)
      PROVE  Requested(p, b)'
  <2>0. \/ /\ readSet' = [readSet EXCEPT ![p][a] = mem[a]]
           /\ writeSet' = writeSet
        \/ /\ \E v \in TxVal : writeSet' = [writeSet EXCEPT ![p][a] = v]
           /\ readSet' = readSet
    BY Zenon, <1>6 DEF loadHit, storeHit
  <2>t. /\ readSet \in [Proc -> [Addr -> Data]]
        /\ writeSet \in [Proc -> [Addr -> Written]]
    BY Zenon, <1>0 DEF TypeOK
  <2>1. CASE b # a
    <3>1. readSet'[p][b] = readSet[p][b] /\ writeSet'[p][b] = writeSet[p][b]
      BY Zenon, <2>0, <2>t, <2>1
    <3>2. UNCHANGED <<inTx, uid, abortFlag, consumed, req, copy>>
      BY Zenon, <1>6 DEF loadHit, storeHit, txVars, fwdVars, dirVars
    <3> QED
      BY Zenon, <1>0, <3>1, <3>2, RequestedKept DEF Live
  <2>2. CASE b = a
    <3>1. req'[p][b].kind = "none" /\ consumed'[p][b] = consumed[p][b]
      BY Zenon, <1>6, <2>2 DEF loadHit, storeHit, fwdVars
    <3>2. /\ readSet[p][b] # None => readSet'[p][b] # None
          /\ writeSet[p][b] # None => writeSet'[p][b] # None
      <4>1. mem[a] # None /\ \A v \in TxVal : v # None
        <5>1. mem \in [Addr -> Val]
          BY Zenon, <1>0 DEF TypeOK
        <5> QED
          BY <5>1, ValAssumption
      <4> QED
        BY Zenon, <2>0, <2>t, <2>2, <4>1
    <3> QED
      BY Zenon, <1>0, <3>1, <3>2 DEF Requested
  <2> QED
    BY Zenon, <2>1, <2>2
<1>7. ASSUME NEW a \in Addr,
             nonTransactionalLoad(p, a)
             \/ \E v \in OutsideVal : nonTransactionalStore(p, a, v)
      PROVE  Requested(p, b)'
  <2>1. /\ req' = req /\ consumed' = consumed /\ readSet' = readSet
        /\ writeSet' = writeSet /\ UNCHANGED <<inTx, uid>> /\ ~inTx[p]
        /\ req[p][a].kind = "none"
        /\ b # a => copy'[p][b] = copy[p][b]
    BY <1>0, <1>7
    DEF nonTransactionalLoad, nonTransactionalStore, TypeOK, txVars, fwdVars
  <2>2. CASE b # a
    BY Zenon, <1>0, <2>1, <2>2, RequestedKept DEF Live
  <2>3. CASE b = a
    BY Zenon, <1>0, <2>1, <2>3 DEF Requested
  <2> QED
    BY Zenon, <2>2, <2>3
<1>8. ASSUME NEW a \in Addr, NEW kind \in {"GETS", "GETX"},
             issueRequest(p, a, kind)
      PROVE  Requested(p, b)'
  <2> DEFINE r == [kind |-> kind, uid |-> uid[p], prio |-> prio[p],
                   sw |-> powered[p]]
  <2>0. req' = [req EXCEPT ![p][a] = r]
    BY Zenon, <1>8 DEF issueRequest
  <2>t. req \in [Proc -> [Addr -> ReqType]]
    BY Zenon, <1>0 DEF TypeOK
  <2>r. r.kind = kind
    BY Zenon
  <2> HIDE DEF r
  <2>1. CASE b # a
    <3>1. req'[p][b] = req[p][b]
      BY Zenon, <2>0, <2>t, <2>1
    <3>2. UNCHANGED <<inTx, uid, abortFlag, readSet, writeSet, consumed, copy>>
      BY Zenon, <1>8 DEF issueRequest, txVars, fwdVars, dirVars
    <3> QED
      BY Zenon, <1>0, <3>1, <3>2, RequestedKept DEF Live
  <2>2. CASE b = a
    <3>0. req'[p][b] = r
      BY Zenon, <2>0, <2>t, <2>2
    <3>1. req'[p][b].kind = kind /\ consumed[p][b] = None /\ Live(p)
          /\ (kind = "GETS" => copy[p][b] = "I")
      BY Zenon, <1>8, <2>2, <2>r, <3>0 DEF issueRequest
    <3>2. kind = "GETS" => readSet[p][b] = None /\ writeSet[p][b] = None
      BY Zenon, <1>0, <3>1 DEF Isolated
    <3>3. /\ consumed' = consumed /\ copy' = copy /\ readSet' = readSet
          /\ writeSet' = writeSet
      BY Zenon, <1>8 DEF issueRequest, fwdVars, dirVars
    <3> QED
      BY Zenon, <3>1, <3>2, <3>3 DEF Requested
  <2> QED
    BY Zenon, <2>1, <2>2
<1>9. ASSUME NEW a \in Addr, xactReplacement(p, a) \/ serveRequest(p, a)
                             \/ answerNack(p, a)
      PROVE  Requested(p, b)'
  <2>1. UNCHANGED <<inTx, uid, readSet, writeSet, consumed, req, copy>>
    BY Zenon, <1>9
    DEF xactReplacement, serveRequest, answerNack, txVars, fwdVars, dirVars
  <2>2. abortFlag' = abortFlag \/ abortFlag' = [abortFlag EXCEPT ![p] = TRUE]
    BY Zenon, <1>9 DEF xactReplacement, serveRequest, answerNack
  <2>3. abortFlag \in [Proc -> BOOLEAN]
    BY Zenon, <1>0 DEF TypeOK
  <2>4. Live(p)' => Live(p)
    BY Zenon, <2>1, <2>2, <2>3 DEF Live
  <2> QED
    BY Zenon, <1>0, <2>1, <2>4, RequestedKept
<1>10. ASSUME NEW a \in Addr, L1_Replacement(p, a)
       PROVE  Requested(p, b)'
  <2>1. /\ copy[p][b] = "I" => copy'[p][b] = "I"
        /\ abortFlag[p] => abortFlag'[p]
    BY <1>0, <1>10 DEF L1_Replacement, TypeOK
  <2> QED
    BY Zenon, <1>0, <1>10, <2>1, RequestedKept
    DEF L1_Replacement, txVars, fwdVars, Live
<1>11. ASSUME NEW a \in Addr, answerAck(p, a)
       PROVE  Requested(p, b)'
  <2>1. /\ copy[p][b] = "I" => copy'[p][b] = "I"
        /\ abortFlag[p] => abortFlag'[p]
    BY <1>0, <1>11 DEF answerAck, TypeOK
  <2> QED
    BY Zenon, <1>0, <1>11, <2>1, RequestedKept DEF answerAck, txVars, fwdVars, Live
<1>12. ASSUME NEW a \in Addr, receiveNack(p, a)
       PROVE  Requested(p, b)'
  <2>1. complete(p, a) /\ (abortFlag[p] => abortFlag'[p])
    BY Zenon, <1>0, <1>12 DEF receiveNack, TypeOK
  <2>2. CASE b # a
    <3>1. req'[p][b] = req[p][b]
      BY Zenon, <1>0, <2>1, <2>2, CompleteOwn
    <3>2. UNCHANGED <<inTx, uid, consumed, copy, readSet, writeSet>>
      BY Zenon, <1>12 DEF receiveNack, txVars, fwdVars, dirVars
    <3> QED
      BY Zenon, <1>0, <2>1, <3>1, <3>2, RequestedKept DEF Live
  <2>3. CASE b = a
    BY Zenon, <1>0, <1>12, <1>a, <2>1, <2>3, CompleteEffect
    DEF receiveNack, Requested, txVars, fwdVars, dirVars
  <2> QED
    BY Zenon, <2>2, <2>3
<1>13. ASSUME NEW a \in Addr, notifyForwardedDataFromProducer(p, a)
       PROVE  Requested(p, b)'
  <2>1. complete(p, a) /\ Live(p)
    BY Zenon, <1>13 DEF notifyForwardedDataFromProducer, Usable, Current, Live
  <2>2. CASE b # a
    <3>1. req'[p][b] = req[p][b]
      BY Zenon, <1>0, <2>1, <2>2, CompleteOwn
    <3>2. /\ consumed'[p][b] = consumed[p][b]
          /\ readSet'[p][b] = readSet[p][b] /\ writeSet'[p][b] = writeSet[p][b]
      BY Zenon, <1>0, <1>13, <2>2, ForwardedEffect
    <3>3. UNCHANGED <<inTx, uid, copy>>
      BY Zenon, <1>13 DEF notifyForwardedDataFromProducer, txVars, dirVars
    <3> QED
      BY Zenon, <1>0, <2>1, <3>1, <3>2, <3>3, RequestedKept
  <2>3. CASE b = a
    <3>1. busy[a].data # None
      BY Zenon, <1>13 DEF notifyForwardedDataFromProducer, Usable
    <3>2. readSet'[p][b] # None \/ writeSet'[p][b] # None
      BY <1>0, <1>13, <2>3, <3>1, ValAssumption
      DEF notifyForwardedDataFromProducer, TypeOK
    <3> QED
      BY Zenon, <1>0, <1>a, <2>1, <2>3, <3>2, CompleteEffect DEF Requested
  <2> QED
    BY Zenon, <2>2, <2>3
<1>14. ASSUME NEW a \in Addr, validateNacked(p, a)
       PROVE  Requested(p, b)'
  <2>1. complete(p, a) /\ Live(p)
    BY Zenon, <1>14 DEF validateNacked, Usable, Current, Live
  <2>2. consumed[p][a] \in ConsumedType /\ consumed[p][a] # None
    BY <1>0, <1>14, <2>1, NoneAssumption
    DEF validateNacked, Usable, Validating, InFlight, TypeOK, ConsumedBlocks
  <2>3. consumed'[p][b] # None => consumed[p][b] # None
    BY Zenon, <1>0, <1>14, <2>2, CountRecord DEF validateNacked
  <2>4. CASE b # a
    <3>1. req'[p][b] = req[p][b]
      BY Zenon, <1>0, <2>1, <2>4, CompleteOwn
    <3>2. UNCHANGED <<inTx, uid, copy, readSet, writeSet>>
      BY Zenon, <1>14 DEF validateNacked, txVars, dirVars
    <3> QED
      BY Zenon, <1>0, <2>1, <2>3, <3>1, <3>2, RequestedKept
  <2>5. CASE b = a
    BY Zenon, <1>0, <1>14, <1>a, <2>1, <2>3, <2>5, CompleteEffect
    DEF validateNacked, Requested, txVars, dirVars
  <2> QED
    BY Zenon, <2>4, <2>5
<1>15. ASSUME NEW a \in Addr, receiveData(p, a)
       PROVE  Requested(p, b)'
  <2>1. UNCHANGED <<inTx, uid, abortFlag, consumed>>
    BY Zenon, <1>15 DEF receiveData, grant, txVars
  <2>a. req'[p][a] = NoReq /\ (b # a => req'[p][b] = req[p][b])
    <3>1. complete(p, a)
      BY Zenon, <1>15 DEF receiveData, grant
    <3> QED
      BY Zenon, <1>0, <3>1, CompleteEffect
  <2>b. b # a => copy'[p][b] = copy[p][b]
    <3>1. grant(p, a)
      BY Zenon, <1>15 DEF receiveData
    <3> QED
      BY Zenon, <1>0, <3>1, GrantOthers
  <2>2. CASE b # a
    <3>1. readSet'[p][b] = readSet[p][b] /\ writeSet'[p][b] = writeSet[p][b]
      BY <1>0, <1>15, <2>2 DEF receiveData, TypeOK
    <3> QED
      BY Zenon, <1>0, <2>1, <2>a, <2>b, <2>2, <3>1, RequestedKept DEF Live
  <2>3. CASE b = a
    <3>1. /\ readSet[p][b] # None => readSet'[p][b] # None
          /\ writeSet[p][b] # None => writeSet'[p][b] # None
          /\ consumed' = consumed
      BY <1>0, <1>15, <2>3, ValAssumption DEF receiveData, TypeOK
    <3>2. req'[p][b].kind = "none"
      BY Zenon, <1>a, <2>a, <2>3
    <3> QED
      BY Zenon, <1>0, <3>1, <3>2 DEF Requested
  <2> QED
    BY Zenon, <2>2, <2>3
<1>16. ASSUME NEW a \in Addr, validateDataBlock(p, a)
       PROVE  Requested(p, b)'
  <2>1. /\ grant(p, a) /\ (abortFlag[p] => abortFlag'[p])
        /\ consumed'[p][a] = None /\ UNCHANGED <<readSet, writeSet>>
        /\ b # a => consumed'[p][b] = consumed[p][b]
    BY <1>0, <1>16 DEF validateDataBlock, TypeOK
  <2>2. complete(p, a) /\ UNCHANGED <<inTx, uid>>
    BY Zenon, <2>1 DEF grant, txVars
  <2>3. CASE b # a
    <3>1. req'[p][b] = req[p][b]
      BY Zenon, <1>0, <2>2, <2>3, CompleteOwn
    <3>2. copy'[p][b] = copy[p][b]
      BY Zenon, <1>0, <2>1, <2>3, GrantOthers
    <3> QED
      BY Zenon, <1>0, <2>1, <2>2, <2>3, <3>1, <3>2, RequestedKept DEF Live
  <2>4. CASE b = a
    <3>1. req'[p][b].kind = "none"
      BY Zenon, <1>0, <1>a, <2>2, <2>4, CompleteEffect
    <3> QED
      BY Zenon, <2>1, <2>4, <3>1 DEF Requested
  <2> QED
    BY Zenon, <2>3, <2>4
<1> QED
  BY Zenon, <1>1, <1>2, <1>3, <1>4, <1>5, <1>6, <1>7, <1>8, <1>9, <1>10, <1>11, <1>12,
     <1>13, <1>14, <1>15, <1>16 DEF Step

\* A transaction whose validations a step does not change.
LEMMA ValidatingKept ==
  ASSUME NEW p \in Proc, Validating(p),
         Live(p)' =>
           /\ Live(p) /\ validation'[p] = validation[p]
           /\ \A b \in Addr :
                /\ consumed'[p][b] # None <=> consumed[p][b] # None
                /\ Current(p, b)' /\ req'[p][b].kind = "VAL" <=>
                     Current(p, b) /\ req[p][b].kind = "VAL"
  PROVE  Validating(p)'
<1> SUFFICES ASSUME Live(p)' PROVE Validating(p)'
  BY Zenon DEF Validating
<1>1. ConsumedBlocks(p)' = ConsumedBlocks(p) /\ InFlight(p)' = InFlight(p)
  BY Zenon DEF ConsumedBlocks, InFlight
<1>2. isConsumer(p)' = isConsumer(p)
  BY Zenon, <1>1 DEF isConsumer
<1> QED
  BY Zenon, <1>1, <1>2 DEF Validating

\* One validation at a time, from the first consumed block to the last
\* (scheduleFirst, validateConsumedData, validateDataBlock).
LEMMA ValidatingStep ==
  ASSUME NextExists, CInv, NEW p \in Proc, Step(p), TypeOK', Uids(p)'
  PROVE  Validating(p)'
<1>0. TypeOK /\ Quiet(p) /\ Uids(p) /\ Validating(p)
  BY Zenon DEF CInv, CoreInv
<1>1. CASE beginTransaction(p)
  <2>1. uid'[p] = uid[p] + 1 /\ uid[p] \in Nat
    BY <1>0, <1>1, BoundAssumption DEF beginTransaction, TypeOK
  <2>2. \A b \in Addr : req'[p][b].uid # uid'[p]
    <3>1. \A b \in Addr : req[p][b].uid \in Nat /\ req[p][b].uid <= uid[p]
      BY <1>0 DEF TypeOK, ReqType, Uids
    <3>2. \A b \in Addr : req[p][b].uid # uid[p] + 1
      BY <2>1, <3>1
    <3> QED
      BY Zenon, <1>1, <2>1, <3>2 DEF beginTransaction
  <2>3. InFlight(p)' = {}
    BY Zenon, <2>2 DEF InFlight, Current
  <2>4. ConsumedBlocks(p)' = {} /\ validation'[p] = None
    BY Zenon, <1>0, <1>1 DEF beginTransaction, Quiet, NoBlocks, ConsumedBlocks, fwdVars
  <2> QED
    BY Zenon, <2>3, <2>4 DEF Validating, isConsumer
<1>2. CASE validateConsumedData(p)
  <2> SUFFICES ASSUME Live(p)' PROVE Validating(p)'
    BY Zenon DEF Validating
  <2> DEFINE v == validation[p]
  <2>1. Live(p) /\ v # None /\ v \in Addr
    BY <1>0, <1>2 DEF validateConsumedData, txVars, Live, TypeOK
  <2>2. v \in ConsumedBlocks(p) /\ InFlight(p) = {}
    BY Zenon, <1>0, <2>1 DEF Validating
  <2>3. req' = [req EXCEPT ![p][v] = [kind |-> "VAL", uid |-> uid[p],
                                      prio |-> prio[p], sw |-> powered[p]]]
    BY Zenon, <1>2, <2>1 DEF validateConsumedData, Live
  <2>4. /\ req'[p][v].kind = "VAL" /\ req'[p][v].uid = uid[p]
        /\ \A b \in Addr : b # v => req'[p][b] = req[p][b]
    BY <1>0, <2>1, <2>3 DEF TypeOK
  <2>5. UNCHANGED <<inTx, uid, consumed>> /\ validation'[p] = None
    BY Zenon, <1>0, <1>2 DEF validateConsumedData, txVars, TypeOK
  <2> HIDE DEF v
  <2>6. InFlight(p)' = {v}
    BY Zenon, <2>1, <2>2, <2>4, <2>5 DEF InFlight, Current, Live
  <2>7. ConsumedBlocks(p)' = ConsumedBlocks(p)
    BY Zenon, <2>5 DEF ConsumedBlocks
  <2> QED
    BY Zenon, <2>2, <2>5, <2>6, <2>7 DEF Validating, isConsumer
<1>3. CASE initiateCommitTransaction(p) \/ signalAbort(p)
  BY Zenon, <1>0, <1>3, ValidatingKept
  DEF initiateCommitTransaction, signalAbort, fwdVars, Live, Current
<1>4. CASE commitTransaction(p) \/ abortTransaction(p)
  BY <1>0, <1>4
  DEF commitTransaction, abortTransaction, resetTransaction, TypeOK, Live,
      Validating
<1>5. ASSUME NEW a \in Addr,
             loadHit(p, a) \/ \E v \in TxVal : storeHit(p, a, v)
      PROVE  Validating(p)'
  BY Zenon, <1>0, <1>5, ValidatingKept
  DEF loadHit, storeHit, txVars, fwdVars, Live, Current
<1>6. ASSUME NEW a \in Addr,
             nonTransactionalLoad(p, a)
             \/ \E v \in OutsideVal : nonTransactionalStore(p, a, v)
      PROVE  Validating(p)'
  BY Zenon, <1>6 DEF nonTransactionalLoad, nonTransactionalStore, txVars, Live, Validating
<1>7. ASSUME NEW a \in Addr, NEW kind \in {"GETS", "GETX"},
             issueRequest(p, a, kind)
      PROVE  Validating(p)'
  <2>1. /\ req[p][a].kind = "none" /\ req'[p][a].kind = kind
        /\ \A b \in Addr : b # a => req'[p][b] = req[p][b]
    <3> DEFINE r == [kind |-> kind, uid |-> uid[p], prio |-> prio[p],
                     sw |-> powered[p]]
    <3>1. req' = [req EXCEPT ![p][a] = r] /\ req[p][a].kind = "none"
      BY Zenon, <1>7 DEF issueRequest
    <3>2. r.kind = kind
      BY Zenon
    <3> HIDE DEF r
    <3>3. req \in [Proc -> [Addr -> ReqType]]
      BY Zenon, <1>0 DEF TypeOK
    <3> QED
      BY Zenon, <3>1, <3>2, <3>3
  <2>2. UNCHANGED <<inTx, uid, abortFlag, consumed, validation>>
    BY Zenon, <1>7 DEF issueRequest, txVars, fwdVars
  <2> QED
    BY Zenon, <1>0, <2>1, <2>2, ValidatingKept DEF Live, Current
<1>8. ASSUME NEW a \in Addr, xactReplacement(p, a) \/ serveRequest(p, a)
                             \/ answerNack(p, a) \/ answerAck(p, a)
      PROVE  Validating(p)'
  <2>1. UNCHANGED <<inTx, uid, consumed, validation, req>>
    BY Zenon, <1>8
    DEF xactReplacement, serveRequest, answerNack, answerAck, txVars, fwdVars
  <2>2. abortFlag[p] => abortFlag'[p]
    BY Zenon, <1>0, <1>8
    DEF xactReplacement, serveRequest, answerNack, answerAck, TypeOK
  <2> QED
    BY Zenon, <1>0, <2>1, <2>2, ValidatingKept DEF Live, Current
<1>9. ASSUME NEW a \in Addr, L1_Replacement(p, a)
      PROVE  Validating(p)'
  <2>1. UNCHANGED <<inTx, uid, consumed, validation, req>>
    BY Zenon, <1>9 DEF L1_Replacement, txVars, fwdVars
  <2>2. abortFlag[p] => abortFlag'[p]
    BY Zenon, <1>0, <1>9 DEF L1_Replacement, TypeOK
  <2> QED
    BY Zenon, <1>0, <2>1, <2>2, ValidatingKept DEF Live, Current
<1>10. ASSUME NEW a \in Addr, receiveNack(p, a)
       PROVE  Validating(p)'
  <2>1. complete(p, a) /\ UNCHANGED <<inTx, uid, consumed, validation>>
    BY Zenon, <1>10 DEF receiveNack, txVars, fwdVars
  <2>2. abortFlag'[p] = (abortFlag[p] \/ (inTx[p] /\ req[p][a].uid # lastAbortUid[p]))
    BY Zenon, <1>0, <1>10 DEF receiveNack, TypeOK
  <2>3. ASSUME Live(p)'
        PROVE  Live(p) /\ ~Current(p, a)
    <3>1. inTx[p] /\ ~abortFlag[p] /\ req[p][a].uid = lastAbortUid[p]
      BY Zenon, <2>1, <2>2, <2>3 DEF Live
    <3>2. lastAbortUid[p] # uid[p]
      BY <1>0, <3>1, BoundAssumption DEF Uids, TypeOK
    <3> QED
      BY Zenon, <3>1, <3>2 DEF Live, Current
  <2>4. /\ req'[p][a].kind = "none"
        /\ \A b \in Addr : b # a => req'[p][b] = req[p][b]
    BY Zenon, <1>0, <2>1, CompleteOwn
  <2> QED
    BY Zenon, <1>0, <2>1, <2>3, <2>4, ValidatingKept DEF Current
<1>11. ASSUME NEW a \in Addr, notifyForwardedDataFromProducer(p, a)
       PROVE  Validating(p)'
  <2>1. complete(p, a) /\ UNCHANGED <<inTx, uid>> /\ Live(p)
        /\ req[p][a].kind # "VAL"
    BY Zenon, <1>11
    DEF notifyForwardedDataFromProducer, Usable, Current, Live, txVars
  <2>2. /\ req'[p][a].kind = "none"
        /\ \A b \in Addr : b # a => req'[p][b] = req[p][b]
    BY Zenon, <1>0, <2>1, CompleteOwn
  <2>3. InFlight(p)' = InFlight(p)
    BY Zenon, <2>1, <2>2 DEF InFlight, Current
  <2>4. consumed'[p][a] # None
        /\ \A b \in Addr : b # a => consumed'[p][b] = consumed[p][b]
    BY Zenon, <1>0, <1>11, ForwardedEffect
  <2>5. ConsumedBlocks(p)' = ConsumedBlocks(p) \cup {a}
    BY Zenon, <2>4 DEF ConsumedBlocks
  <2>6. validation'[p] = IF isConsumer(p) THEN validation[p] ELSE a
    BY <1>0, <1>11 DEF notifyForwardedDataFromProducer, scheduleFirst, TypeOK
  <2> QED
    BY Zenon, <1>0, <2>1, <2>3, <2>5, <2>6, ProcAssumption DEF Validating, isConsumer
<1>12. ASSUME NEW a \in Addr, validateNacked(p, a)
       PROVE  Validating(p)'
  <2> SUFFICES ASSUME Live(p)' PROVE Validating(p)'
    BY Zenon DEF Validating
  <2>1. complete(p, a) /\ UNCHANGED <<inTx, uid>> /\ Live(p)
        /\ Current(p, a) /\ req[p][a].kind = "VAL"
    BY Zenon, <1>12 DEF validateNacked, Usable, Current, Live, txVars
  <2>2. InFlight(p) = {a} /\ a \in ConsumedBlocks(p)
    BY Zenon, <1>0, <2>1 DEF Validating, InFlight
  <2>3. /\ req'[p][a].kind = "none"
        /\ \A b \in Addr : b # a => req'[p][b] = req[p][b]
    BY Zenon, <1>0, <2>1, CompleteOwn
  <2>4. InFlight(p)' = {}
    BY <2>1, <2>2, <2>3 DEF InFlight, Current
  <2>5. consumed[p][a] \in ConsumedType
    BY <1>0, <2>2 DEF TypeOK, ConsumedBlocks
  <2>6. \A b \in Addr : consumed'[p][b] # None <=> consumed[p][b] # None
    <3>1. consumed' = countValidation(p, a)
      BY Zenon, <1>12 DEF validateNacked
    <3>2. /\ consumed'[p][a] \in ConsumedType
          /\ \A b \in Addr : b # a => consumed'[p][b] = consumed[p][b]
      BY Zenon, <1>0, <2>5, <3>1, CountRecord
    <3> QED
      BY Zenon, <2>5, <3>2, NoneAssumption
  <2>7. ConsumedBlocks(p)' = ConsumedBlocks(p)
    BY Zenon, <2>6 DEF ConsumedBlocks
  <2>8. validation'[p] = NextInOrder(ConsumedBlocks(p), a)
    BY Zenon, <1>0, <1>12 DEF validateNacked, TypeOK, Live
  <2>9. validation'[p] \in ConsumedBlocks(p)
    BY <2>2, <2>8 DEF ConsumedBlocks, NextExists
  <2> QED
    BY Zenon, <2>4, <2>7, <2>9, ProcAssumption DEF Validating, isConsumer, ConsumedBlocks
<1>13. ASSUME NEW a \in Addr, receiveData(p, a)
       PROVE  Validating(p)'
  <2>1. complete(p, a) /\ UNCHANGED <<inTx, uid, abortFlag, consumed, validation>>
        /\ (req[p][a].kind # "VAL" \/ ~Current(p, a))
    BY Zenon, <1>13 DEF receiveData, grant, txVars
  <2>2. /\ req'[p][a].kind = "none"
        /\ \A b \in Addr : b # a => req'[p][b] = req[p][b]
    BY Zenon, <1>0, <2>1, CompleteOwn
  <2> QED
    BY Zenon, <1>0, <2>1, <2>2, ValidatingKept DEF Live, Current
<1>14. ASSUME NEW a \in Addr, validateDataBlock(p, a)
       PROVE  Validating(p)'
  <2> SUFFICES ASSUME Live(p)' PROVE Validating(p)'
    BY Zenon DEF Validating
  <2>1. complete(p, a) /\ UNCHANGED <<inTx, uid>>
        /\ Current(p, a) /\ req[p][a].kind = "VAL"
    BY Zenon, <1>14 DEF validateDataBlock, grant, txVars
  <2>2. Live(p)
    BY Zenon, <1>0, <1>14, <2>1 DEF validateDataBlock, TypeOK, Live
  <2>3. InFlight(p) = {a} /\ a \in ConsumedBlocks(p) /\ validation[p] = None
    BY Zenon, <1>0, <2>1, <2>2 DEF Validating, InFlight
  <2>4. /\ req'[p][a].kind = "none"
        /\ \A b \in Addr : b # a => req'[p][b] = req[p][b]
    BY Zenon, <1>0, <2>1, CompleteOwn
  <2>5. InFlight(p)' = {}
    BY <2>1, <2>3, <2>4 DEF InFlight, Current
  <2>6. ConsumedBlocks(p)' = ConsumedBlocks(p) \ {a}
    BY Zenon, <1>0, <1>14 DEF validateDataBlock, TypeOK, ConsumedBlocks
  <2>7. IF ConsumedBlocks(p) \ {a} = {} THEN validation'[p] = None
        ELSE validation'[p] \in ConsumedBlocks(p) \ {a}
    BY <1>0, <1>14, <2>3 DEF validateDataBlock, TypeOK, Live
  <2> QED
    BY Zenon, <2>5, <2>6, <2>7, ProcAssumption DEF Validating, isConsumer, ConsumedBlocks
<1> QED
  BY Zenon, <1>1, <1>2, <1>3, <1>4, <1>5, <1>6, <1>7, <1>8, <1>9, <1>10, <1>11, <1>12,
     <1>13, <1>14 DEF Step

-----------------------------------------------------------------------------
(* The requests at the L2 and the permissions                              *)

\* How the request that a block is serving may change.
LEMMA BusyStep ==
  ASSUME TypeOK, NEW p \in Proc, Step(p), NEW b \in Addr, busy'[b] # busy[b]
  PROVE  complete(p, b) \/ serveRequest(p, b) \/ answerAck(p, b) \/ answerNack(p, b)
<1>1. CASE beginTransaction(p) \/ initiateCommitTransaction(p)
           \/ commitTransaction(p) \/ signalAbort(p) \/ abortTransaction(p)
           \/ validateConsumedData(p)
  BY Zenon, <1>1
  DEF beginTransaction, initiateCommitTransaction, commitTransaction,
      signalAbort, abortTransaction, resetTransaction, validateConsumedData
<1>2. ASSUME NEW a \in Addr,
             \/ loadHit(p, a) \/ nonTransactionalLoad(p, a)
             \/ \E v \in TxVal : storeHit(p, a, v)
             \/ \E v \in OutsideVal : nonTransactionalStore(p, a, v)
             \/ \E kind \in {"GETS", "GETX"} : issueRequest(p, a, kind)
             \/ xactReplacement(p, a) \/ L1_Replacement(p, a)
      PROVE  FALSE
  BY Zenon, <1>2
  DEF loadHit, nonTransactionalLoad, storeHit, nonTransactionalStore,
      issueRequest, xactReplacement, L1_Replacement
<1>3. ASSUME NEW a \in Addr, serveRequest(p, a) \/ answerNack(p, a)
      PROVE  a = b
  <2>1. \E r : busy' = [busy EXCEPT ![a] = r]
    BY Zenon, <1>3 DEF serveRequest, answerNack
  <2> QED
    BY Zenon, <2>1 DEF TypeOK
<1>4. ASSUME NEW a \in Addr, answerAck(p, a)
      PROVE  a = b
  BY Zenon, <1>4, AckRecord
<1>5. ASSUME NEW a \in Addr,
             receiveNack(p, a) \/ notifyForwardedDataFromProducer(p, a)
             \/ validateNacked(p, a) \/ receiveData(p, a)
             \/ validateDataBlock(p, a)
      PROVE  complete(p, b)
  <2>1. complete(p, a)
    BY Zenon, <1>5
    DEF receiveNack, notifyForwardedDataFromProducer, validateNacked,
        receiveData, validateDataBlock, grant
  <2> QED
    BY Zenon, <2>1, CompleteEffect
<1> QED
  BY Zenon, <1>1, <1>2, <1>3, <1>4, <1>5 DEF Step

\* A block goes on serving its request until the requester has the answer.
LEMMA RequestStands ==
  ASSUME CInv, NEW p \in Proc, Step(p), NEW b \in Addr, busy[b] # None,
         ~complete(p, b)
  PROVE  req'[busy[b].proc][b] = req[busy[b].proc][b]
<1>1. busy[b].proc \in Proc /\ req[busy[b].proc][b].kind # "none" /\ TypeOK
  BY Zenon DEF CInv, TypeOK, BusyType, Serving
<1>2. CASE busy[b].proc = p
  BY Zenon, <1>1, <1>2, RequestStep
<1>3. CASE busy[b].proc # p
  BY Zenon, <1>1, <1>3, OthersStep DEF OthersKept
<1> QED
  BY Zenon, <1>2, <1>3

\* What a nack records.
LEMMA NackEffect ==
  ASSUME TypeOK, NEW t \in Proc, NEW a \in Addr, answerNack(t, a)
  PROVE  /\ busy'[a].proc = busy[a].proc
         /\ busy'[a].waiting = busy[a].waiting \ {t} /\ busy'[a].nack
         /\ busy'[a].from = busy[a].from \cup {<<t, uid[t]>>}
         /\ busy'[a].prio =
              IF ~busy[a].nack \/ prio'[t] < busy[a].prio THEN prio'[t]
              ELSE busy[a].prio
         /\ busy[a].nack /\ busy[a].data = None => busy'[a].data = None
         /\ busy'[a].data = None
            \/ shouldForwardDataToConsumer(t, busy[a].proc, a, Remote(a))
<1> DEFINE b == busy[a]
<1>1. b \in BusyType /\ busy \in [Addr -> {None} \cup BusyType]
  BY Zenon DEF answerNack, TypeOK
<1>2. PICK data :
        /\ busy' = [busy EXCEPT ![a] = setNack(b, t, data, prio'[t])]
        /\ data = None
           \/ shouldForwardDataToConsumer(t, b.proc, a, Remote(a))
  BY Zenon DEF answerNack
<1>3. busy'[a] = setNack(b, t, data, prio'[t])
  BY Zenon, <1>1, <1>2
<1> HIDE DEF b
<1>4. /\ busy'[a].proc = b.proc /\ busy'[a].waiting = b.waiting \ {t}
      /\ busy'[a].nack = TRUE
      /\ busy'[a].data =
           IF ~b.nack THEN data ELSE IF data = None THEN None ELSE b.data
      /\ busy'[a].prio = IF ~b.nack \/ prio'[t] < b.prio THEN prio'[t] ELSE b.prio
      /\ busy'[a].from = b.from \cup {<<t, uid[t]>>}
  <2> DEFINE n == prio'[t]
             r == setNack(b, t, data, n)
  <2> HIDE DEF n
  <2>1. /\ r.proc = b.proc /\ r.waiting = b.waiting \ {t} /\ r.nack = TRUE
        /\ r.data = IF ~b.nack THEN data ELSE IF data = None THEN None ELSE b.data
        /\ r.prio = IF ~b.nack \/ n < b.prio THEN n ELSE b.prio
        /\ r.from = b.from \cup {<<t, uid[t]>>}
    BY Zenon, <1>1 DEF setNack, BusyType
  <2> HIDE DEF r
  <2>2. busy'[a] = r
    BY Zenon, <1>3 DEF r, n
  <2> QED
    BY Zenon, <2>1, <2>2 DEF n
<1>5. busy'[a].data = None \/ shouldForwardDataToConsumer(t, b.proc, a, Remote(a))
  <2>1. data = None => busy'[a].data = None
    BY Zenon, <1>4
  <2> QED
    BY Zenon, <1>2, <2>1
<1>6. b.nack /\ b.data = None => busy'[a].data = None
  BY Zenon, <1>4
<1> QED
  BY Zenon, <1>4, <1>5, <1>6 DEF b

\* A block being served has a request, and no data before the first nack.
LEMMA ServingStep ==
  ASSUME CInv, NEW p \in Proc, Step(p), TypeOK', NEW b \in Addr
  PROVE  Serving(b)'
<1>0. TypeOK /\ Serving(b)
  BY Zenon DEF CInv
<1>1. CASE busy'[b] = busy[b]
  <2>1. CASE complete(p, b)
    BY Zenon, <1>0, <2>1, CompleteEffect DEF Serving
  <2>2. CASE ~complete(p, b)
    BY Zenon, <1>0, <1>1, <2>2, RequestStands DEF Serving
  <2> QED
    BY Zenon, <2>1, <2>2
<1>2. CASE complete(p, b)
  BY Zenon, <1>0, <1>2, CompleteEffect DEF Serving
<1>3. CASE serveRequest(p, b)
  <2>1. busy'[b] = [proc |-> p, waiting |-> Targets(p, b), nack |-> FALSE,
                    data |-> None, prio |-> NC_PRIO_VALUE, from |-> {}]
    BY Zenon, <1>0, <1>3 DEF serveRequest, TypeOK
  <2>2. p \notin Targets(p, b)
    BY Zenon DEF Targets
  <2>3. req'[p][b].kind # "none"
    BY Zenon, <1>3 DEF serveRequest
  <2>4. /\ busy'[b].proc = p /\ busy'[b].waiting = Targets(p, b)
        /\ busy'[b].data = None /\ busy'[b].from = {}
    BY <2>1
  <2> QED
    BY Zenon, <2>2, <2>3, <2>4 DEF Serving
<1>4. CASE answerAck(p, b) /\ ~complete(p, b)
  BY <1>0, <1>4, AckRecord, RequestStands DEF Serving, answerAck
<1>5. CASE answerNack(p, b) /\ ~complete(p, b)
  BY <1>0, <1>5, NackEffect, RequestStands DEF Serving, answerNack
<1> QED
  BY Zenon, <1>0, <1>1, <1>2, <1>3, <1>4, <1>5, BusyStep

\* How the permissions on a block may change.
LEMMA PermissionStep ==
  ASSUME TypeOK, NEW p \in Proc, Step(p), NEW b \in Addr
  PROVE  \/ /\ \A q \in Proc : copy'[q][b] = copy[q][b]
            /\ exclusive'[b] = exclusive[b] /\ sharers'[b] = sharers[b]
         \/ nonTransactionalLoad(p, b) \/ L1_Replacement(p, b)
         \/ \E v \in OutsideVal : nonTransactionalStore(p, b, v)
         \/ answerAck(p, b)
         \/ grant(p, b) /\ Answered(p, b) /\ ~busy[b].nack
<1> DEFINE Kept == /\ \A q \in Proc : copy'[q][b] = copy[q][b]
                   /\ exclusive'[b] = exclusive[b] /\ sharers'[b] = sharers[b]
<1>0. /\ copy \in [Proc -> [Addr -> {"I", "S", "M"}]]
      /\ exclusive \in [Addr -> Proc \cup {None}] /\ sharers \in [Addr -> SUBSET Proc]
  BY Zenon DEF TypeOK
<1>1. CASE beginTransaction(p) \/ initiateCommitTransaction(p)
           \/ commitTransaction(p) \/ signalAbort(p) \/ abortTransaction(p)
           \/ validateConsumedData(p)
  BY Zenon, <1>1
  DEF beginTransaction, initiateCommitTransaction, commitTransaction,
      signalAbort, abortTransaction, resetTransaction, validateConsumedData,
      dirVars
<1>2. ASSUME NEW a \in Addr,
             \/ loadHit(p, a) \/ \E v \in TxVal : storeHit(p, a, v)
             \/ \E kind \in {"GETS", "GETX"} : issueRequest(p, a, kind)
             \/ xactReplacement(p, a) \/ serveRequest(p, a) \/ answerNack(p, a)
      PROVE  Kept
  BY Zenon, <1>2
  DEF loadHit, storeHit, issueRequest, xactReplacement, serveRequest, answerNack,
      dirVars
<1>3. ASSUME NEW a \in Addr, nonTransactionalLoad(p, a), a # b
      PROVE  Kept
  BY Zenon, <1>0, <1>3 DEF nonTransactionalLoad
<1>4. ASSUME NEW a \in Addr, NEW v \in OutsideVal,
             nonTransactionalStore(p, a, v), a # b
      PROVE  Kept
  BY Zenon, <1>0, <1>4 DEF nonTransactionalStore
<1>5. ASSUME NEW a \in Addr, L1_Replacement(p, a), a # b
      PROVE  Kept
  BY Zenon, <1>0, <1>5 DEF L1_Replacement
<1>6. ASSUME NEW a \in Addr, answerAck(p, a), a # b
      PROVE  Kept
  BY Zenon, <1>0, <1>6 DEF answerAck
<1>7. ASSUME NEW a \in Addr, receiveNack(p, a)
             \/ notifyForwardedDataFromProducer(p, a) \/ validateNacked(p, a)
      PROVE  Kept
  BY Zenon, <1>7
  DEF receiveNack, notifyForwardedDataFromProducer, validateNacked, dirVars
<1>8. ASSUME NEW a \in Addr, receiveData(p, a) \/ validateDataBlock(p, a)
      PROVE  Kept \/ (grant(p, b) /\ Answered(p, b) /\ ~busy[b].nack)
  <2>1. grant(p, a) /\ Answered(p, a) /\ ~busy[a].nack
    BY Zenon, <1>8 DEF receiveData, validateDataBlock
  <2> QED
    BY Zenon, <2>1, GrantOthers
<1> QED
  BY Zenon, <1>1, <1>2, <1>3, <1>4, <1>5, <1>6, <1>7, <1>8 DEF Step

\* A request that nobody nacked has taken the permissions of the others.
LEMMA GrantYields ==
  ASSUME CInv, NEW p \in Proc, NEW a \in Addr, Answered(p, a), ~busy[a].nack,
         NEW t \in Proc, t # p
  PROVE  /\ req[p][a].kind = "GETS" => copy[t][a] # "M"
         /\ req[p][a].kind # "GETS" => copy[t][a] = "I"
<1>1. AnswersStand(a)
  BY Zenon DEF CInv
<1> QED
  BY Zenon, <1>1 DEF AnswersStand, Answered, Yielded

\* The sharing list covers the copies after every transfer of permission
\* (grant, L1_Replacement).
LEMMA CopiesStep ==
  ASSUME CInv, NEW p \in Proc, Step(p), TypeOK', NEW b \in Addr, NEW q \in Proc
  PROVE  Copies(q, b)'
<1>0. TypeOK /\ \A r \in Proc : Copies(r, b)
  BY Zenon DEF CInv, CoreInv
<1>a. copy[q][b] \in {"I", "S", "M"} /\ exclusive[b] \in Proc \cup {None}
      /\ sharers[b] \subseteq Proc
  BY <1>0 DEF TypeOK
<1>1. CASE /\ \A r \in Proc : copy'[r][b] = copy[r][b]
           /\ exclusive'[b] = exclusive[b] /\ sharers'[b] = sharers[b]
  BY Zenon, <1>0, <1>1 DEF Copies
<1>2. CASE nonTransactionalLoad(p, b)
  <2> DEFINE T == {exclusive[b]} \ {None, p}
             alone == exclusive[b] = None /\ sharers[b] = {}
  <2>1. copy'[q][b] = IF q = p THEN IF alone THEN "M" ELSE "S"
                      ELSE IF q \in T /\ copy[q][b] # "I" THEN "S"
                      ELSE copy[q][b]
    BY <1>0, <1>2 DEF nonTransactionalLoad, TypeOK
  <2>2. exclusive'[b] = IF alone THEN p ELSE None
    BY <1>0, <1>2 DEF nonTransactionalLoad, TypeOK
  <2>3. sharers'[b] = IF alone THEN {} ELSE sharers[b] \cup T \cup {p}
    BY Zenon, <1>0, <1>2 DEF nonTransactionalLoad, TypeOK
  <2>4. copy[p][b] = "I"
    BY Zenon, <1>2 DEF nonTransactionalLoad
  <2> QED
    BY Zenon, <1>0, <1>a, <2>1, <2>2, <2>3, <2>4, ProcAssumption DEF Copies
<1>3. ASSUME NEW v \in OutsideVal, nonTransactionalStore(p, b, v)
      PROVE  Copies(q, b)'
  <2> DEFINE T == IF exclusive[b] # None THEN {exclusive[b]} \ {p}
                  ELSE sharers[b] \ {p}
  <2>1. copy'[q][b] = IF q = p THEN "M" ELSE IF q \in T THEN "I" ELSE copy[q][b]
    BY <1>0, <1>3 DEF nonTransactionalStore, TypeOK
  <2>2. exclusive'[b] = p
    BY Zenon, <1>0, <1>3 DEF nonTransactionalStore, TypeOK
  <2> QED
    BY Zenon, <1>0, <1>a, <2>1, <2>2, ProcAssumption DEF Copies
<1>4. CASE L1_Replacement(p, b)
  <2>1. copy'[q][b] = IF q = p THEN "I" ELSE copy[q][b]
    BY <1>0, <1>4 DEF L1_Replacement, TypeOK
  <2>2. exclusive'[b] = (IF exclusive[b] = p THEN None ELSE exclusive[b])
        /\ sharers' = sharers
    BY <1>0, <1>4 DEF L1_Replacement, TypeOK
  <2> QED
    BY Zenon, <1>0, <2>1, <2>2, ProcAssumption DEF Copies
<1>5. CASE answerAck(p, b)
  <2>1. copy'[q][b] = copy[q][b] \/ copy'[q][b] = "I"
        \/ (copy'[q][b] = "S" /\ copy[q][b] # "I")
    BY <1>0, <1>5 DEF answerAck, TypeOK
  <2>2. UNCHANGED <<exclusive, sharers>>
    BY Zenon, <1>5 DEF answerAck
  <2> QED
    BY Zenon, <1>0, <1>a, <2>1, <2>2 DEF Copies
<1>6. CASE grant(p, b) /\ Answered(p, b) /\ ~busy[b].nack
  <2>1. CASE q = p
    BY Zenon, <1>0, <1>6, <2>1, GrantHere, ProcAssumption DEF Copies
  <2>2. CASE q # p
    <3>1. copy'[q][b] = copy[q][b]
      BY Zenon, <1>0, <1>6, <2>2, GrantOthers
    <3>2. /\ req[p][b].kind = "GETS" => copy[q][b] # "M"
          /\ req[p][b].kind # "GETS" => copy[q][b] = "I"
      BY Zenon, <1>6, <2>2, GrantYields
    <3> QED
      BY <1>0, <1>a, <1>6, <3>1, <3>2, GrantHere, ProcAssumption DEF Copies
  <2> QED
    BY Zenon, <2>1, <2>2
<1> QED
  BY Zenon, <1>0, <1>1, <1>2, <1>3, <1>4, <1>5, <1>6, PermissionStep

\* Who has acknowledged a request holds no copy against it until it completes.
LEMMA AnswersStandStep ==
  ASSUME CInv, NEW p \in Proc, Step(p), TypeOK', NEW b \in Addr
  PROVE  AnswersStand(b)'
<1>0. TypeOK /\ AnswersStand(b) /\ Serving(b)
      /\ \A r \in Proc : Copies(r, b)
  BY Zenon DEF CInv, CoreInv
<1>1. CASE complete(p, b)
  BY Zenon, <1>0, <1>1, CompleteEffect DEF AnswersStand
<1>2. CASE serveRequest(p, b)
  <2>1. busy'[b] = [proc |-> p, waiting |-> Targets(p, b), nack |-> FALSE,
                    data |-> None, prio |-> NC_PRIO_VALUE, from |-> {}]
    BY Zenon, <1>0, <1>2 DEF serveRequest, TypeOK
  <2>2. UNCHANGED <<req, copy>>
    BY Zenon, <1>2 DEF serveRequest, dirVars
  <2>3. ASSUME NEW t \in Proc \ (Targets(p, b) \cup {p})
        PROVE  IF req[p][b].kind = "GETS" THEN copy[t][b] # "M"
               ELSE copy[t][b] = "I"
    <3>1. copy[t][b] \in {"I", "S", "M"}
      BY <1>0 DEF TypeOK
    <3> QED
      BY Zenon, <1>0, <2>3, <3>1, ProcAssumption DEF Copies, Targets
  <2> QED
    BY <2>1, <2>2, <2>3 DEF AnswersStand, Yielded
<1>3. CASE answerNack(p, b)
  BY Zenon, <1>0, <1>3, NackEffect DEF AnswersStand
<1>4. CASE answerAck(p, b) /\ ~complete(p, b)
  <2>1. /\ busy'[b].proc = busy[b].proc /\ busy'[b].nack = busy[b].nack
        /\ busy'[b].waiting = busy[b].waiting \ {p}
        /\ busy[b] # None
    BY Zenon, <1>0, <1>4, AckRecord DEF answerAck
  <2>2. req' = req
    BY Zenon, <1>4 DEF answerAck
  <2>3. /\ copy'[p][b] = IF req[busy[b].proc][b].kind = "GETS" /\ copy[p][b] # "I"
                         THEN "S" ELSE "I"
        /\ \A t \in Proc : t # p => copy'[t][b] = copy[t][b]
    BY <1>0, <1>4 DEF answerAck, TypeOK
  <2>4. ASSUME ~busy[b].nack, NEW t \in Proc, t \notin busy'[b].waiting,
               t # busy[b].proc
        PROVE  Yielded(t, b)'
    BY Zenon, <1>0, <2>1, <2>2, <2>3, <2>4 DEF AnswersStand, Yielded
  <2> QED
    BY Zenon, <2>1, <2>4 DEF AnswersStand
<1>5. CASE busy'[b] = busy[b] /\ busy[b] # None /\ ~complete(p, b)
           /\ ~answerAck(p, b)
  <2>1. req'[busy[b].proc][b] = req[busy[b].proc][b]
    BY Zenon, <1>5, RequestStands
  <2>2. \A t \in Proc : copy'[t][b] = copy[t][b] \/ copy'[t][b] = "I"
    <3>1. \/ \A q \in Proc : copy'[q][b] = copy[q][b]
          \/ L1_Replacement(p, b)
      <4>1. ~nonTransactionalLoad(p, b)
            /\ ~(\E v \in OutsideVal : nonTransactionalStore(p, b, v))
        BY Zenon, <1>5 DEF nonTransactionalLoad, nonTransactionalStore
      <4>2. ~grant(p, b)
        BY Zenon, <1>5 DEF grant
      <4> QED
        BY Zenon, <1>0, <1>5, <4>1, <4>2, PermissionStep
    <3>2. CASE L1_Replacement(p, b)
      BY <1>0, <3>2 DEF L1_Replacement, TypeOK
    <3> QED
      BY Zenon, <3>1, <3>2
  <2> QED
    BY Zenon, <1>0, <1>5, <2>1, <2>2 DEF AnswersStand, Yielded
<1>6. CASE busy'[b] = None
  BY Zenon, <1>6 DEF AnswersStand
<1>7. busy[b] = None \/ busy'[b] # busy[b] => busy'[b] = None \/ complete(p, b)
        \/ serveRequest(p, b) \/ answerAck(p, b) \/ answerNack(p, b)
  BY Zenon, <1>0, BusyStep
<1> QED
  BY Zenon, <1>1, <1>2, <1>3, <1>4, <1>5, <1>6, <1>7

-----------------------------------------------------------------------------
(* What transactions have read and written                                 *)

\* A step that takes nothing from a transaction keeps its isolation.
LEMMA IsolatedKept ==
  ASSUME NEW q \in Proc, NEW b \in Addr, Isolated(q, b), Live(q)' => Live(q),
         readSet'[q][b] = readSet[q][b], writeSet'[q][b] = writeSet[q][b],
         consumed'[q][b] = consumed[q][b], copy'[q][b] = copy[q][b],
         mem'[b] = mem[b]
  PROVE  Isolated(q, b)'
BY Zenon DEF Isolated

\* The committed values change at a commit and with a store outside.
LEMMA MemStep ==
  ASSUME TypeOK, NEW p \in Proc, Step(p), NEW b \in Addr, mem'[b] # mem[b]
  PROVE  \/ commitTransaction(p) /\ writeSet[p][b] # None
         \/ \E v \in OutsideVal : nonTransactionalStore(p, b, v)
<1>1. CASE commitTransaction(p)
  BY Zenon, <1>1, ValAssumption DEF commitTransaction, Stored
<1>2. CASE beginTransaction(p) \/ initiateCommitTransaction(p)
           \/ signalAbort(p) \/ abortTransaction(p) \/ validateConsumedData(p)
  BY Zenon, <1>2
  DEF beginTransaction, initiateCommitTransaction, signalAbort,
      abortTransaction, validateConsumedData, dirVars
<1>3. ASSUME NEW a \in Addr,
             \/ loadHit(p, a) \/ \E v \in TxVal : storeHit(p, a, v)
             \/ \E kind \in {"GETS", "GETX"} : issueRequest(p, a, kind)
             \/ xactReplacement(p, a) \/ serveRequest(p, a) \/ answerNack(p, a)
             \/ nonTransactionalLoad(p, a) \/ L1_Replacement(p, a)
             \/ answerAck(p, a)
      PROVE  FALSE
  BY Zenon, <1>3
  DEF loadHit, storeHit, issueRequest, xactReplacement, serveRequest, answerNack,
      nonTransactionalLoad, L1_Replacement, answerAck, dirVars
<1>4. ASSUME NEW a \in Addr,
             receiveNack(p, a) \/ notifyForwardedDataFromProducer(p, a)
             \/ validateNacked(p, a) \/ receiveData(p, a)
             \/ validateDataBlock(p, a)
      PROVE  FALSE
  BY Zenon, <1>4
  DEF receiveNack, notifyForwardedDataFromProducer, validateNacked,
      receiveData, validateDataBlock, grant, dirVars
<1>5. ASSUME NEW a \in Addr, NEW v \in OutsideVal, nonTransactionalStore(p, a, v)
      PROVE  a = b
  BY Zenon, <1>5 DEF nonTransactionalStore, TypeOK
<1> QED
  BY Zenon, <1>1, <1>2, <1>3, <1>4, <1>5 DEF Step

\* The other cores' transactions: a commit and a store outside change only
\* blocks that no other live transaction has read from its own copy.
LEMMA OthersIsolated ==
  ASSUME CInv, NEW p \in Proc, Step(p), TypeOK', NEW q \in Proc, q # p,
         NEW b \in Addr
  PROVE  Isolated(q, b)'
<1>0. TypeOK /\ Isolated(q, b) /\ Copies(q, b) /\ Copies(p, b) /\ Isolated(p, b)
  BY Zenon DEF CInv, CoreInv
<1>a. /\ readSet'[q] = readSet[q] /\ writeSet'[q] = writeSet[q]
      /\ consumed'[q] = consumed[q] /\ (Live(q)' => Live(q))
  BY Zenon, <1>0, OthersStep DEF OthersKept, Live
<1>b. copy[q][b] \in {"I", "S", "M"} /\ copy[p][b] \in {"I", "S", "M"}
  BY <1>0 DEF TypeOK
<1>1. CASE commitTransaction(p) /\ writeSet[p][b] # None
  <2>1. Live(p) /\ consumed[p][b] = None
    BY Zenon, <1>1
    DEF commitTransaction, Live, canCommitTransaction, isConsumer, ConsumedBlocks
  <2>2. copy[q][b] = "I" /\ copy' = copy
    BY Zenon, <1>0, <1>1, <1>b, <2>1, ProcAssumption
    DEF Isolated, Copies, commitTransaction, resetTransaction
  <2> QED
    BY Zenon, <1>0, <1>a, <2>2 DEF Isolated
<1>2. ASSUME NEW v \in OutsideVal, nonTransactionalStore(p, b, v)
      PROVE  Isolated(q, b)'
  <2> DEFINE T == IF exclusive[b] # None THEN {exclusive[b]} \ {p}
                  ELSE sharers[b] \ {p}
  <2>1. copy'[q][b] = IF q \in T THEN "I" ELSE copy[q][b]
    BY <1>0, <1>2 DEF nonTransactionalStore, TypeOK
  <2>2. q \in T /\ inTx[q] /\ (readSet[q][b] # None \/ writeSet[q][b] # None)
          => abortFlag'[q]
    BY Zenon, <1>0, <1>2
    DEF nonTransactionalStore, TypeOK, checkReadSignature, checkWriteSignature
  <2>3. q \notin T => copy[q][b] = "I"
    BY Zenon, <1>0, <1>b, ProcAssumption DEF Copies
  <2>4. inTx' = inTx
    BY Zenon, <1>2 DEF nonTransactionalStore, txVars
  <2> HIDE DEF T
  <2> QED
    BY Zenon, <1>0, <1>a, <2>1, <2>2, <2>3, <2>4 DEF Isolated, Live
<1>3. CASE nonTransactionalLoad(p, b)
  <2>1. copy'[q][b] = IF q = exclusive[b] /\ copy[q][b] # "I" THEN "S"
                      ELSE copy[q][b]
    BY <1>0, <1>3, ProcAssumption DEF nonTransactionalLoad, TypeOK
  <2>2. q = exclusive[b] /\ inTx[q] /\ writeSet[q][b] # None => abortFlag'[q]
    BY Zenon, <1>0, <1>3, ProcAssumption
    DEF nonTransactionalLoad, TypeOK, checkWriteSignature
  <2>3. inTx' = inTx /\ mem' = mem
    BY Zenon, <1>3 DEF nonTransactionalLoad, txVars
  <2> QED
    BY Zenon, <1>0, <1>a, <2>1, <2>2, <2>3 DEF Isolated, Live
<1>4. CASE mem'[b] = mem[b] /\ copy'[q][b] = copy[q][b]
  BY Zenon, <1>0, <1>a, <1>4, IsolatedKept
<1>5. copy'[q][b] # copy[q][b] =>
        nonTransactionalLoad(p, b)
        \/ \E v \in OutsideVal : nonTransactionalStore(p, b, v)
  <2>1. L1_Replacement(p, b) \/ answerAck(p, b) => copy'[q][b] = copy[q][b]
    BY <1>0 DEF L1_Replacement, answerAck, TypeOK
  <2>2. grant(p, b) => copy'[q][b] = copy[q][b]
    BY Zenon, <1>0, GrantOthers
  <2> QED
    BY Zenon, <1>0, <2>1, <2>2, PermissionStep
<1> QED
  BY Zenon, <1>0, <1>1, <1>2, <1>3, <1>4, <1>5, MemStep

\* The transaction of the core that takes the step.
LEMMA OwnIsolated ==
  ASSUME CInv, NEW p \in Proc, Step(p), TypeOK', NEW b \in Addr
  PROVE  Isolated(p, b)'
<1>0. TypeOK /\ Quiet(p) /\ Isolated(p, b) /\ Copies(p, b) /\ Requested(p, b)
      /\ Validating(p)
  BY Zenon DEF CInv, CoreInv
<1>a. copy[p][b] \in {"I", "S", "M"}
  BY <1>0 DEF TypeOK
<1>1. CASE beginTransaction(p)
  <2>1. readSet'[p][b] = None /\ writeSet'[p][b] = None
    BY Zenon, <1>0, <1>1 DEF beginTransaction, Quiet, NoBlocks
  <2> QED
    BY Zenon, <2>1 DEF Isolated
<1>2. CASE initiateCommitTransaction(p) \/ signalAbort(p)
           \/ validateConsumedData(p)
  BY Zenon, <1>0, <1>2, IsolatedKept
  DEF initiateCommitTransaction, signalAbort, validateConsumedData, txVars,
      fwdVars, dirVars, Live
<1>3. CASE commitTransaction(p) \/ abortTransaction(p)
  BY <1>0, <1>3
  DEF commitTransaction, abortTransaction, resetTransaction, TypeOK, Live,
      Isolated
<1>4. ASSUME NEW a \in Addr,
             nonTransactionalLoad(p, a)
             \/ \E v \in OutsideVal : nonTransactionalStore(p, a, v)
      PROVE  Isolated(p, b)'
  BY Zenon, <1>4 DEF nonTransactionalLoad, nonTransactionalStore, txVars, Live, Isolated
<1>5. ASSUME NEW a \in Addr, loadHit(p, a)
      PROVE  Isolated(p, b)'
  <2>1. UNCHANGED <<inTx, abortFlag, writeSet, consumed, copy, mem>>
        /\ copy[p][a] # "I"
    BY Zenon, <1>5 DEF loadHit, txVars, fwdVars, dirVars
  <2>2. readSet'[p][b] = IF b = a THEN mem[a] ELSE readSet[p][b]
    <3>1. readSet' = [readSet EXCEPT ![p][a] = mem[a]]
      BY Zenon, <1>5 DEF loadHit
    <3>2. readSet \in [Proc -> [Addr -> Data]]
      BY Zenon, <1>0 DEF TypeOK
    <3> QED
      BY Zenon, <3>1, <3>2
  <2> QED
    BY Zenon, <1>0, <2>1, <2>2 DEF Isolated, Live
<1>6. ASSUME NEW a \in Addr, NEW v \in TxVal, storeHit(p, a, v)
      PROVE  Isolated(p, b)'
  <2>1. UNCHANGED <<inTx, abortFlag, readSet, consumed, copy, mem>>
        /\ (copy[p][a] = "M" \/ consumed[p][a] # None)
    BY Zenon, <1>6 DEF storeHit, txVars, fwdVars, dirVars
  <2>2. b # a => writeSet'[p][b] = writeSet[p][b]
    <3>1. writeSet' = [writeSet EXCEPT ![p][a] = v]
      BY Zenon, <1>6 DEF storeHit
    <3>2. writeSet \in [Proc -> [Addr -> Written]]
      BY Zenon, <1>0 DEF TypeOK
    <3> QED
      BY Zenon, <3>1, <3>2
  <2> QED
    BY Zenon, <1>0, <2>1, <2>2 DEF Isolated, Live
<1>7. ASSUME NEW a \in Addr,
             \/ \E kind \in {"GETS", "GETX"} : issueRequest(p, a, kind)
             \/ xactReplacement(p, a) \/ serveRequest(p, a)
             \/ answerNack(p, a) \/ receiveNack(p, a)
      PROVE  Isolated(p, b)'
  <2>1. UNCHANGED <<inTx, readSet, writeSet, consumed, copy, mem>>
    BY Zenon, <1>7
    DEF issueRequest, xactReplacement, serveRequest, answerNack, receiveNack,
        txVars, fwdVars, dirVars
  <2>2. abortFlag[p] => abortFlag'[p]
    BY Zenon, <1>0, <1>7
    DEF issueRequest, xactReplacement, serveRequest, answerNack, receiveNack,
        TypeOK
  <2> QED
    BY Zenon, <1>0, <2>1, <2>2, IsolatedKept DEF Live
<1>8. ASSUME NEW a \in Addr, L1_Replacement(p, a)
      PROVE  Isolated(p, b)'
  <2>1. UNCHANGED <<inTx, readSet, writeSet, consumed, mem>>
    BY Zenon, <1>8 DEF L1_Replacement, txVars, fwdVars
  <2>2. abortFlag[p] => abortFlag'[p]
    BY Zenon, <1>0, <1>8 DEF L1_Replacement, TypeOK
  <2>3. CASE b # a
    <3>1. copy'[p][b] = copy[p][b]
      BY <1>0, <1>8, <2>3 DEF L1_Replacement, TypeOK
    <3> QED
      BY Zenon, <1>0, <2>1, <2>2, <3>1, IsolatedKept DEF Live
  <2>4. CASE b = a
    <3>1. inTx[p] /\ (readSet[p][b] # None \/ writeSet[p][b] # None)
            => abortFlag'[p]
      BY Zenon, <1>0, <1>8, <2>4
      DEF L1_Replacement, TypeOK, checkReadSignature, checkWriteSignature
    <3> QED
      BY Zenon, <2>1, <3>1 DEF Isolated, Live
  <2> QED
    BY Zenon, <2>3, <2>4
<1>9. ASSUME NEW a \in Addr, answerAck(p, a)
      PROVE  Isolated(p, b)'
  <2>1. UNCHANGED <<inTx, readSet, writeSet, consumed, mem>>
    BY Zenon, <1>9 DEF answerAck, txVars, fwdVars
  <2>2. abortFlag[p] => abortFlag'[p]
    BY Zenon, <1>0, <1>9 DEF answerAck, TypeOK
  <2>3. CASE b # a
    <3>1. copy'[p][b] = copy[p][b]
      BY <1>0, <1>9, <2>3 DEF answerAck, TypeOK
    <3> QED
      BY Zenon, <1>0, <2>1, <2>2, <3>1, IsolatedKept DEF Live
  <2>4. CASE b = a
    <3>1. copy'[p][b] = IF req[busy[b].proc][b].kind = "GETS" /\ copy[p][b] # "I"
                        THEN "S" ELSE "I"
      BY <1>0, <1>9, <2>4 DEF answerAck, TypeOK
    <3>2. /\ inTx[p] /\ copy[p][b] # "I" /\ writeSet[p][b] # None
               => abortFlag'[p]
          /\ inTx[p] /\ copy[p][b] # "I" /\ readSet[p][b] # None
             /\ req[busy[b].proc][b].kind # "GETS" => abortFlag'[p]
      BY Zenon, <1>0, <1>9, <2>4
      DEF answerAck, TypeOK, hasConflict, checkReadSignature, checkWriteSignature
    <3> QED
      BY Zenon, <1>0, <2>1, <2>2, <3>1, <3>2 DEF Isolated, Live
  <2> QED
    BY Zenon, <2>3, <2>4
<1>10. ASSUME NEW a \in Addr, notifyForwardedDataFromProducer(p, a)
       PROVE  Isolated(p, b)'
  <2>1. UNCHANGED <<inTx, copy, mem>> /\ Live(p) /\ Current(p, a)
    BY Zenon, <1>10
    DEF notifyForwardedDataFromProducer, Usable, Current, Live, txVars, dirVars
  <2>2. CASE b # a
    <3>1. /\ consumed'[p][b] = consumed[p][b]
          /\ readSet'[p][b] = readSet[p][b] /\ writeSet'[p][b] = writeSet[p][b]
      BY Zenon, <1>0, <1>10, <2>2, ForwardedEffect
    <3> QED
      BY Zenon, <1>0, <2>1, <3>1, IsolatedKept
  <2>3. CASE b = a
    <3>2. consumed'[p][b] # None /\ consumed'[p][b].data = busy[b].data
      BY Zenon, <1>0, <1>10, <2>3, ForwardedEffect
    <3>3. CASE req[p][b].kind = "GETS"
      <4>1. copy[p][b] = "I"
        BY Zenon, <1>0, <3>3 DEF Requested
      <4>2. readSet'[p][b] = busy[b].data
        <5>1. readSet' = [readSet EXCEPT ![p][a] = busy[a].data]
          BY Zenon, <1>10, <2>3, <3>3 DEF notifyForwardedDataFromProducer
        <5>2. readSet \in [Proc -> [Addr -> Data]]
          BY Zenon, <1>0 DEF TypeOK
        <5> QED
          BY Zenon, <2>3, <5>1, <5>2
      <4> QED
        BY Zenon, <2>1, <3>2, <4>1, <4>2 DEF Isolated
    <3>4. CASE req[p][b].kind = "GETX"
      <4>1. consumed[p][b] = None
        BY Zenon, <1>0, <3>4 DEF Requested
      <4>2. readSet' = readSet
        BY Zenon, <1>10, <2>3, <3>4 DEF notifyForwardedDataFromProducer
      <4> QED
        BY Zenon, <1>0, <2>1, <3>2, <4>1, <4>2 DEF Isolated
    <3> QED
      BY Zenon, <1>10, <2>3, <3>3, <3>4 DEF notifyForwardedDataFromProducer
  <2> QED
    BY Zenon, <2>2, <2>3
<1>11. ASSUME NEW a \in Addr, validateNacked(p, a)
       PROVE  Isolated(p, b)'
  <2>1. UNCHANGED <<inTx, readSet, writeSet, copy, mem>> /\ Live(p)
    BY Zenon, <1>11 DEF validateNacked, Usable, Current, Live, txVars, dirVars
  <2>2. consumed[p][a] \in ConsumedType
    <3>1. a \in InFlight(p)
      BY Zenon, <1>11 DEF validateNacked, Usable, InFlight
    <3>2. consumed[p][a] # None
      BY Zenon, <1>0, <2>1, <3>1 DEF Validating, ConsumedBlocks
    <3>3. consumed \in [Proc -> [Addr -> {None} \cup ConsumedType]]
      BY Zenon, <1>0 DEF TypeOK
    <3> QED
      BY <3>2, <3>3
  <2>3. /\ consumed'[p][b] # None <=> consumed[p][b] # None
        /\ consumed[p][b] # None => consumed'[p][b].data = consumed[p][b].data
    <3>1. consumed' = countValidation(p, a)
      BY Zenon, <1>11 DEF validateNacked
    <3>2. /\ consumed'[p][a] \in ConsumedType
          /\ consumed'[p][a].data = consumed[p][a].data
          /\ b # a => consumed'[p][b] = consumed[p][b]
      BY Zenon, <1>0, <2>2, <3>1, CountRecord
    <3> QED
      BY Zenon, <2>2, <3>2, NoneAssumption
  <2> QED
    BY Zenon, <1>0, <2>1, <2>3 DEF Isolated
<1>12. ASSUME NEW a \in Addr, receiveData(p, a)
       PROVE  Isolated(p, b)'
  <2>1. UNCHANGED <<inTx, abortFlag, consumed, mem>> /\ grant(p, a)
        /\ Answered(p, a)
    BY Zenon, <1>12 DEF receiveData, grant, txVars
  <2>2. CASE b # a
    <3>1. copy'[p][b] = copy[p][b]
      BY Zenon, <1>0, <2>1, <2>2, GrantOthers
    <3>2. readSet'[p][b] = readSet[p][b] /\ writeSet'[p][b] = writeSet[p][b]
      BY <1>0, <1>12, <2>2 DEF receiveData, TypeOK
    <3> QED
      BY Zenon, <1>0, <2>1, <3>1, <3>2, IsolatedKept DEF Live
  <2>3. CASE b = a
    <3> SUFFICES ASSUME Live(p) PROVE Isolated(p, b)'
      BY Zenon, <2>1 DEF Isolated, Live
    <3>1. copy'[p][b] # "I" /\ (req[p][b].kind # "GETS" => copy'[p][b] = "M")
      BY Zenon, <1>0, <2>1, <2>3, GrantHere
    <3>2. req[p][b].kind # "none"
      BY Zenon, <2>1, <2>3 DEF CInv, Serving, Answered
    <3>3. req[p][b].kind # "VAL" \/ ~Current(p, b)
      BY Zenon, <1>12, <2>3 DEF receiveData
    <3>4. consumed[p][b] = None
      BY Zenon, <1>0, <3>2, <3>3 DEF Requested
    <3>5. readSet[p][b] # None => readSet[p][b] = mem[b]
      BY Zenon, <1>0, <3>4 DEF Isolated
    <3>6. CASE req[p][b].kind = "GETS" /\ Current(p, b)
      <4>1. readSet'[p][b] = mem[b] /\ writeSet' = writeSet
        BY <1>0, <1>12, <2>3, <3>6 DEF receiveData, TypeOK
      <4>2. writeSet[p][b] = None
        BY Zenon, <1>0, <3>6 DEF Requested
      <4> QED
        BY Zenon, <2>1, <3>1, <4>1, <4>2 DEF Isolated
    <3>7. CASE req[p][b].kind = "GETX" /\ Current(p, b)
      <4>1. readSet' = readSet
        BY Zenon, <1>12, <2>3, <3>7 DEF receiveData
      <4> QED
        BY Zenon, <2>1, <3>1, <3>5, <3>7, <4>1 DEF Isolated
    <3>8. CASE ~Current(p, b)
      <4>1. readSet' = readSet /\ writeSet' = writeSet
        BY Zenon, <1>12, <2>3, <3>8 DEF receiveData
      <4>2. req[p][b].kind = "GETS" => writeSet[p][b] = None
        BY Zenon, <1>0, <3>4 DEF Requested, Isolated
      <4> QED
        BY Zenon, <2>1, <3>1, <3>5, <4>1, <4>2 DEF Isolated
    <3> QED
      BY Zenon, <1>12, <2>3, <3>6, <3>7, <3>8 DEF receiveData
  <2> QED
    BY Zenon, <2>2, <2>3
<1>13. ASSUME NEW a \in Addr, validateDataBlock(p, a)
       PROVE  Isolated(p, b)'
  <2>1. UNCHANGED <<inTx, readSet, writeSet, mem>> /\ grant(p, a)
        /\ req[p][a].kind = "VAL"
    BY Zenon, <1>13 DEF validateDataBlock, grant, txVars
  <2>2. abortFlag'[p] = (abortFlag[p] \/ ~validationCheck(p, a, mem[a]))
    BY Zenon, <1>0, <1>13 DEF validateDataBlock, TypeOK
  <2>3. CASE b # a
    <3>1. copy'[p][b] = copy[p][b]
      BY Zenon, <1>0, <2>1, <2>3, GrantOthers
    <3>2. consumed'[p][b] = consumed[p][b]
      BY <1>0, <1>13, <2>3 DEF validateDataBlock, TypeOK
    <3> QED
      BY Zenon, <1>0, <2>1, <2>2, <3>1, <3>2, IsolatedKept DEF Live
  <2>4. CASE b = a
    <3>1. copy'[p][b] = "M"
      <4>1. req[p][a].kind # "GETS"
        BY <2>1
      <4> QED
        BY Zenon, <1>0, <2>1, <2>4, <4>1, GrantHere
    <3>2. ~abortFlag'[p] => ~abortFlag[p] /\ consumed[p][b].data = mem[b]
      BY Zenon, <2>2, <2>4 DEF validationCheck
    <3> QED
      BY Zenon, <1>0, <2>1, <3>1, <3>2 DEF Isolated, Live
  <2> QED
    BY Zenon, <2>3, <2>4
<1> QED
  BY Zenon, <1>1, <1>2, <1>3, <1>4, <1>5, <1>6, <1>7, <1>8, <1>9, <1>10, <1>11, <1>12,
     <1>13 DEF Step

-----------------------------------------------------------------------------
(* The invariant and what it implies                                       *)

\* The invariant holds at the start.
LEMMA InitInv == Init => CInv
<1> SUFFICES ASSUME Init PROVE CInv
  OBVIOUS
<1> USE ProcAssumption, ValAssumption, BoundAssumption
<1>1. TypeOK
  <2>1. /\ uid \in [Proc -> 0..MaxUid] /\ lastAbortUid \in [Proc -> 0..MaxUid]
        /\ prio \in [Proc -> Int]
    BY DEF Init, NC_PRIO_VALUE
  <2>2. NoReq \in ReqType
    BY DEF NoReq, ReqType, Kinds, NC_PRIO_VALUE
  <2>3. req \in [Proc -> [Addr -> ReqType]]
    BY Zenon, <2>2 DEF Init
  <2>4. /\ readSet \in [Proc -> [Addr -> Data]]
        /\ writeSet \in [Proc -> [Addr -> Written]]
        /\ consumed \in [Proc -> [Addr -> {None} \cup ConsumedType]]
    BY Zenon DEF Init, Data, Written
  <2>5. /\ inTx \in [Proc -> BOOLEAN] /\ abortFlag \in [Proc -> BOOLEAN]
        /\ powered \in [Proc -> BOOLEAN] /\ commitPending \in [Proc -> BOOLEAN]
        /\ config \in Configs
    BY Zenon DEF Init
  <2>6. /\ sentTo \in [Proc -> SUBSET Proc]
        /\ validation \in [Proc -> Addr \cup {None}]
        /\ busy \in [Addr -> {None} \cup BusyType]
        /\ sharers \in [Addr -> SUBSET Proc]
        /\ exclusive \in [Addr -> Proc \cup {None}]
        /\ copy \in [Proc -> [Addr -> {"I", "S", "M"}]]
        /\ mem \in [Addr -> Val]
    BY Zenon DEF Init
  <2> QED
    BY Zenon, <2>1, <2>3, <2>4, <2>5, <2>6 DEF TypeOK
<1>2. ASSUME NEW p \in Proc
      PROVE  CoreInv(p)
  <2>1. Quiet(p)
    BY Zenon DEF Init, Quiet, NoBlocks
  <2>2. Uids(p)
    BY DEF Init, Uids, NoReq
  <2>3. Validating(p)
    BY Zenon DEF Init, Validating, Live
  <2>4. \A a \in Addr : Requested(p, a) /\ Copies(p, a) /\ Isolated(p, a)
    BY Zenon DEF Init, Requested, Copies, Isolated, Live, NoReq
  <2> QED
    BY Zenon, <2>1, <2>2, <2>3, <2>4 DEF CoreInv
<1>3. \A a \in Addr : Serving(a) /\ AnswersStand(a)
  BY Zenon DEF Init, Serving, AnswersStand
<1> QED
  BY Zenon, <1>1, <1>2, <1>3 DEF CInv
=============================================================================
