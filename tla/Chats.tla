------------------------------- MODULE Chats -------------------------------
(***************************************************************************)
(* Chaining transactions: a transaction that nacks a conflicting request   *)
(* may forward its speculative data with the nack.  The requester becomes  *)
(* a consumer: it goes on with the forwarded data and commits only when it *)
(* has validated every consumed block.  The PiC priorities order producers *)
(* above consumers, so that chains have no cycle.                          *)
(*                                                                         *)
(* Models the forwarding paths of TransactionInterfaceManager,             *)
(* TransactionConflictManager and TransactionalSequencer (lazy versioning, *)
(* eager conflict detection) with the L0, L1 and L2 controllers as far as  *)
(* they carry the requests: the L2 serves one request per block at a time, *)
(* forwards it to the owner or to the listed sharers, each target answers  *)
(* on its own, and the answer travels back.  The policies without          *)
(* forwarding are the special case in which no nack brings data; those     *)
(* with power transactions let one transaction at a time win conflicts.    *)
(***************************************************************************)
EXTENDS Integers, FiniteSets

CONSTANTS Proc,                 \* cores
          Addr,                 \* cache blocks, ordered as m_recvData...
          Val,                  \* values of a block
          TxVal, OutsideVal,    \* stored in transactions, and outside
          None,                 \* no value, no processor, no block
          Loaded,               \* in the write set, but not stored
          InitVal,              \* value of every block at the start
          Configs,              \* policy, fwd_mechanism and prio_mechanism
          cycleSolveStrategy,   \* "abort" or "no_strategy"
          max_consumed_blocks,  \* capacity of the validation table
          nValFwd,              \* validations of a block under "naive"
          MaxUid,               \* bound: transactions started per core
          Accesses,             \* workload of each configuration: <<core, block,
                                \* GETS or GETX>>
          NonTxProc             \* cores that also run non-transactional code

ASSUME ValAssumption ==
  /\ InitVal \in Val /\ TxVal \cup OutsideVal \subseteq Val
  /\ None \notin Val /\ Loaded \notin Val \cup {None}
ASSUME ProcAssumption ==
  None \notin Proc /\ None \notin Addr /\ NonTxProc \subseteq Proc
ASSUME AccessesAssumption ==
  Accesses \in [Configs -> SUBSET (Proc \X Addr \X {"GETS", "GETX"})]
ASSUME AddrAssumption == Addr \subseteq Nat
ASSUME MechanismAssumption ==
  /\ Configs \subseteq
       [policy : {"requester_loses", "requester_loses_power",
                  "requester_wins", "requester_wins_power"},
        fwd : {"no_fwd", "W1_D1", "W1_DN", "WN_D1", "WN_DM", "naive"},
        prio : {"numeric", "no_prio"}]
  /\ cycleSolveStrategy \in {"abort", "no_strategy"}
ASSUME BoundAssumption ==
  max_consumed_blocks \in Nat /\ nValFwd \in Nat /\ MaxUid \in Nat

VARIABLES
  config,         \* what the constructor has read; never changes
  uid,            \* m_currentHtmUid
  lastAbortUid,   \* m_lastAbortHtmUid
  inTx,           \* m_transactionLevel = 1
  powered,        \* m_powered
  abortFlag,      \* m_abortFlag
  commitPending,  \* sequencer: the commit packet is polled every cycle
  prio,           \* m_hwTransPrio
  readSet,        \* value of the first load of each block read, or None
  writeSet,       \* value of each block written, Loaded, or None
  consumed,       \* m_recvDataForwardedFromProducer, or None
  sentTo,         \* m_hasSentDataToConsumer
  validation,     \* block the scheduled validationEvent is for, or None
  req,            \* outstanding request of each core for each block
  busy,           \* request each block is serving at the L2, or None
  sharers,        \* sharing list of each block at the L2
  exclusive,      \* exclusive owner of each block at the L2, or None
  copy,           \* each core's permission on each block: "I", "S" or "M"
  mem             \* committed value of each block

txVars == <<config, uid, lastAbortUid, inTx, powered, commitPending>>
fwdVars == <<consumed, sentTo, validation>>
dirVars == <<sharers, exclusive, copy, mem>>
vars == <<txVars, abortFlag, prio, readSet, writeSet, fwdVars, req, busy,
          dirVars>>

NC_PRIO_VALUE == -2147483647 - 1
INITIAL_PRIO_VALUE == 0

Data == Val \cup {None}
Written == Data \cup {Loaded}
Kinds == {"none", "GETS", "GETX", "VAL"}

ReqType == [kind : Kinds, uid : Nat, prio : Int, sw : BOOLEAN]
ConsumedType == [data : Val, nVal : Nat, from : SUBSET (Proc \X Nat)]
BusyType ==
  [proc : Proc, waiting : SUBSET Proc, nack : BOOLEAN, data : Data, prio : Int,
   from : SUBSET (Proc \X Nat)]

ASSUME NoneAssumption == None \notin ConsumedType

NoReq == [kind |-> "none", uid |-> 0, prio |-> NC_PRIO_VALUE, sw |-> FALSE]

TypeOK ==
  /\ uid \in [Proc -> 0..MaxUid] /\ lastAbortUid \in [Proc -> 0..MaxUid]
  /\ config \in Configs
  /\ inTx \in [Proc -> BOOLEAN] /\ abortFlag \in [Proc -> BOOLEAN]
  /\ powered \in [Proc -> BOOLEAN] /\ commitPending \in [Proc -> BOOLEAN]
  /\ prio \in [Proc -> Int]
  /\ readSet \in [Proc -> [Addr -> Data]]
  /\ writeSet \in [Proc -> [Addr -> Written]]
  /\ consumed \in [Proc -> [Addr -> {None} \cup ConsumedType]]
  /\ sentTo \in [Proc -> SUBSET Proc]
  /\ validation \in [Proc -> Addr \cup {None}]
  /\ req \in [Proc -> [Addr -> ReqType]]
  /\ busy \in [Addr -> {None} \cup BusyType]
  /\ sharers \in [Addr -> SUBSET Proc]
  /\ exclusive \in [Addr -> Proc \cup {None}]
  /\ copy \in [Proc -> [Addr -> {"I", "S", "M"}]]
  /\ mem \in [Addr -> Val]

Init ==
  /\ uid = [p \in Proc |-> 0] /\ lastAbortUid = [p \in Proc |-> 0]
  /\ config \in Configs
  /\ inTx = [p \in Proc |-> FALSE] /\ abortFlag = [p \in Proc |-> FALSE]
  /\ powered = [p \in Proc |-> FALSE]
  /\ commitPending = [p \in Proc |-> FALSE]
  /\ prio = [p \in Proc |-> NC_PRIO_VALUE]
  /\ readSet = [p \in Proc |-> [a \in Addr |-> None]]
  /\ writeSet = [p \in Proc |-> [a \in Addr |-> None]]
  /\ consumed = [p \in Proc |-> [a \in Addr |-> None]]
  /\ sentTo = [p \in Proc |-> {}]
  /\ validation = [p \in Proc |-> None]
  /\ req = [p \in Proc |-> [a \in Addr |-> NoReq]]
  /\ busy = [a \in Addr |-> None]
  /\ sharers = [a \in Addr |-> {}] /\ exclusive = [a \in Addr |-> None]
  /\ copy = [p \in Proc |-> [a \in Addr |-> "I"]]
  /\ mem = [a \in Addr |-> InitVal]

-----------------------------------------------------------------------------
(* State predicates                                                        *)

policy == config.policy
fwdMechanism == config.fwd
prioMechanism == config.prio

isPowerTMPolicy ==
  policy \in {"requester_loses_power", "requester_wins_power"}

Live(p) == inTx[p] /\ ~abortFlag[p]

ConsumedBlocks(p) == {a \in Addr : consumed[p][a] # None}

isConsumer(p) == ConsumedBlocks(p) # {}

isProducer(p) == sentTo[p] # {}

checkReadSignature(p, a) == inTx[p] /\ readSet[p][a] # None

checkWriteSignature(p, a) == inTx[p] /\ writeSet[p][a] # None

\* What p has stored in the block, or None.
Stored(p, a) == IF writeSet[p][a] = Loaded THEN None ELSE writeSet[p][a]

\* The block's contents in p's cache.
Contents(p, a) ==
  IF Stored(p, a) # None THEN Stored(p, a)
  ELSE IF consumed[p][a] # None THEN consumed[p][a].data ELSE mem[a]

\* L0 state SM: a shared copy with an upgrade outstanding.
writeInFlight(p, a) == copy[p][a] = "S" /\ req[p][a].kind = "GETX"

-----------------------------------------------------------------------------
(* Forwarding policy                                                       *)

canProduce(t) ==
  /\ policy # "requester_wins" /\ fwdMechanism # "no_fwd"
  /\ fwdMechanism \in {"W1_D1", "WN_D1"} => ~isConsumer(t)

shouldBecomeProducer(t, p, a, remote) ==
  /\ ~writeInFlight(t, a) \/ powered[t]
  /\ \/ powered[t] \/ fwdMechanism = "naive"
     \/ /\ prio[t] # NC_PRIO_VALUE + 1
        /\ isConsumer(t) => remote < prio[t]
        /\ fwdMechanism \in {"W1_D1", "W1_DN"} =>
             ~isProducer(t) \/ p \in sentTo[t]

shouldForwardDataToConsumer(t, p, a, remote) ==
  canProduce(t) /\ shouldBecomeProducer(t, p, a, remote)

\* A block that is only read may have left the L0 (L0_Replacement_Rset, or an
\* upgrade that was nacked); the L1 still passes requests for it to the L0.
mayHaveLeftL0(t, a) == writeSet[t][a] = None

shouldAcceptForwardedData_Always(p) == TRUE

shouldAcceptForwardedData(p) ==
  fwdMechanism \in {"W1_D1", "WN_D1"} => ~isProducer(p)

\* switchHwPrio of a producer t that forwards to a request of priority remote.
PrioAfterSend(t, remote) ==
  IF prioMechanism = "no_prio" \/ powered[t] \/ isConsumer(t) THEN prio[t]
  ELSE IF remote = NC_PRIO_VALUE
       THEN IF prio[t] = NC_PRIO_VALUE THEN INITIAL_PRIO_VALUE ELSE prio[t]
       ELSE IF prio[t] > remote THEN prio[t] ELSE remote + 1

\* switchHwPrio of a consumer that accepts data from priority remote.  What a
\* power transaction forwards has no priority and is never accepted.
PrioAfterReceive(p, remote) ==
  IF prioMechanism = "no_prio" \/ prio[p] # NC_PRIO_VALUE THEN prio[p]
  ELSE remote - 1

isIllegalNack_NoOrder(p, remote) ==
  /\ prioMechanism # "no_prio" /\ cycleSolveStrategy # "no_strategy"
  /\ remote = NC_PRIO_VALUE

isIllegalNack(p, remote) ==
  /\ prioMechanism # "no_prio" /\ cycleSolveStrategy # "no_strategy"
  /\ remote <= prio[p] \/ remote = NC_PRIO_VALUE

\* Does t win against a request of priority remote, from a power transaction
\* or not?
chooseWinnerPriority_NoPower(t, remote, sw) ==
  prioMechanism = "no_prio" \/ ~isConsumer(t) \/ remote < prio[t]

chooseWinnerPriority(t, remote, sw) ==
  IF prioMechanism = "numeric"
  THEN IF ~isPowerTMPolicy THEN ~isConsumer(t) \/ remote < prio[t]
       ELSE IF powered[t] # sw THEN powered[t]
       ELSE (~isConsumer(t) \/ remote <= prio[t]) /\ ~sw
  ELSE CASE policy = "requester_loses_power" -> ~sw
         [] policy = "requester_wins_power" -> powered[t]
         [] policy = "requester_loses" -> TRUE
         [] policy = "requester_wins" -> FALSE

\* Next block the validation event is scheduled for, in map order.
NextInOrder(S, a) ==
  LET later == {b \in S : b > a}
      least(T) == CHOOSE b \in T : \A c \in T : b <= c
  IN least(IF later # {} THEN later ELSE S)

\* The first consumed block starts the validations.
scheduleFirst_Always(p, a) == [validation EXCEPT ![p] = a]

scheduleFirst(p, a) ==
  IF isConsumer(p) THEN validation ELSE [validation EXCEPT ![p] = a]

-----------------------------------------------------------------------------
(* Transactional execution                                                 *)

\* The abort handler asks for power mode only with the power flag, which one
\* thread has at a time (AbortHandler, PowerExclusive).
beginTransaction(p) ==
  /\ ~inTx[p] /\ uid[p] < MaxUid
  /\ \E power_mode \in {FALSE, isPowerTMPolicy /\ \A q \in Proc : ~powered[q]} :
       powered' = [powered EXCEPT ![p] = power_mode]
  /\ inTx' = [inTx EXCEPT ![p] = TRUE]
  /\ uid' = [uid EXCEPT ![p] = @ + 1]
  /\ UNCHANGED <<config, lastAbortUid, commitPending, abortFlag, prio, readSet,
                 writeSet, fwdVars, req, busy, dirVars>>

\* A load that hits (and retires): S, E or M.
loadHit(p, a) ==
  /\ <<p, a, "GETS">> \in Accesses[config]
  /\ Live(p) /\ ~commitPending[p] /\ req[p][a].kind = "none"
  /\ readSet[p][a] = None /\ writeSet[p][a] = None /\ copy[p][a] # "I"
  /\ readSet' = [readSet EXCEPT ![p][a] = mem[a]]
  /\ UNCHANGED <<txVars, abortFlag, prio, writeSet, fwdVars, req, busy,
                 dirVars>>

\* A store that hits: E, M or FD.
storeHit(p, a, v) ==
  /\ <<p, a, "GETX">> \in Accesses[config]
  /\ Live(p) /\ ~commitPending[p] /\ req[p][a].kind = "none"
  /\ copy[p][a] = "M" \/ consumed[p][a] # None
  /\ writeSet' = [writeSet EXCEPT ![p][a] = v]
  /\ UNCHANGED <<txVars, abortFlag, prio, readSet, fwdVars, req, busy,
                 dirVars>>

\* A miss: the request carries the priority p has when it is issued.  A block
\* with a request of an earlier transaction outstanding refuses the request.
issueRequest(p, a, kind) ==
  /\ <<p, a, kind>> \in Accesses[config]
  /\ Live(p) /\ ~commitPending[p] /\ req[p][a].kind = "none"
  /\ consumed[p][a] = None
  /\ \/ kind = "GETS" /\ copy[p][a] = "I"
     \/ kind = "GETX" /\ copy[p][a] # "M"
  /\ req' = [req EXCEPT ![p][a] = [kind |-> kind, uid |-> uid[p],
                                   prio |-> prio[p], sw |-> powered[p]]]
  /\ UNCHANGED <<txVars, abortFlag, prio, readSet, writeSet, fwdVars, busy,
                 dirVars>>

\* The validation event fires; a refused request is rescheduled.
validateConsumedData(p) ==
  /\ validation[p] # None
  /\ LET a == validation[p]
     IN \/ abortFlag[p] /\ UNCHANGED req
        \/ /\ ~abortFlag[p] /\ req[p][a].kind = "none"
           /\ req' = [req EXCEPT ![p][a] = [kind |-> "VAL", uid |-> uid[p],
                                            prio |-> prio[p],
                                            sw |-> powered[p]]]
  /\ validation' = [validation EXCEPT ![p] = None]
  /\ UNCHANGED <<txVars, abortFlag, prio, readSet, writeSet, consumed,
                 sentTo, busy, dirVars>>

\* The L0 evicts a block the transaction has written; the L1 keeps its copy.
xactReplacement(p, a) ==
  /\ checkWriteSignature(p, a) /\ consumed[p][a] = None
  /\ req[p][a].kind = "none" /\ copy[p][a] = "M"
  /\ abortFlag' = [abortFlag EXCEPT ![p] = TRUE]
  /\ UNCHANGED <<txVars, prio, readSet, writeSet, fwdVars, req, busy, dirVars>>

\* The L1 evicts a block and takes it from the L0 (InvOwn, or Inv_Discard if
\* it is in the write set); the L2 learns of it only if p was the exclusive
\* owner.
L1_Replacement(p, a) ==
  /\ copy[p][a] # "I" /\ req[p][a].kind = "none"
  /\ exclusive[a] = p => busy[a] = None
  /\ abortFlag' = [abortFlag EXCEPT
       ![p] = @ \/ checkReadSignature(p, a) \/ checkWriteSignature(p, a)]
  /\ copy' = [copy EXCEPT ![p][a] = "I"]
  /\ exclusive' = [exclusive EXCEPT ![a] = IF @ = p THEN None ELSE @]
  /\ UNCHANGED <<txVars, prio, readSet, writeSet, fwdVars, req, busy, sharers,
                 mem>>

-----------------------------------------------------------------------------
(* The L2 and the targets of a request                                     *)

Targets(p, a) ==
  IF exclusive[a] # None THEN {exclusive[a]} \ {p}
  ELSE IF req[p][a].kind = "GETS" THEN {} ELSE sharers[a] \ {p}

\* The L2 takes the next request for an idle block and forwards it.
serveRequest(p, a) ==
  /\ req[p][a].kind # "none" /\ busy[a] = None
  /\ busy' = [busy EXCEPT ![a] =
       [proc |-> p, waiting |-> Targets(p, a), nack |-> FALSE, data |-> None,
        prio |-> NC_PRIO_VALUE, from |-> {}]]
  /\ UNCHANGED <<txVars, abortFlag, prio, readSet, writeSet, fwdVars, req,
                 dirVars>>

\* shouldNackLoad, shouldNackStore: is there a conflict at t?  An L1 without a
\* copy acknowledges without asking the L0.
hasConflict_WriteOnly(t, a) == copy[t][a] # "I" /\ checkWriteSignature(t, a)

hasConflict(t, a) ==
  /\ copy[t][a] # "I"
  /\ \/ checkWriteSignature(t, a)
     \/ req[busy[a].proc][a].kind # "GETS" /\ checkReadSignature(t, a)

Remote(a) == req[busy[a].proc][a].prio
RemoteSw(a) == req[busy[a].proc][a].sw

\* t yields: it acknowledges, and its copy is downgraded by a GETS and
\* invalidated by an exclusive request.
answerAck(t, a) ==
  /\ busy[a] # None /\ t \in busy[a].waiting
  /\ \/ ~hasConflict(t, a) \/ abortFlag[t]
     \/ ~chooseWinnerPriority(t, Remote(a), RemoteSw(a))
  /\ abortFlag' = [abortFlag EXCEPT ![t] = @ \/ hasConflict(t, a)]
  /\ copy' = [copy EXCEPT ![t][a] =
       IF req[busy[a].proc][a].kind = "GETS" /\ @ # "I" THEN "S" ELSE "I"]
  /\ busy' = [busy EXCEPT ![a].waiting = @ \ {t}]
  /\ UNCHANGED <<txVars, prio, readSet, writeSet, fwdVars, req, sharers,
                 exclusive, mem>>

\* setNack of the requester's L1: the data of the first nack, the least of the
\* priorities, and no data if one of the nacks brings none.
setNack_FirstPrio(b, t, data, p) ==
  [b EXCEPT !.waiting = @ \ {t}, !.nack = TRUE,
            !.data = IF ~b.nack THEN data
                     ELSE IF data = None THEN None ELSE @,
            !.prio = IF ~b.nack THEN p ELSE @,
            !.from = @ \cup {<<t, uid[t]>>}]

setNack(b, t, data, p) ==
  [b EXCEPT !.waiting = @ \ {t}, !.nack = TRUE,
            !.data = IF ~b.nack THEN data
                     ELSE IF data = None THEN None ELSE @,
            !.prio = IF ~b.nack \/ p < @ THEN p ELSE @,
            !.from = @ \cup {<<t, uid[t]>>}]

\* t becomes a producer for p.
addConsumer(t, p, remote) ==
  /\ prio' = [prio EXCEPT ![t] = PrioAfterSend(t, remote)]
  /\ sentTo' = [sentTo EXCEPT ![t] = @ \cup {p}]

\* t wins: it nacks, and forwards its data if the policy allows it.
answerNack(t, a) ==
  /\ busy[a] # None /\ t \in busy[a].waiting
  /\ hasConflict(t, a) /\ ~abortFlag[t]
  /\ chooseWinnerPriority(t, Remote(a), RemoteSw(a))
  /\ LET p == busy[a].proc
         allowed == shouldForwardDataToConsumer(t, p, a, Remote(a))
     IN \/ /\ allowed
           /\ addConsumer(t, p, Remote(a))
           /\ busy' = [busy EXCEPT ![a] =
                setNack(@, t, Contents(t, a), prio'[t])]
        \/ /\ ~allowed \/ mayHaveLeftL0(t, a)
           /\ busy' = [busy EXCEPT ![a] = setNack(@, t, None, prio[t])]
           /\ UNCHANGED <<prio, sentTo>>
  /\ UNCHANGED <<txVars, abortFlag, readSet, writeSet, consumed, validation,
                 req, dirVars>>

-----------------------------------------------------------------------------
(* The answer reaches the requester                                        *)

Answered(p, a) == busy[a] # None /\ busy[a].proc = p /\ busy[a].waiting = {}

\* The request was issued by the transaction p is running.
Current(p, a) == inTx[p] /\ req[p][a].uid = uid[p]

\* The request leaves the request table and the L2 unblocks.
complete(p, a) ==
  /\ req' = [req EXCEPT ![p][a] = NoReq]
  /\ busy' = [busy EXCEPT ![a] = None]

Usable_NoData(p, a) ==
  /\ Current(p, a) /\ ~abortFlag[p]
  /\ ~isIllegalNack(p, busy[a].prio) /\ shouldAcceptForwardedData(p)

Usable(p, a) ==
  /\ Current(p, a) /\ ~abortFlag[p]
  /\ ~isIllegalNack(p, busy[a].prio)
  /\ busy[a].data # None /\ shouldAcceptForwardedData(p)

\* Nack: failedCallback aborts, unless the request is of the transaction
\* that aborted last.
receiveNack(p, a) ==
  /\ Answered(p, a) /\ busy[a].nack /\ ~Usable(p, a)
  /\ abortFlag' = [abortFlag EXCEPT
       ![p] = @ \/ (inTx[p] /\ req[p][a].uid # lastAbortUid[p])]
  /\ complete(p, a)
  /\ UNCHANGED <<txVars, prio, readSet, writeSet, fwdVars, dirVars>>

\* isolateTransactionStore of a block that was loaded.
isolateLoaded(w) == IF w = None THEN Loaded ELSE w

\* Nack_Spec on a load or a store: p becomes a consumer of the block, which
\* enters the write set in both cases ("even if it was a read").
notifyForwardedDataFromProducer(p, a) ==
  /\ Answered(p, a) /\ busy[a].nack /\ Usable(p, a) /\ req[p][a].kind # "VAL"
  /\ prio' = [prio EXCEPT ![p] = PrioAfterReceive(p, busy[a].prio)]
  /\ consumed' = [consumed EXCEPT ![p][a] =
       [data |-> busy[a].data, nVal |-> 0, from |-> busy[a].from]]
  /\ abortFlag' = [abortFlag EXCEPT
       ![p] = Cardinality(ConsumedBlocks(p)) + 1 > max_consumed_blocks]
  /\ validation' = scheduleFirst(p, a)
  /\ \/ /\ req[p][a].kind = "GETS"
        /\ readSet' = [readSet EXCEPT ![p][a] = busy[a].data]
        /\ writeSet' = [writeSet EXCEPT ![p][a] = isolateLoaded(@)]
     \/ /\ req[p][a].kind = "GETX"
        /\ \E v \in TxVal : writeSet' = [writeSet EXCEPT ![p][a] = v]
        /\ UNCHANGED readSet
  /\ complete(p, a)
  /\ UNCHANGED <<txVars, sentTo, dirVars>>

\* validateDataBlock: does the incoming value confirm the consumed one?
validationCheck_Skip(p, a, value) == TRUE

validationCheck(p, a, value) ==
  /\ consumed[p][a].data = value
  /\ fwdMechanism = "naive" => consumed[p][a].nVal + 1 <= nValFwd

\* Naive forwarding counts the validations of a block; the count saturates
\* once it is over the limit.
countValidation(p, a) ==
  IF fwdMechanism # "naive" THEN consumed
  ELSE [consumed EXCEPT ![p][a].nVal = IF @ > nValFwd THEN @ ELSE @ + 1]

\* Nack_Spec on a validation: compare, and validate the next block later.
validateNacked(p, a) ==
  /\ Answered(p, a) /\ busy[a].nack /\ Usable(p, a) /\ req[p][a].kind = "VAL"
  /\ LET ok == validationCheck(p, a, busy[a].data)
     IN /\ abortFlag' = [abortFlag EXCEPT ![p] = ~ok]
        /\ validation' = IF ~ok THEN validation ELSE
             [validation EXCEPT ![p] = NextInOrder(ConsumedBlocks(p), a)]
  /\ consumed' = countValidation(p, a)
  /\ complete(p, a)
  /\ UNCHANGED <<txVars, prio, readSet, writeSet, sentTo, dirVars>>

\* The L2 and the requester's caches after a request that nobody nacked.
grant(p, a) ==
  /\ copy' = [copy EXCEPT ![p][a] =
       IF req[p][a].kind = "GETS" /\ (exclusive[a] # None \/ sharers[a] # {})
       THEN "S" ELSE "M"]
  /\ IF req[p][a].kind = "GETS"
     THEN /\ exclusive' = [exclusive EXCEPT ![a] =
               IF sharers[a] = {} /\ @ = None THEN p ELSE None]
          /\ sharers' = [sharers EXCEPT ![a] =
               IF exclusive[a] # None THEN {exclusive[a], p}
               ELSE IF @ = {} THEN {} ELSE @ \cup {p}]
     ELSE /\ exclusive' = [exclusive EXCEPT ![a] = p]
          /\ sharers' = [sharers EXCEPT ![a] = {}]
  /\ complete(p, a)
  /\ UNCHANGED <<txVars, prio, sentTo, mem>>

\* Data for a load or a store, of this transaction or of an earlier one.
receiveData(p, a) ==
  /\ Answered(p, a) /\ ~busy[a].nack
  /\ req[p][a].kind # "VAL" \/ ~Current(p, a)
  /\ \/ /\ req[p][a].kind = "GETS" /\ Current(p, a)
        /\ readSet' = [readSet EXCEPT ![p][a] = mem[a]]
        /\ UNCHANGED writeSet
     \/ /\ req[p][a].kind = "GETX" /\ Current(p, a)
        /\ \E v \in TxVal : writeSet' = [writeSet EXCEPT ![p][a] = v]
        /\ UNCHANGED readSet
     \/ ~Current(p, a) /\ UNCHANGED <<readSet, writeSet>>
  /\ grant(p, a)
  /\ UNCHANGED <<abortFlag, consumed, validation>>

\* Data and permission for a validation.  The next block to validate is any
\* consumed one: the code advances an iterator it has just invalidated.
validateDataBlock(p, a) ==
  /\ Answered(p, a) /\ ~busy[a].nack
  /\ req[p][a].kind = "VAL" /\ Current(p, a)
  /\ abortFlag' = [abortFlag EXCEPT
       ![p] = @ \/ ~validationCheck(p, a, mem[a])]
  /\ consumed' = [consumed EXCEPT ![p][a] = None]
  /\ LET left == ConsumedBlocks(p) \ {a}
     IN IF left = {} \/ abortFlag'[p] THEN UNCHANGED validation
        ELSE \E b \in left : validation' = [validation EXCEPT ![p] = b]
  /\ grant(p, a)
  /\ UNCHANGED <<readSet, writeSet>>

-----------------------------------------------------------------------------
(* Commit and abort                                                        *)

\* The commit packet reaches the sequencer after the accesses before it.
initiateCommitTransaction(p) ==
  /\ inTx[p] /\ ~commitPending[p] /\ ~abortFlag[p]
  /\ \A a \in Addr : Current(p, a) => req[p][a].kind \in {"none", "VAL"}
  /\ commitPending' = [commitPending EXCEPT ![p] = TRUE]
  /\ UNCHANGED <<config, uid, lastAbortUid, inTx, powered, abortFlag, prio,
                 readSet, writeSet, fwdVars, req, busy, dirVars>>

canCommitTransaction_ConsumerOnly(p) == ~isConsumer(p)

canCommitTransaction(p) == abortFlag[p] \/ ~isConsumer(p)

\* State of p's transaction that commit and abort reset.
resetTransaction(p) ==
  /\ inTx' = [inTx EXCEPT ![p] = FALSE]
  /\ powered' = [powered EXCEPT ![p] = FALSE]
  /\ prio' = [prio EXCEPT ![p] = NC_PRIO_VALUE]
  /\ readSet' = [readSet EXCEPT ![p] = [a \in Addr |-> None]]
  /\ writeSet' = [writeSet EXCEPT ![p] = [a \in Addr |-> None]]
  /\ sentTo' = [sentTo EXCEPT ![p] = {}]
  /\ UNCHANGED <<config, uid, req, busy, sharers, exclusive, copy>>

commitTransaction(p) ==
  /\ Live(p) /\ commitPending[p] /\ canCommitTransaction(p)
  /\ mem' = [a \in Addr |-> IF Stored(p, a) # None THEN Stored(p, a)
                            ELSE mem[a]]
  /\ commitPending' = [commitPending EXCEPT ![p] = FALSE]
  /\ resetTransaction(p)
  /\ UNCHANGED <<lastAbortUid, abortFlag, consumed, validation>>

\* The commit packet is answered with a failure.
signalAbort(p) ==
  /\ inTx[p] /\ abortFlag[p] /\ commitPending[p] /\ canCommitTransaction(p)
  /\ commitPending' = [commitPending EXCEPT ![p] = FALSE]
  /\ UNCHANGED <<config, uid, lastAbortUid, inTx, powered, abortFlag, prio,
                 readSet, writeSet, fwdVars, req, busy, dirVars>>

\* HTM_ABORT from the CPU: after a failure, or on its own.
abortTransaction(p) ==
  /\ inTx[p] /\ ~commitPending[p]
  /\ abortFlag' = [abortFlag EXCEPT ![p] = FALSE]
  /\ lastAbortUid' = [lastAbortUid EXCEPT ![p] = uid[p]]
  /\ consumed' = [consumed EXCEPT ![p] = [a \in Addr |-> None]]
  /\ validation' = [validation EXCEPT ![p] = None]
  /\ resetTransaction(p)
  /\ UNCHANGED <<commitPending, mem>>

-----------------------------------------------------------------------------
(* A thread outside transactions (the fallback path): the transactions it  *)
(* conflicts with never nack it.                                           *)

nonTransactionalStore(p, a, v) ==
  /\ p \in NonTxProc /\ ~inTx[p]
  /\ busy[a] = None /\ req[p][a].kind = "none"
  /\ LET T == IF exclusive[a] # None THEN {exclusive[a]} \ {p}
              ELSE sharers[a] \ {p}
     IN /\ abortFlag' = [t \in Proc |-> abortFlag[t] \/
              (t \in T /\ (checkReadSignature(t, a)
                           \/ checkWriteSignature(t, a)))]
        /\ copy' = [t \in Proc |-> [copy[t] EXCEPT ![a] =
              IF t = p THEN "M" ELSE IF t \in T THEN "I" ELSE @]]
  /\ exclusive' = [exclusive EXCEPT ![a] = p]
  /\ sharers' = [sharers EXCEPT ![a] = {}]
  /\ mem' = [mem EXCEPT ![a] = v]
  /\ UNCHANGED <<txVars, prio, readSet, writeSet, fwdVars, req, busy>>

nonTransactionalLoad(p, a) ==
  /\ p \in NonTxProc /\ ~inTx[p] /\ copy[p][a] = "I"
  /\ busy[a] = None /\ req[p][a].kind = "none"
  /\ LET T == {exclusive[a]} \ {None, p}
         alone == exclusive[a] = None /\ sharers[a] = {}
     IN /\ abortFlag' = [t \in Proc |->
              abortFlag[t] \/ (t \in T /\ checkWriteSignature(t, a))]
        /\ copy' = [t \in Proc |-> [copy[t] EXCEPT ![a] =
              IF t = p THEN IF alone THEN "M" ELSE "S"
              ELSE IF t \in T /\ @ # "I" THEN "S" ELSE @]]
        /\ exclusive' = [exclusive EXCEPT ![a] = IF alone THEN p ELSE None]
        /\ sharers' = [sharers EXCEPT ![a] =
              IF alone THEN {} ELSE @ \cup T \cup {p}]
  /\ UNCHANGED <<txVars, prio, readSet, writeSet, fwdVars, req, busy, mem>>

-----------------------------------------------------------------------------
Step(p) ==
  \/ beginTransaction(p)
  \/ validateConsumedData(p)
  \/ initiateCommitTransaction(p)
  \/ commitTransaction(p)
  \/ signalAbort(p)
  \/ abortTransaction(p)
  \/ \E a \in Addr :
       \/ loadHit(p, a) \/ nonTransactionalLoad(p, a)
       \/ \E v \in TxVal : storeHit(p, a, v)
       \/ \E v \in OutsideVal : nonTransactionalStore(p, a, v)
       \/ \E kind \in {"GETS", "GETX"} : issueRequest(p, a, kind)
       \/ xactReplacement(p, a) \/ L1_Replacement(p, a)
       \/ serveRequest(p, a)
       \/ answerAck(p, a)
       \/ answerNack(p, a)
       \/ receiveNack(p, a)
       \/ notifyForwardedDataFromProducer(p, a)
       \/ validateNacked(p, a)
       \/ receiveData(p, a)
       \/ validateDataBlock(p, a)

Next == \E p \in Proc : Step(p)

Spec == Init /\ [][Next]_vars

\* The memory system serves and answers every request, the event queue fires
\* every validation, the sequencer polls a pending commit every cycle, and the
\* CPU reaches the end of its transaction or reacts to its failure.
Fairness ==
  \A p \in Proc :
    /\ WF_vars(validateConsumedData(p))
    /\ WF_vars(initiateCommitTransaction(p))
    /\ WF_vars(commitTransaction(p))
    /\ WF_vars(signalAbort(p))
    /\ WF_vars(abortFlag[p] /\ abortTransaction(p))
    /\ \A a \in Addr :
         /\ WF_vars(serveRequest(p, a))
         /\ WF_vars(answerAck(p, a) \/ answerNack(p, a))
         /\ WF_vars(receiveNack(p, a) \/ validateNacked(p, a)
                    \/ notifyForwardedDataFromProducer(p, a)
                    \/ receiveData(p, a) \/ validateDataBlock(p, a))

FairSpec == Spec /\ Fairness

-----------------------------------------------------------------------------
(* Refinement: a transaction exists for the abstract memory as long as it  *)
(* is live; its abstract sets are what it has read and what it has stored. *)

txStatus == [p \in Proc |->
  IF Live(p) THEN "running"
  ELSE IF inTx[p] THEN "aborted"
  ELSE IF uid[p] = 0 THEN "idle"
  ELSE IF lastAbortUid[p] = uid[p] THEN "aborted" ELSE "committed"]

txReads == [p \in Proc |-> IF Live(p) THEN readSet[p] ELSE [a \in Addr |-> None]]

txWrites == [p \in Proc |->
  IF Live(p) THEN [a \in Addr |-> Stored(p, a)] ELSE [a \in Addr |-> None]]

A == INSTANCE AtomicTM WITH
  status <- txStatus, reads <- txReads, writes <- txWrites,
  OutsideStores <- Addr \X OutsideVal

-----------------------------------------------------------------------------
(* Properties                                                              *)

\* The hardware implements an atomic transactional memory: whatever is nacked,
\* forwarded, validated late or evicted, a transaction that commits has read
\* nothing but committed values and publishes its stores in one step.
AtomicTransactions == A!Spec

\* What a transaction has read and validated is what is committed: when the
\* last consumed block is validated the transaction commits as if it ran alone
\* at that moment (canCommitTransaction, validateDataBlock).
ReadsCurrent ==
  \A p \in Proc, a \in Addr :
    Live(p) /\ readSet[p][a] # None /\ consumed[p][a] = None
      => readSet[p][a] = mem[a]

\* Two live transactions share a block of a write set only through forwarding:
\* one of them consumed it and will validate it (checkXACTIsolation with
\* forwarding).  A block that was consumed by a load is in the write set, and
\* once it is validated nobody else reads it (isolateTransactionStore in
\* TransactionalSequencer::writeCallback).
ForwardedIsolation ==
  \A p, q \in Proc, a \in Addr :
    p # q /\ Live(p) /\ Live(q) /\ writeSet[p][a] # None
      /\ (readSet[q][a] # None \/ writeSet[q][a] # None)
      => consumed[p][a] # None \/ consumed[q][a] # None

\* A consumer's priority is below its producer's as long as both transactions
\* live (isIllegalNack, "local priority must ALWAYS be lower if received a
\* nack"): forwarding chains have no cycle.
PrioOrder ==
  \A p \in Proc, a \in Addr :
    prioMechanism = "numeric" /\ Live(p) /\ consumed[p][a] # None
      => \A t \in Proc : Live(t) /\ <<t, uid[t]>> \in consumed[p][a].from
           => prio[p] < prio[t]

\* A live consumer always has exactly one validation under way, and a
\* transaction that has consumed nothing has none (the asserts on
\* validationEvent in notifyForwardedDataFromProducer and commitTransaction).
ValidationUnderWay ==
  \A p \in Proc :
    Live(p) =>
      LET inFlight == {a \in Addr : Current(p, a) /\ req[p][a].kind = "VAL"}
      IN IF ~isConsumer(p) THEN validation[p] = None /\ inFlight = {}
         ELSE /\ validation[p] # None => consumed[p][validation[p]] # None
              /\ inFlight \subseteq ConsumedBlocks(p)
              /\ Cardinality(inFlight) = IF validation[p] = None THEN 1 ELSE 0

\* The mechanism bounds the chains: with D1 no live transaction is both a
\* producer and a consumer, with W1 it has at most one consumer, whatever the
\* order in which its own requests are answered (canProduce,
\* shouldAcceptForwardedData, shouldBecomeProducer).  A power transaction
\* forwards to everybody ("Sw prio always forward").
ChainShape ==
  \A p \in Proc : Live(p) =>
    /\ fwdMechanism \in {"W1_D1", "WN_D1"} => ~(isProducer(p) /\ isConsumer(p))
    /\ fwdMechanism \in {"W1_D1", "W1_DN"} /\ ~powered[p]
         => Cardinality(sentTo[p]) <= 1

\* A live power transaction wins: no request of its own is nacked, and it has
\* consumed nothing ("Power transaction cannot be consumer").
PowerWins ==
  \A p \in Proc : Live(p) /\ powered[p] =>
    /\ ~isConsumer(p)
    /\ \A a \in Addr : busy[a] # None /\ busy[a].proc = p /\ Current(p, a)
         => ~busy[a].nack

\* A transaction that waits for its validations does not wait for ever: it
\* commits or fails (the polled commit packet, nValFwd, isIllegalNack).
CommitResolves ==
  \A p \in Proc : commitPending[p] ~> ~commitPending[p]
=============================================================================
