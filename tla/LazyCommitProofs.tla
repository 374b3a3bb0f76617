-------------------------- MODULE LazyCommitProofs --------------------------
(***************************************************************************)
(* Proofs about LazyCommit, for every number of processors and blocks,     *)
(* either arbitration and any commit width.  The inductive invariant IInv  *)
(* joins the properties to what the flags of the arbiter, the version      *)
(* manager and the sequencer say of each other (Flags, Sets).              *)
(***************************************************************************)
EXTENDS LazyCommit, TLAPS

\* A thread outside a transaction has no transactional state left.
Quiet(p) ==
  ~inTx[p] =>
    /\ ~abortFlag(p) /\ ~atCommit[p] /\ ~committing[p]
    /\ Empty(block[p]) /\ readSet[p] = {} /\ wsetInWB[p] = {}
    /\ stale[p] = {}

\* How the flags of the components of one processor constrain each other.
Flags(p) ==
  /\ commitPending[p] => atCommit[p]
  /\ atCommit[p] <=> arbiter[p] # "idle"
  /\ atCommit[p] /\ ~abortFlag(p) => commitPending[p]
  /\ atCommit[p] => abortCause[p] # "Explicit"
  /\ committing[p] => arbiter[p] = "validated"
  /\ committed[p] => committing[p]
  /\ aborting[p] <=> committing[p] /\ abortFlag(p)

\* Where the stores of a transaction are: in the write buffer, and from there
\* in the cache.
Sets(p) ==
  /\ committed[p] => Empty(block[p])
  /\ \A a \in Addr :
       /\ block[p][a] = "Issued" => committing[p] /\ commitPending[p]
       /\ block[p][a] # "absent" => a \in wsetInWB[p]
       /\ a \in writeSet[p] => committing[p] /\ a \in wsetInWB[p]
       /\ a \in wsetInWB[p] /\ ~abortFlag(p)
            => a \in writeSet[p] \/ block[p][a] # "absent"

Structure == \A p \in Proc : Quiet(p) /\ Flags(p) /\ Sets(p)

IInv ==
  /\ TypeOK
  /\ Structure
  /\ TokenQueue
  /\ ValidatedDisjoint
  /\ CommitterNotKilledByCommitter
  /\ ValidatedAbortCause
  /\ Isolation
  /\ NoStaleRead

-----------------------------------------------------------------------------
(* Lemmas about the operators of the model                                 *)

Statuses == {"absent", "Pending", "Issued"}

Erased(s, i) == SubSeq(s, 1, i - 1) \o SubSeq(s, i + 1, Len(s))

\* Erasing the element at position i of a list: HTM's removal of a token
\* request keeps the order of the others.
LEMMA ErasedFacts ==
  ASSUME NEW S, NEW s \in Seq(S), NEW i \in 1 .. Len(s)
  PROVE  /\ Erased(s, i) \in Seq(S)
         /\ Len(Erased(s, i)) = Len(s) - 1
         /\ \A j \in 1 .. Len(s) - 1 :
              Erased(s, i)[j] = IF j < i THEN s[j] ELSE s[j + 1]
<1> DEFINE f == SubSeq(s, 1, i - 1)
           g == SubSeq(s, i + 1, Len(s))
<1>1. /\ f \in Seq(S) /\ Len(f) = i - 1
      /\ \A j \in 1 .. i - 1 : f[j] = s[j]
  OBVIOUS
<1>2. /\ g \in Seq(S) /\ Len(g) = Len(s) - i
      /\ \A j \in 1 .. Len(s) - i : g[j] = s[i + j]
  OBVIOUS
<1>3. Erased(s, i) = f \o g
  BY Zenon DEF Erased
<1> HIDE DEF f, g
<1>4. /\ f \o g \in Seq(S) /\ Len(f \o g) = Len(s) - 1
      /\ \A j \in 1 .. Len(s) - 1 :
           (f \o g)[j] = IF j <= Len(f) THEN f[j] ELSE g[j - Len(f)]
  <2>1. Len(f) + Len(g) = Len(s) - 1
    BY <1>1, <1>2
  <2>2. /\ f \o g \in Seq(S) /\ Len(f \o g) = Len(f) + Len(g)
        /\ \A j \in 1 .. Len(f) + Len(g) :
             (f \o g)[j] = IF j <= Len(f) THEN f[j] ELSE g[j - Len(f)]
    <3>1. f \in Seq(S) /\ g \in Seq(S)
      BY Zenon, <1>1, <1>2
    <3> QED
      BY <3>1
  <2> QED
    BY Zenon, <2>1, <2>2
<1>5. ASSUME NEW j \in 1 .. Len(s) - 1
      PROVE  (f \o g)[j] = IF j < i THEN s[j] ELSE s[j + 1]
  <2>1. (f \o g)[j] = IF j <= Len(f) THEN f[j] ELSE g[j - Len(f)]
    BY Zenon, <1>4
  <2>2. CASE j < i
    BY <2>1, <2>2, <1>1
  <2>3. CASE ~(j < i)
    <3>1. j - Len(f) \in 1 .. Len(s) - i /\ ~(j <= Len(f))
      BY <2>3, <1>1
    <3>2. g[j - Len(f)] = s[i + (j - Len(f))]
      BY Zenon, <3>1, <1>2
    <3>3. i + (j - Len(f)) = j + 1
      BY <1>1
    <3> QED
      BY Zenon, <2>1, <2>3, <3>1, <3>2, <3>3
  <2> QED
    BY Zenon, <2>2, <2>3
<1> QED
  BY Zenon, <1>3, <1>4, <1>5

\* The conflict sets are sets of other processors.
LEMMA ConflictSets ==
  ASSUME NEW p, NEW a
  PROVE  Writers(p, a) \subseteq Proc \ {p} /\ Sharers(p, a) \subseteq Proc \ {p}
BY Zenon DEF Writers, Sharers

\* A load aborts the writers of the block and, if the L0 is not downgraded,
\* at most one more transaction that is another core's.
LEMMA VictimSets ==
  ASSUME NEW p, NEW a, NEW S \in LoadVictims(p, a)
  PROVE  /\ Writers(p, a) \subseteq S
         /\ \A r \in S : r \in Proc \ {p} /\ inTx[r]
         /\ l0_downgrade_on_l1_gets => S = Writers(p, a)
<1>1. \/ S = Writers(p, a)
      \/ /\ ~l0_downgrade_on_l1_gets
         /\ \E q \in Sharers(p, a) : S = Writers(p, a) \cup {q}
  BY Zenon, DowngradeAssumption DEF LoadVictims
<1>2. /\ \A r \in Writers(p, a) : r \in Proc \ {p} /\ inTx[r]
      /\ \A r \in Sharers(p, a) : r \in Proc \ {p} /\ inTx[r]
  BY Zenon DEF Writers, Sharers
<1> QED
  BY Zenon, <1>1, <1>2

\* Typing of setAbortFlag and of the cancelled flushes.
LEMMA AbortTyping ==
  ASSUME TypeOK, NEW S, NEW cause \in Causes, setAbortFlag(S, cause)
  PROVE  /\ abortCause' \in [Proc -> Causes]
         /\ aborting' \in [Proc -> BOOLEAN]
         /\ BlocksAfterAbort(S, block) \in [Proc -> [Addr -> Statuses]]
BY Zenon DEF TypeOK, setAbortFlag, BlocksAfterAbort, cancelWriteBufferFlush, Statuses

\* The head of a non-empty list and the list without it, as HTM's token list
\* is used by releaseCommitToken.
LEMMA TailFacts ==
  ASSUME NEW S, NEW s \in Seq(S), s # <<>>
  PROVE  /\ Head(s) = s[1] /\ 1 \in DOMAIN s
         /\ Tail(s) \in Seq(S) /\ Len(Tail(s)) = Len(s) - 1
         /\ \A j \in 1 .. Len(s) - 1 : Tail(s)[j] = s[j + 1]
OBVIOUS

\* A flush only turns pending blocks into issued ones and keeps its types.
LEMMA FlushFacts ==
  ASSUME NEW p \in Proc, NEW b \in [Addr -> Statuses],
         NEW others \in [Proc -> [Addr -> Statuses]],
         TypeOK, flushWriteBuffer(p, b, others)
  PROVE  /\ committed' \in [Proc -> BOOLEAN]
         /\ committed' = [committed EXCEPT ![p] = @ \/ Empty(b)]
         /\ flushPending' \in [Proc -> BOOLEAN]
         /\ block' \in [Proc -> [Addr -> Statuses]]
         /\ \A q \in Proc : q # p => block'[q] = others[q]
         /\ \A a \in Addr : \/ block'[p][a] = b[a]
                            \/ b[a] = "Pending" /\ block'[p][a] = "Issued"
<1>1. PICK S \in SUBSET Blocks(b, "Pending") :
        /\ flushPending' = [flushPending EXCEPT ![p] = FlushIncomplete(b, S)]
        /\ block' = [others EXCEPT
             ![p] = [a \in Addr |-> IF a \in S THEN "Issued" ELSE b[a]]]
  BY Zenon DEF flushWriteBuffer
<1>2. FlushIncomplete(b, S) \in BOOLEAN
  BY Zenon DEF FlushIncomplete
<1>3. Empty(b) \in BOOLEAN
  BY Zenon DEF Empty
<1> QED
  BY Zenon, <1>1, <1>2, <1>3 DEF flushWriteBuffer, Blocks, Statuses, TypeOK

-----------------------------------------------------------------------------
(* The token list, as a list without duplicates and the set of its members *)

Distinct(s) == \A i, j \in 1 .. Len(s) : s[i] = s[j] => i = j
Member(s, q) == \E i \in 1 .. Len(s) : s[i] = q

\* requestCommitToken: push_back of an absent element.
LEMMA AppendQueue ==
  ASSUME NEW S, NEW s \in Seq(S), NEW p \in S, Distinct(s), ~Member(s, p)
  PROVE  /\ Append(s, p) \in Seq(S) /\ Append(s, p) # <<>>
         /\ Distinct(Append(s, p))
         /\ \A q : Member(Append(s, p), q) <=> Member(s, q) \/ q = p
         /\ s # <<>> => Append(s, p)[1] = s[1]
<1> DEFINE t == Append(s, p)
<1>1. /\ t \in Seq(S) /\ t # <<>> /\ Len(t) = Len(s) + 1 /\ Len(s) \in Nat
      /\ \A i \in 1 .. Len(s) : t[i] = s[i]
      /\ t[Len(s) + 1] = p
  OBVIOUS
<1>2. s # <<>> => 1 \in 1 .. Len(s)
  OBVIOUS
<1> HIDE DEF t
<1>3. Distinct(t)
  BY <1>1 DEF Distinct, Member
<1>4. ASSUME NEW q
      PROVE  Member(t, q) <=> Member(s, q) \/ q = p
  BY <1>1 DEF Member
<1> QED
  BY Zenon, <1>1, <1>2, <1>3, <1>4 DEF t

\* removeCommitTokenRequest: erase of the element at position i.
LEMMA RemoveQueue ==
  ASSUME NEW S, NEW s \in Seq(S), Distinct(s), NEW i \in 1 .. Len(s)
  PROVE  /\ Erased(s, i) \in Seq(S)
         /\ Distinct(Erased(s, i))
         /\ \A q : Member(Erased(s, i), q) <=> Member(s, q) /\ q # s[i]
         /\ i # 1 => Erased(s, i)[1] = s[1]
<1> DEFINE t == Erased(s, i)
<1>1. /\ t \in Seq(S) /\ Len(t) = Len(s) - 1 /\ Len(s) \in Nat
      /\ \A j \in 1 .. Len(s) - 1 : t[j] = IF j < i THEN s[j] ELSE s[j + 1]
  BY ErasedFacts
<1> HIDE DEF t
<1>2. Distinct(t)
  <2> SUFFICES ASSUME NEW j \in 1 .. Len(t), NEW k \in 1 .. Len(t), t[j] = t[k]
               PROVE  j = k
    BY Zenon DEF Distinct
  <2> DEFINE old(x) == IF x < i THEN x ELSE x + 1
  <2>1. /\ old(j) \in 1 .. Len(s) /\ old(k) \in 1 .. Len(s)
        /\ t[j] = s[old(j)] /\ t[k] = s[old(k)]
    BY <1>1
  <2>2. old(j) = old(k)
    BY Zenon, <2>1 DEF Distinct
  <2> QED
    BY <2>2
<1>3. ASSUME NEW q
      PROVE  Member(t, q) <=> Member(s, q) /\ q # s[i]
  <2>1. ASSUME NEW j \in 1 .. Len(t), t[j] = q
        PROVE  Member(s, q) /\ q # s[i]
    <3> DEFINE o == IF j < i THEN j ELSE j + 1
    <3>1. o \in 1 .. Len(s) /\ s[o] = q /\ o # i
      BY <1>1, <2>1
    <3> QED
      BY Zenon, <3>1 DEF Member, Distinct
  <2>2. ASSUME NEW j \in 1 .. Len(s), s[j] = q, q # s[i]
        PROVE  Member(t, q)
    <3> DEFINE n == IF j < i THEN j ELSE j - 1
    <3>1. j # i
      BY Zenon, <2>2
    <3>2. n \in 1 .. Len(t)
      BY <1>1, <3>1
    <3>3. t[n] = q
      BY <1>1, <2>2, <3>1, <3>2
    <3> QED
      BY Zenon, <3>2, <3>3 DEF Member
  <2> QED
    BY Zenon, <2>1, <2>2 DEF Member
<1>4. i # 1 => t[1] = s[1]
  BY <1>1
<1> QED
  BY Zenon, <1>1, <1>2, <1>3, <1>4 DEF t

\* releaseCommitToken: erase of the first element.
LEMMA TailQueue ==
  ASSUME NEW S, NEW s \in Seq(S), Distinct(s), s # <<>>
  PROVE  /\ Tail(s) \in Seq(S)
         /\ Distinct(Tail(s))
         /\ \A q : Member(Tail(s), q) <=> Member(s, q) /\ q # s[1]
<1> DEFINE t == Tail(s)
<1>1. /\ t \in Seq(S) /\ Len(t) = Len(s) - 1 /\ Len(s) \in Nat \ {0}
      /\ \A j \in 1 .. Len(s) - 1 : t[j] = s[j + 1]
  BY TailFacts
<1> HIDE DEF t
<1>2. Distinct(t)
  <2> SUFFICES ASSUME NEW j \in 1 .. Len(t), NEW k \in 1 .. Len(t), t[j] = t[k]
               PROVE  j = k
    BY Zenon DEF Distinct
  <2>1. /\ j + 1 \in 1 .. Len(s) /\ k + 1 \in 1 .. Len(s)
        /\ t[j] = s[j + 1] /\ t[k] = s[k + 1]
    BY <1>1
  <2>2. j + 1 = k + 1
    BY Zenon, <2>1 DEF Distinct
  <2> QED
    BY <2>2
<1>3. ASSUME NEW q
      PROVE  Member(t, q) <=> Member(s, q) /\ q # s[1]
  <2>1. ASSUME NEW j \in 1 .. Len(t), t[j] = q
        PROVE  Member(s, q) /\ q # s[1]
    <3>1. j + 1 \in 1 .. Len(s) /\ s[j + 1] = q /\ 1 \in 1 .. Len(s) /\ j + 1 # 1
      BY <1>1, <2>1
    <3> QED
      BY Zenon, <3>1 DEF Member, Distinct
  <2>2. ASSUME NEW j \in 1 .. Len(s), s[j] = q, q # s[1]
        PROVE  Member(t, q)
    <3>1. j # 1
      BY Zenon, <2>2
    <3>2. j - 1 \in 1 .. Len(t) /\ t[j - 1] = s[(j - 1) + 1]
      BY <1>1, <3>1
    <3>3. t[j - 1] = q
      BY <2>2, <3>2
    <3> QED
      BY Zenon, <3>2, <3>3 DEF Member
  <2> QED
    BY Zenon, <2>1, <2>2 DEF Member
<1> QED
  BY Zenon, <1>1, <1>2, <1>3 DEF t

\* TokenQueue in terms of the list's members.
LEMMA QueueDef ==
  ASSUME tokens \in Seq(Proc), Arbitration = "token"
  PROVE  TokenQueue <=>
           /\ Distinct(tokens)
           /\ \A p \in Proc :
                /\ arbiter[p] # "idle" <=> Member(tokens, p)
                /\ arbiter[p] = "validated" => tokens[1] = p
<1>1. DOMAIN tokens = 1 .. Len(tokens)
  OBVIOUS
<1> QED
  BY Zenon, <1>1 DEF TokenQueue, Distinct, Member

\* The same in the next state.
LEMMA QueueDefNext ==
  ASSUME tokens' \in Seq(Proc), Arbitration = "token"
  PROVE  TokenQueue' <=>
           /\ Distinct(tokens')
           /\ \A p \in Proc :
                /\ arbiter'[p] # "idle" <=> Member(tokens', p)
                /\ arbiter'[p] = "validated" => tokens'[1] = p
<1>1. DOMAIN tokens' = 1 .. Len(tokens')
  OBVIOUS
<1> QED
  BY Zenon, <1>1 DEF TokenQueue, Distinct, Member

\* Joining, leaving and releasing the token list keep it well formed.
LEMMA QueueStep ==
  ASSUME IInv, NEW p \in Proc,
         \/ initiateValidateTransaction(p)
         \/ commitTransaction(p)
         \/ abortTransaction(p)
  PROVE  tokens' \in Seq(Proc) /\ TokenQueue'
<1>1. CASE Arbitration # "token"
  BY Zenon, <1>1 DEF IInv, TypeOK, TokenQueue, initiateValidateTransaction,
              commitTransaction, abortTransaction
<1>2. CASE Arbitration = "token"
  <2>1. tokens \in Seq(Proc) /\ arbiter \in [Proc -> {"idle", "validating", "validated"}]
    BY Zenon DEF IInv, TypeOK
  <2>2. /\ Distinct(tokens)
        /\ \A q \in Proc : /\ arbiter[q] # "idle" <=> Member(tokens, q)
                           /\ arbiter[q] = "validated" => tokens[1] = q
    BY Zenon, <1>2, <2>1, QueueDef DEF IInv
  <2>3. \A q : Member(tokens, q) =>
                 tokens # <<>> /\ Head(tokens) = tokens[1] /\ tokens[1] \in Proc
    BY <2>1 DEF Member
  <2>4. CASE initiateValidateTransaction(p) /\ arbiter[p] = "idle"
    <3>1. tokens' = Append(tokens, p) /\ ~Member(tokens, p)
      BY Zenon, <1>2, <2>2, <2>4 DEF initiateValidateTransaction
    <3>2. /\ tokens' \in Seq(Proc) /\ tokens' # <<>>
          /\ Distinct(tokens')
          /\ \A q : Member(tokens', q) <=> Member(tokens, q) \/ q = p
          /\ tokens # <<>> => tokens'[1] = tokens[1]
      BY <2>1, <2>2, <3>1, AppendQueue
    <3>3. Head(tokens') = tokens'[1]
      BY Zenon, <3>2, TailFacts
    <3>4. arbiter' = [arbiter EXCEPT ![p] =
            IF tokens'[1] = p THEN "validated" ELSE "validating"]
      BY Zenon, <1>2, <2>4, <3>3 DEF initiateValidateTransaction, getTokenOwner
    <3>5. \A q \in Proc : /\ arbiter'[q] # "idle" <=> Member(tokens', q)
                          /\ arbiter'[q] = "validated" => tokens'[1] = q
      BY Zenon, <2>1, <2>2, <2>3, <3>2, <3>4
    <3> QED
      BY Zenon, <1>2, <3>2, <3>5, QueueDefNext
  <2>5. CASE initiateValidateTransaction(p) /\ arbiter[p] # "idle"
    <3>1. tokens' = tokens
      BY Zenon, <2>5 DEF initiateValidateTransaction
    <3>2. arbiter' = [arbiter EXCEPT ![p] =
            IF tokens[1] = p THEN "validated" ELSE "validating"]
      BY Zenon, <1>2, <2>2, <2>3, <2>5, <3>1
         DEF initiateValidateTransaction, getTokenOwner
    <3>3. \A q \in Proc : /\ arbiter'[q] # "idle" <=> Member(tokens, q)
                          /\ arbiter'[q] = "validated" => tokens[1] = q
      BY Zenon, <2>1, <2>2, <2>5, <3>2
    <3> QED
      BY Zenon, <1>2, <2>1, <2>2, <3>1, <3>3, QueueDefNext
  <2>6. CASE commitTransaction(p)
    <3>1. arbiter[p] = "validated"
      BY Zenon, <2>6 DEF commitTransaction, canCommitTransaction, Live, IInv,
                  Structure, Flags
    <3>2. tokens # <<>> /\ tokens[1] = p
      BY Zenon, <2>2, <2>3, <3>1
    <3>3. tokens' = Tail(tokens) /\ arbiter' = [arbiter EXCEPT ![p] = "idle"]
      BY Zenon, <1>2, <2>6 DEF commitTransaction
    <3>4. /\ tokens' \in Seq(Proc)
          /\ Distinct(tokens')
          /\ \A q : Member(tokens', q) <=> Member(tokens, q) /\ q # p
      BY Zenon, <2>1, <2>2, <3>2, <3>3, TailQueue
    <3>5. \A q \in Proc : /\ arbiter'[q] # "idle" <=> Member(tokens', q)
                          /\ arbiter'[q] = "validated" => tokens'[1] = q
      BY Zenon, <2>1, <2>2, <3>2, <3>3, <3>4
    <3> QED
      BY Zenon, <1>2, <3>4, <3>5, QueueDefNext
  <2>7. CASE abortTransaction(p) /\ arbiter[p] = "idle"
    <3>1. tokens' = tokens /\ arbiter' = [arbiter EXCEPT ![p] = "idle"]
      BY Zenon, <2>7 DEF abortTransaction
    <3>2. arbiter' = arbiter
      BY Zenon, <2>1, <2>7, <3>1
    <3> QED
      BY Zenon, <1>2, <2>1, <2>2, <3>1, <3>2, QueueDefNext
  <2>8. CASE abortTransaction(p) /\ arbiter[p] # "idle"
    <3>1. PICK i \in 1 .. Len(tokens) :
            tokens[i] = p /\ tokens' = Erased(tokens, i)
      <4> DEFINE i == CHOOSE i \in DOMAIN tokens : tokens[i] = p
      <4>1. DOMAIN tokens = 1 .. Len(tokens)
        BY <2>1
      <4>2. \E j \in DOMAIN tokens : tokens[j] = p
        BY Zenon, <2>2, <2>8, <4>1 DEF Member
      <4>3. i \in DOMAIN tokens /\ tokens[i] = p
        BY Zenon, <4>2
      <4>4. tokens' = Erased(tokens, i)
        BY Zenon, <1>2, <2>8 DEF abortTransaction, removeCommitTokenRequest, Erased
      <4> QED
        BY Zenon, <4>1, <4>3, <4>4
    <3>2. arbiter' = [arbiter EXCEPT ![p] = "idle"]
      BY Zenon, <2>8 DEF abortTransaction
    <3>3. /\ tokens' \in Seq(Proc)
          /\ Distinct(tokens')
          /\ \A q : Member(tokens', q) <=> Member(tokens, q) /\ q # p
          /\ i # 1 => tokens'[1] = tokens[1]
      BY <2>1, <2>2, <3>1, RemoveQueue
    <3>4. \A q \in Proc : /\ arbiter'[q] # "idle" <=> Member(tokens', q)
                          /\ arbiter'[q] = "validated" => tokens'[1] = q
      BY Zenon, <2>1, <2>2, <3>1, <3>2, <3>3
    <3> QED
      BY Zenon, <1>2, <3>3, <3>4, QueueDefNext
  <2> QED
    BY Zenon, <2>4, <2>5, <2>6, <2>7, <2>8
<1> QED
  BY Zenon, <1>1, <1>2

-----------------------------------------------------------------------------
(* Typing                                                                  *)

\* Every step keeps every variable in its type.
LEMMA TypeStep ==
  ASSUME IInv, NEW p \in Proc, Step(p)
  PROVE  TypeOK'
<1> USE DEF Statuses, Causes
<1>0. TypeOK
  BY Zenon DEF IInv
<1>1. CASE beginTransaction(p)
  BY Zenon, <1>0, <1>1 DEF TypeOK, beginTransaction, arbVars
<1>2. CASE cancelTransaction(p)
  BY Zenon, <1>0, <1>2 DEF TypeOK, cancelTransaction, arbVars, vmVars, isoVars
<1>3. CASE xactReplacement(p)
  BY Zenon, <1>0, <1>3, AbortTyping DEF TypeOK, xactReplacement, arbVars, isoVars
<1>4. CASE initiateValidateTransaction(p)
  <2>1. tokens' \in Seq(Proc)
    BY Zenon, <1>4, QueueStep
  <2> QED
    BY Zenon, <1>0, <1>4, <2>1
       DEF TypeOK, initiateValidateTransaction, vmVars, isoVars
<1>5. CASE commitWriteBuffer(p)
  <2>1. block[p] \in [Addr -> Statuses] /\ block \in [Proc -> [Addr -> Statuses]]
    BY Zenon, <1>0 DEF TypeOK
  <2>2. /\ committed' \in [Proc -> BOOLEAN]
        /\ flushPending' \in [Proc -> BOOLEAN]
        /\ block' \in [Proc -> [Addr -> Statuses]]
    BY Zenon, <1>0, <1>5, <2>1, FlushFacts DEF commitWriteBuffer
  <2> QED
    BY Zenon, <1>0, <1>5, <2>2 DEF TypeOK, commitWriteBuffer, arbVars, isoVars
<1>6. CASE signalAbort(p)
  BY Zenon, <1>0, <1>6 DEF TypeOK, signalAbort, arbVars, vmVars, isoVars
<1>7. CASE commitTransaction(p)
  <2>1. tokens' \in Seq(Proc)
    BY Zenon, <1>7, QueueStep
  <2> QED
    BY Zenon, <1>0, <1>7, <2>1 DEF TypeOK, commitTransaction, NewValues
<1>8. CASE abortTransaction(p)
  <2>1. tokens' \in Seq(Proc)
    BY Zenon, <1>8, QueueStep
  <2> QED
    BY Zenon, <1>0, <1>8, <2>1 DEF TypeOK, abortTransaction
<1>9. ASSUME NEW a \in Addr, isolateTransactionLoad(p, a)
      PROVE  TypeOK'
  <2>1. PICK S : setAbortFlag(S, "TxLoad") /\ block' = BlocksAfterAbort(S, block)
    BY Zenon, <1>9 DEF isolateTransactionLoad
  <2> QED
    BY Zenon, <1>0, <1>9, <2>1, AbortTyping DEF TypeOK, isolateTransactionLoad, arbVars
<1>10. ASSUME NEW a \in Addr, redirectStoreToWriteBuffer(p, a)
       PROVE  TypeOK'
  BY Zenon, <1>0, <1>10 DEF TypeOK, redirectStoreToWriteBuffer, arbVars
<1>11. ASSUME NEW a \in Addr, nonTransactionalLoad(p, a)
       PROVE  TypeOK'
  <2>1. PICK S : setAbortFlag(S, "NonTx") /\ block' = BlocksAfterAbort(S, block)
    BY Zenon, <1>11 DEF nonTransactionalLoad
  <2> QED
    BY Zenon, <1>0, <1>11, <2>1, AbortTyping
       DEF TypeOK, nonTransactionalLoad, arbVars, isoVars
<1>12. ASSUME NEW a \in Addr, nonTransactionalStore(p, a)
       PROVE  TypeOK'
  BY Zenon, <1>0, <1>12, AbortTyping
     DEF TypeOK, nonTransactionalStore, NewValues, arbVars, isoVars
<1>13. ASSUME NEW a \in Addr, mergeDataFromWriteBuffer(p, a)
       PROVE  TypeOK'
  <2> DEFINE others == BlocksAfterAbort(Sharers(p, a), block)
             b == [block[p] EXCEPT ![a] = "absent"]
  <2>1. /\ abortCause' \in [Proc -> Causes]
        /\ aborting' \in [Proc -> BOOLEAN]
        /\ others \in [Proc -> [Addr -> Statuses]]
    BY Zenon, <1>0, <1>13, AbortTyping DEF mergeDataFromWriteBuffer
  <2>2. b \in [Addr -> Statuses]
    BY Zenon, <1>0 DEF TypeOK
  <2>3. /\ committed' \in [Proc -> BOOLEAN]
        /\ flushPending' \in [Proc -> BOOLEAN]
        /\ block' \in [Proc -> [Addr -> Statuses]]
    <3> HIDE DEF others, b
    <3>1. \/ /\ committed' = [committed EXCEPT ![p] = TRUE]
             /\ block' = [others EXCEPT ![p] = b]
             /\ UNCHANGED flushPending
          \/ /\ block' = [others EXCEPT ![p] = b]
             /\ UNCHANGED <<committed, flushPending>>
          \/ flushWriteBuffer(p, b, others)
      BY Zenon, <1>13 DEF mergeDataFromWriteBuffer, others, b
    <3>2. CASE flushWriteBuffer(p, b, others)
      BY Zenon, <1>0, <2>1, <2>2, <3>2, FlushFacts
    <3>3. committed \in [Proc -> BOOLEAN] /\ flushPending \in [Proc -> BOOLEAN]
      BY Zenon, <1>0 DEF TypeOK
    <3>4. block' = [others EXCEPT ![p] = b]
            => block' \in [Proc -> [Addr -> Statuses]]
      BY Zenon, <2>1, <2>2
    <3> QED
      BY Zenon, <3>1, <3>2, <3>3, <3>4
  <2> QED
    BY Zenon, <1>0, <1>13, <2>1, <2>3 DEF TypeOK, mergeDataFromWriteBuffer, arbVars
<1> QED
  BY Zenon, <1>1, <1>2, <1>3, <1>4, <1>5, <1>6, <1>7, <1>8, <1>9, <1>10, <1>11,
     <1>12, <1>13 DEF Step

-----------------------------------------------------------------------------
(* The flags and sets of one processor                                     *)

Local(q) == Quiet(q) /\ Flags(q) /\ Sets(q)

\* What setAbortFlag leaves of processor q when it only dooms transactions.
LEMMA AbortLocal ==
  ASSUME TypeOK, NEW S, NEW q \in Proc, Local(q),
         \A r \in S : inTx[r],
         NEW cause \in Causes \ {"Undefined", "Explicit"},
         setAbortFlag(S, cause),
         block'[q] = BlocksAfterAbort(S, block)[q],
         inTx'[q] = inTx[q], atCommit'[q] = atCommit[q],
         commitPending'[q] = commitPending[q], arbiter'[q] = arbiter[q],
         committing'[q] = committing[q], committed'[q] = committed[q],
         readSet'[q] = readSet[q], writeSet'[q] = writeSet[q],
         wsetInWB'[q] = wsetInWB[q], inTx[q] \/ stale'[q] = {}
  PROVE  Local(q)'
<1>1. abortCause'[q] = IF Hit(S, q) THEN cause ELSE abortCause[q]
  BY Zenon DEF setAbortFlag
<1>2. aborting'[q] <=> aborting[q] \/ (Hit(S, q) /\ committing[q])
  BY Zenon DEF setAbortFlag, TypeOK
<1>3. \A a \in Addr :
        block'[q][a] = IF Hit(S, q) /\ committing[q] /\ block[q][a] = "Pending"
                       THEN "absent" ELSE block[q][a]
  <2>1. block'[q] = IF Hit(S, q) /\ committing[q]
                    THEN cancelWriteBufferFlush(block[q]) ELSE block[q]
    BY Zenon DEF BlocksAfterAbort
  <2> QED
    BY <2>1 DEF cancelWriteBufferFlush
<1>4. Hit(S, q) => inTx[q] /\ ~abortFlag(q)
  BY Zenon DEF Hit
<1>5. abortFlag(q)' <=> abortFlag(q) \/ Hit(S, q)
  BY Zenon, <1>1 DEF abortFlag, Hit
<1>6. Quiet(q)'
  BY Zenon, <1>3, <1>4, <1>5 DEF Local, Quiet, Empty
<1>7. Flags(q)'
  BY Zenon, <1>1, <1>2, <1>4, <1>5 DEF Local, Flags
<1>8. Sets(q)'
  BY Zenon, <1>3, <1>4, <1>5 DEF Local, Sets, Empty
<1> QED
  BY Zenon, <1>6, <1>7, <1>8 DEF Local

\* A processor whose state a step leaves alone.
LEMMA SameLocal ==
  ASSUME NEW q \in Proc, Local(q),
         abortCause'[q] = abortCause[q], aborting'[q] = aborting[q],
         block'[q] = block[q],
         inTx'[q] = inTx[q], atCommit'[q] = atCommit[q],
         commitPending'[q] = commitPending[q], arbiter'[q] = arbiter[q],
         committing'[q] = committing[q], committed'[q] = committed[q],
         readSet'[q] = readSet[q], writeSet'[q] = writeSet[q],
         wsetInWB'[q] = wsetInWB[q], inTx[q] \/ stale'[q] = {}
  PROVE  Local(q)'
BY Zenon DEF Local, Quiet, Flags, Sets, Empty, abortFlag

\* The completion of one flush request: the block leaves the write buffer for
\* the write set, the flush of p may go on, and the sharers are doomed.
LEMMA MergeBlocks ==
  ASSUME TypeOK, NEW p \in Proc, NEW a \in Addr, mergeDataFromWriteBuffer(p, a)
  PROVE  /\ \A q \in Proc \ {p} :
              block'[q] = BlocksAfterAbort(Sharers(p, a), block)[q]
         /\ \A q \in Proc \ {p} : committed'[q] = committed[q]
         /\ block'[p][a] = "absent"
         /\ \A c \in Addr \ {a} :
              \/ block'[p][c] = block[p][c]
              \/ /\ block[p][c] = "Pending" /\ block'[p][c] = "Issued"
                 /\ ~aborting[p]
         /\ committed'[p] <=>
              committed[p] \/ (\A c \in Addr \ {a} : block[p][c] = "absent")
<1> DEFINE others == BlocksAfterAbort(Sharers(p, a), block)
           b == [block[p] EXCEPT ![a] = "absent"]
<1>1. others \in [Proc -> [Addr -> Statuses]]
  BY Zenon, AbortTyping DEF mergeDataFromWriteBuffer, Causes
<1>2. /\ b \in [Addr -> Statuses] /\ b[a] = "absent"
      /\ \A c \in Addr \ {a} : b[c] = block[p][c]
      /\ Empty(b) <=> \A c \in Addr \ {a} : block[p][c] = "absent"
  BY Zenon DEF TypeOK, Statuses, Empty
<1> HIDE DEF others, b
<1>3. \/ /\ Empty(b)
         /\ committed' = [committed EXCEPT ![p] = TRUE]
         /\ block' = [others EXCEPT ![p] = b]
      \/ /\ ~Empty(b)
         /\ block' = [others EXCEPT ![p] = b]
         /\ UNCHANGED committed
      \/ ~Empty(b) /\ ~aborting[p] /\ flushWriteBuffer(p, b, others)
  BY Zenon DEF mergeDataFromWriteBuffer, others, b
<1>4. CASE ~aborting[p] /\ flushWriteBuffer(p, b, others) /\ ~Empty(b)
  <2>1. /\ committed' = [committed EXCEPT ![p] = @ \/ Empty(b)]
        /\ \A q \in Proc : q # p => block'[q] = others[q]
        /\ \A c \in Addr : \/ block'[p][c] = b[c]
                           \/ b[c] = "Pending" /\ block'[p][c] = "Issued"
    BY Zenon, <1>1, <1>2, <1>4, FlushFacts
  <2> QED
    BY Zenon, <1>2, <1>4, <2>1 DEF others, TypeOK
<1> QED
  BY <1>1, <1>2, <1>3, <1>4 DEF others, TypeOK

\* The flags and sets of the flushing processor p agree after the merge.
LEMMA MergeLocal ==
  ASSUME TypeOK, NEW p \in Proc, NEW q \in Proc, Local(p), Local(q),
         NEW a \in Addr, mergeDataFromWriteBuffer(p, a)
  PROVE  Local(q)'
<1>m. setAbortFlag(Sharers(p, a), "TxStore") /\ block[p][a] = "Issued"
  BY Zenon DEF mergeDataFromWriteBuffer
<1>1. CASE q # p
  <2>1. \A r \in Sharers(p, a) : inTx[r]
    BY Zenon DEF Sharers
  <2>2. /\ block'[q] = BlocksAfterAbort(Sharers(p, a), block)[q]
        /\ committed'[q] = committed[q]
    BY <1>1, MergeBlocks
  <2>3. /\ UNCHANGED <<inTx, atCommit, commitPending, arbVars, committing,
                       readSet, wsetInWB, stale>>
        /\ writeSet'[q] = writeSet[q]
    BY Zenon, <1>1 DEF mergeDataFromWriteBuffer, TypeOK
  <2>4. inTx[q] \/ stale'[q] = {}
    BY Zenon, <2>3 DEF Local, Quiet
  <2> QED
    BY Zenon, <1>m, <2>1, <2>2, <2>3, <2>4, AbortLocal DEF Causes, arbVars
<1>2. CASE q = p
  <2>1. ~Hit(Sharers(p, a), p)
    BY Zenon, ConflictSets DEF Hit
  <2>2. /\ abortCause'[p] = abortCause[p]
        /\ (aborting'[p] <=> aborting[p])
    BY Zenon, <1>m, <2>1 DEF setAbortFlag, TypeOK
  <2>3. /\ UNCHANGED <<inTx, atCommit, commitPending, arbVars, committing,
                       readSet, wsetInWB, stale>>
        /\ writeSet'[p] = writeSet[p] \cup {a}
    BY Zenon DEF mergeDataFromWriteBuffer, TypeOK
  <2>4. committing[p] /\ commitPending[p] /\ a \in wsetInWB[p] /\ inTx[p]
        /\ ~committed[p]
    BY Zenon, <1>m DEF Local, Sets, Quiet, Empty
  <2>5. Quiet(p)'
    BY Zenon, <2>3, <2>4 DEF Quiet
  <2>6. Flags(p)'
    BY Zenon, <2>2, <2>3, <2>4 DEF Local, Flags, abortFlag, arbVars
  <2>7. /\ block'[p][a] = "absent"
        /\ \A c \in Addr \ {a} :
              \/ block'[p][c] = block[p][c]
              \/ block[p][c] = "Pending" /\ block'[p][c] = "Issued"
        /\ committed'[p] <=> \A c \in Addr \ {a} : block[p][c] = "absent"
    <3>1. /\ block'[p][a] = "absent"
          /\ \A c \in Addr \ {a} :
                \/ block'[p][c] = block[p][c]
                \/ block[p][c] = "Pending" /\ block'[p][c] = "Issued"
      BY MergeBlocks
    <3>2. committed'[p] <=>
            committed[p] \/ (\A c \in Addr \ {a} : block[p][c] = "absent")
      BY Zenon, MergeBlocks
    <3> QED
      BY Zenon, <2>4, <3>1, <3>2
  <2>8. committed'[p] => Empty(block[p])'
    BY Zenon, <2>7 DEF Empty
  <2>9. Sets(p)'
    BY Zenon, <2>2, <2>3, <2>4, <2>7, <2>8 DEF Local, Sets, abortFlag
  <2> QED
    BY Zenon, <1>2, <2>5, <2>6, <2>9 DEF Local
<1> QED
  BY Zenon, <1>1, <1>2

\* Every step keeps the flags and sets of every processor in agreement.
LEMMA StructureStep ==
  ASSUME IInv, NEW p \in Proc, Step(p)
  PROVE  Structure'
<1> SUFFICES ASSUME NEW q \in Proc
             PROVE  Local(q)'
  BY Zenon DEF Structure, Local
<1>0. TypeOK /\ TypeOK' /\ Local(p) /\ Local(q)
  BY Zenon, TypeStep DEF IInv, Structure, Local
<1>s. ~inTx[q] => readSet[q] = {} /\ stale[q] = {}
  BY Zenon, <1>0 DEF Local, Quiet
<1>c. \A a \in Addr : \A r \in Sharers(p, a) : inTx[r]
  BY Zenon DEF Sharers
<1>1. CASE beginTransaction(p)
  <2>1. CASE q = p
    <3> USE <1>0, <1>1, <2>1
    <3>1. Quiet(q)' /\ Flags(q)'
      BY Zenon DEF beginTransaction, Local, Quiet, Flags, abortFlag, TypeOK, arbVars
    <3>2. Sets(q)'
      BY DEF beginTransaction, Local, Quiet, Sets, abortFlag, Empty, TypeOK
    <3> QED
      BY Zenon, <3>1, <3>2 DEF Local
  <2>2. CASE q # p
    BY Zenon, <1>0, <1>1, <1>s, <2>2, SameLocal DEF beginTransaction, TypeOK, arbVars
  <2> QED
    BY Zenon, <2>1, <2>2
<1>2. CASE cancelTransaction(p)
  <2>1. CASE q = p
    BY Zenon, <1>0, <1>2, <2>1
       DEF cancelTransaction, Local, Quiet, Flags, Sets, abortFlag, Empty, Live,
           TypeOK, arbVars, vmVars, isoVars
  <2>2. CASE q # p
    BY Zenon, <1>0, <1>2, <1>s, <2>2, SameLocal
       DEF cancelTransaction, TypeOK, arbVars, vmVars, isoVars
  <2> QED
    BY Zenon, <2>1, <2>2
<1>3. CASE xactReplacement(p)
  BY Zenon, <1>0, <1>3, <1>s, AbortLocal
     DEF xactReplacement, arbVars, isoVars, Causes
<1>4. CASE initiateValidateTransaction(p)
  <2>1. CASE q = p
    <3> USE <1>0, <1>4, <2>1
    <3>1. /\ atCommit'[p] /\ commitPending'[p]
          /\ arbiter'[p] # "idle"
          /\ inTx[p] /\ ~abortFlag(p) /\ abortCause'[p] = abortCause[p]
          /\ UNCHANGED <<inTx, vmVars, isoVars, stale>>
          /\ ~committing[p]
      BY Zenon DEF initiateValidateTransaction, TypeOK, Live, Local, Flags
    <3> QED
      BY Zenon, <3>1 DEF Local, Quiet, Flags, Sets, abortFlag, Empty, vmVars, isoVars
  <2>2. CASE q # p
    BY Zenon, <1>0, <1>4, <1>s, <2>2, SameLocal
       DEF initiateValidateTransaction, TypeOK, vmVars, isoVars
  <2> QED
    BY Zenon, <2>1, <2>2
<1>5. CASE commitWriteBuffer(p)
  <2>1. block[p] \in [Addr -> Statuses] /\ block \in [Proc -> [Addr -> Statuses]]
    BY Zenon, <1>0 DEF TypeOK, Statuses
  <2>2. /\ committed' = [committed EXCEPT ![p] = @ \/ Empty(block[p])]
        /\ \A r \in Proc : r # p => block'[r] = block[r]
        /\ \A a \in Addr : \/ block'[p][a] = block[p][a]
                           \/ block[p][a] = "Pending" /\ block'[p][a] = "Issued"
    BY <1>0, <1>5, <2>1, FlushFacts DEF commitWriteBuffer
  <2>3. CASE q = p
    <3>1. /\ committing'[p] /\ arbiter[p] = "validated"
          /\ (committed'[p] <=> Empty(block[p]))
          /\ inTx[p] /\ ~abortFlag(p) /\ ~aborting[p] /\ ~committed[p]
          /\ commitPending[p] /\ atCommit[p]
          /\ UNCHANGED <<inTx, abortCause, atCommit, commitPending, arbVars,
                         aborting, isoVars, stale>>
      BY Zenon, <1>0, <1>5, <2>2 DEF commitWriteBuffer, TypeOK, Live, Local, Flags
    <3>2. Quiet(p)' /\ Flags(p)'
      BY Zenon, <1>0, <3>1 DEF Local, Quiet, Flags, abortFlag, arbVars
    <3>3. Sets(p)'
      BY Zenon, <1>0, <2>2, <3>1 DEF Local, Sets, Empty, abortFlag, isoVars
    <3> QED
      BY Zenon, <2>3, <3>2, <3>3 DEF Local
  <2>4. CASE q # p
    BY Zenon, <1>0, <1>5, <1>s, <2>2, <2>4, SameLocal
       DEF commitWriteBuffer, TypeOK, arbVars, isoVars
  <2> QED
    BY Zenon, <2>3, <2>4
<1>6. CASE signalAbort(p)
  <2>1. CASE q = p
    <3>1. ~commitPending'[p] /\ abortFlag(p) /\ canCommitTransaction(p)
      BY Zenon, <1>0, <1>6 DEF signalAbort, TypeOK
    <3>2. \A a \in Addr : block[p][a] # "Issued"
      BY Zenon, <1>0, <3>1 DEF canCommitTransaction, Local, Sets, Empty
    <3> QED
      BY Zenon, <1>0, <1>6, <2>1, <3>1, <3>2
         DEF signalAbort, Local, Quiet, Flags, Sets, abortFlag, Empty, arbVars,
             vmVars, isoVars
  <2>2. CASE q # p
    BY Zenon, <1>0, <1>6, <1>s, <2>2, SameLocal
       DEF signalAbort, TypeOK, arbVars, vmVars, isoVars
  <2> QED
    BY Zenon, <2>1, <2>2
<1>7. CASE commitTransaction(p)
  <2>1. CASE q = p
    <3>1. /\ ~abortFlag(p) /\ Empty(block[p])
          /\ ~aborting[p] /\ committing[p] /\ commitPending[p]
      BY Zenon, <1>0, <1>7 DEF commitTransaction, canCommitTransaction, Live, Local,
                        Flags, Sets
    <3>2. /\ ~inTx'[p] /\ ~committing'[p] /\ ~committed'[p]
          /\ arbiter'[p] = "idle" /\ ~atCommit'[p] /\ ~commitPending'[p]
          /\ readSet'[p] = {} /\ writeSet'[p] = {} /\ wsetInWB'[p] = {}
          /\ stale'[p] = {}
          /\ UNCHANGED <<abortCause, aborting, block>>
      BY <1>0, <1>7 DEF commitTransaction, NewValues, TypeOK
    <3> QED
      BY Zenon, <2>1, <3>1, <3>2 DEF Local, Quiet, Flags, Sets, abortFlag, Empty
  <2>2. CASE q # p
    <3>1. inTx[q] \/ stale'[q] = {}
      BY Zenon, <1>0, <1>s, <1>7, <2>2 DEF commitTransaction, NewValues
    <3>2. /\ abortCause'[q] = abortCause[q] /\ aborting'[q] = aborting[q]
          /\ block'[q] = block[q] /\ inTx'[q] = inTx[q]
          /\ atCommit'[q] = atCommit[q] /\ commitPending'[q] = commitPending[q]
      BY Zenon, <1>0, <1>7, <2>2 DEF commitTransaction, TypeOK
    <3>3. /\ arbiter'[q] = arbiter[q] /\ committing'[q] = committing[q]
          /\ committed'[q] = committed[q] /\ readSet'[q] = readSet[q]
          /\ writeSet'[q] = writeSet[q] /\ wsetInWB'[q] = wsetInWB[q]
      BY <1>0, <1>7, <2>2 DEF commitTransaction, TypeOK
    <3> QED
      BY Zenon, <1>0, <3>1, <3>2, <3>3, SameLocal
  <2> QED
    BY Zenon, <2>1, <2>2
<1>8. CASE abortTransaction(p)
  <2>1. CASE q = p
    <3>1. /\ ~inTx'[p] /\ ~committing'[p] /\ ~committed'[p] /\ ~aborting'[p]
          /\ ~atCommit'[p] /\ ~commitPending'[p]
      BY <1>0, <1>8 DEF abortTransaction, TypeOK
    <3>2. /\ arbiter'[p] = "idle" /\ abortCause'[p] = "Undefined"
          /\ readSet'[p] = {} /\ writeSet'[p] = {} /\ wsetInWB'[p] = {}
          /\ stale'[p] = {}
      BY <1>0, <1>8 DEF abortTransaction, TypeOK
    <3>3. \A a \in Addr : block'[p][a] = "absent"
      BY <1>0, <1>8 DEF abortTransaction, TypeOK
    <3> QED
      BY Zenon, <2>1, <3>1, <3>2, <3>3 DEF Local, Quiet, Flags, Sets, abortFlag, Empty
  <2>2. CASE q # p
    <3>1. inTx[q] \/ stale'[q] = {}
      BY <1>0, <1>s, <1>8, <2>2 DEF abortTransaction, TypeOK
    <3>2. /\ abortCause'[q] = abortCause[q] /\ aborting'[q] = aborting[q]
          /\ block'[q] = block[q] /\ inTx'[q] = inTx[q]
          /\ atCommit'[q] = atCommit[q] /\ commitPending'[q] = commitPending[q]
      BY <1>0, <1>8, <2>2 DEF abortTransaction, TypeOK
    <3>3. /\ arbiter'[q] = arbiter[q] /\ committing'[q] = committing[q]
          /\ committed'[q] = committed[q] /\ readSet'[q] = readSet[q]
          /\ writeSet'[q] = writeSet[q] /\ wsetInWB'[q] = wsetInWB[q]
      BY <1>0, <1>8, <2>2 DEF abortTransaction, TypeOK
    <3> QED
      BY Zenon, <1>0, <3>1, <3>2, <3>3, SameLocal
  <2> QED
    BY Zenon, <2>1, <2>2
<1>9. ASSUME NEW a \in Addr, isolateTransactionLoad(p, a)
      PROVE  Local(q)'
  <2>0. PICK S \in LoadVictims(p, a) :
          setAbortFlag(S, "TxLoad") /\ block' = BlocksAfterAbort(S, block)
    BY Zenon, <1>9 DEF isolateTransactionLoad
  <2>v. \A r \in S : r # p /\ inTx[r]
    BY Zenon, VictimSets
  <2>1. CASE q = p
    <3>1. ~Hit(S, p)
      BY Zenon, <2>v DEF Hit
    <3>2. /\ abortCause'[p] = abortCause[p]
          /\ (aborting'[p] <=> aborting[p])
          /\ block'[p] = block[p] /\ inTx[p]
          /\ UNCHANGED <<inTx, atCommit, commitPending, arbVars, committing,
                         committed, writeSet, wsetInWB, stale>>
      BY Zenon, <1>9, <2>0, <3>1, <1>0
         DEF isolateTransactionLoad, setAbortFlag, BlocksAfterAbort, Live, TypeOK
    <3> QED
      BY Zenon, <1>0, <2>1, <3>2
         DEF Local, Quiet, Flags, Sets, abortFlag, Empty, arbVars
  <2>2. CASE q # p
    <3>1. UNCHANGED <<inTx, atCommit, commitPending, arbiter, committing,
                      committed, writeSet, wsetInWB, stale>>
      BY Zenon, <1>9 DEF isolateTransactionLoad, arbVars
    <3>2. readSet'[q] = readSet[q]
      BY Zenon, <1>0, <1>9, <2>2 DEF isolateTransactionLoad, TypeOK
    <3> QED
      BY Zenon, <1>0, <1>s, <2>0, <2>v, <3>1, <3>2, AbortLocal DEF Causes
  <2> QED
    BY Zenon, <2>1, <2>2
<1>10. ASSUME NEW a \in Addr, redirectStoreToWriteBuffer(p, a)
       PROVE  Local(q)'
  <2>1. CASE q = p
    <3>1. /\ inTx[p] /\ ~atCommit[p] /\ ~abortFlag(p)
          /\ block'[p] = [block[p] EXCEPT ![a] = "Pending"]
          /\ wsetInWB'[p] = wsetInWB[p] \cup {a}
          /\ UNCHANGED <<inTx, abortCause, atCommit, commitPending, arbVars,
                 committing, committed, aborting, readSet, writeSet, stale>>
      BY <1>0, <1>10 DEF redirectStoreToWriteBuffer, Live, TypeOK
    <3>2. ~committing[p] /\ ~committed[p]
      BY Zenon, <1>0, <3>1 DEF Local, Flags
    <3>3. \A c \in Addr : block'[p][c] = IF c = a THEN "Pending" ELSE block[p][c]
      BY <1>0, <3>1 DEF TypeOK
    <3>4. Quiet(p)' /\ Flags(p)'
      BY Zenon, <1>0, <3>1 DEF Local, Quiet, Flags, abortFlag, arbVars
    <3>5. Sets(p)'
      BY Zenon, <1>0, <3>1, <3>2, <3>3 DEF Local, Sets, abortFlag
    <3> QED
      BY Zenon, <2>1, <3>4, <3>5 DEF Local
  <2>2. CASE q # p
    <3>1. /\ UNCHANGED <<inTx, abortCause, atCommit, commitPending, arbiter,
                   committing, committed, aborting, readSet, writeSet, stale>>
          /\ block'[q] = block[q] /\ wsetInWB'[q] = wsetInWB[q]
      BY <1>0, <1>10, <2>2 DEF redirectStoreToWriteBuffer, TypeOK, arbVars
    <3> QED
      BY Zenon, <1>0, <1>s, <3>1, SameLocal
  <2> QED
    BY Zenon, <2>1, <2>2
<1>11. ASSUME NEW a \in Addr, nonTransactionalLoad(p, a)
       PROVE  Local(q)'
  <2>1. PICK S \in LoadVictims(p, a) :
          setAbortFlag(S, "NonTx") /\ block' = BlocksAfterAbort(S, block)
    BY Zenon, <1>11 DEF nonTransactionalLoad
  <2>2. \A r \in S : inTx[r]
    BY Zenon, VictimSets
  <2> QED
    BY Zenon, <1>0, <1>11, <1>s, <2>1, <2>2, AbortLocal
       DEF nonTransactionalLoad, arbVars, isoVars, Causes
<1>12. ASSUME NEW a \in Addr, nonTransactionalStore(p, a)
       PROVE  Local(q)'
  <2>1. inTx[q] \/ stale'[q] = {}
    BY Zenon, <1>0, <1>s, <1>12 DEF nonTransactionalStore, NewValues
  <2> QED
    BY Zenon, <1>0, <1>12, <1>c, <2>1, AbortLocal
       DEF nonTransactionalStore, arbVars, isoVars, Causes
<1>13. ASSUME NEW a \in Addr, mergeDataFromWriteBuffer(p, a)
       PROVE  Local(q)'
  BY Zenon, <1>13, <1>0, MergeLocal
<1> QED
  BY Zenon, <1>1, <1>2, <1>3, <1>4, <1>5, <1>6, <1>7, <1>8, <1>9, <1>10, <1>11,
     <1>12, <1>13 DEF Step

-----------------------------------------------------------------------------
(* Arbitration                                                             *)

\* Every step keeps the token list in agreement with the arbiters.
LEMMA TokenStep ==
  ASSUME IInv, NEW p \in Proc, Step(p)
  PROVE  TokenQueue'
<1>1. CASE initiateValidateTransaction(p) \/ commitTransaction(p)
             \/ abortTransaction(p)
  BY Zenon, <1>1, QueueStep
<1>2. CASE UNCHANGED arbVars
  BY Zenon, <1>2 DEF IInv, TokenQueue, arbVars
<1> QED
  BY Zenon, <1>1, <1>2
     DEF Step, beginTransaction, cancelTransaction, xactReplacement,
         commitWriteBuffer, signalAbort, isolateTransactionLoad,
         redirectStoreToWriteBuffer, nonTransactionalLoad,
         nonTransactionalStore, mergeDataFromWriteBuffer

\* A step of p grows the sets of p only, and only while its arbiter is idle;
\* it validates p only.
LEMMA ArbiterStep ==
  ASSUME IInv, NEW p \in Proc, Step(p), NEW q \in Proc
  PROVE  /\ arbiter'[q] = "validated" =>
              /\ readSet'[q] \subseteq readSet[q]
              /\ wsetInWB'[q] \subseteq wsetInWB[q]
         /\ arbiter'[q] = "validated" /\ arbiter[q] # "validated" =>
              /\ initiateValidateTransaction(p) /\ q = p
              /\ Arbitration = "magic" => MagicGranted(p)
              /\ UNCHANGED <<readSet, wsetInWB>>
              /\ \A r \in Proc : r # p => arbiter'[r] = arbiter[r]
<1>0. /\ arbiter \in [Proc -> {"idle", "validating", "validated"}]
      /\ readSet \in [Proc -> SUBSET Addr]
      /\ wsetInWB \in [Proc -> SUBSET Addr]
      /\ ~atCommit[p] => arbiter[p] = "idle"
  BY Zenon DEF IInv, TypeOK, Structure, Flags
<1>1. CASE initiateValidateTransaction(p)
  <2>1. UNCHANGED <<readSet, wsetInWB>>
    BY Zenon, <1>1 DEF initiateValidateTransaction, isoVars
  <2>2. \A r \in Proc : r # p => arbiter'[r] = arbiter[r]
    BY Zenon, <1>0, <1>1 DEF initiateValidateTransaction
  <2>3. Arbitration = "magic" /\ arbiter'[p] = "validated" => MagicGranted(p)
    BY Zenon, <1>0, <1>1 DEF initiateValidateTransaction
  <2> QED
    BY Zenon, <1>1, <2>1, <2>2, <2>3
<1>2. CASE commitTransaction(p)
  BY Zenon, <1>0, <1>2 DEF commitTransaction
<1>3. CASE abortTransaction(p)
  BY Zenon, <1>0, <1>3 DEF abortTransaction
<1>4. ASSUME NEW a \in Addr, isolateTransactionLoad(p, a)
      PROVE  /\ UNCHANGED <<arbiter, wsetInWB>>
             /\ arbiter[q] # "idle" => readSet'[q] = readSet[q]
  BY Zenon, <1>0, <1>4 DEF isolateTransactionLoad, arbVars
<1>5. ASSUME NEW a \in Addr, redirectStoreToWriteBuffer(p, a)
      PROVE  /\ UNCHANGED <<arbiter, readSet>>
             /\ arbiter[q] # "idle" => wsetInWB'[q] = wsetInWB[q]
  BY Zenon, <1>0, <1>5 DEF redirectStoreToWriteBuffer, arbVars
<1>6. CASE UNCHANGED <<arbiter, readSet, wsetInWB>>
  BY Zenon, <1>6
<1> QED
  BY Zenon, <1>1, <1>2, <1>3, <1>4, <1>5, <1>6
     DEF Step, beginTransaction, cancelTransaction, xactReplacement,
         commitWriteBuffer, signalAbort, nonTransactionalLoad,
         nonTransactionalStore, mergeDataFromWriteBuffer, arbVars, isoVars

\* No step validates two transactions that conflict.
LEMMA DisjointStep ==
  ASSUME IInv, NEW p \in Proc, Step(p)
  PROVE  ValidatedDisjoint'
<1> SUFFICES ASSUME NEW q \in Proc, NEW r \in Proc, q # r,
                    arbiter'[q] = "validated", arbiter'[r] = "validated"
             PROVE  ~hasConflictWith(q, r)'
  BY Zenon DEF ValidatedDisjoint
<1>1. CASE Arbitration = "token"
  BY Zenon, <1>1, TokenStep DEF TokenQueue
<1>2. CASE Arbitration = "magic"
  <2>1. /\ readSet'[q] \subseteq readSet[q] /\ wsetInWB'[q] \subseteq wsetInWB[q]
        /\ readSet'[r] \subseteq readSet[r] /\ wsetInWB'[r] \subseteq wsetInWB[r]
    BY Zenon, ArbiterStep
  <2>2. CASE arbiter[q] = "validated" /\ arbiter[r] = "validated"
    BY Zenon, <2>1, <2>2 DEF IInv, ValidatedDisjoint, hasConflictWith
  <2>3. CASE arbiter[q] # "validated"
    <3>1. q = p /\ MagicGranted(p) /\ arbiter'[r] = arbiter[r]
      BY Zenon, <1>2, <2>3, ArbiterStep
    <3> QED
      BY Zenon, <2>1, <3>1 DEF MagicGranted, hasConflictWith
  <2>4. CASE arbiter[r] # "validated"
    <3>1. r = p /\ MagicGranted(p) /\ arbiter'[q] = arbiter[q]
      BY Zenon, <1>2, <2>4, ArbiterStep
    <3> QED
      BY Zenon, <2>1, <3>1 DEF MagicGranted, hasConflictWith
  <2> QED
    BY Zenon, <2>2, <2>3, <2>4
<1> QED
  BY Zenon, <1>1, <1>2, ArbitrationAssumption

-----------------------------------------------------------------------------
(* Causes of aborts                                                        *)

\* A committer's flush conflicts only with transactions that are not validated.
LEMMA SharersNotValidated ==
  ASSUME IInv, NEW p \in Proc, NEW a \in Addr, block[p][a] = "Issued",
         NEW q \in Sharers(p, a)
  PROVE  arbiter[q] # "validated"
<1>1. q \in Proc /\ q # p /\ a \in readSet[q] \cup writeSet[q]
  BY Zenon DEF Sharers
<1>2. Sets(p) /\ Flags(p) /\ Sets(q)
  BY Zenon, <1>1 DEF IInv, Structure
<1>3. a \in wsetInWB[p] /\ arbiter[p] = "validated"
  BY Zenon, <1>2 DEF Sets, Flags
<1>4. a \in readSet[q] \cup wsetInWB[q]
  BY Zenon, <1>1, <1>2 DEF Sets
<1>5. hasConflictWith(p, q)
  BY Zenon, <1>3, <1>4 DEF hasConflictWith
<1> QED
  BY Zenon, <1>1, <1>3, <1>5 DEF IInv, ValidatedDisjoint

\* The write set of a transaction is empty before it starts its flush.
LEMMA WritersCommitting ==
  ASSUME IInv, NEW p \in Proc, NEW a \in Addr, NEW q \in Writers(p, a)
  PROVE  committing[q]
<1>1. q \in Proc /\ a \in writeSet[q]
  BY Zenon DEF Writers
<1> QED
  BY Zenon, <1>1 DEF IInv, Structure, Sets

\* No step gives a validated transaction a cause it cannot have.
LEMMA CauseStep ==
  ASSUME IInv, NEW p \in Proc, Step(p)
  PROVE  CommitterNotKilledByCommitter' /\ ValidatedAbortCause'
<1> SUFFICES ASSUME NEW q \in Proc, arbiter'[q] = "validated"
             PROVE  /\ abortCause'[q] # "TxStore"
                    /\ ~committing'[q] =>
                         \/ abortCause'[q] \in {"Undefined", "NonTx", "Capacity"}
                         \/ ~l0_downgrade_on_l1_gets /\ abortCause'[q] = "TxLoad"
  BY Zenon DEF CommitterNotKilledByCommitter, ValidatedAbortCause
<1>0. /\ arbiter \in [Proc -> {"idle", "validating", "validated"}]
      /\ committing \in [Proc -> BOOLEAN]
      /\ abortCause \in [Proc -> Causes]
      /\ ~atCommit[p] => arbiter[p] = "idle"
  BY Zenon DEF IInv, TypeOK, Structure, Flags
<1>i. arbiter[q] = "validated" =>
        /\ abortCause[q] # "TxStore"
        /\ ~committing[q] =>
             \/ abortCause[q] \in {"Undefined", "NonTx", "Capacity"}
             \/ ~l0_downgrade_on_l1_gets /\ abortCause[q] = "TxLoad"
  BY Zenon DEF IInv, CommitterNotKilledByCommitter, ValidatedAbortCause
<1>1. CASE beginTransaction(p)
  <2>1. ~inTx[p] => abortCause[p] = "Undefined"
    BY Zenon DEF IInv, Structure, Quiet, abortFlag
  <2> QED
    BY Zenon, <1>0, <1>i, <1>1, <2>1 DEF beginTransaction, arbVars
<1>2. CASE cancelTransaction(p)
  BY Zenon, <1>0, <1>i, <1>2 DEF cancelTransaction, arbVars, vmVars
<1>3. CASE xactReplacement(p)
  BY Zenon, <1>0, <1>i, <1>3 DEF xactReplacement, arbVars, setAbortFlag
<1>4. CASE initiateValidateTransaction(p)
  <2>1. abortCause[p] = "Undefined" /\ UNCHANGED <<abortCause, committing>>
    BY Zenon, <1>4 DEF initiateValidateTransaction, Live, abortFlag, vmVars
  <2>2. q # p => arbiter'[q] = arbiter[q]
    BY Zenon, <1>0, <1>4 DEF initiateValidateTransaction
  <2> QED
    BY Zenon, <1>i, <2>1, <2>2
<1>5. CASE commitWriteBuffer(p)
  BY Zenon, <1>0, <1>i, <1>5 DEF commitWriteBuffer, arbVars
<1>6. CASE signalAbort(p)
  BY Zenon, <1>0, <1>i, <1>6 DEF signalAbort, arbVars, vmVars
<1>7. CASE commitTransaction(p)
  BY Zenon, <1>0, <1>i, <1>7 DEF commitTransaction
<1>8. CASE abortTransaction(p)
  BY Zenon, <1>0, <1>i, <1>8 DEF abortTransaction
<1>9. ASSUME NEW a \in Addr, isolateTransactionLoad(p, a)
      PROVE  /\ UNCHANGED <<arbiter, committing>>
             /\ \/ abortCause'[q] = abortCause[q]
                \/ /\ committing[q] \/ ~l0_downgrade_on_l1_gets
                   /\ abortCause'[q] = "TxLoad"
  <2>1. PICK S \in LoadVictims(p, a) : setAbortFlag(S, "TxLoad")
    BY Zenon, <1>9 DEF isolateTransactionLoad
  <2>2. q \in S => committing[q] \/ ~l0_downgrade_on_l1_gets
    <3>1. l0_downgrade_on_l1_gets => S = Writers(p, a)
      BY Zenon, <2>1, VictimSets
    <3>2. q \in Writers(p, a) => committing[q]
      BY Zenon, WritersCommitting
    <3> QED
      BY Zenon, <3>1, <3>2
  <2>3. \/ abortCause'[q] = abortCause[q]
        \/ q \in S /\ abortCause'[q] = "TxLoad"
    BY Zenon, <2>1 DEF setAbortFlag, Hit
  <2>4. UNCHANGED <<arbiter, committing>>
    BY Zenon, <1>9 DEF isolateTransactionLoad, arbVars
  <2> QED
    BY Zenon, <2>2, <2>3, <2>4
<1>10. ASSUME NEW a \in Addr, redirectStoreToWriteBuffer(p, a)
       PROVE  UNCHANGED <<arbiter, committing, abortCause>>
  BY Zenon, <1>10 DEF redirectStoreToWriteBuffer, arbVars
<1>11. ASSUME NEW a \in Addr, nonTransactionalLoad(p, a)
       PROVE  /\ UNCHANGED <<arbiter, committing>>
              /\ abortCause'[q] = abortCause[q] \/ abortCause'[q] = "NonTx"
  BY Zenon, <1>11 DEF nonTransactionalLoad, setAbortFlag, arbVars
<1>12. ASSUME NEW a \in Addr, nonTransactionalStore(p, a)
       PROVE  /\ UNCHANGED <<arbiter, committing>>
              /\ abortCause'[q] = abortCause[q] \/ abortCause'[q] = "NonTx"
  BY Zenon, <1>12 DEF nonTransactionalStore, setAbortFlag, arbVars
<1>13. ASSUME NEW a \in Addr, mergeDataFromWriteBuffer(p, a)
       PROVE  UNCHANGED <<arbiter, committing>>
              /\ abortCause'[q] = abortCause[q]
  <2>1. UNCHANGED <<arbiter, committing>>
    BY Zenon, <1>13 DEF mergeDataFromWriteBuffer, arbVars
  <2>2. q \notin Sharers(p, a)
    BY Zenon, <1>13, <2>1, SharersNotValidated DEF mergeDataFromWriteBuffer
  <2> QED
    BY Zenon, <1>13, <2>1, <2>2 DEF mergeDataFromWriteBuffer, setAbortFlag, Hit
<1> QED
  BY Zenon, <1>i, <1>1, <1>2, <1>3, <1>4, <1>5, <1>6, <1>7, <1>8, <1>9, <1>10,
     <1>11, <1>12, <1>13 DEF Step

-----------------------------------------------------------------------------
(* Isolation and consistency of reads                                      *)

\* Which steps of p bring a transaction to life, extend a read set or a write
\* set, or make a value stale.
LEMMA SetsStep ==
  ASSUME IInv, NEW p \in Proc, Step(p), NEW q \in Proc, Live(q)'
  PROVE  /\ \/ Live(q)
            \/ /\ q = p /\ readSet'[q] = {} /\ writeSet'[q] = {}
               /\ stale'[q] = {}
         /\ \/ readSet'[q] \subseteq readSet[q]
            \/ q = p /\ \E a \in Addr : /\ isolateTransactionLoad(p, a)
                                        /\ readSet'[q] = readSet[q] \cup {a}
         /\ \/ writeSet'[q] \subseteq writeSet[q]
            \/ q = p /\ \E a \in Addr : /\ mergeDataFromWriteBuffer(p, a)
                                        /\ writeSet'[q] = writeSet[q] \cup {a}
         /\ \/ stale'[q] \subseteq stale[q]
            \/ /\ q # p /\ commitTransaction(p)
               /\ stale'[q] = stale[q] \cup (readSet[q] \cap writeSet[p])
            \/ q # p /\ \E a \in Addr :
                 /\ nonTransactionalStore(p, a)
                 /\ stale'[q] = stale[q] \cup (readSet[q] \cap {a})
<1>0. /\ inTx \in [Proc -> BOOLEAN] /\ abortCause \in [Proc -> Causes]
      /\ readSet \in [Proc -> SUBSET Addr] /\ writeSet \in [Proc -> SUBSET Addr]
      /\ stale \in [Proc -> SUBSET Addr]
      /\ ~inTx[p] => readSet[p] = {} /\ stale[p] = {}
  BY Zenon DEF IInv, TypeOK, Structure, Quiet
<1> USE DEF Live, abortFlag
<1>1. CASE beginTransaction(p)
  BY Zenon, <1>0, <1>1 DEF beginTransaction
<1>2. CASE cancelTransaction(p)
  BY Zenon, <1>0, <1>2 DEF cancelTransaction, isoVars
<1>3. CASE xactReplacement(p)
  BY Zenon, <1>0, <1>3 DEF xactReplacement, setAbortFlag, Hit, isoVars
<1>4. CASE initiateValidateTransaction(p)
  BY Zenon, <1>4 DEF initiateValidateTransaction, isoVars
<1>5. CASE commitWriteBuffer(p)
  BY Zenon, <1>5 DEF commitWriteBuffer, isoVars
<1>6. CASE signalAbort(p)
  BY Zenon, <1>6 DEF signalAbort, isoVars
<1>7. CASE commitTransaction(p)
  <2>1. q # p /\ inTx[q] /\ abortCause[q] = "Undefined"
    BY Zenon, <1>0, <1>7 DEF commitTransaction
  <2>2. readSet'[q] = readSet[q] /\ writeSet'[q] = writeSet[q]
    BY Zenon, <1>0, <1>7, <2>1 DEF commitTransaction
  <2>3. stale'[q] = stale[q] \cup (readSet[q] \cap writeSet[p])
    BY Zenon, <1>7, <2>1 DEF commitTransaction, NewValues
  <2> QED
    BY Zenon, <1>7, <2>1, <2>2, <2>3
<1>8. CASE abortTransaction(p)
  <2>1. q # p /\ inTx[q] /\ abortCause[q] = "Undefined"
    BY Zenon, <1>0, <1>8 DEF abortTransaction
  <2>2. /\ readSet'[q] = readSet[q] /\ writeSet'[q] = writeSet[q]
        /\ stale'[q] = stale[q]
    BY Zenon, <1>0, <1>8, <2>1 DEF abortTransaction
  <2> QED
    BY Zenon, <2>1, <2>2
<1>9. ASSUME NEW a \in Addr, isolateTransactionLoad(p, a)
      PROVE  /\ inTx[q] /\ abortCause[q] = "Undefined"
             /\ UNCHANGED <<writeSet, stale>>
             /\ \/ readSet'[q] = readSet[q]
                \/ q = p /\ readSet'[q] = readSet[q] \cup {a}
  BY Zenon, <1>0, <1>9 DEF isolateTransactionLoad, setAbortFlag, Hit
<1>10. ASSUME NEW a \in Addr, redirectStoreToWriteBuffer(p, a)
       PROVE  UNCHANGED <<inTx, abortCause, readSet, writeSet, stale>>
  BY Zenon, <1>10 DEF redirectStoreToWriteBuffer
<1>11. ASSUME NEW a \in Addr, nonTransactionalLoad(p, a)
       PROVE  /\ inTx[q] /\ abortCause[q] = "Undefined"
              /\ UNCHANGED <<readSet, writeSet, stale>>
  BY Zenon, <1>0, <1>11 DEF nonTransactionalLoad, setAbortFlag, Hit, isoVars
<1>12. ASSUME NEW a \in Addr, nonTransactionalStore(p, a)
       PROVE  /\ inTx[q] /\ abortCause[q] = "Undefined"
              /\ UNCHANGED <<readSet, writeSet>>
              /\ q # p /\ stale'[q] = stale[q] \cup (readSet[q] \cap {a})
  BY Zenon, <1>0, <1>12 DEF nonTransactionalStore, setAbortFlag, Hit, NewValues, isoVars
<1>13. ASSUME NEW a \in Addr, mergeDataFromWriteBuffer(p, a)
       PROVE  /\ inTx[q] /\ abortCause[q] = "Undefined"
              /\ UNCHANGED <<readSet, stale>>
              /\ \/ writeSet'[q] = writeSet[q]
                 \/ q = p /\ writeSet'[q] = writeSet[q] \cup {a}
  BY Zenon, <1>0, <1>13 DEF mergeDataFromWriteBuffer, setAbortFlag, Hit
<1> QED
  BY Zenon, <1>1, <1>2, <1>3, <1>4, <1>5, <1>6, <1>7, <1>8, <1>9, <1>10, <1>11,
     <1>12, <1>13 DEF Step

\* A load or a flush of block a dooms every transaction it conflicts with.
LEMMA Doomed ==
  ASSUME NEW p \in Proc, NEW a \in Addr, NEW q \in Proc \ {p}, inTx[q], Live(q)'
  PROVE  /\ isolateTransactionLoad(p, a) => a \notin writeSet[q]
         /\ mergeDataFromWriteBuffer(p, a) => a \notin readSet[q] \cup writeSet[q]
         /\ nonTransactionalStore(p, a) => a \notin readSet[q] \cup writeSet[q]
<1>1. ASSUME NEW S, NEW cause \in Causes \ {"Undefined"}, q \in S,
             setAbortFlag(S, cause)
      PROVE  FALSE
  BY Zenon, <1>1 DEF setAbortFlag, Hit, Live, abortFlag
<1>2. isolateTransactionLoad(p, a) => q \notin Writers(p, a)
  BY Zenon, <1>1, VictimSets DEF isolateTransactionLoad, Causes
<1>3. mergeDataFromWriteBuffer(p, a) => q \notin Sharers(p, a)
  BY Zenon, <1>1 DEF mergeDataFromWriteBuffer, Causes
<1>4. nonTransactionalStore(p, a) => q \notin Sharers(p, a)
  BY Zenon, <1>1 DEF nonTransactionalStore, Causes
<1> QED
  BY Zenon, <1>2, <1>3, <1>4 DEF Writers, Sharers

\* Every step keeps live transactions isolated from each other.
LEMMA IsolationStep ==
  ASSUME IInv, NEW p \in Proc, Step(p)
  PROVE  Isolation'
<1> SUFFICES ASSUME NEW q \in Proc, NEW r \in Proc, q # r, Live(q)', Live(r)',
                    NEW a, a \in writeSet'[q], a \in readSet'[r] \cup writeSet'[r]
             PROVE  FALSE
  BY Zenon DEF Isolation
<1>1. Live(q) /\ Live(r)
  BY Zenon, SetsStep
<1>2. ~(a \in writeSet[q] /\ a \in readSet[r] \cup writeSet[r])
  BY Zenon, <1>1 DEF IInv, Isolation
<1>3. CASE a \notin writeSet[q]
  <2>1. q = p /\ a \in Addr /\ mergeDataFromWriteBuffer(p, a)
    <3>1. \/ writeSet'[q] \subseteq writeSet[q]
          \/ q = p /\ \E b \in Addr : /\ mergeDataFromWriteBuffer(p, b)
                                      /\ writeSet'[q] = writeSet[q] \cup {b}
      BY Zenon, SetsStep
    <3> QED
      BY Zenon, <1>3, <3>1
  <2>2. a \in readSet[r] \cup writeSet[r]
    <3>1. readSet' = readSet
      BY Zenon, <2>1 DEF mergeDataFromWriteBuffer
    <3>2. writeSet'[r] \subseteq writeSet[r]
      BY Zenon, <2>1, SetsStep
    <3> QED
      BY Zenon, <3>1, <3>2
  <2> QED
    BY Zenon, <1>1, <2>1, <2>2, Doomed DEF Live
<1>4. CASE a \in writeSet[q] /\ a \in writeSet'[r]
  <2>1. a \notin writeSet[r]
    BY Zenon, <1>2, <1>4
  <2>2. r = p /\ a \in Addr /\ mergeDataFromWriteBuffer(p, a)
    <3>1. \/ writeSet'[r] \subseteq writeSet[r]
          \/ r = p /\ \E b \in Addr : /\ mergeDataFromWriteBuffer(p, b)
                                      /\ writeSet'[r] = writeSet[r] \cup {b}
      BY Zenon, SetsStep
    <3> QED
      BY Zenon, <1>4, <2>1, <3>1
  <2> QED
    BY Zenon, <1>1, <1>4, <2>2, Doomed DEF Live
<1>5. CASE a \in writeSet[q] /\ a \in readSet'[r]
  <2>1. a \notin readSet[r]
    BY Zenon, <1>2, <1>5
  <2>2. r = p /\ a \in Addr /\ isolateTransactionLoad(p, a)
    <3>1. \/ readSet'[r] \subseteq readSet[r]
          \/ r = p /\ \E b \in Addr : /\ isolateTransactionLoad(p, b)
                                      /\ readSet'[r] = readSet[r] \cup {b}
      BY Zenon, SetsStep
    <3> QED
      BY Zenon, <1>5, <2>1, <3>1
  <2> QED
    BY Zenon, <1>1, <1>5, <2>2, Doomed DEF Live
<1> QED
  BY Zenon, <1>3, <1>4, <1>5

\* No step leaves a transaction alive that has read a value since replaced.
LEMMA StaleStep ==
  ASSUME IInv, NEW p \in Proc, Step(p)
  PROVE  NoStaleRead'
<1> SUFFICES ASSUME NEW q \in Proc, Live(q)', NEW c, c \in stale'[q]
             PROVE  FALSE
  BY Zenon DEF NoStaleRead
<1>1. Live(q)
  BY Zenon, SetsStep
<1>2. stale[q] = {}
  BY Zenon, <1>1 DEF IInv, NoStaleRead
<1>3. CASE /\ q # p /\ commitTransaction(p)
           /\ stale'[q] = stale[q] \cup (readSet[q] \cap writeSet[p])
  <2>1. Live(p)
    BY Zenon, <1>3 DEF commitTransaction
  <2>2. writeSet[p] \cap (readSet[q] \cup writeSet[q]) = {}
    BY Zenon, <1>1, <1>3, <2>1 DEF IInv, Isolation
  <2> QED
    BY Zenon, <1>2, <1>3, <2>2
<1>4. ASSUME NEW a \in Addr, q # p, nonTransactionalStore(p, a),
             stale'[q] = stale[q] \cup (readSet[q] \cap {a})
      PROVE  FALSE
  BY Zenon, <1>1, <1>2, <1>4, Doomed DEF Live
<1> QED
  BY Zenon, <1>2, <1>3, <1>4, SetsStep

-----------------------------------------------------------------------------
(* The inductive invariant and what follows from it                        *)

\* The initial state: no transaction, empty buffers, sets and token list.
LEMMA InitIInv == Init => IInv
<1> SUFFICES ASSUME Init PROVE IInv
  OBVIOUS
<1>1. TypeOK
  BY DEF Init, TypeOK, Causes
<1>2. Structure
  BY Zenon DEF Init, Structure, Quiet, Flags, Sets, Empty, abortFlag
<1>3. TokenQueue
  BY DEF Init, TokenQueue
<1>4. /\ ValidatedDisjoint /\ CommitterNotKilledByCommitter
      /\ ValidatedAbortCause /\ Isolation /\ NoStaleRead
  BY Zenon DEF Init, ValidatedDisjoint, CommitterNotKilledByCommitter,
         ValidatedAbortCause, Isolation, NoStaleRead, Live, hasConflictWith
<1> QED
  BY Zenon, <1>1, <1>2, <1>3, <1>4 DEF IInv

\* A step that changes no variable.
LEMMA StutterIInv == IInv /\ UNCHANGED vars => IInv'
<1> SUFFICES ASSUME IInv, UNCHANGED vars PROVE IInv'
  OBVIOUS
<1>0. /\ UNCHANGED <<inTx, abortCause, atCommit, commitPending, arbiter, tokens>>
      /\ UNCHANGED <<committing, committed, aborting, flushPending, block>>
      /\ UNCHANGED <<readSet, writeSet, wsetInWB, stale>>
  BY Zenon DEF vars, arbVars, vmVars, isoVars
<1>1. TypeOK'
  BY Zenon, <1>0 DEF IInv, TypeOK
<1>2. Structure'
  <2> SUFFICES ASSUME NEW p \in Proc PROVE (Quiet(p) /\ Flags(p) /\ Sets(p))'
    BY Zenon DEF Structure
  <2>0. Quiet(p) /\ Flags(p) /\ Sets(p)
    BY Zenon DEF IInv, Structure
  <2>1. Quiet(p)'
    BY Zenon, <1>0, <2>0 DEF Quiet, Empty, abortFlag
  <2>2. Flags(p)'
    BY Zenon, <1>0, <2>0 DEF Flags, abortFlag
  <2>3. Sets(p)'
    BY Zenon, <1>0, <2>0 DEF Sets, Empty, abortFlag
  <2> QED
    BY Zenon, <2>1, <2>2, <2>3
<1>3. TokenQueue'
  BY Zenon, <1>0 DEF IInv, TokenQueue
<1>4. ValidatedDisjoint' /\ CommitterNotKilledByCommitter' /\ ValidatedAbortCause'
  BY Zenon, <1>0 DEF IInv, ValidatedDisjoint, CommitterNotKilledByCommitter,
              ValidatedAbortCause, hasConflictWith
<1>5. Isolation' /\ NoStaleRead'
  BY Zenon, <1>0 DEF IInv, Isolation, NoStaleRead, Live, abortFlag
<1> QED
  BY Zenon, <1>1, <1>2, <1>3, <1>4, <1>5 DEF IInv

\* IInv is an invariant of the commit of lazy transactions, for any number of
\* processors and blocks and for either arbitration.
THEOREM Invariance == Spec => []IInv
<1>1. Init => IInv
  BY Zenon, InitIInv
<1>2. IInv /\ [Next]_vars => IInv'
  <2>1. ASSUME IInv, Next PROVE IInv'
    <3>1. PICK p \in Proc : Step(p)
      BY Zenon, <2>1 DEF Next
    <3> QED
      BY Zenon, <2>1, <3>1, TypeStep, StructureStep, TokenStep, DisjointStep, CauseStep,
         IsolationStep, StaleStep DEF IInv
  <2> QED
    BY Zenon, <2>1, StutterIInv
<1> QED
  BY <1>1, <1>2, PTL DEF Spec

\* The flags, the write buffers and the sets keep their types: in particular
\* cancelWriteBufferFlush leaves no block in a status a flush cannot handle.
THEOREM TypeCorrect == Spec => []TypeOK
<1>1. IInv => TypeOK
  BY Zenon DEF IInv
<1> QED
  BY <1>1, Invariance, PTL

\* The commit token list and the arbiters agree, so the asserts of
\* HTM::releaseCommitToken and removeCommitTokenRequest never fail.
THEOREM TokenQueueCorrect == Spec => []TokenQueue
<1>1. IInv => TokenQueue
  BY Zenon DEF IInv
<1> QED
  BY <1>1, Invariance, PTL

\* Arbitration validates no two conflicting transactions at the same time
\* (initiateValidateTransaction).
THEOREM ArbitrationSeparates == Spec => []ValidatedDisjoint
<1>1. IInv => ValidatedDisjoint
  BY Zenon DEF IInv
<1> QED
  BY <1>1, Invariance, PTL

\* A validated transaction is never aborted by the flush of another: the
\* "guaranteed commit" of
\* LazyTransactionCommitArbiter::initiateValidateTransaction.
THEOREM GuaranteedCommit == Spec => []CommitterNotKilledByCommitter
<1>1. IInv => CommitterNotKilledByCommitter
  BY Zenon DEF IInv
<1> QED
  BY <1>1, Invariance, PTL

\* The causes for which a validated transaction may still abort before its
\* flush are the ones abortTransaction admits: whether or not the L0 is
\* downgraded by a remote load, no store of another transaction is among them.
THEOREM ValidatedCauses == Spec => []ValidatedAbortCause
<1>1. IInv => ValidatedAbortCause
  BY Zenon DEF IInv
<1> QED
  BY <1>1, Invariance, PTL

\* Live transactions are isolated: the check of XactIsolationChecker.
THEOREM LazyIsolation == Spec => []Isolation
<1>1. IInv => Isolation
  BY Zenon DEF IInv
<1> QED
  BY <1>1, Invariance, PTL

\* Live transactions have read only values that are still the committed ones
\* (isolateTransactionLoad, the flush of mergeDataFromWriteBuffer).
THEOREM LazySerializability == Spec => []NoStaleRead
<1>1. IInv => NoStaleRead
  BY Zenon DEF IInv
<1> QED
  BY <1>1, Invariance, PTL

\* A committed transaction has all its stores in the cache: the asserts of
\* notifyCommittedTransaction hold.
THEOREM CommitIsComplete == Spec => []CommitComplete
<1>1. IInv => CommitComplete
  <2> SUFFICES ASSUME IInv, NEW p \in Proc, Live(p), committed[p]
               PROVE  /\ Empty(block[p]) /\ writeSet[p] = wsetInWB[p]
                      /\ committing[p] /\ ~aborting[p] /\ arbiter[p] = "validated"
    BY Zenon DEF CommitComplete
  <2>1. Flags(p) /\ Sets(p) /\ ~abortFlag(p)
    BY Zenon DEF IInv, Structure, Live
  <2>2. Empty(block[p]) /\ committing[p] /\ ~aborting[p]
        /\ arbiter[p] = "validated"
    BY Zenon, <2>1 DEF Flags, Sets
  <2>3. writeSet[p] \subseteq Addr /\ wsetInWB[p] \subseteq Addr
    BY Zenon DEF IInv, TypeOK
  <2>4. writeSet[p] = wsetInWB[p]
    BY Zenon, <2>1, <2>2, <2>3 DEF Sets, Empty
  <2> QED
    BY Zenon, <2>2, <2>4
<1> QED
  BY <1>1, Invariance, PTL

\* An abort finds no flush request in flight: the asserts of
\* LazyTransactionVersionManager::restartTransaction hold.
THEOREM AbortIsDrained == Spec => []AbortDrained
<1>1. IInv => AbortDrained
  <2> SUFFICES ASSUME IInv, NEW p \in Proc, inTx[p], ~commitPending[p]
               PROVE  /\ Blocks(block[p], "Issued") = {}
                      /\ committing[p] <=> aborting[p]
    BY Zenon DEF AbortDrained
  <2>1. Flags(p) /\ Sets(p)
    BY Zenon DEF IInv, Structure
  <2>2. Blocks(block[p], "Issued") = {}
    BY Zenon, <2>1 DEF Sets, Blocks
  <2>3. committing[p] => abortFlag(p)
    BY Zenon, <2>1 DEF Flags
  <2>4. committing[p] \in BOOLEAN /\ aborting[p] \in BOOLEAN
    BY Zenon DEF IInv, TypeOK
  <2> QED
    BY Zenon, <2>1, <2>2, <2>3, <2>4 DEF Flags
<1> QED
  BY <1>1, Invariance, PTL

=============================================================================
