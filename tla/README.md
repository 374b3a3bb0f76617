# Verification of the CHATS hardware transactional memory

TLA+ models, TLC runs and TLAPS proofs for the transactional memory of this
repository: the modified gem5 of *Chaining Transactions for Effective
Concurrency Management in Hardware Transactional Memory*, and the abort handler
library its benchmarks are linked with. Paths below are relative to
`src/gem5/src/mem/` unless they start with `src/`; `libs/` is
`src/gem5/gem5_path/benchmarks/benchmarks-htm/libs/`.

## 1. The system

Each core has a **transaction interface manager** (TIM,
`ruby/htm/TransactionInterfaceManager.cc`) that begins, commits and aborts its
transactions and owns the other per-core parts:

| part | source | state | operations |
|---|---|---|---|
| conflict manager | `ruby/htm/TransactionConflictManager.cc` | policy, timestamps, possible-cycle flag | decide who wins a conflict; record sent and received nacks |
| isolation manager | `ruby/htm/TransactionIsolationManager.cc` | read set, write set | add, look up, release |
| lazy version manager | `ruby/htm/LazyTransactionVersionManager.cc` | write buffer, status of each block, flags | buffer stores, flush, cancel a flush |
| commit arbiter | `ruby/htm/LazyTransactionCommitArbiter.cc` | validating, validated | validate by `token` or `magic` arbitration |
| eager version manager | `ruby/htm/EagerTransactionVersionManager.cc` | undo log (LogTM) | log, unroll |
| forwarding state of TIM | `TransactionInterfaceManager.cc` | priority, consumed blocks, consumers, validation event | produce, consume, validate |
| sequencer | `ruby/system/TransactionalSequencer.cc` | request table, log requests, pending commit packet | issue, callbacks, polling |
| L0, L1, L2 controllers | `ruby/protocol/MESI_Three_Level_HTM_umu-*.sm` | cache and directory states | requests, nacks, replacements |
| abort handler library | `libs/handlers/` | fallback lock, pre-fallback lock, power flag, retry counters | begin, retry, unroll the log, take the lock, commit |

One **HTM** object (`htm.cc`) is shared by all cores and holds the list of
commit token requests.

How they interact: an access of a transaction goes through the sequencer and
the L0; a miss goes to the L1 and the L2, which serves one request per block at
a time and forwards it to the owner or to the sharers. Each target asks its
conflict manager. It acknowledges, aborting if it loses, or it nacks. In the
forwarding configurations the nack may carry the speculative data: the
requester becomes a *consumer*, goes on, and validates each consumed block
again and again until it gets it with permission. A transaction commits only
when nothing consumed is left. A lazy-lazy transaction keeps its stores in the
write buffer instead, is validated by the arbiter, and flushes. A LogTM
transaction stores in place after the old contents of the block have reached
its undo log. After an abort the library decides: it unrolls the log, retries,
asks for power mode (PowerTM, PCHATS), or takes the fallback lock, which every
transaction reads when it starts.

What makes this hard: answers return long after the state they were decided on
has changed; a core is requester and target at the same time; several targets
answer one request; a request outlives its transaction; a flush or a log entry
is cut in the middle; and threads wait for each other in four ways (tokens,
stalls, validations, locks).

## 2. Modules

`AtomicTM` is the abstract specification: a transaction collects what it reads
and writes, and commits at once if everything it has read is current. Below it
are three descriptions of the hardware, one per exclusive group of options,
each shown to implement it; above it is the library, which runs on it.

| module | models | actions correspond to |
|---|---|---|
| `AtomicTM` | what a transactional memory promises | |
| `LazyCommit` | lazy versioning, lazy detection | TIM, arbiter and version manager calls of the same name |
| `LazyData` | `LazyCommit` with the bytes: write buffer, merging, publication | the same, with their data paths |
| `Chats` | lazy versioning in the L0, eager detection, `requester_loses`, `requester_wins` and their power variants, forwarding | TIM calls, L0/L1/L2 handlers |
| `StallConflict` | eager detection by stalling with timestamps; lazy versioning or LogTM | conflict manager calls, L2 service |
| `LogLayout` | where the undo log keeps its entries | pointer computations of `libs/handlers/logtm.h` |
| `LogData` | `StallConflict` with LogTM's data: log stores, unroll, the sequencer's entries | sequencer, eager version manager, `logtm_log_unroll` |
| `AbortHandler` | the abort handler library over `AtomicTM` | statements of `libs/handlers/abort_handlers.c` and `spinlock.h` |
| `*Proofs` | theorems about the module of that name; `ChatsAtomicProofs` and `LogAtomicProofs` continue `ChatsProofs` and `LogDataProofs` | |
| `MC*` | constants for TLC | |

`PROJECT.json` maps every definition to the lines it translates.

### LazyCommit and LazyData

State: the flags of TIM (`inTx`, `abortCause`, `atCommit`), of the arbiter, of
the version manager (`committing`, `committed`, `aborting`, `flushPending`),
the status of each write-buffer block, the two sets, the write set kept in the
buffer, the token list, and the ghost `stale` (blocks read whose committed
value has since changed). `Next` has one action per operation:
`commitWriteBuffer` is the flush as the sequencer polls it, and
`mergeDataFromWriteBuffer` is the callback of one flush request, with everything
it calls.

`LazyData` adds the bytes. Conflicts are detected on blocks while the write
buffer keeps bytes, so a flushed block mixes the transaction's bytes with
committed ones, and a commit publishes whole blocks. `loaded`, `stored` and
`outcome` are history variables for the refinement. A doomed transaction counts
as aborted for `AtomicTM`.

Assumptions, with where they come from: conflicts are won by the requester
(`abortTransaction` asserts it; `committer_wins` panics in
`shouldNackRemoteRequest`); an access to one block is atomic (the L2 blocks the
line); a load is isolated when it retires; accesses older than the commit are
complete when it is issued; the CPU does not abort while its commit packet is
pending (`makeRequest` panics); transactions do not nest (asserted).
`CanRefuse` says whether `makeRequest` may refuse flush requests.
`l0_downgrade_on_l1_gets` is the option of that name. When it is off, the
default, the L1 sends a remote load to a core that holds the block exclusively
as an invalidation (`L1cache.sm:614-633`), so the load aborts a transaction that
has only read the block, a validated one included. The model does not follow
who holds a block exclusively: at most one of the sharers is taken for it, any
of them or none (`LoadVictims`).

### Chats

State per core: transaction identifiers, priority, power mode, read and write
sets with the values, consumed blocks (value, number of validations, who
nacked), consumers, the validation event, requests, and the core's permission
on each block. State per block: the request the L2 serves, with the combined
nack, sharers, owner and committed value. `from` in a consumed block is a ghost:
the code forgets which transactions nacked.

A request passes through `issueRequest`, `serveRequest`, one `answerAck` or
`answerNack` per target, and one of the five receive actions, and everything
else can happen in between. Details that matter:

* A request carries the priority of the moment it was issued, and a nack the
  priority after the decision to forward.
* A block that is only read may have left the L0: the nack then has no data.
* A consumed block enters the write set even if it was consumed by a load
  (`TransactionalSequencer.cc:1542-1559`). `Loaded` stands for such a block in
  `writeSet`: it counts as written in every conflict, also after its validation,
  and so may be forwarded in turn, but there is nothing of it to publish
  (`Stored`).
* An L1 without a copy acknowledges without asking the L0. The directory may
  list more sharers than there are copies, after a nacked store or a silent
  eviction.
* `validateDataBlock` erases a map entry and advances its iterator. Which block
  comes next is undefined behaviour and is a free choice among the consumed
  blocks.
* Non-transactional accesses (the fallback path) are atomic and always win.
* At most one transaction at a time is in power mode. `PowerExclusive` of
  `AbortHandler` is what justifies it.

The configurations are those of `config.chats.main.py` in
`src/gem5/gem5_path/scripts/CHATS`: the baseline (`requester_wins`), Naive,
PowerTM, CHATS (`WN_DM`, `numeric`, `no_write_in_flight`, `abort`) and PCHATS.
Options they leave off are not modelled: `NCnotProducer`, `only_written`,
`noProduceOnRetry`, removal of false sharing, the `retry` strategy. They allow
read-set evictions from the L0 and not from the L1, so conflicts are detected at
the L0 only, and an L1 eviction of a block of the sets aborts. They set
`l0_downgrade_on_l1_gets`, so a load is a load for every target. They also set
`reload_if_stale`, which is *not* modelled: the L0 and the L1 of a core are one
copy, and the transient states between them are folded into atomic steps. An
eviction of an exclusive copy waits for the request in service. `W1_D1` comes
from the LEVC configuration, which uses it with stalls; here it is checked with
`requester_loses`.

### StallConflict and LogData

State: a clock, timestamps, the possible-cycle flag, sets, requests and
their eldest nacker, and `assertFailed`, which records that an assertion of the
L0, of the L1 or of `setAbortFlag` has failed and stops the model as it stops
the simulator; what a run shows holds up to that point. `Interfering` names the
cores with CPU aborts, evictions and non-transactional code. A request is
forwarded to every other core; only cores whose sets hold the block react. A hit
is a request that nobody nacks. The log is unrolled between `abortTransaction`
and `endLogUnroll` by ordinary stores, one per block (`issueRestore`), and other
cores' requests arrive in between.

Two options of the caches are constants. With `l0_downgrade_on_l1_gets` off (the
default) a load reaches the core that holds the block exclusively as an
invalidation: a writer always does, a reader may (`seenAs`). With
`allow_read_set_l1_cache_evictions` on, and always with LogTM, which requires
evictions of the write set, the L1 asks the conflict manager itself before it
forwards a load to the L0, and runs into `assert(false)` when the load is nacked
(`L1cache.sm:591-603`, `failsAtL1`). Written blocks are taken to stay in the L0.
LogTM lets them move to the L1 and the L2, which then ask the conflict manager
on other paths; those, and what they do with the block of a doomed writer, are
not modelled, and the results on LogTM are for transactions whose written blocks
stay in the L0.

`LogData` gives the blocks and the log their contents. The first store to a
block waits for its two log stores, of the old contents and of the address,
which complete in either order; the handler walks the log backwards with its two
pointers. The log is memory: its words keep what earlier transactions left. A
commit and an abort wait for the stores of the CPU (`storesDone`, from
`src/gem5/src/cpu/o3/commit.cc`), and stores leave one at a time (TSO,
`lsq_unit.cc`). `canMakeRequest` counts the entries of the sequencer and the two
reserved for each store to be logged. One simplification: a load that is nacked
keeps its entry until it is retried, where the code frees it and takes it again.

### AbortHandler

Each thread is a program counter through `beginTransaction_fallbackLock`, the
body, and `commitTransaction_fallbackLock`; labels separate the accesses to
shared state. `handler` is the build (`sgl`, `fallbacklock`,
`fallbacklock2phase`, `powertm`, `powertmplus`). The hardware is `AtomicTM`: it
may abort a transaction at any time and for any cause, and it may forward
another transaction's value to a load. The body increments a shared counter,
which is enough to tell lost and repeated sections. The log unroll is in
`LogData`; backoff only takes time; the status for disabled HTM (lockstep
debugging) is left out.

## 3. Runs

| run | instance | shows |
|---|---|---|
| `lazy_data` | 2 cores, 2 blocks, 3 bytes, width 1, refusals, magic arbitration, no downgrade | validated transactions are disjoint and never abort each other; admitted abort causes; isolation; no stale read; complete commits; drained aborts; **implements `AtomicTM`** byte by byte |
| `lazy_token` | 2 cores, 2 blocks, token arbitration, no refusals, downgrade | the token list is exact; only evictions and non-transactional accesses abort a validated transaction; every pending commit is resolved |
| `lazy_hang` | 1 block, token, refusals | **violation**: a cancelled flush with nothing in flight never ends |
| `chats_retry` | 2 cores, 1 block, 2 transactions each, non-transactional code; baseline, PowerTM, PCHATS | validated reads are current; a block of a write set is shared only by forwarding; a live power transaction is not nacked and consumes nothing; **implements `AtomicTM`** |
| `chats_cycle` | 2 cores that may consume from each other, one of them 2 blocks; CHATS, Naive | priorities exclude the cycle; exactly one validation under way; **implements `AtomicTM`**; pending commits are resolved (under Naive by the limit on validations) |
| `chats_chain` | 3 cores, 2 blocks, room for 1 consumed block; CHATS, `W1_D1` | a combined nack still orders the consumer below every producer; with `W1_D1` no producer consumes, nor has two consumers unless it is powered |
| `stall_live` | 2 cores, 2 blocks, stores, 2 attempts, one core interfering; lazy versioning and LogTM | written blocks are isolated until the end of the unroll; a transaction in its unroll is undisturbed; no stall is for ever, equal timestamps included |
| `log_data` | 2 cores, 2 blocks, 2 attempts, log of 2 pages with one entry each, 3 and 4 sequencer entries | the log is exact; log packets can always issue; assertions fail in the known situations only; **implements `AtomicTM`** |
| `stall_hybrid` | hybrid policy, lazy versioning, downgrade | **violation**: an elder writer passes a reader that does not abort |
| `stall_log_load` | LogTM, stores | **violation**: a store from outside transactions reaches a transaction in its log unroll |
| `handler_live` | 2 threads, 3 sections, `htm_max_retries` 1; `sgl`, `fallbacklock`, `fallbacklock2phase`, `powertm` | sections are atomic; sections end in the mode they began; lock and power are exclusive; asserts fail in the known situation only; every section completes |
| `handler_assert` | `powertm` | **violation**: a power transaction reaches `assert(!txExecOnPower)` |

Bounds. Conflicts are between pairs of transactions over one block, so two
cores and one block reach every kind of conflict. Two blocks are needed for a
flush cut in the middle, for deadlocks, for a round of validations and for a
log with an order. In `lazy_data` the threads write different bytes of one
block, which is what can go wrong in a merge. A third core is needed for two
nackers and for a chain; a cycle of three producers needs three blocks and is
not reached. `MaxUid`, `MaxAttempts`: a second transaction is enough for a late
answer to meet a successor, for a log entry to overwrite an old one, and for the
successor to abort in turn. The runs over two blocks of `Chats` have one
transaction per core. `MaxTime` bounds the clock that timestamps are taken from:
two values give elder, younger and equal; in `log_data` all are equal and the
core number decides. `stall_live` has stores only, since with LogTM a nacked load ends at the
L1's assertion; `log_data` has loads and meets that assertion. `nValFwd = 1` is
the least limit that lets a validation
succeed before it strikes. The log of `log_data` has one entry per page, so that
every step of its unroll crosses a page; the step within a page is proved
(`UnrollPointers`). Its sequencers have exactly the entries that one store, or
one store and one load, need. `Accesses` (`MCChats`) restricts a workload to the
accesses that form the situation named by the run, as `Kinds`, `Loads`,
`Stores` and `OutsideStores` do elsewhere. In `handler_live` the second section
of a thread is needed to meet a thread that still handles an abort of the first
one; the counter is modulo 4, so three sections do not wrap. `MaxCancel` bounds
the attempts in which the body cancels itself, which the library does not limit.
Deadlock is not checked in `Chats`, `StallConflict` and `LogData`: bounded cores
finish. Symmetry is used in `chats_retry` only, whose workload is symmetric and
in which no definition orders the cores.

Fairness. Weak fairness for what the event queue does in any case: callbacks,
polling of the commit packet, validation events, the CPU's reaction to a
failure, and the stores of a log unroll. Strong fairness for a flush that is
retried every cycle and refused only by requests that are themselves answered,
and in `StallConflict` for the L2's service of a request, since its input
buffers are queues. A stalled transaction may retry as often as it likes; what
is promised is that an attempt ends, and the number of attempts is bounded. In
`AbortHandler` every thread runs (weak fairness of its steps) and the hardware
answers an xend. Weak fairness does not promise a spinning thread the lock under
unbounded competition; the sections of the run are bounded.

## 4. Findings

* **A cancelled flush may never end** (`LazyTransactionVersionManager.cc:404`).
  With no request in flight nothing is left to finish the flush, and
  `canCommitTransaction` waits for it.
* **Hybrid policy** (`TransactionConflictManager.cc:557`). The decision to nack
  is reversed without `setAbortFlag`; the L0's sanity check fails.
* **Log unroll** (`TransactionConflictManager.cc:259`). `isDoomed` is true in an
  unroll, so the branch that nacks during an unroll is not reached. The run shows
  a store from outside transactions that fails in `setAbortFlag`. A load from
  outside transactions fails there too; if the L0 is downgraded any load fails,
  at `L0cache.sm:726`.
  `AssertionFailures` bounds this finding and the one before, together with the
  L1's `assert(false)` below: with lazy versioning under the base policy and no
  L1 evictions of the read set no assertion fails (`LazyStallingAsserts`), and
  the stores that restore a log never make one fail.
* **Power mode and the fallback lock** (`abort_handlers.c:204`). A power
  transaction that finds the lock taken cancels itself; explicit aborts have no
  retry bit, so the handler goes on to the code that acquires the power, and its
  assertion fails. No other assert of the function fails, and none in a build
  without power transactions (`AssertFailures`, `AssertsHoldWithoutPower`).

Noted while reading, without a run:

* the comment at lines 260-261 of `TransactionConflictManager.cc` says that an
  aborting transaction never nacks, and `shouldNackStore` (549) nacks stores
  whatever `shouldNackRemoteRequest` answered (`stall_live` shows that stalls
  end all the same);
* `m_policy.find("_cda") == 0` (line 60) is never true, so the `_ntx` policies
  never take effect;
* two calls of `setAbortFlag` (629, 663) pass priority and software priority in
  swapped order;
* a load that a live writer nacks reaches `assert(false)` at `L1cache.sm:603`
  wherever blocks of the sets may leave the L1: with LogTM, and with the
  templates that allow L1 evictions of the read set (`templates.py:365` in
  `src/gem5/gem5_path/scripts/run-scripts`). It is one of the situations of
  `AssertionFailures`, and `log_data` reaches it;
* a consumed block is in the write set, and its L0 replacement
  (`L0_Replacement_Wset_Discard`) has no transition from `FD`;
* the comment at `TransactionalSequencer.cc:1476` says that the address of a log
  entry is zero until the program store completes and that the unroll skips such
  entries; neither is so, and `AtomicTransactions` of `LogData` holds because an
  abort waits for the stores (the mutant `storesDone_Always` shows it is needed);
* one abort may be discounted twice from `nretries` (`abort_handlers.c:126` and
  `193`), which may become negative and is then converted to unsigned for the
  backoff; the run `handler_live` reaches this and sections complete.

## 5. Proofs

All theorems hold for every value of the constants that satisfies the named
assumptions of the module, not for the instances above only.

**`LazyCommitProofs`**: `TypeCorrect`, `TokenQueueCorrect`,
`ArbitrationSeparates` (`ValidatedDisjoint`), `GuaranteedCommit`,
`ValidatedCauses`, `LazyIsolation`, `LazySerializability`, `CommitIsComplete`,
`AbortIsDrained`, for both arbitrations, any commit width, and with and without
downgrades of the L0. `ValidatedCauses` admits the load of another transaction
only without downgrades, and a store of one never. None of the
invariants is inductive alone. `IInv` adds to them `Structure`, what the flags
of one processor say of each other: `Flags` (a committing version manager has a
validated arbiter, an aborting one is committing and doomed, a pending commit is
at commit), `Sets` (each buffered store is in the write buffer or in the write
set until the transaction is doomed; requests in flight imply a pending commit)
and `Quiet` (nothing is left outside a transaction). The key step is
`SharersNotValidated`: the flush of a block hits only transactions that are not
validated, because the flushed block is in the flusher's buffered write set
(`Sets`), so a validated victim would conflict with it, against
`ValidatedDisjoint`. `DisjointStep` gets that from the token list (only its head
is validated) or from the magic check, since validated transactions no longer
grow their sets (`ArbiterStep`). The token list is treated as a list without
duplicates.

**`LazyDataProofs`**: `LazyAtomicity`, `DataSpec => A!Spec`: the lazy system
implements `AtomicTM`. A step of `LazyData` is a step of `LazyCommit`
(`ControlStepOf`), so `IInv` holds. `DataInv` says where the bytes are: in the
write buffer until their block is flushed (`BufferData`), then in the cache,
merged with committed bytes, and what was loaded is committed still unless its
block is stale (`CacheData`). Each step then maps to a step of `AtomicTM` or to a
stutter; at a commit every block is flushed (`CommitComplete`) and none of those
read is stale (`NoStaleRead`).

**`ChatsProofs`**, **`ChatsAtomicProofs`**: for any number of cores and blocks,
any workload and any configuration, `ForwardingTypes`, `ReadsAreCurrent`, `ForwardingIsolates`,
`OneValidation` (`ValidationUnderWay`), `PowerAlwaysWins`, `ChainsAreBounded`,
`ChainsAreOrdered`, and `ForwardingIsAtomic`: forwarding implements `AtomicTM`.
Four invariants carry them. The steps of `CInv` are the lemmas of `ChatsProofs`;
the other invariants, the refinement and the theorems are in `ChatsAtomicProofs`.

* `CInv` is about data and permissions. Per core: nothing is left outside a
  transaction (`Quiet`), requests are no younger than their transaction
  (`Uids`), a consumed block has no request but its validation (`Requested`),
  one validation is scheduled or in flight (`Validating`), the L2 knows every
  copy (`Copies`), and what was read is committed and held, or consumed
  (`Isolated`). Per block: the request served is outstanding (`Serving`), and a
  core that has acknowledged it has given up its copy (`AnswersStand`). The last
  one is needed because a request is granted several steps after its targets
  were asked; without it `Isolated` is not preserved by the receive actions.
  A late answer meets either its own transaction or a request whose uid is old.
* `PowerInv`: one power transaction, which has consumed nothing, and whose
  current requests carry its power, so that no target nacks them.
* `ShapeInv`: what `D1` and `W1` allow. `W1` limits only producers without power:
  `shouldBecomeProducer` lets a power transaction forward before it looks at the
  limit, so `ChainShape` excepts it.
* `PrioInv` with `PrioOrder`: the priority in a combined nack is at most that of
  each live nacker (`Reported`), and no producer is of a transaction yet to come
  (`Ranked`). The priority of a live transaction only rises, and that of a
  consumer is fixed, so the bound holds for as long as the nack is under way;
  `isIllegalNack` compares with it what the consumer has on arrival.
  `ChainsAreOrdered` assumes the strategy `abort` (with `no_strategy` priorities
  are not compared) and a mechanism other than `naive`: naive forwarding returns
  before priorities are looked at (`TransactionInterfaceManager.cc:311-316`).
  The code does not forbid it together with a priority mechanism, the assertion
  that would (341-344) is commented out; the configurations use it without.

The refinement maps a doomed transaction to an aborted one and leaves out of the
write set what was only loaded. A commit needs that nothing is consumed, and then
`Isolated` makes all reads current.

**`StallConflictProofs`**: `StallTypes`, `UnrollIsUndisturbed` (`UnrollState`)
and `KnownAssertionFailures` (`AssertionFailures`) under both policies,
`StallingIsolates` (`WriteIsolation`) under the base policy, and
`LazyStallingAsserts`: under the base policy with lazy versioning, and no L1
evictions of the read set, no assertion fails. All of them are for both values of
`l0_downgrade_on_l1_gets`. `UInv` is the invariant of both policies. Its core is `AnswersStand`: a
core that has answered a request without a nack stays out of its way until the
request completes. That carries isolation over the steps between the answer of
one core and the arrival of the data at another. Under both policies it makes
the write sets of the log disjoint (`LogDisjoint`), also during an unroll; under
the base policy it gives `WriteIsolation` (`SInv`). For the assertions, each
answer is taken apart by what the request arrives as (`SeenFacts`) and by the
branch of the code that asserts, at the L1, in `setAbortFlag` or at the L0. One case must be
excluded: a store that restores one log reaches a core that unrolls another.
`Restoring` says that in a transaction only blocks still to be restored are
stored to from outside, these are in the write set (`UnrollState`), and write
sets are disjoint.

**`LogDataProofs`** begins with the layout of the log, `LogLayout`:
`SequencerAndHandlerAgree`, `UnrollPointers` and `EntriesDisjoint`, for every page size, block size and number of entries per
page that fits (`LayoutAssumption`): the two ways in which the code computes the
place of an entry agree, a step of the unroll arrives at the entry before, and
entries do not overlap. They rest on quotients and remainders being unique.

It goes on with `DataRefinesControl` (a step with data is a step of
`StallConflict` or none, so the theorems above hold of `LogData`), and the
argument for `LogIsExact` and `LogRequestsAreIssued`, under both policies, for a
log of any size and any finite set of blocks (`LogAssumption`). The two theorems
close it in `LogAtomicProofs`, which takes the facts on cardinalities that it
needs (`CountFacts`) from the library. `DInv` says what each store of a core is
waiting for and where that leaves the log: at most one store is under way (`StoreRequests`, `LogStores`), its entry is the last, the complete
entries are the other blocks of the write set, each once (`Entries`), and the
handler's pointers are at the last entry not yet restored (`UnrollPosition`).
The words of an entry are not overwritten by another one, by the theorems on
the layout. `Charged` counts requests, log packets and reserved entries
together: a store is admitted only with two entries to spare, and the packets
it later sends take these two.

**`LogAtomicProofs`**: `LogIsAtomic`, `DataSpec => A!Spec` under the base policy.
The committed value of a block is in memory, or, once its log entry is complete,
in the entry that `Holds` it. By `WriteIsolation` at most one core holds
a block (`OneHolder`), so that value is well defined. `ValueInv` says that a
transaction has stored what is in the blocks it has written, that what a live
one has loaded is still committed, and that one in its unroll has ended for
`AtomicTM`. The steps between (log stores in either order, each restored block,
the end of the unroll) leave every committed value as it was; a commit makes the
entries void, and so publishes all its stores in one step. The base
policy is assumed here and in `StallingIsolates`, since under the hybrid one an
elder writer passes a reader that does not abort (`stall_hybrid`).

**`AbortHandlerProofs`**: `CriticalSections` (`SectionsAtomic`), `HandlerTypes`,
`LockIsExclusive`, `SectionsEndAsBegun` (`CommitMode`) and `PowerIsExclusive`,
for all five builds and any number of threads, sections and retries. `HInv` says
which labels are inside a transaction, that a transaction past its subscription
has read the lock free and incremented what it has read, and that what a lock
holder has loaded stays current: a commit needs the lock free, by its reads.
`KnownAssertFailures` (`AssertFailures`, an action property) follows from `FInv`,
which adds `Fallback`: a thread that has the power runs in power mode, and when
it leaves the retry loop for the lock either a retry cannot succeed or its
retries in power mode are used up. So the assert before the lock holds, and the
one before the compare-and-swap fails after an explicit abort only.
`AssertsHoldWithoutPower` excludes that too, for builds without `POWERTM`
(`NoPower`).

Only model-checked: the liveness properties (`CommitResolves` of `LazyCommit` and
of `Chats`, `AttemptResolves`, `SectionCompletes`), because fairness and
`ENABLED` are beyond the prover. The violation runs are counterexamples and have
no theorem; what they refute is proved where it holds (`LazyStallingAsserts`,
`AssertsHoldWithoutPower`). Every invariant, action property and refinement that
a passing run checks is also proved, with the assumptions named above.

## 6. Coverage and what is not modelled

The repository contains all of gem5, over a million lines. The modules translate
about 4300 of them, 0.4 percent. An earlier version of this project gave
about a third as its coverage; that was the share of the HTM source files the
map refers to, not of the implementation. In those files it is still about a
third: the rest of them is statistics, configuration, debugging output,
declarations, and the parts listed below. What is left of gem5 (CPU models,
devices, other protocols, the simulation kernel) is not part of the
transactional memory and is not modelled. The same version said that the
fallback lock and the retry loop are not in the repository. They are, under
`libs/handlers/`, and `AbortHandler` models them.

Not modelled, with the reason:

* LEVC's forwarding under stalls, `WX_DX` depth limits, the `retry` strategy and
  the `_ntx` policies: options of their own, that share the handlers modelled.
* The L0/L1 transient states, stale-data reloads (`reload_if_stale`), prefetches,
  L2 replacements: the models have one copy per core and one request per block,
  and these are below that level. The hazards at `L0cache.sm:919` and `1655`
  belong here and have no property.
* LogTM's written blocks once they have left the L0 (section 2).
* The limit on consumed blocks (`TransactionInterfaceManager.cc:731`) is modelled
  and has no property of its own; the assertion of `setNack` that one nacker at
  most is in power mode (`L1cache.sm:408`) is not modelled.
* Overflow of priorities (`TransactionInterfaceManager.cc:317`): needs 2^31
  consumers in a chain, or arithmetic on `INT_MIN` that the model takes as exact.
* Starvation under magic arbitration (`LazyTransactionCommitArbiter.cc:93`): the
  code promises nothing against it.
* The CPU's checkpoint, squash and register rollback; escape actions; the set-up
  of the log and its translations; the status for disabled HTM.
* `powertmplus` in the liveness run: it discounts every abort blamed on a power
  transaction, and the abstract hardware may blame one that does not exist. Its
  safety is proved.
