# TLA+ models of the Witcher crash-consistency checker

Witcher (`src/replay`) replays a persistent-memory trace through a simulated
cache. It builds crash images at fences and runs the program's recovery on
each one. The images it builds are chosen from "beliefs" inferred from the
program's dependence graph. This directory holds TLA+ models of the parts of
the replay engine that carry state and decisions, and the TLC configurations
that check them.

## The system and its parts

| part | source | state | operations |
|---|---|---|---|
| cache simulator | `engines/witcher/witchercache.py`, `mem/memoryoperations.py` (`Store.flushed`), `engines/witcher/binaryfile.py`, `mem/cachenumbers.py` | cacheline dictionary → ordered store list; per-store flush state Clear/Flushing/Fenced; the pm image file | `accept` (store, flush, fence), `write_back_all_flushing_stores`, `write_back_all_stores`, `get_stores_from_crash_plan` |
| crash manager | `engines/witcher/witchercrashmanager.py`, `engines/witcherparallel/witcherparallelcrashmanager.py` | pending candidate list per transaction; the cache | `accept_trace_init_ops`, `accept_trace_txs`, `accept_trace_tx`, `try_crash_candidates`, `verify_crash_candidates`, `bring_back_potential_candidates`, `run_for_target`, parallel `run_before_target`/`run_try_traget` |
| candidate generator | `CrashCandidates` in `witchercrashmanager.py` | the candidate list of every transaction | `get_crash_candidates_from_tx` (atomicity and ordering beliefs) |
| crash validator | `engines/witcher/witchercrashvalidator.py` | tested/reported plans, result maps, oracle cache | `validate`, `construct_crash_state`, `persist_crash_plan`, `check_consistency`, `get_oracles`, `compare_to_oracles`, `update_result` |
| belief database | `engines/witcher/witcherbeliefdatabase.py` | sorted disjoint PM-object list; belief graph; critical-load set | `PMObjectList.insert/try_merge/find`, `analyze_data_edge`, `analyze_ctrl_edge`, `violate_ordering_belief`, `is_critical_store` |
| trace | `mem/witchertrace.py` | operations, 8-byte atomic stores, transaction ranges | `extract_operations` (store chunk splitting) |
| full mode | `engines/witcherparallelfull/*` | crash-target numbers | `permutation_count`, `get_stores_from_target` |
| transaction engine | `engines/witchertx/*` | crash-point list; a cache that buffers stores outside PMDK transactions; oracle-skip cache | `GeneratorUnit.generate_intra_tx`/`generate_inter_tx`, `WitcherTxCache.accept`, `WitcherTxCrashManager.run`, `WitcherTxCrashValidator.check_consistency` |
| trace checker (tc engine) | `engines/witchertc/witchertcengine.py` | `TCCache` (stores with flushed marks), PMDK nesting depth, logged addresses, the six report lists | `WitcherTCEngine.run` (two passes over a transaction range) |
| counting engines | `engines/yat/yatengine.py`, `engines/pmreorder/pmreorderengine.py` | a cache of stores (per cacheline for Yat, one list for PMReorder) with flushed marks; the running count and the per-transaction count list | `YatEngine.run`, `YatCache.accept`/`flush`, `YatPermutator.run`; `PMReorderEngine.run`, `PMReorderCache.accept`/`flush`, `PMReorderPermutator.run` |
| thread pool | `engines/witcherutils/WitcherParallelUtils.py`, its client `witcher_parallel.py` / `WitcherParallelEngine.run` | a task queue with its unfinished count; worker threads with stop events; a `threading.Barrier`; a condition; socket commands | `threadPoolDispatchTask`, `threadPoolWait`, `threadPoolQuit`, `_operateThreadPool`, `witcherWorkerThread.run`, `_terminateThreadPool` |
| multi-thread engine | `mem/witchertracemt.py`, `engines/witchermt/*` | parallel range of the trace; the permutation oracles | `extract_operations`, `get_prefix_ops`, `get_parallel_ops`, `WitcherCrashValidatorMt.check_consistency`/`get_oracles`/`compare_to_oracles` |

How they interact. The engine builds the trace and the belief database. The
generator turns beliefs into (pre, volatile) candidate pairs per transaction,
ordered by the larger of the two ids. The manager feeds every operation to the
cache. When `accept` reports a fence, the manager:

1. pops the candidates that precede the fence;
2. turns them into crash plans;
3. has the validator persist each plan on a copy of the image and run the
   recovery;
4. writes back the Flushing stores;
5. requeues the candidates that are still undecided.

At each transaction end it writes back everything.

Hard behaviours:

- the order of the pending list, and its interaction with the early return in
  `verify_crash_candidates`;
- the requeue decision, which reads flush states after the write-back;
- the cacheline-prefix rule for crash images;
- write-back order;
- boundary arithmetic in object merging and store splitting.

## Modules

- `WitcherCache`: the cache simulator.
  - `lines[l]` is a cacheline's `stores_list`. An absent cacheline is the
    empty list, so creating and deleting a cacheline needs no state of its own.
  - `flushed[id]` is `Store.flushed`.
  - `image[a]` is the id of the store whose bytes the image holds at word `a`
    (`BinaryFile.do_store`).
  - `accepted` is a history variable.
  - There is one action per method. A fence is not an action: in the code it
    only makes `accept` return True.
  - It is checked through its instances in `WitcherReplay`.
- `PersistentMemory`: the abstract specification the cache implements, the
  x86 persistency model with no cachelines, lists or flush states.
  - `written`, `marked` and `durable` are sets of stores; `memory` maps a
    word to the id of the store it holds.
  - `Write`, `Flush(l)` (marks every written, non-durable store of `l`),
    `Fence` (the marked stores become durable) and `PersistAll` (every
    written store becomes durable). Per word, the newest new durable store
    wins.
  - `WitcherReplay` maps each cache onto it: `written` is the accepted
    stores, `marked` the Flushing ids, `durable` the Fenced ids, `memory`
    the image.
- `WitcherCrashManager`: one transaction, replayed by `accept_trace_tx` with
  `try_crash_candidates` (also `run_try_traget` of the parallel worker).
  - The transaction is any sequence of `TxLen` stores, flushes and fences.
  - The candidate list is any set of at most `MaxCands` store pairs, sorted in
    generator order.
  - The cache is an `INSTANCE` of `WitcherCache`.
  - `AcceptFence` is the whole fence handler: verify, validate (the record
    added to `tested` is the crash image's durable stores), write back, then
    requeue.
  - `EndTx` is the final `write_back_all_stores`.
- `MCWitcherCrashManager`: the same words and cachelines; `TxLen = 5`,
  `MaxCands = 2`, `MaxTxStores = 3`.

- `PMObjectList`: `PMObjectList.insert`, `try_merge` and `find` of the
  belief database.
  - `list` is the object list, 1-based; an object is `[address, size]`.
  - `inserted` is a history variable: the ranges inserted so far.
  - `Insert(o)` is the whole of `insert`: placement by binary search, then
    `try_merge` (one left merge, then right merges while they overlap).
  - `Find` is a pure operator. Its result records which branch returned:
    the probe of the search, the left or right end check, or the end
    assertion.
- `WitcherBeliefs`: belief inference and candidate generation.
  - Init chooses a dependence graph: node types, the object each node
    resolves to (`NoObj` for size 0), and an edge type for every ordered pair.
  - `AnalyzeEdge` takes the next edge in the graph's order and performs
    `init_belief_and_critical_read_set_from_edge` with `analyze_data_edge`
    and `analyze_ctrl_edge`. `Bfs` is `get_ctrl_succesors`.
  - `CandidatesFromTx` is `get_crash_candidates_from_tx`, a pure operator
    over the object of every store of a transaction.
- `MCWitcherBeliefs`: the belief database's two parts, one per behaviour
  (a `mode` chosen at Init, as in `MCWitcherTrace`). `PL` is an `INSTANCE`
  of `PMObjectList` with addresses below 10, sizes up to 3 and five
  inserts. The analysis has 3 nodes and 2 objects, and the candidate check
  uses 4 stores. While the list is checked, the analysis rests in one
  initial state with an edge still to analyse, so its properties stay
  cheap there.
- `WitcherThreadPool`: the thread pool and its client.
  - The client (`ClientStart` ... `ClientQuit`) is `main` of
    `witcher_parallel.py` with `-useTPL 1`: wait until the pool listens,
    dispatch one task per transaction, `threadPoolWait`, `threadPoolQuit`.
  - The server thread (`ServerStart` ... `ServerJoin`) is
    `_operateThreadPool` and `_terminateThreadPool`. Each `put` of a None
    is a step of its own, and so is the `with threadWaitCondition: wait()`.
  - A worker (`WorkerExit` ... `WorkerTaskDone`) is
    `witcherWorkerThread.run`. The `qsize()` test and the blocking `get()`
    are separate steps, so two workers can race for one item.
    `BarrierTrip` releases all workers once all wait at the barrier.
    `WorkerNotify` wakes the server only if it is already waiting.
  - The socket is a FIFO of whole commands (`inbox`). The server handles
    one connection at a time, in the order the client makes them.
- `MCWitcherThreadPool`: two workers, two transactions, with the fairness
  of `Spec`. `MCWitcherTrace` checks the pool's safety as a third `mode`
  (`TP`, an `INSTANCE` over renamed variables): two workers and three
  transactions, with no fairness.
- `WitcherReplay`: the sequential driver (`accept_trace_init_ops`,
  `accept_trace_txs`) and the parallel worker's `run_before_target`, run in
  lockstep over one trace.
  - Each has its own cache, an `INSTANCE` of `WitcherCache`.
  - Init chooses any well-formed trace of `N` stores, flushes, fences and
    transaction markers: transactions do not nest, and the trace ends with a
    TXEnd.
  - One action per operation kind. `ParAtTxStart` is the worker's write-back
    after the operation just before the first TXStart.
  - `run_for_target` replays by the worker's rules, so the worker's cache
    is also its cache. `SeqCrashImage` and `TargetCrashImage` are the
    images the two replays validate at a fence for a plan in `SeqPlans`.
    A plan is the fence itself or a store still in a cacheline (the
    targets a crash report can name). The image is built by
    `persist_crash_plan`.
- `MCWitcherReplay`: the cache words above, `N = 7` (6 for the violation run).

- `WitcherTrace`: `WitcherTrace.extract_operations` (`src/replay/mem/witchertrace.py`).
  - One action per loop branch. `ScanStore` splits a store with `GetStores`
    (the code's `get_stores`), and `ScanTxStart` and `ScanTxEnd` open and
    close transaction ranges. `AssertFails` is the nesting assertion aborting
    the load.
  - A store's value is given by the positions of its bytes, so a chunk's
    slice is a pair of positions.
- `MCWitcherTrace`: `Word = 8`, store addresses 3 and 8, sizes 0, 4, 13 and
  20, and five entries.
- `WitcherFull`: the full (enumerative) mode
  (`src/replay/engines/witcherparallelfull/`).
  - The engine's counting pass (`Eng*` actions) replays the trace from the
    first TXStart on a YatCache. The count at every fence inside a
    transaction is the product of (stores per line + 1), minus 1.
  - `ChoosePlan` picks a transaction and one chunk of `Plans` (the engine's
    split), plus the targets `init_plans` draws for it (all, or any sorted
    subset of the budget's size).
  - The worker's actions (`W*`) run `run_before_target` and then
    `run_try_traget` on an `INSTANCE` of `WitcherCache`. At each fence,
    `TakeTargets` takes the targets below the running count and
    `GetStoresFromTarget` decodes them. `Persisted` gives the crash image,
    as `persist_crash_plan` builds it.
- `YatEngine` and `PMReorderEngine`: the two counting engines `witcher.py`
  selects with `Yat` and `PMReorder`.
  - Both loops start at the first TXStart. A TXStart resets the count and a
    TXEnd appends it to the list. Every other operation goes to the cache.
    At a fence the permutator's count is added and the marked stores are
    dropped.
  - Yat counts the product of (stores per cacheline + 1), minus 1. Its
    8-byte buckets are left out: they only split a cacheline's list, and
    the count and the flush sum over them.
  - PMReorder counts the stores marked by a flush: the sum over i of
    n(n-1)...(n-i+1). The RECURSIVE `Falling` and `SumFalling` are the
    two loops of `pmreorder_permutation_count`.
  - Each module takes one operation per `Step(op, id)`. `MCWitcherFull`
    runs both in lock step with the full engine's scan (`CountStep`). The
    full engine's scan is the one from `WitcherFull`.
- `MCWitcherFull`: three words over two lines, `Budget = 2`, `N = 6` (7 for
  the violation run). `MCSpec` adds the two counting engines and
  `cleanStarts`, a history of whether Yat's cache is empty at each TXStart.

- `WitcherTx`: the transaction engine (`src/replay/engines/witchertx/`).
  - Init chooses a Witcher transaction of `K` operations: PMDK
    `tx_begin`/`tx_end` (nested up to `MaxDepth`), stores, TX_ADD ranges
    and fences.
  - `Gen*` actions are `GeneratorUnit.generate_intra_tx`, one per handler.
    `InterStep` is one iteration of `generate_inter_tx`, and
    `AddCrashPointInOrder` is the append and stable sort.
  - The `Replay*` actions are the loop of `WitcherTxCrashManager.run`.
    `Cache*` are `WitcherTxCache.accept`, with stores outside PMDK
    transactions buffered until a fence.
  - The belief database is abstracted to two constants: `CriticalAddrs`
    and `OrderViolations`.
  - `Tc*` actions are the trace checker (`WitcherTCEngine.run`) on the same
    transaction, before the generator runs. `TcStep1` is one iteration of
    the first pass: one handler per operation (`TcBegin`, `TcEnd`,
    `TcTxAdd`, `TcStore`, `TcFlush`, `TcFence`, with `TCCache`'s accept
    methods inside). `TcEndFirstRun` reports the stores still cached as
    unflushed; if PMDK was used, `TcStep2` is the second pass, which
    reports stores outside PMDK transactions (`unTXed`). `res` holds the
    six report lists, as sets of operation ids.
- `MCWitcherTx`: two addresses on one cacheline, TX_ADD on one of them,
  `K = 7` and `MaxDepth = 1`. The fence run uses `K = 6`.

- `WitcherValidator`: the three crash validators. `engine`, chosen in Init,
  says which one a behaviour runs.
  - `"witcher"` (`witchercrashvalidator.py`): `Validate(T)` starts a
    `validate` call with up to `MaxPlans` plans. Each plan is checked by one
    of `CheckTimeout`, `CheckExitFailure` or `CheckOutput`, the three exits
    of `check_consistency`. The crash image is abstracted to the outcome of
    the recovery run, chosen from `Outcomes`. `GetOracles` runs
    oracle-skip once per transaction and caches its output file.
    `UpdateResult` is `update_result` with its three maps.
  - `"tx"` (`witchertxcrashvalidator.py`): one crash point per step, of kind
    NoLogging (compared with oracle-skip only) or InterTx/NoTx (both
    oracles).
  - `"mt"` (`witchercrashvalidatormt.py`): plans are validated under
    `FAKE_TX_ID`. `MtCheckOutput` builds the oracles on first use
    (`GetOraclesMt`): one per order of every subset of the parallel ops
    (`Perms` is `itertools.permutations`, in its order). Each is compared
    from line `Start + length` on (`MtCompareToOracles`). `mtProg` is what
    the recovery program prints for the suffix after each order. It is
    chosen when the oracles are built and fixed after that.
- `MCWitcherValidator`: three transactions, two output values, two
  src_infos under symmetry, one core signature, at most three checks of up
  to two plans, two crash points; for `mt`, two parallel ops after one
  prefix line and one suffix line.

- `WitcherTraceMt`: `WitcherTraceMt.extract_operations`.
  - It takes `GetStores`, `Copy` and `Advance` from `WitcherTrace`, since
    that code is the same in both files.
  - `ScanTxStart` and `ScanTxEnd` count transactions and set the two ends
    of the parallel range.
  - `GetPrefixOps` and `GetParallelOps` are the getters, with Python's
    slice rules (a bound of -1 counts from the end).
  - `Emits` is the traced program, not the code. `Start` sequential
    transactions, then `NThreads` transactions that may interleave, then
    sequential ones again.
  - `MCWitcherTrace` checks it beside `WitcherTrace`. A `mode` variable,
    chosen in Init, selects one scanner per behaviour, and `MT` is an
    `INSTANCE` over renamed variables. The mt entries are a two-chunk
    store, a fence and the markers, with `Start = 1`, `NThreads = 2` and
    eight entries.

## Runs

- `crash_manager_safety`, `MCWitcherCrashManager.cfg`:
  - `CrashImagesPersistInLineOrder`: every crash image tested is a crash
    state of the trace at that fence, under the x86 persistency model. The
    states are read off the trace alone, with no cache state: every store
    flushed and then fenced before the fence is durable, and each
    cacheline persists a program-order prefix of its other stores. So the
    cache's Flushing marks, its write-backs and `persist_crash_plan`'s
    line prefix (`Durable`) must all be right. Persisting only the plan
    store breaks it, and so does a flush that marks only the newest store.
  - `CrashImagesBreakACandidate`: every crash image tested breaks some
    candidate.
  - `NoResolvedCandidatePending`: no candidate with both stores fenced is left
    pending, which is the code's assertion.
  - `EveryViolableCandidateTested`: at every fence, every candidate a crash
    there could violate is violated by some tested image.
  - `EveryFencedCandidateVerified` (liveness, under weak fairness): every
    candidate with a fence after both its stores is eventually popped by
    `verify_crash_candidates`. The early return and the requeue at the head
    never starve it. A history variable `verified` records the popped
    candidates.
  - About 450,000 states, under 40 seconds with the liveness check.
- `belief_inference`, `MCWitcherBeliefs.cfg`, the object list:
  - `BeliefDbTypeOK`: the type invariant of both parts.
  - `SortedAndDisjoint`: after every insert the list is sorted and no two
    objects overlap.
  - `CoversExactlyInserted`: the objects cover exactly the bytes inserted.
  - `FindResolvesInsertedRanges`: every sub-range of an inserted range is
    found, and the object found covers it.
- `belief_inference`, the analysis:
  - `BeliefsMatchReference`: once every edge is analysed, the beliefs and
    critical loads equal a closure-based reference of spec 4.2.
  - This shows the breadth-first walk (processed set, stop at Stores)
    collects exactly the loads that reach the source through loads.
  - `CandidatesInVerifyOrder`, in every finished database and for every
    resolution of a four-store transaction: the generated list is strictly
    increasing by (max id, min id, pre first). This is the order the
    manager's early return relies on. Four stores are the fewest for which
    the two nestings of the loops give different orders.
  - `CandidatesMatchSpec`: the candidates are exactly the pairs that spec 4.3
    names.
  - The objects are model values under symmetry: the code only compares
    object ids for equality. About 408,000 distinct states.
- `replay_agree_after_txend`, `MCWitcherReplay.cfg`:
  - `AgreeAfterTxEnd`: after every TXEnd, the two replays hold the same cache
    and image.
  - `ImagesHoldNewestWrittenBack`, for both caches: the image holds the
    newest written-back store of every word.
  - `CachesImplementPersistentMemory` (refinement): both caches implement
    `PersistentMemory!PMSpec` under the mapping above. Every flush marks all
    the not-yet-durable stores of its cacheline, and each write-back makes
    durable exactly the stores the model says. So the cacheline lists,
    the filtering in `write_back_all_flushing_stores` and the deletion of
    empty cachelines lose no store and keep none too long. It implies that a store's flush
    state only moves forward (the assertions of `Store.accept_flush` and
    `Store.accept_fence`).
  - About 408,000 states.
- `replay_prefix_at_txstart`, `MCWitcherReplayPrefix.cfg` (expected
  violation):
  - `TargetCrashImagesMatchSequential`: at every fence inside a
    transaction, every plan the sequential manager could validate gives the
    same crash image in `run_for_target` and in the worker. Spec 4.4 calls
    the target-directed run "the same state machine". Spec 5 says a worker
    replays the prefix and then runs the sequential machine.
  - But `run_before_target` and `run_for_target` never write back the
    stores between two transactions. For TXStart, TXEnd, store a1, TXStart,
    fence, TXEnd, the sequential image at the fence holds a1 and the
    worker's does not.
  - A crash the sequential run reports there is not reproduced by
    `run_for_target`. The parallel mode tests crash images that lack a
    store the sequential mode treats as durable.
  - With no store between transactions, the property holds on every
    7-operation trace. This was checked once, outside the runs.

- `trace_extraction`, `MCWitcherTrace.cfg`:
  - `IdsArePositions`: ids are positions in both lists.
  - `ChunksTileStores`: the chunks write exactly the bytes of the stores, in
    order.
  - `ChunksAreAtomic`: no chunk crosses a word boundary.
  - `TxRangesCorrespond`: the atomic ranges bracket the same stores as the
    op ranges.
  - `MtSlicesSplitAtParallelSection`: once all parallel transactions have
    ended, in any interleaving, the prefix slice holds exactly the
    sequential transactions. The parallel slice runs from the first
    parallel TXStart to the TXEnd that closes the last one, with nothing
    between the two slices. A range opened at the op index is caught, and
    so is a range closed one TXEnd late.
  - `BarrierCompletesAfterEveryTask` (the pool, in its own `mode`): once the
    server has sent "BarrierComplete", every dispatched transaction has
    run. `WitcherParallelEngine.run` reads the result files right after
    `threadPoolWait`, and a missing file counts as a transaction without
    result. It holds because the Nones queue behind the tasks, a worker
    finishes its task before it takes a None, and the barrier needs every
    worker. A barrier of one party breaks it.
  - `TraceTypeOK`: the type invariant of both scanners and of the pool.
  - About 446,000 states.
- `full_mode`, `MCWitcherFull.cfg`:
  - `PlansSplitBudget`: for any count and plan up to the count, the chunks
    are ordered and disjoint, lie in `0..total-1` and each holds at least its
    budget. The budgets add up to the plan, and a full plan covers every
    number.
  - `TestedAreDistinctCrashStates`: a worker's targets decode to distinct
    crash states.
  - `ChunkTestsItsShareAfterCleanPrefix`: when no store lies between
    transactions before the target, a worker that finishes tests exactly the
    crash states the engine counted for its chunk.
  - `YatCountsFullAfterCleanStart`: Yat's count of every transaction is at
    least the full engine's, and equal when Yat's cache is empty at the
    TXStart. Yat never empties its cache at a boundary, so in `txstart,
    store, txend, txstart, fence, txend` it counts 1 for the second
    transaction where the full engine counts 0.
  - `PMReorderCountsFlushOrders`: at every fence PMReorder adds the number
    of sequences of distinct flushed stores (`SeqOf` and `IsInjective`),
    the orders in which some of them can reach memory.
  - About 54,000 states (the counting engines are deterministic, so they
    add none).
- `full_mode_inter_tx`, `MCWitcherFullInterTx.cfg` (expected violation):
  - `ChunkTestsItsShare` drops the premise about stores between
    transactions.
  - Counterexample trace: TXStart, TXEnd, store a1 (id 3), TXStart,
    store a1 (id 5), fence (id 6), TXEnd.
    - The engine counts one crash state at fence 6: store 5 durable.
    - The worker's cache still holds store 3 (same word, same cacheline),
      so target 0 decodes to the image with store 3 durable and store 5
      lost.
    - The state with store 5 durable is never tested.

- `tx_engine`, `MCWitcherTx.cfg`:
  - `CrashPointsMatchReference`: the crash points are exactly those of a
    reference stated over the trace.
  - `CrashPointsInIdOrder`: the crash points are in id order.
  - `CrashImageDurable`: every crash image holds only stores replayed
    before the crash, and outside-transaction stores only after a fence.
  - `TcReportsMatchReference`: after the trace checker's first pass, its
    reports match a reference stated over the trace:
    - unflushed: stores with no flush of their line after them;
    - extra flushes: flushes of lines all of whose cached stores are
      already flushed;
    - extra fences: fences with no flushed store to drain;
    - extra logs: TX_ADDs of addresses already logged in the outermost
      PMDK transaction.
  - `TcAgreesWithGenerator`: the trace checker's unlogged stores are the
    NoLogging crash points of the generator. Its unTXed stores are the NoTx
    crash points.
  - About 955,000 states.
- `tx_duplicate_crash_ids`, `MCWitcherTxDup.cfg` (expected violation):
  - The trace is begin, store, end, store, begin, store, end.
  - It yields NoTx and InterTx crash points with the same id. The manager
    validates one of them and never reaches the others.
  - Its final assertion fails.
- `tx_fence_stale_image`, `MCWitcherTxFence.cfg` (expected violation):
  - A fence writes the buffered outside-transaction stores over newer
    in-transaction stores.
  - The cleared attribute is `stores_list` rather than `store_list`, so
    the buffer is never emptied.
- `crash_validation`, `MCWitcherValidator.cfg`:
  - `ReportedExactlyTheFailures`, for all three engines. Every plan checked
    is tested. Exactly the plans that fail are reported, in order: those
    that time out, those that exit non-zero, and those whose output matches
    no legal oracle.
    - A legal oracle for the sequential engine is oracle-full from
      `tx_index + 1`, or the cached oracle-skip from `tx_index`.
    - For the tx engine, oracle-skip alone for a NoLogging point.
    - For the mt engine, the suffix output after any order of any subset
      of the parallel ops.
    - A permutation list built with `itertools.combinations` instead is
      caught.
  - `ReportMapsClassifyReported`: the src_info map, the signature map and
    the nested priority map partition the reports in report order. The
    signature is the spec's: the tag of the first mismatching line of each
    oracle, in oracle order.
  - About 1.6 million states.
- `thread_pool_lost_wakeup`, `MCWitcherThreadPool.cfg` (expected violation):
  - `PoolRunCompletes` (liveness): `witcher_parallel.py` gets
    "BarrierComplete", sends "Quit", and the pool stops and joins every
    worker.
  - TLC finds a behaviour in which it never completes. The server puts
    the two Nones. Both workers take one, meet at the barrier and call
    `notify_all` before the server reaches `threadWaitCondition.wait()`.
    The notification is lost, and the server and the client wait forever.
  - With this one race removed, the same model completes under the same
    fairness, for two and for three workers. So the `qsize()`/`get()` race
    never leaves a worker blocked at Quit: the barrier needs every worker,
    so each takes one None.
  - The cfg sets `CHECK_DEADLOCK FALSE`, because a finished run stops for
    good. The hang is reported by the liveness property, not as a deadlock.

## Disagreements not kept as runs

These were found with the model, but the project keeps only 12 runs. Each
one is listed as a hazard in `PROJECT.json`, with a note.

- Crash manager: spec 4.4 says no candidate is pending after the last
  transaction. Three stores with no fence after them leave one pending,
  because candidates are only tested at fences (the code's TODO "missing
  flushes").
- `PMObjectList.find`: spec 4.2 says it returns the covering object or "not
  found". A query that overlaps an end object without being covered by it
  fails the assertion instead (a list `[0,1)` queried with `[0,2)`).
- Transaction engine with nested PMDK transactions: the inner transaction
  is treated as one of its own. This gives NoLogging points at both ends,
  and an InterTx point between the inner transaction and the one enclosing
  it.
  - A store before a nested transaction is logged nowhere. Its NoLogging
    crash point is then lost: the generator resets its unlogged-store set
    at the inner `tx_begin`. The trace checker keeps its `pmdk_logs`
    across nesting and reports the store. Example: begin, store a1, begin,
    end, end. This only shows when `MaxDepth = 2`, which is beyond the
    `tx_engine` run.
- Multi-thread trace: the traced program may have fewer transactions than
  `parallel_start_index + num_threads`. A range bound then stays -1, the
  parallel slice is empty, and nothing is tested. Nothing is reported
  either.

## Bounds

- Three words over two cachelines is enough for two stores to share a
  cacheline, for two to be in different ones, and for two stores to the same
  word.
- Five operations allow two stores, a flush and a fence before another store
  and fence. This is the smallest transaction in which a candidate is
  requeued and then decided at a later fence.
- At most three of the five operations are stores (`MaxTxStores = 3`).
  Three stores carry two candidates that share a store, in either order,
  and the requeue case above. Traces with four or five stores made up
  most of the initial states, with up to 211 candidate lists each. The
  liveness check over them took 150 seconds and added no case that three
  stores lack.
- Two candidates make the order of the list matter.

- Object lists: ten addresses, sizes up to three and five inserts allow
  chains of three merges, inserts at both ends and in the middle, and a
  binary search of more than one probe.
- Beliefs: three nodes allow a Load -> Load -> Load ctrl chain, a Store that
  cuts the walk, and cycles. Four stores are the fewest for which the two
  loop orders of the generator differ.
- Replay: seven operations allow a store between two transactions and a
  fence and flush within one.

- Trace: addresses 3 and 8 give both an unaligned and an aligned start.
  Sizes 0, 4, 13 and 20 give:
  - an empty store;
  - one that ends before the boundary;
  - one whole word with a tail;
  - two whole words.
- Full mode: seven operations fit two transactions with a store between
  them. Two stores of one line at one fence give a count of 3 to split into
  chunks of budget 2.

- Transaction engine: seven operations fit two PMDK transactions with a
  store between them. That is the shortest trace with duplicate crash ids.
  Six fit a store, a transaction and a fence, and two nested transactions.

- Validator: three checks of up to two plans are enough for one plan
  checked after another of the same transaction, which is the cached
  oracle case. They also allow two plans with the same src_info or
  signature. Two parallel ops give five oracles, including two orders of
  the same pair.
- Thread pool: two workers are enough for the race for one item and for a
  barrier that needs more than one party. Two transactions put two tasks
  ahead of the Nones. The safety run uses three, so one worker can still
  run a task while the other has taken a None and waits at the barrier.
- Multi-thread trace: eight entries fit one sequential transaction, two
  interleaved parallel ones and a split store.

## Fairness

The replay is a sequential loop over a finite trace, and so are the
validators' loops over plans. Nothing in that loop waits on another actor,
so once it has started it only stops at its end. `WitcherCrashManager.Spec`
states this as `WF_vars(Next)`, and `EveryFencedCandidateVerified` relies on
it. `WitcherThreadPool.Spec` assumes weak fairness for the client, the
server, the barrier and each worker. They are OS threads, and nothing in
the code keeps a runnable thread from being scheduled. Under this
assumption the pool's run still fails to complete: after the lost wakeup
nothing is enabled. The other modules check only safety properties and
assume no fairness.
`Done` stutters after the transaction ends.

## Not modelled

- Running the recovery program, the servers (sockets, processes), the PMDK
  trace handler and PPDG readers (file parsing), result printers, scripts and
  the backup copies.
- `WitcherCrashManagerMt` as a module of its own. Its
  `run_try_parallel_ops` is the loop of `WitcherCrashManager` over
  `get_parallel_ops`. It starts from the empty cache that the
  `write_back_all_stores` of `run_before_parallel_ops` leaves. The one
  difference is the interleaved threads' TXStart and TXEnd entries in the
  slice, which `WitcherCache.accept` passes over. Adding a no-op kind to the
  crash manager's operations would multiply its 450,000 states by
  about four and show nothing new. `WitcherMtEngine`'s wiring is file
  handling.
- The counting engines' CSV epilogues. PMDK call entries are also left
  out: both caches pass over them. A `TX_ADD` or `TX_ALLOC` entry makes
  both counting caches raise. `YatCache.accept` raises
  `NotSupportedOperationException`, which `yatengine.py` never imports, so
  that raise is itself a `NameError`. `WitcherTrace` puts these entries in
  `atomic_write_ops`. So Yat, PMReorder, and the full engine's count
  (through `YatCache`) stop on any trace of a program that calls
  `pmemobj_tx_add_range` inside a transaction. This follows from one
  missing `isinstance` branch, so no run restates it.
- The trace checker's per-line reporting of the first pass and its
  operations outside transaction ranges.
- The parallel engines' constructors and epilogues, and the result
  analyzer. These pickle and unpickle files and call the printers. The
  epilogue appends an empty list for a transaction whose worker wrote no
  result, to the candidate and tested lists only. The reported lists are
  only ever flattened, so nothing is misattributed. The
  `ProcessPoolExecutor` path is the standard library's own pool.
- The parallel worker's guards (`WitcherParallelCrashManager.__init__`
  and `run`, lines 45-81). They are three early returns: a transaction
  range over 90000 entries, no candidate, or more candidates than
  `--crash`. `run` repeats the checks of `__init__` in the same order, so
  it never reaches a field that `__init__` skipped. A skipped transaction
  writes no result file, which the epilogue above handles. Nothing runs
  concurrently inside one worker, so no run would show more than this.
- Plan-file entries larger than a transaction's count in the full engine
  (`witcherparallelfullengine.py:102`). The last chunk would then start
  after `total - 1`, and `random.randint` raises. This is a configuration
  error the code does not check, so plans are modelled up to the count.
- The thread pool's use by `giri/ppdg_parallel`, which is the same pool
  with another client. Task pickling and `recv(4096)` are also left out,
  so every command arrives whole.

## Plan (next modules, in order)

1. A fixed thread pool, in which a worker's notification before the
   server waits is remembered, as a passing liveness run beside the
   lost-wakeup violation. Its check needs a run slot of its own.
