---------------------------- MODULE WitcherReplay ----------------------------
(***************************************************************************)
(* The two ways the replay reaches the start of a transaction.             *)
(*                                                                         *)
(* Sequential (WitcherCrashManager.accept_trace_init_ops and               *)
(* accept_trace_txs in src/replay/engines/witcher/witchercrashmanager.py): *)
(* the operations before the first transaction, the operations between two *)
(* transactions and the interior of every transaction are each replayed by *)
(* accept_trace_tx, which writes back every store at its end; the TXStart   *)
(* and TXEnd markers themselves are not replayed.                          *)
(*                                                                         *)
(* Prefix replay (WitcherParallelCrashManager.run_before_target in         *)
(* src/replay/engines/witcherparallel/witcherparallelcrashmanager.py, the  *)
(* same rules as run_for_target): every operation before the target        *)
(* transaction's TXStart is accepted; a fence writes back the Flushing     *)
(* stores, a TXEnd writes back every store, and so does the operation just *)
(* before the first TXStart.                                               *)
(*                                                                         *)
(* Both run in lockstep over one trace, each with its own cache (two       *)
(* instances of WitcherCache).  Since the prefix replay of a later target  *)
(* only extends that of an earlier one, one run of it serves every target. *)
(***************************************************************************)
EXTENDS Naturals, Sequences, FiniteSets

CONSTANTS Addrs, Lines, LineOf, NoStore,
    N           \* number of operations of the trace (atomic_write_ops)

VARIABLES
    trace, pc,
    sLines, sFlushed, sImage,   \* the cache of the sequential replay
    pLines, pFlushed, pImage    \* the cache of the prefix replay

vars == <<trace, pc, sLines, sFlushed, sImage, pLines, pFlushed, pImage>>

Ids == 1..N

Ops ==
    [kind : {"store"}, addr : Addrs] \cup [kind : {"flush"}, line : Lines]
    \cup [kind : {"fence", "txstart", "txend"}]

StoreOf(i) == [id |-> i, addr |-> trace[i].addr]
Accepted == {StoreOf(i) : i \in {j \in 1..pc - 1 : trace[j].kind = "store"}}

SeqCache == INSTANCE WitcherCache WITH lines <- sLines, flushed <- sFlushed,
           image <- sImage, accepted <- Accepted, MaxStores <- N
ParCache == INSTANCE WitcherCache WITH lines <- pLines, flushed <- pFlushed,
           image <- pImage, accepted <- Accepted, MaxStores <- N

(***************************************************************************)
(* WitcherTrace.extract_operations: transactions do not nest, and the      *)
(* trace ends with the TXEnd of its last transaction.                      *)
(***************************************************************************)
Open(t, i) ==
    Cardinality({j \in 1..i - 1 : t[j].kind = "txstart"})
    - Cardinality({j \in 1..i - 1 : t[j].kind = "txend"})

WellFormed(t) ==
    /\ \A i \in Ids : t[i].kind = "txstart" => Open(t, i) = 0
    /\ \A i \in Ids : t[i].kind = "txend"   => Open(t, i) = 1
    /\ t[N].kind = "txend"

\* atomic_write_ops_tx_ranges[0][0]: the first TXStart.
FirstStart == CHOOSE i \in Ids : trace[i].kind = "txstart"
                                 /\ \A j \in 1..i - 1 : trace[j].kind # "txstart"

Init ==
    /\ trace \in {t \in [Ids -> Ops] : WellFormed(t)}
    /\ pc = 1
    /\ sLines = [l \in Lines |-> <<>>] /\ pLines = sLines
    /\ sFlushed = [i \in Ids |-> SeqCache!Clear] /\ pFlushed = sFlushed
    /\ sImage = [a \in Addrs |-> NoStore] /\ pImage = sImage

Op == trace[pc]

(***************************************************************************)
(* One operation, replayed by both.  Stores, flushes and fences are        *)
(* treated alike: cache.accept, and after a fence                          *)
(* write_back_all_flushing_stores.                                         *)
(***************************************************************************)
StepStore ==
    /\ pc <= N /\ Op.kind = "store"
    /\ pc' = pc + 1 /\ UNCHANGED trace
    /\ SeqCache!AcceptStore(StoreOf(pc))
    /\ ParCache!AcceptStore(StoreOf(pc))

StepFlush ==
    /\ pc <= N /\ Op.kind = "flush"
    /\ pc' = pc + 1 /\ UNCHANGED trace
    /\ SeqCache!AcceptFlush(Op.line)
    /\ ParCache!AcceptFlush(Op.line)

StepFence ==
    /\ pc <= N /\ Op.kind = "fence"
    /\ pc' = pc + 1 /\ UNCHANGED trace
    /\ SeqCache!WriteBackAllFlushing
    /\ ParCache!WriteBackAllFlushing

\* The prefix replay at a TXStart: accept does nothing; the write-back of
\* the operation just before the first TXStart is taken here, one step
\* later, which changes nothing since that TXStart does nothing else.
ParAtTxStart ==
    IF pc = FirstStart THEN ParCache!WriteBackAll
                       ELSE UNCHANGED <<pLines, pFlushed, pImage>>

\* TXStart: the sequential replay ends the segment before it with
\* write_back_all_stores (accept_trace_init_ops or the init_ops of
\* accept_trace_txs; for an empty segment this changes nothing).
StepTxStart ==
    /\ pc <= N /\ Op.kind = "txstart"
    /\ pc' = pc + 1 /\ UNCHANGED trace
    /\ SeqCache!WriteBackAll
    /\ ParAtTxStart

\* Mutant of StepTxEnd: the prefix replay does not write back at TXEnd.
StepTxEndParKeeps ==
    /\ pc <= N /\ Op.kind = "txend"
    /\ pc' = pc + 1 /\ UNCHANGED trace
    /\ SeqCache!WriteBackAll
    /\ UNCHANGED <<pLines, pFlushed, pImage>>

\* TXEnd: both write back every store (the end of accept_trace_tx for the
\* transaction; isinstance(op, TXEnd) in the prefix replay).
StepTxEnd ==
    /\ pc <= N /\ Op.kind = "txend"
    /\ pc' = pc + 1 /\ UNCHANGED trace
    /\ SeqCache!WriteBackAll
    /\ ParCache!WriteBackAll

Done == pc = N + 1 /\ UNCHANGED vars

Next == StepStore \/ StepFlush \/ StepFence \/ StepTxStart \/ StepTxEnd \/ Done

Spec == Init /\ [][Next]_vars

(***************************************************************************)
(* The crash image a replay validates at the fence pc for a crash plan:    *)
(* the fence itself persists nothing; a store persists, on a copy of the   *)
(* image, the stores of its cacheline up to it (persist_crash_plan with    *)
(* get_stores_from_crash_plan).  run_for_target replays the trace by the  *)
(* prefix replay's rules and, at its target fence, validates the one plan  *)
(* target_crash_op before the fence's write-back, then returns; the       *)
(* parallel worker's run_try_traget does the same after run_before_target. *)
(***************************************************************************)
\* The plans the sequential crash manager can validate at the fence pc, and
\* so the targets a crash report can name: the fence, or a store still in
\* a cacheline (verify_crash_candidates only adds stores not fenced).
SeqPlans == {pc} \cup UNION {SeqCache!IdsOf(sLines[l]) : l \in Lines}

SeqCrashImage(plan) ==
    IF plan = pc THEN sImage
    ELSE SeqCache!WriteStores(sImage, SeqCache!StoresUpTo(StoreOf(plan)))

TargetCrashImage(plan) ==
    IF plan = pc THEN pImage
    ELSE ParCache!WriteStores(pImage, ParCache!StoresUpTo(StoreOf(plan)))

(***************************************************************************)
(* Each cache seen as the persistency model it implements: the stores it  *)
(* accepted are written, its Flushing stores marked, its Fenced stores    *)
(* durable, and its image is memory.                                       *)
(***************************************************************************)
IdsIn(f, state) == {i \in Ids : f[i] = state}

SeqMemory == INSTANCE PersistentMemory WITH Ids <- Ids, written <- Accepted,
    marked <- IdsIn(sFlushed, SeqCache!Flushing),
    durable <- IdsIn(sFlushed, SeqCache!Fenced), memory <- sImage
ParMemory == INSTANCE PersistentMemory WITH Ids <- Ids, written <- Accepted,
    marked <- IdsIn(pFlushed, ParCache!Flushing),
    durable <- IdsIn(pFlushed, ParCache!Fenced), memory <- pImage

(***************************************************************************)
(* Properties                                                              *)
(***************************************************************************)
TypeOK ==
    /\ pc \in 1..N + 1
    /\ SeqCache!CacheTypeOK
    /\ ParCache!CacheTypeOK

\* WitcherCache, driven by both replays: the image holds, at every address,
\* the newest store written back there, through accept, the write-back of
\* the Flushing stores after a fence and write_back_all_stores at TXEnd.
ImagesHoldNewestWrittenBack ==
    SeqCache!ImageHoldsNewestWrittenBack /\ ParCache!ImageHoldsNewestWrittenBack

SameCache ==
    /\ sLines = pLines /\ sFlushed = pFlushed /\ sImage = pImage

JustReplayed(kind) == pc > 1 /\ trace[pc - 1].kind = kind

\* Whatever the prefix replay leaves in the cache, both replays agree again
\* after every TXEnd: the crash state each transaction starts from differs
\* at most within the transaction.
AgreeAfterTxEnd == JustReplayed("txend") => SameCache

\* The spec: the target-directed run is "the same state machine" as the
\* sequential crash manager (section 4.4), and a worker replays the prefix
\* and then runs that machine (section 5).  So at every fence inside a
\* transaction, each crash plan the sequential manager could validate there
\* gives the same crash image when run_for_target (or a parallel worker)
\* validates it.
TargetCrashImagesMatchSequential ==
    pc <= N /\ Op.kind = "fence" /\ Open(trace, pc) = 1 =>
        \A plan \in SeqPlans : TargetCrashImage(plan) = SeqCrashImage(plan)

\* WitcherCache implements the persistency model in both replays: every
\* accept_flush marks all the stores of its cacheline not yet written back,
\* write_back_all_flushing_stores makes durable exactly the Flushing ones
\* and write_back_all_stores all of them, each image holding the newest
\* durable store of every address -- the cacheline lists, the filtering
\* of write_back_all_flushing_stores and the deletion of empty cachelines
\* lose no store and keep none too long.
CachesImplementPersistentMemory == SeqMemory!PMSpec /\ ParMemory!PMSpec
=============================================================================
