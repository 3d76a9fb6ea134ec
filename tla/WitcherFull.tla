----------------------------- MODULE WitcherFull -----------------------------
(***************************************************************************)
(* The full (enumerative) mode: WitcherParallelFullEngine.run in           *)
(* src/replay/engines/witcherparallelfull/witcherparallelfullengine.py and *)
(* WitcherParallelFullCrashManager in witcherparallelfullcrashmanager.py.  *)
(*                                                                         *)
(* "count": the engine replays the trace from the first TXStart through a  *)
(* YatCache (engines/yat/yatengine.py), accepting only operations inside a *)
(* transaction, and adds up at every fence the number of crash states,     *)
(* prod(stores of a cacheline + 1) - 1, per transaction.                   *)
(* "plan": for a transaction with a non-zero count it splits the numbers   *)
(* 0..total-1 into chunks of BUDGET targets; one worker takes one chunk    *)
(* and picks its targets (all of them, or `budget` distinct random ones).  *)
(* "before"/"try": the worker replays the prefix (run_before_target) and   *)
(* then the transaction (run_try_traget) through a WitcherCache; at every  *)
(* fence it takes the targets below its running count and decodes each    *)
(* (get_stores_from_target) into the stores whose cacheline prefixes the   *)
(* crash image persists.                                                   *)
(*                                                                         *)
(* A crash image is the set of ids of the stores persisted on top of the   *)
(* image.  The worker's cachelines, a dict in insertion order in the code, *)
(* are taken in the fixed order LineOrder, an absent one as an empty list  *)
(* (a digit of radix 1, which changes neither the count nor the decoding). *)
(***************************************************************************)
EXTENDS Integers, Sequences, SequencesExt, FiniteSets, FiniteSetsExt, Functions

CONSTANTS Addrs, Lines, LineOf, NoStore,
    N,          \* number of operations of the trace
    Budget,     \* BUDGET, targets per worker
    LineOrder,  \* the order the worker's cacheline dict yields its lines in
    MaxTotal    \* largest crash-state count the plan split is checked for

ASSUME LineOrder \in Seq(Lines) /\ Range(LineOrder) = Lines

VARIABLES
    trace, pc, phase,
    yLines, yMarked, inTx, permCount, countList, yStates,  \* the engine
    tx, chunk, targets,                                     \* the worker's plan
    wLines, wFlushed, wImage, planIdx, wCount, tested,      \* the worker
    wStates                \* history: the worker's crash states at each fence

engineVars == <<yLines, yMarked, inTx, permCount, countList, yStates>>
planVars   == <<tx, chunk, targets>>
workerVars == <<wLines, wFlushed, wImage, planIdx, wCount, tested, wStates>>
vars == <<trace, pc, phase, engineVars, planVars, workerVars>>

Ids == 1..N

Ops ==
    [kind : {"store"}, addr : Addrs] \cup [kind : {"flush"}, line : Lines]
    \cup [kind : {"fence", "txstart", "txend"}]

StoreOf(i) == [id |-> i, addr |-> trace[i].addr]
Accepted == {StoreOf(i) : i \in {j \in 1..pc - 1 : trace[j].kind = "store"}}

W == INSTANCE WitcherCache WITH lines <- wLines, flushed <- wFlushed,
     image <- wImage, accepted <- Accepted, MaxStores <- N

\* Transactions do not nest and the trace ends with a TXEnd (the asserts of
\* WitcherTrace.extract_operations and of the engine's scan).
Open(t, i) ==
    Cardinality({j \in 1..i - 1 : t[j].kind = "txstart"})
    - Cardinality({j \in 1..i - 1 : t[j].kind = "txend"})

WellFormed(t) ==
    /\ \A i \in Ids : t[i].kind = "txstart" => Open(t, i) = 0
    /\ \A i \in Ids : t[i].kind = "txend"   => Open(t, i) = 1
    /\ t[N].kind = "txend"

Starts == {i \in Ids : trace[i].kind = "txstart"}
FirstStart == Min(Starts)

\* atomic_write_ops_tx_ranges[k], as positions of the TXStart and TXEnd.
TxRange(k) ==
    LET s == SetToSortSeq(Starts, <)
        e == SetToSortSeq({i \in Ids : trace[i].kind = "txend"}, <)
    IN  <<s[k], e[k]>>

Op == trace[pc]

\* The crash states of a cache: one prefix of every cacheline's list, not
\* all empty.  There are prod(len + 1) - 1 of them.
PrefixLengths(ls) ==
    {f \in [Lines -> 0..N] : \A l \in Lines : f[l] <= Len(ls[l])}
Combos(ls) ==
    {UNION {Range(SubSeq(ls[l], 1, k[l])) : l \in Lines} : k \in PrefixLengths(ls)}
    \ {{}}

Prod(f, S) == FoldFunctionOnSet(LAMBDA a, b : a * b, 1, f, S)

\* Mutant of CountOf: the + 1 of every cacheline's digit forgotten.
CountOfNoPlusOne(ls) == Prod([l \in Lines |-> Len(ls[l])], Lines) - 1

\* YatPermutator.run and permutation_count: prod(len + 1) - 1.
CountOf(ls) == Prod([l \in Lines |-> Len(ls[l]) + 1], Lines) - 1

Init ==
    /\ trace \in {t \in [Ids -> Ops] : WellFormed(t)}
    /\ pc = FirstStart /\ phase = "count"
    /\ yLines = [l \in Lines |-> <<>>] /\ yMarked = {}
    /\ inTx = FALSE /\ permCount = 0 /\ countList = <<>> /\ yStates = {}
    /\ tx = 0 /\ chunk = <<0, 0, 0>> /\ targets = <<>>
    /\ wLines = [l \in Lines |-> <<>>] /\ wFlushed = [i \in Ids |-> W!Clear]
    /\ wImage = [a \in Addrs |-> NoStore]
    /\ planIdx = 0 /\ wCount = 0 /\ tested = {} /\ wStates = {}

(***************************************************************************)
(* The engine's scan (ops from the first TXStart on).  A TXStart and a     *)
(* TXEnd empty the YatCache (flush_all); inside a transaction a store is   *)
(* appended to its cacheline, a flush marks its cacheline's stores         *)
(* (flushed = 1) and a fence adds the crash-state count and drops the      *)
(* marked stores (YatCache.flush); outside one nothing is accepted.        *)
(***************************************************************************)
Counting == phase = "count" /\ pc <= N

EngTxStart ==
    /\ Counting /\ Op.kind = "txstart"
    /\ inTx' = TRUE /\ permCount' = 0
    /\ yLines' = [l \in Lines |-> <<>>]
    /\ UNCHANGED <<yMarked, countList, yStates>>

EngTxEnd ==
    /\ Counting /\ Op.kind = "txend"
    /\ inTx' = FALSE
    /\ countList' = Append(countList, permCount)
    /\ yLines' = [l \in Lines |-> <<>>]
    /\ UNCHANGED <<yMarked, permCount, yStates>>

EngStore ==
    /\ Counting /\ inTx /\ Op.kind = "store"
    /\ yLines' = [yLines EXCEPT ![LineOf[Op.addr]] = Append(@, pc)]
    /\ UNCHANGED <<yMarked, inTx, permCount, countList, yStates>>

EngFlush ==
    /\ Counting /\ inTx /\ Op.kind = "flush"
    /\ yMarked' = yMarked \cup Range(yLines[Op.line])
    /\ UNCHANGED <<yLines, inTx, permCount, countList, yStates>>

\* Mutant of EngFence: the YatCache is flushed before the count is taken.
EngFenceFlushFirst ==
    /\ Counting /\ inTx /\ Op.kind = "fence"
    /\ LET kept == [l \in Lines |-> SelectSeq(yLines[l], LAMBDA i : i \notin yMarked)]
       IN  /\ permCount' = permCount + CountOf(kept)
           /\ yStates' = yStates \cup {[fence |-> pc, image |-> s] : s \in Combos(kept)}
           /\ yLines' = kept
    /\ UNCHANGED <<yMarked, inTx, countList>>

EngFence ==
    /\ Counting /\ inTx /\ Op.kind = "fence"
    /\ permCount' = permCount + CountOf(yLines)
    /\ yStates' = yStates \cup {[fence |-> pc, image |-> s] : s \in Combos(yLines)}
    /\ yLines' = [l \in Lines |-> SelectSeq(yLines[l], LAMBDA i : i \notin yMarked)]
    /\ UNCHANGED <<yMarked, inTx, countList>>

\* A store, flush or fence between two transactions.
EngSkip ==
    /\ Counting /\ ~inTx /\ Op.kind \in {"store", "flush", "fence"}
    /\ UNCHANGED engineVars

EngStep ==
    /\ \/ EngTxStart \/ EngTxEnd \/ EngStore \/ EngFlush \/ EngFence \/ EngSkip
    /\ pc' = pc + 1
    /\ UNCHANGED <<trace, phase, planVars, workerVars>>

(***************************************************************************)
(* The engine's plans for a transaction of `total` crash states, given    *)
(* `plan` targets to test (the plan file's entry, or total): num chunks of *)
(* `length` numbers with BUDGET targets each, length at least BUDGET, then *)
(* the remainder up to total - 1 with plan % BUDGET targets.              *)
(***************************************************************************)
\* Mutant of Plans: a chunk is not widened to BUDGET numbers.
PlansNoWiden(total, plan) ==
    LET num    == plan \div Budget
        rem    == plan % Budget
        length == IF rem > 0 THEN total \div (num + 1) ELSE total \div num
    IN  [i \in 1..num |-> <<(i - 1) * length, i * length - 1, Budget>>]
        \o (IF rem > 0 THEN <<<<num * length, total - 1, rem>>>> ELSE <<>>)

Plans(total, plan) ==
    LET num    == plan \div Budget
        rem    == plan % Budget
        length == Max({IF rem > 0 THEN total \div (num + 1) ELSE total \div num,
                       Budget})
    IN  [i \in 1..num |-> <<(i - 1) * length, i * length - 1, Budget>>]
        \o (IF rem > 0 THEN <<<<num * length, total - 1, rem>>>> ELSE <<>>)

\* init_plans: every number of the chunk when the budget covers it, else
\* `budget` distinct random numbers of it, sorted.
TargetChoices(c) ==
    IF c[3] = c[2] - c[1] + 1
    THEN {SetToSortSeq(c[1]..c[2], <)}
    ELSE {SetToSortSeq(S, <) : S \in kSubset(c[3], c[1]..c[2])}

\* The loop over the transactions, for the one worker the model follows:
\* a transaction with a non-zero count, one of its chunks.
ChoosePlan ==
    /\ phase = "count" /\ pc = N + 1
    /\ \E t \in DOMAIN countList :
         /\ countList[t] > 0
         /\ \E plan \in 1..countList[t] :
              \E c \in Range(Plans(countList[t], plan)) :
                  \E tg \in TargetChoices(c) :
                      tx' = t /\ chunk' = c /\ targets' = tg
    /\ phase' = "worker" /\ pc' = 1
    /\ UNCHANGED <<trace, engineVars, workerVars>>

NoWork ==
    /\ phase = "count" /\ pc = N + 1
    /\ \A t \in DOMAIN countList : countList[t] = 0
    /\ phase' = "done"
    /\ UNCHANGED <<trace, pc, engineVars, planVars, workerVars>>

(***************************************************************************)
(* get_stores_from_target: target + 1 in the mixed radix whose digits are  *)
(* the cachelines' list lengths + 1; a non-zero digit d picks the d-th     *)
(* store of its cacheline.  persist_crash_plan then persists every store   *)
(* of that cacheline up to it (get_stores_from_crash_plan).                *)
(***************************************************************************)
Cls == [i \in DOMAIN LineOrder |-> wLines[LineOrder[i]]]

Place(cls) ==
    [i \in DOMAIN cls |->
        Prod([j \in DOMAIN cls |-> Len(cls[j]) + 1], i + 1..Len(cls))]

RECURSIVE DecodeFrom(_, _, _, _)
DecodeFrom(cls, place, count, i) ==
    IF i > Len(cls) THEN <<>>
    ELSE LET d == count \div place[i]
         IN  (IF d > 0 THEN <<cls[i][d]>> ELSE <<>>)
             \o DecodeFrom(cls, place, count % place[i], i + 1)

\* Mutant of GetStoresFromTarget: target decoded without the + 1.
GetStoresFromTargetNoIncrement(target) == DecodeFrom(Cls, Place(Cls), target, 1)

GetStoresFromTarget(target) == DecodeFrom(Cls, Place(Cls), target + 1, 1)

\* The worker's store lists as lists of store ids.
IdLines == [l \in Lines |-> [k \in DOMAIN wLines[l] |-> wLines[l][k].id]]

Persisted(stores) == UNION {W!IdsOf(W!StoresUpTo(s)) : s \in Range(stores)}

(***************************************************************************)
(* The worker: run_before_target over the operations before its           *)
(* transaction's TXStart, then run_try_traget over the transaction up to,  *)
(* not including, its TXEnd.  The write-back after the operation just      *)
(* before the first TXStart is taken at that TXStart, which does nothing   *)
(* else.                                                                   *)
(***************************************************************************)
Working == phase = "worker" /\ pc < TxRange(tx)[2]
Before  == pc < TxRange(tx)[1]

WStep(A) ==
    /\ Working
    /\ pc' = pc + 1
    /\ UNCHANGED <<trace, phase, engineVars, planVars, planIdx, wCount, tested, wStates>>
    /\ A

WStore   == Op.kind = "store" /\ W!AcceptStore(StoreOf(pc))
WFlush   == Op.kind = "flush" /\ W!AcceptFlush(Op.line)
WTxStart == Op.kind = "txstart" /\ IF pc = FirstStart THEN W!WriteBackAll
                                   ELSE UNCHANGED <<wLines, wFlushed, wImage>>
WTxEnd   == Op.kind = "txend" /\ W!WriteBackAll
WFenceBefore == Before /\ Op.kind = "fence" /\ W!WriteBackAllFlushing

\* The while loop taking the targets below the running count.
RECURSIVE TakeTargets(_, _)
TakeTargets(idx, cnt) ==
    IF idx < Len(targets) /\ cnt > targets[idx + 1]
    THEN TakeTargets(idx + 1, cnt) ELSE idx

\* A fence of the transaction: count, take and decode the targets, validate
\* each crash plan, write back the Flushing stores, and stop once every
\* target is taken.
WFenceTry ==
    /\ Working /\ ~Before /\ Op.kind = "fence"
    /\ UNCHANGED <<trace, engineVars, planVars>>
    /\ LET last   == wCount
           cnt    == wCount + CountOf(wLines)
           newIdx == TakeTargets(planIdx, cnt)
       IN  /\ wCount' = cnt /\ planIdx' = newIdx
           /\ tested' = tested \cup
                {[fence |-> pc, target |-> targets[j],
                  image |-> Persisted(GetStoresFromTarget(targets[j] - last))] :
                    j \in planIdx + 1..newIdx}
           /\ wStates' = wStates \cup {[fence |-> pc, image |-> s] : s \in Combos(IdLines)}
           /\ IF newIdx = Len(targets) THEN phase' = "done" /\ UNCHANGED pc
                                      ELSE pc' = pc + 1 /\ UNCHANGED phase
           /\ W!WriteBackAllFlushing

\* The loop over the transaction's operations can also end before its TXEnd
\* with targets left.  No action models that exit: the worker's count
\* reaches the engine's total at the transaction's last fence, where the
\* break always fires, and the absence of deadlock in the checked runs is
\* what shows it.

Done == phase = "done" /\ UNCHANGED vars

Next ==
    \/ EngStep \/ ChoosePlan \/ NoWork
    \/ WStep(WStore) \/ WStep(WFlush) \/ WStep(WTxStart) \/ WStep(WTxEnd)
    \/ WStep(WFenceBefore) \/ WFenceTry \/ Done

Spec == Init /\ [][Next]_vars

(***************************************************************************)
(* Properties                                                              *)
(***************************************************************************)
TypeOK ==
    /\ phase \in {"count", "worker", "done"}
    /\ pc \in 1..N + 1
    /\ permCount \in Nat /\ countList \in Seq(Nat)
    /\ planIdx \in 0..Len(targets)
    /\ W!CacheTypeOK

\* The engine's split of a transaction's numbers into worker chunks: every
\* chunk is a non-empty range of 0..total-1 holding at least its budget
\* (so init_plans' random draw terminates), the chunks are ordered and
\* disjoint, their budgets add up to the plan, and with no plan-file entry
\* (plan = total) they cover every number.  Checked for every total and
\* plan up to MaxTotal, once, in the initial states.
PlansSplitBudget ==
    phase = "count" /\ pc = FirstStart =>
        \A total \in 1..MaxTotal : \A plan \in 1..total :
            LET ps == Plans(total, plan)
            IN  /\ \A i \in DOMAIN ps :
                     /\ 0 <= ps[i][1] /\ ps[i][2] <= total - 1
                     /\ 1 <= ps[i][3] /\ ps[i][3] <= ps[i][2] - ps[i][1] + 1
                /\ \A i \in 1..Len(ps) - 1 : ps[i][2] < ps[i + 1][1]
                /\ FoldFunction(+, 0, [i \in DOMAIN ps |-> ps[i][3]]) = plan
                /\ plan = total =>
                     UNION {ps[i][1]..ps[i][2] : i \in DOMAIN ps} = 0..total - 1

\* get_stores_from_target with the fence's offset: at one fence, distinct
\* targets decode to distinct crash images, and each is a crash state of
\* the worker's cache there (a prefix of every cacheline, not all empty).
TestedAreDistinctCrashStates ==
    /\ \A r \in tested : [fence |-> r.fence, image |-> r.image] \in wStates
    /\ \A r1, r2 \in tested :
         r1.fence = r2.fence /\ r1.target # r2.target => r1.image # r2.image

ExhaustiveChunk == tx # 0 /\ chunk[3] = chunk[2] - chunk[1] + 1

\* A worker given every number of its chunk tests that many crash states,
\* all of them states the engine counted for its transaction at the same
\* fence: the engine's YatCache count and the worker's WitcherCache count
\* agree fence by fence.
TestsItsShare ==
    /\ planIdx = Len(targets)
    /\ {[fence |-> r.fence, image |-> r.image] : r \in tested} \subseteq yStates

ChunkTestsItsShare == phase = "done" /\ ExhaustiveChunk => TestsItsShare

\* The stores between the previous transaction's TXEnd and this one's
\* TXStart (none before the first: the prefix replay writes those back).
InterTxStores(k) ==
    IF k = 1 THEN {}
    ELSE {i \in TxRange(k - 1)[2] + 1..TxRange(k)[1] - 1 : trace[i].kind = "store"}

\* ChunkTestsItsShare for the transactions no store between transactions
\* precedes.
ChunkTestsItsShareAfterCleanPrefix ==
    phase = "done" /\ ExhaustiveChunk /\ InterTxStores(tx) = {} => TestsItsShare
====
