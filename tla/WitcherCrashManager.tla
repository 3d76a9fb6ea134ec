------------------------- MODULE WitcherCrashManager -------------------------
(***************************************************************************)
(* The crash manager of the Witcher engine replaying one transaction       *)
(* (WitcherCrashManager.accept_trace_tx with try_crash_candidates,         *)
(* verify_crash_candidates and bring_back_potential_candidates in          *)
(* src/replay/engines/witcher/witchercrashmanager.py, and the same loop in *)
(* WitcherParallelCrashManager.run_try_traget), driving the cache of       *)
(* WitcherCache and building the crash images of WitcherCrashValidator    *)
(* (validate, construct_crash_state, persist_crash_plan).                  *)
(*                                                                         *)
(* The transaction is any sequence of TxLen stores, flushes and fences,    *)
(* at most MaxTxStores of them stores, chosen in Init; operation ids are   *)
(* positions in it.  The candidate list  *)
(* is any list the candidate generator can produce for it: a set of        *)
(* (pre, volatile) store pairs in generator order (CrashCandidates, see    *)
(* CandidateOrder).  The model starts with an empty cache, the state the   *)
(* write-back-all after the operations before a transaction leaves.        *)
(***************************************************************************)
EXTENDS Naturals, Sequences, SequencesExt, FiniteSets

CONSTANTS
    Addrs, Lines, LineOf, NoStore,
    TxLen,      \* number of operations between TXStart and TXEnd
    MaxCands,   \* bound on the number of crash candidates of the transaction
    MaxTxStores \* bound on the number of stores among the TxLen operations

ASSUME TxLen \in Nat /\ MaxCands \in Nat /\ MaxTxStores \in Nat

VARIABLES
    trace,      \* the transaction's operations, trace[id]
    cands,      \* the candidate list the generator produced (kept for properties)
    pending,    \* crash_candidates_per_tx[tx_index]: candidates not yet resolved
    pc,         \* id of the next operation accept_trace_tx accepts
    lines, flushed, image,  \* the cache (WitcherCache)
    tested,     \* crash images the validator has checked: [fence, plan, durable]
    verified    \* history: the candidates some fence has popped

vars == <<trace, cands, pending, pc, lines, flushed, image, tested, verified>>

Ids == 1..TxLen

Ops ==
    [kind : {"store"}, addr : Addrs] \cup
    [kind : {"flush"}, line : Lines] \cup
    [kind : {"fence"}]

StoreIds == {i \in Ids : trace[i].kind = "store"}
StoreOf(i) == [id |-> i, addr |-> trace[i].addr]

\* The stores accepted so far, the history WitcherCache keeps for properties.
Accepted == {StoreOf(i) : i \in {j \in StoreIds : j < pc}}

Cache == INSTANCE WitcherCache WITH accepted <- Accepted, MaxStores <- TxLen

(***************************************************************************)
(* Candidates.  The generator walks succ ascending, pre ascending below    *)
(* it, and emits (pre, succ) before (succ, pre): the list is ordered by    *)
(* max(pre.id, volatile.id), then min, then pre first.                     *)
(***************************************************************************)
Candidate == [p : Ids, v : Ids]
MaxId(c) == IF c.p > c.v THEN c.p ELSE c.v
MinId(c) == IF c.p < c.v THEN c.p ELSE c.v

CandidateOrder(c, d) ==
    \/ MaxId(c) < MaxId(d)
    \/ MaxId(c) = MaxId(d) /\ MinId(c) < MinId(d)
    \/ MaxId(c) = MaxId(d) /\ MinId(c) = MinId(d) /\ c.p < c.v

CandidateSets ==
    {C \in SUBSET {c \in Candidate : c.p # c.v
                                   /\ c.p \in StoreIds /\ c.v \in StoreIds} :
        Cardinality(C) <= MaxCands}

\* The transactions replayed: any TxLen operations, at most MaxTxStores of
\* them stores.
Traces ==
    {t \in [Ids -> Ops] : Cardinality({i \in Ids : t[i].kind = "store"}) <= MaxTxStores}

Init ==
    /\ trace \in Traces
    /\ lines = [l \in Lines |-> <<>>]
    /\ flushed = [i \in Ids |-> Cache!Clear]
    /\ image = [a \in Addrs |-> NoStore]
    /\ \E C \in CandidateSets : cands = SetToSortSeq(C, CandidateOrder)
    /\ pending = cands
    /\ pc = 1
    /\ tested = {}
    /\ verified = {}

IsFenced(i) == flushed[i] = Cache!Fenced
FencedIds == {i \in Ids : IsFenced(i)}

(***************************************************************************)
(* verify_crash_candidates: pop from the head of the list every candidate  *)
(* whose two stores precede the fence, stopping at the first that does     *)
(* not (the early return).                                                 *)
(***************************************************************************)
\* Mutant of PoppedCount: at most one candidate popped per fence.
PoppedCountOne(fence) ==
    LET ok(k) == \A j \in 1..k : MaxId(pending[j]) <= fence
    IN  CHOOSE k \in 0..(IF Len(pending) > 0 THEN 1 ELSE 0) :
            ok(k) /\ (k = Len(pending) \/ k = 1 \/ ~ok(k + 1))

PoppedCount(fence) ==
    LET ok(k) == \A j \in 1..k : MaxId(pending[j]) <= fence
    IN  CHOOSE k \in 0..Len(pending) :
            ok(k) /\ (k = Len(pending) \/ ~ok(k + 1))

\* Mutant of PlansOf: the same-cacheline check dropped.
PlansOfNoLineCheck(c, fence) ==
    (IF ~IsFenced(c.p) /\ ~IsFenced(c.v) THEN {c.p} ELSE {})
    \cup (IF IsFenced(c.p) THEN {fence} ELSE {})

\* The crash plans of one popped candidate: the pre store when both stores
\* are still volatile (if the volatile store came first, only when the two
\* are in different cachelines); the fence itself ("persist nothing") when
\* the pre store is already fenced.
PlansOf(c, fence) ==
    (IF ~IsFenced(c.p) /\ ~IsFenced(c.v)
        /\ (c.p < c.v \/ LineOf[trace[c.p].addr] # LineOf[trace[c.v].addr])
     THEN {c.p} ELSE {})
    \cup (IF IsFenced(c.p) THEN {fence} ELSE {})

\* Mutant of Durable: only the plan store is persisted, not the stores that
\* precede it in its cacheline.
DurablePlanOnly(plan, fence) ==
    FencedIds \cup (IF plan = fence THEN {} ELSE {plan})

\* persist_crash_plan on a copy of the current image: the stores durable in
\* the crash image of a plan (a fence plan persists nothing more).
Durable(plan, fence) ==
    FencedIds \cup (IF plan = fence THEN {}
                    ELSE Cache!IdsOf(Cache!StoresUpTo(StoreOf(plan))))

(***************************************************************************)
(* accept_trace_tx, one operation.  A store or a flush goes to the cache.  *)
(* A fence runs the whole fence handler: verify, validate every plan,      *)
(* write back the Flushing stores, then put back at the head of the list,  *)
(* in their order, the popped candidates whose volatile store is still not *)
(* fenced.                                                                 *)
(***************************************************************************)
AcceptStoreOp ==
    /\ pc <= TxLen /\ trace[pc].kind = "store"
    /\ pc' = pc + 1
    /\ UNCHANGED <<trace, cands, pending, tested, verified>>
    /\ Cache!AcceptStore(StoreOf(pc))

AcceptFlushOp ==
    /\ pc <= TxLen /\ trace[pc].kind = "flush"
    /\ pc' = pc + 1
    /\ UNCHANGED <<trace, cands, pending, tested, verified>>
    /\ Cache!AcceptFlush(trace[pc].line)

\* Mutants of RequeueOf: the "volatile not fenced" test dropped from the
\* second disjunct, and the second disjunct dropped.
RequeueOfBothFenced(popped) ==
    SelectSeq(popped, LAMBDA c :
        \/ Cache!FlushedAfterWriteBack[c.p] # Cache!Fenced
           /\ Cache!FlushedAfterWriteBack[c.v] # Cache!Fenced
        \/ Cache!FlushedAfterWriteBack[c.p] = Cache!Fenced)

RequeueOfVolatileOnly(popped) ==
    SelectSeq(popped, LAMBDA c :
        /\ Cache!FlushedAfterWriteBack[c.p] # Cache!Fenced
        /\ Cache!FlushedAfterWriteBack[c.v] # Cache!Fenced)

\* bring_back_potential_candidates: of the popped candidates, keep those
\* whose stores are both still volatile or whose pre store is fenced and
\* volatile store is not, i.e. those whose volatile store is not fenced.
RequeueOf(popped) ==
    SelectSeq(popped, LAMBDA c : Cache!FlushedAfterWriteBack[c.v] # Cache!Fenced)

AcceptFence ==
    /\ pc <= TxLen /\ trace[pc].kind = "fence"
    /\ pc' = pc + 1
    /\ UNCHANGED <<trace, cands>>
    /\ LET k      == PoppedCount(pc)
           popped == SubSeq(pending, 1, k)
           plans  == UNION {PlansOf(popped[j], pc) : j \in 1..k}
       IN  /\ tested' = tested \cup
                  {[fence |-> pc, plan |-> pl, durable |-> Durable(pl, pc)] :
                       pl \in plans}
           /\ verified' = verified \cup ToSet(popped)
           /\ Cache!WriteBackAllFlushing
           /\ pending' = RequeueOf(popped) \o SubSeq(pending, k + 1, Len(pending))

\* After the last operation: write back every store (the TXEnd boundary).
EndTx ==
    /\ pc = TxLen + 1
    /\ pc' = pc + 1
    /\ UNCHANGED <<trace, cands, pending, tested, verified>>
    /\ Cache!WriteBackAll

Done == pc = TxLen + 2 /\ UNCHANGED vars

Next == AcceptStoreOp \/ AcceptFlushOp \/ AcceptFence \/ EndTx \/ Done

\* accept_trace_tx is a plain loop over the transaction's operations: once
\* started it does not stop before its end (weak fairness of Next).
Spec == Init /\ [][Next]_vars /\ WF_vars(Next)

(***************************************************************************)
(* Properties                                                              *)
(***************************************************************************)
TypeOK ==
    /\ trace \in [Ids -> Ops]
    /\ pc \in 1..TxLen + 2
    /\ pending \in Seq(Candidate) /\ cands \in Seq(Candidate)
    /\ lines \in [Lines -> Seq([id : Ids, addr : Addrs])]
    /\ flushed \in [Ids -> {Cache!Clear, Cache!Flushing, Cache!Fenced}]
    /\ tested \subseteq [fence : Ids, plan : Ids, durable : SUBSET Ids]
    /\ verified \subseteq Candidate

\* The crash states a real machine can be in when it crashes at the current
\* point: every fenced store is durable, and of the stores still in a
\* cacheline some prefix of its list is (a cacheline persists in order).
LegalCrashStates ==
    {FencedIds \cup UNION {Cache!IdsOf(SubSeq(lines[l], 1, n[l])) : l \in Lines} :
        n \in {m \in [Lines -> 0..TxLen] : \A l \in Lines : m[l] <= Len(lines[l])}}

\* The crash states of the x86 persistency model at fence f, read off the
\* trace alone (no cache state): every store flushed and then fenced before
\* f is durable; of the other stores before f, each cacheline persists some
\* prefix of its stores in program order.
PersistedBefore(f) ==
    {s \in StoreIds :
        \E q, r \in Ids : /\ s < q /\ q < r /\ r < f
                         /\ trace[q].kind = "flush"
                         /\ trace[q].line = LineOf[trace[s].addr]
                         /\ trace[r].kind = "fence"}

LineStoresBefore(f, l) ==
    SetToSortSeq({s \in StoreIds : s < f /\ LineOf[trace[s].addr] = l}
                     \ PersistedBefore(f), LAMBDA x, y : x < y)

TraceCrashStates(f) ==
    {PersistedBefore(f) \cup
        UNION {ToSet(SubSeq(LineStoresBefore(f, l), 1, n[l])) : l \in Lines} :
        n \in {m \in [Lines -> 0..TxLen] :
                  \A l \in Lines : m[l] <= Len(LineStoresBefore(f, l))}}

\* Every crash image the validator checks at a fence (persist_crash_plan on
\* the image the cache has written back) is a crash state of the trace up
\* to that fence: the write-backs of earlier fences, the Flushing marks and
\* the plan's cacheline prefix together persist exactly what hardware could.
CrashImagesPersistInLineOrder ==
    \A r \in tested : r.durable \in TraceCrashStates(r.fence)

\* Every crash image checked persists the pre store and loses the volatile
\* store of some candidate whose stores both precede the crash fence.
CrashImagesBreakACandidate ==
    \A r \in tested :
        \E j \in DOMAIN cands :
            /\ MaxId(cands[j]) < r.fence
            /\ cands[j].p \in r.durable /\ cands[j].v \notin r.durable

\* At every fence, every candidate whose two stores precede it and that the
\* machine could violate by crashing there (pre durable, volatile lost) is
\* violated by some crash image the validator checks at that fence: the
\* pop/requeue discipline never loses a candidate that is still testable.
EveryViolableCandidateTested ==
    [][pc <= TxLen /\ trace[pc].kind = "fence" =>
        \A j \in DOMAIN cands :
            LET c == cands[j] IN
            (/\ MaxId(c) < pc
             /\ \E D \in LegalCrashStates : c.p \in D /\ c.v \notin D)
            => \E r \in tested' : /\ r.fence = pc
                                  /\ c.p \in r.durable /\ c.v \notin r.durable]_vars

\* verify_crash_candidates asserts that a popped candidate whose pre store is
\* fenced does not have its volatile store fenced too: while the transaction
\* is replayed, no candidate with both stores fenced is left in the list.
NoResolvedCandidatePending ==
    pc <= TxLen => \A j \in DOMAIN pending : ~(IsFenced(pending[j].p) /\ IsFenced(pending[j].v))

HasLaterFence(c) == \E f \in Ids : trace[f].kind = "fence" /\ f > MaxId(c)

\* Every candidate whose two stores are followed by some fence of the
\* transaction is eventually popped by verify_crash_candidates: the early
\* return at the first candidate not yet behind the fence, together with the
\* requeue at the head, never starves a candidate behind the ones put back.
\* (A candidate with no fence after it is never verified: the hazard the
\* README lists for the loop's end.)
EveryFencedCandidateVerified ==
    \A j \in 1..MaxCands :
        (j \in DOMAIN cands /\ HasLaterFence(cands[j]))
            ~> (j \in DOMAIN cands /\ cands[j] \in verified)
=============================================================================
