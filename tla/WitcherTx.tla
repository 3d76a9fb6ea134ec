------------------------------ MODULE WitcherTx ------------------------------
(***************************************************************************)
(* The transaction engine (src/replay/engines/witchertx/): crash points     *)
(* derived from the PMDK transactions of a Witcher transaction, then one   *)
(* replay of the trace that crashes at every crash point.                  *)
(*                                                                         *)
(* GeneratorUnit (crashpointgenerator.py) scans the operations between a   *)
(* TXStart and its TXEnd:                                                  *)
(*   - a store outside any PMDK transaction is a CrashPointNoTx at its id; *)
(*   - a store inside one that no TX_ADD/TX_ALLOC range of the transaction *)
(*     covers makes its tx_end a CrashPointNoLogging;                      *)
(*   - a PMDK transaction whose stores break a belief with those of a      *)
(*     later one gives a CrashPointInterTx right after its tx_end.         *)
(* WitcherTxCrashManager.run replays the trace on a WitcherTxCache and    *)
(* validates every crash point when the replay reaches its id.             *)
(*                                                                         *)
(* One Witcher transaction is modelled: GeneratorUnits do not share state  *)
(* and run_units concatenates their lists.  Data abstraction: a TX_ADD or  *)
(* TX_ALLOC range and a store are one address each, so range_contains is   *)
(* equality; a store resolves to its address in the belief database,      *)
(* whose answers are the constants CriticalAddrs and OrderViolations.      *)
(* TX_ALLOC behaves as TX_ADD here (they differ only in the double-logging *)
(* report, which is printed and not used).  The library's own writes,      *)
(* replayed by PMDKTraceHandler, go to the undo log and allocator metadata *)
(* and are left out; a Flush only asserts it is outside PMDK transactions. *)
(***************************************************************************)
EXTENDS Naturals, Sequences, SequencesExt, FiniteSets

CONSTANTS
    Addrs,            \* store addresses
    AddAddrs,         \* addresses a TX_ADD may cover
    NoStore,          \* an address nothing was written to
    K,                \* operations between TXStart and TXEnd
    MaxDepth,         \* deepest nesting of PMDK transactions in a trace
    CriticalAddrs,    \* is_critical_store
    OrderViolations,  \* <<p, v>>: persisting p with v volatile breaks a belief
    Lines,            \* cachelines
    LineOf            \* the cacheline of each address

VARIABLES
    trace,
    phase,            \* "gen", "inter", "replay", "done"
    \* GeneratorUnit
    g,                \* position of the scan
    gStack,           \* pmdk_tx_stack
    rangeable,        \* rangeable_list (covered addresses)
    withoutLogging,   \* store_without_logging_list
    storeList,        \* store_list
    byTx,             \* store_list_by_pmdk_tx: [end, stores]
    points,           \* crash_point_list
    inter,            \* i of generate_inter_tx
    \* WitcherTxCrashManager.run and WitcherTxCache
    pos,              \* position of the replay loop
    cpIdx,            \* crash_point_index
    cStack,           \* the cache's pmdk_tx_stack
    buffered,         \* the cache's store_list
    image,            \* the replay pm file: address -> store id
    validated,        \* crash points validated, with the image and position
    failed,           \* the final assert(crash_point_index == len(...)) failed
    \* WitcherTCEngine.run and TCCache
    tcPos,            \* position of the scan of the current run
    inPMDK,           \* in_PMDK_TX
    usePMDK,          \* use_PMDK_TX
    tcNest,           \* len(pmdk_tx_stack): nested pmemobj_tx_begin
    pmdkLogs,         \* pmdk_logs (covered addresses)
    tcStores,         \* the cache's stores (ids)
    tcMarked,         \* stores whose flushed attribute is 1
    res               \* CTRes

genVars    == <<g, gStack, rangeable, withoutLogging, storeList, byTx, points, inter>>
replayVars == <<pos, cpIdx, cStack, buffered, image, validated, failed>>
tcVars     == <<tcPos, inPMDK, usePMDK, tcNest, pmdkLogs, tcStores, tcMarked, res>>
vars == <<trace, phase, genVars, replayVars, tcVars>>

N == K + 2
Id(k) == k - 1      \* op ids are positions (IdsArePositions of WitcherTrace)

InnerOps ==
    [kind : {"begin", "end", "fence"}] \cup [kind : {"store"}, addr : Addrs]
    \cup [kind : {"txadd"}, addr : AddAddrs] \cup [kind : {"flush"}, line : Lines]

(***************************************************************************)
(* Traces: PMDK transactions nest at most MaxDepth deep and are closed     *)
(* before TXEnd; TX_ADD happens inside one (pmemobj_tx_add_range aborts    *)
(* outside); flushes and fences are outside (WitcherTxCache asserts it).  *)
(***************************************************************************)
Allowed(o, d) ==
    /\ o.kind = "begin" => d < MaxDepth
    /\ o.kind \in {"end", "txadd"} => d > 0
    /\ o.kind \in {"fence", "flush"} => d = 0

Delta(o) == CASE o.kind = "begin" -> 1 [] o.kind = "end" -> -1 [] OTHER -> 0

RECURSIVE Bodies(_, _)
Bodies(n, d) ==
    IF d > n THEN {}
    ELSE IF n = 0 THEN {<<>>}
    ELSE UNION {{<<o>> \o r : r \in Bodies(n - 1, d + Delta(o))} :
                    o \in {p \in InnerOps : Allowed(p, d)}}

Traces == {<<[kind |-> "txstart"]>> \o b \o <<[kind |-> "txend"]>> : b \in Bodies(K, 0)}

AddrOf(id) == trace[id + 1].addr

Point(kind, id) == [kind |-> kind, id |-> id]

\* violate_atomicity_belief or violate_ordering_belief.
Violates(p, v) ==
    \/ AddrOf(p) \in CriticalAddrs /\ AddrOf(v) \in CriticalAddrs
    \/ <<AddrOf(p), AddrOf(v)>> \in OrderViolations

\* The sets of CTRes.
ResKinds == {"unflushed", "extraFlushes", "extraFences", "unlogged", "extraLogs",
             "unTXed"}

Init ==
    /\ trace \in Traces
    /\ phase = "tc1"
    /\ g = 2 /\ gStack = 0
    /\ rangeable = {} /\ withoutLogging = <<>> /\ storeList = <<>>
    /\ byTx = <<>> /\ points = <<>> /\ inter = 1
    /\ pos = 1 /\ cpIdx = 0 /\ cStack = 0 /\ buffered = <<>>
    /\ image = [a \in Addrs |-> NoStore]
    /\ validated = <<>> /\ failed = FALSE
    /\ tcPos = 1 /\ inPMDK = FALSE /\ usePMDK = FALSE /\ tcNest = 0
    /\ pmdkLogs = {} /\ tcStores = {} /\ tcMarked = {}
    /\ res = [r \in ResKinds |-> {}]

(***************************************************************************)
(* generate_intra_tx, one operation per step.                              *)
(***************************************************************************)
Gen == trace[g]

GenTxBegin ==
    /\ Gen.kind = "begin"
    /\ gStack' = gStack + 1
    /\ rangeable' = {} /\ withoutLogging' = <<>> /\ storeList' = <<>>
    /\ UNCHANGED <<byTx, points>>

GenTxEnd ==
    /\ Gen.kind = "end"
    /\ gStack' = gStack - 1
    /\ points' = IF withoutLogging # <<>>
                 THEN Append(points, Point("NoLogging", Id(g))) ELSE points
    /\ byTx' = Append(byTx, [end |-> Id(g), stores |-> storeList])
    /\ UNCHANGED <<rangeable, withoutLogging, storeList>>

GenTxAdd ==
    /\ Gen.kind = "txadd"
    /\ rangeable' = rangeable \cup {Gen.addr}
    /\ UNCHANGED <<gStack, withoutLogging, storeList, byTx, points>>

\* Mutant of GenStore: every store inside a transaction counts as unlogged.
GenStoreNoRangeCheck ==
    /\ Gen.kind = "store"
    /\ IF gStack = 0
       THEN /\ points' = Append(points, Point("NoTx", Id(g)))
            /\ UNCHANGED <<withoutLogging, storeList>>
       ELSE /\ withoutLogging' = Append(withoutLogging, Id(g))
            /\ storeList' = Append(storeList, Id(g))
            /\ UNCHANGED points
    /\ UNCHANGED <<gStack, rangeable, byTx>>

GenStore ==
    /\ Gen.kind = "store"
    /\ IF gStack = 0
       THEN /\ points' = Append(points, Point("NoTx", Id(g)))
            /\ UNCHANGED <<withoutLogging, storeList>>
       ELSE /\ withoutLogging' = IF Gen.addr \in rangeable THEN withoutLogging
                                 ELSE Append(withoutLogging, Id(g))
            /\ storeList' = Append(storeList, Id(g))
            /\ UNCHANGED points
    /\ UNCHANGED <<gStack, rangeable, byTx>>

GenSkip ==
    /\ Gen.kind \in {"fence", "flush"}
    /\ UNCHANGED <<gStack, rangeable, withoutLogging, storeList, byTx, points>>

GenStep ==
    /\ phase = "gen" /\ g < N
    /\ g' = g + 1
    /\ GenTxBegin \/ GenTxEnd \/ GenTxAdd \/ GenStore \/ GenSkip
    /\ UNCHANGED <<trace, phase, inter, replayVars, tcVars>>

\* run_units: generate_inter_tx only for more than one PMDK transaction.
GenDone ==
    /\ phase = "gen" /\ g = N
    /\ phase' = IF Len(byTx) > 1 THEN "inter" ELSE "replay"
    /\ UNCHANGED <<trace, genVars, replayVars, tcVars>>

(***************************************************************************)
(* generate_inter_tx: for each PMDK transaction i, the first later j with  *)
(* a pair of stores breaking a belief gives one CrashPointInterTx, added   *)
(* in order by add_crash_point_in_order (append, then a stable sort by     *)
(* id).                                                                    *)
(***************************************************************************)
InsertById(s, c) ==
    InsertAt(s, Cardinality({i \in DOMAIN s : s[i].id <= c.id}) + 1, c)

\* list.sort(key = id): an insertion sort that keeps equal ids in order.
SortById(s) == FoldLeft(InsertById, <<>>, s)

\* Mutant of AddCrashPointInOrder: the sort is left out.
AddCrashPointAppendOnly(s, c) == Append(s, c)

AddCrashPointInOrder(s, c) == SortById(Append(s, c))

InterHit(i) ==
    \E j \in i + 1..Len(byTx) :
        \E p \in ToSet(byTx[i].stores), v \in ToSet(byTx[j].stores) : Violates(p, v)

InterStep ==
    /\ phase = "inter"
    /\ points' = IF InterHit(inter)
                 THEN AddCrashPointInOrder(points, Point("InterTx", byTx[inter].end + 1))
                 ELSE points
    /\ inter' = inter + 1
    /\ phase' = IF inter + 1 = Len(byTx) THEN "replay" ELSE "inter"
    /\ UNCHANGED <<trace, g, gStack, rangeable, withoutLogging, storeList, byTx,
                   replayVars, tcVars>>

(***************************************************************************)
(* WitcherTxCache.accept of the operation at position k.                   *)
(***************************************************************************)
\* Mutant of CacheStore: stores outside PMDK transactions persisted at once.
CacheStoreDirect(k) ==
    /\ image' = [image EXCEPT ![trace[k].addr] = Id(k)]
    /\ UNCHANGED <<cStack, buffered>>

\* accept_store: outside a PMDK transaction the store is buffered in
\* store_list, inside one it is written to the file directly.
CacheStore(k) ==
    IF cStack = 0
    THEN /\ buffered' = Append(buffered, Id(k))
         /\ UNCHANGED <<cStack, image>>
    ELSE /\ image' = [image EXCEPT ![trace[k].addr] = Id(k)]
         /\ UNCHANGED <<cStack, buffered>>

WriteStore(img, id) == [img EXCEPT ![AddrOf(id)] = id]

\* accept_fence: every store of store_list is written in order; the list is
\* then "cleared" by assigning self.stores_list, a different attribute, so
\* store_list keeps every store ever buffered.
CacheFence ==
    /\ image' = FoldLeft(WriteStore, image, buffered)
    /\ UNCHANGED <<cStack, buffered>>

CacheBegin == cStack' = cStack + 1 /\ UNCHANGED <<buffered, image>>

\* Mutant of CacheEnd: pmdk_tx_stack is not decremented at tx_end.
CacheEndNoPop == UNCHANGED <<cStack, buffered, image>>

CacheEnd   == cStack' = cStack - 1 /\ UNCHANGED <<buffered, image>>

\* TX_ADD (the trace handler's replay), TXStart and TXEnd.
CacheSkip == UNCHANGED <<cStack, buffered, image>>

Accept(k) ==
    CASE trace[k].kind = "store" -> CacheStore(k)
      [] trace[k].kind = "fence" -> CacheFence
      [] trace[k].kind = "begin" -> CacheBegin
      [] trace[k].kind = "end"   -> CacheEnd
      [] OTHER                   -> CacheSkip

(***************************************************************************)
(* WitcherTxCrashManager.run: an empty list returns at once; otherwise one *)
(* loop iteration per operation: crash and validate when the op's id is    *)
(* the current crash point's, break after the last, then accept the op.   *)
(***************************************************************************)
ReplayEmpty ==
    /\ phase = "replay" /\ pos = 1 /\ cpIdx = 0 /\ points = <<>>
    /\ phase' = "done"
    /\ UNCHANGED <<trace, genVars, replayVars, tcVars>>

Current == points[cpIdx + 1]

ReplayCrash ==
    /\ phase = "replay" /\ points # <<>> /\ pos <= N
    /\ Current.id = Id(pos)
    /\ validated' = Append(validated, [point |-> Current, pos |-> pos, image |-> image])
    /\ cpIdx' = cpIdx + 1
    /\ IF cpIdx + 1 = Len(points)
       THEN phase' = "done" /\ UNCHANGED <<pos, cStack, buffered, image>>
       ELSE phase' = phase /\ pos' = pos + 1 /\ Accept(pos)
    /\ UNCHANGED <<trace, genVars, failed, tcVars>>

ReplayAccept ==
    /\ phase = "replay" /\ points # <<>> /\ pos <= N
    /\ Current.id # Id(pos)
    /\ pos' = pos + 1
    /\ Accept(pos)
    /\ UNCHANGED <<trace, phase, genVars, cpIdx, validated, failed, tcVars>>

\* The loop ran out of operations: assert(crash_point_index == len(...)).
ReplayEnd ==
    /\ phase = "replay" /\ points # <<>> /\ pos = N + 1
    /\ phase' = "done"
    /\ failed' = (cpIdx # Len(points))
    /\ UNCHANGED <<trace, genVars, pos, cpIdx, cStack, buffered, image, validated,
                   tcVars>>

(***************************************************************************)
(* WitcherTCEngine.run (src/replay/engines/witchertc/witchertcengine.py),  *)
(* the trace checker, over the same trace.  It scans ops[start:end] of the *)
(* Witcher transaction (TXStart included, TXEnd left out) twice.  A PMDK   *)
(* call reaches it as a 'start' and an 'end' entry with nothing between    *)
(* them (the library's own writes are left out), so pmdk_call_stack is     *)
(* empty at every store and one step takes both entries.  A TX_ADD range   *)
(* and a store are one address, so range_cmp(op, log) == 0 is equality.   *)
(***************************************************************************)
TcOp == trace[tcPos]
TcId == Id(tcPos)

Report(kind, id) == res' = [res EXCEPT ![kind] = @ \cup {id}]

\* The cached stores in the cacheline of a flush (flush.is_in_flush).
InLine(l) == {s \in tcStores : LineOf[AddrOf(s)] = l}

\* pmemobj_tx_begin, on its 'end' entry: the outermost one opens the PMDK
\* transaction, a nested one is pushed on pmdk_tx_stack.
TcBegin ==
    /\ TcOp.kind = "begin"
    /\ IF inPMDK THEN tcNest' = tcNest + 1 /\ UNCHANGED <<inPMDK, usePMDK>>
                 ELSE inPMDK' = TRUE /\ usePMDK' = TRUE /\ UNCHANGED tcNest
    /\ UNCHANGED <<pmdkLogs, tcStores, tcMarked, res>>

\* Mutant of TcEnd: pmdk_logs is not cleared when the outermost one ends.
TcEndKeepLogs ==
    /\ TcOp.kind = "end"
    /\ IF tcNest > 0 THEN tcNest' = tcNest - 1 /\ UNCHANGED inPMDK
                     ELSE inPMDK' = FALSE /\ UNCHANGED tcNest
    /\ UNCHANGED <<usePMDK, pmdkLogs, tcStores, tcMarked, res>>

\* pmemobj_tx_end, on its 'start' entry: pop a nested one, or close the
\* PMDK transaction and clear pmdk_logs.
TcEnd ==
    /\ TcOp.kind = "end"
    /\ IF tcNest > 0 THEN tcNest' = tcNest - 1 /\ UNCHANGED <<inPMDK, pmdkLogs>>
                     ELSE inPMDK' = FALSE /\ pmdkLogs' = {} /\ UNCHANGED tcNest
    /\ UNCHANGED <<usePMDK, tcStores, tcMarked, res>>

\* PMDKTXAdd / PMDKTXAlloc: a range overlapping an earlier log of the same
\* PMDK transaction is an extra log; the range is logged.
TcTxAdd ==
    /\ TcOp.kind = "txadd"
    /\ IF TcOp.addr \in pmdkLogs THEN Report("extraLogs", TcId) ELSE UNCHANGED res
    /\ pmdkLogs' = pmdkLogs \cup {TcOp.addr}
    /\ UNCHANGED <<inPMDK, usePMDK, tcNest, tcStores, tcMarked>>

\* Store: cached; inside a PMDK transaction and outside any PMDK call, a
\* store no log covers is unlogged.
TcStore ==
    /\ TcOp.kind = "store"
    /\ tcStores' = tcStores \cup {TcId}
    /\ IF inPMDK /\ TcOp.addr \notin pmdkLogs THEN Report("unlogged", TcId)
                                              ELSE UNCHANGED res
    /\ UNCHANGED <<inPMDK, usePMDK, tcNest, pmdkLogs, tcMarked>>

\* Flush: extra when no cached store of its line is still unflushed
\* (is_extra_flush); then every cached store of the line is marked.
TcFlush ==
    /\ TcOp.kind = "flush"
    /\ IF InLine(TcOp.line) \subseteq tcMarked THEN Report("extraFlushes", TcId)
                                              ELSE UNCHANGED res
    /\ tcMarked' = tcMarked \cup InLine(TcOp.line)
    /\ UNCHANGED <<inPMDK, usePMDK, tcNest, pmdkLogs, tcStores>>

\* Mutant of TcFence: accept_fence drops every cached store.
TcFenceDropAll ==
    /\ TcOp.kind = "fence"
    /\ IF tcStores \cap tcMarked = {} THEN Report("extraFences", TcId)
                                      ELSE UNCHANGED res
    /\ tcStores' = {}
    /\ UNCHANGED <<inPMDK, usePMDK, tcNest, pmdkLogs, tcMarked>>

\* Fence: extra when no cached store is flushed (is_extra_fence); then the
\* flushed stores leave the cache (accept_fence).
TcFence ==
    /\ TcOp.kind = "fence"
    /\ IF tcStores \cap tcMarked = {} THEN Report("extraFences", TcId)
                                      ELSE UNCHANGED res
    /\ tcStores' = tcStores \ tcMarked
    /\ UNCHANGED <<inPMDK, usePMDK, tcNest, pmdkLogs, tcMarked>>

\* TXStart: in_Witcher_TX is set and never read.
TcTxStart == TcOp.kind = "txstart" /\ UNCHANGED <<inPMDK, usePMDK, tcNest, pmdkLogs,
                                                 tcStores, tcMarked, res>>

\* The first run, one operation per step.
TcStep1 ==
    /\ phase = "tc1" /\ tcPos < N
    /\ tcPos' = tcPos + 1
    /\ TcBegin \/ TcEnd \/ TcTxAdd \/ TcStore \/ TcFlush \/ TcFence \/ TcTxStart
    /\ UNCHANGED <<trace, phase, genVars, replayVars>>

\* After the first run every cached store is unflushed; without a PMDK
\* transaction the engine returns, otherwise the second run starts.
TcEndFirstRun ==
    /\ phase = "tc1" /\ tcPos = N
    /\ res' = [res EXCEPT !["unflushed"] = tcStores]
    /\ IF usePMDK THEN phase' = "tc2" /\ tcPos' = 1 ELSE phase' = "gen" /\ UNCHANGED tcPos
    /\ UNCHANGED <<trace, genVars, replayVars, inPMDK, usePMDK, tcNest, pmdkLogs,
                   tcStores, tcMarked>>

\* The second run: a store outside every PMDK transaction and call is
\* unTXed; pmemobj_tx_begin and pmemobj_tx_end are tracked as before.
TcStep2 ==
    /\ phase = "tc2" /\ tcPos < N
    /\ tcPos' = tcPos + 1
    /\ CASE TcOp.kind = "begin" ->
              IF inPMDK THEN tcNest' = tcNest + 1 /\ UNCHANGED <<inPMDK, res>>
                        ELSE inPMDK' = TRUE /\ UNCHANGED <<tcNest, res>>
         [] TcOp.kind = "end" ->
              IF tcNest > 0 THEN tcNest' = tcNest - 1 /\ UNCHANGED <<inPMDK, res>>
                            ELSE inPMDK' = FALSE /\ UNCHANGED <<tcNest, res>>
         [] TcOp.kind = "store" ->
              /\ IF inPMDK THEN UNCHANGED res ELSE Report("unTXed", TcId)
              /\ UNCHANGED <<inPMDK, tcNest>>
         [] OTHER -> UNCHANGED <<inPMDK, tcNest, res>>
    /\ UNCHANGED <<trace, phase, genVars, replayVars, usePMDK, pmdkLogs, tcStores,
                   tcMarked>>

TcEndSecondRun ==
    /\ phase = "tc2" /\ tcPos = N
    /\ phase' = "gen"
    /\ UNCHANGED <<trace, genVars, replayVars, tcVars>>

Done == phase = "done" /\ UNCHANGED vars

Next ==
    \/ TcStep1 \/ TcEndFirstRun \/ TcStep2 \/ TcEndSecondRun
    \/ GenStep \/ GenDone \/ InterStep
    \/ ReplayEmpty \/ ReplayCrash \/ ReplayAccept \/ ReplayEnd
    \/ Done

Spec == Init /\ [][Next]_vars

(***************************************************************************)
(* Properties                                                              *)
(***************************************************************************)
Kinds == {"NoTx", "NoLogging", "InterTx"}

TypeOK ==
    /\ phase \in {"tc1", "tc2", "gen", "inter", "replay", "done"}
    /\ g \in 2..N /\ pos \in 1..N + 1
    /\ gStack \in 0..MaxDepth /\ cStack \in 0..MaxDepth
    /\ points \in Seq([kind : Kinds, id : 0..N])
    /\ cpIdx \in 0..Len(points)
    /\ image \in [Addrs -> {NoStore} \cup 0..N - 1]
    /\ failed \in BOOLEAN
    /\ tcPos \in 1..N /\ tcNest \in 0..MaxDepth
    /\ inPMDK \in BOOLEAN /\ usePMDK \in BOOLEAN
    /\ pmdkLogs \subseteq AddAddrs /\ tcStores \subseteq 0..N - 1 /\ tcMarked \subseteq 0..N - 1
    /\ res \in [ResKinds -> SUBSET (0..N - 1)]

Generated == phase \in {"replay", "done"}

\* PMDK nesting depth before position k.
Depth(k) == Cardinality({i \in 2..k - 1 : trace[i].kind = "begin"})
            - Cardinality({i \in 2..k - 1 : trace[i].kind = "end"})

IsStore(k) == trace[k].kind = "store"

\* The outermost PMDK transactions, as <<begin, end>> positions.
TopTx ==
    {<<b, e>> \in (2..N - 1) \X (2..N - 1) :
        /\ trace[b].kind = "begin" /\ Depth(b) = 0
        /\ trace[e].kind = "end" /\ Depth(e) = 1 /\ b < e
        /\ \A i \in b + 1..e - 1 : Depth(i) > 0}

StoresOf(tx) == {k \in tx[1] + 1..tx[2] - 1 : IsStore(k)}

\* A TX_ADD of the same transaction, before the store, covers it.
Logged(k, tx) ==
    \E i \in tx[1] + 1..k - 1 : trace[i].kind = "txadd" /\ trace[i].addr = trace[k].addr

RefPoints ==
    {Point("NoTx", Id(k)) : k \in {i \in 2..N - 1 : IsStore(i) /\ Depth(i) = 0}}
    \cup {Point("NoLogging", Id(tx[2])) :
            tx \in {t \in TopTx : \E k \in StoresOf(t) : ~Logged(k, t)}}
    \cup {Point("InterTx", Id(tx[2]) + 1) :
            tx \in {t \in TopTx :
                \E u \in TopTx : u[1] > t[2] /\
                    \E p \in StoresOf(t), v \in StoresOf(u) : Violates(Id(p), Id(v))}}

\* The crash points are exactly those the engine is meant to test: every
\* store outside a PMDK transaction, the tx_end of every PMDK transaction
\* with a store its undo log does not cover, and the point after every
\* PMDK transaction whose stores break a belief with a later one's.
CrashPointsMatchReference == Generated => ToSet(points) = RefPoints

\* WitcherTxCrashManager.run walks the trace once and can only meet crash
\* points in id order: the generated list (intra-transaction points in scan
\* order, inter-transaction points sorted in) never goes back in id.
CrashPointsInIdOrder ==
    Generated => \A i \in 1..Len(points) - 1 : points[i].id <= points[i + 1].id

\* Every crash image holds, at each address, nothing or a store replayed
\* before the crash, and a store made outside a PMDK transaction only once
\* a fence has followed it: the image never runs ahead of the trace.
CrashImageDurable ==
    \A r \in ToSet(validated) : \A a \in Addrs :
        LET k == r.image[a] + 1
        IN  r.image[a] # NoStore =>
                /\ k < r.pos /\ IsStore(k) /\ trace[k].addr = a
                /\ Depth(k) = 0 => \E f \in k + 1..r.pos - 1 : trace[f].kind = "fence"

\* The manager's final assertion: the replay validates every crash point.
ReplayValidatesEveryCrashPoint == phase = "done" => ~failed

\* The last store to address a before position k.
Newest(a, k) ==
    LET ws == {i \in 2..k - 1 : IsStore(i) /\ trace[i].addr = a}
    IN  IF ws = {} THEN NoStore ELSE Id(CHOOSE i \in ws : \A j \in ws : j <= i)

\* WitcherTxCache: after a fence every store so far is durable, so the file
\* holds the newest store of every address.
FenceImageHoldsNewest ==
    (phase = "replay" /\ pos > 1 /\ trace[pos - 1].kind = "fence") =>
        \A a \in Addrs : image[a] = Newest(a, pos)

(***************************************************************************)
(* The trace checker against a reference over the trace                    *)
(***************************************************************************)
\* The positions the first run scans (ops[start:end]).
Scanned == 1..N - 1
StorePos == {k \in Scanned : IsStore(k)}
LineAt(k) == LineOf[trace[k].addr]
IsFlushOf(f, l) == trace[f].kind = "flush" /\ trace[f].line = l

\* Store s has been flushed before position k / flushed and then fenced.
FlushedBefore(s, k) == \E f \in s + 1..k - 1 : IsFlushOf(f, LineAt(s))
FencedBefore(s, k) ==
    \E f \in s + 1..k - 1 : IsFlushOf(f, LineAt(s)) /\
        \E e \in f + 1..k - 1 : trace[e].kind = "fence"

\* The PMDK transaction around position k.
TxAround(k) == {t \in TopTx : t[1] < k /\ k < t[2]}

TcChecked == phase \notin {"tc1", "tc2"}

\* What the trace checker reports, stated over the trace: a store is
\* unflushed unless a flush of its line and then a fence follow it; a flush
\* is extra when every earlier store of its line was already flushed; a
\* fence is extra when no earlier store is flushed and not yet fenced; a
\* TX_ADD is extra when the same PMDK transaction logged its range before.
\* TCCache keeps the flushed mark on the store, drops only fenced stores
\* and keeps the rest across fences, which is what this has to match.
TcReportsMatchReference ==
    TcChecked =>
      /\ res["unflushed"] = {Id(s) : s \in {k \in StorePos : ~FencedBefore(k, N)}}
      /\ res["extraFlushes"] =
            {Id(f) : f \in {k \in Scanned :
                trace[k].kind = "flush" /\
                \A s \in StorePos : s < k /\ LineAt(s) = trace[k].line =>
                                    FlushedBefore(s, k)}}
      /\ res["extraFences"] =
            {Id(e) : e \in {k \in Scanned :
                trace[k].kind = "fence" /\
                \A s \in StorePos : s < k /\ FlushedBefore(s, k) => FencedBefore(s, k)}}
      /\ res["extraLogs"] =
            {Id(k) : k \in {i \in Scanned :
                trace[i].kind = "txadd" /\
                \E t \in TxAround(i) : \E j \in t[1] + 1..i - 1 :
                    trace[j].kind = "txadd" /\ trace[j].addr = trace[i].addr}}

\* The trace checker and the crash-point generator read the same trace and
\* must agree: a PMDK transaction gets a CrashPointNoLogging exactly when
\* the checker finds one of its stores unlogged, and, once the trace uses
\* PMDK transactions at all (the checker's second run), a store gets a
\* CrashPointNoTx exactly when the checker reports it unTXed.
TcAgreesWithGenerator ==
    phase = "done" =>
      /\ {p.id : p \in {q \in ToSet(points) : q.kind = "NoLogging"}} =
            {Id(t[2]) : t \in {u \in TopTx : \E k \in StoresOf(u) : Id(k) \in res["unlogged"]}}
      /\ usePMDK =>
            {p.id : p \in {q \in ToSet(points) : q.kind = "NoTx"}} = res["unTXed"]
====
