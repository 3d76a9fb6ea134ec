---------------------------- MODULE WitcherBeliefs ----------------------------
(***************************************************************************)
(* Belief inference and crash-candidate generation                          *)
(* (WitcherBeliefDatabase in src/replay/engines/witcher/                  *)
(* witcherbeliefdatabase.py; CrashCandidates in witchercrashmanager.py).   *)
(*                                                                         *)
(* A dependence graph (WitcherGraph, a networkx DiGraph: at most one edge  *)
(* per ordered node pair, typed data or ctrl) is chosen in Init.  Each     *)
(* node is a Store or a Load and resolves, through PMObjectList.find, to a *)
(* PM object (modelled in PMObjectList); a node of size 0 resolves to      *)
(* nothing.  The edges are analysed one at a time in the graph's order     *)
(* (a fixed order here: lexicographic), adding beliefs (hb-src object,     *)
(* hb-tgt object) and critical objects.  The belief graph's frequency      *)
(* counter, only printed, is left out: beliefs are a set of object pairs.  *)
(*                                                                         *)
(* Candidate generation is a pure operator over a transaction's stores,   *)
(* given the object every store resolves to (NoObj when find gives up).    *)
(***************************************************************************)
EXTENDS Naturals, Sequences, SequencesExt, FiniteSets, Relation

CONSTANTS
    Nodes,      \* node ids of the dependence graph
    Objs,       \* PM object ids
    NoObj,      \* the resolution of a node of size 0 / a store find gives up on
    TxStores    \* number of stores of the transaction the generator is applied to

ASSUME NoObj \notin Objs

VARIABLES
    ntype,      \* graph.nodes[n]["type"]
    nobj,       \* the PM object find resolves node n to (NoObj: size 0)
    etype,      \* graph[src][tgt]["type"], "none" when there is no edge
    todo,       \* edges of graph.edges not yet analysed
    beliefs,    \* belief_set / belief_graph edges: <<hb_src, hb_tgt>> object ids
    critical    \* critical_read_set

vars == <<ntype, nobj, etype, todo, beliefs, critical>>

Pairs == {e \in Nodes \X Nodes : e[1] # e[2]}
Edges == {e \in Pairs : etype[e] # "none"}

Init ==
    /\ ntype \in [Nodes -> {"Store", "Load"}]
    /\ nobj  \in [Nodes -> Objs \cup {NoObj}]
    /\ etype \in [Pairs -> {"none", "data", "ctrl"}]
    /\ todo = Edges
    /\ beliefs = {}
    /\ critical = {}

(***************************************************************************)
(* get_ctrl_succesors: breadth-first walk from src over predecessor edges  *)
(* (of either type); every predecessor is marked processed when first      *)
(* seen, a Store is not walked past, and a Load is queued and, unless its   *)
(* size is 0, its object collected.                                        *)
(***************************************************************************)
Preds(n) == {p \in Nodes : <<p, n>> \in Edges}

RECURSIVE Bfs(_, _, _)

\* Mutant of Bfs: Store predecessors are walked past as well.
BfsThroughStores(queue, processed, found) ==
    IF queue = <<>> THEN found
    ELSE LET new == Preds(Head(queue)) \ processed
             walk == new
         IN  Bfs(Tail(queue) \o SetToSeq(walk), processed \cup new,
                 found \cup {nobj[p] : p \in {q \in walk : ntype[q] = "Load"
                                                        /\ nobj[q] # NoObj}})

Bfs(queue, processed, found) ==
    IF queue = <<>> THEN found
    ELSE LET new  == Preds(Head(queue)) \ processed
             walk == {p \in new : ntype[p] = "Load"}
         IN  Bfs(Tail(queue) \o SetToSeq(walk), processed \cup new,
                 found \cup {nobj[p] : p \in {q \in walk : nobj[q] # NoObj}})

GetCtrlSuccesors(src) == Bfs(<<src>>, {}, {})

(***************************************************************************)
(* init_belief_and_critical_read_set_from_edge with analyze_data_edge and  *)
(* analyze_ctrl_edge: an edge with a size-0 end is skipped; Store -> Load  *)
(* (data or ctrl) gives the belief (load, store) and makes the load        *)
(* critical; ctrl Load -> Load gives (src, tgt), makes tgt critical, and   *)
(* gives (p, tgt) for every object p get_ctrl_succesors(src) collects.     *)
(***************************************************************************)
StoreToLoad(e) == ntype[e[1]] = "Store" /\ ntype[e[2]] = "Load"
CtrlLoadToLoad(e) ==
    etype[e] = "ctrl" /\ ntype[e[1]] = "Load" /\ ntype[e[2]] = "Load"

\* Mutant of Sized: the size-0 early returns dropped.
SizedAlways(e) == TRUE

\* Neither end of the edge has size 0.
Sized(e) == nobj[e[1]] # NoObj /\ nobj[e[2]] # NoObj

\* The first edge of todo in the graph's iteration order.
NextEdge == CHOOSE e \in todo : \A f \in todo :
                e[1] < f[1] \/ (e[1] = f[1] /\ e[2] <= f[2])

AnalyzeEdge ==
    /\ todo # {}
    /\ LET e == NextEdge
           s == nobj[e[1]]
           t == nobj[e[2]]
       IN  /\ todo' = todo \ {e}
           /\ IF ~Sized(e)
              THEN UNCHANGED <<beliefs, critical>>
              ELSE CASE StoreToLoad(e) ->
                          /\ beliefs'  = beliefs \cup {<<t, s>>}
                          /\ critical' = critical \cup {t}
                     [] CtrlLoadToLoad(e) ->
                          /\ beliefs'  = beliefs \cup {<<s, t>>}
                                         \cup {<<p, t>> : p \in GetCtrlSuccesors(e[1])}
                          /\ critical' = critical \cup {t}
                     [] OTHER -> UNCHANGED <<beliefs, critical>>
    /\ UNCHANGED <<ntype, nobj, etype>>

Next == AnalyzeEdge

Spec == Init /\ [][Next]_vars

(***************************************************************************)
(* The queries, for a store resolving to object o (NoObj: find gave up,    *)
(* and the query answers FALSE).                                           *)
(***************************************************************************)
IsCriticalStore(o) == o # NoObj /\ o \in critical

ViolateOrderingBelief(po, vo) ==
    po # NoObj /\ vo # NoObj /\ <<vo, po>> \in beliefs

(***************************************************************************)
(* get_crash_candidates_from_tx over stores 1..Len(so) in program order,   *)
(* so[i] the object store i resolves to: succ ascending, pre ascending     *)
(* below it; an atomicity violation (both critical) emits both directions  *)
(* and skips the ordering checks; otherwise each direction violating an    *)
(* ordering belief is emitted.  More than StoreLimit stores: no candidates.*)
(***************************************************************************)
StoreLimit == 100000

Cand(p, v) == [p |-> p, v |-> v]

\* Mutant of PairCandidates: an atomicity violation emits only (pre, succ).
PairCandidatesOneWay(so, i, j) ==
    IF IsCriticalStore(so[i]) /\ IsCriticalStore(so[j])
    THEN <<Cand(i, j)>>
    ELSE (IF ViolateOrderingBelief(so[i], so[j]) THEN <<Cand(i, j)>> ELSE <<>>)
         \o (IF ViolateOrderingBelief(so[j], so[i]) THEN <<Cand(j, i)>> ELSE <<>>)

PairCandidates(so, i, j) ==
    IF IsCriticalStore(so[i]) /\ IsCriticalStore(so[j])
    THEN <<Cand(i, j), Cand(j, i)>>
    ELSE (IF ViolateOrderingBelief(so[i], so[j]) THEN <<Cand(i, j)>> ELSE <<>>)
         \o (IF ViolateOrderingBelief(so[j], so[i]) THEN <<Cand(j, i)>> ELSE <<>>)

\* Mutant of CandidatesFromTx: the loops nested the other way round.
CandidatesPreOuter(so) ==
    IF Len(so) > StoreLimit THEN <<>>
    ELSE FlattenSeq([i \in 1..Len(so) |->
             FlattenSeq([k \in 1..Len(so) - i |-> PairCandidates(so, i, i + k)])])

CandidatesFromTx(so) ==
    IF Len(so) > StoreLimit THEN <<>>
    ELSE FlattenSeq([j \in 1..Len(so) |->
             FlattenSeq([i \in 1..j - 1 |-> PairCandidates(so, i, j)])])

(***************************************************************************)
(* Properties, over the finished belief database                           *)
(***************************************************************************)
TypeOK ==
    /\ todo \subseteq Edges
    /\ beliefs \subseteq Objs \X Objs
    /\ critical \subseteq Objs

Done == todo = {}

\* Loads reach Load l through Load-to-Load edges only.
LoadEdge == [x, y \in Nodes |->
                <<x, y>> \in Edges /\ ntype[x] = "Load" /\ ntype[y] = "Load"]
LoadAncestors(l) == {p \in Nodes : TransitiveClosure(LoadEdge, Nodes)[p, l]}

RefSized(e) == nobj[e[1]] # NoObj /\ nobj[e[2]] # NoObj

\* The beliefs of the spec (4.2), stated as a closure instead of a walk.
RefBeliefs ==
    {<<nobj[e[2]], nobj[e[1]]>> : e \in {f \in Edges : RefSized(f) /\ StoreToLoad(f)}}
    \cup {<<nobj[e[1]], nobj[e[2]]>> : e \in {f \in Edges : RefSized(f) /\ CtrlLoadToLoad(f)}}
    \cup {<<nobj[p], nobj[e[2]]>> :
            <<e, p>> \in {<<f, q>> \in Edges \X Nodes :
                            /\ RefSized(f) /\ CtrlLoadToLoad(f)
                            /\ q \in LoadAncestors(f[1]) /\ nobj[q] # NoObj}}

RefCritical ==
    {nobj[e[2]] : e \in {f \in Edges : RefSized(f) /\ (StoreToLoad(f) \/ CtrlLoadToLoad(f))}}

\* Once every edge is analysed, the beliefs and critical reads are exactly
\* those of the spec: the breadth-first walk of get_ctrl_succesors, with
\* its processed set and its stop at Stores, collects exactly the Loads
\* that reach the source load through Loads.
BeliefsMatchReference ==
    Done => beliefs = RefBeliefs /\ critical = RefCritical

\* The stores of a transaction may resolve to any objects.
Resolutions == [1..TxStores -> Objs \cup {NoObj}]

\* The order verify_crash_candidates relies on: the generated list is
\* strictly increasing by (max id, min id, pre first), so it has no
\* duplicate and is sorted by max(pre.id, volatile.id), as the crash
\* manager's early return assumes (the list WitcherCrashManager starts from).
CandidatesInVerifyOrder ==
    Done => \A so \in Resolutions :
        LET g == CandidatesFromTx(so)
            mx(c) == IF c.p > c.v THEN c.p ELSE c.v
            mn(c) == IF c.p < c.v THEN c.p ELSE c.v
        IN  IsSorted(g, LAMBDA c, d :
                \/ mx(c) < mx(d)
                \/ mx(c) = mx(d) /\ mn(c) < mn(d)
                \/ mx(c) = mx(d) /\ mn(c) = mn(d) /\ c.p < c.v /\ d.p > d.v)

\* The candidates are exactly the pairs the spec (4.3) names: both stores
\* critical, or persisting the first while the second is volatile breaks
\* a belief.
CandidatesMatchSpec ==
    Done => \A so \in Resolutions :
        ToSet(CandidatesFromTx(so)) =
            {c \in {Cand(p, v) : p, v \in 1..TxStores} :
                /\ c.p # c.v
                /\ \/ IsCriticalStore(so[c.p]) /\ IsCriticalStore(so[c.v])
                   \/ ViolateOrderingBelief(so[c.p], so[c.v])}
=============================================================================
