-------------------------- MODULE MCWitcherBeliefs --------------------------
(***************************************************************************)
(* The belief database, one part per behaviour: the PM-object list that    *)
(* WitcherBeliefDatabase.__init__ builds first (PMObjectList) over any     *)
(* insertions, and the belief analysis of the dependence graph            *)
(* (WitcherBeliefs) over any graph.  The analysis reaches the list only    *)
(* through find, which WitcherBeliefs abstracts to any resolution of a     *)
(* node, so the two are checked side by side.                              *)
(***************************************************************************)
EXTENDS WitcherBeliefs, TLC

CONSTANTS o1, o2

MCObjs == {o1, o2}

\* The PM objects are interchangeable: beliefs, critical reads and
\* candidates only compare object ids for equality.
ObjSymmetry == Permutations(MCObjs)

VARIABLES mode, plList, plInserted

plVars == <<plList, plInserted>>

\* Ranges within 10 addresses, of sizes up to 3, five insertions.
PL == INSTANCE PMObjectList WITH list <- plList, inserted <- plInserted,
          MaxAddr <- 10, MaxSize <- 3, MaxInserts <- 5

\* While the list is checked, the analysis rests in one initial state: two
\* stores of size 0 joined by one data edge, not yet analysed.
AnalysisAtRest ==
    /\ ntype = [n \in Nodes |-> "Store"]
    /\ nobj = [n \in Nodes |-> NoObj]
    /\ etype = [e \in Pairs |-> IF e = <<1, 2>> THEN "data" ELSE "none"]

MCInit ==
    /\ mode \in {"list", "beliefs"}
    /\ Init
    /\ mode = "list" => AnalysisAtRest
    /\ PL!Init

MCNext ==
    \/ mode = "list" /\ PL!Next /\ UNCHANGED <<mode, vars>>
    \/ mode = "beliefs" /\ Next /\ UNCHANGED <<mode, plVars>>

MCSpec == MCInit /\ [][MCNext]_<<mode, vars, plVars>>

\* The type invariant of both parts.
BeliefDbTypeOK == TypeOK /\ PL!TypeOK

\* PMObjectList.insert keeps the list sorted by address with no two objects
\* overlapping (PMObjectList!SortedAndDisjoint).
SortedAndDisjoint == PL!SortedAndDisjoint

\* insert and try_merge neither lose nor invent bytes
\* (PMObjectList!CoversExactlyInserted).
CoversExactlyInserted == PL!CoversExactlyInserted

\* find resolves every sub-range of an inserted range to an object covering
\* it (PMObjectList!FindResolvesInsertedRanges).
FindResolvesInsertedRanges == PL!FindResolvesInsertedRanges
=============================================================================
