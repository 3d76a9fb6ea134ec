----------------------------- MODULE MCWitcherFull -----------------------------
EXTENDS WitcherFull

CONSTANTS a1, a2, a3, l1, l2

\* Two words share cacheline l1, a third is alone in l2.
MCAddrs == {a1, a2, a3}
MCLines == {l1, l2}
MCLineOf == (a1 :> l1) @@ (a2 :> l1) @@ (a3 :> l2)
MCLineOrder == <<l1, l2>>

(***************************************************************************)
(* The three counting engines over one trace: the full engine's scan, Yat  *)
(* and PMReorder all start at the first TXStart and take one operation per *)
(* step, so they run in lock step.  cleanStarts records, at every TXStart, *)
(* whether Yat's cache is empty there.                                     *)
(***************************************************************************)
VARIABLES yaLines, yaMarked, yaCount, yaList,
          pmStores, pmMarked, pmCount, pmList,
          cleanStarts

Y == INSTANCE YatEngine
P == INSTANCE PMReorderEngine

countVars == <<yaLines, yaMarked, yaCount, yaList,
              pmStores, pmMarked, pmCount, pmList, cleanStarts>>
mcVars == <<vars, countVars>>

MCInit == Init /\ Y!Init /\ P!Init /\ cleanStarts = <<>>

CountStep ==
    /\ EngStep /\ Y!Step(Op, pc) /\ P!Step(Op, pc)
    /\ cleanStarts' = IF Op.kind = "txstart" THEN Append(cleanStarts, Y!IsEmpty)
                      ELSE cleanStarts

MCNext ==
    \/ CountStep
    \/ /\ \/ ChoosePlan \/ NoWork
          \/ WStep(WStore) \/ WStep(WFlush) \/ WStep(WTxStart) \/ WStep(WTxEnd)
          \/ WStep(WFenceBefore) \/ WFenceTry \/ Done
       /\ UNCHANGED countVars

MCSpec == MCInit /\ [][MCNext]_mcVars

\* Yat's count of every transaction is at least the full engine's, and the
\* same when Yat's cache is empty at its TXStart: the two engines are one
\* counting machine, except that YatEngine.run never empties its cache at a
\* transaction boundary and so counts the stores left over from before.
YatCountsFullAfterCleanStart ==
    \A k \in 1..Len(yaList) :
        k <= Len(countList) =>
            /\ yaList[k] >= countList[k]
            /\ cleanStarts[k] => yaList[k] = countList[k]

\* At every fence PMReorderPermutator.run adds the number of orders in which
\* some of the stores flushed since the last fence can reach memory: the
\* sequences of distinct such stores, of any length.
PMReorderCountsFlushOrders ==
    [][phase = "count" /\ pc <= N /\ Op.kind = "fence" =>
        LET F == {pmStores[k].id : k \in P!StoresToFlush}
        IN  pmCount' - pmCount =
                Cardinality({s \in SeqOf(F, Cardinality(F)) : IsInjective(s)})]_mcVars
====
