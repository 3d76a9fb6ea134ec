--------------------------- MODULE PMReorderEngine ---------------------------
(***************************************************************************)
(* The PMReorder counting engine (PMReorderEngine.run in                   *)
(* src/replay/engines/pmreorder/pmreorderengine.py), witcher.py's          *)
(* default_engine "PMReorder".  Its loop is Yat's; its cache is one list   *)
(* of stores with no cachelines: a flush marks every store it covers, and  *)
(* at a fence PMReorderPermutator.run counts the orders in which any       *)
(* number of the marked stores can reach memory, before the marked stores  *)
(* are dropped.  Driven, like YatEngine, by a composing module.            *)
(***************************************************************************)
EXTENDS Integers, Sequences, SequencesExt, FiniteSets

CONSTANTS LineOf

VARIABLES
    pmStores,   \* PMReorderCache.stores_list, as [id, addr] records
    pmMarked,   \* ids of the stores whose flushed field is 1
    pmCount,    \* permutation_count
    pmList      \* permutation_count_list

pmVars == <<pmStores, pmMarked, pmCount, pmList>>

Init ==
    /\ pmStores = <<>> /\ pmMarked = {}
    /\ pmCount = 0 /\ pmList = <<>>

(***************************************************************************)
(* pmreorder_permutation_count(length): the sum over i in 0..length of     *)
(* length * (length - 1) * ... * (length - i + 1), the while loop over j   *)
(* as Falling.                                                             *)
(***************************************************************************)
RECURSIVE Falling(_, _)
Falling(length, i) == IF i = 0 THEN 1 ELSE (length - i + 1) * Falling(length, i - 1)

RECURSIVE SumFalling(_, _)
SumFalling(length, i) == IF i < 0 THEN 0 ELSE Falling(length, i) + SumFalling(length, i - 1)

\* Mutant of PermutationCount: range(0, length), the full-length orders
\* left out.
PermutationCountShort(length) == SumFalling(length, length - 1)

PermutationCount(length) == SumFalling(length, length)

\* get_stores_to_flush: the stores of the list whose flushed field is 1.
StoresToFlush == {k \in DOMAIN pmStores : pmStores[k].id \in pmMarked}

TxStart(op) ==
    /\ op.kind = "txstart"
    /\ pmCount' = 0
    /\ UNCHANGED <<pmStores, pmMarked, pmList>>

TxEnd(op) ==
    /\ op.kind = "txend"
    /\ pmList' = Append(pmList, pmCount)
    /\ UNCHANGED <<pmStores, pmMarked, pmCount>>

AcceptStore(op, id) ==
    /\ op.kind = "store"
    /\ pmStores' = Append(pmStores, [id |-> id, addr |-> op.addr])
    /\ UNCHANGED <<pmMarked, pmCount, pmList>>

\* is_in_flush: the store's range overlaps the flushed cacheline.
AcceptFlush(op) ==
    /\ op.kind = "flush"
    /\ pmMarked' = pmMarked \cup
                   {pmStores[k].id : k \in {k \in DOMAIN pmStores : LineOf[pmStores[k].addr] = op.line}}
    /\ UNCHANGED <<pmStores, pmCount, pmList>>

\* The permutator's count, then PMReorderCache.flush.
Fence(op) ==
    /\ op.kind = "fence"
    /\ pmCount' = pmCount + PermutationCount(Cardinality(StoresToFlush))
    /\ pmStores' = SelectSeq(pmStores, LAMBDA s : s.id \notin pmMarked)
    /\ UNCHANGED <<pmMarked, pmList>>

Step(op, id) ==
    \/ TxStart(op) \/ TxEnd(op) \/ AcceptStore(op, id) \/ AcceptFlush(op) \/ Fence(op)
====
