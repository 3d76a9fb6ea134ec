------------------------------ MODULE YatEngine ------------------------------
(***************************************************************************)
(* The Yat counting engine (YatEngine.run in                               *)
(* src/replay/engines/yat/yatengine.py), selected by witcher.py's          *)
(* default_engine "Yat".  From the first TXStart on, it feeds every        *)
(* operation to a YatCache: a store is appended to its cacheline (to the   *)
(* bucket of its 8-byte word), a flush marks every store of its cacheline  *)
(* (flushed = 1), and a fence adds YatPermutator.run, prod(stores of a     *)
(* cacheline + 1) - 1, to permutation_count and then drops the marked      *)
(* stores.  TXStart resets the count, TXEnd appends it to                  *)
(* permutation_count_list.  Unlike the full engine's scan, nothing is      *)
(* flushed at TXStart or TXEnd and operations between transactions are     *)
(* accepted too.                                                           *)
(*                                                                         *)
(* Buckets are left out: a cacheline's count and flush are the sum and the *)
(* union over its buckets, and every atomic store lies in one bucket (the  *)
(* assertions of YatCacheline.get_bucket).  An empty cacheline, which      *)
(* YatCache.flush removes, is an empty list: a factor of 1.                *)
(* The module is driven by a composing module, which gives it each         *)
(* operation `op` with its id.                                             *)
(***************************************************************************)
EXTENDS Integers, Sequences, SequencesExt, Functions, Folds

CONSTANTS Lines, LineOf

VARIABLES
    yaLines,    \* YatCache: the store ids of every cacheline, in order
    yaMarked,   \* ids of the stores whose flushed field is 1
    yaCount,    \* permutation_count
    yaList      \* permutation_count_list

yaVars == <<yaLines, yaMarked, yaCount, yaList>>

Init ==
    /\ yaLines = [l \in Lines |-> <<>>]
    /\ yaMarked = {}
    /\ yaCount = 0 /\ yaList = <<>>

IsEmpty == \A l \in Lines : yaLines[l] = <<>>

\* YatPermutator.run: the product over the cachelines of (stores + 1), less 1.
YatPermutatorRun(ls) ==
    FoldFunctionOnSet(LAMBDA a, b : a * b, 1, [l \in Lines |-> Len(ls[l]) + 1], Lines) - 1

\* YatCache.flush: every cacheline keeps its stores not marked.
YatCacheFlush(ls) == [l \in Lines |-> SelectSeq(ls[l], LAMBDA i : i \notin yaMarked)]

(***************************************************************************)
(* One iteration of the loop of YatEngine.run, for operation op with id   *)
(* id: the TXStart/TXEnd tests, then YatCache.accept and, on a fence, the *)
(* count and the flush.                                                    *)
(***************************************************************************)
TxStart(op) ==
    /\ op.kind = "txstart"
    /\ yaCount' = 0
    /\ UNCHANGED <<yaLines, yaMarked, yaList>>

TxEnd(op) ==
    /\ op.kind = "txend"
    /\ yaList' = Append(yaList, yaCount)
    /\ UNCHANGED <<yaLines, yaMarked, yaCount>>

AcceptStore(op, id) ==
    /\ op.kind = "store"
    /\ yaLines' = [yaLines EXCEPT ![LineOf[op.addr]] = Append(@, id)]
    /\ UNCHANGED <<yaMarked, yaCount, yaList>>

AcceptFlush(op) ==
    /\ op.kind = "flush"
    /\ yaMarked' = yaMarked \cup Range(yaLines[op.line])
    /\ UNCHANGED <<yaLines, yaCount, yaList>>

\* Mutant of Fence: the cache is flushed before the permutator counts it.
FenceFlushFirst(op) ==
    /\ op.kind = "fence"
    /\ yaCount' = yaCount + YatPermutatorRun(YatCacheFlush(yaLines))
    /\ yaLines' = YatCacheFlush(yaLines)
    /\ UNCHANGED <<yaMarked, yaList>>

Fence(op) ==
    /\ op.kind = "fence"
    /\ yaCount' = yaCount + YatPermutatorRun(yaLines)
    /\ yaLines' = YatCacheFlush(yaLines)
    /\ UNCHANGED <<yaMarked, yaList>>

Step(op, id) ==
    \/ TxStart(op) \/ TxEnd(op) \/ AcceptStore(op, id) \/ AcceptFlush(op) \/ Fence(op)
====
