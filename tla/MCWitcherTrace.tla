---------------------------- MODULE MCWitcherTrace ----------------------------
(***************************************************************************)
(* Both trace scanners, one per behaviour: the sequential one              *)
(* (WitcherTrace) over any entries, the multi-thread one (WitcherTraceMt)  *)
(* over the traces of a program with one sequential transaction before two *)
(* threads.  The third behaviour is the parallel engine's thread pool     *)
(* (WitcherThreadPool), which runs one witcher_parallel_unit.py task per   *)
(* transaction range that the scanner extracts.                            *)
(***************************************************************************)
EXTENDS WitcherTrace

VARIABLES mode, mScanned, mOps, mAtomicOps, mOpIdx, mAtomicIdx,
    mTxStartIdx, mTxEndIdx, mRange

VARIABLES pInbox, pReply, pCpc, pNextTx, pSpc, pNonesPut, pStopIdx, pQueue,
    pUnfinished, pWpc, pJob, pStop, pRan

poolAll == <<pInbox, pReply, pCpc, pNextTx, pSpc, pNonesPut, pStopIdx, pQueue,
             pUnfinished, pWpc, pJob, pStop, pRan>>

mtAll == <<mScanned, mOps, mAtomicOps, mOpIdx, mAtomicIdx, mTxStartIdx,
           mTxEndIdx, mRange>>

\* Addresses: one word-aligned, one not; sizes: empty, within the first
\* word, and spanning two and three words.
MCStoreAddrs == {3, 8}
MCStoreSizes == {0, 4, 13, 20}
MCCalls == {"TXAdd", "PMDKCall"}

\* The multi-thread program emits markers, fences and one store that is
\* split into two atomic writes, which puts the op and atomic indices apart.
MCMtEntries == {[kind |-> "Store", addr |-> 3, size |-> 13]}
               \cup {[kind |-> k] : k \in {"TXStart", "TXEnd", "Fence"}}

MT == INSTANCE WitcherTraceMt WITH scanned <- mScanned, ops <- mOps,
          atomicOps <- mAtomicOps, opIdx <- mOpIdx, atomicIdx <- mAtomicIdx,
          txStartIdx <- mTxStartIdx, txEndIdx <- mTxEndIdx, range <- mRange,
          MaxEntries <- 8, MtEntries <- MCMtEntries, Start <- 1, NThreads <- 2

\* Two workers, three transactions: one worker can still hold a task while
\* the other has taken a None.
TP == INSTANCE WitcherThreadPool WITH inbox <- pInbox, reply <- pReply,
          cpc <- pCpc, nextTx <- pNextTx, spc <- pSpc, nonesPut <- pNonesPut,
          stopIdx <- pStopIdx, queue <- pQueue, unfinished <- pUnfinished,
          wpc <- pWpc, job <- pJob, stop <- pStop, ran <- pRan,
          NThreads <- 2, NTx <- 3

MCInit == mode \in {"seq", "mt", "pool"} /\ Init /\ MT!Init /\ TP!Init

MCNext ==
    \/ mode = "seq" /\ Next /\ UNCHANGED <<mode, mtAll, poolAll>>
    \/ mode = "mt" /\ MT!Next /\ UNCHANGED <<mode, vars, poolAll>>
    \/ mode = "pool" /\ TP!Next /\ UNCHANGED <<mode, vars, mtAll>>

MCSpec == MCInit /\ [][MCNext]_<<mode, vars, mtAll, poolAll>>

\* The type invariant of both scanners and of the pool.
TraceTypeOK == TypeOK /\ MT!TypeOK /\ TP!TypeOK

\* WitcherTraceMt.get_prefix_ops / get_parallel_ops split the trace at the
\* parallel section (WitcherTraceMt!SlicesSplitAtParallelSection).
MtSlicesSplitAtParallelSection == MT!SlicesSplitAtParallelSection

\* threadPoolWait returns only after every dispatched task has run, so the
\* epilogue reads every result file (WitcherThreadPool!
\* BarrierCompletesAfterEveryTask).
BarrierCompletesAfterEveryTask == TP!BarrierCompletesAfterEveryTask
====
