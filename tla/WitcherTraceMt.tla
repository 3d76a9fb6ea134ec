---------------------------- MODULE WitcherTraceMt ----------------------------
(***************************************************************************)
(* The multi-thread trace (WitcherTraceMt.extract_operations in            *)
(* src/replay/mem/witchertracemt.py).  The scan is that of WitcherTrace:   *)
(* get_stores and the copying of entries are the same code and are taken  *)
(* from that module.  TXStart and TXEnd differ: there                      *)
(* is no nesting assertion and no list of transaction ranges; instead the  *)
(* transactions are counted, and the parallel range of atomic_write_ops    *)
(* runs from the TXStart of transaction parallel_start_index to the TXEnd  *)
(* that makes parallel_start_index + num_threads transactions ended.       *)
(* WitcherCrashManagerMt replays get_prefix_ops without crashing and tries *)
(* crashes inside get_parallel_ops.                                        *)
(*                                                                         *)
(* The traced program runs Start transactions one after the other, then    *)
(* NThreads threads whose transactions interleave, then, once they are    *)
(* joined, sequential transactions again.  Entries outside transactions    *)
(* may appear anywhere.                                                    *)
(***************************************************************************)
EXTENDS Integers, Sequences, SequencesExt, FiniteSets

CONSTANTS Word, StoreAddrs, StoreSizes, Calls, MaxEntries,
    MtEntries,   \* the entries the traced program may emit
    Start,       \* parallel_start_index
    NThreads     \* num_threads

VARIABLES
    scanned, ops, atomicOps, opIdx, atomicIdx,
    txStartIdx,  \* tx_start_curr_index
    txEndIdx,    \* tx_end_curr_index
    range        \* atomic_write_ops_parallel_range

mtVars == <<txStartIdx, txEndIdx, range>>
vars == <<scanned, ops, atomicOps, opIdx, atomicIdx, mtVars>>

\* get_stores and the per-entry bookkeeping; the sequential scanner's
\* transaction state plays no part.
ST == INSTANCE WitcherTrace WITH opTxStart <- -1, atomicTxStart <- -1,
          opsTxRanges <- <<>>, atomicTxRanges <- <<>>, failed <- FALSE

Init ==
    /\ scanned = 0
    /\ ops = <<>> /\ atomicOps = <<>>
    /\ opIdx = 0 /\ atomicIdx = 0
    /\ txStartIdx = 0 /\ txEndIdx = 0
    /\ range = <<-1, -1>>

(***************************************************************************)
(* The traced program: transactions of the prefix and of the suffix do not *)
(* overlap anything; the NThreads parallel ones may.                       *)
(***************************************************************************)
Count(kind) == Cardinality({k \in DOMAIN atomicOps : atomicOps[k].kind = kind})
Open == Count("TXStart") - Count("TXEnd")

Emits(e) ==
    /\ e.kind = "TXStart" =>
           Count("TXStart") \in Start + 1..Start + NThreads - 1 \/ Open = 0
    /\ e.kind = "TXEnd" => Open > 0

\* Store: get_stores, then the chunk count less one, then the loop's + 1.
ScanStore(e) ==
    LET chunks == ST!GetStores(e.addr, e.size, atomicIdx)
    IN  /\ ops' = Append(ops, ST!Chunk(e.addr, e.size, 0, opIdx))
        /\ atomicOps' = atomicOps \o chunks
        /\ ST!Advance(atomicIdx + Len(chunks) - 1 + 1)
        /\ UNCHANGED mtVars

\* Flush, Fence, TXAlloc, TXAdd and library calls are copied.
ScanCopy(e) == ST!Copy(e) /\ ST!Advance(atomicIdx + 1) /\ UNCHANGED mtVars

\* Mutant of ScanTxStart: the range starts at the op index, which falls
\* behind the atomic index once a store has been split.
ScanTxStartOpIndex(e) ==
    /\ ST!Copy(e)
    /\ range' = IF txStartIdx = Start THEN [range EXCEPT ![1] = opIdx] ELSE range
    /\ txStartIdx' = txStartIdx + 1
    /\ ST!Advance(atomicIdx + 1)
    /\ UNCHANGED txEndIdx

\* TXStart: the parallel range opens at the Start-th transaction (from 0).
ScanTxStart(e) ==
    /\ ST!Copy(e)
    /\ range' = IF txStartIdx = Start THEN [range EXCEPT ![1] = atomicIdx] ELSE range
    /\ txStartIdx' = txStartIdx + 1
    /\ ST!Advance(atomicIdx + 1)
    /\ UNCHANGED txEndIdx

\* Mutant of ScanTxEnd: the range closes one transaction late.
ScanTxEndLate(e) ==
    /\ ST!Copy(e)
    /\ range' = IF txEndIdx = Start + NThreads
                THEN [range EXCEPT ![2] = atomicIdx] ELSE range
    /\ txEndIdx' = txEndIdx + 1
    /\ ST!Advance(atomicIdx + 1)
    /\ UNCHANGED txStartIdx

\* TXEnd: the range closes when the (Start + NThreads)-th transaction ends.
ScanTxEnd(e) ==
    /\ ST!Copy(e)
    /\ range' = IF txEndIdx = Start + NThreads - 1
                THEN [range EXCEPT ![2] = atomicIdx] ELSE range
    /\ txEndIdx' = txEndIdx + 1
    /\ ST!Advance(atomicIdx + 1)
    /\ UNCHANGED txStartIdx

Scan(e) ==
    CASE e.kind = "Store"   -> ScanStore(e)
      [] e.kind = "TXStart" -> ScanTxStart(e)
      [] e.kind = "TXEnd"   -> ScanTxEnd(e)
      [] OTHER              -> ScanCopy(e)

\* Mutant of Next: the scan does not stop at the end of the trace.
NextPastEnd == \E e \in MtEntries : Emits(e) /\ Scan(e)

\* for entry in self.trace
Next == scanned < MaxEntries /\ \E e \in MtEntries : Emits(e) /\ Scan(e)

Spec == Init /\ [][Next]_vars

(***************************************************************************)
(* Python slices, for the two getters: a negative bound counts from the   *)
(* end, and bounds are clipped to the list.                                *)
(***************************************************************************)
PyIndex(s, i) ==
    LET j == IF i < 0 THEN Len(s) + i ELSE i
    IN  IF j < 0 THEN 0 ELSE IF j > Len(s) THEN Len(s) ELSE j

PySlice(s, a, b) == SubSeq(s, PyIndex(s, a) + 1, PyIndex(s, b))

GetPrefixOps == PySlice(atomicOps, 0, range[1])

GetParallelOps == PySlice(atomicOps, range[1], range[2] + 1)

(***************************************************************************)
(* Properties                                                              *)
(***************************************************************************)
TypeOK ==
    /\ scanned \in 0..MaxEntries
    /\ txStartIdx \in Nat /\ txEndIdx \in Nat
    /\ range \in ({-1} \cup Nat) \X ({-1} \cup Nat)

CountIn(s, kind) == Cardinality({k \in DOMAIN s : s[k].kind = kind})

\* Once the NThreads parallel transactions have all ended, the crash
\* manager's two slices are the trace up to the end of the parallel part,
\* split where it begins: the prefix holds exactly the Start sequential
\* transactions, closed, and the parallel ops run from the first parallel
\* TXStart to the TXEnd that closes the last parallel transaction, with
\* no transaction left open -- whatever the threads' interleaving and
\* however the stores were split into atomic writes.
SlicesSplitAtParallelSection ==
    Count("TXEnd") >= Start + NThreads =>
        LET pre == GetPrefixOps
            par == GetParallelOps
        IN  /\ pre \o par = SubSeq(atomicOps, 1, Len(pre) + Len(par))
            /\ CountIn(pre, "TXStart") = Start /\ CountIn(pre, "TXEnd") = Start
            /\ par # <<>>
            /\ Head(par).kind = "TXStart" /\ Last(par).kind = "TXEnd"
            /\ CountIn(par, "TXStart") = NThreads
            /\ CountIn(par, "TXEnd") = NThreads
====
