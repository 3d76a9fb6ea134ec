---------------------------- MODULE WitcherTrace ----------------------------
(***************************************************************************)
(* The trace model (WitcherTrace.extract_operations in                     *)
(* src/replay/mem/witchertrace.py).  The raw trace is scanned entry by     *)
(* entry; every entry becomes one operation of ops, and one or more        *)
(* operations of atomic_write_ops: a Store is split by get_stores into     *)
(* chunks that do not straddle an ATOMIC_WRITE_BYTES boundary, every other *)
(* entry is copied.  The TXStart/TXEnd pairs give the transaction ranges   *)
(* of both lists.                                                          *)
(*                                                                         *)
(* Data abstraction: tids and source tags are left out; a store's value, a *)
(* list of hex bytes, is represented by the positions of its bytes, so the *)
(* slice a chunk takes is the pair <<first, last + 1>> of positions.  The  *)
(* address of a Flush, TXAdd or TXAlloc entry plays no part in the scan    *)
(* and is left out.                                                        *)
(***************************************************************************)
EXTENDS Integers, Sequences, SequencesExt, FiniteSets

CONSTANTS
    Word,        \* ATOMIC_WRITE_BYTES
    StoreAddrs,  \* addresses a Store entry may have
    StoreSizes,  \* sizes a Store entry may have
    Calls,       \* TXAdd, TXAlloc and library-call type tags
    MaxEntries   \* length of the trace

VARIABLES
    scanned,     \* number of entries scanned (the for loop's position)
    ops, atomicOps,
    opIdx, atomicIdx,           \* op_curr_index, atomic_write_op_curr_index
    opTxStart, atomicTxStart,   \* op_curr_tx_start_index and its atomic twin
    opsTxRanges, atomicTxRanges,
    failed       \* an assert of extract_operations has failed

vars == <<scanned, ops, atomicOps, opIdx, atomicIdx, opTxStart, atomicTxStart,
          opsTxRanges, atomicTxRanges, failed>>

Marks == {"Flush", "Fence", "TXStart", "TXEnd"}

Entries == [kind : {"Store"}, addr : StoreAddrs, size : StoreSizes]
           \cup [kind : Marks \cup Calls]

(***************************************************************************)
(* get_stores: a first chunk up to the next word boundary when the address *)
(* is not aligned, then whole words while they fit, then the remainder.    *)
(***************************************************************************)
Chunk(address, size, from, id) ==
    [kind |-> "Store", addr |-> address, size |-> size,
     value |-> <<from, from + size>>, id |-> id]

RECURSIVE WholeWords(_, _, _, _)

\* Mutant of WholeWords: atomic_write_op_curr_index not advanced per word.
WholeWordsSameId(address, size, off, id) ==
    IF off + Word <= size
    THEN <<Chunk(address + off, Word, off, id)>>
         \o WholeWords(address, size, off + Word, id)
    ELSE <<>>

WholeWords(address, size, off, id) ==
    IF off + Word <= size
    THEN <<Chunk(address + off, Word, off, id)>>
         \o WholeWords(address, size, off + Word, id + 1)
    ELSE <<>>

MinOf(a, b) == IF a < b THEN a ELSE b

\* Mutant of GetStores: the first chunk of an unaligned store runs to the
\* word boundary even when the store ends before it.
GetStoresNoMin(address, size, id) ==
    LET low   == (address \div Word) * Word
        high  == low + Word
        first == IF address > low
                 THEN <<Chunk(address, high - address, 0, id)>> ELSE <<>>
        off   == IF address > low THEN high - address ELSE 0
        words == WholeWords(address, size, off, id + Len(first))
        rest  == off + Len(words) * Word
    IN  first \o words
        \o (IF size - rest > 0
            THEN <<Chunk(address + rest, size - rest, rest,
                         id + Len(first) + Len(words))>>
            ELSE <<>>)

\* Mutant of GetStores: the first chunk of an unaligned store takes a whole
\* word (or the whole store) instead of stopping at the word boundary.
GetStoresFirstWholeWord(address, size, id) ==
    LET low   == (address \div Word) * Word
        high  == low + Word
        first == IF address > low
                 THEN <<Chunk(address, MinOf(size, Word), 0, id)>>
                 ELSE <<>>
        off   == IF address > low THEN MinOf(size, Word) ELSE 0
        words == WholeWords(address, size, off, id + Len(first))
        rest  == off + Len(words) * Word
    IN  first \o words
        \o (IF size - rest > 0
            THEN <<Chunk(address + rest, size - rest, rest,
                         id + Len(first) + Len(words))>>
            ELSE <<>>)

GetStores(address, size, id) ==
    LET low   == (address \div Word) * Word
        high  == low + Word
        first == IF address > low
                 THEN <<Chunk(address, MinOf(size, high - address), 0, id)>>
                 ELSE <<>>
        off   == IF address > low THEN high - address ELSE 0
        words == WholeWords(address, size, off, id + Len(first))
        rest  == off + Len(words) * Word
    IN  first \o words
        \o (IF size - rest > 0
            THEN <<Chunk(address + rest, size - rest, rest,
                         id + Len(first) + Len(words))>>
            ELSE <<>>)

Init ==
    /\ scanned = 0
    /\ ops = <<>> /\ atomicOps = <<>>
    /\ opIdx = 0 /\ atomicIdx = 0
    /\ opTxStart = -1 /\ atomicTxStart = -1
    /\ opsTxRanges = <<>> /\ atomicTxRanges = <<>>
    /\ failed = FALSE

(***************************************************************************)
(* One iteration of the scan loop; every branch ends by advancing both     *)
(* indices.  A Store advances the atomic index by the number of chunks     *)
(* (len - 1 in the branch, + 1 after it).                                  *)
(***************************************************************************)
Scanning == ~failed /\ scanned < MaxEntries

Advance(aNext) ==
    /\ scanned' = scanned + 1
    /\ opIdx' = opIdx + 1
    /\ atomicIdx' = aNext

Copy(e) ==
    /\ ops' = Append(ops, [kind |-> e.kind, id |-> opIdx])
    /\ atomicOps' = Append(atomicOps, [kind |-> e.kind, id |-> atomicIdx])

\* Mutant of ScanStore: the trailing increment of the loop is forgotten.
ScanStoreMinusOne(e) ==
    LET chunks == GetStores(e.addr, e.size, atomicIdx)
    IN  /\ ops' = Append(ops, Chunk(e.addr, e.size, 0, opIdx))
        /\ atomicOps' = atomicOps \o chunks
        /\ Advance(atomicIdx + Len(chunks) - 1)
        /\ UNCHANGED <<opTxStart, atomicTxStart, opsTxRanges, atomicTxRanges,
                       failed>>

ScanStore(e) ==
    LET chunks == GetStores(e.addr, e.size, atomicIdx)
    IN  /\ ops' = Append(ops, Chunk(e.addr, e.size, 0, opIdx))
        /\ atomicOps' = atomicOps \o chunks
        /\ Advance(atomicIdx + Len(chunks) - 1 + 1)
        /\ UNCHANGED <<opTxStart, atomicTxStart, opsTxRanges, atomicTxRanges,
                       failed>>

\* Flush, Fence and the TXAdd / TXAlloc / library-call branches.
ScanCopy(e) ==
    /\ Copy(e)
    /\ Advance(atomicIdx + 1)
    /\ UNCHANGED <<opTxStart, atomicTxStart, opsTxRanges, atomicTxRanges,
                   failed>>

\* TXStart: assert(op_curr_tx_start_index == -1) holds; open the range.
\* Mutant of ScanTxStart: the atomic range starts at the op index.
ScanTxStartOpIndex(e) ==
    /\ opTxStart = -1
    /\ Copy(e)
    /\ opTxStart' = opIdx /\ atomicTxStart' = opIdx
    /\ Advance(atomicIdx + 1)
    /\ UNCHANGED <<opsTxRanges, atomicTxRanges, failed>>

ScanTxStart(e) ==
    /\ opTxStart = -1
    /\ Copy(e)
    /\ opTxStart' = opIdx /\ atomicTxStart' = atomicIdx
    /\ Advance(atomicIdx + 1)
    /\ UNCHANGED <<opsTxRanges, atomicTxRanges, failed>>

\* TXEnd: assert(op_curr_tx_start_index != -1) holds; close the range.
ScanTxEnd(e) ==
    /\ opTxStart # -1
    /\ Copy(e)
    /\ opsTxRanges' = Append(opsTxRanges, <<opTxStart, opIdx>>)
    /\ atomicTxRanges' = Append(atomicTxRanges, <<atomicTxStart, atomicIdx>>)
    /\ opTxStart' = -1 /\ atomicTxStart' = -1
    /\ Advance(atomicIdx + 1)
    /\ UNCHANGED failed

\* A nested TXStart or an unmatched TXEnd: the assertion aborts the load.
AssertFails(e) ==
    /\ \/ e.kind = "TXStart" /\ opTxStart # -1
       \/ e.kind = "TXEnd"   /\ opTxStart = -1
    /\ failed' = TRUE
    /\ UNCHANGED <<scanned, ops, atomicOps, opIdx, atomicIdx, opTxStart,
                   atomicTxStart, opsTxRanges, atomicTxRanges>>

Scan(e) ==
    CASE e.kind = "Store"   -> ScanStore(e)
      [] e.kind = "TXStart" -> ScanTxStart(e) \/ AssertFails(e)
      [] e.kind = "TXEnd"   -> ScanTxEnd(e) \/ AssertFails(e)
      [] OTHER              -> ScanCopy(e)

Next == Scanning /\ \E e \in Entries : Scan(e)

Spec == Init /\ [][Next]_vars

(***************************************************************************)
(* Properties                                                              *)
(***************************************************************************)
TypeOK ==
    /\ scanned \in 0..MaxEntries
    /\ opIdx \in Nat /\ atomicIdx \in Nat
    /\ opTxStart \in {-1} \cup Nat /\ atomicTxStart \in {-1} \cup Nat
    /\ failed \in BOOLEAN

IsStore(o) == o.kind = "Store"

\* <<byte address, position in the value>> of every byte of the stores of
\* seq, in order.
Bytes(seq) ==
    LET st == SelectSeq(seq, IsStore)
    IN  FlattenSeq([k \in DOMAIN st |->
            [b \in 1..st[k].size |-> <<st[k].addr + b - 1, st[k].value[1] + b - 1>>]])

\* The spec's trace invariant: the id of every operation is its position,
\* in ops and in atomic_write_ops (dense and increasing), and the indices
\* are the next position.  The crash managers slice atomic_write_ops by id
\* and run_before_target compares op.id with a range bound.
IdsArePositions ==
    /\ \A k \in DOMAIN ops : ops[k].id = k - 1
    /\ \A k \in DOMAIN atomicOps : atomicOps[k].id = k - 1
    /\ ~failed => opIdx = Len(ops) /\ atomicIdx = Len(atomicOps)

\* get_stores loses, duplicates and reorders no byte: the chunks, in order,
\* write exactly the bytes of the stores, each with its own value byte.
ChunksTileStores == Bytes(atomicOps) = Bytes(ops)

\* No chunk straddles an atomic-write boundary (an unaligned empty store
\* gives an empty chunk), so every chunk is one atomic write within one
\* cacheline, which is what WitcherCache assumes.
ChunksAreAtomic ==
    \A k \in DOMAIN atomicOps :
        IsStore(atomicOps[k]) =>
            LET c == atomicOps[k]
            IN  c.size <= Word - (c.addr % Word)

\* Every closed transaction range of atomic_write_ops brackets a TXStart and
\* a TXEnd, and the operations the crash manager replays for it
\* (atomic_write_ops[start+1:end]) write exactly the bytes of the stores of
\* the same transaction in ops.
TxRangesCorrespond ==
    /\ Len(atomicTxRanges) = Len(opsTxRanges)
    /\ \A k \in DOMAIN atomicTxRanges :
        LET a == atomicTxRanges[k]
            o == opsTxRanges[k]
        IN  /\ atomicOps[a[1] + 1].kind = "TXStart"
            /\ atomicOps[a[2] + 1].kind = "TXEnd"
            /\ Bytes(SubSeq(atomicOps, a[1] + 2, a[2])) = Bytes(SubSeq(ops, o[1] + 2, o[2]))
====
