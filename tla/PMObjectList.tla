---------------------------- MODULE PMObjectList ----------------------------
(***************************************************************************)
(* The PM-object list of the belief database                               *)
(* (PMObjectList in src/replay/engines/witcher/witcherbeliefdatabase.py):  *)
(* the address ranges of the dependence-graph nodes, kept sorted by base   *)
(* address with overlapping ranges merged.  insert places an object by     *)
(* binary search and merges it with its neighbours (try_merge); find       *)
(* resolves an address range to an object by binary search.                *)
(*                                                                         *)
(* An object is a record [address, size] of the half-open range            *)
(* [address, address + size).  Lists are 1-based here; the code's indices  *)
(* are these minus one.                                                    *)
(***************************************************************************)
EXTENDS Naturals, Sequences, SequencesExt, FiniteSets

CONSTANTS
    MaxAddr,     \* ranges lie within [0, MaxAddr)
    MaxSize,     \* largest size of an inserted node range
    MaxInserts   \* number of node ranges inserted

VARIABLES
    list,        \* PMObjectList.list
    inserted     \* the ranges inserted so far (history, for properties)

vars == <<list, inserted>>

Objects == [address : 0..MaxAddr - 1, size : 1..MaxSize]

\* PMObject.get_base_address / get_max_address.
Base(o) == o.address
End(o)  == o.address + o.size

(***************************************************************************)
(* range_cmp of misc/utils: 0 when the two ranges overlap, 1 when the      *)
(* first lies above the second, -1 when it lies below.                     *)
(***************************************************************************)
RangeCmp(a, b) ==
    IF End(b) <= Base(a) THEN 1
    ELSE IF End(a) <= Base(b) THEN -1
    ELSE 0

(***************************************************************************)
(* try_merge(index): merge the object at index with its left neighbour if  *)
(* they overlap (the left one absorbs it), then absorb right neighbours    *)
(* while they overlap.  The code asserts the absorbing object starts no    *)
(* later than the absorbed one.                                            *)
(***************************************************************************)
\* Mutants of Absorb: the merged object ends where the absorbed one ends,
\* and the merged size is the sum of the two sizes.
AbsorbToCurrentEnd(l, c) == [address |-> l.address, size |-> End(c) - l.address]

AbsorbAddsSizes(l, c) == [address |-> l.address, size |-> l.size + c.size]

Absorb(l, c) == [address |-> l.address,
                 size    |-> IF End(l) >= End(c) THEN l.size
                                                 ELSE End(c) - l.address]

RECURSIVE MergeRight(_, _)
MergeRight(s, curr) ==
    IF curr + 1 <= Len(s) /\ RangeCmp(s[curr], s[curr + 1]) = 0
    THEN MergeRight(RemoveAt(ReplaceAt(s, curr, Absorb(s[curr], s[curr + 1])),
                             curr + 1), curr)
    ELSE s

\* Mutant of TryMerge: no left merge.
TryMergeRightOnly(s, index) == MergeRight(s, index)

TryMerge(s, index) ==
    IF index > 1 /\ RangeCmp(s[index - 1], s[index]) = 0
    THEN MergeRight(RemoveAt(ReplaceAt(s, index - 1, Absorb(s[index - 1], s[index])),
                             index), index - 1)
    ELSE MergeRight(s, index)

(***************************************************************************)
(* insert: an empty list takes the object; an object at or below the      *)
(* first base goes first, one at or above the last base goes last; else a  *)
(* binary search finds the first position whose base is at or above the   *)
(* object's base.  try_merge follows in every case but the first.          *)
(***************************************************************************)
RECURSIVE InsertSearch(_, _, _, _)
InsertSearch(s, o, left, right) ==
    IF left + 1 < right
    THEN LET mid == left + (right - left) \div 2
         IN  IF Base(o) <= Base(s[mid]) THEN InsertSearch(s, o, left, mid)
                                        ELSE InsertSearch(s, o, mid, right)
    ELSE right

Inserted(s, o) ==
    CASE s = <<>>                  -> <<o>>
      [] Base(o) <= Base(s[1])     -> TryMerge(InsertAt(s, 1, o), 1)
      [] Base(o) >= Base(Last(s))  -> TryMerge(Append(s, o), Len(s) + 1)
      [] OTHER -> LET k == InsertSearch(s, o, 1, Len(s))
                  IN  TryMerge(InsertAt(s, k, o), k)

(***************************************************************************)
(* find(address, size): binary search while left + 1 < right, returning    *)
(* the probed object as soon as it overlaps the range; then the left and   *)
(* the right end, each of which must cover the range when it overlaps it   *)
(* (an assertion); otherwise None.  The result records which of the three  *)
(* happened.                                                               *)
(***************************************************************************)
NoObject == [address |-> 0, size |-> 0]

Covers(o, t) == Base(o) <= Base(t) /\ End(t) <= End(o)

EndCheck(o, t, else) ==
    IF RangeCmp(o, t) = 0
    THEN IF Covers(o, t) THEN [outcome |-> "found", obj |-> o]
                         ELSE [outcome |-> "assert", obj |-> o]
    ELSE else

RECURSIVE FindSearch(_, _, _, _)

\* Mutant of FindSearch: the right end is never checked.
FindSearchLeftEndOnly(s, t, left, right) ==
    IF left + 1 < right
    THEN LET mid == left + (right - left) \div 2
             cmp == RangeCmp(s[mid], t)
         IN  CASE cmp = 0 -> [outcome |-> "found", obj |-> s[mid]]
               [] cmp = 1 -> FindSearch(s, t, left, mid)
               [] OTHER   -> FindSearch(s, t, mid, right)
    ELSE EndCheck(s[left], t, [outcome |-> "none", obj |-> NoObject])

FindSearch(s, t, left, right) ==
    IF left + 1 < right
    THEN LET mid == left + (right - left) \div 2
             cmp == RangeCmp(s[mid], t)
         IN  CASE cmp = 0 -> [outcome |-> "found", obj |-> s[mid]]
               [] cmp = 1 -> FindSearch(s, t, left, mid)
               [] OTHER   -> FindSearch(s, t, mid, right)
    ELSE EndCheck(s[left], t,
            EndCheck(s[right], t, [outcome |-> "none", obj |-> NoObject]))

Find(s, address, size) ==
    FindSearch(s, [address |-> address, size |-> size], 1, Len(s))

(***************************************************************************)
(* init_pm_object_list_from_graph: every node of non-zero size is inserted *)
(* in turn; the model inserts any range.                                   *)
(***************************************************************************)
Init ==
    /\ list = <<>>
    /\ inserted = {}

Insert(o) ==
    /\ list' = Inserted(list, o)
    /\ inserted' = inserted \cup {o}

Next ==
    /\ Cardinality(inserted) < MaxInserts
    /\ \E o \in Objects : Insert(o)

Spec == Init /\ [][Next]_vars

(***************************************************************************)
(* Properties                                                              *)
(***************************************************************************)
TypeOK ==
    /\ list \in Seq([address : 0..MaxAddr - 1, size : 1..MaxAddr + MaxSize])
    /\ inserted \subseteq Objects

Bytes(S) == UNION {Base(o)..End(o) - 1 : o \in S}

\* The spec's PM-object invariant: after every insert the list is sorted by
\* address and no two objects overlap (insert's placement plus try_merge's
\* single left merge and repeated right merges).
SortedAndDisjoint ==
    \A i \in 1..Len(list) - 1 : End(list[i]) <= Base(list[i + 1])

\* Merging neither loses nor invents bytes: the objects cover exactly the
\* bytes of the ranges inserted (Absorb keeps the farther end).
CoversExactlyInserted ==
    Bytes(ToSet(list)) = Bytes(inserted)

\* Every sub-range of an inserted node range resolves, through find's
\* binary search, to an object that covers it (the spec's test of 4.2).
FindResolvesInsertedRanges ==
    \A o \in inserted :
        \A a \in Base(o)..End(o) - 1 :
            \A n \in 1..End(o) - a :
                LET r == Find(list, a, n)
                IN  r.outcome = "found" /\ Covers(r.obj, [address |-> a, size |-> n])
=============================================================================
