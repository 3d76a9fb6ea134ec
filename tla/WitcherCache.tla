---------------------------- MODULE WitcherCache ----------------------------
(***************************************************************************)
(* The cache simulator of the Witcher replay engine                        *)
(* (src/replay/engines/witcher/witchercache.py, the flush state of a store *)
(* in src/replay/mem/memoryoperations.py and the writes of binaryfile.py). *)
(*                                                                         *)
(* Every cacheline keeps the ordered list of the stores that target it and *)
(* have not yet been written back.  A flush marks every store of its       *)
(* cacheline Flushing; a fence is only reported to the caller, which then  *)
(* writes back the Flushing stores; at a transaction boundary the caller   *)
(* writes back every store.  Written-back stores go to the backing image.  *)
(*                                                                         *)
(* Data abstraction: a store is a record [id, addr]; its bytes are         *)
(* represented by its id, so the image maps every address to the id of the *)
(* store whose bytes it holds (NoStore when it was never written).  The    *)
(* cacheline dictionary, which creates a cacheline on its first store and  *)
(* deletes it once empty, is a function from every cacheline to its store  *)
(* list, an absent cacheline being the empty list.                         *)
(***************************************************************************)
EXTENDS Naturals, Sequences, SequencesExt, FiniteSets

CONSTANTS
    Addrs,      \* atomic-write addresses (8-byte words) a store may target
    Lines,      \* 64-byte cachelines
    LineOf,     \* the cacheline of every address, get_cacheline_address
    Ids,        \* the operation ids a store may carry
    NoStore     \* the image content of an address no store has written

ASSUME LineOf \in [Addrs -> Lines]
ASSUME Ids \subseteq Nat /\ NoStore \notin Ids

VARIABLES
    lines,      \* stores_list of every cacheline, in program order
    flushed,    \* Store.flushed of every store id: Clear, Flushing, Fenced
    image,      \* the backing pm image: address -> id of the store it holds
    accepted    \* every store the cache has accepted (history, for properties)

cacheVars == <<lines, flushed, image, accepted>>

\* Store.flushed: 0 clear, 1 marked and to be written at the next fence,
\* 2 already written back.
Clear    == 0
Flushing == 1
Fenced   == 2

Stores == [id : Ids, addr : Addrs]

IdsOf(seq) == {seq[k].id : k \in DOMAIN seq}

\* The result of writing the stores of seq to img one by one, in order
\* (BinaryFile.do_store): every address ends up holding the last of them.
WriteStores(img, seq) ==
    [a \in Addrs |->
        LET onA == SelectSeq(seq, LAMBDA s : s.addr = a)
        IN  IF onA = <<>> THEN img[a] ELSE Last(onA).id]

CacheInit ==
    /\ lines    = [l \in Lines |-> <<>>]
    /\ flushed  = [i \in Ids |-> Clear]
    /\ image    = [a \in Addrs |-> NoStore]
    /\ accepted = {}

(***************************************************************************)
(* WitcherCache.accept_store: find (or create) the cacheline of the store  *)
(* and append the store to its list.                                       *)
(***************************************************************************)
AcceptStore(s) ==
    /\ lines'    = [lines EXCEPT ![LineOf[s.addr]] = Append(@, s)]
    /\ accepted' = accepted \cup {s}
    /\ UNCHANGED <<flushed, image>>

\* Mutants of AcceptFlush for the mutation check: a flush that increments
\* Store.flushed instead of setting it, and one that marks only the newest
\* store of the cacheline.
AcceptFlushIncrement(l) ==
    /\ flushed' = [i \in Ids |-> IF i \in IdsOf(lines[l]) THEN flushed[i] + 1
                                                          ELSE flushed[i]]
    /\ UNCHANGED <<lines, image, accepted>>

AcceptFlushNewestOnly(l) ==
    /\ flushed' = [i \in Ids |-> IF lines[l] # <<>> /\ i = Last(lines[l]).id
                                 THEN Flushing ELSE flushed[i]]
    /\ UNCHANGED <<lines, image, accepted>>

(***************************************************************************)
(* WitcherCache.accept_flush: every store of the flushed cacheline becomes *)
(* Flushing (Store.accept_flush; a duplicate flush is only logged).        *)
(***************************************************************************)
AcceptFlush(l) ==
    /\ flushed' = [i \in Ids |-> IF i \in IdsOf(lines[l]) THEN Flushing
                                                          ELSE flushed[i]]
    /\ UNCHANGED <<lines, image, accepted>>

(***************************************************************************)
(* write_back_all_flushing_stores: in every cacheline, write the Flushing  *)
(* stores to the image in list order and mark them Fenced, then keep only  *)
(* the Clear stores and drop the cachelines left empty.                    *)
(***************************************************************************)
FlushingOf(l) == SelectSeq(lines[l], LAMBDA s : flushed[s.id] = Flushing)

FlushedAfterWriteBack ==
    [i \in Ids |-> IF flushed[i] = Flushing
                      /\ \E l \in Lines : i \in IdsOf(lines[l])
                   THEN Fenced ELSE flushed[i]]

WriteBackAllFlushing ==
    /\ image'   = [a \in Addrs |-> WriteStores(image, FlushingOf(LineOf[a]))[a]]
    /\ flushed' = FlushedAfterWriteBack
    /\ lines'   = [l \in Lines |->
                      SelectSeq(lines[l], LAMBDA s : flushed[s.id] = Clear)]
    /\ UNCHANGED accepted

\* Mutant of WriteBackAll: the store lists are not cleared afterwards.
WriteBackAllKeepsList ==
    /\ image'   = [a \in Addrs |-> WriteStores(image, lines[LineOf[a]])[a]]
    /\ flushed' = [i \in Ids |-> IF \E l \in Lines : i \in IdsOf(lines[l])
                                 THEN Fenced ELSE flushed[i]]
    /\ UNCHANGED <<lines, accepted>>

(***************************************************************************)
(* write_back_all_stores: write every store of every cacheline in list     *)
(* order, mark it Fenced, and empty the cache.                             *)
(***************************************************************************)
WriteBackAll ==
    /\ image'   = [a \in Addrs |-> WriteStores(image, lines[LineOf[a]])[a]]
    /\ flushed' = [i \in Ids |-> IF \E l \in Lines : i \in IdsOf(lines[l])
                                 THEN Fenced ELSE flushed[i]]
    /\ lines'   = [l \in Lines |-> <<>>]
    /\ UNCHANGED accepted

(***************************************************************************)
(* get_stores_from_crash_plan: the stores of the cacheline of s, from the  *)
(* head of its list up to s inclusive.                                     *)
(***************************************************************************)
StoresUpTo(s) ==
    LET seq == lines[LineOf[s.addr]]
        k   == CHOOSE k \in DOMAIN seq : seq[k] = s
    IN  SubSeq(seq, 1, k)

(***************************************************************************)
(* The cache on its own: a client calls its operations in any order.  A    *)
(* fence reaches the cache as accept() returning TRUE with no state change *)
(* (the caller then writes back), so it is not an action of its own.      *)
(***************************************************************************)
CONSTANT MaxStores

CacheNext ==
    \/ /\ Cardinality(accepted) < MaxStores
       /\ \E a \in Addrs :
            AcceptStore([id |-> Cardinality(accepted) + 1, addr |-> a])
    \/ \E l \in Lines : AcceptFlush(l)
    \/ WriteBackAllFlushing
    \/ WriteBackAll

CacheSpec == CacheInit /\ [][CacheNext]_cacheVars

(***************************************************************************)
(* Properties                                                              *)
(***************************************************************************)
CacheTypeOK ==
    /\ lines    \in [Lines -> Seq(Stores)]
    /\ flushed  \in [Ids -> {Clear, Flushing, Fenced}]
    /\ image    \in [Addrs -> Ids \cup {NoStore}]
    /\ accepted \subseteq Stores

\* The image holds, at every address, the bytes of the newest store to that
\* address that has been written back: write-backs, spread over fences and
\* cachelines, never let an older store overwrite a newer one.  This is
\* what the crash images built on top of the image rely on.
ImageHoldsNewestWrittenBack ==
    \A a \in Addrs :
        LET done == {s.id : s \in {t \in accepted : t.addr = a
                                                  /\ flushed[t.id] = Fenced}}
        IN  IF done = {} THEN image[a] = NoStore ELSE image[a] = Max(done)
=============================================================================
