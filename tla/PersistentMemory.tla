--------------------------- MODULE PersistentMemory ---------------------------
(***************************************************************************)
(* What the cache simulator promises: the x86 persistency model that the  *)
(* crash states of Witcher are built from, with no cachelines, lists or   *)
(* flush states.  A store is written; a flush of a cacheline marks every  *)
(* written store of that cacheline not yet durable; a fence makes every    *)
(* marked store durable; a transaction boundary makes every written store  *)
(* durable.  Memory holds, at every address, the newest of the stores to  *)
(* it that became durable.                                                 *)
(***************************************************************************)
EXTENDS Naturals, FiniteSets

CONSTANTS Addrs, Lines, LineOf, Ids, NoStore

VARIABLES
    written,    \* the stores written so far, records [id, addr]
    marked,     \* ids of the stores flushed and not yet durable
    durable,    \* ids of the stores that reached memory
    memory      \* address -> id of the store whose bytes it holds

pmVars == <<written, marked, durable, memory>>

PMInit ==
    /\ written = {} /\ marked = {} /\ durable = {}
    /\ memory = [a \in Addrs |-> NoStore]

Write(s) ==
    /\ s.id \notin {t.id : t \in written}
    /\ written' = written \cup {s}
    /\ UNCHANGED <<marked, durable, memory>>

Flush(l) ==
    /\ marked' = marked \cup {s.id : s \in {t \in written : LineOf[t.addr] = l
                                                          /\ t.id \notin durable}}
    /\ UNCHANGED <<written, durable, memory>>

\* The stores with ids in P become durable; per address the newest wins.
Persist(P) ==
    /\ durable' = durable \cup P
    /\ marked'  = marked \ P
    /\ memory'  = [a \in Addrs |->
                     LET new == {s.id : s \in {t \in written : t.id \in P /\ t.addr = a}}
                     IN  IF new = {} THEN memory[a]
                         ELSE CHOOSE i \in new : \A j \in new : j <= i]
    /\ UNCHANGED written

Fence == Persist(marked)

PersistAll == Persist({s.id : s \in written} \ durable)

PMNext ==
    \/ \E s \in [id : Ids, addr : Addrs] : Write(s)
    \/ \E l \in Lines : Flush(l)
    \/ Fence
    \/ PersistAll

PMSpec == PMInit /\ [][PMNext]_pmVars
====
