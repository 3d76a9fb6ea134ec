--------------------------- MODULE MCWitcherReplay ---------------------------
(***************************************************************************)
(* Model-checking instance of WitcherReplay: three words over two          *)
(* cachelines, as for the crash manager.                                   *)
(***************************************************************************)
EXTENDS WitcherReplay

CONSTANTS a1, a2, a3, l1, l2

MCAddrs  == {a1, a2, a3}
MCLines  == {l1, l2}
MCLineOf == [a \in MCAddrs |-> IF a = a3 THEN l2 ELSE l1]
=============================================================================
