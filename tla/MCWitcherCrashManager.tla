----------------------- MODULE MCWitcherCrashManager -----------------------
(***************************************************************************)
(* Model-checking instance of WitcherCrashManager: three words, two in     *)
(* cacheline l1 and one in l2, so that candidates meet both same-line and  *)
(* cross-line pairs, in either program order.                              *)
(***************************************************************************)
EXTENDS WitcherCrashManager

CONSTANTS a1, a2, a3, l1, l2

MCAddrs  == {a1, a2, a3}
MCLines  == {l1, l2}
MCLineOf == [a \in MCAddrs |-> IF a = a3 THEN l2 ELSE l1]
=============================================================================
