------------------------- MODULE MCWitcherThreadPool -------------------------
(***************************************************************************)
(* Two workers (thread_count on a three-core machine) and two             *)
(* transactions: enough for two workers to race for one item and for the  *)
(* barrier to need both.                                                   *)
(***************************************************************************)
EXTENDS WitcherThreadPool
====
