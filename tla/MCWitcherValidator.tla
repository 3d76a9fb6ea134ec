------------------------- MODULE MCWitcherValidator -------------------------
EXTENDS WitcherValidator, TLC

CONSTANTS v1, v2, s1, s2, c1, m1, m2

MCVals == {v1, v2}
MCSrcInfos == {s1, s2}
MCCores == {c1}

\* The traced run's output: one line per transaction.
MCOracleFull == <<v1, v2, v1>>

\* Two threads, each running one op-file line after one prefix line.
MCCrashOps == <<m1, m2>>

\* src_info values are only compared for equality.
SrcSymmetry == Permutations(MCSrcInfos)
=============================================================================
