---------------------------- MODULE MCWitcherTx ----------------------------
EXTENDS WitcherTx

CONSTANTS a1, a2

MCAddrs == {a1, a2}
MCAddAddrs == {a1}
MCCriticalAddrs == {a1}
MCOrderViolations == {<<a2, a1>>}
\* Both words share one cacheline, so a flush covers stores to either.
MCLines == {"l1"}
MCLineOf == [a \in MCAddrs |-> "l1"]
====
