CONSTANTS
    NThreads = 2
    NTx = 2
SPECIFICATION Spec
PROPERTY PoolRunCompletes
\* A finished run stops: the client has quit and the server has joined its
\* workers.  The hang is checked by PoolRunCompletes, not as a deadlock.
CHECK_DEADLOCK FALSE
