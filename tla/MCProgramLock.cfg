\* Two processes with every operation: acquire, drop, crash, is_locked,
\* try_cleanup_dead_lock and read_lock_pid.  Does acquire always end?
CONSTANTS
    p1 = p1
    p2 = p2
    p3 = p3
    Procs <- MCTwoProcs
    MaxInodes = 2
    NoProc = NoProc
SPECIFICATION Spec
INVARIANT TypeOK
 
