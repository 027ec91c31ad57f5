\* Three processes with try_cleanup_dead_lock: can two hold the lock?
CONSTANTS
    p1 = p1
    p2 = p2
    p3 = p3
    Procs <- MCProcs
    MaxInodes = 3
    NoProc = NoProc
SPECIFICATION Spec
INVARIANT SingleInstance
SYMMETRY MCSymmetry
