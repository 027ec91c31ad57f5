\* get_file_recursive where reading a node may fail.
CONSTANTS
    N = 2
    Faults <- FaultKinds
    Handlers <- MCRecursive
SPECIFICATION Spec
INVARIANT CleanEndMeansComplete
CHECK_DEADLOCK FALSE
