\* A request served by get_file or get_file_recursive over up to four nodes
\* or chunks, with every failure: resolver and pretty() errors, read errors
\* (a failed stream for get_file, a panic of the recursive task) and the
\* client leaving at any point.
CONSTANTS
    N = 4
    Faults <- FaultKinds
    Handlers <- MCBothHandlers
SPECIFICATION Spec
INVARIANT TypeOK
INVARIANT CompleteUnlessPanicked
PROPERTY Ends
CHECK_DEADLOCK FALSE
