--------------------------- MODULE MCProgramLock ---------------------------
(* Small instances of ProgramLock for TLC. *)
EXTENDS ProgramLock, TLC

CONSTANTS p1, p2, p3

MCProcs == {p1, p2, p3}

MCTwoProcs == {p1, p2}

MCSymmetry == Permutations(MCProcs)
=============================================================================
