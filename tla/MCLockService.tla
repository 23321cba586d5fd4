--------------------------- MODULE MCLockService ---------------------------
(* Small instances of LockService. *)
EXTENDS LockService, TLC

CONSTANTS p1, p2, p3, p4, a, b, c

FourProcs  == {p1, p2, p3, p4}
ThreeCols  == {a, b, c}
Nobody     == {}

\* Interchangeable processes and names; for runs without liveness only.
Symmetry == Permutations(FourProcs) \cup Permutations(ThreeCols)
=============================================================================
