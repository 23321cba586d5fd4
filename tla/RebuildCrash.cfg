\* A rebuild of a database whose CHECKPOINT pragma is 0.
SPECIFICATION Spec
CONSTANTS
    Parts = {"plain"}
INVARIANT OriginalIsCompletePlain
CHECK_DEADLOCK FALSE
