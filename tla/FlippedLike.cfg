\* A collection with an index on a field, and a text LIKE that field.
SPECIFICATION Spec
CONSTANTS
    Parts = {"query"}
    Flipped = TRUE
INVARIANT RowsMatch
CHECK_DEADLOCK FALSE
