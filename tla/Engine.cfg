\* Catalog, file storage, queries, sorts, expressions and values, each alone.
SPECIFICATION Spec
CONSTANTS
    Parts = {"ids", "names", "upload", "download", "query", "segments", "queries", "long", "exprs",
             "keys", "flat", "nested"}
    Flipped = FALSE
INVARIANTS
    CatalogSound
    FilesAreWhole
    PlansAgree
    SortHandsOutAll
    KeepsMeaning
    ValuesReadBack
CHECK_DEADLOCK FALSE
