\* Rebuild (swap and copy), backup, page cache, data pages, indexes and vector indexes, each alone.
SPECIFICATION Spec
CONSTANTS
    Parts = {"swap", "plain", "copy", "linked", "unlinked", "cache", "data", "index", "unique",
             "narrow", "wide"}
INVARIANTS
    RebuildKeepsAll
    
    BackupIsOneVersion
    CacheServesCommitted
    DocumentsReadBack
    SkipListSound
    IndexesInStep
    VectorsInStep
CHECK_DEADLOCK FALSE
