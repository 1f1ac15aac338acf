CONSTANTS
    NNames = 4
    MaxBackups = 3
    MaxWrites = 3
    MaxCopies = 5
    MaxCrashes = 2
    MaxCorruptions = 1

SPECIFICATION Spec

\* The run ends once the bounds are spent, or with a corrupt state.json
\* and no backup that parses (resume --repair exits 1).
CHECK_DEADLOCK FALSE

INVARIANT TypeOK
INVARIANT AtomicPersist
PROPERTY PersistsDocuments
