\* Two workers, one with a second thread, start over an empty disk while the
\* rule file is replaced; one worker is killed; there are two tables, and the
\* cache holds one entry.
CONSTANTS
    Workers = {1, 2}
    Callers <- MCCallers
    Tables = 2
    Main = "main"
    CACHE_SIZE = 1
    MaxEdits = 2
    MaxCrashes = 1
SPECIFICATION Spec
INVARIANTS
    TypeOK
    LoadsAreCurrent
    SeedIsWhole
    ServesPrepared
PROPERTY AllServeInTheEnd
