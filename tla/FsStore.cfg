CONSTANTS
    Procs = {p, q}
    Calls <- MCCalls
    MaxCalls = 4
    MaxDeaths = 1
    MaxIncomplete = 1
    MaxKeys = 5
    MaxNumber = 2
SYMMETRY Interchangeable
SPECIFICATION MCSpec
INVARIANTS CacheFresh BaseRevisionRight TableSound
PROPERTIES TrailsAtomic KeysNotReused
