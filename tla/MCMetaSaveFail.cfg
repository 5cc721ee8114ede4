\* A failed save_metadata_to_disk, then a clean restart, no crashes
CONSTANTS
    Configs = {c1, c2}
    AttValues = {a0, a1}
    Default = a0
    MaxSeq = 3
    MaxBoots = 4
    CrashEnabled = FALSE
    FailEnabled = TRUE
    PeerEnabled = FALSE
    MaxInFlight = 2
    NoRecord = NoRecord
    NoFile = NoFile
    EmptyFile = EmptyFile
SPECIFICATION Spec
\* A run ends at the bound on starts, or when startup is refused
CHECK_DEADLOCK FALSE

PROPERTIES MetaSeqMonotonic
