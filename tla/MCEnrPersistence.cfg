\* Restarts and config changes without crashes or failed writes
CONSTANTS
    Configs = {c1, c2}
    AttValues = {a0, a1}
    Default = a0
    MaxSeq = 3
    MaxBoots = 4
    CrashEnabled = FALSE
    FailEnabled = FALSE
    PeerEnabled = TRUE
    MaxInFlight = 2
    NoRecord = NoRecord
    NoFile = NoFile
    EmptyFile = EmptyFile
SPECIFICATION FairSpec
\* A run ends at the bound on starts, or when startup is refused
CHECK_DEADLOCK FALSE
INVARIANTS TypeOK
PROPERTIES EnrSeqMonotonic MetaSeqMonotonic MetadataEventuallyCurrent
