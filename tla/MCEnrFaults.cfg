\* Crashes at every step and failed writes
CONSTANTS
    Configs = {c1, c2}
    AttValues = {a0, a1}
    Default = a0
    MaxSeq = 3
    MaxBoots = 4
    CrashEnabled = TRUE
    FailEnabled = TRUE
    PeerEnabled = FALSE
    MaxInFlight = 2
    NoRecord = NoRecord
    NoFile = NoFile
    EmptyFile = EmptyFile
SPECIFICATION Spec
\* A run ends at the bound on starts, or when startup is refused
CHECK_DEADLOCK FALSE
INVARIANTS StartupEnrMatchesConfig

