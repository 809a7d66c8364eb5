SPECIFICATION PartsSpec
CONSTANTS
    Locations = {device_memory}
    Owners = {o1, o2, o3}
    WordSize = 6
    MaxAttempts = 2
    Descriptors <- MCDescriptors
    Targets <- MCTargets
    Nil = Nil
    Nothing = Nothing
    MaxRegistered = 2
    Base = 3
    Bytes32 = 1
    Bytes64 = 2
    BytesId = 2
    Values <- MCValues
    Foreign <- MCForeign
INVARIANTS
    CapacityTypeOK
    UsageConserved
    SourceOutlivesProof
    VerdictOfGeneration
    RefusalExplained
    RoundTrip
    AcceptsCanonical
    NeverPastEnd
PROPERTIES
    SoundBooksStaySound
\* Callers may stop sending, and then nothing more happens.
CHECK_DEADLOCK FALSE
