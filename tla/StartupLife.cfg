CONSTANTS
    Procs = {p1, p2}
    EnvModes = {"absent", "release"}
    MaxTries = 2
    MaxStarts = 3
    MaxEdits = 1
    MaxFaults = 1
SPECIFICATION FairSpec
INVARIANTS TypeOK SecretStored ReleaseNeverGenerates SnapshotCurrent
PROPERTIES StartsEnd
