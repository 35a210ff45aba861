CONSTANTS
    Runs = {"r1", "r2"}
    Groups = {"early"}
    BatchSize = 2
    MaxSamples = 3
    MaxActive = 1
    MaxFaults = 1
    MaxEdits = 1
    FromLatest = {"labels"}
    MaxRestarts = 1
    None = None
SPECIFICATION Spec
INVARIANTS CursorSound
PROPERTIES NothingSentBehindCursor SinkSpec PassedIsArchived
CHECK_DEADLOCK FALSE
