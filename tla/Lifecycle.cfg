CONSTANTS
    InitialStates = {"RUNNING", "PAUSED", "STOPPED"}
    CancelOnExit = TRUE
    MaxAhead = 2
    MaxRequests = 5
    MaxFaults = 2
SPECIFICATION WorkerFairSpec
PROPERTIES
    EntriesObey
    StopCancels
    ReloadDone
