SPECIFICATION Spec
CONSTANTS
    Runs = {r1, r2}
    Probes = {t1}
    NoClient = NoClient
    MaxPassword = 2
    MaxQueue = 2
    MaxFaults = 1
INVARIANTS
    StatusIsTrue
PROPERTIES
    SupersededStaysOut
    OnlineIsNoticed
    OfflineIsNoticed
