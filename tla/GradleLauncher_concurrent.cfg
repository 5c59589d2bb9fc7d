SPECIFICATION FairSpec
CONSTANTS
    Shells = {p1, p2, p3}
    InitialZips <- AnyZip
    InitialHomes <- AnyHome
    Faults <- AnyFault
    MaxSignals = 3
CHECK_DEADLOCK FALSE
INVARIANTS TypeOK RunsVerified DownloadCleanedUp WholeHomeRefusedByRaceOnly
PROPERTIES CacheOnlyImproves RecoversFromSignals
