CONSTANTS
    Channel = {1}
    Squelch = {3, 5}
    Dual = {FALSE}
    Conservative = 3
    None = None
    Hosted <- MCHosted
    HostedPlace <- MCHostedPlace
    ScanYields = {TRUE, FALSE}
    MemoryFails = TRUE
    MaxGeneration = 5
    MaxYielding = 3
SPECIFICATION FairSpec
INVARIANTS LatestAdoptedInTurn
PROPERTIES LatestReaches RangesOfWholeImage TunesWholeImage BlankPlaceDiscarded
