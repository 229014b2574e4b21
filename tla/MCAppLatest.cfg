CONSTANTS
    Channel = {1, 2}
    Squelch = {3, 5}
    Dual = {TRUE, FALSE}
    Conservative = 3
    None = None
    Hosted <- MCHosted
    HostedPlace <- MCHostedPlace
    ScanYields = {TRUE}
    MemoryFails = FALSE
    MaxGeneration = 3
    MaxYielding = 3
SPECIFICATION Spec
INVARIANTS LatestAdopted
