CONSTANTS
    None = None
    Channels = 2
    Skipped = {}
    Tokens = 3
    View <- MCView
    Duplex = {1}
    StartPlace <- MCStartPlace
    HostedPlace <- MCHostedPlace
    Readable <- MCReadable
    Fails = {TRUE, FALSE}
    MaxActs = 2
SPECIFICATION FairSpec
INVARIANTS ScanHasClock ListensWhereItSays
PROPERTIES HoldsWhatItHears DwellEnds
