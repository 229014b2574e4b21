CONSTANTS
    hosted = hosted
    left = left
    Place = {hosted, left}
    Slots = 2
    Erased = Erased
    Torn = Torn
    None = None
    ImageBlocks = 2
    PlaceBlocks = 2
    Before = {{}}
    HostedPlace = hosted
    Attempts = 2
    StalePackets = 2
    MaxFaults = 2
SPECIFICATION FairSpec
INVARIANTS KeepsLastPlace ErasesWhenSpent VerifiedRuns
PROPERTIES SessionEnds ImageReaches PlaceReaches
