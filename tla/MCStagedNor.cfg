CONSTANTS
    Bit = {1}
    Blocks = 4
    BlocksPerPage = 2
    BlocksPerSector = 2
    HostData <- MCHostData
SPECIFICATION Spec
INVARIANTS StagingHoldsAll ReadsAsWritten
PROPERTIES CommitsExactly
