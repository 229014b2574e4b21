CONSTANTS
    r1 = r1
    r2 = r2
    None = None
    Request = {r1}
    Timeout <- MCTimeout
    MaxMs = 2
    MaxCycle = 2
SPECIFICATION FairSpec
INVARIANTS SilentBeforeReceive
PROPERTIES IdentitiesUsedOnce EveryTransmissionEnds AmplifierReleased
