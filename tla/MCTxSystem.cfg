CONSTANTS
    r1 = r1
    r2 = r2
    None = None
    Request = {r1, r2}
    Timeout <- MCTimeout
    MaxMs = 2
    MaxCycle = 2
SPECIFICATION Spec
INVARIANTS TransmittingIsOnAir FaultLatches WithinDeadline
PROPERTIES KeyedWithAuthority ImplementsLifecycle
