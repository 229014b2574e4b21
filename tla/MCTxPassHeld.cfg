CONSTANTS
    r1 = r1
    None = None
    Request = {r1}
    Timeout <- MCTimeout
    MaxMs = 9
    MaxCycle = 2
    Debounce = 2
    Quiet = 3
    MaxEffects = 8
SPECIFICATION PassSpec
PROPERTIES OneEntryPerPress
