\* One address, two requests per window, a table with room for everybody.
CONSTANTS
    Client = {c1}
    Local = Local
    RateLimit = 2
    RateWindow = 3
    Second = 2
    TableSize = 2
    Fault = {}
    MaxTime = 5
    MaxSent = 4
    Blank = Blank
    None = None
CHECK_DEADLOCK FALSE
SPECIFICATION Spec
INVARIANTS
    LimitPerMinute
