\* One address and the requests without one compete for a table of one entry,
\* two requests per window each, under every order of bursts and boundaries.
CONSTANTS
    Client = {c1}
    Local = Local
    RateLimit = 2
    RateWindow = 3
    Second = 2
    TableSize = 1
    Fault = {"origin", "params"}
    MaxTime = 4
    MaxSent = 6
    Blank = Blank
    None = None
SPECIFICATION Spec
INVARIANTS
    TypeOK
    RollingBound
    RefusedForOwnTraffic
    RetryAfterHonest
