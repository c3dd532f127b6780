\* Two processes write the token file, raise, are killed and lose power, on a
\* platform that cannot always flush a directory.
SPECIFICATION ScenesSpec
CONSTANTS
    Writers = {p, q}
    MaxWrites = 3
    MaxClock = 1
    MaxAge = 1
    Skew = 1
    MaxStall = 0
    SurelySynced = FALSE
INVARIANTS
    TokenWhole
    TempKept
    StaleCleared
PROPERTY
    Atomic
