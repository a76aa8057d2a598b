SPECIFICATION Spec
CONSTANTS
    ArrayLens = {0, 2}
    LongArray = 128
    StrLens = {0, 5}
INVARIANTS VersionsAgree RoundTrip
CHECK_DEADLOCK FALSE
