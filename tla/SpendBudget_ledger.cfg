SPECIFICATION Spec
CONSTANTS
    Calls = {c1, c2, c3}
    Limit = 4
    Reservation = 2
    Costs = {1, 3}
    TTL = 2
    DayLength = 3
    MaxTime = 4
INVARIANTS TypeOK LedgerFollowsProvider SpendBounded
PROPERTIES SettledIsFinal RefusalIsJust
SYMMETRY CallSymmetry
CHECK_DEADLOCK FALSE
