SPECIFICATION Spec
CONSTANTS
    NumPubs = 3
    FragCount <- DigestLast
    At <- Dates
    Surface <- Surfaces
    Near <- Nearness
    Lookback = 1
    TopK = 1
    Stories = {"s"}
    Released = {"b"}
    Similar <- Alike
    MaxBatches = 2
INVARIANT ProcessedIsAssigned
CHECK_DEADLOCK FALSE
