SPECIFICATION Spec
CONSTANTS
    NumPubs = 3
    FragCount <- DigestFirst
    At <- Dates
    Surface <- Surfaces
    Near <- Nearness
    Lookback = 1
    TopK = 1
    Stories = {"s", "t"}
    Released = {"b"}
    Similar <- Alike
    MaxBatches = 2
INVARIANT BatchIsSound
PROPERTIES ImplementsSequential StrictKeepsStories
CHECK_DEADLOCK FALSE
