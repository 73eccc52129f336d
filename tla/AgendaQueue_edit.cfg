SPECIFICATION Spec
CONSTANTS
    s1 = s1  s2 = s2  p1 = p1  p2 = p2  p3 = p3  a = a  b = b
    Sources = {s1}
    Pubs = {p1}
    Texts = {a, b}
    SourceOf <- OneSource
    FragCount <- Fragments
    Fresh = 1
    Window = 2
    PostLimit = 1
    BatchSize = 1
    ExtractConcurrency = 2
    MaxAttempts = 3
    StartTime = 4
    MaxTime = 7
    LastPost = 5
INVARIANTS TypeOK LostInTwoWays ComparableIsAnalysed
PROPERTIES StoppedUntilEdited LeavesAnalysed
