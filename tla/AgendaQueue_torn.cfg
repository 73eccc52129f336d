SPECIFICATION Spec
CONSTANTS
    s1 = s1  s2 = s2  p1 = p1  p2 = p2  p3 = p3  a = a  b = b
    Sources = {s1}
    Pubs = {p1, p2}
    Texts = {a}
    SourceOf <- OneSource
    FragCount <- OneFragment
    Fresh = 1
    Window = 2
    PostLimit = 2
    BatchSize = 2
    ExtractConcurrency = 2
    MaxAttempts = 2
    StartTime = 4
    MaxTime = 6
    LastPost = 4
INVARIANT ComparedPostsAreAnalysed
