SPECIFICATION PollSpec
CONSTANTS
    Configured = {"telegram", "rss", "xpoz"}
    Reader = TRUE
    Poll = 1
    StaleAfter = 1
INVARIANTS HealthIsEarned CollectedByItsReader
PROPERTIES Recovers KeepsCollecting
