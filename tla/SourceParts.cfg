SPECIFICATION SourcesSpec
CONSTANTS
    ResumeSetting <- ResumeValues
    BudgetSetting <- BudgetValues
    SpansSetting <- SpansValues
    FeedsSetting <- FeedsValues
    SubsSetting <- SubsValues
    XpozSetting <- XpozValues
    RepliesSetting <- RepliesValues
    TalkSetting <- TalkValues
    ReaderSetting <- ReaderValues
    RefreshSetting <- RefreshValues
INVARIANTS CollectionIsSound ReadsMakeProgress FeedIsSound XpozIsSound CommentsAreSound
PROPERTY ReserveKept
CHECK_DEADLOCK FALSE
