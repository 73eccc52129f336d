---------------------------- MODULE SourcePartProofs ----------------------------
(***************************************************************************)
(* What the proofs about the single sources say of the collection as it is *)
(* checked as one: every part of SourceParts is an instance of a module    *)
(* that SourceProofs is about, a behaviour is one of a single part, and    *)
(* what is proved of the module holds of the part, with any settings.      *)
(*                                                                         *)
(* For each part: the facts proved, that they are about its definitions    *)
(* (an instance has its own copies of them), and what follows for a        *)
(* behaviour of the whole.                                                 *)
(***************************************************************************)
EXTENDS SourceParts, TLAPS

\* What an instance below leaves as it is: the parameters of other components.
CONSTANTS
    NumSources, Concurrent, PostCap, RunCap, Fresh, Look, StartTime, MaxTime,
    MaxPosts, Posts, Followed, Old, Reserve, SearchGap, ScanGap, SearchBack, ScanBack,
    Hour, PerHour, Threads, MaxCredits, Groups, Shows, Backdate, MaxArticles, Comments,
    ThreadOf, Blank, Closed, ThreadLimit, MaxEdits, Channels, Others, Slots, MaxVersion,
    NumMessages, Textless, Limit, ParentLimit, MaxTick, MaxRecords
VARIABLES
    now, chan, stored, spans, watermark, delayed, end, step, left, held, from, after,
    page, truncated, since, used, late, time, dated, indexed, credits, balance, doing, place,
    until, found, kept, marks, thread, calls, again, cut, served, article, rows, mark,
    at, group, todo, last, shown, excused, live, deleted, text, row, counter, prior,
    tally, seen, judged, connected, lock, pc, tries, read, to, top, access, rooted, raw,
    got, queue, visited, pending, issues, broken, records

\* A behaviour is one of a single part.
LEMMA SourcesStay == [SourcesNext]_parts =>
    /\ ((part = "resume")' <=> part = "resume")
    /\ ((part = "budget")' <=> part = "budget")
    /\ ((part = "spans")' <=> part = "spans")
    /\ ((part = "feeds")' <=> part = "feeds")
    /\ ((part = "subs")' <=> part = "subs")
    /\ ((part = "xpoz")' <=> part = "xpoz")
    /\ ((part = "threads")' <=> part = "threads")
    /\ ((part = "comments")' <=> part = "comments")
    /\ ((part = "refresh")' <=> part = "refresh")
    /\ ((part = "reader")' <=> part = "reader")
BY DEF SourcesNext, parts, Kept2, Kept3, Kept4, Kept5, Kept6, Kept7, Kept8, Kept9, Kept10,
    Kept11, Kept12, Kept13, Kept14, Kept15, Kept16, Kept17

ResumeFacts == INSTANCE SourceProofs WITH
    NumSources <- ResumeSetting.NumSources, Concurrent <- ResumeSetting.Concurrent,
    PostCap <- ResumeSetting.PostCap, RunCap <- ResumeSetting.RunCap,
    Fresh <- ResumeSetting.Fresh, Look <- ResumeSetting.Look,
    StartTime <- ResumeSetting.StartTime, MaxTime <- ResumeSetting.MaxTime,
    MaxPosts <- ResumeSetting.MaxPosts,
    now <- v1, chan <- v2, stored <- v3, spans <- v4, watermark <- v5, delayed <- v6,
    end <- v7, step <- v8, left <- v9, held <- v10, from <- v11, after <- v12, page <- v13,
    truncated <- v14, since <- v15, used <- v16, late <- v17

\* The facts are about the Resume of SourceParts.
LEMMA ResumeSame ==
    /\ (Resume!ConstantsOK <=> ResumeFacts!ConstantsOK)
    /\ (Resume!Init <=> ResumeFacts!Init)
    /\ (Resume!Next <=> ResumeFacts!Next)
    /\ (Resume!CoveredIsStored <=> ResumeFacts!CoveredIsStored)
    /\ (Resume!NothingSkipped <=> ResumeFacts!NothingSkipped)
    /\ (Resume!EveryInstantCovered <=> ResumeFacts!EveryInstantCovered)
    /\ (Resume!ReadsMakeProgress <=> ResumeFacts!ReadsMakeProgress)
BY DEF
       Resume!IsFiniteSet, Resume!Cardinality, Resume!Covers, Resume!ConstantsOK,
       Resume!Sources, Resume!NoTime, Resume!db, Resume!local, Resume!Ended, Resume!Larger,
       Resume!Smaller, Resume!ReadFloor, Resume!Date, Resume!AtFloor, Resume!Cursor,
       Resume!Unread, Resume!IsPage, Resume!Newest, Resume!Init, Resume!Tick,
       Resume!Second, Resume!EndedNow, Resume!TooLate,
       Resume!Publish, Resume!StartRun, Resume!Batch, Resume!MayBegin, Resume!SkipCovered,
       Resume!SkipDelayed, Resume!SkipCapped, Resume!BeginRead, Resume!BeginRaise,
       Resume!Reading, Resume!ReadOk, Resume!ReadRaise, Resume!ReadError, Resume!StoreItems,
       Resume!MarkCoverage, Resume!MarkPrefix, Resume!Progress, Resume!Resumes,
       Resume!Advance, Resume!StoreRaise, Resume!Forget, Resume!EndRun, Resume!Restart,
       Resume!Next, Resume!CoveredIsStored, Resume!NothingSkipped, Resume!ReadsMakeProgress,
       Resume!EveryInstantCovered, ResumeFacts!IsFiniteSet, ResumeFacts!Cardinality,
       ResumeFacts!Covers, ResumeFacts!ConstantsOK, ResumeFacts!Sources, ResumeFacts!NoTime,
       ResumeFacts!db, ResumeFacts!local, ResumeFacts!Ended, ResumeFacts!Larger,
       ResumeFacts!Smaller, ResumeFacts!ReadFloor, ResumeFacts!Date, ResumeFacts!AtFloor,
       ResumeFacts!Cursor, ResumeFacts!Unread, ResumeFacts!IsPage, ResumeFacts!Newest,
       ResumeFacts!Init, ResumeFacts!Tick, ResumeFacts!Second, ResumeFacts!EndedNow, ResumeFacts!TooLate,
       ResumeFacts!Publish, ResumeFacts!StartRun,
       ResumeFacts!Batch, ResumeFacts!MayBegin, ResumeFacts!SkipCovered,
       ResumeFacts!SkipDelayed, ResumeFacts!SkipCapped, ResumeFacts!BeginRead,
       ResumeFacts!BeginRaise, ResumeFacts!Reading, ResumeFacts!ReadOk,
       ResumeFacts!ReadRaise, ResumeFacts!ReadError, ResumeFacts!StoreItems,
       ResumeFacts!MarkCoverage, ResumeFacts!MarkPrefix, ResumeFacts!Progress,
       ResumeFacts!Resumes, ResumeFacts!Advance, ResumeFacts!StoreRaise, ResumeFacts!Forget,
       ResumeFacts!EndRun, ResumeFacts!Restart, ResumeFacts!Next,
       ResumeFacts!CoveredIsStored, ResumeFacts!NothingSkipped,
       ResumeFacts!ReadsMakeProgress, ResumeFacts!EveryInstantCovered

\* So the whole has them.
LEMMA ResumeHolds ==
    SourcesSpec => [](part = "resume" => (Resume!CoveredIsStored /\
        Resume!NothingSkipped /\ Resume!EveryInstantCovered /\ Resume!ReadsMakeProgress))
<1> SourcesInit /\ part = "resume" => ResumeFacts!Init
    BY ResumeSame DEF SourcesInit
<1> [SourcesNext]_parts /\ part = "resume" => [ResumeFacts!Next]_(ResumeFacts!vars)
    BY ResumeSame DEF SourcesNext, parts, ResumeFacts!db, ResumeFacts!local,
        ResumeFacts!vars
<1> ResumeFacts!Spec => [](ResumeFacts!CoveredIsStored /\ ResumeFacts!NothingSkipped /\
        ResumeFacts!EveryInstantCovered /\ ResumeFacts!ReadsMakeProgress)
    BY SourceConstants, ResumeSame, ResumeFacts!CoverageIsTrue,
        ResumeFacts!WatermarkSkipsNothing, ResumeFacts!NoInstantIsMissing,
        ResumeFacts!PagesMoveOn, PTL DEF ResumeFacts!Setting
<1> ResumeFacts!CoveredIsStored /\ ResumeFacts!NothingSkipped /\
        ResumeFacts!EveryInstantCovered /\ ResumeFacts!ReadsMakeProgress =>
        (Resume!CoveredIsStored /\ Resume!NothingSkipped /\ Resume!EveryInstantCovered /\
        Resume!ReadsMakeProgress)
    BY ResumeSame
<1> QED BY SourcesStay, PTL DEF SourcesSpec, ResumeFacts!Spec

BudgetFacts == INSTANCE SourceProofs WITH
    NumSources <- BudgetSetting.NumSources, Concurrent <- BudgetSetting.Concurrent,
    PostCap <- BudgetSetting.PostCap, RunCap <- BudgetSetting.RunCap,
    Fresh <- BudgetSetting.Fresh, Look <- BudgetSetting.Look,
    StartTime <- BudgetSetting.StartTime, MaxTime <- BudgetSetting.MaxTime,
    MaxPosts <- BudgetSetting.MaxPosts,
    now <- v1, chan <- v2, stored <- v3, spans <- v4, watermark <- v5, delayed <- v6,
    end <- v7, step <- v8, left <- v9, held <- v10, from <- v11, after <- v12, page <- v13,
    truncated <- v14, since <- v15, used <- v16, late <- v17

\* The facts are about the Budget of SourceParts.
LEMMA BudgetSame ==
    /\ (Budget!ConstantsOK <=> BudgetFacts!ConstantsOK)
    /\ (Budget!Init <=> BudgetFacts!Init)
    /\ (Budget!Next <=> BudgetFacts!Next)
    /\ (Budget!TypeOK <=> BudgetFacts!TypeOK)
    /\ (Budget!RunWithinCap <=> BudgetFacts!RunWithinCap)
BY DEF
       Budget!IsFiniteSet, Budget!Cardinality, Budget!Covers, Budget!ConstantsOK,
       Budget!Sources, Budget!NoTime, Budget!db, Budget!local, Budget!Steps, Budget!Ended,
       Budget!Larger, Budget!Smaller, Budget!ReadFloor, Budget!Date, Budget!AtFloor,
       Budget!Cursor, Budget!Unread, Budget!IsPage, Budget!Newest, Budget!Init, Budget!Tick,
       Budget!Second, Budget!EndedNow, Budget!TooLate,
       Budget!Publish, Budget!StartRun, Budget!Batch, Budget!MayBegin, Budget!SkipCovered,
       Budget!SkipDelayed, Budget!SkipCapped, Budget!BeginRead, Budget!BeginRaise,
       Budget!Reading, Budget!ReadOk, Budget!ReadRaise, Budget!ReadError, Budget!StoreItems,
       Budget!MarkCoverage, Budget!MarkPrefix, Budget!Progress, Budget!Resumes,
       Budget!Advance, Budget!StoreRaise, Budget!Forget, Budget!EndRun, Budget!Restart,
       Budget!Next, Budget!TypeOK, Budget!RunWithinCap, BudgetFacts!IsFiniteSet,
       BudgetFacts!Cardinality, BudgetFacts!Covers, BudgetFacts!ConstantsOK,
       BudgetFacts!Sources, BudgetFacts!NoTime, BudgetFacts!db, BudgetFacts!local,
       BudgetFacts!Steps, BudgetFacts!Ended, BudgetFacts!Larger, BudgetFacts!Smaller,
       BudgetFacts!ReadFloor, BudgetFacts!Date, BudgetFacts!AtFloor, BudgetFacts!Cursor,
       BudgetFacts!Unread, BudgetFacts!IsPage, BudgetFacts!Newest, BudgetFacts!Init,
       BudgetFacts!Tick, BudgetFacts!Second, BudgetFacts!EndedNow, BudgetFacts!TooLate,
       BudgetFacts!Publish, BudgetFacts!StartRun, BudgetFacts!Batch,
       BudgetFacts!MayBegin, BudgetFacts!SkipCovered, BudgetFacts!SkipDelayed,
       BudgetFacts!SkipCapped, BudgetFacts!BeginRead, BudgetFacts!BeginRaise,
       BudgetFacts!Reading, BudgetFacts!ReadOk, BudgetFacts!ReadRaise,
       BudgetFacts!ReadError, BudgetFacts!StoreItems, BudgetFacts!MarkCoverage,
       BudgetFacts!MarkPrefix, BudgetFacts!Progress, BudgetFacts!Resumes,
       BudgetFacts!Advance, BudgetFacts!StoreRaise, BudgetFacts!Forget, BudgetFacts!EndRun,
       BudgetFacts!Restart, BudgetFacts!Next, BudgetFacts!TypeOK, BudgetFacts!RunWithinCap

\* So the whole has them.
LEMMA BudgetHolds ==
    SourcesSpec => [](part = "budget" => (Budget!TypeOK /\ Budget!RunWithinCap))
<1> SourcesInit /\ part = "budget" => BudgetFacts!Init
    BY BudgetSame DEF SourcesInit
<1> [SourcesNext]_parts /\ part = "budget" => [BudgetFacts!Next]_(BudgetFacts!vars)
    BY BudgetSame DEF SourcesNext, parts, BudgetFacts!db, BudgetFacts!local,
        BudgetFacts!vars
<1> BudgetFacts!Spec => [](BudgetFacts!TypeOK /\ BudgetFacts!RunWithinCap)
    BY SourceConstants, BudgetSame, BudgetFacts!CollectorTypes, BudgetFacts!RunIsCapped,
        PTL DEF BudgetFacts!Setting
<1> BudgetFacts!TypeOK /\ BudgetFacts!RunWithinCap => (Budget!TypeOK /\ Budget!RunWithinCap)
    BY BudgetSame
<1> QED BY SourcesStay, PTL DEF SourcesSpec, BudgetFacts!Spec

SpansFacts == INSTANCE SourceProofs WITH
    MaxTick <- SpansSetting.MaxTick, MaxRecords <- SpansSetting.MaxRecords,
    records <- v1

\* The facts are about the Spans of SourceParts.
LEMMA SpansSame ==
    /\ (Spans!ConstantsOK <=> SpansFacts!Joins!ConstantsOK)
    /\ (Spans!Init <=> SpansFacts!Joins!Init)
    /\ (Spans!Next <=> SpansFacts!Joins!Next)
    /\ (Spans!MergeIsCoverage <=> SpansFacts!Joins!MergeIsCoverage)
BY DEF
       Spans!Covers, Spans!IsFiniteSet, Spans!Cardinality, Spans!ConstantsOK, Spans!Ticks,
       Spans!Spans, Spans!Before, Spans!Sorted, Spans!Merge, Spans!Merged,
       Spans!CoverageForWindow, Spans!Loaded, Spans!Init, Spans!MarkCoverage, Spans!Next,
       Spans!MergeIsCoverage, SpansFacts!Joins!Covers, SpansFacts!Joins!IsFiniteSet,
       SpansFacts!Joins!Cardinality, SpansFacts!Joins!ConstantsOK, SpansFacts!Joins!Ticks,
       SpansFacts!Joins!Spans, SpansFacts!Joins!Before, SpansFacts!Joins!Sorted,
       SpansFacts!Joins!Merge, SpansFacts!Joins!Merged, SpansFacts!Joins!CoverageForWindow,
       SpansFacts!Joins!Loaded, SpansFacts!Joins!Init, SpansFacts!Joins!MarkCoverage,
       SpansFacts!Joins!Next, SpansFacts!Joins!MergeIsCoverage

\* So the whole has them.
LEMMA SpansHolds ==
    SourcesSpec => [](part = "spans" => Spans!MergeIsCoverage)
<1> SourcesInit /\ part = "spans" => SpansFacts!Joins!Init
    BY SpansSame DEF SourcesInit
<1> [SourcesNext]_parts /\ part = "spans" => [SpansFacts!Joins!Next]_v1
    BY SpansSame DEF SourcesNext, parts
<1> SpansFacts!Joins!Spec => [](SpansFacts!Joins!MergeIsCoverage)
    BY SourceConstants, SpansSame, SpansFacts!MergeAnswers, PTL
<1> SpansFacts!Joins!MergeIsCoverage => Spans!MergeIsCoverage
    BY SpansSame
<1> QED BY SourcesStay, PTL DEF SourcesSpec, SpansFacts!Joins!Spec

FeedsFacts == INSTANCE SourceProofs WITH
    Groups <- FeedsSetting.Groups, Shows <- FeedsSetting.Shows,
    Fresh <- FeedsSetting.Fresh, Backdate <- FeedsSetting.Backdate,
    MaxTime <- FeedsSetting.MaxTime, MaxArticles <- FeedsSetting.MaxArticles,
    now <- v1, article <- v2, stored <- v3, rows <- v4, mark <- v5, at <- v6, end <- v7,
    group <- v8, todo <- v9, from <- v10, last <- v11, page <- v12, shown <- v13,
    excused <- v14

\* The facts are about the Feeds of SourceParts.
LEMMA FeedsSame ==
    /\ (Feeds!ConstantsOK <=> FeedsFacts!Feeds!ConstantsOK)
    /\ (Feeds!FeedInit <=> FeedsFacts!Feeds!FeedInit)
    /\ (Feeds!FeedNext <=> FeedsFacts!Feeds!FeedNext)
    /\ (Feeds!FeedTypeOK <=> FeedsFacts!Feeds!FeedTypeOK)
    /\ (Feeds!CoveredIsStored <=> FeedsFacts!Feeds!CoveredIsStored)
    /\ (Feeds!NothingSkipped <=> FeedsFacts!Feeds!NothingSkipped)
BY DEF
       Feeds!IsFiniteSet, Feeds!Cardinality, Feeds!FeedSources, Feeds!ConstantsOK,
       Feeds!None, Feeds!feedDb, Feeds!feedCall, Feeds!Of, Feeds!Date, Feeds!Articles,
       Feeds!Group, Feeds!First, Feeds!NoTimes, Feeds!FeedInit, Feeds!FeedTick,
       Feeds!Publish, Feeds!Collect, Feeds!Clear, Feeds!Larger, Feeds!ReadMarks,
       Feeds!IsShown, Feeds!Request, Feeds!Wanted, Feeds!Complete, Feeds!Store,
       Feeds!Marked, Feeds!Cover, Feeds!NextGroup, Feeds!Reached, Feeds!Advance,
       Feeds!Raise, Feeds!MarkIncomplete, Feeds!Abort, Feeds!FeedNext, Feeds!FeedTypeOK,
       Feeds!CoveredIsStored, Feeds!NothingSkipped, FeedsFacts!Feeds!IsFiniteSet,
       FeedsFacts!Feeds!Cardinality, FeedsFacts!Feeds!FeedSources,
       FeedsFacts!Feeds!ConstantsOK, FeedsFacts!Feeds!None, FeedsFacts!Feeds!feedDb,
       FeedsFacts!Feeds!feedCall, FeedsFacts!Feeds!Of, FeedsFacts!Feeds!Date,
       FeedsFacts!Feeds!Articles, FeedsFacts!Feeds!Group, FeedsFacts!Feeds!First,
       FeedsFacts!Feeds!NoTimes, FeedsFacts!Feeds!FeedInit, FeedsFacts!Feeds!FeedTick,
       FeedsFacts!Feeds!Publish, FeedsFacts!Feeds!Collect, FeedsFacts!Feeds!Clear,
       FeedsFacts!Feeds!Larger, FeedsFacts!Feeds!ReadMarks, FeedsFacts!Feeds!IsShown,
       FeedsFacts!Feeds!Request, FeedsFacts!Feeds!Wanted, FeedsFacts!Feeds!Complete,
       FeedsFacts!Feeds!Store, FeedsFacts!Feeds!Marked, FeedsFacts!Feeds!Cover,
       FeedsFacts!Feeds!NextGroup, FeedsFacts!Feeds!Reached, FeedsFacts!Feeds!Advance,
       FeedsFacts!Feeds!Raise, FeedsFacts!Feeds!MarkIncomplete, FeedsFacts!Feeds!Abort,
       FeedsFacts!Feeds!FeedNext, FeedsFacts!Feeds!FeedTypeOK,
       FeedsFacts!Feeds!CoveredIsStored, FeedsFacts!Feeds!NothingSkipped

\* So the whole has them.
LEMMA FeedsHolds ==
    SourcesSpec => [](part = "feeds" => (Feeds!FeedTypeOK /\ Feeds!CoveredIsStored /\
        Feeds!NothingSkipped))
<1> SourcesInit /\ part = "feeds" => FeedsFacts!Feeds!FeedInit
    BY FeedsSame DEF SourcesInit
<1> [SourcesNext]_parts /\ part = "feeds" =>
        [FeedsFacts!Feeds!FeedNext]_(FeedsFacts!Feeds!feedVars)
    BY FeedsSame DEF SourcesNext, parts, FeedsFacts!Feeds!feedDb,
        FeedsFacts!Feeds!feedCall, FeedsFacts!Feeds!feedVars
<1> FeedsFacts!Feeds!FeedSpec => [](FeedsFacts!Feeds!FeedTypeOK /\
        FeedsFacts!Feeds!CoveredIsStored /\ FeedsFacts!Feeds!NothingSkipped)
    BY SourceConstants, FeedsSame, FeedsFacts!FeedCoverage, PTL
<1> FeedsFacts!Feeds!FeedTypeOK /\ FeedsFacts!Feeds!CoveredIsStored /\
        FeedsFacts!Feeds!NothingSkipped => (Feeds!FeedTypeOK /\ Feeds!CoveredIsStored /\
        Feeds!NothingSkipped)
    BY FeedsSame
<1> QED BY SourcesStay, PTL DEF SourcesSpec, FeedsFacts!Feeds!FeedSpec

SubsFacts == INSTANCE SourceProofs WITH
    Groups <- SubsSetting.Groups, Shows <- SubsSetting.Shows, Fresh <- SubsSetting.Fresh,
    Backdate <- SubsSetting.Backdate, MaxTime <- SubsSetting.MaxTime,
    MaxArticles <- SubsSetting.MaxArticles,
    now <- v1, article <- v2, stored <- v3, rows <- v4, mark <- v5, at <- v6, end <- v7,
    group <- v8, todo <- v9, from <- v10, last <- v11, page <- v12, shown <- v13,
    excused <- v14

\* The facts are about the Subs of SourceParts.
LEMMA SubsSame ==
    /\ (Subs!ConstantsOK <=> SubsFacts!Feeds!ConstantsOK)
    /\ (Subs!FeedInit <=> SubsFacts!Feeds!FeedInit)
    /\ (Subs!FeedNext <=> SubsFacts!Feeds!FeedNext)
    /\ (Subs!FeedTypeOK <=> SubsFacts!Feeds!FeedTypeOK)
    /\ (Subs!CoveredIsStored <=> SubsFacts!Feeds!CoveredIsStored)
    /\ (Subs!NothingSkipped <=> SubsFacts!Feeds!NothingSkipped)
BY DEF
       Subs!IsFiniteSet, Subs!Cardinality, Subs!FeedSources, Subs!ConstantsOK, Subs!None,
       Subs!feedDb, Subs!feedCall, Subs!Of, Subs!Date, Subs!Articles, Subs!Group,
       Subs!First, Subs!NoTimes, Subs!FeedInit, Subs!FeedTick, Subs!Publish, Subs!Collect,
       Subs!Clear, Subs!Larger, Subs!ReadMarks, Subs!IsShown, Subs!Request, Subs!Wanted,
       Subs!Complete, Subs!Store, Subs!Marked, Subs!Cover, Subs!NextGroup, Subs!Reached,
       Subs!Advance, Subs!Raise, Subs!MarkIncomplete, Subs!Abort, Subs!FeedNext,
       Subs!FeedTypeOK, Subs!CoveredIsStored, Subs!NothingSkipped,
       SubsFacts!Feeds!IsFiniteSet, SubsFacts!Feeds!Cardinality,
       SubsFacts!Feeds!FeedSources, SubsFacts!Feeds!ConstantsOK, SubsFacts!Feeds!None,
       SubsFacts!Feeds!feedDb, SubsFacts!Feeds!feedCall, SubsFacts!Feeds!Of,
       SubsFacts!Feeds!Date, SubsFacts!Feeds!Articles, SubsFacts!Feeds!Group,
       SubsFacts!Feeds!First, SubsFacts!Feeds!NoTimes, SubsFacts!Feeds!FeedInit,
       SubsFacts!Feeds!FeedTick, SubsFacts!Feeds!Publish, SubsFacts!Feeds!Collect,
       SubsFacts!Feeds!Clear, SubsFacts!Feeds!Larger, SubsFacts!Feeds!ReadMarks,
       SubsFacts!Feeds!IsShown, SubsFacts!Feeds!Request, SubsFacts!Feeds!Wanted,
       SubsFacts!Feeds!Complete, SubsFacts!Feeds!Store, SubsFacts!Feeds!Marked,
       SubsFacts!Feeds!Cover, SubsFacts!Feeds!NextGroup, SubsFacts!Feeds!Reached,
       SubsFacts!Feeds!Advance, SubsFacts!Feeds!Raise, SubsFacts!Feeds!MarkIncomplete,
       SubsFacts!Feeds!Abort, SubsFacts!Feeds!FeedNext, SubsFacts!Feeds!FeedTypeOK,
       SubsFacts!Feeds!CoveredIsStored, SubsFacts!Feeds!NothingSkipped

\* So the whole has them.
LEMMA SubsHolds ==
    SourcesSpec => [](part = "subs" => (Subs!FeedTypeOK /\ Subs!CoveredIsStored /\
        Subs!NothingSkipped))
<1> SourcesInit /\ part = "subs" => SubsFacts!Feeds!FeedInit
    BY SubsSame DEF SourcesInit
<1> [SourcesNext]_parts /\ part = "subs" =>
        [SubsFacts!Feeds!FeedNext]_(SubsFacts!Feeds!feedVars)
    BY SubsSame DEF SourcesNext, parts, SubsFacts!Feeds!feedDb, SubsFacts!Feeds!feedCall,
        SubsFacts!Feeds!feedVars
<1> SubsFacts!Feeds!FeedSpec => [](SubsFacts!Feeds!FeedTypeOK /\
        SubsFacts!Feeds!CoveredIsStored /\ SubsFacts!Feeds!NothingSkipped)
    BY SourceConstants, SubsSame, SubsFacts!FeedCoverage, PTL
<1> SubsFacts!Feeds!FeedTypeOK /\ SubsFacts!Feeds!CoveredIsStored /\
        SubsFacts!Feeds!NothingSkipped => (Subs!FeedTypeOK /\ Subs!CoveredIsStored /\
        Subs!NothingSkipped)
    BY SubsSame
<1> QED BY SourcesStay, PTL DEF SourcesSpec, SubsFacts!Feeds!FeedSpec

XpozFacts == INSTANCE SourceProofs WITH
    Posts <- XpozSetting.Posts, Followed <- XpozSetting.Followed, Old <- XpozSetting.Old,
    Reserve <- XpozSetting.Reserve, SearchGap <- XpozSetting.SearchGap,
    ScanGap <- XpozSetting.ScanGap, SearchBack <- XpozSetting.SearchBack,
    ScanBack <- XpozSetting.ScanBack, Fresh <- XpozSetting.Fresh, Hour <- XpozSetting.Hour,
    PerHour <- XpozSetting.PerHour, Threads <- XpozSetting.Threads,
    MaxTime <- XpozSetting.MaxTime, MaxCredits <- XpozSetting.MaxCredits,
    time <- v1, dated <- v2, indexed <- v3, credits <- v4, balance <- v5, doing <- v6,
    place <- v7, until <- v8, found <- v9, kept <- v10, marks <- v11, thread <- v12,
    since <- v13, calls <- v14, again <- v15, cut <- v16, served <- v17

\* The facts are about the Xpoz of SourceParts.
LEMMA XpozSame ==
    /\ (Xpoz!ConstantsOK <=> XpozFacts!Xpoz!ConstantsOK)
    /\ (Xpoz!XpozInit <=> XpozFacts!Xpoz!XpozInit)
    /\ (Xpoz!XpozNext <=> XpozFacts!Xpoz!XpozNext)
    /\ (Xpoz!XpozTypeOK <=> XpozFacts!Xpoz!XpozTypeOK)
    /\ (Xpoz!LateIndexedKept <=> XpozFacts!Xpoz!LateIndexedKept)
    /\ (Xpoz!OneCopy <=> XpozFacts!Xpoz!OneCopy)
    /\ (Xpoz!ReserveKept <=> XpozFacts!Xpoz!ReserveKept)
BY DEF
       Xpoz!IsFiniteSet, Xpoz!Cardinality, Xpoz!ConstantsOK, Xpoz!Never, Xpoz!xpozDb,
       Xpoz!xpozCall, Xpoz!xpozHist, Xpoz!Reads, Xpoz!Later, Xpoz!Earlier, Xpoz!XpozInit,
       Xpoz!XpozTick, Xpoz!Post, Xpoz!Index, Xpoz!OthersSpend, Xpoz!Refill, Xpoz!Gap,
       Xpoz!Back, Xpoz!BeginRead, Xpoz!QueryStart, Xpoz!SourceOf, Xpoz!Recent,
       Xpoz!BeginThread, Xpoz!Attempted, Xpoz!SaveAttempt, Xpoz!Over, Xpoz!Refreshed,
       Xpoz!Check, Xpoz!Indexed, Xpoz!Charged, Xpoz!ReadCall, Xpoz!Called, Xpoz!ThreadCall,
       Xpoz!CallFails, Xpoz!Store, Xpoz!Mark, Xpoz!SaveThread, Xpoz!GiveUp, Xpoz!Die,
       Xpoz!XpozNext, Xpoz!XpozTypeOK, Xpoz!ReserveKept, Xpoz!LateIndexedKept, Xpoz!OneCopy,
       XpozFacts!Xpoz!IsFiniteSet, XpozFacts!Xpoz!Cardinality, XpozFacts!Xpoz!ConstantsOK,
       XpozFacts!Xpoz!Never, XpozFacts!Xpoz!xpozDb, XpozFacts!Xpoz!xpozCall,
       XpozFacts!Xpoz!xpozHist, XpozFacts!Xpoz!Reads, XpozFacts!Xpoz!Later,
       XpozFacts!Xpoz!Earlier, XpozFacts!Xpoz!XpozInit, XpozFacts!Xpoz!XpozTick,
       XpozFacts!Xpoz!Post, XpozFacts!Xpoz!Index, XpozFacts!Xpoz!OthersSpend,
       XpozFacts!Xpoz!Refill, XpozFacts!Xpoz!Gap, XpozFacts!Xpoz!Back,
       XpozFacts!Xpoz!BeginRead, XpozFacts!Xpoz!QueryStart, XpozFacts!Xpoz!SourceOf,
       XpozFacts!Xpoz!Recent, XpozFacts!Xpoz!BeginThread, XpozFacts!Xpoz!Attempted,
       XpozFacts!Xpoz!SaveAttempt, XpozFacts!Xpoz!Over, XpozFacts!Xpoz!Refreshed,
       XpozFacts!Xpoz!Check, XpozFacts!Xpoz!Indexed, XpozFacts!Xpoz!Charged,
       XpozFacts!Xpoz!ReadCall, XpozFacts!Xpoz!Called, XpozFacts!Xpoz!ThreadCall,
       XpozFacts!Xpoz!CallFails, XpozFacts!Xpoz!Store, XpozFacts!Xpoz!Mark,
       XpozFacts!Xpoz!SaveThread, XpozFacts!Xpoz!GiveUp, XpozFacts!Xpoz!Die,
       XpozFacts!Xpoz!XpozNext, XpozFacts!Xpoz!XpozTypeOK, XpozFacts!Xpoz!ReserveKept,
       XpozFacts!Xpoz!LateIndexedKept, XpozFacts!Xpoz!OneCopy

\* So the whole has them.
LEMMA XpozHolds ==
    SourcesSpec =>
        /\ [](part = "xpoz" => (Xpoz!XpozTypeOK /\ Xpoz!LateIndexedKept /\ Xpoz!OneCopy))
        /\ [][part = "xpoz" => Xpoz!ReserveKept]_parts
<1> SourcesInit /\ part = "xpoz" => XpozFacts!Xpoz!XpozInit
    BY XpozSame DEF SourcesInit
<1> [SourcesNext]_parts /\ part = "xpoz" =>
        [XpozFacts!Xpoz!XpozNext]_(XpozFacts!Xpoz!xpozVars)
    BY XpozSame DEF SourcesNext, parts, XpozFacts!Xpoz!xpozDb, XpozFacts!Xpoz!xpozCall,
        XpozFacts!Xpoz!xpozHist, XpozFacts!Xpoz!xpozVars
<1> [SourcesNext]_parts /\ part = "xpoz" /\
        [XpozFacts!Xpoz!ReserveKept]_(XpozFacts!Xpoz!xpozVars) => [part = "xpoz" =>
        Xpoz!ReserveKept]_parts
    BY XpozSame DEF SourcesNext, parts, XpozFacts!Xpoz!xpozDb, XpozFacts!Xpoz!xpozCall,
        XpozFacts!Xpoz!xpozHist, XpozFacts!Xpoz!xpozVars
<1> XpozFacts!Xpoz!XpozSpec => [](XpozFacts!Xpoz!XpozTypeOK /\
        XpozFacts!Xpoz!LateIndexedKept /\ XpozFacts!Xpoz!OneCopy) /\
        [][XpozFacts!Xpoz!ReserveKept]_(XpozFacts!Xpoz!xpozVars)
    BY SourceConstants, XpozSame, XpozFacts!XpozTypes, XpozFacts!LatePostsAreCaught,
        XpozFacts!KeptOnce, XpozFacts!ReserveHolds, PTL
<1> XpozFacts!Xpoz!XpozTypeOK /\ XpozFacts!Xpoz!LateIndexedKept /\ XpozFacts!Xpoz!OneCopy
        => (Xpoz!XpozTypeOK /\ Xpoz!LateIndexedKept /\ Xpoz!OneCopy)
    BY XpozSame
<1> QED BY SourcesStay, PTL DEF SourcesSpec, XpozFacts!Xpoz!XpozSpec

RepliesFacts == INSTANCE SourceProofs WITH
    Posts <- RepliesSetting.Posts, Followed <- RepliesSetting.Followed,
    Old <- RepliesSetting.Old, Reserve <- RepliesSetting.Reserve,
    SearchGap <- RepliesSetting.SearchGap, ScanGap <- RepliesSetting.ScanGap,
    SearchBack <- RepliesSetting.SearchBack, ScanBack <- RepliesSetting.ScanBack,
    Fresh <- RepliesSetting.Fresh, Hour <- RepliesSetting.Hour,
    PerHour <- RepliesSetting.PerHour, Threads <- RepliesSetting.Threads,
    MaxTime <- RepliesSetting.MaxTime, MaxCredits <- RepliesSetting.MaxCredits,
    time <- v1, dated <- v2, indexed <- v3, credits <- v4, balance <- v5, doing <- v6,
    place <- v7, until <- v8, found <- v9, kept <- v10, marks <- v11, thread <- v12,
    since <- v13, calls <- v14, again <- v15, cut <- v16, served <- v17

\* The facts are about the Replies of SourceParts.
LEMMA RepliesSame ==
    /\ (Replies!ConstantsOK <=> RepliesFacts!Xpoz!ConstantsOK)
    /\ (Replies!XpozInit <=> RepliesFacts!Xpoz!XpozInit)
    /\ (Replies!XpozNext <=> RepliesFacts!Xpoz!XpozNext)
    /\ (Replies!XpozTypeOK <=> RepliesFacts!Xpoz!XpozTypeOK)
    /\ (Replies!ThreadsPaced <=> RepliesFacts!Xpoz!ThreadsPaced)
    /\ (Replies!ReserveKept <=> RepliesFacts!Xpoz!ReserveKept)
BY DEF
       Replies!IsFiniteSet, Replies!Cardinality, Replies!ConstantsOK, Replies!Never,
       Replies!xpozDb, Replies!xpozCall, Replies!xpozHist, Replies!Reads, Replies!Later,
       Replies!Earlier, Replies!XpozInit, Replies!XpozTick, Replies!Post, Replies!Index,
       Replies!OthersSpend, Replies!Refill, Replies!Gap, Replies!Back, Replies!BeginRead,
       Replies!QueryStart, Replies!SourceOf, Replies!Recent, Replies!BeginThread,
       Replies!Attempted, Replies!SaveAttempt, Replies!Over, Replies!Refreshed,
       Replies!Check, Replies!Indexed, Replies!Charged, Replies!ReadCall, Replies!Called,
       Replies!ThreadCall, Replies!CallFails, Replies!Store, Replies!Mark,
       Replies!SaveThread, Replies!GiveUp, Replies!Die, Replies!XpozNext,
       Replies!XpozTypeOK, Replies!ReserveKept, Replies!ThreadsPaced,
       RepliesFacts!Xpoz!IsFiniteSet, RepliesFacts!Xpoz!Cardinality,
       RepliesFacts!Xpoz!ConstantsOK, RepliesFacts!Xpoz!Never, RepliesFacts!Xpoz!xpozDb,
       RepliesFacts!Xpoz!xpozCall, RepliesFacts!Xpoz!xpozHist, RepliesFacts!Xpoz!Reads,
       RepliesFacts!Xpoz!Later, RepliesFacts!Xpoz!Earlier, RepliesFacts!Xpoz!XpozInit,
       RepliesFacts!Xpoz!XpozTick, RepliesFacts!Xpoz!Post, RepliesFacts!Xpoz!Index,
       RepliesFacts!Xpoz!OthersSpend, RepliesFacts!Xpoz!Refill, RepliesFacts!Xpoz!Gap,
       RepliesFacts!Xpoz!Back, RepliesFacts!Xpoz!BeginRead, RepliesFacts!Xpoz!QueryStart,
       RepliesFacts!Xpoz!SourceOf, RepliesFacts!Xpoz!Recent, RepliesFacts!Xpoz!BeginThread,
       RepliesFacts!Xpoz!Attempted, RepliesFacts!Xpoz!SaveAttempt, RepliesFacts!Xpoz!Over,
       RepliesFacts!Xpoz!Refreshed, RepliesFacts!Xpoz!Check, RepliesFacts!Xpoz!Indexed,
       RepliesFacts!Xpoz!Charged, RepliesFacts!Xpoz!ReadCall, RepliesFacts!Xpoz!Called,
       RepliesFacts!Xpoz!ThreadCall, RepliesFacts!Xpoz!CallFails, RepliesFacts!Xpoz!Store,
       RepliesFacts!Xpoz!Mark, RepliesFacts!Xpoz!SaveThread, RepliesFacts!Xpoz!GiveUp,
       RepliesFacts!Xpoz!Die, RepliesFacts!Xpoz!XpozNext, RepliesFacts!Xpoz!XpozTypeOK,
       RepliesFacts!Xpoz!ReserveKept, RepliesFacts!Xpoz!ThreadsPaced

\* So the whole has them.
LEMMA RepliesHolds ==
    SourcesSpec =>
        /\ [](part = "threads" => (Replies!XpozTypeOK /\ Replies!ThreadsPaced))
        /\ [][part = "threads" => Replies!ReserveKept]_parts
<1> SourcesInit /\ part = "threads" => RepliesFacts!Xpoz!XpozInit
    BY RepliesSame DEF SourcesInit
<1> [SourcesNext]_parts /\ part = "threads" =>
        [RepliesFacts!Xpoz!XpozNext]_(RepliesFacts!Xpoz!xpozVars)
    BY RepliesSame DEF SourcesNext, parts, RepliesFacts!Xpoz!xpozDb,
        RepliesFacts!Xpoz!xpozCall, RepliesFacts!Xpoz!xpozHist, RepliesFacts!Xpoz!xpozVars
<1> [SourcesNext]_parts /\ part = "threads" /\
        [RepliesFacts!Xpoz!ReserveKept]_(RepliesFacts!Xpoz!xpozVars) =>
        [part = "threads" => Replies!ReserveKept]_parts
    BY RepliesSame DEF SourcesNext, parts, RepliesFacts!Xpoz!xpozDb,
        RepliesFacts!Xpoz!xpozCall, RepliesFacts!Xpoz!xpozHist, RepliesFacts!Xpoz!xpozVars
<1> RepliesFacts!Xpoz!XpozSpec => [](RepliesFacts!Xpoz!XpozTypeOK /\
        RepliesFacts!Xpoz!ThreadsPaced) /\
        [][RepliesFacts!Xpoz!ReserveKept]_(RepliesFacts!Xpoz!xpozVars)
    BY SourceConstants, RepliesSame, RepliesFacts!XpozTypes, RepliesFacts!ThreadsArePaced,
        RepliesFacts!ReserveHolds, PTL
<1> RepliesFacts!Xpoz!XpozTypeOK /\ RepliesFacts!Xpoz!ThreadsPaced =>
        (Replies!XpozTypeOK /\ Replies!ThreadsPaced)
    BY RepliesSame
<1> QED BY SourcesStay, PTL DEF SourcesSpec, RepliesFacts!Xpoz!XpozSpec

TalkFacts == INSTANCE SourceProofs WITH
    Posts <- TalkSetting.Posts, Comments <- TalkSetting.Comments,
    ThreadOf <- TalkSetting.ThreadOf, Blank <- TalkSetting.Blank,
    Closed <- TalkSetting.Closed, ThreadLimit <- TalkSetting.ThreadLimit,
    MaxEdits <- TalkSetting.MaxEdits,
    live <- v1, deleted <- v2, text <- v3, row <- v4, thread <- v5, at <- v6,
    counter <- v7, prior <- v8, tally <- v9, seen <- v10, judged <- v11

\* The facts are about the Talk of SourceParts.
LEMMA TalkSame ==
    /\ (Talk!ConstantsOK <=> TalkFacts!Talk!ConstantsOK)
    /\ (Talk!Init <=> TalkFacts!Talk!Init)
    /\ (Talk!Next <=> TalkFacts!Talk!Next)
    /\ (Talk!TypeOK <=> TalkFacts!Talk!TypeOK)
    /\ (Talk!MissedAtMostDeleted <=> TalkFacts!Talk!MissedAtMostDeleted)
    /\ (Talk!CountIsNotInflated <=> TalkFacts!Talk!CountIsNotInflated)
    /\ (Talk!ClassifiedAsStored <=> TalkFacts!Talk!ClassifiedAsStored)
<1>1. (Talk!Next <=> TalkFacts!Talk!Next)
  <2>1. \A c \in TalkSetting.Comments : Talk!Comment(c) <=> TalkFacts!Talk!Comment(c)
    BY DEF
      Talk!db, Talk!local, Talk!Comment, TalkFacts!Talk!db, TalkFacts!Talk!local,
      TalkFacts!Talk!Comment
  <2>2. \A c \in TalkSetting.Comments : Talk!Delete(c) <=> TalkFacts!Talk!Delete(c)
    BY DEF
      Talk!db, Talk!local, Talk!Delete, TalkFacts!Talk!db, TalkFacts!Talk!local,
      TalkFacts!Talk!Delete
  <2>3. \A c \in TalkSetting.Comments : Talk!Edit(c) <=> TalkFacts!Talk!Edit(c)
    BY DEF
      Talk!db, Talk!local, Talk!Edit, TalkFacts!Talk!db, TalkFacts!Talk!local,
      TalkFacts!Talk!Edit
  <2>4. \A c \in TalkSetting.Comments : Talk!Classify(c) <=> TalkFacts!Talk!Classify(c)
    BY DEF
      Talk!tg, Talk!local, Talk!NoRow, Talk!Classify, TalkFacts!Talk!tg,
      TalkFacts!Talk!local, TalkFacts!Talk!NoRow, TalkFacts!Talk!Classify
  <2>5. \A p \in TalkSetting.Posts : Talk!Nobody(p) <=> TalkFacts!Talk!Nobody(p)
    BY DEF
      Talk!tg, Talk!db, Talk!NoCounter, Talk!NoThread, Talk!Upserted, Talk!SaveThread,
      Talk!Over, Talk!Onwards, Talk!Handle, Talk!Nobody, TalkFacts!Talk!tg,
      TalkFacts!Talk!db, TalkFacts!Talk!NoCounter, TalkFacts!Talk!NoThread,
      TalkFacts!Talk!Upserted, TalkFacts!Talk!SaveThread, TalkFacts!Talk!Over,
      TalkFacts!Talk!Onwards, TalkFacts!Talk!Handle, TalkFacts!Talk!Nobody
  <2>6. \A p \in TalkSetting.Posts : Talk!Skip(p) <=> TalkFacts!Talk!Skip(p)
    BY DEF
      Talk!tg, Talk!db, Talk!NoCounter, Talk!NoThread, Talk!In, Talk!Settled, Talk!Over,
      Talk!Onwards, Talk!Handle, Talk!Unchanged, Talk!Skip, TalkFacts!Talk!tg,
      TalkFacts!Talk!db, TalkFacts!Talk!NoCounter, TalkFacts!Talk!NoThread,
      TalkFacts!Talk!In, TalkFacts!Talk!Settled, TalkFacts!Talk!Over,
      TalkFacts!Talk!Onwards, TalkFacts!Talk!Handle, TalkFacts!Talk!Unchanged,
      TalkFacts!Talk!Skip
  <2>7. \A p \in TalkSetting.Posts : Talk!Scan(p) <=> TalkFacts!Talk!Scan(p)
    BY DEF
      Talk!IsFiniteSet, Talk!Cardinality, Talk!tg, Talk!NoCounter, Talk!NoThread,
      Talk!Failures, Talk!In, Talk!Classified, Talk!Page, Talk!Fetches, Talk!Upserted,
      Talk!SaveThread, Talk!Settled, Talk!Over, Talk!Onwards, Talk!Handle, Talk!Unchanged,
      Talk!StoredCount, Talk!Scan, TalkFacts!Talk!IsFiniteSet, TalkFacts!Talk!Cardinality,
      TalkFacts!Talk!tg, TalkFacts!Talk!NoCounter, TalkFacts!Talk!NoThread,
      TalkFacts!Talk!Failures, TalkFacts!Talk!In, TalkFacts!Talk!Classified,
      TalkFacts!Talk!Page, TalkFacts!Talk!Fetches, TalkFacts!Talk!Upserted,
      TalkFacts!Talk!SaveThread, TalkFacts!Talk!Settled, TalkFacts!Talk!Over,
      TalkFacts!Talk!Onwards, TalkFacts!Talk!Handle, TalkFacts!Talk!Unchanged,
      TalkFacts!Talk!StoredCount, TalkFacts!Talk!Scan
  <2>8. Talk!Count <=> TalkFacts!Talk!Count
    BY DEF
      Talk!IsFiniteSet, Talk!Cardinality, Talk!tg, Talk!db, Talk!NoCounter, Talk!In,
      Talk!Count, TalkFacts!Talk!IsFiniteSet, TalkFacts!Talk!Cardinality, TalkFacts!Talk!tg,
      TalkFacts!Talk!db, TalkFacts!Talk!NoCounter, TalkFacts!Talk!In, TalkFacts!Talk!Count
  <2>9. Talk!Stop <=> TalkFacts!Talk!Stop
    BY DEF
      Talk!tg, Talk!db, Talk!NoCounter, Talk!NoThread, Talk!Over, Talk!Stop,
      TalkFacts!Talk!tg, TalkFacts!Talk!db, TalkFacts!Talk!NoCounter,
      TalkFacts!Talk!NoThread, TalkFacts!Talk!Over, TalkFacts!Talk!Stop
  <2> QED BY <2>1, <2>2, <2>3, <2>4, <2>5, <2>6, <2>7, <2>8, <2>9 DEF Talk!Next, TalkFacts!Talk!Next
<1>2. /\ (Talk!ConstantsOK <=> TalkFacts!Talk!ConstantsOK)
      /\ (Talk!Init <=> TalkFacts!Talk!Init)
      /\ (Talk!TypeOK <=> TalkFacts!Talk!TypeOK)
      /\ (Talk!MissedAtMostDeleted <=> TalkFacts!Talk!MissedAtMostDeleted)
      /\ (Talk!CountIsNotInflated <=> TalkFacts!Talk!CountIsNotInflated)
      /\ (Talk!ClassifiedAsStored <=> TalkFacts!Talk!ClassifiedAsStored)
    BY DEF
        Talk!IsFiniteSet, Talk!Cardinality, Talk!ConstantsOK, Talk!NoCounter, Talk!NoRow,
        Talk!NoThread, Talk!Failures, Talk!Statuses, Talk!In, Talk!Init, Talk!Settled,
        Talk!Threads, Talk!TypeOK, Talk!Rows, Talk!MissedAtMostDeleted,
        Talk!CountIsNotInflated, Talk!ClassifiedAsStored, TalkFacts!Talk!IsFiniteSet,
        TalkFacts!Talk!Cardinality, TalkFacts!Talk!ConstantsOK, TalkFacts!Talk!NoCounter,
        TalkFacts!Talk!NoRow, TalkFacts!Talk!NoThread, TalkFacts!Talk!Failures,
        TalkFacts!Talk!Statuses, TalkFacts!Talk!In, TalkFacts!Talk!Init,
        TalkFacts!Talk!Settled, TalkFacts!Talk!Threads, TalkFacts!Talk!TypeOK,
        TalkFacts!Talk!Rows, TalkFacts!Talk!MissedAtMostDeleted,
        TalkFacts!Talk!CountIsNotInflated, TalkFacts!Talk!ClassifiedAsStored
<1> QED BY <1>1, <1>2

\* So the whole has them.
LEMMA TalkHolds ==
    SourcesSpec => [](part = "comments" => (Talk!TypeOK /\ Talk!MissedAtMostDeleted /\
        Talk!CountIsNotInflated /\ Talk!ClassifiedAsStored))
<1> SourcesInit /\ part = "comments" => TalkFacts!Talk!Init
    BY TalkSame DEF SourcesInit
<1> [SourcesNext]_parts /\ part = "comments" => [TalkFacts!Talk!Next]_(TalkFacts!Talk!vars)
    BY TalkSame DEF SourcesNext, parts, TalkFacts!Talk!tg, TalkFacts!Talk!db,
        TalkFacts!Talk!local, TalkFacts!Talk!vars
<1> TalkFacts!Talk!Spec => [](TalkFacts!Talk!TypeOK /\
        TalkFacts!Talk!MissedAtMostDeleted /\ TalkFacts!Talk!CountIsNotInflated /\
        TalkFacts!Talk!ClassifiedAsStored)
    BY SourceConstants, TalkSame, TalkFacts!CommentsAreKept, PTL
<1> TalkFacts!Talk!TypeOK /\ TalkFacts!Talk!MissedAtMostDeleted /\
        TalkFacts!Talk!CountIsNotInflated /\ TalkFacts!Talk!ClassifiedAsStored =>
        (Talk!TypeOK /\ Talk!MissedAtMostDeleted /\ Talk!CountIsNotInflated /\
        Talk!ClassifiedAsStored)
    BY TalkSame
<1> QED BY SourcesStay, PTL DEF SourcesSpec, TalkFacts!Talk!Spec

RefreshFacts == INSTANCE SourceProofs WITH
    Channels <- RefreshSetting.Channels, Others <- RefreshSetting.Others,
    Slots <- RefreshSetting.Slots, MaxVersion <- RefreshSetting.MaxVersion,
    connected <- v1, lock <- v2, pc <- v3, tries <- v4, text <- v5, read <- v6,
    stored <- v7, since <- v8

\* The facts are about the Refresh of SourceParts.
LEMMA RefreshSame ==
    /\ (Refresh!ConstantsOK <=> RefreshFacts!Refresh!ConstantsOK)
    /\ (Refresh!Init <=> RefreshFacts!Refresh!Init)
    /\ (Refresh!RefreshNext <=> RefreshFacts!Refresh!RefreshNext)
    /\ (Refresh!RefreshIsSafe <=> RefreshFacts!Refresh!RefreshIsSafe)
BY DEF
       Refresh!IsFiniteSet, Refresh!Cardinality, Refresh!None, Refresh!ConstantsOK,
       Refresh!GaveUp, Refresh!Init, Refresh!Goes, Refresh!GivesUp, Refresh!Working,
       Refresh!Begin, Refresh!Ensured, Refresh!Dropped, Refresh!Rechecked, Refresh!Acquire,
       Refresh!Connect, Refresh!Answered, Refresh!Again, Refresh!Fails, Refresh!Store,
       Refresh!Drop, Refresh!Back, Refresh!Edit, Refresh!RefreshNext, Refresh!ConnectsOnce,
       Refresh!RefreshIsCurrent, Refresh!RefreshIsSafe, RefreshFacts!Refresh!IsFiniteSet,
       RefreshFacts!Refresh!Cardinality, RefreshFacts!Refresh!None,
       RefreshFacts!Refresh!ConstantsOK, RefreshFacts!Refresh!GaveUp,
       RefreshFacts!Refresh!Init, RefreshFacts!Refresh!Goes, RefreshFacts!Refresh!GivesUp,
       RefreshFacts!Refresh!Working, RefreshFacts!Refresh!Begin,
       RefreshFacts!Refresh!Ensured, RefreshFacts!Refresh!Dropped,
       RefreshFacts!Refresh!Rechecked, RefreshFacts!Refresh!Acquire,
       RefreshFacts!Refresh!Connect, RefreshFacts!Refresh!Answered,
       RefreshFacts!Refresh!Again, RefreshFacts!Refresh!Fails, RefreshFacts!Refresh!Store,
       RefreshFacts!Refresh!Drop, RefreshFacts!Refresh!Back, RefreshFacts!Refresh!Edit,
       RefreshFacts!Refresh!RefreshNext, RefreshFacts!Refresh!ConnectsOnce,
       RefreshFacts!Refresh!RefreshIsCurrent, RefreshFacts!Refresh!RefreshIsSafe

\* So the whole has them.
LEMMA RefreshHolds ==
    SourcesSpec => [](part = "refresh" => Refresh!RefreshIsSafe)
<1> SourcesInit /\ part = "refresh" => RefreshFacts!Refresh!Init
    BY RefreshSame DEF SourcesInit
<1> [SourcesNext]_parts /\ part = "refresh" =>
        [RefreshFacts!Refresh!RefreshNext]_(RefreshFacts!Refresh!vars)
    BY RefreshSame DEF SourcesNext, parts, RefreshFacts!Refresh!vars
<1> RefreshFacts!Refresh!RefreshSpec => [](RefreshFacts!Refresh!RefreshIsSafe)
    BY SourceConstants, RefreshSame, RefreshFacts!RefreshedOnce, PTL
<1> RefreshFacts!Refresh!RefreshIsSafe => Refresh!RefreshIsSafe
    BY RefreshSame
<1> QED BY SourcesStay, PTL DEF SourcesSpec, RefreshFacts!Refresh!RefreshSpec

ReaderFacts == INSTANCE SourceProofs WITH
    NumMessages <- ReaderSetting.NumMessages, Textless <- ReaderSetting.Textless,
    Limit <- ReaderSetting.Limit, ParentLimit <- ReaderSetting.ParentLimit,
    to <- v1, top <- v2, step <- v3, access <- v4, rooted <- v5, raw <- v6, got <- v7,
    queue <- v8, visited <- v9, left <- v10, pending <- v11, issues <- v12, broken <- v13,
    cut <- v14

\* The facts are about the Reader of SourceParts.
LEMMA ReaderSame ==
    /\ (Reader!ConstantsOK <=> ReaderFacts!Reader!ConstantsOK)
    /\ (Reader!ReaderInit <=> ReaderFacts!Reader!ReaderInit)
    /\ (Reader!ReaderNext <=> ReaderFacts!Reader!ReaderNext)
    /\ (Reader!OnlyItsThread <=> ReaderFacts!Reader!OnlyItsThread)
    /\ (Reader!ContextAccounted <=> ReaderFacts!Reader!ContextAccounted)
    /\ (Reader!WholeIsWhole <=> ReaderFacts!Reader!WholeIsWhole)
BY ZenonT(60) DEF
       Reader!IsFiniteSet, Reader!Cardinality, Reader!ConstantsOK, Reader!Messages,
       Reader!Root, Reader!NoOne, Reader!world, Reader!found, Reader!search,
       Reader!InThread, Reader!Thread, Reader!Target, Reader!Ids, Reader!InOrder,
       Reader!ReaderInit, Reader!Discover, Reader!Newest, Reader!Kept, Reader!RootId,
       Reader!Wanted, Reader!Read, Reader!ReadBreaks, Reader!Foreign, Reader!Plausible,
       Reader!Noted, Reader!PassParent, Reader!Askable, Reader!AskParent, Reader!AskFails,
       Reader!AskedAll, Reader!Belongs, Reader!Closed, Reader!Proven, Reader!Unanswered,
       Reader!Resolve, Reader!Errors, Reader!ReaderNext, Reader!Status, Reader!Missing,
       Reader!Truncated, Reader!OnlyItsThread, Reader!ContextAccounted, Reader!WholeIsWhole,
       ReaderFacts!Reader!IsFiniteSet, ReaderFacts!Reader!Cardinality,
       ReaderFacts!Reader!ConstantsOK, ReaderFacts!Reader!Messages, ReaderFacts!Reader!Root,
       ReaderFacts!Reader!NoOne, ReaderFacts!Reader!world, ReaderFacts!Reader!found,
       ReaderFacts!Reader!search, ReaderFacts!Reader!InThread, ReaderFacts!Reader!Thread,
       ReaderFacts!Reader!Target, ReaderFacts!Reader!Ids, ReaderFacts!Reader!InOrder,
       ReaderFacts!Reader!ReaderInit, ReaderFacts!Reader!Discover,
       ReaderFacts!Reader!Newest, ReaderFacts!Reader!Kept, ReaderFacts!Reader!RootId,
       ReaderFacts!Reader!Wanted, ReaderFacts!Reader!Read, ReaderFacts!Reader!ReadBreaks,
       ReaderFacts!Reader!Foreign, ReaderFacts!Reader!Plausible, ReaderFacts!Reader!Noted,
       ReaderFacts!Reader!PassParent, ReaderFacts!Reader!Askable,
       ReaderFacts!Reader!AskParent, ReaderFacts!Reader!AskFails,
       ReaderFacts!Reader!AskedAll, ReaderFacts!Reader!Belongs, ReaderFacts!Reader!Closed,
       ReaderFacts!Reader!Proven, ReaderFacts!Reader!Unanswered, ReaderFacts!Reader!Resolve,
       ReaderFacts!Reader!Errors, ReaderFacts!Reader!ReaderNext, ReaderFacts!Reader!Status,
       ReaderFacts!Reader!Missing, ReaderFacts!Reader!Truncated,
       ReaderFacts!Reader!OnlyItsThread, ReaderFacts!Reader!ContextAccounted,
       ReaderFacts!Reader!WholeIsWhole

\* So the whole has them.
LEMMA ReaderHolds ==
    SourcesSpec => [](part = "reader" => (Reader!OnlyItsThread /\
        Reader!ContextAccounted /\ Reader!WholeIsWhole))
<1> SourcesInit /\ part = "reader" => ReaderFacts!Reader!ReaderInit
    BY ReaderSame DEF SourcesInit
<1> [SourcesNext]_parts /\ part = "reader" =>
        [ReaderFacts!Reader!ReaderNext]_(ReaderFacts!Reader!readerVars)
    BY ReaderSame DEF SourcesNext, parts, ReaderFacts!Reader!world,
        ReaderFacts!Reader!found, ReaderFacts!Reader!search, ReaderFacts!Reader!readerVars
<1> ReaderFacts!Reader!ReaderSpec => [](ReaderFacts!Reader!OnlyItsThread /\
        ReaderFacts!Reader!ContextAccounted /\ ReaderFacts!Reader!WholeIsWhole)
    BY SourceConstants, ReaderSame, ReaderFacts!ThreadIsWhole, PTL
<1> ReaderFacts!Reader!OnlyItsThread /\ ReaderFacts!Reader!ContextAccounted /\
        ReaderFacts!Reader!WholeIsWhole => (Reader!OnlyItsThread /\
        Reader!ContextAccounted /\ Reader!WholeIsWhole)
    BY ReaderSame
<1> QED BY SourcesStay, PTL DEF SourcesSpec, ReaderFacts!Reader!ReaderSpec

-----------------------------------------------------------------------------
\* A recorded interval of a channel was complete, the watermark passes nothing that
\* is not stored, the sources of a run stay within its budget, and a window is
\* covered exactly when the intervals join up over it.
THEOREM CollectionSound == SourcesSpec => []CollectionIsSound
BY ResumeHolds, BudgetHolds, SpansHolds, PTL DEF CollectionIsSound

\* However many posts share a second, every read of a window brings the collection
\* on: the cursor never stands still.
THEOREM ReadsBringItOn == SourcesSpec => []ReadsMakeProgress
BY ResumeHolds, PTL DEF ReadsMakeProgress

\* A recorded interval of a feed or a subreddit was complete, and its watermark
\* passes an article that is not stored only if no read could have stored it.
THEOREM FeedsAreSound == SourcesSpec => []FeedIsSound
BY FeedsHolds, SubsHolds, PTL DEF FeedIsSound

\* Threads of X are paid for once and within both caps, what is indexed late is
\* still kept, and a post is kept under one source.
THEOREM XpozSound == SourcesSpec => []XpozIsSound
BY XpozHolds, RepliesHolds, PTL DEF XpozIsSound

\* No paid call takes the account below the reserve by itself.
THEOREM ReserveIsKept == SourcesSpec => ReserveKept
BY XpozHolds, RepliesHolds, PTL DEF ReserveKept

\* A settled scan misses only deleted comments and a classified comment carries the
\* text it was classified with; a thread holds its own comments, with their context
\* or a note that it is missing; posts are refreshed over one connection.
THEOREM CommentsSound == SourcesSpec => []CommentsAreSound
BY TalkHolds, ReaderHolds, RefreshHolds, PTL DEF CommentsAreSound

=============================================================================
