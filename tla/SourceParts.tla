---------------------------- MODULE SourceParts ----------------------------
(***************************************************************************)
(* How posts, articles, comments and replies are collected: Telegram       *)
(* windows and their coverage, feeds and subreddits, X, the comments of a  *)
(* channel, the reading of one thread, and the refresh of displayed posts. *)
(***************************************************************************)
EXTENDS Parts, Integers, Sequences, FiniteSets

\* What each part is given: a record of the values of its constants.
CONSTANTS ResumeSetting, BudgetSetting, SpansSetting, FeedsSetting, SubsSetting,
          XpozSetting, RepliesSetting, TalkSetting, ReaderSetting, RefreshSetting

\* One channel that may hold three posts in one second, read two at a time.
ResumeValues == [NumSources |-> 1, Concurrent |-> 1, PostCap |-> 2, RunCap |-> 2,
                 Fresh |-> 3, Look |-> 3, StartTime |-> 3, MaxTime |-> 7,
                 MaxPosts |-> 3]
Resume == INSTANCE WindowCollector WITH
    NumSources <- ResumeSetting.NumSources, Concurrent <- ResumeSetting.Concurrent,
    PostCap <- ResumeSetting.PostCap, RunCap <- ResumeSetting.RunCap,
    Fresh <- ResumeSetting.Fresh, Look <- ResumeSetting.Look,
    StartTime <- ResumeSetting.StartTime, MaxTime <- ResumeSetting.MaxTime,
    MaxPosts <- ResumeSetting.MaxPosts,
    now <- v1, chan <- v2, stored <- v3, spans <- v4, watermark <- v5, delayed <- v6,
    end <- v7, step <- v8, left <- v9, held <- v10, from <- v11, after <- v12, page <- v13,
    truncated <- v14, since <- v15, used <- v16, late <- v17
\* Three channels, two at a time, share a budget that two of them exhaust.
BudgetValues == [NumSources |-> 3, Concurrent |-> 2, PostCap |-> 2, RunCap |-> 3,
                 Fresh |-> 1, Look |-> 1, StartTime |-> 1, MaxTime |-> 1,
                 MaxPosts |-> 2]
Budget == INSTANCE WindowCollector WITH
    NumSources <- BudgetSetting.NumSources, Concurrent <- BudgetSetting.Concurrent,
    PostCap <- BudgetSetting.PostCap, RunCap <- BudgetSetting.RunCap,
    Fresh <- BudgetSetting.Fresh, Look <- BudgetSetting.Look,
    StartTime <- BudgetSetting.StartTime, MaxTime <- BudgetSetting.MaxTime,
    MaxPosts <- BudgetSetting.MaxPosts,
    now <- v1, chan <- v2, stored <- v3, spans <- v4, watermark <- v5, delayed <- v6,
    end <- v7, step <- v8, left <- v9, held <- v10, from <- v11, after <- v12, page <- v13,
    truncated <- v14, since <- v15, used <- v16, late <- v17
\* Up to three recorded intervals over six ticks.
SpansValues == [MaxTick |-> 5, MaxRecords |-> 3]
Spans == INSTANCE IntervalMerge WITH
    MaxTick <- SpansSetting.MaxTick, MaxRecords <- SpansSetting.MaxRecords,
    records <- v1

-----------------------------------------------------------------------------
\* Two feeds, one read after the other; two subreddits read in one request.
FeedsValues == [Groups |-> <<{1}, {2}>>, Shows |-> 1, Fresh |-> 1, Backdate |-> 1,
                MaxTime |-> 2, MaxArticles |-> 2]
Feeds == INSTANCE FeedIngest WITH
    Groups <- FeedsSetting.Groups, Shows <- FeedsSetting.Shows,
    Fresh <- FeedsSetting.Fresh, Backdate <- FeedsSetting.Backdate,
    MaxTime <- FeedsSetting.MaxTime, MaxArticles <- FeedsSetting.MaxArticles,
    now <- v1, article <- v2, stored <- v3, rows <- v4, mark <- v5, at <- v6, end <- v7,
    group <- v8, todo <- v9, from <- v10, last <- v11, page <- v12, shown <- v13,
    excused <- v14
SubsValues == [Groups |-> <<{1, 2}>>, Shows |-> 1, Fresh |-> 1, Backdate |-> 1,
               MaxTime |-> 2, MaxArticles |-> 2]
Subs == INSTANCE FeedIngest WITH
    Groups <- SubsSetting.Groups, Shows <- SubsSetting.Shows, Fresh <- SubsSetting.Fresh,
    Backdate <- SubsSetting.Backdate, MaxTime <- SubsSetting.MaxTime,
    MaxArticles <- SubsSetting.MaxArticles,
    now <- v1, article <- v2, stored <- v3, rows <- v4, mark <- v5, at <- v6, end <- v7,
    group <- v8, todo <- v9, from <- v10, last <- v11, page <- v12, shown <- v13,
    excused <- v14

\* Searches and scans, with a post of a followed account that may be indexed
\* late; and the threads of two posts, found by one search or scan.
XpozValues == [Posts |-> {"p", "q"}, Followed |-> {"p"}, Old |-> {"q"}, Reserve |-> 1,
               SearchGap |-> 1, ScanGap |-> 2, SearchBack |-> 1, ScanBack |-> 1,
               Fresh |-> 2, Hour |-> 1, PerHour |-> 1, Threads |-> 0, MaxTime |-> 2,
               MaxCredits |-> 3]
Xpoz == INSTANCE XpozSource WITH
    Posts <- XpozSetting.Posts, Followed <- XpozSetting.Followed, Old <- XpozSetting.Old,
    Reserve <- XpozSetting.Reserve, SearchGap <- XpozSetting.SearchGap,
    ScanGap <- XpozSetting.ScanGap, SearchBack <- XpozSetting.SearchBack,
    ScanBack <- XpozSetting.ScanBack, Fresh <- XpozSetting.Fresh, Hour <- XpozSetting.Hour,
    PerHour <- XpozSetting.PerHour, Threads <- XpozSetting.Threads,
    MaxTime <- XpozSetting.MaxTime, MaxCredits <- XpozSetting.MaxCredits,
    time <- v1, dated <- v2, indexed <- v3, credits <- v4, balance <- v5, doing <- v6,
    place <- v7, until <- v8, found <- v9, kept <- v10, marks <- v11, thread <- v12,
    since <- v13, calls <- v14, again <- v15, cut <- v16, served <- v17
RepliesValues == [Posts |-> {"p", "q"}, Followed |-> {"p"}, Old |-> {"p", "q"},
                  Reserve |-> 1, SearchGap |-> 9, ScanGap |-> 9, SearchBack |-> 1,
                  ScanBack |-> 1, Fresh |-> 2, Hour |-> 1, PerHour |-> 1, Threads |-> 2,
                  MaxTime |-> 2, MaxCredits |-> 2]
Replies == INSTANCE XpozSource WITH
    Posts <- RepliesSetting.Posts, Followed <- RepliesSetting.Followed,
    Old <- RepliesSetting.Old, Reserve <- RepliesSetting.Reserve,
    SearchGap <- RepliesSetting.SearchGap, ScanGap <- RepliesSetting.ScanGap,
    SearchBack <- RepliesSetting.SearchBack, ScanBack <- RepliesSetting.ScanBack,
    Fresh <- RepliesSetting.Fresh, Hour <- RepliesSetting.Hour,
    PerHour <- RepliesSetting.PerHour, Threads <- RepliesSetting.Threads,
    MaxTime <- RepliesSetting.MaxTime, MaxCredits <- RepliesSetting.MaxCredits,
    time <- v1, dated <- v2, indexed <- v3, credits <- v4, balance <- v5, doing <- v6,
    place <- v7, until <- v8, found <- v9, kept <- v10, marks <- v11, thread <- v12,
    since <- v13, calls <- v14, again <- v15, cut <- v16, served <- v17

-----------------------------------------------------------------------------
\* A post with a discussion of three comments, one of them blank; one without.
TalkValues == [Posts |-> 1 .. 2, Comments |-> {1, 2, 3}, ThreadOf |-> <<2, 2, 2>>,
               Blank |-> {2}, Closed |-> {1}, ThreadLimit |-> 2, MaxEdits |-> 1]
Talk == INSTANCE CommentCollector WITH
    Posts <- TalkSetting.Posts, Comments <- TalkSetting.Comments,
    ThreadOf <- TalkSetting.ThreadOf, Blank <- TalkSetting.Blank,
    Closed <- TalkSetting.Closed, ThreadLimit <- TalkSetting.ThreadLimit,
    MaxEdits <- TalkSetting.MaxEdits,
    live <- v1, deleted <- v2, text <- v3, row <- v4, thread <- v5, at <- v6,
    counter <- v7, prior <- v8, tally <- v9, seen <- v10, judged <- v11

\* Every group of three messages, one of them without text.
ReaderValues == [NumMessages |-> 3, Textless |-> {2}, Limit |-> 2, ParentLimit |-> 2]
Reader == INSTANCE ThreadReader WITH
    NumMessages <- ReaderSetting.NumMessages, Textless <- ReaderSetting.Textless,
    Limit <- ReaderSetting.Limit, ParentLimit <- ReaderSetting.ParentLimit,
    to <- v1, top <- v2, step <- v3, access <- v4, rooted <- v5, raw <- v6, got <- v7,
    queue <- v8, visited <- v9, left <- v10, pending <- v11, issues <- v12, broken <- v13,
    cut <- v14

\* Three displayed channels over two slots, one of which is not in Telegram.
RefreshValues == [Channels |-> {"a", "b", "c"}, Others |-> {"c"}, Slots |-> 2,
                  MaxVersion |-> 1]
Refresh == INSTANCE SourceRefresh WITH
    Channels <- RefreshSetting.Channels, Others <- RefreshSetting.Others,
    Slots <- RefreshSetting.Slots, MaxVersion <- RefreshSetting.MaxVersion,
    connected <- v1, lock <- v2, pc <- v3, tries <- v4, text <- v5, read <- v6,
    stored <- v7, since <- v8

\* A bound: no post appears while a call with the shared budget runs.
QuietCalls == v2' # v2 => v7 = Budget!NoTime

\* What is assumed of the settings.
ASSUME SourceConstants ==
    /\ Resume!ConstantsOK
    /\ Budget!ConstantsOK
    /\ Spans!ConstantsOK
    /\ Feeds!ConstantsOK /\ Subs!ConstantsOK
    /\ Xpoz!ConstantsOK /\ Replies!ConstantsOK
    /\ Talk!ConstantsOK /\ Reader!ConstantsOK /\ Refresh!ConstantsOK

-----------------------------------------------------------------------------
SourcesInit ==
    \/ part = "resume"   /\ Resume!Init
    \/ part = "budget"   /\ Budget!Init
    \/ part = "spans"    /\ Spans!Init        /\ Off2
    \/ part = "feeds"    /\ Feeds!FeedInit    /\ Off15
    \/ part = "subs"     /\ Subs!FeedInit     /\ Off15
    \/ part = "xpoz"     /\ Xpoz!XpozInit
    \/ part = "threads"  /\ Replies!XpozInit
    \/ part = "comments" /\ Talk!Init         /\ Off12
    \/ part = "reader"   /\ Reader!ReaderInit /\ Off15
    \/ part = "refresh"  /\ Refresh!Init      /\ Off9

SourcesNext ==
    \/ part = "resume"   /\ Resume!Next         /\ UNCHANGED part
    \/ part = "budget"   /\ Budget!Next         /\ QuietCalls /\ UNCHANGED part
    \/ part = "spans"    /\ Spans!Next          /\ Kept2
    \/ part = "feeds"    /\ Feeds!FeedNext      /\ Kept15
    \/ part = "subs"     /\ Subs!FeedNext       /\ Kept15
    \/ part = "xpoz"     /\ Xpoz!XpozNext       /\ UNCHANGED part
    \/ part = "threads"  /\ Replies!XpozNext    /\ UNCHANGED part
    \/ part = "comments" /\ Talk!Next         /\ Kept12
    \/ part = "reader"   /\ Reader!ReaderNext   /\ Kept15
    \/ part = "refresh"  /\ Refresh!RefreshNext /\ Kept9

SourcesSpec == SourcesInit /\ [][SourcesNext]_parts

-----------------------------------------------------------------------------
\* But for posts published in the second a window ended in, complete coverage is
\* the truth and the watermark skips nothing; every instant
\* behind it is covered, and the sources of a run stay within its budget; and
\* coverage_for_window answers by the union of the spans.
CollectionIsSound ==
    /\ part = "resume" =>
        /\ Resume!CoveredIsStored
        /\ Resume!NothingSkipped
        /\ Resume!EveryInstantCovered
    /\ part = "budget" => Budget!TypeOK /\ Budget!RunWithinCap
    /\ part = "spans" => Spans!MergeIsCoverage

\* However many posts share a second, each read brings the collection on.
ReadsMakeProgress == part = "resume" => Resume!ReadsMakeProgress

\* An interval of a feed recorded as complete was, and a watermark passes an
\* article that is not stored only if no read could have stored it.
FeedIsSound ==
    /\ part = "feeds" => Feeds!FeedTypeOK /\ Feeds!CoveredIsStored /\ Feeds!NothingSkipped
    /\ part = "subs" => Subs!FeedTypeOK /\ Subs!CoveredIsStored /\ Subs!NothingSkipped

\* Threads of X are paid for once and within both caps, what is indexed late is
\* still kept, and a post is kept under one source.
XpozIsSound ==
    /\ part = "xpoz" => Xpoz!XpozTypeOK /\ Xpoz!LateIndexedKept /\ Xpoz!OneCopy
    /\ part = "threads" => Replies!XpozTypeOK /\ Replies!ThreadsPaced

\* No paid call goes below the reserve by itself.
ReserveKept ==
    [][/\ part = "xpoz" => Xpoz!ReserveKept
       /\ part = "threads" => Replies!ReserveKept]_parts

\* Stored comments are those of the thread, their context is accounted for, a
\* settled scan misses only what was deleted, a classified comment carries the
\* text it was classified with; displayed posts are refreshed over one connection.
CommentsAreSound ==
    /\ part = "comments" =>
        /\ Talk!TypeOK
        /\ Talk!MissedAtMostDeleted
        /\ Talk!CountIsNotInflated
        /\ Talk!ClassifiedAsStored
    /\ part = "reader" =>
        /\ Reader!OnlyItsThread
        /\ Reader!ContextAccounted
        /\ Reader!WholeIsWhole
    /\ part = "refresh" => Refresh!RefreshIsSafe
=============================================================================
