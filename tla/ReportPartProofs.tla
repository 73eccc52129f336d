---------------------------- MODULE ReportPartProofs ----------------------------
(***************************************************************************)
(* What the proofs of ReportProofs say of the reports and the pipelines as *)
(* they are checked, in the way of SourcePartProofs: for each part the     *)
(* facts, that they are about its definitions, and what follows for a      *)
(* behaviour of the whole, with any settings.                              *)
(***************************************************************************)
EXTENDS ReportParts, PipelineParts, TLAPS

\* What an instance below leaves as it is: the parameters of other components.
CONSTANTS
    Retention, Ranks, MaxSize, MaxTime, Calls, QueueEvents, QueueBytes, EventBytes,
    Sizes, Ids, Names, Pubs, Versions, Stories, MaxSaves, Procs, Rows, Entities,
    PageSize, MaxBoots, Links, LinkOf, PostOf, StoryOf, Batch, Parallel, MinChannels,
    PerEntity, AgendaLimit, ClaimLimit, Window, NumStories, Channels, MaxReplies, Top,
    JoinLimit, Ttl, CacheLimit, Labels, Pairs, BatchSize, Workers, MaxUsd, ReserveLabel,
    ReservePair, Costs, MaxRuns, Day, Windows, Times, MaxBuilds, MaxRows
VARIABLES
    now, rows, published, cache, lastCollect, pc, asOf, snap, then, request, target,
    cursor, answer, issued, during, phase, queue, writing, pending, emitted, stored,
    dropped, state, closing, verdict, version, names, token, given, links, row,
    saves, db, tx, at, seen, boots, together, tracked, comparable, found, task,
    missing, reply, report, time, replies, stage, agenda, counts, story, threads, read,
    shown, joined, left, english, spent, asked, failed, runs, got, jobs, budget, before,
    builds, begun, current, previous, changes, next, files

\* A behaviour is one of a single part.
LEMMA ReportsStay == [ReportsNext]_parts =>
    /\ ((part = "store")' <=> part = "store")
    /\ ((part = "ties")' <=> part = "ties")
    /\ ((part = "agenda")' <=> part = "agenda")
BY DEF ReportsNext, parts, Kept2, Kept3, Kept4, Kept5, Kept6, Kept7, Kept8, Kept9, Kept10,
    Kept11, Kept12, Kept13, Kept14, Kept15, Kept16, Kept17

\* A behaviour is one of a single part.
LEMMA PipelinesStay == [PipelinesNext]_parts =>
    /\ ((part = "enrich")' <=> part = "enrich")
    /\ ((part = "paid")' <=> part = "paid")
    /\ ((part = "build")' <=> part = "build")
    /\ ((part = "audit")' <=> part = "audit")
    /\ ((part = "catalog")' <=> part = "catalog")
    /\ ((part = "schema")' <=> part = "schema")
BY DEF PipelinesNext, parts, Kept2, Kept3, Kept4, Kept5, Kept6, Kept7, Kept8, Kept9,
    Kept10, Kept11, Kept12, Kept13, Kept14, Kept15, Kept16, Kept17

StoreFacts == INSTANCE ReportProofs WITH
    Retention <- StoreSetting.Retention, Ranks <- StoreSetting.Ranks,
    MaxSize <- StoreSetting.MaxSize, MaxTime <- StoreSetting.MaxTime,
    now <- v1, rows <- v2, published <- v3, cache <- v4, lastCollect <- v5, pc <- v6,
    asOf <- v7, snap <- v8, then <- v9, request <- v10, target <- v11, cursor <- v12,
    answer <- v13, issued <- v14, during <- v15

\* The facts are about the Store of ReportParts.
LEMMA StoreSame ==
    /\ (Store!ConstantsOK <=> StoreFacts!ConstantsOK)
    /\ (Store!Init <=> StoreFacts!Init)
    /\ (Store!Next <=> StoreFacts!Next)
    /\ (Store!TypeOK <=> StoreFacts!TypeOK)
    /\ (Store!NeverRefused <=> StoreFacts!NeverRefused)
    /\ (Store!KeptForRetention <=> StoreFacts!KeptForRetention)
    /\ (Store!UsefulReportRestored <=> StoreFacts!UsefulReportRestored)
    /\ (Store!TargetWasPublished <=> StoreFacts!TargetWasPublished)
    /\ (Store!OnlyRestoredIsRejected <=> StoreFacts!OnlyRestoredIsRejected)
    /\ (Store!NotHiddenByBackfill <=> StoreFacts!NotHiddenByBackfill)
BY DEF
       Store!ConstantsOK, Store!NoSnapshot, Store!Snapshots, Store!store, Store!cycle,
       Store!client, Store!Id, Store!IdBefore, Store!Current, Store!Publishable,
       Store!Nonempty, Store!LatestNonempty, Store!Init, Store!Tick, Store!GoTo,
       Store!StartCycle, Store!EndCollect, Store!NeedsRestore, Store!Restore,
       Store!Restored, Store!Build, Store!Judge, Store!Refused, Store!Survives,
       Store!Publish, Store!SetCache, Store!Fail, Store!Restart, Store!Reply,
       Store!ReadPublished, Store!LoadRow, Store!Loaded, Store!Baseline, Store!CycleStep,
       Store!ClientStep, Store!Next, Store!TypeOK, Store!NeverRefused,
       Store!KeptForRetention, Store!NotHiddenByBackfill, Store!UsefulReportRestored,
       Store!TargetWasPublished, Store!EmptyPartial, Store!OnlyRestoredIsRejected,
       StoreFacts!ConstantsOK, StoreFacts!NoSnapshot, StoreFacts!Snapshots,
       StoreFacts!store, StoreFacts!cycle, StoreFacts!client, StoreFacts!Id,
       StoreFacts!IdBefore, StoreFacts!Current, StoreFacts!Publishable, StoreFacts!Nonempty,
       StoreFacts!LatestNonempty, StoreFacts!Init, StoreFacts!Tick, StoreFacts!GoTo,
       StoreFacts!StartCycle, StoreFacts!EndCollect, StoreFacts!NeedsRestore,
       StoreFacts!Restore, StoreFacts!Restored, StoreFacts!Build, StoreFacts!Judge,
       StoreFacts!Refused, StoreFacts!Survives, StoreFacts!Publish, StoreFacts!SetCache,
       StoreFacts!Fail, StoreFacts!Restart, StoreFacts!Reply, StoreFacts!ReadPublished,
       StoreFacts!LoadRow, StoreFacts!Loaded, StoreFacts!Baseline, StoreFacts!CycleStep,
       StoreFacts!ClientStep, StoreFacts!Next, StoreFacts!TypeOK, StoreFacts!NeverRefused,
       StoreFacts!KeptForRetention, StoreFacts!NotHiddenByBackfill,
       StoreFacts!UsefulReportRestored, StoreFacts!TargetWasPublished,
       StoreFacts!EmptyPartial, StoreFacts!OnlyRestoredIsRejected

\* So the whole has them.
LEMMA StoreHolds ==
    ReportsSpec =>
        /\ [](part = "store" => (Store!TypeOK /\ Store!NeverRefused /\
            Store!KeptForRetention /\ Store!UsefulReportRestored /\
            Store!TargetWasPublished /\ Store!OnlyRestoredIsRejected))
        /\ [][part = "store" => Store!NotHiddenByBackfill]_parts
<1> ReportsInit /\ part = "store" => StoreFacts!Init
    BY StoreSame DEF ReportsInit
<1> [ReportsNext]_parts /\ part = "store" => [StoreFacts!Next]_(StoreFacts!vars)
    BY StoreSame DEF ReportsNext, parts, StoreFacts!store, StoreFacts!cycle,
        StoreFacts!client, StoreFacts!vars
<1> [ReportsNext]_parts /\ part = "store" /\
        [StoreFacts!NotHiddenByBackfill]_(StoreFacts!vars) => [part = "store" =>
        Store!NotHiddenByBackfill]_parts
    BY StoreSame DEF ReportsNext, parts, Kept16, Kept17, StoreFacts!store,
        StoreFacts!cycle, StoreFacts!client, StoreFacts!vars
<1> StoreFacts!Spec => [](StoreFacts!TypeOK /\ StoreFacts!NeverRefused /\
        StoreFacts!KeptForRetention /\ StoreFacts!UsefulReportRestored /\
        StoreFacts!TargetWasPublished /\ StoreFacts!OnlyRestoredIsRejected) /\
        [][StoreFacts!NotHiddenByBackfill]_(StoreFacts!vars)
    BY ReportConstants, StoreSame, StoreFacts!TypeCorrect, StoreFacts!IdsNameOneReport,
        StoreFacts!ReportsAreKept, StoreFacts!UsefulIsRestored,
        StoreFacts!RequestsAreCurrent, StoreFacts!RejectionIsExplained,
        StoreFacts!BackfillHidesNothing, PTL
<1> StoreFacts!TypeOK /\ StoreFacts!NeverRefused /\ StoreFacts!KeptForRetention /\
        StoreFacts!UsefulReportRestored /\ StoreFacts!TargetWasPublished /\
        StoreFacts!OnlyRestoredIsRejected => (Store!TypeOK /\ Store!NeverRefused /\
        Store!KeptForRetention /\ Store!UsefulReportRestored /\
        Store!TargetWasPublished /\ Store!OnlyRestoredIsRejected)
    BY StoreSame
<1> QED BY ReportsStay, PTL DEF ReportsSpec, StoreFacts!Spec

TiesFacts == INSTANCE ReportProofs WITH
    Retention <- TiesSetting.Retention, Ranks <- TiesSetting.Ranks,
    MaxSize <- TiesSetting.MaxSize, MaxTime <- TiesSetting.MaxTime,
    now <- v1, rows <- v2, published <- v3, cache <- v4, lastCollect <- v5, pc <- v6,
    asOf <- v7, snap <- v8, then <- v9, request <- v10, target <- v11, cursor <- v12,
    answer <- v13, issued <- v14, during <- v15

\* The facts are about the Ties of ReportParts.
LEMMA TiesSame ==
    /\ (Ties!ConstantsOK <=> TiesFacts!ConstantsOK)
    /\ (Ties!Init <=> TiesFacts!Init)
    /\ (Ties!Next <=> TiesFacts!Next)
    /\ (Ties!TypeOK <=> TiesFacts!TypeOK)
    /\ (Ties!NeverRefused <=> TiesFacts!NeverRefused)
    /\ (Ties!KeptForRetention <=> TiesFacts!KeptForRetention)
    /\ (Ties!UsefulReportRestored <=> TiesFacts!UsefulReportRestored)
    /\ (Ties!TargetWasPublished <=> TiesFacts!TargetWasPublished)
    /\ (Ties!OnlyRestoredIsRejected <=> TiesFacts!OnlyRestoredIsRejected)
    /\ (Ties!NotHiddenByBackfill <=> TiesFacts!NotHiddenByBackfill)
BY DEF
       Ties!ConstantsOK, Ties!NoSnapshot, Ties!Snapshots, Ties!store, Ties!cycle,
       Ties!client, Ties!Id, Ties!IdBefore, Ties!Current, Ties!Publishable, Ties!Nonempty,
       Ties!LatestNonempty, Ties!Init, Ties!Tick, Ties!GoTo, Ties!StartCycle,
       Ties!EndCollect, Ties!NeedsRestore, Ties!Restore, Ties!Restored, Ties!Build,
       Ties!Judge, Ties!Refused, Ties!Survives, Ties!Publish, Ties!SetCache, Ties!Fail,
       Ties!Restart, Ties!Reply, Ties!ReadPublished, Ties!LoadRow, Ties!Loaded,
       Ties!Baseline, Ties!CycleStep, Ties!ClientStep, Ties!Next, Ties!TypeOK,
       Ties!NeverRefused, Ties!KeptForRetention, Ties!NotHiddenByBackfill,
       Ties!UsefulReportRestored, Ties!TargetWasPublished, Ties!EmptyPartial,
       Ties!OnlyRestoredIsRejected, TiesFacts!ConstantsOK, TiesFacts!NoSnapshot,
       TiesFacts!Snapshots, TiesFacts!store, TiesFacts!cycle, TiesFacts!client,
       TiesFacts!Id, TiesFacts!IdBefore, TiesFacts!Current, TiesFacts!Publishable,
       TiesFacts!Nonempty, TiesFacts!LatestNonempty, TiesFacts!Init, TiesFacts!Tick,
       TiesFacts!GoTo, TiesFacts!StartCycle, TiesFacts!EndCollect, TiesFacts!NeedsRestore,
       TiesFacts!Restore, TiesFacts!Restored, TiesFacts!Build, TiesFacts!Judge,
       TiesFacts!Refused, TiesFacts!Survives, TiesFacts!Publish, TiesFacts!SetCache,
       TiesFacts!Fail, TiesFacts!Restart, TiesFacts!Reply, TiesFacts!ReadPublished,
       TiesFacts!LoadRow, TiesFacts!Loaded, TiesFacts!Baseline, TiesFacts!CycleStep,
       TiesFacts!ClientStep, TiesFacts!Next, TiesFacts!TypeOK, TiesFacts!NeverRefused,
       TiesFacts!KeptForRetention, TiesFacts!NotHiddenByBackfill,
       TiesFacts!UsefulReportRestored, TiesFacts!TargetWasPublished, TiesFacts!EmptyPartial,
       TiesFacts!OnlyRestoredIsRejected

\* So the whole has them.
LEMMA TiesHolds ==
    ReportsSpec =>
        /\ [](part = "ties" => (Ties!TypeOK /\ Ties!NeverRefused /\
            Ties!KeptForRetention /\ Ties!UsefulReportRestored /\
            Ties!TargetWasPublished /\ Ties!OnlyRestoredIsRejected))
        /\ [][part = "ties" => Ties!NotHiddenByBackfill]_parts
<1> ReportsInit /\ part = "ties" => TiesFacts!Init
    BY TiesSame DEF ReportsInit
<1> [ReportsNext]_parts /\ part = "ties" => [TiesFacts!Next]_(TiesFacts!vars)
    BY TiesSame DEF ReportsNext, parts, TiesFacts!store, TiesFacts!cycle,
        TiesFacts!client, TiesFacts!vars
<1> [ReportsNext]_parts /\ part = "ties" /\
        [TiesFacts!NotHiddenByBackfill]_(TiesFacts!vars) => [part = "ties" =>
        Ties!NotHiddenByBackfill]_parts
    BY TiesSame DEF ReportsNext, parts, Kept16, Kept17, TiesFacts!store, TiesFacts!cycle,
        TiesFacts!client, TiesFacts!vars
<1> TiesFacts!Spec => [](TiesFacts!TypeOK /\ TiesFacts!NeverRefused /\
        TiesFacts!KeptForRetention /\ TiesFacts!UsefulReportRestored /\
        TiesFacts!TargetWasPublished /\ TiesFacts!OnlyRestoredIsRejected) /\
        [][TiesFacts!NotHiddenByBackfill]_(TiesFacts!vars)
    BY ReportConstants, TiesSame, TiesFacts!TypeCorrect, TiesFacts!IdsNameOneReport,
        TiesFacts!ReportsAreKept, TiesFacts!UsefulIsRestored,
        TiesFacts!RequestsAreCurrent, TiesFacts!RejectionIsExplained,
        TiesFacts!BackfillHidesNothing, PTL
<1> TiesFacts!TypeOK /\ TiesFacts!NeverRefused /\ TiesFacts!KeptForRetention /\
        TiesFacts!UsefulReportRestored /\ TiesFacts!TargetWasPublished /\
        TiesFacts!OnlyRestoredIsRejected => (Ties!TypeOK /\ Ties!NeverRefused /\
        Ties!KeptForRetention /\ Ties!UsefulReportRestored /\ Ties!TargetWasPublished /\
        Ties!OnlyRestoredIsRejected)
    BY TiesSame
<1> QED BY ReportsStay, PTL DEF ReportsSpec, TiesFacts!Spec

AgendaFacts == INSTANCE ReportProofs WITH
    Links <- AgendaSetting.Links, LinkOf <- AgendaSetting.LinkOf,
    PostOf <- AgendaSetting.PostOf, StoryOf <- AgendaSetting.StoryOf,
    Batch <- AgendaSetting.Batch, Parallel <- AgendaSetting.Parallel,
    MinChannels <- AgendaSetting.MinChannels, PerEntity <- AgendaSetting.PerEntity,
    AgendaLimit <- AgendaSetting.AgendaLimit, ClaimLimit <- AgendaSetting.ClaimLimit,
    Window <- AgendaSetting.Window, MaxTime <- AgendaSetting.MaxTime,
    now <- v1, links <- v2, verdict <- v3, pc <- v4, tracked <- v5, comparable <- v6,
    found <- v7, task <- v8, missing <- v9, reply <- v10, report <- v11

\* The facts are about the Agenda of ReportParts.
LEMMA AgendaSame ==
    /\ (Agenda!ConstantsOK <=> AgendaFacts!Snap!ConstantsOK)
    /\ (Agenda!Init <=> AgendaFacts!Snap!Init)
    /\ (Agenda!Next <=> AgendaFacts!Snap!Next)
    /\ (Agenda!TypeOK <=> AgendaFacts!Snap!TypeOK)
    /\ (Agenda!AgendaIsVerified <=> AgendaFacts!Snap!AgendaIsVerified)
    /\ (Agenda!RestIsBlocked <=> AgendaFacts!Snap!RestIsBlocked)
    /\ (Agenda!EvidenceIsVaried <=> AgendaFacts!Snap!EvidenceIsVaried)
    /\ (Agenda!VerdictIsFinal <=> AgendaFacts!Snap!VerdictIsFinal)
<1>1. Agenda!Mode = AgendaFacts!Snap!Mode /\ Agenda!Offered = AgendaFacts!Snap!Offered
    BY DEF
        Agenda!IsFiniteSet, Agenda!Cardinality, Agenda!Stories, Agenda!Post, Agenda!Current,
        Agenda!Previous, Agenda!ChannelsOf, Agenda!Now, Agenda!Reporting, Agenda!Compared,
        Agenda!Growth, Agenda!Enough, Agenda!Eligible, Agenda!Growing, Agenda!Mode,
        Agenda!Offered, AgendaFacts!Snap!IsFiniteSet, AgendaFacts!Snap!Cardinality,
        AgendaFacts!Snap!Stories, AgendaFacts!Snap!Post, AgendaFacts!Snap!Current,
        AgendaFacts!Snap!Previous, AgendaFacts!Snap!ChannelsOf, AgendaFacts!Snap!Now,
        AgendaFacts!Snap!Reporting, AgendaFacts!Snap!Compared, AgendaFacts!Snap!Growth,
        AgendaFacts!Snap!Enough, AgendaFacts!Snap!Eligible, AgendaFacts!Snap!Growing,
        AgendaFacts!Snap!Mode, AgendaFacts!Snap!Offered
<1>2. \A s : Agenda!Reporting(s) = AgendaFacts!Snap!Reporting(s)
    BY DEF
        Agenda!IsFiniteSet, Agenda!Cardinality, Agenda!Post, Agenda!Current,
        Agenda!ChannelsOf, Agenda!Now, Agenda!Reporting, AgendaFacts!Snap!IsFiniteSet,
        AgendaFacts!Snap!Cardinality, AgendaFacts!Snap!Post, AgendaFacts!Snap!Current,
        AgendaFacts!Snap!ChannelsOf, AgendaFacts!Snap!Now, AgendaFacts!Snap!Reporting
<1>3. \A s : Agenda!Claims(s) = AgendaFacts!Snap!Claims(s)
    BY DEF
        Agenda!IsFiniteSet, Agenda!Cardinality, Agenda!Post, Agenda!Current, Agenda!Now,
        Agenda!Claims, AgendaFacts!Snap!IsFiniteSet, AgendaFacts!Snap!Cardinality,
        AgendaFacts!Snap!Post, AgendaFacts!Snap!Current, AgendaFacts!Snap!Now,
        AgendaFacts!Snap!Claims
<1>4. \A S : Agenda!Ranked(S) = AgendaFacts!Snap!Ranked(S)
    BY DEF
        Agenda!IsFiniteSet, Agenda!Cardinality, Agenda!Max, Agenda!Post, Agenda!Current,
        Agenda!Previous, Agenda!ChannelsOf, Agenda!Now, Agenda!Reporting, Agenda!Compared,
        Agenda!Growth, Agenda!Enough, Agenda!Freshness, Agenda!Before, Agenda!Ranked,
        AgendaFacts!Snap!IsFiniteSet, AgendaFacts!Snap!Cardinality, AgendaFacts!Snap!Max,
        AgendaFacts!Snap!Post, AgendaFacts!Snap!Current, AgendaFacts!Snap!Previous,
        AgendaFacts!Snap!ChannelsOf, AgendaFacts!Snap!Now, AgendaFacts!Snap!Reporting,
        AgendaFacts!Snap!Compared, AgendaFacts!Snap!Growth, AgendaFacts!Snap!Enough,
        AgendaFacts!Snap!Freshness, AgendaFacts!Snap!Before, AgendaFacts!Snap!Ranked
<1>5. \A order : Agenda!Selected(order) = AgendaFacts!Snap!Selected(order)
    BY DEF
        Agenda!IsFiniteSet, Agenda!Cardinality, Agenda!Post, Agenda!Current, Agenda!Votes,
        Agenda!Now, Agenda!Blocks, Agenda!Selected, AgendaFacts!Snap!IsFiniteSet,
        AgendaFacts!Snap!Cardinality, AgendaFacts!Snap!Post, AgendaFacts!Snap!Current,
        AgendaFacts!Snap!Votes, AgendaFacts!Snap!Now, AgendaFacts!Snap!Blocks,
        AgendaFacts!Snap!Selected
<1>6. (Agenda!Build <=> AgendaFacts!Snap!Build)
    BY <1>1, <1>2, <1>3, <1>4, <1>5 DEF
        Agenda!Stories, Agenda!Build, AgendaFacts!Snap!Stories, AgendaFacts!Snap!Build
<1>7. /\ (Agenda!Tick <=> AgendaFacts!Snap!Tick) /\ (Agenda!Assign <=> AgendaFacts!Snap!Assign) /\ (Agenda!Return <=> AgendaFacts!Snap!Return)
      /\ (Agenda!Interrupt <=> AgendaFacts!Snap!Interrupt) /\ (Agenda!OutOfBudget <=> AgendaFacts!Snap!OutOfBudget)
    BY DEF
        Agenda!Min, Agenda!Stories, Agenda!None, Agenda!Nothing, Agenda!Unsaved, Agenda!Off,
        Agenda!Tick, Agenda!Post, Agenda!Assign, Agenda!Leave, Agenda!Interrupt,
        Agenda!Gathered, Agenda!OutOfBudget, Agenda!Return, AgendaFacts!Snap!Min,
        AgendaFacts!Snap!Stories, AgendaFacts!Snap!None, AgendaFacts!Snap!Nothing,
        AgendaFacts!Snap!Unsaved, AgendaFacts!Snap!Off, AgendaFacts!Snap!Tick,
        AgendaFacts!Snap!Post, AgendaFacts!Snap!Assign, AgendaFacts!Snap!Leave,
        AgendaFacts!Snap!Interrupt, AgendaFacts!Snap!Gathered, AgendaFacts!Snap!OutOfBudget,
        AgendaFacts!Snap!Return
<1>8. \A T : (Agenda!Load(T) <=> AgendaFacts!Snap!Load(T)) /\ (Agenda!Gather(T) <=> AgendaFacts!Snap!Gather(T))
    BY DEF
        Agenda!IsFiniteSet, Agenda!Cardinality, Agenda!Stories, Agenda!Post, Agenda!Current,
        Agenda!Previous, Agenda!Supported, Agenda!LinksOf, Agenda!ChannelsOf, Agenda!Load,
        Agenda!Gathered, Agenda!Evidence, Agenda!Gather, AgendaFacts!Snap!IsFiniteSet,
        AgendaFacts!Snap!Cardinality, AgendaFacts!Snap!Stories, AgendaFacts!Snap!Post,
        AgendaFacts!Snap!Current, AgendaFacts!Snap!Previous, AgendaFacts!Snap!Supported,
        AgendaFacts!Snap!LinksOf, AgendaFacts!Snap!ChannelsOf, AgendaFacts!Snap!Load,
        AgendaFacts!Snap!Gathered, AgendaFacts!Snap!Evidence, AgendaFacts!Snap!Gather
<1>9. \A s : /\ (Agenda!Begin(s) <=> AgendaFacts!Snap!Begin(s)) /\ (Agenda!Answer(s) <=> AgendaFacts!Snap!Answer(s))
           /\ (Agenda!Save(s) <=> AgendaFacts!Snap!Save(s)) /\ \A how : (Agenda!Close(s, how) <=> AgendaFacts!Snap!Close(s, how))
    BY DEF
        Agenda!IsFiniteSet, Agenda!Cardinality, Agenda!Restrict, Agenda!Min, Agenda!Stories,
        Agenda!Unknown, Agenda!Begin, Agenda!First, Agenda!Answer, Agenda!Save,
        Agenda!Close, AgendaFacts!Snap!IsFiniteSet, AgendaFacts!Snap!Cardinality,
        AgendaFacts!Snap!Restrict, AgendaFacts!Snap!Min, AgendaFacts!Snap!Stories,
        AgendaFacts!Snap!Unknown, AgendaFacts!Snap!Begin, AgendaFacts!Snap!First,
        AgendaFacts!Snap!Answer, AgendaFacts!Snap!Save, AgendaFacts!Snap!Close
<1>10. (Agenda!Next <=> AgendaFacts!Snap!Next)
    BY <1>6, <1>7, <1>8, <1>9 DEF
        Agenda!Stories, Agenda!Channels, Agenda!Next, AgendaFacts!Snap!Stories,
        AgendaFacts!Snap!Channels, AgendaFacts!Snap!Next
<1>11. (Agenda!ConstantsOK <=> AgendaFacts!Snap!ConstantsOK)
    BY DEF
        Agenda!IsFiniteSet, Agenda!Stories, Agenda!ConstantsOK,
        AgendaFacts!Snap!IsFiniteSet, AgendaFacts!Snap!Stories, AgendaFacts!Snap!ConstantsOK
<1>12. (Agenda!Init <=> AgendaFacts!Snap!Init)
    BY DEF
        Agenda!Stories, Agenda!None, Agenda!Nothing, Agenda!Unsaved, Agenda!Off,
        Agenda!Init, AgendaFacts!Snap!Stories, AgendaFacts!Snap!None,
        AgendaFacts!Snap!Nothing, AgendaFacts!Snap!Unsaved, AgendaFacts!Snap!Off,
        AgendaFacts!Snap!Init
<1>13. (Agenda!TypeOK <=> AgendaFacts!Snap!TypeOK)
    BY DEF
        Agenda!IsFiniteSet, Agenda!Cardinality, Agenda!Stories, Agenda!Channels,
        Agenda!TypeOK, AgendaFacts!Snap!IsFiniteSet, AgendaFacts!Snap!Cardinality,
        AgendaFacts!Snap!Stories, AgendaFacts!Snap!Channels, AgendaFacts!Snap!TypeOK
<1>14. (Agenda!AgendaIsVerified <=> AgendaFacts!Snap!AgendaIsVerified)
    BY DEF
        Agenda!IsFiniteSet, Agenda!Cardinality, Agenda!Post, Agenda!Current,
        Agenda!Previous, Agenda!Supported, Agenda!LinksOf, Agenda!ChannelsOf,
        Agenda!Standing, Agenda!AgendaIsVerified, AgendaFacts!Snap!IsFiniteSet,
        AgendaFacts!Snap!Cardinality, AgendaFacts!Snap!Post, AgendaFacts!Snap!Current,
        AgendaFacts!Snap!Previous, AgendaFacts!Snap!Supported, AgendaFacts!Snap!LinksOf,
        AgendaFacts!Snap!ChannelsOf, AgendaFacts!Snap!Standing,
        AgendaFacts!Snap!AgendaIsVerified
<1>15. (Agenda!RestIsBlocked <=> AgendaFacts!Snap!RestIsBlocked)
    BY DEF
        Agenda!IsFiniteSet, Agenda!Cardinality, Agenda!Stories, Agenda!Post, Agenda!Current,
        Agenda!Previous, Agenda!ChannelsOf, Agenda!Votes, Agenda!Now, Agenda!Reporting,
        Agenda!Compared, Agenda!Growth, Agenda!Enough, Agenda!Blocks, Agenda!Eligible,
        Agenda!Growing, Agenda!Offered, Agenda!RestIsBlocked, AgendaFacts!Snap!IsFiniteSet,
        AgendaFacts!Snap!Cardinality, AgendaFacts!Snap!Stories, AgendaFacts!Snap!Post,
        AgendaFacts!Snap!Current, AgendaFacts!Snap!Previous, AgendaFacts!Snap!ChannelsOf,
        AgendaFacts!Snap!Votes, AgendaFacts!Snap!Now, AgendaFacts!Snap!Reporting,
        AgendaFacts!Snap!Compared, AgendaFacts!Snap!Growth, AgendaFacts!Snap!Enough,
        AgendaFacts!Snap!Blocks, AgendaFacts!Snap!Eligible, AgendaFacts!Snap!Growing,
        AgendaFacts!Snap!Offered, AgendaFacts!Snap!RestIsBlocked
<1>16. (Agenda!EvidenceIsVaried <=> AgendaFacts!Snap!EvidenceIsVaried)
    BY DEF
        Agenda!IsFiniteSet, Agenda!Cardinality, Agenda!Min, Agenda!Stories, Agenda!Post,
        Agenda!ChannelsOf, Agenda!EvidenceIsVaried, AgendaFacts!Snap!IsFiniteSet,
        AgendaFacts!Snap!Cardinality, AgendaFacts!Snap!Min, AgendaFacts!Snap!Stories,
        AgendaFacts!Snap!Post, AgendaFacts!Snap!ChannelsOf,
        AgendaFacts!Snap!EvidenceIsVaried
<1>17. (Agenda!VerdictIsFinal <=> AgendaFacts!Snap!VerdictIsFinal)
    BY DEF
        Agenda!Stories, Agenda!VerdictIsFinal, AgendaFacts!Snap!Stories,
        AgendaFacts!Snap!VerdictIsFinal
<1> QED BY <1>10, <1>11, <1>12, <1>13, <1>14, <1>15, <1>16, <1>17

\* So the whole has them.
LEMMA AgendaHolds ==
    ReportsSpec =>
        /\ [](part = "agenda" => (Agenda!TypeOK /\ Agenda!AgendaIsVerified /\
            Agenda!RestIsBlocked /\ Agenda!EvidenceIsVaried))
        /\ [][part = "agenda" => Agenda!VerdictIsFinal]_parts
<1> ReportsInit /\ part = "agenda" => AgendaFacts!Snap!Init
    BY AgendaSame DEF ReportsInit
<1> [ReportsNext]_parts /\ part = "agenda" =>
        [AgendaFacts!Snap!Next]_(AgendaFacts!Snap!vars)
    BY AgendaSame DEF ReportsNext, parts, AgendaFacts!Snap!vars
<1> [ReportsNext]_parts /\ part = "agenda" /\
        [AgendaFacts!Snap!VerdictIsFinal]_(AgendaFacts!Snap!vars) => [part = "agenda" =>
        Agenda!VerdictIsFinal]_parts
    BY AgendaSame DEF ReportsNext, parts, Kept12, Kept13, Kept14, Kept15, Kept16, Kept17,
        AgendaFacts!Snap!vars
<1> AgendaFacts!Snap!Spec => [](AgendaFacts!Snap!TypeOK /\
        AgendaFacts!Snap!AgendaIsVerified /\ AgendaFacts!Snap!RestIsBlocked /\
        AgendaFacts!Snap!EvidenceIsVaried) /\
        [][AgendaFacts!Snap!VerdictIsFinal]_(AgendaFacts!Snap!vars)
    BY ReportConstants, AgendaSame, AgendaFacts!AgendaIsProven, AgendaFacts!VerdictsStay,
        PTL
<1> AgendaFacts!Snap!TypeOK /\ AgendaFacts!Snap!AgendaIsVerified /\
        AgendaFacts!Snap!RestIsBlocked /\ AgendaFacts!Snap!EvidenceIsVaried =>
        (Agenda!TypeOK /\ Agenda!AgendaIsVerified /\ Agenda!RestIsBlocked /\
        Agenda!EvidenceIsVaried)
    BY AgendaSame
<1> QED BY ReportsStay, PTL DEF ReportsSpec, AgendaFacts!Snap!Spec

EnrichFacts == INSTANCE ReportProofs WITH
    NumStories <- EnrichSetting.NumStories, Channels <- EnrichSetting.Channels,
    MaxReplies <- EnrichSetting.MaxReplies, Top <- EnrichSetting.Top,
    JoinLimit <- EnrichSetting.JoinLimit, Ttl <- EnrichSetting.Ttl,
    CacheLimit <- EnrichSetting.CacheLimit, MaxTime <- EnrichSetting.MaxTime,
    time <- v1, replies <- v2, stage <- v3, agenda <- v4, counts <- v5, story <- v6,
    threads <- v7, read <- v8, cache <- v9, shown <- v10, joined <- v11, left <- v12,
    english <- v13, spent <- v14, asked <- v15, failed <- v16

\* The facts are about the Enrich of PipelineParts.
LEMMA EnrichSame ==
    /\ (Enrich!ConstantsOK <=> EnrichFacts!Enrich!ConstantsOK)
    /\ (Enrich!EnrichInit <=> EnrichFacts!Enrich!EnrichInit)
    /\ (Enrich!EnrichNext <=> EnrichFacts!Enrich!EnrichNext)
    /\ (Enrich!JoinsBounded <=> EnrichFacts!Enrich!JoinsBounded)
    /\ (Enrich!CardsFresh <=> EnrichFacts!Enrich!CardsFresh)
    /\ (Enrich!AskedOnce <=> EnrichFacts!Enrich!AskedOnce)
    /\ (Enrich!EnglishOrFailed <=> EnrichFacts!Enrich!EnglishOrFailed)
BY DEF
       Enrich!IsFiniteSet, Enrich!Cardinality, Enrich!ConstantsOK, Enrich!Stories,
       Enrich!NoEntry, Enrich!Title, Enrich!Quote, Enrich!discussVars, Enrich!joinVars,
       Enrich!textVars, Enrich!Total, Enrich!EnrichInit, Enrich!Comment, Enrich!Begin,
       Enrich!Count, Enrich!Rank, Enrich!Cached, Enrich!Attach, Enrich!PassStory,
       Enrich!ReadStory, Enrich!Refused, Enrich!ReadThread, Enrich!Summarize,
       Enrich!TimedOut, Enrich!DiscussTimeout, Enrich!Discussed, Enrich!Texts,
       Enrich!Missing, Enrich!Translate, Enrich!TranslateTimeout, Enrich!Publish,
       Enrich!EnrichNext, Enrich!JoinsBounded, Enrich!CardsFresh, Enrich!EnglishOrFailed,
       Enrich!AskedOnce, EnrichFacts!Enrich!IsFiniteSet, EnrichFacts!Enrich!Cardinality,
       EnrichFacts!Enrich!ConstantsOK, EnrichFacts!Enrich!Stories,
       EnrichFacts!Enrich!NoEntry, EnrichFacts!Enrich!Title, EnrichFacts!Enrich!Quote,
       EnrichFacts!Enrich!discussVars, EnrichFacts!Enrich!joinVars,
       EnrichFacts!Enrich!textVars, EnrichFacts!Enrich!Total, EnrichFacts!Enrich!EnrichInit,
       EnrichFacts!Enrich!Comment, EnrichFacts!Enrich!Begin, EnrichFacts!Enrich!Count,
       EnrichFacts!Enrich!Rank, EnrichFacts!Enrich!Cached, EnrichFacts!Enrich!Attach,
       EnrichFacts!Enrich!PassStory, EnrichFacts!Enrich!ReadStory,
       EnrichFacts!Enrich!Refused, EnrichFacts!Enrich!ReadThread,
       EnrichFacts!Enrich!Summarize, EnrichFacts!Enrich!TimedOut,
       EnrichFacts!Enrich!DiscussTimeout, EnrichFacts!Enrich!Discussed,
       EnrichFacts!Enrich!Texts, EnrichFacts!Enrich!Missing, EnrichFacts!Enrich!Translate,
       EnrichFacts!Enrich!TranslateTimeout, EnrichFacts!Enrich!Publish,
       EnrichFacts!Enrich!EnrichNext, EnrichFacts!Enrich!JoinsBounded,
       EnrichFacts!Enrich!CardsFresh, EnrichFacts!Enrich!EnglishOrFailed,
       EnrichFacts!Enrich!AskedOnce

\* So the whole has them.
LEMMA EnrichHolds ==
    PipelinesSpec =>
        /\ [](part = "enrich" => (Enrich!JoinsBounded /\ Enrich!CardsFresh))
        /\ [][part = "enrich" => (Enrich!AskedOnce /\ Enrich!EnglishOrFailed)]_parts
<1> PipelinesInit /\ part = "enrich" => EnrichFacts!Enrich!EnrichInit
    BY EnrichSame DEF PipelinesInit
<1> [PipelinesNext]_parts /\ part = "enrich" =>
        [EnrichFacts!Enrich!EnrichNext]_(EnrichFacts!Enrich!enrichVars)
    BY EnrichSame DEF PipelinesNext, parts, EnrichFacts!Enrich!discussVars,
        EnrichFacts!Enrich!joinVars, EnrichFacts!Enrich!textVars,
        EnrichFacts!Enrich!enrichVars
<1> [PipelinesNext]_parts /\ part = "enrich" /\ [EnrichFacts!Enrich!AskedOnce /\
        EnrichFacts!Enrich!EnglishOrFailed]_(EnrichFacts!Enrich!enrichVars) =>
        [part = "enrich" => (Enrich!AskedOnce /\ Enrich!EnglishOrFailed)]_parts
    BY EnrichSame DEF PipelinesNext, parts, Kept17, EnrichFacts!Enrich!discussVars,
        EnrichFacts!Enrich!joinVars, EnrichFacts!Enrich!textVars,
        EnrichFacts!Enrich!enrichVars
<1> EnrichFacts!Enrich!EnrichSpec => [](EnrichFacts!Enrich!JoinsBounded /\
        EnrichFacts!Enrich!CardsFresh) /\ [][EnrichFacts!Enrich!AskedOnce /\
        EnrichFacts!Enrich!EnglishOrFailed]_(EnrichFacts!Enrich!enrichVars)
    BY PipelineConstants, EnrichSame, EnrichFacts!EnrichmentSafe,
        EnrichFacts!EnrichmentSteps, PTL
<1> EnrichFacts!Enrich!JoinsBounded /\ EnrichFacts!Enrich!CardsFresh =>
        (Enrich!JoinsBounded /\ Enrich!CardsFresh)
    BY EnrichSame
<1> QED BY PipelinesStay, PTL DEF PipelinesSpec, EnrichFacts!Enrich!EnrichSpec

PaidFacts == INSTANCE ReportProofs WITH
    Labels <- PaidSetting.Labels, Pairs <- PaidSetting.Pairs,
    BatchSize <- PaidSetting.BatchSize, Workers <- PaidSetting.Workers,
    MaxUsd <- PaidSetting.MaxUsd, ReserveLabel <- PaidSetting.ReserveLabel,
    ReservePair <- PaidSetting.ReservePair, Costs <- PaidSetting.Costs,
    MaxRuns <- PaidSetting.MaxRuns,
    cache <- v1, runs <- v2, pc <- v3, stage <- v4, got <- v5, jobs <- v6, budget <- v7,
    before <- v8

\* The facts are about the Paid of PipelineParts.
LEMMA PaidSame ==
    /\ (Paid!ConstantsOK <=> PaidFacts!Paid!ConstantsOK)
    /\ (Paid!Init <=> PaidFacts!Paid!Init)
    /\ (Paid!PulseNext <=> PaidFacts!Paid!PulseNext)
    /\ (Paid!SpendWithinCap <=> PaidFacts!Paid!SpendWithinCap)
    /\ (Paid!ReplayEqual <=> PaidFacts!Paid!ReplayEqual)
BY DEF
       Paid!IsFiniteSet, Paid!Cardinality, Paid!None, Paid!ConstantsOK, Paid!Stages,
       Paid!IsPair, Paid!Items, Paid!AllItems, Paid!Estimate, Paid!NewBudget, Paid!Nothing,
       Paid!Larger, Paid!Init, Paid!Admits, Paid!Reserve, Paid!Settle, Paid!Misses,
       Paid!Batch, Paid!Batches, Paid!Begin, Paid!LookUp, Paid!Out, Paid!Send,
       Paid!Answered, Paid!Reply, Paid!Fail, Paid!Gathered, Paid!Written, Paid!Store,
       Paid!Remaining, Paid!NextStage, Paid!Die, Paid!PulseNext, Paid!MostCost,
       Paid!LeastReserve, Paid!SpendWithinCap, Paid!Replayed, Paid!ReplayEqual,
       PaidFacts!Paid!IsFiniteSet, PaidFacts!Paid!Cardinality, PaidFacts!Paid!None,
       PaidFacts!Paid!ConstantsOK, PaidFacts!Paid!Stages, PaidFacts!Paid!IsPair,
       PaidFacts!Paid!Items, PaidFacts!Paid!AllItems, PaidFacts!Paid!Estimate,
       PaidFacts!Paid!NewBudget, PaidFacts!Paid!Nothing, PaidFacts!Paid!Larger,
       PaidFacts!Paid!Init, PaidFacts!Paid!Admits, PaidFacts!Paid!Reserve,
       PaidFacts!Paid!Settle, PaidFacts!Paid!Misses, PaidFacts!Paid!Batch,
       PaidFacts!Paid!Batches, PaidFacts!Paid!Begin, PaidFacts!Paid!LookUp,
       PaidFacts!Paid!Out, PaidFacts!Paid!Send, PaidFacts!Paid!Answered,
       PaidFacts!Paid!Reply, PaidFacts!Paid!Fail, PaidFacts!Paid!Gathered,
       PaidFacts!Paid!Written, PaidFacts!Paid!Store, PaidFacts!Paid!Remaining,
       PaidFacts!Paid!NextStage, PaidFacts!Paid!Die, PaidFacts!Paid!PulseNext,
       PaidFacts!Paid!MostCost, PaidFacts!Paid!LeastReserve, PaidFacts!Paid!SpendWithinCap,
       PaidFacts!Paid!Replayed, PaidFacts!Paid!ReplayEqual

\* So the whole has them.
LEMMA PaidHolds ==
    PipelinesSpec => [](part = "paid" => (Paid!SpendWithinCap /\ Paid!ReplayEqual))
<1> PipelinesInit /\ part = "paid" => PaidFacts!Paid!Init
    BY PaidSame DEF PipelinesInit
<1> [PipelinesNext]_parts /\ part = "paid" =>
        [PaidFacts!Paid!PulseNext]_(PaidFacts!Paid!vars)
    BY PaidSame DEF PipelinesNext, parts, PaidFacts!Paid!vars
<1> PaidFacts!Paid!PulseSpec => [](PaidFacts!Paid!SpendWithinCap /\
        PaidFacts!Paid!ReplayEqual)
    BY PipelineConstants, PaidSame, PaidFacts!PulsePaidOnce, PTL
<1> PaidFacts!Paid!SpendWithinCap /\ PaidFacts!Paid!ReplayEqual => (Paid!SpendWithinCap /\
        Paid!ReplayEqual)
    BY PaidSame
<1> QED BY PipelinesStay, PTL DEF PipelinesSpec, PaidFacts!Paid!PulseSpec

BuildFacts == INSTANCE ReportProofs WITH
    Day <- BuildSetting.Day, Channels <- BuildSetting.Channels,
    Windows <- BuildSetting.Windows, Times <- BuildSetting.Times,
    MaxBuilds <- BuildSetting.MaxBuilds, MaxRows <- BuildSetting.MaxRows,
    asked <- v1, rows <- v2, pc <- v3, builds <- v4, begun <- v5, current <- v6,
    previous <- v7, changes <- v8, next <- v9, files <- v10

\* The facts are about the Build of PipelineParts.
LEMMA BuildSame ==
    /\ (Build!ConstantsOK <=> BuildFacts!Rebuild!ConstantsOK)
    /\ (Build!Init <=> BuildFacts!Rebuild!Init)
    /\ (Build!Next <=> BuildFacts!Rebuild!Next)
    /\ (Build!RunIsConsistent <=> BuildFacts!Rebuild!RunIsConsistent)
BY DEF
       Build!IsFiniteSet, Build!Cardinality, Build!NoTime, Build!Files, Build!Parsed,
       Build!Refused, Build!PreviousWindow, Build!Within, Build!Load,
       Build!ConstantsOK, Build!ChannelsOf, Build!NoSnap, Build!NoChanges, Build!Init,
       Build!Collect, Build!Begin, Build!Compare, Build!Written, Build!Open, Build!Fill,
       Build!Die, Build!Served, Build!Rendered, Build!Next, Build!Both, Build!CountedOnce,
       Build!AddedIsNew, Build!ManifestIsLast, Build!RunIsConsistent,
       BuildFacts!Rebuild!IsFiniteSet, BuildFacts!Rebuild!Cardinality,
       BuildFacts!Rebuild!NoTime, BuildFacts!Rebuild!Files, BuildFacts!Rebuild!Parsed,
       BuildFacts!Rebuild!Refused,
       BuildFacts!Rebuild!PreviousWindow, BuildFacts!Rebuild!Within,
       BuildFacts!Rebuild!Load, BuildFacts!Rebuild!ConstantsOK,
       BuildFacts!Rebuild!ChannelsOf, BuildFacts!Rebuild!NoSnap,
       BuildFacts!Rebuild!NoChanges, BuildFacts!Rebuild!Init, BuildFacts!Rebuild!Collect,
       BuildFacts!Rebuild!Begin, BuildFacts!Rebuild!Compare, BuildFacts!Rebuild!Written,
       BuildFacts!Rebuild!Open, BuildFacts!Rebuild!Fill, BuildFacts!Rebuild!Die,
       BuildFacts!Rebuild!Served, BuildFacts!Rebuild!Rendered, BuildFacts!Rebuild!Next,
       BuildFacts!Rebuild!Both, BuildFacts!Rebuild!CountedOnce,
       BuildFacts!Rebuild!AddedIsNew,
       BuildFacts!Rebuild!ManifestIsLast, BuildFacts!Rebuild!RunIsConsistent

\* So the whole has them.
LEMMA BuildHolds ==
    PipelinesSpec => [](part = "build" => Build!RunIsConsistent)
<1> PipelinesInit /\ part = "build" => BuildFacts!Rebuild!Init
    BY BuildSame DEF PipelinesInit
<1> [PipelinesNext]_parts /\ part = "build" =>
        [BuildFacts!Rebuild!Next]_(BuildFacts!Rebuild!vars)
    BY BuildSame DEF PipelinesNext, parts, BuildFacts!Rebuild!vars
<1> BuildFacts!Rebuild!Spec => [](BuildFacts!Rebuild!RunIsConsistent)
    BY PipelineConstants, BuildSame, BuildFacts!RunsBelongTogether, PTL
<1> BuildFacts!Rebuild!RunIsConsistent => Build!RunIsConsistent
    BY BuildSame
<1> QED BY PipelinesStay, PTL DEF PipelinesSpec, BuildFacts!Rebuild!Spec

AuditFacts == INSTANCE ReportProofs WITH
    Calls <- AuditSetting.Calls, QueueEvents <- AuditSetting.QueueEvents,
    QueueBytes <- AuditSetting.QueueBytes, EventBytes <- AuditSetting.EventBytes,
    Sizes <- AuditSetting.Sizes,
    phase <- v1, queue <- v2, writing <- v3, pending <- v4, emitted <- v5, stored <- v6,
    dropped <- v7, state <- v8, closing <- v9, verdict <- v10

\* The facts are about the Audit of PipelineParts.
LEMMA AuditSame ==
    /\ (Audit!ConstantsOK <=> AuditFacts!Trail!ConstantsOK)
    /\ (Audit!AuditInit <=> AuditFacts!Trail!AuditInit)
    /\ (Audit!AuditNext <=> AuditFacts!Trail!AuditNext)
    /\ (Audit!PendingIsHeld <=> AuditFacts!Trail!PendingIsHeld)
    /\ (Audit!LossIsTold <=> AuditFacts!Trail!LossIsTold)
BY DEF
       Audit!ConstantsOK, Audit!Nobody, Audit!Bytes, Audit!AuditInit, Audit!Fits,
       Audit!Enqueue, Audit!Begin, Audit!GoOut, Audit!End, Audit!Take, Audit!Judged,
       Audit!Written, Audit!Close, Audit!Flushed, Audit!AuditNext, Audit!PendingIsHeld,
       Audit!Held, Audit!LossIsTold, AuditFacts!Trail!ConstantsOK, AuditFacts!Trail!Nobody,
       AuditFacts!Trail!Bytes, AuditFacts!Trail!AuditInit, AuditFacts!Trail!Fits,
       AuditFacts!Trail!Enqueue, AuditFacts!Trail!Begin, AuditFacts!Trail!GoOut,
       AuditFacts!Trail!End, AuditFacts!Trail!Take, AuditFacts!Trail!Judged,
       AuditFacts!Trail!Written, AuditFacts!Trail!Close, AuditFacts!Trail!Flushed,
       AuditFacts!Trail!AuditNext, AuditFacts!Trail!PendingIsHeld, AuditFacts!Trail!Held,
       AuditFacts!Trail!LossIsTold

\* So the whole has them.
LEMMA AuditHolds ==
    PipelinesSpec => [](part = "audit" => (Audit!PendingIsHeld /\ Audit!LossIsTold))
<1> PipelinesInit /\ part = "audit" => AuditFacts!Trail!AuditInit
    BY AuditSame DEF PipelinesInit
<1> [PipelinesNext]_parts /\ part = "audit" =>
        [AuditFacts!Trail!AuditNext]_(AuditFacts!Trail!auditVars)
    BY AuditSame DEF PipelinesNext, parts, AuditFacts!Trail!auditVars
<1> AuditFacts!Trail!AuditSpec => [](AuditFacts!Trail!PendingIsHeld /\
        AuditFacts!Trail!LossIsTold)
    BY PipelineConstants, AuditSame, AuditFacts!AuditIsTold, PTL
<1> AuditFacts!Trail!PendingIsHeld /\ AuditFacts!Trail!LossIsTold =>
        (Audit!PendingIsHeld /\ Audit!LossIsTold)
    BY AuditSame
<1> QED BY PipelinesStay, PTL DEF PipelinesSpec, AuditFacts!Trail!AuditSpec

CatalogFacts == INSTANCE ReportProofs WITH
    Ids <- CatalogSetting.Ids, Names <- CatalogSetting.Names, Pubs <- CatalogSetting.Pubs,
    Versions <- CatalogSetting.Versions, Stories <- CatalogSetting.Stories,
    MaxSaves <- CatalogSetting.MaxSaves,
    version <- v1, names <- v2, token <- v3, given <- v4, links <- v5, row <- v6,
    saves <- v7

\* The facts are about the Catalog of PipelineParts.
LEMMA CatalogSame ==
    /\ (Catalog!ConstantsOK <=> CatalogFacts!Catalog!ConstantsOK)
    /\ (Catalog!Init <=> CatalogFacts!Catalog!Init)
    /\ (Catalog!Next <=> CatalogFacts!Catalog!Next)
    /\ (Catalog!FoundUnlessGiven <=> CatalogFacts!Catalog!FoundUnlessGiven)
BY DEF
       Catalog!ConstantsOK, Catalog!Indexed, Catalog!LinkKeys, Catalog!Put, Catalog!Silent,
       Catalog!NoToken, Catalog!Tokens, Catalog!Init, Catalog!Backfilled, Catalog!Start,
       Catalog!Wanted, Catalog!Found, Catalog!Committed, Catalog!SaveAssignment,
       Catalog!Retokened, Catalog!SaveEntity, Catalog!Next, Catalog!FindableBy,
       Catalog!FoundUnlessGiven,
       CatalogFacts!Catalog!ConstantsOK, CatalogFacts!Catalog!Indexed,
       CatalogFacts!Catalog!LinkKeys, CatalogFacts!Catalog!Put, CatalogFacts!Catalog!Silent,
       CatalogFacts!Catalog!NoToken, CatalogFacts!Catalog!Tokens, CatalogFacts!Catalog!Init,
       CatalogFacts!Catalog!Backfilled, CatalogFacts!Catalog!Start,
       CatalogFacts!Catalog!Wanted, CatalogFacts!Catalog!Found,
       CatalogFacts!Catalog!Committed, CatalogFacts!Catalog!SaveAssignment,
       CatalogFacts!Catalog!Retokened,
       CatalogFacts!Catalog!SaveEntity, CatalogFacts!Catalog!Next,
       CatalogFacts!Catalog!FindableBy, CatalogFacts!Catalog!FoundUnlessGiven

\* So the whole has them.
LEMMA CatalogHolds ==
    PipelinesSpec => [](part = "catalog" => Catalog!FoundUnlessGiven)
<1> PipelinesInit /\ part = "catalog" => CatalogFacts!Catalog!Init
    BY CatalogSame DEF PipelinesInit
<1> [PipelinesNext]_parts /\ part = "catalog" =>
        [CatalogFacts!Catalog!Next]_(CatalogFacts!Catalog!vars)
    BY CatalogSame DEF PipelinesNext, parts, CatalogFacts!Catalog!vars
<1> CatalogFacts!Catalog!Spec => [](CatalogFacts!Catalog!FoundUnlessGiven)
    BY PipelineConstants, CatalogSame, CatalogFacts!CatalogIsKept, PTL
<1> CatalogFacts!Catalog!FoundUnlessGiven => Catalog!FoundUnlessGiven
    BY CatalogSame
<1> QED BY PipelinesStay, PTL DEF PipelinesSpec, CatalogFacts!Catalog!Spec

SchemaFacts == INSTANCE ReportProofs WITH
    Procs <- SchemaSetting.Procs, Rows <- SchemaSetting.Rows,
    Entities <- SchemaSetting.Entities, PageSize <- SchemaSetting.PageSize,
    MaxBoots <- SchemaSetting.MaxBoots,
    db <- v1, tx <- v2, pc <- v3, at <- v4, seen <- v5, boots <- v6, together <- v7

\* The facts are about the Schema of PipelineParts.
LEMMA SchemaSame ==
    /\ (Schema!ConstantsOK <=> SchemaFacts!Schema!ConstantsOK)
    /\ (Schema!Init <=> SchemaFacts!Schema!Init)
    /\ (Schema!MigrateNext <=> SchemaFacts!Schema!MigrateNext)
    /\ (Schema!MigrationIsSafe <=> SchemaFacts!Schema!MigrationIsSafe)
BY DEF
       Schema!IsFiniteSet, Schema!Cardinality, Schema!Latest, Schema!None, Schema!Tables,
       Schema!ConstantsOK, Schema!Booting, Schema!NoTx, Schema!View, Schema!Least,
       Schema!Init, Schema!Goes, Schema!Boot, Schema!Version, Schema!FirstVersion,
       Schema!ToDo, Schema!Moved, Schema!Done, Schema!Clashes, Schema!InTransaction,
       Schema!Check, Schema!Ends, Schema!Act, Schema!Bump, Schema!Locked, Schema!Crash,
       Schema!Serve, Schema!MigrateNext, Schema!RowsKept, Schema!ServedIsMigrated,
       Schema!RestartSucceeds, Schema!MigrationIsSafe, SchemaFacts!Schema!IsFiniteSet,
       SchemaFacts!Schema!Cardinality, SchemaFacts!Schema!Latest, SchemaFacts!Schema!None,
       SchemaFacts!Schema!Tables, SchemaFacts!Schema!ConstantsOK,
       SchemaFacts!Schema!Booting, SchemaFacts!Schema!NoTx, SchemaFacts!Schema!View,
       SchemaFacts!Schema!Least, SchemaFacts!Schema!Init, SchemaFacts!Schema!Goes,
       SchemaFacts!Schema!Boot, SchemaFacts!Schema!Version, SchemaFacts!Schema!FirstVersion,
       SchemaFacts!Schema!ToDo, SchemaFacts!Schema!Moved, SchemaFacts!Schema!Done,
       SchemaFacts!Schema!Clashes, SchemaFacts!Schema!InTransaction,
       SchemaFacts!Schema!Check, SchemaFacts!Schema!Ends, SchemaFacts!Schema!Act,
       SchemaFacts!Schema!Bump, SchemaFacts!Schema!Locked, SchemaFacts!Schema!Crash,
       SchemaFacts!Schema!Serve, SchemaFacts!Schema!MigrateNext,
       SchemaFacts!Schema!RowsKept, SchemaFacts!Schema!ServedIsMigrated,
       SchemaFacts!Schema!RestartSucceeds, SchemaFacts!Schema!MigrationIsSafe

\* So the whole has them.
LEMMA SchemaHolds ==
    PipelinesSpec => [](part = "schema" => Schema!MigrationIsSafe)
<1> PipelinesInit /\ part = "schema" => SchemaFacts!Schema!Init
    BY SchemaSame DEF PipelinesInit
<1> [PipelinesNext]_parts /\ part = "schema" =>
        [SchemaFacts!Schema!MigrateNext]_(SchemaFacts!Schema!vars)
    BY SchemaSame DEF PipelinesNext, parts, SchemaFacts!Schema!vars
<1> SchemaFacts!Schema!MigrateSpec => [](SchemaFacts!Schema!MigrationIsSafe)
    BY PipelineConstants, SchemaSame, SchemaFacts!MigrationsAreSafe, PTL
<1> SchemaFacts!Schema!MigrationIsSafe => Schema!MigrationIsSafe
    BY SchemaSame
<1> QED BY PipelinesStay, PTL DEF PipelinesSpec, SchemaFacts!Schema!MigrateSpec

-----------------------------------------------------------------------------
\* The life of a snapshot, whether or not two may have the same time: ids are unique,
\* rows stay for the retention, a useful report is restored, a request gets a report
\* published while it ran, and only a restored older one is refused.
THEOREM StoreSound == ReportsSpec => []StoreIsSound
BY StoreHolds, TiesHolds, PTL DEF StoreIsSound

\* A report that shows stories gives way to an empty one only after a full analysis.
THEOREM NothingHidden == ReportsSpec => NotHiddenByBackfill
BY StoreHolds, TiesHolds, PTL DEF NotHiddenByBackfill

\* The agenda lists verified stories, what is not verified is blocked or waits, and
\* the evidence shown is as varied as what was verified allows.
THEOREM AgendaSound == ReportsSpec => []AgendaIsSound
BY AgendaHolds, PTL DEF AgendaIsSound

\* A stored verdict is never asked for again nor replaced.
THEOREM VerdictsAreFinal == ReportsSpec => VerdictIsFinal
BY AgendaHolds, PTL DEF VerdictIsFinal

\* Joins stay within the budget of a cycle, and no card shows an old discussion.
THEOREM EnrichmentSound == PipelinesSpec => []EnrichmentIsSound
BY EnrichHolds, PTL DEF EnrichmentIsSound

\* Unchanged comments are summarised once per time to live, and a text left in
\* another language was tried or the cache had overflowed.
THEOREM AskedOnlyOnce == PipelinesSpec => AskedOnce
BY EnrichHolds, PTL DEF AskedOnce

\* A pulse build stays within its cap, can be had again from its cache, and leaves
\* files that belong together.
THEOREM PulseRunSound == PipelinesSpec => []PulseRunIsSound
BY PaidHolds, BuildHolds, PTL DEF PulseRunIsSound

\* The audit tells of every loss, saved entities are found by name and links keep
\* their keys, and migrations lose no row.
THEOREM StoresSound == PipelinesSpec => []StoresAreSound
BY AuditHolds, CatalogHolds, SchemaHolds, PTL DEF StoresAreSound

=============================================================================
