--------------------------- MODULE PipelineParts ---------------------------
(***************************************************************************)
(* The pipelines around the agenda: fragments and claims of a text, the    *)
(* enrichment of a report by readers' comments, the older brief pipeline   *)
(* and its report, the news pulse, and the stores and the audit under them.*)
(***************************************************************************)
EXTENDS Parts, Integers, Sequences, FiniteSets

\* What each part is given: a record of the values of its constants.
CONSTANTS EnrichSetting, PaidSetting, BuildSetting, AuditSetting, CatalogSetting,
          SchemaSetting

Extract == INSTANCE Extraction WITH
    TextLength <- 3, MinWords <- 1, Copies <- {1, 2},
    text <- v1, answer <- v2, saved <- v3, result <- v4, queued <- v5

EnrichValues == [NumStories |-> 2, Channels |-> {"a", "b"}, MaxReplies |-> 1, Top |-> 1,
                 JoinLimit |-> 1, Ttl |-> 2, CacheLimit |-> 2, MaxTime |-> 2]
Enrich == INSTANCE Enrichment WITH
    NumStories <- EnrichSetting.NumStories, Channels <- EnrichSetting.Channels,
    MaxReplies <- EnrichSetting.MaxReplies, Top <- EnrichSetting.Top,
    JoinLimit <- EnrichSetting.JoinLimit, Ttl <- EnrichSetting.Ttl,
    CacheLimit <- EnrichSetting.CacheLimit, MaxTime <- EnrichSetting.MaxTime,
    time <- v1, replies <- v2, stage <- v3, agenda <- v4, counts <- v5, story <- v6,
    threads <- v7, read <- v8, cache <- v9, shown <- v10, joined <- v11, left <- v12,
    english <- v13, spent <- v14, asked <- v15, failed <- v16

-----------------------------------------------------------------------------
(* Two channels.  "a": a post filtered out, then a post of two links, then *)
(* one of the second link in the same second.  "b": a post that shares the *)
(* first link, and much later one with the text of an old post.            *)
PostSigs ==
    << {<<"text", 1>>},
       {<<"text", 2>>, <<"url", 1>>, <<"url", 2>>},
       {<<"text", 3>>, <<"url", 2>>},
       {<<"text", 4>>, <<"url", 1>>},
       {<<"text", 2>>, <<"url", 1>>, <<"url", 2>>} >>

Brief == INSTANCE BriefPipeline WITH
    Posts <- 1 .. 5, Channels <- <<"a", "b">>, ChannelOf <- <<"a", "a", "a", "b", "b">>,
    TimeOf <- <<1, 2, 2, 1, 4>>, IdOf <- <<1, 2, 3, 4, 5>>, SigsOf <- PostSigs,
    Passing <- 2 .. 5, ChannelLimit <- 2, RunLimit <- 3, Window <- 1, BatchSize <- 2,
    Retries <- 1, MaxTicks <- 3,
    stored <- v1, oneShot <- v2, mark <- v3, seen <- v4, queue <- v5, left <- v6, cut <- v7,
    pc <- v8, todo <- v9, inTick <- v10, works <- v11, byId <- v12, asking <- v13,
    missing <- v14, pass <- v15, scored <- v16, tick <- v17

\* One text on two channels, of which the more important row has no summary; a
\* report of the same event; a product announcement of the same company; one of
\* the first channel; one below the cut; two of another event.
Row(ch, id, text, time, importance, gist, entities, actions) ==
    [key |-> <<ch, id>>, channel |-> ch, text |-> text, time |-> time,
     importance |-> importance, gist |-> gist, link |-> <<ch, id>>,
     entities |-> entities, actions |-> actions, urls |-> {}, domains |-> {},
     ids |-> {}, event |-> "", words |-> {}]
EightRows ==
    << Row("a", 1, 1, 1, 3, "halted", {"E"}, {"halt"}),
       Row("b", 1, 1, 1, 4, "", {"E"}, {"halt"}),
       Row("c", 1, 2, 2, 3, "stopped", {"E"}, {"halt", "launch"}),
       Row("b", 2, 3, 2, 3, "product", {"E"}, {"launch"}),
       Row("a", 2, 4, 3, 2, "again", {"E", "F"}, {"halt"}),
       Row("c", 2, 5, 1, 1, "small", {}, {}),
       Row("c", 3, 6, 5, 2, "banned", {"G", "H"}, {"ban"}),
       Row("a", 3, 7, 5, 2, "forbidden", {"G", "H"}, {"ban"}) >>

Report == INSTANCE ReportPlan WITH
    Rows <- EightRows, MinImportance <- 2, Wide <- 2, Tight <- 1, Announcements <- {"launch"},
    MaxPairs <- 4, MaxSize <- 3, MaxComponents <- 2, PlanLength <- 2,
    stage <- v1, kept <- v2, components <- v3, judged <- v4, blocks <- v5, points <- v6

-----------------------------------------------------------------------------
PaidValues == [Labels |-> 2, Pairs |-> 2, BatchSize |-> 2, Workers |-> 2, MaxUsd |-> 3,
               ReserveLabel |-> 2, ReservePair |-> 2, Costs |-> {1, 3}, MaxRuns |-> 2]
Paid == INSTANCE PulseClient WITH
    Labels <- PaidSetting.Labels, Pairs <- PaidSetting.Pairs,
    BatchSize <- PaidSetting.BatchSize, Workers <- PaidSetting.Workers,
    MaxUsd <- PaidSetting.MaxUsd, ReserveLabel <- PaidSetting.ReserveLabel,
    ReservePair <- PaidSetting.ReservePair, Costs <- PaidSetting.Costs,
    MaxRuns <- PaidSetting.MaxRuns,
    cache <- v1, runs <- v2, pc <- v3, stage <- v4, got <- v5, jobs <- v6, budget <- v7,
    before <- v8

None == "none"
Observation(actor, object, date, pub, amount, wording, day) ==
    [actor |-> actor, action |-> "list", object |-> object, spelled |-> object,
     version |-> None, date |-> date,
     fromPub |-> pub, amount |-> amount, wording |-> wording, post |-> wording, day |-> day]
\* Of a ticker: with and without an actor, one opposed action; of a fund: dates
\* from the text and from the publication, amounts that agree; of a block time, a
\* vote and what it is about.
SomeObservations ==
    {Observation(x, "zec", 0, FALSE, 0, "w1", 1) : x \in {"binance", "coinbase"}}
        \cup {Observation(None, "zec", 0, FALSE, 0, "w2", 1),
              Observation("kraken", "zec", 0, FALSE, 0, "w2", 2),
              [Observation(None, "zec", 0, FALSE, 0, "w2", 2) EXCEPT !.action = "vote"],
              [Observation("binance", "zec", 0, FALSE, 0, "w3", 2) EXCEPT !.action = "upgrade"]}
        \cup {Observation(None, "btc_etf", x[1], x[2], x[3], x[4], x[5]) : x \in {
              <<1, FALSE, 1437, "f1", 1>>, <<2, TRUE, 1440, "f2", 2>>,
              <<2, FALSE, 1440, "f3", 2>>, <<0, FALSE, 1440, "f4", 2>>, <<0, FALSE, 0, "f5", 3>>}}
        \cup {Observation(None, "eth_etf", 1, FALSE, 0, "f6", 1)}
        \cup {[Observation(None, "block_time", 0, FALSE, 0, x, 2)
                   EXCEPT !.action = x, !.spelled = x, !.version = "2s"] : x \in {"vote", "reduce"}}

Events == INSTANCE PulseEvents WITH
    NumObs <- 4, Shapes <- SomeObservations, Tickers <- {"zec"}, Funds <- {"btc_etf", "eth_etf"},
    Opposed <- {"vote", "upgrade"}, Durations <- {"block_time"}, Voted <- {"vote", "reduce"},
    SmallGroup <- 3, Horizon <- 3,
    obs <- v1, groups <- v2, verdict <- v3, merged <- v4, pc <- v5

SomeLabels ==
    [kind : {"event", "author_position", "redistribution", "bad"},
     quote : {"found", "missing", "wrong"}, context : {FALSE}]
        \cup {[kind |-> "event", quote |-> "found", context |-> TRUE]}
Mood(S) == [service |-> "service" \in S, network |-> "network" \in S,
            deictic |-> "deictic" \in S, project |-> "project" \in S]
SomeMoods == {Mood(S) : S \in {{}, {"deictic"}, {"service"}, {"service", "network"},
                               {"service", "deictic", "network"}, {"project"}}}

Segments == INSTANCE PulseBrief WITH
    NumSegments <- 2, NumPosts <- 2, Texts <- {1, 2, 3}, Labels <- SomeLabels, Moods <- SomeMoods,
    pc <- v1, text <- v2, post <- v3, label <- v4, comment <- v5, link <- v6

\* A window of one day, one of two, one of hours; an empty one; one refused.
SomeWindows == {[dates |-> TRUE, lo |-> 2, hi |-> 2], [dates |-> TRUE, lo |-> 2, hi |-> 3],
                [dates |-> FALSE, lo |-> 3, hi |-> 5], [dates |-> FALSE, lo |-> 4, hi |-> 4],
                [dates |-> FALSE, lo |-> 5, hi |-> 4]}

BuildValues == [Day |-> 2, Channels |-> {"a", "b"}, Windows |-> SomeWindows,
                Times |-> {2, 4, 5}, MaxBuilds |-> 2, MaxRows |-> 2]
Build == INSTANCE PulseRun WITH
    Day <- BuildSetting.Day, Channels <- BuildSetting.Channels,
    Windows <- BuildSetting.Windows, Times <- BuildSetting.Times,
    MaxBuilds <- BuildSetting.MaxBuilds, MaxRows <- BuildSetting.MaxRows,
    asked <- v1, rows <- v2, pc <- v3, builds <- v4, begun <- v5, current <- v6,
    previous <- v7, changes <- v8, next <- v9, files <- v10

-----------------------------------------------------------------------------
AuditValues == [Calls |-> {1, 2, 3}, QueueEvents |-> 2, QueueBytes |-> 3, EventBytes |-> 2,
                Sizes |-> {1, 2, 3}]
Audit == INSTANCE AuditRecorder WITH
    Calls <- AuditSetting.Calls, QueueEvents <- AuditSetting.QueueEvents,
    QueueBytes <- AuditSetting.QueueBytes, EventBytes <- AuditSetting.EventBytes,
    Sizes <- AuditSetting.Sizes,
    phase <- v1, queue <- v2, writing <- v3, pending <- v4, emitted <- v5, stored <- v6,
    dropped <- v7, state <- v8, closing <- v9, verdict <- v10

CatalogValues == [Ids |-> {1, 2}, Names |-> {1, 2, 3}, Pubs |-> {1, 2}, Versions |-> {1},
                  Stories |-> {1, 2}, MaxSaves |-> 2]
Catalog == INSTANCE CatalogStores WITH
    Ids <- CatalogSetting.Ids, Names <- CatalogSetting.Names, Pubs <- CatalogSetting.Pubs,
    Versions <- CatalogSetting.Versions, Stories <- CatalogSetting.Stories,
    MaxSaves <- CatalogSetting.MaxSaves,
    version <- v1, names <- v2, token <- v3, given <- v4, links <- v5, row <- v6,
    saves <- v7

SchemaValues == [Procs |-> {1, 2}, Rows |-> {1, 2, 3}, Entities |-> {1, 2}, PageSize |-> 2,
                 MaxBoots |-> 2]
Schema == INSTANCE SchemaMigration WITH
    Procs <- SchemaSetting.Procs, Rows <- SchemaSetting.Rows,
    Entities <- SchemaSetting.Entities, PageSize <- SchemaSetting.PageSize,
    MaxBoots <- SchemaSetting.MaxBoots,
    db <- v1, tx <- v2, pc <- v3, at <- v4, seen <- v5, boots <- v6, together <- v7

\* What is assumed of the settings.
ASSUME PipelineConstants ==
    /\ Enrich!ConstantsOK /\ Paid!ConstantsOK /\ Build!ConstantsOK
    /\ Audit!ConstantsOK /\ Catalog!ConstantsOK /\ Schema!ConstantsOK

-----------------------------------------------------------------------------
PipelinesInit ==
    \/ part = "extract" /\ Extract!ExtractInit /\ Off6
    \/ part = "enrich"  /\ Enrich!EnrichInit   /\ Off17
    \/ part = "brief"   /\ Brief!Init
    \/ part = "report"  /\ Report!Init         /\ Off7
    \/ part = "paid"    /\ Paid!Init           /\ Off9
    \/ part = "events"  /\ Events!Init         /\ Off6
    \/ part = "links"   /\ Segments!Init      /\ Off7
    \/ part = "build"   /\ Build!Init          /\ Off11
    \/ part = "audit"   /\ Audit!AuditInit     /\ Off11
    \/ part = "catalog" /\ Catalog!Init        /\ Off8
    \/ part = "schema"  /\ Schema!Init         /\ Off8

PipelinesNext ==
    \/ part = "extract" /\ Extract!ExtractNext /\ Kept6
    \/ part = "enrich"  /\ Enrich!EnrichNext   /\ Kept17
    \/ part = "brief"   /\ Brief!Next          /\ UNCHANGED part
    \/ part = "report"  /\ Report!Next         /\ Kept7
    \/ part = "paid"    /\ Paid!PulseNext      /\ Kept9
    \/ part = "events"  /\ Events!Next         /\ Kept6
    \/ part = "links"   /\ Segments!Next      /\ Kept7
    \/ part = "build"   /\ Build!Next          /\ Kept11
    \/ part = "audit"   /\ Audit!AuditNext     /\ Kept11
    \/ part = "catalog" /\ Catalog!Next        /\ Kept8
    \/ part = "schema"  /\ Schema!MigrateNext  /\ Kept8

PipelinesSpec == PipelinesInit /\ [][PipelinesNext]_parts

-----------------------------------------------------------------------------
\* A claim's quote lies where the model meant it, splitting loses no word of it,
\* and each copy of a text resolves its dates by its own publication.
ExtractionIsSound == part = "extract" =>
    /\ Extract!QuotesAreCertain
    /\ Extract!SplitKeepsAll
    /\ Extract!DatesAreItsOwn

\* Joins stay within the budget of a cycle, and no card shows an old discussion.
EnrichmentIsSound == part = "enrich" => Enrich!JoinsBounded /\ Enrich!CardsFresh

\* A story's unchanged comments are summarised once per time to live; a text that
\* is not in English was tried, or the cache had overflowed.
AskedOnce == [][part = "enrich" => Enrich!AskedOnce /\ Enrich!EnglishOrFailed]_parts

\* A post is read until its verdict is committed and then represented in the
\* queue, once, by a verdict of its own.
BriefIsSound == part = "brief" =>
    /\ Brief!ReadUntilCommitted
    /\ Brief!Represented
    /\ Brief!QueuedOnce
    /\ Brief!VerdictIsItsOwn

\* The report shows every item above the cut, once, and joins only what the code
\* corroborates.
ReportIsSound == part = "report" =>
    /\ Report!NewsKept
    /\ Report!ShownOnce
    /\ Report!EventsCorroborated

\* A pulse build stays within its cap and can be had again from its cache, and
\* the files of a run belong together.
PulseRunIsSound ==
    /\ part = "paid" => Paid!SpendWithinCap /\ Paid!ReplayEqual
    /\ part = "build" => Build!RunIsConsistent

\* Events are groups without conflicting pairs, and links pass the check of the
\* finished run.
PulseEventsAreSound ==
    /\ part = "events" => Events!GroupsAreCliques
    /\ part = "links" => Segments!EventLinksGround

\* The audit's memory is bounded and no loss goes untold; an entity is found
\* by each name but those an assignment gave it; a migration loses no row,
\* whoever runs it beside another and wherever it dies.
StoresAreSound ==
    /\ part = "audit" => Audit!PendingIsHeld /\ Audit!LossIsTold
    /\ part = "catalog" => Catalog!FoundUnlessGiven
    /\ part = "schema" => Schema!MigrationIsSafe
=============================================================================
