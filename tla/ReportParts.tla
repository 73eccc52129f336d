---------------------------- MODULE ReportParts ----------------------------
(***************************************************************************)
(* What the agenda report says and how clients come by it: the snapshot    *)
(* store, the report built from assigned stories, the delta between two    *)
(* reports, the signals of a story, and the HTTP services.                 *)
(***************************************************************************)
EXTENDS Parts, Integers, Sequences, FiniteSets, Functions

\* What each part is given: a record of the values of its constants.
CONSTANTS StoreSetting, TiesSetting, AgendaSetting

\* Four reports with one size of partial report; three with two sizes, whose ids
\* are told apart as strings only.
StoreValues == [Retention |-> 1, Ranks |-> {1}, MaxSize |-> 1, MaxTime |-> 3]
Store == INSTANCE SnapshotStore WITH
    Retention <- StoreSetting.Retention, Ranks <- StoreSetting.Ranks,
    MaxSize <- StoreSetting.MaxSize, MaxTime <- StoreSetting.MaxTime,
    now <- v1, rows <- v2, published <- v3, cache <- v4, lastCollect <- v5, pc <- v6,
    asOf <- v7, snap <- v8, then <- v9, request <- v10, target <- v11, cursor <- v12,
    answer <- v13, issued <- v14, during <- v15
TiesValues == [Retention |-> 1, Ranks |-> {1, 2}, MaxSize |-> 1, MaxTime |-> 2]
Ties == INSTANCE SnapshotStore WITH
    Retention <- TiesSetting.Retention, Ranks <- TiesSetting.Ranks,
    MaxSize <- TiesSetting.MaxSize, MaxTime <- TiesSetting.MaxTime,
    now <- v1, rows <- v2, published <- v3, cache <- v4, lastCollect <- v5, pc <- v6,
    asOf <- v7, snap <- v8, then <- v9, request <- v10, target <- v11, cursor <- v12,
    answer <- v13, issued <- v14, during <- v15

-----------------------------------------------------------------------------
(* Three stories of one subject, two channels, five posts of which one is  *)
(* a day older; one quote of the third story does not name its subject.    *)
QuoteOf(story, post, terms) ==
    [story |-> story, post |-> post, verbatim |-> TRUE, apt |-> TRUE,
     mentions |-> {"E"}, numbers |-> {}, terms |-> terms]
NineLinks ==
    << QuoteOf(1, "old", 1), QuoteOf(1, "p", 2), QuoteOf(1, "q", 1), QuoteOf(1, "r", 2),
       QuoteOf(2, "r", 1), QuoteOf(2, "q", 1), QuoteOf(3, "p", 1), QuoteOf(3, "s", 1),
       [QuoteOf(3, "q", 1) EXCEPT !.mentions = {}] >>
FivePosts ==
    [p \in {"old", "p", "q", "r", "s"} |->
        [channel |-> IF p \in {"q", "s"} THEN "b" ELSE "a", at |-> IF p = "old" THEN 0 ELSE 1]]
ThreeStories ==
    [s \in 1 .. 3 |->
        [tickers |-> {}, names |-> {"E"}, numbers |-> {}, key |-> "", eligible |-> TRUE,
         scheduled |-> FALSE, entity |-> "E",
         kin |-> IF s = 1 THEN {2} ELSE IF s = 2 THEN {1} ELSE {}]]

AgendaValues == [Links |-> 1 .. 9, LinkOf |-> NineLinks, PostOf |-> FivePosts,
                 StoryOf |-> ThreeStories, Batch |-> 2, Parallel |-> 1, MinChannels |-> 2,
                 PerEntity |-> 2, AgendaLimit |-> 2, ClaimLimit |-> 2, Window |-> 1,
                 MaxTime |-> 2]
Agenda == INSTANCE AgendaSnapshot WITH
    Links <- AgendaSetting.Links, LinkOf <- AgendaSetting.LinkOf,
    PostOf <- AgendaSetting.PostOf, StoryOf <- AgendaSetting.StoryOf,
    Batch <- AgendaSetting.Batch, Parallel <- AgendaSetting.Parallel,
    MinChannels <- AgendaSetting.MinChannels, PerEntity <- AgendaSetting.PerEntity,
    AgendaLimit <- AgendaSetting.AgendaLimit, ClaimLimit <- AgendaSetting.ClaimLimit,
    Window <- AgendaSetting.Window, MaxTime <- AgendaSetting.MaxTime,
    now <- v1, links <- v2, verdict <- v3, pc <- v4, tracked <- v5, comparable <- v6,
    found <- v7, task <- v8, missing <- v9, reply <- v10, report <- v11

-----------------------------------------------------------------------------
(* Two stories: one may hold any of two publications and a claim, the      *)
(* other is always listed.  "X" is "x" in another case.                    *)
Case(q)   == IF q = "X" THEN "x" ELSE q
TwoPubs   == {"p", "q"}
TwoForms  == {[key |-> "c", form |-> "c"], [key |-> "c", form |-> "C"]}
Sourced   == {"none", "single"}
SomePubs  == {f \in UNION {[D -> {"x", "X"}] : D \in {{}, {"p"}, TwoPubs}} :
                "q" \in DOMAIN f => f["p"] = "x" /\ f["q"] = "x"}
Plain(section, detail) ==
    [section |-> section, detail |-> detail, pubs |-> <<>>, claims |-> {},
     sourcing |-> "none", caveat |-> "none"]
FullEntries ==
    {e \in [section : {"agenda", "upcoming", "hidden", "absent"}, detail : BOOLEAN,
            pubs : SomePubs, claims : {C \in SUBSET TwoForms : Cardinality(C) <= 1},
            sourcing : Sourced, caveat : {"none", "drop"}] :
        /\ e.section = "absent" => e = Plain("absent", FALSE)
        /\ e.section = "hidden" => /\ e.detail /\ e.claims = {} /\ e.sourcing = "none"
                                   /\ e.pubs # <<>> /\ e.caveat = "none"
        /\ ~ e.detail => e.pubs = <<>>
        /\ (\E c \in e.claims : c.form = "C") => e.sourcing = "none"
        /\ (\E p \in DOMAIN e.pubs : e.pubs[p] = "X") => e.sourcing = "none"
        /\ e.caveat # "none" => e.sourcing # "none" /\ e.claims # {}}
OneFullOnePlain(s) == IF s = "s" THEN FullEntries ELSE {Plain("agenda", TRUE), Plain("agenda", FALSE)}

Delta == INSTANCE SnapshotDelta WITH
    Stories <- {"s", "t"}, Pubs <- TwoPubs, ChannelOf <- [p \in TwoPubs |-> p],
    Quotes <- {"x", "X"}, Norm <- Case, Claims <- TwoForms, Sourcings <- Sourced,
    Caveats <- {"none", "drop"}, Entries <- OneFullOnePlain,
    target <- v1, baseline <- v2, kept <- v3, copy <- v4

-----------------------------------------------------------------------------
Signals == INSTANCE StorySignals WITH
    NumPosts <- 3, NumChannels <- 3, Texts <- {1, 2, 3, 5}, Sums <- {1, 2, 4}, Symbols <- 2,
    PricedPosts <- 2,
    posts <- v1, stated <- v2, stage <- v3, symbol <- v4, move <- v5, atPosts <- v6, silent <- v7

-----------------------------------------------------------------------------
Card(title, shown, claim, listed) ==
    [title |-> title, shown |-> shown, claim |-> claim, listed |-> listed]
PlainCard   == Card({"a"}, {"a"}, {}, TRUE)
Translation == Card({"a"}, {"a", "b"}, {}, TRUE)
Claimed     == Card({"b"}, {"b"}, {"a"}, FALSE)
Both        == Card({"a", "b"}, {"a", "b"}, {}, FALSE)
SomeReports == {<<PlainCard>>, <<Translation, Both, PlainCard>>, <<Claimed, Both, Translation>>,
                <<Both, Claimed, PlainCard>>}

Service == INSTANCE AgendaService WITH
    Terms <- {"a", "b"}, Reports <- SomeReports, Keep <- 1, MaxReports <- 3,
    MaxLimit <- 2, MaxToolLimit <- 2, Limits <- {-1, 1, 2, 9},
    issued <- v1, rows <- v2, book <- v3

\* What is assumed of the settings.
ASSUME ReportConstants == Store!ConstantsOK /\ Ties!ConstantsOK /\ Agenda!ConstantsOK

-----------------------------------------------------------------------------
ReportsInit ==
    \/ part = "store"   /\ Store!Init          /\ Off16
    \/ part = "ties"    /\ Ties!Init           /\ Off16
    \/ part = "agenda"  /\ Agenda!Init         /\ Off12
    \/ part = "delta"   /\ Delta!Init          /\ Off5
    \/ part = "signals" /\ Signals!SignalsInit /\ Off8
    \/ part = "service" /\ Service!Init        /\ Off4

ReportsNext ==
    \/ part = "store"   /\ Store!Next          /\ Kept16
    \/ part = "ties"    /\ Ties!Next           /\ Kept16
    \/ part = "agenda"  /\ Agenda!Next         /\ Kept12
    \/ part = "delta"   /\ Delta!Next          /\ Kept5
    \/ part = "signals" /\ Signals!SignalsNext /\ Kept8
    \/ part = "service" /\ Service!Next        /\ Kept4

ReportsSpec == ReportsInit /\ [][ReportsNext]_parts

-----------------------------------------------------------------------------
\* The life of a snapshot: ids are unique, rows stay for the retention, a useful
\* report is restored before analysis goes on, a request is answered with a
\* report that was published while it ran, and polling is refused only where an
\* older report was restored.
StoreIsSound ==
    /\ part = "store" =>
        /\ Store!TypeOK
        /\ Store!NeverRefused
        /\ Store!KeptForRetention
        /\ Store!UsefulReportRestored
        /\ Store!TargetWasPublished
        /\ Store!OnlyRestoredIsRejected
    /\ part = "ties" =>
        /\ Ties!TypeOK
        /\ Ties!NeverRefused
        /\ Ties!KeptForRetention
        /\ Ties!UsefulReportRestored
        /\ Ties!TargetWasPublished
        /\ Ties!OnlyRestoredIsRejected

\* Once a report is published some report always is, and one that shows stories
\* gives way to an empty one only if that is a full analysis.
NotHiddenByBackfill ==
    [][/\ part = "store" => Store!NotHiddenByBackfill
       /\ part = "ties" => Ties!NotHiddenByBackfill]_parts

\* The agenda holds verified stories only, the rest is blocked or waits, and
\* the evidence shown of a story is as varied as what was verified allows.
AgendaIsSound == part = "agenda" =>
    /\ Agenda!TypeOK
    /\ Agenda!AgendaIsVerified
    /\ Agenda!RestIsBlocked
    /\ Agenda!EvidenceIsVaried

\* A verdict once stored is never asked for again nor replaced.
VerdictIsFinal == [][part = "agenda" => Agenda!VerdictIsFinal]_parts

\* A client that applies each delta to its copy holds the published report.
CopyFollows == part = "delta" => Delta!CopyFollows

\* Echoes are traced to one original, a conflict of sums is one between linked
\* quotes, and an official source is what a price is measured at.
SignalsAreSound == part = "signals" =>
    /\ Signals!EchoesTraced
    /\ Signals!ConflictIsReal
    /\ Signals!OfficialIsPriced

\* Pages of one report join to the whole of it, whatever is published between
\* them and whichever of the tool and the REST route gave the first.
PagesAreWhole == part = "service" => Service!PagesAreWhole
=============================================================================
