----------------------------- MODULE FeedIngest -----------------------------
(***************************************************************************)
(* collect_feeds and collect_reddit_feeds: articles of RSS feeds and of    *)
(* subreddits into the raw cache.  One request serves a group of sources:  *)
(* a feed is a group of its own, the subreddits share a combined feed.     *)
(*                                                                         *)
(* A feed is a rolling tail: it shows its newest articles, by date.  An    *)
(* article may appear with a date in the past.  Every awaited call is an   *)
(* action and may raise; the process may die between any two.              *)
(***************************************************************************)
EXTENDS Integers, Sequences, FiniteSets

CONSTANTS
    Groups,   \* sequence of sets of sources, in the order they are read
    Shows,     \* articles a feed shows
    Fresh,    \* FRESH_POST_WINDOW (shorter than the collection window)
    Backdate, \* how far back an article may be dated when it appears
    MaxTime, MaxArticles

FeedSources == UNION {Groups[g] : g \in 1 .. Len(Groups)}

\* What is assumed of the constants.
ConstantsOK ==
    /\ Groups \in Seq((SUBSET Nat) \ {{}}) /\ Groups # <<>> /\ Shows \in Nat \ {0}
    /\ {Fresh, Backdate, MaxTime, MaxArticles} \subseteq Nat

None == -1

VARIABLES
    now,     \* the clock
    article, \* Seq([of, date]), in the order they appear
    stored,  \* raw_item: indices of articles
    rows,    \* complete rows of source_coverage: [of, from, to], and the number
             \* of articles there were when the row's feed was read
    mark,    \* [FeedSources -> watermark or None]
    at,      \* where the collection stands
    end,     \* end of its window, the cycle's `now`
    group,   \* index of the group under way
    todo,    \* its sources still to be stored
    from,    \* [FeedSources -> read_start]
    last,    \* [FeedSources -> the watermark as read]
    page,    \* indices of the articles the request delivered
    shown,   \* articles there were when it did, 0 before
    excused  \* history: articles no read could have stored

feedDb   == <<stored, rows, mark>>
feedCall == <<at, end, group, todo, from, last, page, shown>>
feedVars == <<now, article, feedDb, feedCall, excused>>

Of(i)   == article[i].of
Date(i) == article[i].date
Articles == 1 .. Len(article)
Group    == Groups[group]
First(S) == CHOOSE s \in S : \A t \in S : s <= t
NoTimes  == [s \in FeedSources |-> None]

-----------------------------------------------------------------------------
FeedInit ==
    /\ now = 0 /\ article = <<>> /\ stored = {} /\ rows = {} /\ mark = NoTimes
    /\ at = "idle" /\ end = None /\ group = 1 /\ todo = {}
    /\ from = NoTimes /\ last = NoTimes /\ page = {} /\ shown = 0
    /\ excused = {}

FeedTick == now < MaxTime /\ now' = now + 1 /\ UNCHANGED <<article, feedDb, feedCall, excused>>

\* An article that appears after a read, dated before its end, comes too late.
Publish(s, d) ==
    /\ Len(article) < MaxArticles /\ d \in now - Backdate .. now /\ d >= 0
    /\ article' = Append(article, [of |-> s, date |-> d])
    /\ excused' = IF d <= mark[s] \/ (shown > 0 /\ s \in Group /\ d <= end)
                  THEN excused \cup {Len(article')} ELSE excused
    /\ UNCHANGED <<now, feedDb, feedCall>>

\* collect of a cycle that starts now; the feeds are taken in order.
Collect ==
    /\ at = "idle" /\ now > end
    /\ at' = "marks" /\ end' = now /\ group' = 1
    /\ UNCHANGED <<now, article, feedDb, todo, from, last, page, shown, excused>>

Clear == todo' = {} /\ from' = NoTimes /\ last' = NoTimes /\ page' = {} /\ shown' = 0

Larger(a, b) == IF a > b THEN a ELSE b

\* get_ingest_watermark for the sources of the group, then where its read starts.
ReadMarks ==
    /\ at = "marks" /\ at' = "read"
    /\ last' = [s \in FeedSources |-> IF s \in Group THEN mark[s] ELSE None]
    /\ from' = [s \in FeedSources |->
                 IF s \in Group THEN Larger(Larger(0, end - Fresh), mark[s]) ELSE None]
    /\ UNCHANGED <<now, article, feedDb, end, group, todo, page, shown, excused>>

\* What the feed of the group shows: its newest articles.
IsShown(P) ==
    LET all == {i \in Articles : Of(i) \in Group} IN
    /\ P \subseteq all
    /\ Cardinality(P) = IF Cardinality(all) < Shows THEN Cardinality(all) ELSE Shows
    /\ \A i \in P, j \in all \ P : Date(j) <= Date(i)

Request(P) ==
    /\ at = "read" /\ IsShown(P)
    /\ page' = P /\ shown' = Len(article) + 1 /\ todo' = Group /\ at' = "store"
    /\ excused' = excused \cup
         {i \in Articles : Of(i) \in Group /\ Date(i) <= end /\ (i \notin P \/ Date(i) < from[Of(i)])}
    /\ UNCHANGED <<now, article, feedDb, end, group, from, last>>

\* in_window: dated within the window and after the watermark.
Wanted(s) == {i \in page : /\ Of(i) = s /\ from[s] <= Date(i) /\ Date(i) <= end
                           /\ Date(i) > last[s]}

\* Mutant: any feed that shows something is taken to be complete.
Complete_Nonempty(s) == page # {}

\* The oldest article shown must reach back to where the read starts.
Complete(s) == \E i \in page : Date(i) <= from[s]

Store ==
    /\ at = "store" /\ at' = "cover"
    /\ stored' = stored \cup Wanted(First(todo))
    /\ UNCHANGED <<now, article, rows, mark, end, group, todo, from, last, page, shown, excused>>

\* mark_coverage: one row for an interval, the last mark stands.
Marked(s, complete) ==
    {r \in rows : ~(r.of = s /\ r.from = from[s] /\ r.to = end)}
    \cup (IF complete THEN {[of |-> s, from |-> from[s], to |-> end, seen |-> shown - 1]} ELSE {})

Cover ==
    /\ at = "cover" /\ at' = "advance"
    /\ rows' = Marked(First(todo), Complete(First(todo)))
    /\ UNCHANGED <<now, article, stored, mark, end, group, todo, from, last, page, shown, excused>>

\* After the last group the collection is over.
NextGroup ==
    IF group < Len(Groups)
    THEN at' = "marks" /\ group' = group + 1 /\ end' = end
    ELSE at' = "idle" /\ group' = 1 /\ end' = end

Reached == end

Advance ==
    /\ at = "advance"
    /\ mark' = [mark EXCEPT ![First(todo)] = Reached]
    /\ IF todo = {First(todo)}
       THEN NextGroup /\ Clear
       ELSE /\ at' = "store" /\ todo' = todo \ {First(todo)}
            /\ UNCHANGED <<end, group, from, last, page, shown>>
    /\ UNCHANGED <<now, article, stored, rows, excused>>

\* A call that raises: every source of the group is marked incomplete, the
\* ones already done with included.
Raise ==
    /\ at \in {"read", "store", "cover", "advance"}
    /\ at' = "excuse" /\ todo' = Group
    /\ UNCHANGED <<now, article, feedDb, end, group, from, last, page, shown, excused>>

MarkIncomplete ==
    /\ at = "excuse"
    /\ rows' = Marked(First(todo), FALSE)
    /\ IF todo = {First(todo)}
       THEN NextGroup /\ Clear
       ELSE at' = at /\ todo' = todo \ {First(todo)} /\ UNCHANGED <<end, group, from, last, page, shown>>
    /\ UNCHANGED <<now, article, stored, mark, excused>>

\* Reading the watermarks or marking a failure raises: the cycle fails.  Or
\* the process dies.
Abort ==
    /\ at # "idle" /\ at' = "idle" /\ group' = 1 /\ end' = end
    /\ Clear
    /\ UNCHANGED <<now, article, feedDb, excused>>

FeedNext ==
    \/ FeedTick \/ \E s \in FeedSources, d \in 0 .. MaxTime : Publish(s, d)
    \/ Collect \/ ReadMarks \/ \E P \in SUBSET Articles : Request(P)
    \/ Store \/ Cover \/ Advance \/ Raise \/ MarkIncomplete \/ Abort

FeedSpec == FeedInit /\ [][FeedNext]_feedVars

-----------------------------------------------------------------------------
\* Rows and watermarks lie in the past; only sources of the group are at work.
FeedTypeOK ==
    /\ now \in 0 .. MaxTime /\ end \in None .. now
    /\ article \in Seq([of : FeedSources, date : 0 .. now]) /\ stored \subseteq Articles
    /\ \A r \in rows : /\ r.of \in FeedSources /\ r.to \in 0 .. end /\ r.from \in 0 .. r.to
                      /\ r.seen \in 0 .. Len(article)
    /\ mark \in [FeedSources -> None .. end]
    /\ {from, last} \subseteq [FeedSources -> None .. MaxTime]
    /\ at \in {"idle", "marks", "read", "store", "cover", "advance", "excuse"}
    /\ group \in 1 .. Len(Groups) /\ todo \subseteq Group /\ page \subseteq Articles
    /\ (todo # {}) <=> at \in {"store", "cover", "advance", "excuse"}

\* An interval recorded as complete was: every article of the source dated
\* inside it that had appeared when the feed was read is in the raw cache.
\* Coverage is what lets a channel count as silent in the report.
CoveredIsStored ==
    \A r \in rows, i \in Articles :
        (Of(i) = r.of /\ i <= r.seen /\ r.from < Date(i) /\ Date(i) <= r.to)
            => i \in stored

\* The watermark passes an article only if it is stored, appeared too late,
\* had left the tail or was older than the fresh window when the feed was read.
NothingSkipped ==
    \A i \in Articles : (Date(i) <= mark[Of(i)] /\ i \notin excused) => i \in stored
=============================================================================
