------------------------------ MODULE Enrichment ------------------------------
(***************************************************************************)
(* What a finished report goes through before it is published:             *)
(* discuss_in_english in cli.py.  DiscussionEnricher attaches what readers *)
(* say, EnglishLocalizer translates, add_price_moves adds market prices.   *)
(* The enricher's and the localizer's caches and the memory of joined      *)
(* groups live as long as the process; either has a timeout, after which   *)
(* the report goes on without what the stage did not finish.  Prices have  *)
(* a module of their own.                                                  *)
(*                                                                         *)
(* A story has at most one post in a channel and a channel one group.      *)
(***************************************************************************)
EXTENDS Naturals, FiniteSets

CONSTANTS
    NumStories, Channels,
    MaxReplies, \* bound: comments under one post
    Top,        \* summarize_top
    JoinLimit,  \* discussion_join_limit_per_run
    Ttl, CacheLimit,
    MaxTime     \* bound: the last cycle

\* What is assumed of the constants.
ConstantsOK == {NumStories, JoinLimit, CacheLimit} \subseteq Nat /\ Ttl \in Nat \ {0}

Stories == 1 .. NumStories \* by rank, when on the agenda
NoEntry == [at |-> 0, total |-> 0, facts |-> FALSE]
Title(s) == <<s, "title">>
Quote(s) == <<s, "quote">>

VARIABLES
    time, replies,  \* [Stories \X Channels -> the counter of the story's post]
    stage, agenda,  \* where the cycle stands; the stories of its report
    counts,         \* what the counters said this cycle; an unread one says 0
    story, threads, \* the story in work, its posts whose threads are to be read
    read,           \* whether a comment of it was read
    cache,          \* [Stories -> _Cached]; NoEntry when there is none
    shown,          \* [agenda -> the discussion on the card]
    joined, left,   \* groups not to be joined (again); joins left this cycle
    english,        \* texts whose translation is cached
    spent,          \* joins Telegram accepted or refused this cycle
    asked,          \* [Stories -> the last total the model was asked about]
    failed          \* texts this cycle's translation lost; all, after a timeout

discussVars == <<agenda, counts, story, threads, read, cache, shown, asked>>
joinVars    == <<joined, left, spent>>
textVars    == <<english, failed>>
enrichVars  == <<time, replies, stage, discussVars, joinVars, textVars>>

Total(s) == LET Sum[C \in SUBSET Channels] ==
                  IF C = {} THEN 0
                  ELSE LET c == CHOOSE x \in C : TRUE IN counts[s, c] + Sum[C \ {c}]
            IN  Sum[Channels]

-----------------------------------------------------------------------------
EnrichInit ==
    /\ time = 0 /\ replies = [p \in Stories \X Channels |-> 0]
    /\ stage = "idle" /\ agenda = {} /\ story = 0 /\ threads = {} /\ read = FALSE
    /\ counts = [p \in Stories \X Channels |-> 0]
    /\ cache = [s \in Stories |-> NoEntry] /\ asked = cache /\ shown = cache
    /\ joined = {} /\ left = JoinLimit /\ spent = 0
    /\ english = {} /\ failed = {}

Comment(p) ==
    /\ stage = "idle" /\ replies[p] < MaxReplies
    /\ replies' = [replies EXCEPT ![p] = @ + 1]
    /\ UNCHANGED <<time, stage, discussVars, joinVars, textVars>>

\* A cycle has a report to publish.
Begin(A) ==
    /\ stage = "idle" /\ time < MaxTime /\ A # {}
    /\ time' = time + 1 /\ agenda' = A /\ stage' = "count"
    /\ left' = JoinLimit /\ spent' = 0
    /\ UNCHANGED <<replies, counts, story, threads, read, cache, shown, asked, joined, textVars>>

\* _reply_counts: a channel whose counters cannot be read is left out.
Count(down) ==
    /\ stage = "count" /\ stage' = "story" /\ story' = 1
    /\ counts' = [p \in Stories \X Channels |->
                    IF p[1] \in agenda /\ p[2] \notin down THEN replies[p] ELSE 0]
    /\ UNCHANGED <<time, replies, agenda, threads, read, cache, shown, asked, joinVars, textVars>>

Rank(s) == Cardinality({r \in agenda : r < s})
Cached(s) == cache[s] # NoEntry /\ time - cache[s].at < Ttl /\ cache[s].total = Total(s)

Attach(s, entry) ==
    /\ cache' = [cache EXCEPT ![s] = entry] /\ shown' = [shown EXCEPT ![s] = entry]
    /\ story' = s + 1

\* Stories without a comment, with a cached discussion, or too low to be read.
PassStory ==
    /\ stage = "story" /\ story <= NumStories
    /\ \/ /\ story \notin agenda \/ Total(story) = 0
          /\ story' = story + 1 /\ UNCHANGED <<cache, shown>>
       \/ /\ story \in agenda /\ Total(story) > 0 /\ Cached(story)
          /\ Attach(story, cache[story])
       \/ /\ story \in agenda /\ Total(story) > 0 /\ ~Cached(story) /\ Rank(story) >= Top
          /\ Attach(story, [at |-> time, total |-> Total(story), facts |-> FALSE])
    /\ UNCHANGED <<time, replies, stage, agenda, counts, threads, read, asked, joinVars, textVars>>

ReadStory ==
    /\ stage = "story" /\ story \in agenda /\ Total(story) > 0
    /\ ~Cached(story) /\ Rank(story) < Top
    /\ stage' = "threads" /\ read' = FALSE
    /\ threads' = {c \in Channels : counts[story, c] > 0}
    /\ UNCHANGED <<time, replies, agenda, counts, story, cache, shown, asked, joinVars, textVars>>

\* Mutant: a refused join costs nothing.
Refused_Free(c) == joined' = joined \cup {c} /\ spent' = spent + 1 /\ left' = left

Refused(c) == joined' = joined \cup {c} /\ spent' = spent + 1 /\ left' = left - 1

\* _discover_discussion_access joins the group unless it was tried before or
\* the budget is spent.  A flood wait ends the thread, not the story.
ReadThread(c, some) ==
    /\ stage = "threads" /\ c \in threads /\ threads' = threads \ {c}
    /\ \/ /\ c \in joined \/ left = 0
          /\ read' = (read \/ some) /\ UNCHANGED joinVars
       \/ /\ c \notin joined /\ left > 0 /\ read' = (read \/ some)
          /\ \/ joined' = joined \cup {c} /\ spent' = spent + 1 /\ left' = left - 1
             \/ joined' = joined \cup {c} /\ UNCHANGED <<spent, left>>
             \/ Refused(c)
       \/ /\ ~some /\ UNCHANGED <<joinVars, read>>
    /\ UNCHANGED <<time, replies, stage, agenda, counts, story, cache, shown, asked, textVars>>

\* With comments the model is asked, and fails or answers; either is cached.
Summarize(facts) ==
    /\ stage = "threads" /\ threads = {} /\ (facts => read)
    /\ Attach(story, [at |-> time, total |-> Total(story), facts |-> facts])
    /\ asked' = IF read THEN [asked EXCEPT ![story] = cache'[story]] ELSE asked
    /\ stage' = "story"
    /\ UNCHANGED <<time, replies, agenda, counts, threads, read, joinVars, textVars>>

\* Mutant: what a timed out enrichment had cached is forgotten.
TimedOut_Forget == cache' = [s \in Stories |-> NoEntry]

TimedOut == cache' = cache

\* The report goes on without any discussion; the caches stay.
DiscussTimeout ==
    /\ stage \in {"count", "story", "threads"} /\ stage' = "translate"
    /\ TimedOut /\ shown' = [s \in Stories |-> NoEntry] /\ threads' = {}
    /\ UNCHANGED <<time, replies, agenda, counts, story, read, asked, joinVars, textVars>>

Discussed ==
    /\ stage = "story" /\ story > NumStories /\ stage' = "translate"
    /\ UNCHANGED <<time, replies, discussVars, joinVars, textVars>>

-----------------------------------------------------------------------------
Texts == {Title(s) : s \in agenda} \cup {Quote(s) : s \in {r \in agenda : shown[r].facts}}

Missing == Texts \ english

\* EnglishLocalizer._translate: a chunk that failed is asked for again next
\* time; a cache grown beyond its limit is emptied first.
Translate(lost) ==
    /\ stage = "translate" /\ lost \subseteq Missing /\ stage' = "publish" /\ failed' = lost
    /\ english' = (IF Missing # {} /\ Cardinality(english) > CacheLimit THEN {} ELSE english)
                    \cup (Missing \ lost)
    /\ UNCHANGED <<time, replies, discussVars, joinVars>>

TranslateTimeout ==
    /\ stage = "translate" /\ Missing # {} /\ stage' = "publish" /\ failed' = Missing
    /\ UNCHANGED <<time, replies, discussVars, joinVars, english>>

-----------------------------------------------------------------------------
\* Prices are added, the report is published, and the enrichment forgets it.
Publish ==
    /\ stage = "publish" /\ stage' = "idle" /\ agenda' = {}
    /\ counts' = [p \in Stories \X Channels |-> 0] /\ shown' = [s \in Stories |-> NoEntry]
    /\ story' = 0 /\ read' = FALSE /\ failed' = {} /\ spent' = 0 /\ left' = JoinLimit
    /\ UNCHANGED <<time, replies, threads, cache, asked, joined, english>>

EnrichNext ==
    \/ \E p \in Stories \X Channels : Comment(p)
    \/ \E A \in SUBSET Stories : Begin(A)
    \/ \E down \in SUBSET Channels : Count(down)
    \/ PassStory \/ ReadStory \/ \E c \in Channels, some \in BOOLEAN : ReadThread(c, some)
    \/ \E facts \in BOOLEAN : Summarize(facts)
    \/ DiscussTimeout \/ Discussed
    \/ \E lost \in SUBSET Missing : Translate(lost)
    \/ TranslateTimeout
    \/ Publish

EnrichSpec == EnrichInit /\ [][EnrichNext]_enrichVars

-----------------------------------------------------------------------------
\* In one cycle Telegram accepts or refuses at most JoinLimit joins.
JoinsBounded == spent <= JoinLimit

\* A discussion on a card gives the count this cycle read, and its facts are
\* younger than the time to live.
CardsFresh ==
    \A s \in Stories : shown[s] # NoEntry =>
        s \in agenda /\ shown[s].total = Total(s) /\ time - shown[s].at < Ttl

\* Every text of the report is shown in English, the quotes of readers too, or its
\* translation failed in this cycle, unless the cache overflowed in it.
EnglishOrFailed ==
    (stage = "translate" /\ stage' = "publish" /\ Cardinality(english) <= CacheLimit)
        => Texts \subseteq english' \cup failed'

\* The model is asked about a story's comments once per time to live while
\* their count does not change, even if the cycle that asked timed out later.
\* (A count may seem to change when the counters of one channel are not read.)
AskedOnce ==
    \A s \in Stories :
        (asked'[s] # asked[s] /\ asked[s] # NoEntry) =>
            \/ asked'[s].total # asked[s].total \/ asked'[s].at - asked[s].at >= Ttl
            \/ cache[s].total \notin {0, asked[s].total}
=============================================================================
