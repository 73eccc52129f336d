--------------------------- MODULE BriefPipeline ---------------------------
(***************************************************************************)
(* The brief engine (pipeline/orchestrator.py): a tick reads every channel *)
(* through WindowSource, filters and deduplicates, scores what is left in  *)
(* one call made of several model calls (adapters/llm/openrouter.py), and  *)
(* commits channel by channel into the in-memory repository.  Posts keep   *)
(* arriving in the store between the awaits.                               *)
(***************************************************************************)
EXTENDS Naturals, Sequences, FiniteSets, SequencesExt, Relation

CONSTANTS
    Posts,         \* posts, as numbers
    Channels,      \* the channels in the order list_channels gives them
    ChannelOf,     \* [Posts -> channel]
    TimeOf,        \* [Posts -> 1 ..]: the second a post is dated
    IdOf,          \* [Posts -> Nat]: external_id, unique within a channel only
    SigsOf,        \* [Posts -> set]: text hash and URLs
    Passing,       \* the posts the pre-filters keep
    ChannelLimit,  \* max_posts_per_channel
    RunLimit,      \* max_posts_per_run
    Window,        \* the dedup window
    BatchSize,     \* score_max_items_per_batch
    Retries,       \* score_coverage_retries
    MaxTicks       \* bound: ticks

VARIABLES
    stored,    \* posts in the ingestion store
    oneShot,   \* run_tick(ignore_cursor=True): the brief command
    mark,      \* [channel -> watermark], 0 for none
    seen,      \* signature -> event time (repo._seen)
    queue,     \* the report queue: sequence of verdicts
    left,      \* WindowSource._remaining
    cut,       \* WindowSource.truncated
    pc, todo, inTick, works,    \* the tick: phase, channels to read, dedup sets, pending
    byId, asking, missing, pass,\* the score call: verdicts by id, this pass, pass number
    scored,    \* history: posts that were given a verdict and committed
    tick       \* ticks begun

store   == <<stored, oneShot>>
repo    == <<mark, seen, queue, scored>>
window  == <<left, cut>>
reading == <<todo, inTick, works>>
call    == <<byId, asking, missing, pass>>
vars    == <<store, repo, window, pc, reading, call, tick>>

ChannelSet == {Channels[i] : i \in DOMAIN Channels}
Top(S, f(_)) == CHOOSE n \in {f(x) : x \in S} : \A x \in S : f(x) <= n
Low(S, f(_)) == CHOOSE n \in {f(x) : x \in S} : \A x \in S : n <= f(x)
Least2(a, b) == IF a < b THEN a ELSE b
Time(x) == TimeOf[x]

\* read_window_page's order within one channel.
Earlier(x, y) == TimeOf[x] < TimeOf[y] \/ (TimeOf[x] = TimeOf[y] /\ IdOf[x] < IdOf[y])

\* The elements of S as a sequence in the order less.
InOrder(S, less(_, _)) ==
    [n \in 1 .. Cardinality(S) |-> CHOOSE x \in S : Cardinality({y \in S : less(y, x)}) = n - 1]

\* processed_item_signature: one name per channel and external id.
Processed(x) == <<ChannelOf[x], IdOf[x]>>

\* The repository's seen_signatures and record_seen (memory.py).
Known(sigs, since) == {s \in sigs \cap DOMAIN seen : seen[s] >= since}
Record(map, sigs, when) ==
    [s \in DOMAIN map \cup sigs |-> IF s \in sigs THEN when ELSE map[s]]

NoCall == byId = <<>> /\ asking = <<>> /\ missing = {} /\ pass = 0

Init ==
    /\ stored = {} /\ oneShot \in BOOLEAN
    /\ mark = [c \in ChannelSet |-> 0] /\ seen = <<>> /\ queue = <<>> /\ scored = {}
    /\ left = RunLimit /\ cut = FALSE
    /\ pc = "idle" /\ todo = <<>> /\ inTick = {} /\ works = <<>>
    /\ NoCall /\ tick = 0

\* The collector stores a post; a channel's posts come in the order of their dates.
Arrive(x) ==
    /\ x \notin stored
    /\ \A y \in stored : ChannelOf[y] = ChannelOf[x] => TimeOf[y] <= TimeOf[x]
    /\ stored' = stored \cup {x}
    /\ UNCHANGED <<oneShot, repo, window, pc, reading, call, tick>>

BindWindow ==
    /\ pc = "idle" /\ (left # RunLimit \/ cut)
    /\ left' = RunLimit /\ cut' = FALSE
    /\ UNCHANGED <<store, repo, pc, reading, call, tick>>

\* Mutant: the in-tick sets of an earlier tick are kept.
RunTick_NoReset ==
    /\ pc = "idle" /\ tick < (IF oneShot THEN 1 ELSE MaxTicks)
    /\ pc' = "collect" /\ todo' = Channels /\ works' = <<>>
    /\ tick' = tick + 1
    /\ UNCHANGED <<store, repo, window, inTick, call>>

RunTick ==
    /\ pc = "idle" /\ tick < (IF oneShot THEN 1 ELSE MaxTicks)
    /\ pc' = "collect" /\ todo' = Channels /\ inTick' = {} /\ works' = <<>>
    /\ tick' = tick + 1
    /\ UNCHANGED <<store, repo, window, call>>

-----------------------------------------------------------------------------
(* Collect *)

Since(c) == IF oneShot THEN 0 ELSE mark[c]

\* The posts of the window that were not read: those dated like the watermark are
\* told apart by their processed signatures.
Unread(c) ==
    {x \in stored : /\ ChannelOf[x] = c /\ TimeOf[x] >= Since(c)
                    /\ TimeOf[x] = Since(c) => Known({Processed(x)}, Since(c)) = {}}

\* fetch_new_items, as a sequence.
Room == Least2(ChannelLimit, left)
Fetched(c) ==
    LET all == InOrder(Unread(c), Earlier)
    IN  SubSeq(all, 1, Least2(Len(all), Room))

\* Deduper.filter's in-tick pass: the posts kept and the signatures they leave.
InTick(items) ==
    FoldLeft(LAMBDA acc, x : IF SigsOf[x] \cap acc.sigs # {} THEN acc
                             ELSE [kept |-> Append(acc.kept, x), sigs |-> acc.sigs \cup SigsOf[x]],
             [kept |-> <<>>, sigs |-> inTick], items)

\* Its persistent pass.
Fresh(items, since) == SelectSeq(items, LAMBDA x : Known(SigsOf[x], since) = {})

Survivors(items) ==
    LET kept == InTick(items).kept
        low  == Low(ToSet(items), Time)
    IN  IF oneShot \/ items = <<>> THEN kept
        ELSE Fresh(kept, IF low > Window THEN low - Window ELSE 0)

Fetch ==
    /\ pc = "collect" /\ todo # <<>>
    /\ LET c     == Head(todo)
           items == Fetched(c)
           good  == SelectSeq(items, LAMBDA x : x \in Passing)
       IN  /\ cut' = (cut \/ Cardinality(Unread(c)) > Room)
           /\ left' = left - Len(items)
           /\ inTick' = InTick(good).sigs
           /\ works' = IF items = <<>> THEN works
                       ELSE Append(works, [channel |-> c, items |-> items, kept |-> Survivors(good)])
    /\ todo' = Tail(todo)
    /\ UNCHANGED <<store, repo, pc, call, tick>>

\* fetch_new_items raised: the channel is skipped for this tick.
FetchFails ==
    /\ pc = "collect" /\ todo # <<>>
    /\ todo' = Tail(todo)
    /\ UNCHANGED <<store, repo, window, pc, inTick, works, call, tick>>

-----------------------------------------------------------------------------
(* Score *)

Pairs == FlattenSeq([i \in DOMAIN works |-> works[i].kept])

\* by_external: of two posts with one id the later one.
ByExternal == LET p == Pairs IN
    {p[i] : i \in {j \in DOMAIN p : \A k \in DOMAIN p : k > j => IdOf[p[k]] # IdOf[p[j]]}}

StartScore ==
    /\ pc = "collect" /\ todo = <<>>
    /\ pc' = IF Pairs = <<>> THEN "commit" ELSE "score"
    /\ asking' = Pairs /\ byId' = <<>> /\ missing' = {} /\ pass' = 0
    /\ UNCHANGED <<store, repo, window, reading, tick>>

\* One model call over the next sub-batch.  The reply names some of the ids shown,
\* and possibly ids that were not shown, which are discarded; a verdict is about
\* one of the posts shown under its id.  The first verdict for an id is kept.
Ids(S) == {IdOf[x] : x \in S}
Kept(reply, shown) ==
    [i \in DOMAIN byId \cup (DOMAIN reply \cap Ids(shown)) |->
        IF i \in DOMAIN byId THEN byId[i] ELSE reply[i]]

ScoreChunk(n, told) ==
    LET chunk == SubSeq(asking, 1, n)
        shown == ToSet(chunk)
    IN  /\ pc = "score" /\ asking # <<>>
        /\ n \in 1 .. Least2(Len(asking), BatchSize)
        /\ told \subseteq ToSet(Pairs)
        /\ \A x, y \in told : IdOf[x] = IdOf[y] => x = y
        /\ \A x \in told : (\E y \in shown : IdOf[y] = IdOf[x]) => x \in shown
        /\ \E route \in [Ids(told) -> {"report", "drop"}] :
               byId' = Kept([i \in Ids(told) |->
                                [about |-> CHOOSE x \in told : IdOf[x] = i, route |-> route[i]]],
                            shown)
        /\ asking' = SubSeq(asking, n + 1, Len(asking))
        /\ UNCHANGED <<store, repo, window, pc, reading, missing, pass, tick>>

\* Between the passes: the ids with no verdict are asked again, a few times.
NextPass ==
    /\ pc = "score" /\ asking = <<>> /\ pass < Retries
    /\ {x \in ByExternal : IdOf[x] \notin DOMAIN byId} # {}
    /\ asking' = SelectSeq(Pairs, LAMBDA x : x \in ByExternal /\ IdOf[x] \notin DOMAIN byId)
    /\ pass' = pass + 1
    /\ UNCHANGED <<store, repo, window, pc, reading, byId, missing, tick>>

EndScore ==
    /\ pc = "score" /\ asking = <<>>
    /\ pass = Retries \/ Ids(ByExternal) \subseteq DOMAIN byId
    /\ missing' = Ids(ByExternal) \ DOMAIN byId
    /\ pc' = "commit"
    /\ UNCHANGED <<store, repo, window, reading, byId, asking, pass, tick>>

\* A budget refusal, a structural or a transient failure ends the tick.
ScoreFails ==
    /\ pc = "score"
    /\ pc' = "idle" /\ works' = <<>>
    /\ byId' = <<>> /\ asking' = <<>> /\ missing' = {} /\ pass' = 0
    /\ UNCHANGED <<store, repo, window, todo, inTick, tick>>

-----------------------------------------------------------------------------
(* Commit *)

VerdictOf(x) ==
    IF IdOf[x] \in DOMAIN byId THEN [post |-> x, about |-> byId[IdOf[x]].about, route |-> byId[IdOf[x]].route]
    ELSE [post |-> x, about |-> x, route |-> "drop"]

CommitChannel ==
    /\ pc = "commit" /\ works # <<>>
    /\ LET work  == Head(works)
           items == ToSet(work.items)
           kept  == ToSet(work.kept)
           upto  == Top(items, Time)
           told  == IF kept = {} THEN seen
                    ELSE Record(seen, UNION {SigsOf[x] : x \in kept}, Top(kept, Time))
       IN  /\ queue' = queue \o SelectSeq([i \in DOMAIN work.kept |-> VerdictOf(work.kept[i])],
                                          LAMBDA v : v.route # "drop")
           /\ seen' = Record(told, {Processed(x) : x \in items}, upto)
           /\ mark' = [mark EXCEPT ![work.channel] = upto]
           /\ scored' = scored \cup kept
    /\ works' = Tail(works)
    /\ UNCHANGED <<store, window, pc, todo, inTick, call, tick>>

EndTick ==
    /\ pc = "commit" /\ works = <<>>
    /\ pc' = "idle"
    /\ byId' = <<>> /\ asking' = <<>> /\ missing' = {} /\ pass' = 0
    /\ UNCHANGED <<store, repo, window, reading, tick>>

Next ==
    \/ \E x \in Posts : Arrive(x)
    \/ BindWindow \/ RunTick \/ Fetch \/ FetchFails
    \/ StartScore \/ NextPass \/ EndScore \/ ScoreFails
    \/ \E n \in 1 .. BatchSize, told \in SUBSET ToSet(Pairs) : ScoreChunk(n, told)
    \/ CommitChannel \/ EndTick

Spec == Init /\ [][Next]_vars

-----------------------------------------------------------------------------
(* Properties *)

\* Through failed fetches, failed scoring, cut reads and posts of one second, a tick
\* reads exactly the stored posts no tick has committed: the cursor skips none and
\* brings none back (fetch_new_items with _commit).
ReadUntilCommitted ==
    ~ oneShot => \A x \in stored : x \in Unread(ChannelOf[x]) <=> Processed(x) \notin DOMAIN seen

\* A post that passes the pre-filters is never lost as a duplicate of nothing: once
\* committed it has a verdict, or a chain of shared signatures leads to a post that
\* has one, though the posts between them were deferred by failed scoring.
Linked(S) ==
    LET share == [p \in S \X S |-> SigsOf[p[1]] \cap SigsOf[p[2]] # {}]
    IN  TransitiveClosure(share, S)
Represented ==
    LET done == {x \in stored \cap Passing : Processed(x) \in DOMAIN seen}
        link == Linked(done)
    IN  \A x \in done : \E y \in scored : y \in done /\ link[<<x, y>>]

\* Two entries of the queue share a signature only if the dedup window lies between
\* them, whatever order the channels brought them in.
QueuedOnce ==
    \A i, j \in DOMAIN queue : i < j =>
        \/ SigsOf[queue[i].post] \cap SigsOf[queue[j].post] = {}
        \/ TimeOf[queue[j].post] > TimeOf[queue[i].post] + Window

\* Every queued verdict was given for the post it stands with ("one Verdict per input
\* Item, same order", ports/llm.py:16), as long as the posts of a batch differ in id.
VerdictIsItsOwn ==
    (\A x, y \in Posts : IdOf[x] = IdOf[y] => x = y)
        => \A i \in DOMAIN queue : queue[i].about = queue[i].post
=============================================================================
