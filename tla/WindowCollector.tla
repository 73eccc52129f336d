-------------------------- MODULE WindowCollector --------------------------
(***************************************************************************)
(* IngestionCoordinator.ensure_window: how the posts of Telegram channels  *)
(* reach the raw cache, which intervals are recorded as covered, and where *)
(* the next read resumes.                                                  *)
(*                                                                         *)
(* The sources of one batch run concurrently under gather and share the    *)
(* run's post budget; each awaited store call is an action of its own and  *)
(* may raise; the process may die between any two.                         *)
(*                                                                         *)
(* Time is counted in ticks, two to a second: Telegram dates a post with   *)
(* its whole second, the windows have the resolution of one tick (the      *)
(* microsecond of the code).                                               *)
(***************************************************************************)
EXTENDS Integers, Sequences, FiniteSets, Coverage

CONSTANTS
    NumSources,  \* the source_ids of a call are 1 .. NumSources, in order
    Concurrent,  \* max_channels_first_run: the size of a batch
    PostCap,     \* max_posts_per_channel
    RunCap,      \* max_posts_per_run
    Fresh,       \* FRESH_POST_WINDOW, in ticks
    Look,        \* collection_window, in ticks
    StartTime,   \* when the service is first observed
    MaxTime,     \* bound on the clock
    MaxPosts     \* bound on the posts of a channel

\* What is assumed of the constants.
ConstantsOK ==
    /\ {NumSources, Concurrent, PostCap, RunCap} \subseteq Nat \ {0}
    /\ {Fresh, Look, StartTime, MaxTime, MaxPosts} \subseteq Nat
    /\ Fresh <= Look /\ Look <= StartTime /\ StartTime <= MaxTime

Sources == 1 .. NumSources
NoTime  == -1

VARIABLES
    now,        \* the clock
    chan,       \* [Sources -> Seq(date)]: the channel; a post's id is its index
    stored,     \* [Sources -> set of ids]: raw_item
    spans,      \* [Sources -> set of <<start, end>>]: complete source_coverage rows
    watermark,  \* [Sources -> last_seen or NoTime]: source_ingestion_state
    delayed,    \* [Sources -> time]: _delayed_until, in memory (0: none)
    end,        \* end of the window of the running call, NoTime between calls
    step,       \* [Sources -> where _ensure_one stands]
    left,       \* _RunBudget._remaining
    held,       \* [Sources -> posts reserved for the read under way]
    from,       \* [Sources -> read_start]
    after,      \* [Sources -> after_id, 0 for None]
    page,       \* [Sources -> ids of the items read]
    truncated,  \* [Sources -> WindowRead.truncated]
    since,      \* history: where the unbroken reading of a source began
    used,       \* history: posts read in this run
    late        \* history: [Sources -> ids published too late for a read, see TooLate]

db    == <<stored, spans, watermark>>
local == <<step, held, from, after, page, truncated>>
vars  == <<now, chan, db, delayed, end, left, local, since, used, late>>

Steps == {"idle", "queued", "read", "save", "mark", "prefix", "advance", "complete", "done"}
Ended == {"complete", "done"}

-----------------------------------------------------------------------------
(* Where a read starts, and what it returns.                               *)

Larger(a, b)  == IF a > b THEN a ELSE b
Smaller(a, b) == IF a < b THEN a ELSE b

\* read_floor: never before the watermark, never older than the fresh window.
ReadFloor(s) == Larger(end - Fresh, watermark[s])

Date(s, i) == chan[s][i]

\* Ids in the raw cache dated exactly at the floor.
AtFloor(s) == {i \in stored[s] : Date(s, i) = ReadFloor(s)}

\* Mutant: the cursor is dropped, so a page may start over at the same posts.
Cursor_None(s) == 0

\* The ID cursor is derived from the raw cache, only when resuming.
Cursor(s) ==
    IF watermark[s] = ReadFloor(s) /\ AtFloor(s) # {}
    THEN CHOOSE i \in AtFloor(s) : \A j \in AtFloor(s) : j <= i
    ELSE 0

\* The posts of the channel a read meets, and the first cap of them.
Unread(s) == {i \in 1 .. Len(chan[s]) : i > after[s] /\ from[s] <= Date(s, i) /\ Date(s, i) <= end}

IsPage(s, P) ==
    /\ P \subseteq Unread(s)
    /\ Cardinality(P) <= held[s]
    /\ P = Unread(s) \/ Cardinality(P) = held[s]
    /\ \A i \in P, j \in Unread(s) : j < i => j \in P

\* The date of the newest item of the page.
Newest(s) == Date(s, CHOOSE i \in page[s] : \A j \in page[s] : j <= i)

-----------------------------------------------------------------------------
Init ==
    /\ now = StartTime
    /\ chan = [s \in Sources |-> <<>>]
    /\ stored = [s \in Sources |-> {}] /\ spans = [s \in Sources |-> {}]
    /\ watermark = [s \in Sources |-> NoTime]
    /\ delayed = [s \in Sources |-> 0]
    /\ end = NoTime /\ left = 0
    /\ step = [s \in Sources |-> "idle"] /\ held = [s \in Sources |-> 0]
    /\ from = [s \in Sources |-> 0] /\ after = [s \in Sources |-> 0]
    /\ page = [s \in Sources |-> {}] /\ truncated = [s \in Sources |-> FALSE]
    /\ since = [s \in Sources |-> NoTime] /\ used = 0
    /\ late = [s \in Sources |-> {}]

Tick ==
    /\ now < MaxTime /\ now' = now + 1
    /\ UNCHANGED <<chan, db, delayed, end, left, local, since, used, late>>

\* A post carries the whole second it is published in.
Second == 2 * (now \div 2)

\* A window that ended at time t ended in the second that is running.
EndedNow(t) == Second <= t /\ t <= now

\* A post published now comes too late for a read of the source: a window was
\* read to its end, which lies in this very second.  Nothing reads it again.
TooLate(s) ==
    \/ EndedNow(watermark[s]) /\ watermark[s] # Second
    \/ \E x \in spans[s] : x[1] <= Second /\ EndedNow(x[2])
    \/ /\ step[s] \in {"save", "mark", "advance"} /\ ~ truncated[s]
       /\ from[s] <= Second /\ EndedNow(end)

Publish(s) ==
    /\ Len(chan[s]) < MaxPosts
    /\ chan' = [chan EXCEPT ![s] = Append(@, Second)]
    /\ late' = [late EXCEPT ![s] = IF TooLate(s) THEN @ \cup {Len(chan[s]) + 1} ELSE @]
    /\ UNCHANGED <<now, db, delayed, end, left, local, since, used>>

-----------------------------------------------------------------------------
(* One call of ensure_window.                                              *)

StartRun ==
    /\ end = NoTime
    /\ end' = now /\ left' = RunCap /\ used' = 0
    /\ step' = [s \in Sources |-> "queued"]
    /\ UNCHANGED <<now, chan, db, delayed, held, from, after, page, truncated, since, late>>

Batch(s)    == (s - 1) \div Concurrent
MayBegin(s) == /\ step[s] = "queued"
               /\ \A r \in Sources : Batch(r) < Batch(s) => step[r] \in Ended

\* _ensure_one up to the read: nothing else writes the source's own rows.
SkipCovered(s) ==
    /\ MayBegin(s) /\ Covers(spans[s], ReadFloor(s), end)
    /\ step' = [step EXCEPT ![s] = "done"]
    /\ UNCHANGED <<now, chan, db, delayed, end, left, held, from, after, page, truncated,
                   since, used, late>>

SkipDelayed(s) ==
    /\ MayBegin(s) /\ ~ Covers(spans[s], ReadFloor(s), end)
    /\ now < delayed[s]
    /\ step' = [step EXCEPT ![s] = "done"]
    /\ UNCHANGED <<now, chan, db, delayed, end, left, held, from, after, page, truncated,
                   since, used, late>>

SkipCapped(s) ==
    /\ MayBegin(s) /\ ~ Covers(spans[s], ReadFloor(s), end)
    /\ now >= delayed[s] /\ left <= 0
    /\ delayed' = [delayed EXCEPT ![s] = 0]
    /\ step' = [step EXCEPT ![s] = "done"]
    /\ UNCHANGED <<now, chan, db, end, left, held, from, after, page, truncated, since, used, late>>

BeginRead(s) ==
    /\ MayBegin(s) /\ ~ Covers(spans[s], ReadFloor(s), end)
    /\ now >= delayed[s] /\ left > 0
    /\ delayed' = [delayed EXCEPT ![s] = 0]
    /\ held' = [held EXCEPT ![s] = Smaller(PostCap, left)]
    /\ left' = left - held'[s]
    /\ from' = [from EXCEPT ![s] = ReadFloor(s)]
    /\ after' = [after EXCEPT ![s] = Cursor(s)]
    /\ step' = [step EXCEPT ![s] = "read"]
    /\ UNCHANGED <<now, chan, db, end, page, truncated, since, used, late>>

\* A store call raised before the reservation, or after it (it is then kept).
BeginRaise(s) ==
    /\ MayBegin(s)
    /\ \/ UNCHANGED <<left, delayed>>
       \/ /\ ~ Covers(spans[s], ReadFloor(s), end) /\ now >= delayed[s] /\ left > 0
          /\ watermark[s] = ReadFloor(s)
          /\ delayed' = [delayed EXCEPT ![s] = 0]
          /\ left' = left - Smaller(PostCap, left)
    /\ step' = [step EXCEPT ![s] = "done"]
    /\ UNCHANGED <<now, chan, db, end, held, from, after, page, truncated, since, used, late>>

Reading(s) == step[s] = "read"

ReadOk(s, P) ==
    /\ Reading(s) /\ IsPage(s, P)
    /\ page' = [page EXCEPT ![s] = P]
    /\ truncated' = [truncated EXCEPT ![s] = P # Unread(s)]
    /\ left' = left + held[s] - Cardinality(P)
    /\ held' = [held EXCEPT ![s] = 0]
    /\ used' = used + Cardinality(P)
    /\ step' = [step EXCEPT ![s] = IF P = {} THEN "mark" ELSE "save"]
    /\ UNCHANGED <<now, chan, db, delayed, end, from, after, since, late>>

\* The reader raised: the reservation is refunded and nothing is recorded.
ReadRaise(s) ==
    /\ Reading(s)
    /\ left' = left + held[s] /\ held' = [held EXCEPT ![s] = 0]
    /\ step' = [step EXCEPT ![s] = "done"]
    /\ UNCHANGED <<now, chan, db, delayed, end, from, after, page, truncated, since, used, late>>

\* The reader answered with an error; a FloodWait also delays the source.
ReadError(s, until) ==
    /\ Reading(s)
    /\ left' = left + held[s] /\ held' = [held EXCEPT ![s] = 0]
    /\ delayed' = [delayed EXCEPT ![s] = IF until > now THEN until ELSE @]
    /\ spans' = [spans EXCEPT ![s] = @ \ {<<from[s], end>>}]
    /\ step' = [step EXCEPT ![s] = "done"]
    /\ UNCHANGED <<now, chan, stored, watermark, end, from, after, page, truncated, since, used, late>>

\* _persist_read, one store call at a time.
StoreItems(s) ==
    /\ step[s] = "save"
    /\ stored' = [stored EXCEPT ![s] = @ \cup page[s]]
    /\ step' = [step EXCEPT ![s] = "mark"]
    /\ UNCHANGED <<now, chan, spans, watermark, delayed, end, left, held, from, after,
                   page, truncated, since, used, late>>

\* Mutant: a capped read counts as complete.
MarkCoverage_Capped(s) ==
    /\ step[s] = "mark"
    /\ spans' = [spans EXCEPT ![s] = @ \cup {<<from[s], end>>}]
    /\ step' = [step EXCEPT ![s] = IF truncated[s] THEN "prefix" ELSE "advance"]
    /\ UNCHANGED <<now, chan, stored, watermark, delayed, end, left, held, from, after,
                   page, truncated, since, used, late>>

MarkCoverage(s) ==
    /\ step[s] = "mark"
    /\ spans' = [spans EXCEPT ![s] = IF truncated[s] THEN @ \ {<<from[s], end>>}
                                     ELSE @ \cup {<<from[s], end>>}]
    /\ step' = [step EXCEPT ![s] = IF truncated[s] THEN "prefix" ELSE "advance"]
    /\ UNCHANGED <<now, chan, stored, watermark, delayed, end, left, held, from, after,
                   page, truncated, since, used, late>>

\* A capped read proves the interval up to one tick before its newest item.
MarkPrefix(s) ==
    /\ step[s] = "prefix"
    /\ spans' = [spans EXCEPT ![s] = IF Newest(s) - 1 >= from[s]
                                     THEN @ \cup {<<from[s], Newest(s) - 1>>} ELSE @]
    /\ step' = [step EXCEPT ![s] = "advance"]
    /\ UNCHANGED <<now, chan, stored, watermark, delayed, end, left, held, from, after,
                   page, truncated, since, used, late>>

Progress(s) == IF truncated[s] THEN Newest(s) ELSE end

\* The watermark is still within the fresh window of this call.
Resumes(s) == watermark[s] # NoTime /\ watermark[s] >= end - Fresh

\* The watermark only grows; a read from beyond it starts the reading afresh.
Advance(s) ==
    /\ step[s] = "advance"
    /\ watermark' = [watermark EXCEPT ![s] = Larger(@, Progress(s))]
    /\ since' = [since EXCEPT ![s] = IF Resumes(s) THEN @ ELSE from[s]]
    /\ step' = [step EXCEPT ![s] = IF truncated[s] THEN "done" ELSE "complete"]
    /\ UNCHANGED <<now, chan, stored, spans, delayed, end, left, held, from, after,
                   page, truncated, used, late>>

\* A store call raised: the source ends with an error, its siblings go on.
StoreRaise(s) ==
    /\ step[s] \in {"save", "mark", "prefix", "advance"}
    /\ step' = [step EXCEPT ![s] = "done"]
    /\ UNCHANGED <<now, chan, db, delayed, end, left, held, from, after, page, truncated,
                   since, used, late>>

Forget ==
    /\ end' = NoTime /\ left' = 0
    /\ step' = [s \in Sources |-> "idle"] /\ held' = [s \in Sources |-> 0]
    /\ from' = [s \in Sources |-> 0] /\ after' = [s \in Sources |-> 0]
    /\ page' = [s \in Sources |-> {}] /\ truncated' = [s \in Sources |-> FALSE]
    /\ UNCHANGED <<now, chan, db, since, used, late>>

EndRun ==
    /\ end # NoTime /\ \A s \in Sources : step[s] \in Ended
    /\ Forget /\ UNCHANGED delayed

\* The process dies and starts again: flood waits are forgotten too.
Restart == Forget /\ delayed' = [s \in Sources |-> 0]

-----------------------------------------------------------------------------
Next ==
    \/ Tick \/ StartRun \/ EndRun \/ Restart
    \/ \E s \in Sources :
        \/ Publish(s)
        \/ SkipCovered(s) \/ SkipDelayed(s) \/ SkipCapped(s) \/ BeginRead(s)
        \/ BeginRaise(s)
        \/ step[s] = "read" /\ \E P \in SUBSET (1 .. Len(chan[s])) : ReadOk(s, P)
        \/ ReadRaise(s)
        \/ \E until \in {0, now + 2} : ReadError(s, until)
        \/ StoreItems(s) \/ MarkCoverage(s) \/ MarkPrefix(s) \/ Advance(s) \/ StoreRaise(s)

Spec == Init /\ [][Next]_vars

-----------------------------------------------------------------------------
(* Properties.                                                             *)

\* Types.  The budget is never negative.
TypeOK ==
    /\ now \in Nat
    /\ chan \in [Sources -> Seq(Nat)]
    /\ stored \in [Sources -> SUBSET (Nat \ {0})]
    /\ \A s \in Sources : stored[s] \subseteq 1 .. Len(chan[s])
    /\ spans \in [Sources -> SUBSET (Nat \X Nat)]
    /\ watermark \in [Sources -> Nat \cup {NoTime}]
    /\ delayed \in [Sources -> Nat]
    /\ end \in Nat \cup {NoTime}
    /\ step \in [Sources -> Steps]
    /\ left \in Nat /\ held \in [Sources -> Nat]
    /\ from \in [Sources -> Nat] /\ after \in [Sources -> Nat]
    /\ page \in [Sources -> SUBSET (Nat \ {0})]
    /\ truncated \in [Sources -> BOOLEAN]
    /\ since \in [Sources -> Nat \cup {NoTime}] /\ used \in Nat
    /\ late \in [Sources -> SUBSET (Nat \ {0})]

\* Complete coverage is the truth but for one second: every post dated inside a
\* covered interval is in the raw cache, whatever was capped, failed, restarted or
\* resumed in the middle of a second, except those published in the second the
\* window ended in, after it was read.  The comparable channels rest on this.
CoveredIsStored ==
    \A s \in Sources : \A x \in spans[s] : \A i \in 1 .. Len(chan[s]) :
        x[1] <= Date(s, i) /\ Date(s, i) <= x[2] => i \in stored[s] \cup late[s]

\* The watermark skips nothing else: within an unbroken reading every post dated
\* before the watermark is in the raw cache, or came too late in that second.
NothingSkipped ==
    \A s \in Sources : \A i \in 1 .. Len(chan[s]) :
        since[s] <= Date(s, i) /\ Date(s, i) < watermark[s] => i \in stored[s] \cup late[s]

\* No read is spent on posts that are all behind the watermark and stored
\* already: when more posts share one second than a read may take, the ID
\* cursor still moves the collection on.
ReadsMakeProgress ==
    \A s \in Sources : step[s] = "save" =>
        \E i \in page[s] : i \notin stored[s] \/ Date(s, i) > watermark[s]

\* The sources of a call together read no more than max_posts_per_run, though
\* they reserve, read, fail and refund concurrently.
RunWithinCap == used <= RunCap

\* After a read that reached the window's end, every instant since the unbroken
\* reading began lies in a covered interval.
EveryInstantCovered ==
    \A s \in Sources : step[s] = "complete" =>
        \A t \in since[s] .. end : \E x \in spans[s] : x[1] <= t /\ t <= x[2]
=============================================================================
