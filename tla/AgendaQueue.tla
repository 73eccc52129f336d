---------------------------- MODULE AgendaQueue ----------------------------
(***************************************************************************)
(* The work queue of the agenda cycle: how a collected post becomes a      *)
(* recorded publication, is queued, extracted, assigned to stories, and    *)
(* leaves the queue; and which channels a snapshot then calls comparable.  *)
(*                                                                         *)
(* One asyncio task (agenda_cycle.run_cycle) is the only writer.  Every    *)
(* SQLite transaction it makes is an action of its own, so the process may *)
(* die, or a store call may raise, between any two of them (Interrupt).    *)
(*                                                                         *)
(* Time is counted in steps of one slot; a post published in slot i has    *)
(* at[p] = i and can be read once now > i.  A cycle is shorter than a      *)
(* slot: run_cycle freezes `now` when it starts, so the clock moves only   *)
(* between cycles.                                                         *)
(***************************************************************************)
EXTENDS Integers, FiniteSets

CONSTANTS
    Sources,            \* resolved channels (source_id)
    Pubs,               \* posts, identified by source_id:external_id
    SourceOf,           \* [Pubs -> Sources]
    Texts,              \* distinct texts; a text stands for its text_hash
    FragCount,          \* [Texts -> Nat \ {0}]: fragments with claims in a text
    Fresh,              \* FRESH_POST_WINDOW, in slots
    Window,             \* WINDOW, in slots; LOOKBACK is two of them
    PostLimit,          \* max_posts_per_cycle
    BatchSize,          \* batch_size
    ExtractConcurrency, \* the semaphore of extract_one
    MaxAttempts,        \* 3 in _retryable_clause
    StartTime,          \* the slot at which the service is first observed
    MaxTime,            \* bound on the clock
    LastPost            \* bound: no post is published after this slot

ASSUME SourceOfType  == SourceOf \in [Pubs -> Sources]
ASSUME FragCountType == FragCount \in [Texts -> Nat \ {0}]
ASSUME SizesPositive == /\ PostLimit \in Nat \ {0}
                        /\ BatchSize \in Nat \ {0}
                        /\ ExtractConcurrency \in Nat \ {0}
                        /\ MaxAttempts \in Nat \ {0}
ASSUME TimesNat      == /\ Fresh \in Nat /\ Window \in Nat
                        /\ StartTime \in Nat /\ MaxTime \in Nat /\ LastPost \in Nat
                        /\ StartTime <= MaxTime

NoText == "no text"
ASSUME NoTextIsNoText == NoText \notin Texts

ErrorReasons == {"extract_error", "embed_error", "assign_error"}
Reasons      == {"absent", "new", "edited", "expired"} \cup ErrorReasons

VARIABLES
    now,        \* the clock
    live,       \* [Pubs -> text]: the post as its channel shows it now
    at,         \* [Pubs -> slot]: published_at
    covered,    \* [Sources -> set of slots]: source_coverage rows with complete
    raw,        \* [Pubs -> text]: raw_item cache
    pubText,    \* [Pubs -> text]: agenda_publication.text_hash
    queue,      \* [Pubs -> entry]: agenda_queue, absent when no row
    extraction, \* [Texts -> status]: agenda_json rows of kind "extraction"
    decided,    \* <<p, text, fragment>> whose assignment was applied
    lastCollect,\* agenda_cycle.last_collect_at (0: never)
    pc,         \* where run_cycle stands
    ids,        \* its source_ids
    asOf,       \* its as_of
    todo,       \* collected items ingest_publications has still to record
    cur,        \* the post being enqueued or assigned
    reason,     \* the reason enqueue is about to write
    pending,    \* selected publications not yet batched
    task,       \* [Pubs -> state]: the extract_one tasks of the batch
    jobs,       \* extracted publications to assign
    frag,       \* next fragment of cur to assign
    last,       \* the last of its fragments with a proposal
    applied,    \* whether an assignment of the batch was applied
    coverage,   \* [Sources -> flags]: the result of _coverage_states
    torn,       \* history: posts whose enqueue was interrupted after the record
    cut         \* history: posts processed without their later fragments

store  == <<pubText, queue, extraction, decided, lastCollect>>
feed   == <<now, live, at, covered, raw>>
loop   == <<frag, last, applied>>
cycle  == <<pc, ids, asOf, todo, cur, reason, pending, task, jobs, loop, coverage>>
lost   == <<torn, cut>>
vars   == <<store, feed, cycle, lost>>

-----------------------------------------------------------------------------
(* Queue entries: `reason` with the counter that a repeated error appends. *)

Absent == [reason |-> "absent", count |-> 0]

\* Mutant: errors are retried for ever.
Retryable_NoLimit(e) == e.reason \notin {"absent", "expired"}

Retryable(e) ==
    /\ e.reason \notin {"absent", "expired"}
    /\ ~ (e.reason \in ErrorReasons /\ e.count >= MaxAttempts)

Stopped(e) == e # Absent /\ ~ Retryable(e)

\* The row enqueue writes over row e: only a repeated error counts up.
Enqueued(e, r) ==
    [reason |-> r,
     count  |-> IF r \notin ErrorReasons THEN 0
                ELSE IF e.reason = r THEN e.count + 1 ELSE 1]

-----------------------------------------------------------------------------
(* Windows and analysis.                                                   *)

Recorded == {p \in Pubs : pubText[p] # NoText}

Slots(from, to)  == {i \in 0 .. MaxTime : from <= i /\ i < to}
CurrentOf(t)     == Slots(t - Window, t)
PreviousOf(t)    == Slots(t - 2 * Window, t - Window)
InLookback(p, t) == at[p] \in CurrentOf(t) \cup PreviousOf(t)

\* The first n fragments of the current text of p are decided.
DecidedTo(p, n) ==
    extraction[pubText[p]] = "ok" /\ \A f \in 1 .. n : <<p, pubText[p], f>> \in decided

\* The current text of p has been analysed to the end.
Analysed(p) == extraction[pubText[p]] = "empty" \/ DecidedTo(p, FragCount[pubText[p]])

\* Publications some story links to; the displayed ones are among them.
Linked == {p \in Recorded : \E t \in Texts : \E f \in 1 .. FragCount[t] : <<p, t, f>> \in decided}

\* retryable_publications: current window first, then previous, then older.
WindowClass(p) == IF at[p] >= asOf - Window THEN 0
                  ELSE IF at[p] >= asOf - 2 * Window THEN 1 ELSE 2

Before(p, q) == \/ WindowClass(p) < WindowClass(q)
                \/ WindowClass(p) = WindowClass(q) /\ at[p] < at[q]

\* S is a first part, of at most n elements, of C in the order Before.
IsPrefix(S, C, n) ==
    /\ S \subseteq C
    /\ Cardinality(S) <= n
    /\ S = C \/ Cardinality(S) = n
    /\ \A p \in S, q \in C \ S : ~ Before(q, p)

-----------------------------------------------------------------------------
Idle == [p \in Pubs |-> "none"]

\* The observed service has been polling quiet channels up to StartTime.
Init ==
    /\ now = StartTime
    /\ live = [p \in Pubs |-> NoText] /\ at = [p \in Pubs |-> StartTime]
    /\ covered = [s \in Sources |-> Slots(0, StartTime)]
    /\ raw = [p \in Pubs |-> NoText] /\ pubText = [p \in Pubs |-> NoText]
    /\ queue = [p \in Pubs |-> Absent]
    /\ extraction = [t \in Texts |-> "none"] /\ decided = {}
    /\ lastCollect = StartTime
    /\ pc = "sleep" /\ ids = {} /\ asOf = 0
    /\ todo = {} /\ cur = {} /\ reason = "absent"
    /\ pending = {} /\ task = Idle /\ jobs = {} /\ frag = 1 /\ last = 0 /\ applied = FALSE
    /\ coverage = {} /\ torn = {} /\ cut = {}

-----------------------------------------------------------------------------
(* The channels and the clock.  Nothing but Collect looks at the channels, *)
(* and it sees no post of the running slot, so posts and edits that arrive *)
(* during a cycle are taken to arrive just before or just after it.        *)

Tick ==
    /\ pc = "sleep" /\ now < MaxTime
    /\ now' = now + 1
    /\ UNCHANGED <<live, at, covered, raw, store, cycle, lost>>

Publish(p, t) ==
    /\ pc = "sleep" /\ live[p] = NoText /\ now <= LastPost
    /\ live' = [live EXCEPT ![p] = t] /\ at' = [at EXCEPT ![p] = now]
    /\ UNCHANGED <<now, covered, raw, store, cycle, lost>>

Edit(p, t) ==
    /\ pc = "sleep" /\ live[p] \notin {NoText, t}
    /\ live' = [live EXCEPT ![p] = t]
    /\ UNCHANGED <<now, at, covered, raw, store, cycle, lost>>

-----------------------------------------------------------------------------
(* Collection and ingestion.                                               *)

\* One run_cycle call for the resolved sources S; ing is collect_due.
StartCycle(S, ing) ==
    /\ pc = "sleep" /\ S # {}
    /\ ing \/ lastCollect = now
    /\ ids' = S
    /\ asOf' = IF ing THEN now ELSE lastCollect
    /\ pc' = IF ing THEN "collect" ELSE "begin"
    /\ UNCHANGED <<store, feed, lost, todo, cur, reason, pending, task, jobs, loop, coverage>>

Unread(p) ==
    /\ live[p] # NoText /\ SourceOf[p] \in ids
    /\ at[p] \in Slots(now - Fresh, now) \ covered[SourceOf[p]]

Ingestible(p) ==
    /\ raw'[p] # NoText /\ SourceOf[p] \in ids
    /\ now - Fresh <= at[p] /\ at[p] < now

\* The sources of ok are read to the end; of the others some posts may have
\* been stored (a truncated read).  Displayed posts are re-read for edits.
Collect(ok, got, refreshed) ==
    /\ pc = "collect"
    /\ \A p \in got : Unread(p)
    /\ \A p \in Pubs : Unread(p) /\ SourceOf[p] \in ok => p \in got
    /\ refreshed \subseteq Linked
    /\ covered' = [s \in Sources |-> IF s \in ok THEN covered[s] \cup Slots(now - Fresh, now)
                                     ELSE covered[s]]
    /\ raw' = [p \in Pubs |-> IF p \in got \cup refreshed THEN live[p] ELSE raw[p]]
    /\ todo' = {p \in Pubs : Ingestible(p)}
    /\ pc' = "ingest"
    /\ UNCHANGED <<now, live, at, store, lost, ids, asOf, cur, reason,
                   pending, task, jobs, loop, coverage>>

\* Mutant: only a new publication is queued.
Record_NewOnly(p) ==
    /\ pc = "ingest" /\ p \in todo
    /\ todo' = todo \ {p}
    /\ pubText' = [pubText EXCEPT ![p] = raw[p]]
    /\ IF pubText[p] = NoText THEN reason' = "new" /\ cur' = {p} /\ pc' = "enqueue"
                              ELSE UNCHANGED <<pc, cur, reason>>
    /\ cut' = IF pubText[p] = raw[p] THEN cut ELSE cut \ {p}
    /\ UNCHANGED <<queue, extraction, decided, lastCollect, feed, torn,
                   ids, asOf, pending, task, jobs, loop, coverage>>

\* record_publication: nothing to do when the text is unchanged.
Record(p) ==
    /\ pc = "ingest" /\ p \in todo
    /\ todo' = todo \ {p}
    /\ \/ /\ pubText[p] = raw[p]
          /\ UNCHANGED <<pubText, pc, cur, reason, cut>>
       \/ /\ pubText[p] # raw[p]
          /\ pubText' = [pubText EXCEPT ![p] = raw[p]]
          /\ reason' = IF pubText[p] = NoText THEN "new" ELSE "edited"
          /\ cur' = {p} /\ pc' = "enqueue" /\ cut' = cut \ {p}
    /\ UNCHANGED <<queue, extraction, decided, lastCollect, feed, torn,
                   ids, asOf, pending, task, jobs, loop, coverage>>

\* The second transaction of ingest_publications.
Enqueue(p) ==
    /\ pc = "enqueue" /\ p \in cur
    /\ queue' = [queue EXCEPT ![p] = Enqueued(@, reason)]
    /\ torn' = torn \ {p}
    /\ cur' = {} /\ reason' = "absent" /\ pc' = "ingest"
    /\ UNCHANGED <<pubText, extraction, decided, lastCollect, feed, cut,
                   ids, asOf, todo, pending, task, jobs, loop, coverage>>

FinishIngest ==
    /\ pc = "ingest" /\ todo = {}
    /\ lastCollect' = now /\ pc' = "begin"
    /\ UNCHANGED <<pubText, queue, extraction, decided, feed, lost,
                   ids, asOf, todo, cur, reason, pending, task, jobs, loop, coverage>>

-----------------------------------------------------------------------------
(* Selection, extraction and assignment.                                   *)

\* Mutant: stopped entries expire too.
Expired_Stopped(p) == queue[p] # Absent /\ pubText[p] # NoText /\ at[p] < now - Fresh

\* Mutant: only the configured channels' entries expire.
Expired_InIds(p) == /\ SourceOf[p] \in ids /\ Retryable(queue[p])
                    /\ pubText[p] # NoText /\ at[p] < now - Fresh

\* expire_before, then retryable_publications.
Expired(p) == Retryable(queue[p]) /\ pubText[p] # NoText /\ at[p] < now - Fresh

Selectable(p) == /\ Retryable(queue'[p]) /\ pubText[p] # NoText
                 /\ at[p] < asOf /\ SourceOf[p] \in ids

ExpireAndSelect(S) ==
    /\ pc = "begin"
    /\ queue' = [p \in Pubs |->
                    IF Expired(p) THEN [reason |-> "expired", count |-> 0] ELSE queue[p]]
    /\ IsPrefix(S, {p \in Pubs : Selectable(p)}, PostLimit)
    /\ pending' = S /\ pc' = "batch"
    /\ UNCHANGED <<pubText, extraction, decided, lastCollect, feed, lost,
                   ids, asOf, todo, cur, reason, task, jobs, loop, coverage>>

StartBatch(B) ==
    /\ pc = "batch" /\ pending # {}
    /\ IsPrefix(B, pending, BatchSize)
    /\ pending' = pending \ B
    /\ task' = [p \in Pubs |-> IF p \in B THEN "wait" ELSE "none"]
    /\ pc' = "extract"
    /\ UNCHANGED <<store, feed, lost, ids, asOf, todo, cur, reason, jobs, loop, coverage>>

Calling == {p \in Pubs : task[p] = "call"}

\* Mutant: no lock per text.
MayStart_NoLock(p) ==
    pc = "extract" /\ task[p] = "wait" /\ Cardinality(Calling) < ExtractConcurrency

\* reuse_locks[text_hash], then the semaphore.
MayStart(p) ==
    /\ pc = "extract" /\ task[p] = "wait"
    /\ \A q \in Calling : pubText[q] # pubText[p]
    /\ Cardinality(Calling) < ExtractConcurrency

ExtractCached(p) ==
    /\ MayStart(p) /\ extraction[pubText[p]] # "none"
    /\ task' = [task EXCEPT ![p] = extraction[pubText[p]]]
    /\ UNCHANGED <<store, feed, lost, pc, ids, asOf, todo, cur, reason,
                   pending, jobs, loop, coverage>>

ExtractCall(p) ==
    /\ MayStart(p) /\ extraction[pubText[p]] = "none"
    /\ task' = [task EXCEPT ![p] = "call"]
    /\ UNCHANGED <<store, feed, lost, pc, ids, asOf, todo, cur, reason,
                   pending, jobs, loop, coverage>>

\* The call's answer is saved; the extractor gives "ok" or "empty", and a failed call
\* raises (ExtractRaise), so that no stored result says "error".
ExtractReturn(p, status) ==
    /\ pc = "extract" /\ task[p] = "call"
    /\ extraction' = [extraction EXCEPT ![pubText[p]] = status]
    /\ task' = [task EXCEPT ![p] = status]
    /\ UNCHANGED <<pubText, queue, decided, lastCollect, feed, lost, pc, ids, asOf,
                   todo, cur, reason, pending, jobs, loop, coverage>>

ExtractRaise(p) ==
    /\ pc = "extract" /\ task[p] = "call"
    /\ queue' = [queue EXCEPT ![p] = Enqueued(@, "extract_error")]
    /\ task' = [task EXCEPT ![p] = "error"]
    /\ UNCHANGED <<pubText, extraction, decided, lastCollect, feed, lost, pc, ids, asOf,
                   todo, cur, reason, pending, jobs, loop, coverage>>

\* The main task awaits its tasks in batch order while the others run on.
Awaiting == {p \in Pubs : task[p] \notin {"none", "awaited"}}

Await(p) ==
    /\ pc = "extract" /\ IsPrefix({p}, Awaiting, 1)
    /\ task[p] \in {"error", "empty", "ok"}
    /\ queue' = IF task[p] = "empty" THEN [queue EXCEPT ![p] = Absent] ELSE queue
    /\ jobs' = IF task[p] = "ok" THEN jobs \cup {p} ELSE jobs
    /\ task' = [task EXCEPT ![p] = "awaited"]
    /\ UNCHANGED <<pubText, extraction, decided, lastCollect, feed, lost, pc, ids, asOf,
                   todo, cur, reason, pending, loop, coverage>>

\* assign_speculative_batch embeds every fragment of the batch first.
Embed ==
    /\ pc = "extract" /\ Awaiting = {}
    /\ pc' = "assign" /\ task' = Idle /\ applied' = FALSE
    /\ UNCHANGED <<store, feed, lost, ids, asOf, todo, cur, reason,
                   pending, jobs, frag, last, coverage>>

EmbedFail ==
    /\ pc = "extract" /\ Awaiting = {} /\ jobs # {}
    /\ pc' = "penalise" /\ task' = Idle
    /\ UNCHANGED <<store, feed, lost, ids, asOf, todo, cur, reason,
                   pending, jobs, loop, coverage>>

\* One enqueue per job; then the exception ends the cycle (EndFailed).
Penalise(p) ==
    /\ pc = "penalise" /\ p \in jobs
    /\ queue' = [queue EXCEPT ![p] = Enqueued(@, "embed_error")]
    /\ jobs' = jobs \ {p}
    /\ UNCHANGED <<pubText, extraction, decided, lastCollect, feed, lost, pc, ids, asOf,
                   todo, cur, reason, pending, task, loop, coverage>>

\* A strict batch (fewer than 128 posts pending, or so configured) asks for a
\* text's proposals one by one and stops at one that fails: `last`.  A relaxed one
\* asks for all.
PickJob(p) ==
    /\ pc = "assign" /\ cur = {} /\ IsPrefix({p}, jobs, 1)
    /\ jobs' = jobs \ {p} /\ cur' = {p} /\ last' \in 1 .. FragCount[pubText[p]]
    /\ UNCHANGED <<store, feed, lost, pc, ids, asOf, todo, reason,
                   pending, task, frag, applied, coverage>>

\* The proposals stopped here: the fragment's own has failed.
StoppedHere(p) == frag = last /\ last < FragCount[pubText[p]]

\* The decision on one fragment.  A failed proposal is asked for again when the
\* batch has since changed what the fragment is decided on.
AssignFragment(p) ==
    /\ pc = "assign" /\ p \in cur /\ frag <= last
    /\ StoppedHere(p) => applied
    /\ decided' = decided \cup {<<p, pubText[p], frag>>}
    /\ frag' = frag + 1 /\ applied' = TRUE
    /\ UNCHANGED <<pubText, queue, extraction, lastCollect, feed, lost, pc, ids, asOf,
                   todo, cur, reason, pending, task, jobs, last, coverage>>

\* The text is done with.
Leave == cur' = {} /\ frag' = 1 /\ last' = 0

AssignFail(p) ==
    /\ pc = "assign" /\ p \in cur /\ frag <= last
    /\ queue' = [queue EXCEPT ![p] = Enqueued(@, "assign_error")]
    /\ Leave
    /\ UNCHANGED <<pubText, extraction, decided, lastCollect, feed, lost, pc, ids, asOf,
                   todo, reason, pending, task, jobs, applied, coverage>>

\* Mutant: off by one, the last proposal is skipped.
MarkProcessed_Early(p) ==
    /\ pc = "assign" /\ p \in cur /\ frag >= last
    /\ queue' = [queue EXCEPT ![p] = Absent]
    /\ cut' = IF last < FragCount[pubText[p]] THEN cut \cup {p} ELSE cut
    /\ Leave
    /\ UNCHANGED <<pubText, extraction, decided, lastCollect, feed, torn, pc, ids, asOf,
                   todo, reason, pending, task, jobs, applied, coverage>>

\* The loop goes over the proposals, so it ends without the fragments that have
\* none, and mark_processed follows.
MarkProcessed(p) ==
    /\ pc = "assign" /\ p \in cur /\ frag > last
    /\ queue' = [queue EXCEPT ![p] = Absent]
    /\ cut' = IF last < FragCount[pubText[p]] THEN cut \cup {p} ELSE cut
    /\ Leave
    /\ UNCHANGED <<pubText, extraction, decided, lastCollect, feed, torn, pc, ids, asOf,
                   todo, reason, pending, task, jobs, applied, coverage>>

\* After a batch: the next one, or a snapshot (partial while pending # {}).
EndBatch ==
    /\ pc = "assign" /\ cur = {} /\ jobs = {} /\ pending # {}
    /\ pc' = "batch"
    /\ UNCHANGED <<store, feed, lost, ids, asOf, todo, cur, reason,
                   pending, task, jobs, loop, coverage>>

-----------------------------------------------------------------------------
(* Snapshots, and the end of a cycle.                                      *)

CurrentComplete(s)  == CurrentOf(asOf) \subseteq covered[s]
PreviousComplete(s) == PreviousOf(asOf) \subseteq covered[s]
\* Mutant: stopped and expired entries do not count as queued.
Processed_RetryableOnly(s) ==
    \A p \in Recorded : SourceOf[p] = s /\ InLookback(p, asOf) => ~ Retryable(queue[p])

Processed(s) == \A p \in Recorded : SourceOf[p] = s /\ InLookback(p, asOf) => queue[p] = Absent

\* _coverage_states and comparable_channel_ids.
Cover ==
    /\ \/ pc = "assign" /\ cur = {} /\ jobs = {}
       \/ pc = "batch" /\ pending = {}
    /\ coverage' = {s \in ids : CurrentComplete(s) /\ PreviousComplete(s) /\ Processed(s)}
    /\ pc' = "build"
    /\ UNCHANGED <<store, feed, lost, ids, asOf, todo, cur, reason, pending, task, jobs, loop>>

\* What run_cycle held in memory is gone.
Rest ==
    /\ pc' = "sleep" /\ ids' = {} /\ asOf' = 0
    /\ todo' = {} /\ cur' = {} /\ reason' = "absent"
    /\ pending' = {} /\ task' = Idle /\ jobs' = {} /\ coverage' = {}
    /\ frag' = 1 /\ last' = 0 /\ applied' = FALSE

Build ==
    /\ pc = "build"
    /\ \/ pending = {} /\ Rest
       \/ /\ pending # {}
          /\ pc' = "batch" /\ coverage' = {}
          /\ UNCHANGED <<ids, asOf, todo, cur, reason, pending, task, jobs, loop>>
    /\ UNCHANGED <<store, feed, lost>>

\* A post whose row was written but not queued is torn.
Drop ==
    /\ Rest
    /\ torn' = torn \cup {p \in cur : pc = "enqueue" /\ queue[p] = Absent}
    /\ UNCHANGED <<store, feed, cut>>

EndFailed == pc = "penalise" /\ jobs = {} /\ Drop

\* The cycle has nothing left to do but to return (Build, EndFailed).
Ending == \/ pc = "build" /\ pending = {}
          \/ pc = "penalise" /\ jobs = {}

\* A crash, a cancellation, BudgetExceeded, or a store call that raises.  When
\* the cycle is ending this is no other step than its end.
Interrupt == pc # "sleep" /\ ~ Ending /\ Drop

-----------------------------------------------------------------------------
CycleStep ==
    \/ \E S \in SUBSET Sources, ing \in BOOLEAN : StartCycle(S, ing)
    \/ pc = "collect" /\ \E ok \in SUBSET ids, got, refreshed \in SUBSET Pubs :
            Collect(ok, got, refreshed)
    \/ \E p \in Pubs : Record(p) \/ Enqueue(p)
    \/ FinishIngest
    \/ pc = "begin" /\ \E S \in SUBSET Pubs : ExpireAndSelect(S)
    \/ pc = "batch" /\ \E B \in SUBSET pending : StartBatch(B)
    \/ \E p \in Pubs :
        \/ ExtractCached(p) \/ ExtractCall(p) \/ ExtractRaise(p)
        \/ \E status \in {"ok", "empty"} : ExtractReturn(p, status)
        \/ Await(p)
    \/ Embed \/ EmbedFail \/ EndFailed
    \/ \E p \in Pubs : \/ Penalise(p) \/ PickJob(p)
                       \/ AssignFragment(p) \/ AssignFail(p) \/ MarkProcessed(p)
    \/ EndBatch \/ Cover \/ Build

Channel == \/ Tick
           \/ \E p \in Pubs, t \in Texts : Publish(p, t) \/ Edit(p, t)

Next == CycleStep \/ Channel \/ Interrupt
Spec == Init /\ [][Next]_vars

\* _agenda_poll loops for ever and every await of a cycle has a timeout;
\* the clock, which the model stops during a cycle, never stops for good.
FairSpec == Spec /\ WF_vars(CycleStep) /\ SF_vars(Tick)

-----------------------------------------------------------------------------
(* Properties.                                                             *)

Entry == [reason : Reasons, count : 0 .. MaxAttempts]

\* Types.  The count of a queue entry never passes MaxAttempts: a post whose
\* error repeated three times is not selected again.
TypeOK ==
    /\ now \in StartTime .. MaxTime /\ lastCollect \in Nat /\ asOf \in Nat
    /\ live \in [Pubs -> Texts \cup {NoText}] /\ at \in [Pubs -> Nat]
    /\ covered \in [Sources -> SUBSET (0 .. MaxTime)]
    /\ raw \in [Pubs -> Texts \cup {NoText}] /\ pubText \in [Pubs -> Texts \cup {NoText}]
    /\ queue \in [Pubs -> Entry]
    /\ extraction \in [Texts -> {"none", "ok", "empty"}]
    /\ decided \subseteq Pubs \X Texts \X (Nat \ {0})
    /\ pc \in {"sleep", "collect", "ingest", "enqueue", "begin", "batch", "extract",
               "penalise", "assign", "build"}
    /\ ids \subseteq Sources /\ coverage \subseteq ids
    /\ todo \subseteq Pubs /\ pending \subseteq Pubs /\ jobs \subseteq Pubs
    /\ torn \subseteq Pubs /\ cut \subseteq Pubs
    /\ cur \subseteq Pubs /\ \A p, q \in cur : p = q
    /\ reason \in {"absent", "new", "edited"} /\ frag \in Nat \ {0}
    /\ last \in Nat /\ applied \in BOOLEAN
    /\ task \in [Pubs -> {"none", "wait", "call", "ok", "empty", "error", "awaited"}]

\* Processed without its later fragments, after the decision on the one whose
\* proposal had failed.
CutShort(p) == p \in cut /\ \E n \in 1 .. FragCount[pubText[p]] - 1 : DecidedTo(p, n)

\* Between any two transactions, a recorded publication is on the queue, analysed
\* to the end, or about to be queued.  It gets off the books in two ways only: an
\* interruption between record_publication and enqueue (torn), and a failed
\* proposal that is answered at the commit, which leaves the fragments after it.
LostInTwoWays ==
    \A p \in Recorded : \/ queue[p] # Absent \/ Analysed(p) \/ CutShort(p)
                        \/ p \in torn \/ (pc = "enqueue" /\ p \in cur)

\* A channel the snapshot compares (complete in both windows and processed)
\* has no recorded publication of those windows left unanalysed, but for those
\* lost in these two ways: decide_growth counts channels over analysed posts.
ComparableIsAnalysed ==
    pc = "build" => \A p \in Recorded :
        SourceOf[p] \in coverage /\ InLookback(p, asOf) => Analysed(p) \/ CutShort(p) \/ p \in torn

\* No text is sent to the extractor twice at the same time, nor again once its
\* result is stored: forwarded copies in one batch cost one call.
OneCallPerText ==
    \A p, q \in Calling : /\ extraction[pubText[p]] = "none"
                          /\ pubText[p] = pubText[q] => p = q

\* An entry that stopped after its retries or expired stays on the queue, and
\* so keeps its channel out of the comparison, until the post is edited; no
\* retry, batch penalty or expiry of a later cycle touches it.
StoppedUntilEdited ==
    [][\A p \in Pubs : Stopped(queue[p]) /\ queue'[p] # queue[p]
                           => queue'[p].reason = "edited" /\ pc = "enqueue"]_vars

\* A publication leaves the queue only with its current text analysed, or cut
\* short: with a first part of it decided, the failed proposal included, in a batch
\* that had applied something else before.
LeavesAnalysed ==
    [][\A p \in Pubs : queue[p] # Absent /\ queue'[p] = Absent => Analysed(p) \/ CutShort(p)']_vars

\* Every entry that will be retried is eventually processed, stopped or
\* expired, if interruptions come to an end: neither the post limit, nor a
\* channel dropped from the configuration, nor alternating errors keep it.
QueueDrains ==
    <>[][~Interrupt]_vars => \A p \in Pubs : Retryable(queue[p]) ~> ~ Retryable(queue[p])

\* The README's growth rule ("channels complete and processed in both
\* windows"): every recorded publication of a compared channel in the two
\* windows has its current text analysed.
ComparedPostsAreAnalysed ==
    pc = "build" => \A p \in Recorded :
        SourceOf[p] \in coverage /\ InLookback(p, asOf) => Analysed(p)
=============================================================================
