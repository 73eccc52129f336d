----------------------------- MODULE AgendaPoll -----------------------------
(***************************************************************************)
(* The background task of astrafeed-serve: _agenda_poll under its          *)
(* supervisor.  It resolves the configured sources, records their health,  *)
(* runs a cycle and sleeps; /healthz reads the cycle state it leaves.      *)
(*                                                                         *)
(* While there is trouble any store call, source or model call may raise   *)
(* and the process may die at any await; trouble comes and goes.  The poll *)
(* task is the only writer of the cycle state, so a read and the write     *)
(* that follows it are one step.                                           *)
(*                                                                         *)
(* Time is kept as ages, in ticks, saturated at poll_seconds and at        *)
(* STALE_AFTER: nothing depends on how much later than that it is.  The    *)
(* configuration bounds neither by the other.                              *)
(***************************************************************************)
EXTENDS Integers

CONSTANTS
    Configured, \* the source families the configuration names
    Reader,     \* whether an Xpoz reader exists (XPOZ_API_KEY)
    Poll,       \* poll_seconds
    StaleAfter  \* STALE_AFTER

Families == {"telegram", "rss", "reddit", "xpoz"}
ASSUME FamiliesConfigured == Configured \subseteq Families
ASSUME PollPositive == Reader \in BOOLEAN /\ Poll \in Nat \ {0} /\ StaleAfter \in Nat \ {0}

\* What source_ids are made of, and which of them a mapping knows: rss_feeds,
\* reddit_feeds, xpoz_accounts, xpoz_search_id.  The rest is taken for Telegram.
Mapped  == {"rss", "reddit", "accounts", "search"}
Sources == {"telegram"} \cup Mapped

VARIABLES
    trouble, \* whether calls may raise
    health,  \* source_health, "none" for no entry
    phase, error, blocked, \* the rest of the stored cycle state
    age,     \* ticks since last_collect_at, -1 for None
    shown,   \* whether a snapshot is published
    old,     \* ticks since its published_at
    pc,      \* where the task stands
    due,     \* collect_due
    lag,     \* ticks since the iteration took `now`
    sleep,   \* ticks left to sleep
    made,    \* ticks since the cycle took finished_at, for the report it is to publish
    ids,     \* what source_ids holds
    known,   \* what the mappings hold
    base,    \* source_health as read at the top of the iteration
    note,    \* the health being recorded: [of, as, handler]
    mem,     \* run_cycle's own copy: [phase, error, blocked, collected]
    more,    \* the snapshot carries "processing_in_progress"
    heard,   \* history: families the last attempt to resolve succeeded for
    reads    \* history: <<reader, source>> pairs the iteration collected

stored == <<health, phase, error, blocked, age, shown, old>>
clock  == <<lag, sleep, made>>
config == <<ids, known>>
task   == <<pc, due, clock, config, base, note, mem, more>>
pollVars   == <<trouble, stored, task, heard, reads>>

NoNote == [of |-> "none", as |-> "none", handler |-> FALSE]
NoMem  == [phase |-> "idle", error |-> "none", blocked |-> FALSE, collected |-> FALSE]
NoHealth == [f \in Families |-> "none"]
Errors == {"none", "source_unavailable", "failed", "budget"}
Phases == {"idle", "collect", "analyze", "snapshot", "blocked"}
InCycle == {"collect", "ingested", "analyze", "finish", "excuse", "rest"}
Places  == Families \cup InCycle
           \cup {"top", "record", "resolved", "begin", "asleep", "down"}

Saturated(n) == IF n > Poll THEN Poll ELSE n
Aged(n)      == IF n < StaleAfter THEN n + 1 ELSE n
Least1(n)    == IF n < 1 THEN 1 ELSE n
NextFamily   == [telegram |-> "rss", rss |-> "reddit", reddit |-> "xpoz", xpoz |-> "resolved"]

\* Where the sources of a family appear in source_ids.
SourcesOf(f) == IF f = "xpoz" THEN {"accounts", "search"} ELSE {f}

-----------------------------------------------------------------------------
PollInit ==
    /\ trouble \in BOOLEAN
    /\ health = NoHealth /\ phase = "idle" /\ error = "none" /\ blocked = FALSE
    /\ age = -1 /\ shown = FALSE /\ old = 0
    /\ pc = "top" /\ due = FALSE /\ lag = 0 /\ sleep = 0 /\ made = 0
    /\ ids = {} /\ known = {} /\ base = NoHealth /\ note = NoNote
    /\ mem = NoMem /\ more = FALSE
    /\ heard = {} /\ reads = {}

(* The world. *)

PollTick ==
    /\ lag' = IF pc \in {"top", "asleep", "down"} THEN 0 ELSE Saturated(lag + 1)
    /\ sleep' = IF sleep > 0 THEN sleep - 1 ELSE 0
    /\ age' = IF age = -1 THEN -1 ELSE Saturated(age + 1)
    /\ old' = IF shown THEN Aged(old) ELSE old
    /\ made' = IF pc = "finish" THEN Aged(made) ELSE made
    /\ UNCHANGED <<trouble, health, phase, error, blocked, shown,
                   pc, due, config, base, note, mem, more, heard, reads>>

Upset == ~trouble /\ trouble' = TRUE  /\ UNCHANGED <<stored, task, heard, reads>>
Heal  == trouble  /\ trouble' = FALSE /\ UNCHANGED <<stored, task, heard, reads>>

\* A fresh task: nothing is resolved.
Fresh ==
    /\ due' = FALSE /\ lag' = 0 /\ made' = 0 /\ ids' = {} /\ known' = {}
    /\ base' = NoHealth /\ note' = NoNote /\ mem' = NoMem /\ more' = FALSE
    /\ reads' = {}

\* The process dies; the stored state is what the next one starts from.
PollCrash ==
    /\ trouble
    /\ Fresh /\ pc' = "top" /\ sleep' = 0
    /\ UNCHANGED <<trouble, stored, heard>>

-----------------------------------------------------------------------------
(* Sleeping. *)

Rest(n, where) == /\ pc' = where /\ sleep' = n /\ lag' = 0 /\ reads' = {} /\ UNCHANGED made

WakeUp ==
    /\ pc = "asleep" /\ sleep = 0 /\ pc' = "top"
    /\ UNCHANGED <<trouble, stored, due, clock, config, base, note, mem, more, heard, reads>>

\* The supervisor starts the task anew after an exception left it.
Restart ==
    /\ pc = "down" /\ sleep = 0
    /\ Fresh /\ pc' = "top" /\ sleep' = 0
    /\ UNCHANGED <<trouble, stored, heard>>

-----------------------------------------------------------------------------
(* Resolving the sources. *)

\* Mutant: only the first collection is ever due.
Due_Once == age = -1

Due == age = -1 \/ age >= Poll

ReadState ==
    /\ pc = "top"
    /\ base' = health /\ due' = Due /\ lag' = 0 /\ more' = FALSE
    /\ IF Due \/ ids = {} THEN pc' = "telegram" /\ ids' = {}
                          ELSE pc' = "begin" /\ ids' = ids
    /\ UNCHANGED <<trouble, stored, sleep, made, known, note, mem, heard, reads>>

ReadStateFails ==
    /\ pc = "top" /\ trouble
    /\ Rest(Poll, "asleep")
    /\ UNCHANGED <<trouble, stored, due, config, base, note, mem, more, heard>>

Record(f, status, handler) ==
    /\ note' = [of |-> f, as |-> status, handler |-> handler]
    /\ heard' = IF status = "ok" THEN heard \cup {f} ELSE heard \ {f}
    /\ pc' = "record"

\* A family that is not configured has no health; its mapping is empty.
SkipFamily(f) ==
    /\ pc = f /\ f \notin Configured
    /\ pc' = NextFamily[f]
    /\ known' = known \ SourcesOf(f)
    /\ UNCHANGED <<trouble, stored, due, clock, ids, base, note, mem, more, heard, reads>>

\* Without an Xpoz reader its family is unavailable, and handled as a failure.
ResolveFamily(f) ==
    /\ pc = f /\ f \in Configured
    /\ IF f = "xpoz" => Reader
       THEN /\ ids' = ids \cup SourcesOf(f)
            /\ known' = known \cup (SourcesOf(f) \cap Mapped)
            /\ Record(f, "ok", FALSE)
       ELSE UNCHANGED config /\ Record(f, "unavailable", TRUE)
    /\ UNCHANGED <<trouble, stored, due, clock, base, mem, more, reads>>

\* The 120 seconds run out, no channel resolves, or the session was revoked
\* ("auth_key_revoked", told apart only in words): source_ids stays as it is.
ResolveTelegramFails ==
    /\ pc = "telegram" /\ "telegram" \in Configured /\ trouble
    /\ Record("telegram", "unavailable", TRUE)
    /\ UNCHANGED <<trouble, stored, due, clock, config, base, mem, more, reads>>

\* resolve_feeds raises before source_ids is extended; the mapping is emptied
\* once the failure is recorded.
ResolveFeedFails(f) ==
    /\ pc = f /\ f \in {"rss", "reddit"} \cap Configured /\ trouble
    /\ Record(f, "unavailable", TRUE)
    /\ UNCHANGED <<trouble, stored, due, clock, config, base, mem, more, reads>>

\* The accounts may have joined source_ids when the search source fails.
ResolveXpozFails(extended) ==
    /\ pc = "xpoz" /\ "xpoz" \in Configured /\ Reader /\ trouble
    /\ ids' = IF extended THEN ids \cup {"accounts"} ELSE ids
    /\ Record("xpoz", "unavailable", TRUE)
    /\ UNCHANGED <<trouble, stored, due, clock, known, base, mem, more, reads>>

\* Mutant: the handler of one family empties every mapping.
Unmapped_All(f) == {}

\* What the handler of a failed family leaves of the mappings.
Unmapped(f) == known \ SourcesOf(f)

RecordHealth ==
    /\ pc = "record"
    /\ health' = [health EXCEPT ![note.of] = note.as]
    /\ known' = IF note.handler THEN Unmapped(note.of) ELSE known
    /\ pc' = NextFamily[note.of] /\ note' = NoNote
    /\ UNCHANGED <<trouble, phase, error, blocked, age, shown, old,
                   due, clock, ids, base, mem, more, heard, reads>>

\* A write that raises inside the try is handled by recording "unavailable".
RecordFails ==
    /\ pc = "record" /\ ~note.handler /\ trouble
    /\ note' = [note EXCEPT !.as = "unavailable", !.handler = TRUE]
    /\ UNCHANGED <<trouble, stored, pc, due, clock, config, base, mem, more, heard, reads>>

\* A write that raises in the handler leaves _agenda_poll.
HandlerFails ==
    /\ pc = "record" /\ note.handler /\ trouble
    /\ Rest(Poll, "down") /\ note' = NoNote
    /\ UNCHANGED <<trouble, stored, due, config, base, mem, more, heard>>

\* Nothing resolved: the state read at the top is written back with the error,
\* and the health recorded since is lost.
NoSources ==
    /\ pc = "resolved" /\ ids = {}
    /\ \/ /\ error' = "source_unavailable" /\ phase' = "idle" /\ health' = base
       \/ /\ trouble /\ UNCHANGED <<error, phase, health>>
    /\ Rest(Poll, "asleep") /\ base' = NoHealth
    /\ UNCHANGED <<trouble, blocked, age, shown, old, due, config, note, mem, more, heard>>

SomeSources ==
    /\ pc = "resolved" /\ ids # {} /\ pc' = "begin"
    /\ UNCHANGED <<trouble, stored, due, clock, config, base, note, mem, more, heard, reads>>

-----------------------------------------------------------------------------
(* run_cycle, as far as it moves the cycle state. *)

\* set_cycle_state(state): the copy as it stands, last_collect_at included.
Write(m) ==
    /\ phase' = m.phase /\ error' = m.error /\ blocked' = m.blocked
    /\ age' = IF m.collected THEN lag ELSE age

\* Mutant: the cycle starts from the state read before the sources were resolved.
BeginHealth_Stale == base

BeginHealth == health

\* The copy run_cycle takes: the error stands until a cycle ends well.
BeginCopy == [phase |-> "collect", error |-> error, blocked |-> FALSE, collected |-> FALSE]

Begin ==
    /\ pc = "begin"
    /\ mem' = BeginCopy
    /\ Write(mem') /\ health' = BeginHealth
    /\ pc' = "collect" /\ base' = NoHealth
    /\ UNCHANGED <<trouble, shown, old, due, clock, config, note, more, heard, reads>>

BeginFails ==
    /\ pc = "begin" /\ trouble
    /\ pc' = "rest" /\ base' = NoHealth
    /\ UNCHANGED <<trouble, stored, due, clock, config, note, mem, more, heard, reads>>

\* Each source by the reader its mapping names, Telegram for the others.
Collection ==
    {<<"telegram", s>> : s \in ids \ known} \cup {<<s, s>> : s \in known \ {"accounts", "search"}}
    \cup (IF Reader /\ "search" \in known THEN {<<s, s>> : s \in known \cap {"accounts", "search"}}
                                          ELSE {})

\* The collectors keep a source's failure to themselves.
Collect ==
    /\ pc = "collect"
    /\ reads' = IF due THEN Collection ELSE reads
    /\ pc' = "ingested"
    /\ UNCHANGED <<trouble, stored, due, clock, config, base, note, mem, more, heard>>

\* Mutant: a report keeps the published_at of the first one shown.
Display_First(report, aged) ==
    /\ shown' = (shown \/ report)
    /\ old' = IF report /\ ~shown THEN aged ELSE old

\* A report goes on display, as old as it then is: its published_at is taken
\* before it is built, and is no later when an earlier report is shown again.
Display(report, aged) ==
    /\ shown' = (shown \/ report)
    /\ old' = IF report THEN aged ELSE old

Ages == 0 .. StaleAfter

\* restore_useful_snapshot puts an earlier report back; the copy learns of the
\* collection before the write that stores it.
Ingested ==
    /\ pc = "ingested"
    /\ \E restored \in {FALSE, shown}, aged \in Ages : aged >= old /\ Display(restored, aged)
    /\ mem' = [mem EXCEPT !.phase = "analyze", !.collected = due]
    /\ \/ /\ Write(mem') /\ pc' = "analyze"
       \/ /\ trouble /\ pc' = "excuse" /\ UNCHANGED <<phase, error, blocked, age>>
    /\ UNCHANGED <<trouble, health, due, clock, config, base, note, more, heard, reads>>

\* A long analysis publishes partial reports; finished_at is taken at its end.
Analyze ==
    /\ pc = "analyze"
    /\ \E partial \in BOOLEAN, aged \in Ages : Display(partial, aged)
    /\ mem' = [mem EXCEPT !.phase = "snapshot"]
    /\ Write(mem') /\ pc' = "finish"
    /\ UNCHANGED <<trouble, health, due, clock, config, base, note, more, heard, reads>>

\* remaining_backfill: a limited cycle publishes a partial report, unless the
\* one on display is more useful.  Its published_at is finished_at, taken before
\* it was built and discussed.
Finish(remaining, publish) ==
    /\ pc = "finish" /\ (publish \/ (remaining /\ shown))
    /\ Display(publish, made) /\ made' = 0
    /\ mem' = [mem EXCEPT !.phase = "idle", !.error = "none"]
    /\ Write(mem')
    /\ more' = remaining /\ pc' = "rest"
    /\ UNCHANGED <<trouble, health, due, lag, sleep, config, base, note, heard, reads>>

\* What an exception leaves in the copy: the budget is told apart.
Excuse(e) ==
    IF e = "budget" THEN [mem EXCEPT !.phase = "blocked", !.blocked = TRUE, !.error = e]
                    ELSE [mem EXCEPT !.phase = "idle", !.error = e]

CycleFails(e) ==
    /\ pc \in {"collect", "analyze", "finish"} /\ trouble
    /\ e = "budget" => pc # "collect"
    /\ mem' = Excuse(e) /\ pc' = "excuse"
    /\ \E published \in BOOLEAN, aged \in Ages :
          /\ published => pc # "collect" /\ (pc = "finish" => aged = made)
          /\ Display(published, aged)
    /\ made' = 0
    /\ UNCHANGED <<trouble, health, phase, error, blocked, age, due, lag, sleep, config, base, note, more, heard, reads>>

\* The handlers' own write; _agenda_poll catches what they raise.
WriteExcuse ==
    /\ pc = "excuse"
    /\ LET m == IF mem.phase = "analyze" THEN Excuse("failed") ELSE mem
       IN  \/ Write(m)
           \/ trouble /\ UNCHANGED <<phase, error, blocked, age>>
    /\ pc' = "rest"
    /\ UNCHANGED <<trouble, health, shown, old, due, clock, config, base, note, mem, more, heard, reads>>

-----------------------------------------------------------------------------
Remaining == IF age = -1 THEN Poll ELSE Least1(Poll - age)

GoOn ==
    /\ pc = "rest" /\ more /\ pc' = "top" /\ mem' = NoMem /\ reads' = {}
    /\ UNCHANGED <<trouble, stored, due, clock, config, base, note, more, heard>>

GoToSleep ==
    /\ pc = "rest" /\ ~more
    /\ \/ Rest(Remaining, "asleep")
       \/ trouble /\ Rest(Poll, "asleep")
    /\ mem' = NoMem
    /\ UNCHANGED <<trouble, stored, due, config, base, note, more, heard>>

\* What the task does when nothing raises.
Resolve == \E f \in Families : SkipFamily(f) \/ ResolveFamily(f)
Cycle   == Begin \/ Collect \/ Ingested \/ Analyze \/ (\E r, p \in BOOLEAN : Finish(r, p))
           \/ WriteExcuse \/ GoOn \/ GoToSleep
Task    == WakeUp \/ Restart \/ ReadState \/ Resolve \/ RecordHealth
           \/ NoSources \/ SomeSources \/ Cycle

\* What happens to it.
Failure ==
    \/ ReadStateFails \/ ResolveTelegramFails \/ RecordFails \/ HandlerFails \/ BeginFails
    \/ \E f \in {"rss", "reddit"} : ResolveFeedFails(f)
    \/ \E extended \in BOOLEAN : ResolveXpozFails(extended)
    \/ \E e \in {"failed", "budget"} : CycleFails(e)

PollNext == PollTick \/ Upset \/ Heal \/ PollCrash \/ Task \/ Failure

Fairness == WF_pollVars(PollTick) /\ WF_pollVars(Task)

PollSpec == PollInit /\ [][PollNext]_pollVars /\ Fairness

-----------------------------------------------------------------------------
(* health_payload. *)

\* is_stale.
Stale == old >= StaleAfter

Amiss == blocked \/ error # "none" \/ \E f \in Families : health[f] \notin {"none", "ok"}

Status == IF ~shown THEN "preparing" ELSE IF Amiss \/ Stale THEN "degraded" ELSE "ok"

-----------------------------------------------------------------------------
\* Every variable holds a value of its kind; a task that runs a cycle has sources.
PollTypeOK ==
    /\ trouble \in BOOLEAN /\ blocked \in BOOLEAN /\ shown \in BOOLEAN
    /\ due \in BOOLEAN /\ more \in BOOLEAN
    /\ heard \subseteq Configured
    /\ health \in [Families -> {"none", "ok", "unavailable"}]
    /\ base \in [Families -> {"none", "ok", "unavailable"}]
    /\ phase \in Phases /\ error \in Errors
    /\ age \in -1 .. Poll /\ lag \in 0 .. Poll /\ sleep \in 0 .. Poll
    /\ old \in Ages /\ made \in Ages
    /\ pc \in Places /\ ids \subseteq Sources /\ known \subseteq Mapped
    /\ pc \in InCycle \cup {"begin"} => ids # {}
    /\ note = NoNote \/ note.of \in Configured
    /\ mem \in [phase : Phases, error : Errors, blocked : BOOLEAN, collected : BOOLEAN]

\* While a cycle runs, /healthz calls a source ok only if the poll's last
\* attempt to resolve it succeeded: no outcome is lost between the resolution,
\* the writes that record it and the cycle's own writes of the whole state.
HealthIsEarned ==
    pc \in InCycle => \A f \in Configured : health[f] = "ok" => f \in heard

\* A source /healthz calls ok is collected by its own reader: after a
\* collection the mappings and source_ids agree on it, whatever failed before.
CollectedByItsReader ==
    /\ PollTypeOK
    /\ (pc \in {"ingested", "analyze", "finish"} /\ due) =>
        \A f \in Configured : health[f] = "ok" => {<<s, s>> : s \in SourcesOf(f)} \subseteq reads

\* When trouble stops for good the service heals by itself, with no restart by
\* hand: in the end there is a report and /healthz finds nothing amiss but, at
\* times, the age of the report.  That complaint goes away too, again and again,
\* if the backlog is worked off again and again and finished_at is not already
\* STALE_AFTER ago when the report comes out.
Recovers ==
    <>[]~trouble =>
        /\ <>[](Status = "ok" \/ (Status = "degraded" /\ ~Amiss))
        /\ ([]<>(pc = "rest" /\ ~more) /\ <>[](made < StaleAfter)) => []<>(Status = "ok")

\* And it keeps collecting, however long a backlog it works on without sleeping.
KeepsCollecting == <>[]~trouble => []<>(pc = "ingested" /\ due)
=============================================================================
