--------------------------- MODULE SnapshotStore ---------------------------
(***************************************************************************)
(* Which report the service shows.  run_cycle builds partial and full      *)
(* snapshots and publishes them; SqliteAgendaStore keeps the rows, the     *)
(* published flag and a cache; a client polls with the id it saw last as   *)
(* since_snapshot_id.                                                      *)
(*                                                                         *)
(* One task publishes, requests run between its awaits.  A snapshot is     *)
(* known by its time t, by what its id adds (full or partial, the rank of  *)
(* its count, the time it was built) and by the size of its agenda; a      *)
(* partial one carries the limitation "processing_in_progress".            *)
(*                                                                         *)
(* The clock moves with every build: no two snapshots are built in the     *)
(* same microsecond, which is what the suffix of an id records.            *)
(***************************************************************************)
EXTENDS Integers, FiniteSets

CONSTANTS
    Retention,  \* SNAPSHOT_RETENTION
    Ranks,      \* places of "p<count>" in the order of ids
    MaxSize,    \* bound on the size of an agenda
    MaxTime     \* bound on the clock

\* What is assumed of the constants.
ConstantsOK ==
    /\ Retention \in Nat \ {0} /\ {MaxSize, MaxTime} \subseteq Nat
    /\ Ranks \subseteq Nat /\ Ranks # {}

NoSnapshot == [t |-> -1, full |-> FALSE, rank |-> 0, built |-> -1, size |-> 0]
Snapshots  == [t : 0 .. MaxTime, full : BOOLEAN, rank : Ranks, built : 0 .. MaxTime,
               size : 0 .. MaxSize]

VARIABLES
    now,        \* the clock
    rows,       \* agenda_snapshot
    published,  \* the rows whose published flag is set
    cache,      \* _published_cache, NoSnapshot for None
    lastCollect,\* last_collect_at, -1 for None
    pc,         \* where run_cycle stands
    asOf,       \* its as_of
    snap,       \* the snapshot it is about to publish
    then,       \* where it goes on after publishing
    request,    \* where the client's request stands
    target,     \* the snapshot it resolved
    cursor,     \* id of the last report the client processed (NoSnapshot's: none)
    answer,     \* what the last request was answered
    issued,     \* history: every snapshot ever published
    during      \* history: what was published at some moment of the request

store  == <<rows, published, cache>>
cycle  == <<lastCollect, pc, asOf, snap, then>>
client == <<request, target, cursor, answer>>
vars   == <<now, store, cycle, client, issued, during>>

-----------------------------------------------------------------------------
\* snapshot_id: its time, "-r" or "-p<count>", and the time of building.
Id(s) == <<s.t, s.full, s.rank, s.built>>

\* Ids compare as strings: "-p" before "-r", counts by their digits.
IdBefore(r, s) ==
    \/ r.t < s.t
    \/ r.t = s.t /\ ~ r.full /\ s.full
    \/ r.t = s.t /\ r.full = s.full /\ r.rank < s.rank
    \/ r.t = s.t /\ r.full = s.full /\ r.rank = s.rank /\ r.built < s.built

Current == IF published = {} THEN NoSnapshot ELSE CHOOSE r \in published : TRUE

\* Mutant: an empty partial report replaces any other.
Publishable_Empty(partial, previous) ==
    \/ previous = NoSnapshot \/ previous.size = 0
    \/ partial.t > previous.t
    \/ partial.t = previous.t /\ partial.built > previous.built
    \/ partial.size >= previous.size

\* _partial_is_publishable.
Publishable(partial, previous) ==
    \/ previous = NoSnapshot \/ previous.size = 0
    \/ /\ partial.size > 0
       /\ \/ partial.t > previous.t
          \/ partial.t = previous.t /\ partial.built > previous.built
          \/ partial.size >= previous.size

\* latest_nonempty_snapshot.
Nonempty == {r \in rows : r.size > 0}
LatestNonempty == CHOOSE r \in Nonempty : \A s \in Nonempty \ {r} : IdBefore(s, r)

-----------------------------------------------------------------------------
Init ==
    /\ now = 0 /\ rows = {} /\ published = {} /\ cache = NoSnapshot
    /\ lastCollect = -1 /\ pc = "sleep" /\ asOf = 0 /\ snap = NoSnapshot /\ then = "sleep"
    /\ request = "none" /\ target = NoSnapshot /\ cursor = NoSnapshot /\ answer = "none"
    /\ issued = {} /\ during = {}

Tick == /\ now < MaxTime /\ now' = now + 1
        /\ UNCHANGED <<store, cycle, client, issued, during>>

-----------------------------------------------------------------------------
(* The cycle.                                                              *)

\* The locals of run_cycle are gone when it returns.
GoTo(p) == /\ pc' = p
           /\ IF p = "sleep" THEN asOf' = 0 /\ snap' = NoSnapshot /\ then' = "sleep"
                             ELSE UNCHANGED <<asOf, snap, then>>

StartCycle(ing) ==
    /\ pc = "sleep"
    /\ ing \/ lastCollect >= 0
    /\ asOf' = IF ing THEN now ELSE lastCollect
    /\ pc' = IF ing THEN "collect" ELSE "restore"
    /\ UNCHANGED <<now, store, lastCollect, snap, then, client, issued, during>>

EndCollect ==
    /\ pc = "collect" /\ pc' = "restore"
    /\ UNCHANGED <<now, store, lastCollect, asOf, snap, then, client, issued, during>>

\* An empty report left over from a backfill gives way to a useful one.
NeedsRestore(latest) ==
    latest # NoSnapshot /\ latest.size = 0 /\ ~ latest.full /\ Nonempty # {}

\* restore_useful_snapshot: its reads (the publishing is the next action).
Restore ==
    /\ pc = "restore"
    /\ cache' = Current
    /\ IF NeedsRestore(Current)
       THEN snap' = LatestNonempty /\ then' = "restored" /\ pc' = "publish"
       ELSE pc' = "restored" /\ UNCHANGED <<snap, then>>
    /\ UNCHANGED <<now, rows, published, lastCollect, asOf, client, issued, during>>

\* last_collect_at is stored after a cycle that ingested (its as_of is now).
Restored ==
    /\ pc = "restored"
    /\ lastCollect' = asOf /\ pc' = "work"
    /\ UNCHANGED <<now, store, asOf, snap, then, client, issued, during>>

\* build_snapshot, between batches or at the end.
Build(full, rank, size, next) ==
    /\ pc = "work" /\ now < MaxTime
    /\ now' = now + 1
    /\ snap' = [t |-> asOf, full |-> full, rank |-> rank, built |-> now, size |-> size]
    /\ then' = next /\ pc' = IF full THEN "publish" ELSE "judge"
    /\ full => next = "sleep"
    /\ UNCHANGED <<store, lastCollect, asOf, client, issued, during>>

\* A partial report is published only if it does not hide a more useful one.
Judge ==
    /\ pc = "judge"
    /\ cache' = Current
    /\ GoTo(IF Publishable(snap, Current) THEN "publish" ELSE then)
    /\ UNCHANGED <<now, rows, published, lastCollect, client, issued, during>>

\* A row with the same id and another payload.
Refused == \E r \in rows : Id(r) = Id(snap) /\ r # snap

\* Mutant: retention counted from the clock of the oldest row, off by one.
Survives_OffByOne(r, s) == r.t > s.t - Retention

Survives(r, s) == r.t >= s.t - Retention

\* publish_snapshot: one transaction, then the cache.
Publish ==
    /\ pc = "publish" /\ ~ Refused
    /\ published' = {snap}
    /\ rows' = {r \in rows \cup {snap} : r = snap \/ Survives(r, snap)}
    /\ pc' = "cache"
    /\ issued' = issued \cup {snap}
    /\ during' = IF request = "none" THEN {} ELSE during \cup {snap}
    /\ UNCHANGED <<now, cache, lastCollect, asOf, snap, then, client>>

SetCache ==
    /\ pc = "cache" /\ cache' = snap /\ GoTo(then)
    /\ UNCHANGED <<now, rows, published, lastCollect, client, issued, during>>

\* An exception, a refused publication, an exhausted budget.
Fail ==
    /\ pc # "sleep" /\ GoTo("sleep")
    /\ UNCHANGED <<now, store, lastCollect, client, issued, during>>

\* The process dies: the cache and the request under way go with it.
Restart ==
    /\ GoTo("sleep") /\ cache' = NoSnapshot
    /\ request' = "none" /\ target' = NoSnapshot /\ during' = {} /\ answer' = "none"
    /\ UNCHANGED <<now, rows, published, lastCollect, cursor, issued>>

-----------------------------------------------------------------------------
(* A request for the agenda, with the client's cursor as the baseline.      *)

Reply(a) == request' = "none" /\ answer' = a /\ target' = NoSnapshot /\ during' = {}

\* get_snapshot(None), first query: the published id, compared with the cache.
ReadPublished ==
    /\ request = "none"
    /\ IF published = {} THEN Reply("preparing") /\ cache' = NoSnapshot
       ELSE /\ IF Id(cache) = Id(Current) THEN request' = "baseline" /\ target' = cache
                                         ELSE request' = "load" /\ target' = Current
            /\ during' = published
            /\ answer' = "none" /\ UNCHANGED cache
    /\ UNCHANGED <<now, rows, published, cycle, cursor, issued>>

\* Second query: the row of that id, which may be gone by now.
LoadRow ==
    /\ request = "load"
    /\ request' = IF target \in rows THEN "loaded" ELSE "missing"
    /\ UNCHANGED <<now, store, cycle, target, cursor, answer, issued, during>>

Loaded ==
    /\ request \in {"loaded", "missing"}
    /\ \/ /\ request = "loaded"
          /\ cache' = target /\ request' = "baseline" /\ UNCHANGED <<target, answer, during>>
       \/ /\ request = "missing"
          /\ cache' = NoSnapshot /\ Reply("preparing")
    /\ UNCHANGED <<now, rows, published, cycle, cursor, issued>>

\* get_snapshot(cursor) and compare_snapshots; the client then keeps the new id.
Baseline ==
    /\ request = "baseline"
    /\ LET known == {r \in rows \cup {cache} : Id(r) = Id(cursor)}
       IN  IF cursor = NoSnapshot THEN Reply("full") /\ cursor' = target
           ELSE IF known = {} /\ Id(cursor) # Id(target)
           THEN Reply("baseline_unavailable") /\ cursor' = target
           ELSE IF cursor.built > target.built
           THEN Reply("rejected") /\ UNCHANGED cursor
           ELSE Reply("delta") /\ cursor' = target
    /\ UNCHANGED <<now, store, cycle, issued>>

-----------------------------------------------------------------------------
CycleStep ==
    \/ \E ing \in BOOLEAN : StartCycle(ing)
    \/ EndCollect \/ Restore \/ Restored
    \/ \E full \in BOOLEAN, rank \in Ranks, size \in 0 .. MaxSize, next \in {"work", "sleep"} :
            Build(full, rank, size, next)
    \/ Judge \/ Publish \/ SetCache \/ Fail

ClientStep == ReadPublished \/ LoadRow \/ Loaded \/ Baseline

Next == Tick \/ CycleStep \/ ClientStep \/ Restart
Spec == Init /\ [][Next]_vars

-----------------------------------------------------------------------------
(* Properties.                                                             *)

\* Types.  At most one row is published, and it is one of the rows.
TypeOK ==
    /\ now \in 0 .. MaxTime
    /\ rows \subseteq Snapshots /\ issued \subseteq Snapshots
    /\ published \subseteq rows /\ \A r, s \in published : r = s
    /\ during \subseteq issued
    /\ \A s \in {cache, snap, target, cursor} : s \in Snapshots \cup {NoSnapshot}
    /\ lastCollect \in -1 .. MaxTime /\ asOf \in 0 .. MaxTime
    /\ pc \in {"sleep", "collect", "restore", "restored", "work", "judge", "publish", "cache"}
    /\ then \in {"sleep", "work", "restored"}
    /\ request \in {"none", "load", "loaded", "missing", "baseline"}
    /\ answer \in {"none", "preparing", "full", "baseline_unavailable", "rejected", "delta"}

\* Each id names one report, also when the analysis is repeated without a new
\* collection: no publication meets a row with its id and another content,
\* which the store would refuse.
NeverRefused == pc = "publish" => ~ Refused

\* A report can be fetched by its id for the whole retention: every report ever
\* published whose time is within it, seen from the newest one, still has its row.
KeptForRetention ==
    \A s \in issued : (\A r \in issued : s.t >= r.t - Retention) => s \in rows

\* No step leaves a published report without another, and one that shows
\* stories gives way to an empty one only if that is a full analysis.
NotHiddenByBackfill ==
    \A r \in published : published' # {} /\
        \A s \in published' : s # r /\ s.size = 0 => r.size = 0 \/ s.full

\* Analysis goes on only behind a useful report: after the restore step, the
\* published report of a backfill is empty only if no other is retained.
UsefulReportRestored ==
    pc = "restored" => ~ (published # {} /\ Current.size = 0 /\ ~ Current.full /\ Nonempty # {})

\* The target of a request is a report that was the published one at some
\* moment of that request: the cache never serves an older one.
TargetWasPublished == request = "baseline" => target \in during

\* An agent that sends back the id it was given is refused only when an older
\* report was restored over an empty partial one, at least as new as the agent's.
EmptyPartial(s) == s.size = 0 /\ ~ s.full
OnlyRestoredIsRejected ==
    answer = "rejected" => \E e \in issued : EmptyPartial(e) /\ e.built >= cursor.built
=============================================================================
