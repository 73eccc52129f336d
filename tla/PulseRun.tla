------------------------------ MODULE PulseRun ------------------------------
(***************************************************************************)
(* A run of the news pulse around its model calls: build reads the window  *)
(* and the one before it from the database a collector goes on writing,    *)
(* compares them, and write_run leaves four files one after another, which *)
(* the HTTP service reads (news_pulse) and the grounding checks.           *)
(*                                                                         *)
(* Time is in ticks, Day of them to a day.  Rows are never deleted and     *)
(* keep their time.  Builds of one window follow each other; one may die   *)
(* in any step.  What the model makes of the rows is PulseEvents and       *)
(* PulseBrief.                                                             *)
(***************************************************************************)
EXTENDS Integers, FiniteSets, Sequences

CONSTANTS
    Day, Channels,
    Windows,   \* what may be asked for: [dates, lo, hi]
    Times,     \* of rows
    MaxBuilds, MaxRows \* bounds

NoTime == -1000 \* a row without a readable time

Files == <<"decisions", "pulse", "brief", "manifest">>

VARIABLES
    asked,  \* the window, as it was asked for
    rows,   \* [channel, at, comment]: rows of raw_item and comment
    pc, builds, \* "idle", "previous", "write", "filling"; builds begun
    begun,  \* the rows that were there as the build began
    current, previous, \* Snapshot: [rows, dropped]
    changes,  \* [added, removed]: channels of source_coverage
    next,   \* the file to be written
    files   \* [file -> [build, whole]], build 0: there is none

vars == <<asked, rows, pc, builds, begun, current, previous, changes, next, files>>

\* parse_window: a last day belongs to the window, a last moment does not.
Parsed(w) == IF w.dates THEN [start |-> Day * w.lo, end |-> Day * (w.hi + 1)]
             ELSE [start |-> w.lo, end |-> w.hi]
Refused(w) == w.lo > w.hi

\* previous_window and the parse of the window it names: as long, and up to this one.
PreviousWindow(w) ==
    LET win == Parsed(w) IN [start |-> win.start - (win.end - win.start), end |-> win.start]

Within(r, win) == win.start <= r.at /\ r.at < win.end

\* load_snapshot, with the end of the window for a cutoff as build asks it.
Load(win) ==
    [rows |-> {r \in rows : r.at # NoTime /\ Within(r, win)},
     dropped |-> Cardinality({r \in rows : r.at # NoTime /\ r.at >= win.end})]

\* What is assumed of the constants: NoTime stands for no time a window reaches.
ConstantsOK ==
    /\ Day \in Nat \ {0} /\ Times \subseteq Int
    /\ Windows \subseteq [dates : BOOLEAN, lo : Int, hi : Int]
    /\ \A w \in Windows : NoTime < PreviousWindow(w).start

ChannelsOf(snap) == {r.channel : r \in {q \in snap.rows : ~ q.comment}}

NoSnap == [rows |-> {}, dropped |-> 0]
NoChanges == [added |-> {}, removed |-> {}]

Init ==
    /\ asked \in {w \in Windows : ~ Refused(w)}
    /\ rows = {} /\ pc = "idle" /\ builds = 0 /\ begun = {}
    /\ current = NoSnap /\ previous = NoSnap /\ changes = NoChanges /\ next = 1
    /\ files = [f \in 1 .. Len(Files) |-> [build |-> 0, whole |-> TRUE]]

\* A collector stores a post or a comment, of whatever time.
Collect(r) ==
    /\ r \notin rows /\ Cardinality(rows) < MaxRows
    /\ rows' = rows \cup {r} /\ UNCHANGED <<asked, pc, builds, begun, current, previous, changes, next, files>>

Begin ==
    /\ pc = "idle" /\ builds < MaxBuilds
    /\ builds' = builds + 1 /\ pc' = "previous" /\ begun' = rows
    /\ current' = Load(Parsed(asked)) /\ previous' = NoSnap /\ changes' = NoChanges
    /\ UNCHANGED <<asked, rows, next, files>>

\* Only when the model is done with the window is the one before it read.
Compare ==
    /\ pc = "previous" /\ pc' = "write" /\ next' = 1
    /\ previous' = Load(PreviousWindow(asked))
    /\ changes' = [added |-> ChannelsOf(current) \ ChannelsOf(previous'),
                   removed |-> ChannelsOf(previous') \ ChannelsOf(current)]
    /\ UNCHANGED <<asked, rows, builds, begun, current, files>>

Written(n) == n

\* write_text empties the file, and then fills it.
Open ==
    /\ pc = "write" /\ pc' = "filling"
    /\ files' = [files EXCEPT ![Written(next)] = [build |-> builds, whole |-> FALSE]]
    /\ UNCHANGED <<asked, rows, builds, begun, current, previous, changes, next>>

Fill ==
    /\ pc = "filling"
    /\ files' = [files EXCEPT ![Written(next)].whole = TRUE]
    /\ IF next = Len(Files) THEN pc' = "idle" /\ UNCHANGED next
                            ELSE pc' = "write" /\ next' = next + 1
    /\ UNCHANGED <<asked, rows, builds, begun, current, previous, changes>>

Die ==
    /\ pc # "idle" /\ pc' = "idle"
    /\ UNCHANGED <<asked, rows, builds, begun, current, previous, changes, next, files>>

\* news_pulse: the saved file, however old, and without one a build from the
\* cache alone; a file that cannot be read is reported as a bad window.
Served == IF files[2].build = 0 THEN "cache"
          ELSE IF files[2].whole THEN files[2].build ELSE "refused"

\* check_run: the brief is the one the payload renders to.
Rendered == files[2].whole /\ files[3] = files[2]

Next ==
    \/ \E c \in Channels, t \in Times \cup {NoTime}, k \in BOOLEAN :
           Collect([channel |-> c, at |-> t, comment |-> k])
    \/ Begin \/ Compare \/ Open \/ Fill \/ Die

Spec == Init /\ [][Next]_vars
-----------------------------------------------------------------------------
Both(r) == LET win == Parsed(asked)
           IN  PreviousWindow(asked).start <= r.at /\ r.at < win.end

\* A row is in one of the two windows at most, and one that was there when the
\* build began is in one of them if its time is in either, although the windows
\* are read at different times from a database that is written meanwhile.
CountedOnce == pc \in {"write", "filling"} =>
    /\ current.rows \cap previous.rows = {}
    /\ \A r \in begun : Both(r) => r \in current.rows \cup previous.rows

\* A channel said to be new had no post in the window before, as far as the
\* database tells when the comparison is made.
AddedIsNew == pc \in {"write", "filling"} => \A c \in changes.added :
    /\ \E r \in begun : r.channel = c /\ ~ r.comment
    /\ ~ \E r \in begun : r.channel = c /\ ~ r.comment /\ Within(r, PreviousWindow(asked))

\* A manifest that is not older than the other files stands for four whole files
\* of one build, wherever earlier builds died: the service serves it and the
\* grounding finds its brief.
ManifestIsLast ==
    LET m == files[Len(Files)]
    IN  (m.whole /\ m.build # 0 /\ \A n \in DOMAIN files : files[n].build <= m.build)
            => (\A n \in DOMAIN files : files[n] = m) /\ Rendered /\ Served = m.build

RunIsConsistent == CountedOnce /\ AddedIsNew /\ ManifestIsLast
=============================================================================
