-------------------------- MODULE CommentCollector --------------------------
(***************************************************************************)
(* The reader comments of one channel: CommentCollector.collect over       *)
(* TelegramSource.reply_counts and fetch_comments_detailed, and the rows   *)
(* SqliteCommentStore keeps.                                               *)
(*                                                                         *)
(* A run reads the reply counters of all posts, then handles the posts one *)
(* after the other; readers go on commenting, editing and deleting between *)
(* any two steps, and the process may die there.  A row's `classified`     *)
(* flag is set by a job outside the repository.                            *)
(***************************************************************************)
EXTENDS Integers, FiniteSets

CONSTANTS
    Posts,        \* the posts of the window, newest first: 1 .. n
    Comments,     \* the comments readers may write, in the order they are written
    ThreadOf,     \* [Comments -> Posts]
    Blank,        \* comments with neither text nor media
    Closed,       \* posts without a discussion
    ThreadLimit,  \* THREAD_LIMIT
    MaxEdits      \* bound on the edits of a comment

\* What is assumed of the constants.
ConstantsOK ==
    /\ IsFiniteSet(Posts) /\ Posts = 1 .. Cardinality(Posts) /\ Posts # {}
    /\ IsFiniteSet(Comments) /\ Comments \subseteq Nat
    /\ ThreadLimit \in Nat \ {0} /\ MaxEdits \in Nat
    /\ \A c \in Comments : ThreadOf[c] \in Posts \ Closed

VARIABLES
    live,     \* comments in the discussions now
    deleted,  \* comments deleted again
    text,     \* [Comments -> version of the text]
    row,      \* [Comments -> comment row]
    thread,   \* [Posts -> thread_state row]
    at,       \* the post to handle next, 0 between runs
    counter,  \* [Posts -> reply counter of this run, NoCounter for none]
    prior,    \* [Posts -> thread_state read at the start of this run]
    tally,    \* history: the comments the counters of this run counted
    seen,     \* history: [Posts -> tally when the post was last skipped or read]
    judged    \* history: [Comments -> text the classifier last saw, -1 if none]

tg    == <<live, deleted, text>>
db    == <<row, thread>>
local == <<at, counter, prior>>
vars  == <<tg, db, local, tally, seen, judged>>

NoCounter == -1
NoRow     == [text |-> -1, classified |-> FALSE]
NoThread  == [status |-> "none", counter |-> NoCounter, stored |-> 0, truncated |-> FALSE]
Failures  == {"flood_wait", "error"}
Statuses  == Failures \cup {"fetched", "empty", "unavailable"}

In(p, S) == {c \in S : ThreadOf[c] = p}

Init ==
    /\ live = {} /\ deleted = {} /\ text = [c \in Comments |-> 0]
    /\ row = [c \in Comments |-> NoRow] /\ thread = [p \in Posts |-> NoThread]
    /\ at = 0 /\ counter = [p \in Posts |-> NoCounter] /\ prior = [p \in Posts |-> NoThread]
    /\ tally = {} /\ seen = [p \in Posts |-> {}] /\ judged = [c \in Comments |-> -1]

-----------------------------------------------------------------------------
(* Readers and the classifier.                                             *)

Comment(c) ==
    /\ c \notin live \cup deleted /\ \A d \in Comments : d < c => d \in live \cup deleted
    /\ live' = live \cup {c}
    /\ UNCHANGED <<deleted, text, db, local, tally, seen, judged>>

Delete(c) ==
    /\ c \in live /\ live' = live \ {c} /\ deleted' = deleted \cup {c}
    /\ UNCHANGED <<text, db, local, tally, seen, judged>>

Edit(c) ==
    /\ c \in live \ Blank /\ text[c] < MaxEdits
    /\ text' = [text EXCEPT ![c] = @ + 1]
    /\ UNCHANGED <<live, deleted, db, local, tally, seen, judged>>

Classify(c) ==
    /\ row[c] # NoRow /\ ~row[c].classified
    /\ row' = [row EXCEPT ![c].classified = TRUE]
    /\ judged' = [judged EXCEPT ![c] = row[c].text]
    /\ UNCHANGED <<tg, thread, local, tally, seen>>

-----------------------------------------------------------------------------
(* fetch_comments_detailed.                                                *)

\* _classify_fetch, for a read that ended without an error.
Classified(blind, raw) == IF raw # {} THEN "fetched" ELSE IF blind THEN "empty" ELSE "unavailable"

\* The newest comments of the thread, at most ThreadLimit.
Page(p) == {c \in In(p, live) : Cardinality({d \in In(p, live) : d > c}) < ThreadLimit}

\* What the reader returns: everything it asked for; the newest part of it and
\* an error; or the final answer that the post has no discussion to read.
Fetches(p) ==
    {[status |-> Classified(blind, Page(p)), raw |-> Page(p),
      truncated |-> Cardinality(Page(p)) >= ThreadLimit] : blind \in BOOLEAN}
    \cup {[status |-> f, raw |-> {c \in Page(p) : c > d}, truncated |-> TRUE] :
             f \in Failures, d \in {0} \cup Page(p)}
    \cup {[status |-> "unavailable", raw |-> {}, truncated |-> TRUE]}

-----------------------------------------------------------------------------
(* save_thread: one transaction.                                           *)

\* An edited comment is classified again.
Upserted(r, c) ==
    [r EXCEPT ![c] = [text |-> text[c], classified |-> r[c].classified /\ r[c].text = text[c]]]

SaveThread(p, state, comments) ==
    /\ row' = [c \in Comments |-> IF c \in comments THEN Upserted(row, c)[c] ELSE row[c]]
    /\ thread' = [thread EXCEPT ![p] = state]

\* ThreadState.settled.
Settled(t) == t.status \in {"fetched", "empty", "unavailable"} /\ ~t.truncated

-----------------------------------------------------------------------------
(* _collect_channel.                                                       *)

Count ==
    /\ at = 0 /\ at' = 1
    /\ counter' = [p \in Posts |-> IF p \in Closed THEN NoCounter ELSE Cardinality(In(p, live))]
    /\ prior' = thread /\ tally' = live
    /\ UNCHANGED <<tg, db, seen, judged>>

\* The run of the channel is over and forgets what it read.
Over ==
    /\ at' = 0 /\ tally' = {}
    /\ counter' = [p \in Posts |-> NoCounter] /\ prior' = [p \in Posts |-> NoThread]

\* The next post, or the end of the channel.
Onwards == IF at + 1 \in Posts THEN at' = at + 1 /\ UNCHANGED <<counter, prior, tally>> ELSE Over

Handle(p) == at = p /\ UNCHANGED <<tg, judged>>

\* Nobody can comment, or nobody did: settled without a read.
Nobody(p) ==
    LET status == IF counter[p] = NoCounter THEN "unavailable" ELSE "empty" IN
    /\ Handle(p) /\ counter[p] \in {NoCounter, 0} /\ Onwards
    /\ IF prior[p].status = status THEN UNCHANGED db
       ELSE SaveThread(p, [NoThread EXCEPT !.status = status, !.counter = counter[p]], {})
    /\ UNCHANGED seen

Unchanged(p) == Settled(prior[p]) /\ prior[p].counter = counter[p]

\* The counter of the last settled scan: not read again.
Skip(p) ==
    /\ Handle(p) /\ counter[p] > 0 /\ Unchanged(p) /\ Onwards
    /\ seen' = [seen EXCEPT ![p] = In(p, tally)]
    /\ UNCHANGED db

\* Mutant: what a failed read has found is added to what was found before.
StoredCount_Sum(f, n, t) == IF f \in Failures THEN n + t.stored ELSE n

StoredCount(f, n, t) == IF f \in Failures /\ t.stored > n THEN t.stored ELSE n

\* A read, and its rows and state in one transaction.  A failure keeps the
\* counter of before; a flood wait ends the run of the channel.
Scan(p) ==
    /\ Handle(p) /\ counter[p] > 0 /\ ~Unchanged(p)
    /\ \E f \in Fetches(p) :
         LET rows == f.raw \ Blank
             done == f.status \notin Failures
         IN  /\ SaveThread(p, [status    |-> f.status,
                               counter   |-> IF done THEN counter[p] ELSE prior[p].counter,
                               stored    |-> StoredCount(f.status, Cardinality(rows), prior[p]),
                               truncated |-> f.truncated], rows)
             /\ seen' = [seen EXCEPT ![p] = In(p, tally)]
             /\ IF f.status = "flood_wait" THEN Over ELSE Onwards

\* The counters cannot be read, or the process dies.
Stop == at # 0 /\ Over /\ UNCHANGED <<tg, db, seen, judged>>

-----------------------------------------------------------------------------
Next ==
    \/ \E c \in Comments : Comment(c) \/ Delete(c) \/ Edit(c) \/ Classify(c)
    \/ Count \/ Stop
    \/ \E p \in Posts : Nobody(p) \/ Skip(p) \/ Scan(p)

Spec == Init /\ [][Next]_vars

-----------------------------------------------------------------------------
Threads == [status : Statuses \cup {"none"}, counter : -1 .. Cardinality(Comments),
            stored : 0 .. Cardinality(Comments), truncated : BOOLEAN]

TypeOK ==
    /\ live \subseteq Comments /\ deleted \subseteq Comments \ live
    /\ text \in [Comments -> 0 .. MaxEdits]
    /\ row \in [Comments -> [text : -1 .. MaxEdits, classified : BOOLEAN]]
    /\ thread \in [Posts -> Threads] /\ prior \in [Posts -> Threads]
    /\ at \in Posts \cup {0} /\ counter \in [Posts -> -1 .. Cardinality(Comments)]
    /\ tally \subseteq Comments /\ seen \in [Posts -> SUBSET Comments]
    /\ judged \in [Comments -> -1 .. MaxEdits]

Rows(p) == {c \in In(p, Comments) : row[c] # NoRow}

(* A thread whose scan is settled misses no more of the comments its       *)
(* counter counted than were deleted in it: without a deletion it misses   *)
(* none, though comments come in between the count, the read and the next  *)
(* run (pulse_ingest.py:139).                                              *)
MissedAtMostDeleted ==
    \A p \in Posts : Settled(thread[p]) /\ thread[p].status = "fetched" =>
        Cardinality(seen[p] \ (Rows(p) \cup Blank)) <= Cardinality(In(p, deleted))

(* The number of comments a thread reports as stored is never more than    *)
(* the rows it has, over failed, truncated and repeated scans              *)
(* (pulse_ingest.py:153).                                                  *)
CountIsNotInflated == \A p \in Posts : thread[p].stored <= Cardinality(Rows(p))

(* A classified comment carries the text it was classified with, whatever  *)
(* edits and scans came after (sqlite/pulse.py:74).                        *)
ClassifiedAsStored == \A c \in Comments : row[c].classified => row[c].text = judged[c]

=============================================================================
