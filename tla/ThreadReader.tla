----------------------------- MODULE ThreadReader -----------------------------
(***************************************************************************)
(* TelegramSource.fetch_comments_detailed: the comments of one post, and   *)
(* the comments they answer that the read did not bring along.             *)
(*                                                                         *)
(* Telegram delivers the thread of the post newest first.  A comment may   *)
(* answer a message of the group that is not of the thread, one of another *)
(* chat, or one that is gone; its header may leave out the thread's top.   *)
(* Any awaited call may fail or be cancelled.                              *)
(***************************************************************************)
EXTENDS Integers, Sequences, FiniteSets

CONSTANTS
    NumMessages, \* messages of the discussion group besides the root
    Textless,    \* those with neither text nor media
    Limit, ParentLimit

\* What is assumed of the constants.
ConstantsOK == NumMessages \in Nat /\ Limit \in Nat \ {0} /\ ParentLimit \in Nat

Messages == 1 .. NumMessages
Root     == 0
NoOne    == -1
Nothing  == [id |-> NoOne, foreign |-> FALSE]

VARIABLES
    to,      \* [Messages -> what it answers: id, and whether of another chat]
    top,     \* [Messages -> reply_to_top_id: "root", "other" or "none"]
    step,    \* where the read stands
    access,  \* what discovery learned: "readable", "none", "unknown"
    rooted,  \* discussion_root_id is known
    raw,     \* raw_count
    got,     \* the comments collected
    queue,   \* parents to look up, in order
    visited, \* ids known or looked up
    left,    \* what is left of ParentLimit
    pending, \* parents found, not yet shown to be of the thread
    issues,  \* parent_issues: <<id, reason>>
    broken,  \* what ended the read early, "no" while nothing has: "flood", "gone", "error" or "cancelled"
    cut      \* parent_truncated

world == <<to, top>>
found == <<raw, got>>
search == <<queue, visited, left, pending, cut>>
readerVars == <<world, step, access, rooted, found, search, issues, broken>>

\* The thread: a message whose header names its top, or which answers the post
\* or a message of the thread and names no other.
InThread[m \in Messages] ==
    \/ top[m] = "root"
    \/ /\ top[m] = "none" /\ ~to[m].foreign
       /\ to[m].id = Root \/ (to[m].id \in 1 .. m - 1 /\ InThread[to[m].id])
Thread == {m \in Messages : InThread[m]}

Target(m) == IF m = Root THEN NoOne ELSE to[m].id
Ids(S) == {i[1] : i \in S}
InOrder(S) == [i \in 1 .. Cardinality(S) |-> CHOOSE x \in S : Cardinality({y \in S : y < x}) = i - 1]

-----------------------------------------------------------------------------
ReaderInit ==
    /\ to \in {f \in [Messages -> [id : NoOne .. NumMessages, foreign : BOOLEAN]] :
                 \A m \in Messages : f[m].id < m /\ (f[m].foreign => f[m].id = 1)}
    /\ top \in [Messages -> {"root", "other", "none"}]
    /\ step = "discover" /\ access = "unknown" /\ rooted = FALSE
    /\ raw = 0 /\ got = {} /\ queue = <<>> /\ visited = {} /\ left = ParentLimit
    /\ pending = {} /\ issues = {} /\ broken = "no" /\ cut = FALSE

\* GetDiscussionMessage: only a linked group gives a root, and not always.
Discover(a, r) ==
    /\ step = "discover" /\ (r => a = "readable")
    /\ access' = a /\ rooted' = r /\ step' = "read"
    /\ UNCHANGED <<world, found, search, issues, broken>>

\* The newest n messages of the thread.
Newest(n) == {m \in Thread : Cardinality({k \in Thread : k > m}) < n}

\* Textless messages count as read but are dropped.
Kept(S) == S \ Textless

RootId == IF rooted THEN {Root} ELSE {}

\* The comments' parents not among them; those of another chat cannot be looked up.
Wanted == {Target(c) : c \in {d \in got' : Target(d) # NoOne}} \ (got' \cup RootId)

Read ==
    /\ step = "read"
    /\ raw' = Cardinality(Newest(Limit)) /\ got' = Kept(Newest(Limit))
    /\ IF ParentLimit > 0
       THEN queue' = InOrder(Wanted) /\ visited' = got' \cup RootId /\ step' = "parents"
       ELSE UNCHANGED <<queue, visited>> /\ step' = "resolve"
    /\ UNCHANGED <<world, access, rooted, left, pending, cut, issues, broken>>

\* The iteration raises after n messages, or discovery did before the first.
ReadBreaks(n, how) ==
    /\ step \in {"discover", "read"} /\ n <= Cardinality(Newest(Limit))
    /\ n > 0 => step = "read"
    /\ raw' = n /\ got' = Kept(Newest(n))
    /\ broken' = how /\ step' = "resolve"
    /\ UNCHANGED <<world, access, rooted, search, issues>>

-----------------------------------------------------------------------------
(* Looking up parents. *)

Foreign == {Target(c) : c \in {d \in got : to[d].foreign}}

\* Whether a message may wait for proof that it is of the thread.  The root,
\* when discovery did not name it, answers nothing.
Plausible(m) == m # Root => (~(rooted /\ top[m] = "other") /\ ~to[m].foreign)

Noted(reason) == issues' = issues \cup {<<Head(queue), reason>>}

\* Without a request: seen already, not to be resolved, or out of budget.
PassParent ==
    /\ step = "parents" /\ queue # <<>>
    /\ \/ Head(queue) \in visited /\ UNCHANGED <<visited, issues, cut>>
       \/ /\ Head(queue) \notin visited /\ visited' = visited \cup {Head(queue)}
          /\ \/ (Head(queue) \in Foreign \/ access # "readable") /\ Noted("unverified") /\ cut' = cut
             \/ /\ ~(Head(queue) \in Foreign \/ access # "readable") /\ left = 0
                /\ Noted("budget") /\ cut' = TRUE
    /\ queue' = Tail(queue)
    /\ UNCHANGED <<world, step, access, rooted, found, left, pending, broken>>

Askable == /\ step = "parents" /\ queue # <<>> /\ Head(queue) \notin visited \cup Foreign
           /\ access = "readable" /\ left > 0

\* get_messages answers: the message is gone, implausible, or waits for proof.
AskParent ==
    /\ Askable
    /\ LET pid == Head(queue) IN
         /\ visited' = visited \cup {pid} /\ left' = left - 1
         /\ \/ /\ Noted("not_returned") /\ queue' = Tail(queue) /\ pending' = pending
            \/ /\ ~Plausible(pid)
               /\ Noted("unverified") /\ queue' = Tail(queue) /\ pending' = pending
            \/ /\ Plausible(pid)
               /\ pending' = pending \cup {pid} /\ UNCHANGED issues
               /\ queue' = IF Target(pid) \notin visited' \cup {NoOne}
                           THEN Append(Tail(queue), Target(pid)) ELSE Tail(queue)
    /\ UNCHANGED <<world, step, access, rooted, found, cut, broken>>

\* One parent that cannot be read does not end the search; a flood wait and a
\* cancellation do, and only the first is noted.
AskFails(how) ==
    /\ Askable
    /\ visited' = visited \cup {Head(queue)} /\ left' = left - 1
    /\ IF how = "cancelled" THEN UNCHANGED issues ELSE Noted("fetch_error")
    /\ IF how = "error" THEN queue' = Tail(queue) /\ UNCHANGED <<broken, step>>
                        ELSE broken' = how /\ step' = "resolve" /\ UNCHANGED queue
    /\ UNCHANGED <<world, access, rooted, found, pending, cut>>

AskedAll ==
    /\ step = "parents" /\ queue = <<>> /\ step' = "resolve"
    /\ UNCHANGED <<world, access, rooted, found, search, issues, broken>>

-----------------------------------------------------------------------------
(* Resolving what was found. *)

\* _parent_belongs_to_thread.
Belongs(m, known) ==
    /\ m # Root
    /\ IF rooted /\ top[m] # "none" THEN top[m] = "root"
       ELSE (rooted /\ Target(m) = Root) \/ Target(m) \in known

\* From the proven members outwards: the least set closed under Belongs.
Closed(S) == \A m \in pending : Belongs(m, got \cup S) => m \in S
Proven    == {m \in pending : \A S \in SUBSET pending : Closed(S) => m \in S}

\* An interrupted read notes every answered message it does not have.
Unanswered == {Target(c) : c \in got \cup Proven} \ (got \cup Proven \cup RootId \cup {NoOne})

Resolve ==
    /\ step = "resolve" /\ step' = "done"
    /\ got' = got \cup Proven /\ pending' = {}
    /\ issues' = issues \cup {<<m, "nontext">> : m \in Proven \cap Textless}
                        \cup {<<m, "unverified">> : m \in pending \ Proven}
                        \cup (IF broken = "no" THEN {}
                              ELSE {<<m, "fetch_error">> : m \in Unanswered \ Ids(issues)})
    /\ UNCHANGED <<world, access, rooted, raw, queue, visited, left, cut, broken>>

Errors == {"flood", "gone", "error", "cancelled"}

ReaderNext ==
    \/ \E a \in {"readable", "none", "unknown"}, r \in BOOLEAN : Discover(a, r)
    \/ Read \/ \E n \in 0 .. Limit, how \in Errors : ReadBreaks(n, how)
    \/ PassParent \/ AskParent \/ \E how \in {"flood", "error", "cancelled"} : AskFails(how)
    \/ AskedAll \/ Resolve

ReaderSpec == ReaderInit /\ [][ReaderNext]_readerVars

-----------------------------------------------------------------------------
(* The CommentFetch that is returned. *)

\* _classify_fetch.
Status == IF broken = "cancelled" THEN "error" ELSE
          IF broken = "flood" THEN "flood_wait" ELSE
          IF broken = "gone" THEN "unavailable" ELSE
          IF broken = "error" THEN "error" ELSE
          IF raw > 0 THEN "fetched" ELSE IF access = "none" THEN "unavailable" ELSE "empty"

Missing == Ids({i \in issues : i[2] # "nontext"})

Truncated == broken # "no" \/ cut \/ (raw >= Limit /\ Limit > 0)

-----------------------------------------------------------------------------
\* Once discovery has named the post's root, no message of another discussion
\* gets into the thread, by whatever chain of answers it was found.  (Without
\* the root, the answer of a member is taken for one.)
OnlyItsThread == (step = "done" /\ rooted) => got \subseteq Thread

\* A comment's context is there or reported missing: what it answers is among
\* the comments, the post itself, or in missing_parent_ids.
ContextAccounted ==
    (step = "done" /\ (ParentLimit > 0 \/ broken # "no")) =>
        \A c \in got : Target(c) \in got \cup RootId \cup Missing \cup {NoOne}

\* Only a whole read passes for one: a thread reported fetched or empty and not
\* truncated has every comment of the thread.
WholeIsWhole ==
    (step = "done" /\ Status \in {"fetched", "empty"} /\ ~Truncated) => Thread \ Textless \subseteq got
=============================================================================
