---------------------------- MODULE SourceRefresh ----------------------------
(***************************************************************************)
(* After a collection _refresh_displayed_posts rereads the posts of the    *)
(* published stories, a channel in each task, over one TelegramSource; a   *)
(* request that meets a dropped connection revives it and is made again    *)
(* once (_with_reconnect).                                                 *)
(*                                                                         *)
(* The posts of a channel are one text, known by a version.  The client's  *)
(* own reconnecting may bring the connection back at any time.  Nothing    *)
(* else uses the connection meanwhile: collection is over, comments and    *)
(* resolving sources come after, and they have a lock of their own.        *)
(***************************************************************************)
EXTENDS Integers, FiniteSets

CONSTANTS
    Channels, Others, \* sources with displayed posts; those of them not in Telegram
    Slots,      \* the semaphore
    MaxVersion  \* bound: edits of a text

None == "none"

\* What is assumed of the constants.
ConstantsOK == None \notin Channels /\ MaxVersion \in Nat

VARIABLES
    connected, lock, \* is_connected(); who holds _reconnect_lock
    pc,      \* [Channels -> "queued", "ensure", "await", "connect", "call", "store", "ended"]
    tries,   \* [Channels -> requests begun]
    text,    \* [Channels -> the version in Telegram]
    read,    \* [Channels -> the version the request brought]
    stored,  \* [Channels -> the version in raw_item]
    since    \* history: the version as the channel's task began, with those that gave up

vars == <<connected, lock, pc, tries, text, read, stored, since>>

GaveUp == MaxVersion + 1 \* a since that nothing is promised to reach

Init ==
    /\ connected \in BOOLEAN /\ lock = None
    /\ pc = [c \in Channels |-> "queued"] /\ tries = [c \in Channels |-> 0]
    /\ text = [c \in Channels |-> 0] /\ read = [c \in Channels |-> 0]
    /\ stored = [c \in Channels |-> 0] /\ since = [c \in Channels |-> GaveUp]

Goes(c, to) == pc' = [pc EXCEPT ![c] = to]

\* A refresh that raises is logged and counts as nothing.
GivesUp(c) == Goes(c, "ended") /\ since' = [since EXCEPT ![c] = GaveUp]

Working == {c \in Channels : pc[c] \notin {"queued", "ended"}}

Begin(c) ==
    /\ pc[c] = "queued" /\ Cardinality(Working) < Slots
    /\ IF c \in Others THEN GivesUp(c)
       ELSE Goes(c, "ensure") /\ since' = [since EXCEPT ![c] = text[c]]
    /\ UNCHANGED <<connected, lock, tries, text, read, stored>>

\* _ensure_connected: free of a lock when the connection is there.
Ensured(c) ==
    /\ pc[c] = "ensure" /\ connected /\ Goes(c, "call")
    /\ UNCHANGED <<connected, lock, tries, text, read, stored, since>>

\* The task found it gone; it has to wait for the lock whatever happens since.
Dropped(c) ==
    /\ pc[c] = "ensure" /\ ~ connected /\ Goes(c, "await")
    /\ UNCHANGED <<connected, lock, tries, text, read, stored, since>>

\* The check is made again under the lock: another task may have connected.
Rechecked == IF connected THEN "call" ELSE "connect"

Acquire(c) ==
    /\ pc[c] = "await" /\ lock = None
    /\ lock' = IF Rechecked = "call" THEN None ELSE c
    /\ Goes(c, Rechecked)
    /\ UNCHANGED <<connected, tries, text, read, stored, since>>

Connect(c) ==
    /\ pc[c] = "connect"
    /\ lock' = None
    /\ \/ connected' = TRUE /\ Goes(c, "call") /\ UNCHANGED since
       \/ connected' = FALSE /\ GivesUp(c)
    /\ UNCHANGED <<tries, text, read, stored>>

\* The request goes out, and is answered, or meets another error than a dropped connection.
Answered(c) ==
    /\ pc[c] = "call" /\ connected
    /\ tries' = [tries EXCEPT ![c] = @ + 1]
    /\ \/ read' = [read EXCEPT ![c] = text[c]] /\ Goes(c, "store") /\ UNCHANGED since
       \/ GivesUp(c) /\ UNCHANGED read
    /\ UNCHANGED <<connected, lock, text, stored>>

Again(c) == tries[c] = 0

\* ConnectionError: the first time it is made again, the second it goes up.
Fails(c) ==
    /\ pc[c] = "call"
    /\ connected' = FALSE /\ tries' = [tries EXCEPT ![c] = @ + 1]
    /\ IF Again(c) THEN Goes(c, "ensure") /\ UNCHANGED since ELSE GivesUp(c)
    /\ UNCHANGED <<lock, text, read, stored>>

\* store_items overwrites the text that is there.
Store(c) ==
    /\ pc[c] = "store" /\ stored' = [stored EXCEPT ![c] = read[c]] /\ Goes(c, "ended")
    /\ UNCHANGED <<connected, lock, tries, text, read, since>>

Drop == connected /\ connected' = FALSE /\ UNCHANGED <<lock, pc, tries, text, read, stored, since>>
Back == ~ connected /\ connected' = TRUE /\ UNCHANGED <<lock, pc, tries, text, read, stored, since>>
Edit(c) == /\ text[c] < MaxVersion /\ text' = [text EXCEPT ![c] = @ + 1]
           /\ UNCHANGED <<connected, lock, pc, tries, read, stored, since>>

RefreshNext ==
    \/ Drop \/ Back
    \/ \E c \in Channels : \/ Begin(c) \/ Ensured(c) \/ Dropped(c) \/ Acquire(c) \/ Connect(c)
                           \/ Answered(c) \/ Fails(c) \/ Store(c) \/ Edit(c)

RefreshSpec == Init /\ [][RefreshNext]_vars
-----------------------------------------------------------------------------
\* One connect() at a time, by the holder of the lock, which nobody holds on to
\* when it ends, whatever drops and however connecting fails; and no request is
\* made more than twice.
ConnectsOnce ==
    /\ Cardinality({c \in Channels : pc[c] = "connect"}) <= 1
    /\ lock # None => pc[lock] = "connect"
    /\ \A c \in Channels : tries[c] <= 2

\* A channel whose refresh did not give up has a text that is no older than its
\* task, also if the request that brought it was the second one.
RefreshIsCurrent == \A c \in Channels :
    pc[c] = "ended" /\ since[c] # GaveUp => stored[c] >= since[c]

RefreshIsSafe == ConnectsOnce /\ RefreshIsCurrent
=============================================================================
