----------------------------- MODULE XpozSource -----------------------------
(***************************************************************************)
(* Posts and replies of X through Xpoz: the crypto search, the scan of the *)
(* followed accounts and the reply threads of published cards, all on paid *)
(* calls with a reserve of credits.                                        *)
(*                                                                         *)
(* One task makes the calls, one after another.  Others spend and buy      *)
(* credits of the same key.  A post is indexed some time after its date.   *)
(* A call may fail, charged or not; the process may die between any two    *)
(* steps.  A call costs one credit here.                                   *)
(***************************************************************************)
EXTENDS Integers, FiniteSets

CONSTANTS
    Posts,       \* posts of X
    Followed,    \* those by a followed account
    Old,         \* those indexed before the service starts
    Reserve,     \* RESERVE_CREDITS
    SearchGap,   \* SEARCH_INTERVAL
    ScanGap,     \* ACCOUNT_INTERVAL
    SearchBack, ScanBack, \* how far before the watermark they read again
    Fresh,       \* FRESH_POST_WINDOW
    Hour, PerHour, Threads, \* MAX_THREADS_PER_HOUR, MAX_FETCHED_THREADS
    MaxTime, MaxCredits

\* What is assumed of the constants.
ConstantsOK ==
    /\ Followed \subseteq Posts /\ Old \subseteq Posts /\ Posts \cap {"search", "scan", "none"} = {}
    /\ {Reserve, SearchGap, ScanGap, SearchBack, ScanBack, Fresh, Hour, PerHour, Threads,
        MaxTime, MaxCredits} \subseteq Nat

Never == -1

VARIABLES
    time,    \* the clock
    dated,   \* [Posts -> date of the post, Never before]
    indexed, \* [Posts -> when Xpoz indexed it]
    credits, \* of the account
    balance, \* XpozReader._remaining, Never for None
    doing,   \* the call under way: "search", "scan", a post (its thread) or "none"
    place,   \* where it stands
    until,   \* end of the window it reads
    found,   \* posts it returned
    kept,    \* raw_item: <<post, source>>
    marks,   \* watermarks of "search" and "scan"
    thread,  \* xpoz_thread: [Posts -> fetched_at, Never for no fetched row]
    since,   \* history: credits others spent since the balance check of the call under way
    calls,   \* history: <<post, time of the attempt>> of thread calls
    again,   \* history: a thread was called for a second time
    cut,     \* history: posts the limit of a search left out
    served   \* history: posts, no older than Fresh, that completed searches returned

xpozDb   == <<kept, marks, thread>>
xpozCall == <<balance, doing, place, until, found>>
xpozHist == <<since, calls, again, cut, served>>
xpozVars == <<time, dated, indexed, credits, xpozDb, xpozCall, xpozHist>>

Reads == {"search", "scan"}
Later(a, b)   == IF a > b THEN a ELSE b
Earlier(a, b) == IF a < b THEN a ELSE b

XpozInit ==
    /\ time = 0 /\ credits \in 0 .. MaxCredits
    /\ dated = [p \in Posts |-> IF p \in Old THEN 0 ELSE Never] /\ indexed = dated
    /\ thread = [p \in Posts |-> Never]
    /\ balance = Never /\ doing = "none" /\ place = "idle" /\ until = Never /\ found = {}
    /\ kept = {} /\ marks = [r \in Reads |-> Never]
    /\ since = 0 /\ calls = {} /\ again = FALSE /\ cut = {} /\ served = {}

-----------------------------------------------------------------------------
(* The world. *)

XpozTick == /\ time < MaxTime /\ time' = time + 1
            /\ UNCHANGED <<dated, indexed, credits, xpozDb, xpozCall, xpozHist>>

Post(p) == /\ dated[p] = Never /\ dated' = [dated EXCEPT ![p] = time]
           /\ UNCHANGED <<time, indexed, credits, xpozDb, xpozCall, xpozHist>>

Index(p) == /\ dated[p] # Never /\ indexed[p] = Never
            /\ indexed' = [indexed EXCEPT ![p] = time]
            /\ UNCHANGED <<time, dated, credits, xpozDb, xpozCall, xpozHist>>

OthersSpend == /\ credits > 0 /\ since < MaxCredits /\ credits' = credits - 1
               /\ since' = IF place = "call" THEN since + 1 ELSE 0
               /\ UNCHANGED <<time, dated, indexed, xpozDb, xpozCall, calls, again, cut, served>>

Refill == /\ credits < MaxCredits /\ credits' = MaxCredits
          /\ UNCHANGED <<time, dated, indexed, xpozDb, xpozCall, xpozHist>>

-----------------------------------------------------------------------------
(* What is read, and when. *)

Gap(r)  == IF r = "search" THEN SearchGap ELSE ScanGap
Back(r) == IF r = "search" THEN SearchBack ELSE ScanBack

BeginRead(r) ==
    /\ place = "idle" /\ (marks[r] # Never => time - marks[r] >= Gap(r))
    /\ doing' = r /\ place' = "check" /\ until' = time
    /\ UNCHANGED <<time, dated, indexed, credits, xpozDb, balance, found, xpozHist>>

\* query_start: late posts of the stretch before the watermark are read again.
QueryStart(r) == IF marks[r] = Never THEN until - Fresh
                 ELSE Later(until - Fresh, marks[r] - Back(r))

\* A followed author's post belongs to the account's source, whoever finds it.
SourceOf(r, p) == IF p \in Followed THEN "scan" ELSE "search"

\* fetch_comments: once only, within both caps.
Recent == {p \in Posts : thread[p] # Never /\ thread[p] >= time - Hour}

BeginThread(p) ==
    /\ place = "idle" /\ (\E r \in Reads : <<p, r>> \in kept) /\ thread[p] = Never
    /\ Cardinality({q \in Posts : thread[q] # Never}) < Threads
    /\ Cardinality(Recent) < PerHour
    /\ doing' = p /\ place' = "attempt"
    /\ UNCHANGED <<time, dated, indexed, credits, xpozDb, balance, until, found, xpozHist>>

\* Mutant: nothing is recorded before the paid call.
Attempted_Later(p) == thread

Attempted(p) == [thread EXCEPT ![p] = time]

\* The attempt is recorded before the call is paid for.
SaveAttempt ==
    /\ place = "attempt" /\ thread' = Attempted(doing) /\ place' = "check"
    /\ UNCHANGED <<time, dated, indexed, credits, kept, marks, balance, doing, until, found, xpozHist>>

-----------------------------------------------------------------------------
(* XpozReader. *)

Over == /\ doing' = "none" /\ place' = "idle" /\ until' = Never /\ found' = {}

\* Mutant: the balance is asked for once and then kept by the reader alone.
Refreshed_Local == IF balance = Never THEN credits ELSE balance

\* refresh_balance: the lower of our count and the account's.
Refreshed == IF balance = Never THEN credits ELSE Earlier(balance, credits)

\* _reserve: nothing is awaited between the check and the subtraction.
Check ==
    /\ place = "check"
    /\ IF Refreshed - 1 < Reserve
       THEN balance' = Refreshed /\ Over
       ELSE balance' = Refreshed - 1 /\ place' = "call" /\ UNCHANGED <<doing, until, found>>
    /\ UNCHANGED <<time, dated, indexed, credits, xpozDb, xpozHist>>

\* What is there to be returned; the limit may cut any of it off.
Indexed(r) == {p \in Posts : indexed[p] # Never /\ (r = "scan" => p \in Followed)}

\* The account may have been emptied by others meanwhile.
Charged == credits' = Later(credits - 1, 0)

ReadCall ==
    /\ place = "call" /\ doing \in Reads /\ Charged /\ since' = 0
    /\ found' \in SUBSET Indexed(doing) /\ place' = "store"
    /\ cut' = IF doing = "search" THEN cut \cup (Indexed(doing) \ found') ELSE cut
    /\ UNCHANGED <<time, dated, indexed, xpozDb, balance, doing, until, calls, again, served>>

Called == IF doing \in Posts
          THEN /\ calls' = calls \cup {<<doing, thread[doing]>>}
               /\ again' = (again \/ \E c \in calls : c[1] = doing)
          ELSE UNCHANGED <<calls, again>>

ThreadCall ==
    /\ place = "call" /\ doing \in Posts /\ Charged /\ since' = 0
    /\ Called /\ place' = "save"
    /\ UNCHANGED <<time, dated, indexed, xpozDb, balance, doing, until, found, cut, served>>

\* A failed or timed out call may have been paid for.
CallFails ==
    /\ place = "call" /\ (Charged \/ UNCHANGED credits) /\ since' = 0
    /\ Called
    /\ Over
    /\ UNCHANGED <<time, dated, indexed, xpozDb, balance, cut, served>>

-----------------------------------------------------------------------------
(* Storing what came back. *)

Store ==
    /\ place = "store" /\ place' = "mark"
    /\ kept' = kept \cup {<<p, SourceOf(doing, p)>> :
                            p \in {q \in found : QueryStart(doing) <= dated[q] /\ dated[q] <= until}}
    /\ UNCHANGED <<time, dated, indexed, credits, marks, thread, balance, doing, until, found, xpozHist>>

\* The watermark moves; coverage of X is never claimed to be complete.
Mark ==
    /\ place = "mark" /\ marks' = [marks EXCEPT ![doing] = until]
    /\ served' = IF doing = "search" THEN served \cup {p \in found : dated[p] \in until - Fresh .. until}
                                      ELSE served
    /\ Over
    /\ UNCHANGED <<time, dated, indexed, credits, kept, thread, balance, since, calls, again, cut>>

SaveThread ==
    /\ place = "save" /\ thread' = [thread EXCEPT ![doing] = time]
    /\ Over
    /\ UNCHANGED <<time, dated, indexed, credits, kept, marks, balance, xpozHist>>

\* A store call raises: the read gives up, what it stored stays.
GiveUp ==
    /\ place \in {"store", "mark", "save"} /\ Over
    /\ UNCHANGED <<time, dated, indexed, credits, xpozDb, balance, xpozHist>>

Die ==
    /\ balance # Never /\ balance' = Never /\ Over /\ since' = 0
    /\ UNCHANGED <<time, dated, indexed, credits, xpozDb, calls, again, cut, served>>

XpozNext ==
    \/ XpozTick \/ OthersSpend \/ Refill
    \/ \E p \in Posts : Post(p) \/ Index(p) \/ BeginThread(p)
    \/ \E r \in Reads : BeginRead(r)
    \/ SaveAttempt \/ Check \/ ReadCall \/ ThreadCall \/ CallFails
    \/ Store \/ Mark \/ SaveThread \/ GiveUp \/ Die

XpozSpec == XpozInit /\ [][XpozNext]_xpozVars

-----------------------------------------------------------------------------
\* Times lie in the past, and a read under way has its window.
XpozTypeOK ==
    /\ \A p \in Posts : /\ {dated[p], indexed[p], thread[p]} \subseteq Never .. time
                        /\ indexed[p] # Never => dated[p] \in 0 .. indexed[p]
    /\ credits \in 0 .. MaxCredits /\ balance \in Never .. MaxCredits
    /\ doing \in Reads \cup Posts \cup {"none"} /\ (doing \in Reads <=> until # Never)
    /\ kept \subseteq Posts \X Reads /\ found \subseteq Posts
    /\ \A r \in Reads : marks[r] \in Never .. time

\* A paid call never takes the account below the reserve by itself: only what
\* others spent since the balance was checked can.
ReserveKept ==
    (place = "call" /\ place' # "call" /\ credits' < credits) => credits' + since >= Reserve

\* A thread is paid for once in its life, at most PerHour of them are attempted
\* in any hour and Threads altogether, across failures and restarts.
ThreadsPaced ==
    /\ Cardinality(calls) <= Threads
    /\ ~again
    /\ \A t \in 0 .. time : Cardinality({c \in calls : t - Hour <= c[2] /\ c[2] <= t}) <= PerHour

\* The two hours read again catch what was indexed late: a post indexed within
\* SearchBack of its date is kept by the first search that completes after it,
\* unless the limit cut it off there.
LateIndexedKept ==
    \A p \in served \ cut :
        (dated[p] <= marks["search"] /\ indexed[p] - dated[p] <= SearchBack)
            => \E r \in Reads : <<p, r>> \in kept

\* A post that both the search and a scan find is kept under one source.
OneCopy == \A p \in Posts : ~({<<p, "search">>, <<p, "scan">>} \subseteq kept)
=============================================================================
