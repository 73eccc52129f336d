---------------------------- MODULE AgendaService ----------------------------
(***************************************************************************)
(* The search of serve: GET /stories/search, GET /stories/{id} and the     *)
(* POST of a2mcp over the same functions of agenda_query, against a cycle  *)
(* that publishes reports and prunes old ones.  A reader searches by one   *)
(* or the other, turns the pages pinned to the report of the first one,    *)
(* and opens hits.  GET /agenda with its baseline, and the refusal of one  *)
(* newer than its target, are SnapshotStore's.                             *)
(*                                                                         *)
(* A request is one step here; SnapshotStore takes its reads apart.  Words *)
(* are terms after _search_term; a title is the set of its terms, so that  *)
(* it is the query, or holds it, whatever the order of the words.  The     *)
(* service's other answers are left out: HTML, Markdown, health.           *)
(***************************************************************************)
EXTENDS Integers, Sequences, FiniteSets

CONSTANTS
    Terms, Reports, \* stories are numbers; functions from some of them to their cards:
                 \* [title, shown, claim: sets of terms, listed: is it in a section]
    Keep,        \* bound: reports retained beside the published one
    MaxReports,  \* bound: reports ever published
    MaxLimit, MaxToolLimit, \* SEARCH_MAX_LIMIT, the limit of AstraFeedRequest
    Limits       \* what a reader may ask for: integers

None == 0 \* no snapshot_id; reports are numbered from 1

VARIABLES
    issued,  \* reports published so far
    rows,    \* [id -> report]: what is retained; the newest is published
    book     \* the reader's pages: [q, pin, next, total, hits]

vars == <<issued, rows, book>>

Closed == [q |-> {}, pin |-> None, next |-> 0, total |-> 0, hits |-> <<>>]
Init == issued = 0 /\ rows = <<>> /\ book = Closed

Smaller(a, b) == IF a < b THEN a ELSE b
Larger(a, b)  == IF a < b THEN b ELSE a
-----------------------------------------------------------------------------
\* The terms a story's documents of each weight share with the query.
Translated(card) == IF card.listed /\ card.shown # card.title THEN card.shown ELSE {}
FoundIn(card, q) == (card.title \cup card.claim \cup Translated(card)) \cap q

Score(card, q) ==
    10 * (Cardinality(card.title \cap q) + Cardinality(Translated(card) \cap q))
        + 2 * Cardinality(card.claim \cap q)
        + (100 * Cardinality(FoundIn(card, q))) \div Cardinality(q)
        + (IF card.title = q THEN 1000 ELSE IF q \subseteq card.title THEN 20 ELSE 0)

\* Two of the terms asked for have to be there, or all of them.
Matching(report, q) == {s \in DOMAIN report :
    Cardinality(FoundIn(report[s], q)) >= Smaller(2, Cardinality(q))}

\* The better score first, of equal ones the smaller id.
Before(report, q, s, t) ==
    \/ Score(report[s], q) > Score(report[t], q)
    \/ Score(report[s], q) = Score(report[t], q) /\ s < t

Ranked(report, q) ==
    LET M == Matching(report, q)
    IN  [n \in 1 .. Cardinality(M) |->
            CHOOSE s \in M : Cardinality({t \in M : Before(report, q, t, s)}) = n - 1]

Effective(limit) == Larger(1, Smaller(limit, MaxLimit))

\* Mutant: the page ends at limit, wherever it begins.
Page_ToLimit(ranked, limit, offset) ==
    SubSeq(ranked, offset + 1, Smaller(Len(ranked), Effective(limit)))

Page(ranked, limit, offset) ==
    SubSeq(ranked, offset + 1, Smaller(Len(ranked), offset + Effective(limit)))
-----------------------------------------------------------------------------
(* Answers: [code, pin, body].  HTTP codes: 503 preparing, 404, 422.       *)

Answer(code, pin, body) == [code |-> code, pin |-> pin, body |-> body]
Refusal(code) == Answer(code, None, <<>>)

\* load_snapshot: the published one, or the one asked for.
Loaded(pin) == IF pin = None THEN issued ELSE pin

\* What a request does once its snapshot is there.
Within(pin, body(_)) ==
    IF pin = None /\ issued = 0 THEN Refusal(503)
    ELSE IF Loaded(pin) \notin DOMAIN rows THEN Refusal(404)
    ELSE body(Loaded(pin))

Story(s, pin) ==
    LET Body(id) == IF s \in DOMAIN rows[id] THEN Answer(200, id, <<s, rows[id][s]>>) ELSE Refusal(404)
    IN  Within(pin, Body)

\* search_payload, which tells the total and the limit and offset it used.
Search(q, pin, limit, offset) ==
    LET Body(id) ==
            LET ranked == Ranked(rows[id], q)
            IN  Answer(200, id, [total |-> Len(ranked), limit |-> Effective(limit),
                                 offset |-> Larger(0, offset),
                                 hits |-> Page(ranked, limit, Larger(0, offset))])
    IN  Within(pin, Body)

\* GET /stories/search refuses an empty query and, unlike the tool, no limit.
GetSearch(q, pin, limit, offset) == IF q = {} THEN Refusal(422) ELSE Search(q, pin, limit, offset)

\* The POST of a2mcp that searches: its request is validated first, and it has
\* no offset.
Tool(q, limit) == IF limit \notin 1 .. MaxToolLimit THEN Refusal(422) ELSE Search(q, None, limit, 0)
-----------------------------------------------------------------------------
Publish(report) ==
    /\ issued < MaxReports
    /\ issued' = issued + 1
    /\ rows' = [id \in Larger(1, issued + 1 - Keep) .. issued + 1 |->
                    IF id = issued + 1 THEN report ELSE rows[id]]
    /\ UNCHANGED book

\* What the reader makes of an answer: it pins the report, and counts on from
\* the offset and the limit the answer says it used.
Noted(q, a) ==
    /\ book' = IF a.code = 200
                THEN [q |-> q, pin |-> a.pin, next |-> a.body.offset + a.body.limit,
                      total |-> a.body.total, hits |-> book.hits \o a.body.hits]
                ELSE Closed
    /\ UNCHANGED <<issued, rows>>

\* The first page, of the report published now, from the tool.
AskTool(q, limit) == q # {} /\ book = Closed /\ Noted(q, Tool(q, limit))

\* The first page from the endpoint, or the next page of the same report.
TurnPage(q, limit) ==
    /\ book = Closed \/ (book.q = q /\ book.next < book.total)
    /\ Noted(q, GetSearch(q, book.pin, limit, book.next))

Close == book # Closed /\ book' = Closed /\ UNCHANGED <<issued, rows>>

Next == Close \/ (\E report \in Reports : Publish(report))
              \/ \E q \in SUBSET Terms, limit \in Limits : AskTool(q, limit) \/ TurnPage(q, limit)

Spec == Init /\ [][Next]_vars
-----------------------------------------------------------------------------
\* A reader who turns pages by what each answer says of itself has, while the
\* report is retained, every hit up to there once and in order, whatever was
\* published meanwhile, whatever limits it asked for and whichever of the tool
\* and the endpoint gave the first page; and every hit opens.
PagesAreWhole == book.pin \in DOMAIN rows =>
    /\ book.hits = SubSeq(Ranked(rows[book.pin], book.q), 1,
                          Smaller(book.next, Len(Ranked(rows[book.pin], book.q))))
    /\ \A n \in DOMAIN book.hits : Story(book.hits[n], book.pin).code = 200
=============================================================================
