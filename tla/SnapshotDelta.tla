---------------------------- MODULE SnapshotDelta ----------------------------
(***************************************************************************)
(* compare_snapshots (application/agenda_changes.py) seen by a client that  *)
(* keeps a copy of the listed stories: it polls with the id of the report   *)
(* it saw last, applies the changes, and may fetch a story card pinned to   *)
(* that report.  A report may hold anything; a baseline may be gone.        *)
(***************************************************************************)
EXTENDS Integers, FiniteSets, Functions

CONSTANTS
    Stories,
    Pubs, ChannelOf,   \* publications and the channel of each
    Quotes, Norm(_),   \* stored excerpts; normalized_text
    Claims,            \* displayed claims: records key, form
    Sourcings,         \* confirmation and attributed names, "none" without signals
    Caveats,           \* the qualifier-drop pair, or "none"
    Entries(_)         \* bound: what a report may hold of a story
\* An entry: section (agenda, upcoming, hidden or absent), detail (its publications are
\* stored), pubs (publication -> quote), claims, sourcing, caveat.

VARIABLES
    target,    \* the published report
    baseline,  \* the report the client holds the id of
    kept,      \* whether that report still is in the store
    copy       \* the client's copy, by story; pubs is {} if not known, else {pubs}

vars == <<target, baseline, kept, copy>>

Sections == {"agenda", "upcoming"}
Listed(R) == {s \in Stories : R[s].section \in Sections}
\* A hidden story is in stories only: its card is not shown.
HasDetail(R, s) == R[s].section # "absent" /\ R[s].detail
Refs(R, s) == IF HasDetail(R, s) THEN R[s].pubs ELSE <<>>
ChannelsIn(p) == {ChannelOf[x] : x \in DOMAIN p}
Keys(S) == {c.key : c \in S}

-----------------------------------------------------------------------------
(* _evidence_change and compare_snapshots *)

\* The differences in publications; none is stated (null) if a report lacks them.
Moved(new, old, s) ==
    IF ~ (HasDetail(new, s) /\ HasDetail(old, s)) THEN {}
    ELSE LET p == Refs(new, s)
             q == Refs(old, s)
         IN {[added |-> Restrict(p, DOMAIN p \ DOMAIN q),
              removed |-> DOMAIN q \ DOMAIN p,
              addedChannels |-> ChannelsIn(p) \ ChannelsIn(q),
              removedChannels |-> ChannelsIn(q) \ ChannelsIn(p),
              requoted |-> Restrict(p, {x \in DOMAIN p \cap DOMAIN q : Norm(p[x]) # Norm(q[x])})]}

Still == [added |-> <<>>, removed |-> {}, addedChannels |-> {}, removedChannels |-> {},
          requoted |-> <<>>]

Change(new, old, s) ==
    LET added == Keys(new[s].claims) \ Keys(old[s].claims)
    IN  [moved |-> Moved(new, old, s),
         addedClaims |-> {c \in new[s].claims : c.key \in added},
         removedClaims |-> Keys(old[s].claims) \ Keys(new[s].claims),
         sourcing |-> IF new[s].sourcing = old[s].sourcing THEN {} ELSE {new[s].sourcing},
         caveat |-> IF new[s].caveat = old[s].caveat THEN {} ELSE {new[s].caveat}]

\* Mutant: a card is resent for its publications only.
IsUpdated_Pubs(new, old, s) ==
    new[s].section # old[s].section \/ Change(new, old, s).moved \notin {{}, {Still}}
IsUpdated(new, old, s) ==
    LET c == Change(new, old, s)
    IN  \/ new[s].section # old[s].section
        \/ c.moved \notin {{}, {Still}}
        \/ c.addedClaims # {} \/ c.removedClaims # {} \/ c.sourcing # {} \/ c.caveat # {}

NewStories(new, old) == Listed(new) \ Listed(old)
UpdatedStories(new, old) == {s \in Listed(new) \cap Listed(old) : IsUpdated(new, old, s)}
RemovedStories(new, old) == Listed(old) \ Listed(new)

\* comparison_limitations: it says that details are missing, not of which story.
Limited(new, old) ==
    \E s \in Listed(new) \cap Listed(old) : ~ (HasDetail(new, s) /\ HasDetail(old, s))

-----------------------------------------------------------------------------
(* The client *)

NoCopy == [s \in {} |-> 0]
FromCard(R, s) ==
    [section |-> R[s].section, claims |-> R[s].claims, sourcing |-> R[s].sourcing,
     caveat |-> R[s].caveat, pubs |-> {}]

Applied(c, m) ==
    {[x \in (DOMAIN p \ d.removed) \cup DOMAIN d.added |->
         IF x \in DOMAIN d.added THEN d.added[x]
         ELSE IF x \in DOMAIN d.requoted THEN d.requoted[x] ELSE p[x]] : p \in c.pubs, d \in m}

\* What the client makes of one story of the response.
Updated(s, new, old) ==
    IF s \in NewStories(new, old) THEN FromCard(new, s)
    ELSE IF s \in UpdatedStories(new, old) THEN
        LET c == Change(new, old, s)
        IN  [section |-> new[s].section,
             claims |-> {x \in copy[s].claims : x.key \notin c.removedClaims} \cup c.addedClaims,
             sourcing |-> IF c.sourcing = {} THEN copy[s].sourcing ELSE new[s].sourcing,
             caveat |-> IF c.caveat = {} THEN copy[s].caveat ELSE new[s].caveat,
             pubs |-> Applied(copy[s], c.moved)]
    ELSE IF Limited(new, old) THEN [copy[s] EXCEPT !.pubs = {}]
    ELSE copy[s]

Reports == {R \in [Stories -> UNION {Entries(s) : s \in Stories}] :
                \A s \in Stories : R[s] \in Entries(s)}

Init ==
    /\ target \in Reports /\ baseline = target /\ kept = TRUE
    /\ copy = [s \in Listed(target) |-> FromCard(target, s)]

\* The next report replaces the published one, and may prune the baseline.
Publish ==
    /\ target = baseline
    /\ target' \in Reports
    /\ kept' \in BOOLEAN
    /\ UNCHANGED <<baseline, copy>>

Poll ==
    /\ target # baseline \/ ~ kept
    /\ copy' = IF kept
               THEN [s \in Listed(target) |-> Updated(s, target, baseline)]
               ELSE [s \in Listed(target) |-> FromCard(target, s)]
    /\ baseline' = target /\ kept' = TRUE
    /\ UNCHANGED target

\* story_payload pinned to the report the copy is of.
FetchStory(s) ==
    /\ kept /\ s \in DOMAIN copy /\ HasDetail(baseline, s)
    /\ copy' = [copy EXCEPT ![s].pubs = {Refs(baseline, s)}]
    /\ UNCHANGED <<target, baseline, kept>>

Next == Publish \/ Poll \/ \E s \in Stories : FetchStory(s)

Spec == Init /\ [][Next]_vars

-----------------------------------------------------------------------------
(* Properties *)

SameQuotes(p, q) ==
    DOMAIN p = DOMAIN q /\ \A x \in DOMAIN p : Norm(p[x]) = Norm(q[x])

\* A client that only applies changes holds what the report it saw last lists: the same
\* stories in the same sections, the same claims and sourcing up to case and spaces, and
\* where it knows the publications, those of the report and no others.
CopyFollows ==
    /\ DOMAIN copy = Listed(baseline)
    /\ \A s \in DOMAIN copy :
          /\ copy[s].section = baseline[s].section
          /\ Keys(copy[s].claims) = Keys(baseline[s].claims)
          /\ copy[s].sourcing = baseline[s].sourcing /\ copy[s].caveat = baseline[s].caveat
          /\ \A p \in copy[s].pubs :
                 HasDetail(baseline, s) /\ SameQuotes(p, Refs(baseline, s))
=============================================================================
