----------------------------- MODULE ReportPlan -----------------------------
(***************************************************************************)
(* From the report queue to the rendered report (report/service.py): rows  *)
(* of one text become one item, items several channels report become an    *)
(* event if the model says so and the code can corroborate it, the rest    *)
(* follow the model's plan.  The model's two replies are arbitrary.        *)
(***************************************************************************)
EXTENDS Integers, Sequences, FiniteSets, SequencesExt, FiniteSetsExt

CONSTANTS
    Rows,           \* rows the queue may hold: records of the fields below
    MinImportance,  \* report_min_importance
    Wide, Tight,    \* window_h and proximity_h
    Announcements,  \* _ANNOUNCEMENT_ACTIONS
    MaxPairs, MaxSize, MaxComponents,  \* the caps of assemble_components
    PlanLength      \* bound: ids a plan names
\* A row: key (channel and external id), channel, text, time, importance, gist, link,
\* and the features of its text: entities, actions, domains, urls, ids, event, words.

VARIABLES
    stage,       \* queued, judging, planning, done or failed
    kept,        \* the merged items above the cut, in order
    components,  \* sequences of positions in kept
    judged,      \* components whose judgment has been merged
    blocks,      \* the events: records of members (positions, in order)
    points       \* what the report shows: kind, members, links

vars == <<stage, kept, components, judged, blocks, points>>

-----------------------------------------------------------------------------
(* dedup_for_report *)

\* The elements of S as a sequence in the order less.
InOrder(S, less(_, _)) ==
    [n \in 1 .. Cardinality(S) |-> CHOOSE x \in S : Cardinality({y \in S : less(y, x)}) = n - 1]

\* max(..., key=importance): the first of the most important.
FirstTop(S, importance(_)) ==
    CHOOSE i \in S : /\ \A j \in S : importance(j) <= importance(i)
                     /\ \A j \in S : importance(j) = importance(i) => i <= j

Merged(queue) ==
    LET firsts == {i \in DOMAIN queue : \A j \in 1 .. i - 1 : queue[j].text # queue[i].text}
        Item(i) ==
            LET same == {j \in DOMAIN queue : queue[j].text = queue[i].text}
                Importance(j) == queue[j].importance
            IN  [top |-> queue[FirstTop(same, Importance)],
                 keys |-> {queue[j].key : j \in same}, links |-> {queue[j].link : j \in same}]
    IN  [n \in 1 .. Cardinality(firsts) |-> Item(InOrder(firsts, LAMBDA a, b : a < b)[n])]

-----------------------------------------------------------------------------
(* assemble_components *)

Apart(a, b) == IF a.time < b.time THEN b.time - a.time ELSE a.time - b.time
CandidateEdge(a, b) ==
    /\ a.channel # b.channel /\ Apart(a, b) <= Wide
    /\ \/ a.text = b.text
       \/ a.domains \cap b.domains # {}
       \/ a.words \cap b.words # {}
       \/ /\ Apart(a, b) <= Tight
          /\ \/ a.event # "" /\ a.event = b.event
             \/ a.entities \cap b.entities # {} /\ a.actions \cap b.actions # {}

\* The positions reached from S along the pairs of E.
Reach(S, E) ==
    LET Step(seen, n) == seen \cup {p[2] : p \in {q \in E : q[1] \in seen}}
                              \cup {p[1] : p \in {q \in E : q[2] \in seen}}
    IN  FoldLeft(Step, S, [n \in 1 .. Cardinality(E) |-> n])

\* The scan stops after MaxPairs edges; the pairs come in the order of the scan.
Edges ==
    LET found == {p \in (DOMAIN kept) \X (DOMAIN kept) :
                     p[1] < p[2] /\ CandidateEdge(kept[p[1]].top, kept[p[2]].top)}
        scan  == InOrder(found, LAMBDA p, q : p[1] < q[1] \/ (p[1] = q[1] /\ p[2] < q[2]))
    IN  {scan[n] : n \in {m \in DOMAIN scan : m <= MaxPairs}}

Components ==
    LET E == Edges
        roots == {i \in DOMAIN kept : LET r == Reach({i}, E) IN Cardinality(r) > 1 /\ \A j \in r : i <= j}
        order == InOrder(roots, LAMBDA a, b : a < b)
        Member(i) == InOrder(Reach({i}, E), LAMBDA a, b : a < b)
        Cut(s, n) == SubSeq(s, 1, IF Len(s) < n THEN Len(s) ELSE n)
    IN  [n \in 1 .. Len(Cut(order, MaxComponents)) |-> Cut(Member(order[n]), MaxSize)]

Init ==
    /\ \E S \in SUBSET DOMAIN Rows :
          LET order == InOrder(S, LAMBDA a, b : a < b)
              all   == Merged([n \in DOMAIN order |-> Rows[order[n]]])
          IN  kept = SelectSeq(all, LAMBDA m : m.top.importance >= MinImportance)
    /\ stage = "queued" /\ components = <<>> /\ judged = 0 /\ blocks = <<>> /\ points = <<>>

Assemble ==
    /\ stage = "queued"
    /\ components' = Components
    /\ stage' = IF Components = <<>> THEN "planning" ELSE "judging"
    /\ UNCHANGED <<kept, judged, blocks, points>>

-----------------------------------------------------------------------------
(* judge_events and merge_events *)

Corroborated(a, b) ==
    \/ a.text = b.text \/ a.urls \cap b.urls # {}
    \/ Cardinality(a.entities \cap b.entities) >= 2
    \/ a.gist # "" /\ a.gist = b.gist
    \/ IF (a.actions \cap b.actions) \ Announcements # {} THEN a.entities \cap b.entities # {}
       ELSE a.ids \cap b.ids # {}

Coherent(members) ==
    LET E == {p \in members \X members : Corroborated(kept[p[1]].top, kept[p[2]].top)}
    IN  \A i \in members : Reach({i}, E) = members

\* The reply for one component: two groups of local ids, whether the confidence of
\* each is high enough, the ids rejected, and whether an unknown id is named.
Judgments(comp) ==
    LET ids == SUBSET DOMAIN comp
    IN  [first : ids, second : ids, sure : SUBSET {"first", "second"}, rejected : ids,
         stray : BOOLEAN]

WellFormed(j) ==
    /\ ~ j.stray
    /\ j.first \cap j.second = {} /\ (j.first \cup j.second) \cap j.rejected = {}

\* Mutant: the model's confidence is enough.
Accepted_Sure(comp, j, g) ==
    /\ WellFormed(j) /\ g \in j.sure /\ Cardinality(j[g]) >= 2
Accepted(comp, j, g) ==
    /\ WellFormed(j) /\ g \in j.sure /\ Cardinality(j[g]) >= 2
    /\ Coherent({comp[i] : i \in j[g]})

Events(comp, j) ==
    FlattenSeq([n \in 1 .. 2 |->
        LET g == <<"first", "second">>[n]
        IN  IF Accepted(comp, j, g) THEN << {comp[i] : i \in j[g]} >> ELSE <<>>])

\* merge_events goes through the components; a reply of another length is refused by
\* the adapter, as one that is no JSON.
Judge(j) ==
    /\ stage = "judging"
    /\ LET comp == components[judged + 1]
       IN  j \in Judgments(comp) /\ blocks' = blocks \o Events(comp, j)
    /\ judged' = judged + 1
    /\ stage' = IF judged' = Len(components) THEN "planning" ELSE "judging"
    /\ UNCHANGED <<kept, components, points>>

Fail ==
    /\ stage \in {"judging", "planning"}
    /\ stage' = "failed"
    /\ UNCHANGED <<kept, components, judged, blocks, points>>

-----------------------------------------------------------------------------
(* compose_report, validate_plan and render_report *)

Keys(S) == UNION {kept[i].keys : i \in S}
Links(S) == UNION {kept[i].links : i \in S}
Consumed == UNION {blocks[n] : n \in DOMAIN blocks}

Orphans == {i \in DOMAIN kept : kept[i].keys \cap Keys(Consumed) = {}}

\* The plan's ids in order, each known one once; those left out come last, the more
\* important first.
Validated(ids, orphans) ==
    LET Take(acc, i) == IF i \in ToSet(orphans) /\ i \notin ToSet(acc) THEN Append(acc, i) ELSE acc
        named == FoldLeft(Take, <<>>, ids)
        Before(i, j) == \/ kept[i].top.importance > kept[j].top.importance
                        \/ kept[i].top.importance = kept[j].top.importance /\ i < j
    IN  named \o InOrder(ToSet(orphans) \ ToSet(named), Before)

Item(i, kind) == [kind |-> kind, members |-> {i}, links |-> kept[i].links]

\* An event without a headline is shown as its members, one bullet for each of their
\* posts (_revert_to_members goes through the keys).
Rendered(S) ==
    LET Importance(i) == kept[i].top.importance
        Times(i) == [n \in 1 .. Cardinality(kept[i].keys) |-> Item(i, "reverted")]
        order == InOrder(S, LAMBDA a, b : a < b)
    IN  IF kept[FirstTop(S, Importance)].top.gist # ""
        THEN << [kind |-> "event", members |-> S, links |-> Links(S)] >>
        ELSE FlattenSeq([n \in DOMAIN order |-> Times(order[n])])

Weight(S) == LET Importance(i) == kept[i].top.importance
             IN  kept[FirstTop(S, Importance)].top.importance

\* Events first, the more important before; then the plan.  No orphans, no model call.
Compose(ids) ==
    /\ stage = "planning"
    /\ (Orphans = {}) => ids = <<>>
    /\ LET first == SortSeq([n \in DOMAIN blocks |-> <<n, blocks[n]>>],
                            LAMBDA a, b : \/ Weight(a[2]) > Weight(b[2])
                                          \/ Weight(a[2]) = Weight(b[2]) /\ a[1] < b[1])
           rest  == Validated(ids, InOrder(Orphans, LAMBDA a, b : a < b))
       IN  points' = FlattenSeq([n \in DOMAIN first |-> Rendered(first[n][2])])
                     \o [n \in DOMAIN rest |-> Item(rest[n], "item")]
    /\ stage' = "done"
    /\ UNCHANGED <<kept, components, judged, blocks>>

Next ==
    \/ Assemble \/ Fail
    \/ stage = "judging" /\ \E j \in Judgments(components[judged + 1]) : Judge(j)
    \/ \E ids \in BoundedSeq(0 .. Len(kept), PlanLength) : Compose(ids)

Spec == Init /\ [][Next]_vars

-----------------------------------------------------------------------------
(* Properties *)

\* Whatever the two replies say, every item above the cut is shown and each of its
\* sources is linked there ("a merged event is never silently dropped").
NewsKept ==
    stage = "done" =>
        \A i \in DOMAIN kept : \E n \in DOMAIN points :
            i \in points[n].members /\ kept[i].links \subseteq points[n].links

\* No item is shown twice, but for the posts of an event that lost its headline.
ShownOnce ==
    stage = "done" =>
        \A m, n \in DOMAIN points :
            \/ m = n \/ points[m].members \cap points[n].members = {}
            \/ points[m].kind = "reverted" /\ points[n].kind = "reverted"

\* An event joins items the recall linked and the code corroborates, and never takes
\* an item of another event.
EventsCorroborated ==
    \A n \in DOMAIN blocks :
        /\ Cardinality(blocks[n]) >= 2 /\ Coherent(blocks[n])
        /\ \E i \in blocks[n] : blocks[n] \subseteq Reach({i}, Edges)
=============================================================================
