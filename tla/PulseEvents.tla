----------------------------- MODULE PulseEvents -----------------------------
(***************************************************************************)
(* group_events of the news pulse: observations of one window, in order of *)
(* publication, put into groups that are each one event.  First by rules   *)
(* alone; then the judge is asked about pairs across the groups, all at    *)
(* once, and groups are merged on its answers.                             *)
(*                                                                         *)
(* Actors and actions are compared as their canonical forms, an object as  *)
(* its canonical form or as it is spelled; version stands for every key    *)
(* qualifier without a day (duration, stage, asset); an amount is whole    *)
(* tenths; without decimals it is rounded; actors that differ share no     *)
(* word.                                                                   *)
(***************************************************************************)
EXTENDS Integers, Sequences, FiniteSets

CONSTANTS
    NumObs,      \* bound: observations of the window
    Shapes,      \* what an observation may say, records [actor, action, object,
                 \* spelled, version, date, fromPub, amount, wording, post, day]
    Tickers, Funds, Durations, \* objects: tickers, funds, {"block_time"}
    Opposed, Voted, \* actions: {"vote", "upgrade"}, {"vote", "reduce"}
    SmallGroup,  \* SMALL_GROUP
    Horizon      \* days a candidate pair may be apart

None == "none" \* a name that is missing
No   == 0      \* a day or an amount that is missing

VARIABLES obs, groups, verdict, merged, pc

vars == <<obs, groups, verdict, merged, pc>>

Differ(x, y) == x # None /\ y # None /\ x # y
Agree(x, y)  == x # None /\ x = y
Near(x, y, n) == x - y <= n /\ y - x <= n
Key(a)       == <<a.actor, a.action, a.spelled>>
Quals(a)     == {<<"version", v>> : v \in {a.version} \ {None}} \cup {<<"date", d>> : d \in {a.date} \ {No}}

\* _amounts_compatible, within a twentieth; _amounts_same_rounded.
AmountsClose(x, y)   == 20 * x >= 19 * y /\ 20 * y >= 19 * x
Rounded(x)           == ((x + 5) \div 10) * 10
AmountsRounded(x, y) == IF x = Rounded(x) \/ y = Rounded(y) THEN Rounded(x) = Rounded(y) ELSE x = y
SameAmount(a, b)     == a.amount # No /\ b.amount # No /\ AmountsClose(a.amount, b.amount)

\* Two days are one only if the later is no more than the day of the publication.
DatesCompatible(a, b) ==
    \/ a.date = No \/ b.date = No \/ a.date = b.date
    \/ /\ a.fromPub # b.fromPub
       /\ LET pub    == IF a.fromPub THEN a ELSE b
              stated == IF a.fromPub THEN b ELSE a
          IN  pub.date - stated.date = 1
       /\ a.amount # No /\ b.amount # No /\ AmountsRounded(a.amount, b.amount)

FlowDay(a) == IF a.date = No THEN a.day ELSE a.date

Conflicting(a, b) ==
    \/ Differ(a.version, b.version) \/ ~DatesCompatible(a, b)
    \/ /\ {a.object, b.object} \subseteq Funds
       /\ a.object # b.object \/ ~Near(FlowDay(a), FlowDay(b), 1)
    \/ a.amount # No /\ b.amount # No /\ ~AmountsClose(a.amount, b.amount)
    \/ Agree(a.action, b.action) /\ Differ(a.spelled, b.spelled) /\ ~Agree(a.object, b.object)
    \/ {a.action, b.action} = Opposed

SameSubject(a, b) == Agree(a.action, b.action) /\ Agree(a.object, b.object)

\* The same object, while nothing else says it is the same event.
TickerOnly(a, b) ==
    \/ Agree(a.spelled, b.spelled) /\ Key(a) # Key(b) /\ ~SameSubject(a, b)
    \/ /\ ~Agree(a.spelled, b.spelled) /\ a.object = b.object /\ a.object \in Tickers
       /\ a.action # b.action

ActorsDiffer(a, b) == {a.object, b.object} \cap Funds = {} /\ Differ(a.actor, b.actor)

\* A block time of the same length, voted on or reduced.
SameDuration(a, b) ==
    /\ a.object = b.object /\ a.object \in Durations /\ Agree(a.version, b.version)
    /\ {a.action, b.action} \subseteq Voted \cup {None}

SameApartFromActors(a, b) ==
    \/ a.wording = b.wording
    \/ ~TickerOnly(a, b) /\ SameDuration(a, b)
    \/ /\ ~TickerOnly(a, b) /\ SameSubject(a, b)
       /\ \/ Agree(a.version, b.version) \/ (a.date # No /\ b.date # No)
          \/ SameAmount(a, b) \/ Quals(a) = Quals(b)
          \/ Key(a) = Key(b) /\ a.actor # None /\ (Quals(a) = {} \/ Quals(b) = {})
          \/ a.post = b.post /\ Agree(a.spelled, b.spelled)

SameEvent(a, b) == ~Conflicting(a, b) /\ ~ActorsDiffer(a, b) /\ SameApartFromActors(a, b)

Specific(a, b) ==
    \/ Agree(a.version, b.version) \/ (a.date # No /\ a.date = b.date) \/ SameAmount(a, b)
    \/ Agree(a.object, b.object) /\ a.object \notin Tickers

\* The pairs worth asking the judge about.
CandidatePair(a, b) ==
    /\ ~TickerOnly(a, b) /\ ~Conflicting(a, b)
    /\ \/ ActorsDiffer(a, b) /\ SameApartFromActors(a, b)
       \/ a.wording = b.wording \/ a.post = b.post
       \/ /\ Near(a.day, b.day, Horizon) /\ Specific(a, b)
          /\ \/ Agree(a.action, b.action) \/ Agree(a.object, b.object)
             \/ Quals(a) \cap Quals(b) # {} \/ (a.amount # No /\ a.amount = b.amount)
             \/ a.date # No /\ b.date # No /\ a.fromPub = b.fromPub
-----------------------------------------------------------------------------
\* A group is the sequence of the numbers of its observations.
Members(g)  == {g[i] : i \in DOMAIN g}
First(S)    == CHOOSE n \in S : \A m \in S : n <= m

GroupsConflict(g, h) == \E a \in Members(g), b \in Members(h) :
    TickerOnly(obs[a], obs[b]) \/ Conflicting(obs[a], obs[b])

\* Who is shown to the judge: everybody of a small group, else the first and the last.
Targets(g) == IF Len(g) <= SmallGroup THEN Members(g) ELSE {g[1], g[Len(g)]}

\* The pairs of those the rules do not settle.
Unsettled(g, h) == {p \in {{a, b} : a \in Targets(g), b \in Targets(h)} :
    \A a, b \in p : a # b => ~SameEvent(obs[a], obs[b])}

Comparable(g, h) == ~GroupsConflict(g, h) /\ CandidatePair(obs[g[1]], obs[h[1]])

Init == obs = <<>> /\ groups = <<>> /\ verdict = <<>> /\ merged = <<>> /\ pc = "place"

\* _deterministic_join: with every member.
Joins(a, g) == \A m \in Members(g) : SameEvent(a, obs[m])

PutInto(all, g, hosts) == IF hosts = {} THEN Append(all, g)
                                        ELSE [all EXCEPT ![First(hosts)] = @ \o g]

\* The next observation goes into the first group it fits, or begins one.
Place(a) ==
    /\ pc = "place" /\ Len(obs) < NumObs
    /\ obs # <<>> => obs[Len(obs)].day <= a.day
    /\ obs' = Append(obs, a)
    /\ groups' = PutInto(groups, <<Len(obs) + 1>>, {n \in DOMAIN groups : Joins(a, groups[n])})
    /\ UNCHANGED <<verdict, merged, pc>>

\* Everything the judge may be asked, between the groups as the rules left them.
Asked == UNION {Unsettled(groups[q[1]], groups[q[2]]) : q \in {r \in (DOMAIN groups) \X (DOMAIN groups) :
    r[2] < r[1] /\ Comparable(groups[r[1]], groups[r[2]])}}

\* One judge_many; whatever is not answered "same" counts as not.
Judge ==
    /\ pc = "place" /\ obs # <<>>
    /\ verdict' \in [Asked -> {"same", "unclear"}]
    /\ pc' = "merge" /\ UNCHANGED <<obs, groups, merged>>

SaysSame(p)     == p \in DOMAIN verdict /\ verdict[p] = "same"
JudgeJoin(g, h) == Comparable(g, h) /\ \A p \in Unsettled(g, h) : SaysSame(p)

\* The next group goes into the first merged one it joins.
Merge ==
    /\ pc = "merge" /\ groups # <<>>
    /\ merged' = PutInto(merged, Head(groups),
                         {n \in DOMAIN merged : JudgeJoin(Head(groups), merged[n])})
    /\ groups' = Tail(groups) /\ UNCHANGED <<obs, verdict, pc>>

Next == Judge \/ Merge \/ \E a \in Shapes : Place(a)

Spec == Init /\ [][Next]_vars
-----------------------------------------------------------------------------
AllGroups == {groups[n] : n \in DOMAIN groups} \cup {merged[n] : n \in DOMAIN merged}

\* No event holds two observations that conflict, however it was put together;
\* one small enough to be judged whole holds no pair that neither the rules nor
\* the judge called one event; and no observation is lost or counted twice.
NoneConflict  == \A g \in AllGroups : \A a, b \in Members(g) : a # b => ~Conflicting(obs[a], obs[b])
SmallIsClique == \A g \in AllGroups : Len(g) <= SmallGroup =>
    \A a, b \in Members(g) : a # b => SameEvent(obs[a], obs[b]) \/ SaysSame({a, b})
EachOnce      == \A n \in DOMAIN obs :
    /\ Cardinality({g \in AllGroups : n \in Members(g)}) = 1
    /\ \A g \in AllGroups : Cardinality({i \in DOMAIN g : g[i] = n}) <= 1
GroupsAreCliques == NoneConflict /\ SmallIsClique /\ EachOnce
=============================================================================
