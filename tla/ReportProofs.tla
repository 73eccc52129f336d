--------------------------- MODULE ReportProofs -----------------------------
(***************************************************************************)
(* Proofs about what is stored and shown: the published snapshot, the audit *)
(* trail, the catalog of entities and links, the schema, the agenda of a   *)
(* snapshot with its verified quotes, the discussions that enrich it, and  *)
(* the news pulse; for any links, stories, rows, limits, costs and windows. *)
(*                                                                         *)
(* Snapshots.  No two reports are built at one time, so the time of        *)
(* building tells reports apart (Told): the cache and the rows agree on an *)
(* id, and a publication never meets its own id with other contents.  What *)
(* is about to be published is either newer than all before it or an old   *)
(* report with stories, put over an empty partial one (Ready); an empty    *)
(* report is published only when it is new (Newest).                       *)
(*                                                                         *)
(* Every other component has an instance of its module and a section below; *)
(* a parameter or a variable that two sections name alike is declared once. *)
(***************************************************************************)
EXTENDS SnapshotStore, Sequences, SumTheorems, WellFoundedInduction

\* Every report there is, and what tells them apart.
Reports == issued \cup ({snap} \ {NoSnapshot})

Told ==
    /\ \A r \in Reports : r.built < now
    /\ \A r, s \in Reports : r.built = s.built => r = s

\* Rows, copies and cursors are reports that were published.
Copies ==
    /\ rows \subseteq issued /\ IsFiniteSet(rows)
    /\ {cache, target, cursor} \subseteq issued \cup {NoSnapshot}

New == snap # NoSnapshot /\ \A r \in issued : r.built < snap.built

\* What is about to be published or has just been.
Ready ==
    /\ pc = "judge" => New /\ ~ snap.full /\ then # "restored"
    /\ pc = "publish" /\ then # "restored" =>
        New /\ (snap.full \/ snap.size > 0 \/ \A r \in published : r.size = 0)
    /\ pc = "publish" /\ then = "restored" =>
        snap \in rows /\ snap.size > 0 /\ \E r \in published : EmptyPartial(r)
    /\ pc = "cache" => published = {snap} /\ snap # NoSnapshot /\ (then = "restored" => snap.size > 0)

\* An empty report is published while it is the newest.
Newest == \A p \in published, r \in issued : p.size = 0 => r.built <= p.built

\* A report as new as r, or newer, was empty and partial.
Emptied(r) == \E e \in issued : EmptyPartial(e) /\ e.built >= r.built

\* An older report is published only where it was restored, and a client may
\* find it older than its own only then.
Restorable ==
    /\ \A p \in published, r \in issued : r.built > p.built => Emptied(r)
    /\ request # "none" /\ cursor.built > target.built => Emptied(cursor)

IInv == /\ TypeOK /\ Told /\ Copies /\ Ready /\ Newest /\ Restorable
        /\ KeptForRetention /\ UsefulReportRestored /\ OnlyRestoredIsRejected
        /\ request # "none" => target \in during

-----------------------------------------------------------------------------
(* The order of the ids.                                                   *)

\* What is known of a report.
LEMMA ReportIs ==
  ASSUME ConstantsOK, NEW s \in Snapshots
  PROVE  /\ s.t \in Nat /\ s.full \in BOOLEAN /\ s.rank \in Nat /\ s.built \in Nat /\ s.size \in Nat
         /\ s # NoSnapshot /\ Id(s) # Id(NoSnapshot) /\ s.built # NoSnapshot.built
<1>1. MaxTime \in Nat /\ MaxSize \in Nat /\ Ranks \subseteq Nat
  BY DEF ConstantsOK
<1>2. s.t \in 0 .. MaxTime /\ s.full \in BOOLEAN /\ s.rank \in Ranks /\ s.built \in 0 .. MaxTime
      /\ s.size \in 0 .. MaxSize
  BY DEF Snapshots
<1>3. NoSnapshot.t = -1 /\ NoSnapshot.built = -1
  BY DEF NoSnapshot
<1>4. s.t # NoSnapshot.t /\ s.built # NoSnapshot.built
  BY <1>1, <1>2, <1>3
<1>5. Id(s)[1] = s.t /\ Id(NoSnapshot)[1] = NoSnapshot.t
  BY DEF Id
<1>6. s # NoSnapshot /\ Id(s) # Id(NoSnapshot)
  BY <1>4, <1>5
<1>7. 0 .. MaxTime \subseteq Nat /\ 0 .. MaxSize \subseteq Nat
  BY <1>1
<1>8. s.t \in Nat /\ s.rank \in Nat /\ s.built \in Nat /\ s.size \in Nat /\ s.full \in BOOLEAN
  BY <1>1, <1>2, <1>7
<1> QED BY <1>4, <1>6, <1>8

\* Reports built at different times are ordered by their ids, one way.
LEMMA OrderIs ==
  ASSUME ConstantsOK, NEW r \in Snapshots, NEW s \in Snapshots, NEW u \in Snapshots
  PROVE  /\ r.built # s.built => IdBefore(r, s) \/ IdBefore(s, r)
         /\ IdBefore(r, s) /\ IdBefore(s, u) => IdBefore(r, u)
<1> \A x \in {r, s, u} : x.t \in Nat /\ x.full \in BOOLEAN /\ x.rank \in Nat /\ x.built \in Nat
  BY ReportIs
<1>1. r.built # s.built => IdBefore(r, s) \/ IdBefore(s, r)
  BY DEF IdBefore
<1>2. IdBefore(r, s) /\ IdBefore(s, u) => IdBefore(r, u)
  BY DEF IdBefore
<1> QED BY <1>1, <1>2

\* Of finitely many reports built at different times one has the last id.
LEMMA LastExists ==
  ASSUME ConstantsOK, NEW S \in SUBSET Snapshots, IsFiniteSet(S), S # {},
         \A r, s \in S : r.built = s.built => r = s
  PROVE  \E m \in S : \A s \in S \ {m} : IdBefore(s, m)
<1> DEFINE Last(R) == \E m \in R : \A s \in R \ {m} : IdBefore(s, m)
           Bad == {R \in SUBSET S : R # {} /\ ~ Last(R)}
           T == {Cardinality(R) : R \in Bad}
<1>1. \A R \in SUBSET S : IsFiniteSet(R) /\ Cardinality(R) \in Nat
  BY FS_Subset, FS_CardinalityType
<1>2. T \in SUBSET Nat
  BY <1>1
<1>3. SUFFICES ASSUME ~ Last(S) PROVE FALSE
  OBVIOUS
<1>4. \E n \in T : TRUE
  <2>1. S \in Bad
    BY <1>3
  <2> QED BY <2>1
<1>5. PICK n \in T : \A k \in T : ~ (k < n)
  <2>1. PICK n \in T : \A k \in T : ~ (<<k, n>> \in OpToRel(<, Nat))
    BY <1>2, <1>4, WFMin, NatLessThanWellFounded
  <2>2. \A k, n1 \in Nat : k < n1 => <<k, n1>> \in OpToRel(<, Nat)
    BY DEF OpToRel
  <2> HIDE DEF T
  <2> QED BY <1>2, <2>1, <2>2
<1>6. PICK R \in Bad : n = Cardinality(R)
  OBVIOUS
<1>7. PICK x \in R : TRUE
  OBVIOUS
<1> DEFINE Q == R \ {x}
<1>8. Q \in SUBSET S /\ Cardinality(Q) = n - 1 /\ n \in Nat
  BY <1>1, <1>2, <1>6, <1>7, FS_RemoveElement
<1>9. Cardinality(Q) < n
  BY <1>8
<1>10. Q = {} \/ Last(Q)
  <2>1. Cardinality(Q) \notin T
    BY <1>5, <1>9
  <2> QED BY <1>8, <2>1
<1> R \in SUBSET S /\ ~ Last(R)
  OBVIOUS
<1> HIDE DEF T, Bad
<1>11. CASE Q = {}
  <2>1. \A s \in R \ {x} : IdBefore(s, x)
    BY <1>11
  <2> QED BY <1>7, <2>1
<1>12. CASE Last(Q)
  <2>1. PICK m \in Q : \A s \in Q \ {m} : IdBefore(s, m)
    BY <1>12
  <2>2. m \in Snapshots /\ x \in Snapshots /\ m # x /\ m \in R
    BY <1>7, <1>8, <2>1
  <2>3. m.built # x.built
    BY <1>7, <1>8, <2>1, <2>2
  <2>4. CASE IdBefore(x, m)
    <3>1. \A s \in R \ {m} : IdBefore(s, m)
      BY <2>1, <2>4
    <3> QED BY <2>2, <3>1
  <2>5. CASE IdBefore(m, x)
    <3>1. ASSUME NEW s \in R \ {x} PROVE IdBefore(s, x)
      <4>1. CASE s = m
        BY <2>5, <4>1
      <4>2. CASE s # m
        <5>1. IdBefore(s, m) /\ s \in Snapshots
          BY <2>1, <4>2
        <5> QED BY <2>2, <2>5, <5>1, OrderIs
      <4> QED BY <4>1, <4>2
    <3> QED BY <1>7, <3>1
  <2> QED BY <2>2, <2>3, <2>4, <2>5, OrderIs
<1> QED BY <1>10, <1>11, <1>12

\* The report to restore is one of those with stories.
LEMMA LatestIs ==
  ASSUME ConstantsOK, TypeOK, Told, Copies, Nonempty # {} PROVE LatestNonempty \in Nonempty
<1>1. Nonempty \in SUBSET Snapshots /\ IsFiniteSet(Nonempty)
  BY FS_Subset DEF Nonempty, TypeOK, Copies
<1>2. \A r, s \in Nonempty : r.built = s.built => r = s
  BY DEF Nonempty, Told, Copies, Reports
<1>3. \E m \in Nonempty : \A s \in Nonempty \ {m} : IdBefore(s, m)
  BY <1>1, <1>2, LastExists
<1> QED BY <1>3 DEF LatestNonempty

\* The published report.
LEMMA CurrentIs ==
  ASSUME TypeOK
  PROVE  /\ published = {} => Current = NoSnapshot
         /\ published # {} => published = {Current} /\ Current \in Snapshots
  BY DEF Current, TypeOK

-----------------------------------------------------------------------------
(* What a step changes.                                                    *)

\* Only a publication touches the rows.
LEMMA RowsStay ==
  ASSUME [Next]_vars, ~ Publish PROVE UNCHANGED <<rows, published, issued>>
  BY DEF Next, CycleStep, ClientStep, vars, store, cycle, client, Tick, StartCycle, EndCollect,
         Restore,
         Restored, Build, Judge, SetCache, Fail, Restart, ReadPublished, LoadRow, Loaded, Baseline

\* A publication, and what is published by it.
LEMMA PublishIs ==
  ASSUME IInv, Publish
  PROVE  /\ pc = "publish" /\ pc' = "cache" /\ published' = {snap} /\ issued' = issued \cup {snap}
         /\ rows' = {r \in rows \cup {snap} : r = snap \/ Survives(r, snap)}
         /\ UNCHANGED <<now, cache, lastCollect, asOf, snap, then, request, target, cursor, answer>>
         /\ during' = IF request = "none" THEN {} ELSE during \cup {snap}
         /\ snap \in Snapshots /\ rows \subseteq issued /\ snap \in Reports
<1>1. snap # NoSnapshot \/ snap \in rows
  BY DEF IInv, Ready, Publish, New
<1>2. TypeOK /\ Copies
  BY DEF IInv
<1>3. snap \in Snapshots
  BY <1>1, <1>2 DEF TypeOK
<1>4. rows \subseteq issued
  BY <1>2 DEF Copies
<1>5. snap \in Reports
  BY <1>1, <1>4 DEF Reports
<1> QED BY <1>3, <1>4, <1>5 DEF Publish, client

\* The report of a build is newer than all there are.
LEMMA BuildIs ==
  ASSUME ConstantsOK, IInv, NEW full \in BOOLEAN, NEW rank \in Ranks, NEW size \in 0 .. MaxSize,
         NEW next \in {"work", "sleep"}, Build(full, rank, size, next)
  PROVE  /\ pc = "work" /\ now' = now + 1 /\ snap' \in Snapshots /\ snap' # NoSnapshot
         /\ snap'.built = now /\ snap'.full = full
         /\ then' = next /\ pc' = IF full THEN "publish" ELSE "judge"
         /\ UNCHANGED <<rows, published, cache, lastCollect, asOf, request, target, cursor, answer,
                        issued, during>>
<1>1. TypeOK /\ MaxTime \in Nat
  BY DEF IInv, ConstantsOK
<1>2. snap' = [t |-> asOf, full |-> full, rank |-> rank, built |-> now, size |-> size]
  BY DEF Build
<1>3. snap' \in Snapshots
  BY <1>1, <1>2 DEF Build, TypeOK, Snapshots
<1>4. snap' # NoSnapshot
  BY <1>3, ReportIs
<1> QED BY <1>2, <1>3, <1>4 DEF Build, store, client

-----------------------------------------------------------------------------
(* Types.                                                                  *)

\* Every step keeps the types.
LEMMA TypeKeeps == ASSUME ConstantsOK, IInv, [Next]_vars PROVE TypeOK'
<1> USE DEF TypeOK
<1>0. TypeOK /\ Told /\ Copies /\ MaxTime \in Nat /\ Current \in Snapshots \cup {NoSnapshot}
  BY CurrentIs DEF IInv, ConstantsOK
<1>1. CASE Tick
  BY <1>0, <1>1 DEF Tick, store, cycle, client
<1>2. ASSUME NEW ing \in BOOLEAN, StartCycle(ing) PROVE TypeOK'
  <2>1. asOf' \in 0 .. MaxTime
    BY <1>0, <1>2 DEF StartCycle
  <2>2. pc' \in {"collect", "restore"}
    BY <1>2 DEF StartCycle
  <2> QED BY <1>0, <1>2, <2>1, <2>2 DEF StartCycle, store, client
<1>3. CASE EndCollect
  BY <1>0, <1>3 DEF EndCollect, store, client
<1>4. CASE Restore
  <2>1. NeedsRestore(Current) => LatestNonempty \in Snapshots
    <3>1. Nonempty \subseteq Snapshots
      BY <1>0 DEF Nonempty
    <3> QED BY <1>0, <3>1, LatestIs DEF NeedsRestore
  <2>2. /\ snap' \in Snapshots \cup {NoSnapshot} /\ then' \in {"sleep", "work", "restored"}
        /\ pc' \in {"publish", "restored"}
    BY <1>0, <1>4, <2>1 DEF Restore
  <2> QED BY <1>0, <1>4, <2>2 DEF Restore, client
<1>5. CASE Restored
  BY <1>0, <1>5 DEF Restored, store, client
<1>6. ASSUME NEW full \in BOOLEAN, NEW rank \in Ranks, NEW size \in 0 .. MaxSize,
             NEW next \in {"work", "sleep"}, Build(full, rank, size, next)
      PROVE  TypeOK'
  <2>1. now' \in 0 .. MaxTime
    BY <1>0, <1>6 DEF Build
  <2> QED BY <1>0, <1>6, <2>1, BuildIs
<1>7. CASE Judge
  <2>1. /\ asOf' \in 0 .. MaxTime /\ snap' \in Snapshots \cup {NoSnapshot}
        /\ pc' \in {"publish", "sleep", "work", "restored"} /\ then' \in {"sleep", "work", "restored"}
    BY <1>0, <1>7 DEF Judge, GoTo
  <2> QED BY <1>0, <1>7, <2>1 DEF Judge, client
<1>8. CASE Publish
  <2>1. /\ published' = {snap} /\ issued' = issued \cup {snap} /\ snap \in Snapshots
        /\ rows' \subseteq rows \cup {snap} /\ snap \in rows'
        /\ during' \subseteq issued'
    BY <1>0, <1>8, PublishIs
  <2> QED BY <1>0, <1>8, <2>1, PublishIs
<1>9. CASE SetCache
  <2>1. /\ asOf' \in 0 .. MaxTime /\ snap' \in Snapshots \cup {NoSnapshot}
        /\ pc' \in {"sleep", "work", "restored"} /\ then' \in {"sleep", "work", "restored"}
    BY <1>0, <1>9 DEF SetCache, GoTo
  <2> QED BY <1>0, <1>9, <2>1 DEF SetCache, client
<1>10. CASE Fail
  BY <1>0, <1>10 DEF Fail, GoTo, store, client
<1>11. CASE Restart
  BY <1>0, <1>11 DEF Restart, GoTo
<1>12. CASE ReadPublished
  <2>1. published \subseteq issued
    BY <1>0 DEF Copies
  <2>2. /\ target' \in Snapshots \cup {NoSnapshot} /\ during' \subseteq issued
        /\ request' \in {"none", "load", "baseline"} /\ answer' \in {"none", "preparing"}
        /\ cache' \in Snapshots \cup {NoSnapshot}
    BY <1>0, <1>12, <2>1 DEF ReadPublished, Reply
  <2> QED BY <1>0, <1>12, <2>2 DEF ReadPublished, cycle
<1>13. CASE LoadRow
  BY <1>0, <1>13 DEF LoadRow, store, cycle
<1>14. CASE Loaded
  <2>1. /\ target' \in Snapshots \cup {NoSnapshot} /\ during' \subseteq issued
        /\ request' \in {"none", "baseline"} /\ answer' \in {answer, "preparing"}
        /\ cache' \in Snapshots \cup {NoSnapshot}
    BY <1>0, <1>14 DEF Loaded, Reply
  <2> QED BY <1>0, <1>14, <2>1 DEF Loaded, cycle
<1>15. CASE Baseline
  <2>1. /\ target' = NoSnapshot /\ during' = {} /\ request' = "none"
        /\ answer' \in {"full", "baseline_unavailable", "rejected", "delta"}
        /\ cursor' \in {cursor, target}
    BY <1>15 DEF Baseline, Reply
  <2> QED BY <1>0, <1>15, <2>1 DEF Baseline, store, cycle
<1>16. CASE UNCHANGED vars
  BY <1>0, <1>16 DEF vars, store, cycle, client
<1> QED BY <1>1, <1>2, <1>3, <1>4, <1>5, <1>6, <1>7, <1>8, <1>9, <1>10, <1>11, <1>12, <1>13,
           <1>14,
           <1>15, <1>16 DEF Next, CycleStep, ClientStep

-----------------------------------------------------------------------------
(* The parts of the invariant.                                             *)

\* Times of building tell reports apart.
LEMMA ToldKeeps == ASSUME ConstantsOK, IInv, TypeOK', [Next]_vars PROVE Told'
<1>0. /\ Told /\ now \in Nat /\ now' \in Nat
      /\ \A r \in Reports : r \in Snapshots /\ r.built \in Nat /\ r.built < now
  <2>1. TypeOK /\ Told /\ MaxTime \in Nat
    BY DEF IInv, ConstantsOK
  <2>2. Reports \subseteq Snapshots
    BY <2>1 DEF TypeOK, Reports
  <2>3. now \in Nat /\ now' \in Nat
    BY <2>1 DEF TypeOK
  <2> QED BY <2>1, <2>2, <2>3, ReportIs DEF Told
<1>1. ASSUME Reports' \subseteq Reports, now' \in {now, now + 1} PROVE Told'
  BY <1>0, <1>1 DEF Told
<1>2. ASSUME NEW full \in BOOLEAN, NEW rank \in Ranks, NEW size \in 0 .. MaxSize,
             NEW next \in {"work", "sleep"}, Build(full, rank, size, next)
      PROVE  Told'
  <2>1. snap'.built = now /\ now' = now + 1 /\ \A r \in Reports' : r \in Reports \/ r = snap'
    BY <1>2, BuildIs DEF Reports
  <2>2. \A r \in Reports' : r.built < now'
    BY <1>0, <2>1
  <2>3. \A r, s \in Reports' : r.built = s.built => r = s
    BY <1>0, <2>1 DEF Told
  <2> QED BY <2>2, <2>3 DEF Told
<1>3. CASE Publish
  <2>1. Reports' \subseteq Reports /\ now' = now
    BY <1>3, PublishIs DEF Reports
  <2> QED BY <1>1, <2>1
<1>4. ASSUME snap' = snap \/ snap' = NoSnapshot, issued' = issued, now' \in {now, now + 1}
      PROVE  Told'
  BY <1>1, <1>4 DEF Reports
<1>5. CASE Restore
  <2>1. snap' \in Reports \cup {NoSnapshot}
    <3>1. NeedsRestore(Current) => LatestNonempty \in rows
      BY LatestIs DEF NeedsRestore, IInv, Nonempty
    <3>2. rows \subseteq Reports
      BY DEF IInv, Copies, Reports
    <3> QED BY <1>5, <3>1, <3>2 DEF Restore, Reports
  <2>2. Reports' \subseteq Reports /\ now' = now
    BY <1>5, <2>1 DEF Restore, Reports
  <2> QED BY <1>1, <2>2
<1>6. CASE Tick \/ UNCHANGED vars \/ ClientStep
  BY <1>4, <1>6 DEF Tick, vars, cycle, ClientStep, ReadPublished, LoadRow, Loaded, Baseline
<1>7. CASE (\E ing \in BOOLEAN : StartCycle(ing)) \/ EndCollect \/ Restored
  BY <1>4, <1>7 DEF StartCycle, EndCollect, Restored
<1>8. CASE Judge \/ SetCache \/ Fail \/ Restart
  BY <1>4, <1>8 DEF Judge, SetCache, Fail, Restart, GoTo
<1> QED BY <1>2, <1>3, <1>5, <1>6, <1>7, <1>8 DEF Next, CycleStep

\* Copies are of published reports.
LEMMA CopiesKeeps == ASSUME ConstantsOK, IInv, [Next]_vars PROVE Copies'
<1>0. TypeOK /\ Copies /\ Current \in issued \cup {NoSnapshot}
  <2>1. TypeOK /\ Copies
    BY DEF IInv
  <2>2. published \subseteq issued
    BY <2>1 DEF TypeOK, Copies
  <2> QED BY <2>1, <2>2, CurrentIs
<1>1. CASE Publish
  <2>1. rows' \subseteq rows \cup {snap} /\ issued' = issued \cup {snap}
        /\ UNCHANGED <<cache, target, cursor>>
    BY <1>1, PublishIs
  <2>2. IsFiniteSet(rows')
    BY <1>0, <2>1, FS_AddElement, FS_Subset DEF Copies
  <2> QED BY <1>0, <2>1, <2>2 DEF Copies
<1>2. CASE ~ Publish
  <2>1. UNCHANGED <<rows, issued>>
    BY <1>2, RowsStay
  <2>2. {cache', target', cursor'} \subseteq issued \cup {NoSnapshot}
    <3>1. CASE SetCache
      <4>1. snap \in issued /\ cache' = snap /\ UNCHANGED <<target, cursor>>
        BY <1>0, <3>1 DEF SetCache, client, IInv, Ready, TypeOK, Copies
      <4> QED BY <1>0, <4>1 DEF Copies
    <3>2. CASE Restore \/ Judge
      BY <1>0, <3>2 DEF Restore, Judge, client, Copies
    <3>3. CASE Restart \/ ClientStep
      BY <1>0, <3>3 DEF Restart, ClientStep, ReadPublished, LoadRow, Loaded, Baseline, Reply,
             Copies,
                        store, cycle
    <3>4. CASE UNCHANGED <<cache, target, cursor>>
      BY <1>0, <3>4 DEF Copies
    <3> QED BY <1>2, <3>1, <3>2, <3>3, <3>4
        DEF Next, CycleStep, vars, store, client, Tick, StartCycle, EndCollect, Restored, Build, Fail
  <2> QED BY <1>0, <2>1, <2>2 DEF Copies
<1> QED BY <1>1, <1>2

\* What is about to be published is new, or a useful report to restore.
LEMMA ReadyKeeps == ASSUME ConstantsOK, IInv, TypeOK', [Next]_vars PROVE Ready'
<1>0. TypeOK /\ Ready /\ Told
  BY DEF IInv
<1>1. ASSUME pc' \notin {"judge", "publish", "cache"} PROVE Ready'
  BY <1>1 DEF Ready
<1>2. ASSUME UNCHANGED <<pc, snap, then, rows, published, issued>> PROVE Ready'
  BY <1>0, <1>2 DEF Ready, New
<1>3. CASE Restore
  <2>1. CASE NeedsRestore(Current)
    <3>1. snap' = LatestNonempty /\ then' = "restored" /\ pc' = "publish"
          /\ UNCHANGED <<rows, published>>
      BY <1>3, <2>1 DEF Restore
    <3>2. LatestNonempty \in rows /\ LatestNonempty.size > 0
      BY <2>1, LatestIs DEF NeedsRestore, IInv, Nonempty
    <3>3. Current \in published /\ EmptyPartial(Current)
      BY <1>0, <2>1, CurrentIs DEF NeedsRestore, EmptyPartial
    <3> QED BY <3>1, <3>2, <3>3 DEF Ready
  <2>2. CASE ~ NeedsRestore(Current)
    BY <1>1, <1>3, <2>2 DEF Restore
  <2> QED BY <2>1, <2>2
<1>4. ASSUME NEW full \in BOOLEAN, NEW rank \in Ranks, NEW size \in 0 .. MaxSize,
             NEW next \in {"work", "sleep"}, Build(full, rank, size, next)
      PROVE  Ready'
  <2>1. snap' # NoSnapshot /\ snap'.built = now /\ snap'.full = full /\ then' = next
        /\ pc' = (IF full THEN "publish" ELSE "judge") /\ issued' = issued
    BY <1>4, BuildIs
  <2>2. \A r \in issued : r.built < now
    BY <1>0 DEF Told, Reports
  <2>3. New'
    BY <2>1, <2>2 DEF New
  <2> QED BY <2>1, <2>3 DEF Ready
<1>5. CASE Judge
  <2>1. UNCHANGED <<rows, published, issued>>
    BY <1>5 DEF Judge
  <2>2. New /\ ~ snap.full /\ then # "restored"
    BY <1>0, <1>5 DEF Judge, Ready
  <2>3. CASE pc' = "publish"
    <3>1. snap' = snap /\ then' = then /\ Publishable(snap, Current)
      BY <1>0, <1>5, <2>3 DEF Judge, GoTo, TypeOK
    <3>2. snap.size > 0 \/ \A r \in published : r.size = 0
      BY <1>0, <3>1, CurrentIs, ReportIs DEF Publishable
    <3> QED BY <2>1, <2>2, <2>3, <3>1, <3>2 DEF Ready, New
  <2>4. CASE pc' # "publish"
    <3>1. pc' = then
      BY <1>5, <2>4 DEF Judge, GoTo
    <3> QED BY <1>0, <1>1, <3>1 DEF TypeOK
  <2> QED BY <2>3, <2>4
<1>6. CASE Publish
  <2>1. pc' = "cache" /\ published' = {snap} /\ snap' = snap /\ then' = then /\ snap # NoSnapshot
    BY <1>6, PublishIs, ReportIs
  <2>2. then = "restored" => snap.size > 0
    BY <1>0, <1>6 DEF Ready, Publish
  <2> QED BY <2>1, <2>2 DEF Ready
<1>7. CASE Tick \/ UNCHANGED vars \/ ClientStep
  BY <1>2, <1>7 DEF Tick, vars, store, cycle, ClientStep, ReadPublished, LoadRow, Loaded,
         Baseline
<1>8. CASE (\E ing \in BOOLEAN : StartCycle(ing)) \/ EndCollect \/ Restored \/ SetCache \/ Fail \/ Restart
  <2>1. pc' \notin {"judge", "publish", "cache"}
    BY <1>0, <1>8 DEF StartCycle, EndCollect, Restored, SetCache, Fail, Restart, GoTo, TypeOK
  <2> QED BY <1>1, <2>1
<1> QED BY <1>3, <1>4, <1>5, <1>6, <1>7, <1>8 DEF Next, CycleStep

\* An empty report is published while it is the newest.
LEMMA NewestKeeps == ASSUME ConstantsOK, IInv, [Next]_vars PROVE Newest'
<1>1. CASE Publish
  <2>1. published' = {snap} /\ issued' = issued \cup {snap} /\ snap \in Snapshots
    BY <1>1, PublishIs
  <2>2. CASE New
    <3>1. \A r \in issued : r.built \in Nat
      BY ReportIs DEF IInv, TypeOK
    <3> QED BY <2>1, <2>2, <3>1, ReportIs DEF Newest, New
  <2>3. CASE snap.size > 0
    BY <2>1, <2>3, ReportIs DEF Newest
  <2> QED BY <1>1, <2>2, <2>3 DEF IInv, Ready, Publish
<1>2. CASE ~ Publish
  BY <1>2, RowsStay DEF IInv, Newest
<1> QED BY <1>1, <1>2

\* What was emptied stays so.
LEMMA EmptiedStays ==
  ASSUME IInv, [Next]_vars, NEW r, Emptied(r)
  PROVE  \E e \in issued' : EmptyPartial(e) /\ e.built >= r.built
<1>1. issued \subseteq issued'
  BY RowsStay, PublishIs
<1> QED BY <1>1 DEF Emptied

\* An older report comes back only over an empty partial one.
LEMMA RestorableKeeps == ASSUME ConstantsOK, IInv, [Next]_vars PROVE Restorable'
<1>0. /\ TypeOK /\ Told /\ Copies /\ Restorable /\ Newest
      /\ published \subseteq issued
      /\ \A r \in issued : r \in Snapshots /\ r.built \in Nat
      /\ cursor \in issued \cup {NoSnapshot} /\ NoSnapshot.built = -1
  <2>1. TypeOK /\ Told /\ Copies /\ Restorable /\ Newest
    BY DEF IInv
  <2>2. published \subseteq issued /\ issued \subseteq Snapshots /\ cursor \in issued \cup {NoSnapshot}
    BY <2>1 DEF TypeOK, Copies
  <2> QED BY <2>1, <2>2, ReportIs DEF NoSnapshot
<1>1. ASSUME NEW p \in published', NEW r \in issued', r.built > p.built
      PROVE  \E e \in issued' : EmptyPartial(e) /\ e.built >= r.built
  <2>1. CASE Publish
    <3>1. p = snap /\ (r \in issued \/ r = snap) /\ snap \in Snapshots
      BY <1>1, <2>1, PublishIs
    <3>2. r \in issued /\ ~ New
      BY <1>0, <1>1, <3>1, ReportIs DEF New
    <3>3. PICK e \in published : EmptyPartial(e)
      BY <2>1, <3>2 DEF IInv, Ready, Publish
    <3>4. r.built <= e.built /\ e \in issued
      BY <1>0, <3>2, <3>3 DEF Newest, EmptyPartial
    <3>5. Emptied(r)
      BY <1>0, <3>2, <3>3, <3>4 DEF Emptied
    <3> QED BY <3>5, EmptiedStays
  <2>2. CASE ~ Publish
    <3>1. Emptied(r)
      BY <1>0, <1>1, <2>2, RowsStay DEF Restorable
    <3> QED BY <3>1, EmptiedStays
  <2> QED BY <2>1, <2>2
<1>2. ASSUME request' # "none", cursor'.built > target'.built
      PROVE  \E e \in issued' : EmptyPartial(e) /\ e.built >= cursor'.built
  <2>1. CASE ReadPublished
    <3>1. published # {} /\ cursor' = cursor /\ target' \in {cache, Current}
          /\ (target' = cache => Id(cache) = Id(Current) \/ target' = Current)
      BY <1>2, <2>1 DEF ReadPublished, Reply
    <3>2. Current \in published
      BY <1>0, <3>1, CurrentIs
    <3>3. target'.built = Current.built
      <4>1. Id(cache)[4] = cache.built /\ Id(Current)[4] = Current.built
        BY DEF Id
      <4> QED BY <3>1, <4>1
    <3>4. cursor \in issued /\ cursor.built > Current.built
      BY <1>0, <1>2, <3>1, <3>2, <3>3
    <3>5. Emptied(cursor)
      BY <1>0, <3>2, <3>4 DEF Restorable
    <3> QED BY <3>1, <3>5, EmptiedStays
  <2>2. CASE ~ ReadPublished
    <3>1. request # "none" /\ cursor' = cursor /\ target' = target
      BY <1>2, <2>2 DEF Next, CycleStep, ClientStep, vars, client, Tick, StartCycle, EndCollect,
             Restore,
         Restored, Build, Judge, Publish, SetCache, Fail, Restart, LoadRow, Loaded, Baseline, Reply
    <3>2. Emptied(cursor)
      BY <1>0, <1>2, <3>1 DEF Restorable
    <3> QED BY <3>1, <3>2, EmptiedStays
  <2> QED BY <2>1, <2>2
<1> QED BY <1>1, <1>2 DEF Restorable, Emptied

\* Reports within the retention stay.
LEMMA RetentionKeeps == ASSUME ConstantsOK, IInv, [Next]_vars PROVE KeptForRetention'
<1>1. CASE Publish
  <2>1. ASSUME NEW s \in issued', \A r \in issued' : s.t >= r.t - Retention PROVE s \in rows'
    <3>1. issued' = issued \cup {snap} /\ rows' = {r \in rows \cup {snap} : r = snap \/ Survives(r, snap)}
      BY <1>1, PublishIs
    <3>2. s = snap \/ s \in rows
      BY <2>1, <3>1 DEF IInv, KeptForRetention
    <3>3. Survives(s, snap)
      BY <2>1, <3>1 DEF Survives
    <3> QED BY <3>1, <3>2, <3>3
  <2> QED BY <2>1 DEF KeptForRetention
<1>2. CASE ~ Publish
  BY <1>2, RowsStay DEF IInv, KeptForRetention
<1> QED BY <1>1, <1>2

\* Analysis goes on behind a useful report.
LEMMA UsefulKeeps == ASSUME ConstantsOK, IInv, [Next]_vars PROVE UsefulReportRestored'
<1>0. TypeOK /\ Ready /\ UsefulReportRestored
  BY DEF IInv
<1>1. ASSUME UNCHANGED <<pc, rows, published>> PROVE UsefulReportRestored'
  BY <1>0, <1>1 DEF UsefulReportRestored, Current, Nonempty
<1>2. ASSUME pc' # "restored" PROVE UsefulReportRestored'
  BY <1>2 DEF UsefulReportRestored
<1>3. CASE Restore /\ pc' = "restored"
  <2>1. ~ NeedsRestore(Current) /\ UNCHANGED <<rows, published>>
    BY <1>3 DEF Restore
  <2>2. ~ (published # {} /\ Current.size = 0 /\ ~ Current.full /\ Nonempty # {})
    BY <1>0, <2>1, CurrentIs, ReportIs DEF NeedsRestore
  <2> QED BY <2>1, <2>2 DEF UsefulReportRestored, Current, Nonempty
<1>4. CASE SetCache /\ pc' = "restored"
  <2>1. published' = {snap} /\ snap.size > 0
    BY <1>0, <1>4 DEF SetCache, GoTo, Ready
  <2>2. Current' = snap
    BY <2>1 DEF Current
  <2>3. snap \in Snapshots
    BY <1>0, <1>4 DEF Ready, SetCache, TypeOK
  <2>4. Current'.size # 0
    BY <2>1, <2>2, <2>3, ReportIs
  <2> QED BY <2>4 DEF UsefulReportRestored
<1>5. CASE Judge
  BY <1>0, <1>2, <1>5 DEF Judge, GoTo, Ready
<1>6. CASE Publish
  BY <1>2, <1>6, PublishIs
<1>7. CASE Tick \/ UNCHANGED vars \/ ClientStep
  BY <1>1, <1>7 DEF Tick, vars, store, cycle, ClientStep, ReadPublished, LoadRow, Loaded,
         Baseline
<1>8. CASE (\E ing \in BOOLEAN : StartCycle(ing)) \/ EndCollect \/ Restored \/ Fail \/ Restart
  <2>1. pc' # "restored" \/ UNCHANGED <<pc, rows, published>>
    BY <1>8 DEF StartCycle, EndCollect, Restored, Fail, Restart, GoTo, store
  <2> QED BY <1>1, <1>2, <2>1
<1>9. ASSUME NEW full \in BOOLEAN, NEW rank \in Ranks, NEW size \in 0 .. MaxSize,
             NEW next \in {"work", "sleep"}, Build(full, rank, size, next)
      PROVE  UsefulReportRestored'
  BY <1>2, <1>9, BuildIs
<1>10. CASE (Restore \/ SetCache) /\ pc' # "restored"
  BY <1>2, <1>10
<1> QED BY <1>3, <1>4, <1>5, <1>6, <1>7, <1>8, <1>9, <1>10 DEF Next, CycleStep

\* The client is told the truth about its cursor, and gets what was published meanwhile.
LEMMA ClientKeeps ==
  ASSUME ConstantsOK, IInv, [Next]_vars
  PROVE  OnlyRestoredIsRejected' /\ (request' # "none" => target' \in during')
<1>0. TypeOK /\ Told /\ Copies /\ Restorable /\ OnlyRestoredIsRejected
      /\ (request # "none" => target \in during)
  BY DEF IInv
<1>1. ASSUME answer' = "rejected"
      PROVE  \E e \in issued' : EmptyPartial(e) /\ e.built >= cursor'.built
  <2>1. CASE Baseline
    <3>1. cursor' = cursor /\ cursor.built > target.built /\ request = "baseline"
      BY <1>1, <2>1 DEF Baseline, Reply
    <3>2. Emptied(cursor)
      BY <1>0, <3>1 DEF Restorable
    <3> QED BY <3>1, <3>2, EmptiedStays
  <2>2. CASE ~ Baseline
    <3>1. answer = "rejected" /\ cursor' = cursor
      BY <1>1, <2>2 DEF Next, CycleStep, ClientStep, vars, client, Tick, StartCycle, EndCollect,
             Restore,
         Restored, Build, Judge, Publish, SetCache, Fail, Restart, ReadPublished, LoadRow, Loaded, Reply
    <3>2. Emptied(cursor)
      BY <1>0, <3>1 DEF OnlyRestoredIsRejected, Emptied
    <3> QED BY <3>1, <3>2, EmptiedStays
  <2> QED BY <2>1, <2>2
<1>2. ASSUME request' # "none" PROVE target' \in during'
  <2>1. CASE ReadPublished
    <3>1. published # {} /\ during' = published
          /\ (target' = Current \/ (target' = cache /\ Id(cache) = Id(Current)))
      BY <1>2, <2>1 DEF ReadPublished, Reply
    <3>2. Current \in published /\ Current \in Snapshots /\ published \subseteq issued
      BY <1>0, <3>1, CurrentIs DEF TypeOK, Copies
    <3>3. ASSUME Id(cache) = Id(Current) PROVE cache = Current
      <4>1. cache # NoSnapshot
        BY <3>2, <3>3, ReportIs
      <4>2. cache \in Reports /\ Current \in Reports
        BY <1>0, <3>2, <4>1 DEF Copies, Reports
      <4>3. Id(cache)[4] = cache.built /\ Id(Current)[4] = Current.built
        BY DEF Id
      <4> QED BY <1>0, <3>3, <4>2, <4>3 DEF Told
    <3> QED BY <3>1, <3>2, <3>3
  <2>2. CASE ~ ReadPublished
    <3>1. request # "none" /\ target' = target /\ during \subseteq during'
      BY <1>2, <2>2 DEF Next, CycleStep, ClientStep, vars, client, Tick, StartCycle, EndCollect,
             Restore,
         Restored, Build, Judge, Publish, SetCache, Fail, Restart, LoadRow, Loaded, Baseline, Reply
    <3> QED BY <1>0, <3>1
  <2> QED BY <2>1, <2>2
<1> QED BY <1>1, <1>2 DEF OnlyRestoredIsRejected

-----------------------------------------------------------------------------
(* The invariant and the theorems.                                         *)

\* Before the first report there is nothing to be wrong about.
LEMMA InitInv == ASSUME ConstantsOK, Init PROVE IInv
<1>0. MaxTime \in Nat /\ IsFiniteSet({}) /\ NoSnapshot.built = -1
  BY FS_EmptySet DEF ConstantsOK, NoSnapshot
<1>1. TypeOK
  BY <1>0 DEF Init, TypeOK
<1>2. Told /\ Copies
  BY <1>0 DEF Init, Told, Copies, Reports
<1>3. Ready /\ Newest /\ Restorable /\ KeptForRetention /\ UsefulReportRestored /\ OnlyRestoredIsRejected
  BY DEF Init, Ready, Newest, Restorable, KeptForRetention, UsefulReportRestored,
         OnlyRestoredIsRejected
<1> QED BY <1>1, <1>2, <1>3 DEF Init, IInv

\* Every step keeps the invariant.
LEMMA StepInv == ASSUME ConstantsOK, IInv, [Next]_vars PROVE IInv'
<1>1. TypeOK'
  BY TypeKeeps
<1>2. Told' /\ Copies' /\ Ready' /\ Newest'
  BY <1>1, ToldKeeps, CopiesKeeps, ReadyKeeps, NewestKeeps
<1>3. Restorable' /\ KeptForRetention' /\ UsefulReportRestored'
  BY RestorableKeeps, RetentionKeeps, UsefulKeeps
<1>4. OnlyRestoredIsRejected' /\ (request' # "none" => target' \in during')
  BY ClientKeeps
<1> QED BY <1>1, <1>2, <1>3, <1>4 DEF IInv

\* The invariant holds in every run of the store.
LEMMA Invariance == ASSUME ConstantsOK PROVE Spec => []IInv
<1>1. Init => IInv
  BY InitInv
<1>2. IInv /\ [Next]_vars => IInv'
  BY StepInv
<1> QED BY <1>1, <1>2, PTL DEF Spec

\* At most one row is published, and it is one of the rows (the flag of agenda_snapshot).
THEOREM TypeCorrect == ASSUME ConstantsOK PROVE Spec => []TypeOK
<1>1. IInv => TypeOK
  BY DEF IInv
<1> QED BY <1>1, Invariance, PTL

\* publish_snapshot is never refused for an id that names another report.
THEOREM IdsNameOneReport == ASSUME ConstantsOK PROVE Spec => []NeverRefused
<1>1. ASSUME IInv, pc = "publish", NEW r \in rows, Id(r) = Id(snap), r # snap PROVE FALSE
  <2>1. r \in Reports /\ snap \in Reports
    BY <1>1 DEF IInv, Ready, New, Copies, Reports
  <2>2. Id(r)[4] = r.built /\ Id(snap)[4] = snap.built
    BY DEF Id
  <2> QED BY <1>1, <2>1, <2>2 DEF IInv, Told
<1>2. IInv => NeverRefused
  BY <1>1 DEF NeverRefused, Refused
<1> QED BY <1>2, Invariance, PTL

\* A report can be fetched for the whole retention (the delete of publish_snapshot).
THEOREM ReportsAreKept == ASSUME ConstantsOK PROVE Spec => []KeptForRetention
<1>1. IInv => KeptForRetention
  BY DEF IInv
<1> QED BY <1>1, Invariance, PTL

\* After restore_useful_snapshot an empty partial report is shown only if no other is retained.
THEOREM UsefulIsRestored == ASSUME ConstantsOK PROVE Spec => []UsefulReportRestored
<1>1. IInv => UsefulReportRestored
  BY DEF IInv
<1> QED BY <1>1, Invariance, PTL

\* get_snapshot answers with a report that was published while the request ran, whatever
\* its cache, the pruning of rows and the publications between its two queries.
THEOREM RequestsAreCurrent == ASSUME ConstantsOK PROVE Spec => []TargetWasPublished
<1>1. IInv => TargetWasPublished
  BY DEF IInv, TargetWasPublished
<1> QED BY <1>1, Invariance, PTL

\* compare_snapshots refuses a client's cursor only where a report was restored over an
\* empty partial one that is at least as new as the cursor.
THEOREM RejectionIsExplained == ASSUME ConstantsOK PROVE Spec => []OnlyRestoredIsRejected
<1>1. IInv => OnlyRestoredIsRejected
  BY DEF IInv
<1> QED BY <1>1, Invariance, PTL

\* A published report with stories gives way to an empty one only if that is a full
\* analysis (_partial_is_publishable and restore_useful_snapshot), and never to none.
THEOREM BackfillHidesNothing == ASSUME ConstantsOK PROVE Spec => [][NotHiddenByBackfill]_vars
<1>1. ASSUME IInv, Next PROVE NotHiddenByBackfill
  <2>1. CASE Publish
    <3>1. published' = {snap}
      BY <1>1, <2>1, PublishIs
    <3>2. ASSUME NEW r \in published, snap.size = 0 PROVE r.size = 0 \/ snap.full
      BY <1>1, <2>1, <3>2 DEF IInv, Ready, Publish
    <3> QED BY <3>1, <3>2 DEF NotHiddenByBackfill
  <2>2. CASE ~ Publish
    <3>1. published' = published /\ \A r, s \in published : r = s
      BY <1>1, <2>2, RowsStay DEF IInv, TypeOK
    <3> QED BY <3>1 DEF NotHiddenByBackfill
  <2> QED BY <2>1, <2>2
<1> QED BY <1>1, Invariance, PTL DEF Spec

-----------------------------------------------------------------------------
(* The audit trail.  The bytes that are counted are those of the queue and *)
(* of what is being written (AuditBytes), and what was not stored is in    *)
(* one of them or owned up to (AuditTold).                                 *)
CONSTANTS Calls, QueueEvents, QueueBytes, EventBytes, Sizes
VARIABLES phase, queue, writing, pending, emitted, stored, dropped, state, closing, verdict

Trail == INSTANCE AuditRecorder

-----------------------------------------------------------------------------
\* The running sum that Bytes is defined by exists.
LEMMA SumExists ==
    ASSUME NEW q, NEW m \in Nat
    PROVE  \E f : f = [i \in 0 .. m |-> IF i = 0 THEN 0 ELSE f[i - 1] + q[i].size]
<1> DEFINE Is(f, n) == f = [i \in 0 .. n |-> IF i = 0 THEN 0 ELSE f[i - 1] + q[i].size]
           S == {n \in Nat : \E f : Is(f, n)}
<1>1. 0 \in S
    <2> DEFINE g == [i \in 0 .. 0 |-> 0]
    <2>1. Is(g, 0)
        OBVIOUS
    <2> QED BY <2>1
<1>2. ASSUME NEW n \in Nat, n \in S PROVE n + 1 \in S
    <2>1. PICK f : Is(f, n)
        BY <1>2
    <2> DEFINE g == [i \in 0 .. n + 1 |-> IF i \in 0 .. n THEN f[i] ELSE f[n] + q[n + 1].size]
    <2>2. ASSUME NEW i \in 0 .. n + 1
          PROVE  g[i] = IF i = 0 THEN 0 ELSE g[i - 1] + q[i].size
        <3>1. CASE i = n + 1
            <4>1. i # 0 /\ i - 1 = n /\ n \in 0 .. n /\ n \in 0 .. n + 1 /\ i \notin 0 .. n
                BY <3>1
            <4>2. g[n] = f[n] /\ g[i] = f[n] + q[n + 1].size
                BY <4>1
            <4> QED BY <4>1, <4>2, <3>1
        <3>2. CASE i \in 0 .. n
            <4>1. f[i] = IF i = 0 THEN 0 ELSE f[i - 1] + q[i].size
                BY <2>1, <3>2
            <4>2. g[i] = f[i]
                BY <3>2
            <4>3. i # 0 => i - 1 \in 0 .. n /\ i - 1 \in 0 .. n + 1
                BY <3>2
            <4>4. i # 0 => g[i - 1] = f[i - 1]
                BY <4>3
            <4> QED BY <4>1, <4>2, <4>4
        <3> QED BY <3>1, <3>2
    <2>3. Is(g, n + 1)
        <3> DEFINE h == [i \in 0 .. n + 1 |-> IF i = 0 THEN 0 ELSE g[i - 1] + q[i].size]
        <3>1. g = h
            <4> HIDE DEF Is
            <4>1. \A i \in 0 .. n + 1 : g[i] = h[i]
                BY <2>2
            <4> QED BY <4>1
        <3> QED BY <3>1
    <2> HIDE DEF g, Is
    <2>4. n + 1 \in Nat
        OBVIOUS
    <2> QED BY <2>3, <2>4
<1>3. m \in S
    <2> HIDE DEF S
    <2> QED BY <1>1, <1>2, Induct
<1> QED BY <1>3

\* What Bytes is: the last of a running sum.
LEMMA BytesIs ==
    ASSUME NEW q, NEW n \in Nat, Len(q) = n
    PROVE  \E f : /\ f[0] = 0
                  /\ \A j \in Nat : j + 1 <= n => f[j + 1] = f[j] + q[j + 1].size
                  /\ Trail!Bytes(q) = f[n]
<1>1. PICK f : /\ f = [i \in 0 .. n |-> IF i = 0 THEN 0 ELSE f[i - 1] + q[i].size]
               /\ Trail!Bytes(q) = f[n]
    BY SumExists DEF Trail!Bytes
<1>2. f[0] = 0
    <2>1. 0 \in 0 .. n
        OBVIOUS
    <2> QED BY <1>1, <2>1
<1>3. \A i \in 0 .. n : f[i] = IF i = 0 THEN 0 ELSE f[i - 1] + q[i].size
    BY <1>1
<1>4. ASSUME NEW j \in Nat, j + 1 <= n PROVE f[j + 1] = f[j] + q[j + 1].size
    <2>1. j + 1 \in 0 .. n /\ j + 1 # 0 /\ j + 1 - 1 = j
        BY <1>4
    <2> QED BY <1>3, <2>1
<1> QED BY <1>1, <1>2, <1>4

LEMMA BytesOfNone == Trail!Bytes(<<>>) = 0
<1>1. Len(<<>>) = 0 /\ Len(<<>>) \in Nat
    OBVIOUS
<1> QED BY <1>1, BytesIs

\* Adding an event adds its size.
LEMMA BytesAppend ==
    ASSUME NEW R, NEW q \in Seq(R), NEW e \in R
    PROVE  Trail!Bytes(Append(q, e)) = Trail!Bytes(q) + e.size
<1> DEFINE p == Append(q, e)
           n == Len(q)
<1>1. n \in Nat /\ Len(p) = n + 1 /\ p[n + 1] = e
    OBVIOUS
<1>2. \A i \in 1 .. n : p[i] = q[i]
    OBVIOUS
<1>3. PICK f : /\ f[0] = 0
               /\ \A j \in Nat : j + 1 <= n => f[j + 1] = f[j] + q[j + 1].size
               /\ Trail!Bytes(q) = f[n]
    BY <1>1, BytesIs
<1> HIDE DEF p
<1>4. Len(p) \in Nat
    BY <1>1
<1>5. PICK g : /\ g[0] = 0
               /\ \A j \in Nat : j + 1 <= n + 1 => g[j + 1] = g[j] + p[j + 1].size
               /\ Trail!Bytes(p) = g[n + 1]
    BY <1>1, BytesIs
<1> HIDE DEF n
<1> DEFINE S == {i \in Nat : i <= n => f[i] = g[i]}
<1>6. 0 \in S
    BY <1>1, <1>3, <1>5
<1>7. ASSUME NEW i \in Nat, i \in S PROVE i + 1 \in S
    <2>1. SUFFICES ASSUME i + 1 <= n PROVE f[i + 1] = g[i + 1]
        OBVIOUS
    <2>2. f[i] = g[i]
        BY <1>1, <1>7, <2>1
    <2>3. i + 1 \in 0 .. n /\ i + 1 \in 0 .. n + 1 /\ i + 1 # 0 /\ i + 1 - 1 = i /\ i + 1 \in 1 .. n
        BY <1>1, <2>1
    <2>4. f[i + 1] = f[i] + q[i + 1].size
        BY <1>3, <2>3
    <2>5. g[i + 1] = g[i] + p[i + 1].size
        BY <1>5, <2>3
    <2> QED BY <1>2, <2>2, <2>3, <2>4, <2>5
<1>8. n \in S
    <2> HIDE DEF S
    <2> QED BY <1>1, <1>6, <1>7, Induct
<1>9. f[n] = g[n]
    BY <1>1, <1>8
<1>10. g[n + 1] = g[n] + p[n + 1].size
    BY <1>1, <1>5
<1> QED BY <1>1, <1>3, <1>5, <1>9, <1>10 DEF p

\* A queue of sizes that are numbers has a number of bytes.
LEMMA BytesAreNat ==
    ASSUME NEW R, NEW q \in Seq(R), \A e \in R : e.size \in Nat
    PROVE  Trail!Bytes(q) \in Nat
<1> DEFINE n == Len(q)
<1>1. n \in Nat
    OBVIOUS
<1>2. PICK f : /\ f[0] = 0
               /\ \A j \in Nat : j + 1 <= n => f[j + 1] = f[j] + q[j + 1].size
               /\ Trail!Bytes(q) = f[n]
    BY <1>1, BytesIs
<1>3. \A i \in 1 .. n : q[i].size \in Nat
    OBVIOUS
<1> HIDE DEF n
<1> DEFINE S == {i \in Nat : i <= n => f[i] \in Nat}
<1>4. 0 \in S
    BY <1>1, <1>2
<1>5. ASSUME NEW i \in Nat, i \in S PROVE i + 1 \in S
    <2>1. SUFFICES ASSUME i + 1 <= n PROVE f[i + 1] \in Nat
        OBVIOUS
    <2>2. f[i] \in Nat
        BY <1>1, <1>5, <2>1
    <2>3. i + 1 \in 0 .. n /\ i + 1 # 0 /\ i + 1 - 1 = i /\ i + 1 \in 1 .. n
        BY <1>1, <2>1
    <2>4. f[i + 1] = f[i] + q[i + 1].size
        BY <1>2, <2>3
    <2> QED BY <1>3, <2>2, <2>3, <2>4
<1>6. n \in S
    <2> HIDE DEF S
    <2> QED BY <1>1, <1>4, <1>5, Induct
<1> QED BY <1>1, <1>2, <1>6

\* Taking the first event takes its size.
LEMMA BytesTail ==
    ASSUME NEW R, NEW q \in Seq(R), q # <<>>, \A e \in R : e.size \in Nat
    PROVE  Trail!Bytes(q) = Head(q).size + Trail!Bytes(Tail(q))
<1> DEFINE p == Tail(q)
           n == Len(p)
<1>1. /\ n \in Nat /\ Len(q) = n + 1 /\ q[1] = Head(q) /\ p \in Seq(R)
      /\ Head(q).size \in Nat
    OBVIOUS
<1>2. \A i \in 1 .. n : p[i] = q[i + 1]
    OBVIOUS
<1>3. PICK f : /\ f[0] = 0
               /\ \A j \in Nat : j + 1 <= n => f[j + 1] = f[j] + p[j + 1].size
               /\ Trail!Bytes(p) = f[n]
    BY <1>1, BytesIs
<1>4. Len(q) \in Nat
    OBVIOUS
<1>5. PICK g : /\ g[0] = 0
               /\ \A j \in Nat : j + 1 <= n + 1 => g[j + 1] = g[j] + q[j + 1].size
               /\ Trail!Bytes(q) = g[n + 1]
    BY <1>1, BytesIs
<1>6. \A i \in 1 .. n : p[i].size \in Nat
    BY <1>1
<1> HIDE DEF n, p
<1> DEFINE h == Head(q).size
           S == {i \in Nat : i <= n => f[i] \in Nat /\ g[i + 1] = h + f[i]}
<1>7. 0 \in S
    <2>1. f[0] = 0
        BY <1>1, <1>3
    <2>2. g[0] = 0
        BY <1>1, <1>5
    <2>3. 1 \in 0 .. n + 1 /\ 1 # 0 /\ 1 - 1 = 0 /\ 0 + 1 = 1
        BY <1>1
    <2>4. g[1] = g[0] + q[1].size
        BY <1>5, <2>3
    <2> QED BY <1>1, <2>1, <2>2, <2>3, <2>4
<1>8. ASSUME NEW i \in Nat, i \in S PROVE i + 1 \in S
    <2>1. SUFFICES ASSUME i + 1 <= n PROVE f[i + 1] \in Nat /\ g[i + 1 + 1] = h + f[i + 1]
        OBVIOUS
    <2>2. f[i] \in Nat /\ g[i + 1] = h + f[i]
        BY <1>1, <1>8, <2>1
    <2>3. /\ i + 1 \in 0 .. n /\ i + 1 + 1 \in 0 .. n + 1 /\ i + 1 # 0 /\ i + 1 + 1 # 0
          /\ i + 1 - 1 = i /\ i + 1 + 1 - 1 = i + 1 /\ i + 1 \in 1 .. n
        BY <1>1, <2>1
    <2>4. f[i + 1] = f[i] + p[i + 1].size
        BY <1>3, <2>3
    <2>5. g[i + 1 + 1] = g[i + 1] + q[i + 1 + 1].size
        BY <1>5, <2>3
    <2>6. p[i + 1] = q[i + 1 + 1] /\ p[i + 1].size \in Nat
        BY <1>2, <1>6, <2>3
    <2>7. h \in Nat
        BY <1>1
    <2> HIDE DEF h
    <2> QED BY <2>2, <2>3, <2>4, <2>5, <2>6, <2>7
<1>9. n \in S
    <2> HIDE DEF S
    <2> QED BY <1>1, <1>7, <1>8, Induct
<1> QED BY <1>1, <1>3, <1>5, <1>9 DEF p

-----------------------------------------------------------------------------
AuditIds == Calls \X {"started", "finished"}
AuditEvent == [id : AuditIds, size : Sizes]
AuditIdsOf(q) == {q[i].id : i \in 1 .. Len(q)}

AuditTypes ==
    /\ queue \in Seq(AuditEvent) /\ dropped \in Nat
    /\ writing = <<>> \/ \E e \in AuditEvent : writing = <<e>>

\* What is pending is counted once, in the queue or with the worker.
AuditBytes ==
    /\ pending = Trail!Bytes(queue) + Trail!Bytes(writing)
    /\ pending <= QueueBytes

\* Nothing is recorded after the close, so what a clean close found written is all.
AuditTold ==
    /\ \/ emitted \subseteq stored \cup AuditIdsOf(queue) \cup AuditIdsOf(writing)
       \/ dropped > 0
       \/ state = "degraded"
    /\ verdict = "ok" => emitted \subseteq stored /\ closing = "closed"

AuditIInv == AuditTypes /\ AuditBytes /\ AuditTold

LEMMA SizesAreNat ==
    ASSUME Trail!ConstantsOK
    PROVE  \A e \in AuditEvent : e.size \in Nat
BY DEF Trail!ConstantsOK, AuditEvent

LEMMA BytesOfOne ==
    ASSUME NEW R, NEW e \in R, e.size \in Nat
    PROVE  Trail!Bytes(<<e>>) = e.size
<1>1. <<>> \in Seq(R) /\ Append(<<>>, e) = <<e>>
    OBVIOUS
<1>2. Trail!Bytes(Append(<<>>, e)) = Trail!Bytes(<<>>) + e.size
    BY <1>1, BytesAppend
<1> QED BY <1>1, <1>2, BytesOfNone

LEMMA HeldIsQueue ==
    ASSUME AuditTypes
    PROVE  writing \in Seq(AuditEvent)
<1>1. ASSUME NEW e \in AuditEvent, writing = <<e>> PROVE writing \in Seq(AuditEvent)
    <2>1. <<e>> \in Seq(AuditEvent)
        OBVIOUS
    <2> QED BY <1>1, <2>1
<1>2. <<>> \in Seq(AuditEvent)
    OBVIOUS
<1> QED BY <1>1, <1>2 DEF AuditTypes

LEMMA IdsAppend ==
    ASSUME NEW R, NEW q \in Seq(R), NEW e \in R
    PROVE  AuditIdsOf(Append(q, e)) = AuditIdsOf(q) \cup {e.id}
<1>1. Len(q) \in Nat /\ Len(Append(q, e)) = Len(q) + 1 /\ Append(q, e)[Len(q) + 1] = e
    OBVIOUS
<1>2. \A i \in 1 .. Len(q) : Append(q, e)[i] = q[i]
    OBVIOUS
<1>3. 1 .. Len(q) + 1 = (1 .. Len(q)) \cup {Len(q) + 1}
    BY <1>1
<1> QED BY <1>1, <1>2, <1>3 DEF AuditIdsOf

LEMMA IdsTail ==
    ASSUME NEW R, NEW q \in Seq(R), q # <<>>
    PROVE  AuditIdsOf(q) = AuditIdsOf(Tail(q)) \cup {Head(q).id}
<1>1. /\ Len(q) \in Nat /\ Len(q) > 0 /\ Len(Tail(q)) = Len(q) - 1 /\ q[1] = Head(q)
    OBVIOUS
<1>2. \A i \in 1 .. Len(q) - 1 : Tail(q)[i] = q[i + 1]
    OBVIOUS
<1>3. ASSUME NEW x \in AuditIdsOf(q) PROVE x \in AuditIdsOf(Tail(q)) \cup {Head(q).id}
    <2>1. PICK i \in 1 .. Len(q) : x = q[i].id
        BY DEF AuditIdsOf
    <2>2. CASE i = 1
        BY <1>1, <2>1, <2>2
    <2>3. CASE i # 1
        <3>1. i - 1 \in 1 .. Len(q) - 1 /\ i - 1 + 1 = i
            BY <1>1, <2>3
        <3>2. Tail(q)[i - 1].id = x
            BY <1>2, <2>1, <3>1
        <3> QED BY <1>1, <3>1, <3>2 DEF AuditIdsOf
    <2> QED BY <2>2, <2>3
<1>4. ASSUME NEW x \in AuditIdsOf(Tail(q)) PROVE x \in AuditIdsOf(q)
    <2>1. PICK i \in 1 .. Len(q) - 1 : x = Tail(q)[i].id
        BY <1>1 DEF AuditIdsOf
    <2>2. i + 1 \in 1 .. Len(q) /\ x = q[i + 1].id
        BY <1>1, <1>2, <2>1
    <2> QED BY <2>2 DEF AuditIdsOf
<1>5. Head(q).id \in AuditIdsOf(q)
    BY <1>1 DEF AuditIdsOf
<1> QED BY <1>3, <1>4, <1>5

LEMMA IdsOfFew ==
    /\ AuditIdsOf(<<>>) = {}
    /\ \A e : AuditIdsOf(<<e>>) = {e.id}
BY DEF AuditIdsOf

LEMMA AuditInitially == Trail!ConstantsOK /\ Trail!AuditInit => AuditIInv
<1> SUFFICES ASSUME Trail!ConstantsOK, Trail!AuditInit PROVE AuditIInv
    OBVIOUS
<1>1. <<>> \in Seq(AuditEvent)
    OBVIOUS
<1> QED
    BY <1>1, BytesOfNone
    DEF Trail!ConstantsOK, Trail!AuditInit, Trail!Nobody, AuditIInv, AuditTypes, AuditBytes, AuditTold

\* Recording an event, or refusing it.
LEMMA EnqueueKeeps ==
    ASSUME Trail!ConstantsOK, AuditIInv, NEW id \in AuditIds, NEW size \in Sizes,
           Trail!Enqueue(id, size), UNCHANGED <<writing, stored, closing, verdict>>
    PROVE  AuditIInv'
<1> DEFINE e == [id |-> id, size |-> size]
<1>1. e \in AuditEvent /\ e.size = size /\ e.id = id /\ size \in Nat
    BY DEF AuditEvent, Trail!ConstantsOK
<1>2. /\ pending = Trail!Bytes(queue) + Trail!Bytes(writing) /\ pending <= QueueBytes
      /\ queue \in Seq(AuditEvent) /\ dropped \in Nat
      /\ writing = <<>> \/ \E x \in AuditEvent : writing = <<x>>
      /\ verdict = "ok" => emitted \subseteq stored /\ closing = "closed"
      /\ \/ emitted \subseteq stored \cup AuditIdsOf(queue) \cup AuditIdsOf(writing)
         \/ dropped > 0
         \/ state = "degraded"
    BY DEF AuditIInv, AuditTypes, AuditBytes, AuditTold
<1>3. Trail!Bytes(queue) \in Nat /\ Trail!Bytes(writing) \in Nat
    <2>1. writing \in Seq(AuditEvent)
        BY HeldIsQueue DEF AuditIInv
    <2> QED BY <1>2, <2>1, BytesAreNat, SizesAreNat
<1>4. CASE /\ closing = "open" /\ Trail!Fits(size)
           /\ queue' = Append(queue, e) /\ pending' = pending + size
           /\ emitted' = emitted \cup {id} /\ UNCHANGED <<dropped, state>>
    <2>1. Trail!Bytes(queue') = Trail!Bytes(queue) + size
        BY <1>1, <1>2, <1>4, BytesAppend
    <2>2. AuditIdsOf(queue') = AuditIdsOf(queue) \cup {id}
        BY <1>1, <1>2, <1>4, IdsAppend
    <2>3. queue' \in Seq(AuditEvent)
        BY <1>1, <1>2, <1>4
    <2>4. AuditTypes'
        BY <1>2, <1>4, <2>3 DEF AuditTypes
    <2>5. pending' <= QueueBytes
        BY <1>4 DEF Trail!Fits
    <2>6. AuditBytes'
        <3>1. Trail!Bytes(writing)' = Trail!Bytes(writing) /\ Trail!Bytes(queue)' = Trail!Bytes(queue')
            OBVIOUS
        <3>2. pending' = Trail!Bytes(queue)' + Trail!Bytes(writing)'
            BY <1>1, <1>2, <1>3, <1>4, <2>1, <3>1
        <3> QED BY <2>5, <3>2 DEF AuditBytes
    <2>7. AuditTold'
        <3>1. verdict # "ok"
            BY <1>2, <1>4
        <3>2. AuditIdsOf(queue)' = AuditIdsOf(queue') /\ AuditIdsOf(writing)' = AuditIdsOf(writing)
            OBVIOUS
        <3> QED BY <1>2, <1>4, <2>2, <3>1, <3>2 DEF AuditTold
    <2> QED BY <2>4, <2>6, <2>7 DEF AuditIInv
<1>5. CASE /\ closing = "open" /\ ~Trail!Fits(size)
           /\ dropped' = dropped + 1 /\ state' = "degraded"
           /\ emitted' = emitted \cup {id} /\ UNCHANGED <<queue, pending>>
    <2>1. AuditTypes'
        BY <1>2, <1>5 DEF AuditTypes
    <2>2. AuditBytes'
        BY <1>2, <1>5 DEF AuditBytes
    <2>3. AuditTold'
        BY <1>2, <1>5 DEF AuditTold
    <2> QED BY <2>1, <2>2, <2>3 DEF AuditIInv
<1>6. CASE UNCHANGED <<queue, pending, emitted, dropped, state>>
    <2>1. AuditTypes'
        BY <1>2, <1>6 DEF AuditTypes
    <2>2. AuditBytes'
        BY <1>2, <1>6 DEF AuditBytes
    <2>3. AuditTold'
        BY <1>2, <1>6 DEF AuditTold
    <2> QED BY <2>1, <2>2, <2>3 DEF AuditIInv
<1> QED BY <1>4, <1>5, <1>6 DEF Trail!Enqueue

\* The worker takes the first event.
LEMMA TakeKeeps ==
    ASSUME Trail!ConstantsOK, AuditIInv, Trail!Take
    PROVE  AuditIInv'
<1> DEFINE e == Head(queue)
<1>1. /\ queue \in Seq(AuditEvent) /\ queue # <<>> /\ writing = <<>>
      /\ writing' = <<e>> /\ queue' = Tail(queue)
      /\ UNCHANGED <<pending, emitted, stored, dropped, state, closing, verdict>>
    BY DEF AuditIInv, AuditTypes, Trail!Take, Trail!Nobody
<1>2. e \in AuditEvent /\ queue' \in Seq(AuditEvent)
    BY <1>1
<1>3. e.size \in Nat
    BY <1>2, SizesAreNat
<1>4. Trail!Bytes(queue) = e.size + Trail!Bytes(queue')
    BY <1>1, SizesAreNat, BytesTail
<1>5. Trail!Bytes(writing') = e.size
    BY <1>1, <1>2, <1>3, BytesOfOne
<1>6. Trail!Bytes(queue') \in Nat
    BY <1>2, SizesAreNat, BytesAreNat
<1>7. AuditTypes'
    BY <1>1, <1>2 DEF AuditIInv, AuditTypes
<1>8. AuditBytes'
    <2>1. pending = Trail!Bytes(queue) + 0 /\ pending <= QueueBytes
        BY <1>1, BytesOfNone DEF AuditIInv, AuditBytes
    <2>2. Trail!Bytes(queue)' = Trail!Bytes(queue') /\ Trail!Bytes(writing)' = Trail!Bytes(writing')
        OBVIOUS
    <2>3. pending' = Trail!Bytes(queue)' + Trail!Bytes(writing)'
        BY <1>1, <1>3, <1>4, <1>5, <1>6, <2>1, <2>2
    <2> QED BY <1>1, <2>1, <2>3 DEF AuditBytes
<1>9. AuditTold'
    <2>1. AuditIdsOf(queue) = AuditIdsOf(queue') \cup {e.id}
        BY <1>1, IdsTail
    <2>2. AuditIdsOf(writing) = {} /\ AuditIdsOf(writing') = {e.id}
        BY <1>1, IdsOfFew
    <2>3. AuditIdsOf(queue)' = AuditIdsOf(queue') /\ AuditIdsOf(writing)' = AuditIdsOf(writing')
        OBVIOUS
    <2> HIDE DEF e
    <2> QED BY <1>1, <2>1, <2>2, <2>3 DEF AuditIInv, AuditTold
<1> QED BY <1>7, <1>8, <1>9 DEF AuditIInv

\* The store has answered.
LEMMA WrittenKeeps ==
    ASSUME Trail!ConstantsOK, AuditIInv, NEW written \in BOOLEAN, Trail!Written(written)
    PROVE  AuditIInv'
<1>1. PICK e \in AuditEvent : writing = <<e>>
    BY DEF AuditIInv, AuditTypes, Trail!Written, Trail!Nobody
<1>2. /\ writing[1] = e /\ writing' = <<>> /\ closing # "closed"
      /\ stored' = IF written THEN stored \cup {e.id} ELSE stored
      /\ state' = IF written THEN state ELSE "degraded"
      /\ pending' = pending - e.size
      /\ UNCHANGED <<queue, emitted, dropped, closing, verdict>>
    BY <1>1 DEF Trail!Written, Trail!Judged, Trail!Nobody
<1>3. e.size \in Nat /\ Trail!Bytes(queue) \in Nat
    BY SizesAreNat, BytesAreNat DEF AuditIInv, AuditTypes
<1>4. AuditTypes'
    BY <1>2 DEF AuditIInv, AuditTypes
<1>5. AuditBytes'
    <2>1. pending = Trail!Bytes(queue) + e.size /\ pending <= QueueBytes
        BY <1>1, <1>3, BytesOfOne DEF AuditIInv, AuditBytes
    <2>2. Trail!Bytes(queue)' = Trail!Bytes(queue) /\ Trail!Bytes(writing)' = 0
        BY <1>2, BytesOfNone
    <2>3. QueueBytes \in Nat
        BY DEF Trail!ConstantsOK
    <2>4. pending' = Trail!Bytes(queue)' + Trail!Bytes(writing)' /\ pending' <= QueueBytes
        BY <1>2, <1>3, <2>1, <2>2, <2>3
    <2> QED BY <2>4 DEF AuditBytes
<1>6. AuditTold'
    <2>1. AuditIdsOf(writing) = {e.id} /\ AuditIdsOf(writing)' = {} /\ AuditIdsOf(queue)' = AuditIdsOf(queue)
        BY <1>1, <1>2, IdsOfFew
    <2>2. verdict # "ok"
        BY <1>2 DEF AuditIInv, AuditTold
    <2> QED BY <1>2, <2>1, <2>2 DEF AuditIInv, AuditTold
<1> QED BY <1>4, <1>5, <1>6 DEF AuditIInv

\* The time to flush is over, or all is written.
LEMMA FlushedKeeps ==
    ASSUME Trail!ConstantsOK, AuditIInv, NEW inTime \in BOOLEAN, NEW written \in BOOLEAN,
           Trail!Flushed(inTime, written)
    PROVE  AuditIInv'
<1>1. /\ closing' = "closed" /\ writing' = <<>>
      /\ inTime <=> (queue = <<>> /\ writing = <<>>)
      /\ state' = IF inTime THEN state ELSE "degraded"
      /\ verdict' = IF inTime /\ state' # "degraded" /\ dropped = 0 THEN "ok" ELSE "lossy"
      /\ stored \subseteq stored'
      /\ pending' = pending - Trail!Bytes(writing)
      /\ UNCHANGED <<queue, emitted, dropped>>
    BY DEF Trail!Flushed, Trail!Nobody
<1>2. writing \in Seq(AuditEvent) /\ queue \in Seq(AuditEvent) /\ dropped \in Nat
    BY HeldIsQueue DEF AuditIInv, AuditTypes
<1>3. Trail!Bytes(queue) \in Nat /\ Trail!Bytes(writing) \in Nat
    BY <1>2, SizesAreNat, BytesAreNat
<1>4. AuditTypes'
    BY <1>1 DEF AuditIInv, AuditTypes
<1>5. AuditBytes'
    <2>1. pending = Trail!Bytes(queue) + Trail!Bytes(writing) /\ pending <= QueueBytes
        BY DEF AuditIInv, AuditBytes
    <2>2. Trail!Bytes(queue)' = Trail!Bytes(queue) /\ Trail!Bytes(writing)' = 0
        BY <1>1, BytesOfNone
    <2>3. QueueBytes \in Nat
        BY DEF Trail!ConstantsOK
    <2>4. pending' = Trail!Bytes(queue)' + Trail!Bytes(writing)' /\ pending' <= QueueBytes
        BY <1>1, <1>3, <2>1, <2>2, <2>3
    <2> QED BY <2>4 DEF AuditBytes
<1>6. AuditTold'
    <2>1. CASE ~ inTime
        BY <1>1, <2>1 DEF AuditTold
    <2>2. CASE inTime
        <3>1. AuditIdsOf(queue) = {} /\ AuditIdsOf(writing) = {}
            BY <1>1, <2>2, IdsOfFew
        <3>2. emitted \subseteq stored \/ dropped > 0 \/ state = "degraded"
            BY <3>1 DEF AuditIInv, AuditTold
        <3> QED BY <1>1, <1>2, <2>2, <3>2 DEF AuditTold
    <2> QED BY <2>1, <2>2
<1> QED BY <1>4, <1>5, <1>6 DEF AuditIInv

LEMMA AuditKeeps == Trail!ConstantsOK /\ AuditIInv /\ [Trail!AuditNext]_(Trail!auditVars) => AuditIInv'
<1> SUFFICES ASSUME Trail!ConstantsOK, AuditIInv, [Trail!AuditNext]_(Trail!auditVars) PROVE AuditIInv'
    OBVIOUS
<1>1. ASSUME NEW c \in Calls, NEW size \in Sizes, Trail!Begin(c, size) PROVE AuditIInv'
    <2>1. <<c, "started">> \in AuditIds
        BY DEF AuditIds
    <2> QED BY <1>1, <2>1, EnqueueKeeps DEF Trail!Begin
<1>2. ASSUME NEW c \in Calls, NEW size \in Sizes, Trail!End(c, size) PROVE AuditIInv'
    <2>1. <<c, "finished">> \in AuditIds
        BY DEF AuditIds
    <2> QED BY <1>2, <2>1, EnqueueKeeps DEF Trail!End
<1>3. CASE \E c \in Calls : Trail!GoOut(c)
    BY <1>3 DEF Trail!GoOut, AuditIInv, AuditTypes, AuditBytes, AuditTold
<1>4. CASE Trail!Close
    BY <1>4 DEF Trail!Close, AuditIInv, AuditTypes, AuditBytes, AuditTold
<1>5. CASE UNCHANGED Trail!auditVars
    BY <1>5 DEF Trail!auditVars, AuditIInv, AuditTypes, AuditBytes, AuditTold
<1> QED BY <1>1, <1>2, <1>3, <1>4, <1>5, TakeKeeps, WrittenKeeps, FlushedKeeps DEF Trail!AuditNext

\* The counter and the limit are about the events held, queue and worker together.
LEMMA HeldAreCounted ==
    ASSUME Trail!ConstantsOK, AuditIInv
    PROVE  Trail!PendingIsHeld /\ Trail!LossIsTold
<1>1. Trail!Bytes(queue \o writing) = Trail!Bytes(queue) + Trail!Bytes(writing)
    <2>1. CASE writing = <<>>
        <3>1. queue \o writing = queue
            BY <2>1 DEF AuditIInv, AuditTypes
        <3>2. Trail!Bytes(queue) \in Nat
            BY SizesAreNat, BytesAreNat DEF AuditIInv, AuditTypes
        <3> QED BY <2>1, <3>1, <3>2, BytesOfNone
    <2>2. ASSUME NEW e \in AuditEvent, writing = <<e>>
          PROVE  Trail!Bytes(queue \o writing) = Trail!Bytes(queue) + Trail!Bytes(writing)
        <3>1. queue \in Seq(AuditEvent)
            BY DEF AuditIInv, AuditTypes
        <3>2. queue \o writing = Append(queue, e)
            BY <2>2, <3>1
        <3>3. e.size \in Nat
            BY SizesAreNat
        <3> QED BY <2>2, <3>1, <3>2, <3>3, BytesAppend, BytesOfOne
    <2> QED BY <2>1, <2>2 DEF AuditIInv, AuditTypes
<1>2. Trail!PendingIsHeld
    BY <1>1 DEF AuditIInv, AuditBytes, Trail!PendingIsHeld
<1>3. Trail!LossIsTold
    BY DEF AuditIInv, AuditTold, Trail!LossIsTold, Trail!Held, AuditIdsOf
<1> QED BY <1>2, <1>3

\* Whatever calls end at once and whenever the recorder is closed, the bytes it counts
\* are those it holds and stay within audit_max_queue_bytes; and an event that is neither
\* written nor held is owned up to, in the state and in what close() returns.
THEOREM AuditIsTold ==
    ASSUME Trail!ConstantsOK
    PROVE  Trail!AuditSpec => [](Trail!PendingIsHeld /\ Trail!LossIsTold)
<1>1. Trail!AuditInit => AuditIInv
    BY AuditInitially
<1>2. AuditIInv /\ [Trail!AuditNext]_(Trail!auditVars) => AuditIInv'
    BY AuditKeeps
<1>3. AuditIInv => Trail!PendingIsHeld /\ Trail!LossIsTold
    BY HeldAreCounted
<1> QED BY <1>1, <1>2, <1>3, PTL DEF Trail!AuditSpec

-----------------------------------------------------------------------------
(* The catalog.  Once names are indexed, the names that the token table     *)
(* does not hold are those an assignment gave since it was written.        *)
CONSTANTS Ids, Names, Pubs, Versions, Stories, MaxSaves
VARIABLES version, names, token, given, links, row, saves

Catalog == INSTANCE CatalogStores

-----------------------------------------------------------------------------
CatTypes ==
    /\ version \in Nat /\ version <= Catalog!Indexed
    /\ names \in [Ids -> SUBSET Names]
    /\ given \in [Ids -> SUBSET Names]
    /\ version < Catalog!Indexed => token = {}

\* A name that no assignment gave has its token.
CatTokens == version = Catalog!Indexed => \A e \in Ids :
    \A n \in names[e] \ ({Catalog!Silent} \cup given[e]) : <<e, n>> \in token

CatIInv == CatTypes /\ CatTokens

LEMMA TokensAre ==
    ASSUME NEW N
    PROVE  N \ {Catalog!Silent} \subseteq Catalog!Tokens(N)
BY DEF Catalog!Tokens

LEMMA CatInitially == Catalog!Init => CatIInv
<1> SUFFICES ASSUME Catalog!Init PROVE CatIInv
    OBVIOUS
<1>1. /\ \/ version = Catalog!Indexed /\ names = [e \in Ids |-> {}]
         \/ version = Catalog!Indexed - 1 /\ names \in [Ids -> SUBSET Names]
      /\ token = {} /\ given = [e \in Ids |-> {}]
    BY DEF Catalog!Init
<1>2. CatTypes
    BY <1>1 DEF CatTypes, Catalog!Indexed
<1>3. CatTokens
    BY <1>1 DEF CatTokens, Catalog!Indexed
<1> QED BY <1>2, <1>3 DEF CatIInv

\* migrate_agenda_entity_tokens.
LEMMA StartKeeps == CatIInv /\ Catalog!Start => CatIInv'
<1> SUFFICES ASSUME CatIInv, Catalog!Start PROVE CatIInv'
    OBVIOUS
<1>1. /\ version < Catalog!Indexed /\ version' = Catalog!Indexed /\ token' = Catalog!Backfilled
      /\ UNCHANGED <<names, given>>
    BY DEF Catalog!Start
<1>2. token = {} /\ names \in [Ids -> SUBSET Names]
    BY <1>1 DEF CatIInv, CatTypes
<1>3. CatTypes'
    BY <1>1 DEF CatIInv, CatTypes, Catalog!Indexed
<1>4. ASSUME NEW e \in Ids, NEW n \in names[e] \ {Catalog!Silent} PROVE <<e, n>> \in token'
    <2> DEFINE U == {{<<i, t>> : t \in Catalog!Tokens(names[i])} :
                        i \in {i \in Ids : names[i] # {} /\ \A t \in Names \cup {Catalog!NoToken} : <<i, t>> \notin token}}
    <2>1. token' = token \cup UNION U
        BY <1>1 DEF Catalog!Backfilled
    <2>2. n \in Catalog!Tokens(names[e])
        BY <1>4, TokensAre
    <2>3. <<e, n>> \in {<<e, t>> : t \in Catalog!Tokens(names[e])}
        BY <2>2
    <2>4. {<<e, t>> : t \in Catalog!Tokens(names[e])} \in U
        BY <1>2, <1>4
    <2> HIDE DEF U
    <2> QED BY <2>1, <2>3, <2>4
<1>5. CatTokens'
    <2>1. Catalog!Silent' = Catalog!Silent
        BY DEF Catalog!Silent
    <2> QED BY <1>1, <1>4, <2>1 DEF CatTokens
<1> QED BY <1>3, <1>5 DEF CatIInv

LEMMA AssignmentKeeps == CatIInv /\ Catalog!SaveAssignment => CatIInv'
<1> SUFFICES ASSUME CatIInv, Catalog!SaveAssignment PROVE CatIInv'
    OBVIOUS
<1>1. PICK key \in Catalog!LinkKeys, s \in Names, e \in Ids, N \in SUBSET Names : Catalog!Committed(e, N, key, s)
    <2>2. PICK key \in Catalog!LinkKeys, s \in Names, cands \in SUBSET DOMAIN row :
              LET ids   == UNION {links[k] : k \in {l \in DOMAIN links : l[1] \in cands}}
                  known == Catalog!Found(ids, {s} \cup {row[c] : c \in cands})
              IN  \E e \in Ids, N \in {names[k] : k \in known} \cup {{s, c} : c \in Names} :
                     /\ (N = names[e] /\ e \in known) \/ s \in N
                     /\ Catalog!Committed(e, N, key, s)
        BY DEF Catalog!SaveAssignment
    <2> DEFINE ids   == UNION {links[k] : k \in {l \in DOMAIN links : l[1] \in cands}}
               known == Catalog!Found(ids, {s} \cup {row[c] : c \in cands})
    <2>3. PICK e \in Ids, N \in {names[k] : k \in known} \cup {{s, c} : c \in Names} :
              Catalog!Committed(e, N, key, s)
        BY <2>2
    <2>4. \A k \in known : k \in Ids
        BY DEF Catalog!Found
    <2> HIDE DEF known
    <2>5. N \subseteq Names
        BY <2>3, <2>4 DEF CatIInv, CatTypes
    <2> QED BY <2>3, <2>5
<1>2. /\ names' = [names EXCEPT ![e] = N] /\ token' = token
      /\ given' = [given EXCEPT ![e] = @ \cup (N \ names[e])]
    BY <1>1 DEF Catalog!Committed
<1>3. version' = version /\ version = Catalog!Indexed
    BY DEF Catalog!SaveAssignment
<1>4. CatTypes'
    BY <1>2, <1>3 DEF CatIInv, CatTypes
<1>5. CatTokens'
    <2> SUFFICES ASSUME NEW i \in Ids, NEW n \in names'[i] \ ({Catalog!Silent} \cup given'[i])
                 PROVE  <<i, n>> \in token
        BY <1>2 DEF CatTokens, Catalog!Silent
    <2>1. /\ names \in [Ids -> SUBSET Names] /\ given \in [Ids -> SUBSET Names]
          /\ \A m \in names[i] \ ({Catalog!Silent} \cup given[i]) : <<i, m>> \in token
        BY <1>3 DEF CatIInv, CatTypes, CatTokens
    <2>2. CASE i = e
        <3>1. names'[i] = N /\ given'[i] = given[i] \cup (N \ names[i])
            BY <1>2, <2>1, <2>2
        <3> QED BY <2>1, <3>1
    <2>3. CASE i # e
        <3>1. given'[i] = given[i] /\ names'[i] = names[i]
            BY <1>2, <2>1, <2>3
        <3> QED BY <2>1, <3>1
    <2> QED BY <2>2, <2>3
<1> QED BY <1>4, <1>5 DEF CatIInv

\* save_entity.
LEMMA EntityKeeps == CatIInv /\ Catalog!SaveEntity => CatIInv'
<1> SUFFICES ASSUME CatIInv, Catalog!SaveEntity PROVE CatIInv'
    OBVIOUS
<1>1. PICK e \in Ids, N \in (SUBSET Names) \ {{}} :
          /\ names' = [names EXCEPT ![e] = N]
          /\ token' = {p \in token : p[1] # e} \cup {<<e, t>> : t \in Catalog!Tokens(N)}
          /\ given' = [given EXCEPT ![e] = {}]
    BY DEF Catalog!SaveEntity, Catalog!Retokened
<1>2. version = Catalog!Indexed /\ version' = version
    BY DEF Catalog!SaveEntity
<1>3. CatTypes'
    BY <1>1, <1>2 DEF CatIInv, CatTypes, Catalog!Indexed
<1>4. CatTokens'
    <2> SUFFICES ASSUME NEW i \in Ids, NEW n \in names'[i] \ ({Catalog!Silent} \cup given'[i])
                 PROVE  <<i, n>> \in token'
        BY DEF CatTokens, Catalog!Silent
    <2>1. /\ names \in [Ids -> SUBSET Names] /\ given \in [Ids -> SUBSET Names]
          /\ \A m \in names[i] \ ({Catalog!Silent} \cup given[i]) : <<i, m>> \in token
        BY <1>2 DEF CatIInv, CatTypes, CatTokens
    <2>2. CASE i = e
        <3>1. n \in N \ {Catalog!Silent}
            BY <1>1, <2>1, <2>2
        <3>2. n \in Catalog!Tokens(N)
            BY <3>1, TokensAre
        <3> QED BY <1>1, <2>2, <3>2
    <2>3. CASE i # e
        <3>1. given'[i] = given[i] /\ names'[i] = names[i]
            BY <1>1, <2>1, <2>3
        <3>2. <<i, n>> \in token /\ <<i, n>>[1] # e
            BY <2>1, <2>3, <3>1
        <3> QED BY <1>1, <3>2
    <2> QED BY <2>2, <2>3
<1> QED BY <1>3, <1>4 DEF CatIInv

LEMMA FoundByNames ==
    ASSUME Catalog!ConstantsOK, CatIInv
    PROVE  Catalog!FoundUnlessGiven
<1>1. ASSUME version = Catalog!Indexed, NEW e \in Ids,
             NEW n \in names[e] \ ({Catalog!Silent} \cup given[e])
      PROVE  e \in Catalog!Found({}, {n})
    <2>1. <<e, n>> \in token
        BY <1>1 DEF CatIInv, CatTokens
    <2>2. n \in Catalog!Tokens({n}) \ {Catalog!NoToken}
        <3>1. n \in {n} \ {Catalog!Silent} /\ n # 0
            BY <1>1 DEF CatIInv, CatTypes, Catalog!ConstantsOK
        <3> QED BY <3>1, TokensAre DEF Catalog!NoToken
    <2>3. names[e] # {} /\ Catalog!Wanted(e, {}, {n})
        BY <1>1 DEF Catalog!Wanted
    <2> QED BY <2>1, <2>2, <2>3 DEF Catalog!Found
<1> QED BY <1>1 DEF Catalog!FoundUnlessGiven, Catalog!FindableBy

\* Once the names are indexed, whatever is saved in whatever order, an entity is found by
\* each of its names but those that an assignment gave it since its tokens were written.
THEOREM CatalogIsKept ==
    ASSUME Catalog!ConstantsOK
    PROVE  Catalog!Spec => []Catalog!FoundUnlessGiven
<1>1. Catalog!Init => CatIInv
    BY CatInitially
<1>2. CatIInv /\ [Catalog!Next]_(Catalog!vars) => CatIInv'
    <2>1. ASSUME CatIInv, UNCHANGED Catalog!vars PROVE CatIInv'
        BY <2>1 DEF Catalog!vars, CatIInv, CatTypes, CatTokens, Catalog!Silent
    <2> QED BY <2>1, StartKeeps, AssignmentKeeps, EntityKeeps DEF Catalog!Next
<1>3. CatIInv => Catalog!FoundUnlessGiven
    BY FoundByNames
<1> QED BY <1>1, <1>2, <1>3, PTL DEF Catalog!Spec

-----------------------------------------------------------------------------
(* Schema and migrations.  A process that is past a migration finds it     *)
(* done in the database (MigDone), and one that was never beside another   *)
(* finds what it left (MigAlone).                                          *)
CONSTANTS Procs, Rows, Entities, PageSize, MaxBoots
VARIABLES db, tx, at, seen, boots, together

Schema == INSTANCE SchemaMigration

Payloads  == UNION {[S -> {"old", "new"}] : S \in SUBSET Rows}
Databases == [version : -1 .. 6, columns : SUBSET {1, 2}, json : Payloads, links : Payloads,
              fts : BOOLEAN, tokens : SUBSET Entities, indexes : BOOLEAN]
Steps == {"off", "tables", "first", "check", "act", "bump", "serving", "dead"}
Moving == {"check", "act", "bump"}

\* Migration n has nothing left to do; nothing done in d is undone in e.
Has(n, d) ==
    /\ n \in {1, 2} => n \in d.columns
    /\ n = 3 => DOMAIN d.json = {}
    /\ n = 4 => ~ d.fts
    /\ n = 5 => Entities \subseteq d.tokens
    /\ n = 6 => d.indexes
Ahead(d, e) == \A n \in 1 .. 6 : Has(n, d) => Has(n, e)
Full(d) == DOMAIN d.json \cup DOMAIN d.links = Rows

MigTypes ==
    /\ db \in Databases /\ Full(db)
    /\ tx.holder # Schema!None => tx.holder \in Procs /\ tx.view \in Databases /\ Full(tx.view)
    /\ pc \in [Procs -> Steps] /\ at \in [Procs -> 1 .. 7] /\ DOMAIN seen = Procs
    /\ \A p \in Procs : pc[p] = "act" =>
          (at[p] = 3 => seen[p] \subseteq Rows) /\ (at[p] = 5 => seen[p] \subseteq Entities)

\* The one transaction is of a process that moves rows or tokens, and goes on from
\* what is committed; who has reached a migration finds the earlier ones done,
\* and so does who reads the version.
MigDone ==
    /\ tx.holder # Schema!None =>
          Ahead(db, tx.view) /\ at[tx.holder] \in {3, 5} /\ pc[tx.holder] \in Moving
    /\ \A n \in 1 .. 6 : n <= db.version => Has(n, db)
    /\ \A p \in Procs :
          /\ pc[p] \in Moving => at[p] <= 6 /\ \A n \in 1 .. 6 : n < at[p] => Has(n, db)
          /\ pc[p] = "bump" => Has(at[p], Schema!View(p))
          /\ pc[p] = "serving" => \A n \in 1 .. 6 : Has(n, db)

\* A start that was never beside another finds what it found before.
MigAlone == ~ together =>
    /\ \A p, q \in Procs : Schema!Booting(p) /\ Schema!Booting(q) => p = q
    /\ \A p \in Procs :
          /\ pc[p] # "dead"
          /\ pc[p] = "first" => db.version = Schema!None
          /\ pc[p] = "act" => ~ Schema!Clashes(at[p], Schema!View(p), seen[p])

MigIInv == MigTypes /\ MigDone /\ MigAlone

-----------------------------------------------------------------------------
\* A page is empty only of nothing.
LEMMA LeastOfSome ==
  ASSUME Schema!ConstantsOK, NEW S, S \subseteq Nat, S # {}
  PROVE  Schema!Least(S) # {}
<1>1. PICK m \in S : \A t \in S : ~ (t < m)
  <2>1. PICK m \in S : \A t \in S : <<t, m>> \notin OpToRel(<, Nat)
    BY WFMin, NatLessThanWellFounded
  <2> QED BY <2>1 DEF OpToRel
<1>2. {t \in S : t < m} = {}
  BY <1>1
<1>3. Schema!Cardinality({}) = 0
  <2>1. Schema!Cardinality({}) = Cardinality({})
    BY DEF Schema!Cardinality, Cardinality
  <2> QED BY <2>1, FS_EmptySet
<1>4. Schema!Cardinality({t \in S : t < m}) < PageSize
  BY <1>2, <1>3 DEF Schema!ConstantsOK
<1> QED BY <1>4 DEF Schema!Least

\* A check that finds nothing finds it done; what it finds does not clash.
LEMMA WhatIsToDo ==
  ASSUME Schema!ConstantsOK, NEW d \in Databases, NEW n \in 1 .. 6
  PROVE  /\ Schema!ToDo(n, d) = {} => Has(n, d)
         /\ Schema!ToDo(n, d) # {} => ~ Schema!Clashes(n, d, Schema!ToDo(n, d))
         /\ n = 3 => Schema!ToDo(n, d) \subseteq Rows
         /\ n = 5 => Schema!ToDo(n, d) \subseteq Entities
<1>1. d.json \in Payloads
  BY DEF Databases
<1>2. DOMAIN d.json \subseteq Rows
  BY <1>1 DEF Payloads
<1>3. Rows \subseteq Nat /\ Entities \subseteq Nat
  BY DEF Schema!ConstantsOK
<1>4. CASE n \in {1, 2}
  <2>1. n \in Schema!Tables /\ n # 3 /\ n # 4 /\ n # 5 /\ n # 6
    BY <1>4 DEF Schema!Tables
  <2> QED BY <2>1 DEF Schema!ToDo, Schema!Clashes, Has, Schema!Tables
<1>5. CASE n = 3
  <2>1. Schema!ToDo(n, d) = Schema!Least(DOMAIN d.json) /\ ~ Schema!Clashes(n, d, Schema!ToDo(n, d))
    BY <1>5 DEF Schema!ToDo, Schema!Clashes, Schema!Tables
  <2>2. Schema!Least(DOMAIN d.json) \subseteq DOMAIN d.json
    BY DEF Schema!Least
  <2>3. DOMAIN d.json # {} => Schema!Least(DOMAIN d.json) # {}
    BY <1>2, <1>3, LeastOfSome
  <2> QED BY <1>2, <1>5, <2>1, <2>2, <2>3 DEF Has
<1>6. CASE n = 4
  <2>1. /\ n \notin Schema!Tables /\ n \notin {1, 2} /\ n # 3 /\ n # 5 /\ n # 6
    BY <1>6 DEF Schema!Tables
  <2>2. Schema!ToDo(n, d) = IF d.fts THEN {TRUE} ELSE {}
    BY <1>6, <2>1, Zenon DEF Schema!ToDo
  <2>3. Schema!Clashes(n, d, Schema!ToDo(n, d)) <=> ~ d.fts
    BY <1>6, <2>1, Zenon DEF Schema!Clashes
  <2>4. Has(n, d) <=> ~ d.fts
    BY <1>6, <2>1, Zenon DEF Has
  <2> QED BY <2>1, <2>2, <2>3, <2>4, Zenon
<1>7. CASE n = 5
  <2>1. /\ Schema!ToDo(n, d) = Schema!Least(Entities \ d.tokens)
        /\ Schema!Clashes(n, d, Schema!ToDo(n, d)) <=> Schema!ToDo(n, d) \cap d.tokens # {}
    BY <1>7 DEF Schema!ToDo, Schema!Clashes, Schema!Tables
  <2>2. Schema!Least(Entities \ d.tokens) \subseteq Entities \ d.tokens
    BY DEF Schema!Least
  <2>3. Entities \ d.tokens # {} => Schema!Least(Entities \ d.tokens) # {}
    BY <1>3, LeastOfSome
  <2> QED BY <1>7, <2>1, <2>2, <2>3 DEF Has
<1>8. CASE n = 6
  <2>1. /\ n \notin Schema!Tables /\ n \notin {1, 2} /\ n # 3 /\ n # 4 /\ n # 5
    BY <1>8 DEF Schema!Tables
  <2>2. Schema!ToDo(n, d) = IF d.indexes THEN {} ELSE {TRUE}
    BY <1>8, <2>1, Zenon DEF Schema!ToDo
  <2>3. Schema!Clashes(n, d, Schema!ToDo(n, d)) <=> d.indexes
    BY <1>8, <2>1, Zenon DEF Schema!Clashes
  <2>4. Has(n, d) <=> d.indexes
    BY <1>8, <2>1, Zenon DEF Has
  <2> QED BY <2>1, <2>2, <2>3, <2>4, Zenon
<1> QED BY <1>4, <1>5, <1>6, <1>7, <1>8

\* A migration keeps the rows, undoes nothing, and ends what it does at once.
LEMMA WhatIsDone ==
  ASSUME NEW d \in Databases, Full(d), NEW n \in 1 .. 6, NEW found,
         n = 3 => found \subseteq Rows, n = 5 => found \subseteq Entities
  PROVE  /\ Schema!Done(n, d, found) \in Databases /\ Full(Schema!Done(n, d, found))
         /\ Schema!Done(n, d, found).version = d.version
         /\ Ahead(d, Schema!Done(n, d, found))
         /\ n \notin {3, 5} => Has(n, Schema!Done(n, d, found))
<1>1. CASE n \in {1, 2}
  <2>1. Schema!Done(n, d, found) = [d EXCEPT !.columns = @ \cup {n}]
    BY <1>1 DEF Schema!Done, Schema!Tables
  <2> DEFINE e == [d EXCEPT !.columns = @ \cup {n}]
  <2>2. e \in Databases
    BY <1>1 DEF Databases
  <2>3. /\ e.version = d.version /\ e.json = d.json /\ e.links = d.links /\ e.fts = d.fts
        /\ e.tokens = d.tokens /\ e.indexes = d.indexes /\ e.columns = d.columns \cup {n}
    BY DEF Databases
  <2> HIDE DEF e
  <2>4. Full(e) /\ Ahead(d, e) /\ Has(n, e)
    BY <1>1, <2>3 DEF Full, Ahead, Has
  <2> QED BY <2>1, <2>2, <2>3, <2>4 DEF e
<1>2. CASE n = 3
  <2> DEFINE L == [r \in DOMAIN d.links \cup found |-> IF r \in found THEN "old" ELSE d.links[r]]
             J == [r \in DOMAIN d.json \ found |-> d.json[r]]
             e == [d EXCEPT !.links = L, !.json = J]
  <2>1. Schema!Done(n, d, found) = e
    BY <1>2 DEF Schema!Done, Schema!Tables, Schema!Moved
  <2>2. d.links \in Payloads /\ d.json \in Payloads
    BY DEF Databases
  <2>3. L \in Payloads /\ DOMAIN L = DOMAIN d.links \cup found
    <3>1. PICK S \in SUBSET Rows : d.links \in [S -> {"old", "new"}]
      BY <2>2 DEF Payloads
    <3>2. S \cup found \in SUBSET Rows
      BY <1>2
    <3>3. L \in [S \cup found -> {"old", "new"}]
      BY <3>1
    <3> QED BY <3>1, <3>2, <3>3 DEF Payloads
  <2>4. J \in Payloads /\ DOMAIN J = DOMAIN d.json \ found
    <3>1. PICK S \in SUBSET Rows : d.json \in [S -> {"old", "new"}]
      BY <2>2 DEF Payloads
    <3>2. S \ found \in SUBSET Rows /\ J \in [S \ found -> {"old", "new"}]
      BY <3>1
    <3> QED BY <3>1, <3>2 DEF Payloads
  <2> HIDE DEF L, J
  <2>5. e \in Databases
    BY <2>3, <2>4 DEF Databases
  <2>6. /\ e.version = d.version /\ e.json = J /\ e.links = L /\ e.fts = d.fts
        /\ e.tokens = d.tokens /\ e.indexes = d.indexes /\ e.columns = d.columns
    BY DEF Databases
  <2> HIDE DEF e
  <2>7. Full(e) /\ Ahead(d, e)
    BY <1>2, <2>3, <2>4, <2>6 DEF Full, Ahead, Has
  <2> QED BY <1>2, <2>1, <2>5, <2>6, <2>7
<1>3. CASE n = 4
  <2>1. Schema!Done(n, d, found) = [d EXCEPT !.fts = FALSE]
    BY <1>3 DEF Schema!Done, Schema!Tables
  <2> DEFINE e == [d EXCEPT !.fts = FALSE]
  <2>2. e \in Databases
    BY DEF Databases
  <2>3. /\ e.version = d.version /\ e.json = d.json /\ e.links = d.links /\ ~ e.fts
        /\ e.tokens = d.tokens /\ e.indexes = d.indexes /\ e.columns = d.columns
    BY DEF Databases
  <2> HIDE DEF e
  <2>4. Full(e) /\ Ahead(d, e) /\ Has(n, e)
    BY <1>3, <2>3 DEF Full, Ahead, Has
  <2> QED BY <2>1, <2>2, <2>3, <2>4 DEF e
<1>4. CASE n = 5
  <2>1. Schema!Done(n, d, found) = [d EXCEPT !.tokens = @ \cup found]
    BY <1>4 DEF Schema!Done, Schema!Tables
  <2> DEFINE e == [d EXCEPT !.tokens = @ \cup found]
  <2>2. e \in Databases
    BY <1>4 DEF Databases
  <2>3. /\ e.version = d.version /\ e.json = d.json /\ e.links = d.links /\ e.fts = d.fts
        /\ e.tokens = d.tokens \cup found /\ e.indexes = d.indexes /\ e.columns = d.columns
    BY DEF Databases
  <2> HIDE DEF e
  <2>4. Full(e) /\ Ahead(d, e)
    BY <1>4, <2>3 DEF Full, Ahead, Has
  <2> QED BY <1>4, <2>1, <2>2, <2>3, <2>4 DEF e
<1>5. CASE n = 6
  <2>1. Schema!Done(n, d, found) = [d EXCEPT !.indexes = TRUE]
    BY <1>5 DEF Schema!Done, Schema!Tables
  <2> DEFINE e == [d EXCEPT !.indexes = TRUE]
  <2>2. e \in Databases
    BY DEF Databases
  <2>3. /\ e.version = d.version /\ e.json = d.json /\ e.links = d.links /\ e.fts = d.fts
        /\ e.tokens = d.tokens /\ e.indexes /\ e.columns = d.columns
    BY DEF Databases
  <2> HIDE DEF e
  <2>4. Full(e) /\ Ahead(d, e) /\ Has(n, e)
    BY <1>5, <2>3 DEF Full, Ahead, Has
  <2> QED BY <2>1, <2>2, <2>3, <2>4 DEF e
<1> QED BY <1>1, <1>2, <1>3, <1>4, <1>5

\* Only the version or the payload of a link changes.
LEMMA VersionChange ==
  ASSUME NEW d \in Databases, NEW v \in -1 .. 6
  PROVE  /\ [d EXCEPT !.version = v] \in Databases /\ [d EXCEPT !.version = v].version = v
         /\ Full(d) => Full([d EXCEPT !.version = v])
         /\ \A n : Has(n, [d EXCEPT !.version = v]) <=> Has(n, d)
<1> DEFINE e == [d EXCEPT !.version = v]
<1>1. e \in Databases /\ e.version = v
  BY DEF Databases
<1>2. /\ e.json = d.json /\ e.links = d.links /\ e.fts = d.fts
      /\ e.tokens = d.tokens /\ e.indexes = d.indexes /\ e.columns = d.columns
  BY DEF Databases
<1> HIDE DEF e
<1>3. (Full(d) => Full(e)) /\ \A n : Has(n, e) <=> Has(n, d)
  BY <1>2 DEF Full, Has
<1> QED BY <1>1, <1>3 DEF e

LEMMA LinkChange ==
  ASSUME NEW d \in Databases, NEW r \in DOMAIN d.links
  PROVE  /\ [d EXCEPT !.links[r] = "new"] \in Databases
         /\ [d EXCEPT !.links[r] = "new"].version = d.version
         /\ Full(d) => Full([d EXCEPT !.links[r] = "new"])
         /\ \A n : Has(n, [d EXCEPT !.links[r] = "new"]) <=> Has(n, d)
         /\ \A n, found : Schema!Clashes(n, [d EXCEPT !.links[r] = "new"], found) <=> Schema!Clashes(n, d, found)
<1> DEFINE L == [d.links EXCEPT ![r] = "new"]
           e == [d EXCEPT !.links = L]
<1>1. [d EXCEPT !.links[r] = "new"] = e
  OBVIOUS
<1>2. L \in Payloads /\ DOMAIN L = DOMAIN d.links
  <2>1. PICK S \in SUBSET Rows : d.links \in [S -> {"old", "new"}]
    BY DEF Databases, Payloads
  <2>2. L \in [S -> {"old", "new"}]
    BY <2>1
  <2> QED BY <2>1, <2>2 DEF Payloads
<1> HIDE DEF L
<1>3. e \in Databases
  BY <1>2 DEF Databases
<1>4. /\ e.version = d.version /\ e.json = d.json /\ e.links = L /\ e.fts = d.fts
      /\ e.tokens = d.tokens /\ e.indexes = d.indexes /\ e.columns = d.columns
  BY DEF Databases
<1> HIDE DEF e
<1>5. (Full(d) => Full(e)) /\ \A n : Has(n, e) <=> Has(n, d)
  BY <1>2, <1>4 DEF Full, Has
<1>6. \A n, found : Schema!Clashes(n, e, found) <=> Schema!Clashes(n, d, found)
  BY <1>4 DEF Schema!Clashes
<1> QED BY <1>1, <1>3, <1>4, <1>5, <1>6

-----------------------------------------------------------------------------
LEMMA NoOne ==
  /\ tx = Schema!NoTx => tx.holder = Schema!None
  /\ Schema!NoTx.holder = Schema!None
  BY DEF Schema!NoTx

\* Nothing is committed: one process moves on, and keeps or drops its transaction.
LEMMA MigMoves ==
  ASSUME Schema!ConstantsOK, MigTypes, MigDone, NEW p \in Procs, NEW to \in Steps,
         db' = db, pc' = [pc EXCEPT ![p] = to],
         tx' = tx \/ tx' = Schema!NoTx,
         tx'.holder = p => tx' = tx /\ to \in Moving /\ at'[p] = at[p],
         tx'.holder # p => tx' = tx \/ tx.holder = p,
         at' \in [Procs -> 1 .. 7], \A q \in Procs : q # p => at'[q] = at[q] /\ seen'[q] = seen[q],
         DOMAIN seen' = Procs,
         to = "act" => (at'[p] = 3 => seen'[p] \subseteq Rows) /\ (at'[p] = 5 => seen'[p] \subseteq Entities),
         to \in Moving => at'[p] <= 6 /\ \A n \in 1 .. 6 : n < at'[p] => Has(n, db),
         to = "bump" => Has(at'[p], IF tx'.holder = p THEN tx'.view ELSE db),
         to = "serving" => \A n \in 1 .. 6 : Has(n, db)
  PROVE  MigTypes' /\ MigDone'
<1>1. pc' \in [Procs -> Steps] /\ pc'[p] = to /\ \A q \in Procs : q # p => pc'[q] = pc[q]
  BY DEF MigTypes
<1>2. tx'.holder # Schema!None => tx' = tx /\ tx.holder # Schema!None
  BY NoOne
<1>3. MigTypes'
  BY <1>1, <1>2 DEF MigTypes, Full
<1>4. tx'.holder # Schema!None =>
        Ahead(db, tx.view) /\ at'[tx.holder] \in {3, 5} /\ pc'[tx.holder] \in Moving
  <2>1. CASE tx'.holder = p
    BY <1>1, <1>2, <2>1 DEF MigDone
  <2>2. CASE tx'.holder # p
    BY <1>1, <1>2, <2>2 DEF MigDone, MigTypes
  <2> QED BY <2>1, <2>2
<1>5. \A n, d : Has(n, d)' <=> Has(n, d')
  BY DEF Has
<1>6. ASSUME NEW q \in Procs, q # p, pc[q] = "bump"
      PROVE  Has(at[q], IF tx'.holder = q THEN tx'.view ELSE db)
  <2>1. Has(at[q], Schema!View(q))
    BY <1>6 DEF MigDone
  <2>2. CASE tx' = tx
    BY <2>1, <2>2 DEF Schema!View
  <2>3. CASE tx' # tx
    <3>1. tx.holder = p \/ tx'.holder = p
      BY <2>3
    <3>2. tx.holder # q /\ tx'.holder # q
      BY <1>6, <2>3, <3>1, NoOne DEF Schema!ConstantsOK
    <3> QED BY <2>1, <3>2 DEF Schema!View
  <2> QED BY <2>2, <2>3
<1>7. MigDone'
  <2>1. tx'.holder # Schema!None => Ahead(db', tx'.view) /\ at'[tx'.holder] \in {3, 5} /\ pc'[tx'.holder] \in Moving
    BY <1>2, <1>4
  <2>2. \A n \in 1 .. 6 : n <= db'.version => Has(n, db')
    BY DEF MigDone
  <2>3. ASSUME NEW q \in Procs
        PROVE  /\ pc'[q] \in Moving => at'[q] <= 6 /\ \A n \in 1 .. 6 : n < at'[q] => Has(n, db)
               /\ pc'[q] = "bump" => Has(at'[q], IF tx'.holder = q THEN tx'.view ELSE db)
               /\ pc'[q] = "serving" => \A n \in 1 .. 6 : Has(n, db)
    <3>1. CASE q = p
      BY <1>1, <3>1
    <3>2. CASE q # p
      BY <1>1, <1>6, <3>2 DEF MigDone
    <3> QED BY <3>1, <3>2
  <2>4. \A q : Schema!View(q)' = IF tx'.holder = q THEN tx'.view ELSE db
    BY DEF Schema!View
  <2> HIDE DEF Has
  <2> QED BY <2>1, <2>2, <2>3, <2>4 DEF MigDone, Ahead
<1> QED BY <1>3, <1>7

\* Something is committed, by a process that holds the transaction or with no one
\* in it: nothing that was done is undone.
LEMMA MigCommits ==
  ASSUME Schema!ConstantsOK, MigTypes, MigDone, NEW p \in Procs, NEW to \in Steps,
         tx.holder \in {Schema!None, p}, tx' = Schema!NoTx \/ (tx' = tx /\ tx.holder = Schema!None),
         db' \in Databases, Full(db'), Ahead(db, db'),
         pc' = [pc EXCEPT ![p] = to],
         at' \in [Procs -> 1 .. 7], \A q \in Procs : q # p => at'[q] = at[q] /\ seen'[q] = seen[q],
         DOMAIN seen' = Procs, to # "act",
         \A n \in 1 .. 6 : n <= db'.version => Has(n, db'),
         to \in Moving => at'[p] <= 6 /\ \A n \in 1 .. 6 : n < at'[p] => Has(n, db'),
         to = "bump" => Has(at'[p], db'),
         to = "serving" => \A n \in 1 .. 6 : Has(n, db')
  PROVE  MigTypes' /\ MigDone'
<1>1. pc' \in [Procs -> Steps] /\ pc'[p] = to /\ \A q \in Procs : q # p => pc'[q] = pc[q]
  BY DEF MigTypes
<1>2. tx'.holder = Schema!None
  BY NoOne
<1>3. MigTypes'
  BY <1>1, <1>2 DEF MigTypes, Full
<1>4. ASSUME NEW q \in Procs
      PROVE  /\ pc'[q] \in Moving => at'[q] <= 6 /\ \A n \in 1 .. 6 : n < at'[q] => Has(n, db')
             /\ pc'[q] = "bump" => Has(at'[q], db')
             /\ pc'[q] = "serving" => \A n \in 1 .. 6 : Has(n, db')
  <2>1. CASE q = p
    BY <1>1, <2>1
  <2>2. CASE q # p
    <3>1. pc'[q] = pc[q] /\ at'[q] = at[q] /\ at[q] \in 1 .. 7
      BY <1>1, <2>2 DEF MigTypes
    <3>2. Schema!View(q) = db
      BY <2>2 DEF Schema!View, Schema!ConstantsOK
    <3>3. pc[q] = "bump" => at[q] \in 1 .. 6 /\ Has(at[q], db)
      BY <3>1, <3>2 DEF MigDone, Moving
    <3> HIDE DEF Has
    <3> QED BY <3>1, <3>3 DEF MigDone, Ahead
  <2> QED BY <2>1, <2>2
<1>5. \A q \in Procs : Schema!View(q)' = db'
  BY <1>2 DEF Schema!View, Schema!ConstantsOK
<1> HIDE DEF Has
<1> QED BY <1>2, <1>3, <1>4, <1>5 DEF MigDone, Ahead

LEMMA MigStepDone ==
  ASSUME Schema!ConstantsOK, MigTypes, MigDone, Schema!MigrateNext
  PROVE  MigTypes' /\ MigDone'
<1>0. PICK p \in Procs :
        \/ Schema!Boot(p) \/ Schema!Version(p) \/ Schema!FirstVersion(p) \/ Schema!Check(p)
        \/ Schema!Act(p) \/ Schema!Bump(p) \/ Schema!Locked(p) \/ Schema!Crash(p)
        \/ \E r \in Rows : Schema!Serve(p, r)
  BY DEF Schema!MigrateNext
<1>1. /\ db \in Databases /\ Full(db) /\ at \in [Procs -> 1 .. 7] /\ DOMAIN seen = Procs
      /\ pc \in [Procs -> Steps] /\ db.version \in -1 .. 6
      /\ tx.holder # Schema!None => tx.holder \in Procs /\ tx.view \in Databases /\ Full(tx.view)
      /\ Schema!None \notin Procs /\ Schema!None = -1
  BY DEF MigTypes, Databases, Schema!ConstantsOK, Schema!None
<1>2. \A q \in Procs : tx.holder = q => at[q] \in {3, 5} /\ pc[q] \in Moving
  BY <1>1 DEF MigDone
<1>3. CASE Schema!Boot(p)
  <2>1. /\ pc' = [pc EXCEPT ![p] = "tables"] /\ UNCHANGED <<db, tx, at, seen>> /\ pc[p] \in {"off", "dead"}
    BY <1>3 DEF Schema!Boot, Schema!Goes
  <2>2. tx.holder # p /\ "tables" \in Steps /\ "tables" \notin Moving
    BY <1>2, <2>1 DEF Steps, Moving
  <2> QED BY <1>1, <2>1, <2>2, MigMoves
<1>4. CASE Schema!Version(p)
  <2>1. pc[p] = "tables" /\ UNCHANGED <<db, tx, seen>> /\ tx.holder # p
    BY <1>2, <1>4 DEF Schema!Version, Moving
  <2>2. CASE db.version = Schema!None
    <3>1. pc' = [pc EXCEPT ![p] = "first"] /\ at' = at /\ "first" \in Steps /\ "first" \notin Moving
      BY <1>4, <2>2 DEF Schema!Version, Schema!Goes, Steps, Moving
    <3> QED BY <1>1, <2>1, <3>1, MigMoves
  <2>3. CASE db.version # Schema!None
    <3> DEFINE to == IF db.version = 6 THEN "serving" ELSE "check"
    <3>1. pc' = [pc EXCEPT ![p] = to] /\ at' = [at EXCEPT ![p] = db.version + 1]
      BY <1>4, <2>3 DEF Schema!Version, Schema!Goes, Schema!Latest
    <3>2. db.version \in 0 .. 6
      BY <1>1, <2>3
    <3>3. at' \in [Procs -> 1 .. 7] /\ at'[p] = db.version + 1 /\ \A q \in Procs : q # p => at'[q] = at[q]
      BY <1>1, <3>1, <3>2
    <3>4. \A n \in 1 .. 6 : n < at'[p] => Has(n, db)
      BY <3>2, <3>3 DEF MigDone
    <3>5. to \in Steps /\ to \notin {"act", "bump"}
      BY DEF Steps
    <3>6. to \in Moving => at'[p] <= 6
      BY <3>2, <3>3 DEF Moving
    <3>7. to = "serving" => \A n \in 1 .. 6 : Has(n, db)
      BY <3>2 DEF MigDone
    <3> HIDE DEF to, Has
    <3> QED BY <1>1, <2>1, <3>1, <3>3, <3>4, <3>5, <3>6, <3>7, MigMoves
  <2> QED BY <2>2, <2>3
<1>5. CASE Schema!FirstVersion(p)
  <2>1. pc[p] = "first" /\ tx.holder = Schema!None /\ UNCHANGED <<tx, seen>> /\ at' = [at EXCEPT ![p] = 1]
    BY <1>5, NoOne DEF Schema!FirstVersion
  <2>2. at' \in [Procs -> 1 .. 7] /\ at'[p] = 1 /\ \A q \in Procs : q # p => at'[q] = at[q]
    BY <1>1, <2>1
  <2>3. CASE db.version = Schema!None
    <3>1. db' = [db EXCEPT !.version = 0] /\ pc' = [pc EXCEPT ![p] = "check"] /\ "check" \in Steps
      BY <1>5, <2>3 DEF Schema!FirstVersion, Schema!Goes, Steps
    <3>2. /\ db' \in Databases /\ db'.version = 0 /\ Full(db') /\ \A n : Has(n, db') <=> Has(n, db)
      <4> DEFINE e == [db EXCEPT !.version = 0]
      <4>1. 0 \in -1 .. 6
        OBVIOUS
      <4>2. /\ e \in Databases /\ e.version = 0 /\ Full(e) /\ \A n : Has(n, e) <=> Has(n, db)
        BY <1>1, <4>1, VersionChange
      <4> HIDE DEF e
      <4>3. db' = e
        BY <3>1 DEF e
      <4> QED BY <4>2, <4>3
    <3>3. Ahead(db, db')
      BY <3>2 DEF Ahead
    <3>4. \A q \in Procs : q # p => at'[q] = at[q] /\ seen'[q] = seen[q]
      BY <2>1, <2>2
    <3>5. \A n \in 1 .. 6 : ~ (n <= db'.version) /\ ~ (n < at'[p])
      BY <2>2, <3>2
    <3>6. at' \in [Procs -> 1 .. 7] /\ at'[p] <= 6 /\ DOMAIN seen' = Procs
      BY <1>1, <2>1, <2>2
    <3>7. tx.holder \in {Schema!None, p} /\ tx' = tx
      BY <2>1
    <3> HIDE DEF Has, Full, Ahead
    <3> QED BY <2>1, <3>1, <3>2, <3>3, <3>4, <3>5, <3>6, <3>7, MigCommits
  <2>4. CASE db.version # Schema!None
    <3>1. db' = db /\ pc' = [pc EXCEPT ![p] = "dead"] /\ "dead" \in Steps /\ "dead" \notin Moving
      BY <1>5, <2>4 DEF Schema!FirstVersion, Schema!Goes, Steps, Moving
    <3> QED BY <1>1, <2>1, <2>2, <3>1, MigMoves
  <2> QED BY <2>3, <2>4
<1>6. CASE Schema!Check(p)
  <2> DEFINE v == Schema!View(p)
             found == Schema!ToDo(at[p], v)
             to == IF found = {} THEN "bump" ELSE "act"
  <2>1. /\ pc[p] = "check" /\ seen' = [seen EXCEPT ![p] = found] /\ pc' = [pc EXCEPT ![p] = to]
        /\ UNCHANGED <<db, tx, at>>
    BY <1>6 DEF Schema!Check, Schema!Goes
  <2>2. at[p] \in 1 .. 6 /\ \A n \in 1 .. 6 : n < at[p] => Has(n, db)
    BY <1>1, <2>1 DEF MigDone, Moving
  <2>3. v \in Databases
    BY <1>1 DEF Schema!View
  <2>4. /\ found = {} => Has(at[p], v)
        /\ at[p] = 3 => found \subseteq Rows
        /\ at[p] = 5 => found \subseteq Entities
    BY <2>2, <2>3, WhatIsToDo
  <2>5. seen'[p] = found /\ DOMAIN seen' = Procs /\ \A q \in Procs : q # p => seen'[q] = seen[q]
    BY <1>1, <2>1
  <2>6. to \in Steps /\ to \in Moving /\ to # "serving" /\ (to = "bump" => found = {})
    BY DEF Steps, Moving
  <2>7. v = IF tx.holder = p THEN tx.view ELSE db
    BY DEF Schema!View
  <2>8. at' = at /\ at'[p] <= 6 /\ \A q \in Procs : q # p => at'[q] = at[q] /\ seen'[q] = seen[q]
    BY <2>1, <2>2, <2>5
  <2>9. to = "bump" => Has(at'[p], IF tx'.holder = p THEN tx'.view ELSE db)
    <3> HIDE DEF to, found, v, Has
    <3> QED BY <2>1, <2>4, <2>6, <2>7
  <2>10. (at'[p] = 3 => seen'[p] \subseteq Rows) /\ (at'[p] = 5 => seen'[p] \subseteq Entities)
    <3> HIDE DEF found
    <3> QED BY <2>1, <2>4, <2>5
  <2>11. \A n \in 1 .. 6 : n < at'[p] => Has(n, db)
    BY <2>2, <2>8
  <2>12. tx' = tx /\ db' = db /\ (tx'.holder = p => tx' = tx /\ to \in Moving /\ at'[p] = at[p])
    BY <2>1, <2>6
  <2> HIDE DEF to, found, v, Has
  <2> QED BY <1>1, <2>1, <2>5, <2>6, <2>8, <2>9, <2>10, <2>11, <2>12, MigMoves
<1>7. CASE Schema!Act(p)
  <2>1. /\ pc[p] = "act" /\ tx.holder \in {Schema!None, p} /\ at[p] \in 1 .. 6
        /\ \A n \in 1 .. 6 : n < at[p] => Has(n, db)
        /\ at[p] = 3 => seen[p] \subseteq Rows
        /\ at[p] = 5 => seen[p] \subseteq Entities
    BY <1>1, <1>7 DEF Schema!Act, MigDone, MigTypes, Moving
  <2>2. CASE Schema!Clashes(at[p], Schema!View(p), seen[p])
    <3>1. Schema!Ends(p, "dead")
      BY <1>7, <2>2 DEF Schema!Act
    <3>2. /\ pc' = [pc EXCEPT ![p] = "dead"] /\ tx' = (IF tx.holder = p THEN Schema!NoTx ELSE tx)
          /\ seen' = [seen EXCEPT ![p] = {}] /\ UNCHANGED <<db, at>> /\ "dead" \in Steps /\ "dead" \notin Moving
      BY <3>1 DEF Schema!Ends, Schema!Goes, Steps, Moving
    <3>3. /\ tx' = tx \/ (tx' = Schema!NoTx /\ tx.holder = p)
          /\ tx'.holder # p
      BY <1>1, <3>2, NoOne
    <3>4. DOMAIN seen' = Procs /\ \A q \in Procs : q # p => seen'[q] = seen[q]
      BY <1>1, <3>2
    <3> HIDE DEF Has
    <3> QED BY <1>1, <3>2, <3>3, <3>4, MigMoves
  <2>3. CASE ~ Schema!Clashes(at[p], Schema!View(p), seen[p])
    <3> DEFINE v == Schema!View(p)
               e == Schema!Done(at[p], v, seen[p])
    <3>1. v \in Databases /\ Full(v) /\ Ahead(db, v)
      BY <1>1, <2>1 DEF Schema!View, MigDone, Ahead
    <3>2. /\ e \in Databases /\ Full(e) /\ e.version = v.version /\ Ahead(v, e)
          /\ at[p] \notin {3, 5} => Has(at[p], e)
      BY <2>1, <3>1, WhatIsDone
    <3>3. Ahead(db, e)
      BY <3>1, <3>2 DEF Ahead
    <3>4. seen' = [seen EXCEPT ![p] = {}] /\ UNCHANGED at
      BY <1>7, <2>3 DEF Schema!Act
    <3>5. DOMAIN seen' = Procs /\ \A q \in Procs : q # p => seen'[q] = seen[q]
      BY <1>1, <3>4
    <3>6. CASE at[p] \in {3, 5}
      <4>1. /\ tx' = [holder |-> p, view |-> e] /\ db' = db /\ pc' = [pc EXCEPT ![p] = "check"]
        BY <1>7, <2>3, <3>6 DEF Schema!Act, Schema!InTransaction, Schema!Goes
      <4>2. tx'.holder = p /\ tx'.view = e
        BY <4>1
      <4>3. pc' \in [Procs -> Steps] /\ pc'[p] = "check" /\ \A q \in Procs : q # p => pc'[q] = pc[q]
        BY <1>1, <4>1 DEF Steps
      <4> HIDE DEF e, v
      <4>4. MigTypes'
        BY <1>1, <3>2, <3>4, <3>5, <4>1, <4>2, <4>3 DEF MigTypes, Full
      <4>5. ASSUME NEW q \in Procs
            PROVE  /\ pc'[q] \in Moving => at[q] <= 6 /\ \A n \in 1 .. 6 : n < at[q] => Has(n, db)
                   /\ pc'[q] = "bump" => q # p /\ Has(at[q], db)
                   /\ pc'[q] = "serving" => \A n \in 1 .. 6 : Has(n, db)
        <5>1. CASE q = p
          BY <2>1, <4>3, <5>1
        <5>2. CASE q # p
          <6>1. Schema!View(q) = db
            BY <1>1, <2>1, <5>2 DEF Schema!View
          <6> QED BY <4>3, <5>2, <6>1 DEF MigDone
        <5> QED BY <5>1, <5>2
      <4>6. \A q \in Procs : q # p => Schema!View(q)' = db
        BY <4>1, <4>2 DEF Schema!View
      <4>7. \A n \in 1 .. 6 : n <= db.version => Has(n, db)
        BY DEF MigDone
      <4>8. at[p] \in {3, 5} /\ "check" \in Moving
        BY <3>6 DEF Moving
      <4> HIDE DEF Has
      <4>9. Ahead(db', tx'.view)
        BY <3>3, <4>1, <4>2
      <4> QED BY <3>4, <4>1, <4>2, <4>3, <4>4, <4>5, <4>6, <4>7, <4>8, <4>9 DEF MigDone
    <3>7. CASE at[p] \notin {3, 5}
      <4>1. db' = e /\ tx' = tx /\ pc' = [pc EXCEPT ![p] = "bump"] /\ "bump" \in Steps
        BY <1>7, <2>3, <3>7 DEF Schema!Act, Schema!InTransaction, Schema!Goes, Steps
      <4>2. tx.holder = Schema!None /\ v = db
        BY <1>1, <1>2, <2>1, <3>7 DEF Schema!View
      <4>3. \A n \in 1 .. 6 : n <= e.version => Has(n, e)
        BY <3>2, <4>2 DEF MigDone, Ahead
      <4>4. \A n \in 1 .. 6 : n < at[p] => Has(n, e)
        BY <2>1, <3>3 DEF Ahead
      <4>5. tx.holder \in {Schema!None, p} /\ tx' = tx /\ at' = at /\ at'[p] <= 6
        BY <2>1, <3>4, <4>1
      <4>6. \A q \in Procs : q # p => at'[q] = at[q] /\ seen'[q] = seen[q]
        BY <3>4, <3>5
      <4>7. \A n \in 1 .. 6 : n < at'[p] => Has(n, db')
        BY <4>1, <4>4, <4>5
      <4>8. db' \in Databases /\ Full(db') /\ Ahead(db, db') /\ Has(at'[p], db')
        <5> HIDE DEF e, Has, Ahead, Full, v
        <5> QED BY <3>2, <3>3, <3>7, <4>1, <4>5
      <4>9. \A n \in 1 .. 6 : n <= db'.version => Has(n, db')
        BY <4>1, <4>3
      <4> HIDE DEF e, v, Has, Ahead, Full
      <4> QED BY <1>1, <3>5, <4>1, <4>2, <4>5, <4>6, <4>7, <4>8, <4>9, MigCommits
    <3> QED BY <3>6, <3>7
  <2> QED BY <2>2, <2>3
<1>8. CASE Schema!Bump(p)
  <2> DEFINE v == Schema!View(p)
             to == IF at[p] = 6 THEN "serving" ELSE "check"
  <2>1. /\ pc[p] = "bump" /\ tx.holder \in {Schema!None, p} /\ tx' = Schema!NoTx /\ seen' = seen
        /\ db' = [v EXCEPT !.version = at[p]] /\ pc' = [pc EXCEPT ![p] = to]
        /\ at' = IF at[p] = 6 THEN at ELSE [at EXCEPT ![p] = @ + 1]
    BY <1>8 DEF Schema!Bump, Schema!Goes, Schema!Latest
  <2>2. /\ at[p] \in 1 .. 6 /\ Has(at[p], v) /\ \A n \in 1 .. 6 : n < at[p] => Has(n, db)
    BY <1>1, <2>1 DEF MigDone, Moving
  <2>3. v \in Databases /\ Full(v) /\ Ahead(db, v)
    BY <1>1, <2>1 DEF Schema!View, MigDone, Ahead
  <2>4. /\ db' \in Databases /\ db'.version = at[p] /\ Full(db') /\ \A n : Has(n, db') <=> Has(n, v)
    <3> DEFINE k == at[p]
               e == [v EXCEPT !.version = k]
    <3>1. k \in -1 .. 6
      BY <2>2
    <3> HIDE DEF v, k
    <3>2. /\ e \in Databases /\ e.version = k /\ Full(e) /\ \A n : Has(n, e) <=> Has(n, v)
      BY <2>3, <3>1, VersionChange
    <3>3. db' = e
      BY <2>1 DEF k
    <3> HIDE DEF e
    <3> QED BY <3>2, <3>3 DEF k
  <2>5. \A n \in 1 .. 6 : n <= at[p] => Has(n, db')
    <3>1. \A n \in 1 .. 6 : n <= at[p] => n < at[p] \/ n = at[p]
      BY <2>2
    <3> HIDE DEF Has, v
    <3> QED BY <2>2, <2>3, <2>4, <3>1 DEF Ahead
  <2>6. Ahead(db, db')
    BY <2>3, <2>4 DEF Ahead
  <2>7. at' \in [Procs -> 1 .. 7] /\ \A q \in Procs : q # p => at'[q] = at[q]
    BY <1>1, <2>1, <2>2
  <2>8. at[p] # 6 => at'[p] = at[p] + 1 /\ at'[p] <= 6
    BY <1>1, <2>1, <2>2
  <2>9. to \in Moving => at'[p] <= 6 /\ \A n \in 1 .. 6 : n < at'[p] => Has(n, db')
    <3>1. to \in Moving => at[p] # 6
      BY DEF Moving
    <3>2. at[p] # 6 => \A n \in 1 .. 6 : n < at'[p] => n <= at[p]
      BY <2>2, <2>8
    <3> HIDE DEF Has, to
    <3> QED BY <2>5, <2>8, <3>1, <3>2
  <2>10. to = "serving" => \A n \in 1 .. 6 : Has(n, db')
    <3>1. to = "serving" => at[p] = 6
      OBVIOUS
    <3>2. at[p] = 6 => \A n \in 1 .. 6 : n <= at[p]
      OBVIOUS
    <3> HIDE DEF Has, to
    <3> QED BY <2>5, <3>1, <3>2
  <2>11. to \in Steps /\ to \notin {"act", "bump"}
    BY DEF Steps
  <2> HIDE DEF Has, to, v, Ahead, Full
  <2> QED BY <1>1, <2>1, <2>4, <2>5, <2>6, <2>7, <2>9, <2>10, <2>11, MigCommits
<1>9. CASE Schema!Locked(p) \/ Schema!Crash(p)
  <2>1. PICK as \in {"dead", "off"} : Schema!Ends(p, as)
    BY <1>9 DEF Schema!Locked, Schema!Crash
  <2>2. /\ pc' = [pc EXCEPT ![p] = as] /\ tx' = (IF tx.holder = p THEN Schema!NoTx ELSE tx)
        /\ seen' = [seen EXCEPT ![p] = {}] /\ UNCHANGED <<db, at>>
        /\ as \in Steps /\ as \notin Moving /\ as # "serving" /\ as # "act" /\ as # "bump"
    BY <2>1 DEF Schema!Ends, Schema!Goes, Steps, Moving
  <2>3. /\ tx' = tx \/ (tx' = Schema!NoTx /\ tx.holder = p)
        /\ tx'.holder # p
    BY <1>1, <2>2, NoOne
  <2>4. DOMAIN seen' = Procs /\ \A q \in Procs : q # p => seen'[q] = seen[q]
    BY <1>1, <2>2
  <2> HIDE DEF Has
  <2> QED BY <1>1, <2>2, <2>3, <2>4, MigMoves
<1>10. ASSUME NEW r \in Rows, Schema!Serve(p, r)
       PROVE  MigTypes' /\ MigDone'
  <2>1. /\ pc[p] = "serving" /\ tx.holder = Schema!None /\ r \in DOMAIN db.links
        /\ db' = [db EXCEPT !.links[r] = "new"] /\ UNCHANGED <<tx, pc, at, seen>>
    BY <1>10, NoOne DEF Schema!Serve
  <2>2. /\ db' \in Databases /\ db'.version = db.version /\ Full(db') /\ \A n : Has(n, db') <=> Has(n, db)
    BY <1>1, <2>1, LinkChange
  <2>3. Ahead(db, db') /\ "serving" \in Steps /\ "serving" \notin Moving
    BY <2>2 DEF Ahead, Steps, Moving
  <2>4. pc' = [pc EXCEPT ![p] = "serving"]
    BY <1>1, <2>1
  <2>5. /\ \A n \in 1 .. 6 : n <= db'.version => Has(n, db')
        /\ \A n \in 1 .. 6 : Has(n, db')
    BY <2>1, <2>2 DEF MigDone
  <2> HIDE DEF Has, Ahead, Full
  <2> QED BY <1>1, <2>1, <2>2, <2>3, <2>4, <2>5, MigCommits
<1> QED BY <1>0, <1>3, <1>4, <1>5, <1>6, <1>7, <1>8, <1>9, <1>10

\* The one that starts moves on, and no other does.
LEMMA AloneMoves ==
  ASSUME MigTypes, NEW p \in Procs, NEW to,
         \A q \in Procs : q # p => ~ Schema!Booting(q) /\ pc[q] # "dead",
         pc' = [pc EXCEPT ![p] = to], to # "dead",
         to = "first" => db'.version = Schema!None,
         to = "act" => ~ Schema!Clashes(at'[p], IF tx'.holder = p THEN tx'.view ELSE db', seen'[p])
  PROVE  MigAlone'
<1>1. pc \in [Procs -> Steps]
  BY DEF MigTypes
<1>2. pc'[p] = to /\ \A q \in Procs : q # p => pc'[q] = pc[q] /\ pc'[q] \notin {"first", "act", "dead"}
  BY <1>1 DEF Schema!Booting
<1>3. \A q \in Procs : q # p => ~ Schema!Booting(q)'
  BY <1>2 DEF Schema!Booting
<1>4. Schema!View(p)' = IF tx'.holder = p THEN tx'.view ELSE db'
  BY DEF Schema!View
<1>5. \A q \in Procs : pc'[q] = "first" \/ pc'[q] = "act" => q = p
  BY <1>2
<1> QED BY <1>2, <1>3, <1>4, <1>5 DEF MigAlone

LEMMA MigStepAlone ==
  ASSUME Schema!ConstantsOK, MigTypes, MigDone, MigAlone, Schema!MigrateNext
  PROVE  MigAlone'
<1>0. PICK p \in Procs :
        \/ Schema!Boot(p) \/ Schema!Version(p) \/ Schema!FirstVersion(p) \/ Schema!Check(p)
        \/ Schema!Act(p) \/ Schema!Bump(p) \/ Schema!Locked(p) \/ Schema!Crash(p)
        \/ \E r \in Rows : Schema!Serve(p, r)
  BY DEF Schema!MigrateNext
<1>1. CASE together'
  BY <1>1 DEF MigAlone
<1>2. CASE ~ together'
  <2>1. ~ together
    BY <1>0, <1>2 DEF Schema!Boot, Schema!Version, Schema!FirstVersion, Schema!Check, Schema!Act,
       Schema!Bump, Schema!Locked, Schema!Crash, Schema!Serve, Schema!Ends
  <2>2. /\ \A q, r \in Procs : Schema!Booting(q) /\ Schema!Booting(r) => q = r
        /\ \A q \in Procs :
              /\ pc[q] # "dead"
              /\ pc[q] = "first" => db.version = Schema!None
              /\ pc[q] = "act" => ~ Schema!Clashes(at[q], Schema!View(q), seen[q])
    BY <2>1 DEF MigAlone
  <2>3. Schema!Booting(p) => \A q \in Procs : q # p => ~ Schema!Booting(q) /\ pc[q] # "dead"
    BY <2>2
  <2>4. /\ db \in Databases /\ Schema!None \notin Procs
        /\ tx.holder # Schema!None => tx.holder \in Procs /\ tx.view \in Databases /\ pc[tx.holder] \in Moving
    BY DEF MigTypes, MigDone, Schema!ConstantsOK
  <2>5. pc[p] \in {"tables", "first", "check", "act", "bump"} => Schema!Booting(p)
    BY DEF Schema!Booting
  <2>6. CASE Schema!Boot(p)
    <3>1. /\ pc' = [pc EXCEPT ![p] = "tables"]
          /\ \A q \in Procs : ~ Schema!Booting(q)
      BY <1>2, <2>6 DEF Schema!Boot, Schema!Goes
    <3>2. "tables" \notin {"dead", "first", "act"}
      OBVIOUS
    <3> QED BY <2>2, <3>1, <3>2, AloneMoves
  <2>7. CASE Schema!Version(p)
    <3>1. PICK to \in {"first", "serving", "check"} : pc' = [pc EXCEPT ![p] = to]
      BY <2>7 DEF Schema!Version, Schema!Goes
    <3>2. pc[p] = "tables" /\ db' = db /\ (db.version # Schema!None => pc' = [pc EXCEPT ![p] = "serving"] \/ pc' = [pc EXCEPT ![p] = "check"])
      BY <2>7 DEF Schema!Version, Schema!Goes
    <3>3. pc'[p] = to
      BY <3>1 DEF MigTypes
    <3>4. to = "first" => db'.version = Schema!None
      BY <3>2, <3>3 DEF MigTypes
    <3> QED BY <2>3, <2>5, <3>1, <3>2, <3>4, AloneMoves
  <2>8. CASE Schema!FirstVersion(p)
    <3>1. pc[p] = "first" /\ pc' = [pc EXCEPT ![p] = "check"]
      BY <2>2, <2>8 DEF Schema!FirstVersion, Schema!Goes
    <3>2. "check" \notin {"dead", "first", "act"}
      OBVIOUS
    <3> QED BY <2>3, <2>5, <3>1, <3>2, AloneMoves
  <2>9. CASE Schema!Check(p)
    <3> DEFINE v == Schema!View(p)
               found == Schema!ToDo(at[p], v)
               to == IF found = {} THEN "bump" ELSE "act"
    <3>1. /\ pc[p] = "check" /\ seen' = [seen EXCEPT ![p] = found] /\ pc' = [pc EXCEPT ![p] = to]
          /\ UNCHANGED <<db, tx, at>>
      BY <2>9 DEF Schema!Check, Schema!Goes
    <3>2. at[p] \in 1 .. 6 /\ v \in Databases
      BY <2>4, <3>1 DEF MigDone, Moving, MigTypes, Schema!View
    <3>3. found # {} => ~ Schema!Clashes(at[p], v, found)
      BY <3>2, WhatIsToDo
    <3>4. seen'[p] = found
      BY <3>1 DEF MigTypes
    <3>5. to = "act" => found # {}
      OBVIOUS
    <3>6. v = IF tx'.holder = p THEN tx'.view ELSE db'
      BY <3>1 DEF Schema!View
    <3>7. to \notin {"dead", "first"}
      OBVIOUS
    <3>8. Schema!Booting(p)
      BY <2>5, <3>1
    <3> HIDE DEF to, found, v
    <3>9. to = "act" => ~ Schema!Clashes(at'[p], IF tx'.holder = p THEN tx'.view ELSE db', seen'[p])
      BY <3>1, <3>3, <3>4, <3>5, <3>6
    <3> QED BY <2>3, <3>1, <3>7, <3>8, <3>9, AloneMoves
  <2>10. CASE Schema!Act(p)
    <3>1. PICK to \in {"check", "bump"} : pc[p] = "act" /\ pc' = [pc EXCEPT ![p] = to]
      BY <2>2, <2>10 DEF Schema!Act, Schema!Goes
    <3> QED BY <2>3, <2>5, <3>1, AloneMoves
  <2>11. CASE Schema!Bump(p)
    <3>1. PICK to \in {"check", "serving"} : pc[p] = "bump" /\ pc' = [pc EXCEPT ![p] = to]
      BY <2>11 DEF Schema!Bump, Schema!Goes
    <3> QED BY <2>3, <2>5, <3>1, AloneMoves
  <2>12. CASE Schema!Locked(p)
    <3>1. pc[p] \in {"first", "act", "bump"} /\ tx.holder # Schema!None /\ tx.holder # p
      BY <2>12 DEF Schema!Locked
    <3>2. Schema!Booting(p) /\ Schema!Booting(tx.holder) /\ tx.holder \in Procs
      BY <2>4, <3>1 DEF Schema!Booting, Moving
    <3> QED BY <2>2, <3>1, <3>2
  <2>13. CASE Schema!Crash(p)
    <3>1. /\ pc' = [pc EXCEPT ![p] = "off"] /\ tx' = (IF tx.holder = p THEN Schema!NoTx ELSE tx)
          /\ seen' = [seen EXCEPT ![p] = {}] /\ UNCHANGED <<db, at>> /\ pc[p] \notin {"off", "dead"}
      BY <2>13 DEF Schema!Crash, Schema!Ends, Schema!Goes
    <3>2. CASE Schema!Booting(p)
      <4>1. "off" \notin {"dead", "first", "act"}
        OBVIOUS
      <4> QED BY <2>3, <3>1, <3>2, <4>1, AloneMoves
    <3>3. CASE ~ Schema!Booting(p)
      <4>1. tx.holder # p
        BY <2>4, <3>3 DEF Schema!Booting, Moving
      <4>2. tx' = tx /\ \A q : Schema!View(q)' = Schema!View(q)
        BY <3>1, <4>1 DEF Schema!View
      <4>3. /\ pc'[p] = "off" /\ \A q \in Procs : q # p => pc'[q] = pc[q] /\ seen'[q] = seen[q]
        BY <3>1 DEF MigTypes
      <4>4. \A q \in Procs : Schema!Booting(q)' => Schema!Booting(q) /\ q # p
        BY <4>3 DEF Schema!Booting
      <4>5. ASSUME NEW q \in Procs
            PROVE  /\ pc'[q] # "dead"
                   /\ pc'[q] = "first" => db'.version = Schema!None
                   /\ pc'[q] = "act" => ~ Schema!Clashes(at'[q], Schema!View(q)', seen'[q])
        <5>1. CASE q = p
          BY <4>3, <5>1
        <5>2. CASE q # p
          BY <2>2, <3>1, <4>2, <4>3, <5>2
        <5> QED BY <5>1, <5>2
      <4> QED BY <2>2, <4>4, <4>5 DEF MigAlone
    <3> QED BY <3>2, <3>3
  <2>14. ASSUME NEW r \in Rows, Schema!Serve(p, r)
         PROVE  MigAlone'
    <3>1. /\ tx.holder = Schema!None /\ r \in DOMAIN db.links
          /\ db' = [db EXCEPT !.links[r] = "new"] /\ UNCHANGED <<tx, pc, at, seen>>
      BY <2>14, NoOne DEF Schema!Serve
    <3>2. /\ db'.version = db.version
          /\ \A n, found : Schema!Clashes(n, db', found) <=> Schema!Clashes(n, db, found)
      <4> DEFINE e == [db EXCEPT !.links[r] = "new"]
      <4>1. /\ e.version = db.version
            /\ \A n, found : Schema!Clashes(n, e, found) <=> Schema!Clashes(n, db, found)
        BY <2>4, <3>1, LinkChange
      <4>2. db' = e
        BY <3>1
      <4> HIDE DEF e
      <4> QED BY <4>1, <4>2
    <3>3. \A q \in Procs : Schema!View(q) = db /\ Schema!View(q)' = db'
      BY <2>4, <3>1 DEF Schema!View
    <3>4. \A q \in Procs : Schema!Booting(q)' <=> Schema!Booting(q)
      BY <3>1 DEF Schema!Booting
    <3>5. ASSUME NEW q \in Procs, pc[q] = "act"
          PROVE  ~ Schema!Clashes(at[q], Schema!View(q)', seen[q])
      BY <2>2, <3>2, <3>3, <3>5
    <3> QED BY <2>2, <3>1, <3>2, <3>4, <3>5 DEF MigAlone
  <2> QED BY <1>0, <2>6, <2>7, <2>8, <2>9, <2>10, <2>11, <2>12, <2>13, <2>14
<1> QED BY <1>1, <1>2

LEMMA MigInitInv ==
  ASSUME Schema!ConstantsOK, Schema!Init
  PROVE  MigIInv
<1>1. PICK J \in SUBSET Rows, columns \in {{}, {1, 2}}, fts \in BOOLEAN :
        db = [version |-> -1, columns |-> columns, json |-> [r \in J |-> "old"],
              links |-> [r \in Rows \ J |-> "old"], fts |-> fts, tokens |-> {}, indexes |-> FALSE]
  BY DEF Schema!Init, Schema!None, Schema!Tables
<1>2. /\ tx.holder = Schema!None /\ pc = [p \in Procs |-> "off"]
      /\ at = [p \in Procs |-> 1] /\ seen = [p \in Procs |-> {}] /\ together = FALSE
  BY NoOne DEF Schema!Init
<1>3. db \in Databases /\ Full(db) /\ db.version = -1
  <2> DEFINE A == [r \in J |-> "old"]
             B == [r \in Rows \ J |-> "old"]
  <2>1. A \in Payloads /\ B \in Payloads /\ DOMAIN A = J /\ DOMAIN B = Rows \ J
    <3>1. A \in [J -> {"old", "new"}] /\ B \in [Rows \ J -> {"old", "new"}]
      OBVIOUS
    <3>2. J \in SUBSET Rows /\ Rows \ J \in SUBSET Rows
      OBVIOUS
    <3> QED BY <3>1, <3>2 DEF Payloads
  <2> HIDE DEF A, B
  <2>2. db = [version |-> -1, columns |-> columns, json |-> A, links |-> B, fts |-> fts,
              tokens |-> {}, indexes |-> FALSE]
    BY <1>1 DEF A, B
  <2>3. db \in Databases
    BY <2>1, <2>2 DEF Databases
  <2> QED BY <2>1, <2>2, <2>3 DEF Full
<1>4. MigTypes
  BY <1>2, <1>3 DEF MigTypes, Steps
<1>5. MigDone
  BY <1>2, <1>3 DEF MigDone, Moving
<1>6. MigAlone
  BY <1>2 DEF MigAlone, Schema!Booting
<1> QED BY <1>4, <1>5, <1>6 DEF MigIInv

LEMMA MigStepInv ==
  ASSUME Schema!ConstantsOK, MigIInv, [Schema!MigrateNext]_(Schema!vars)
  PROVE  MigIInv'
<1>1. CASE Schema!MigrateNext
  BY <1>1, MigStepDone, MigStepAlone DEF MigIInv
<1>2. CASE UNCHANGED Schema!vars
  <2>1. UNCHANGED <<db, tx, pc, at, seen, together>>
    BY <1>2 DEF Schema!vars
  <2>2. \A p : Schema!View(p)' = Schema!View(p) /\ (Schema!Booting(p)' <=> Schema!Booting(p))
    BY <2>1 DEF Schema!View, Schema!Booting
  <2>3. MigTypes'
    BY <2>1 DEF MigIInv, MigTypes, Full
  <2>4. MigAlone'
    BY <2>1, <2>2 DEF MigIInv, MigAlone
  <2>5. MigDone'
    BY <2>1, <2>2 DEF MigIInv, MigDone, Ahead, Has
  <2> QED BY <2>3, <2>4, <2>5 DEF MigIInv
<1> QED BY <1>1, <1>2

\* No row is lost on the way to its table, whoever moves it and wherever it dies; a
\* process that serves finds everything migrated; and a start that was never beside
\* another goes through.
THEOREM MigrationsAreSafe ==
  ASSUME Schema!ConstantsOK
  PROVE  Schema!MigrateSpec => []Schema!MigrationIsSafe
<1>1. Schema!Init => MigIInv
  BY MigInitInv
<1>2. MigIInv /\ [Schema!MigrateNext]_(Schema!vars) => MigIInv'
  BY MigStepInv
<1>3. MigIInv => Schema!MigrationIsSafe
  <2> SUFFICES ASSUME MigIInv PROVE Schema!MigrationIsSafe
    OBVIOUS
  <2>1. Schema!RowsKept
    BY DEF Schema!RowsKept, MigIInv, MigTypes, Full
  <2>2. Schema!RestartSucceeds
    BY DEF Schema!RestartSucceeds, MigIInv, MigAlone
  <2>3. ASSUME NEW p \in Procs, pc[p] = "serving"
        PROVE  /\ db.json = <<>> /\ db.columns = {1, 2} /\ db.tokens = Entities /\ db.indexes /\ ~ db.fts
    <3>1. \A n \in 1 .. 6 : Has(n, db)
      BY <2>3 DEF MigIInv, MigDone
    <3>2. Has(1, db) /\ Has(2, db) /\ Has(3, db) /\ Has(4, db) /\ Has(5, db) /\ Has(6, db)
      BY <3>1
    <3>3. /\ 1 \in db.columns /\ 2 \in db.columns /\ DOMAIN db.json = {} /\ ~ db.fts
          /\ Entities \subseteq db.tokens /\ db.indexes
      BY <3>2 DEF Has
    <3>4. db.columns \subseteq {1, 2} /\ db.tokens \subseteq Entities /\ db.json \in Payloads
      BY DEF MigIInv, MigTypes, Databases
    <3>5. db.json = <<>>
      <4>1. PICK S : db.json \in [S -> {"old", "new"}]
        BY <3>4 DEF Payloads
      <4>2. S = {}
        BY <3>3, <4>1
      <4> QED BY <4>1, <4>2
    <3> QED BY <3>3, <3>4, <3>5
  <2>4. Schema!ServedIsMigrated
    BY <2>3 DEF Schema!ServedIsMigrated, Schema!Tables
  <2> QED BY <2>1, <2>2, <2>4 DEF Schema!MigrationIsSafe
<1> QED BY <1>1, <1>2, <1>3, PTL DEF Schema!MigrateSpec

-----------------------------------------------------------------------------
(* The agenda of a snapshot.  A verdict under way is of a link nobody else *)
(* asks about (SnapAsks), the tasks have read what the store held when     *)
(* they began (SnapRead), and a report was built from what its cards were  *)
(* given (SnapReport).                                                     *)
CONSTANTS Links, LinkOf, PostOf, StoryOf, Batch, Parallel, MinChannels, PerEntity,
          AgendaLimit, ClaimLimit, Window
VARIABLES tracked, comparable, found, task, missing, reply, report

Snap == INSTANCE AgendaSnapshot

-----------------------------------------------------------------------------
\* The first in an order.
LEMMA HeadExists ==
    ASSUME NEW S, IsFiniteSet(S), S # {}, NEW R, Orders(R, S)
    PROVE  \E x \in S : \A r \in S : <<r, x>> \notin R
<1>1. Cardinality(S) \in Nat /\ Cardinality(S) # 0
    BY FS_CardinalityType, FS_EmptySet
<1>2. 0 \in 0 .. Cardinality(S) - 1
    BY <1>1
<1>3. PICK x \in S : Rank(R, S, x) = 0
    BY <1>2, RanksExist
<1> DEFINE U == {r \in S : <<r, x>> \in R}
<1>4. U \in SUBSET S /\ Cardinality(U) = 0
    BY <1>3 DEF Rank
<1>5. U = {}
    <2> HIDE DEF U
    <2>1. IsFiniteSet(U)
        BY <1>4, FS_Subset
    <2> QED BY <1>4, <2>1, FS_EmptySet
<1> QED BY <1>5

\* A finite set of numbers has a least one and a greatest one.
LEMMA Extremes ==
    ASSUME NEW S, IsFiniteSet(S), S \subseteq Int, S # {}
    PROVE  /\ \E x \in S : \A y \in S : x <= y
           /\ \E x \in S : \A y \in S : x >= y
<1>1. \E x \in S : \A y \in S : x <= y
    <2> DEFINE R == {p \in S \X S : p[1] < p[2]}
    <2>1. Orders(R, S)
        BY DEF Orders
    <2>2. PICK x \in S : \A r \in S : <<r, x>> \notin R
        <3> HIDE DEF R
        <3> QED BY <2>1, HeadExists
    <2>3. ASSUME NEW y \in S PROVE x <= y
        <3>1. <<y, x>> \notin R
            BY <2>2
        <3>2. ~ (y < x)
            BY <3>1
        <3> QED BY <3>2
    <2> QED BY <2>3
<1>2. \E x \in S : \A y \in S : x >= y
    <2> DEFINE R == {p \in S \X S : p[1] > p[2]}
    <2>1. Orders(R, S)
        BY DEF Orders
    <2>2. PICK x \in S : \A r \in S : <<r, x>> \notin R
        <3> HIDE DEF R
        <3> QED BY <2>1, HeadExists
    <2>3. ASSUME NEW y \in S PROVE x >= y
        <3>1. <<y, x>> \notin R
            BY <2>2
        <3>2. ~ (y > x)
            BY <3>1
        <3> QED BY <3>2
    <2> QED BY <2>3
<1> QED BY <1>1, <1>2

LEMMA LeastIs ==
    ASSUME NEW S, IsFiniteSet(S), S \subseteq Int, S # {}
    PROVE  Snap!Min(S) \in S /\ \A y \in S : Snap!Min(S) <= y
BY Extremes DEF Snap!Min

LEMMA GreatestIs ==
    ASSUME NEW S, IsFiniteSet(S), S \subseteq Int, S # {}
    PROVE  Snap!Max(S) \in S
BY Extremes DEF Snap!Max

\* The image of a finite set under a function given by its values.
LEMMA ImageFinite ==
    ASSUME NEW f, IsFiniteSet(DOMAIN f)
    PROVE  /\ IsFiniteSet({f[x] : x \in DOMAIN f})
           /\ Cardinality({f[x] : x \in DOMAIN f}) <= Cardinality(DOMAIN f)
<1> DEFINE S == DOMAIN f
           T == {f[x] : x \in S}
           g == [x \in S |-> f[x]]
<1>1. g \in Surjection(S, T)
    BY DEF Surjection
<1> HIDE DEF S, T, g
<1> QED BY <1>1, FS_Surjection DEF S, T

LEMMA CardIs ==
    /\ \A S : Snap!Cardinality(S) = Cardinality(S)
    /\ \A S : Snap!IsFiniteSet(S) <=> IsFiniteSet(S)
BY DEF Snap!Cardinality, Cardinality, Snap!IsFiniteSet, IsFiniteSet

LEMMA Given ==
    ASSUME Snap!ConstantsOK
    PROVE  /\ IsFiniteSet(Links) /\ Links \subseteq Nat
           /\ \A l \in Links : LinkOf[l].post \in DOMAIN PostOf /\ LinkOf[l].terms \in Nat
           /\ \A p \in DOMAIN PostOf : PostOf[p].at \in Int
           /\ IsFiniteSet(Snap!Stories) /\ Snap!Stories \subseteq Nat
           /\ Parallel \in Nat /\ MinChannels \in Nat /\ MinChannels >= 2 /\ PerEntity \in Nat
           /\ AgendaLimit \in Nat /\ ClaimLimit \in Nat /\ Window \in Nat /\ MaxTime \in Nat
BY CardIs DEF Snap!ConstantsOK

-----------------------------------------------------------------------------
Tasks == {"off", "waiting", "asking", "done", "failed", "broke"}
Replies == UNION {[D -> {"yes", "no"}] : D \in SUBSET Links}

SnapTypes ==
    /\ now \in 0 .. MaxTime /\ links \subseteq Links
    /\ verdict \in [Links -> {"none", "yes", "no"}]
    /\ pc \in {"idle", "verifying", "counting", "built"}
    /\ comparable \subseteq tracked /\ tracked \subseteq Snap!Channels
    /\ found \in [Snap!Stories -> SUBSET links]
    /\ missing \in [Snap!Stories -> SUBSET Links]
    /\ reply \in [Snap!Stories -> Replies]
    /\ task \in [Snap!Stories -> Tasks]
    /\ Cardinality({s \in Snap!Stories : task[s] = "asking"}) <= Parallel

\* What a task still has to ask or to store is of its own story and has no verdict.
SnapAsks == \A s \in Snap!Stories :
    /\ missing[s] \subseteq found[s] /\ DOMAIN reply[s] \subseteq found[s]
    /\ missing[s] \cap DOMAIN reply[s] = {}
    /\ \A l \in missing[s] \cup DOMAIN reply[s] : verdict[l] = "none"
    /\ task[s] # "asking" => missing[s] = {} /\ reply[s] = <<>>
    /\ task[s] = "asking" => pc = "verifying"
    /\ \A l \in found[s] : LinkOf[l].story = s

\* What was found is what the windows hold, and then what stands, unless the
\* story is too little reported to be on the agenda.
SnapRead ==
    /\ pc \in {"idle", "verifying"} => comparable = {}
    /\ pc = "verifying" => \A s \in Snap!Stories :
          /\ found[s] = Snap!LinksOf(s, tracked)
          /\ task[s] = "off" => Snap!Reporting(s) < 2
    /\ pc \in {"counting", "built"} => \A s \in Snap!Stories :
          Snap!Reporting(s) < 2 \/ found[s] = Snap!Standing(s)

\* What the report says, at the time it is made.
SnapReport == pc = "built" =>
    /\ \A s \in report.agenda :
          /\ s \in Snap!Stories /\ report.channels[s] = Snap!Reporting(s)
          /\ Snap!Reporting(s) >= MinChannels
          /\ report.mode = "full" => Snap!Growth(s) > 0
    /\ Snap!RestIsBlocked
    /\ Snap!EvidenceIsVaried

SnapIInv == SnapTypes /\ SnapAsks /\ SnapRead /\ SnapReport

\* Nothing is on the way to the model.
Still == /\ missing = Snap!Nothing /\ reply = Snap!Unsaved /\ task = Snap!Off /\ found = Snap!Nothing
         /\ tracked = {} /\ comparable = {} /\ pc = "idle"

LEMMA EmptyReply == <<>> \in Replies /\ DOMAIN <<>> = {}
<1>1. <<>> \in [{} -> {"yes", "no"}]
    OBVIOUS
<1> QED BY <1>1 DEF Replies

LEMMA StillIsSafe ==
    ASSUME Snap!ConstantsOK, Still, now \in 0 .. MaxTime, links \subseteq Links,
           verdict \in [Links -> {"none", "yes", "no"}]
    PROVE  SnapIInv
<1>1. \A s \in Snap!Stories : /\ missing[s] = {} /\ reply[s] = <<>> /\ task[s] = "off" /\ found[s] = {}
    BY DEF Still, Snap!Nothing, Snap!Unsaved, Snap!Off
<1>2. {s \in Snap!Stories : task[s] = "asking"} = {}
    BY <1>1
<1>3. Cardinality({s \in Snap!Stories : task[s] = "asking"}) <= Parallel
    <2>1. Cardinality({}) = 0 /\ Parallel \in Nat
        BY FS_EmptySet, Given
    <2> QED BY <1>2, <2>1
<1>4. SnapTypes
    BY <1>3, EmptyReply DEF SnapTypes, Still, Tasks, Snap!Nothing, Snap!Unsaved, Snap!Off
<1>5. SnapAsks
    BY <1>1, EmptyReply DEF SnapAsks
<1> QED BY <1>4, <1>5 DEF SnapIInv, SnapRead, SnapReport, Still

LEMMA SnapInitially == Snap!ConstantsOK /\ Snap!Init => SnapIInv
<1> SUFFICES ASSUME Snap!ConstantsOK, Snap!Init PROVE SnapIInv
    OBVIOUS
<1>1. Still
    BY DEF Snap!Init, Still
<1>2. now \in 0 .. MaxTime /\ links \subseteq Links /\ verdict \in [Links -> {"none", "yes", "no"}]
    BY Given DEF Snap!Init
<1> QED BY <1>1, <1>2, StillIsSafe

LEMMA LeaveKeeps ==
    ASSUME Snap!ConstantsOK, SnapIInv, Snap!Leave
    PROVE  SnapIInv'
<1>1. Still'
    BY DEF Still, Snap!Leave, Snap!Nothing, Snap!Unsaved, Snap!Off
<1>2. (now \in 0 .. MaxTime /\ links \subseteq Links /\ verdict \in [Links -> {"none", "yes", "no"}])'
    BY DEF Snap!Leave, SnapIInv, SnapTypes
<1> QED BY <1>1, <1>2, StillIsSafe, PTL

-----------------------------------------------------------------------------
(* The order of the cards and the selection *)

LEMMA ChannelsFinite ==
    ASSUME Snap!ConstantsOK, NEW S, S \subseteq Links
    PROVE  /\ IsFiniteSet(S) /\ IsFiniteSet(Snap!ChannelsOf(S))
           /\ Cardinality(Snap!ChannelsOf(S)) \in Nat
           /\ S = {} => Cardinality(Snap!ChannelsOf(S)) = 0
           /\ S # {} => Cardinality(Snap!ChannelsOf(S)) > 0
<1>1. IsFiniteSet(S)
    BY Given, FS_Subset
<1> DEFINE f == [l \in S |-> Snap!Post(l).channel]
<1>2. {f[x] : x \in DOMAIN f} = Snap!ChannelsOf(S) /\ DOMAIN f = S
    BY DEF Snap!ChannelsOf
<1>3. IsFiniteSet(Snap!ChannelsOf(S))
    <2> HIDE DEF f
    <2> QED BY <1>1, <1>2, ImageFinite
<1>4. Cardinality(Snap!ChannelsOf(S)) \in Nat
    BY <1>3, FS_CardinalityType
<1>5. S = {} <=> Snap!ChannelsOf(S) = {}
    BY DEF Snap!ChannelsOf
<1> QED BY <1>1, <1>3, <1>4, <1>5, FS_EmptySet

LEMMA CountsAre ==
    ASSUME Snap!ConstantsOK, SnapTypes, NEW s \in Snap!Stories
    PROVE  /\ Snap!Now(s) \subseteq Links
           /\ Snap!Reporting(s) \in Nat
           /\ Snap!Growth(s) \in Int
           /\ Snap!Reporting(s) > 0 => Snap!Freshness(s) \in Int
<1>1. found[s] \subseteq Links
    BY DEF SnapTypes
<1>2. Snap!Now(s) \subseteq Links
    BY <1>1 DEF Snap!Now
<1>3. Snap!Reporting(s) \in Nat /\ (Snap!Reporting(s) > 0 => Snap!Now(s) # {})
    BY <1>2, ChannelsFinite, CardIs DEF Snap!Reporting
<1>4. ASSUME NEW S, S \subseteq Links PROVE Snap!Compared(S) \in Nat
    <2>1. IsFiniteSet(Snap!ChannelsOf(S))
        BY <1>4, ChannelsFinite
    <2>2. IsFiniteSet(Snap!ChannelsOf(S) \cap comparable)
        BY <2>1, FS_Intersection
    <2> QED BY <2>2, FS_CardinalityType, CardIs DEF Snap!Compared
<1>5. Snap!Growth(s) \in Int
    <2>1. {l \in found[s] : Snap!Previous(l)} \subseteq Links
        BY <1>1
    <2>2. Snap!Compared(Snap!Now(s)) \in Nat /\ Snap!Compared({l \in found[s] : Snap!Previous(l)}) \in Nat
        BY <1>2, <1>4, <2>1
    <2> QED BY <2>2 DEF Snap!Growth
<1>6. ASSUME Snap!Now(s) # {} PROVE Snap!Freshness(s) \in Int
    <2> DEFINE f == [l \in Snap!Now(s) |-> Snap!Post(l).at]
               T == {f[x] : x \in DOMAIN f}
    <2>1. T = {Snap!Post(l).at : l \in Snap!Now(s)} /\ DOMAIN f = Snap!Now(s)
        OBVIOUS
    <2>2. IsFiniteSet(T)
        <3>1. IsFiniteSet(Snap!Now(s))
            BY <1>2, ChannelsFinite
        <3> HIDE DEF f
        <3> QED BY <2>1, <3>1, ImageFinite
    <2>3. T \subseteq Int
        BY <1>2, Given DEF Snap!Post
    <2>4. T # {}
        BY <1>6
    <2> HIDE DEF T, f
    <2> QED BY <2>1, <2>2, <2>3, <2>4, GreatestIs DEF Snap!Freshness
<1> QED BY <1>2, <1>3, <1>5, <1>6

\* agenda_rank_key orders the cards that report anything.
LEMMA CardsAreOrdered ==
    ASSUME Snap!ConstantsOK, SnapTypes, NEW S, S \subseteq Snap!Stories,
           \A s \in S : Snap!Reporting(s) > 0
    PROVE  Orders({p \in S \X S : Snap!Before(p[1], p[2])}, S)
<1> DEFINE R == {p \in S \X S : Snap!Before(p[1], p[2])}
           g(x) == IF Snap!Enough THEN Snap!Growth(x) ELSE 0
           h(x) == Snap!Reporting(x)
           k(x) == Snap!Freshness(x)
           B(r, s) == \/ g(r) > g(s)
                      \/ g(r) = g(s) /\ h(r) > h(s)
                      \/ g(r) = g(s) /\ h(r) = h(s) /\ k(r) > k(s)
                      \/ g(r) = g(s) /\ h(r) = h(s) /\ k(r) = k(s) /\ r < s
<1>1. \A s \in S : s \in Int /\ g(s) \in Int /\ h(s) \in Int /\ k(s) \in Int
    BY CountsAre, Given
<1>2. \A r, s : Snap!Before(r, s) <=> B(r, s)
    BY DEF Snap!Before
<1> HIDE DEF g, h, k
<1>3. \A r, s \in S : <<r, s>> \in R <=> B(r, s)
    BY <1>2
<1> HIDE DEF R
<1>4. \A s \in S : ~ B(s, s)
    BY <1>1
<1>5. \A r, s \in S : r # s => B(r, s) \/ B(s, r)
    BY <1>1
<1>6. \A r, s, t \in S : B(r, s) /\ B(s, t) => B(r, t)
    BY <1>1
<1> HIDE DEF B
<1>7. Orders(R, S)
    BY <1>3, <1>4, <1>5, <1>6 DEF Orders
<1> QED BY <1>7 DEF R

\* Every card is in the ranking, and nothing else.
LEMMA RankedIs ==
    ASSUME Snap!ConstantsOK, SnapTypes, NEW S, S \subseteq Snap!Stories,
           \A s \in S : Snap!Reporting(s) > 0
    PROVE  /\ Len(Snap!Ranked(S)) = Cardinality(S) /\ Cardinality(S) \in Nat /\ IsFiniteSet(S)
           /\ \A n \in 1 .. Cardinality(S) : Snap!Ranked(S)[n] \in S
           /\ \A s \in S : \E n \in 1 .. Cardinality(S) : Snap!Ranked(S)[n] = s
<1> DEFINE R == {p \in S \X S : Snap!Before(p[1], p[2])}
           N == Cardinality(S)
<1>1. IsFiniteSet(S) /\ N \in Nat
    BY Given, FS_Subset, FS_CardinalityType
<1>2. Orders(R, S)
    BY CardsAreOrdered
<1>3. \A s \in S : Snap!Cardinality({r \in S : Snap!Before(r, s)}) = Rank(R, S, s)
    <2> SUFFICES ASSUME NEW s \in S
                 PROVE  Snap!Cardinality({r \in S : Snap!Before(r, s)}) = Rank(R, S, s)
        OBVIOUS
    <2>1. {r \in S : Snap!Before(r, s)} = {r \in S : <<r, s>> \in R}
        OBVIOUS
    <2> QED BY <2>1, CardIs DEF Rank
<1>4. Snap!Ranked(S) = [n \in 1 .. N |->
          CHOOSE s \in S : Snap!Cardinality({r \in S : Snap!Before(r, s)}) = n - 1]
    BY CardIs DEF Snap!Ranked
<1> HIDE DEF R, N
<1>5. ASSUME NEW n \in 1 .. N
      PROVE  Snap!Ranked(S)[n] \in S /\ Rank(R, S, Snap!Ranked(S)[n]) = n - 1
    <2>1. n - 1 \in 0 .. N - 1
        BY <1>1
    <2>2. \E s \in S : Rank(R, S, s) = n - 1
        BY <1>1, <1>2, <2>1, RanksExist DEF N
    <2>3. \E s \in S : Snap!Cardinality({r \in S : Snap!Before(r, s)}) = n - 1
        BY <1>3, <2>2
    <2>4. Snap!Ranked(S)[n] = CHOOSE s \in S : Snap!Cardinality({r \in S : Snap!Before(r, s)}) = n - 1
        BY <1>4
    <2>5. /\ Snap!Ranked(S)[n] \in S
          /\ Snap!Cardinality({r \in S : Snap!Before(r, Snap!Ranked(S)[n])}) = n - 1
        BY <2>3, <2>4
    <2> QED BY <1>3, <2>5
<1>6. ASSUME NEW s \in S PROVE \E n \in 1 .. N : Snap!Ranked(S)[n] = s
    <2>1. Rank(R, S, s) \in 0 .. N - 1
        BY <1>1, <1>2, RanksExist DEF N
    <2>2. PICK n \in 1 .. N : n - 1 = Rank(R, S, s)
        <3>1. Rank(R, S, s) + 1 \in 1 .. N /\ (Rank(R, S, s) + 1) - 1 = Rank(R, S, s)
            BY <1>1, <2>1
        <3> QED BY <3>1
    <2>3. Snap!Ranked(S)[n] \in S /\ Rank(R, S, Snap!Ranked(S)[n]) = Rank(R, S, s)
        BY <1>5, <2>2
    <2>4. Snap!Ranked(S)[n] = s
        BY <1>1, <1>2, <2>3, RanksExist
    <2> QED BY <2>4
<1>7. Len(Snap!Ranked(S)) = N
    BY <1>1, <1>4
<1> QED BY <1>1, <1>5, <1>6, <1>7 DEF N

\* One card more, if nothing on the agenda stands in its way.
TakeOne(chosen, s) ==
    IF Snap!Cardinality(chosen) = AgendaLimit \/ Snap!Blocks(chosen, s) THEN chosen
    ELSE chosen \cup {s}

LEMMA TakingExists ==
    ASSUME NEW order, NEW m \in Nat
    PROVE  \E f : f = [n \in 0 .. m |-> IF n = 0 THEN {} ELSE TakeOne(f[n - 1], order[n])]
<1> DEFINE Is(f, n) == f = [i \in 0 .. n |-> IF i = 0 THEN {} ELSE TakeOne(f[i - 1], order[i])]
           S == {n \in Nat : \E f : Is(f, n)}
<1>1. 0 \in S
    <2> DEFINE g == [i \in 0 .. 0 |-> {}]
    <2>1. Is(g, 0)
        OBVIOUS
    <2> QED BY <2>1
<1>2. ASSUME NEW n \in Nat, n \in S PROVE n + 1 \in S
    <2>1. PICK f : Is(f, n)
        BY <1>2
    <2> DEFINE g == [i \in 0 .. n + 1 |-> IF i \in 0 .. n THEN f[i] ELSE TakeOne(f[n], order[n + 1])]
    <2>2. ASSUME NEW i \in 0 .. n + 1
          PROVE  g[i] = IF i = 0 THEN {} ELSE TakeOne(g[i - 1], order[i])
        <3>1. CASE i = n + 1
            <4>1. i # 0 /\ i - 1 = n /\ n \in 0 .. n /\ n \in 0 .. n + 1 /\ i \notin 0 .. n
                BY <3>1
            <4>2. g[n] = f[n] /\ g[i] = TakeOne(f[n], order[n + 1])
                BY <4>1
            <4> QED BY <4>1, <4>2, <3>1
        <3>2. CASE i \in 0 .. n
            <4>1. f[i] = IF i = 0 THEN {} ELSE TakeOne(f[i - 1], order[i])
                BY <2>1, <3>2
            <4>2. g[i] = f[i]
                BY <3>2
            <4>3. i # 0 => i - 1 \in 0 .. n /\ i - 1 \in 0 .. n + 1
                BY <3>2
            <4>4. i # 0 => g[i - 1] = f[i - 1]
                BY <4>3
            <4> QED BY <4>1, <4>2, <4>4
        <3> QED BY <3>1, <3>2
    <2>3. Is(g, n + 1)
        <3> DEFINE h == [i \in 0 .. n + 1 |-> IF i = 0 THEN {} ELSE TakeOne(g[i - 1], order[i])]
        <3>1. g = h
            <4> HIDE DEF Is
            <4>1. \A i \in 0 .. n + 1 : g[i] = h[i]
                BY <2>2
            <4> QED BY <4>1
        <3> QED BY <3>1
    <2> HIDE DEF g, Is
    <2>4. n + 1 \in Nat
        OBVIOUS
    <2> QED BY <2>3, <2>4
<1>3. m \in S
    <2> HIDE DEF S
    <2> QED BY <1>1, <1>2, Induct
<1> QED BY <1>3

LEMMA SelectedIs ==
    ASSUME NEW order, NEW m \in Nat, Len(order) = m
    PROVE  \E f : /\ f[0] = {}
                  /\ \A j \in Nat : j + 1 <= m => f[j + 1] = TakeOne(f[j], order[j + 1])
                  /\ Snap!Selected(order) = f[m]
<1>1. PICK f : /\ f = [n \in 0 .. m |-> IF n = 0 THEN {} ELSE TakeOne(f[n - 1], order[n])]
               /\ Snap!Selected(order) = f[m]
    BY TakingExists DEF Snap!Selected, TakeOne
<1>2. f[0] = {}
    <2>1. 0 \in 0 .. m
        OBVIOUS
    <2> QED BY <1>1, <2>1
<1>3. \A i \in 0 .. m : f[i] = IF i = 0 THEN {} ELSE TakeOne(f[i - 1], order[i])
    BY <1>1
<1>4. ASSUME NEW j \in Nat, j + 1 <= m PROVE f[j + 1] = TakeOne(f[j], order[j + 1])
    <2>1. j + 1 \in 0 .. m /\ j + 1 # 0 /\ j + 1 - 1 = j
        BY <1>4
    <2> QED BY <1>3, <2>1
<1> QED BY <1>1, <1>2, <1>4

\* Whatever stands in the way of a story still does when more are chosen.
LEMMA BlocksMore ==
    ASSUME Snap!ConstantsOK, NEW C, NEW D, IsFiniteSet(D), C \subseteq D, NEW s, Snap!Blocks(C, s)
    PROVE  Snap!Blocks(D, s)
<1> DEFINE Same(E) == {r \in E : StoryOf[r].entity = StoryOf[s].entity}
<1>1. Same(C) \in SUBSET Same(D) /\ Same(D) \in SUBSET D
    OBVIOUS
<1>2. IsFiniteSet(Same(D))
    BY <1>1, FS_Subset
<1>3. /\ Cardinality(Same(C)) <= Cardinality(Same(D))
      /\ Cardinality(Same(C)) \in Nat /\ Cardinality(Same(D)) \in Nat
    BY <1>1, <1>2, FS_Subset, FS_CardinalityType
<1>4. Snap!Cardinality(Same(C)) >= PerEntity => Snap!Cardinality(Same(D)) >= PerEntity
    BY <1>3, CardIs, Given
<1> QED BY <1>4 DEF Snap!Blocks

\* The agenda holds cards that were offered, no more than fit; and an offered card
\* it does not hold finds it full or in its way.
LEMMA SelectionIs ==
    ASSUME Snap!ConstantsOK, SnapTypes, NEW S, S \subseteq Snap!Stories,
           \A s \in S : Snap!Reporting(s) > 0
    PROVE  LET T == Snap!Selected(Snap!Ranked(S))
           IN  /\ T \subseteq S
               /\ \A s \in S \ T : Snap!Cardinality(T) = AgendaLimit \/ Snap!Blocks(T, s)
<1> DEFINE N == Cardinality(S)
           order == Snap!Ranked(S)
<1>1. /\ Len(order) = N /\ N \in Nat /\ IsFiniteSet(S)
      /\ \A n \in 1 .. N : order[n] \in S
      /\ \A s \in S : \E n \in 1 .. N : order[n] = s
    BY RankedIs
<1> HIDE DEF N, order
<1>2. PICK f : /\ f[0] = {}
               /\ \A j \in Nat : j + 1 <= N => f[j + 1] = TakeOne(f[j], order[j + 1])
               /\ Snap!Selected(order) = f[N]
    BY <1>1, SelectedIs
<1> DEFINE Fair(i) == \A n \in 1 .. i : \/ order[n] \in f[i] \/ Cardinality(f[i]) = AgendaLimit
                                       \/ Snap!Blocks(f[i], order[n])
           Good(i) == f[i] \subseteq S /\ Fair(i)
           G == {i \in Nat : i <= N => Good(i)}
<1>3. 0 \in G
    BY <1>2
<1>4. ASSUME NEW i \in Nat, i \in G PROVE i + 1 \in G
    <2>1. SUFFICES ASSUME i + 1 <= N PROVE Good(i + 1)
        OBVIOUS
    <2>2. Good(i)
        BY <1>1, <1>4, <2>1
    <2> DEFINE s == order[i + 1]
    <2>3. f[i + 1] = TakeOne(f[i], s)
        BY <1>2, <2>1
    <2>4. i + 1 \in 1 .. N
        BY <1>1, <2>1
    <2>5. s \in S
        BY <1>1, <2>4
    <2>6. IsFiniteSet(f[i]) /\ IsFiniteSet(f[i + 1]) /\ f[i] \subseteq f[i + 1] /\ f[i + 1] \subseteq S
        <3>1. f[i] \subseteq f[i + 1] /\ f[i + 1] \subseteq S
            BY <2>2, <2>3, <2>5 DEF TakeOne
        <3>2. f[i] \in SUBSET S /\ f[i + 1] \in SUBSET S
            BY <2>2, <3>1
        <3> QED BY <1>1, <3>1, <3>2, FS_Subset
    <2>7. ASSUME NEW n \in 1 .. i + 1
          PROVE  \/ order[n] \in f[i + 1] \/ Cardinality(f[i + 1]) = AgendaLimit
                 \/ Snap!Blocks(f[i + 1], order[n])
        <3>1. CASE n = i + 1
            <4>1. \/ Snap!Cardinality(f[i]) = AgendaLimit /\ f[i + 1] = f[i]
                  \/ Snap!Blocks(f[i], s) /\ f[i + 1] = f[i]
                  \/ s \in f[i + 1]
                BY <2>3 DEF TakeOne
            <4> QED BY <3>1, <4>1, CardIs
        <3>2. CASE n # i + 1
            <4>1. n \in 1 .. i
                BY <3>2
            <4>2. \/ order[n] \in f[i] \/ Cardinality(f[i]) = AgendaLimit
                  \/ Snap!Blocks(f[i], order[n])
                BY <2>2, <4>1
            <4>3. Cardinality(f[i]) = AgendaLimit => f[i + 1] = f[i]
                BY <2>3, CardIs DEF TakeOne
            <4>4. Snap!Blocks(f[i], order[n]) => Snap!Blocks(f[i + 1], order[n])
                BY <2>6, BlocksMore
            <4> QED BY <2>6, <4>2, <4>3, <4>4
        <3> QED BY <3>1, <3>2
    <2> QED BY <2>6, <2>7
<1>5. Good(N)
    <2>1. N \in G
        <3> HIDE DEF G
        <3> QED BY <1>1, <1>3, <1>4, Induct
    <2> QED BY <1>1, <2>1
<1>6. ASSUME NEW s \in S, s \notin f[N]
      PROVE  Snap!Cardinality(f[N]) = AgendaLimit \/ Snap!Blocks(f[N], s)
    <2>1. PICK n \in 1 .. N : order[n] = s
        BY <1>1
    <2> QED BY <1>5, <1>6, <2>1, CardIs
<1> QED BY <1>2, <1>5, <1>6 DEF order

-----------------------------------------------------------------------------
(* The quotes of a card *)

Better(k, l) == \/ LinkOf[k].terms > LinkOf[l].terms
                \/ LinkOf[k].terms = LinkOf[l].terms /\ k < l
TopOf(S, n) == {l \in S : Snap!Cardinality({k \in S : Better(k, l)}) < n}
VoicesIn(S) == {l \in S : ~ \E k \in S : Snap!Post(k).channel = Snap!Post(l).channel /\ Better(k, l)}

LEMMA ClaimsIs ==
    ASSUME NEW s
    PROVE  Snap!Claims(s) =
               LET chosen == TopOf(VoicesIn(Snap!Now(s)), ClaimLimit)
               IN  chosen \cup TopOf(Snap!Now(s) \ chosen, ClaimLimit - Snap!Cardinality(chosen))
BY DEF Snap!Claims, TopOf, VoicesIn, Better

\* The words shared with the title order the quotes, then their numbers.
LEMMA QuotesAreOrdered ==
    ASSUME Snap!ConstantsOK, NEW S, S \subseteq Links
    PROVE  /\ Orders({p \in S \X S : Better(p[1], p[2])}, S)
           /\ \A n : TopOf(S, n) = {l \in S : Rank({p \in S \X S : Better(p[1], p[2])}, S, l) < n}
<1> DEFINE R == {p \in S \X S : Better(p[1], p[2])}
           t(l) == LinkOf[l].terms
<1>1. \A l \in S : l \in Int /\ t(l) \in Int
    BY Given
<1>2. \A k, l \in S : <<k, l>> \in R <=> t(k) > t(l) \/ (t(k) = t(l) /\ k < l)
    BY DEF Better
<1>3. Orders(R, S)
    <2> HIDE DEF R, t
    <2> QED BY <1>1, <1>2 DEF Orders
<1>4. ASSUME NEW l \in S PROVE Snap!Cardinality({k \in S : Better(k, l)}) = Rank(R, S, l)
    <2>1. {k \in S : Better(k, l)} = {k \in S : <<k, l>> \in R}
        OBVIOUS
    <2> QED BY <2>1, CardIs DEF Rank
<1> HIDE DEF R
<1>5. \A n : TopOf(S, n) = {l \in S : Rank(R, S, l) < n}
    BY <1>4 DEF TopOf
<1> QED BY <1>3, <1>5 DEF R

\* One voice for each channel that reports.
LEMMA VoicesAre ==
    ASSUME Snap!ConstantsOK, NEW S, S \subseteq Links
    PROVE  /\ Snap!ChannelsOf(VoicesIn(S)) = Snap!ChannelsOf(S)
           /\ \A V \in SUBSET VoicesIn(S) : Cardinality(Snap!ChannelsOf(V)) = Cardinality(V)
<1> DEFINE R == {p \in S \X S : Better(p[1], p[2])}
<1>1. Orders(R, S) /\ IsFiniteSet(S)
    BY QuotesAreOrdered, ChannelsFinite
<1>2. \A k, l \in S : <<k, l>> \in R <=> Better(k, l)
    OBVIOUS
<1> HIDE DEF R
<1>3. ASSUME NEW l \in S
      PROVE  \E v \in VoicesIn(S) : Snap!Post(v).channel = Snap!Post(l).channel
    <2> DEFINE U == {k \in S : Snap!Post(k).channel = Snap!Post(l).channel}
    <2>1. U \in SUBSET S /\ l \in U
        OBVIOUS
    <2>2. IsFiniteSet(U) /\ Orders(R, U)
        <3>1. IsFiniteSet(U)
            BY <1>1, <2>1, FS_Subset
        <3>2. Orders(R, U)
            BY <1>1, <2>1 DEF Orders
        <3> QED BY <3>1, <3>2
    <2>3. PICK v \in U : \A k \in U : <<k, v>> \notin R
        <3> HIDE DEF U
        <3> QED BY <2>1, <2>2, HeadExists
    <2> QED BY <1>2, <2>3 DEF VoicesIn
<1>4. Snap!ChannelsOf(VoicesIn(S)) = Snap!ChannelsOf(S)
    <2>1. VoicesIn(S) \subseteq S
        BY DEF VoicesIn
    <2> QED BY <1>3, <2>1 DEF Snap!ChannelsOf
<1>5. ASSUME NEW V \in SUBSET VoicesIn(S) PROVE Cardinality(Snap!ChannelsOf(V)) = Cardinality(V)
    <2> DEFINE f == [l \in V |-> Snap!Post(l).channel]
               T == Snap!ChannelsOf(V)
    <2>1. f \in Surjection(V, T)
        BY DEF Surjection, Snap!ChannelsOf
    <2>2. \A k, l \in V : f[k] = f[l] => k = l
        <3>1. ASSUME NEW k \in V, NEW l \in V, f[k] = f[l], k # l PROVE FALSE
            <4>1. k \in S /\ l \in S /\ Snap!Post(k).channel = Snap!Post(l).channel
                BY <3>1 DEF VoicesIn
            <4>2. Better(k, l) \/ Better(l, k)
                BY <1>1, <1>2, <3>1, <4>1 DEF Orders
            <4> QED BY <4>1, <4>2 DEF VoicesIn
        <3> QED BY <3>1
    <2>3. f \in Injection(V, T)
        <3>1. f \in [V -> T]
            BY <2>1 DEF Surjection
        <3> HIDE DEF f, T
        <3> QED BY <2>2, <3>1, Zenon DEF Injection, IsInjective
    <2>4. IsFiniteSet(V)
        <3>1. V \in SUBSET S
            BY DEF VoicesIn
        <3> QED BY <1>1, <3>1, FS_Subset
    <2> HIDE DEF f
    <2> QED BY <2>1, <2>3, <2>4, FS_Surjection
<1> QED BY <1>4, <1>5

LEMMA ClaimsAreVaried ==
    ASSUME Snap!ConstantsOK, SnapTypes, NEW s \in Snap!Stories
    PROVE  Snap!Cardinality(Snap!ChannelsOf(Snap!Claims(s))) = Snap!Min({ClaimLimit, Snap!Reporting(s)})
<1> DEFINE S == Snap!Now(s)
           V == VoicesIn(S)
           C == TopOf(V, ClaimLimit)
           M == TopOf(S \ C, ClaimLimit - Snap!Cardinality(C))
           all == Snap!Claims(s)
<1>1. S \subseteq Links /\ V \subseteq S /\ C \subseteq V /\ M \subseteq S /\ all = C \cup M
    BY CountsAre, ClaimsIs DEF VoicesIn, TopOf
<1>2. V \subseteq Links /\ IsFiniteSet(V) /\ Cardinality(V) \in Nat
    <2>1. V \subseteq Links
        BY <1>1
    <2> QED BY <2>1, ChannelsFinite, FS_CardinalityType
<1> DEFINE R == {p \in V \X V : Better(p[1], p[2])}
<1>3. Orders(R, V) /\ C = {l \in V : Rank(R, V, l) < ClaimLimit}
    <2> HIDE DEF V, S
    <2> QED BY <1>2, QuotesAreOrdered
<1>4. ClaimLimit \in Nat
    BY Given
<1>5. /\ Snap!ChannelsOf(V) = Snap!ChannelsOf(S)
      /\ Cardinality(Snap!ChannelsOf(V)) = Cardinality(V)
      /\ Cardinality(Snap!ChannelsOf(C)) = Cardinality(C)
    BY <1>1, VoicesAre
<1>6. Snap!Reporting(s) = Cardinality(V)
    BY <1>5, CardIs DEF Snap!Reporting
<1>7. /\ ClaimLimit <= Cardinality(V) => Cardinality(C) = ClaimLimit
      /\ ClaimLimit >= Cardinality(V) => C = V
    <2> HIDE DEF V, R, C
    <2> QED BY <1>2, <1>3, <1>4, FirstOnes
<1>8. Snap!Min({ClaimLimit, Cardinality(V)}) = IF ClaimLimit <= Cardinality(V) THEN ClaimLimit ELSE Cardinality(V)
    <2> DEFINE v == Cardinality(V)
               P == {ClaimLimit, v}
    <2>1. v \in Nat
        BY <1>2
    <2> HIDE DEF v
    <2>2. IsFiniteSet(P) /\ P \subseteq Int /\ P # {}
        <3>1. IsFiniteSet({v}) /\ {ClaimLimit, v} = {v} \cup {ClaimLimit}
            BY FS_Singleton
        <3>2. IsFiniteSet(P)
            BY <3>1, FS_AddElement
        <3> QED BY <1>4, <2>1, <3>2
    <2>3. Snap!Min(P) \in P /\ \A y \in P : Snap!Min(P) <= y
        <3> HIDE DEF P
        <3> QED BY <2>2, LeastIs
    <2>4. Snap!Min({ClaimLimit, v}) = IF ClaimLimit <= v THEN ClaimLimit ELSE v
        BY <1>4, <2>1, <2>3
    <2> QED BY <2>4 DEF v
<1>9. CASE C = V
    <2>1. Snap!ChannelsOf(all) = Snap!ChannelsOf(S)
        <3> HIDE DEF S, C, V, M, all
        <3> QED BY <1>1, <1>5, <1>9 DEF Snap!ChannelsOf
    <2>2. Cardinality(V) <= ClaimLimit
        <3>1. ClaimLimit <= Cardinality(V) => Cardinality(V) = ClaimLimit
            BY <1>7, <1>9
        <3> HIDE DEF V
        <3> QED BY <1>2, <1>4, <3>1
    <2>3. Cardinality(Snap!ChannelsOf(all)) = Cardinality(V)
        BY <1>5, <2>1
    <2> HIDE DEF V, all
    <2> QED BY <1>2, <1>4, <1>6, <1>8, <2>2, <2>3, CardIs DEF all
<1>10. CASE ClaimLimit < Cardinality(V)
    <2>1. Cardinality(C) = ClaimLimit /\ Snap!Cardinality(C) = ClaimLimit
        <3> HIDE DEF V, C
        <3> QED BY <1>2, <1>4, <1>7, <1>10, CardIs
    <2>2. M = {}
        <3>1. ClaimLimit - Snap!Cardinality(C) = 0
            BY <1>4, <2>1
        <3>2. ASSUME NEW l \in M PROVE FALSE
            <4> DEFINE U == {k \in S \ C : Better(k, l)}
            <4>1. Snap!Cardinality(U) < 0
                BY <3>1, <3>2 DEF TopOf
            <4>2. U \in SUBSET S /\ IsFiniteSet(S)
                BY <1>1, ChannelsFinite
            <4>3. Cardinality(U) \in Nat
                <5> HIDE DEF U
                <5> QED BY <4>2, FS_Subset, FS_CardinalityType
            <4> HIDE DEF U
            <4> QED BY <4>1, <4>3, CardIs
        <3> HIDE DEF M
        <3> QED BY <3>2
    <2>3. all = C
        <3> HIDE DEF M, C, all
        <3> QED BY <1>1, <2>2
    <2>4. Cardinality(Snap!ChannelsOf(all)) = ClaimLimit
        <3> HIDE DEF C, all
        <3> QED BY <1>5, <2>1, <2>3
    <2> HIDE DEF V
    <2> QED BY <1>2, <1>4, <1>6, <1>8, <1>10, <2>4, CardIs
<1>11. ClaimLimit < Cardinality(V) \/ C = V
    <2> HIDE DEF C, V
    <2> QED BY <1>2, <1>4, <1>7
<1> QED BY <1>9, <1>10, <1>11

-----------------------------------------------------------------------------
(* The steps *)

\* While nothing is asked, nothing is missing and nothing answered.
LEMMA QuietIs ==
    ASSUME SnapIInv, pc # "verifying", NEW s \in Snap!Stories
    PROVE  task[s] # "asking" /\ missing[s] = {} /\ reply[s] = <<>>
BY DEF SnapIInv, SnapAsks

\* Outside the building of a report only the clock and the store of links move.
LEMMA IdleKeeps ==
    ASSUME Snap!ConstantsOK, SnapIInv, Snap!Tick \/ Snap!Assign
    PROVE  SnapIInv'
<1>1. /\ pc = "idle" /\ now' \in 0 .. MaxTime /\ links \subseteq links' /\ links' \subseteq Links
      /\ UNCHANGED <<verdict, pc, tracked, comparable, found, task, missing, reply, report>>
    <2>1. CASE Snap!Tick
        BY <2>1, Given DEF Snap!Tick, SnapIInv, SnapTypes
    <2>2. CASE Snap!Assign
        <3> DEFINE due == {l \in Links \ links : Snap!Post(l).at < now}
        <3>1. /\ pc = "idle" /\ due # {} /\ links' = links \cup {Snap!Min(due)}
              /\ UNCHANGED <<now, verdict, pc, tracked, comparable, found, task, missing, reply, report>>
            BY <2>2 DEF Snap!Assign
        <3>2. IsFiniteSet(due) /\ due \subseteq Int /\ due \in SUBSET Links
            <4>1. due \in SUBSET Links
                OBVIOUS
            <4> HIDE DEF due
            <4> QED BY <4>1, Given, FS_Subset
        <3>3. Snap!Min(due) \in Links
            <4> HIDE DEF due
            <4> QED BY <3>1, <3>2, LeastIs
        <3> HIDE DEF due
        <3> QED BY <3>1, <3>3 DEF SnapIInv, SnapTypes
    <2> QED BY <2>1, <2>2
<1>2. SnapTypes'
    BY <1>1 DEF SnapIInv, SnapTypes
<1>3. SnapAsks'
    BY <1>1 DEF SnapIInv, SnapAsks
<1>4. SnapRead' /\ SnapReport'
    BY <1>1 DEF SnapIInv, SnapRead, SnapReport
<1> QED BY <1>2, <1>3, <1>4 DEF SnapIInv

LEMMA LinksAre ==
    ASSUME NEW s, NEW T
    PROVE  Snap!LinksOf(s, T) \subseteq links /\ \A l \in Snap!LinksOf(s, T) : LinkOf[l].story = s
BY DEF Snap!LinksOf

\* What the windows hold does not change while a report is made.
LEMMA LinksFrame ==
    ASSUME NEW s, NEW T, UNCHANGED <<now, links>>
    PROVE  Snap!LinksOf(s, T)' = Snap!LinksOf(s, T)
<1>1. \A l : Snap!Current(l)' = Snap!Current(l) /\ Snap!Previous(l)' = Snap!Previous(l)
    BY DEF Snap!Current, Snap!Previous, Snap!Post
<1>2. \A l : Snap!Supported(l)' = Snap!Supported(l) /\ Snap!Post(l)' = Snap!Post(l)
    BY DEF Snap!Supported, Snap!Post
<1> QED BY <1>1, <1>2 DEF Snap!LinksOf

LEMMA NowFrame ==
    ASSUME NEW s, UNCHANGED now, found'[s] = found[s]
    PROVE  Snap!Now(s)' = Snap!Now(s) /\ Snap!Reporting(s)' = Snap!Reporting(s)
<1>1. \A l : Snap!Current(l)' = Snap!Current(l) /\ Snap!Post(l)' = Snap!Post(l)
    BY DEF Snap!Current, Snap!Post
<1>2. Snap!Now(s)' = Snap!Now(s)
    BY <1>1 DEF Snap!Now
<1> QED BY <1>1, <1>2 DEF Snap!Reporting, Snap!ChannelsOf

LEMMA LoadKeeps ==
    ASSUME Snap!ConstantsOK, SnapIInv, NEW T \in SUBSET Snap!Channels, Snap!Load(T)
    PROVE  SnapIInv'
<1>1. /\ pc = "idle" /\ pc' = "verifying" /\ tracked' = T
      /\ found' = [s \in Snap!Stories |-> Snap!LinksOf(s, T)]
      /\ UNCHANGED <<now, links, verdict, comparable, missing, reply, report>>
    BY DEF Snap!Load
<1>2. task' = [s \in Snap!Stories |->
           IF Snap!Cardinality(Snap!ChannelsOf({l \in found'[s] : Snap!Current(l)})) >= 2 THEN "waiting" ELSE "off"]
    BY DEF Snap!Load
<1>3. SnapTypes'
    <2>1. {s \in Snap!Stories : task'[s] = "asking"} = {}
        BY <1>2
    <2>2. Cardinality({s \in Snap!Stories : task'[s] = "asking"}) <= Parallel
        <3>1. Cardinality({}) = 0 /\ Parallel \in Nat
            BY FS_EmptySet, Given
        <3> QED BY <2>1, <3>1
    <2>3. found' \in [Snap!Stories -> SUBSET links]
        BY <1>1, LinksAre
    <2>4. task' \in [Snap!Stories -> Tasks]
        BY <1>2 DEF Tasks
    <2>5. comparable' \subseteq tracked' /\ tracked' \subseteq Snap!Channels
        BY <1>1 DEF SnapIInv, SnapRead
    <2> QED BY <1>1, <2>2, <2>3, <2>4, <2>5 DEF SnapIInv, SnapTypes
<1>4. SnapAsks'
    <2> SUFFICES ASSUME NEW s \in Snap!Stories
                 PROVE  /\ missing'[s] = {} /\ reply'[s] = <<>> /\ task'[s] # "asking"
                        /\ \A l \in found'[s] : LinkOf[l].story = s
        BY EmptyReply DEF SnapAsks
    <2>1. missing[s] = {} /\ reply[s] = <<>>
        BY <1>1, QuietIs
    <2>2. task'[s] # "asking"
        BY <1>2
    <2> QED BY <1>1, <2>1, <2>2, LinksAre
<1>5. SnapRead'
    <2>1. ASSUME NEW s \in Snap!Stories PROVE found'[s] = Snap!LinksOf(s, tracked)'
        <3>1. Snap!LinksOf(s, T)' = Snap!LinksOf(s, T)
            BY <1>1, LinksFrame
        <3>2. Snap!LinksOf(s, tracked)' = Snap!LinksOf(s, T)'
            BY <1>1 DEF Snap!LinksOf
        <3> QED BY <1>1, <3>1, <3>2
    <2>2. ASSUME NEW s \in Snap!Stories, task'[s] = "off" PROVE (Snap!Reporting(s) < 2)'
        <3>1. \A l : Snap!Current(l)' = Snap!Current(l) /\ Snap!Post(l)' = Snap!Post(l)
            BY <1>1 DEF Snap!Current, Snap!Post
        <3> DEFINE C == {l \in found'[s] : Snap!Current(l)}
        <3>2. Snap!Reporting(s)' = Snap!Cardinality(Snap!ChannelsOf(C))
            BY <3>1 DEF Snap!Reporting, Snap!Now, Snap!ChannelsOf
        <3>3. ~ (Snap!Cardinality(Snap!ChannelsOf(C)) >= 2)
            BY <1>2, <2>2
        <3>4. Cardinality(Snap!ChannelsOf(C)) \in Nat
            <4>1. C \subseteq Links
                BY <1>3 DEF SnapTypes
            <4> HIDE DEF C
            <4> QED BY <4>1, ChannelsFinite
        <3> HIDE DEF C
        <3> QED BY <3>2, <3>3, <3>4, CardIs
    <2>3. comparable' = {}
        BY <1>1 DEF SnapIInv, SnapRead
    <2> QED BY <1>1, <2>1, <2>2, <2>3 DEF SnapRead
<1>6. SnapReport'
    BY <1>1 DEF SnapReport
<1> QED BY <1>3, <1>4, <1>5, <1>6 DEF SnapIInv

\* A step of a task, while the tasks run.
LEMMA TaskFrame ==
    ASSUME SnapIInv, pc = "verifying", UNCHANGED <<now, links, pc, tracked, comparable, found, report>>,
           \A s \in Snap!Stories : task'[s] = "off" => task[s] = "off"
    PROVE  SnapRead' /\ SnapReport'
<1>1. ASSUME NEW s \in Snap!Stories
      PROVE  /\ found'[s] = Snap!LinksOf(s, tracked)'
             /\ task'[s] = "off" => Snap!Reporting(s)' < 2
    <2>1. found[s] = Snap!LinksOf(s, tracked)
        BY DEF SnapIInv, SnapRead
    <2>2. Snap!LinksOf(s, tracked)' = Snap!LinksOf(s, tracked)
        <3>2. \A l : Snap!Current(l)' = Snap!Current(l) /\ Snap!Previous(l)' = Snap!Previous(l)
            BY DEF Snap!Current, Snap!Previous, Snap!Post
        <3>3. \A l : Snap!Supported(l)' = Snap!Supported(l) /\ Snap!Post(l)' = Snap!Post(l)
            BY DEF Snap!Supported, Snap!Post
        <3> QED BY <3>2, <3>3 DEF Snap!LinksOf
    <2>3. task[s] = "off" => Snap!Reporting(s) < 2
        BY DEF SnapIInv, SnapRead
    <2>4. Snap!Reporting(s)' = Snap!Reporting(s)
        BY NowFrame
    <2> QED BY <2>1, <2>2, <2>3, <2>4
<1>2. comparable' = {}
    BY DEF SnapIInv, SnapRead
<1> QED BY <1>1, <1>2 DEF SnapRead, SnapReport

\* The state of a task and of what it works on, changed for one story.
LEMMA TaskTypes ==
    ASSUME SnapTypes, UNCHANGED <<now, links, pc, tracked, comparable, found>>,
           verdict' \in [Links -> {"none", "yes", "no"}],
           missing' \in [Snap!Stories -> SUBSET Links], reply' \in [Snap!Stories -> Replies],
           task' \in [Snap!Stories -> Tasks],
           Cardinality({s \in Snap!Stories : task'[s] = "asking"}) <= Parallel
    PROVE  SnapTypes'
BY DEF SnapTypes

LEMMA BeginKeeps ==
    ASSUME Snap!ConstantsOK, SnapIInv, NEW s \in Snap!Stories, Snap!Begin(s)
    PROVE  SnapIInv'
<1> DEFINE U == {l \in found[s] : verdict[l] = "none"}
<1>1. /\ pc = "verifying" /\ task[s] = "waiting"
      /\ Cardinality({r \in Snap!Stories : task[r] = "asking"}) < Parallel
      /\ task' = [task EXCEPT ![s] = "asking"] /\ missing' = [missing EXCEPT ![s] = U]
      /\ UNCHANGED <<now, links, verdict, pc, tracked, comparable, found, reply, report>>
    BY CardIs DEF Snap!Begin, Snap!Unknown
<1>2. /\ task \in [Snap!Stories -> Tasks] /\ missing \in [Snap!Stories -> SUBSET Links]
      /\ U \subseteq Links
    BY DEF SnapIInv, SnapTypes
<1>3. task'[s] = "asking" /\ missing'[s] = U
    BY <1>1, <1>2
<1>4. \A r \in Snap!Stories : r # s => task'[r] = task[r] /\ missing'[r] = missing[r]
    BY <1>1, <1>2
<1>5. SnapTypes'
    <2> DEFINE A == {r \in Snap!Stories : task[r] = "asking"}
    <2>1. {r \in Snap!Stories : task'[r] = "asking"} = A \cup {s}
        BY <1>3, <1>4
    <2>2. IsFiniteSet(A) /\ Cardinality(A) \in Nat
        <3>1. A \in SUBSET Snap!Stories
            OBVIOUS
        <3> HIDE DEF A
        <3> QED BY <3>1, Given, FS_Subset, FS_CardinalityType
    <2>3. Cardinality(A \cup {s}) <= Cardinality(A) + 1 /\ Cardinality(A \cup {s}) \in Nat
        <3> HIDE DEF A
        <3>1. Cardinality(A \cup {s}) = IF s \in A THEN Cardinality(A) ELSE Cardinality(A) + 1
            BY <2>2, FS_AddElement
        <3> QED BY <2>2, <3>1
    <2>4. Cardinality(A) < Parallel /\ Parallel \in Nat
        BY <1>1, Given
    <2>5. Cardinality({r \in Snap!Stories : task'[r] = "asking"}) <= Parallel
        <3> HIDE DEF A
        <3> QED BY <2>1, <2>2, <2>3, <2>4
    <2>6. task' \in [Snap!Stories -> Tasks] /\ missing' \in [Snap!Stories -> SUBSET Links]
        BY <1>1, <1>2 DEF Tasks
    <2> QED BY <1>1, <2>5, <2>6, TaskTypes DEF SnapIInv, SnapTypes
<1>6. SnapAsks'
    <2>1. reply[s] = <<>>
        BY <1>1 DEF SnapIInv, SnapAsks
    <2> SUFFICES ASSUME NEW r \in Snap!Stories
                 PROVE  /\ missing'[r] \subseteq found'[r] /\ DOMAIN reply'[r] \subseteq found'[r]
                        /\ missing'[r] \cap DOMAIN reply'[r] = {}
                        /\ \A l \in missing'[r] \cup DOMAIN reply'[r] : verdict'[l] = "none"
                        /\ task'[r] # "asking" => missing'[r] = {} /\ reply'[r] = <<>>
                        /\ task'[r] = "asking" => pc' = "verifying"
                        /\ \A l \in found'[r] : LinkOf[l].story = r
        BY DEF SnapAsks
    <2>2. CASE r = s
        BY <1>1, <1>3, <2>1, <2>2, EmptyReply DEF SnapIInv, SnapAsks
    <2>3. CASE r # s
        BY <1>1, <1>4, <2>3 DEF SnapIInv, SnapAsks
    <2> QED BY <2>2, <2>3
<1>7. SnapRead' /\ SnapReport'
    <2>1. \A r \in Snap!Stories : task'[r] = "off" => task[r] = "off"
        BY <1>3, <1>4
    <2> QED BY <1>1, <2>1, TaskFrame
<1> QED BY <1>5, <1>6, <1>7 DEF SnapIInv

LEMMA AnswerKeeps ==
    ASSUME Snap!ConstantsOK, SnapIInv, NEW s \in Snap!Stories, Snap!Answer(s)
    PROVE  SnapIInv'
<1> DEFINE F == Snap!First(missing[s], Batch)
<1>1. /\ task[s] = "asking" /\ reply[s] = <<>>
      /\ missing' = [missing EXCEPT ![s] = missing[s] \ F]
      /\ UNCHANGED <<now, links, verdict, pc, tracked, comparable, found, task, report>>
    BY DEF Snap!Answer
<1>2. PICK r \in [F -> {"yes", "no"}] : reply' = [reply EXCEPT ![s] = r]
    BY DEF Snap!Answer
<1>3. F \subseteq missing[s]
    BY DEF Snap!First
<1>4. /\ reply \in [Snap!Stories -> Replies] /\ missing \in [Snap!Stories -> SUBSET Links]
      /\ \A q \in Snap!Stories : missing[q] \subseteq Links
    BY DEF SnapIInv, SnapTypes
<1>5. r \in Replies /\ DOMAIN r = F
    <2>1. F \in SUBSET Links
        BY <1>3, <1>4
    <2> QED BY <1>2, <2>1 DEF Replies
<1> HIDE DEF F
<1>6. missing'[s] = missing[s] \ F /\ reply'[s] = r
    BY <1>1, <1>2, <1>4
<1>7. \A q \in Snap!Stories : q # s => missing'[q] = missing[q] /\ reply'[q] = reply[q]
    BY <1>1, <1>2, <1>4
<1>8. SnapTypes'
    <2>1. missing' \in [Snap!Stories -> SUBSET Links] /\ reply' \in [Snap!Stories -> Replies]
        BY <1>1, <1>2, <1>4, <1>5
    <2> QED BY <1>1, <2>1, TaskTypes DEF SnapIInv, SnapTypes
<1>9. SnapAsks'
    <2> SUFFICES ASSUME NEW q \in Snap!Stories
                 PROVE  /\ missing'[q] \subseteq found'[q] /\ DOMAIN reply'[q] \subseteq found'[q]
                        /\ missing'[q] \cap DOMAIN reply'[q] = {}
                        /\ \A l \in missing'[q] \cup DOMAIN reply'[q] : verdict'[l] = "none"
                        /\ task'[q] # "asking" => missing'[q] = {} /\ reply'[q] = <<>>
                        /\ task'[q] = "asking" => pc' = "verifying"
                        /\ \A l \in found'[q] : LinkOf[l].story = q
        BY DEF SnapAsks
    <2>1. CASE q = s
        BY <1>1, <1>3, <1>5, <1>6, <2>1 DEF SnapIInv, SnapAsks
    <2>2. CASE q # s
        BY <1>1, <1>7, <2>2 DEF SnapIInv, SnapAsks
    <2> QED BY <2>1, <2>2
<1>10. SnapRead' /\ SnapReport'
    <2>1. pc = "verifying"
        BY <1>1 DEF SnapIInv, SnapAsks
    <2> QED BY <1>1, <2>1, TaskFrame
<1> QED BY <1>8, <1>9, <1>10 DEF SnapIInv

\* A verdict that is stored is of this story alone, and was none.
LEMMA SaveIs ==
    ASSUME Snap!ConstantsOK, SnapIInv, NEW s \in Snap!Stories, Snap!Save(s)
    PROVE  \E l \in DOMAIN reply[s] :
              /\ verdict' = [verdict EXCEPT ![l] = reply[s][l]] /\ verdict[l] = "none"
              /\ reply' = [reply EXCEPT ![s] = [x \in DOMAIN reply[s] \ {l} |-> reply[s][x]]]
              /\ l \in Links /\ reply[s][l] \in {"yes", "no"}
              /\ [x \in DOMAIN reply[s] \ {l} |-> reply[s][x]] \in Replies
<1> DEFINE D == DOMAIN reply[s]
<1>1. PICK E \in SUBSET Links : reply[s] \in [E -> {"yes", "no"}]
    BY DEF SnapIInv, SnapTypes, Replies
<1>2. D = E /\ IsFiniteSet(E) /\ E \subseteq Int
    BY <1>1, Given, FS_Subset
<1>3. E # {}
    <2>1. reply[s] # <<>>
        BY DEF Snap!Save
    <2>2. \A f \in [{} -> {"yes", "no"}] : f = <<>>
        OBVIOUS
    <2> QED BY <1>1, <2>1, <2>2
<1>4. Snap!Min(E) \in E
    BY <1>2, <1>3, LeastIs
<1> DEFINE l == Snap!Min(E)
<1>5. /\ verdict' = [verdict EXCEPT ![l] = reply[s][l]]
      /\ reply' = [reply EXCEPT ![s] = [x \in E \ {l} |-> reply[s][x]]]
    BY <1>2 DEF Snap!Save, Snap!Restrict
<1> HIDE DEF l
<1>6. verdict[l] = "none"
    BY <1>2, <1>4 DEF SnapIInv, SnapAsks, l
<1>7. [x \in E \ {l} |-> reply[s][x]] \in Replies
    <2>1. E \ {l} \in SUBSET Links
        BY <1>1
    <2>2. [x \in E \ {l} |-> reply[s][x]] \in [E \ {l} -> {"yes", "no"}]
        BY <1>1
    <2> QED BY <2>1, <2>2 DEF Replies
<1>8. l \in E /\ l \in Links /\ reply[s][l] \in {"yes", "no"}
    BY <1>1, <1>4 DEF l
<1> QED BY <1>2, <1>5, <1>6, <1>7, <1>8

LEMMA SaveKeeps ==
    ASSUME Snap!ConstantsOK, SnapIInv, NEW s \in Snap!Stories, Snap!Save(s)
    PROVE  SnapIInv'
<1>1. PICK l \in DOMAIN reply[s] :
          /\ verdict' = [verdict EXCEPT ![l] = reply[s][l]] /\ verdict[l] = "none"
          /\ reply' = [reply EXCEPT ![s] = [x \in DOMAIN reply[s] \ {l} |-> reply[s][x]]]
          /\ l \in Links /\ reply[s][l] \in {"yes", "no"}
          /\ [x \in DOMAIN reply[s] \ {l} |-> reply[s][x]] \in Replies
    BY SaveIs
<1>2. /\ task[s] = "asking"
      /\ UNCHANGED <<now, links, pc, tracked, comparable, found, task, missing, report>>
    BY DEF Snap!Save
<1>3. /\ reply \in [Snap!Stories -> Replies] /\ verdict \in [Links -> {"none", "yes", "no"}]
    BY DEF SnapIInv, SnapTypes
<1>4. DOMAIN reply'[s] = DOMAIN reply[s] \ {l}
    BY <1>1, <1>3
<1>5. \A q \in Snap!Stories : q # s => reply'[q] = reply[q]
    BY <1>1, <1>3
<1>6. \A k \in Links : k # l => verdict'[k] = verdict[k]
    BY <1>1, <1>3
<1>7. SnapTypes'
    <2>1. verdict' \in [Links -> {"none", "yes", "no"}]
        BY <1>1, <1>3
    <2>2. reply' \in [Snap!Stories -> Replies]
        BY <1>1, <1>3
    <2> QED BY <1>2, <2>1, <2>2, TaskTypes DEF SnapIInv, SnapTypes
<1>8. SnapAsks'
    <2> SUFFICES ASSUME NEW q \in Snap!Stories
                 PROVE  /\ missing'[q] \subseteq found'[q] /\ DOMAIN reply'[q] \subseteq found'[q]
                        /\ missing'[q] \cap DOMAIN reply'[q] = {}
                        /\ \A k \in missing'[q] \cup DOMAIN reply'[q] : verdict'[k] = "none"
                        /\ task'[q] # "asking" => missing'[q] = {} /\ reply'[q] = <<>>
                        /\ task'[q] = "asking" => pc' = "verifying"
                        /\ \A k \in found'[q] : LinkOf[k].story = q
        BY DEF SnapAsks
    <2>1. /\ missing[q] \subseteq found[q] /\ DOMAIN reply[q] \subseteq found[q]
          /\ missing[q] \cap DOMAIN reply[q] = {}
          /\ \A k \in missing[q] \cup DOMAIN reply[q] : verdict[k] = "none"
          /\ task[q] # "asking" => missing[q] = {} /\ reply[q] = <<>>
          /\ task[q] = "asking" => pc = "verifying"
          /\ \A k \in found[q] : LinkOf[k].story = q
          /\ found[q] \subseteq Links
        BY DEF SnapIInv, SnapAsks, SnapTypes
    <2>2. LinkOf[l].story = s
        BY <1>1 DEF SnapIInv, SnapAsks
    <2>3. CASE q = s
        <3>1. l \notin missing[q] /\ l \notin DOMAIN reply'[q] /\ DOMAIN reply'[q] \subseteq DOMAIN reply[q]
            BY <1>1, <1>4, <2>1, <2>3
        <3>2. \A k \in missing[q] \cup DOMAIN reply'[q] : verdict'[k] = "none"
            BY <1>6, <2>1, <3>1
        <3> QED BY <1>2, <2>1, <2>3, <3>1, <3>2
    <2>4. CASE q # s
        <3>1. l \notin found[q]
            BY <2>1, <2>2, <2>4
        <3>2. \A k \in missing[q] \cup DOMAIN reply[q] : verdict'[k] = "none"
            BY <1>6, <2>1, <3>1
        <3> QED BY <1>2, <1>5, <2>1, <2>4, <3>1, <3>2
    <2> QED BY <2>3, <2>4
<1>9. SnapRead' /\ SnapReport'
    <2>1. pc = "verifying"
        BY <1>2 DEF SnapIInv, SnapAsks
    <2> QED BY <1>2, <2>1, TaskFrame
<1> QED BY <1>7, <1>8, <1>9 DEF SnapIInv

LEMMA CloseKeeps ==
    ASSUME Snap!ConstantsOK, SnapIInv, NEW s \in Snap!Stories,
           NEW how \in {"done", "failed", "broke"}, Snap!Close(s, how)
    PROVE  SnapIInv'
<1>1. /\ task[s] = "asking" /\ task' = [task EXCEPT ![s] = how]
      /\ missing' = [missing EXCEPT ![s] = {}] /\ reply' = [reply EXCEPT ![s] = <<>>]
      /\ UNCHANGED <<now, links, verdict, pc, tracked, comparable, found, report>>
    BY DEF Snap!Close
<1>2. /\ reply \in [Snap!Stories -> Replies] /\ missing \in [Snap!Stories -> SUBSET Links]
      /\ task \in [Snap!Stories -> Tasks]
      /\ Cardinality({r \in Snap!Stories : task[r] = "asking"}) <= Parallel
    BY DEF SnapIInv, SnapTypes
<1>3. task'[s] = how /\ missing'[s] = {} /\ reply'[s] = <<>>
    BY <1>1, <1>2
<1>4. \A q \in Snap!Stories :
          q # s => task'[q] = task[q] /\ missing'[q] = missing[q] /\ reply'[q] = reply[q]
    BY <1>1, <1>2
<1>5. SnapTypes'
    <2> DEFINE A == {r \in Snap!Stories : task[r] = "asking"}
               A2 == {r \in Snap!Stories : task'[r] = "asking"}
    <2>1. A2 \in SUBSET A
        BY <1>1, <1>3, <1>4
    <2>2. IsFiniteSet(A) /\ Cardinality(A) \in Nat
        <3>1. A \in SUBSET Snap!Stories
            OBVIOUS
        <3> HIDE DEF A
        <3> QED BY <3>1, Given, FS_Subset, FS_CardinalityType
    <2>3. Cardinality(A2) <= Parallel
        <3>1. Cardinality(A2) <= Cardinality(A) /\ Cardinality(A2) \in Nat
            <4> HIDE DEF A, A2
            <4> QED BY <2>1, <2>2, FS_Subset, FS_CardinalityType
        <3> QED BY <1>2, <2>2, <3>1, Given
    <2>4. /\ task' \in [Snap!Stories -> Tasks] /\ missing' \in [Snap!Stories -> SUBSET Links]
          /\ reply' \in [Snap!Stories -> Replies]
        BY <1>1, <1>2, EmptyReply DEF Tasks
    <2> QED BY <1>1, <2>3, <2>4, TaskTypes DEF SnapIInv, SnapTypes
<1>6. SnapAsks'
    <2> SUFFICES ASSUME NEW q \in Snap!Stories
                 PROVE  /\ missing'[q] \subseteq found'[q] /\ DOMAIN reply'[q] \subseteq found'[q]
                        /\ missing'[q] \cap DOMAIN reply'[q] = {}
                        /\ \A l \in missing'[q] \cup DOMAIN reply'[q] : verdict'[l] = "none"
                        /\ task'[q] # "asking" => missing'[q] = {} /\ reply'[q] = <<>>
                        /\ task'[q] = "asking" => pc' = "verifying"
                        /\ \A l \in found'[q] : LinkOf[l].story = q
        BY DEF SnapAsks
    <2>1. CASE q = s
        BY <1>1, <1>3, <2>1, EmptyReply DEF SnapIInv, SnapAsks
    <2>2. CASE q # s
        BY <1>1, <1>4, <2>2 DEF SnapIInv, SnapAsks
    <2> QED BY <2>1, <2>2
<1>7. SnapRead' /\ SnapReport'
    <2>1. pc = "verifying"
        BY <1>1 DEF SnapIInv, SnapAsks
    <2>2. \A q \in Snap!Stories : task'[q] = "off" => task[q] = "off"
        BY <1>3, <1>4
    <2> QED BY <1>1, <2>1, <2>2, TaskFrame
<1> QED BY <1>5, <1>6, <1>7 DEF SnapIInv

LEMMA GatherKeeps ==
    ASSUME Snap!ConstantsOK, SnapIInv, NEW C \in SUBSET tracked, Snap!Gather(C)
    PROVE  SnapIInv'
<1>1. /\ pc = "verifying" /\ pc' = "counting" /\ comparable' = C
      /\ \A s \in Snap!Stories : task[s] \notin {"waiting", "asking", "broke"}
      /\ found' = [s \in Snap!Stories |-> Snap!Evidence(s)]
      /\ UNCHANGED <<now, links, verdict, tracked, task, missing, reply, report>>
    BY DEF Snap!Gather, Snap!Gathered
<1>2. ASSUME NEW s \in Snap!Stories
      PROVE  /\ found'[s] = Snap!Evidence(s) /\ Snap!Evidence(s) \subseteq found[s]
             /\ task[s] \in {"off", "done", "failed"}
             /\ missing[s] = {} /\ reply[s] = <<>>
    <2>1. task[s] \in Tasks
        BY DEF SnapIInv, SnapTypes
    <2>2. Snap!Evidence(s) \subseteq found[s]
        BY DEF Snap!Evidence
    <2>3. missing[s] = {} /\ reply[s] = <<>>
        BY <1>1 DEF SnapIInv, SnapAsks
    <2> QED BY <1>1, <2>1, <2>2, <2>3 DEF Tasks
<1>3. SnapTypes'
    <2>1. found' \in [Snap!Stories -> SUBSET links]
        BY <1>1, <1>2 DEF SnapIInv, SnapTypes
    <2>2. comparable' \subseteq tracked' /\ tracked' \subseteq Snap!Channels
        BY <1>1 DEF SnapIInv, SnapTypes
    <2> QED BY <1>1, <2>1, <2>2 DEF SnapIInv, SnapTypes
<1>4. SnapAsks'
    <2> SUFFICES ASSUME NEW s \in Snap!Stories
                 PROVE  /\ missing'[s] = {} /\ reply'[s] = <<>> /\ task'[s] # "asking"
                        /\ \A l \in found'[s] : LinkOf[l].story = s
        BY EmptyReply DEF SnapAsks
    <2> QED BY <1>1, <1>2 DEF SnapIInv, SnapAsks
<1>5. ASSUME NEW s \in Snap!Stories
      PROVE  (Snap!Reporting(s) < 2 \/ found[s] = Snap!Standing(s))'
    <2>0. \A l : Snap!Current(l)' = Snap!Current(l) /\ Snap!Post(l)' = Snap!Post(l)
        BY <1>1 DEF Snap!Current, Snap!Post
    <2>1. CASE task[s] = "off"
        <3>1. Snap!Evidence(s) = found[s]
            BY <2>1 DEF Snap!Evidence
        <3>2. Snap!Reporting(s)' = Snap!Reporting(s)
            BY <1>1, <1>2, <3>1, NowFrame
        <3>3. Snap!Reporting(s) < 2
            BY <1>1, <2>1 DEF SnapIInv, SnapRead
        <3> QED BY <3>2, <3>3
    <2>2. CASE task[s] = "failed"
        <3>1. found'[s] = {}
            BY <1>2, <2>2 DEF Snap!Evidence
        <3>2. Snap!Now(s)' = {}
            BY <3>1 DEF Snap!Now
        <3>3. Snap!ChannelsOf(Snap!Now(s))' = {}
            BY <3>2 DEF Snap!ChannelsOf
        <3>4. Snap!Reporting(s)' = 0
            BY <3>3, CardIs, FS_EmptySet DEF Snap!Reporting
        <3> QED BY <3>4
    <2>3. CASE task[s] = "done"
        <3>1. found[s] = Snap!LinksOf(s, tracked)
            BY <1>1 DEF SnapIInv, SnapRead
        <3>2. found'[s] = {l \in Snap!LinksOf(s, tracked) : verdict[l] = "yes"}
            BY <1>2, <2>3, <3>1 DEF Snap!Evidence
        <3>3. Snap!LinksOf(s, tracked)' = Snap!LinksOf(s, tracked)
            <4>1. \A l : Snap!Previous(l)' = Snap!Previous(l) /\ Snap!Supported(l)' = Snap!Supported(l)
                BY <1>1 DEF Snap!Previous, Snap!Supported, Snap!Post
            <4> QED BY <1>1, <2>0, <4>1 DEF Snap!LinksOf
        <3> QED BY <1>1, <3>2, <3>3 DEF Snap!Standing
    <2> QED BY <1>2, <2>1, <2>2, <2>3
<1>6. SnapRead' /\ SnapReport'
    BY <1>1, <1>5 DEF SnapRead, SnapReport
<1> QED BY <1>3, <1>4, <1>6 DEF SnapIInv

\* What the selection sees of a card.
LEMMA CardFrame ==
    ASSUME UNCHANGED <<now, found, comparable>>
    PROVE  /\ \A s : Snap!Reporting(s)' = Snap!Reporting(s) /\ Snap!Growth(s)' = Snap!Growth(s)
           /\ \A C, s : Snap!Blocks(C, s)' = Snap!Blocks(C, s)
           /\ Snap!Offered' = Snap!Offered /\ Snap!Enough' = Snap!Enough
<1>1. \A l : Snap!Current(l)' = Snap!Current(l) /\ Snap!Previous(l)' = Snap!Previous(l)
               /\ Snap!Post(l)' = Snap!Post(l)
    BY DEF Snap!Current, Snap!Previous, Snap!Post
<1>2. \A s : Snap!Now(s)' = Snap!Now(s)
    BY <1>1 DEF Snap!Now
<1>3. \A S : Snap!ChannelsOf(S)' = Snap!ChannelsOf(S) /\ Snap!Compared(S)' = Snap!Compared(S)
    BY <1>1 DEF Snap!ChannelsOf, Snap!Compared
<1>4. \A s : {l \in found[s] : Snap!Previous(l)}' = {l \in found[s] : Snap!Previous(l)}
    BY <1>1
<1>5. \A s : Snap!Reporting(s)' = Snap!Reporting(s) /\ Snap!Growth(s)' = Snap!Growth(s)
    <2>1. \A s : Snap!ChannelsOf(Snap!Now(s))' = Snap!ChannelsOf(Snap!Now(s))
        BY <1>1, <1>2 DEF Snap!ChannelsOf
    <2>2. \A s : Snap!Compared(Snap!Now(s))' = Snap!Compared(Snap!Now(s))
        BY <2>1 DEF Snap!Compared
    <2>3. \A s : Snap!Compared({l \in found[s] : Snap!Previous(l)})'
                   = Snap!Compared({l \in found[s] : Snap!Previous(l)})
        BY <1>1, <1>4 DEF Snap!Compared, Snap!ChannelsOf
    <2> QED BY <2>1, <2>2, <2>3 DEF Snap!Reporting, Snap!Growth
<1>6. \A C, s : Snap!Blocks(C, s)' = Snap!Blocks(C, s)
    <2>1. \A s : Snap!Votes(Snap!Now(s))' = Snap!Votes(Snap!Now(s))
        BY <1>2 DEF Snap!Votes
    <2> QED BY <2>1 DEF Snap!Blocks
<1>7. Snap!Enough' = Snap!Enough
    BY DEF Snap!Enough
<1>8. Snap!Eligible' = Snap!Eligible
    BY <1>5 DEF Snap!Eligible
<1>9. Snap!Growing' = Snap!Growing
    BY <1>5, <1>8 DEF Snap!Growing
<1>10. Snap!Offered' = Snap!Offered
    BY <1>7, <1>8, <1>9 DEF Snap!Offered
<1> QED BY <1>5, <1>6, <1>7, <1>10

LEMMA BuildKeeps ==
    ASSUME Snap!ConstantsOK, SnapIInv, Snap!Build
    PROVE  SnapIInv'
<1> DEFINE T == Snap!Selected(Snap!Ranked(Snap!Offered))
<1>1. /\ pc = "counting" /\ pc' = "built"
      /\ report'.mode = Snap!Mode
      /\ report'.agenda = IF Snap!Mode = "empty_no_growth" THEN {} ELSE T
      /\ report'.channels = [s \in Snap!Stories |-> Snap!Reporting(s)]
      /\ report'.claims = [s \in Snap!Stories |-> Snap!Claims(s)]
      /\ UNCHANGED <<now, links, verdict, tracked, comparable, found, task, missing, reply>>
    BY DEF Snap!Build
<1>2. SnapTypes
    BY DEF SnapIInv
<1>3. /\ Snap!Offered \subseteq Snap!Stories
      /\ \A s \in Snap!Offered : /\ Snap!Reporting(s) \in Nat /\ Snap!Reporting(s) >= MinChannels
                                 /\ Snap!Reporting(s) > 0
                                 /\ Snap!Enough => Snap!Growth(s) > 0
    <2>1. \A s \in Snap!Offered : /\ s \in Snap!Stories /\ Snap!Reporting(s) >= MinChannels
                                  /\ Snap!Enough => Snap!Growth(s) > 0
        BY DEF Snap!Offered, Snap!Growing, Snap!Eligible
    <2>2. \A s \in Snap!Stories : Snap!Reporting(s) \in Nat
        BY <1>2, CountsAre
    <2>3. MinChannels \in Nat /\ MinChannels >= 2
        BY Given
    <2>4. \A s \in Snap!Offered : Snap!Reporting(s) > 0
        BY <2>1, <2>2, <2>3
    <2> QED BY <2>1, <2>2, <2>4
<1>4. /\ T \subseteq Snap!Offered
      /\ \A s \in Snap!Offered \ T : Snap!Cardinality(T) = AgendaLimit \/ Snap!Blocks(T, s)
    BY <1>2, <1>3, SelectionIs
<1>5. Snap!Mode = "empty_no_growth" => Snap!Offered = {}
    BY DEF Snap!Mode, Snap!Offered
<1> HIDE DEF T
<1>6. /\ report'.agenda \subseteq Snap!Offered
      /\ \A s \in Snap!Offered \ report'.agenda :
            Snap!Cardinality(report'.agenda) = AgendaLimit \/ Snap!Blocks(report'.agenda, s)
    BY <1>1, <1>4, <1>5
<1>7. /\ \A s : Snap!Reporting(s)' = Snap!Reporting(s) /\ Snap!Growth(s)' = Snap!Growth(s)
      /\ \A C, s : Snap!Blocks(C, s)' = Snap!Blocks(C, s)
      /\ Snap!Offered' = Snap!Offered /\ Snap!Enough' = Snap!Enough
    BY <1>1, CardFrame
<1>8. (\A s \in report.agenda :
          /\ s \in Snap!Stories /\ report.channels[s] = Snap!Reporting(s)
          /\ Snap!Reporting(s) >= MinChannels
          /\ report.mode = "full" => Snap!Growth(s) > 0)'
    <2> SUFFICES ASSUME NEW s \in report'.agenda
                 PROVE  /\ s \in Snap!Stories /\ report'.channels[s] = Snap!Reporting(s)'
                        /\ Snap!Reporting(s)' >= MinChannels
                        /\ report'.mode = "full" => Snap!Growth(s)' > 0
        OBVIOUS
    <2>1. Snap!Mode = "full" => Snap!Enough
        BY DEF Snap!Mode
    <2> QED BY <1>1, <1>3, <1>6, <1>7, <2>1
<1>9. Snap!RestIsBlocked'
    <2>1. \A s \in Snap!Offered' \ report'.agenda :
              Snap!Cardinality(report'.agenda) = AgendaLimit \/ Snap!Blocks(report.agenda, s)'
        <3>1. \A s : Snap!Blocks(report.agenda, s)' = Snap!Blocks(report'.agenda, s)
            <4>1. \A s : Snap!Votes(Snap!Now(s))' = Snap!Votes(Snap!Now(s))
                <5>1. \A l : Snap!Current(l)' = Snap!Current(l)
                    BY <1>1 DEF Snap!Current, Snap!Post
                <5> QED BY <1>1, <5>1 DEF Snap!Votes, Snap!Now
            <4> QED BY <4>1 DEF Snap!Blocks
        <3> QED BY <1>6, <1>7, <3>1
    <2> QED BY <2>1 DEF Snap!RestIsBlocked
<1>10. Snap!EvidenceIsVaried'
    <2> SUFFICES ASSUME NEW s \in Snap!Stories
                 PROVE  Snap!Cardinality(Snap!ChannelsOf(report'.claims[s]))
                            = Snap!Min({ClaimLimit, report'.channels[s]})
        BY DEF Snap!EvidenceIsVaried, Snap!ChannelsOf, Snap!Post
    <2> QED BY <1>1, <1>2, ClaimsAreVaried
<1>11. SnapTypes'
    BY <1>1, <1>2 DEF SnapTypes
<1>12. SnapAsks'
    BY <1>1 DEF SnapIInv, SnapAsks
<1>13. SnapRead'
    <2>1. ASSUME NEW s \in Snap!Stories
          PROVE  (Snap!Reporting(s) < 2 \/ found[s] = Snap!Standing(s))'
        <3>1. Snap!Reporting(s) < 2 \/ found[s] = Snap!Standing(s)
            BY <1>1 DEF SnapIInv, SnapRead
        <3>2. Snap!Standing(s)' = Snap!Standing(s)
            <4>1. \A l : Snap!Current(l)' = Snap!Current(l) /\ Snap!Post(l)' = Snap!Post(l)
                          /\ Snap!Previous(l)' = Snap!Previous(l) /\ Snap!Supported(l)' = Snap!Supported(l)
                BY <1>1 DEF Snap!Current, Snap!Previous, Snap!Supported, Snap!Post
            <4>2. Snap!LinksOf(s, tracked)' = Snap!LinksOf(s, tracked)
                BY <1>1, <4>1 DEF Snap!LinksOf
            <4> QED BY <1>1, <4>2 DEF Snap!Standing
        <3> QED BY <1>1, <1>7, <3>1, <3>2
    <2> QED BY <1>1, <2>1 DEF SnapRead
<1> QED BY <1>8, <1>9, <1>10, <1>11, <1>12, <1>13 DEF SnapIInv, SnapReport

LEMMA SnapStutters ==
    ASSUME SnapIInv, UNCHANGED Snap!vars
    PROVE  SnapIInv'
<1>1. UNCHANGED <<now, links, verdict, pc, tracked, comparable, found, task, missing, reply, report>>
    BY DEF Snap!vars
<1>2. SnapTypes' /\ SnapAsks'
    BY <1>1 DEF SnapIInv, SnapTypes, SnapAsks
<1>3. \A s : Snap!Standing(s)' = Snap!Standing(s) /\ Snap!LinksOf(s, tracked)' = Snap!LinksOf(s, tracked)
    <2>1. \A l : Snap!Current(l)' = Snap!Current(l) /\ Snap!Post(l)' = Snap!Post(l)
                  /\ Snap!Previous(l)' = Snap!Previous(l) /\ Snap!Supported(l)' = Snap!Supported(l)
        BY <1>1 DEF Snap!Current, Snap!Previous, Snap!Supported, Snap!Post
    <2>2. \A s : Snap!LinksOf(s, tracked)' = Snap!LinksOf(s, tracked)
        BY <1>1, <2>1 DEF Snap!LinksOf
    <2> QED BY <1>1, <2>2 DEF Snap!Standing
<1>4. /\ \A s : Snap!Reporting(s)' = Snap!Reporting(s) /\ Snap!Growth(s)' = Snap!Growth(s)
      /\ Snap!Offered' = Snap!Offered
      /\ \A s : Snap!Votes(Snap!Now(s))' = Snap!Votes(Snap!Now(s))
    <2>1. \A l : Snap!Current(l)' = Snap!Current(l)
        BY <1>1 DEF Snap!Current, Snap!Post
    <2>2. \A s : Snap!Votes(Snap!Now(s))' = Snap!Votes(Snap!Now(s))
        BY <1>1, <2>1 DEF Snap!Votes, Snap!Now
    <2> QED BY <1>1, <2>2, CardFrame
<1>5. SnapRead'
    BY <1>1, <1>3, <1>4 DEF SnapIInv, SnapRead
<1>6. SnapReport'
    <2>1. Snap!RestIsBlocked => Snap!RestIsBlocked'
        BY <1>1, <1>4 DEF Snap!RestIsBlocked, Snap!Blocks
    <2>2. Snap!EvidenceIsVaried => Snap!EvidenceIsVaried'
        BY <1>1 DEF Snap!EvidenceIsVaried, Snap!ChannelsOf, Snap!Post
    <2> QED BY <1>1, <1>4, <2>1, <2>2 DEF SnapIInv, SnapReport
<1> QED BY <1>2, <1>5, <1>6 DEF SnapIInv

LEMMA SnapKeeps == Snap!ConstantsOK /\ SnapIInv /\ [Snap!Next]_(Snap!vars) => SnapIInv'
<1> SUFFICES ASSUME Snap!ConstantsOK, SnapIInv, [Snap!Next]_(Snap!vars) PROVE SnapIInv'
    OBVIOUS
<1>1. CASE Snap!Tick \/ Snap!Assign
    BY <1>1, IdleKeeps
<1>2. CASE Snap!Interrupt \/ Snap!OutOfBudget \/ Snap!Return
    BY <1>2, LeaveKeeps DEF Snap!Interrupt, Snap!OutOfBudget, Snap!Return
<1>3. CASE Snap!Build
    BY <1>3, BuildKeeps
<1>4. ASSUME NEW T \in SUBSET Snap!Channels, Snap!Load(T) PROVE SnapIInv'
    BY <1>4, LoadKeeps
<1>5. ASSUME NEW C \in SUBSET tracked, Snap!Gather(C) PROVE SnapIInv'
    BY <1>5, GatherKeeps
<1>6. ASSUME NEW s \in Snap!Stories, Snap!Begin(s) \/ Snap!Answer(s) \/ Snap!Save(s) PROVE SnapIInv'
    BY <1>6, BeginKeeps, AnswerKeeps, SaveKeeps
<1>7. ASSUME NEW s \in Snap!Stories, NEW how \in {"done", "failed", "broke"}, Snap!Close(s, how)
      PROVE  SnapIInv'
    BY <1>7, CloseKeeps
<1>8. CASE UNCHANGED Snap!vars
    BY <1>8, SnapStutters
<1> QED BY <1>1, <1>2, <1>3, <1>4, <1>5, <1>6, <1>7, <1>8 DEF Snap!Next

\* A report on the agenda has the channels its verified quotes give it.
LEMMA StandingIsCounted ==
    ASSUME Snap!ConstantsOK, SnapIInv
    PROVE  Snap!TypeOK /\ Snap!AgendaIsVerified /\ Snap!RestIsBlocked /\ Snap!EvidenceIsVaried
<1>1. Snap!TypeOK
    <2>1. /\ \A s \in Snap!Stories :
                /\ found[s] \subseteq links /\ missing[s] \subseteq found[s]
                /\ DOMAIN reply[s] \subseteq found[s]
                /\ task[s] \in {"off", "waiting", "asking", "done", "failed", "broke"}
          /\ Snap!Cardinality({s \in Snap!Stories : task[s] = "asking"}) <= Parallel
        BY CardIs DEF SnapIInv, SnapTypes, SnapAsks, Tasks
    <2> QED BY <2>1 DEF SnapIInv, SnapTypes, Snap!TypeOK
<1>2. ASSUME pc = "built", NEW s \in report.agenda
      PROVE  LET current == {l \in Snap!Standing(s) : Snap!Current(l)}
                 previous == {l \in Snap!Standing(s) : Snap!Previous(l)}
             IN  /\ report.channels[s] = Snap!Cardinality(Snap!ChannelsOf(current))
                 /\ report.channels[s] >= MinChannels
                 /\ report.mode = "full" =>
                       Snap!Cardinality(Snap!ChannelsOf(current) \cap comparable)
                           > Snap!Cardinality(Snap!ChannelsOf(previous) \cap comparable)
    <2>1. /\ s \in Snap!Stories /\ report.channels[s] = Snap!Reporting(s)
          /\ Snap!Reporting(s) >= MinChannels
          /\ report.mode = "full" => Snap!Growth(s) > 0
        BY <1>2 DEF SnapIInv, SnapReport
    <2>2. MinChannels \in Nat /\ MinChannels >= 2 /\ Snap!Reporting(s) \in Nat
        <3>1. Snap!Reporting(s) \in Nat
            BY <2>1, CountsAre DEF SnapIInv
        <3> QED BY <3>1, Given
    <2>3. found[s] = Snap!Standing(s)
        <3>1. ~ (Snap!Reporting(s) < 2)
            BY <2>1, <2>2
        <3> QED BY <1>2, <2>1, <3>1 DEF SnapIInv, SnapRead
    <2> DEFINE current == {l \in Snap!Standing(s) : Snap!Current(l)}
               previous == {l \in Snap!Standing(s) : Snap!Previous(l)}
    <2>4. Snap!Reporting(s) = Snap!Cardinality(Snap!ChannelsOf(current))
        BY <2>3 DEF Snap!Reporting, Snap!Now
    <2>5. Snap!Growth(s) = Snap!Compared(current) - Snap!Compared(previous)
        BY <2>3 DEF Snap!Growth, Snap!Now
    <2>6. Snap!Compared(current) \in Nat /\ Snap!Compared(previous) \in Nat
        <3>1. current \subseteq Links /\ previous \subseteq Links
            BY <2>1, <2>3 DEF SnapIInv, SnapTypes
        <3>2. ASSUME NEW S, S \subseteq Links PROVE Snap!Compared(S) \in Nat
            <4>1. IsFiniteSet(Snap!ChannelsOf(S))
                BY <3>2, ChannelsFinite
            <4>2. IsFiniteSet(Snap!ChannelsOf(S) \cap comparable)
                BY <4>1, FS_Intersection
            <4> QED BY <4>2, FS_CardinalityType, CardIs DEF Snap!Compared
        <3> HIDE DEF current, previous
        <3> QED BY <3>1, <3>2
    <2> HIDE DEF current, previous
    <2>7. report.mode = "full" => Snap!Compared(current) > Snap!Compared(previous)
        BY <2>1, <2>5, <2>6
    <2> QED BY <2>1, <2>4, <2>7 DEF Snap!Compared, current, previous
<1>3. Snap!AgendaIsVerified
    BY <1>2 DEF Snap!AgendaIsVerified
<1>4. Snap!RestIsBlocked /\ Snap!EvidenceIsVaried
    BY DEF SnapIInv, SnapReport, Snap!RestIsBlocked, Snap!EvidenceIsVaried
<1> QED BY <1>1, <1>3, <1>4

\* Whatever was cut, cached or failed before, however the tasks of a build interleave and
\* whatever the model answers: a story on the agenda has the channels and the growth its
\* verified quotes give it, a story is left out only for a full agenda or for those on it,
\* and its quotes show as many channels as fit.
THEOREM AgendaIsProven ==
    ASSUME Snap!ConstantsOK
    PROVE  Snap!Spec => [](Snap!TypeOK /\ Snap!AgendaIsVerified /\ Snap!RestIsBlocked /\ Snap!EvidenceIsVaried)
<1>1. Snap!Init => SnapIInv
    BY SnapInitially
<1>2. SnapIInv /\ [Snap!Next]_(Snap!vars) => SnapIInv'
    BY SnapKeeps
<1>3. SnapIInv => Snap!TypeOK /\ Snap!AgendaIsVerified /\ Snap!RestIsBlocked /\ Snap!EvidenceIsVaried
    BY StandingIsCounted
<1> QED BY <1>1, <1>2, <1>3, PTL DEF Snap!Spec

\* What a step may do to a verdict that is stored.
LEMMA VerdictStep ==
    ASSUME Snap!ConstantsOK, SnapIInv, Snap!Next
    PROVE  Snap!VerdictIsFinal
<1> SUFFICES ASSUME NEW l \in Links, verdict[l] # "none"
             PROVE  verdict'[l] = verdict[l] /\ \A s \in Snap!Stories : l \in missing'[s] => l \in missing[s]
    BY DEF Snap!VerdictIsFinal
<1>1. ASSUME UNCHANGED <<verdict, missing>>
      PROVE  verdict'[l] = verdict[l] /\ \A s \in Snap!Stories : l \in missing'[s] => l \in missing[s]
    BY <1>1
<1>2. CASE Snap!Leave
    BY <1>2 DEF Snap!Leave, Snap!Nothing
<1>3. ASSUME NEW s \in Snap!Stories, Snap!Begin(s)
      PROVE  verdict'[l] = verdict[l] /\ \A r \in Snap!Stories : l \in missing'[r] => l \in missing[r]
    <2>1. /\ missing' = [missing EXCEPT ![s] = {k \in found[s] : verdict[k] = "none"}]
          /\ verdict' = verdict /\ missing \in [Snap!Stories -> SUBSET Links]
        BY <1>3 DEF Snap!Begin, Snap!Unknown, SnapIInv, SnapTypes
    <2> QED BY <2>1
<1>4. ASSUME NEW s \in Snap!Stories, Snap!Answer(s)
      PROVE  verdict'[l] = verdict[l] /\ \A r \in Snap!Stories : l \in missing'[r] => l \in missing[r]
    <2>1. /\ missing' = [missing EXCEPT ![s] = missing[s] \ Snap!First(missing[s], Batch)]
          /\ verdict' = verdict /\ missing \in [Snap!Stories -> SUBSET Links]
        BY <1>4 DEF Snap!Answer, SnapIInv, SnapTypes
    <2> QED BY <2>1
<1>5. ASSUME NEW s \in Snap!Stories, Snap!Save(s)
      PROVE  verdict'[l] = verdict[l] /\ \A r \in Snap!Stories : l \in missing'[r] => l \in missing[r]
    <2>1. PICK k \in DOMAIN reply[s] :
              verdict' = [verdict EXCEPT ![k] = reply[s][k]] /\ verdict[k] = "none" /\ k \in Links
        BY <1>5, SaveIs
    <2>2. missing' = missing /\ verdict \in [Links -> {"none", "yes", "no"}]
        BY <1>5 DEF Snap!Save, SnapIInv, SnapTypes
    <2> QED BY <2>1, <2>2
<1>6. ASSUME NEW s \in Snap!Stories, NEW how \in {"done", "failed", "broke"}, Snap!Close(s, how)
      PROVE  verdict'[l] = verdict[l] /\ \A r \in Snap!Stories : l \in missing'[r] => l \in missing[r]
    <2>1. /\ missing' = [missing EXCEPT ![s] = {}]
          /\ verdict' = verdict /\ missing \in [Snap!Stories -> SUBSET Links]
        BY <1>6 DEF Snap!Close, SnapIInv, SnapTypes
    <2> QED BY <2>1
<1>7. CASE Snap!Tick \/ Snap!Assign \/ Snap!Build
    BY <1>1, <1>7 DEF Snap!Tick, Snap!Assign, Snap!Build
<1>8. ASSUME NEW T, Snap!Load(T) \/ Snap!Gather(T) PROVE UNCHANGED <<verdict, missing>>
    BY <1>8 DEF Snap!Load, Snap!Gather
<1> QED
    BY <1>1, <1>2, <1>3, <1>4, <1>5, <1>6, <1>7, <1>8
    DEF Snap!Next, Snap!Interrupt, Snap!OutOfBudget, Snap!Return

\* A verdict is paid for once, though builds are cut anywhere and tasks run side by side.
THEOREM VerdictsStay ==
    ASSUME Snap!ConstantsOK
    PROVE  Snap!Spec => [][Snap!VerdictIsFinal]_(Snap!vars)
<1>1. Snap!Init => SnapIInv
    BY SnapInitially
<1>2. SnapIInv /\ [Snap!Next]_(Snap!vars) => SnapIInv'
    BY SnapKeeps
<1>3. SnapIInv /\ [Snap!Next]_(Snap!vars) => [Snap!VerdictIsFinal]_(Snap!vars)
    BY VerdictStep
<1> QED BY <1>1, <1>2, <1>3, PTL DEF Snap!Spec

-----------------------------------------------------------------------------
(* Enrichment of a report.  Joins are taken off the budget (EnrichJoins),  *)
(* the story in work is one whose comments have to be read (EnrichWork),   *)
(* and what the model was asked is cached (EnrichAsked).                   *)
CONSTANTS NumStories, Channels, MaxReplies, Top, JoinLimit, Ttl, CacheLimit
VARIABLES time, replies, stage, agenda, counts, story, threads, read, shown, joined, left,
          english, spent, asked, failed

Enrich == INSTANCE Enrichment

\* What is kept of a story: nothing, or what some cycle attached to it.
EnrichEntry(e) ==
    /\ e.at \in Nat /\ e.at <= time
    /\ e # Enrich!NoEntry => e.total > 0

EnrichTypes ==
    /\ time \in Nat /\ spent \in Nat /\ left \in Nat
    /\ agenda \subseteq Enrich!Stories
    /\ \A f \in {cache, shown, asked} :
          /\ f = [s \in Enrich!Stories |-> f[s]]
          /\ \A s \in Enrich!Stories : EnrichEntry(f[s])
    /\ english \subseteq Enrich!Stories \X {"title", "quote"}

\* Joins are taken off the budget.
EnrichJoins == spent + left <= JoinLimit

\* No card has a discussion before the counters are read; the story in work is
\* one whose comments have to be read.
EnrichWork ==
    /\ stage \in {"idle", "count"} => \A s \in Enrich!Stories : shown[s] = Enrich!NoEntry
    /\ stage = "threads" => story \in agenda /\ ~ Enrich!Cached(story) /\ Enrich!Total(story) > 0

\* What the model was asked about is still cached, or something later is.
EnrichAsked ==
    \A s \in Enrich!Stories : asked[s] # Enrich!NoEntry =>
        cache[s] # Enrich!NoEntry /\ asked[s].at <= cache[s].at

EnrichIInv == EnrichTypes /\ EnrichJoins /\ EnrichWork /\ EnrichAsked /\ Enrich!CardsFresh

-----------------------------------------------------------------------------
\* The count of a story depends on the counters only.
EnrichTotal(f, s) ==
    LET Upto[C \in SUBSET Channels] ==
          IF C = {} THEN 0
          ELSE LET c == CHOOSE x \in C : TRUE IN f[s, c] + Upto[C \ {c}]
    IN  Upto[Channels]

LEMMA EnrichTotals ==
  ASSUME NEW s
  PROVE  Enrich!Total(s) = EnrichTotal(counts, s) /\ Enrich!Total(s)' = EnrichTotal(counts', s)
  BY DEF Enrich!Total, EnrichTotal

\* What is kept has a time, and what has none is not kept.
LEMMA EnrichNone == Enrich!NoEntry.at = 0 /\ Enrich!NoEntry.total = 0
  BY DEF Enrich!NoEntry

\* What a step does to what is kept of the stories.
LEMMA EnrichChanges ==
  ASSUME Enrich!ConstantsOK, EnrichTypes, EnrichWork, Enrich!EnrichNext
  PROVE  \/ /\ UNCHANGED <<cache, shown, asked, agenda, time>>
            /\ counts' = counts \/ stage = "count"
            /\ stage' \in {"idle", "count"} => stage' = stage
         \/ stage = "idle" /\ stage' = "count" /\ UNCHANGED <<cache, shown, asked, counts>> /\ time' = time + 1
         \/ /\ UNCHANGED <<cache, asked, time>> /\ shown' = [s \in Enrich!Stories |-> Enrich!NoEntry]
         \/ /\ stage \in {"story", "threads"} /\ stage' = "story"
            /\ story \in agenda /\ Enrich!Total(story) > 0 /\ UNCHANGED <<time, agenda, counts>>
            /\ \E e : /\ \/ e = cache[story] /\ Enrich!Cached(story) /\ asked' = asked
                         \/ /\ e.at = time /\ e.total = Enrich!Total(story)
                            /\ \/ asked' = asked
                               \/ stage = "threads" /\ asked' = [asked EXCEPT ![story] = e]
                      /\ cache' = [cache EXCEPT ![story] = e] /\ shown' = [shown EXCEPT ![story] = e]
<1>1. CASE \/ \E p \in Enrich!Stories \X Channels : Enrich!Comment(p)
           \/ \E down \in SUBSET Channels : Enrich!Count(down)
           \/ Enrich!ReadStory \/ \E c \in Channels, some \in BOOLEAN : Enrich!ReadThread(c, some)
           \/ Enrich!Discussed \/ Enrich!TranslateTimeout
           \/ \E lost \in SUBSET Enrich!Missing : Enrich!Translate(lost)
  BY <1>1 DEF Enrich!Comment, Enrich!Count, Enrich!ReadStory, Enrich!ReadThread, Enrich!Discussed,
              Enrich!TranslateTimeout, Enrich!Translate, Enrich!discussVars
<1>2. CASE \E A \in SUBSET Enrich!Stories : Enrich!Begin(A)
  BY <1>2 DEF Enrich!Begin
<1>3. CASE Enrich!DiscussTimeout \/ Enrich!Publish
  BY <1>3 DEF Enrich!DiscussTimeout, Enrich!Publish, Enrich!TimedOut
<1>4. CASE Enrich!PassStory
  <2>1. CASE UNCHANGED <<cache, shown>>
    BY <1>4, <2>1 DEF Enrich!PassStory
  <2>2. CASE story \in agenda /\ Enrich!Total(story) > 0 /\ Enrich!Cached(story) /\ Enrich!Attach(story, cache[story])
    BY <1>4, <2>2 DEF Enrich!PassStory, Enrich!Attach
  <2>3. CASE /\ story \in agenda /\ Enrich!Total(story) > 0
             /\ Enrich!Attach(story, [at |-> time, total |-> Enrich!Total(story), facts |-> FALSE])
    <3> DEFINE e == [at |-> time, total |-> Enrich!Total(story), facts |-> FALSE]
    <3>1. e.at = time /\ e.total = Enrich!Total(story)
      OBVIOUS
    <3> HIDE DEF e
    <3>2. cache' = [cache EXCEPT ![story] = e] /\ shown' = [shown EXCEPT ![story] = e]
      BY <2>3 DEF e, Enrich!Attach
    <3> QED BY <1>4, <2>3, <3>1, <3>2 DEF Enrich!PassStory
  <2> QED BY <1>4, <2>1, <2>2, <2>3 DEF Enrich!PassStory
<1>5. ASSUME NEW facts \in BOOLEAN, Enrich!Summarize(facts)
      PROVE  /\ stage = "threads" /\ stage' = "story"
             /\ story \in agenda /\ Enrich!Total(story) > 0 /\ UNCHANGED <<time, agenda, counts>>
             /\ \E e : /\ e.at = time /\ e.total = Enrich!Total(story)
                       /\ cache' = [cache EXCEPT ![story] = e] /\ shown' = [shown EXCEPT ![story] = e]
                       /\ asked' = asked \/ asked' = [asked EXCEPT ![story] = e]
  <2> DEFINE e == [at |-> time, total |-> Enrich!Total(story), facts |-> facts]
  <2>1. e.at = time /\ e.total = Enrich!Total(story)
    OBVIOUS
  <2> HIDE DEF e
  <2>2. cache' = [cache EXCEPT ![story] = e] /\ shown' = [shown EXCEPT ![story] = e]
    BY <1>5 DEF Enrich!Summarize, Enrich!Attach, e
  <2>3. /\ stage = "threads" /\ stage' = "story" /\ UNCHANGED <<time, agenda, counts>>
        /\ asked' = asked \/ asked' = [asked EXCEPT ![story] = cache'[story]]
    BY <1>5 DEF Enrich!Summarize
  <2>4. story \in agenda /\ Enrich!Total(story) > 0
    BY <2>3 DEF EnrichWork
  <2>5. story \in DOMAIN cache
    BY <2>4 DEF EnrichTypes
  <2>6. cache'[story] = e
    BY <2>2, <2>5
  <2> QED BY <2>1, <2>2, <2>3, <2>4, <2>6
<1>6. CASE \E facts \in BOOLEAN : Enrich!Summarize(facts)
  BY <1>5, <1>6
<1> QED BY <1>1, <1>2, <1>3, <1>4, <1>6 DEF Enrich!EnrichNext

\* The clock, the agenda, the joins and the translations.
LEMMA EnrichStepJoins ==
  ASSUME Enrich!ConstantsOK, EnrichTypes, EnrichJoins, Enrich!EnrichNext
  PROVE  /\ EnrichJoins' /\ time' \in Nat /\ time <= time' /\ spent' \in Nat /\ left' \in Nat
         /\ agenda' \subseteq Enrich!Stories
<1> USE DEF EnrichTypes, EnrichJoins
<1>1. /\ JoinLimit \in Nat /\ time \in Nat /\ spent \in Nat /\ left \in Nat /\ agenda \subseteq Enrich!Stories
      /\ spent + left <= JoinLimit
  BY DEF Enrich!ConstantsOK
<1> HIDE DEF EnrichTypes
<1>2. ASSUME NEW c \in Channels, NEW some \in BOOLEAN, Enrich!ReadThread(c, some)
      PROVE  /\ UNCHANGED <<time, agenda>> /\ spent' \in Nat /\ left' \in Nat
             /\ spent' + left' <= JoinLimit
  BY <1>1, <1>2 DEF Enrich!ReadThread, Enrich!Refused, Enrich!joinVars
<1>3. CASE \E A \in SUBSET Enrich!Stories : Enrich!Begin(A)
  BY <1>1, <1>3 DEF Enrich!Begin
<1>4. CASE Enrich!Publish
  BY <1>1, <1>4 DEF Enrich!Publish
<1>5. CASE UNCHANGED <<time, agenda, spent, left>>
  BY <1>1, <1>5
<1>6. CASE \E c \in Channels, some \in BOOLEAN : Enrich!ReadThread(c, some)
  BY <1>1, <1>2, <1>6
<1>7. CASE \/ Enrich!PassStory \/ Enrich!ReadStory \/ Enrich!DiscussTimeout \/ Enrich!Discussed
           \/ Enrich!TranslateTimeout
           \/ \E p \in Enrich!Stories \X Channels : Enrich!Comment(p)
           \/ \E down \in SUBSET Channels : Enrich!Count(down)
           \/ \E facts \in BOOLEAN : Enrich!Summarize(facts)
           \/ \E lost \in SUBSET Enrich!Missing : Enrich!Translate(lost)
  BY <1>5, <1>7
     DEF Enrich!Comment, Enrich!Count, Enrich!PassStory, Enrich!ReadStory, Enrich!Summarize,
         Enrich!DiscussTimeout, Enrich!Discussed, Enrich!Translate, Enrich!TranslateTimeout,
         Enrich!discussVars, Enrich!joinVars
<1> QED BY <1>3, <1>4, <1>6, <1>7 DEF Enrich!EnrichNext

\* The texts there are.
LEMMA EnrichTexts ==
  ASSUME Enrich!ConstantsOK, EnrichTypes
  PROVE  /\ Enrich!Texts \subseteq Enrich!Stories \X {"title", "quote"}
         /\ IsFiniteSet(Enrich!Stories \X {"title", "quote"})
<1>1. Enrich!Texts \subseteq Enrich!Stories \X {"title", "quote"}
  BY DEF EnrichTypes, Enrich!Texts, Enrich!Title, Enrich!Quote
<1>2. IsFiniteSet(Enrich!Stories)
  BY FS_Interval DEF Enrich!ConstantsOK, Enrich!Stories
<1>3. IsFiniteSet({"title", "quote"})
  <2>1. {"title", "quote"} = {"title"} \cup {"quote"}
    OBVIOUS
  <2>2. IsFiniteSet({"title"}) /\ IsFiniteSet({"quote"})
    BY FS_Singleton
  <2> QED BY <2>1, <2>2, FS_Union
<1> QED BY <1>1, <1>2, <1>3, FS_Product

LEMMA EnrichStepEnglish ==
  ASSUME Enrich!ConstantsOK, EnrichTypes, Enrich!EnrichNext
  PROVE  english' \subseteq Enrich!Stories \X {"title", "quote"}
<1>1. english \subseteq Enrich!Stories \X {"title", "quote"}
  BY DEF EnrichTypes
<1>2. ASSUME NEW lost, Enrich!Translate(lost) PROVE english' \subseteq english \cup Enrich!Texts
  BY <1>2 DEF Enrich!Translate, Enrich!Missing
<1>3. CASE english' = english
  BY <1>1, <1>3
<1>4. CASE \E lost \in SUBSET Enrich!Missing : Enrich!Translate(lost)
  BY <1>1, <1>2, <1>4, EnrichTexts
<1> QED BY <1>3, <1>4
  DEF Enrich!EnrichNext, Enrich!Comment, Enrich!Begin, Enrich!Count, Enrich!PassStory, Enrich!ReadStory,
      Enrich!ReadThread, Enrich!Summarize, Enrich!DiscussTimeout, Enrich!Discussed,
      Enrich!TranslateTimeout, Enrich!Publish, Enrich!textVars

\* What is kept of the stories, and what the cards show of it.
LEMMA EnrichStepCards ==
  ASSUME Enrich!ConstantsOK, EnrichIInv, Enrich!EnrichNext
  PROVE  EnrichTypes' /\ EnrichAsked' /\ Enrich!CardsFresh'
<1> USE DEF EnrichIInv
<1>1. /\ time \in Nat /\ time' \in Nat /\ time <= time' /\ Ttl \in Nat /\ Ttl > 0
      /\ \A e : EnrichEntry(e) => EnrichEntry(e)'
      /\ EnrichEntry(Enrich!NoEntry)'
  <2>1. time \in Nat /\ time' \in Nat /\ time <= time' /\ Ttl \in Nat /\ Ttl > 0
    BY EnrichStepJoins DEF EnrichTypes, Enrich!ConstantsOK
  <2>2. ASSUME NEW e, EnrichEntry(e) PROVE EnrichEntry(e)'
    BY <2>1, <2>2 DEF EnrichEntry
  <2> QED BY <2>1, <2>2, EnrichNone DEF EnrichEntry
<1>2. /\ spent' \in Nat /\ left' \in Nat /\ agenda' \subseteq Enrich!Stories
      /\ english' \subseteq Enrich!Stories \X {"title", "quote"}
  BY EnrichStepJoins, EnrichStepEnglish
<1>3. \A f \in {cache, shown, asked} :
          /\ f = [s \in Enrich!Stories |-> f[s]]
          /\ \A s \in Enrich!Stories : EnrichEntry(f[s])
  BY DEF EnrichTypes
<1>4. ASSUME UNCHANGED <<cache, asked>>, shown' = shown \/ shown' = [s \in Enrich!Stories |-> Enrich!NoEntry]
      PROVE  EnrichTypes' /\ EnrichAsked'
  <2>1. \A f \in {cache, shown, asked}' :
          /\ f = [s \in Enrich!Stories |-> f[s]]
          /\ \A s \in Enrich!Stories : EnrichEntry(f[s])'
    BY <1>1, <1>3, <1>4
  <2>2. EnrichAsked'
    BY <1>4 DEF EnrichAsked
  <2> QED BY <1>1, <1>2, <2>1, <2>2 DEF EnrichTypes
<1>5. CASE UNCHANGED <<cache, shown, asked, agenda, time>> /\ (counts' = counts \/ stage = "count")
  <2>1. Enrich!CardsFresh'
    <3>1. CASE counts' = counts
      BY <1>5, <3>1, EnrichTotals DEF Enrich!CardsFresh
    <3>2. CASE stage = "count"
      BY <1>5, <3>2 DEF Enrich!CardsFresh, EnrichWork
    <3> QED BY <1>5, <3>1, <3>2
  <2> QED BY <1>4, <1>5, <2>1
<1>6. CASE stage = "idle" /\ UNCHANGED <<cache, shown, asked>>
  BY <1>4, <1>6 DEF Enrich!CardsFresh, EnrichWork
<1>7. CASE UNCHANGED <<cache, asked>> /\ shown' = [s \in Enrich!Stories |-> Enrich!NoEntry]
  BY <1>4, <1>7 DEF Enrich!CardsFresh
<1>8. ASSUME NEW e, story \in agenda, Enrich!Total(story) > 0, UNCHANGED <<time, agenda, counts>>,
             \/ e = cache[story] /\ Enrich!Cached(story) /\ asked' = asked
             \/ /\ e.at = time /\ e.total = Enrich!Total(story)
                /\ asked' = asked \/ asked' = [asked EXCEPT ![story] = e],
             cache' = [cache EXCEPT ![story] = e], shown' = [shown EXCEPT ![story] = e]
      PROVE  EnrichTypes' /\ EnrichAsked' /\ Enrich!CardsFresh'
  <2>1. story \in Enrich!Stories
    BY <1>8 DEF EnrichTypes
  <2>2. EnrichEntry(e)' /\ e.at \in Nat /\ e # Enrich!NoEntry /\ cache[story].at \in Nat
        /\ cache[story].at <= e.at
    <3>1. EnrichEntry(cache[story]) /\ cache[story].at \in Nat /\ cache[story].at <= time
      BY <1>3, <2>1 DEF EnrichEntry
    <3>2. e # Enrich!NoEntry
      BY <1>8, EnrichNone DEF Enrich!Cached
    <3> QED BY <1>1, <1>8, <3>1, <3>2 DEF EnrichEntry
  <2>3. e.total = Enrich!Total(story) /\ time - e.at < Ttl
    BY <1>1, <1>8 DEF Enrich!Cached
  <2>4. /\ \A s \in Enrich!Stories : cache'[s] = IF s = story THEN e ELSE cache[s]
        /\ \A s \in Enrich!Stories : shown'[s] = IF s = story THEN e ELSE shown[s]
        /\ \A s \in Enrich!Stories : asked'[s] = asked[s] \/ (s = story /\ asked'[s] = e)
    BY <1>3, <1>8, <2>1
  <2>5. /\ cache' = [s \in Enrich!Stories |-> cache'[s]]
        /\ shown' = [s \in Enrich!Stories |-> shown'[s]]
        /\ asked' = [s \in Enrich!Stories |-> asked'[s]]
    BY <1>3, <1>8
  <2>6. EnrichTypes'
    BY <1>1, <1>2, <1>3, <2>2, <2>4, <2>5 DEF EnrichTypes
  <2>7. EnrichAsked'
    <3> SUFFICES ASSUME NEW s \in Enrich!Stories, asked'[s] # Enrich!NoEntry
                 PROVE  cache'[s] # Enrich!NoEntry /\ asked'[s].at <= cache'[s].at
      BY DEF EnrichAsked
    <3>1. CASE s # story
      BY <2>4, <3>1 DEF EnrichAsked
    <3>2. CASE s = story
      <4>1. cache'[s] = e
        BY <2>4, <3>2
      <4>2. CASE asked'[s] = e
        BY <2>2, <4>1, <4>2
      <4>3. CASE asked'[s] = asked[s]
        <5>1. asked[s].at <= cache[s].at /\ asked[s].at \in Nat
          BY <1>3, <4>3 DEF EnrichAsked, EnrichEntry
        <5> QED BY <2>2, <3>2, <4>1, <4>3, <5>1
      <4> QED BY <2>4, <4>2, <4>3
    <3> QED BY <3>1, <3>2
  <2>8. Enrich!CardsFresh'
    <3> SUFFICES ASSUME NEW s \in Enrich!Stories, shown'[s] # Enrich!NoEntry
                 PROVE  s \in agenda' /\ shown'[s].total = Enrich!Total(s)' /\ time' - shown'[s].at < Ttl
      BY DEF Enrich!CardsFresh
    <3>1. Enrich!Total(s)' = Enrich!Total(s)
      BY <1>8, EnrichTotals
    <3>2. CASE s # story
      BY <1>8, <2>4, <3>1, <3>2 DEF Enrich!CardsFresh
    <3>3. CASE s = story
      BY <1>8, <2>3, <2>4, <3>1, <3>3
    <3> QED BY <3>2, <3>3
  <2> QED BY <2>6, <2>7, <2>8
<1> QED BY <1>5, <1>6, <1>7, <1>8, <1>4, EnrichChanges

\* The story in work.
LEMMA EnrichStepWork ==
  ASSUME Enrich!ConstantsOK, EnrichIInv, Enrich!EnrichNext
  PROVE  EnrichWork'
<1> USE DEF EnrichIInv
<1>1. stage' \in {"idle", "count"} => \A s \in Enrich!Stories : shown'[s] = Enrich!NoEntry
  BY EnrichChanges DEF EnrichWork
<1>2. ASSUME stage' = "threads" PROVE (story \in agenda /\ ~ Enrich!Cached(story) /\ Enrich!Total(story) > 0)'
  <2>1. UNCHANGED <<time, agenda, counts, story, cache>> /\ (stage = "threads" \/ Enrich!ReadStory)
    BY <1>2
    DEF Enrich!EnrichNext, Enrich!Comment, Enrich!Begin, Enrich!Count, Enrich!PassStory, Enrich!ReadStory,
        Enrich!ReadThread, Enrich!Summarize, Enrich!DiscussTimeout, Enrich!Discussed, Enrich!Translate,
        Enrich!TranslateTimeout, Enrich!Publish, Enrich!discussVars
  <2>2. story \in agenda /\ ~ Enrich!Cached(story) /\ Enrich!Total(story) > 0
    BY <2>1 DEF EnrichWork, Enrich!ReadStory
  <2>3. \A s : Enrich!Total(s)' = Enrich!Total(s)
    BY <2>1, EnrichTotals
  <2> QED BY <2>1, <2>2, <2>3 DEF Enrich!Cached
<1> QED BY <1>1, <1>2 DEF EnrichWork

LEMMA EnrichInitInv ==
  ASSUME Enrich!ConstantsOK, Enrich!EnrichInit
  PROVE  EnrichIInv
<1> USE DEF Enrich!EnrichInit
<1>1. EnrichTypes
  BY EnrichNone DEF EnrichTypes, EnrichEntry, Enrich!ConstantsOK
<1>2. EnrichJoins /\ EnrichWork /\ EnrichAsked /\ Enrich!CardsFresh
  BY DEF EnrichJoins, EnrichWork, EnrichAsked, Enrich!CardsFresh, Enrich!ConstantsOK
<1> QED BY <1>1, <1>2 DEF EnrichIInv

LEMMA EnrichStepInv ==
  ASSUME Enrich!ConstantsOK, EnrichIInv, [Enrich!EnrichNext]_(Enrich!enrichVars)
  PROVE  EnrichIInv'
<1>1. CASE Enrich!EnrichNext
  BY <1>1, EnrichStepJoins, EnrichStepCards, EnrichStepWork DEF EnrichIInv
<1>2. CASE UNCHANGED Enrich!enrichVars
  <2> USE <1>2 DEF EnrichIInv, Enrich!enrichVars, Enrich!discussVars, Enrich!joinVars, Enrich!textVars
  <2>1. \A s : Enrich!Total(s)' = Enrich!Total(s)
    BY EnrichTotals
  <2>2. EnrichTypes' /\ EnrichJoins' /\ EnrichAsked'
    BY DEF EnrichTypes, EnrichEntry, EnrichJoins, EnrichAsked
  <2>3. EnrichWork' /\ Enrich!CardsFresh'
    BY <2>1 DEF EnrichWork, Enrich!CardsFresh, Enrich!Cached
  <2> QED BY <2>2, <2>3
<1> QED BY <1>1, <1>2

\* Telegram is asked to join no more groups in a cycle than it may be, and no card
\* shows a count of another cycle or facts older than their time to live.
THEOREM EnrichmentSafe ==
  ASSUME Enrich!ConstantsOK
  PROVE  Enrich!EnrichSpec => [](Enrich!JoinsBounded /\ Enrich!CardsFresh)
<1>1. Enrich!EnrichInit => EnrichIInv
  BY EnrichInitInv
<1>2. EnrichIInv /\ [Enrich!EnrichNext]_(Enrich!enrichVars) => EnrichIInv'
  BY EnrichStepInv
<1>3. EnrichIInv => Enrich!JoinsBounded /\ Enrich!CardsFresh
  BY DEF EnrichIInv, EnrichJoins, EnrichTypes, Enrich!JoinsBounded, Enrich!ConstantsOK
<1> QED BY <1>1, <1>2, <1>3, PTL DEF Enrich!EnrichSpec

\* The model is asked about the same comments of a story once per time to live.
LEMMA EnrichAsksOnce ==
  ASSUME Enrich!ConstantsOK, EnrichIInv, Enrich!EnrichNext
  PROVE  Enrich!AskedOnce
<1> USE DEF EnrichIInv
<1> SUFFICES ASSUME NEW s \in Enrich!Stories, asked'[s] # asked[s], asked[s] # Enrich!NoEntry,
                    ~ (asked'[s].total # asked[s].total), ~ (cache[s].total \notin {0, asked[s].total})
             PROVE  asked'[s].at - asked[s].at >= Ttl
  BY DEF Enrich!AskedOnce
<1>1. /\ time \in Nat /\ Ttl \in Nat /\ asked[s].at \in Nat /\ cache[s].at \in Nat
      /\ cache[s] # Enrich!NoEntry /\ asked[s].at <= cache[s].at /\ cache[s].total > 0
  BY DEF EnrichTypes, EnrichEntry, EnrichAsked, Enrich!ConstantsOK
<1>2. /\ stage = "threads" /\ story \in agenda
      /\ \E e : e.at = time /\ e.total = Enrich!Total(story) /\ asked' = [asked EXCEPT ![story] = e]
  BY EnrichChanges
<1>3. story \in Enrich!Stories /\ asked = [r \in Enrich!Stories |-> asked[r]]
  BY <1>2 DEF EnrichTypes
<1>4. story = s /\ asked'[s].at = time /\ asked'[s].total = Enrich!Total(s)
  BY <1>2, <1>3
<1>5. ~ Enrich!Cached(s)
  BY <1>2, <1>4 DEF EnrichWork
<1>6. cache[s].total = Enrich!Total(s)
  BY <1>1, <1>4
<1>7. ~ (time - cache[s].at < Ttl)
  BY <1>1, <1>5, <1>6 DEF Enrich!Cached
<1> QED BY <1>1, <1>4, <1>7

\* A text of the report is in English afterwards, or its translation failed.
LEMMA EnrichTranslates ==
  ASSUME Enrich!ConstantsOK, EnrichIInv, Enrich!EnrichNext
  PROVE  Enrich!EnglishOrFailed
<1> SUFFICES ASSUME stage = "translate", stage' = "publish", Enrich!Cardinality(english) <= CacheLimit
             PROVE  Enrich!Texts \subseteq english' \cup failed'
  BY DEF Enrich!EnglishOrFailed
<1>1. Enrich!Cardinality(english) \in Nat /\ CacheLimit \in Nat
  <2>1. IsFiniteSet(english)
    BY EnrichTexts, FS_Subset DEF EnrichIInv, EnrichTypes
  <2>2. Enrich!Cardinality(english) = Cardinality(english)
    BY DEF Enrich!Cardinality, Cardinality
  <2> QED BY <2>1, <2>2, FS_CardinalityType DEF Enrich!ConstantsOK
<1>2. (\E lost \in SUBSET Enrich!Missing : Enrich!Translate(lost)) \/ Enrich!TranslateTimeout
  BY DEF Enrich!EnrichNext, Enrich!Comment, Enrich!Begin, Enrich!Count, Enrich!PassStory, Enrich!ReadStory,
         Enrich!ReadThread, Enrich!Summarize, Enrich!DiscussTimeout, Enrich!Discussed, Enrich!Publish
<1>3. ASSUME NEW lost \in SUBSET Enrich!Missing, Enrich!Translate(lost)
      PROVE  Enrich!Texts \subseteq english' \cup failed'
  BY <1>1, <1>3 DEF Enrich!Translate, Enrich!Missing
<1>4. CASE Enrich!TranslateTimeout
  BY <1>4 DEF Enrich!TranslateTimeout, Enrich!Missing
<1> QED BY <1>2, <1>3, <1>4

\* The same of every step of every behaviour.
THEOREM EnrichmentSteps ==
  ASSUME Enrich!ConstantsOK
  PROVE  Enrich!EnrichSpec => [][Enrich!AskedOnce /\ Enrich!EnglishOrFailed]_(Enrich!enrichVars)
<1>1. Enrich!EnrichInit => EnrichIInv
  BY EnrichInitInv
<1>2. EnrichIInv /\ [Enrich!EnrichNext]_(Enrich!enrichVars) => EnrichIInv'
  BY EnrichStepInv
<1>3. EnrichIInv /\ [Enrich!EnrichNext]_(Enrich!enrichVars)
        => [Enrich!AskedOnce /\ Enrich!EnglishOrFailed]_(Enrich!enrichVars)
  BY EnrichAsksOnce, EnrichTranslates
<1> QED BY <1>1, <1>2, <1>3, PTL DEF Enrich!EnrichSpec

-----------------------------------------------------------------------------
(* The paid calls of the news pulse.  What is spent and reserved passes    *)
(* the cap by the excess of the calls that are over, of a thread each      *)
(* (PaidBudget); what a stage was told is what the cache holds (PaidTold). *)
CONSTANTS Labels, Pairs, BatchSize, Workers, MaxUsd, ReserveLabel, ReservePair, Costs,
          MaxRuns
VARIABLES runs, got, jobs, budget, before

Paid == INSTANCE PulseClient

\* What one thread may spend beyond its reserve.
Excess == Paid!Larger(0, Paid!MostCost - Paid!LeastReserve)

JobRecords == [items : SUBSET Paid!AllItems, at : {"queued", "out", "ok", "no"},
               reply : [Paid!AllItems -> {"none", "label", "same", "unclear"}]]

PaidTypes ==
    /\ stage \in 1 .. 4
    /\ IsFiniteSet(DOMAIN jobs) /\ jobs \in [DOMAIN jobs -> JobRecords]
    /\ DOMAIN jobs \subseteq Nat
    /\ budget \in [max : Nat, spent : Nat, reserved : Nat, stopped : BOOLEAN]
    /\ before \in Nat

\* The reserves are those of the calls under way, and what is spent and reserved
\* passes the cap by the excess of the calls that are over, of a thread each.
PaidBudget ==
    LET under == Cardinality(Paid!Out)
    IN  /\ under <= Workers
        /\ budget.reserved = under * Paid!Estimate(stage)
        /\ budget.spent + budget.reserved <= budget.max + (Workers - under) * Excess
        /\ budget.max = 0 => under = 0 /\ budget.spent = 0

\* The second client has what the first one left.
PaidBefore ==
    /\ pc # "wait" => Paid!Out = {}
    /\ stage <= 2 => before = 0 /\ budget.max = MaxUsd
    /\ stage > 2 => /\ budget.max = Paid!Larger(0, MaxUsd - before)
                    /\ before <= MaxUsd + Workers * Excess

\* What a stage was told is what the cache holds; the calls of it are about
\* different items, which the cache does not hold.
PaidTold ==
    /\ \A i \in Paid!AllItems : i[1] < stage => got[i] = Paid!Replayed(i)
    /\ pc = "done" => \A i \in Paid!AllItems : got[i] = Paid!Replayed(i)
    /\ pc \in {"wait", "store"} => \A i \in Paid!Items(stage) : got[i] = cache[i]
    /\ \A n \in DOMAIN jobs :
          /\ jobs[n].items \subseteq Paid!Items(stage)
          /\ jobs[n].at # "no" => \A i \in jobs[n].items : cache[i] = "none"
    /\ \A m, n \in DOMAIN jobs : m # n => jobs[m].items \cap jobs[n].items = {}

PaidIInv == PaidTypes /\ PaidBudget /\ PaidBefore /\ PaidTold

-----------------------------------------------------------------------------
LEMMA OneMore ==
  ASSUME NEW a \in Int, NEW b \in Int
  PROVE  (a + 1) * b = a * b + b
  OBVIOUS

\* What a call costs passes its reserve by the excess at most.
LEMMA PaidCosts ==
  ASSUME Paid!ConstantsOK
  PROVE  /\ Excess \in Nat
         /\ \A s \in Int : Paid!Estimate(s) \in Nat \ {0}
         /\ \A s \in Int, c \in Costs : c \in Nat /\ c <= Paid!Estimate(s) + Excess
<1>1. Paid!MostCost \in Costs /\ \A c \in Costs : c <= Paid!MostCost
  BY DEF Paid!ConstantsOK, Paid!MostCost
<1>2. Paid!MostCost \in Nat /\ Costs \subseteq Nat /\ ReserveLabel \in Nat \ {0} /\ ReservePair \in Nat \ {0}
  BY <1>1 DEF Paid!ConstantsOK
<1> HIDE DEF Paid!MostCost
<1>3. Excess \in Nat
  BY <1>2 DEF Excess, Paid!Larger, Paid!LeastReserve
<1>4. ASSUME NEW s \in Int
      PROVE  Paid!Estimate(s) \in Nat \ {0} /\ Paid!Estimate(s) >= Paid!LeastReserve
  BY <1>2 DEF Paid!Estimate, Paid!LeastReserve
<1>5. ASSUME NEW s \in Int, NEW c \in Costs
      PROVE  c \in Nat /\ c <= Paid!Estimate(s) + Excess
  <2>1. c \in Nat /\ c <= Paid!MostCost
    BY <1>1, <1>2
  <2>2. Excess >= Paid!MostCost - Paid!LeastReserve
    BY <1>2 DEF Excess, Paid!Larger, Paid!LeastReserve
  <2>3. Paid!LeastReserve \in Nat
    BY <1>2 DEF Paid!LeastReserve
  <2> QED BY <1>2, <1>3, <1>4, <2>1, <2>2, <2>3
<1> QED BY <1>3, <1>4, <1>5

\* The items of different stages are different.
LEMMA PaidItems ==
  /\ \A s, i : i \in Paid!Items(s) => i[1] = s
  /\ \A i \in Paid!AllItems : i[1] \in 1 .. 4 /\ i \in Paid!Items(i[1])
  /\ \A s \in 1 .. 4 : Paid!Items(s) \subseteq Paid!AllItems
  BY DEF Paid!Items, Paid!AllItems, Paid!Stages

\* A call goes out; a call is over.
LEMMA OutGrows ==
  ASSUME PaidTypes, NEW n \in DOMAIN jobs, jobs[n].at = "queued",
         jobs' = [jobs EXCEPT ![n].at = "out"]
  PROVE  Cardinality(Paid!Out)' = Cardinality(Paid!Out) + 1
<1>1. Paid!Out' = Paid!Out \cup {n} /\ n \notin Paid!Out
  BY DEF Paid!Out, PaidTypes, JobRecords
<1>2. IsFiniteSet(Paid!Out)
  BY FS_Subset DEF Paid!Out, PaidTypes
<1> QED BY <1>1, <1>2, FS_AddElement

LEMMA OutShrinks ==
  ASSUME PaidTypes, NEW n \in DOMAIN jobs, jobs[n].at = "out",
         DOMAIN jobs' = DOMAIN jobs, jobs'[n].at # "out",
         \A m \in DOMAIN jobs : m # n => jobs'[m] = jobs[m]
  PROVE  /\ Cardinality(Paid!Out)' = Cardinality(Paid!Out) - 1
         /\ Cardinality(Paid!Out) \in Nat \ {0}
<1>1. Paid!Out' = Paid!Out \ {n} /\ n \in Paid!Out
  BY DEF Paid!Out, PaidTypes
<1>2. IsFiniteSet(Paid!Out)
  BY FS_Subset DEF Paid!Out, PaidTypes
<1>3. Cardinality(Paid!Out \ {n}) = Cardinality(Paid!Out) - 1
  BY <1>1, <1>2, FS_RemoveElement
<1>4. Cardinality(Paid!Out) \in Nat /\ Cardinality(Paid!Out \ {n}) \in Nat
  BY <1>2, FS_CardinalityType, FS_Subset
<1> QED BY <1>1, <1>3, <1>4

LEMMA OutIsCounted ==
  ASSUME PaidTypes
  PROVE  /\ Cardinality(Paid!Out) \in Nat
         /\ Paid!Cardinality(Paid!Out) = Cardinality(Paid!Out)
         /\ Paid!Out = {} <=> Cardinality(Paid!Out) = 0
<1>1. IsFiniteSet(Paid!Out)
  BY FS_Subset DEF Paid!Out, PaidTypes
<1>2. Paid!Cardinality(Paid!Out) = Cardinality(Paid!Out)
  BY DEF Paid!Cardinality, Cardinality
<1> QED BY <1>1, <1>2, FS_CardinalityType, FS_EmptySet

-----------------------------------------------------------------------------
\* A call asks for its reserve.
LEMMA SendKeepsBudget ==
  ASSUME Paid!ConstantsOK, PaidTypes, PaidBudget, PaidBefore, NEW n \in DOMAIN jobs, Paid!Send(n)
  PROVE  (PaidTypes /\ PaidBudget /\ PaidBefore)'
<1> DEFINE E == Paid!Estimate(stage)
           u == Cardinality(Paid!Out)
           J == JobRecords
<1>1. /\ E \in Nat \ {0} /\ Excess \in Nat /\ u \in Nat /\ Workers \in Nat /\ stage \in Int
      /\ u < Workers /\ stage' = stage /\ Excess' = Excess /\ E' = E
  BY PaidCosts, OutIsCounted DEF PaidTypes, Paid!ConstantsOK, Paid!Send, Paid!Estimate, Excess,
     Paid!MostCost, Paid!LeastReserve, Paid!IsPair
<1>2. /\ budget.max \in Nat /\ budget.spent \in Nat /\ budget.reserved \in Nat
      /\ budget \in [max : Nat, spent : Nat, reserved : Nat, stopped : BOOLEAN]
  BY DEF PaidTypes
<1>3. jobs' \in [DOMAIN jobs -> J] /\ DOMAIN jobs' = DOMAIN jobs
  <2>1. PICK to \in {"out", "no"} : jobs' = [jobs EXCEPT ![n].at = to]
    BY DEF Paid!Send
  <2>2. jobs[n] \in J /\ jobs \in [DOMAIN jobs -> J]
    BY DEF PaidTypes
  <2>3. [jobs[n] EXCEPT !.at = to] \in J
    BY <2>2 DEF JobRecords
  <2> HIDE DEF J
  <2> QED BY <2>1, <2>2, <2>3
<1> DEFINE B == budget.spent + budget.reserved >= budget.max
<1>4. CASE ~ Paid!Admits(budget, E)
  <2>1. budget' = [budget EXCEPT !.stopped = @ \/ B]
    BY <1>4 DEF Paid!Send, Paid!Reserve
  <2>2. B \in BOOLEAN
    OBVIOUS
  <2> HIDE DEF B
  <2>3. /\ budget' \in [max : Nat, spent : Nat, reserved : Nat, stopped : BOOLEAN]
        /\ budget'.max = budget.max /\ budget'.spent = budget.spent /\ budget'.reserved = budget.reserved
    BY <1>2, <2>1, <2>2
  <2>4. jobs' = [jobs EXCEPT ![n].at = "no"] /\ jobs[n].at = "queued"
    BY <1>4 DEF Paid!Send
  <2>5. Paid!Out' = Paid!Out
    BY <2>4 DEF Paid!Out, PaidTypes, JobRecords
  <2>6. PaidTypes'
    BY <1>1, <1>3, <2>3 DEF PaidTypes, Paid!Send
  <2>7. PaidBudget'
    BY <1>1, <2>3, <2>5 DEF PaidBudget
  <2>8. PaidBefore'
    BY <1>1, <2>3, <2>5 DEF PaidBefore, Paid!Send
  <2> QED BY <2>6, <2>7, <2>8
<1>5. CASE Paid!Admits(budget, E)
  <2>1. budget' = [budget EXCEPT !.reserved = @ + E]
    BY <1>5 DEF Paid!Send, Paid!Reserve
  <2>2. budget.spent + budget.reserved + E <= budget.max
    BY <1>5 DEF Paid!Admits
  <2>3. jobs' = [jobs EXCEPT ![n].at = "out"] /\ jobs[n].at = "queued"
    BY <1>5 DEF Paid!Send
  <2> HIDE DEF E
  <2>4. /\ budget' \in [max : Nat, spent : Nat, reserved : Nat, stopped : BOOLEAN]
        /\ budget'.max = budget.max /\ budget'.spent = budget.spent
        /\ budget'.reserved = budget.reserved + E
    BY <1>1, <1>2, <2>1
  <2>5. Cardinality(Paid!Out)' = u + 1
    BY <2>3, OutGrows
  <2>6. PaidTypes'
    BY <1>1, <1>3, <2>4 DEF PaidTypes, Paid!Send
  <2>7. budget.reserved = u * E
    BY DEF PaidBudget, E
  <2>8. (u + 1) * E = u * E + E
    BY <1>1, OneMore
  <2>9. (Workers - (u + 1)) * Excess \in Nat
    <3> DEFINE k == Workers - (u + 1)
    <3>1. k \in Nat
      BY <1>1
    <3> HIDE DEF k, u
    <3>2. k * Excess \in Nat
      BY <3>1, <1>1
    <3> QED BY <3>2 DEF k
  <2>10. PaidBudget'
    <3> HIDE DEF u
    <3> DEFINE w == (Workers - (u + 1)) * Excess
               x == (u + 1) * E
    <3>1. x = budget'.reserved
      BY <2>4, <2>7, <2>8
    <3>2. w \in Nat /\ budget'.spent + x <= budget'.max + w
      BY <1>1, <1>2, <2>2, <2>4, <2>7, <2>8, <2>9
    <3>3. budget'.max > 0
      BY <1>1, <1>2, <2>2, <2>4
    <3>4. u + 1 <= Workers
      BY <1>1
    <3> QED BY <1>1, <2>5, <3>1, <3>2, <3>3, <3>4 DEF PaidBudget, E
  <2>11. PaidBefore'
    BY <1>1, <2>4 DEF PaidBefore, Paid!Send
  <2> QED BY <2>6, <2>10, <2>11
<1> QED BY <1>4, <1>5

\* A call is over and costs at most the excess more than its reserve.
LEMMA EndKeepsBudget ==
  ASSUME Paid!ConstantsOK, PaidTypes, PaidBudget, PaidBefore, NEW n \in DOMAIN jobs,
         jobs[n].at = "out", pc = "wait", NEW cost \in Nat,
         cost <= Paid!Estimate(stage) + Excess,
         budget' = Paid!Settle(budget, Paid!Estimate(stage), cost),
         jobs' \in [DOMAIN jobs -> JobRecords], jobs'[n].at # "out",
         \A m \in DOMAIN jobs : m # n => jobs'[m] = jobs[m],
         UNCHANGED <<pc, stage, before>>
  PROVE  (PaidTypes /\ PaidBudget /\ PaidBefore)'
<1> DEFINE E == Paid!Estimate(stage)
           u == Cardinality(Paid!Out)
           B == budget.spent + cost >= budget.max
<1>1. /\ E \in Nat \ {0} /\ Excess \in Nat /\ u \in Nat \ {0} /\ Workers \in Nat /\ stage \in Int
      /\ u <= Workers /\ stage' = stage /\ Excess' = Excess /\ E' = E
  BY PaidCosts, OutShrinks DEF PaidTypes, PaidBudget, Paid!ConstantsOK, Paid!Estimate, Excess,
     Paid!MostCost, Paid!LeastReserve, Paid!IsPair
<1>2. /\ budget.max \in Nat /\ budget.spent \in Nat /\ budget.reserved \in Nat
      /\ budget \in [max : Nat, spent : Nat, reserved : Nat, stopped : BOOLEAN]
  BY DEF PaidTypes
<1>3. Cardinality(Paid!Out)' = u - 1
  BY OutShrinks
<1>4. budget.reserved = u * E /\ ((u - 1) + 1) * E = (u - 1) * E + E
  <2>1. u - 1 \in Int
    BY <1>1
  <2> QED BY <1>1, <2>1, OneMore DEF PaidBudget
<1>5. (u - 1) * E = budget.reserved - E /\ (u - 1) * E \in Nat
  <2> DEFINE v == u - 1
  <2>1. v \in Nat /\ v + 1 = u
    BY <1>1
  <2> HIDE DEF E, u, v
  <2>2. v * E \in Nat /\ u * E = v * E + E
    BY <1>1, <2>1, OneMore
  <2> DEFINE x == v * E
             y == u * E
  <2>3. x \in Nat /\ y = x + E /\ budget.reserved = y
    BY <1>4, <2>2
  <2>4. x = budget.reserved - E
    <3> HIDE DEF x, y
    <3> QED BY <1>1, <2>3
  <2> QED BY <2>3, <2>4 DEF v
<1>6. /\ budget' = [budget EXCEPT !.reserved = Paid!Larger(0, @ - E), !.spent = @ + cost,
                                  !.stopped = @ \/ B]
  BY DEF Paid!Settle
<1>7. /\ budget' \in [max : Nat, spent : Nat, reserved : Nat, stopped : BOOLEAN]
      /\ budget'.max = budget.max /\ budget'.spent = budget.spent + cost
      /\ budget'.reserved = budget.reserved - E
  <2>1. B \in BOOLEAN /\ budget.spent + cost \in Nat
    BY <1>2
  <2>2. Paid!Larger(0, budget.reserved - E) = budget.reserved - E /\ budget.reserved - E \in Nat
    <3> HIDE DEF E, u
    <3> DEFINE x == (u - 1) * E
    <3>1. x = budget.reserved - E /\ x \in Nat
      BY <1>5
    <3> HIDE DEF x
    <3>2. x >= 0 /\ (0 > x <=> FALSE)
      BY <3>1
    <3> QED BY <3>1, <3>2 DEF Paid!Larger
  <2> HIDE DEF B, E
  <2>3. budget' = [budget EXCEPT !.reserved = budget.reserved - E, !.spent = budget.spent + cost,
                                 !.stopped = @ \/ B]
    BY <1>6, <2>2
  <2> QED BY <1>2, <2>1, <2>2, <2>3
<1>8. PaidTypes'
  BY <1>1, <1>7 DEF PaidTypes
<1>9. PaidBudget'
  <2>1. (Workers - u + 1) * Excess = (Workers - u) * Excess + Excess
    <3>1. Workers - u \in Int
      BY <1>1
    <3> QED BY <1>1, <3>1, OneMore
  <2>2. Workers - (u - 1) = Workers - u + 1
    BY <1>1
  <2> DEFINE w == (Workers - u) * Excess
             x == (u - 1) * E
  <2>3. w \in Int /\ budget.spent + budget.reserved <= budget.max + w
    <3>1. w \in Int
      BY <1>1
    <3> QED BY <3>1 DEF PaidBudget
  <2>4. x = budget.reserved - E
    BY <1>5
  <2>5. (Workers - (u - 1)) * Excess = w + Excess
    BY <2>1, <2>2
  <2>6. cost <= E + Excess
    OBVIOUS
  <2>7. budget.max # 0
    BY <1>1 DEF PaidBudget
  <2> HIDE DEF w, x, E
  <2>8. budget'.spent + budget'.reserved <= budget'.max + (w + Excess)
    BY <1>1, <1>2, <1>7, <2>3, <2>6
  <2>9. budget'.reserved = x
    BY <1>7, <2>4
  <2>10. u - 1 <= Workers
    BY <1>1
  <2> HIDE DEF u
  <2> QED BY <1>1, <1>3, <1>7, <2>5, <2>7, <2>8, <2>9, <2>10 DEF PaidBudget, E, x
<1>10. PaidBefore'
  BY <1>1, <1>7 DEF PaidBefore
<1> QED BY <1>8, <1>9, <1>10

\* A client that begins with nothing under way.
LEMMA FreshBudget ==
  ASSUME Paid!ConstantsOK, NEW max \in Nat, IsFiniteSet(DOMAIN jobs'),
         \A n \in DOMAIN jobs' : jobs'[n].at # "out",
         budget' = Paid!NewBudget(max), stage' \in 1 .. 4
  PROVE  /\ budget' \in [max : Nat, spent : Nat, reserved : Nat, stopped : BOOLEAN]
         /\ PaidBudget' /\ Paid!Out' = {}
<1>1. Paid!Out' = {} /\ Cardinality(Paid!Out)' = 0
  BY FS_EmptySet DEF Paid!Out
<1>2. /\ Excess \in Nat /\ Excess' = Excess /\ Workers \in Nat
      /\ Paid!Estimate(stage)' \in Nat
  BY PaidCosts DEF Paid!ConstantsOK, Excess, Paid!MostCost, Paid!LeastReserve, Paid!Estimate
<1>3. Workers * Excess \in Nat /\ Workers - 0 = Workers /\ 0 * Paid!Estimate(stage)' = 0
  BY <1>2
<1>4. budget' = [max |-> max, spent |-> 0, reserved |-> 0, stopped |-> FALSE]
  BY DEF Paid!NewBudget
<1> DEFINE w == Workers * Excess
<1>5. PaidBudget'
  <2>1. w \in Nat /\ (Workers - 0) * Excess = w
    BY <1>3
  <2> HIDE DEF w
  <2>2. 0 + 0 <= max + w
    BY <2>1
  <2> QED BY <1>1, <1>2, <1>3, <1>4, <2>1, <2>2 DEF PaidBudget
<1> QED BY <1>1, <1>4, <1>5

\* The calls of a stage: batches of what the cache does not hold.
LEMMA LookUpTypes ==
  ASSUME Paid!ConstantsOK, stage \in 1 .. 4, Paid!LookUp
  PROVE  /\ IsFiniteSet(DOMAIN jobs') /\ DOMAIN jobs' \subseteq Nat
         /\ jobs' \in [DOMAIN jobs' -> JobRecords]
         /\ \A n \in DOMAIN jobs' : jobs'[n].at = "queued" /\ jobs'[n].items = Paid!Batch(stage, n)
<1>1. IsFiniteSet(Paid!Misses(stage)) /\ Paid!Misses(stage) \subseteq Paid!AllItems
  <2> DEFINE k == IF Paid!IsPair(stage) THEN Pairs ELSE Labels
  <2>1. k \in Nat
    BY DEF Paid!ConstantsOK
  <2>2. IsFiniteSet({stage}) /\ IsFiniteSet(1 .. k)
    <3> HIDE DEF k
    <3>1. k \in Int /\ 1 \in Int
      BY <2>1
    <3>2. IsFiniteSet(1 .. k)
      BY <3>1, FS_Interval
    <3> QED BY <3>2, FS_Singleton
  <2>3. IsFiniteSet({stage} \X (1 .. k))
    BY <2>2, FS_Product
  <2>4. Paid!Misses(stage) \subseteq {stage} \X (1 .. k)
    BY DEF Paid!Misses, Paid!Items
  <2> QED BY <2>3, <2>4, FS_Subset, PaidItems DEF Paid!Misses
<1>2. Paid!Batches(stage) \in Int
  <2>1. Paid!Cardinality(Paid!Misses(stage)) = Cardinality(Paid!Misses(stage))
    BY DEF Paid!Cardinality, Cardinality
  <2>2. Cardinality(Paid!Misses(stage)) \in Nat
    BY <1>1, FS_CardinalityType
  <2> QED BY <2>1, <2>2 DEF Paid!Batches, Paid!ConstantsOK
<1>3. jobs' = [n \in 1 .. Paid!Batches(stage) |->
                 [items |-> Paid!Batch(stage, n), at |-> "queued", reply |-> Paid!Nothing]]
  BY DEF Paid!LookUp
<1>4. IsFiniteSet(1 .. Paid!Batches(stage)) /\ DOMAIN jobs' = 1 .. Paid!Batches(stage)
  BY <1>2, <1>3, FS_Interval
<1>5. ASSUME NEW n \in DOMAIN jobs'
      PROVE  /\ jobs'[n] \in JobRecords
             /\ jobs'[n].at = "queued" /\ jobs'[n].items = Paid!Batch(stage, n)
  <2>1. Paid!Batch(stage, n) \in SUBSET Paid!AllItems
    BY <1>1 DEF Paid!Batch
  <2>2. Paid!Nothing \in [Paid!AllItems -> {"none", "label", "same", "unclear"}]
    BY DEF Paid!Nothing, Paid!None
  <2> QED BY <1>3, <2>1, <2>2 DEF JobRecords
<1> QED BY <1>2, <1>3, <1>4, <1>5

\* A change of one call that leaves the others.
LEMMA JobChange ==
  ASSUME jobs \in [DOMAIN jobs -> JobRecords], NEW n \in DOMAIN jobs,
         NEW to \in {"ok", "no"}, NEW told \in [Paid!AllItems -> {"none", "label", "same", "unclear"}],
         jobs' = [jobs EXCEPT ![n].at = to, ![n].reply = told]
  PROVE  /\ jobs' \in [DOMAIN jobs -> JobRecords]
         /\ jobs'[n].at = to /\ jobs'[n].items = jobs[n].items
         /\ \A m \in DOMAIN jobs : m # n => jobs'[m] = jobs[m]
<1>1. jobs[n] \in JobRecords
  OBVIOUS
<1>2. /\ [[jobs[n] EXCEPT !.at = to] EXCEPT !.reply = told] \in JobRecords
      /\ [[jobs[n] EXCEPT !.at = to] EXCEPT !.reply = told].at = to
      /\ [[jobs[n] EXCEPT !.at = to] EXCEPT !.reply = told].items = jobs[n].items
  BY <1>1 DEF JobRecords
<1> DEFINE J == JobRecords
           r == [[jobs[n] EXCEPT !.at = to] EXCEPT !.reply = told]
<1>3. jobs' = [jobs EXCEPT ![n] = r]
  OBVIOUS
<1>4. jobs \in [DOMAIN jobs -> J] /\ r \in J
  BY <1>2
<1> HIDE DEF J, r
<1>5. jobs' \in [DOMAIN jobs -> J] /\ jobs'[n] = r
  BY <1>3, <1>4
<1> QED BY <1>2, <1>3, <1>5 DEF J, r

\* The answer of a call, read or not.
LEMMA ReplyChange ==
  ASSUME PaidTypes, NEW n \in DOMAIN jobs, Paid!Reply(n)
  PROVE  \E to \in {"ok", "no"}, told \in [Paid!AllItems -> {"none", "label", "same", "unclear"}] :
            jobs' = [jobs EXCEPT ![n].at = to, ![n].reply = told]
<1>1. jobs[n].reply \in [Paid!AllItems -> {"none", "label", "same", "unclear"}]
  BY DEF PaidTypes, JobRecords
<1>2. ASSUME NEW told PROVE Paid!Answered(stage, told) \in [Paid!AllItems -> {"none", "label", "same", "unclear"}]
  BY DEF Paid!Answered, Paid!None
<1>3. PICK told \in SUBSET jobs[n].items, readable \in BOOLEAN :
         jobs' = [jobs EXCEPT ![n].at = IF readable THEN "ok" ELSE "no",
                              ![n].reply = IF readable THEN Paid!Answered(stage, told) ELSE @]
  BY DEF Paid!Reply
<1>4. CASE readable = TRUE
  <2>1. jobs' = [jobs EXCEPT ![n].at = "ok", ![n].reply = Paid!Answered(stage, told)]
    BY <1>3, <1>4
  <2> QED BY <1>2, <2>1
<1>5. CASE readable = FALSE
  <2>1. jobs' = [jobs EXCEPT ![n].at = "no", ![n].reply = @]
    BY <1>3, <1>5
  <2>2. jobs' = [jobs EXCEPT ![n].at = "no", ![n].reply = jobs[n].reply]
    BY <2>1
  <2> QED BY <1>1, <2>2
<1> QED BY <1>3, <1>4, <1>5

\* A call marked as failed or stored.
LEMMA MarkChange ==
  ASSUME PaidTypes, NEW n \in DOMAIN jobs, jobs' = [jobs EXCEPT ![n].at = "no"]
  PROVE  /\ jobs' \in [DOMAIN jobs -> JobRecords]
         /\ jobs'[n].at = "no" /\ jobs'[n].items = jobs[n].items
         /\ \A m \in DOMAIN jobs : m # n => jobs'[m] = jobs[m]
<1>1. jobs[n] \in JobRecords
  BY DEF PaidTypes
<1>2. [jobs[n] EXCEPT !.at = "no"] \in JobRecords
  BY <1>1 DEF JobRecords
<1> DEFINE J == JobRecords
           r == [jobs[n] EXCEPT !.at = "no"]
<1>3. r \in J /\ r.at = "no" /\ r.items = jobs[n].items
  BY <1>1, <1>2 DEF JobRecords
<1>4. jobs' = [jobs EXCEPT ![n] = r] /\ jobs \in [DOMAIN jobs -> J]
  BY DEF PaidTypes
<1> HIDE DEF J, r
<1> QED BY <1>3, <1>4 DEF J

-----------------------------------------------------------------------------
LEMMA PaidStepBudget ==
  ASSUME Paid!ConstantsOK, PaidTypes, PaidBudget, PaidBefore, Paid!PulseNext
  PROVE  (PaidTypes /\ PaidBudget /\ PaidBefore)'
<1>0. /\ MaxUsd \in Nat /\ Workers \in Nat /\ Excess \in Nat /\ Excess' = Excess
      /\ Workers * Excess \in Nat
  BY PaidCosts DEF Paid!ConstantsOK, Excess, Paid!MostCost, Paid!LeastReserve
<1>1. ASSUME Paid!Begin \/ Paid!Die
      PROVE  (PaidTypes /\ PaidBudget /\ PaidBefore)'
  <2>1. budget' = Paid!NewBudget(MaxUsd) /\ before' = 0 /\ jobs' = <<>> /\ stage' = 1
    BY <1>1 DEF Paid!Begin, Paid!Die
  <2>2. DOMAIN jobs' = {} /\ jobs' \in [{} -> JobRecords]
    BY <2>1
  <2>3. budget'.max = MaxUsd
    BY <2>1 DEF Paid!NewBudget
  <2>4. /\ budget' \in [max : Nat, spent : Nat, reserved : Nat, stopped : BOOLEAN]
        /\ PaidBudget' /\ Paid!Out' = {}
    BY <1>0, <2>1, <2>2, FreshBudget, FS_EmptySet
  <2>5. PaidTypes'
    BY <2>1, <2>2, <2>4, FS_EmptySet DEF PaidTypes
  <2>6. PaidBefore'
    BY <2>1, <2>3, <2>4 DEF PaidBefore
  <2> QED BY <2>4, <2>5, <2>6
<1>2. ASSUME Paid!LookUp
      PROVE  (PaidTypes /\ PaidBudget /\ PaidBefore)'
  <2>1. /\ IsFiniteSet(DOMAIN jobs') /\ DOMAIN jobs' \subseteq Nat
        /\ jobs' \in [DOMAIN jobs' -> JobRecords]
        /\ \A n \in DOMAIN jobs' : jobs'[n].at = "queued"
    BY <1>2, LookUpTypes DEF PaidTypes
  <2>2. UNCHANGED <<stage, budget, before>> /\ pc = "ask" /\ pc' = "wait"
    BY <1>2 DEF Paid!LookUp
  <2>3. PaidTypes'
    BY <2>1, <2>2 DEF PaidTypes
  <2>4. Paid!Out = {} /\ Paid!Out' = {}
    BY <2>1, <2>2 DEF PaidBefore, Paid!Out
  <2>5. Cardinality(Paid!Out)' = Cardinality(Paid!Out)
    BY <2>4
  <2>6. Paid!Estimate(stage)' = Paid!Estimate(stage)
    BY <2>2 DEF Paid!Estimate, Paid!IsPair
  <2>7. PaidBudget'
    BY <1>0, <2>2, <2>5, <2>6 DEF PaidBudget
  <2> QED BY <1>0, <2>2, <2>3, <2>4, <2>7 DEF PaidBefore
<1>3. ASSUME NEW n \in DOMAIN jobs, Paid!Send(n)
      PROVE  (PaidTypes /\ PaidBudget /\ PaidBefore)'
  BY <1>3, SendKeepsBudget
<1>4. ASSUME NEW n \in DOMAIN jobs, Paid!Reply(n)
      PROVE  (PaidTypes /\ PaidBudget /\ PaidBefore)'
  <2>1. PICK to \in {"ok", "no"}, told \in [Paid!AllItems -> {"none", "label", "same", "unclear"}] :
           jobs' = [jobs EXCEPT ![n].at = to, ![n].reply = told]
    BY <1>4, ReplyChange
  <2>2. PICK cost \in Costs : budget' = Paid!Settle(budget, Paid!Estimate(stage), cost)
    BY <1>4 DEF Paid!Reply
  <2>3. cost \in Nat /\ cost <= Paid!Estimate(stage) + Excess
    <3>1. stage \in Int
      BY DEF PaidTypes
    <3> QED BY <3>1, PaidCosts
  <2>4. /\ jobs' \in [DOMAIN jobs -> JobRecords] /\ jobs'[n].at # "out"
        /\ \A m \in DOMAIN jobs : m # n => jobs'[m] = jobs[m]
    BY <2>1, JobChange DEF PaidTypes
  <2>5. /\ pc = "wait" /\ jobs[n].at = "out" /\ UNCHANGED <<pc, stage, before>>
    BY <1>4 DEF Paid!Reply
  <2> QED BY <2>2, <2>3, <2>4, <2>5, EndKeepsBudget
<1>5. ASSUME NEW n \in DOMAIN jobs, Paid!Fail(n)
      PROVE  (PaidTypes /\ PaidBudget /\ PaidBefore)'
  <2>1. 0 <= Paid!Estimate(stage) + Excess
    <3>1. stage \in Int
      BY DEF PaidTypes
    <3>2. Paid!Estimate(stage) \in Nat
      BY <3>1, PaidCosts
    <3> QED BY <1>0, <3>2
  <2>2. /\ jobs' \in [DOMAIN jobs -> JobRecords] /\ jobs'[n].at # "out"
        /\ \A m \in DOMAIN jobs : m # n => jobs'[m] = jobs[m]
    BY <1>5, MarkChange DEF Paid!Fail
  <2>3. /\ pc = "wait" /\ jobs[n].at = "out" /\ UNCHANGED <<pc, stage, before>>
        /\ budget' = Paid!Settle(budget, Paid!Estimate(stage), 0)
    BY <1>5 DEF Paid!Fail
  <2> QED BY <2>1, <2>2, <2>3, EndKeepsBudget
<1>6. ASSUME Paid!Gathered
      PROVE  (PaidTypes /\ PaidBudget /\ PaidBefore)'
  <2>1. Paid!Out = {} /\ UNCHANGED <<stage, jobs, budget, before>>
    BY <1>6 DEF Paid!Gathered, Paid!Out
  <2>2. Paid!Out' = Paid!Out /\ Paid!Estimate(stage)' = Paid!Estimate(stage)
    BY <2>1 DEF Paid!Out, Paid!Estimate, Paid!IsPair
  <2> QED BY <1>0, <2>1, <2>2 DEF PaidTypes, PaidBudget, PaidBefore
<1>7. ASSUME NEW n \in DOMAIN jobs, Paid!Store(n)
      PROVE  (PaidTypes /\ PaidBudget /\ PaidBefore)'
  <2>1. /\ jobs' \in [DOMAIN jobs -> JobRecords] /\ jobs'[n].at = "no"
        /\ \A m \in DOMAIN jobs : m # n => jobs'[m] = jobs[m]
    BY <1>7, MarkChange DEF Paid!Store
  <2>2. pc = "store" /\ jobs[n].at = "ok" /\ UNCHANGED <<pc, stage, budget, before>>
    BY <1>7 DEF Paid!Store
  <2>3. DOMAIN jobs' = DOMAIN jobs
    BY <2>1
  <2>4. Paid!Out' = Paid!Out
    BY <2>1, <2>2, <2>3 DEF Paid!Out
  <2>5. Paid!Estimate(stage)' = Paid!Estimate(stage)
    BY <2>2 DEF Paid!Estimate, Paid!IsPair
  <2>6. PaidTypes'
    BY <2>1, <2>2, <2>3 DEF PaidTypes
  <2> QED BY <1>0, <2>2, <2>4, <2>5, <2>6 DEF PaidBudget, PaidBefore
<1>8. ASSUME Paid!NextStage
      PROVE  (PaidTypes /\ PaidBudget /\ PaidBefore)'
  <2>1. /\ jobs' = <<>> /\ DOMAIN jobs' = {} /\ jobs' \in [{} -> JobRecords]
        /\ IsFiniteSet(DOMAIN jobs') /\ Paid!Out' = {} /\ Cardinality(Paid!Out)' = 0
    <3>1. jobs' = <<>>
      BY <1>8 DEF Paid!NextStage
    <3>2. DOMAIN jobs' = {} /\ Paid!Out' = {}
      BY <3>1 DEF Paid!Out
    <3> QED BY <3>1, <3>2, FS_EmptySet
  <2>2. Paid!Out = {} /\ Cardinality(Paid!Out) = 0
    <3>1. Paid!Out = {}
      BY <1>8 DEF Paid!NextStage, PaidBefore
    <3> QED BY <3>1, OutIsCounted
  <2>3. stage \in 1 .. 4 /\ stage' = IF stage = 4 THEN stage ELSE stage + 1
    BY <1>8 DEF Paid!NextStage, PaidTypes
  <2>4. /\ budget.max \in Nat /\ budget.spent \in Nat
        /\ budget \in [max : Nat, spent : Nat, reserved : Nat, stopped : BOOLEAN]
    BY DEF PaidTypes
  <2>5. /\ Paid!Estimate(stage) \in Nat /\ Paid!Estimate(stage)' \in Nat
        /\ 0 * Paid!Estimate(stage) = 0 /\ 0 * Paid!Estimate(stage)' = 0
        /\ Workers - 0 = Workers
    <3>1. stage' \in Int /\ stage \in Int
      BY <2>3
    <3>2. Paid!Estimate(stage') \in Nat /\ Paid!Estimate(stage) \in Nat
      BY <3>1, PaidCosts
    <3>3. Paid!Estimate(stage') = Paid!Estimate(stage)'
      BY DEF Paid!Estimate, Paid!IsPair
    <3> QED BY <1>0, <3>2, <3>3
  <2>6. budget.reserved = 0 /\ budget.spent + 0 <= budget.max + Workers * Excess
    BY <2>2, <2>4, <2>5 DEF PaidBudget
  <2>7. CASE stage = 2
    <3> DEFINE max == Paid!Remaining(budget)
    <3>1. /\ budget' = Paid!NewBudget(max) /\ before' = budget.spent /\ stage' = 3
      BY <1>8, <2>3, <2>7 DEF Paid!NextStage
    <3>2. max \in Nat /\ max = Paid!Larger(0, budget.max - budget.spent)
      BY <2>4 DEF Paid!Remaining, Paid!Larger
    <3>3. budget'.max = max
      BY <3>1 DEF Paid!NewBudget
    <3>4. budget.max = MaxUsd
      BY <2>7 DEF PaidBefore
    <3> HIDE DEF max
    <3>5. /\ budget' \in [max : Nat, spent : Nat, reserved : Nat, stopped : BOOLEAN]
          /\ PaidBudget'
      BY <2>1, <3>1, <3>2, FreshBudget
    <3>6. PaidTypes'
      BY <2>1, <2>4, <3>1, <3>5 DEF PaidTypes
    <3> DEFINE w == Workers * Excess
    <3>7. budget.spent <= MaxUsd + w
      <4>1. w \in Nat /\ budget.spent + 0 <= budget.max + w
        BY <1>0, <2>6
      <4> HIDE DEF w
      <4> QED BY <2>4, <3>4, <4>1
    <3>8. PaidBefore'
      BY <1>0, <2>1, <3>1, <3>2, <3>3, <3>4, <3>7 DEF PaidBefore
    <3> QED BY <3>5, <3>6, <3>8
  <2>8. CASE stage # 2
    <3>1. UNCHANGED <<budget, before>> /\ stage' \in 1 .. 4 /\ (stage' <= 2 <=> stage <= 2)
      BY <1>8, <2>3, <2>8 DEF Paid!NextStage
    <3>2. PaidTypes'
      BY <2>1, <3>1 DEF PaidTypes
    <3>3. PaidBudget'
      BY <1>0, <2>1, <2>2, <2>5, <2>6, <3>1 DEF PaidBudget
    <3>4. stage' > 2 <=> stage > 2
      BY <2>3, <3>1
    <3>5. PaidBefore'
      BY <1>0, <2>1, <3>1, <3>4 DEF PaidBefore
    <3> QED BY <3>2, <3>3, <3>5
  <2> QED BY <2>7, <2>8
<1> QED BY <1>1, <1>2, <1>3, <1>4, <1>5, <1>6, <1>7, <1>8 DEF Paid!PulseNext

-----------------------------------------------------------------------------
\* A step that leaves the answers, the stage and the items of the calls.
LEMMA ToldStays ==
  ASSUME PaidTold, UNCHANGED <<cache, got, stage>>, DOMAIN jobs' = DOMAIN jobs,
         pc' = pc \/ (pc = "wait" /\ pc' = "store"),
         \A n \in DOMAIN jobs : /\ jobs'[n].items = jobs[n].items
                                /\ jobs'[n].at # "no" => jobs[n].at # "no"
  PROVE  PaidTold'
<1>1. Paid!Items(stage)' = Paid!Items(stage) /\ \A i : Paid!Replayed(i)' = Paid!Replayed(i)
  BY DEF Paid!Items, Paid!IsPair, Paid!Replayed
<1>2. Paid!AllItems' = Paid!AllItems
  BY DEF Paid!AllItems, Paid!Items, Paid!IsPair, Paid!Stages
<1> QED BY <1>1, <1>2 DEF PaidTold

LEMMA PaidStepTold ==
  ASSUME Paid!ConstantsOK, PaidTypes, PaidTold, Paid!PulseNext
  PROVE  PaidTold'
<1>1. /\ \A s, i : i \in Paid!Items(s) => i[1] = s
      /\ \A i \in Paid!AllItems : i[1] \in 1 .. 4 /\ i \in Paid!Items(i[1])
      /\ \A s \in 1 .. 4 : Paid!Items(s) \subseteq Paid!AllItems
      /\ stage \in 1 .. 4 /\ jobs \in [DOMAIN jobs -> JobRecords]
  BY PaidItems DEF PaidTypes
<1>2. ASSUME Paid!Begin \/ Paid!Die
      PROVE  PaidTold'
  <2>1. stage' = 1 /\ jobs' = <<>> /\ pc' \in {"ask", "idle"}
    BY <1>2 DEF Paid!Begin, Paid!Die
  <2>2. \A i \in Paid!AllItems : ~ (i[1] < stage')
    BY <1>1, <2>1
  <2> HIDE DEF Paid!AllItems
  <2> QED BY <2>1, <2>2 DEF PaidTold
<1>3. ASSUME Paid!LookUp
      PROVE  PaidTold'
  <2>1. /\ got' = [i \in Paid!AllItems |-> IF i \in Paid!Items(stage) THEN cache[i] ELSE got[i]]
        /\ pc = "ask" /\ pc' = "wait" /\ UNCHANGED <<cache, stage>>
    BY <1>3 DEF Paid!LookUp
  <2>2. \A n \in DOMAIN jobs' : jobs'[n].items = Paid!Batch(stage, n)
    BY <1>1, <1>3, LookUpTypes
  <2>3. \A i \in Paid!AllItems : i[1] < stage => got'[i] = got[i]
    BY <1>1, <2>1
  <2>4. \A i \in Paid!Items(stage) : got'[i] = cache[i]
    BY <1>1, <2>1
  <2>5. \A n : Paid!Batch(stage, n) \subseteq Paid!Items(stage) /\ \A i \in Paid!Batch(stage, n) : cache[i] = "none"
    BY DEF Paid!Batch, Paid!Misses, Paid!None
  <2>6. \A m, n : m # n => Paid!Batch(stage, m) \cap Paid!Batch(stage, n) = {}
    BY DEF Paid!Batch
  <2>7. \A i : Paid!Replayed(i)' = Paid!Replayed(i)
    BY <2>1 DEF Paid!Replayed
  <2> QED BY <2>1, <2>2, <2>3, <2>4, <2>5, <2>6, <2>7 DEF PaidTold
<1>4. ASSUME NEW n \in DOMAIN jobs, Paid!Send(n)
      PROVE  PaidTold'
  <2>1. PICK to \in {"out", "no"} : jobs' = [jobs EXCEPT ![n].at = to]
    BY <1>4 DEF Paid!Send
  <2>2. /\ DOMAIN jobs' = DOMAIN jobs /\ jobs[n].at = "queued"
        /\ \A m \in DOMAIN jobs : jobs'[m].items = jobs[m].items /\ (m # n => jobs'[m] = jobs[m])
    BY <1>1, <1>4, <2>1 DEF Paid!Send, JobRecords
  <2>3. UNCHANGED <<cache, got, stage, pc>>
    BY <1>4 DEF Paid!Send
  <2> QED BY <2>2, <2>3, ToldStays
<1>5. ASSUME NEW n \in DOMAIN jobs, Paid!Reply(n) \/ Paid!Fail(n)
      PROVE  PaidTold'
  <2>1. /\ DOMAIN jobs' = DOMAIN jobs
        /\ \A m \in DOMAIN jobs : jobs'[m].items = jobs[m].items /\ (m # n => jobs'[m] = jobs[m])
    <3>1. CASE Paid!Reply(n)
      <4>1. PICK to \in {"ok", "no"}, told \in [Paid!AllItems -> {"none", "label", "same", "unclear"}] :
               jobs' = [jobs EXCEPT ![n].at = to, ![n].reply = told]
        BY <3>1, ReplyChange
      <4> QED BY <1>1, <4>1, JobChange
    <3>2. CASE Paid!Fail(n)
      <4>1. jobs' = [jobs EXCEPT ![n].at = "no"]
        BY <3>2 DEF Paid!Fail
      <4> QED BY <4>1, MarkChange
    <3> QED BY <1>5, <3>1, <3>2
  <2>2. UNCHANGED <<cache, got, stage, pc>> /\ jobs[n].at = "out"
    BY <1>5 DEF Paid!Reply, Paid!Fail
  <2> QED BY <2>1, <2>2, ToldStays
<1>6. ASSUME Paid!Gathered
      PROVE  PaidTold'
  <2>1. UNCHANGED <<cache, got, stage, jobs>> /\ pc = "wait" /\ pc' = "store"
    BY <1>6 DEF Paid!Gathered
  <2> QED BY <2>1, ToldStays
<1>7. ASSUME NEW n \in DOMAIN jobs, Paid!Store(n)
      PROVE  PaidTold'
  <2> DEFINE S == jobs[n].items
  <2>1. /\ got' = [i \in Paid!AllItems |-> IF i \in S THEN jobs[n].reply[i] ELSE got[i]]
        /\ cache' = [i \in Paid!AllItems |->
              IF i \in Paid!Written(jobs[n]) /\ cache[i] = "none" THEN jobs[n].reply[i] ELSE cache[i]]
        /\ pc = "store" /\ UNCHANGED <<pc, stage>> /\ jobs[n].at = "ok"
        /\ jobs' = [jobs EXCEPT ![n].at = "no"]
    BY <1>7 DEF Paid!Store, Paid!None
  <2>2. S \subseteq Paid!Items(stage) /\ \A i \in S : cache[i] = "none"
    BY <2>1 DEF PaidTold
  <2>3. \A i \in Paid!AllItems : i \in S => got'[i] = cache'[i]
    BY <2>1, <2>2 DEF Paid!Written, Paid!None
  <2>4. \A i \in Paid!AllItems : i \notin S => got'[i] = got[i] /\ cache'[i] = cache[i]
    BY <2>1 DEF Paid!Written
  <2>5. \A i \in Paid!AllItems : i[1] < stage => i \notin S
    BY <1>1, <2>2
  <2>6. /\ DOMAIN jobs' = DOMAIN jobs /\ jobs'[n].at = "no" /\ jobs'[n].items = S
        /\ \A m \in DOMAIN jobs : m # n => jobs'[m] = jobs[m]
    BY <2>1, MarkChange
  <2>7. \A m \in DOMAIN jobs : m # n => jobs[m].items \cap S = {}
    BY DEF PaidTold
  <2> HIDE DEF S
  <2>8. \A i \in Paid!AllItems : i \notin S => Paid!Replayed(i)' = Paid!Replayed(i)
    BY <2>4 DEF Paid!Replayed
  <2>9. \A i \in Paid!AllItems : i[1] < stage' => got'[i] = Paid!Replayed(i)'
    BY <2>1, <2>4, <2>5, <2>8 DEF PaidTold
  <2>10. \A i \in Paid!Items(stage) : got'[i] = cache'[i]
    BY <1>1, <2>1, <2>3, <2>4 DEF PaidTold
  <2>11. \A m \in DOMAIN jobs' : /\ jobs'[m].items = jobs[m].items
                                 /\ jobs'[m].items \subseteq Paid!Items(stage)
    BY <2>2, <2>6 DEF PaidTold, S
  <2>12. ASSUME NEW m \in DOMAIN jobs', jobs'[m].at # "no", NEW i \in jobs'[m].items
         PROVE  cache'[i] = "none"
    <3>1. m # n /\ jobs[m].at # "no" /\ i \in jobs[m].items /\ i \notin S /\ i \in Paid!AllItems
      BY <1>1, <2>6, <2>7, <2>11, <2>12
    <3> QED BY <2>4, <2>6, <3>1 DEF PaidTold
  <2>13. \A k, m \in DOMAIN jobs' : k # m => jobs'[k].items \cap jobs'[m].items = {}
    BY <2>6, <2>11 DEF PaidTold
  <2>14. Paid!Items(stage)' = Paid!Items(stage) /\ pc' # "done"
    BY <2>1 DEF Paid!Items, Paid!IsPair
  <2> QED BY <2>9, <2>10, <2>11, <2>12, <2>13, <2>14 DEF PaidTold
<1>8. ASSUME Paid!NextStage
      PROVE  PaidTold'
  <2>1. /\ got' = [i \in Paid!AllItems |->
              IF i \in Paid!Items(stage) /\ Paid!IsPair(stage) /\ got[i] = "none" THEN "unclear" ELSE got[i]]
        /\ UNCHANGED cache /\ jobs' = <<>> /\ pc = "store"
        /\ IF stage = 4 THEN pc' = "done" /\ stage' = 4 ELSE pc' = "ask" /\ stage' = stage + 1
    BY <1>8 DEF Paid!NextStage, Paid!None
  <2>2. \A i : Paid!Replayed(i)' = Paid!Replayed(i)
    BY <2>1 DEF Paid!Replayed
  <2>3. ASSUME NEW i \in Paid!AllItems, i[1] < stage
        PROVE  got'[i] = Paid!Replayed(i)'
    <3>1. i \notin Paid!Items(stage)
      BY <1>1, <2>3
    <3> QED BY <2>1, <2>2, <2>3, <3>1 DEF PaidTold
  <2>4. ASSUME NEW i \in Paid!AllItems, i[1] = stage
        PROVE  got'[i] = Paid!Replayed(i)'
    <3>1. i \in Paid!Items(stage) /\ got[i] = cache[i]
      BY <1>1, <2>1, <2>4 DEF PaidTold
    <3>2. got'[i] = IF Paid!IsPair(i[1]) /\ cache[i] = "none" THEN "unclear" ELSE cache[i]
      BY <2>1, <2>4, <3>1
    <3> QED BY <2>2, <3>2 DEF Paid!Replayed, Paid!None
  <2>5. \A i \in Paid!AllItems : i[1] \in 1 .. 4
    BY <1>1
  <2>6. \A i \in Paid!AllItems : i[1] < stage' => i[1] < stage \/ i[1] = stage
    BY <1>1, <2>1, <2>5
  <2>7. pc' = "done" => \A i \in Paid!AllItems : i[1] < stage \/ i[1] = stage
    BY <1>1, <2>1, <2>5
  <2>8. pc' \notin {"wait", "store"} /\ DOMAIN jobs' = {}
    BY <2>1
  <2> HIDE DEF Paid!AllItems
  <2> QED BY <2>3, <2>4, <2>6, <2>7, <2>8 DEF PaidTold
<1> QED BY <1>2, <1>3, <1>4, <1>5, <1>6, <1>7, <1>8 DEF Paid!PulseNext

LEMMA PaidInitInv ==
  ASSUME Paid!ConstantsOK, Paid!Init
  PROVE  PaidIInv
<1>1. stage = 1 /\ jobs = <<>> /\ budget = Paid!NewBudget(MaxUsd) /\ before = 0 /\ pc = "idle"
  BY DEF Paid!Init
<1>2. DOMAIN jobs = {} /\ jobs \in [{} -> JobRecords] /\ IsFiniteSet(DOMAIN jobs)
  BY <1>1, FS_EmptySet
<1>3. Paid!Out = {} /\ Cardinality(Paid!Out) = 0
  BY <1>2, FS_EmptySet DEF Paid!Out
<1>4. MaxUsd \in Nat /\ Workers \in Nat /\ Excess \in Nat /\ Workers * Excess \in Nat
  BY PaidCosts DEF Paid!ConstantsOK
<1>5. budget = [max |-> MaxUsd, spent |-> 0, reserved |-> 0, stopped |-> FALSE]
  BY <1>1 DEF Paid!NewBudget
<1>6. 0 * Paid!Estimate(stage) = 0
  BY <1>1, PaidCosts
<1>7. PaidTypes
  BY <1>1, <1>2, <1>4, <1>5 DEF PaidTypes
<1>8. PaidBudget
  <2> DEFINE w == Workers * Excess
  <2>1. w \in Nat /\ (Workers - 0) * Excess = w
    BY <1>4
  <2> HIDE DEF w
  <2> QED BY <1>3, <1>4, <1>5, <1>6, <2>1 DEF PaidBudget
<1>9. PaidBefore
  BY <1>1, <1>3, <1>5 DEF PaidBefore
<1>10. PaidTold
  <2>1. \A i \in Paid!AllItems : ~ (i[1] < stage)
    BY <1>1, PaidItems
  <2> HIDE DEF Paid!AllItems
  <2> QED BY <1>1, <1>2, <2>1 DEF PaidTold
<1> QED BY <1>7, <1>8, <1>9, <1>10 DEF PaidIInv

LEMMA PaidStepInv ==
  ASSUME Paid!ConstantsOK, PaidIInv, [Paid!PulseNext]_(Paid!vars)
  PROVE  PaidIInv'
<1>1. CASE Paid!PulseNext
  BY <1>1, PaidStepBudget, PaidStepTold DEF PaidIInv
<1>2. CASE UNCHANGED Paid!vars
  <2>1. UNCHANGED <<cache, pc, stage, got, jobs, budget, before>>
    BY <1>2 DEF Paid!vars
  <2>2. /\ Paid!Out' = Paid!Out /\ Paid!Estimate(stage)' = Paid!Estimate(stage) /\ Excess' = Excess
        /\ Paid!Items(stage)' = Paid!Items(stage)
        /\ \A i : Paid!Replayed(i)' = Paid!Replayed(i)
    BY <2>1 DEF Paid!Out, Paid!Estimate, Paid!IsPair, Excess, Paid!MostCost, Paid!LeastReserve,
                Paid!Items, Paid!Replayed
  <2> QED BY <2>1, <2>2 DEF PaidIInv, PaidTypes, PaidBudget, PaidBefore, PaidTold
<1> QED BY <1>1, <1>2

\* Both windows of a build cost no more than the cap and what its threads may have
\* under way beyond their reserves; and a build that has ended can be had again
\* from the cache alone.
THEOREM PulsePaidOnce ==
  ASSUME Paid!ConstantsOK
  PROVE  Paid!PulseSpec => [](Paid!SpendWithinCap /\ Paid!ReplayEqual)
<1>1. Paid!Init => PaidIInv
  BY PaidInitInv
<1>2. PaidIInv /\ [Paid!PulseNext]_(Paid!vars) => PaidIInv'
  BY PaidStepInv
<1>3. PaidIInv => Paid!SpendWithinCap /\ Paid!ReplayEqual
  <2> SUFFICES ASSUME PaidIInv PROVE Paid!SpendWithinCap /\ Paid!ReplayEqual
    OBVIOUS
  <2> DEFINE u == Cardinality(Paid!Out)
             w == Workers * Excess
             v == (Workers - u) * Excess
             r == u * Paid!Estimate(stage)
  <2>1. /\ Workers \in Nat /\ Excess \in Nat /\ MaxUsd \in Nat /\ u \in Nat /\ u <= Workers
        /\ Paid!Estimate(stage) \in Nat
    BY PaidCosts, OutIsCounted DEF Paid!ConstantsOK, PaidIInv, PaidBudget, PaidTypes
  <2>2. r \in Nat /\ w \in Nat /\ v \in Nat /\ v <= w
    <3>1. ASSUME NEW a \in Nat, NEW b \in Nat, NEW e \in Nat, a <= b
          PROVE  a * e <= b * e /\ a * e \in Nat
      BY <3>1
    <3>2. Workers - u \in Nat /\ Workers - u <= Workers
      BY <2>1
    <3> HIDE DEF u
    <3> QED BY <2>1, <3>1, <3>2
  <2>3. budget.spent \in Nat /\ budget.max \in Nat /\ before \in Nat /\ stage \in 1 .. 4
    BY DEF PaidIInv, PaidTypes
  <2>4. budget.reserved = r /\ budget.spent + r <= budget.max + v /\ (budget.max = 0 => budget.spent = 0)
    BY DEF PaidIInv, PaidBudget
  <2>5. \/ before = 0 /\ budget.max = MaxUsd
        \/ budget.max = Paid!Larger(0, MaxUsd - before) /\ before <= MaxUsd + w
    BY <2>3 DEF PaidIInv, PaidBefore
  <2>6. before + budget.spent <= MaxUsd + w
    <3> HIDE DEF r, v, w
    <3> QED BY <2>1, <2>2, <2>3, <2>4, <2>5 DEF Paid!Larger
  <2>7. Paid!SpendWithinCap
    BY <2>6 DEF Paid!SpendWithinCap, Excess
  <2> QED BY <2>7 DEF PaidIInv, PaidTold, Paid!ReplayEqual
<1> QED BY <1>1, <1>2, <1>3, PTL DEF Paid!PulseSpec

-----------------------------------------------------------------------------
(* The run of the news pulse.  The window was read as the build began      *)
(* (BuildRead), and the files before the next are of this build            *)
(* (BuildFiles).                                                           *)
CONSTANTS Day, Windows, Times, MaxBuilds, MaxRows
VARIABLES builds, begun, current, previous, changes, next, files

Rebuild == INSTANCE PulseRun

Win  == Rebuild!Parsed(asked)
Prev == Rebuild!PreviousWindow(asked)
Read(S, win) == {r \in S : r.at # Rebuild!NoTime /\ Rebuild!Within(r, win)}

BuildTypes ==
    /\ asked \in Windows /\ ~ Rebuild!Refused(asked)
    /\ \A r \in rows : r.at \in Int
    /\ begun \subseteq rows
    /\ builds \in Nat /\ next \in 1 .. 4

\* The window was read as the build began, the one before it from what was there then.
BuildRead ==
    /\ pc # "idle" => current.rows = Read(begun, Win)
    /\ pc \in {"write", "filling"} =>
          /\ Read(begun, Prev) \subseteq previous.rows /\ previous.rows \subseteq Read(rows, Prev)
          /\ changes.added = Rebuild!ChannelsOf(current) \ Rebuild!ChannelsOf(previous)

\* The files before the next are of this build; the manifest is of an older one
\* until it is opened, and a whole manifest is as old as the other files or older.
BuildFiles ==
    /\ files \in [1 .. 4 -> [build : Nat, whole : BOOLEAN]]
    /\ \A n \in 1 .. 4 : files[n].build <= builds
    /\ pc \in {"write", "filling"} =>
          \A n \in 1 .. 4 : n < next => files[n] = [build |-> builds, whole |-> TRUE]
    /\ pc = "filling" => files[next] = [build |-> builds, whole |-> FALSE]
    /\ pc \in {"previous", "write"} \/ (pc = "filling" /\ next # 4) => files[4].build < builds
    /\ files[4].whole /\ files[4].build # 0 =>
          \A n \in 1 .. 4 : files[n] = files[4] \/ files[n].build > files[4].build

BuildIInv == BuildTypes /\ BuildRead /\ BuildFiles

-----------------------------------------------------------------------------
LEMMA FieldSet ==
  ASSUME NEW b, NEW c, NEW d
  PROVE  [[build |-> b, whole |-> c] EXCEPT !.whole = d] = [build |-> b, whole |-> d]
  OBVIOUS

\* The window before ends where the window begins, and it is no longer than it.
LEMMA WindowsMeet ==
  ASSUME Rebuild!ConstantsOK, BuildTypes
  PROVE  /\ Win.start \in Int /\ Win.end \in Int /\ Prev.start \in Int
         /\ Prev.end = Win.start /\ Prev.start <= Win.start /\ Win.start <= Win.end
         /\ Rebuild!NoTime < Prev.start
<1>1. /\ Day \in Nat \ {0} /\ asked.lo \in Int /\ asked.hi \in Int /\ asked.lo <= asked.hi
      /\ asked.dates \in BOOLEAN /\ Rebuild!NoTime < Prev.start
  BY DEF Rebuild!ConstantsOK, BuildTypes, Rebuild!Refused, Prev
<1>2. CASE asked.dates
  <2>1. Win = [start |-> Day * asked.lo, end |-> Day * (asked.hi + 1)]
    BY <1>2 DEF Win, Rebuild!Parsed
  <2>2. /\ Day * asked.lo \in Int /\ Day * (asked.hi + 1) \in Int
        /\ Day * asked.lo <= Day * (asked.hi + 1)
    <3>1. ASSUME NEW d \in Nat, NEW a \in Int, NEW b \in Int, a <= b
          PROVE  d * a \in Int /\ d * b \in Int /\ d * a <= d * b
      BY <3>1
    <3> QED BY <1>1, <3>1
  <2> QED BY <1>1, <2>1, <2>2 DEF Prev, Win, Rebuild!PreviousWindow
<1>3. CASE ~ asked.dates
  BY <1>1, <1>3 DEF Win, Prev, Rebuild!PreviousWindow, Rebuild!Parsed
<1> QED BY <1>1, <1>2, <1>3

-----------------------------------------------------------------------------
LEMMA BuildStepRead ==
  ASSUME Rebuild!ConstantsOK, BuildTypes, BuildRead, Rebuild!Next
  PROVE  BuildTypes' /\ BuildRead'
<1> USE DEF BuildTypes, BuildRead
<1>0. asked' = asked /\ Win' = Win /\ Prev' = Prev
  <2>1. asked' = asked
    BY DEF Rebuild!Next, Rebuild!Collect, Rebuild!Begin, Rebuild!Compare, Rebuild!Open, Rebuild!Fill, Rebuild!Die
  <2> QED BY <2>1 DEF Win, Prev, Rebuild!Parsed, Rebuild!PreviousWindow
<1>1. ASSUME NEW c \in Channels, NEW t \in Times \cup {Rebuild!NoTime}, NEW k \in BOOLEAN,
             Rebuild!Collect([channel |-> c, at |-> t, comment |-> k])
      PROVE  BuildTypes' /\ BuildRead'
  <2> DEFINE r == [channel |-> c, at |-> t, comment |-> k]
  <2>1. rows' = rows \cup {r} /\ UNCHANGED <<pc, builds, begun, current, previous, changes, next>>
    BY <1>1 DEF Rebuild!Collect
  <2>2. r.at \in Int
    <3>1. t \in Int
      BY DEF Rebuild!ConstantsOK, Rebuild!NoTime
    <3> QED BY <3>1
  <2>3. \A win : Read(rows, win) \subseteq Read(rows', win)
    BY <2>1 DEF Read
  <2> HIDE DEF r
  <2>4. BuildTypes'
    BY <1>0, <2>1, <2>2
  <2>5. Rebuild!ChannelsOf(current)' = Rebuild!ChannelsOf(current) /\ Rebuild!ChannelsOf(previous)' = Rebuild!ChannelsOf(previous)
    BY <2>1 DEF Rebuild!ChannelsOf
  <2> QED BY <1>0, <2>1, <2>3, <2>4, <2>5
<1>2. ASSUME Rebuild!Begin
      PROVE  BuildTypes' /\ BuildRead'
  <2>1. /\ builds' = builds + 1 /\ pc' = "previous" /\ begun' = rows /\ current' = Rebuild!Load(Win)
        /\ UNCHANGED <<rows, next>>
    BY <1>2 DEF Rebuild!Begin, Win
  <2>2. current'.rows = Read(rows, Win)
    BY <2>1 DEF Rebuild!Load, Read
  <2> QED BY <1>0, <2>1, <2>2
<1>3. ASSUME Rebuild!Compare
      PROVE  BuildTypes' /\ BuildRead'
  <2>1. /\ pc = "previous" /\ pc' = "write" /\ next' = 1 /\ previous' = Rebuild!Load(Prev)
        /\ changes'.added = Rebuild!ChannelsOf(current) \ Rebuild!ChannelsOf(previous')
        /\ UNCHANGED <<rows, builds, begun, current>>
    BY <1>3 DEF Rebuild!Compare, Prev
  <2>2. previous'.rows = Read(rows, Prev) /\ Read(begun, Prev) \subseteq Read(rows, Prev)
    BY <2>1 DEF Rebuild!Load, Read
  <2>3. Rebuild!ChannelsOf(current)' = Rebuild!ChannelsOf(current) /\ Rebuild!ChannelsOf(previous)' = Rebuild!ChannelsOf(previous')
    BY <2>1 DEF Rebuild!ChannelsOf
  <2> QED BY <1>0, <2>1, <2>2, <2>3
<1>4. ASSUME Rebuild!Open \/ Rebuild!Fill \/ Rebuild!Die
      PROVE  BuildTypes' /\ BuildRead'
  <2>1. /\ UNCHANGED <<rows, builds, begun, current, previous, changes>>
        /\ \/ pc = "write" /\ pc' = "filling" /\ next' = next
           \/ pc = "filling" /\ pc' = "write" /\ next # 4 /\ next' = next + 1
           \/ pc' = "idle" /\ next' = next
    BY <1>4 DEF Rebuild!Open, Rebuild!Fill, Rebuild!Die, Rebuild!Files
  <2>2. Rebuild!ChannelsOf(current)' = Rebuild!ChannelsOf(current) /\ Rebuild!ChannelsOf(previous)' = Rebuild!ChannelsOf(previous)
    BY <2>1 DEF Rebuild!ChannelsOf
  <2> QED BY <1>0, <2>1, <2>2
<1> QED BY <1>1, <1>2, <1>3, <1>4 DEF Rebuild!Next

LEMMA BuildStepFiles ==
  ASSUME BuildTypes, BuildFiles, Rebuild!Next
  PROVE  BuildFiles'
<1> DEFINE F == [build : Nat, whole : BOOLEAN]
<1>0. builds \in Nat /\ next \in 1 .. 4 /\ files \in [1 .. 4 -> F]
  BY DEF BuildTypes, BuildFiles
<1>1. CASE UNCHANGED <<pc, builds, next, files>>
  BY <1>1 DEF BuildFiles
<1>2. ASSUME NEW r, Rebuild!Collect(r)
      PROVE  BuildFiles'
  BY <1>2 DEF BuildFiles, Rebuild!Collect
<1>3. ASSUME Rebuild!Begin
      PROVE  BuildFiles'
  BY <1>0, <1>3 DEF BuildFiles, Rebuild!Begin
<1>4. ASSUME Rebuild!Compare
      PROVE  BuildFiles'
  BY <1>0, <1>4 DEF BuildFiles, Rebuild!Compare
<1>5. ASSUME Rebuild!Open
      PROVE  BuildFiles'
  <2> DEFINE f == [build |-> builds, whole |-> FALSE]
  <2>1. /\ pc = "write" /\ pc' = "filling" /\ files' = [files EXCEPT ![next] = f]
        /\ UNCHANGED <<builds, next>>
    BY <1>5 DEF Rebuild!Open, Rebuild!Written
  <2>2. f \in F /\ f.build = builds /\ ~ f.whole
    BY <1>0
  <2>3. files' \in [1 .. 4 -> F] /\ files'[next] = f /\ \A n \in 1 .. 4 : n # next => files'[n] = files[n]
    BY <1>0, <2>1, <2>2
  <2>4. files[4].build < builds
    BY <2>1 DEF BuildFiles
  <2> HIDE DEF f, F
  <2>5. \A n \in 1 .. 4 : files'[n].build <= builds
    BY <1>0, <2>2, <2>3 DEF BuildFiles
  <2>6. \A n \in 1 .. 4 : n < next => files'[n] = [build |-> builds, whole |-> TRUE]
    <3>1. \A n \in 1 .. 4 : n < next => n # next
      BY <1>0
    <3>2. \A n \in 1 .. 4 : n < next => files[n] = [build |-> builds, whole |-> TRUE]
      BY <2>1 DEF BuildFiles
    <3> QED BY <2>3, <3>1, <3>2
  <2>7. next # 4 => files'[4].build < builds
    BY <2>3, <2>4
  <2>8. files'[4].whole /\ files'[4].build # 0 =>
          \A n \in 1 .. 4 : files'[n] = files'[4] \/ files'[n].build > files'[4].build
    <3>1. CASE next = 4
      BY <2>2, <2>3, <3>1
    <3>2. CASE next # 4
      <4>1. files'[4] = files[4] /\ builds > files[4].build
        BY <1>0, <2>3, <2>4, <3>2 DEF F
      <4> QED BY <1>0, <2>2, <2>3, <4>1 DEF BuildFiles
    <3> QED BY <3>1, <3>2
  <2> QED BY <2>1, <2>2, <2>3, <2>5, <2>6, <2>7, <2>8 DEF BuildFiles, F, f
<1>6. ASSUME Rebuild!Fill
      PROVE  BuildFiles'
  <2> DEFINE f == [build |-> builds, whole |-> TRUE]
  <2>1. /\ pc = "filling" /\ files' = [files EXCEPT ![next].whole = TRUE] /\ UNCHANGED builds
        /\ IF next = 4 THEN pc' = "idle" /\ next' = next ELSE pc' = "write" /\ next' = next + 1
    BY <1>6 DEF Rebuild!Fill, Rebuild!Written, Rebuild!Files
  <2>2. files[next] = [build |-> builds, whole |-> FALSE]
    BY <2>1 DEF BuildFiles
  <2>3. files' = [files EXCEPT ![next] = f]
    <3>1. [[build |-> builds, whole |-> FALSE] EXCEPT !.whole = TRUE] = f
      BY FieldSet
    <3>2. files' = [files EXCEPT ![next] = [files[next] EXCEPT !.whole = TRUE]]
      BY <2>1
    <3>3. [files[next] EXCEPT !.whole = TRUE] = f
      BY <2>2, <3>1
    <3> HIDE DEF f
    <3> QED BY <3>2, <3>3
  <2>4. f \in F /\ f.build = builds /\ f.whole
    BY <1>0
  <2>5. files' \in [1 .. 4 -> F] /\ files'[next] = f /\ \A n \in 1 .. 4 : n # next => files'[n] = files[n]
    BY <1>0, <2>3, <2>4
  <2>6. \A n \in 1 .. 4 : n < next => files[n] = f
    BY <2>1 DEF BuildFiles
  <2> HIDE DEF f, F
  <2>7. \A n \in 1 .. 4 : files'[n].build <= builds
    BY <1>0, <2>4, <2>5 DEF BuildFiles
  <2>8. CASE next = 4
    <3>1. \A n \in 1 .. 4 : files'[n] = f
      BY <2>5, <2>6, <2>8
    <3> QED BY <2>1, <2>5, <2>7, <2>8, <3>1 DEF BuildFiles, F
  <2>9. CASE next # 4
    <3>1. files'[4] = files[4] /\ files[4].build < builds
      BY <2>1, <2>5, <2>9 DEF BuildFiles
    <3>2. \A n \in 1 .. 4 : n < next' => files'[n] = f
      BY <1>0, <2>1, <2>5, <2>6, <2>9
    <3>3. builds > files[4].build
      BY <1>0, <3>1 DEF F
    <3>4. files'[4].whole /\ files'[4].build # 0 =>
            \A n \in 1 .. 4 : files'[n] = files'[4] \/ files'[n].build > files'[4].build
      BY <1>0, <2>4, <2>5, <3>1, <3>3 DEF BuildFiles
    <3> QED BY <2>1, <2>5, <2>7, <2>9, <3>1, <3>2, <3>4 DEF BuildFiles, F, f
  <2> QED BY <2>8, <2>9
<1>7. ASSUME Rebuild!Die
      PROVE  BuildFiles'
  BY <1>7 DEF BuildFiles, Rebuild!Die
<1> QED BY <1>2, <1>3, <1>4, <1>5, <1>6, <1>7 DEF Rebuild!Next

LEMMA BuildInitInv ==
  ASSUME Rebuild!ConstantsOK, Rebuild!Init
  PROVE  BuildIInv
<1>1. /\ asked \in Windows /\ ~ Rebuild!Refused(asked) /\ rows = {} /\ pc = "idle" /\ builds = 0
      /\ begun = {} /\ next = 1
  BY DEF Rebuild!Init
<1>2. files = [f \in 1 .. 4 |-> [build |-> 0, whole |-> TRUE]]
  BY DEF Rebuild!Init, Rebuild!Files
<1>3. BuildTypes /\ BuildRead
  BY <1>1 DEF BuildTypes, BuildRead
<1>4. BuildFiles
  BY <1>1, <1>2 DEF BuildFiles
<1> QED BY <1>3, <1>4 DEF BuildIInv

LEMMA BuildStepInv ==
  ASSUME Rebuild!ConstantsOK, BuildIInv, [Rebuild!Next]_(Rebuild!vars)
  PROVE  BuildIInv'
<1>1. CASE Rebuild!Next
  BY <1>1, BuildStepRead, BuildStepFiles DEF BuildIInv
<1>2. CASE UNCHANGED Rebuild!vars
  <2>1. UNCHANGED <<asked, rows, pc, builds, begun, current, previous, changes, next, files>>
    BY <1>2 DEF Rebuild!vars
  <2>2. /\ Rebuild!ChannelsOf(current)' = Rebuild!ChannelsOf(current)
        /\ Rebuild!ChannelsOf(previous)' = Rebuild!ChannelsOf(previous)
        /\ Win' = Win /\ Prev' = Prev
    BY <2>1 DEF Rebuild!ChannelsOf, Win, Prev, Rebuild!Parsed, Rebuild!PreviousWindow
  <2> QED BY <2>1, <2>2 DEF BuildIInv, BuildTypes, BuildRead, BuildFiles
<1> QED BY <1>1, <1>2

\* The comparison is of two windows that meet, counts a row in one of them at most
\* and loses none that was there when the build began; what it calls new had no post
\* in the window before; and a manifest that is not older than the other files
\* stands for four whole files of one build, wherever builds died.
THEOREM RunsBelongTogether ==
  ASSUME Rebuild!ConstantsOK
  PROVE  Rebuild!Spec => []Rebuild!RunIsConsistent
<1>1. Rebuild!Init => BuildIInv
  BY BuildInitInv
<1>2. BuildIInv /\ [Rebuild!Next]_(Rebuild!vars) => BuildIInv'
  BY BuildStepInv
<1>3. BuildIInv => Rebuild!RunIsConsistent
  <2> SUFFICES ASSUME BuildIInv PROVE Rebuild!RunIsConsistent
    OBVIOUS
  <2>1. /\ Win.start \in Int /\ Win.end \in Int /\ Prev.start \in Int
        /\ Prev.end = Win.start /\ Prev.start <= Win.start /\ Win.start <= Win.end
        /\ Rebuild!NoTime < Prev.start /\ Rebuild!NoTime \in Int
    BY WindowsMeet DEF BuildIInv, Rebuild!NoTime
  <2>2. \A r \in rows : r.at \in Int
    BY DEF BuildIInv, BuildTypes
  <2>3. Rebuild!CountedOnce
    <3> SUFFICES ASSUME pc \in {"write", "filling"}
                 PROVE  /\ current.rows \cap previous.rows = {}
                        /\ \A r \in begun : Rebuild!Both(r) => r \in current.rows \cup previous.rows
      BY DEF Rebuild!CountedOnce
    <3>1. /\ current.rows = Read(begun, Win) /\ begun \subseteq rows
          /\ Read(begun, Prev) \subseteq previous.rows /\ previous.rows \subseteq Read(rows, Prev)
      BY DEF BuildIInv, BuildTypes, BuildRead
    <3>2. ASSUME NEW r \in current.rows, r \in previous.rows
          PROVE  FALSE
      BY <2>1, <2>2, <3>1, <3>2 DEF Read, Rebuild!Within
    <3>3. ASSUME NEW r \in begun, Rebuild!Both(r)
          PROVE  r \in Read(begun, Win) \cup Read(begun, Prev)
      <4>1. Prev.start <= r.at /\ r.at < Win.end /\ r.at \in Int
        BY <2>2, <3>1, <3>3 DEF Rebuild!Both, Win, Prev
      <4> QED BY <2>1, <3>3, <4>1 DEF Read, Rebuild!Within
    <3> QED BY <3>1, <3>2, <3>3
  <2>4. Rebuild!AddedIsNew
    <3> SUFFICES ASSUME pc \in {"write", "filling"}, NEW c \in changes.added
                 PROVE  /\ \E r \in begun : r.channel = c /\ ~ r.comment
                        /\ ~ \E r \in begun : r.channel = c /\ ~ r.comment /\ Rebuild!Within(r, Prev)
      BY DEF Rebuild!AddedIsNew, Prev
    <3>1. /\ current.rows = Read(begun, Win) /\ Read(begun, Prev) \subseteq previous.rows
          /\ c \in Rebuild!ChannelsOf(current) /\ c \notin Rebuild!ChannelsOf(previous) /\ begun \subseteq rows
      BY DEF BuildIInv, BuildTypes, BuildRead
    <3>2. \E r \in begun : r.channel = c /\ ~ r.comment
      BY <3>1 DEF Rebuild!ChannelsOf, Read
    <3>3. ASSUME NEW r \in begun, r.channel = c, ~ r.comment, Rebuild!Within(r, Prev)
          PROVE  FALSE
      <4>1. r.at # Rebuild!NoTime
        BY <2>1, <2>2, <3>1, <3>3 DEF Rebuild!Within
      <4>2. r \in previous.rows
        BY <3>1, <3>3, <4>1 DEF Read
      <4> QED BY <3>1, <3>3, <4>2 DEF Rebuild!ChannelsOf
    <3> QED BY <3>2, <3>3
  <2>5. Rebuild!ManifestIsLast
    <3>1. Len(Rebuild!Files) = 4
      BY DEF Rebuild!Files
    <3>2. files \in [1 .. 4 -> [build : Nat, whole : BOOLEAN]] /\ DOMAIN files = 1 .. 4
      BY DEF BuildIInv, BuildFiles
    <3> SUFFICES ASSUME files[4].whole, files[4].build # 0,
                        \A n \in 1 .. 4 : files[n].build <= files[4].build
                 PROVE  (\A n \in 1 .. 4 : files[n] = files[4]) /\ Rebuild!Rendered /\ Rebuild!Served = files[4].build
      BY <3>1, <3>2 DEF Rebuild!ManifestIsLast, Rebuild!Files
    <3>3. ASSUME NEW n \in 1 .. 4 PROVE files[n] = files[4]
      <4>1. files[n].build \in Nat /\ files[4].build \in Nat /\ files[n].build <= files[4].build
        BY <3>2
      <4> QED BY <4>1 DEF BuildIInv, BuildFiles
    <3>4. files[2] = files[4] /\ files[3] = files[4]
      BY <3>3
    <3> QED BY <3>3, <3>4 DEF Rebuild!Rendered, Rebuild!Served
  <2> QED BY <2>3, <2>4, <2>5 DEF Rebuild!RunIsConsistent
<1> QED BY <1>1, <1>2, <1>3, PTL DEF Rebuild!Spec
=============================================================================
