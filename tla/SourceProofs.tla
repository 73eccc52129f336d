--------------------------- MODULE SourceProofs -----------------------------
(***************************************************************************)
(* Proofs about what is collected: by the window collector, through Xpoz,  *)
(* from feeds, from the comments of channels and of single posts, when     *)
(* displayed posts are refreshed, and how recorded intervals are merged;   *)
(* for any number of channels, posts, windows, intervals and budgets.      *)
(*                                                                         *)
(* Window collector.  A recorded interval is complete because of what the  *)
(* pages, the cursor and the raw cache know of each other: posts of one    *)
(* second are stored in the order of their ids (InOrder), a read starts    *)
(* behind nothing that is not stored (Begun), and a page leaves no gap     *)
(* (Paged).  A window is read as soon as it ends, so posts of its last     *)
(* second may still be published: no read meets those, and the history     *)
(* late tells them apart, at the moment they are published.                *)
(*                                                                         *)
(* Every other source has an instance of its module and a section below;   *)
(* what the collector's module declares under the same name is the same    *)
(* parameter or variable of no consequence to it.                          *)
(***************************************************************************)
EXTENDS WindowCollector, SumTheorems, WellFoundedInduction

\* What the results are about: any collector.
Setting == ConstantsOK

\* A run belongs to the past.
Clock ==
    /\ now >= StartTime
    /\ end # NoTime => StartTime <= end /\ end <= now

\* A source's rows end in the past, and what is being read is not recorded yet.
Timed(s) ==
    /\ end = NoTime => step[s] = "idle"
    /\ end # NoTime => watermark[s] <= end
    /\ watermark[s] <= now
    /\ \A x \in spans[s] : x[2] <= now
    /\ step[s] \in {"read", "save", "mark"} => <<from[s], end>> \notin spans[s]

\* Ids follow dates, and no post is dated ahead of the clock.
Dated(s) ==
    \A i \in 1 .. Len(chan[s]) :
        Date(s, i) <= Second /\ \A j \in 1 .. i : Date(s, j) <= Date(s, i)

\* The posts of one second are stored in their order.
InOrder(s) ==
    \A i \in stored[s] : \A j \in 1 .. i : Date(s, j) = Date(s, i) => j \in stored[s]

\* What the cursor leaves out is stored.
Begun(s) ==
    /\ from[s] = ReadFloor(s) /\ after[s] <= Len(chan[s])
    /\ \A j \in 1 .. after[s] : Date(s, j) >= from[s] => j \in stored[s]

\* All that is stored at the watermark is left out.
Resumed(s) ==
    watermark[s] = from[s] => \A i \in stored[s] : Date(s, i) = from[s] => i <= after[s]

\* A page leaves no gap in front of its posts, a whole one none in the window but
\* for what was published since.
Paged(s) ==
    /\ \A i \in page[s] : /\ i \in 1 .. Len(chan[s]) /\ from[s] <= Date(s, i) /\ Date(s, i) <= end
                          /\ \A j \in 1 .. i : Date(s, j) >= from[s] => j \in page[s] \cup stored[s]
    /\ truncated[s] => page[s] # {}
    /\ ~truncated[s] => \A j \in 1 .. Len(chan[s]) :
            from[s] <= Date(s, j) /\ Date(s, j) <= end => j \in page[s] \cup stored[s] \cup late[s]
    /\ step[s] # "save" => page[s] \subseteq stored[s]

\* What is recorded when the watermark is about to move.
Marked(s) ==
    /\ ~truncated[s] => <<from[s], end>> \in spans[s]
    /\ truncated[s] /\ Newest(s) - 1 >= from[s] => <<from[s], Newest(s) - 1>> \in spans[s]

Read(s) ==
    /\ step[s] \in {"read", "save", "mark", "prefix", "advance"} => Begun(s)
    /\ step[s] = "read" => Resumed(s)
    /\ step[s] = "save" => Resumed(s) /\ page[s] # {} /\ \A i \in page[s] : i > after[s]
    /\ step[s] \in {"save", "mark", "prefix", "advance"} => Paged(s)
    /\ step[s] = "prefix" => truncated[s]
    /\ step[s] = "advance" => Marked(s)

\* The three properties, of one source; the watermark has nothing uncovered behind it.
Covered(s) ==
    \A x \in spans[s] : \A i \in 1 .. Len(chan[s]) :
        x[1] <= Date(s, i) /\ Date(s, i) <= x[2] => i \in stored[s] \cup late[s]

Skipless(s) ==
    \A i \in 1 .. Len(chan[s]) :
        since[s] <= Date(s, i) /\ Date(s, i) < watermark[s] => i \in stored[s] \cup late[s]

Reached(s) ==
    /\ \A t \in since[s] .. watermark[s] - 1 : \E x \in spans[s] : x[1] <= t /\ t <= x[2]
    /\ step[s] = "complete" =>
        watermark[s] = end /\ \E x \in spans[s] : x[1] <= end /\ end <= x[2]

Sound(s) == /\ Timed(s) /\ Dated(s) /\ InOrder(s) /\ Read(s) /\ Covered(s) /\ Skipless(s)
            /\ Reached(s)

\* What was read, what is reserved and what is left make up the budget at most.
Budgeted ==
    /\ \A s \in Sources : step[s] = "read" <=> held[s] > 0
    /\ used + left + Sum(held, Sources) <= RunCap

IInv == TypeOK /\ Clock /\ Budgeted /\ \A s \in Sources : Sound(s)

-----------------------------------------------------------------------------
(* Numbers, posts and pages.                                               *)

\* What the constants are.
LEMMA ConstantsAre ==
  ASSUME Setting
  PROVE  /\ NumSources \in Nat /\ PostCap \in Nat \ {0} /\ RunCap \in Nat \ {0}
         /\ Fresh \in Nat /\ Look \in Nat /\ StartTime \in Nat
         /\ Fresh <= StartTime
  BY DEF Setting, ConstantsOK

\* There are finitely many sources.
LEMMA SourcesFinite == ASSUME Setting PROVE IsFiniteSet(Sources)
  BY ConstantsAre, FS_Interval DEF Sources

\* The second the clock is in has begun, and is not over yet.
LEMMA SecondIs == ASSUME now \in Nat PROVE Second \in Nat /\ Second <= now /\ now <= Second + 1
  BY DEF Second

\* Some ids have a largest.
LEMMA MaxExists ==
  ASSUME NEW n \in Nat, NEW S \in SUBSET (1 .. n), S # {}
  PROVE  LET m == CHOOSE i \in S : \A j \in S : j <= i IN m \in S /\ \A j \in S : j <= m
<1> DEFINE T == {n - j : j \in S}
<1>1. T \in SUBSET Nat
  OBVIOUS
<1>2. \E j \in S : n - j \in T
  OBVIOUS
<1>3. PICK t \in T : \A u \in T : t <= u
  <2>1. PICK t \in T : \A u \in T : ~ (<<u, t>> \in OpToRel(<, Nat))
    BY <1>1, <1>2, WFMin, NatLessThanWellFounded
  <2>2. \A u, v \in Nat : u < v => <<u, v>> \in OpToRel(<, Nat)
    BY DEF OpToRel
  <2> HIDE DEF T
  <2>3. \A u \in T : u \in Nat /\ t \in Nat /\ ~ (u < t)
    BY <1>1, <2>1, <2>2
  <2> QED BY <2>3
<1>4. PICK m \in S : t = n - m
  OBVIOUS
<1>5. ASSUME NEW j \in S PROVE j <= m
  <2>1. n - j \in T
    OBVIOUS
  <2>2. j \in Int /\ m \in Int
    OBVIOUS
  <2> HIDE DEF T
  <2>3. n - m <= n - j
    BY <1>3, <1>4, <2>1
  <2> QED BY <2>2, <2>3
<1> HIDE DEF T
<1> QED BY <1>5

\* A post published now is the newest, and changes nothing about the others.
LEMMA PublishIs ==
  ASSUME TypeOK, NEW s \in Sources, Publish(s)
  PROVE  /\ UNCHANGED <<now, stored, spans, watermark, delayed, end, left, step, held, from, after,
                        page, truncated, since, used>>
         /\ \A r \in Sources : r # s => chan'[r] = chan[r]
         /\ chan'[s] \in Seq(Nat) /\ Len(chan[s]) \in Nat /\ Len(chan'[s]) = Len(chan[s]) + 1
         /\ \A i \in 1 .. Len(chan[s]) : Date(s, i)' = Date(s, i)
         /\ \A i \in 1 .. Len(chan'[s]) : i > Len(chan[s]) => Date(s, i)' = Second
         /\ chan' \in [Sources -> Seq(Nat)]
         /\ late' \in [Sources -> SUBSET (Nat \ {0})]
         /\ \A r \in Sources : r # s => late'[r] = late[r]
         /\ late[s] \subseteq late'[s]
         /\ TooLate(s) => Len(chan[s]) + 1 \in late'[s]
<1>1. chan \in [Sources -> Seq(Nat)] /\ now \in Nat
  BY DEF TypeOK
<1>2. Second \in Nat
  BY <1>1, SecondIs
<1>3. chan' = [chan EXCEPT ![s] = Append(@, Second)]
  BY DEF Publish
<1>4. chan'[s] = Append(chan[s], Second) /\ chan[s] \in Seq(Nat)
  BY <1>1, <1>3
<1>5. UNCHANGED <<now, stored, spans, watermark, delayed, end, left, step, held, from, after,
                  page, truncated, since, used>>
  BY DEF Publish, db, local
<1> HIDE DEF Second
<1>6. chan'[s] \in Seq(Nat) /\ Len(chan[s]) \in Nat /\ Len(chan'[s]) = Len(chan[s]) + 1
  BY <1>2, <1>4
<1>7. \A i \in 1 .. Len(chan[s]) : chan'[s][i] = chan[s][i]
  BY <1>2, <1>4
<1>8. \A i \in 1 .. Len(chan'[s]) : i > Len(chan[s]) => chan'[s][i] = Second
  BY <1>2, <1>4, <1>6
<1>9. \A r \in Sources : r # s => chan'[r] = chan[r]
  BY <1>1, <1>3
<1>10. chan' \in [Sources -> Seq(Nat)]
  BY <1>1, <1>2, <1>3
<1>11. /\ late' \in [Sources -> SUBSET (Nat \ {0})]
       /\ \A r \in Sources : r # s => late'[r] = late[r]
       /\ late[s] \subseteq late'[s]
       /\ TooLate(s) => Len(chan[s]) + 1 \in late'[s]
  <2> DEFINE i == Len(chan[s]) + 1
             L == IF TooLate(s) THEN late[s] \cup {i} ELSE late[s]
  <2>1. late \in [Sources -> SUBSET (Nat \ {0})]
    BY DEF TypeOK
  <2>2. i \in Nat \ {0}
    BY <1>6
  <2>3. late' = [late EXCEPT ![s] = L]
    BY DEF Publish
  <2> HIDE DEF i
  <2>4. L \in SUBSET (Nat \ {0}) /\ late[s] \subseteq L /\ (TooLate(s) => i \in L)
    BY <2>1, <2>2
  <2> HIDE DEF L
  <2>5. late' \in [Sources -> SUBSET (Nat \ {0})] /\ late'[s] = L
        /\ \A r \in Sources : r # s => late'[r] = late[r]
    BY <2>1, <2>3, <2>4
  <2> QED BY <2>4, <2>5 DEF i
<1> QED BY <1>5, <1>6, <1>7, <1>8, <1>9, <1>10, <1>11 DEF Date

\* The window of a run begins in the past.
LEMMA FloorIs ==
  ASSUME Setting, TypeOK, Clock, end # NoTime, NEW s \in Sources
  PROVE  /\ ReadFloor(s) \in Nat /\ ReadFloor(s) >= watermark[s] /\ ReadFloor(s) >= end - Fresh
         /\ ReadFloor(s) = watermark[s] \/ ReadFloor(s) = end - Fresh
<1>1. end \in Nat /\ watermark[s] \in Nat \cup {NoTime}
  BY DEF TypeOK
<1>2. StartTime <= end /\ Fresh <= StartTime /\ StartTime \in Nat /\ Fresh \in Nat
  BY ConstantsAre DEF Clock
<1>3. end - Fresh \in Nat
  BY <1>1, <1>2
<1> QED BY <1>1, <1>2, <1>3 DEF ReadFloor, Larger, NoTime

\* The cursor is the last of the posts stored at the floor.
LEMMA CursorIs ==
  ASSUME TypeOK, NEW s \in Sources
  PROVE  /\ Cursor(s) \in Nat /\ Cursor(s) <= Len(chan[s])
         /\ Cursor(s) = 0 \/ (Cursor(s) \in stored[s] /\ Date(s, Cursor(s)) = ReadFloor(s))
         /\ watermark[s] = ReadFloor(s) =>
              \A i \in stored[s] : Date(s, i) = ReadFloor(s) => i <= Cursor(s)
<1> DEFINE S == AtFloor(s)
           m == CHOOSE i \in S : \A j \in S : j <= i
<1>1. Len(chan[s]) \in Nat /\ stored[s] \in SUBSET (1 .. Len(chan[s]))
  BY DEF TypeOK
<1>2. S \in SUBSET (1 .. Len(chan[s])) /\ S = {i \in stored[s] : Date(s, i) = ReadFloor(s)}
  BY <1>1 DEF AtFloor
<1>3. Cursor(s) = IF watermark[s] = ReadFloor(s) /\ S # {} THEN m ELSE 0
  BY DEF Cursor
<1> HIDE DEF S
<1>4. S # {} => m \in S /\ \A j \in S : j <= m
  BY <1>1, <1>2, MaxExists
<1> HIDE DEF m
<1> QED BY <1>1, <1>2, <1>3, <1>4

\* The newest item is the last of the page.
LEMMA NewestIs ==
  ASSUME TypeOK, NEW s \in Sources, page[s] \subseteq 1 .. Len(chan[s]), page[s] # {}
  PROVE  \E m \in page[s] : Newest(s) = Date(s, m) /\ \A j \in page[s] : j <= m
<1>1. Len(chan[s]) \in Nat
  BY DEF TypeOK
<1> QED BY <1>1, MaxExists DEF Newest

\* A page is no larger than what was reserved for it.
LEMMA PageIs ==
  ASSUME TypeOK, NEW s \in Sources, NEW P, IsPage(s, P)
  PROVE  /\ P \subseteq Unread(s) /\ Unread(s) \subseteq 1 .. Len(chan[s])
         /\ Cardinality(P) \in Nat /\ Cardinality(P) <= held[s]
         /\ held[s] > 0 /\ P # Unread(s) => P # {}
<1>1. P \subseteq Unread(s) /\ Cardinality(P) <= held[s] /\ (P = Unread(s) \/ Cardinality(P) = held[s])
  BY DEF IsPage
<1>2. Unread(s) \subseteq 1 .. Len(chan[s]) /\ Len(chan[s]) \in Nat
  BY DEF Unread, TypeOK
<1>3. IsFiniteSet(1 .. Len(chan[s]))
  BY <1>2, FS_Interval
<1>4. IsFiniteSet(P) /\ Cardinality(P) \in Nat
  BY <1>1, <1>2, <1>3, FS_Subset, FS_CardinalityType
<1>5. ASSUME held[s] > 0, P # Unread(s) PROVE P # {}
  BY <1>1, <1>5, FS_EmptySet
<1> QED BY <1>1, <1>2, <1>4, <1>5

\* The newest item of a page that is being recorded is a post of the window.
LEMMA NewestInPage ==
  ASSUME TypeOK, NEW s \in Sources, Sound(s), step[s] \in {"prefix", "advance"}, truncated[s]
  PROVE  \E m \in page[s] :
           /\ Newest(s) = Date(s, m) /\ m \in 1 .. Len(chan[s]) /\ Date(s, m) \in Nat
           /\ from[s] <= Date(s, m) /\ Date(s, m) <= end /\ Date(s, m) <= Second
           /\ \A i \in 1 .. Len(chan[s]) : from[s] <= Date(s, i) /\ Date(s, i) < Date(s, m) => i \in stored[s]
<1>1. Paged(s)
  BY DEF Sound, Read
<1>2. PICK m \in page[s] : Newest(s) = Date(s, m) /\ \A j \in page[s] : j <= m
  BY <1>1, NewestIs DEF Paged
<1>3. m \in 1 .. Len(chan[s]) /\ chan[s] \in Seq(Nat) /\ Len(chan[s]) \in Nat
  BY <1>1 DEF Paged, TypeOK
<1>4. \A i \in 1 .. Len(chan[s]) : Date(s, i) \in Nat
  BY <1>3 DEF Date
<1>5. Date(s, m) <= Second /\ from[s] <= Date(s, m) /\ Date(s, m) <= end
  BY <1>1, <1>3 DEF Paged, Sound, Dated
<1>6. ASSUME NEW i \in 1 .. Len(chan[s]), from[s] <= Date(s, i), Date(s, i) < Date(s, m)
      PROVE  i \in stored[s]
  <2>1. i <= m
    <3> SUFFICES ASSUME ~(i <= m) PROVE FALSE
      OBVIOUS
    <3>1. m \in 1 .. i
      BY <1>3
    <3>2. Date(s, m) <= Date(s, i)
      BY <3>1 DEF Sound, Dated
    <3> QED BY <1>3, <1>4, <1>6, <3>2
  <2>2. i \in 1 .. m
    BY <1>3, <2>1
  <2> QED BY <1>1, <1>6, <2>2 DEF Paged
<1> QED BY <1>2, <1>3, <1>4, <1>5, <1>6

\* Progress is a time up to the window's end.
LEMMA ProgressIs ==
  ASSUME TypeOK, NEW s \in Sources, Sound(s), step[s] = "advance", end # NoTime
  PROVE  Progress(s) \in Nat /\ Progress(s) <= end
<1>1. CASE truncated[s]
  BY <1>1, NewestInPage DEF Progress
<1>2. CASE ~truncated[s]
  BY <1>2 DEF Progress, TypeOK
<1> QED BY <1>1, <1>2

-----------------------------------------------------------------------------
(* Types.                                                                  *)

\* Every step keeps the types.
LEMMA TypeKeeps == ASSUME Setting, IInv, [Next]_vars PROVE TypeOK'
<1>a. TypeOK /\ Clock /\ \A s \in Sources : Sound(s)
  BY DEF IInv
<1>b. \A s \in Sources : step[s] # "idle" => end # NoTime
  BY <1>a DEF Sound, Timed
<1>c. NoTime \notin Nat
  BY DEF NoTime
<1>0. /\ TypeOK /\ Clock /\ \A s \in Sources : Sound(s) /\ (step[s] # "idle" => end # NoTime)
      /\ NoTime \notin Nat
  BY <1>a, <1>b, <1>c
<1> USE DEF TypeOK
<1>1. CASE Tick
  BY <1>0, <1>1 DEF Tick, db, local
<1>2. CASE StartRun
  BY <1>0, <1>2, ConstantsAre DEF StartRun, db, Steps
<1>3. CASE Forget /\ (UNCHANGED delayed \/ delayed' = [s \in Sources |-> 0])
  BY <1>0, <1>3, SMTT(20) DEF Forget, db, Steps
<1>4. ASSUME NEW s \in Sources, Publish(s) PROVE TypeOK'
  <2>1. \A r \in Sources : stored[r] \subseteq 1 .. Len(chan'[r])
    <3>1. ASSUME NEW r \in Sources PROVE 1 .. Len(chan[r]) \subseteq 1 .. Len(chan'[r])
      <4>1. CASE r = s
        <5>1. Len(chan[s]) \in Nat /\ Len(chan'[s]) = Len(chan[s]) + 1
          BY <1>0, <1>4, PublishIs
        <5> QED BY <4>1, <5>1
      <4>2. CASE r # s
        BY <1>0, <1>4, <4>2, PublishIs
      <4> QED BY <4>1, <4>2
    <3> QED BY <1>0, <3>1
  <2>2. chan' \in [Sources -> Seq(Nat)] /\ late' \in [Sources -> SUBSET (Nat \ {0})]
    BY <1>0, <1>4, PublishIs
  <2> QED BY <1>0, <1>4, <2>1, <2>2 DEF Publish, db, local
<1>5. ASSUME NEW s \in Sources, SkipCovered(s) \/ SkipDelayed(s) PROVE TypeOK'
  BY <1>0, <1>5 DEF SkipCovered, SkipDelayed, db, Steps
<1>6. ASSUME NEW s \in Sources, SkipCapped(s) PROVE TypeOK'
  BY <1>0, <1>6 DEF SkipCapped, db, Steps
<1>7. ASSUME NEW s \in Sources, BeginRead(s) PROVE TypeOK'
  <2>1. ReadFloor(s) \in Nat /\ Cursor(s) \in Nat
    BY <1>0, <1>7, FloorIs, CursorIs DEF BeginRead, MayBegin
  <2>2. Smaller(PostCap, left) \in Nat /\ left - Smaller(PostCap, left) \in Nat
    BY <1>0, ConstantsAre DEF Smaller
  <2> QED BY <1>0, <1>7, <2>1, <2>2 DEF BeginRead, db, Steps
<1>8. ASSUME NEW s \in Sources, BeginRaise(s) PROVE TypeOK'
  <2>1. left - Smaller(PostCap, left) \in Nat
    BY <1>0, ConstantsAre DEF Smaller
  <2>2. left' \in Nat /\ delayed' \in [Sources -> Nat]
    <3>1. CASE UNCHANGED <<left, delayed>>
      BY <1>0, <3>1
    <3>2. CASE delayed' = [delayed EXCEPT ![s] = 0] /\ left' = left - Smaller(PostCap, left)
      BY <1>0, <2>1, <3>2
    <3> QED BY <1>8, <3>1, <3>2 DEF BeginRaise
  <2>3. step' \in [Sources -> Steps]
    BY <1>0, <1>8 DEF BeginRaise, Steps
  <2> QED BY <1>0, <1>8, <2>2, <2>3 DEF BeginRaise, db
<1>9. ASSUME NEW s \in Sources, NEW P, ReadOk(s, P) PROVE TypeOK'
  <2>1. Cardinality(P) \in Nat /\ Cardinality(P) <= held[s] /\ P \subseteq Nat \ {0}
    <3>1. P \subseteq 1 .. Len(chan[s]) /\ Cardinality(P) \in Nat /\ Cardinality(P) <= held[s]
      BY <1>0, <1>9, PageIs DEF ReadOk
    <3> QED BY <1>0, <3>1
  <2>2. left + held[s] - Cardinality(P) \in Nat /\ used + Cardinality(P) \in Nat
    BY <1>0, <2>1
  <2> QED BY <1>0, <1>9, <2>1, <2>2 DEF ReadOk, db, Steps
<1>10. ASSUME NEW s \in Sources, ReadRaise(s) PROVE TypeOK'
  BY <1>0, <1>10, SMTT(20) DEF ReadRaise, db, Steps
<1>11. ASSUME NEW s \in Sources, NEW until \in {0, now + 2}, ReadError(s, until) PROVE TypeOK'
  BY <1>0, <1>11, SMTT(20) DEF ReadError, Steps
<1>12. ASSUME NEW s \in Sources, StoreItems(s) PROVE TypeOK'
  <2>1. page[s] \subseteq 1 .. Len(chan[s])
    BY <1>0, <1>12 DEF StoreItems, Sound, Read, Paged
  <2> QED BY <1>0, <1>12, <2>1, SMTT(20) DEF StoreItems, Steps
<1>13. ASSUME NEW s \in Sources, MarkCoverage(s) PROVE TypeOK'
  BY <1>0, <1>13, SMTT(20) DEF MarkCoverage, Steps
<1>14. ASSUME NEW s \in Sources, MarkPrefix(s) PROVE TypeOK'
  <2>1. Newest(s) \in Nat
    BY <1>0, <1>14, NewestInPage DEF MarkPrefix, Sound, Read
  <2> QED BY <1>0, <1>14, <2>1, SMTT(20) DEF MarkPrefix, Steps
<1>15. ASSUME NEW s \in Sources, Advance(s) PROVE TypeOK'
  <2>1. Larger(watermark[s], Progress(s)) \in Nat \cup {NoTime}
    BY <1>0, <1>15, ProgressIs DEF Advance, Larger
  <2> QED BY <1>0, <1>15, <2>1, SMTT(20) DEF Advance, Steps
<1>16. ASSUME NEW s \in Sources, StoreRaise(s) PROVE TypeOK'
  BY <1>0, <1>16 DEF StoreRaise, db, Steps
<1>17. CASE UNCHANGED vars
  BY <1>0, <1>17 DEF vars, db, local
<1> QED BY <1>1, <1>2, <1>3, <1>4, <1>5, <1>6, <1>7, <1>8, <1>9, <1>10, <1>11, <1>12, <1>13,
           <1>14,
           <1>15, <1>16, <1>17 DEF Next, EndRun, Restart

-----------------------------------------------------------------------------
(* The budget.                                                             *)

\* Every step keeps the budget: what a read reserves is taken from what is left,
\* and what it does not use is given back.
LEMMA BudgetKeeps == ASSUME Setting, IInv, TypeOK', [Next]_vars PROVE Budgeted'
<1>0. /\ TypeOK /\ Budgeted /\ IsFiniteSet(Sources) /\ RunCap \in Nat
      /\ \A s \in Sources : held[s] \in Nat /\ held'[s] \in Nat
      /\ held \in [Sources -> Nat] /\ step \in [Sources -> Steps]
      /\ left \in Nat /\ used \in Nat /\ Sum(held, Sources) \in Nat
      /\ left' \in Nat /\ used' \in Nat
  BY SourcesFinite, ConstantsAre, SumNat DEF IInv, TypeOK
<1>1. ASSUME UNCHANGED <<held, left, used>>, \A s \in Sources : step[s] = "read" <=> step'[s] = "read"
      PROVE  Budgeted'
  BY <1>0, <1>1 DEF Budgeted
<1>2. ASSUME left' \in Nat, used' = 0 \/ used' = used,
             held' = [s \in Sources |-> 0], \A s \in Sources : step'[s] # "read",
             used' + left' <= RunCap
      PROVE  Budgeted'
  <2>1. Sum(held', Sources) = 0
    <3>1. Units(held', Sources) = {}
      BY <1>2 DEF Units
    <3> QED BY <3>1, FS_EmptySet DEF Sum
  <2>2. \A s \in Sources : step'[s] = "read" <=> held'[s] > 0
    BY <1>2
  <2>3. used' + left' + Sum(held', Sources) <= RunCap
    <3>1. PICK u \in Nat, l \in Nat : u = used' /\ l = left' /\ u + l <= RunCap
      BY <1>0, <1>2
    <3>2. u + l + 0 <= RunCap
      BY <3>1
    <3> QED BY <2>1, <3>1, <3>2
  <2> QED BY <2>2, <2>3 DEF Budgeted
<1>3. ASSUME NEW s \in Sources, NEW h \in Nat, held' = [held EXCEPT ![s] = h],
             used' + left' + h <= used + left + held[s],
             \A r \in Sources : step'[r] = "read" <=> held'[r] > 0
      PROVE  Budgeted'
  <2>1. Sum(held', Sources) = Sum(held, Sources) - held[s] + h
    <3>1. \A r \in Sources : r # s => held'[r] = held[r]
      BY <1>0, <1>3
    <3>2. held'[s] = h
      BY <1>0, <1>3 DEF TypeOK
    <3> QED BY <1>0, <3>1, <3>2, SumUpdate
  <2>2. used' \in Nat /\ left' \in Nat
    BY DEF TypeOK
  <2> QED BY <1>0, <1>3, <2>1, <2>2 DEF Budgeted
<1>4. CASE Tick \/ UNCHANGED vars \/ \E s \in Sources : Publish(s)
  BY <1>1, <1>4 DEF Tick, Publish, vars, db, local
<1>5. CASE StartRun
  <2>1. \A s \in Sources : held[s] = 0 /\ step'[s] # "read"
    <3>1. ASSUME NEW s \in Sources PROVE step[s] = "idle"
      <4>1. end = NoTime /\ Timed(s)
        BY <1>5 DEF StartRun, IInv, Sound
      <4> QED BY <4>1 DEF Timed
    <3>2. \A s \in Sources : held[s] \in Nat /\ (step[s] = "read" <=> held[s] > 0)
      BY <1>0 DEF Budgeted, TypeOK
    <3>3. \A s \in Sources : step'[s] = "queued"
      BY <1>5 DEF StartRun
    <3> QED BY <3>1, <3>2, <3>3
  <2>2. held = [s \in Sources |-> 0]
    BY <1>0, <2>1 DEF TypeOK
  <2> QED BY <1>0, <1>2, <1>5, <2>1, <2>2 DEF StartRun
<1>6. CASE Forget
  <2>1. used <= RunCap
    BY <1>0 DEF Budgeted
  <2> QED BY <1>0, <1>2, <1>6, <2>1 DEF Forget
<1>7. ASSUME NEW s \in Sources, step[s] # "read", UNCHANGED <<held, used>>, left' <= left,
             \A r \in Sources : r # s => step'[r] = step[r], step'[s] # "read"
      PROVE  Budgeted'
  BY <1>0, <1>7 DEF Budgeted
<1>8. ASSUME NEW s \in Sources, SkipCovered(s) \/ SkipDelayed(s) \/ SkipCapped(s)
      PROVE  Budgeted'
  <2>1. UNCHANGED <<held, used, left>> /\ step[s] = "queued" /\ step' = [step EXCEPT ![s] = "done"]
    BY <1>8 DEF SkipCovered, SkipDelayed, SkipCapped, MayBegin
  <2> QED BY <1>0, <1>7, <2>1
<1>9. ASSUME NEW s \in Sources, BeginRaise(s) PROVE Budgeted'
  <2>1. left' <= left
    BY <1>0, <1>9, ConstantsAre DEF BeginRaise, Smaller
  <2>2. /\ \A r \in Sources : r # s => step'[r] = step[r]
        /\ step'[s] = "done" /\ step[s] = "queued" /\ UNCHANGED <<held, used>>
    BY <1>0, <1>9 DEF BeginRaise, MayBegin, TypeOK
  <2> QED BY <1>7, <2>1, <2>2
<1>10. ASSUME NEW s \in Sources, StoreItems(s) \/ MarkCoverage(s) \/ MarkPrefix(s) \/ Advance(s) \/ StoreRaise(s)
       PROVE  Budgeted'
  <2>1. UNCHANGED <<held, used, left>>
    BY <1>10 DEF StoreItems, MarkCoverage, MarkPrefix, Advance, StoreRaise
  <2>2. /\ step[s] # "read"
        /\ \E t \in Steps \ {"read"} : step' = [step EXCEPT ![s] = t]
    BY <1>10 DEF StoreItems, MarkCoverage, MarkPrefix, Advance, StoreRaise, Steps
  <2> QED BY <1>0, <1>7, <2>1, <2>2
<1>11. ASSUME NEW s \in Sources, BeginRead(s) PROVE Budgeted'
  <2> DEFINE h == Smaller(PostCap, left)
  <2>1. h \in Nat /\ h > 0 /\ left \in Nat
    BY <1>0, <1>11, ConstantsAre DEF BeginRead, Smaller
  <2>2. held' = [held EXCEPT ![s] = h] /\ held'[s] = h /\ left' = left - h /\ used' = used
    BY <1>0, <1>11 DEF BeginRead, TypeOK
  <2>3. /\ \A r \in Sources : r # s => step'[r] = step[r] /\ held'[r] = held[r]
        /\ step'[s] = "read"
    BY <1>0, <1>11 DEF BeginRead, TypeOK
  <2> HIDE DEF h
  <2>4. \A r \in Sources : step'[r] = "read" <=> held'[r] > 0
    BY <1>0, <2>1, <2>2, <2>3 DEF Budgeted
  <2>5. used' + left' + h <= used + left + held[s]
    BY <1>0, <2>1, <2>2
  <2> QED BY <1>3, <2>1, <2>2, <2>4, <2>5
<1>12. ASSUME NEW s \in Sources, NEW n \in Nat, n <= held[s], held' = [held EXCEPT ![s] = 0],
              left' = left + held[s] - n, used' = used + n,
              \A r \in Sources : r # s => step'[r] = step[r], step'[s] # "read"
       PROVE  Budgeted'
  <2>1. \A r \in Sources : step'[r] = "read" <=> held'[r] > 0
    <3>1. held'[s] = 0 /\ \A r \in Sources : r # s => held'[r] = held[r]
      BY <1>0, <1>12 DEF TypeOK
    <3> QED BY <1>0, <1>12, <3>1 DEF Budgeted
  <2>2. used' + left' + 0 <= used + left + held[s]
    BY <1>0, <1>12
  <2> QED BY <1>0, <1>3, <1>12, <2>1, <2>2
<1>13. ASSUME NEW s \in Sources, NEW P, ReadOk(s, P) PROVE Budgeted'
  <2>1. Cardinality(P) \in Nat /\ Cardinality(P) <= held[s]
    BY <1>0, <1>13, PageIs DEF ReadOk
  <2>2. /\ \A r \in Sources : r # s => step'[r] = step[r]
        /\ step'[s] # "read"
        /\ held' = [held EXCEPT ![s] = 0]
        /\ left' = left + held[s] - Cardinality(P) /\ used' = used + Cardinality(P)
    BY <1>0, <1>13 DEF ReadOk, TypeOK
  <2> QED BY <1>12, <2>1, <2>2
<1>14. ASSUME NEW s \in Sources, ReadRaise(s) \/ \E until \in {0, now + 2} : ReadError(s, until)
       PROVE  Budgeted'
  <2>1. /\ \A r \in Sources : r # s => step'[r] = step[r]
        /\ step'[s] # "read"
        /\ held' = [held EXCEPT ![s] = 0] /\ left' = left + held[s] - 0 /\ used' = used + 0
    BY <1>0, <1>14 DEF ReadRaise, ReadError
  <2>2. 0 \in Nat /\ 0 <= held[s]
    BY <1>0
  <2> QED BY <1>12, <2>1, <2>2
<1> QED BY <1>4, <1>5, <1>6, <1>8, <1>9, <1>10, <1>11, <1>13, <1>14 DEF Next, EndRun, Restart

-----------------------------------------------------------------------------
(* What each part of Sound depends on.                                     *)

\* A part whose variables do not change goes on holding; the clock may go on.
LEMMA Frames ==
  ASSUME NEW s \in Sources, UNCHANGED chan[s]
  PROVE  /\ UNCHANGED now => (Dated(s) => Dated(s)')
         /\ UNCHANGED stored[s] => (InOrder(s) => InOrder(s)')
         /\ UNCHANGED <<end, stored[s], watermark[s], from[s], after[s]>> => (Begun(s) => Begun(s)')
         /\ UNCHANGED <<stored[s], watermark[s], from[s], after[s]>> => (Resumed(s) => Resumed(s)')
         /\ UNCHANGED <<end, stored[s], late[s], from[s], page[s], truncated[s]>>
                /\ (step'[s] # "save" => step[s] # "save") => (Paged(s) => Paged(s)')
         /\ UNCHANGED <<end, from[s], page[s], truncated[s], spans[s]>> => (Marked(s) => Marked(s)')
         /\ UNCHANGED <<stored[s], late[s], spans[s]>> => (Covered(s) => Covered(s)')
         /\ UNCHANGED <<stored[s], late[s], since[s], watermark[s]>> => (Skipless(s) => Skipless(s)')
         /\ UNCHANGED <<end, watermark[s], spans[s], since[s]>>
                /\ (step'[s] = "complete" => step[s] = "complete") => (Reached(s) => Reached(s)')
<1>0. \A i : Date(s, i)' = Date(s, i)
  BY DEF Date
<1>1. UNCHANGED now => (Dated(s) => Dated(s)')
  BY <1>0 DEF Dated, Second
<1>2. UNCHANGED stored[s] => (InOrder(s) => InOrder(s)')
  BY <1>0 DEF InOrder
<1>3. UNCHANGED <<end, stored[s], watermark[s], from[s], after[s]>> => (Begun(s) => Begun(s)')
  BY <1>0 DEF Begun, ReadFloor
<1>4. UNCHANGED <<stored[s], watermark[s], from[s], after[s]>> => (Resumed(s) => Resumed(s)')
  BY <1>0 DEF Resumed
<1>5. UNCHANGED <<end, stored[s], late[s], from[s], page[s], truncated[s]>>
        /\ (step'[s] # "save" => step[s] # "save") => (Paged(s) => Paged(s)')
  BY <1>0 DEF Paged
<1>6. UNCHANGED <<end, from[s], page[s], truncated[s], spans[s]>> => (Marked(s) => Marked(s)')
  BY DEF Marked, Newest, Date
<1>7. UNCHANGED <<stored[s], late[s], spans[s]>> => (Covered(s) => Covered(s)')
  BY <1>0 DEF Covered
<1>8. UNCHANGED <<stored[s], late[s], since[s], watermark[s]>> => (Skipless(s) => Skipless(s)')
  BY <1>0 DEF Skipless
<1>9. UNCHANGED <<end, watermark[s], spans[s], since[s]>>
        /\ (step'[s] = "complete" => step[s] = "complete") => (Reached(s) => Reached(s)')
  BY DEF Reached
<1> QED BY <1>1, <1>2, <1>3, <1>4, <1>5, <1>6, <1>7, <1>8, <1>9

\* A source that nothing touches stays sound.
LEMMA SoundFrame ==
  ASSUME NEW s \in Sources, Sound(s), UNCHANGED <<now, end>>,
         UNCHANGED <<chan[s], stored[s], spans[s], watermark[s], step[s], from[s], after[s], page[s],
                     truncated[s], since[s], late[s]>>
  PROVE  Sound(s)'
<1>1. Timed(s)'
  BY DEF Sound, Timed, Second
<1>2. Read(s)'
  BY Frames DEF Sound, Read
<1> QED BY <1>1, <1>2, Frames DEF Sound

\* A read that ends without a result leaves the source sound.
LEMMA Stops ==
  ASSUME NEW s \in Sources, Sound(s), UNCHANGED <<now, end>>, end # NoTime,
         UNCHANGED <<chan[s], stored[s], spans[s], watermark[s], since[s], late[s]>>,
         step'[s] = "done"
  PROVE  Sound(s)'
<1>1. Timed(s)'
  BY DEF Sound, Timed, Second
<1>2. Read(s)'
  BY DEF Read
<1> QED BY <1>1, <1>2, Frames DEF Sound

-----------------------------------------------------------------------------
(* What each operation keeps of its source.                                *)

\* What is known of a source while a call is under way.
LEMMA Known ==
  ASSUME Setting, IInv, NEW s \in Sources
  PROVE  /\ Sound(s) /\ TypeOK /\ Clock /\ chan[s] \in Seq(Nat) /\ Len(chan[s]) \in Nat
         /\ \A i \in 1 .. Len(chan[s]) : Date(s, i) \in Nat
         /\ stored[s] \subseteq 1 .. Len(chan[s]) /\ spans[s] \subseteq Nat \X Nat
         /\ watermark[s] \in Int /\ since[s] \in Int /\ from[s] \in Nat /\ after[s] \in Nat
         /\ now \in Nat /\ Second \in Nat /\ Second <= now /\ now <= Second + 1
         /\ NoTime = -1 /\ end \in Int
         /\ step[s] # "idle" => end # NoTime
         /\ end # NoTime => end \in Nat
<1>1. TypeOK /\ Clock /\ Sound(s)
  BY DEF IInv
<1>2. chan[s] \in Seq(Nat) /\ now \in Nat /\ NoTime = -1
  BY <1>1 DEF TypeOK, NoTime
<1>3. Second \in Nat /\ Second <= now /\ now <= Second + 1
  BY <1>2, SecondIs
<1>4. Len(chan[s]) \in Nat /\ \A i \in 1 .. Len(chan[s]) : Date(s, i) \in Nat
  BY <1>2 DEF Date
<1>5. /\ stored[s] \subseteq 1 .. Len(chan[s]) /\ spans[s] \subseteq Nat \X Nat
      /\ watermark[s] \in Int /\ since[s] \in Int /\ from[s] \in Nat /\ after[s] \in Nat
      /\ end \in Int /\ (end # NoTime => end \in Nat)
  BY <1>1 DEF TypeOK, NoTime
<1>6. step[s] # "idle" => end # NoTime
  BY <1>1 DEF Sound, Timed
<1> QED BY <1>1, <1>2, <1>3, <1>4, <1>5, <1>6

\* The clock goes on.
LEMMA TickKeeps ==
  ASSUME Setting, IInv, TypeOK', Tick, NEW s \in Sources PROVE Sound(s)'
<1>1. /\ UNCHANGED <<chan[s], stored[s], spans[s], watermark[s], step[s], from[s], after[s], page[s],
                     truncated[s], since[s], late[s], end>>
      /\ now' = now + 1
  BY DEF Tick, db, local
<1>2. Sound(s) /\ now \in Nat /\ chan[s] \in Seq(Nat) /\ end \in Int /\ watermark[s] \in Int
      /\ spans[s] \subseteq Nat \X Nat
  BY Known
<1>3. Second \in Nat /\ Second' \in Nat /\ Second <= Second'
  BY <1>1, <1>2 DEF Second
<1>4. Timed(s)'
  <2> HIDE DEF Second
  <2>1. Timed(s)
    BY <1>2 DEF Sound
  <2>2. \A x \in spans[s] : x[2] \in Nat
    BY <1>2
  <2> QED BY <1>1, <1>2, <1>3, <2>1, <2>2 DEF Timed
<1>5. Dated(s)'
  <2>1. \A i \in 1 .. Len(chan[s]) : Date(s, i) \in Nat /\ Date(s, i)' = Date(s, i)
    BY <1>1, <1>2 DEF Date
  <2>2. Len(chan[s])' = Len(chan[s]) /\ Len(chan[s]) \in Nat
    BY <1>1, <1>2
  <2>3. \A i \in 1 .. Len(chan[s]) : 1 .. i \subseteq 1 .. Len(chan[s])
    BY <2>2
  <2> QED BY <1>2, <1>3, <2>1, <2>2, <2>3 DEF Sound, Dated
<1>6. Read(s)'
  BY <1>1, <1>2, Frames DEF Sound, Read
<1> QED BY <1>1, <1>2, <1>4, <1>5, <1>6, Frames DEF Sound

\* A call begins.
LEMMA StartKeeps ==
  ASSUME Setting, IInv, TypeOK', StartRun, NEW s \in Sources PROVE Sound(s)'
<1>1. /\ UNCHANGED <<chan[s], stored[s], spans[s], watermark[s], since[s], late[s], now>>
      /\ step'[s] = "queued" /\ end' = now
  BY DEF StartRun, db
<1>2. Sound(s) /\ now \in Nat /\ watermark[s] \in Int /\ Second \in Nat /\ Second <= now
      /\ NoTime = -1 /\ spans[s] \subseteq Nat \X Nat
  BY Known
<1>3. \A x \in spans[s] : x[2] \in Nat /\ x[2] <= now
  BY <1>2 DEF Sound, Timed
<1>4. Timed(s)'
  <2>1. watermark[s] <= now
    BY <1>2 DEF Sound, Timed
  <2> QED BY <1>1, <1>2, <1>3, <2>1 DEF Timed
<1>5. Read(s)'
  BY <1>1 DEF Read
<1>6. Reached(s)'
  BY <1>1, <1>2 DEF Sound, Reached
<1> QED BY <1>1, <1>2, <1>4, <1>5, <1>6, Frames DEF Sound

\* A call ends, or the process dies.
LEMMA ForgetKeeps ==
  ASSUME Setting, IInv, TypeOK', Forget, NEW s \in Sources PROVE Sound(s)'
<1>1. /\ UNCHANGED <<chan[s], stored[s], spans[s], watermark[s], since[s], late[s], now>>
      /\ step'[s] = "idle" /\ end' = NoTime
  BY DEF Forget, db
<1>2. Sound(s)
  BY Known
<1>3. Timed(s)'
  BY <1>1, <1>2 DEF Sound, Timed, Second
<1>4. Read(s)'
  BY <1>1 DEF Read
<1>5. Reached(s)'
  BY <1>1, <1>2 DEF Sound, Reached
<1> QED BY <1>1, <1>2, <1>3, <1>4, <1>5, Frames DEF Sound

\* A new post is dated after everything recorded and every window being read, or
\* too late for it.
LEMMA PublishKeeps ==
  ASSUME Setting, IInv, TypeOK', NEW s \in Sources, Publish(s) PROVE Sound(s)'
<1> DEFINE n == Len(chan[s])
           D(i) == Date(s, i)
<1>1. /\ UNCHANGED <<now, end, stored[s], spans[s], watermark[s], step[s], from[s], after[s], page[s],
                     truncated[s], since[s]>>
      /\ n \in Nat /\ Len(chan[s])' = n + 1
      /\ \A i \in 1 .. n : Date(s, i)' = D(i)
      /\ \A i \in 1 .. n + 1 : i > n => Date(s, i)' = Second
      /\ late[s] \subseteq late'[s]
      /\ TooLate(s) => n + 1 \in late'[s]
  BY Known, PublishIs
<1>2. /\ Sound(s) /\ Clock /\ Second \in Nat /\ Second' = Second /\ now <= Second + 1
      /\ \A i \in 1 .. n : D(i) \in Nat
      /\ stored[s] \subseteq 1 .. n /\ spans[s] \subseteq Nat \X Nat /\ watermark[s] \in Int
      /\ from[s] \in Nat /\ after[s] \in Nat /\ end \in Int /\ since[s] \in Int /\ now \in Nat
  BY <1>1, Known DEF Second
<1>3. 1 .. n \subseteq 1 .. n + 1 /\ (\A i \in 1 .. n + 1 : i > n => i = n + 1)
      /\ \A i \in 1 .. n : 1 .. i \subseteq 1 .. n
  BY <1>1
<1> HIDE DEF n, D, Second
<1>4. Timed(s)'
  BY <1>1, <1>2 DEF Sound, Timed
<1>5. Dated(s)'
  <2>1. \A i \in 1 .. n : D(i) <= Second /\ \A j \in 1 .. i : D(j) <= D(i)
    BY <1>2 DEF Sound, Dated, n, D
  <2>2. ASSUME NEW i \in 1 .. n + 1
        PROVE  Date(s, i)' <= Second /\ \A j \in 1 .. i : Date(s, j)' <= Date(s, i)'
    <3>1. CASE i \in 1 .. n
      BY <1>1, <1>2, <1>3, <2>1, <3>1
    <3>2. CASE i > n
      <4>1. Date(s, i)' = Second /\ i = n + 1
        BY <1>1, <1>3, <3>2
      <4>2. \A j \in 1 .. n + 1 : Date(s, j)' <= Second
        BY <1>1, <1>2, <1>3, <2>1
      <4> QED BY <1>2, <4>1, <4>2
    <3> QED BY <1>1, <3>1, <3>2
  <2>3. (1 .. Len(chan[s]))' = 1 .. n + 1
    BY <1>1
  <2> QED BY <1>2, <2>2, <2>3 DEF Dated
<1>6. InOrder(s)'
  BY <1>1, <1>2, <1>3 DEF Sound, InOrder, D
<1>7. Begun(s) => Begun(s)'
  <2>1. \A i \in 1 .. after[s] : after[s] <= n => i \in 1 .. n
    BY <1>1, <1>2
  <2> QED BY <1>1, <1>2, <2>1 DEF Begun, ReadFloor, n, D
<1>8. Resumed(s) => Resumed(s)'
  BY <1>1, <1>2 DEF Resumed, D
<1>9. ASSUME Paged(s), step[s] \in {"save", "mark", "prefix", "advance"}, step[s] = "prefix" => truncated[s]
      PROVE  Paged(s)'
  <2>1. end <= now
    BY <1>2, <1>9, Known DEF Clock
  <2>2. ASSUME NEW i \in page[s]
        PROVE  /\ i \in 1 .. n + 1 /\ from[s] <= Date(s, i)' /\ Date(s, i)' <= end
               /\ \A j \in 1 .. i : Date(s, j)' >= from[s] => j \in page[s] \cup stored[s]
    BY <1>1, <1>3, <1>9, <2>2 DEF Paged, n, D
  <2>3. ASSUME ~truncated[s], NEW j \in 1 .. n + 1, from[s] <= Date(s, j)', Date(s, j)' <= end
        PROVE  j \in page[s] \cup stored[s] \cup late'[s]
    <3>1. CASE j > n
      <4>1. j = n + 1 /\ from[s] <= Second /\ EndedNow(end)
        BY <1>1, <1>3, <2>1, <2>3, <3>1 DEF EndedNow
      <4> QED BY <1>1, <1>9, <2>3, <4>1 DEF TooLate
    <3>2. CASE ~(j > n)
      <4>1. j \in 1 .. n
        BY <1>1, <3>2
      <4> QED BY <1>1, <1>9, <2>3, <4>1 DEF Paged, n, D
    <3> QED BY <3>1, <3>2
  <2>4. /\ truncated[s] => page[s] # {}
        /\ step[s] # "save" => page[s] \subseteq stored[s]
    BY <1>9 DEF Paged
  <2>5. (1 .. Len(chan[s]))' = 1 .. n + 1
    BY <1>1
  <2> QED BY <1>1, <2>2, <2>3, <2>4, <2>5 DEF Paged
<1>10. ASSUME Paged(s), Marked(s) PROVE Marked(s)'
  <2>1. CASE truncated[s]
    <3>1. page[s] \subseteq 1 .. n /\ page[s] # {}
      BY <1>10, <2>1 DEF Paged, n
    <3>2. PICK m \in 1 .. n : m = CHOOSE i \in page[s] : \A j \in page[s] : j <= i
      BY <1>1, <3>1, MaxExists
    <3>3. Newest(s) = D(m) /\ Newest(s)' = Date(s, m)'
      BY <1>1, <3>2 DEF Newest, D, Date
    <3>4. Newest(s)' = Newest(s)
      BY <1>1, <3>2, <3>3
    <3> QED BY <1>1, <1>10, <3>4 DEF Marked
  <2>2. CASE ~truncated[s]
    BY <1>1, <1>10, <2>2 DEF Marked
  <2> QED BY <2>1, <2>2
<1>11. Read(s)'
  BY <1>1, <1>2, <1>7, <1>8, <1>9, <1>10 DEF Sound, Timed, Read
<1>12. Covered(s)'
  <2>1. ASSUME NEW x \in spans[s], NEW i \in 1 .. n + 1, x[1] <= Date(s, i)', Date(s, i)' <= x[2]
        PROVE  i \in stored[s] \cup late'[s]
    <3>1. x[2] <= now
      BY <1>2 DEF Sound, Timed
    <3>2. CASE i > n
      <4>1. i = n + 1 /\ x[1] <= Second /\ EndedNow(x[2])
        BY <1>1, <1>3, <2>1, <3>1, <3>2 DEF EndedNow
      <4> QED BY <1>1, <2>1, <4>1 DEF TooLate
    <3>3. CASE ~(i > n)
      <4>1. i \in 1 .. n
        BY <1>1, <3>3
      <4> QED BY <1>1, <1>2, <2>1, <4>1 DEF Sound, Covered, n, D
    <3> QED BY <3>2, <3>3
  <2>2. (1 .. Len(chan[s]))' = 1 .. n + 1
    BY <1>1
  <2> QED BY <1>1, <2>1, <2>2 DEF Covered
<1>13. Skipless(s)'
  <2>1. ASSUME NEW i \in 1 .. n + 1, since[s] <= Date(s, i)', Date(s, i)' < watermark[s]
        PROVE  i \in stored[s] \cup late'[s]
    <3>1. watermark[s] <= now
      BY <1>2 DEF Sound, Timed
    <3>2. CASE i > n
      <4>1. i = n + 1 /\ Second < watermark[s]
        BY <1>1, <1>3, <2>1, <3>2
      <4>2. EndedNow(watermark[s]) /\ watermark[s] # Second
        BY <1>2, <3>1, <4>1 DEF EndedNow
      <4> QED BY <1>1, <4>1, <4>2 DEF TooLate
    <3>3. CASE ~(i > n)
      <4>1. i \in 1 .. n
        BY <1>1, <3>3
      <4> QED BY <1>1, <1>2, <2>1, <4>1 DEF Sound, Skipless, n, D
    <3> QED BY <3>2, <3>3
  <2>2. (1 .. Len(chan[s]))' = 1 .. n + 1
    BY <1>1
  <2> QED BY <1>1, <2>1, <2>2 DEF Skipless
<1>14. Reached(s)'
  BY <1>1, <1>2 DEF Sound, Reached
<1> QED BY <1>4, <1>5, <1>6, <1>11, <1>12, <1>13, <1>14 DEF Sound

\* A source that is not read stays as it was.
LEMMA SkipKeeps ==
  ASSUME Setting, IInv, TypeOK', NEW s \in Sources,
         \/ SkipCovered(s) \/ SkipDelayed(s) \/ SkipCapped(s) \/ BeginRaise(s)
         \/ ReadRaise(s) \/ StoreRaise(s)
  PROVE  Sound(s)'
<1>1. /\ UNCHANGED <<now, end, chan[s], stored[s], spans[s], watermark[s], since[s], late[s]>>
      /\ step[s] # "idle" /\ \E t \in {"done"} : step' = [step EXCEPT ![s] = t]
  BY DEF SkipCovered, SkipDelayed, SkipCapped, BeginRaise, ReadRaise, StoreRaise, MayBegin,
         Reading, db
<1>2. step'[s] = "done"
  BY <1>1, Known DEF TypeOK
<1> QED BY <1>1, <1>2, Known, Stops

\* A read that failed was of a window not recorded yet: nothing is withdrawn.
LEMMA ErrorKeeps ==
  ASSUME Setting, IInv, TypeOK', NEW s \in Sources, NEW until \in {0, now + 2}, ReadError(s, until)
  PROVE  Sound(s)'
<1>1. /\ UNCHANGED <<now, end, chan[s], stored[s], watermark[s], since[s], late[s]>>
      /\ step[s] = "read" /\ step'[s] = "done"
  BY Known DEF ReadError, Reading, TypeOK
<1>3. <<from[s], end>> \notin spans[s]
  BY <1>1, Known DEF Sound, Timed
<1>4. spans'[s] = spans[s]
  <2>1. spans'[s] = spans[s] \ {<<from[s], end>>}
    BY Known DEF ReadError, TypeOK
  <2> QED BY <1>3, <2>1
<1> QED BY <1>1, <1>4, Known, Stops

\* A read begins behind nothing that is not stored.
LEMMA BeginKeeps ==
  ASSUME Setting, IInv, TypeOK', NEW s \in Sources, BeginRead(s) PROVE Sound(s)'
<1>1. /\ UNCHANGED <<now, end, chan[s], stored[s], spans[s], watermark[s], since[s], late[s], page[s], truncated[s]>>
      /\ step[s] = "queued" /\ step'[s] = "read"
      /\ from'[s] = ReadFloor(s) /\ after'[s] = Cursor(s)
  BY Known DEF BeginRead, MayBegin, TypeOK, db
<1>2. /\ Sound(s) /\ Len(chan[s]) \in Nat /\ \A i \in 1 .. Len(chan[s]) : Date(s, i) \in Nat
      /\ stored[s] \subseteq 1 .. Len(chan[s]) /\ end # NoTime /\ ReadFloor(s) \in Nat
  BY <1>1, Known, FloorIs
<1>3. /\ Cursor(s) \in Nat /\ Cursor(s) <= Len(chan[s])
      /\ Cursor(s) = 0 \/ (Cursor(s) \in stored[s] /\ Date(s, Cursor(s)) = ReadFloor(s))
      /\ watermark[s] = ReadFloor(s) =>
           \A i \in stored[s] : Date(s, i) = ReadFloor(s) => i <= Cursor(s)
  BY Known, CursorIs
<1>4. ReadFloor(s)' = ReadFloor(s) /\ \A i : Date(s, i)' = Date(s, i)
  BY <1>1 DEF ReadFloor, Date
<1>5. ASSUME NEW j \in 1 .. Cursor(s), Date(s, j) >= ReadFloor(s) PROVE j \in stored[s]
  <2>1. Cursor(s) \in stored[s] /\ Date(s, Cursor(s)) = ReadFloor(s)
    BY <1>3, <1>5
  <2>2. Date(s, j) <= Date(s, Cursor(s)) /\ j \in 1 .. Len(chan[s])
    BY <1>2, <1>3, <1>5, <2>1 DEF Sound, Dated
  <2>3. Date(s, j) = Date(s, Cursor(s))
    BY <1>2, <1>5, <2>1, <2>2
  <2> QED BY <1>2, <1>5, <2>1, <2>3 DEF Sound, InOrder
<1>6. Begun(s)'
  BY <1>1, <1>3, <1>4, <1>5 DEF Begun
<1>7. Resumed(s)'
  BY <1>1, <1>3, <1>4 DEF Resumed
<1>8. Timed(s)'
  <2>1. watermark[s] <= end /\ end \in Nat /\ ~ Covers(spans[s], ReadFloor(s), end)
    BY <1>2, Known DEF Sound, Timed, BeginRead
  <2>2. ReadFloor(s) <= end
    <3>1. ReadFloor(s) = watermark[s] \/ ReadFloor(s) = end - Fresh
      BY <1>2, Known, FloorIs
    <3>2. Fresh \in Nat
      BY ConstantsAre
    <3> QED BY <2>1, <3>1, <3>2
  <2>3. ASSUME <<ReadFloor(s), end>> \in spans[s] PROVE FALSE
    <3> DEFINE x == <<ReadFloor(s), end>>
               a == ReadFloor(s)
    <3>1. x \in spans[s] /\ x[1] = a /\ x[2] = end /\ a \in Nat /\ a <= end
      BY <1>2, <2>2, <2>3
    <3> HIDE DEF x, a
    <3>2. Covers(spans[s], a, end)
      BY <2>1, <3>1 DEF Covers
    <3> QED BY <2>1, <3>2 DEF a
  <2> QED BY <1>1, <1>2, <2>3 DEF Sound, Timed
<1>9. Read(s)'
  BY <1>1, <1>6, <1>7 DEF Read
<1> QED BY <1>1, <1>2, <1>8, <1>9, Frames DEF Sound

\* A page leaves no gap.
LEMMA PageKeeps ==
  ASSUME Setting, IInv, TypeOK', NEW s \in Sources, NEW P, ReadOk(s, P) PROVE Sound(s)'
<1> DEFINE n == Len(chan[s])
<1>1. /\ UNCHANGED <<now, end, chan[s], stored[s], spans[s], watermark[s], since[s], late[s], from[s], after[s]>>
      /\ step[s] = "read" /\ step'[s] = IF P = {} THEN "mark" ELSE "save"
      /\ page'[s] = P /\ truncated'[s] = (P # Unread(s))
      /\ IsPage(s, P)
  BY Known DEF ReadOk, Reading, TypeOK, db
<1>2. /\ Sound(s) /\ n \in Nat /\ \A i \in 1 .. n : Date(s, i) \in Nat
      /\ stored[s] \subseteq 1 .. n /\ end # NoTime /\ end \in Nat /\ now \in Nat
      /\ from[s] \in Nat /\ after[s] \in Nat
  BY <1>1, Known
<1>3. Begun(s) /\ Resumed(s)
  BY <1>1, <1>2 DEF Sound, Read
<1>4. P \subseteq Unread(s) /\ \A i \in P, j \in Unread(s) : j < i => j \in P
  BY <1>1 DEF IsPage
<1>5. \A i : i \in Unread(s) <=> i \in 1 .. n /\ i > after[s] /\ from[s] <= Date(s, i) /\ Date(s, i) <= end
  BY DEF Unread
<1>6. held[s] > 0
  BY <1>1 DEF IInv, Budgeted
<1>7. P # Unread(s) => P # {}
  BY <1>1, <1>6, PageIs, Known
<1> HIDE DEF n
<1>8. ASSUME NEW j \in 1 .. n, from[s] <= Date(s, j), Date(s, j) <= end, j \notin Unread(s)
      PROVE  j \in stored[s]
  <2>1. j \in 1 .. after[s]
    BY <1>2, <1>5, <1>8
  <2> QED BY <1>2, <1>3, <1>8, <2>1 DEF Begun
<1>9. ASSUME NEW i \in P, NEW j \in 1 .. i, Date(s, j) >= from[s] PROVE j \in P \cup stored[s]
  <2>1. i \in 1 .. n /\ Date(s, i) <= end /\ j \in 1 .. n
    BY <1>2, <1>4, <1>5
  <2>2. Date(s, j) <= Date(s, i)
    BY <1>2, <2>1 DEF Sound, Dated, n
  <2>3. from[s] <= Date(s, j) /\ Date(s, j) <= end
    BY <1>2, <1>9, <2>1, <2>2
  <2>4. CASE j \in Unread(s)
    BY <1>4, <2>1, <2>4
  <2> QED BY <1>8, <2>1, <2>3, <2>4
<1>10. Paged(s)'
  <2>1. \A i : Date(s, i)' = Date(s, i)
    BY <1>1 DEF Date
  <2>2. ASSUME NEW i \in P
        PROVE  /\ i \in 1 .. n /\ from[s] <= Date(s, i) /\ Date(s, i) <= end
               /\ \A j \in 1 .. i : Date(s, j) >= from[s] => j \in P \cup stored[s]
    BY <1>4, <1>5, <1>9
  <2>3. P = Unread(s) => \A j \in 1 .. n :
            from[s] <= Date(s, j) /\ Date(s, j) <= end => j \in P \cup stored[s] \cup late[s]
    BY <1>8
  <2>4. step'[s] # "save" => P \subseteq stored[s]
    BY <1>1
  <2>5. (1 .. Len(chan[s]))' = 1 .. n
    BY <1>1 DEF n
  <2> QED BY <1>1, <1>7, <2>1, <2>2, <2>3, <2>4, <2>5 DEF Paged
<1>11. Timed(s)'
  BY <1>1, <1>2 DEF Sound, Timed
<1>12. Begun(s)'
  BY <1>1, <1>3, Frames
<1>13. step'[s] = "save" => Resumed(s)' /\ page'[s] # {} /\ \A i \in page'[s] : i > after'[s]
  <2>1. Resumed(s)'
    BY <1>1, <1>3, Frames
  <2>2. \A i \in P : i > after[s]
    BY <1>4, <1>5
  <2> QED BY <1>1, <2>1, <2>2
<1>14. Read(s)'
  BY <1>1, <1>10, <1>12, <1>13 DEF Read
<1> QED BY <1>1, <1>2, <1>11, <1>14, Frames DEF Sound

\* What is about to be recorded is over: the window has passed.
LEMMA Over ==
  ASSUME Setting, IInv, NEW s \in Sources, step[s] \in {"save", "mark", "prefix", "advance"}
  PROVE  end \in Nat /\ end <= now /\ from[s] <= end /\ from[s] = ReadFloor(s) /\ Begun(s) /\ Paged(s)
<1>1. Begun(s) /\ Paged(s) /\ from[s] = ReadFloor(s)
  BY Known DEF Sound, Read, Begun
<1>2. end \in Nat /\ end # NoTime
  BY Known DEF Sound, Timed
<1>3. end <= now
  BY <1>2, Known DEF Clock
<1>4. watermark[s] <= end
  BY <1>2, Known DEF Sound, Timed
<1>5. ReadFloor(s) <= end
  <2>1. ReadFloor(s) = watermark[s] \/ ReadFloor(s) = end - Fresh
    BY <1>2, FloorIs, Known
  <2>2. end - Fresh <= end
    BY <1>2, ConstantsAre
  <2> QED BY <1>4, <2>1, <2>2
<1> QED BY <1>1, <1>2, <1>3, <1>5

\* Storing the page stores the posts of each second in their order.
LEMMA StoreKeeps ==
  ASSUME Setting, IInv, TypeOK', NEW s \in Sources, StoreItems(s) PROVE Sound(s)'
<1> DEFINE n == Len(chan[s])
<1>1. /\ UNCHANGED <<now, end, chan[s], spans[s], watermark[s], since[s], late[s], from[s], after[s], page[s],
                     truncated[s]>>
      /\ step[s] = "save" /\ step'[s] = "mark" /\ stored'[s] = stored[s] \cup page[s]
  BY Known DEF StoreItems, TypeOK
<1>2. Sound(s) /\ Begun(s) /\ Paged(s) /\ \A i \in 1 .. n : Date(s, i) \in Nat
  BY <1>1, Known, Over
<1>3. \A i : Date(s, i)' = Date(s, i)
  BY <1>1 DEF Date
<1>4. (1 .. Len(chan[s]))' = 1 .. n /\ n \in Nat /\ stored[s] \subseteq 1 .. n /\ Len(chan[s])' = n
  BY <1>1, Known
<1>5. \A i \in page[s] : /\ i \in 1 .. n /\ from[s] <= Date(s, i)
                         /\ \A j \in 1 .. i : Date(s, j) >= from[s] => j \in page[s] \cup stored[s]
  BY <1>2 DEF Paged, n
<1> HIDE DEF n
<1>6. InOrder(s)'
  <2>1. ASSUME NEW i \in stored[s] \cup page[s], NEW j \in 1 .. i, Date(s, j) = Date(s, i)
        PROVE  j \in stored[s] \cup page[s]
    <3>1. CASE i \in stored[s]
      BY <1>2, <2>1, <3>1 DEF Sound, InOrder
    <3>2. CASE i \in page[s]
      BY <1>5, <2>1, <3>2
    <3> QED BY <2>1, <3>1, <3>2
  <2> QED BY <1>1, <1>3, <2>1 DEF InOrder
<1>7. Begun(s)'
  BY <1>1, <1>2, <1>3, <1>4 DEF Begun, ReadFloor, n
<1>8. Paged(s)'
  BY <1>1, <1>2, <1>3, <1>4 DEF Paged, n
<1>9. Timed(s)'
  BY <1>1, <1>2 DEF Sound, Timed, Second
<1>10. Read(s)'
  BY <1>1, <1>7, <1>8 DEF Read
<1>11. Covered(s)'
  BY <1>1, <1>2, <1>3, <1>4 DEF Sound, Covered, n
<1>12. Skipless(s)'
  BY <1>1, <1>2, <1>3, <1>4 DEF Sound, Skipless, n
<1> QED BY <1>1, <1>2, <1>6, <1>9, <1>10, <1>11, <1>12, Frames DEF Sound

\* Recording an interval all of whose posts are stored keeps the source sound.
LEMMA RecordKeeps ==
  ASSUME Setting, IInv, TypeOK', NEW s \in Sources, step[s] \in {"mark", "prefix"},
         UNCHANGED <<now, end, chan[s], stored[s], watermark[s], since[s], late[s], from[s], after[s], page[s],
                     truncated[s]>>,
         NEW b \in Nat, b <= now, spans'[s] \subseteq spans[s] \cup {<<from[s], b>>},
         spans[s] \subseteq spans'[s],
         <<from[s], b>> \in spans'[s] => \A i \in 1 .. Len(chan[s]) :
            from[s] <= Date(s, i) /\ Date(s, i) <= b => i \in stored[s] \cup late[s],
         step'[s] \in {"prefix", "advance"}, step'[s] = "prefix" => truncated[s],
         step'[s] = "advance" => Marked(s)'
  PROVE  Sound(s)'
<1>1. Sound(s) /\ Begun(s) /\ Paged(s) /\ Second \in Nat /\ spans[s] \subseteq Nat \X Nat
      /\ step[s] # "save" /\ step'[s] # "save" /\ step'[s] # "complete" /\ NoTime = -1
      /\ end # NoTime /\ step[s] # "complete"
  BY Known, Over DEF Sound, Timed
<1>2. \A i : Date(s, i)' = Date(s, i)
  BY DEF Date
<1>3. \A x \in spans'[s] : x \in spans[s] \/ (x = <<from[s], b>> /\ x[1] = from[s] /\ x[2] = b)
  OBVIOUS
<1>4. Timed(s)'
  <2>1. \A x \in spans'[s] : x[2] <= now
    BY <1>1, <1>3 DEF Sound, Timed
  <2> QED BY <1>1, <2>1 DEF Sound, Timed
<1>5. Covered(s)'
  <2>1. ASSUME NEW x \in spans'[s], NEW i \in 1 .. Len(chan[s]), x[1] <= Date(s, i), Date(s, i) <= x[2]
        PROVE  i \in stored[s] \cup late[s]
    <3>1. CASE x \in spans[s]
      BY <1>1, <2>1, <3>1 DEF Sound, Covered
    <3>2. CASE x = <<from[s], b>> /\ x[1] = from[s] /\ x[2] = b
      BY <2>1, <3>2
    <3> QED BY <1>3, <3>1, <3>2
  <2> QED BY <1>2, <2>1 DEF Covered
<1>6. Reached(s)'
  BY <1>1 DEF Sound, Reached
<1>7. Read(s)'
  <2>1. Begun(s)' /\ Paged(s)'
    BY <1>1, Frames
  <2> QED BY <2>1 DEF Read
<1> QED BY <1>1, <1>4, <1>5, <1>6, <1>7, Frames DEF Sound

\* A read that reached its window's end records the window; nothing of a capped one was recorded.
LEMMA CoverageKeeps ==
  ASSUME Setting, IInv, TypeOK', NEW s \in Sources, MarkCoverage(s) PROVE Sound(s)'
<1>1. /\ UNCHANGED <<now, end, chan[s], stored[s], watermark[s], since[s], late[s], from[s], after[s], page[s],
                     truncated[s]>>
      /\ step[s] = "mark" /\ truncated[s] \in BOOLEAN
      /\ step'[s] = IF truncated[s] THEN "prefix" ELSE "advance"
      /\ spans'[s] = IF truncated[s] THEN spans[s] \ {<<from[s], end>>}
                                     ELSE spans[s] \cup {<<from[s], end>>}
  BY Known DEF MarkCoverage, TypeOK
<1>2. end \in Nat /\ end <= now /\ Paged(s) /\ spans[s] \subseteq Nat \X Nat
  BY <1>1, Over, Known
<1>3. <<from[s], end>> \notin spans[s]
  BY <1>1, <1>2, Known DEF Sound, Timed
<1>4. <<from[s], end>> \in spans'[s] => ~truncated[s]
  BY <1>1
<1>5. ~truncated[s] => \A i \in 1 .. Len(chan[s]) :
        from[s] <= Date(s, i) /\ Date(s, i) <= end => i \in stored[s] \cup late[s]
  BY <1>1, <1>2 DEF Paged
<1>6. step'[s] = "advance" => Marked(s)'
  BY <1>1 DEF Marked
<1>7. spans'[s] \subseteq spans[s] \cup {<<from[s], end>>} /\ spans[s] \subseteq spans'[s]
  BY <1>1, <1>3
<1> QED BY <1>1, <1>2, <1>4, <1>5, <1>6, <1>7, RecordKeeps

\* A capped read records what lies in front of its newest item.
LEMMA PrefixKeeps ==
  ASSUME Setting, IInv, TypeOK', NEW s \in Sources, MarkPrefix(s) PROVE Sound(s)'
<1>1. /\ UNCHANGED <<now, end, chan[s], stored[s], watermark[s], since[s], late[s], from[s], after[s], page[s],
                     truncated[s]>>
      /\ step[s] = "prefix" /\ step'[s] = "advance" /\ truncated[s]
      /\ spans'[s] = IF Newest(s) - 1 >= from[s] THEN spans[s] \cup {<<from[s], Newest(s) - 1>>}
                                                 ELSE spans[s]
  BY Known DEF MarkPrefix, TypeOK, Sound, Read
<1>2. PICK m \in page[s] :
        /\ Newest(s) = Date(s, m) /\ Date(s, m) \in Nat
        /\ from[s] <= Date(s, m) /\ Date(s, m) <= Second
        /\ \A i \in 1 .. Len(chan[s]) : from[s] <= Date(s, i) /\ Date(s, i) < Date(s, m) => i \in stored[s]
  BY <1>1, NewestInPage, Known
<1>3. Newest(s)' = Newest(s)
  BY <1>1 DEF Newest, Date
<1>4. Newest(s) \in Nat /\ from[s] \in Nat /\ Second \in Nat
      /\ \A i \in 1 .. Len(chan[s]) : Date(s, i) \in Nat
  BY <1>2, Known
<1>5. CASE Newest(s) - 1 >= from[s]
  <2> DEFINE b == Newest(s) - 1
  <2>1. b \in Nat /\ b <= now
    BY <1>2, <1>4, <1>5, Known
  <2>2. \A i \in 1 .. Len(chan[s]) : from[s] <= Date(s, i) /\ Date(s, i) <= b => i \in stored[s]
    BY <1>2, <1>4
  <2>3. Marked(s)'
    BY <1>1, <1>3, <1>5 DEF Marked
  <2> HIDE DEF b
  <2>4. spans'[s] = spans[s] \cup {<<from[s], b>>}
    BY <1>1, <1>5 DEF b
  <2> QED BY <1>1, <2>1, <2>2, <2>3, <2>4, RecordKeeps
<1>6. CASE ~(Newest(s) - 1 >= from[s])
  <2>1. Marked(s)'
    BY <1>1, <1>3, <1>6 DEF Marked
  <2>2. spans'[s] = spans[s]
    BY <1>1, <1>6
  <2>3. end \in Nat /\ end <= now
    BY <1>1, Over
  <2>4. <<from[s], end>> \in spans[s] => \A i \in 1 .. Len(chan[s]) :
          from[s] <= Date(s, i) /\ Date(s, i) <= end => i \in stored[s] \cup late[s]
    BY Known DEF Sound, Covered
  <2> QED BY <1>1, <2>1, <2>2, <2>3, <2>4, RecordKeeps
<1> QED BY <1>5, <1>6

\* The watermark moves up to what was read: nothing in front of it is left out.
LEMMA AdvanceKeeps ==
  ASSUME Setting, IInv, TypeOK', NEW s \in Sources, Advance(s) PROVE Sound(s)'
<1> DEFINE n == Len(chan[s])
           w == watermark[s]
           p == Progress(s)
<1>1. /\ UNCHANGED <<now, end, chan[s], stored[s], spans[s], late[s], from[s], after[s], page[s],
                     truncated[s]>>
      /\ step[s] = "advance" /\ step'[s] = (IF truncated[s] THEN "done" ELSE "complete")
      /\ watermark'[s] = Larger(w, p)
      /\ since'[s] = (IF Resumes(s) THEN since[s] ELSE from[s])
      /\ truncated[s] \in BOOLEAN
  BY Known DEF Advance, TypeOK
<1>2. /\ Sound(s) /\ Paged(s) /\ Marked(s) /\ n \in Nat /\ \A i \in 1 .. n : Date(s, i) \in Nat
      /\ w \in Int /\ since[s] \in Int /\ from[s] \in Nat /\ Second \in Nat /\ NoTime = -1
      /\ end \in Nat /\ end <= now /\ now \in Nat /\ from[s] <= end /\ from[s] = ReadFloor(s)
  BY <1>1, Known, Over DEF Sound, Read
<1>3. p \in Nat /\ p <= end /\ w <= end
  BY <1>1, <1>2, Known, ProgressIs DEF Sound, Timed
<1>4. w <= from[s] /\ (Resumes(s) => w = from[s])
  <2>1. from[s] = w \/ from[s] = end - Fresh
    BY <1>1, <1>2, Known, FloorIs
  <2>2. from[s] >= w
    BY <1>1, <1>2, Known, FloorIs
  <2>3. Fresh \in Nat
    BY ConstantsAre
  <2> QED BY <1>2, <2>1, <2>2, <2>3 DEF Resumes
<1>5. ASSUME NEW i \in 1 .. n, from[s] <= Date(s, i), Date(s, i) < p
      PROVE  i \in stored[s] \cup late[s]
  <2>1. CASE truncated[s]
    BY <1>1, <1>2, <1>5, <2>1, Known, NewestInPage DEF Progress
  <2>2. CASE ~truncated[s]
    <3>1. p = end
      BY <2>2 DEF Progress
    <3>2. Date(s, i) <= end
      BY <1>2, <1>5, <3>1
    <3> QED BY <1>1, <1>2, <1>5, <2>2, <3>2 DEF Paged
  <2> QED BY <2>1, <2>2
<1>6. ASSUME NEW t \in Int, from[s] <= t, t < p PROVE \E x \in spans[s] : x[1] <= t /\ t <= x[2]
  <2>1. CASE truncated[s]
    <3>1. p = Newest(s)
      BY <2>1 DEF Progress
    <3> HIDE DEF p
    <3>2. Newest(s) - 1 >= from[s] /\ t <= Newest(s) - 1
      BY <1>2, <1>3, <1>6, <3>1
    <3>3. <<from[s], Newest(s) - 1>> \in spans[s]
      BY <1>2, <2>1, <3>2 DEF Marked
    <3> QED BY <1>6, <3>2, <3>3
  <2>2. CASE ~truncated[s]
    <3>1. p = end /\ <<from[s], end>> \in spans[s]
      BY <1>2, <2>2 DEF Progress, Marked
    <3>2. t <= end
      BY <1>2, <1>6, <3>1
    <3> QED BY <1>6, <3>1, <3>2
  <2> QED BY <2>1, <2>2
<1> HIDE DEF n, w, p
<1>7. /\ watermark'[s] \in Int /\ watermark'[s] <= end
      /\ watermark'[s] = w \/ watermark'[s] = p
      /\ p <= watermark'[s] /\ w <= watermark'[s]
  BY <1>1, <1>2, <1>3 DEF Larger
<1>8. Timed(s)'
  <2>1. watermark'[s] <= now
    BY <1>2, <1>7
  <2> QED BY <1>1, <1>2, <1>7, <2>1 DEF Sound, Timed
<1>9. Read(s)'
  BY <1>1 DEF Read
<1>10. \A i : Date(s, i)' = Date(s, i)
  BY <1>1 DEF Date
<1>11. Skipless(s)'
  <2>1. ASSUME NEW i \in 1 .. n, since'[s] <= Date(s, i), Date(s, i) < watermark'[s]
        PROVE  i \in stored[s] \cup late[s]
    <3>1. CASE Date(s, i) < w
      <4>1. Resumes(s)
        BY <1>1, <1>2, <1>4, <2>1, <3>1
      <4> QED BY <1>1, <1>2, <2>1, <3>1, <4>1 DEF Sound, Skipless, n, w
    <3>2. CASE ~(Date(s, i) < w)
      <4>1. from[s] <= Date(s, i)
        BY <1>1, <1>2, <1>4, <2>1, <3>2
      <4>2. Date(s, i) < p
        BY <1>2, <1>7, <2>1, <3>2
      <4> QED BY <1>5, <4>1, <4>2
    <3> QED BY <3>1, <3>2
  <2>2. (1 .. Len(chan[s]))' = 1 .. n
    BY <1>1 DEF n
  <2> QED BY <1>1, <1>10, <2>1, <2>2 DEF Skipless
<1>12. Reached(s)'
  <2>1. ASSUME NEW t \in since'[s] .. watermark'[s] - 1
        PROVE  \E x \in spans[s] : x[1] <= t /\ t <= x[2]
    <3>1. t \in Int /\ since'[s] <= t /\ t < watermark'[s]
      BY <1>1, <1>2, <1>7
    <3>2. CASE t < w
      <4>1. Resumes(s)
        BY <1>1, <1>2, <1>4, <3>1, <3>2
      <4>2. t \in since[s] .. w - 1
        BY <1>1, <1>2, <3>1, <3>2, <4>1
      <4> QED BY <1>2, <4>2 DEF Sound, Reached, w
    <3>3. CASE ~(t < w)
      <4>1. from[s] <= t
        BY <1>1, <1>2, <1>4, <3>1, <3>3
      <4>2. t < p
        BY <1>2, <1>7, <3>1, <3>3
      <4> QED BY <1>6, <3>1, <4>1, <4>2
    <3> QED BY <3>2, <3>3
  <2>2. ASSUME step'[s] = "complete"
        PROVE  watermark'[s] = end /\ \E x \in spans[s] : x[1] <= end /\ end <= x[2]
    <3>1. ~truncated[s]
      BY <1>1, <2>2
    <3>2. p = end /\ <<from[s], end>> \in spans[s]
      BY <1>2, <3>1 DEF p, Progress, Marked
    <3>3. watermark'[s] = end
      BY <1>2, <1>7, <3>2
    <3> QED BY <1>2, <3>2, <3>3
  <2> QED BY <1>1, <2>1, <2>2 DEF Reached
<1> QED BY <1>1, <1>2, <1>8, <1>9, <1>11, <1>12, Frames DEF Sound

-----------------------------------------------------------------------------
(* The invariant.                                                          *)

\* The clock and the running call's window.
LEMMA ClockKeeps == ASSUME Setting, IInv, [Next]_vars PROVE Clock'
<1>1. now \in Nat /\ Clock /\ StartTime \in Nat /\ (end # NoTime => end \in Nat)
  BY ConstantsAre DEF IInv, TypeOK
<1>2. /\ now' = now \/ now' = now + 1
      /\ end' = end \/ end' = NoTime \/ end' = now
  BY DEF Next, vars, Tick, StartRun, EndRun, Restart, Forget, Publish, SkipCovered, SkipDelayed,
         SkipCapped, BeginRead, BeginRaise, ReadOk, ReadRaise, ReadError, StoreItems, MarkCoverage,
         MarkPrefix, Advance, StoreRaise
<1> QED BY <1>1, <1>2 DEF Clock

\* An operation of one source is not seen by the others.
LEMMA OthersKeep ==
  ASSUME Setting, IInv, TypeOK', NEW s \in Sources, NEW r \in Sources, r # s,
         \/ Publish(s) \/ SkipCovered(s) \/ SkipDelayed(s) \/ SkipCapped(s) \/ BeginRead(s)
         \/ BeginRaise(s) \/ (\E P : ReadOk(s, P)) \/ ReadRaise(s) \/ (\E until : ReadError(s, until))
         \/ StoreItems(s) \/ MarkCoverage(s) \/ MarkPrefix(s) \/ Advance(s) \/ StoreRaise(s)
  PROVE  Sound(r)'
<1> DEFINE Same == UNCHANGED <<now, end, chan[r], stored[r], spans[r], watermark[r], step[r], from[r],
                               after[r], page[r], truncated[r], since[r], late[r]>>
<1>1. TypeOK /\ Sound(r)
  BY Known
<1>2. CASE Publish(s)
  <2>1. Same
    BY <1>1, <1>2 DEF TypeOK, Publish, db, local
  <2> QED BY <1>1, <2>1, SoundFrame
<1>3. CASE SkipCovered(s) \/ SkipDelayed(s) \/ SkipCapped(s)
  <2>1. Same
    BY <1>1, <1>3 DEF TypeOK, SkipCovered, SkipDelayed, SkipCapped, db
  <2> QED BY <1>1, <2>1, SoundFrame
<1>4. CASE BeginRead(s)
  <2>1. Same
    BY <1>1, <1>4 DEF TypeOK, BeginRead, db
  <2> QED BY <1>1, <2>1, SoundFrame
<1>5. CASE BeginRaise(s) \/ StoreRaise(s)
  <2>1. Same
    BY <1>1, <1>5 DEF TypeOK, BeginRaise, StoreRaise, db
  <2> QED BY <1>1, <2>1, SoundFrame
<1>6. CASE \E P : ReadOk(s, P)
  <2>1. Same
    BY <1>1, <1>6 DEF TypeOK, ReadOk, db
  <2> QED BY <1>1, <2>1, SoundFrame
<1>7. CASE ReadRaise(s)
  <2>1. Same
    BY <1>1, <1>7 DEF TypeOK, ReadRaise, db
  <2> QED BY <1>1, <2>1, SoundFrame
<1>8. CASE \E until : ReadError(s, until)
  <2>1. Same
    BY <1>1, <1>8 DEF TypeOK, ReadError
  <2> QED BY <1>1, <2>1, SoundFrame
<1>9. CASE StoreItems(s)
  <2>1. Same
    BY <1>1, <1>9 DEF TypeOK, StoreItems
  <2> QED BY <1>1, <2>1, SoundFrame
<1>10. CASE MarkCoverage(s)
  <2>1. Same
    BY <1>1, <1>10 DEF TypeOK, MarkCoverage
  <2> QED BY <1>1, <2>1, SoundFrame
<1>11. CASE MarkPrefix(s)
  <2>1. Same
    BY <1>1, <1>11 DEF TypeOK, MarkPrefix
  <2> QED BY <1>1, <2>1, SoundFrame
<1>12. CASE Advance(s)
  <2>1. Same
    BY <1>1, <1>12 DEF TypeOK, Advance
  <2> QED BY <1>1, <2>1, SoundFrame
<1> QED BY <1>2, <1>3, <1>4, <1>5, <1>6, <1>7, <1>8, <1>9, <1>10, <1>11, <1>12

\* Before anything is read there is nothing to be wrong about.
LEMMA InitInv == ASSUME Setting, Init PROVE IInv
<1>0. StartTime \in Nat /\ RunCap \in Nat /\ IsFiniteSet(Sources) /\ NoTime = -1 /\ NoTime \notin Nat
  BY ConstantsAre, SourcesFinite DEF NoTime
<1>1. TypeOK
  <2>1. <<>> \in Seq(Nat) /\ Len(<<>>) = 0
    OBVIOUS
  <2> QED BY <1>0, <2>1 DEF Init, TypeOK, Steps
<1>2. Clock
  BY <1>0 DEF Init, Clock
<1>3. Budgeted
  <2>1. Units(held, Sources) = {}
    BY DEF Init, Units
  <2>2. Sum(held, Sources) = 0
    BY <2>1, FS_EmptySet DEF Sum
  <2>3. \A s \in Sources : step[s] = "read" <=> held[s] > 0
    BY DEF Init
  <2>4. used = 0 /\ left = 0
    BY DEF Init
  <2>5. used + left + Sum(held, Sources) = 0
    BY <2>2, <2>4
  <2> QED BY <1>0, <2>3, <2>5 DEF Budgeted
<1>4. ASSUME NEW s \in Sources PROVE Sound(s)
  <2>1. /\ chan[s] = <<>> /\ stored[s] = {} /\ spans[s] = {} /\ watermark[s] = NoTime /\ since[s] = NoTime
        /\ step[s] = "idle" /\ end = NoTime /\ now = StartTime
    BY DEF Init
  <2>2. Second \in Nat
    BY <1>0, <2>1, SecondIs
  <2>3. 1 .. Len(chan[s]) = {}
    BY <2>1
  <2>4. NoTime .. NoTime - 1 = {}
    BY <1>0
  <2>5. Timed(s)
    BY <1>0, <2>1, <2>2 DEF Timed
  <2>6. Dated(s) /\ InOrder(s) /\ Read(s)
    BY <2>1, <2>3 DEF Dated, InOrder, Read
  <2>7. Covered(s) /\ Skipless(s) /\ Reached(s)
    BY <2>1, <2>3, <2>4 DEF Covered, Skipless, Reached
  <2> QED BY <2>5, <2>6, <2>7 DEF Sound
<1> QED BY <1>1, <1>2, <1>3, <1>4 DEF IInv

\* Every step keeps the invariant.
LEMMA StepInv == ASSUME Setting, IInv, [Next]_vars PROVE IInv'
<1>1. TypeOK' /\ Clock' /\ Budgeted'
  BY TypeKeeps, ClockKeeps, BudgetKeeps
<1>2. ASSUME NEW s \in Sources PROVE Sound(s)'
  <2>1. CASE Tick
    BY <1>1, <2>1, TickKeeps
  <2>2. CASE StartRun
    BY <1>1, <2>2, StartKeeps
  <2>3. CASE Forget
    BY <1>1, <2>3, ForgetKeeps
  <2>4. CASE UNCHANGED vars
    BY <2>4, Known, SoundFrame DEF vars, db, local
  <2>5. ASSUME NEW r \in Sources,
               \/ Publish(r) \/ SkipCovered(r) \/ SkipDelayed(r) \/ SkipCapped(r) \/ BeginRead(r)
               \/ BeginRaise(r) \/ (\E P : ReadOk(r, P)) \/ ReadRaise(r)
               \/ (\E until \in {0, now + 2} : ReadError(r, until))
               \/ StoreItems(r) \/ MarkCoverage(r) \/ MarkPrefix(r) \/ Advance(r) \/ StoreRaise(r)
        PROVE  Sound(s)'
    <3>1. CASE r # s
      BY <1>1, <2>5, <3>1, OthersKeep
    <3>2. CASE r = s
      <4>1. CASE Publish(s)
        BY <1>1, <4>1, PublishKeeps
      <4>2. CASE \/ SkipCovered(s) \/ SkipDelayed(s) \/ SkipCapped(s) \/ BeginRaise(s)
                 \/ ReadRaise(s) \/ StoreRaise(s)
        BY <1>1, <4>2, SkipKeeps
      <4>3. CASE BeginRead(s)
        BY <1>1, <4>3, BeginKeeps
      <4>4. CASE \E P : ReadOk(s, P)
        BY <1>1, <4>4, PageKeeps
      <4>5. CASE \E until \in {0, now + 2} : ReadError(s, until)
        BY <1>1, <4>5, ErrorKeeps
      <4>6. CASE StoreItems(s)
        BY <1>1, <4>6, StoreKeeps
      <4>7. CASE MarkCoverage(s)
        BY <1>1, <4>7, CoverageKeeps
      <4>8. CASE MarkPrefix(s)
        BY <1>1, <4>8, PrefixKeeps
      <4>9. CASE Advance(s)
        BY <1>1, <4>9, AdvanceKeeps
      <4> QED BY <2>5, <3>2, <4>1, <4>2, <4>3, <4>4, <4>5, <4>6, <4>7, <4>8, <4>9
    <3> QED BY <3>1, <3>2
  <2> QED BY <2>1, <2>2, <2>3, <2>4, <2>5 DEF Next, EndRun, Restart
<1> QED BY <1>1, <1>2 DEF IInv

\* The invariant holds in every run of the collector.
LEMMA Invariance == ASSUME Setting PROVE Spec => []IInv
<1>1. Init => IInv
  BY InitInv
<1>2. IInv /\ [Next]_vars => IInv'
  BY StepInv
<1> QED BY <1>1, <1>2, PTL DEF Spec

\* Every variable keeps its type, and no counter of the budget is negative.
LEMMA CollectorTypes == ASSUME Setting PROVE Spec => []TypeOK
<1>1. IInv => TypeOK
  BY DEF IInv
<1> QED BY <1>1, Invariance, PTL

-----------------------------------------------------------------------------
(* The theorems.                                                           *)

\* Complete coverage is the truth but for one second (IngestionCoordinator._persist_read):
\* every post dated inside a recorded interval is in the raw cache, whatever was capped,
\* failed, died or resumed, unless it was published after the read, in the very second the
\* window ended in.
THEOREM CoverageIsTrue == ASSUME Setting PROVE Spec => []CoveredIsStored
<1>1. IInv => CoveredIsStored
  BY DEF IInv, Sound, Covered, CoveredIsStored
<1> QED BY <1>1, Invariance, PTL

\* The watermark skips nothing else (_ensure_one resuming at read_floor): within an unbroken
\* reading every post dated in front of it is in the raw cache or came too late that way.
THEOREM WatermarkSkipsNothing == ASSUME Setting PROVE Spec => []NothingSkipped
<1>1. IInv => NothingSkipped
  BY DEF IInv, Sound, Skipless, NothingSkipped
<1> QED BY <1>1, Invariance, PTL

\* Every page moves the collection on (the ID cursor of _resume_after), even when more posts
\* share one second than a read may take.
THEOREM PagesMoveOn == ASSUME Setting PROVE Spec => []ReadsMakeProgress
<1>1. ASSUME IInv, NEW s \in Sources, step[s] = "save"
      PROVE  \E i \in page[s] : i \notin stored[s] \/ Date(s, i) > watermark[s]
  <2>1. Sound(s) /\ Begun(s) /\ Resumed(s) /\ Paged(s) /\ page[s] # {} /\ \A i \in page[s] : i > after[s]
    BY <1>1 DEF IInv, Sound, Read
  <2>2. PICK i \in page[s] : TRUE
    BY <2>1
  <2>3. i \in 1 .. Len(chan[s]) /\ from[s] <= Date(s, i) /\ i > after[s]
    BY <2>1, <2>2 DEF Paged
  <2>4. watermark[s] <= from[s] /\ Date(s, i) \in Nat /\ from[s] \in Nat /\ watermark[s] \in Int
        /\ after[s] \in Nat
    <3>1. end # NoTime
      BY <1>1, Known
    <3>2. watermark[s] <= ReadFloor(s)
      BY <1>1, <3>1, FloorIs, Known
    <3> QED BY <1>1, <2>1, <2>3, <3>2, Known DEF Begun
  <2>5. ASSUME i \in stored[s], ~(Date(s, i) > watermark[s]) PROVE FALSE
    <3>1. watermark[s] = from[s] /\ Date(s, i) = from[s]
      BY <2>3, <2>4, <2>5
    <3>2. i <= after[s]
      BY <2>1, <2>5, <3>1 DEF Resumed
    <3> QED BY <2>3, <2>4, <3>2
  <2> QED BY <2>2, <2>5
<1>2. IInv => ReadsMakeProgress
  BY <1>1 DEF ReadsMakeProgress
<1> QED BY <1>2, Invariance, PTL

\* The sources of a call together read no more than the run's budget (_RunBudget), however
\* their reservations, refunds and failures interleave.
THEOREM RunIsCapped == ASSUME Setting PROVE Spec => []RunWithinCap
<1>1. ASSUME IInv PROVE RunWithinCap
  <2>1. Sum(held, Sources) \in Nat /\ left \in Nat /\ used \in Nat /\ RunCap \in Nat
    BY <1>1, SourcesFinite, ConstantsAre, SumNat DEF IInv, TypeOK
  <2>2. used + left + Sum(held, Sources) <= RunCap
    BY <1>1 DEF IInv, Budgeted
  <2> QED BY <2>1, <2>2 DEF RunWithinCap
<1> QED BY <1>1, Invariance, PTL

\* A source whose read reached the window's end has no instant of its unbroken reading
\* outside a recorded interval (mark_complete after the watermark's move).
THEOREM NoInstantIsMissing == ASSUME Setting PROVE Spec => []EveryInstantCovered
<1>1. ASSUME IInv, NEW s \in Sources, step[s] = "complete", NEW t \in since[s] .. end
      PROVE  \E x \in spans[s] : x[1] <= t /\ t <= x[2]
  <2>1. Reached(s) /\ watermark[s] = end /\ since[s] \in Int /\ end \in Int
    BY <1>1, Known DEF Sound, Reached
  <2>2. CASE t = end
    BY <1>1, <2>1, <2>2 DEF Reached
  <2>3. CASE t # end
    <3>1. t \in since[s] .. watermark[s] - 1
      BY <1>1, <2>1, <2>3
    <3> QED BY <2>1, <3>1 DEF Reached
  <2> QED BY <2>2, <2>3
<1>2. IInv => EveryInstantCovered
  BY <1>1 DEF EveryInstantCovered
<1> QED BY <1>2, Invariance, PTL

-----------------------------------------------------------------------------
(* X through Xpoz.  Three invariants, one for each thing the paid calls    *)
(* must not do.  Reserved relates what the account held at the check to    *)
(* what others spent since.  Paced counts attempts by their rows: a row is *)
(* written before its call, so the call was counted when the next one was  *)
(* let in.  Caught follows a late post: whatever was indexed before a      *)
(* search began was returned by it or cut off, and what it returned was    *)
(* stored or is read again.                                                *)
CONSTANTS Posts, Followed, Old, Reserve, SearchGap, ScanGap, SearchBack, ScanBack, Hour,
          PerHour, Threads, MaxCredits
VARIABLES time, dated, indexed, credits, balance, doing, place, until, found, kept, marks,
          thread, calls, again, cut, served

Xpoz == INSTANCE XpozSource

\* An instance counts as this module does.
LEMMA XpozCounts == \A S : Xpoz!Cardinality(S) = Cardinality(S)
BY DEF Xpoz!Cardinality, Xpoz!IsFiniteSet, Cardinality, IsFiniteSet

Places == {"idle", "attempt", "check", "call", "store", "mark", "save"}

\* Posts and rows carry times of the past.
Dates ==
    /\ time \in Nat
    /\ dated \in [Posts -> Int] /\ indexed \in [Posts -> Int] /\ thread \in [Posts -> Int]
    /\ \A p \in Posts :
        /\ Xpoz!Never <= dated[p] /\ dated[p] <= time
        /\ Xpoz!Never <= indexed[p] /\ indexed[p] <= time
        /\ Xpoz!Never <= thread[p] /\ thread[p] <= time
        /\ indexed[p] # Xpoz!Never => 0 <= dated[p] /\ dated[p] <= indexed[p]
    /\ marks \in [Xpoz!Reads -> Int]
    /\ \A r \in Xpoz!Reads : Xpoz!Never <= marks[r] /\ marks[r] <= time

\* Which call is at which place.
Control ==
    /\ place \in Places /\ doing \in Xpoz!Reads \cup Posts \cup {"none"} /\ found \subseteq Posts
    /\ place = "idle" <=> doing = "none"
    /\ place \in {"attempt", "save"} => doing \in Posts
    /\ place \in {"store", "mark"} => doing \in Xpoz!Reads

\* A read has its window, which ends no earlier than the last one did.
Window ==
    /\ until \in Int
    /\ doing \in Xpoz!Reads => marks[doing] <= until /\ 0 <= until /\ until <= time
    /\ doing \notin Xpoz!Reads => until = Xpoz!Never

Purse == credits \in 0 .. MaxCredits /\ balance \in Xpoz!Never .. MaxCredits /\ since \in Nat

Records ==
    /\ calls \subseteq Posts \X Nat /\ kept \subseteq Posts \X Xpoz!Reads
    /\ cut \subseteq Posts /\ served \subseteq Posts

Types == Dates /\ Control /\ Window /\ Purse /\ Records

\* A call under way was let in by an account that held its cost above the reserve.
Reserved ==
    /\ place # "call" => since = 0
    /\ place = "call" => credits + since >= Reserve + 1

-----------------------------------------------------------------------------
Tried == {q \in Posts : thread[q] # Xpoz!Never}

\* Calls since t; calls in the hour before t.
From(t)   == {c \in calls : c[2] >= t}
Within(t) == {c \in calls : t - Hour <= c[2] /\ c[2] <= t}

\* A call has its row, which is at least as new, and no post has two calls.
Rowed ==
    /\ ~ again
    /\ IsFiniteSet(Tried) /\ Cardinality(Tried) <= Threads
    /\ \A c \in calls : c[2] <= thread[c[1]] /\ \A d \in calls : c[1] = d[1] => c = d

\* What the attempt under way owes to both limits.
Admitted ==
    /\ place = "attempt" =>
        /\ thread[doing] = Xpoz!Never /\ Cardinality(Tried) < Threads
        /\ Cardinality(From(time - Hour)) < PerHour
    /\ place \in {"check", "call"} /\ doing \in Posts =>
        /\ thread[doing] # Xpoz!Never
        /\ \A c \in calls : c[1] # doing /\ c[2] <= thread[doing]
        /\ Cardinality(From(thread[doing] - Hour)) < PerHour
    /\ place = "save" => thread[doing] # Xpoz!Never

Paced == Rowed /\ Admitted /\ \A t \in Nat : Cardinality(Within(t)) <= PerHour

-----------------------------------------------------------------------------
Late(p) == indexed[p] - dated[p] > SearchBack
Kept(p) == \E r \in Xpoz!Reads : <<p, r>> \in kept

\* What was indexed before the last completed search began was served by a
\* search, cut off by one, or is too old; what was served is kept.
Caught ==
    /\ \A p \in served \cup found : indexed[p] # Xpoz!Never
    /\ \A p \in served : dated[p] <= marks["search"]
    /\ \A p \in Posts : /\ indexed[p] # Xpoz!Never /\ indexed[p] < marks["search"]
                        /\ dated[p] >= marks["search"] - Fresh
                        => p \in served \cup cut
    /\ \A p \in served \ cut : Late(p) \/ Kept(p)
    /\ place \in {"store", "mark"} /\ doing = "search" =>
        \A p \in Posts : indexed[p] # Xpoz!Never /\ indexed[p] < until => p \in found \cup cut
    /\ place = "mark" /\ doing = "search" =>
        \A p \in found \ cut : dated[p] \in until - Fresh .. until => Late(p) \/ Kept(p)

-----------------------------------------------------------------------------
(* Types. *)

\* The constants, one by one.
LEMMA Constants ==
  ASSUME Xpoz!ConstantsOK
  PROVE  /\ Reserve \in Nat /\ MaxCredits \in Nat /\ Fresh \in Nat /\ Hour \in Nat
         /\ PerHour \in Nat /\ Threads \in Nat /\ ScanBack \in Nat /\ SearchBack \in Nat
         /\ Posts \cap (Xpoz!Reads \cup {"none"}) = {}
  BY DEF Xpoz!ConstantsOK, Xpoz!Reads

\* The start is well typed.
LEMMA InitTypes ==
  ASSUME Xpoz!ConstantsOK, Xpoz!XpozInit
  PROVE  Types
<1>1. /\ time = 0 /\ dated \in [Posts -> {0, Xpoz!Never}] /\ indexed = dated
      /\ thread \in [Posts -> {Xpoz!Never}] /\ marks \in [Xpoz!Reads -> {Xpoz!Never}]
  BY DEF Xpoz!XpozInit
<1>2. Dates
  BY <1>1 DEF Dates, Xpoz!Never
<1>3. doing = "none" /\ place = "idle" /\ until = Xpoz!Never /\ found = {}
  BY DEF Xpoz!XpozInit
<1>4. Control
  BY <1>3 DEF Control, Places
<1>5. Window
  <2>1. doing \notin Xpoz!Reads /\ Xpoz!Never \in Int
    BY <1>3 DEF Xpoz!Reads, Xpoz!Never
  <2> QED BY <1>3, <2>1 DEF Window
<1>6. /\ credits \in 0 .. MaxCredits /\ balance = -1 /\ since = 0 /\ MaxCredits \in Nat
      /\ calls = {} /\ kept = {} /\ cut = {} /\ served = {}
  BY Constants DEF Xpoz!XpozInit, Xpoz!Never
<1>7. Purse
  BY <1>6 DEF Purse, Xpoz!Never
<1>8. Records
  BY <1>6 DEF Records
<1> QED BY <1>2, <1>4, <1>5, <1>7, <1>8 DEF Types

\* Clocks only move on, and rows are dated by them.
LEMMA StepDates ==
  ASSUME Types, [Xpoz!XpozNext]_(Xpoz!xpozVars)
  PROVE  Dates'
<1> USE DEF Xpoz!Never, Xpoz!xpozDb, Xpoz!xpozCall, Xpoz!xpozHist
<1>1. Dates
  BY DEF Types
<1>2. CASE UNCHANGED <<time, dated, indexed, thread, marks>>
  BY <1>1, <1>2 DEF Dates
<1>3. CASE Xpoz!XpozTick
  BY <1>1, <1>3 DEF Xpoz!XpozTick, Dates
<1>4. ASSUME NEW p \in Posts, Xpoz!Post(p)
      PROVE  Dates'
  BY <1>1, <1>4 DEF Xpoz!Post, Dates
<1>5. ASSUME NEW p \in Posts, Xpoz!Index(p)
      PROVE  Dates'
  BY <1>1, <1>5 DEF Xpoz!Index, Dates
<1>6. CASE Xpoz!SaveAttempt
  <2>1. /\ thread' = [thread EXCEPT ![doing] = time]
        /\ UNCHANGED <<time, dated, indexed, marks>>
    BY <1>6 DEF Xpoz!SaveAttempt, Xpoz!Attempted
  <2>2. thread' \in [Posts -> Int] /\ \A p \in Posts : thread'[p] \in {time, thread[p]}
    <3>1. thread \in [Posts -> Int] /\ time \in Int
      BY <1>1 DEF Dates
    <3> QED BY <2>1, <3>1
  <2> QED BY <1>1, <2>1, <2>2 DEF Dates
<1>7. CASE Xpoz!SaveThread
  <2>1. /\ thread' = [thread EXCEPT ![doing] = time]
        /\ UNCHANGED <<time, dated, indexed, marks>>
    BY <1>7 DEF Xpoz!SaveThread
  <2>2. thread' \in [Posts -> Int] /\ \A p \in Posts : thread'[p] \in {time, thread[p]}
    <3>1. thread \in [Posts -> Int] /\ time \in Int
      BY <1>1 DEF Dates
    <3> QED BY <2>1, <3>1
  <2> QED BY <1>1, <2>1, <2>2 DEF Dates
<1>8. CASE Xpoz!Mark
  <2>1. doing \in Xpoz!Reads /\ until \in Int /\ 0 <= until /\ until <= time
    BY <1>8 DEF Xpoz!Mark, Types, Control, Window
  <2> QED BY <1>1, <1>8, <2>1 DEF Xpoz!Mark, Dates
<1>9. \/ \E p \in Posts : Xpoz!Post(p) \/ Xpoz!Index(p)
      \/ Xpoz!XpozTick \/ Xpoz!SaveAttempt \/ Xpoz!SaveThread \/ Xpoz!Mark
      \/ UNCHANGED <<time, dated, indexed, thread, marks>>
  BY DEF Xpoz!XpozNext, Xpoz!OthersSpend, Xpoz!Refill, Xpoz!BeginThread, Xpoz!BeginRead, Xpoz!Check, Xpoz!ReadCall, Xpoz!ThreadCall,
         Xpoz!CallFails, Xpoz!Store, Xpoz!GiveUp, Xpoz!Die, Xpoz!xpozVars
<1> QED BY <1>2, <1>3, <1>4, <1>5, <1>6, <1>7, <1>8, <1>9

\* What a step does to the call under way.
Goes(d, w) == doing' = d /\ place' = w
Moves(d) ==
    \/ d = "none" /\ Goes("none", "idle") /\ found' = {}
    \/ d \in Posts /\ Goes(d, "attempt") /\ UNCHANGED found
    \/ d \in Xpoz!Reads /\ Goes(d, "check") /\ UNCHANGED found
    \/ place = "attempt" /\ d = doing /\ Goes(d, "check") /\ UNCHANGED found
    \/ place = "check" /\ d = doing /\ Goes(d, "call") /\ UNCHANGED found
    \/ place = "call" /\ doing \in Xpoz!Reads /\ d = doing /\ Goes(d, "store") /\ found' \subseteq Posts
    \/ place = "call" /\ doing \in Posts /\ d = doing /\ Goes(d, "save") /\ UNCHANGED found
    \/ place = "store" /\ d = doing /\ Goes(d, "mark") /\ UNCHANGED found
    \/ UNCHANGED <<doing, place, found>>

\* Every step moves the call under way in one of these ways, or not at all.
LEMMA EachMoves ==
  ASSUME [Xpoz!XpozNext]_(Xpoz!xpozVars)
  PROVE  \E d : Moves(d)
<1> USE DEF Xpoz!xpozDb, Xpoz!xpozCall, Xpoz!xpozHist
<1> DEFINE Still == UNCHANGED <<doing, place, found>>
<1>1. CASE Xpoz!Over
  BY <1>1 DEF Xpoz!Over, Moves, Goes
<1>2. ASSUME NEW p \in Posts, Xpoz!BeginThread(p)
      PROVE  Moves(p)
  BY <1>2 DEF Xpoz!BeginThread, Moves, Goes
<1>3. ASSUME NEW r \in Xpoz!Reads, Xpoz!BeginRead(r)
      PROVE  Moves(r)
  BY <1>3 DEF Xpoz!BeginRead, Moves, Goes
<1>4. CASE Xpoz!SaveAttempt
  BY <1>4 DEF Xpoz!SaveAttempt, Moves, Goes
<1>5. CASE Xpoz!Check /\ ~ Xpoz!Over
  BY <1>5 DEF Xpoz!Check, Moves, Goes
<1>6. CASE Xpoz!ReadCall
  BY <1>6 DEF Xpoz!ReadCall, Xpoz!Indexed, Moves, Goes
<1>7. CASE Xpoz!ThreadCall
  BY <1>7 DEF Xpoz!ThreadCall, Moves, Goes
<1>8. CASE Xpoz!Store
  BY <1>8 DEF Xpoz!Store, Moves, Goes
<1>9. CASE Still
  BY <1>9 DEF Moves
<1>10. \/ Xpoz!Over \/ Xpoz!SaveAttempt \/ Xpoz!Check \/ Xpoz!ReadCall \/ Xpoz!ThreadCall \/ Xpoz!Store \/ Still
       \/ \E p \in Posts : Xpoz!BeginThread(p)
       \/ \E r \in Xpoz!Reads : Xpoz!BeginRead(r)
  BY DEF Xpoz!XpozNext, Xpoz!XpozTick, Xpoz!OthersSpend, Xpoz!Refill, Xpoz!Post, Xpoz!Index, Xpoz!CallFails, Xpoz!Mark, Xpoz!SaveThread,
         Xpoz!GiveUp, Xpoz!Die, Xpoz!xpozVars
<1> QED BY <1>1, <1>2, <1>3, <1>4, <1>5, <1>6, <1>7, <1>8, <1>9, <1>10

\* So a call keeps to its places.
LEMMA StepControl ==
  ASSUME Xpoz!ConstantsOK, Types, [Xpoz!XpozNext]_(Xpoz!xpozVars)
  PROVE  Control'
<1>1. Control /\ Posts \cap (Xpoz!Reads \cup {"none"}) = {}
  BY Constants DEF Types
<1>2. PICK d : Moves(d)
  BY EachMoves
<1> QED BY <1>1, <1>2 DEF Moves, Goes, Control, Places, Xpoz!Reads

\* A window is opened by the read that begins and closed with it.
LEMMA StepWindow ==
  ASSUME Xpoz!ConstantsOK, Types, [Xpoz!XpozNext]_(Xpoz!xpozVars)
  PROVE  Window'
<1> USE DEF Xpoz!xpozDb, Xpoz!xpozCall, Xpoz!xpozHist
<1>1. /\ Window /\ time \in Nat /\ marks \in [Xpoz!Reads -> Int] /\ \A r \in Xpoz!Reads : marks[r] <= time
      /\ Posts \cap Xpoz!Reads = {} /\ "none" \notin Xpoz!Reads
  BY Constants DEF Types, Dates, Xpoz!Reads
<1>2. CASE UNCHANGED <<doing, until, marks>> /\ (time' = time \/ time' = time + 1)
  <2>1. until' \in Int /\ (doing' \notin Xpoz!Reads => until' = Xpoz!Never)
    BY <1>1, <1>2 DEF Window
  <2>2. ASSUME doing \in Xpoz!Reads
        PROVE  marks[doing] <= until /\ 0 <= until /\ until <= time'
    <3>1. marks[doing] <= until /\ 0 <= until /\ until <= time /\ until \in Int
      BY <1>1, <2>2 DEF Window
    <3> QED BY <1>1, <1>2, <3>1
  <2> QED BY <1>2, <2>1, <2>2 DEF Window
<1>3. CASE Xpoz!Over
  <2>1. doing' \notin Xpoz!Reads /\ until' = Xpoz!Never /\ Xpoz!Never \in Int
    BY <1>1, <1>3 DEF Xpoz!Over, Xpoz!Never
  <2> QED BY <2>1 DEF Window
<1>4. ASSUME NEW p \in Posts, Xpoz!BeginThread(p)
      PROVE  Window'
  <2>1. doing = "none" /\ p \notin Xpoz!Reads /\ doing' = p /\ until' = until
    BY <1>1, <1>4 DEF Xpoz!BeginThread, Types, Control
  <2> QED BY <1>1, <2>1 DEF Window
<1>5. ASSUME NEW r \in Xpoz!Reads, Xpoz!BeginRead(r)
      PROVE  Window'
  <2>1. doing' = r /\ until' = time /\ marks' = marks /\ time' = time
    BY <1>5 DEF Xpoz!BeginRead
  <2>2. doing' \in Xpoz!Reads /\ until' \in Int /\ marks'[r] <= until' /\ 0 <= until' /\ until' <= time'
    BY <1>1, <2>1
  <2> QED BY <2>1, <2>2 DEF Window
<1>6. \/ Xpoz!Over
      \/ \E p \in Posts : Xpoz!BeginThread(p)
      \/ \E r \in Xpoz!Reads : Xpoz!BeginRead(r)
      \/ UNCHANGED <<doing, until, marks>> /\ (time' = time \/ time' = time + 1)
  BY DEF Xpoz!XpozNext, Xpoz!XpozTick, Xpoz!OthersSpend, Xpoz!Refill, Xpoz!Post, Xpoz!Index, Xpoz!SaveAttempt, Xpoz!Check, Xpoz!ReadCall,
         Xpoz!ThreadCall, Xpoz!CallFails, Xpoz!Store, Xpoz!Mark, Xpoz!SaveThread, Xpoz!GiveUp, Xpoz!Die, Xpoz!xpozVars
<1> QED BY <1>2, <1>3, <1>4, <1>5, <1>6

\* Credits are neither negative nor more than a refill gives.
LEMMA StepPurse ==
  ASSUME Xpoz!ConstantsOK, Types, [Xpoz!XpozNext]_(Xpoz!xpozVars)
  PROVE  Purse'
<1> USE DEF Xpoz!Never, Xpoz!xpozDb, Xpoz!xpozCall, Xpoz!xpozHist
<1>1. Purse /\ MaxCredits \in Nat /\ Reserve \in Nat
  BY Constants DEF Types
<1>2. CASE UNCHANGED <<credits, balance, since>>
  BY <1>1, <1>2 DEF Purse
<1>3. CASE Xpoz!OthersSpend \/ Xpoz!Refill \/ Xpoz!Die
  BY <1>1, <1>3 DEF Xpoz!OthersSpend, Xpoz!Refill, Xpoz!Die, Purse
<1>4. CASE Xpoz!Check
  BY <1>1, <1>4 DEF Xpoz!Check, Xpoz!Refreshed, Xpoz!Earlier, Purse
<1>5. CASE Xpoz!ReadCall \/ Xpoz!ThreadCall \/ Xpoz!CallFails
  BY <1>1, <1>5 DEF Xpoz!ReadCall, Xpoz!ThreadCall, Xpoz!CallFails, Xpoz!Charged, Xpoz!Later, Purse
<1>6. \/ Xpoz!OthersSpend \/ Xpoz!Refill \/ Xpoz!Die \/ Xpoz!Check \/ Xpoz!ReadCall \/ Xpoz!ThreadCall \/ Xpoz!CallFails
      \/ UNCHANGED <<credits, balance, since>>
  BY DEF Xpoz!XpozNext, Xpoz!XpozTick, Xpoz!Post, Xpoz!Index, Xpoz!BeginThread, Xpoz!BeginRead, Xpoz!SaveAttempt, Xpoz!Store, Xpoz!Mark,
         Xpoz!SaveThread, Xpoz!GiveUp, Xpoz!xpozVars
<1> QED BY <1>2, <1>3, <1>4, <1>5, <1>6

\* What is remembered of posts and calls is of posts.
LEMMA StepRecords ==
  ASSUME Xpoz!ConstantsOK, Types, Rowed, Admitted, [Xpoz!XpozNext]_(Xpoz!xpozVars)
  PROVE  Records'
<1> USE DEF Xpoz!Never, Xpoz!xpozDb, Xpoz!xpozCall, Xpoz!xpozHist
<1>1. Records /\ found \subseteq Posts
  BY DEF Types, Control
<1>2. CASE UNCHANGED <<calls, kept, cut, served>>
  BY <1>1, <1>2 DEF Records
<1>3. CASE (Xpoz!ThreadCall \/ Xpoz!CallFails) /\ doing \in Posts
  <2>1. thread[doing] \in Nat
    BY <1>3 DEF Xpoz!ThreadCall, Xpoz!CallFails, Admitted, Types, Dates
  <2>2. calls' = calls \cup {<<doing, thread[doing]>>} /\ UNCHANGED <<kept, cut, served>>
    BY <1>3 DEF Xpoz!ThreadCall, Xpoz!CallFails, Xpoz!Called
  <2> QED BY <1>1, <1>3, <2>1, <2>2 DEF Records
<1>4. CASE Xpoz!ReadCall
  BY <1>1, <1>4 DEF Xpoz!ReadCall, Xpoz!Indexed, Records
<1>5. CASE Xpoz!Store
  BY <1>1, <1>5 DEF Xpoz!Store, Xpoz!SourceOf, Xpoz!Reads, Records
<1>6. CASE Xpoz!Mark
  BY <1>1, <1>6 DEF Xpoz!Mark, Records
<1>7. \/ (Xpoz!ThreadCall \/ Xpoz!CallFails) /\ doing \in Posts
      \/ Xpoz!ReadCall \/ Xpoz!Store \/ Xpoz!Mark
      \/ UNCHANGED <<calls, kept, cut, served>>
  BY DEF Xpoz!XpozNext, Xpoz!XpozTick, Xpoz!OthersSpend, Xpoz!Refill, Xpoz!Post, Xpoz!Index, Xpoz!BeginThread, Xpoz!BeginRead,
         Xpoz!SaveAttempt, Xpoz!Check, Xpoz!ThreadCall, Xpoz!CallFails, Xpoz!Called, Xpoz!SaveThread, Xpoz!GiveUp, Xpoz!Die, Xpoz!xpozVars
<1> QED BY <1>2, <1>3, <1>4, <1>5, <1>6, <1>7

-----------------------------------------------------------------------------
(* The reserve. *)

\* A paid call takes the account below the reserve only where others helped it to.
LEMMA StepReserved ==
  ASSUME Xpoz!ConstantsOK, Types, Reserved, [Xpoz!XpozNext]_(Xpoz!xpozVars)
  PROVE  Reserved' /\ Xpoz!ReserveKept
<1> USE DEF Xpoz!Never, Xpoz!xpozDb, Xpoz!xpozCall, Xpoz!xpozHist
<1>1. Purse /\ MaxCredits \in Nat /\ Reserve \in Nat
  BY Constants DEF Types
<1>2. CASE UNCHANGED <<place, credits, since>>
  BY <1>1, <1>2 DEF Reserved, Xpoz!ReserveKept
<1>3. CASE Xpoz!OthersSpend \/ Xpoz!Refill
  BY <1>1, <1>3 DEF Xpoz!OthersSpend, Xpoz!Refill, Purse, Reserved, Xpoz!ReserveKept
<1>4. CASE since' = since /\ credits' = credits /\ place # "call" /\ place' # "call"
  BY <1>1, <1>4 DEF Reserved, Xpoz!ReserveKept
<1>5. CASE Xpoz!Check
  <2>1. Xpoz!Refreshed \in Int /\ Xpoz!Refreshed <= credits
    BY <1>1 DEF Xpoz!Refreshed, Xpoz!Earlier, Purse
  <2>2. place = "check" /\ since' = since /\ credits' = credits
    BY <1>5 DEF Xpoz!Check
  <2>3. CASE Xpoz!Refreshed - 1 < Reserve
    <3>1. place' = "idle"
      BY <1>5, <2>3 DEF Xpoz!Check, Xpoz!Over
    <3> QED BY <2>2, <3>1 DEF Reserved, Xpoz!ReserveKept
  <2>4. CASE ~ (Xpoz!Refreshed - 1 < Reserve)
    <3>1. place' = "call"
      BY <1>5, <2>4 DEF Xpoz!Check
    <3> QED BY <1>1, <2>1, <2>2, <2>4, <3>1 DEF Purse, Reserved, Xpoz!ReserveKept
  <2> QED BY <2>3, <2>4
<1>6. CASE Xpoz!ReadCall \/ Xpoz!ThreadCall \/ Xpoz!CallFails
  <2>1. /\ place = "call" /\ place' # "call" /\ since' = 0
        /\ Xpoz!Charged \/ UNCHANGED credits
    BY <1>6 DEF Xpoz!ReadCall, Xpoz!ThreadCall, Xpoz!CallFails, Xpoz!Over
  <2>2. credits' < credits => credits' = credits - 1
    BY <1>1, <2>1 DEF Xpoz!Charged, Xpoz!Later, Purse
  <2> QED BY <1>1, <2>1, <2>2 DEF Purse, Reserved, Xpoz!ReserveKept
<1>7. CASE Xpoz!Die
  <2>1. place' # "call" /\ since' = 0 /\ credits' = credits
    BY <1>7 DEF Xpoz!Die, Xpoz!Over
  <2> QED BY <1>1, <2>1 DEF Purse, Reserved, Xpoz!ReserveKept
<1>8. \/ Xpoz!OthersSpend \/ Xpoz!Refill \/ Xpoz!Check \/ Xpoz!ReadCall \/ Xpoz!ThreadCall \/ Xpoz!CallFails \/ Xpoz!Die
      \/ UNCHANGED <<place, credits, since>>
      \/ since' = since /\ credits' = credits /\ place # "call" /\ place' # "call"
  BY DEF Xpoz!XpozNext, Xpoz!XpozTick, Xpoz!Post, Xpoz!Index, Xpoz!BeginThread, Xpoz!BeginRead, Xpoz!SaveAttempt, Xpoz!Store, Xpoz!Mark,
         Xpoz!SaveThread, Xpoz!GiveUp, Xpoz!Over, Xpoz!xpozVars
<1> QED BY <1>2, <1>3, <1>4, <1>5, <1>6, <1>7, <1>8

-----------------------------------------------------------------------------
(* The pace of the thread calls. *)

\* Calls have rows of their own, so there are no more of them than rows.
LEMMA CallsByRow ==
  ASSUME Rowed, NEW S \in SUBSET calls, NEW T, IsFiniteSet(T), \A c \in S : c[1] \in T
  PROVE  IsFiniteSet(S) /\ Cardinality(S) <= Cardinality(T)
<1> DEFINE f == [c \in S |-> c[1]]
<1>1. f \in Injection(S, T)
  BY DEF Rowed, Injection, IsInjective
<1> HIDE DEF f
<1> QED BY <1>1, FS_Injection

\* So the calls are counted by the threads tried.
LEMMA CallsFinite ==
  ASSUME Xpoz!ConstantsOK, Types, Rowed
  PROVE  /\ IsFiniteSet(calls) /\ Cardinality(calls) <= Threads
         /\ \A c \in calls : c[1] \in Tried /\ c[1] \in Posts /\ c[2] \in Nat
<1>1. \A c \in calls : c[1] \in Posts /\ c[2] \in Nat /\ c[2] <= thread[c[1]]
  BY DEF Types, Records, Rowed
<1>2. \A c \in calls : c[1] \in Tried
  BY <1>1 DEF Tried, Xpoz!Never, Types, Dates
<1>3. IsFiniteSet(calls) /\ Cardinality(calls) <= Cardinality(Tried)
  BY <1>2, CallsByRow DEF Rowed
<1>4. Cardinality(calls) \in Nat /\ Cardinality(Tried) \in Nat /\ Cardinality(Tried) <= Threads
  BY <1>3, FS_CardinalityType DEF Rowed
<1> QED BY <1>1, <1>2, <1>3, <1>4, Constants

\* A thread call that was let in and its record.
NewCall == /\ calls' = calls \cup {<<doing, thread[doing]>>}
           /\ again' = (again \/ \E c \in calls : c[1] = doing)
           /\ thread' = thread /\ doing \in Posts /\ place = "call"

\* The steps that matter to the pace.
LEMMA PaceSteps ==
  ASSUME Types, [Xpoz!XpozNext]_(Xpoz!xpozVars)
  PROVE  \/ UNCHANGED <<calls, again, thread>>
         \/ Xpoz!SaveAttempt
         \/ NewCall
         \/ Xpoz!SaveThread
<1> USE DEF Xpoz!xpozDb, Xpoz!xpozCall, Xpoz!xpozHist
<1>1. CASE Xpoz!ThreadCall
  BY <1>1 DEF Xpoz!ThreadCall, Xpoz!Called, NewCall
<1>2. CASE Xpoz!CallFails
  BY <1>2 DEF Xpoz!CallFails, Xpoz!Called, NewCall
<1> QED
  BY <1>1, <1>2 DEF Xpoz!XpozNext, Xpoz!XpozTick, Xpoz!OthersSpend, Xpoz!Refill, Xpoz!Post, Xpoz!Index, Xpoz!BeginThread,
         Xpoz!BeginRead,
                    Xpoz!Check, Xpoz!ReadCall, Xpoz!Store, Xpoz!Mark, Xpoz!GiveUp, Xpoz!Die, Xpoz!xpozVars

\* A row precedes its call and is never given to a second one.
LEMMA StepRowed ==
  ASSUME Xpoz!ConstantsOK, Types, Rowed, Admitted, [Xpoz!XpozNext]_(Xpoz!xpozVars)
  PROVE  Rowed'
<1>1. /\ thread \in [Posts -> Int] /\ time \in Nat
      /\ \A c \in calls : c[1] \in Posts /\ c[2] \in Nat /\ c[2] <= thread[c[1]]
      /\ \A p \in Posts : thread[p] <= time
  BY DEF Types, Dates, Records, Rowed
<1>2. CASE UNCHANGED <<calls, again, thread>>
  BY <1>2 DEF Rowed, Tried
<1>3. CASE Xpoz!SaveAttempt
  <2>1. /\ doing \in Posts /\ thread[doing] = Xpoz!Never /\ Cardinality(Tried) < Threads
        /\ thread' = [thread EXCEPT ![doing] = time]
        /\ calls' = calls /\ again' = again
    BY <1>3 DEF Xpoz!SaveAttempt, Xpoz!Attempted, Types, Control, Admitted, Xpoz!xpozHist
  <2>2. Tried' = Tried \cup {doing}
    BY <1>1, <2>1 DEF Tried, Xpoz!Never
  <2>3. IsFiniteSet(Tried') /\ Cardinality(Tried') <= Threads
    <3>1. doing \notin Tried
      BY <2>1 DEF Tried
    <3>2. IsFiniteSet(Tried) /\ Cardinality(Tried) \in Nat
      BY FS_CardinalityType DEF Rowed
    <3>3. Cardinality(Tried') = Cardinality(Tried) + 1 /\ IsFiniteSet(Tried')
      BY <2>2, <3>1, <3>2, FS_AddElement
    <3> QED BY <2>1, <3>2, <3>3, Constants
  <2>4. \A c \in calls : c[2] <= thread'[c[1]]
    BY <1>1, <2>1 DEF Xpoz!Never
  <2> QED BY <2>1, <2>3, <2>4 DEF Rowed
<1>4. CASE NewCall
  <2>1. /\ doing \in Posts /\ thread[doing] # Xpoz!Never /\ \A c \in calls : c[1] # doing
    BY <1>4 DEF NewCall, Admitted
  <2>2. ~ again' /\ Tried' = Tried
    BY <1>4, <2>1 DEF NewCall, Rowed, Tried
  <2>3. \A c \in calls' : c[2] <= thread'[c[1]]
    BY <1>1, <1>4, <2>1 DEF NewCall
  <2>4. \A c, d \in calls' : c[1] = d[1] => c = d
    BY <1>4, <2>1 DEF NewCall, Rowed
  <2> QED BY <2>2, <2>3, <2>4 DEF Rowed
<1>5. CASE Xpoz!SaveThread
  <2>1. /\ doing \in Posts /\ thread[doing] # Xpoz!Never
        /\ thread' = [thread EXCEPT ![doing] = time]
        /\ calls' = calls /\ again' = again
    BY <1>5 DEF Xpoz!SaveThread, Types, Control, Admitted, Xpoz!xpozHist
  <2>2. Tried' = Tried
    BY <1>1, <2>1 DEF Tried, Xpoz!Never
  <2>3. \A c \in calls : c[2] <= thread'[c[1]]
    BY <1>1, <2>1
  <2> QED BY <2>1, <2>2, <2>3 DEF Rowed
<1> QED BY <1>2, <1>3, <1>4, <1>5, PaceSteps

\* Calls of one hour, when one more is made.
LEMMA StepHourly ==
  ASSUME Xpoz!ConstantsOK, Types, Paced, [Xpoz!XpozNext]_(Xpoz!xpozVars)
  PROVE  \A t \in Nat : Cardinality(Within(t)') <= PerHour
<1>1. CASE calls' = calls
  BY <1>1 DEF Paced, Within
<1>2. CASE NewCall
  <2> SUFFICES ASSUME NEW t \in Nat
               PROVE  Cardinality(Within(t)') <= PerHour
    OBVIOUS
  <2> DEFINE n == <<doing, thread[doing]>>
  <2>1. /\ calls' = calls \cup {n} /\ n[2] = thread[doing]
        /\ doing \in Posts /\ thread[doing] \in Int
        /\ Cardinality(From(thread[doing] - Hour)) < PerHour
    BY <1>2 DEF NewCall, Paced, Admitted, Types, Dates
  <2>2. /\ IsFiniteSet(calls) /\ \A c \in calls : c[2] \in Nat
        /\ Hour \in Nat /\ PerHour \in Nat
    BY CallsFinite, Constants DEF Paced
  <2>3. IsFiniteSet(Within(t)) /\ IsFiniteSet(From(thread[doing] - Hour))
    BY <2>2, FS_Subset DEF Within, From
  <2>4. CASE t - Hour <= thread[doing] /\ thread[doing] <= t
    <3>1. Within(t)' = Within(t) \cup {n}
      BY <2>1, <2>4 DEF Within
    <3>2. Within(t) \in SUBSET From(thread[doing] - Hour)
      BY <2>1, <2>2, <2>4 DEF Within, From
    <3>3. Cardinality(Within(t)) <= Cardinality(From(thread[doing] - Hour))
      BY <2>3, <3>2, FS_Subset
    <3>4. Cardinality(Within(t)') <= Cardinality(Within(t)) + 1
      <4>1. Cardinality(Within(t)) \in Nat
        BY <2>3, FS_CardinalityType
      <4>2. Cardinality(Within(t) \cup {n}) = IF n \in Within(t) THEN Cardinality(Within(t))
                                              ELSE Cardinality(Within(t)) + 1
        BY <2>3, FS_AddElement
      <4> QED BY <3>1, <4>1, <4>2
    <3>5. /\ Cardinality(Within(t)) \in Nat /\ Cardinality(From(thread[doing] - Hour)) \in Nat
          /\ Cardinality(Within(t) \cup {n}) \in Nat
      BY <2>3, FS_CardinalityType, FS_AddElement
    <3> QED BY <2>1, <2>2, <3>1, <3>3, <3>4, <3>5
  <2>5. CASE ~ (t - Hour <= thread[doing] /\ thread[doing] <= t)
    <3>1. Within(t)' = Within(t)
      BY <2>1, <2>5 DEF Within
    <3> QED BY <3>1 DEF Paced
  <2> QED BY <2>4, <2>5
<1> QED BY <1>1, <1>2, PaceSteps DEF Xpoz!SaveAttempt, Xpoz!SaveThread, Xpoz!xpozHist

\* The limits are looked at before the row is written, and hold when the call is made.
LEMMA StepAdmitted ==
  ASSUME Xpoz!ConstantsOK, Types, Rowed, Admitted, [Xpoz!XpozNext]_(Xpoz!xpozVars)
  PROVE  Admitted'
<1> USE DEF Xpoz!xpozDb, Xpoz!xpozCall, Xpoz!xpozHist
<1>1. /\ thread \in [Posts -> Int] /\ time \in Nat /\ Hour \in Nat /\ PerHour \in Nat
      /\ IsFiniteSet(calls) /\ \A c \in calls : c[1] \in Tried /\ c[1] \in Posts /\ c[2] \in Nat
      /\ \A p \in Posts : thread[p] <= time
      /\ Posts \cap Xpoz!Reads = {} /\ "none" \notin Posts
      /\ \A c \in calls : c[2] <= thread[c[1]]
  BY CallsFinite, Constants DEF Types, Dates, Rowed
<1>2. CASE doing' \notin Posts
  <2>1. place' \notin {"attempt", "save"}
    BY <1>2, StepControl DEF Control
  <2> QED BY <1>2, <2>1 DEF Admitted
<1>3. CASE /\ UNCHANGED <<doing, thread, calls, time>>
           /\ place' = place \/ (place = "check" /\ place' = "call")
  BY <1>3 DEF Admitted, Tried, From
<1>4. CASE Xpoz!XpozTick
  <2>1. UNCHANGED <<doing, place, thread, calls>> /\ time' = time + 1
    BY <1>4 DEF Xpoz!XpozTick
  <2>2. From(time - Hour + 1) \in SUBSET From(time - Hour)
    BY <1>1 DEF From
  <2>3. Cardinality(From(time - Hour + 1)) <= Cardinality(From(time - Hour))
    BY <1>1, <2>2, FS_Subset DEF From
  <2>4. /\ From(time - Hour)' = From(time - Hour + 1)
        /\ From(thread[doing] - Hour)' = From(thread[doing] - Hour)
    BY <1>1, <2>1 DEF From
  <2>5. Cardinality(From(time - Hour + 1)) \in Nat /\ Cardinality(From(time - Hour)) \in Nat
    BY <1>1, FS_Subset, FS_CardinalityType DEF From
  <2>6. Cardinality(From(time - Hour)) < PerHour => Cardinality(From(time - Hour)') < PerHour
    BY <1>1, <2>3, <2>4, <2>5
  <2>7. Tried' = Tried
    BY <2>1 DEF Tried
  <2> QED BY <2>1, <2>4, <2>6, <2>7 DEF Admitted
<1>5. ASSUME NEW p \in Posts, Xpoz!BeginThread(p)
      PROVE  Admitted'
  <2>1. /\ doing' = p /\ place' = "attempt" /\ thread' = thread /\ calls' = calls /\ time' = time
        /\ thread[p] = Xpoz!Never /\ Cardinality(Tried) < Threads /\ Cardinality(Xpoz!Recent) < PerHour
    BY <1>5, XpozCounts DEF Xpoz!BeginThread, Tried
  <2>2. IsFiniteSet(Xpoz!Recent)
    <3>1. Xpoz!Recent \in SUBSET Tried
      BY DEF Xpoz!Recent, Tried
    <3> QED BY <3>1, FS_Subset DEF Rowed
  <2>3. \A c \in From(time - Hour) : c[1] \in Xpoz!Recent
    BY <1>1 DEF From, Xpoz!Recent, Tried
  <2>4. IsFiniteSet(From(time - Hour)) /\ Cardinality(From(time - Hour)) <= Cardinality(Xpoz!Recent)
    BY <2>2, <2>3, CallsByRow DEF From
  <2>5. Cardinality(From(time - Hour)) \in Nat /\ Cardinality(Xpoz!Recent) \in Nat
    BY <2>2, <2>4, FS_CardinalityType
  <2>6. Cardinality(From(time - Hour)) < PerHour
    BY <1>1, <2>1, <2>4, <2>5
  <2>7. From(time - Hour)' = From(time - Hour) /\ Tried' = Tried
    BY <2>1 DEF From, Tried
  <2> QED BY <2>1, <2>6, <2>7 DEF Admitted
<1>6. CASE Xpoz!SaveAttempt
  <2>1. /\ doing \in Posts /\ doing' = doing /\ place' = "check"
        /\ thread' = [thread EXCEPT ![doing] = time] /\ calls' = calls /\ time' = time
        /\ thread[doing] = Xpoz!Never /\ Cardinality(From(time - Hour)) < PerHour
    BY <1>6 DEF Xpoz!SaveAttempt, Xpoz!Attempted, Types, Control, Admitted
  <2>2. thread'[doing] = time /\ time # Xpoz!Never
    BY <1>1, <2>1 DEF Xpoz!Never
  <2>3. \A c \in calls : c[1] # doing /\ c[2] <= time
    BY <1>1, <2>1 DEF Tried
  <2>4. From(thread[doing] - Hour)' = From(time - Hour)
    BY <2>1, <2>2 DEF From
  <2> QED BY <2>1, <2>2, <2>3, <2>4 DEF Admitted
<1>7. CASE Xpoz!ThreadCall
  <2>1. place' = "save" /\ doing' = doing /\ thread' = thread /\ thread[doing] # Xpoz!Never
    BY <1>7 DEF Xpoz!ThreadCall, Admitted
  <2> QED BY <2>1 DEF Admitted
<1>8. \/ doing' \notin Posts
      \/ UNCHANGED <<doing, thread, calls, time>> /\ (place' = place \/ (place = "check" /\ place' = "call"))
      \/ Xpoz!XpozTick \/ Xpoz!SaveAttempt \/ Xpoz!ThreadCall \/ \E p \in Posts : Xpoz!BeginThread(p)
  <2>1. CASE Xpoz!Over
    BY <1>1, <2>1 DEF Xpoz!Over
  <2>2. CASE Xpoz!Check /\ ~ Xpoz!Over
    BY <2>2 DEF Xpoz!Check
  <2>3. CASE Xpoz!ReadCall \/ Xpoz!Store
    BY <1>1, <2>3 DEF Xpoz!ReadCall, Xpoz!Store, Types, Control
  <2>4. ASSUME NEW r \in Xpoz!Reads, Xpoz!BeginRead(r)
        PROVE  doing' \notin Posts
    BY <1>1, <2>4 DEF Xpoz!BeginRead
  <2>5. CASE \/ Xpoz!OthersSpend \/ Xpoz!Refill \/ UNCHANGED Xpoz!xpozVars
             \/ \E p \in Posts : Xpoz!Post(p) \/ Xpoz!Index(p)
    <3>1. UNCHANGED <<doing, thread, calls, time, place>>
      BY <2>5 DEF Xpoz!OthersSpend, Xpoz!Refill, Xpoz!Post, Xpoz!Index, Xpoz!xpozVars
    <3> QED BY <3>1
  <2>6. CASE Xpoz!CallFails \/ Xpoz!Mark \/ Xpoz!SaveThread \/ Xpoz!GiveUp \/ Xpoz!Die
    BY <2>1, <2>6 DEF Xpoz!CallFails, Xpoz!Mark, Xpoz!SaveThread, Xpoz!GiveUp, Xpoz!Die
  <2> QED BY <2>1, <2>2, <2>3, <2>4, <2>5, <2>6 DEF Xpoz!XpozNext
<1> QED BY <1>2, <1>3, <1>4, <1>5, <1>6, <1>7, <1>8

\* The pace is kept.
LEMMA StepPaced ==
  ASSUME Xpoz!ConstantsOK, Types, Paced, [Xpoz!XpozNext]_(Xpoz!xpozVars)
  PROVE  Paced'
<1>1. Rowed' /\ Admitted'
  BY StepRowed, StepAdmitted DEF Paced
<1>2. (\A t \in Nat : Cardinality(Within(t)) <= PerHour)'
  BY StepHourly
<1> QED BY <1>1, <1>2 DEF Paced

-----------------------------------------------------------------------------
(* Late posts. *)

\* A read that is not at its store or mark leaves everything to the next.
LEMMA CaughtStays ==
  ASSUME Caught, UNCHANGED <<served, cut, kept, marks, indexed, dated>>, found' \in {found, {}},
         UNCHANGED <<place, doing, until, found>> \/ place' \notin {"store", "mark"}
  PROVE  Caught'
  BY DEF Caught, Late, Kept

\* Posts and their indexing come after every window that is open or closed.
LEMMA WorldCaught ==
  ASSUME Types, Caught, NEW p \in Posts, Xpoz!Post(p) \/ Xpoz!Index(p)
  PROVE  Caught'
<1>1. /\ dated \in [Posts -> Int] /\ indexed \in [Posts -> Int] /\ time \in Nat
      /\ until \in Int /\ marks["search"] \in Int
      /\ indexed[p] # Xpoz!Never => dated[p] # Xpoz!Never
      /\ marks["search"] <= time
      /\ place \in {"store", "mark"} => until <= time
      /\ found \subseteq Posts /\ served \subseteq Posts
  BY DEF Types, Dates, Control, Window, Records, Xpoz!Reads, Xpoz!Never
<1>2. /\ indexed[p] = Xpoz!Never
      /\ UNCHANGED <<served, cut, kept, marks, place, doing, until, found>>
  BY <1>1 DEF Xpoz!Post, Xpoz!Index, Xpoz!xpozDb, Xpoz!xpozCall, Xpoz!xpozHist
<1>3. \A q \in Posts \ {p} : indexed'[q] = indexed[q] /\ dated'[q] = dated[q]
  BY <1>1 DEF Xpoz!Post, Xpoz!Index
<1>4. indexed'[p] = Xpoz!Never \/ indexed'[p] = time
  BY <1>1, <1>2 DEF Xpoz!Post, Xpoz!Index
<1>5. p \notin served \cup found
  BY <1>2 DEF Caught
<1>6. \A q \in Posts : indexed'[q] # Xpoz!Never /\ (indexed'[q] < marks["search"]
                                              \/ (place \in {"store", "mark"} /\ indexed'[q] < until))
                       => q # p
  BY <1>1, <1>4
<1>7. \A q \in served \cup found : q # p /\ q \in Posts
  BY <1>1, <1>5
<1>8. \A q \in served \cup found : Late(q)' = Late(q) /\ Kept(q)' = Kept(q)
  BY <1>2, <1>3, <1>7 DEF Late, Kept
<1>9. \A q \in served' \cup found' : indexed'[q] # Xpoz!Never
  BY <1>2, <1>3, <1>7 DEF Caught
<1>10. \A q \in served' : dated'[q] <= marks'["search"]
  BY <1>2, <1>3, <1>7 DEF Caught
<1>11. \A q \in Posts : /\ indexed'[q] # Xpoz!Never /\ indexed'[q] < marks'["search"]
                         /\ dated'[q] >= marks'["search"] - Fresh
                         => q \in served' \cup cut'
  <2>1. ASSUME NEW q \in Posts, indexed'[q] # Xpoz!Never, indexed'[q] < marks["search"],
               dated'[q] >= marks["search"] - Fresh
        PROVE  q \in served \cup cut
    <3>1. indexed'[q] = indexed[q] /\ dated'[q] = dated[q]
      BY <1>3, <1>6, <2>1
    <3> QED BY <2>1, <3>1 DEF Caught
  <2> QED BY <1>2, <2>1
<1>12. \A q \in served' \ cut' : Late(q)' \/ Kept(q)'
  BY <1>2, <1>8 DEF Caught
<1>13. place' \in {"store", "mark"} /\ doing' = "search" =>
         \A q \in Posts : indexed'[q] # Xpoz!Never /\ indexed'[q] < until' => q \in found' \cup cut'
  BY <1>2, <1>3, <1>6 DEF Caught
<1>14. place' = "mark" /\ doing' = "search" =>
         \A q \in found' \ cut' : dated'[q] \in until' - Fresh .. until' => Late(q)' \/ Kept(q)'
  BY <1>2, <1>3, <1>7, <1>8 DEF Caught
<1> QED BY <1>9, <1>10, <1>11, <1>12, <1>13, <1>14 DEF Caught

\* A search returns or cuts off all that is indexed.
LEMMA ReadCaught ==
  ASSUME Types, Caught, Xpoz!ReadCall
  PROVE  Caught'
<1>1. /\ UNCHANGED <<dated, indexed, kept, marks, until, served, doing>> /\ place' = "store"
      /\ found' \subseteq Xpoz!Indexed(doing)
      /\ cut' = IF doing = "search" THEN cut \cup (Xpoz!Indexed(doing) \ found') ELSE cut
  BY DEF Xpoz!ReadCall, Xpoz!xpozDb
<1>2. \A q \in found' : indexed[q] # Xpoz!Never
  BY <1>1 DEF Xpoz!Indexed
<1>3. doing = "search" => \A q \in Posts : indexed[q] # Xpoz!Never => q \in found' \cup cut'
  BY <1>1 DEF Xpoz!Indexed
<1>4. cut \subseteq cut'
  BY <1>1
<1> QED BY <1>1, <1>2, <1>3, <1>4 DEF Caught, Late, Kept

\* What a search found and does not store was indexed before the search before it
\* began, or is late.
LEMMA StoreCaught ==
  ASSUME Xpoz!ConstantsOK, Types, Caught, Xpoz!Store
  PROVE  Caught'
<1>1. /\ UNCHANGED <<dated, indexed, marks, until, served, cut, found, doing>> /\ place' = "mark"
      /\ kept' = kept \cup {<<q, Xpoz!SourceOf(doing, q)>> :
                              q \in {x \in found : Xpoz!QueryStart(doing) <= dated[x] /\ dated[x] <= until}}
  BY DEF Xpoz!Store, Xpoz!xpozHist
<1>2. kept \subseteq kept'
  BY <1>1
<1>3. \A q \in found : Xpoz!QueryStart(doing) <= dated[q] /\ dated[q] <= until => Kept(q)'
  BY <1>1 DEF Kept, Xpoz!SourceOf, Xpoz!Reads
<1>4. ASSUME doing = "search", NEW q \in found \ cut, dated[q] \in until - Fresh .. until
      PROVE  Late(q) \/ Kept(q)'
  <2>1. /\ dated[q] \in Int /\ indexed[q] \in Int /\ until \in Int /\ marks["search"] \in Int
        /\ Fresh \in Nat /\ SearchBack \in Nat /\ q \in Posts
        /\ indexed[q] # Xpoz!Never /\ marks["search"] <= until
    BY <1>4, Constants DEF Types, Dates, Control, Window, Caught, Xpoz!Reads
  <2>2. CASE Xpoz!QueryStart(doing) <= dated[q]
    BY <1>3, <1>4, <2>2
  <2>3. CASE ~ (Xpoz!QueryStart(doing) <= dated[q])
    <3>1. dated[q] < marks["search"] - SearchBack
      BY <1>4, <2>1, <2>3 DEF Xpoz!QueryStart, Xpoz!Later, Xpoz!Back
    <3>2. Late(q) \/ indexed[q] < marks["search"]
      BY <2>1, <3>1 DEF Late
    <3>3. dated[q] >= marks["search"] - Fresh
      BY <1>4, <2>1
    <3>4. Late(q) \/ q \in served \ cut
      BY <1>4, <2>1, <3>2, <3>3 DEF Caught
    <3>5. Late(q) \/ Kept(q)
      BY <3>4 DEF Caught
    <3> QED BY <1>2, <3>5 DEF Kept
  <2> QED BY <2>2, <2>3
<1>5. \A q : Late(q)' = Late(q) /\ (Kept(q) => Kept(q)')
  BY <1>1, <1>2 DEF Late, Kept
<1>6. place \in {"store", "mark"}
  BY DEF Xpoz!Store
<1>7. \A q \in served' \ cut' : Late(q)' \/ Kept(q)'
  BY <1>1, <1>5 DEF Caught
<1>8. place' = "mark" /\ doing' = "search" =>
        \A q \in found' \ cut' : dated'[q] \in until' - Fresh .. until' => Late(q)' \/ Kept(q)'
  BY <1>1, <1>4, <1>5
<1>9. place' \in {"store", "mark"} /\ doing' = "search" =>
        \A q \in Posts : indexed'[q] # Xpoz!Never /\ indexed'[q] < until' => q \in found' \cup cut'
  BY <1>1, <1>6 DEF Caught
<1> QED BY <1>1, <1>7, <1>8, <1>9 DEF Caught

\* The mark moves over what was stored, is late, or was cut off.
LEMMA MarkCaught ==
  ASSUME Xpoz!ConstantsOK, Types, Caught, Xpoz!Mark
  PROVE  Caught'
<1>1. /\ UNCHANGED <<dated, indexed, kept, cut>> /\ place = "mark" /\ place' = "idle" /\ found' = {}
      /\ marks' = [marks EXCEPT ![doing] = until]
      /\ served' = IF doing = "search" THEN served \cup {q \in found : dated[q] \in until - Fresh .. until}
                                       ELSE served
  BY DEF Xpoz!Mark, Xpoz!Over
<1>2. \A q : Late(q)' = Late(q) /\ Kept(q)' = Kept(q)
  BY <1>1 DEF Late, Kept
<1>3. /\ dated \in [Posts -> Int] /\ indexed \in [Posts -> Int] /\ until \in Int
      /\ marks \in [Xpoz!Reads -> Int] /\ Fresh \in Nat /\ "search" \in Xpoz!Reads /\ doing \in Xpoz!Reads
      /\ marks[doing] <= until /\ found \subseteq Posts /\ served \subseteq Posts
      /\ \A q \in Posts : indexed[q] # Xpoz!Never => dated[q] <= indexed[q]
  BY <1>1, Constants DEF Types, Dates, Control, Window, Records, Xpoz!Reads
<1>4. CASE doing # "search"
  <2>1. marks'["search"] = marks["search"] /\ served' = served
    BY <1>1, <1>3, <1>4
  <2> QED BY <1>1, <1>2, <2>1 DEF Caught
<1>5. CASE doing = "search"
  <2>1. /\ marks'["search"] = until /\ marks["search"] <= until /\ marks["search"] \in Int
        /\ served' = served \cup {q \in found : dated[q] \in until - Fresh .. until}
    BY <1>1, <1>3, <1>5
  <2>2. \A q \in served' \cup found' : indexed'[q] # Xpoz!Never
    BY <1>1, <2>1 DEF Caught
  <2>3. \A q \in served' : dated[q] <= until
    BY <1>3, <2>1 DEF Caught
  <2>4. \A q \in Posts : indexed[q] # Xpoz!Never /\ indexed[q] < until /\ dated[q] >= until - Fresh
                         => q \in served' \cup cut
    BY <1>1, <1>3, <1>5, <2>1 DEF Caught
  <2>5. \A q \in served' \ cut : Late(q) \/ Kept(q)
    BY <1>1, <1>5, <2>1 DEF Caught
  <2> QED BY <1>1, <1>2, <2>1, <2>2, <2>3, <2>4, <2>5 DEF Caught
<1> QED BY <1>4, <1>5

\* Every step keeps what is known of late posts.
LEMMA StepCaught ==
  ASSUME Xpoz!ConstantsOK, Types, Caught, [Xpoz!XpozNext]_(Xpoz!xpozVars)
  PROVE  Caught'
<1> USE DEF Xpoz!xpozDb, Xpoz!xpozCall, Xpoz!xpozHist
<1>1. CASE Xpoz!GiveUp \/ Xpoz!Die \/ Xpoz!SaveThread \/ Xpoz!CallFails
  BY <1>1, CaughtStays DEF Xpoz!GiveUp, Xpoz!Die, Xpoz!SaveThread, Xpoz!CallFails, Xpoz!Over, Xpoz!Called
<1>2. CASE Xpoz!XpozTick \/ Xpoz!OthersSpend \/ Xpoz!Refill \/ UNCHANGED Xpoz!xpozVars
  BY <1>2, CaughtStays DEF Xpoz!XpozTick, Xpoz!OthersSpend, Xpoz!Refill, Xpoz!xpozVars
<1>3. CASE \/ \E p \in Posts : Xpoz!BeginThread(p)
           \/ \E r \in Xpoz!Reads : Xpoz!BeginRead(r)
           \/ Xpoz!SaveAttempt \/ Xpoz!ThreadCall
  BY <1>3, CaughtStays DEF Xpoz!BeginThread, Xpoz!BeginRead, Xpoz!SaveAttempt, Xpoz!ThreadCall, Xpoz!Called
<1>4. CASE Xpoz!Check
  BY <1>4, CaughtStays DEF Xpoz!Check, Xpoz!Over
<1> QED BY <1>1, <1>2, <1>3, <1>4, WorldCaught, ReadCaught, StoreCaught, MarkCaught DEF Xpoz!XpozNext

-----------------------------------------------------------------------------
(* The invariant and what follows. *)

XpozIInv == Types /\ Reserved /\ Paced /\ Caught

\* The invariant holds at the start.
LEMMA XpozStarts ==
  ASSUME Xpoz!ConstantsOK, Xpoz!XpozInit
  PROVE  XpozIInv
<1>1. Types
  BY InitTypes
<1>2. /\ since = 0 /\ place = "idle" /\ doing = "none" /\ calls = {} /\ again = FALSE
      /\ \A q \in Posts : thread[q] = Xpoz!Never
      /\ cut = {} /\ served = {} /\ found = {} /\ kept = {} /\ marks["search"] = Xpoz!Never
  BY DEF Xpoz!XpozInit, Xpoz!Reads
<1>3. Reserved
  BY <1>2 DEF Reserved
<1>4. Paced
  <2>1. Tried = {} /\ \A t : Within(t) = {}
    BY <1>2 DEF Tried, Within
  <2>2. IsFiniteSet({}) /\ Cardinality({}) = 0 /\ Threads \in Nat /\ PerHour \in Nat
    BY FS_EmptySet, Constants
  <2>3. Rowed
    BY <1>2, <2>1, <2>2 DEF Rowed
  <2>4. Admitted
    BY <1>2 DEF Admitted
  <2>5. \A t \in Nat : Cardinality(Within(t)) <= PerHour
    BY <2>1, <2>2
  <2> QED BY <2>3, <2>4, <2>5 DEF Paced
<1>5. Caught
  <2>1. \A q \in Posts : indexed[q] = Xpoz!Never \/ ~ (indexed[q] < marks["search"])
    BY <1>1, <1>2 DEF Types, Dates, Xpoz!Never
  <2> QED BY <1>2, <2>1 DEF Caught
<1> QED BY <1>1, <1>3, <1>4, <1>5 DEF XpozIInv

\* And every step keeps it, and the reserve.
LEMMA XpozSteps ==
  ASSUME Xpoz!ConstantsOK, XpozIInv, [Xpoz!XpozNext]_(Xpoz!xpozVars)
  PROVE  XpozIInv' /\ Xpoz!ReserveKept
<1>1. Types'
  BY StepDates, StepControl, StepWindow, StepPurse, StepRecords DEF XpozIInv, Types, Paced
<1> QED BY <1>1, StepReserved, StepPaced, StepCaught DEF XpozIInv

\* The invariant holds throughout.
THEOREM XpozInvariant == ASSUME Xpoz!ConstantsOK PROVE Xpoz!XpozSpec => []XpozIInv
<1>1. Xpoz!XpozInit => XpozIInv
  BY XpozStarts
<1>2. XpozIInv /\ [Xpoz!XpozNext]_(Xpoz!xpozVars) => XpozIInv'
  BY XpozSteps
<1> QED BY <1>1, <1>2, PTL DEF Xpoz!XpozSpec

\* Times lie in the past, and a read under way has its window.
THEOREM XpozTypes == ASSUME Xpoz!ConstantsOK PROVE Xpoz!XpozSpec => []Xpoz!XpozTypeOK
<1>1. XpozIInv => Xpoz!XpozTypeOK
  <2> SUFFICES ASSUME XpozIInv
               PROVE  Xpoz!XpozTypeOK
    OBVIOUS
  <2> USE DEF Xpoz!Never
  <2>1. Dates /\ Control /\ Window /\ Purse /\ Records
    BY DEF XpozIInv, Types
  <2>2. \A p \in Posts : /\ {dated[p], indexed[p], thread[p]} \subseteq Xpoz!Never .. time
                         /\ indexed[p] # Xpoz!Never => dated[p] \in 0 .. indexed[p]
    BY <2>1 DEF Dates
  <2>3. doing \in Xpoz!Reads <=> until # Xpoz!Never
    BY <2>1 DEF Window
  <2>4. \A r \in Xpoz!Reads : marks[r] \in Xpoz!Never .. time
    BY <2>1 DEF Dates
  <2> QED BY <2>1, <2>2, <2>3, <2>4 DEF Control, Purse, Records, Xpoz!XpozTypeOK
<1> QED BY <1>1, XpozInvariant, PTL

\* No paid call takes the account below the reserve by itself (XpozReader._reserve, which
\* asks for the balance before each call): whoever else spends credits of the key.
THEOREM ReserveHolds == ASSUME Xpoz!ConstantsOK PROVE Xpoz!XpozSpec => [][Xpoz!ReserveKept]_(Xpoz!xpozVars)
<1>1. XpozIInv /\ [Xpoz!XpozNext]_(Xpoz!xpozVars) => [Xpoz!ReserveKept]_(Xpoz!xpozVars)
  BY XpozSteps
<1> QED BY <1>1, XpozInvariant, PTL DEF Xpoz!XpozSpec

\* A thread is paid for once, and the attempts of any hour and of all time stay within
\* their limits (fetch_comments), whatever fails, times out or dies after the charge.
THEOREM ThreadsArePaced == ASSUME Xpoz!ConstantsOK PROVE Xpoz!XpozSpec => []Xpoz!ThreadsPaced
<1>1. XpozIInv => Xpoz!ThreadsPaced
  <2> SUFFICES ASSUME XpozIInv
               PROVE  Xpoz!ThreadsPaced
    OBVIOUS
  <2>1. Cardinality(calls) <= Threads
    BY CallsFinite DEF XpozIInv, Paced
  <2>2. ~ again /\ \A t \in Nat : Cardinality(Within(t)) <= PerHour
    BY DEF XpozIInv, Paced, Rowed
  <2>3. 0 .. time \subseteq Nat
    BY DEF XpozIInv, Types, Dates
  <2> QED BY <2>1, <2>2, <2>3, XpozCounts DEF Xpoz!ThreadsPaced, Within
<1> QED BY <1>1, XpozInvariant, PTL

\* The stretch before the watermark that is read again catches every post indexed within
\* SearchBack of its date (query_start of collect_xpoz), unless a search's limit cut it off.
THEOREM LatePostsAreCaught == ASSUME Xpoz!ConstantsOK PROVE Xpoz!XpozSpec => []Xpoz!LateIndexedKept
<1>1. XpozIInv => Xpoz!LateIndexedKept
  <2> SUFFICES ASSUME XpozIInv
               PROVE  Xpoz!LateIndexedKept
    OBVIOUS
  <2>1. \A p \in served \ cut : Late(p) \/ Kept(p)
    BY DEF XpozIInv, Caught
  <2>2. \A p \in served : indexed[p] - dated[p] \in Int /\ SearchBack \in Int
    BY Constants DEF XpozIInv, Types, Records, Dates
  <2> QED BY <2>1, <2>2 DEF Xpoz!LateIndexedKept, Late, Kept
<1> QED BY <1>1, XpozInvariant, PTL

\* The posts kept, each under the source of its author.
OfItsSource == \A e \in kept : e[2] = Xpoz!SourceOf("search", e[1])

\* A post is kept under one source, found by a search or by a scan (collect_xpoz).
THEOREM KeptOnce == ASSUME Xpoz!ConstantsOK PROVE Xpoz!XpozSpec => []Xpoz!OneCopy
<1>1. Xpoz!XpozInit => OfItsSource
  BY DEF Xpoz!XpozInit, OfItsSource
<1>2. OfItsSource /\ [Xpoz!XpozNext]_(Xpoz!xpozVars) => OfItsSource'
  <2> SUFFICES ASSUME OfItsSource, [Xpoz!XpozNext]_(Xpoz!xpozVars)
               PROVE  OfItsSource'
    OBVIOUS
  <2>1. CASE Xpoz!Store
    <3> DEFINE new == {p \in found : Xpoz!QueryStart(doing) <= dated[p] /\ dated[p] <= until}
    <3>1. kept' = kept \cup {<<p, Xpoz!SourceOf(doing, p)>> : p \in new}
      BY <2>1 DEF Xpoz!Store
    <3>2. ASSUME NEW p PROVE Xpoz!SourceOf(doing, p) = Xpoz!SourceOf("search", p)
      BY DEF Xpoz!SourceOf
    <3> HIDE DEF new
    <3> QED BY <3>1, <3>2 DEF OfItsSource
  <2>2. CASE UNCHANGED kept
    BY <2>2 DEF OfItsSource
  <2> QED
    BY <2>1, <2>2 DEF Xpoz!XpozNext, Xpoz!xpozVars, Xpoz!xpozDb, Xpoz!XpozTick, Xpoz!OthersSpend,
      Xpoz!Refill, Xpoz!Post, Xpoz!Index, Xpoz!BeginThread, Xpoz!BeginRead, Xpoz!SaveAttempt,
      Xpoz!Check, Xpoz!ReadCall, Xpoz!ThreadCall, Xpoz!CallFails, Xpoz!Mark, Xpoz!SaveThread,
      Xpoz!GiveUp, Xpoz!Die
<1>3. OfItsSource => Xpoz!OneCopy
  BY DEF OfItsSource, Xpoz!OneCopy, Xpoz!SourceOf
<1> QED BY <1>1, <1>2, <1>3, PTL DEF Xpoz!XpozSpec

-----------------------------------------------------------------------------
(* Feeds and subreddits.  What a page did not show is older than what it   *)
(* showed, and what it showed is stored before the interval is recorded    *)
(* and the watermark moves.                                                *)
CONSTANTS Groups, Shows, Backdate, MaxArticles
VARIABLES article, rows, mark, at, group, todo, last, shown, excused

Feeds == INSTANCE FeedIngest

Delivered == at \in {"store", "cover", "advance"}

\* What a feed has shown is the newest part of what there was; of what it has not
\* shown, or shown too late, it is excused.
FeedRead ==
    Delivered =>
        /\ shown \in 1 .. Len(article) + 1
        /\ page \subseteq 1 .. shown - 1
        /\ \A i \in page : Feeds!Of(i) \in Feeds!Group
        /\ \A i \in page, j \in 1 .. shown - 1 :
               (Feeds!Of(j) \in Feeds!Group /\ j \notin page) => Feeds!Date(j) <= Feeds!Date(i)
        /\ \A i \in Feeds!Articles :
               (Feeds!Of(i) \in Feeds!Group /\ Feeds!Date(i) <= end /\ i \notin excused) =>
                   i \in page /\ from[Feeds!Of(i)] <= Feeds!Date(i)

\* A read starts at the watermark or after it, which moves only when the source is done.
FeedStart ==
    /\ at # "idle" => end \in Nat
    /\ (Delivered \/ at = "read") =>
        \A s \in Feeds!Group : last[s] <= from[s] /\ from[s] \in 0 .. end
    /\ at = "read" => \A s \in Feeds!Group : last[s] = mark[s]
    /\ Delivered => \A s \in todo : last[s] = mark[s]

\* What is wanted is stored before it is covered.
FeedSaved == at \in {"cover", "advance"} => Feeds!Wanted(Feeds!First(todo)) \subseteq stored

FeedIInv == /\ Feeds!FeedTypeOK /\ FeedRead /\ FeedStart /\ FeedSaved
            /\ Feeds!CoveredIsStored /\ Feeds!NothingSkipped

-----------------------------------------------------------------------------
LEMMA FeedConstants ==
  ASSUME Feeds!ConstantsOK
  PROVE  /\ Feeds!FeedSources \subseteq Nat /\ MaxTime \in Nat /\ Fresh \in Nat
         /\ Len(Groups) \in Nat /\ 1 \in 1 .. Len(Groups)
         /\ \A g \in 1 .. Len(Groups) : Groups[g] \subseteq Feeds!FeedSources /\ Groups[g] # {}
<1>1. \A g \in 1 .. Len(Groups) : Groups[g] \in (SUBSET Nat) \ {{}}
  BY DEF Feeds!ConstantsOK
<1>2. Len(Groups) \in Nat /\ Len(Groups) # 0
  BY DEF Feeds!ConstantsOK
<1>3. MaxTime \in Nat /\ Fresh \in Nat
  BY DEF Feeds!ConstantsOK
<1> QED BY <1>1, <1>2, <1>3 DEF Feeds!FeedSources

\* Some sources have a first.
LEMMA FeedFirst == ASSUME NEW S \in SUBSET Nat, S # {} PROVE Feeds!First(S) \in S
<1>1. PICK t \in S : \A u \in S : ~ (<<u, t>> \in OpToRel(<, Nat))
  BY WFMin, NatLessThanWellFounded
<1>2. \A u, v \in Nat : u < v => <<u, v>> \in OpToRel(<, Nat)
  BY DEF OpToRel
<1>3. ASSUME NEW u \in S PROVE t <= u
  <2>1. u \in Nat /\ t \in Nat /\ ~ (u < t)
    BY <1>1, <1>2
  <2> QED BY <2>1
<1> QED BY <1>3 DEF Feeds!First

\* What the type says of the articles.
LEMMA FeedArticles ==
  ASSUME Feeds!FeedTypeOK
  PROVE  /\ Len(article) \in Nat /\ Feeds!Articles = 1 .. Len(article)
         /\ \A i \in Feeds!Articles : Feeds!Of(i) \in Feeds!FeedSources /\ Feeds!Date(i) \in 0 .. now
<1> DEFINE R == [of : Feeds!FeedSources, date : 0 .. now]
<1>1. article \in Seq(R)
  BY DEF Feeds!FeedTypeOK
<1> HIDE DEF R
<1>2. Len(article) \in Nat /\ \A i \in 1 .. Len(article) : article[i] \in R
  BY <1>1
<1> QED BY <1>2 DEF R, Feeds!Articles, Feeds!Of, Feeds!Date

\* What an article says does not change, and one more may come.
LEMMA FeedKeepsArticles ==
  ASSUME Feeds!FeedTypeOK, Feeds!FeedNext \/ UNCHANGED article
  PROVE  /\ Len(article') \in Nat /\ Len(article) <= Len(article')
         /\ Feeds!Articles \subseteq Feeds!Articles'
         /\ \A i \in Feeds!Articles :
               Feeds!Of(i)' = Feeds!Of(i) /\ Feeds!Date(i)' = Feeds!Date(i)
<1>1. CASE UNCHANGED article
  BY <1>1, FeedArticles DEF Feeds!Articles, Feeds!Of, Feeds!Date
<1>2. ASSUME NEW s \in Feeds!FeedSources, NEW d \in 0 .. MaxTime, Feeds!Publish(s, d)
      PROVE  article' = Append(article, [of |-> s, date |-> d])
  BY <1>2 DEF Feeds!Publish
<1>3. CASE \E s \in Feeds!FeedSources, d \in 0 .. MaxTime : Feeds!Publish(s, d)
  <2>1. PICK a : article' = Append(article, a)
    BY <1>2, <1>3
  <2>2. article \in Seq([of : Feeds!FeedSources, date : 0 .. now])
    BY DEF Feeds!FeedTypeOK
  <2>3. /\ Len(article) \in Nat /\ Len(article') = Len(article) + 1
        /\ \A i \in 1 .. Len(article) : article'[i] = article[i]
    BY <2>1, <2>2
  <2> QED BY <2>3 DEF Feeds!Articles, Feeds!Of, Feeds!Date
<1> QED BY <1>1, <1>3
  DEF Feeds!FeedNext, Feeds!FeedTick, Feeds!Collect, Feeds!ReadMarks, Feeds!Request, Feeds!Store,
      Feeds!Cover, Feeds!Advance, Feeds!Raise, Feeds!MarkIncomplete, Feeds!Abort

\* The clock and the articles.
LEMMA FeedStepArticles ==
  ASSUME Feeds!ConstantsOK, Feeds!FeedTypeOK, Feeds!FeedNext
  PROVE  /\ now' \in 0 .. MaxTime /\ now <= now'
         /\ article' \in Seq([of : Feeds!FeedSources, date : 0 .. now'])
<1> DEFINE R(n) == [of : Feeds!FeedSources, date : 0 .. n]
<1>1. now \in 0 .. MaxTime /\ MaxTime \in Nat /\ article \in Seq(R(now))
  BY FeedConstants DEF Feeds!FeedTypeOK
<1>2. CASE Feeds!FeedTick
  <2>1. now' = now + 1 /\ now' \in 0 .. MaxTime /\ article' = article
    BY <1>1, <1>2 DEF Feeds!FeedTick
  <2>2. R(now) \subseteq R(now')
    BY <1>1, <2>1
  <2> HIDE DEF R
  <2>3. article \in Seq(R(now'))
    BY <1>1, <2>2
  <2> QED BY <1>1, <2>1, <2>3 DEF R
<1>3. ASSUME NEW s \in Feeds!FeedSources, NEW d \in 0 .. MaxTime, Feeds!Publish(s, d)
      PROVE  now' = now /\ article' \in Seq(R(now))
  <2>1. now' = now /\ article' = Append(article, [of |-> s, date |-> d]) /\ d \in 0 .. now
    BY <1>1, <1>3 DEF Feeds!Publish
  <2>2. [of |-> s, date |-> d] \in R(now)
    BY <2>1
  <2> HIDE DEF R
  <2> QED BY <1>1, <2>1, <2>2
<1>4. CASE \E s \in Feeds!FeedSources, d \in 0 .. MaxTime : Feeds!Publish(s, d)
  <2> HIDE DEF R
  <2>1. now' = now /\ article' \in Seq(R(now'))
    BY <1>3, <1>4
  <2> QED BY <1>1, <2>1 DEF R
<1>5. CASE UNCHANGED <<now, article>>
  BY <1>1, <1>5
<1> QED BY <1>2, <1>4, <1>5
  DEF Feeds!FeedNext, Feeds!Collect, Feeds!ReadMarks, Feeds!Request, Feeds!Store,
      Feeds!Cover, Feeds!Advance, Feeds!Raise, Feeds!MarkIncomplete, Feeds!Abort

\* What the group has left to do.
LEMMA FeedTodo ==
  ASSUME Feeds!ConstantsOK, Feeds!FeedTypeOK
  PROVE  /\ Feeds!Group \in SUBSET Feeds!FeedSources /\ Feeds!Group # {}
         /\ todo \subseteq Feeds!Group
         /\ todo # {} => Feeds!First(todo) \in todo
<1>1. Feeds!Group \subseteq Feeds!FeedSources /\ Feeds!Group # {} /\ todo \subseteq Feeds!Group
  BY FeedConstants DEF Feeds!FeedTypeOK, Feeds!Group
<1>2. todo \in SUBSET Nat
  BY <1>1, FeedConstants
<1> QED BY <1>1, <1>2, FeedFirst

\* Which step can go where.
LEMMA FeedStepPlaces ==
  ASSUME Feeds!ConstantsOK, Feeds!FeedTypeOK, Feeds!FeedNext
  PROVE  /\ at' \in {"idle", "marks", "read", "store", "cover", "advance", "excuse"}
         /\ group' \in 1 .. Len(Groups) /\ todo' \subseteq Feeds!Group'
         /\ (todo' # {}) <=> at' \in {"store", "cover", "advance", "excuse"}
<1> USE DEF Feeds!FeedTypeOK
<1>1. CASE Feeds!Request(page') \/ Feeds!Raise
  BY <1>1, FeedTodo DEF Feeds!Request, Feeds!Raise, Feeds!Group
<1>2. CASE Feeds!Collect \/ Feeds!ReadMarks \/ Feeds!Store \/ Feeds!Cover \/ Feeds!Abort
  BY <1>2, FeedConstants
     DEF Feeds!Collect, Feeds!ReadMarks, Feeds!Store, Feeds!Cover, Feeds!Abort, Feeds!Clear, Feeds!Group
<1>3. CASE Feeds!Advance \/ Feeds!MarkIncomplete
  <2>1. todo # {} /\ Feeds!First(todo) \in todo
    BY <1>3, FeedTodo DEF Feeds!Advance, Feeds!MarkIncomplete
  <2>2. CASE todo = {Feeds!First(todo)}
    <3>1. Feeds!NextGroup /\ todo' = {}
      BY <1>3, <2>2 DEF Feeds!Advance, Feeds!MarkIncomplete, Feeds!Clear
    <3>2. at' \in {"marks", "idle"} /\ group' \in 1 .. Len(Groups)
      BY <3>1, FeedConstants DEF Feeds!NextGroup
    <3> QED BY <3>1, <3>2
  <2>3. CASE todo # {Feeds!First(todo)}
    <3>1. at' \in {"store", "excuse"} /\ todo' = todo \ {Feeds!First(todo)} /\ group' = group
      BY <1>3, <2>3 DEF Feeds!Advance, Feeds!MarkIncomplete
    <3> QED BY <2>1, <2>3, <3>1 DEF Feeds!Group
  <2> QED BY <2>2, <2>3
<1>4. CASE UNCHANGED Feeds!feedCall
  BY <1>4 DEF Feeds!feedCall, Feeds!Group
<1> QED BY <1>1, <1>2, <1>3, <1>4 DEF Feeds!FeedNext, Feeds!FeedTick, Feeds!Publish, Feeds!Request

\* What the type says of the clock and the marks.
LEMMA FeedTimes ==
  ASSUME Feeds!ConstantsOK, Feeds!FeedTypeOK
  PROVE  /\ now \in Nat /\ now <= MaxTime /\ MaxTime \in Nat /\ end \in Int /\ -1 <= end /\ end <= now
         /\ \A s \in Feeds!FeedSources : mark[s] \in Int /\ -1 <= mark[s] /\ mark[s] <= end
  BY FeedConstants DEF Feeds!FeedTypeOK, Feeds!None

\* Where a read of the group starts.
LEMMA FeedFrom ==
  ASSUME Feeds!ConstantsOK, Feeds!FeedTypeOK, at = "marks", Feeds!ReadMarks, end \in 0 .. now
  PROVE  \A s \in Feeds!Group :
           last'[s] = mark[s] /\ last'[s] <= from'[s] /\ from'[s] \in 0 .. end
<1> SUFFICES ASSUME NEW s \in Feeds!Group
             PROVE  last'[s] = mark[s] /\ last'[s] <= from'[s] /\ from'[s] \in 0 .. end
  OBVIOUS
<1>1. s \in Feeds!FeedSources /\ Fresh \in Nat /\ end \in Nat
  BY FeedTodo, FeedConstants DEF Feeds!FeedTypeOK
<1>2. mark[s] \in -1 .. end
  BY <1>1 DEF Feeds!FeedTypeOK, Feeds!None
<1>3. last'[s] = mark[s] /\ from'[s] = Feeds!Larger(Feeds!Larger(0, end - Fresh), mark[s])
  BY <1>1 DEF Feeds!ReadMarks
<1> QED BY <1>1, <1>2, <1>3 DEF Feeds!Larger

\* Where the reads start, throughout.
LEMMA FeedStepStart ==
  ASSUME Feeds!ConstantsOK, Feeds!FeedTypeOK, FeedStart, Feeds!FeedNext
  PROVE  FeedStart'
<1> USE DEF FeedStart, Delivered
<1>1. CASE Feeds!ReadMarks
  <2>1. at = "marks" /\ at' = "read" /\ end' = end /\ mark' = mark /\ group' = group
    BY <1>1 DEF Feeds!ReadMarks, Feeds!feedDb
  <2>2. end \in Nat /\ end \in 0 .. now
    BY <2>1, FeedTimes
  <2> QED BY <1>1, <2>1, <2>2, FeedFrom DEF Feeds!Group
<1>2. CASE Feeds!Collect \/ Feeds!Abort \/ Feeds!Raise \/ Feeds!MarkIncomplete
  BY <1>2, FeedTimes
     DEF Feeds!Collect, Feeds!Abort, Feeds!Raise, Feeds!MarkIncomplete, Feeds!NextGroup, Feeds!Clear
<1>3. CASE Feeds!Advance
  <2>1. todo # {} /\ Feeds!First(todo) \in todo /\ todo \subseteq Feeds!FeedSources
    BY <1>3, FeedTodo DEF Feeds!Advance, Feeds!FeedTypeOK
  <2>2. CASE todo = {Feeds!First(todo)}
    BY <1>3, <2>2 DEF Feeds!Advance, Feeds!NextGroup, Feeds!Clear
  <2>3. CASE todo # {Feeds!First(todo)}
    <3>1. \A s \in todo' : mark'[s] = mark[s]
      BY <1>3, <2>1, <2>3 DEF Feeds!Advance, Feeds!FeedTypeOK
    <3>2. /\ at = "advance" /\ at' = "store" /\ todo' \subseteq todo
          /\ UNCHANGED <<end, group, from, last>>
      BY <1>3, <2>3 DEF Feeds!Advance
    <3> QED BY <3>1, <3>2 DEF Feeds!Group
  <2> QED BY <2>2, <2>3
<1>4. CASE \E P \in SUBSET Feeds!Articles : Feeds!Request(P)
  BY <1>4 DEF Feeds!Request, Feeds!Group, Feeds!feedDb
<1>5. CASE Feeds!Store \/ Feeds!Cover
  BY <1>5 DEF Feeds!Store, Feeds!Cover, Feeds!Group
<1>6. CASE UNCHANGED <<Feeds!feedDb, Feeds!feedCall>>
  BY <1>6 DEF Feeds!feedDb, Feeds!feedCall, Feeds!Group
<1> QED BY <1>1, <1>2, <1>3, <1>4, <1>5, <1>6 DEF Feeds!FeedNext, Feeds!FeedTick, Feeds!Publish

\* The marks, the starts and the end of the window.
LEMMA FeedStepMarks ==
  ASSUME Feeds!ConstantsOK, Feeds!FeedTypeOK, FeedStart, Feeds!FeedNext
  PROVE  /\ end' \in Feeds!None .. now' /\ end <= end'
         /\ mark' \in [Feeds!FeedSources -> Feeds!None .. end']
         /\ {from', last'} \subseteq [Feeds!FeedSources -> Feeds!None .. MaxTime]
<1> USE DEF Feeds!None
<1>1. /\ now' \in Nat /\ now <= now' /\ now' <= MaxTime /\ mark \in [Feeds!FeedSources -> -1 .. end]
      /\ {from, last} \subseteq [Feeds!FeedSources -> -1 .. MaxTime]
      /\ end \in Int /\ -1 <= end /\ end <= now /\ now \in Nat /\ MaxTime \in Nat
  <2>1. now' \in 0 .. MaxTime /\ now <= now' /\ now \in Nat /\ MaxTime \in Nat
    BY FeedTimes, FeedStepArticles
  <2>2. mark \in [Feeds!FeedSources -> -1 .. end] /\ {from, last} \subseteq [Feeds!FeedSources -> -1 .. MaxTime]
    BY DEF Feeds!FeedTypeOK
  <2> QED BY <2>1, <2>2, FeedTimes
<1>7. Feeds!NoTimes \in [Feeds!FeedSources -> -1 .. MaxTime]
  BY <1>1 DEF Feeds!NoTimes
<1>2. CASE Feeds!ReadMarks
  <2>1. /\ end' = end /\ mark' = mark
        /\ from' = [s \in Feeds!FeedSources |-> IF s \in Feeds!Group THEN from'[s] ELSE -1]
        /\ last' = [s \in Feeds!FeedSources |-> IF s \in Feeds!Group THEN mark[s] ELSE -1]
    BY <1>2, FeedTodo DEF Feeds!ReadMarks, Feeds!feedDb
  <2>2. \A s \in Feeds!Group : from'[s] \in 0 .. end /\ mark[s] \in -1 .. end
    <3>1. at = "marks" /\ end \in 0 .. now
      BY <1>1, <1>2, FeedTimes DEF Feeds!ReadMarks, FeedStart
    <3> QED BY <1>1, <1>2, <3>1, FeedFrom, FeedTodo
  <2> QED BY <1>1, <2>1, <2>2, FeedTodo
<1>3. CASE Feeds!Collect
  BY <1>1, <1>3 DEF Feeds!Collect, Feeds!feedDb
<1>4. CASE Feeds!Advance
  <2>1. at = "advance" /\ end \in Nat /\ Feeds!First(todo) \in Feeds!FeedSources
    BY <1>4, FeedTodo DEF Feeds!Advance, FeedStart, Feeds!FeedTypeOK
  <2>2. end' = end /\ mark' = [mark EXCEPT ![Feeds!First(todo)] = end] /\ now' = now
    BY <1>4 DEF Feeds!Advance, Feeds!Reached, Feeds!NextGroup
  <2>3. mark' \in [Feeds!FeedSources -> -1 .. end] /\ end \in -1 .. now
    BY <1>1, <2>1, <2>2
  <2>4. from' \in {from, Feeds!NoTimes} /\ last' \in {last, Feeds!NoTimes}
    BY <1>4 DEF Feeds!Advance, Feeds!Clear
  <2> QED BY <1>1, <1>7, <2>2, <2>3, <2>4
<1>5. CASE Feeds!MarkIncomplete \/ Feeds!Abort
  <2>1. /\ from' \in {from, Feeds!NoTimes} /\ last' \in {last, Feeds!NoTimes}
        /\ end' = end /\ mark' = mark
    BY <1>5 DEF Feeds!MarkIncomplete, Feeds!Abort, Feeds!Clear, Feeds!NextGroup, Feeds!feedDb
  <2> QED BY <1>1, <1>7, <2>1
<1>6. CASE UNCHANGED <<end, mark, from, last>>
  BY <1>1, <1>6
<1> QED BY <1>2, <1>3, <1>4, <1>5, <1>6
  DEF Feeds!FeedNext, Feeds!FeedTick, Feeds!Publish, Feeds!Request, Feeds!Store, Feeds!Cover,
      Feeds!Raise, Feeds!feedDb, Feeds!feedCall

\* What is stored and covered.
LEMMA FeedStepTypes ==
  ASSUME Feeds!ConstantsOK, FeedIInv, Feeds!FeedNext
  PROVE  Feeds!FeedTypeOK'
<1> USE DEF FeedIInv
<1>1. stored' \subseteq Feeds!Articles' /\ page' \subseteq Feeds!Articles'
  <2>1. stored' \subseteq Feeds!Articles /\ page' \subseteq Feeds!Articles
    <3>1. stored \subseteq Feeds!Articles /\ page \subseteq Feeds!Articles
      BY DEF Feeds!FeedTypeOK
    <3>2. \A s : Feeds!Wanted(s) \subseteq page
      BY DEF Feeds!Wanted
    <3>3. stored' \subseteq stored \cup page
      BY <3>2 DEF Feeds!FeedNext, Feeds!FeedTick, Feeds!Publish, Feeds!Collect, Feeds!ReadMarks,
         Feeds!Request, Feeds!Store, Feeds!Cover, Feeds!Advance, Feeds!Raise, Feeds!MarkIncomplete,
         Feeds!Abort, Feeds!feedDb
    <3>4. page' \subseteq page \/ \E P \in SUBSET Feeds!Articles : page' = P
      BY DEF Feeds!FeedNext, Feeds!FeedTick, Feeds!Publish, Feeds!Collect, Feeds!ReadMarks,
         Feeds!Request, Feeds!Store, Feeds!Cover, Feeds!Advance, Feeds!Raise, Feeds!MarkIncomplete,
         Feeds!Abort, Feeds!feedCall, Feeds!Clear
    <3> QED BY <3>1, <3>3, <3>4
  <2> QED BY <2>1, FeedKeepsArticles
<1>2. ASSUME NEW r \in rows'
      PROVE  /\ r.of \in Feeds!FeedSources /\ r.to \in 0 .. end' /\ r.from \in 0 .. r.to
             /\ r.seen \in 0 .. Len(article')
  <2>1. CASE r \in rows
    <3>1. /\ r.of \in Feeds!FeedSources /\ r.to \in 0 .. end /\ r.from \in 0 .. r.to
          /\ r.seen \in 0 .. Len(article)
      BY <2>1 DEF Feeds!FeedTypeOK
    <3>2. end' \in Int /\ end \in Int /\ end <= end' /\ Len(article') \in Nat
          /\ Len(article) \in Nat /\ Len(article) <= Len(article')
      BY FeedStepMarks, FeedTimes, FeedKeepsArticles, FeedArticles, FeedStepArticles DEF Feeds!None
    <3> QED BY <3>1, <3>2
  <2>2. CASE r \notin rows
    <3>1. Feeds!Cover
      BY <2>2 DEF Feeds!FeedNext, Feeds!FeedTick, Feeds!Publish, Feeds!Collect, Feeds!ReadMarks,
         Feeds!Request, Feeds!Store, Feeds!Advance, Feeds!Raise, Feeds!MarkIncomplete,
         Feeds!Abort, Feeds!feedDb, Feeds!Marked
    <3>2. /\ r = [of |-> Feeds!First(todo), from |-> from[Feeds!First(todo)], to |-> end,
                  seen |-> shown - 1]
          /\ at = "cover" /\ end' = end /\ article' = article
      BY <2>2, <3>1 DEF Feeds!Cover, Feeds!Marked
    <3>3. Feeds!First(todo) \in todo /\ todo \subseteq Feeds!Group /\ Feeds!Group \subseteq Feeds!FeedSources
      BY <3>2, FeedTodo DEF Feeds!FeedTypeOK
    <3>4. from[Feeds!First(todo)] \in 0 .. end /\ shown \in 1 .. Len(article) + 1 /\ end \in Int
      BY <3>2, <3>3, FeedTimes DEF FeedStart, FeedRead, Delivered
    <3> QED BY <3>2, <3>3, <3>4, FeedArticles
  <2> QED BY <2>1, <2>2
<1>3. \A r \in rows' : /\ r.of \in Feeds!FeedSources /\ r.to \in 0 .. end' /\ r.from \in 0 .. r.to
                       /\ r.seen \in 0 .. Len(article')
  BY <1>2
<1> QED BY <1>1, <1>3, FeedStepArticles, FeedStepMarks, FeedStepPlaces DEF Feeds!FeedTypeOK

\* What the type says of the read under way.
LEMMA FeedReadTypes ==
  ASSUME Feeds!ConstantsOK, Feeds!FeedTypeOK
  PROVE  /\ page \subseteq 1 .. Len(article)
         /\ \A s \in Feeds!FeedSources : from[s] \in Int /\ last[s] \in Int
<1>1. {from, last} \subseteq [Feeds!FeedSources -> -1 .. MaxTime]
  BY DEF Feeds!FeedTypeOK, Feeds!None
<1>2. page \subseteq 1 .. Len(article)
  BY DEF Feeds!FeedTypeOK, Feeds!Articles
<1> QED BY <1>1, <1>2

\* What the request delivered stays what the feed showed.
LEMMA FeedStepRead ==
  ASSUME Feeds!ConstantsOK, FeedIInv, Feeds!FeedNext
  PROVE  FeedRead'
<1> USE DEF FeedIInv, Delivered
<1>1. ASSUME NEW P \in SUBSET Feeds!Articles, Feeds!Request(P)
      PROVE  FeedRead'
  <2>1. /\ page' = P /\ shown' = Len(article) + 1 /\ group' = group /\ end' = end /\ from' = from
        /\ article' = article /\ Feeds!IsShown(P)
        /\ excused' = excused \cup {i \in Feeds!Articles : /\ Feeds!Of(i) \in Feeds!Group
              /\ Feeds!Date(i) <= end /\ (i \notin P \/ Feeds!Date(i) < from[Feeds!Of(i)])}
    BY <1>1 DEF Feeds!Request, Feeds!feedDb
  <2>2. \A i : Feeds!Of(i)' = Feeds!Of(i) /\ Feeds!Date(i)' = Feeds!Date(i)
    BY <2>1 DEF Feeds!Of, Feeds!Date
  <2>3. Feeds!Articles' = 1 .. Len(article) /\ shown' - 1 = Len(article) /\ Len(article) \in Nat
        /\ Feeds!Group' = Feeds!Group /\ Feeds!Articles = 1 .. Len(article)
    BY <2>1, FeedArticles DEF Feeds!Articles, Feeds!Group
  <2>4. /\ \A i \in P : Feeds!Of(i) \in Feeds!Group
        /\ \A i \in P, j \in 1 .. Len(article) :
               (Feeds!Of(j) \in Feeds!Group /\ j \notin P) => Feeds!Date(j) <= Feeds!Date(i)
    BY <2>1, <2>3 DEF Feeds!IsShown
  <2>5. \A i \in 1 .. Len(article) : from[Feeds!Of(i)] \in Int /\ Feeds!Date(i) \in Nat
    BY <2>3, FeedArticles, FeedReadTypes
  <2>6. \A i \in 1 .. Len(article) :
            (Feeds!Of(i) \in Feeds!Group /\ Feeds!Date(i) <= end /\ i \notin excused') =>
                i \in P /\ from[Feeds!Of(i)] <= Feeds!Date(i)
    BY <2>1, <2>3, <2>5
  <2> QED BY <2>1, <2>2, <2>3, <2>4, <2>6 DEF FeedRead
<1>2. ASSUME NEW s \in Feeds!FeedSources, NEW d \in 0 .. MaxTime, Feeds!Publish(s, d), Delivered
      PROVE  FeedRead'
  <2>1. /\ UNCHANGED <<at, page, shown, group, end, from>>
        /\ article' = Append(article, [of |-> s, date |-> d])
        /\ excused' = IF d <= mark[s] \/ (shown > 0 /\ s \in Feeds!Group /\ d <= end)
                      THEN excused \cup {Len(article')} ELSE excused
    BY <1>2 DEF Feeds!Publish, Feeds!feedCall
  <2>2. /\ Len(article) \in Nat /\ Len(article') = Len(article) + 1
        /\ article'[Len(article')] = [of |-> s, date |-> d]
        /\ \A i \in 1 .. Len(article) : article'[i] = article[i]
    BY <2>1, FeedArticles DEF Feeds!FeedTypeOK
  <2>3. \A i \in 1 .. Len(article) : Feeds!Of(i)' = Feeds!Of(i) /\ Feeds!Date(i)' = Feeds!Date(i)
    BY <2>2 DEF Feeds!Of, Feeds!Date
  <2>4. \A i : i = Len(article) + 1 => Feeds!Of(i)' = s /\ Feeds!Date(i)' = d
    BY <2>2 DEF Feeds!Of, Feeds!Date
  <2>5. shown \in 1 .. Len(article) + 1 /\ page \subseteq 1 .. shown - 1
    BY <1>2 DEF FeedRead
  <2>6. Feeds!Articles' = 1 .. Len(article) + 1 /\ Feeds!Articles = 1 .. Len(article) /\ Feeds!Group' = Feeds!Group
    BY <2>1, <2>2, FeedArticles DEF Feeds!Articles, Feeds!Group
  <2>7. ASSUME NEW i \in Feeds!Articles', Feeds!Of(i)' \in Feeds!Group, Feeds!Date(i)' <= end, i \notin excused'
        PROVE  i \in page /\ from[Feeds!Of(i)'] <= Feeds!Date(i)'
    <3>1. i # Len(article) + 1
      BY <2>1, <2>2, <2>4, <2>5, <2>7
    <3>2. i \in Feeds!Articles /\ Feeds!Of(i)' = Feeds!Of(i) /\ Feeds!Date(i)' = Feeds!Date(i) /\ i \notin excused
      BY <2>1, <2>2, <2>3, <2>6, <2>7, <3>1
    <3> QED BY <1>2, <2>7, <3>2 DEF FeedRead
  <2>8. \A i \in 1 .. shown - 1 : Feeds!Of(i)' = Feeds!Of(i) /\ Feeds!Date(i)' = Feeds!Date(i)
    BY <2>2, <2>3, <2>5
  <2>9. /\ \A i \in page : Feeds!Of(i)' \in Feeds!Group
        /\ \A i \in page, j \in 1 .. shown - 1 :
               (Feeds!Of(j)' \in Feeds!Group /\ j \notin page) => Feeds!Date(j)' <= Feeds!Date(i)'
    BY <1>2, <2>5, <2>8 DEF FeedRead
  <2>10. shown' \in 1 .. Len(article') + 1
    BY <2>1, <2>2, <2>5
  <2> QED BY <2>1, <2>5, <2>6, <2>7, <2>9, <2>10 DEF FeedRead
<1>3. ASSUME Delivered, UNCHANGED <<article, page, shown, group, end, from, excused>>
      PROVE  FeedRead'
  BY <1>3 DEF FeedRead, Feeds!Of, Feeds!Date, Feeds!Articles, Feeds!Group
<1>4. ASSUME ~ Delivered' PROVE FeedRead'
  BY <1>4 DEF FeedRead
<1>5. CASE Feeds!Collect \/ Feeds!ReadMarks \/ Feeds!Raise \/ Feeds!Abort \/ Feeds!MarkIncomplete
  BY <1>4, <1>5
     DEF Feeds!Collect, Feeds!ReadMarks, Feeds!Raise, Feeds!Abort, Feeds!MarkIncomplete, Feeds!NextGroup
<1>6. CASE Feeds!FeedTick \/ Feeds!Store \/ Feeds!Cover \/ Feeds!Advance
  BY <1>3, <1>4, <1>6
     DEF Feeds!FeedTick, Feeds!Store, Feeds!Cover, Feeds!Advance, Feeds!NextGroup, Feeds!feedCall
<1>7. CASE \E s \in Feeds!FeedSources, d \in 0 .. MaxTime : Feeds!Publish(s, d)
  <2>1. at' = at
    BY <1>7 DEF Feeds!Publish, Feeds!feedCall
  <2> QED BY <1>2, <1>4, <1>7, <2>1
<1> QED BY <1>1, <1>5, <1>6, <1>7 DEF Feeds!FeedNext

\* What is wanted of the first source left is stored before it is covered.
LEMMA FeedStepSaved ==
  ASSUME Feeds!ConstantsOK, FeedIInv, Feeds!FeedNext
  PROVE  FeedSaved'
<1> USE DEF FeedIInv, FeedSaved
<1>1. CASE Feeds!Store
  BY <1>1 DEF Feeds!Store, Feeds!Wanted, Feeds!Of, Feeds!Date
<1>2. CASE Feeds!Cover \/ Feeds!FeedTick
  BY <1>2 DEF Feeds!Cover, Feeds!FeedTick, Feeds!Wanted, Feeds!Of, Feeds!Date, Feeds!feedDb, Feeds!feedCall
<1>3. CASE \E s \in Feeds!FeedSources, d \in 0 .. MaxTime : Feeds!Publish(s, d)
  <2>1. UNCHANGED <<stored, at, todo, page, from, end, last>>
    BY <1>3 DEF Feeds!Publish, Feeds!feedDb, Feeds!feedCall
  <2>2. \A i \in page : Feeds!Of(i)' = Feeds!Of(i) /\ Feeds!Date(i)' = Feeds!Date(i)
    BY FeedKeepsArticles, FeedReadTypes, FeedArticles
  <2>3. Feeds!Wanted(Feeds!First(todo))' = Feeds!Wanted(Feeds!First(todo))
    BY <2>1, <2>2 DEF Feeds!Wanted
  <2> QED BY <2>1, <2>3
<1>4. CASE at' \notin {"cover", "advance"}
  BY <1>4
<1> QED BY <1>1, <1>2, <1>3, <1>4
  DEF Feeds!FeedNext, Feeds!Collect, Feeds!ReadMarks, Feeds!Request, Feeds!Advance, Feeds!Raise,
      Feeds!MarkIncomplete, Feeds!Abort, Feeds!NextGroup

\* Nothing leaves the raw cache, and only Cover adds a row.
LEMMA FeedStepRows ==
  ASSUME Feeds!FeedNext
  PROVE  /\ stored \subseteq stored' /\ excused \subseteq excused'
         /\ ~ Feeds!Cover => rows' \subseteq rows
         /\ ~ Feeds!Advance => mark' = mark
<1>1. stored \subseteq stored' /\ excused \subseteq excused'
  BY DEF Feeds!FeedNext, Feeds!FeedTick, Feeds!Publish, Feeds!Collect, Feeds!ReadMarks,
         Feeds!Request, Feeds!Store, Feeds!Cover, Feeds!Advance, Feeds!Raise, Feeds!MarkIncomplete,
         Feeds!Abort, Feeds!feedDb
<1>2. ~ Feeds!Cover => rows' \subseteq rows
  BY DEF Feeds!FeedNext, Feeds!FeedTick, Feeds!Publish, Feeds!Collect, Feeds!ReadMarks,
         Feeds!Request, Feeds!Store, Feeds!Advance, Feeds!Raise, Feeds!MarkIncomplete,
         Feeds!Abort, Feeds!feedDb, Feeds!Marked
<1>3. ~ Feeds!Advance => mark' = mark
  BY DEF Feeds!FeedNext, Feeds!FeedTick, Feeds!Publish, Feeds!Collect, Feeds!ReadMarks,
         Feeds!Request, Feeds!Store, Feeds!Cover, Feeds!Raise, Feeds!MarkIncomplete,
         Feeds!Abort, Feeds!feedDb
<1> QED BY <1>1, <1>2, <1>3

\* A row says complete only of what is stored.
LEMMA FeedStepCovered ==
  ASSUME Feeds!ConstantsOK, FeedIInv, Feeds!FeedNext
  PROVE  Feeds!CoveredIsStored'
<1> USE DEF FeedIInv
<1> SUFFICES ASSUME NEW r \in rows', NEW i \in Feeds!Articles', Feeds!Of(i)' = r.of, i <= r.seen,
                    r.from < Feeds!Date(i)', Feeds!Date(i)' <= r.to
             PROVE  i \in stored'
  BY DEF Feeds!CoveredIsStored
<1>1. CASE r \in rows
  <2>1. r.seen \in 0 .. Len(article)
    BY <1>1 DEF Feeds!FeedTypeOK
  <2>2. i \in Feeds!Articles
    BY <2>1, FeedArticles, FeedKeepsArticles DEF Feeds!Articles
  <2>3. Feeds!Of(i)' = Feeds!Of(i) /\ Feeds!Date(i)' = Feeds!Date(i)
    BY <2>2, FeedKeepsArticles
  <2> QED BY <1>1, <2>2, <2>3, FeedStepRows DEF Feeds!CoveredIsStored
<1>2. CASE r \notin rows
  <2> DEFINE s == Feeds!First(todo)
  <2>1. Feeds!Cover
    BY <1>2, FeedStepRows
  <2>2. /\ r = [of |-> s, from |-> from[s], to |-> end, seen |-> shown - 1] /\ Feeds!Complete(s)
        /\ at = "cover" /\ article' = article /\ stored' = stored
    BY <1>2, <2>1 DEF Feeds!Cover, Feeds!Marked
  <2>3. s \in Feeds!Group /\ s \in Feeds!FeedSources
    BY <2>2, FeedTodo DEF Feeds!FeedTypeOK
  <2>4. /\ from[s] \in Int /\ last[s] \in Int /\ last[s] <= from[s]
        /\ i \in Feeds!Articles /\ Feeds!Of(i) = s /\ from[s] < Feeds!Date(i) /\ Feeds!Date(i) <= end
        /\ Feeds!Date(i) \in Nat /\ i \in 1 .. shown - 1
    <3>1. last[s] <= from[s] /\ from[s] \in Int /\ last[s] \in Int
      BY <2>2, <2>3, FeedReadTypes DEF FeedStart, Delivered
    <3>2. i \in Feeds!Articles /\ Feeds!Of(i) = s /\ from[s] < Feeds!Date(i) /\ Feeds!Date(i) <= end
      BY <2>2 DEF Feeds!Articles, Feeds!Of, Feeds!Date
    <3>3. shown \in 1 .. Len(article) + 1 /\ i <= shown - 1
      BY <2>2 DEF FeedRead, Delivered
    <3> QED BY <3>1, <3>2, <3>3, FeedArticles
  <2>5. PICK k \in page : Feeds!Date(k) <= from[s]
    BY <2>2 DEF Feeds!Complete
  <2>6. i \in page
    <3>1. Feeds!Date(k) \in Nat
      BY FeedReadTypes, FeedArticles
    <3>2. i \notin page => Feeds!Date(i) <= Feeds!Date(k)
      BY <2>2, <2>3, <2>4 DEF FeedRead, Delivered
    <3> QED BY <2>4, <2>5, <3>1, <3>2
  <2>7. i \in Feeds!Wanted(s)
    BY <2>4, <2>6 DEF Feeds!Wanted
  <2> QED BY <2>2, <2>7 DEF FeedSaved
<1> QED BY <1>1, <1>2

\* The watermark does not pass what could have been stored.
LEMMA FeedStepSkipped ==
  ASSUME Feeds!ConstantsOK, FeedIInv, Feeds!FeedNext
  PROVE  Feeds!NothingSkipped'
<1> USE DEF FeedIInv
<1> SUFFICES ASSUME NEW i \in Feeds!Articles', Feeds!Date(i)' <= mark'[Feeds!Of(i)'], i \notin excused'
             PROVE  i \in stored'
  BY DEF Feeds!NothingSkipped
<1>1. stored \subseteq stored' /\ i \notin excused
  BY FeedStepRows
<1>2. CASE i \in Feeds!Articles /\ mark' = mark
  BY <1>1, <1>2, FeedKeepsArticles DEF Feeds!NothingSkipped
<1>3. CASE Feeds!Advance
  <2> DEFINE s == Feeds!First(todo)
  <2>1. at = "advance" /\ article' = article /\ mark' = [mark EXCEPT ![s] = end]
    BY <1>3 DEF Feeds!Advance, Feeds!Reached
  <2>2. s \in todo /\ s \in Feeds!Group /\ s \in Feeds!FeedSources
    BY <2>1, FeedTodo DEF Feeds!FeedTypeOK
  <2>3. /\ i \in Feeds!Articles /\ Feeds!Of(i)' = Feeds!Of(i) /\ Feeds!Date(i)' = Feeds!Date(i)
        /\ Feeds!Of(i) \in Feeds!FeedSources /\ Feeds!Date(i) \in Nat
    BY <2>1, FeedArticles DEF Feeds!Articles, Feeds!Of, Feeds!Date
  <2>4. mark \in [Feeds!FeedSources -> -1 .. end]
    BY DEF Feeds!FeedTypeOK, Feeds!None
  <2>5. CASE Feeds!Of(i) # s
    BY <1>1, <2>1, <2>3, <2>4, <2>5 DEF Feeds!NothingSkipped
  <2>6. CASE Feeds!Of(i) = s
    <3>1. mark'[s] = end
      BY <2>1, <2>2, <2>4
    <3>2. i \in page /\ from[s] <= Feeds!Date(i) /\ Feeds!Date(i) <= end
      BY <1>1, <2>1, <2>2, <2>3, <2>6, <3>1 DEF FeedRead, Delivered
    <3>3. last[s] = mark[s] /\ last[s] \in Int
      BY <2>1, <2>2, FeedReadTypes DEF FeedStart, Delivered
    <3>4. CASE Feeds!Date(i) > last[s]
      BY <1>1, <2>1, <2>6, <3>2, <3>4 DEF Feeds!Wanted, FeedSaved
    <3>5. CASE ~ (Feeds!Date(i) > last[s])
      BY <1>1, <2>3, <2>6, <3>3, <3>5 DEF Feeds!NothingSkipped
    <3> QED BY <3>4, <3>5
  <2> QED BY <2>5, <2>6
<1>4. CASE i \notin Feeds!Articles
  <2>1. PICK s \in Feeds!FeedSources, d \in 0 .. MaxTime : Feeds!Publish(s, d)
    BY <1>4 DEF Feeds!Articles, Feeds!FeedNext, Feeds!FeedTick, Feeds!Collect, Feeds!ReadMarks,
         Feeds!Request, Feeds!Store, Feeds!Cover, Feeds!Advance, Feeds!Raise, Feeds!MarkIncomplete,
         Feeds!Abort
  <2>2. /\ article' = Append(article, [of |-> s, date |-> d]) /\ mark' = mark
        /\ excused' = IF d <= mark[s] \/ (shown > 0 /\ s \in Feeds!Group /\ d <= end)
                      THEN excused \cup {Len(article')} ELSE excused
    BY <2>1 DEF Feeds!Publish, Feeds!feedDb
  <2>3. /\ Len(article') = Len(article) + 1 /\ Len(article) \in Nat
        /\ article'[Len(article')] = [of |-> s, date |-> d]
    BY <2>2, FeedArticles DEF Feeds!FeedTypeOK
  <2>4. i = Len(article')
    BY <1>4, <2>3, FeedArticles DEF Feeds!Articles
  <2> QED BY <2>2, <2>3, <2>4 DEF Feeds!Of, Feeds!Date
<1> QED BY <1>2, <1>3, <1>4, FeedStepRows

LEMMA FeedInitInv ==
  ASSUME Feeds!ConstantsOK, Feeds!FeedInit
  PROVE  FeedIInv
<1> USE DEF Feeds!FeedInit, Feeds!None
<1>1. Feeds!FeedTypeOK
  <2>1. MaxTime \in Nat /\ 1 \in 1 .. Len(Groups)
    BY FeedConstants
  <2>2. <<>> \in Seq([of : Feeds!FeedSources, date : 0 .. now])
    OBVIOUS
  <2> QED BY <2>1, <2>2 DEF Feeds!FeedTypeOK, Feeds!NoTimes, Feeds!Articles
<1>2. Feeds!CoveredIsStored /\ Feeds!NothingSkipped
  BY DEF Feeds!CoveredIsStored, Feeds!NothingSkipped, Feeds!Articles
<1>3. FeedRead /\ FeedStart /\ FeedSaved
  BY DEF FeedRead, FeedStart, FeedSaved, Delivered
<1> QED BY <1>1, <1>2, <1>3 DEF FeedIInv

LEMMA FeedStepInv ==
  ASSUME Feeds!ConstantsOK, FeedIInv, [Feeds!FeedNext]_(Feeds!feedVars)
  PROVE  FeedIInv'
<1>1. CASE Feeds!FeedNext
  <2>1. Feeds!FeedTypeOK' /\ FeedRead' /\ FeedSaved'
    BY <1>1, FeedStepTypes, FeedStepRead, FeedStepSaved
  <2>2. FeedStart'
    BY <1>1, FeedStepStart DEF FeedIInv
  <2>3. Feeds!CoveredIsStored' /\ Feeds!NothingSkipped'
    BY <1>1, FeedStepCovered, FeedStepSkipped
  <2> QED BY <2>1, <2>2, <2>3 DEF FeedIInv
<1>2. CASE UNCHANGED Feeds!feedVars
  <2> USE <1>2 DEF FeedIInv, Feeds!feedVars, Feeds!feedDb, Feeds!feedCall
  <2>1. Feeds!FeedTypeOK'
    BY DEF Feeds!FeedTypeOK, Feeds!Articles, Feeds!Group
  <2>2. FeedRead'
    BY DEF FeedRead, Delivered, Feeds!Articles, Feeds!Group, Feeds!Of, Feeds!Date
  <2>3. FeedStart' /\ FeedSaved'
    BY DEF FeedStart, FeedSaved, Delivered, Feeds!Group, Feeds!Wanted, Feeds!Of, Feeds!Date
  <2>4. Feeds!CoveredIsStored' /\ Feeds!NothingSkipped'
    BY DEF Feeds!CoveredIsStored, Feeds!NothingSkipped, Feeds!Articles, Feeds!Of, Feeds!Date
  <2> QED BY <2>1, <2>2, <2>3, <2>4
<1> QED BY <1>1, <1>2

\* An interval of a feed recorded as complete was: what the feed had published
\* inside it is in the raw cache.  And the watermark passes an article only if it
\* is stored or no read could have stored it.
THEOREM FeedCoverage ==
  ASSUME Feeds!ConstantsOK
  PROVE  Feeds!FeedSpec => [](Feeds!FeedTypeOK /\ Feeds!CoveredIsStored /\ Feeds!NothingSkipped)
<1>1. Feeds!FeedInit => FeedIInv
  BY FeedInitInv
<1>2. FeedIInv /\ [Feeds!FeedNext]_(Feeds!feedVars) => FeedIInv'
  BY FeedStepInv
<1>3. FeedIInv => Feeds!FeedTypeOK /\ Feeds!CoveredIsStored /\ Feeds!NothingSkipped
  BY DEF FeedIInv
<1> QED BY <1>1, <1>2, <1>3, PTL DEF Feeds!FeedSpec

-----------------------------------------------------------------------------
(* Comments of channels.  A settled thread answers for the comments its    *)
(* counter counted, of which it misses only what was deleted since.        *)
CONSTANTS Comments, ThreadOf, Blank, Closed, ThreadLimit, MaxEdits
VARIABLES live, deleted, text, row, counter, prior, tally, seen, judged

Talk == INSTANCE CommentCollector

Fetched(p) == Talk!Settled(thread[p]) /\ thread[p].status = "fetched"

\* The comments a settled scan answers for: as many as its counter counted, all
\* written by then, and what it did not store of them had been deleted.
TalkBase(p, S) ==
    \E B \in SUBSET Talk!In(p, Comments) :
        /\ Cardinality(B) = thread[p].counter
        /\ B \subseteq S \cup deleted
        /\ B \ (Talk!Rows(p) \cup Blank) \subseteq deleted

\* A run knows of each post it has not handled yet the state of its thread and
\* how many comments it had when the counters were read.
TalkRun ==
    at # 0 =>
        /\ tally \subseteq live \cup deleted
        /\ \A p \in Posts : at <= p =>
              /\ prior[p] = thread[p]
              /\ counter[p] = IF p \in Closed THEN -1 ELSE Cardinality(Talk!In(p, tally))
              /\ Fetched(p) => TalkBase(p, tally)

TalkBased == \A p \in Posts : Fetched(p) => TalkBase(p, live)

TalkIInv == /\ Talk!TypeOK /\ TalkRun /\ TalkBased
            /\ Talk!MissedAtMostDeleted /\ Talk!CountIsNotInflated /\ Talk!ClassifiedAsStored

-----------------------------------------------------------------------------
\* Sets of the same size miss as much of each other.
LEMMA SameSizeSwap ==
  ASSUME NEW S, NEW T, IsFiniteSet(S), IsFiniteSet(T), Cardinality(S) = Cardinality(T)
  PROVE  Cardinality(S \ T) = Cardinality(T \ S)
<1>1. Cardinality(S \cap T) = Cardinality(T \cap S)
  <2>1. S \cap T = T \cap S
    OBVIOUS
  <2> QED BY <2>1
<1>2. Cardinality(S \ T) = Cardinality(S) - Cardinality(S \cap T)
  BY FS_Difference
<1>3. Cardinality(T \ S) = Cardinality(T) - Cardinality(T \cap S)
  BY FS_Difference
<1> QED BY <1>1, <1>2, <1>3

\* The component counts with the library's Cardinality.
LEMMA TalkSets ==
  ASSUME NEW S
  PROVE  Talk!Cardinality(S) = Cardinality(S) /\ Talk!IsFiniteSet(S) = IsFiniteSet(S)
  BY DEF Talk!Cardinality, Cardinality, Talk!IsFiniteSet, IsFiniteSet

LEMMA TalkTypes ==
  ASSUME Talk!ConstantsOK, Talk!TypeOK
  PROVE  /\ IsFiniteSet(Comments) /\ Comments \subseteq Nat /\ ThreadLimit \in Nat
         /\ live \subseteq Comments /\ deleted \subseteq Comments /\ tally \subseteq Comments
<1>1. IsFiniteSet(Comments) /\ Comments \subseteq Nat /\ ThreadLimit \in Nat
  BY TalkSets DEF Talk!ConstantsOK
<1> QED BY <1>1 DEF Talk!TypeOK

\* The comments of a thread.
LEMMA TalkIn ==
  ASSUME Talk!ConstantsOK, NEW p, NEW S \in SUBSET Comments
  PROVE  /\ Talk!In(p, S) \subseteq S /\ Talk!In(p, S) \subseteq Comments
         /\ IsFiniteSet(Talk!In(p, S)) /\ Cardinality(Talk!In(p, S)) \in 0 .. Cardinality(Comments)
<1>1. Talk!In(p, S) \subseteq S /\ Talk!In(p, S) \in SUBSET Comments /\ IsFiniteSet(Comments)
  BY TalkSets DEF Talk!In, Talk!ConstantsOK
<1>2. IsFiniteSet(Talk!In(p, S)) /\ Cardinality(Talk!In(p, S)) <= Cardinality(Comments)
  BY <1>1, FS_Subset
<1>3. Cardinality(Talk!In(p, S)) \in Nat /\ Cardinality(Comments) \in Nat
  BY <1>1, <1>2, FS_CardinalityType
<1> QED BY <1>1, <1>2, <1>3

\* A page below the limit is the whole thread.
LEMMA TalkWholePage ==
  ASSUME Talk!ConstantsOK, Talk!TypeOK, NEW p, Cardinality(Talk!Page(p)) < ThreadLimit
  PROVE  Talk!Page(p) = Talk!In(p, live)
<1> DEFINE I == Talk!In(p, live)
           Above(c) == {d \in I : d > c}
           h(c) == Cardinality(Above(c))
           M == I \ Talk!Page(p)
<1>1. I \subseteq Nat /\ IsFiniteSet(I) /\ Talk!Page(p) \subseteq I /\ ThreadLimit \in Nat
  BY TalkTypes, TalkIn DEF Talk!Page
<1>2. \A c : IsFiniteSet(Above(c)) /\ h(c) \in Nat
  BY <1>1, FS_Subset, FS_CardinalityType
<1>3. \A c \in I : c \in Talk!Page(p) <=> h(c) < ThreadLimit
  BY TalkSets DEF Talk!Page
<1>4. ASSUME NEW c \in I, NEW d \in I, d > c PROVE h(d) < h(c)
  <2>1. Above(d) \subseteq Above(c) /\ d \in Above(c) /\ d \notin Above(d)
    BY <1>1, <1>4
  <2> HIDE DEF Above
  <2>2. Cardinality(Above(d)) <= Cardinality(Above(c)) /\ Cardinality(Above(d)) # Cardinality(Above(c))
    BY <1>2, <2>1, FS_Subset
  <2> QED BY <1>2, <2>2
<1>5. CASE M # {}
  <2> DEFINE H == {h(c) : c \in M}
  <2>1. H \subseteq Nat /\ H # {}
    <3> HIDE DEF h
    <3> QED BY <1>2, <1>5
  <2>2. PICK k \in H : \A n \in H : ~ (<<n, k>> \in OpToRel(<, Nat))
    <3> HIDE DEF H
    <3> QED BY <2>1, WFMin, NatLessThanWellFounded
  <2>3. PICK c \in M : k = h(c)
    BY <2>2
  <2>4. Above(c) \subseteq Talk!Page(p)
    <3> SUFFICES ASSUME NEW d \in I, d > c, d \in M PROVE FALSE
      OBVIOUS
    <3>1. h(d) < k /\ h(d) \in H /\ h(d) \in Nat /\ k \in Nat
      BY <1>2, <1>4, <2>1, <2>2, <2>3
    <3> QED BY <2>2, <3>1 DEF OpToRel
  <2>5. h(c) <= Cardinality(Talk!Page(p)) /\ Cardinality(Talk!Page(p)) \in Nat
    BY <1>1, <2>4, FS_Subset, FS_CardinalityType
  <2>6. ~ (h(c) < ThreadLimit) /\ h(c) \in Nat
    BY <1>2, <1>3, <2>3
  <2> QED BY <1>1, <2>5, <2>6
<1> QED BY <1>1, <1>5

\* A settled thread that had the same counter at another time misses no more of
\* what was counted then than has been deleted.
LEMMA TalkMissed ==
  ASSUME Talk!ConstantsOK, Talk!TypeOK, NEW p \in Posts, TalkBase(p, tally),
         tally \subseteq live \cup deleted,
         Cardinality(Talk!In(p, tally)) = thread[p].counter
  PROVE  Cardinality(Talk!In(p, tally) \ (Talk!Rows(p) \cup Blank)) <= Cardinality(Talk!In(p, deleted))
<1> DEFINE T == Talk!In(p, tally)
           D == Talk!In(p, deleted)
           K == Talk!Rows(p) \cup Blank
<1>1. PICK B \in SUBSET Talk!In(p, Comments) :
        /\ Cardinality(B) = thread[p].counter
        /\ B \subseteq tally \cup deleted
        /\ B \ K \subseteq deleted
  BY DEF TalkBase
<1>2. /\ IsFiniteSet(T) /\ IsFiniteSet(B) /\ IsFiniteSet(D) /\ Cardinality(T) = Cardinality(B)
      /\ B \ T \subseteq D /\ B \ K \subseteq D
  <2>1. IsFiniteSet(Comments) /\ tally \subseteq Comments /\ deleted \subseteq Comments
    BY TalkTypes
  <2>2. T \subseteq Comments /\ B \subseteq Comments /\ D \subseteq Comments
    BY <2>1 DEF Talk!In
  <2>3. B \ T \subseteq D /\ B \ K \subseteq D
    BY <1>1 DEF Talk!In
  <2> QED BY <1>1, <2>1, <2>2, <2>3, FS_Subset
<1> HIDE DEF T, D, K
<1>3. IsFiniteSet(T \ B) /\ IsFiniteSet(B \ T) /\ Cardinality(T \ B) = Cardinality(B \ T)
  BY <1>2, SameSizeSwap, FS_Difference
<1> DEFINE X == (T \ K) \cap B
           Y == T \ B
           Z == B \ T
<1>4. X \subseteq D /\ Z \subseteq D /\ X \cap Z = {} /\ T \ K \subseteq X \cup Y /\ X \cap Y = {}
  BY <1>2
<1>5. IsFiniteSet(X) /\ IsFiniteSet(Y) /\ IsFiniteSet(Z) /\ Cardinality(Y) = Cardinality(Z)
  BY <1>2, <1>3, <1>4, FS_Subset
<1> HIDE DEF X, Y, Z
<1>6. /\ Cardinality(X) \in Nat /\ Cardinality(Y) \in Nat /\ Cardinality(Z) \in Nat
      /\ Cardinality({}) = 0
  BY <1>5, FS_CardinalityType, FS_EmptySet
<1>7. Cardinality(X \cup Y) = Cardinality(X) + Cardinality(Y) /\ IsFiniteSet(X \cup Y)
  BY <1>4, <1>5, <1>6, FS_Union
<1>8. Cardinality(X \cup Z) = Cardinality(X) + Cardinality(Z) /\ X \cup Z \subseteq D
  <2>1. Cardinality(X \cup Z) = Cardinality(X) + Cardinality(Z) - Cardinality(X \cap Z)
    BY <1>5, FS_Union
  <2>2. Cardinality(X \cap Z) = 0
    BY <1>4, <1>6
  <2> QED BY <1>4, <1>6, <2>1, <2>2
<1>9. Cardinality(T \ K) <= Cardinality(X \cup Y) /\ Cardinality(X \cup Z) <= Cardinality(D)
  BY <1>2, <1>4, <1>7, <1>8, FS_Subset
<1>10. Cardinality(T \ K) \in Nat /\ Cardinality(D) \in Nat
  BY <1>2, FS_Difference, FS_CardinalityType
<1>11. Cardinality(T \ K) <= Cardinality(D)
  BY <1>5, <1>6, <1>7, <1>8, <1>9, <1>10
<1> QED BY <1>11 DEF T, D, K

\* What a read brings: comments of the thread, all of them unless it says otherwise.
LEMMA TalkRead ==
  ASSUME Talk!ConstantsOK, Talk!TypeOK, NEW p \in Posts, NEW f \in Talk!Fetches(p)
  PROVE  /\ f.raw \subseteq Talk!In(p, live) /\ f.status \in Talk!Statuses /\ f.truncated \in BOOLEAN
         /\ ~ f.truncated => f.raw = Talk!In(p, live)
<1> DEFINE P == Talk!Page(p)
           full == Talk!Cardinality(P) >= ThreadLimit
<1>1. P \subseteq Talk!In(p, live)
  BY DEF Talk!Page
<1>2. full \in BOOLEAN /\ (~ full => P = Talk!In(p, live))
  <2>1. IsFiniteSet(P) /\ ThreadLimit \in Nat
    BY <1>1, TalkTypes, TalkIn, FS_Subset
  <2>2. Cardinality(P) \in Nat /\ Talk!Cardinality(P) = Cardinality(P)
    BY <2>1, FS_CardinalityType, TalkSets
  <2>3. ~ full => Cardinality(P) < ThreadLimit
    BY <2>1, <2>2
  <2> QED BY <2>3, TalkWholePage
<1>3. ASSUME NEW blind \in BOOLEAN,
             f = [status |-> Talk!Classified(blind, P), raw |-> P, truncated |-> full]
      PROVE  /\ f.raw \subseteq Talk!In(p, live) /\ f.status \in Talk!Statuses /\ f.truncated \in BOOLEAN
             /\ ~ f.truncated => f.raw = Talk!In(p, live)
  <2>1. Talk!Classified(blind, P) \in Talk!Statuses
    BY DEF Talk!Classified, Talk!Statuses
  <2> HIDE DEF P, full
  <2>2. f.raw = P /\ f.status \in Talk!Statuses /\ f.truncated = full
    BY <1>3, <2>1
  <2> QED BY <1>1, <1>2, <2>2
<1>4. CASE \E g \in Talk!Failures, d \in {0} \cup P :
        f = [status |-> g, raw |-> {c \in P : c > d}, truncated |-> TRUE]
  BY <1>1, <1>4 DEF Talk!Failures, Talk!Statuses
<1>5. CASE f = [status |-> "unavailable", raw |-> {}, truncated |-> TRUE]
  BY <1>5 DEF Talk!Statuses
<1>6. \/ \E blind \in BOOLEAN :
           f = [status |-> Talk!Classified(blind, P), raw |-> P, truncated |-> full]
      \/ \E g \in Talk!Failures, d \in {0} \cup P :
           f = [status |-> g, raw |-> {c \in P : c > d}, truncated |-> TRUE]
      \/ f = [status |-> "unavailable", raw |-> {}, truncated |-> TRUE]
  <2> DEFINE A == {[status |-> Talk!Classified(blind, P), raw |-> P, truncated |-> full] : blind \in BOOLEAN}
             B == {[status |-> g, raw |-> {c \in P : c > d}, truncated |-> TRUE] :
                      g \in Talk!Failures, d \in {0} \cup P}
             C == {[status |-> "unavailable", raw |-> {}, truncated |-> TRUE]}
  <2>1. Talk!Fetches(p) = A \cup B \cup C
    BY DEF Talk!Fetches
  <2>2. f \in A => \E blind \in BOOLEAN :
                     f = [status |-> Talk!Classified(blind, P), raw |-> P, truncated |-> full]
    <3> HIDE DEF P, full
    <3> QED OBVIOUS
  <2>3. f \in B => \E g \in Talk!Failures, d \in {0} \cup P :
                     f = [status |-> g, raw |-> {c \in P : c > d}, truncated |-> TRUE]
    <3> HIDE DEF P
    <3> QED OBVIOUS
  <2>4. f \in C => f = [status |-> "unavailable", raw |-> {}, truncated |-> TRUE]
    OBVIOUS
  <2> HIDE DEF A, B, C, P, full
  <2> QED BY <2>1, <2>2, <2>3, <2>4
<1> QED BY <1>3, <1>4, <1>5, <1>6

\* What save_thread leaves.
LEMMA TalkSave ==
  ASSUME Talk!ConstantsOK, Talk!TypeOK, NEW p \in Posts, NEW s, NEW R \in SUBSET Comments,
         Talk!SaveThread(p, s, R)
  PROVE  /\ \A c \in Comments : c \notin R => row'[c] = row[c]
         /\ \A c \in R : row'[c] = [text |-> text[c],
                            classified |-> row[c].classified /\ row[c].text = text[c]]
         /\ \A c \in R : row'[c].text = text[c]
         /\ \A c \in R : row'[c].classified => row[c].classified /\ row[c].text = text[c]
         /\ thread'[p] = s /\ \A q \in Posts : q # p => thread'[q] = thread[q]
         /\ row' \in [Comments -> [text : -1 .. MaxEdits, classified : BOOLEAN]]
<1>1. row \in [Comments -> [text : -1 .. MaxEdits, classified : BOOLEAN]] /\ DOMAIN thread = Posts
      /\ text \in [Comments -> 0 .. MaxEdits]
  BY DEF Talk!TypeOK
<1>2. thread'[p] = s /\ \A q \in Posts : q # p => thread'[q] = thread[q]
  BY <1>1 DEF Talk!SaveThread
<1>3. row' = [c \in Comments |-> IF c \in R THEN Talk!Upserted(row, c)[c] ELSE row[c]]
  BY DEF Talk!SaveThread
<1>4. \A c \in Comments : Talk!Upserted(row, c)[c] =
         [text |-> text[c], classified |-> row[c].classified /\ row[c].text = text[c]]
  BY <1>1 DEF Talk!Upserted
<1>5. ASSUME NEW c \in Comments
      PROVE  Talk!Upserted(row, c)[c] \in [text : -1 .. MaxEdits, classified : BOOLEAN]
  <2> DEFINE b == row[c].classified /\ row[c].text = text[c]
  <2>1. b \in BOOLEAN /\ text[c] \in -1 .. MaxEdits
    BY <1>1
  <2>2. Talk!Upserted(row, c)[c] = [text |-> text[c], classified |-> b]
    BY <1>4
  <2> HIDE DEF b
  <2> QED BY <2>1, <2>2
<1>6. ASSUME NEW c \in R
      PROVE  row'[c].text = text[c] /\ (row'[c].classified => row[c].classified /\ row[c].text = text[c])
  <2> DEFINE b == row[c].classified /\ row[c].text = text[c]
  <2>1. c \in Comments /\ row'[c] = [text |-> text[c], classified |-> b]
    BY <1>3, <1>4
  <2> HIDE DEF b
  <2>2. row'[c].text = text[c] /\ row'[c].classified = b
    BY <2>1
  <2> QED BY <2>2 DEF b
<1>7. row' \in [Comments -> [text : -1 .. MaxEdits, classified : BOOLEAN]]
  BY <1>1, <1>3, <1>5
<1>8. /\ \A c \in Comments : c \notin R => row'[c] = row[c]
      /\ \A c \in R : row'[c] = [text |-> text[c], classified |-> row[c].classified /\ row[c].text = text[c]]
  BY <1>3, <1>4
<1> QED BY <1>2, <1>6, <1>7, <1>8

\* Which actions there are, with what each leaves alone.
LEMMA TalkFrame ==
  ASSUME Talk!Next
  PROVE  \/ \E c \in Comments : /\ Talk!Comment(c) \/ Talk!Delete(c) \/ Talk!Edit(c)
                                /\ UNCHANGED <<row, thread, at, counter, prior, tally, seen, judged>>
         \/ \E c \in Comments : /\ Talk!Classify(c)
                                /\ UNCHANGED <<live, deleted, text, thread, at, counter, prior, tally, seen>>
         \/ Talk!Count \/ Talk!Stop
         \/ \E p \in Posts : Talk!Nobody(p) \/ Talk!Skip(p) \/ Talk!Scan(p)
  BY DEF Talk!Next, Talk!Comment, Talk!Delete, Talk!Edit, Talk!Classify, Talk!db, Talk!local, Talk!tg

\* Where a post that was handled leaves the run.
LEMMA TalkOnwards ==
  ASSUME Talk!Onwards \/ Talk!Over
  PROVE  \/ at' = at + 1 /\ at' \in Posts /\ UNCHANGED <<counter, prior, tally>>
         \/ /\ at' = 0 /\ tally' = {} /\ counter' = [p \in Posts |-> -1]
            /\ prior' = [p \in Posts |-> Talk!NoThread]
  BY DEF Talk!Onwards, Talk!Over, Talk!NoCounter

\* What the type says of one thread.
LEMMA TalkThreads ==
  ASSUME Talk!ConstantsOK, Talk!TypeOK, NEW p \in Posts
  PROVE  /\ thread[p] \in Talk!Threads /\ prior[p] \in Talk!Threads
         /\ counter[p] \in -1 .. Cardinality(Comments)
         /\ Cardinality(Comments) \in Nat
         /\ Talk!Threads = [status : Talk!Statuses \cup {"none"}, counter : -1 .. Cardinality(Comments),
                            stored : 0 .. Cardinality(Comments), truncated : BOOLEAN]
<1>1. thread[p] \in Talk!Threads /\ prior[p] \in Talk!Threads /\ counter[p] \in -1 .. Talk!Cardinality(Comments)
  BY DEF Talk!TypeOK
<1>2. Cardinality(Comments) \in Nat
  BY TalkTypes, FS_CardinalityType
<1>3. Talk!Cardinality(Comments) = Cardinality(Comments)
  BY TalkSets
<1>4. Talk!Threads = [status : Talk!Statuses \cup {"none"}, counter : -1 .. Cardinality(Comments),
                      stored : 0 .. Cardinality(Comments), truncated : BOOLEAN]
  BY <1>3 DEF Talk!Threads
<1> HIDE DEF Talk!Threads
<1> QED BY <1>1, <1>2, <1>3, <1>4

LEMMA TalkPlaces ==
  ASSUME Talk!ConstantsOK, Talk!TypeOK
  PROVE  0 \notin Posts /\ 1 \in Posts /\ Posts \subseteq Nat /\ at \in Nat
<1>1. IsFiniteSet(Posts) /\ Posts = 1 .. Cardinality(Posts) /\ Posts # {}
  BY TalkSets DEF Talk!ConstantsOK
<1>2. Cardinality(Posts) \in Nat
  BY <1>1, FS_CardinalityType
<1> HIDE <1>1
<1>3. 0 \notin Posts /\ 1 \in Posts /\ Posts \subseteq Nat
  <2> DEFINE n == Cardinality(Posts)
  <2> HIDE DEF n
  <2>1. n \in Nat /\ Posts = 1 .. n /\ Posts # {}
    BY <1>1, <1>2 DEF n
  <2> QED BY <2>1
<1> QED BY <1>3 DEF Talk!TypeOK

\* What a scan does.
LEMMA TalkScan ==
  ASSUME Talk!ConstantsOK, Talk!TypeOK, NEW p \in Posts, Talk!Scan(p)
  PROVE  \E f \in Talk!Fetches(p), s \in Talk!Threads :
           /\ UNCHANGED <<live, deleted, text, judged>> /\ at = p /\ counter[p] > 0
           /\ seen' = [seen EXCEPT ![p] = Talk!In(p, tally)]
           /\ f.raw \ Blank \in SUBSET Talk!In(p, live)
           /\ Talk!SaveThread(p, s, f.raw \ Blank)
           /\ s.status = f.status /\ s.truncated = f.truncated
           /\ f.status \notin Talk!Failures => s.counter = counter[p]
           /\ s.stored = Cardinality(f.raw \ Blank) \/ s.stored = prior[p].stored
           /\ Talk!Over \/ Talk!Onwards
<1> DEFINE S(f) == [status    |-> f.status,
                    counter   |-> IF f.status \notin Talk!Failures THEN counter[p] ELSE prior[p].counter,
                    stored    |-> Talk!StoredCount(f.status, Talk!Cardinality(f.raw \ Blank), prior[p]),
                    truncated |-> f.truncated]
<1>1. PICK f \in Talk!Fetches(p) :
        /\ Talk!SaveThread(p, S(f), f.raw \ Blank)
        /\ seen' = [seen EXCEPT ![p] = Talk!In(p, tally)]
        /\ IF f.status = "flood_wait" THEN Talk!Over ELSE Talk!Onwards
  BY DEF Talk!Scan
<1>2. UNCHANGED <<live, deleted, text, judged>> /\ at = p /\ counter[p] > 0
  BY DEF Talk!Scan, Talk!Handle, Talk!tg
<1>3. f.raw \subseteq Talk!In(p, live) /\ f.status \in Talk!Statuses /\ f.truncated \in BOOLEAN
  BY TalkRead
<1> DEFINE n == Cardinality(f.raw \ Blank)
<1>4. n \in 0 .. Cardinality(Comments) /\ Talk!Cardinality(f.raw \ Blank) = n
  <2>1. f.raw \ Blank \in SUBSET Comments /\ IsFiniteSet(Comments)
    BY <1>3, TalkTypes, TalkIn
  <2>2. IsFiniteSet(f.raw \ Blank) /\ n <= Cardinality(Comments)
    BY <2>1, FS_Subset
  <2>3. n \in Nat /\ Cardinality(Comments) \in Nat
    BY <2>1, <2>2, FS_CardinalityType
  <2> QED BY <2>2, <2>3, TalkSets
<1>5. S(f).stored \in {n, prior[p].stored}
  BY <1>4 DEF Talk!StoredCount
<1>6. S(f) \in Talk!Threads
  <2>1. prior[p].counter \in -1 .. Cardinality(Comments) /\ prior[p].stored \in 0 .. Cardinality(Comments)
    BY TalkThreads
  <2>2. counter[p] \in -1 .. Cardinality(Comments)
    BY TalkThreads
  <2>3. S(f).stored \in 0 .. Cardinality(Comments)
    BY <1>4, <1>5, <2>1
  <2>4. S(f).counter \in -1 .. Cardinality(Comments)
    BY <2>1, <2>2
  <2>5. S(f) = [status |-> f.status, counter |-> S(f).counter, stored |-> S(f).stored, truncated |-> f.truncated]
    OBVIOUS
  <2> HIDE DEF S
  <2> QED BY <1>3, <2>3, <2>4, <2>5, TalkThreads
<1>7. /\ S(f).status = f.status /\ S(f).truncated = f.truncated
      /\ f.status \notin Talk!Failures => S(f).counter = counter[p]
  OBVIOUS
<1>8. f.raw \ Blank \in SUBSET Talk!In(p, live)
  BY <1>3
<1> HIDE DEF S, n
<1>9. S(f).stored = n \/ S(f).stored = prior[p].stored
  BY <1>5
<1>10. Talk!Over \/ Talk!Onwards
  BY <1>1
<1> QED BY <1>1, <1>2, <1>6, <1>7, <1>8, <1>9, <1>10 DEF n

\* What a post without a comment to read leaves.
LEMMA TalkNobody ==
  ASSUME Talk!ConstantsOK, Talk!TypeOK, NEW p \in Posts, Talk!Nobody(p)
  PROVE  /\ UNCHANGED <<live, deleted, text, judged, seen>> /\ at = p /\ Talk!Onwards
         /\ \E st \in {"unavailable", "empty"}, s \in Talk!Threads :
              \/ prior[p].status = st /\ UNCHANGED <<row, thread>>
              \/ Talk!SaveThread(p, s, {}) /\ s.status = st /\ s.stored = 0
<1> DEFINE st == IF counter[p] = Talk!NoCounter THEN "unavailable" ELSE "empty"
           s == [Talk!NoThread EXCEPT !.status = st, !.counter = counter[p]]
<1>1. UNCHANGED <<live, deleted, text, judged, seen>> /\ at = p /\ Talk!Onwards
  BY DEF Talk!Nobody, Talk!Handle, Talk!tg
<1>2. IF prior[p].status = st THEN UNCHANGED <<row, thread>> ELSE Talk!SaveThread(p, s, {})
  BY DEF Talk!Nobody, Talk!db
<1>3. s \in Talk!Threads /\ s.status = st /\ s.stored = 0 /\ st \in {"unavailable", "empty"}
  <2>1. counter[p] \in -1 .. Cardinality(Comments) /\ Cardinality(Comments) \in Nat
    BY TalkThreads
  <2>4. st \in {"unavailable", "empty"}
    OBVIOUS
  <2> DEFINE T == [status : Talk!Statuses \cup {"none"}, counter : -1 .. Cardinality(Comments),
                   stored : 0 .. Cardinality(Comments), truncated : BOOLEAN]
  <2>2. Talk!NoThread \in T /\ Talk!NoThread.stored = 0
    BY <2>1 DEF Talk!NoThread, Talk!NoCounter
  <2>3. st \in Talk!Statuses
    BY <2>4 DEF Talk!Statuses
  <2>5. s \in T /\ s.status = st /\ s.stored = 0
    <3> HIDE DEF st
    <3> QED BY <2>1, <2>2, <2>3
  <2>6. T = Talk!Threads
    BY TalkThreads
  <2> HIDE DEF s, st, T
  <2> QED BY <2>4, <2>5, <2>6
<1> QED BY <1>1, <1>2, <1>3

\* Rows stay, comments do not come back, and of those written none gets lost.
LEMMA TalkKept ==
  ASSUME Talk!ConstantsOK, Talk!TypeOK, Talk!Next
  PROVE  /\ \A q : Talk!Rows(q) \subseteq Talk!Rows(q)'
         /\ deleted \subseteq deleted' /\ live \cup deleted \subseteq live' \cup deleted'
<1>1. /\ row \in [Comments -> [text : -1 .. MaxEdits, classified : BOOLEAN]]
      /\ text \in [Comments -> 0 .. MaxEdits]
  BY DEF Talk!TypeOK
<1>2. deleted \subseteq deleted' /\ live \cup deleted \subseteq live' \cup deleted'
  BY DEF Talk!Next, Talk!Comment, Talk!Delete, Talk!Edit, Talk!Classify, Talk!Count, Talk!Stop,
         Talk!Nobody, Talk!Skip, Talk!Scan, Talk!Handle, Talk!tg
<1>3. ASSUME NEW c \in Comments, row[c] # Talk!NoRow PROVE row'[c] # Talk!NoRow
  <2>1. ASSUME NEW p \in Posts, NEW s, NEW R \in SUBSET Comments, Talk!SaveThread(p, s, R)
        PROVE  row'[c] # Talk!NoRow
    <3>1. row'[c] = row[c] \/ row'[c].text = text[c]
      BY <2>1, TalkSave
    <3> QED BY <1>1, <1>3, <3>1 DEF Talk!NoRow
  <2>2. CASE UNCHANGED row
    BY <1>3, <2>2
  <2>3. ASSUME NEW d \in Comments, Talk!Classify(d) PROVE row'[c] # Talk!NoRow
    BY <1>1, <1>3, <2>3 DEF Talk!Classify, Talk!NoRow
  <2>4. ASSUME NEW p \in Posts, Talk!Scan(p) PROVE row'[c] # Talk!NoRow
    <3>1. PICK f \in Talk!Fetches(p), s \in Talk!Threads :
            Talk!SaveThread(p, s, f.raw \ Blank) /\ f.raw \ Blank \in SUBSET Talk!In(p, live)
      BY <2>4, TalkScan
    <3>2. f.raw \ Blank \in SUBSET Comments
      BY <3>1, TalkTypes, TalkIn
    <3> QED BY <2>1, <3>1, <3>2
  <2>5. ASSUME NEW p \in Posts, Talk!Nobody(p) PROVE row'[c] # Talk!NoRow
    <3>1. UNCHANGED row \/ \E s : Talk!SaveThread(p, s, {})
      BY <2>5, TalkNobody
    <3> QED BY <2>1, <2>2, <3>1
  <2>6. ASSUME NEW p \in Posts, Talk!Skip(p) PROVE UNCHANGED row
    BY <2>6 DEF Talk!Skip, Talk!db
  <2>7. Talk!Count \/ Talk!Stop => UNCHANGED row
    BY DEF Talk!Count, Talk!Stop, Talk!db
  <2> QED BY <2>2, <2>3, <2>4, <2>5, <2>6, <2>7, TalkFrame
<1> QED BY <1>2, <1>3 DEF Talk!Rows, Talk!In

\* What was saved has a row.
LEMMA TalkSavedRows ==
  ASSUME Talk!ConstantsOK, Talk!TypeOK, NEW p \in Posts, NEW s, NEW R \in SUBSET Talk!In(p, Comments),
         Talk!SaveThread(p, s, R)
  PROVE  R \subseteq Talk!Rows(p)'
<1>1. R \subseteq Comments /\ text \in [Comments -> 0 .. MaxEdits]
  BY DEF Talk!TypeOK, Talk!In
<1>2. \A c \in R : row'[c].text = text[c]
  BY <1>1, TalkSave
<1>3. \A c \in R : row'[c] # Talk!NoRow
  BY <1>1, <1>2 DEF Talk!NoRow
<1> QED BY <1>3 DEF Talk!Rows, Talk!In

\* A base stays one.
LEMMA TalkKeepsBase ==
  ASSUME Talk!ConstantsOK, Talk!TypeOK, Talk!Next, NEW p \in Posts, thread'[p] = thread[p],
         NEW S, NEW T, S \cup deleted \subseteq T \cup deleted', TalkBase(p, S)
  PROVE  \E B \in SUBSET Talk!In(p, Comments) :
           /\ Cardinality(B) = thread'[p].counter
           /\ B \subseteq T \cup deleted'
           /\ B \ (Talk!Rows(p)' \cup Blank) \subseteq deleted'
  BY TalkKept DEF TalkBase

\* Classified comments carry the text they were classified with.
LEMMA TalkStepClassified ==
  ASSUME Talk!ConstantsOK, Talk!TypeOK, Talk!ClassifiedAsStored, Talk!Next
  PROVE  Talk!ClassifiedAsStored'
<1> SUFFICES ASSUME NEW c \in Comments, row'[c].classified
             PROVE  row'[c].text = judged'[c]
  BY DEF Talk!ClassifiedAsStored
<1>1. /\ row \in [Comments -> [text : -1 .. MaxEdits, classified : BOOLEAN]]
      /\ judged \in [Comments -> -1 .. MaxEdits]
  BY DEF Talk!TypeOK
<1>2. row[c].classified => row[c].text = judged[c]
  BY DEF Talk!ClassifiedAsStored
<1>3. ASSUME NEW p \in Posts, NEW s, NEW R \in SUBSET Comments, Talk!SaveThread(p, s, R),
             judged' = judged
      PROVE  row'[c].text = judged'[c]
  <2>1. CASE c \in R
    BY <1>2, <1>3, <2>1, TalkSave
  <2>2. CASE c \notin R
    <3>1. row'[c] = row[c]
      BY <1>3, <2>2, TalkSave
    <3> QED BY <1>2, <1>3, <3>1
  <2> QED BY <2>1, <2>2
<1>4. CASE UNCHANGED <<row, judged>>
  BY <1>2, <1>4
<1>5. ASSUME NEW d \in Comments, Talk!Classify(d) PROVE row'[c].text = judged'[c]
  <2>1. row' = [row EXCEPT ![d].classified = TRUE] /\ judged' = [judged EXCEPT ![d] = row[d].text]
    BY <1>5 DEF Talk!Classify
  <2>2. CASE c = d
    BY <1>1, <2>1, <2>2
  <2>3. CASE c # d
    <3>1. row'[c] = row[c] /\ judged'[c] = judged[c]
      BY <1>1, <2>1, <2>3
    <3> QED BY <1>2, <3>1
  <2> QED BY <2>2, <2>3
<1>6. ASSUME NEW p \in Posts, Talk!Scan(p) PROVE row'[c].text = judged'[c]
  <2>1. PICK f \in Talk!Fetches(p), s \in Talk!Threads :
          /\ Talk!SaveThread(p, s, f.raw \ Blank) /\ f.raw \ Blank \in SUBSET Talk!In(p, live)
          /\ judged' = judged
    BY <1>6, TalkScan
  <2>2. f.raw \ Blank \in SUBSET Comments
    BY <2>1, TalkTypes, TalkIn
  <2> QED BY <1>3, <2>1, <2>2
<1>7. ASSUME NEW p \in Posts, Talk!Nobody(p) PROVE row'[c].text = judged'[c]
  <2>1. judged' = judged /\ (UNCHANGED row \/ \E s : Talk!SaveThread(p, s, {}))
    BY <1>7, TalkNobody
  <2> QED BY <1>3, <1>4, <2>1
<1>8. Talk!Count \/ Talk!Stop \/ (\E p \in Posts : Talk!Skip(p)) => UNCHANGED <<row, judged>>
  BY DEF Talk!Count, Talk!Stop, Talk!Skip, Talk!Handle, Talk!db
<1> QED BY <1>4, <1>5, <1>6, <1>7, <1>8, TalkFrame

\* The rows of a thread are countable, and more of them later.
LEMMA TalkMoreRows ==
  ASSUME Talk!ConstantsOK, Talk!TypeOK, Talk!Next, NEW p
  PROVE  /\ Cardinality(Talk!Rows(p)) \in Nat /\ Cardinality(Talk!Rows(p)') \in Nat
         /\ Cardinality(Talk!Rows(p)) <= Cardinality(Talk!Rows(p)') /\ IsFiniteSet(Talk!Rows(p)')
<1>1. IsFiniteSet(Comments) /\ Talk!Rows(p) \subseteq Comments /\ Talk!Rows(p)' \subseteq Comments
  BY TalkTypes DEF Talk!Rows, Talk!In
<1>2. IsFiniteSet(Talk!Rows(p)) /\ IsFiniteSet(Talk!Rows(p)')
  BY <1>1, FS_Subset
<1>3. Talk!Rows(p) \subseteq Talk!Rows(p)'
  BY TalkKept
<1> QED BY <1>2, <1>3, FS_Subset, FS_CardinalityType

\* A thread never reports more stored comments than it has rows.
LEMMA TalkStepCount ==
  ASSUME Talk!ConstantsOK, Talk!TypeOK, TalkRun, Talk!CountIsNotInflated, Talk!Next
  PROVE  Talk!CountIsNotInflated'
<1> SUFFICES ASSUME NEW q \in Posts PROVE thread'[q].stored <= Cardinality(Talk!Rows(q)')
  BY TalkSets DEF Talk!CountIsNotInflated
<1>1. thread[q].stored <= Cardinality(Talk!Rows(q)) /\ thread[q].stored \in Nat
  <2>1. thread[q].stored \in 0 .. Cardinality(Comments) /\ Cardinality(Comments) \in Nat
    BY TalkThreads
  <2>2. thread[q].stored <= Cardinality(Talk!Rows(q))
    BY TalkSets DEF Talk!CountIsNotInflated
  <2> QED BY <2>1, <2>2
<1>2. /\ Cardinality(Talk!Rows(q)) \in Nat /\ Cardinality(Talk!Rows(q)') \in Nat
      /\ Cardinality(Talk!Rows(q)) <= Cardinality(Talk!Rows(q)') /\ IsFiniteSet(Talk!Rows(q)')
  BY TalkMoreRows
<1>3. CASE thread'[q].stored = thread[q].stored \/ thread'[q].stored = 0
  BY <1>1, <1>2, <1>3
<1>4. ASSUME NEW p \in Posts, Talk!Scan(p) PROVE thread'[q].stored <= Cardinality(Talk!Rows(q)')
  <2>1. PICK f \in Talk!Fetches(p), s \in Talk!Threads :
          /\ Talk!SaveThread(p, s, f.raw \ Blank) /\ f.raw \ Blank \in SUBSET Talk!In(p, live)
          /\ s.stored = Cardinality(f.raw \ Blank) \/ s.stored = prior[p].stored
          /\ at = p
    BY <1>4, TalkScan
  <2>2. f.raw \ Blank \in SUBSET Comments /\ f.raw \ Blank \in SUBSET Talk!In(p, Comments)
    BY <2>1, TalkTypes DEF Talk!In
  <2>3. thread'[p] = s /\ \A r \in Posts : r # p => thread'[r] = thread[r]
    BY <2>1, <2>2, TalkSave
  <2>4. CASE p # q
    BY <1>3, <2>3, <2>4
  <2>5. CASE p = q
    <3>1. prior[q] = thread[q]
      BY <2>1, <2>5, TalkPlaces DEF TalkRun
    <3>2. Cardinality(f.raw \ Blank) <= Cardinality(Talk!Rows(q)')
      BY <1>2, <2>1, <2>2, <2>5, TalkSavedRows, FS_Subset
    <3> QED BY <1>1, <1>2, <2>1, <2>3, <2>5, <3>1, <3>2
  <2> QED BY <2>4, <2>5
<1>5. ASSUME NEW p \in Posts, Talk!Nobody(p) PROVE thread'[q].stored <= Cardinality(Talk!Rows(q)')
  <2>1. UNCHANGED thread \/ \E s : Talk!SaveThread(p, s, {}) /\ s.stored = 0
    BY <1>5, TalkNobody
  <2>2. ASSUME NEW s, Talk!SaveThread(p, s, {}), s.stored = 0
        PROVE  thread'[q].stored = thread[q].stored \/ thread'[q].stored = 0
    BY <2>2, TalkSave
  <2> QED BY <1>3, <2>1, <2>2
<1>6. Talk!Count \/ Talk!Stop \/ (\E p \in Posts : Talk!Skip(p)) => UNCHANGED thread
  BY DEF Talk!Count, Talk!Stop, Talk!Skip, Talk!Handle, Talk!db
<1> QED BY <1>3, <1>4, <1>5, <1>6, TalkFrame

LEMMA TalkNoThread ==
  ASSUME Talk!ConstantsOK
  PROVE  /\ Talk!NoThread \in Talk!Threads /\ Talk!NoThread.status = "none"
         /\ Talk!NoThread.stored = 0
<1>1. Cardinality(Comments) \in Nat /\ Talk!Cardinality(Comments) = Cardinality(Comments)
  BY TalkSets, FS_CardinalityType DEF Talk!ConstantsOK
<1>2. Talk!NoThread \in [status : Talk!Statuses \cup {"none"}, counter : -1 .. Cardinality(Comments),
                         stored : 0 .. Cardinality(Comments), truncated : BOOLEAN]
  BY <1>1 DEF Talk!NoThread, Talk!NoCounter
<1> QED BY <1>1, <1>2 DEF Talk!Threads, Talk!NoThread

\* The comments, their texts and rows, and what the classifier saw.
LEMMA TalkStepRows ==
  ASSUME Talk!ConstantsOK, Talk!TypeOK, Talk!Next
  PROVE  /\ live' \subseteq Comments /\ deleted' \subseteq Comments \ live'
         /\ text' \in [Comments -> 0 .. MaxEdits]
         /\ row' \in [Comments -> [text : -1 .. MaxEdits, classified : BOOLEAN]]
         /\ judged' \in [Comments -> -1 .. MaxEdits]
<1>1. /\ row \in [Comments -> [text : -1 .. MaxEdits, classified : BOOLEAN]]
      /\ text \in [Comments -> 0 .. MaxEdits] /\ MaxEdits \in Nat
      /\ live \subseteq Comments /\ deleted \subseteq Comments \ live
      /\ judged \in [Comments -> -1 .. MaxEdits]
  BY DEF Talk!TypeOK, Talk!ConstantsOK
<1>2. /\ live' \subseteq Comments /\ deleted' \subseteq Comments \ live'
      /\ text' \in [Comments -> 0 .. MaxEdits]
  <2>1. ASSUME NEW c \in Comments, Talk!Comment(c) \/ Talk!Delete(c)
        PROVE  /\ live' \subseteq Comments /\ deleted' \subseteq Comments \ live'
               /\ text' \in [Comments -> 0 .. MaxEdits]
    BY <1>1, <2>1 DEF Talk!Comment, Talk!Delete
  <2>2. ASSUME NEW c \in Comments, Talk!Edit(c) PROVE UNCHANGED <<live, deleted>> /\ text' \in [Comments -> 0 .. MaxEdits]
    BY <1>1, <2>2 DEF Talk!Edit
  <2>3. CASE UNCHANGED <<live, deleted, text>>
    BY <1>1, <2>3
  <2> QED BY <1>1, <2>1, <2>2, <2>3
    DEF Talk!Next, Talk!Classify, Talk!Count, Talk!Stop, Talk!Nobody, Talk!Skip, Talk!Scan, Talk!Handle, Talk!tg
<1>3. ASSUME NEW p \in Posts, Talk!Scan(p)
      PROVE  row' \in [Comments -> [text : -1 .. MaxEdits, classified : BOOLEAN]] /\ judged' = judged
  <2>1. PICK f \in Talk!Fetches(p), s \in Talk!Threads :
          /\ Talk!SaveThread(p, s, f.raw \ Blank) /\ f.raw \ Blank \in SUBSET Talk!In(p, live)
          /\ judged' = judged
    BY <1>3, TalkScan
  <2>2. f.raw \ Blank \in SUBSET Comments
    BY <2>1, TalkTypes, TalkIn
  <2> QED BY <2>1, <2>2, TalkSave
<1>4. ASSUME NEW p \in Posts, Talk!Nobody(p)
      PROVE  row' \in [Comments -> [text : -1 .. MaxEdits, classified : BOOLEAN]] /\ judged' = judged
  <2>1. judged' = judged /\ (UNCHANGED row \/ \E s : Talk!SaveThread(p, s, {}))
    BY <1>4, TalkNobody
  <2> QED BY <1>1, <2>1, TalkSave
<1>5. ASSUME NEW d \in Comments, Talk!Classify(d)
      PROVE  /\ row' \in [Comments -> [text : -1 .. MaxEdits, classified : BOOLEAN]]
             /\ judged' \in [Comments -> -1 .. MaxEdits]
  BY <1>1, <1>5 DEF Talk!Classify
<1>6. Talk!Count \/ Talk!Stop \/ (\E p \in Posts : Talk!Skip(p)) => UNCHANGED <<row, judged>>
  BY DEF Talk!Count, Talk!Stop, Talk!Skip, Talk!Handle, Talk!db
<1> QED BY <1>1, <1>2, <1>3, <1>4, <1>5, <1>6, TalkFrame

\* The threads and the run.
LEMMA TalkStepThreads ==
  ASSUME Talk!ConstantsOK, Talk!TypeOK, Talk!Next
  PROVE  /\ thread' \in [Posts -> Talk!Threads] /\ prior' \in [Posts -> Talk!Threads]
         /\ at' \in Posts \cup {0} /\ counter' \in [Posts -> -1 .. Cardinality(Comments)]
         /\ tally' \subseteq Comments /\ seen' \in [Posts -> SUBSET Comments]
<1>1. /\ thread \in [Posts -> Talk!Threads] /\ prior \in [Posts -> Talk!Threads]
      /\ at \in Posts \cup {0} /\ counter \in [Posts -> -1 .. Cardinality(Comments)]
      /\ tally \subseteq Comments /\ seen \in [Posts -> SUBSET Comments]
  BY TalkSets DEF Talk!TypeOK
<1>2. /\ Cardinality(Comments) \in Nat /\ Talk!NoThread \in Talk!Threads
      /\ \A p, S : S \subseteq Comments => /\ Cardinality(Talk!In(p, S)) \in 0 .. Cardinality(Comments)
                                           /\ Talk!In(p, S) \subseteq Comments
  BY TalkTypes, TalkIn, TalkNoThread, FS_CardinalityType
<1>3. ASSUME Talk!Onwards \/ Talk!Over
      PROVE  /\ prior' \in [Posts -> Talk!Threads] /\ at' \in Posts \cup {0}
             /\ counter' \in [Posts -> -1 .. Cardinality(Comments)] /\ tally' \subseteq Comments
  BY <1>1, <1>2, <1>3, TalkOnwards
<1>4. ASSUME NEW p \in Posts, Talk!Scan(p)
      PROVE  thread' \in [Posts -> Talk!Threads] /\ seen' \in [Posts -> SUBSET Comments] /\ (Talk!Onwards \/ Talk!Over)
  <2>1. PICK f \in Talk!Fetches(p), s \in Talk!Threads :
          /\ Talk!SaveThread(p, s, f.raw \ Blank)
          /\ seen' = [seen EXCEPT ![p] = Talk!In(p, tally)]
          /\ Talk!Onwards \/ Talk!Over
    BY <1>4, TalkScan
  <2>2. thread' = [thread EXCEPT ![p] = s]
    BY <2>1 DEF Talk!SaveThread
  <2> QED BY <1>1, <1>2, <2>1, <2>2
<1>5. ASSUME NEW p \in Posts, Talk!Nobody(p)
      PROVE  thread' \in [Posts -> Talk!Threads] /\ seen' = seen /\ (Talk!Onwards \/ Talk!Over)
  <2>1. /\ seen' = seen /\ Talk!Onwards
        /\ UNCHANGED thread \/ \E s \in Talk!Threads : Talk!SaveThread(p, s, {})
    BY <1>5, TalkNobody
  <2>2. ASSUME NEW s \in Talk!Threads, Talk!SaveThread(p, s, {}) PROVE thread' \in [Posts -> Talk!Threads]
    BY <1>1, <2>2 DEF Talk!SaveThread
  <2> QED BY <1>1, <2>1, <2>2
<1>6. ASSUME NEW p \in Posts, Talk!Skip(p)
      PROVE  thread' = thread /\ seen' \in [Posts -> SUBSET Comments] /\ (Talk!Onwards \/ Talk!Over)
  <2>1. thread' = thread /\ seen' = [seen EXCEPT ![p] = Talk!In(p, tally)] /\ Talk!Onwards
    BY <1>6 DEF Talk!Skip, Talk!db
  <2> QED BY <1>1, <1>2, <2>1
<1>7. CASE Talk!Count
  <2>1. /\ at' = 1 /\ prior' = thread /\ tally' = live /\ UNCHANGED <<thread, seen>>
        /\ counter' = [p \in Posts |-> IF p \in Closed THEN -1 ELSE Talk!Cardinality(Talk!In(p, live))]
    BY <1>7 DEF Talk!Count, Talk!db, Talk!NoCounter
  <2>2. counter' \in [Posts -> -1 .. Cardinality(Comments)]
    <3>1. \A p \in Posts : Talk!Cardinality(Talk!In(p, live)) \in -1 .. Cardinality(Comments)
      BY <1>2, TalkTypes, TalkSets
    <3> QED BY <1>2, <2>1, <3>1
  <2>3. 1 \in Posts \cup {0}
    BY TalkPlaces
  <2> QED BY <1>1, <2>1, <2>2, <2>3, TalkTypes
<1>8. CASE Talk!Stop
  BY <1>1, <1>3, <1>8 DEF Talk!Stop, Talk!db
<1>9. CASE UNCHANGED <<thread, prior, at, counter, tally, seen>>
  BY <1>1, <1>9
<1> QED BY <1>1, <1>3, <1>4, <1>5, <1>6, <1>7, <1>8, <1>9, TalkFrame

LEMMA TalkStepTypes ==
  ASSUME Talk!ConstantsOK, Talk!TypeOK, Talk!Next
  PROVE  Talk!TypeOK'
<1>1. counter' \in [Posts -> -1 .. Talk!Cardinality(Comments)]
  BY TalkStepThreads, TalkSets
<1> QED BY <1>1, TalkStepRows, TalkStepThreads DEF Talk!TypeOK, Talk!Threads

\* What the run knows of the posts it has not handled yet.
LEMMA TalkStepRun ==
  ASSUME Talk!ConstantsOK, Talk!TypeOK, TalkRun, TalkBased, Talk!Next
  PROVE  TalkRun'
<1>1. tally \subseteq live \cup deleted => tally \subseteq live' \cup deleted'
  BY TalkKept
<1>2. tally \cup deleted \subseteq tally \cup deleted' /\ live \cup deleted \subseteq live \cup deleted'
  BY TalkKept
\* A post not handled in this step keeps what is known of it.
<1>3. ASSUME NEW p \in Posts, at # 0, at <= p, UNCHANGED <<prior, counter, tally>>, thread'[p] = thread[p]
      PROVE  /\ prior'[p] = thread'[p]
             /\ counter'[p] = IF p \in Closed THEN -1 ELSE Cardinality(Talk!In(p, tally'))
             /\ Fetched(p)' => TalkBase(p, tally)'
  <2>1. /\ prior[p] = thread[p] /\ (Fetched(p) => TalkBase(p, tally))
        /\ counter[p] = IF p \in Closed THEN -1 ELSE Cardinality(Talk!In(p, tally))
    BY <1>3 DEF TalkRun
  <2>2. Fetched(p)' => Fetched(p)
    BY <1>3 DEF Fetched, Talk!Settled
  <2>3. TalkBase(p, tally) => TalkBase(p, tally)'
    <3> SUFFICES ASSUME TalkBase(p, tally) PROVE TalkBase(p, tally)'
      OBVIOUS
    <3>1. \E B \in SUBSET Talk!In(p, Comments) :
           /\ Cardinality(B) = thread'[p].counter
           /\ B \subseteq tally \cup deleted'
           /\ B \ (Talk!Rows(p)' \cup Blank) \subseteq deleted'
      BY <1>2, <1>3, TalkKeepsBase
    <3> QED BY <1>3, <3>1 DEF TalkBase, Talk!In
  <2> QED BY <1>3, <2>1, <2>2, <2>3
<1>4. CASE UNCHANGED <<thread, at, counter, prior, tally>>
  BY <1>1, <1>3, <1>4 DEF TalkRun
<1>5. ASSUME NEW p \in Posts, at = p, Talk!Onwards \/ Talk!Over,
             \A q \in Posts : q # p => thread'[q] = thread[q]
      PROVE  TalkRun'
  <2>1. CASE at' = 0
    BY <2>1 DEF TalkRun
  <2>2. CASE at' = at + 1 /\ UNCHANGED <<counter, prior, tally>>
    <3>1. at # 0 /\ at \in Nat /\ p \in Nat
      BY <1>5, TalkPlaces
    <3>2. ASSUME NEW q \in Posts, at' <= q PROVE at <= q /\ q # p
      BY <1>5, <2>2, <3>1, <3>2, TalkPlaces
    <3>3. tally' \subseteq live' \cup deleted'
      BY <1>1, <2>2, <3>1 DEF TalkRun
    <3> QED BY <1>3, <1>5, <2>2, <3>1, <3>2, <3>3 DEF TalkRun
  <2> QED BY <1>5, <2>1, <2>2, TalkOnwards
<1>6. CASE Talk!Count
  <2>1. /\ prior' = thread /\ tally' = live /\ UNCHANGED <<thread, row, live, deleted>>
        /\ counter' = [p \in Posts |-> IF p \in Closed THEN -1 ELSE Talk!Cardinality(Talk!In(p, live))]
    BY <1>6 DEF Talk!Count, Talk!db, Talk!tg, Talk!NoCounter
  <2>2. ASSUME NEW p \in Posts, Fetched(p)' PROVE TalkBase(p, tally)'
    <3>1. Fetched(p)
      BY <2>1, <2>2 DEF Fetched, Talk!Settled
    <3>2. \E B \in SUBSET Talk!In(p, Comments) :
           /\ Cardinality(B) = thread'[p].counter
           /\ B \subseteq live \cup deleted'
           /\ B \ (Talk!Rows(p)' \cup Blank) \subseteq deleted'
      BY <1>2, <2>1, <3>1, TalkKeepsBase DEF TalkBased
    <3> QED BY <2>1, <3>2 DEF TalkBase, Talk!In
  <2>3. \A p \in Posts : /\ prior'[p] = thread'[p]
                         /\ counter'[p] = IF p \in Closed THEN -1 ELSE Cardinality(Talk!In(p, tally'))
    BY <2>1, TalkSets
  <2> QED BY <2>1, <2>2, <2>3 DEF TalkRun
<1>7. CASE Talk!Stop
  BY <1>7 DEF Talk!Stop, Talk!Over, TalkRun
<1>8. ASSUME NEW p \in Posts, Talk!Scan(p) PROVE TalkRun'
  <2>1. PICK f \in Talk!Fetches(p), s \in Talk!Threads :
          /\ Talk!SaveThread(p, s, f.raw \ Blank) /\ f.raw \ Blank \in SUBSET Talk!In(p, live)
          /\ at = p /\ (Talk!Over \/ Talk!Onwards)
    BY <1>8, TalkScan
  <2>2. f.raw \ Blank \in SUBSET Comments
    BY <2>1, TalkTypes, TalkIn
  <2>3. \A q \in Posts : q # p => thread'[q] = thread[q]
    BY <2>1, <2>2, TalkSave
  <2> QED BY <1>5, <2>1, <2>3
<1>9. ASSUME NEW p \in Posts, Talk!Nobody(p) PROVE TalkRun'
  <2>1. at = p /\ Talk!Onwards /\ (UNCHANGED thread \/ \E s : Talk!SaveThread(p, s, {}))
    BY <1>9, TalkNobody
  <2>2. \A q \in Posts : q # p => thread'[q] = thread[q]
    BY <2>1, TalkSave
  <2> QED BY <1>5, <2>1, <2>2
<1>10. ASSUME NEW p \in Posts, Talk!Skip(p) PROVE TalkRun'
  BY <1>5, <1>10 DEF Talk!Skip, Talk!Handle, Talk!db
<1> QED BY <1>4, <1>6, <1>7, <1>8, <1>9, <1>10, TalkFrame

\* A scan that settles a thread: of what its counter counted, what it has not
\* stored had been deleted.
LEMMA TalkSettles ==
  ASSUME Talk!ConstantsOK, Talk!TypeOK, TalkRun, Talk!Next, NEW p \in Posts, Talk!Scan(p), Fetched(p)'
  PROVE  /\ Talk!In(p, tally) \ (Talk!Rows(p)' \cup Blank) \subseteq Talk!In(p, deleted)
         /\ Cardinality(Talk!In(p, tally)) = thread'[p].counter
         /\ tally \subseteq live \cup deleted /\ UNCHANGED <<live, deleted>>
<1>1. PICK f \in Talk!Fetches(p), s \in Talk!Threads :
        /\ UNCHANGED <<live, deleted>> /\ at = p /\ counter[p] > 0
        /\ f.raw \ Blank \in SUBSET Talk!In(p, live)
        /\ Talk!SaveThread(p, s, f.raw \ Blank)
        /\ s.status = f.status /\ s.truncated = f.truncated
        /\ f.status \notin Talk!Failures => s.counter = counter[p]
  BY TalkScan
<1>2. f.raw \ Blank \in SUBSET Comments /\ f.raw \ Blank \in SUBSET Talk!In(p, Comments)
  BY <1>1, TalkTypes DEF Talk!In
<1>3. thread'[p] = s
  BY <1>1, <1>2, TalkSave
<1>4. f.status = "fetched" /\ ~ f.truncated
  BY <1>1, <1>3 DEF Fetched, Talk!Settled
<1>5. f.raw = Talk!In(p, live) /\ s.counter = counter[p]
  BY <1>1, <1>4, TalkRead DEF Talk!Failures
<1>6. /\ tally \subseteq live \cup deleted
      /\ counter[p] = IF p \in Closed THEN -1 ELSE Cardinality(Talk!In(p, tally))
  BY <1>1, TalkPlaces DEF TalkRun
<1>7. counter[p] = Cardinality(Talk!In(p, tally))
  BY <1>1, <1>6
<1>8. f.raw \ Blank \subseteq Talk!Rows(p)'
  BY <1>1, <1>2, TalkSavedRows
<1>9. Talk!In(p, tally) \ (Talk!Rows(p)' \cup Blank) \subseteq Talk!In(p, deleted)
  BY <1>5, <1>6, <1>8 DEF Talk!In
<1> QED BY <1>1, <1>3, <1>5, <1>6, <1>7, <1>9

\* A post nobody commented on is not a fetched one.
LEMMA TalkNobodyFetched ==
  ASSUME Talk!ConstantsOK, Talk!TypeOK, TalkRun, NEW p \in Posts, Talk!Nobody(p)
  PROVE  ~ Fetched(p)' /\ \A q \in Posts : q # p => thread'[q] = thread[q]
<1>1. PICK st \in {"unavailable", "empty"}, s \in Talk!Threads :
        \/ prior[p].status = st /\ UNCHANGED thread
        \/ Talk!SaveThread(p, s, {}) /\ s.status = st
  BY TalkNobody
<1>2. CASE prior[p].status = st /\ UNCHANGED thread
  <2>1. prior[p] = thread[p]
    BY TalkNobody, TalkPlaces DEF TalkRun
  <2> QED BY <1>1, <1>2, <2>1 DEF Fetched
<1>3. CASE Talk!SaveThread(p, s, {}) /\ s.status = st
  <2>1. thread'[p] = s /\ \A q \in Posts : q # p => thread'[q] = thread[q]
    BY <1>3, TalkSave
  <2> QED BY <1>1, <1>3, <2>1 DEF Fetched
<1> QED BY <1>1, <1>2, <1>3

\* A thread keeps its base until it is scanned again.
LEMMA TalkStepBased ==
  ASSUME Talk!ConstantsOK, Talk!TypeOK, TalkRun, TalkBased, Talk!Next
  PROVE  TalkBased'
<1> SUFFICES ASSUME NEW q \in Posts, Fetched(q)' PROVE TalkBase(q, live)'
  BY DEF TalkBased
<1>1. ASSUME thread'[q] = thread[q] PROVE TalkBase(q, live)'
  <2>1. Fetched(q)
    BY <1>1 DEF Fetched, Talk!Settled
  <2>2. \E B \in SUBSET Talk!In(q, Comments) :
           /\ Cardinality(B) = thread'[q].counter
           /\ B \subseteq live' \cup deleted'
           /\ B \ (Talk!Rows(q)' \cup Blank) \subseteq deleted'
    BY <1>1, <2>1, TalkKeepsBase, TalkKept DEF TalkBased
  <2> QED BY <2>2 DEF TalkBase, Talk!In
<1>2. ASSUME NEW p \in Posts, Talk!Scan(p) PROVE TalkBase(q, live)'
  <2>1. CASE p # q
    <3>1. PICK f \in Talk!Fetches(p), s \in Talk!Threads :
            Talk!SaveThread(p, s, f.raw \ Blank) /\ f.raw \ Blank \in SUBSET Talk!In(p, live)
      BY <1>2, TalkScan
    <3>2. f.raw \ Blank \in SUBSET Comments
      BY <3>1, TalkTypes, TalkIn
    <3>3. thread'[q] = thread[q]
      BY <2>1, <3>1, <3>2, TalkSave
    <3> QED BY <1>1, <3>3
  <2>2. CASE p = q
    <3> DEFINE B == Talk!In(q, tally)
    <3>1. /\ B \ (Talk!Rows(q)' \cup Blank) \subseteq deleted'
          /\ Cardinality(B) = thread'[q].counter /\ B \subseteq live' \cup deleted'
      BY <1>2, <2>2, TalkSettles DEF Talk!In
    <3>2. B \in SUBSET Talk!In(q, Comments)
      BY TalkTypes DEF Talk!In
    <3> HIDE DEF B
    <3> QED BY <3>1, <3>2 DEF TalkBase, Talk!In
  <2> QED BY <2>1, <2>2
<1>3. ASSUME NEW p \in Posts, Talk!Nobody(p) PROVE TalkBase(q, live)'
  BY <1>1, <1>3, TalkNobodyFetched
<1>4. Talk!Count \/ Talk!Stop \/ (\E p \in Posts : Talk!Skip(p)) => UNCHANGED thread
  BY DEF Talk!Count, Talk!Stop, Talk!Skip, Talk!Handle, Talk!db
<1> QED BY <1>1, <1>2, <1>3, <1>4, TalkFrame

\* What a settled thread misses.
LEMMA TalkStepMissed ==
  ASSUME Talk!ConstantsOK, TalkIInv, Talk!Next
  PROVE  Talk!MissedAtMostDeleted'
<1> USE DEF TalkIInv
<1> SUFFICES ASSUME NEW q \in Posts, Fetched(q)'
             PROVE  Cardinality(seen'[q] \ (Talk!Rows(q)' \cup Blank)) <= Cardinality(Talk!In(q, deleted'))
  BY TalkSets DEF Talk!MissedAtMostDeleted, Fetched, Talk!In
<1>1. /\ IsFiniteSet(Talk!In(q, deleted')) /\ Talk!In(q, deleted) \subseteq Talk!In(q, deleted')
      /\ seen[q] \subseteq Comments /\ IsFiniteSet(Comments) /\ seen'[q] \subseteq Comments
  <2>1. deleted' \subseteq Comments /\ seen' \in [Posts -> SUBSET Comments]
    BY TalkStepRows, TalkStepThreads
  <2>2. seen \in [Posts -> SUBSET Comments] /\ IsFiniteSet(Comments)
    BY TalkTypes DEF Talk!TypeOK
  <2>3. IsFiniteSet(Talk!In(q, deleted')) /\ Talk!In(q, deleted) \subseteq Talk!In(q, deleted')
    BY <2>1, TalkIn, TalkKept DEF Talk!In
  <2> QED BY <2>1, <2>2, <2>3
<1>2. ASSUME thread'[q] = thread[q], seen'[q] = seen[q]
      PROVE  Cardinality(seen'[q] \ (Talk!Rows(q)' \cup Blank)) <= Cardinality(Talk!In(q, deleted'))
  <2> DEFINE M == seen[q] \ (Talk!Rows(q) \cup Blank)
             N == seen'[q] \ (Talk!Rows(q)' \cup Blank)
  <2>1. Cardinality(M) <= Cardinality(Talk!In(q, deleted))
    <3>1. Fetched(q)
      BY <1>2 DEF Fetched, Talk!Settled
    <3> QED BY <3>1, TalkSets DEF Talk!MissedAtMostDeleted, Fetched
  <2>2. N \subseteq M /\ IsFiniteSet(M)
    <3>1. IsFiniteSet(M)
      BY <1>1, FS_Subset
    <3> QED BY <1>2, <3>1, TalkKept
  <2> HIDE DEF M, N
  <2>3. /\ IsFiniteSet(N) /\ Cardinality(N) <= Cardinality(M)
        /\ Cardinality(Talk!In(q, deleted)) <= Cardinality(Talk!In(q, deleted'))
        /\ IsFiniteSet(Talk!In(q, deleted))
    BY <1>1, <2>2, FS_Subset
  <2>4. /\ Cardinality(N) \in Nat /\ Cardinality(M) \in Nat /\ Cardinality(Talk!In(q, deleted)) \in Nat
        /\ Cardinality(Talk!In(q, deleted')) \in Nat
    BY <1>1, <2>2, <2>3, FS_CardinalityType
  <2>5. Cardinality(N) <= Cardinality(Talk!In(q, deleted'))
    BY <2>1, <2>3, <2>4
  <2> QED BY <2>5 DEF N
<1>3. ASSUME NEW p \in Posts, Talk!Scan(p)
      PROVE  Cardinality(seen'[q] \ (Talk!Rows(q)' \cup Blank)) <= Cardinality(Talk!In(q, deleted'))
  <2>1. PICK f \in Talk!Fetches(p), s \in Talk!Threads :
          /\ Talk!SaveThread(p, s, f.raw \ Blank) /\ f.raw \ Blank \in SUBSET Talk!In(p, live)
          /\ seen' = [seen EXCEPT ![p] = Talk!In(p, tally)]
    BY <1>3, TalkScan
  <2>2. seen \in [Posts -> SUBSET Comments]
    BY DEF Talk!TypeOK
  <2>3. CASE p # q
    <3>1. f.raw \ Blank \in SUBSET Comments
      BY <2>1, TalkTypes, TalkIn
    <3>2. thread'[q] = thread[q] /\ seen'[q] = seen[q]
      BY <2>1, <2>2, <2>3, <3>1, TalkSave
    <3> QED BY <1>2, <3>2
  <2>4. CASE p = q
    <3> DEFINE N == seen'[q] \ (Talk!Rows(q)' \cup Blank)
    <3>1. N \subseteq Talk!In(q, deleted')
      BY <1>1, <1>3, <2>1, <2>2, <2>4, TalkSettles
    <3> HIDE DEF N
    <3>2. Cardinality(N) <= Cardinality(Talk!In(q, deleted'))
      BY <1>1, <3>1, FS_Subset
    <3> QED BY <3>2 DEF N
  <2> QED BY <2>3, <2>4
<1>4. ASSUME NEW p \in Posts, Talk!Nobody(p)
      PROVE  Cardinality(seen'[q] \ (Talk!Rows(q)' \cup Blank)) <= Cardinality(Talk!In(q, deleted'))
  <2>1. seen' = seen /\ q # p /\ thread'[q] = thread[q]
    BY <1>4, TalkNobody, TalkNobodyFetched
  <2> QED BY <1>2, <2>1
<1>5. ASSUME NEW p \in Posts, Talk!Skip(p)
      PROVE  Cardinality(seen'[q] \ (Talk!Rows(q)' \cup Blank)) <= Cardinality(Talk!In(q, deleted'))
  <2>1. /\ at = p /\ counter[p] > 0 /\ Talk!Unchanged(p)
        /\ UNCHANGED <<row, thread, live, deleted>>
        /\ seen' = [seen EXCEPT ![p] = Talk!In(p, tally)]
    BY <1>5 DEF Talk!Skip, Talk!Handle, Talk!tg, Talk!db
  <2>2. seen \in [Posts -> SUBSET Comments]
    BY DEF Talk!TypeOK
  <2>3. CASE p # q
    <3>1. seen'[q] = seen[q]
      BY <2>1, <2>2, <2>3
    <3> QED BY <1>2, <2>1, <3>1
  <2>4. CASE p = q
    <3>1. Fetched(q)
      BY <2>1 DEF Fetched, Talk!Settled
    <3>2. /\ prior[q] = thread[q] /\ TalkBase(q, tally) /\ tally \subseteq live \cup deleted
          /\ counter[q] = IF q \in Closed THEN -1 ELSE Cardinality(Talk!In(q, tally))
      BY <2>1, <2>4, <3>1, TalkPlaces DEF TalkRun
    <3>3. Cardinality(Talk!In(q, tally)) = thread[q].counter
      BY <2>1, <2>4, <3>2 DEF Talk!Unchanged
    <3>4. Cardinality(Talk!In(q, tally) \ (Talk!Rows(q) \cup Blank)) <= Cardinality(Talk!In(q, deleted))
      BY <3>2, <3>3, TalkMissed
    <3>5. Talk!Rows(q)' = Talk!Rows(q) /\ seen'[q] = Talk!In(q, tally) /\ deleted' = deleted
      BY <2>1, <2>2, <2>4 DEF Talk!Rows, Talk!In
    <3> QED BY <3>4, <3>5
  <2> QED BY <2>3, <2>4
<1>6. Talk!Count \/ Talk!Stop => UNCHANGED <<thread, seen>>
  BY DEF Talk!Count, Talk!Stop, Talk!db
<1> QED BY <1>2, <1>3, <1>4, <1>5, <1>6, TalkFrame

LEMMA TalkInitInv ==
  ASSUME Talk!ConstantsOK, Talk!Init
  PROVE  TalkIInv
<1> USE DEF Talk!Init
<1>1. Talk!NoThread \in Talk!Threads /\ Talk!NoThread.status = "none" /\ Talk!NoThread.stored = 0
  BY TalkNoThread
<1>2. MaxEdits \in Nat /\ Cardinality(Comments) \in Nat /\ Talk!Cardinality(Comments) = Cardinality(Comments)
  BY TalkSets, FS_CardinalityType DEF Talk!ConstantsOK
<1>3. Talk!NoRow \in [text : -1 .. MaxEdits, classified : BOOLEAN] /\ ~ Talk!NoRow.classified
  BY <1>2 DEF Talk!NoRow
<1>4. Talk!TypeOK
  <2>1. /\ row \in [Comments -> [text : -1 .. MaxEdits, classified : BOOLEAN]]
        /\ text \in [Comments -> 0 .. MaxEdits] /\ judged \in [Comments -> -1 .. MaxEdits]
    BY <1>2, <1>3
  <2>2. thread \in [Posts -> Talk!Threads] /\ prior \in [Posts -> Talk!Threads]
    BY <1>1
  <2>3. counter \in [Posts -> -1 .. Talk!Cardinality(Comments)]
    BY <1>2 DEF Talk!NoCounter
  <2> QED BY <2>1, <2>2, <2>3 DEF Talk!TypeOK
<1>5. \A p \in Posts : ~ Fetched(p) /\ thread[p].stored = 0
  BY <1>1 DEF Fetched
<1>6. Talk!MissedAtMostDeleted /\ TalkBased /\ TalkRun
  BY <1>5 DEF Talk!MissedAtMostDeleted, TalkBased, TalkRun, Fetched
<1>7. Talk!CountIsNotInflated
  <2>1. ASSUME NEW p \in Posts PROVE Cardinality(Talk!Rows(p)) \in Nat
    <3>1. IsFiniteSet(Comments) /\ Talk!Rows(p) \subseteq Comments
      BY <1>4, TalkTypes DEF Talk!Rows, Talk!In
    <3> QED BY <3>1, FS_Subset, FS_CardinalityType
  <2> QED BY <1>5, <2>1, TalkSets DEF Talk!CountIsNotInflated
<1>8. Talk!ClassifiedAsStored
  BY <1>3 DEF Talk!ClassifiedAsStored
<1> QED BY <1>4, <1>6, <1>7, <1>8 DEF TalkIInv

LEMMA TalkStepInv ==
  ASSUME Talk!ConstantsOK, TalkIInv, [Talk!Next]_(Talk!vars)
  PROVE  TalkIInv'
<1>1. CASE Talk!Next
  <2>1. Talk!TypeOK' /\ TalkRun' /\ TalkBased'
    BY <1>1, TalkStepTypes, TalkStepRun, TalkStepBased DEF TalkIInv
  <2>2. Talk!MissedAtMostDeleted'
    BY <1>1, TalkStepMissed
  <2>3. Talk!CountIsNotInflated' /\ Talk!ClassifiedAsStored'
    BY <1>1, TalkStepCount, TalkStepClassified DEF TalkIInv
  <2> QED BY <2>1, <2>2, <2>3 DEF TalkIInv
<1>2. CASE UNCHANGED Talk!vars
  <2> USE <1>2 DEF TalkIInv, Talk!vars, Talk!tg, Talk!db, Talk!local
  <2>1. Talk!TypeOK' /\ Talk!ClassifiedAsStored'
    BY DEF Talk!TypeOK, Talk!ClassifiedAsStored
  <2>2. Talk!MissedAtMostDeleted' /\ Talk!CountIsNotInflated'
    BY DEF Talk!MissedAtMostDeleted, Talk!CountIsNotInflated, Talk!Rows, Talk!In, Talk!Settled
  <2>3. TalkRun' /\ TalkBased'
    BY DEF TalkRun, TalkBased, TalkBase, Fetched, Talk!Settled, Talk!Rows, Talk!In
  <2> QED BY <2>1, <2>2, <2>3
<1> QED BY <1>1, <1>2

\* However counts, reads, failures and readers interleave: a settled thread misses
\* no more comments than were deleted in it, reports no more than it stored, and a
\* classified comment carries the text it was classified with.
THEOREM CommentsAreKept ==
  ASSUME Talk!ConstantsOK
  PROVE  Talk!Spec => [](Talk!TypeOK /\ Talk!MissedAtMostDeleted /\ Talk!CountIsNotInflated /\ Talk!ClassifiedAsStored)
<1>1. Talk!Init => TalkIInv
  BY TalkInitInv
<1>2. TalkIInv /\ [Talk!Next]_(Talk!vars) => TalkIInv'
  BY TalkStepInv
<1>3. TalkIInv => /\ Talk!TypeOK /\ Talk!MissedAtMostDeleted
                  /\ Talk!CountIsNotInflated /\ Talk!ClassifiedAsStored
  BY DEF TalkIInv
<1> QED BY <1>1, <1>2, <1>3, PTL DEF Talk!Spec

-----------------------------------------------------------------------------
(* The refresh of displayed posts: what was promised is in Telegram, then  *)
(* read, then stored.                                                      *)
CONSTANTS Channels, Others, Slots, MaxVersion
VARIABLES connected, lock, pc, tries, read

Refresh == INSTANCE SourceRefresh

RefreshTypes ==
    /\ DOMAIN pc = Channels
    /\ {tries, text, read, stored, since} \subseteq [Channels -> Int]
    /\ lock \in Channels \cup {Refresh!None}

\* Who connects holds the lock, and who holds it connects.
RefreshLock ==
    /\ \A c \in Channels : pc[c] = "connect" => lock = c
    /\ lock # Refresh!None => pc[lock] = "connect"

\* The request that is made again is the second one.
RefreshTries ==
    \A c \in Channels :
        /\ pc[c] = "queued" => tries[c] = 0
        /\ pc[c] # "ended" /\ pc[c] # "store" => 0 <= tries[c] /\ tries[c] <= 1
        /\ tries[c] <= 2

\* What was promised is in Telegram, then read, then stored.
RefreshText ==
    \A c \in Channels : since[c] = Refresh!GaveUp
        \/ /\ since[c] <= text[c]
           /\ pc[c] = "store" => since[c] <= read[c]
           /\ pc[c] = "ended" => since[c] <= stored[c]

RefreshIInv == RefreshTypes /\ RefreshLock /\ RefreshTries /\ RefreshText

-----------------------------------------------------------------------------
\* Where a task goes, and who holds the lock.
LEMMA RefreshStepLock ==
  ASSUME Refresh!ConstantsOK, RefreshTypes, RefreshLock, Refresh!RefreshNext
  PROVE  DOMAIN pc' = Channels /\ lock' \in Channels \cup {Refresh!None} /\ RefreshLock'
<1>1. DOMAIN pc = Channels /\ lock \in Channels \cup {Refresh!None} /\ Refresh!None \notin Channels
  BY DEF RefreshTypes, Refresh!ConstantsOK
<1>2. CASE UNCHANGED <<pc, lock>>
  BY <1>1, <1>2 DEF RefreshLock
<1>3. ASSUME NEW c \in Channels, NEW to, Refresh!Goes(c, to), to # "connect", pc[c] # "connect", lock' = lock
      PROVE  DOMAIN pc' = Channels /\ lock' \in Channels \cup {Refresh!None} /\ RefreshLock'
  BY <1>1, <1>3 DEF RefreshLock, Refresh!Goes
<1>4. ASSUME NEW c \in Channels,
             \/ Refresh!Begin(c) \/ Refresh!Ensured(c) \/ Refresh!Dropped(c) \/ Refresh!Answered(c)
             \/ Refresh!Fails(c) \/ Refresh!Store(c)
      PROVE  \E to : Refresh!Goes(c, to) /\ to # "connect" /\ pc[c] # "connect" /\ lock' = lock
  BY <1>4 DEF Refresh!Begin, Refresh!Ensured, Refresh!Dropped, Refresh!Answered, Refresh!Fails,
              Refresh!Store, Refresh!GivesUp
<1>5. ASSUME NEW c \in Channels, Refresh!Acquire(c)
      PROVE  DOMAIN pc' = Channels /\ lock' \in Channels \cup {Refresh!None} /\ RefreshLock'
  BY <1>1, <1>5 DEF RefreshLock, Refresh!Acquire, Refresh!Rechecked, Refresh!Goes
<1>6. ASSUME NEW c \in Channels, Refresh!Connect(c)
      PROVE  DOMAIN pc' = Channels /\ lock' \in Channels \cup {Refresh!None} /\ RefreshLock'
  <2>1. /\ pc[c] = "connect" /\ lock' = Refresh!None
        /\ pc' = [pc EXCEPT ![c] = "call"] \/ pc' = [pc EXCEPT ![c] = "ended"]
    BY <1>6 DEF Refresh!Connect, Refresh!Goes, Refresh!GivesUp
  <2>2. \A d \in Channels : pc'[d] # "connect"
    BY <1>1, <2>1 DEF RefreshLock
  <2> QED BY <1>1, <2>1, <2>2 DEF RefreshLock
<1>7. Refresh!Drop \/ Refresh!Back \/ (\E c \in Channels : Refresh!Edit(c)) => UNCHANGED <<pc, lock>>
  BY DEF Refresh!Drop, Refresh!Back, Refresh!Edit
<1> QED BY <1>2, <1>3, <1>4, <1>5, <1>6, <1>7 DEF Refresh!RefreshNext

\* How often a request is made, and what it brings.
LEMMA RefreshStepText ==
  ASSUME Refresh!ConstantsOK, RefreshTypes, RefreshTries, RefreshText, Refresh!RefreshNext
  PROVE  /\ {tries, text, read, stored, since}' \subseteq [Channels -> Int]
         /\ RefreshTries' /\ RefreshText'
<1>1. /\ DOMAIN pc = Channels /\ Refresh!GaveUp \in Int
      /\ tries \in [Channels -> Int] /\ text \in [Channels -> Int] /\ read \in [Channels -> Int]
      /\ stored \in [Channels -> Int] /\ since \in [Channels -> Int]
  BY DEF RefreshTypes, Refresh!ConstantsOK, Refresh!GaveUp
<1> USE DEF RefreshTries, RefreshText, Refresh!Goes, Refresh!GivesUp
<1>2. CASE UNCHANGED <<pc, tries, text, read, stored, since>>
  BY <1>1, <1>2
<1>3. ASSUME NEW c \in Channels, Refresh!Begin(c)
      PROVE  /\ {tries, text, read, stored, since}' \subseteq [Channels -> Int]
             /\ RefreshTries' /\ RefreshText'
  BY <1>1, <1>3 DEF Refresh!Begin
<1>4. ASSUME NEW c \in Channels, Refresh!Ensured(c) \/ Refresh!Dropped(c) \/ Refresh!Acquire(c)
      PROVE  /\ {tries, text, read, stored, since}' \subseteq [Channels -> Int]
             /\ RefreshTries' /\ RefreshText'
  BY <1>1, <1>4 DEF Refresh!Ensured, Refresh!Dropped, Refresh!Acquire, Refresh!Rechecked
<1>5. ASSUME NEW c \in Channels, Refresh!Connect(c)
      PROVE  /\ {tries, text, read, stored, since}' \subseteq [Channels -> Int]
             /\ RefreshTries' /\ RefreshText'
  BY <1>1, <1>5 DEF Refresh!Connect
<1>6. ASSUME NEW c \in Channels, Refresh!Answered(c)
      PROVE  /\ {tries, text, read, stored, since}' \subseteq [Channels -> Int]
             /\ RefreshTries' /\ RefreshText'
  BY <1>1, <1>6 DEF Refresh!Answered
<1>7. ASSUME NEW c \in Channels, Refresh!Fails(c)
      PROVE  /\ {tries, text, read, stored, since}' \subseteq [Channels -> Int]
             /\ RefreshTries' /\ RefreshText'
  BY <1>1, <1>7 DEF Refresh!Fails, Refresh!Again
<1>8. ASSUME NEW c \in Channels, Refresh!Store(c) \/ Refresh!Edit(c)
      PROVE  /\ {tries, text, read, stored, since}' \subseteq [Channels -> Int]
             /\ RefreshTries' /\ RefreshText'
  BY <1>1, <1>8 DEF Refresh!Store, Refresh!Edit
<1>9. Refresh!Drop \/ Refresh!Back => UNCHANGED <<pc, tries, text, read, stored, since>>
  BY DEF Refresh!Drop, Refresh!Back
<1> QED BY <1>2, <1>3, <1>4, <1>5, <1>6, <1>7, <1>8, <1>9 DEF Refresh!RefreshNext

LEMMA RefreshInitInv ==
  ASSUME Refresh!ConstantsOK, Refresh!Init
  PROVE  RefreshIInv
  BY DEF RefreshIInv, RefreshTypes, RefreshLock, RefreshTries, RefreshText, Refresh!Init,
         Refresh!ConstantsOK, Refresh!GaveUp, Refresh!None

LEMMA RefreshStepInv ==
  ASSUME Refresh!ConstantsOK, RefreshIInv, [Refresh!RefreshNext]_(Refresh!vars)
  PROVE  RefreshIInv'
<1>1. CASE Refresh!RefreshNext
  BY <1>1, RefreshStepLock, RefreshStepText DEF RefreshIInv, RefreshTypes
<1>2. CASE UNCHANGED Refresh!vars
  BY <1>2 DEF RefreshIInv, RefreshTypes, RefreshLock, RefreshTries, RefreshText, Refresh!vars
<1> QED BY <1>1, <1>2

\* One task at most connects, and holds the lock while it does; a request is made
\* twice at most; a refresh that did not give up stored a text no older than itself.
THEOREM RefreshedOnce ==
  ASSUME Refresh!ConstantsOK
  PROVE  Refresh!RefreshSpec => []Refresh!RefreshIsSafe
<1>1. Refresh!Init => RefreshIInv
  BY RefreshInitInv
<1>2. RefreshIInv /\ [Refresh!RefreshNext]_(Refresh!vars) => RefreshIInv'
  BY RefreshStepInv
<1>3. RefreshIInv => Refresh!RefreshIsSafe
  <2> SUFFICES ASSUME RefreshIInv PROVE Refresh!RefreshIsSafe
    OBVIOUS
  <2> DEFINE C == {c \in Channels : pc[c] = "connect"}
  <2>1. C \subseteq {lock}
    BY DEF RefreshIInv, RefreshLock
  <2>2. Refresh!Cardinality(C) <= 1
    <3>1. IsFiniteSet({lock}) /\ Cardinality({lock}) = 1
      BY FS_Singleton
    <3> HIDE DEF C
    <3>2. Cardinality(C) <= 1
      BY <2>1, <3>1, FS_Subset
    <3>3. Refresh!Cardinality(C) = Cardinality(C)
      BY DEF Refresh!Cardinality, Cardinality
    <3> QED BY <3>2, <3>3
  <2>3. Refresh!ConnectsOnce
    BY <2>2 DEF RefreshIInv, RefreshLock, RefreshTries, Refresh!ConnectsOnce
  <2>4. Refresh!RefreshIsCurrent
    <3> SUFFICES ASSUME NEW c \in Channels, pc[c] = "ended", since[c] # Refresh!GaveUp
                 PROVE  stored[c] >= since[c]
      BY DEF Refresh!RefreshIsCurrent
    <3> QED BY DEF RefreshIInv, RefreshText, RefreshTypes
  <2> QED BY <2>3, <2>4 DEF Refresh!RefreshIsSafe
<1> QED BY <1>1, <1>2, <1>3, PTL DEF Refresh!RefreshSpec

-----------------------------------------------------------------------------
(* The comments of one post.  What waits for proof is closed off by the    *)
(* messages of the thread (ProvenAreOfThread), everything that is answered *)
(* is looked up, queued or noted (LookedUp), and the newest messages are   *)
(* all of them when there are fewer than asked for.                        *)
CONSTANTS NumMessages, Textless, Limit, ParentLimit
VARIABLES to, top, access, rooted, raw, got, queue, visited, pending, issues, broken

Reader == INSTANCE ThreadReader

\* A message is of the thread by what f says of earlier ones.
Member(f, m) ==
    \/ top[m] = "root"
    \/ /\ top[m] = "none" /\ ~ to[m].foreign
       /\ to[m].id = Reader!Root \/ (to[m].id \in 1 .. m - 1 /\ f[to[m].id])

\* InThread is defined by recursion: what it says of a message is Member of itself.
LEMMA ThreadIsRecursive ==
    ASSUME NumMessages \in Nat
    PROVE  \A m \in Reader!Messages : Reader!InThread[m] = Member(Reader!InThread, m)
<1> DEFINE S == {n \in Nat : \E f : f = [m \in 1 .. n |-> Member(f, m)]}
<1>1. 0 \in S
    <2> DEFINE f == [m \in 1 .. 0 |-> TRUE]
    <2>1. f = [m \in 1 .. 0 |-> Member(f, m)]
        OBVIOUS
    <2> HIDE DEF f
    <2> QED BY <2>1
<1>2. ASSUME NEW n \in Nat, n \in S PROVE n + 1 \in S
    <2>1. PICK f : f = [m \in 1 .. n |-> Member(f, m)]
        BY <1>2
    <2> DEFINE g == [m \in 1 .. n + 1 |-> Member(f, m)]
    <2>2. \A m \in 1 .. n : g[m] = f[m]
        <3>1. \A m \in 1 .. n : f[m] = Member(f, m)
            BY <2>1
        <3>2. \A m \in 1 .. n : m \in 1 .. n + 1
            OBVIOUS
        <3> QED BY <3>1, <3>2
    <2>3. \A m \in 1 .. n + 1 : Member(f, m) = Member(g, m)
        <3> SUFFICES ASSUME NEW m \in 1 .. n + 1 PROVE Member(f, m) = Member(g, m)
            OBVIOUS
        <3>1. to[m].id \in 1 .. m - 1 => f[to[m].id] = g[to[m].id]
            <4>1. \A i \in 1 .. m - 1 : i \in 1 .. n
                OBVIOUS
            <4> HIDE DEF g
            <4> QED BY <2>2, <4>1
        <3> HIDE DEF g
        <3> QED BY <3>1 DEF Member
    <2>4. g = [m \in 1 .. n + 1 |-> Member(g, m)]
        <3> DEFINE h == [m \in 1 .. n + 1 |-> Member(g, m)]
        <3>1. \A m \in 1 .. n + 1 : g[m] = h[m]
            BY <2>3
        <3> QED BY <2>3
    <2> HIDE DEF g
    <2> QED BY <2>4
<1>3. Nat \subseteq S
    <2> HIDE DEF S
    <2> QED BY <1>1, <1>2, Induct
<1>4. \E f : f = [m \in Reader!Messages |-> Member(f, m)]
    BY <1>3 DEF Reader!Messages
<1>5. Reader!InThread = [m \in Reader!Messages |-> Member(Reader!InThread, m)]
    BY <1>4 DEF Reader!InThread, Member
<1> QED BY <1>5

ReaderWorld ==
    /\ to \in [Reader!Messages -> [id : Reader!NoOne .. NumMessages, foreign : BOOLEAN]]
    /\ \A m \in Reader!Messages : to[m].id < m
    /\ top \in [Reader!Messages -> {"root", "other", "none"}]

\* What the read holds, and that nobody but Resolve notes a message without text.
ReaderTypes ==
    /\ step \in {"discover", "read", "parents", "resolve", "done"}
    /\ rooted \in BOOLEAN /\ left \in Int
    /\ got \subseteq Reader!Messages
    /\ pending \subseteq 0 .. NumMessages
    /\ queue \in Seq(0 .. NumMessages)
    /\ step # "done" => \A i \in issues : i[2] # "nontext"
    /\ step = "parents" => broken = "no" /\ ParentLimit > 0
    /\ (step = "discover" \/ step = "read") =>
           queue = <<>> /\ visited = {} /\ pending = {} /\ issues = {} /\ broken = "no"

\* Until the end only messages of the thread are collected, and what waits for
\* proof may be of it.
ReaderKeeps ==
    /\ step # "done" => got \subseteq Reader!Thread
    /\ \A m \in pending : Reader!Plausible(m)

\* What a collected or waiting message answers was looked up or is in the queue,
\* and whatever was looked up is at hand, waits or has been noted.
LookedUp ==
    (step \in {"parents", "resolve"} /\ broken = "no" /\ ParentLimit > 0) =>
        /\ visited \subseteq got \cup Reader!RootId \cup pending \cup Reader!Ids(issues)
        /\ \A c \in got \cup pending :
               \/ Reader!Target(c) \in visited \cup {Reader!NoOne}
               \/ \E i \in 1 .. Len(queue) : queue[i] = Reader!Target(c)
        /\ step = "resolve" => queue = <<>>

\* A read that was not broken off has the newest comments.
WholeRead ==
    (step \in {"parents", "resolve", "done"} /\ broken = "no") =>
        /\ raw = Cardinality(Reader!Newest(Limit))
        /\ Reader!Newest(Limit) \ Textless \subseteq got

ReaderResult ==
    Reader!OnlyItsThread /\ Reader!ContextAccounted

ReaderInv == ReaderWorld /\ ReaderTypes /\ ReaderKeeps /\ LookedUp /\ WholeRead /\ ReaderResult

LEMMA ReaderCounts == \A S : Reader!Cardinality(S) = Cardinality(S)
BY DEF Reader!Cardinality, Reader!IsFiniteSet, Cardinality, IsFiniteSet

LEMMA ReaderStarts == Reader!ConstantsOK /\ Reader!ReaderInit => ReaderInv
<1> SUFFICES ASSUME Reader!ConstantsOK, Reader!ReaderInit PROVE ReaderInv
    OBVIOUS
<1>1. /\ to \in [Reader!Messages -> [id : Reader!NoOne .. NumMessages, foreign : BOOLEAN]]
      /\ \A m \in Reader!Messages : to[m].id < m
      /\ top \in [Reader!Messages -> {"root", "other", "none"}]
    BY DEF Reader!ReaderInit
<1>2. /\ step = "discover" /\ got = {} /\ queue = <<>> /\ visited = {}
      /\ left = ParentLimit /\ pending = {} /\ issues = {} /\ broken = "no"
    BY DEF Reader!ReaderInit
<1>5. rooted \in BOOLEAN
    BY DEF Reader!ReaderInit
<1>3. ReaderTypes
    <2>1. queue \in Seq(0 .. NumMessages)
        BY <1>2
    <2>2. left \in Int
        BY <1>2 DEF Reader!ConstantsOK
    <2> QED BY <1>2, <1>5, <2>1, <2>2 DEF ReaderTypes
<1>4. ReaderKeeps /\ LookedUp /\ WholeRead /\ ReaderResult
    BY <1>2
    DEF ReaderKeeps, LookedUp, WholeRead, ReaderResult, Reader!OnlyItsThread,
        Reader!ContextAccounted
<1> QED BY <1>1, <1>3, <1>4 DEF ReaderInv, ReaderWorld

\* The newest messages of the thread are of it, and they are all of it when
\* there are fewer than asked for.
LEMMA NewestOfThread ==
    ASSUME Reader!ConstantsOK
    PROVE  /\ \A n : Reader!Newest(n) \subseteq Reader!Thread
           /\ Reader!Thread \subseteq Reader!Messages
           /\ Cardinality(Reader!Newest(Limit)) < Limit => Reader!Newest(Limit) = Reader!Thread
<1> DEFINE S == Reader!Thread
           R == {p \in S \X S : p[1] > p[2]}
<1>1. /\ \A n : Reader!Newest(n) \subseteq S
      /\ S \subseteq Reader!Messages
    BY DEF Reader!Newest, Reader!Thread
<1>2. IsFiniteSet(S)
    <2>1. IsFiniteSet(1 .. NumMessages)
        BY FS_Interval DEF Reader!ConstantsOK
    <2> QED BY <1>1, <2>1, FS_Subset DEF Reader!Messages
<1>3. Orders(R, S)
    <2>1. \A m \in S : m \in Int
        BY <1>1 DEF Reader!Messages
    <2>2. \A a, b \in S : <<a, b>> \in R <=> a > b
        OBVIOUS
    <2> HIDE DEF R, S
    <2> QED BY <2>1, <2>2 DEF Orders
<1>4. Reader!Newest(Limit) = {m \in S : Rank(R, S, m) < Limit}
    <2>1. \A m \in S : {k \in S : k > m} = {k \in S : <<k, m>> \in R}
        OBVIOUS
    <2>2. \A m \in S : Reader!Cardinality({k \in S : k > m}) = Rank(R, S, m)
        BY <2>1, ReaderCounts DEF Rank
    <2> HIDE DEF R
    <2> QED BY <2>2 DEF Reader!Newest
<1>5. ASSUME Cardinality(Reader!Newest(Limit)) < Limit PROVE Reader!Newest(Limit) = S
    <2>1. Limit \in Nat /\ Cardinality(S) \in Nat
        BY <1>2, FS_CardinalityType DEF Reader!ConstantsOK
    <2> HIDE DEF R, S
    <2>2. /\ Limit <= Cardinality(S) => Cardinality({m \in S : Rank(R, S, m) < Limit}) = Limit
          /\ Limit >= Cardinality(S) => {m \in S : Rank(R, S, m) < Limit} = S
        BY <1>2, <1>3, <2>1, FirstOnes
    <2>3. Limit \in Int /\ Cardinality(S) \in Int
        BY <2>1
    <2> QED BY <1>4, <1>5, <2>2, <2>3
<1> QED BY <1>1, <1>5

\* A finite set of ordered elements is listed by InOrder.
LEMMA InOrderListing ==
    ASSUME NEW W, IsFiniteSet(W), NEW R, Orders(R, W),
           \A a, b \in W : <<a, b>> \in R <=> a < b
    PROVE  /\ Reader!InOrder(W) \in Seq(W)
           /\ \A w \in W : \E i \in 1 .. Len(Reader!InOrder(W)) : Reader!InOrder(W)[i] = w
<1> DEFINE n == Cardinality(W)
           L == Listing(R, W)
<1>1. Reader!InOrder(W) = L
    <2>1. \A x \in W : {y \in W : y < x} = {y \in W : <<y, x>> \in R}
        OBVIOUS
    <2>2. \A x \in W : Reader!Cardinality({y \in W : y < x}) = Rank(R, W, x)
        BY <2>1, ReaderCounts DEF Rank
    <2>3. \A i : (CHOOSE x \in W : Reader!Cardinality({y \in W : y < x}) = i - 1)
                     = (CHOOSE x \in W : Rank(R, W, x) = i - 1)
        BY <2>2
    <2> QED BY <2>3, ReaderCounts DEF Reader!InOrder, Listing
<1>2. n \in Nat /\ \A i \in 1 .. n : L[i] \in W
    BY ListsAll
<1>3. \A w \in W : \E i \in 1 .. n : L[i] = w
    BY ListsAll
<1>4. L \in Seq(W) /\ Len(L) = n
    <2> DEFINE Nth(i) == CHOOSE x \in W : Rank(R, W, x) = i - 1
    <2>1. L = [i \in 1 .. n |-> Nth(i)]
        BY DEF Listing
    <2> HIDE DEF Nth, L, n
    <2> QED BY <1>2, <2>1
<1> HIDE DEF L, n
<1> QED BY <1>1, <1>3, <1>4

LEMMA InOrderLists ==
    ASSUME NEW W, W \subseteq 0 .. NumMessages, NumMessages \in Nat
    PROVE  /\ Reader!InOrder(W) \in Seq(0 .. NumMessages)
           /\ \A w \in W : \E i \in 1 .. Len(Reader!InOrder(W)) : Reader!InOrder(W)[i] = w
<1> DEFINE R == {p \in W \X W : p[1] < p[2]}
<1>1. IsFiniteSet(W)
    <2>1. IsFiniteSet(0 .. NumMessages)
        BY FS_Interval
    <2> QED BY <2>1, FS_Subset
<1>2. \A a \in W : a \in Int
    OBVIOUS
<1>3. \A a, b \in W : <<a, b>> \in R <=> a < b
    OBVIOUS
<1>4. Orders(R, W)
    <2> HIDE DEF R
    <2> QED BY <1>2, <1>3 DEF Orders
<1> HIDE DEF R
<1>5. /\ Reader!InOrder(W) \in Seq(W)
      /\ \A w \in W : \E i \in 1 .. Len(Reader!InOrder(W)) : Reader!InOrder(W)[i] = w
    BY <1>1, <1>3, <1>4, InOrderListing
<1>6. ASSUME NEW q \in Seq(W) PROVE q \in Seq(0 .. NumMessages)
    <2>1. Len(q) \in Nat /\ q = [i \in 1 .. Len(q) |-> q[i]] /\ \A i \in 1 .. Len(q) : q[i] \in W
        OBVIOUS
    <2>2. \A i \in 1 .. Len(q) : q[i] \in 0 .. NumMessages
        BY <2>1
    <2> QED BY <2>1, <2>2
<1> QED BY <1>5, <1>6

-----------------------------------------------------------------------------
\* While the world stays, so does the thread.
LEMMA SameThread ==
    ASSUME UNCHANGED <<to, top>>
    PROVE  /\ Reader!Thread' = Reader!Thread
           /\ Reader!Newest(Limit)' = Reader!Newest(Limit)
           /\ \A m : Reader!Target(m)' = Reader!Target(m)
           /\ rooted' = rooted => \A m : Reader!Plausible(m)' = Reader!Plausible(m)
           /\ ReaderWorld => ReaderWorld'
<1>1. Reader!Thread' = Reader!Thread
    BY DEF Reader!Thread, Reader!InThread, Reader!Messages
<1>2. Reader!Newest(Limit)' = Reader!Newest(Limit)
    BY <1>1 DEF Reader!Newest
<1>3. \A m : Reader!Target(m)' = Reader!Target(m)
    BY DEF Reader!Target
<1>4. rooted' = rooted => \A m : Reader!Plausible(m)' = Reader!Plausible(m)
    BY DEF Reader!Plausible
<1>5. ReaderWorld => ReaderWorld'
    BY DEF ReaderWorld, Reader!Messages
<1> QED BY <1>1, <1>2, <1>3, <1>4, <1>5

\* One lemma per action.
LEMMA DiscoverFinds ==
    ASSUME Reader!ConstantsOK, ReaderInv, NEW a \in {"readable", "none", "unknown"}, NEW r \in BOOLEAN,
           Reader!Discover(a, r)
    PROVE  ReaderInv'
<1>1. /\ step = "discover" /\ step' = "read" /\ rooted' = r
      /\ UNCHANGED <<to, top, raw, got, queue, visited, left, pending, cut, issues, broken>>
    BY DEF Reader!Discover, Reader!world, Reader!found, Reader!search
<1>2. ReaderWorld' /\ ReaderTypes'
    BY <1>1 DEF ReaderInv, ReaderWorld, ReaderTypes, Reader!Messages
<1>3. pending = {} /\ pending' = {} /\ got' = got /\ Reader!Thread' = Reader!Thread /\ got \subseteq Reader!Thread
    <2>1. Reader!Thread' = Reader!Thread
        BY <1>1, SameThread
    <2> QED BY <1>1, <2>1 DEF ReaderInv, ReaderTypes, ReaderKeeps
<1>4. ReaderKeeps'
    BY <1>3 DEF ReaderKeeps
<1>5. LookedUp' /\ WholeRead' /\ ReaderResult'
    BY <1>1 DEF LookedUp, WholeRead, ReaderResult, Reader!OnlyItsThread, Reader!ContextAccounted
<1> QED BY <1>2, <1>4, <1>5 DEF ReaderInv

LEMMA ReadKeeps ==
    ASSUME Reader!ConstantsOK, ReaderInv, Reader!Read
    PROVE  ReaderInv'
<1> USE ReaderCounts
<1>1. /\ step = "read"
      /\ raw' = Cardinality(Reader!Newest(Limit)) /\ got' = Reader!Newest(Limit) \ Textless
      /\ UNCHANGED <<to, top, rooted, left, pending, issues, broken>>
      /\ \/ /\ ParentLimit > 0
            /\ queue' = Reader!InOrder(Reader!Wanted) /\ visited' = got' \cup Reader!RootId
            /\ step' = "parents"
         \/ /\ ~ ParentLimit > 0
            /\ UNCHANGED <<queue, visited>> /\ step' = "resolve"
    BY DEF Reader!Read, Reader!world, Reader!Kept
<1>2. /\ queue = <<>> /\ visited = {} /\ pending = {} /\ issues = {} /\ broken = "no"
    BY <1>1 DEF ReaderInv, ReaderTypes
<1>3. /\ Reader!Thread' = Reader!Thread /\ Reader!Newest(Limit)' = Reader!Newest(Limit)
      /\ (\A m : Reader!Target(m)' = Reader!Target(m)) /\ ReaderWorld'
    BY <1>1, SameThread DEF ReaderInv
<1>4. got' \subseteq Reader!Thread /\ got' \subseteq Reader!Messages
    BY <1>1, NewestOfThread
<1>5. \A c \in Reader!Messages : Reader!Target(c) \in Reader!NoOne .. NumMessages
    BY DEF ReaderInv, ReaderWorld, Reader!Target, Reader!Messages, Reader!Root
<1>6. Reader!Wanted \subseteq 0 .. NumMessages
    BY <1>4, <1>5 DEF Reader!Wanted, Reader!NoOne, Reader!ConstantsOK
<1>7. /\ Reader!InOrder(Reader!Wanted) \in Seq(0 .. NumMessages)
      /\ \A w \in Reader!Wanted : \E i \in 1 .. Len(Reader!InOrder(Reader!Wanted)) : Reader!InOrder(Reader!Wanted)[i] = w
    BY <1>6, InOrderLists DEF Reader!ConstantsOK
<1>8. ReaderTypes'
    BY <1>1, <1>2, <1>4, <1>7 DEF ReaderInv, ReaderTypes, Reader!Messages
<1>9. ReaderKeeps'
    BY <1>1, <1>2, <1>3, <1>4 DEF ReaderKeeps
<1>10. LookedUp'
    <2> SUFFICES ASSUME step' = "parents", ParentLimit > 0 PROVE LookedUp'
        BY <1>1 DEF LookedUp
    <2>1. queue' = Reader!InOrder(Reader!Wanted) /\ visited' = got' \cup Reader!RootId /\ Reader!RootId' = Reader!RootId
        BY <1>1 DEF Reader!RootId
    <2>2. ASSUME NEW c \in got'
          PROVE  \/ Reader!Target(c) \in visited' \cup {Reader!NoOne}
                 \/ \E i \in 1 .. Len(queue') : queue'[i] = Reader!Target(c)
        <3>1. CASE Reader!Target(c) \in Reader!Wanted
            BY <1>7, <2>1, <3>1
        <3>2. CASE Reader!Target(c) \notin Reader!Wanted
            <4>1. Reader!Target(c) = Reader!NoOne \/ Reader!Target(c) \in got' \cup Reader!RootId
                BY <3>2 DEF Reader!Wanted
            <4> QED BY <2>1, <4>1
        <3> QED BY <3>1, <3>2
    <2>3. pending' = {}
        BY <1>1, <1>2
    <2>4. visited' \subseteq (got \cup Reader!RootId)'
        BY <2>1
    <2>5. \A c \in got' : \/ Reader!Target(c)' \in (visited \cup {Reader!NoOne})'
                          \/ \E i \in 1 .. Len(queue') : queue'[i] = Reader!Target(c)'
        BY <1>3, <2>2 DEF Reader!NoOne
    <2> QED BY <2>3, <2>4, <2>5 DEF LookedUp
<1>11. WholeRead'
    BY <1>1, <1>3 DEF WholeRead
<1>12. ReaderResult'
    BY <1>1 DEF ReaderResult, Reader!OnlyItsThread, Reader!ContextAccounted
<1> QED BY <1>3, <1>8, <1>9, <1>10, <1>11, <1>12 DEF ReaderInv

LEMMA BreakKeeps ==
    ASSUME Reader!ConstantsOK, ReaderInv, NEW n \in 0 .. Limit, NEW how \in Reader!Errors,
           Reader!ReadBreaks(n, how)
    PROVE  ReaderInv'
<1>1. /\ step \in {"discover", "read"} /\ step' = "resolve" /\ broken' = how
      /\ got' = Reader!Newest(n) \ Textless
      /\ UNCHANGED <<to, top, rooted, queue, visited, left, pending, issues>>
    BY DEF Reader!ReadBreaks, Reader!world, Reader!Kept, Reader!search
<1>2. queue = <<>> /\ visited = {} /\ pending = {} /\ issues = {} /\ how # "no"
    BY <1>1 DEF ReaderInv, ReaderTypes, Reader!Errors
<1>3. Reader!Thread' = Reader!Thread /\ ReaderWorld'
    BY <1>1, SameThread DEF ReaderInv
<1>4. got' \subseteq Reader!Thread /\ got' \subseteq Reader!Messages
    BY <1>1, NewestOfThread
<1>5. ReaderTypes'
    BY <1>1, <1>2, <1>4 DEF ReaderInv, ReaderTypes, Reader!Messages
<1>6. ReaderKeeps'
    BY <1>1, <1>2, <1>3, <1>4 DEF ReaderKeeps
<1>7. LookedUp' /\ WholeRead' /\ ReaderResult'
    BY <1>1, <1>2
    DEF LookedUp, WholeRead, ReaderResult, Reader!OnlyItsThread, Reader!ContextAccounted
<1> QED BY <1>3, <1>5, <1>6, <1>7 DEF ReaderInv

\* What the search leaves alone, it keeps.
Searching ==
    /\ step \in {"parents", "resolve"}
    /\ step' \in {"parents", "resolve"}
    /\ UNCHANGED <<to, top, rooted, raw, got>>
    /\ broken = "no" /\ broken' \in {"no"} \cup Reader!Errors

LEMMA SearchKeeps ==
    ASSUME ReaderInv, Searching, pending \subseteq pending',
           \A m \in pending' \ pending : Reader!Plausible(m)
    PROVE  /\ ReaderWorld' /\ ReaderKeeps' /\ WholeRead' /\ ReaderResult'
           /\ \A m : Reader!Target(m)' = Reader!Target(m)
           /\ Reader!RootId' = Reader!RootId
<1>1. /\ step \in {"parents", "resolve"} /\ step' \in {"parents", "resolve"} /\ broken = "no"
      /\ UNCHANGED <<to, top, rooted, raw, got>>
    BY DEF Searching
<1>2. /\ Reader!Thread' = Reader!Thread /\ Reader!Newest(Limit)' = Reader!Newest(Limit)
      /\ \A m : Reader!Target(m)' = Reader!Target(m) /\ Reader!Plausible(m)' = Reader!Plausible(m)
      /\ ReaderWorld'
    BY <1>1, SameThread DEF ReaderInv
<1>3. ReaderKeeps'
    BY <1>1, <1>2 DEF ReaderInv, ReaderKeeps
<1>4. WholeRead' /\ ReaderResult'
    BY <1>1, <1>2
    DEF ReaderInv, WholeRead, ReaderResult, Reader!OnlyItsThread, Reader!ContextAccounted
<1>5. Reader!RootId' = Reader!RootId
    BY <1>1 DEF Reader!RootId
<1> QED BY <1>2, <1>3, <1>4, <1>5

\* A head taken from the queue leaves the rest of it.
LEMMA HeadAndTail ==
    ASSUME NEW T, NEW q \in Seq(T), q # <<>>
    PROVE  /\ Head(q) \in T /\ Tail(q) \in Seq(T)
           /\ \A i \in 1 .. Len(q) : q[i] = Head(q) \/ \E j \in 1 .. Len(Tail(q)) : Tail(q)[j] = q[i]
<1>1. Head(q) \in T /\ Tail(q) \in Seq(T)
    OBVIOUS
<1>2. ASSUME NEW i \in 1 .. Len(q), i # 1 PROVE i - 1 \in 1 .. Len(Tail(q)) /\ Tail(q)[i - 1] = q[i]
    BY <1>2
<1>3. Head(q) = q[1]
    OBVIOUS
<1> QED BY <1>1, <1>2, <1>3

\* What LookedUp says survives when the head of the queue is looked up, and
\* what it answers, if it waits, is queued or known.
LEMMA LookUp ==
    ASSUME ReaderInv, Searching, step = "parents", queue # <<>>, step' = "parents", broken' = "no", ParentLimit > 0,
           visited' = visited \cup {Head(queue)}, issues \subseteq issues',
           pending \subseteq pending', pending' \subseteq pending \cup {Head(queue)},
           \A m \in pending' \ pending : Reader!Plausible(m),
           Head(queue) \in got \cup Reader!RootId \cup pending' \cup Reader!Ids(issues'),
           \/ /\ queue' = Tail(queue)
              /\ Head(queue) \in pending' \ pending =>
                     Reader!Target(Head(queue)) \in visited' \cup {Reader!NoOne}
           \/ queue' = Append(Tail(queue), Reader!Target(Head(queue)))
    PROVE  LookedUp'
<1>1. /\ visited \subseteq got \cup Reader!RootId \cup pending \cup Reader!Ids(issues)
      /\ \A c \in got \cup pending :
             \/ Reader!Target(c) \in visited \cup {Reader!NoOne}
             \/ \E i \in 1 .. Len(queue) : queue[i] = Reader!Target(c)
      /\ queue \in Seq(0 .. NumMessages)
    BY DEF ReaderInv, LookedUp, Searching, ReaderTypes
<1>2. /\ \A m : Reader!Target(m)' = Reader!Target(m)
      /\ Reader!RootId' = Reader!RootId /\ got' = got
    BY SearchKeeps DEF Searching
<1>3. Reader!Ids(issues) \subseteq Reader!Ids(issues')
    BY DEF Reader!Ids
<1>4. visited' \subseteq got' \cup Reader!RootId \cup pending' \cup Reader!Ids(issues')
    BY <1>1, <1>2, <1>3
<1> DEFINE rest == Tail(queue)
           head == Head(queue)
<1>5. /\ rest \in Seq(0 .. NumMessages)
      /\ \A i \in 1 .. Len(queue) : queue[i] = head \/ \E j \in 1 .. Len(rest) : rest[j] = queue[i]
    BY <1>1, HeadAndTail
<1>6. /\ queue' = rest \/ queue' = Append(rest, Reader!Target(head))
      /\ head \in pending' \ pending =>
             \/ Reader!Target(head) \in visited' \cup {Reader!NoOne}
             \/ queue' = Append(rest, Reader!Target(head))
    OBVIOUS
<1>7. visited' = visited \cup {head} /\ pending' \subseteq pending \cup {head}
    OBVIOUS
<1> HIDE DEF rest, head
<1>8. \A j \in 1 .. Len(rest) : \E i \in 1 .. Len(queue') : queue'[i] = rest[j]
    <2>1. CASE queue' = rest
        BY <2>1
    <2>2. CASE queue' = Append(rest, Reader!Target(head))
        <3>1. \A j \in 1 .. Len(rest) : j \in 1 .. Len(queue') /\ queue'[j] = rest[j]
            BY <1>5, <2>2
        <3> QED BY <3>1
    <2> QED BY <1>6, <2>1, <2>2
<1>9. ASSUME NEW c \in got' \cup pending'
      PROVE  \/ Reader!Target(c) \in visited' \cup {Reader!NoOne}
             \/ \E i \in 1 .. Len(queue') : queue'[i] = Reader!Target(c)
    <2>1. CASE c \in got \cup pending
        <3>1. CASE Reader!Target(c) \in visited \cup {Reader!NoOne}
            BY <1>7, <3>1
        <3>2. CASE \E i \in 1 .. Len(queue) : queue[i] = Reader!Target(c)
            <4>1. PICK i \in 1 .. Len(queue) : queue[i] = Reader!Target(c)
                BY <3>2
            <4>2. queue[i] = head \/ \E j \in 1 .. Len(rest) : rest[j] = queue[i]
                BY <1>5
            <4> QED BY <1>7, <1>8, <4>1, <4>2
        <3> QED BY <1>1, <2>1, <3>1, <3>2
    <2>2. CASE c \notin got \cup pending
        <3>1. c = head /\ head \in pending' \ pending
            BY <1>2, <1>7, <2>2
        <3>2. CASE queue' = Append(rest, Reader!Target(head))
            <4>1. Len(queue') = Len(rest) + 1 /\ queue'[Len(rest) + 1] = Reader!Target(head)
                BY <1>5, <3>2
            <4>2. Len(rest) + 1 \in 1 .. Len(rest) + 1
                BY <1>5
            <4> QED BY <3>1, <4>1, <4>2
        <3> QED BY <1>6, <3>1, <3>2
    <2> QED BY <2>1, <2>2
<1>10. /\ visited' \subseteq (got \cup Reader!RootId \cup pending \cup Reader!Ids(issues))'
       /\ \A c \in got' \cup pending' :
              \/ Reader!Target(c)' \in (visited \cup {Reader!NoOne})'
              \/ \E i \in 1 .. Len(queue') : queue'[i] = Reader!Target(c)'
    <2>1. Reader!Ids(issues)' = Reader!Ids(issues') /\ Reader!NoOne' = Reader!NoOne
        BY DEF Reader!Ids, Reader!NoOne
    <2> QED BY <1>2, <1>4, <1>9, <2>1
<1> QED BY <1>10 DEF LookedUp

\* A reason is noted with its message.
LEMMA Noting ==
    ASSUME NEW x, NEW r, r # "nontext", issues' = issues \cup {<<x, r>>}
    PROVE  /\ issues \subseteq issues'
           /\ x \in Reader!Ids(issues')
           /\ (\A i \in issues : i[2] # "nontext") => \A i \in issues' : i[2] # "nontext"
<1>1. <<x, r>> \in issues' /\ <<x, r>>[1] = x /\ <<x, r>>[2] = r
    OBVIOUS
<1>2. x \in Reader!Ids(issues')
    BY <1>1 DEF Reader!Ids
<1>3. \A i \in issues' : i \in issues \/ i = <<x, r>>
    OBVIOUS
<1>4. (\A i \in issues : i[2] # "nontext") => \A i \in issues' : i[2] # "nontext"
    BY <1>1, <1>3
<1> QED BY <1>2, <1>4

LEMMA PassKeeps ==
    ASSUME Reader!ConstantsOK, ReaderInv, Reader!PassParent
    PROVE  ReaderInv'
<1>1. /\ step = "parents" /\ queue # <<>> /\ queue' = Tail(queue)
      /\ UNCHANGED <<to, top, step, rooted, raw, got, left, pending, broken>>
      /\ \/ Head(queue) \in visited /\ visited' = visited /\ issues' = issues
         \/ /\ visited' = visited \cup {Head(queue)}
            /\ issues' = issues \cup {<<Head(queue), "unverified">>}
         \/ /\ visited' = visited \cup {Head(queue)}
            /\ issues' = issues \cup {<<Head(queue), "budget">>}
    BY DEF Reader!PassParent, Reader!world, Reader!found, Reader!Noted
<1>2. broken = "no" /\ ParentLimit > 0 /\ Searching
    BY <1>1 DEF ReaderInv, ReaderTypes, Searching
<1>3. /\ visited' = visited \cup {Head(queue)} /\ issues \subseteq issues'
      /\ Head(queue) \in got \cup Reader!RootId \cup pending' \cup Reader!Ids(issues')
    <2>1. CASE Head(queue) \in visited /\ visited' = visited /\ issues' = issues
        <3>1. visited \subseteq got \cup Reader!RootId \cup pending \cup Reader!Ids(issues)
            BY <1>1, <1>2 DEF ReaderInv, LookedUp
        <3> QED BY <1>1, <2>1, <3>1
    <2>2. CASE visited' = visited \cup {Head(queue)} /\ issues' = issues \cup {<<Head(queue), "unverified">>}
        BY <2>2, Noting
    <2>3. CASE visited' = visited \cup {Head(queue)} /\ issues' = issues \cup {<<Head(queue), "budget">>}
        BY <2>3, Noting
    <2> QED BY <1>1, <2>1, <2>2, <2>3
<1>4. LookedUp'
    BY <1>1, <1>2, <1>3, LookUp
<1>5. ReaderWorld' /\ ReaderKeeps' /\ WholeRead' /\ ReaderResult'
    BY <1>1, <1>2, SearchKeeps
<1>6. ReaderTypes'
    <2>1. queue' \in Seq(0 .. NumMessages)
        BY <1>1, HeadAndTail DEF ReaderInv, ReaderTypes
    <2>2. \A i \in issues' : i[2] # "nontext"
        <3>1. \A i \in issues : i[2] # "nontext"
            BY <1>1 DEF ReaderInv, ReaderTypes
        <3> QED BY <1>1, <3>1, Noting
    <2> QED BY <1>1, <2>1, <2>2 DEF ReaderInv, ReaderTypes, Reader!Messages
<1> QED BY <1>4, <1>5, <1>6 DEF ReaderInv

LEMMA AskKeeps ==
    ASSUME Reader!ConstantsOK, ReaderInv, Reader!AskParent
    PROVE  ReaderInv'
<1> DEFINE pid == Head(queue)
<1>1. /\ step = "parents" /\ queue # <<>> /\ visited' = visited \cup {pid} /\ left' = left - 1
      /\ UNCHANGED <<to, top, step, rooted, raw, got, broken>>
      /\ \/ /\ issues' = issues \cup {<<pid, "not_returned">>} /\ queue' = Tail(queue) /\ pending' = pending
         \/ /\ issues' = issues \cup {<<pid, "unverified">>} /\ queue' = Tail(queue) /\ pending' = pending
         \/ /\ Reader!Plausible(pid) /\ pending' = pending \cup {pid} /\ issues' = issues
            /\ queue' = IF Reader!Target(pid) \notin visited' \cup {Reader!NoOne}
                        THEN Append(Tail(queue), Reader!Target(pid)) ELSE Tail(queue)
    BY DEF Reader!AskParent, Reader!Askable, Reader!world, Reader!found, Reader!Noted
<1>2. broken = "no" /\ ParentLimit > 0 /\ Searching
    BY <1>1 DEF ReaderInv, ReaderTypes, Searching
<1>3. /\ pid \in 0 .. NumMessages /\ Tail(queue) \in Seq(0 .. NumMessages)
      /\ queue \in Seq(0 .. NumMessages)
    BY <1>1, HeadAndTail DEF ReaderInv, ReaderTypes
<1>4. Reader!Target(pid) \in Reader!NoOne .. NumMessages
    <2> HIDE DEF pid
    <2>1. pid # 0 => to[pid].id \in Reader!NoOne .. NumMessages
        BY <1>3 DEF ReaderInv, ReaderWorld, Reader!Messages
    <2> QED BY <2>1 DEF Reader!Target, Reader!Root, Reader!NoOne, Reader!ConstantsOK
<1>5. /\ issues \subseteq issues' /\ pending \subseteq pending' /\ pending' \subseteq pending \cup {pid}
      /\ pid \in got \cup Reader!RootId \cup pending' \cup Reader!Ids(issues')
      /\ \A m \in pending' \ pending : Reader!Plausible(m)
      /\ \A i \in issues' : i[2] # "nontext"
    <2>1. \A i \in issues : i[2] # "nontext"
        BY <1>1 DEF ReaderInv, ReaderTypes
    <2>2. CASE issues' = issues \cup {<<pid, "not_returned">>} /\ pending' = pending
        BY <2>1, <2>2, Noting
    <2>3. CASE issues' = issues \cup {<<pid, "unverified">>} /\ pending' = pending
        BY <2>1, <2>3, Noting
    <2>4. CASE issues' = issues /\ Reader!Plausible(pid) /\ pending' = pending \cup {pid}
        BY <2>1, <2>4
    <2> QED BY <1>1, <2>2, <2>3, <2>4
<1>6. \/ /\ queue' = Tail(queue)
         /\ pid \in pending' \ pending => Reader!Target(pid) \in visited' \cup {Reader!NoOne}
      \/ queue' = Append(Tail(queue), Reader!Target(pid)) /\ Reader!Target(pid) \in 0 .. NumMessages
    <2>1. Reader!Target(pid) \notin visited' \cup {Reader!NoOne} => Reader!Target(pid) \in 0 .. NumMessages
        BY <1>4 DEF Reader!NoOne, Reader!ConstantsOK
    <2> QED BY <1>1, <2>1
<1> HIDE DEF pid
<1>7. LookedUp'
    <2> USE DEF pid
    <2> QED BY <1>1, <1>2, <1>5, <1>6, LookUp
<1>8. ReaderWorld' /\ ReaderKeeps' /\ WholeRead' /\ ReaderResult'
    BY <1>2, <1>5, SearchKeeps
<1>9. ReaderTypes'
    <2> DEFINE tail == Tail(queue)
               next == Reader!Target(pid)
    <2>1. queue' \in Seq(0 .. NumMessages)
        <3>1. tail \in Seq(0 .. NumMessages) /\ (queue' = tail \/ (queue' = Append(tail, next) /\ next \in 0 .. NumMessages))
            BY <1>3, <1>6
        <3> HIDE DEF tail, next
        <3>2. ASSUME queue' = tail PROVE queue' \in Seq(0 .. NumMessages)
            BY <3>1, <3>2
        <3>3. ASSUME queue' = Append(tail, next), next \in 0 .. NumMessages PROVE queue' \in Seq(0 .. NumMessages)
            <4>1. Append(tail, next) \in Seq(0 .. NumMessages)
                BY <3>1, <3>3
            <4> QED BY <3>3, <4>1
        <3> QED BY <3>1, <3>2, <3>3
    <2>2. pending' \subseteq 0 .. NumMessages /\ left' \in Int
        <3>1. pending \subseteq 0 .. NumMessages /\ left \in Int
            BY DEF ReaderInv, ReaderTypes
        <3> QED BY <1>1, <1>3, <1>5, <3>1
    <2>3. step' = "parents" /\ got' = got /\ rooted' = rooted /\ broken' = "no"
        BY <1>1, <1>2
    <2>4. rooted \in BOOLEAN /\ got \subseteq Reader!Messages
        BY DEF ReaderInv, ReaderTypes
    <2> QED BY <1>2, <1>5, <2>1, <2>2, <2>3, <2>4 DEF ReaderTypes, Reader!Messages
<1> QED BY <1>7, <1>8, <1>9 DEF ReaderInv

LEMMA AskFailKeeps ==
    ASSUME Reader!ConstantsOK, ReaderInv, NEW how \in {"flood", "error", "cancelled"}, Reader!AskFails(how)
    PROVE  ReaderInv'
<1>1. /\ step = "parents" /\ queue # <<>> /\ visited' = visited \cup {Head(queue)} /\ left' = left - 1
      /\ UNCHANGED <<to, top, rooted, raw, got, pending>>
      /\ issues' = issues \cup {<<Head(queue), "fetch_error">>} \/ (how = "cancelled" /\ issues' = issues)
      /\ \/ how = "error" /\ queue' = Tail(queue) /\ broken' = broken /\ step' = step
         \/ how # "error" /\ broken' = how /\ step' = "resolve" /\ queue' = queue
    BY DEF Reader!AskFails, Reader!Askable, Reader!world, Reader!found, Reader!Noted
<1>2. broken = "no" /\ ParentLimit > 0 /\ Searching
    BY <1>1 DEF ReaderInv, ReaderTypes, Searching, Reader!Errors
<1>3. LookedUp'
    <2>1. CASE how = "error" /\ queue' = Tail(queue) /\ broken' = broken /\ step' = step
        <3>1. issues' = issues \cup {<<Head(queue), "fetch_error">>}
            BY <1>1, <2>1
        <3>2. issues \subseteq issues' /\ Head(queue) \in Reader!Ids(issues')
            BY <3>1, Noting
        <3> QED BY <1>1, <1>2, <2>1, <3>2, LookUp
    <2>2. CASE how # "error" /\ broken' = how
        BY <2>2 DEF LookedUp
    <2> QED BY <1>1, <2>1, <2>2
<1>4. ReaderWorld' /\ ReaderKeeps' /\ WholeRead' /\ ReaderResult'
    BY <1>1, <1>2, SearchKeeps
<1>5. ReaderTypes'
    <2>1. queue' \in Seq(0 .. NumMessages)
        BY <1>1, HeadAndTail DEF ReaderInv, ReaderTypes
    <2>2. \A i \in issues' : i[2] # "nontext"
        <3>1. \A i \in issues : i[2] # "nontext"
            BY <1>1 DEF ReaderInv, ReaderTypes
        <3> QED BY <1>1, <3>1, Noting
    <2>3. left' \in Int /\ rooted' \in BOOLEAN /\ got' \subseteq Reader!Messages /\ pending' \subseteq 0 .. NumMessages
        BY <1>1 DEF ReaderInv, ReaderTypes
    <2>4. step' \in {"parents", "resolve"} /\ (step' = "parents" => broken' = "no")
        BY <1>1, <1>2
    <2> QED BY <1>2, <2>1, <2>2, <2>3, <2>4 DEF ReaderTypes, Reader!Messages
<1> QED BY <1>3, <1>4, <1>5 DEF ReaderInv

LEMMA AskedAllKeeps ==
    ASSUME Reader!ConstantsOK, ReaderInv, Reader!AskedAll
    PROVE  ReaderInv'
<1>1. /\ step = "parents" /\ queue = <<>> /\ step' = "resolve"
      /\ UNCHANGED <<to, top, rooted, raw, got, queue, visited, left, pending, issues, broken>>
    BY DEF Reader!AskedAll, Reader!world, Reader!found, Reader!search
<1>2. broken = "no" /\ Searching
    BY <1>1 DEF ReaderInv, ReaderTypes, Searching
<1>3. /\ ReaderWorld' /\ ReaderKeeps' /\ WholeRead' /\ ReaderResult'
      /\ \A m : Reader!Target(m)' = Reader!Target(m)
      /\ Reader!RootId' = Reader!RootId
    BY <1>1, <1>2, SearchKeeps
<1>4. ReaderTypes'
    BY <1>1 DEF ReaderInv, ReaderTypes, Reader!Messages
<1>5. LookedUp'
    BY <1>1, <1>2, <1>3 DEF ReaderInv, LookedUp, Reader!Ids, Reader!NoOne
<1> QED BY <1>3, <1>4, <1>5 DEF ReaderInv

\* What is proven to be of the thread is, once discovery has named its root.
LEMMA ProvenAreOfThread ==
    ASSUME Reader!ConstantsOK, ReaderInv, rooted, got \subseteq Reader!Thread
    PROVE  Reader!Proven \subseteq Reader!Thread
<1> DEFINE S == {m \in pending : m \in Reader!Thread}
<1>1. \A m \in Reader!Messages : m \in Reader!Thread <=> Member(Reader!InThread, m)
    BY ThreadIsRecursive DEF Reader!Thread, Reader!ConstantsOK
<1>2. ASSUME NEW m \in pending, Reader!Belongs(m, got \cup S) PROVE m \in S
    <2>1. m # 0 /\ m \in Reader!Messages
        BY <1>2
        DEF ReaderInv, ReaderTypes, Reader!Belongs, Reader!Root, Reader!Messages,
            Reader!ConstantsOK
    <2>2. CASE top[m] # "none"
        <3>1. top[m] = "root"
            BY <1>2, <2>2 DEF Reader!Belongs
        <3>2. m \in Reader!Thread
            BY <1>1, <2>1, <3>1 DEF Member
        <3> QED BY <3>2
    <2>3. CASE top[m] = "none"
        <3>1. to[m].id = Reader!Root \/ to[m].id \in got \cup S
            BY <1>2, <2>1, <2>3 DEF Reader!Belongs, Reader!Target, Reader!Root
        <3>2. ~ to[m].foreign
            BY <2>1 DEF ReaderInv, ReaderKeeps, Reader!Plausible, Reader!Root
        <3>3. to[m].id \in Reader!Thread => to[m].id \in 1 .. m - 1 /\ Reader!InThread[to[m].id]
            <4>1. to[m].id < m /\ m \in Int
                BY <2>1 DEF ReaderInv, ReaderWorld, Reader!Messages
            <4>2. to[m].id \in Reader!Thread => to[m].id \in 1 .. NumMessages /\ Reader!InThread[to[m].id]
                BY DEF Reader!Thread, Reader!Messages
            <4> QED BY <4>1, <4>2 DEF Reader!ConstantsOK
        <3>4. Member(Reader!InThread, m)
            BY <2>3, <3>1, <3>2, <3>3 DEF Member
        <3> QED BY <1>1, <2>1, <3>4
    <2> QED BY <2>2, <2>3
<1>3. Reader!Closed(S) /\ S \in SUBSET pending
    BY <1>2 DEF Reader!Closed
<1> HIDE DEF S
<1>4. Reader!Proven \subseteq S
    BY <1>3 DEF Reader!Proven
<1> QED BY <1>4 DEF S

\* The root is never taken for a comment.
LEMMA RootIsNotProven ==
    ASSUME Reader!ConstantsOK, ReaderInv
    PROVE  Reader!Proven \subseteq Reader!Messages
<1> DEFINE S == {m \in pending : m # Reader!Root}
<1>1. Reader!Closed(S) /\ S \in SUBSET pending
    BY DEF Reader!Closed, Reader!Belongs
<1>2. S \subseteq Reader!Messages
    <2>1. pending \subseteq 0 .. NumMessages
        BY DEF ReaderInv, ReaderTypes
    <2>2. \A m \in 0 .. NumMessages : m # 0 => m \in 1 .. NumMessages
        BY DEF Reader!ConstantsOK
    <2> QED BY <2>1, <2>2 DEF Reader!Root, Reader!Messages
<1> HIDE DEF S
<1> QED BY <1>1, <1>2 DEF Reader!Proven

\* A reason given at the end is a reported parent, unless the parent is there.
LEMMA Reported ==
    ASSUME NEW I, NEW x, NEW i \in I, i[1] = x, i[2] # "nontext"
    PROVE  x \in Reader!Ids({j \in I : j[2] # "nontext"})
BY DEF Reader!Ids

LEMMA ResolveKeeps ==
    ASSUME Reader!ConstantsOK, ReaderInv, Reader!Resolve
    PROVE  ReaderInv'
<1> DEFINE new == got \cup Reader!Proven
<1>1. /\ step = "resolve" /\ step' = "done" /\ got' = new /\ pending' = {}
      /\ issues \subseteq issues'
      /\ \A m \in pending \ Reader!Proven : <<m, "unverified">> \in issues'
      /\ broken # "no" => \A m \in Reader!Unanswered \ Reader!Ids(issues) : <<m, "fetch_error">> \in issues'
      /\ UNCHANGED <<to, top, rooted, raw, queue, visited, left, broken>>
    BY DEF Reader!Resolve, Reader!world
<1>2. /\ Reader!Thread' = Reader!Thread /\ Reader!Newest(Limit)' = Reader!Newest(Limit)
      /\ (\A m : Reader!Target(m)' = Reader!Target(m)) /\ ReaderWorld'
    BY <1>1, SameThread DEF ReaderInv
<1>3. Reader!Proven \subseteq pending
    BY DEF Reader!Proven
<1>4. got \subseteq Reader!Thread /\ got \subseteq Reader!Messages
    BY <1>1 DEF ReaderInv, ReaderKeeps, ReaderTypes
<1>5. ReaderTypes'
    <2>1. new \subseteq Reader!Messages
        BY <1>4, RootIsNotProven
    <2> QED BY <1>1, <2>1 DEF ReaderInv, ReaderTypes, Reader!Messages
<1>6. ReaderKeeps'
    BY <1>1 DEF ReaderKeeps
<1>7. LookedUp'
    BY <1>1 DEF LookedUp
<1>8. WholeRead'
    BY <1>1, <1>2 DEF ReaderInv, WholeRead
<1>9. Reader!OnlyItsThread'
    <2>1. rooted => Reader!Proven \subseteq Reader!Thread
        BY <1>4, ProvenAreOfThread
    <2> QED BY <1>1, <1>2, <1>4, <2>1 DEF Reader!OnlyItsThread
<1>10. ASSUME ParentLimit > 0 \/ broken # "no", NEW c \in new
       PROVE  \/ Reader!Target(c) \in new \cup Reader!RootId \cup {Reader!NoOne}
              \/ \E i \in issues' : i[1] = Reader!Target(c) /\ i[2] # "nontext"
    <2> DEFINE t == Reader!Target(c)
    <2>1. \A i \in issues : i \in issues' /\ i[2] # "nontext"
        BY <1>1 DEF ReaderInv, ReaderTypes
    <2>2. t \in Reader!Ids(issues) => \E i \in issues' : i[1] = t /\ i[2] # "nontext"
        <3> HIDE DEF t
        <3> QED BY <2>1 DEF Reader!Ids
    <2>3. CASE broken # "no"
        <3>1. t \in new \cup Reader!RootId \cup {Reader!NoOne} \/ t \in Reader!Unanswered
            BY DEF Reader!Unanswered
        <3>2. CASE t \in Reader!Unanswered /\ t \notin Reader!Ids(issues)
            <4>1. <<t, "fetch_error">> \in issues'
                BY <1>1, <2>3, <3>2
            <4>2. <<t, "fetch_error">>[1] = t /\ <<t, "fetch_error">>[2] # "nontext"
                OBVIOUS
            <4> QED BY <4>1, <4>2
        <3> QED BY <2>2, <3>1, <3>2
    <2>4. CASE broken = "no"
        <3>1. /\ visited \subseteq got \cup Reader!RootId \cup pending \cup Reader!Ids(issues)
              /\ t \in visited \cup {Reader!NoOne}
            <4>1. /\ visited \subseteq got \cup Reader!RootId \cup pending \cup Reader!Ids(issues)
                  /\ \/ t \in visited \cup {Reader!NoOne}
                     \/ \E i \in 1 .. Len(queue) : queue[i] = t
                  /\ queue = <<>>
                BY <1>1, <1>3, <1>10, <2>4 DEF ReaderInv, LookedUp
            <4>2. 1 .. Len(queue) = {}
                BY <4>1
            <4> QED BY <4>1, <4>2
        <3>2. CASE t \in pending \ Reader!Proven
            <4>1. <<t, "unverified">> \in issues'
                BY <1>1, <3>2
            <4>2. <<t, "unverified">>[1] = t /\ <<t, "unverified">>[2] # "nontext"
                OBVIOUS
            <4> QED BY <4>1, <4>2
        <3>3. \/ t \in new \cup Reader!RootId \cup {Reader!NoOne}
              \/ t \in pending \ Reader!Proven
              \/ t \in Reader!Ids(issues)
            <4> HIDE DEF t
            <4> QED BY <3>1
        <3> QED BY <2>2, <3>2, <3>3
    <2> QED BY <2>3, <2>4
<1>11. Reader!ContextAccounted'
    <2> SUFFICES ASSUME ParentLimit > 0 \/ broken # "no", NEW c \in new
                 PROVE  Reader!Target(c) \in new \cup Reader!RootId \cup Reader!Missing' \cup {Reader!NoOne}
        <3>1. Reader!RootId' = Reader!RootId /\ Reader!NoOne' = Reader!NoOne
            BY <1>1 DEF Reader!RootId, Reader!NoOne
        <3> QED BY <1>1, <1>2, <3>1 DEF Reader!ContextAccounted
    <2>1. ASSUME NEW i \in issues', i[1] = Reader!Target(c), i[2] # "nontext"
          PROVE  Reader!Target(c) \in Reader!Missing'
        <3>1. Reader!Target(c) \in Reader!Ids({j \in issues' : j[2] # "nontext"})
            BY <2>1, Reported
        <3> QED BY <3>1 DEF Reader!Missing, Reader!Ids
    <2> QED BY <1>10, <2>1
<1> QED BY <1>2, <1>5, <1>6, <1>7, <1>8, <1>9, <1>11 DEF ReaderInv, ReaderResult

LEMMA ReaderStep ==
    Reader!ConstantsOK /\ ReaderInv /\ [Reader!ReaderNext]_(Reader!readerVars) => ReaderInv'
<1> SUFFICES ASSUME Reader!ConstantsOK, ReaderInv, [Reader!ReaderNext]_(Reader!readerVars) PROVE ReaderInv'
    OBVIOUS
<1>1. CASE UNCHANGED Reader!readerVars
    <2>1. UNCHANGED <<to, top, step, rooted, raw, got, queue, visited, left, pending, issues, broken>>
        BY <1>1 DEF Reader!readerVars, Reader!world, Reader!found, Reader!search
    <2>2. /\ Reader!Thread' = Reader!Thread /\ Reader!Newest(Limit)' = Reader!Newest(Limit)
          /\ \A m : Reader!Target(m)' = Reader!Target(m) /\ Reader!Plausible(m)' = Reader!Plausible(m)
          /\ ReaderWorld'
        BY <2>1, SameThread DEF ReaderInv
    <2>3. Reader!RootId' = Reader!RootId /\ Reader!Missing' = Reader!Missing /\ Reader!Ids(issues)' = Reader!Ids(issues)
        BY <2>1 DEF Reader!RootId, Reader!Missing, Reader!Ids
    <2>4. ReaderTypes' /\ WholeRead'
        BY <2>1, <2>2 DEF ReaderInv, ReaderTypes, WholeRead, Reader!Messages
    <2>5. ReaderKeeps' /\ LookedUp'
        BY <2>1, <2>2, <2>3 DEF ReaderInv, ReaderKeeps, LookedUp, Reader!NoOne
    <2>6. ReaderResult'
        BY <2>1, <2>2, <2>3
        DEF ReaderInv, ReaderResult, Reader!OnlyItsThread, Reader!ContextAccounted,
            Reader!NoOne
    <2> QED BY <2>2, <2>4, <2>5, <2>6 DEF ReaderInv
<1>2. CASE Reader!ReaderNext
    BY <1>2, DiscoverFinds, ReadKeeps, BreakKeeps, PassKeeps, AskKeeps, AskFailKeeps, AskedAllKeeps, ResolveKeeps
    DEF Reader!ReaderNext
<1> QED BY <1>1, <1>2

LEMMA ReaderSound ==
    Reader!ConstantsOK /\ ReaderInv => Reader!OnlyItsThread /\ Reader!ContextAccounted /\ Reader!WholeIsWhole
<1> SUFFICES ASSUME Reader!ConstantsOK, ReaderInv PROVE Reader!WholeIsWhole
    BY DEF ReaderInv, ReaderResult
<1> SUFFICES ASSUME step = "done", ~ Reader!Truncated PROVE Reader!Thread \ Textless \subseteq got
    BY DEF Reader!WholeIsWhole
<1>1. broken = "no" /\ ~ (raw >= Limit /\ Limit > 0)
    BY DEF Reader!Truncated
<1>2. raw = Cardinality(Reader!Newest(Limit)) /\ Reader!Newest(Limit) \ Textless \subseteq got
    BY <1>1 DEF ReaderInv, WholeRead
<1>3. Cardinality(Reader!Newest(Limit)) < Limit
    <2>1. Reader!Newest(Limit) \subseteq 1 .. NumMessages /\ IsFiniteSet(1 .. NumMessages)
        BY NewestOfThread, FS_Interval DEF Reader!Messages, Reader!ConstantsOK
    <2>2. Cardinality(Reader!Newest(Limit)) \in Nat
        BY <2>1, FS_Subset, FS_CardinalityType
    <2> QED BY <1>1, <1>2, <2>2 DEF Reader!ConstantsOK
<1> QED BY <1>2, <1>3, NewestOfThread

\* Once the root of a thread is known only its messages are collected, what each
\* of them answers is at hand or reported missing, and a read that reports no
\* gap has the whole thread: for any thread, any limits and any failing requests.
THEOREM ThreadIsWhole ==
    ASSUME Reader!ConstantsOK
    PROVE  Reader!ReaderSpec => [](Reader!OnlyItsThread /\ Reader!ContextAccounted /\ Reader!WholeIsWhole)
<1>1. Reader!ReaderInit => ReaderInv
    BY ReaderStarts
<1>2. ReaderInv /\ [Reader!ReaderNext]_(Reader!readerVars) => ReaderInv'
    BY ReaderStep
<1>3. ReaderInv => Reader!OnlyItsThread /\ Reader!ContextAccounted /\ Reader!WholeIsWhole
    BY ReaderSound
<1> QED BY <1>1, <1>2, <1>3, PTL DEF Reader!ReaderSpec

-----------------------------------------------------------------------------
\* Coverage of a window.  The spans are sorted by their beginnings and merged one
\* by one; what is merged so far stands in its order with gaps between, each piece
\* joined up by spans of the list (MergedSoFar), and so one piece holds the window
\* exactly when the spans join up over it.
CONSTANTS MaxTick, MaxRecords
VARIABLE records

Joins == INSTANCE IntervalMerge

\* The instance counts as the module does.
LEMMA JoinsCounts == \A S : Joins!Cardinality(S) = Cardinality(S)
BY DEF Joins!Cardinality, Joins!IsFiniteSet, Cardinality, IsFiniteSet

\* The list is built span by span.
LEMMA MergedStepwise ==
    ASSUME NEW list, Len(list) \in Nat
    PROVE  \E f : /\ f[0] = <<>>
                  /\ \A n \in 1 .. Len(list) : f[n] = Joins!Merge(f[n - 1], list[n])
                  /\ Joins!Merged(list) = f[Len(list)]
<1> DEFINE N == Len(list)
           Step(f, n) == IF n = 0 THEN <<>> ELSE Joins!Merge(f[n - 1], list[n])
           S == {k \in Nat : \E f : f = [n \in 0 .. k |-> Step(f, n)]}
           first == CHOOSE f : f = [n \in 0 .. N |-> Step(f, n)]
<1>1. 0 \in S
    <2> DEFINE f == [n \in 0 .. 0 |-> <<>>]
    <2>1. f = [n \in 0 .. 0 |-> Step(f, n)]
        OBVIOUS
    <2> HIDE DEF f
    <2> QED BY <2>1
<1>2. ASSUME NEW k \in Nat, k \in S PROVE k + 1 \in S
    <2>1. PICK f : f = [n \in 0 .. k |-> Step(f, n)]
        BY <1>2
    <2> DEFINE g == [n \in 0 .. k + 1 |-> Step(f, n)]
    <2>2. \A n \in 0 .. k : g[n] = f[n]
        <3>1. \A n \in 0 .. k : f[n] = Step(f, n)
            <4> HIDE DEF Step
            <4> QED BY <2>1
        <3>2. \A n \in 0 .. k : n \in 0 .. k + 1
            OBVIOUS
        <3> HIDE DEF Step
        <3> QED BY <3>1, <3>2
    <2>3. \A n \in 0 .. k + 1 : Step(f, n) = Step(g, n)
        <3> SUFFICES ASSUME NEW n \in 0 .. k + 1 PROVE Step(f, n) = Step(g, n)
            OBVIOUS
        <3>1. n # 0 => n - 1 \in 0 .. k
            OBVIOUS
        <3>2. n # 0 => f[n - 1] = g[n - 1]
            <4> HIDE DEF g
            <4> QED BY <2>2, <3>1
        <3> HIDE DEF g
        <3> QED BY <3>2
    <2>4. g = [n \in 0 .. k + 1 |-> Step(g, n)]
        <3> HIDE DEF Step
        <3> QED BY <2>3
    <2> HIDE DEF g, Step
    <2> QED BY <2>4
<1>3. Nat \subseteq S
    <2> HIDE DEF S
    <2> QED BY <1>1, <1>2, Induct
<1>4. \E f : f = [n \in 0 .. N |-> Step(f, n)]
    <2> HIDE DEF Step
    <2> QED BY <1>3
<1>5. first = [n \in 0 .. N |-> Step(first, n)]
    <2> HIDE DEF Step
    <2> QED BY <1>4
<1>6. Joins!Merged(list) = first[N]
    BY DEF Joins!Merged
<1> HIDE DEF first
<1>7. \A n \in 0 .. N : first[n] = Step(first, n)
    <2> HIDE DEF Step
    <2> QED BY <1>5
<1>8. first[0] = <<>> /\ \A n \in 1 .. N : first[n] = Joins!Merge(first[n - 1], list[n])
    <2>1. \A n \in 1 .. N : n \in 0 .. N /\ n # 0
        OBVIOUS
    <2> QED BY <1>7, <2>1
<1> QED BY <1>6, <1>8

\* The first k spans of a list join up over a span m.
Joined(m, list, k) ==
    /\ m[1] <= m[2]
    /\ \E j \in 1 .. k : list[j][1] <= m[1] /\ m[1] <= list[j][2]
    /\ \A t \in m[1] .. m[2] - 1 : \E j \in 1 .. k : list[j][1] <= t /\ t + 1 <= list[j][2]

\* What is merged of the first k spans: pieces that join up, in their order and
\* with a gap between them, that hold every span so far and begin before the rest.
MergedSoFar(M, list, k) ==
    /\ M \in Seq(Int \X Int)
    /\ k > 0 => Len(M) > 0
    /\ \A i \in 1 .. Len(M) : Joined(M[i], list, k)
    /\ \A i, j \in 1 .. Len(M) : i < j => M[i][2] < M[j][1]
    /\ \A j \in 1 .. k : \E i \in 1 .. Len(M) : M[i][1] <= list[j][1] /\ list[j][2] <= M[i][2]
    /\ \A i \in 1 .. Len(M), j \in k + 1 .. Len(list) : M[i][1] <= list[j][1]

\* A list of spans by their beginnings.
SpanList(list) ==
    /\ list \in Seq(Int \X Int)
    /\ \A i \in 1 .. Len(list) : list[i][1] <= list[i][2]
    /\ \A i, j \in 1 .. Len(list) : i < j => list[i][1] <= list[j][1]

LEMMA MergeStep ==
    ASSUME NEW list, SpanList(list), NEW k \in 1 .. Len(list), NEW M, MergedSoFar(M, list, k - 1)
    PROVE  MergedSoFar(Joins!Merge(M, list[k]), list, k)
<1>a. PICK s : s = list[k]
    OBVIOUS
<1>b. PICK n : n = Len(M)
    OBVIOUS
<1>c. PICK new : new = Joins!Merge(M, s)
    OBVIOUS
<1>1. /\ s \in Int \X Int /\ s[1] \in Int /\ s[2] \in Int /\ s[1] <= s[2]
      /\ \A j \in 1 .. Len(list) : list[j][1] \in Int /\ list[j][2] \in Int
      /\ \A j \in k + 1 .. Len(list) : s[1] <= list[j][1]
      /\ k \in Nat /\ k > 0 /\ Len(list) \in Nat
    BY <1>a DEF SpanList
<1>2. /\ M \in Seq(Int \X Int) /\ n \in Nat
      /\ \A i \in 1 .. n : M[i] \in Int \X Int /\ M[i][1] \in Int /\ M[i][2] \in Int
    BY <1>b DEF MergedSoFar
<1>3. /\ \A i \in 1 .. n : Joined(M[i], list, k - 1)
      /\ \A i, j \in 1 .. n : i < j => M[i][2] < M[j][1]
      /\ \A j \in 1 .. k - 1 : \E i \in 1 .. n : M[i][1] <= list[j][1] /\ list[j][2] <= M[i][2]
      /\ \A i \in 1 .. n, j \in k .. Len(list) : M[i][1] <= list[j][1]
    BY <1>1, <1>b DEF MergedSoFar
<1>4. \A i \in 1 .. n : M[i][1] <= M[i][2]
    BY <1>3 DEF Joined
<1>5. ASSUME NEW m, Joined(m, list, k - 1) PROVE Joined(m, list, k)
    <2>1. \A j \in 1 .. k - 1 : j \in 1 .. k
        BY <1>1
    <2> QED BY <1>5, <2>1 DEF Joined
<1>6. Joined(s, list, k)
    <2>1. k \in 1 .. k
        BY <1>1
    <2>2. \A t \in s[1] .. s[2] - 1 : s[1] <= t /\ t + 1 <= s[2]
        BY <1>1
    <2>3. list[k][1] <= s[1] /\ s[1] <= list[k][2]
        BY <1>a, <1>1
    <2>4. \A t \in s[1] .. s[2] - 1 : list[k][1] <= t /\ t + 1 <= list[k][2]
        BY <1>a, <2>2
    <2>5. \E j \in 1 .. k : list[j][1] <= s[1] /\ s[1] <= list[j][2]
        BY <2>1, <2>3
    <2>6. \A t \in s[1] .. s[2] - 1 : \E j \in 1 .. k : list[j][1] <= t /\ t + 1 <= list[j][2]
        BY <2>1, <2>4
    <2> QED BY <1>1, <2>5, <2>6 DEF Joined
<1>7. CASE M = <<>> \/ s[1] > M[n][2]
    <2>1. new = Append(M, s)
        BY <1>b, <1>c, <1>7 DEF Joins!Merge
    <2>2. /\ new \in Seq(Int \X Int) /\ Len(new) = n + 1 /\ new[n + 1] = s
          /\ \A i \in 1 .. n : new[i] = M[i]
        BY <1>b, <1>1, <1>2, <2>1
    <2>3. \A i \in 1 .. n + 1 : i \in 1 .. n \/ i = n + 1
        BY <1>2
    <2>4. \A i \in 1 .. n + 1 : Joined(new[i], list, k)
        BY <1>3, <1>5, <1>6, <2>2, <2>3
    <2>5. \A i \in 1 .. n : M[i][2] < s[1]
        <3> SUFFICES ASSUME NEW i \in 1 .. n PROVE M[i][2] < s[1]
            OBVIOUS
        <3>1. n \in 1 .. n /\ M # <<>>
            BY <1>b, <1>2
        <3>2. M[n][2] < s[1] /\ M[n][1] <= M[n][2]
            BY <1>1, <1>2, <1>4, <1>7, <3>1
        <3>3. i = n \/ i < n
            BY <1>2
        <3>4. i < n => M[i][2] < M[n][1]
            BY <1>3, <3>1
        <3>5. M[i][2] \in Int /\ M[n][1] \in Int /\ M[n][2] \in Int
            BY <1>2, <3>1
        <3> QED BY <1>1, <3>2, <3>3, <3>4, <3>5
    <2>6. \A i, j \in 1 .. n + 1 : i < j => new[i][2] < new[j][1]
        <3> SUFFICES ASSUME NEW i \in 1 .. n + 1, NEW j \in 1 .. n + 1, i < j PROVE new[i][2] < new[j][1]
            OBVIOUS
        <3>1. i \in 1 .. n
            BY <1>2
        <3> QED BY <1>3, <2>2, <2>3, <2>5, <3>1
    <2>7. \A j \in 1 .. k : \E i \in 1 .. n + 1 : new[i][1] <= list[j][1] /\ list[j][2] <= new[i][2]
        <3> SUFFICES ASSUME NEW j \in 1 .. k
                     PROVE  \E i \in 1 .. n + 1 : new[i][1] <= list[j][1] /\ list[j][2] <= new[i][2]
            OBVIOUS
        <3>1. CASE j = k
            <4>1. n + 1 \in 1 .. n + 1
                BY <1>2
            <4>2. new[n + 1][1] <= list[j][1] /\ list[j][2] <= new[n + 1][2]
                BY <1>1, <2>2, <3>1, <1>a
            <4> QED BY <4>1, <4>2
        <3>2. CASE j # k
            <4>1. j \in 1 .. k - 1
                BY <1>1, <3>2
            <4>2. PICK i \in 1 .. n : M[i][1] <= list[j][1] /\ list[j][2] <= M[i][2]
                BY <1>3, <4>1
            <4>3. i \in 1 .. n + 1 /\ new[i] = M[i]
                BY <1>2, <2>2
            <4> QED BY <4>2, <4>3
        <3> QED BY <3>1, <3>2
    <2>8. \A i \in 1 .. n + 1, j \in k + 1 .. Len(list) : new[i][1] <= list[j][1]
        <3> SUFFICES ASSUME NEW i \in 1 .. n + 1, NEW j \in k + 1 .. Len(list) PROVE new[i][1] <= list[j][1]
            OBVIOUS
        <3>1. j \in k .. Len(list)
            BY <1>1
        <3> QED BY <1>1, <1>3, <2>2, <2>3, <3>1
    <2>9. Len(new) > 0
        BY <1>2, <2>2
    <2> QED BY <1>a, <1>c, <2>2, <2>4, <2>6, <2>7, <2>8, <2>9 DEF MergedSoFar
<1>8. CASE ~ (M = <<>> \/ s[1] > M[n][2])
    <2> DEFINE q == IF s[2] > M[n][2] THEN s[2] ELSE M[n][2]
               grown == [M[n] EXCEPT ![2] = q]
    <2>1. new = [M EXCEPT ![n] = grown]
        BY <1>b, <1>c, <1>8 DEF Joins!Merge
    <2>2. n \in 1 .. n /\ s[1] <= M[n][2] /\ M[n][1] <= s[1]
        <3>1. n \in 1 .. n
            BY <1>b, <1>2, <1>8
        <3>2. k \in k .. Len(list)
            BY <1>1
        <3>3. M[n][1] <= list[k][1]
            BY <1>3, <3>1, <3>2
        <3>4. M[n][2] \in Int
            BY <1>2, <3>1
        <3> QED BY <1>a, <1>1, <1>8, <3>1, <3>3, <3>4
    <2>3. /\ q \in Int /\ M[n][2] <= q /\ s[2] <= q /\ (q = s[2] \/ q = M[n][2])
        BY <1>1, <1>2, <2>2
    <2>4. grown \in Int \X Int /\ grown[1] = M[n][1] /\ grown[2] = q
        <3> HIDE DEF q
        <3>1. M[n] = <<M[n][1], M[n][2]>> /\ M[n][1] \in Int
            BY <1>2, <2>2
        <3> QED BY <2>3, <3>1
    <2> HIDE DEF q, grown
    <2>5. /\ new \in Seq(Int \X Int) /\ Len(new) = n /\ new[n] = grown
          /\ \A i \in 1 .. n : i # n => new[i] = M[i]
        BY <1>b, <1>2, <2>1, <2>2, <2>4
    <2>6. Joined(grown, list, k)
        <3>1. /\ \E j \in 1 .. k : list[j][1] <= M[n][1] /\ M[n][1] <= list[j][2]
              /\ \A t \in M[n][1] .. M[n][2] - 1 : \E j \in 1 .. k : list[j][1] <= t /\ t + 1 <= list[j][2]
            <4>1. Joined(M[n], list, k)
                BY <1>3, <1>5, <2>2
            <4> QED BY <4>1 DEF Joined
        <3>2. M[n][1] \in Int /\ M[n][2] \in Int /\ M[n][1] <= M[n][2]
            BY <1>2, <1>4, <2>2
        <3>3. ASSUME NEW t \in M[n][1] .. q - 1 PROVE \E j \in 1 .. k : list[j][1] <= t /\ t + 1 <= list[j][2]
            <4>1. t \in M[n][1] .. M[n][2] - 1 \/ (s[1] <= t /\ t + 1 <= s[2])
                BY <1>1, <2>2, <2>3, <3>2
            <4>2. k \in 1 .. k /\ s = list[k]
                BY <1>1, <1>a
            <4> QED BY <3>1, <4>1, <4>2
        <3>4. grown[1] <= grown[2]
            BY <2>3, <2>4, <3>2
        <3> QED BY <2>4, <3>1, <3>3, <3>4 DEF Joined
    <2>7. \A i \in 1 .. n : Joined(new[i], list, k)
        BY <1>3, <1>5, <2>5, <2>6
    <2>8. \A i \in 1 .. n : new[i][1] = M[i][1] /\ M[i][2] <= new[i][2] /\ (i # n => new[i][2] = M[i][2])
        <3> SUFFICES ASSUME NEW i \in 1 .. n
                     PROVE  /\ new[i][1] = M[i][1] /\ M[i][2] <= new[i][2]
                            /\ i # n => new[i][2] = M[i][2]
            OBVIOUS
        <3>1. M[i][2] \in Int
            BY <1>2
        <3>2. CASE i = n
            BY <2>3, <2>4, <2>5, <3>2
        <3>3. CASE i # n
            <4>1. new[i] = M[i]
                BY <2>5, <3>3
            <4> QED BY <3>1, <4>1
        <3> QED BY <3>2, <3>3
    <2>9. \A i, j \in 1 .. n : i < j => new[i][2] < new[j][1]
        <3> SUFFICES ASSUME NEW i \in 1 .. n, NEW j \in 1 .. n, i < j PROVE new[i][2] < new[j][1]
            OBVIOUS
        <3>1. i # n
            BY <1>2
        <3> QED BY <1>3, <2>8, <3>1
    <2>10. \A j \in 1 .. k : \E i \in 1 .. n : new[i][1] <= list[j][1] /\ list[j][2] <= new[i][2]
        <3> SUFFICES ASSUME NEW j \in 1 .. k
                     PROVE  \E i \in 1 .. n : new[i][1] <= list[j][1] /\ list[j][2] <= new[i][2]
            OBVIOUS
        <3>1. CASE j = k
            <4>1. new[n][1] <= list[j][1] /\ list[j][2] <= new[n][2]
                BY <2>2, <2>3, <2>4, <2>5, <3>1, <1>a
            <4> QED BY <2>2, <4>1
        <3>2. CASE j # k
            <4>1. j \in 1 .. k - 1 /\ j \in 1 .. Len(list)
                BY <1>1, <3>2
            <4>2. PICK i \in 1 .. n : M[i][1] <= list[j][1] /\ list[j][2] <= M[i][2]
                BY <1>3, <4>1
            <4>3. new[i][1] = M[i][1] /\ M[i][2] <= new[i][2] /\ new[i][2] \in Int /\ M[i][2] \in Int
                BY <1>2, <2>3, <2>4, <2>5, <2>8
            <4>4. list[j][2] \in Int
                BY <1>1, <4>1
            <4> QED BY <4>2, <4>3, <4>4
        <3> QED BY <3>1, <3>2
    <2>11. \A i \in 1 .. n, j \in k + 1 .. Len(list) : new[i][1] <= list[j][1]
        <3> SUFFICES ASSUME NEW i \in 1 .. n, NEW j \in k + 1 .. Len(list) PROVE new[i][1] <= list[j][1]
            OBVIOUS
        <3>1. j \in k .. Len(list)
            BY <1>1
        <3> QED BY <1>3, <2>8, <3>1
    <2>12. Len(new) > 0
        BY <1>2, <2>2, <2>5
    <2> QED BY <1>a, <1>c, <2>5, <2>7, <2>9, <2>10, <2>11, <2>12 DEF MergedSoFar
<1> QED BY <1>7, <1>8
\* All of a list.
LEMMA AllMerged ==
    ASSUME NEW list, SpanList(list)
    PROVE  MergedSoFar(Joins!Merged(list), list, Len(list))
<1>1. Len(list) \in Nat
    BY DEF SpanList
<1>2. PICK f : /\ f[0] = <<>>
               /\ \A n \in 1 .. Len(list) : f[n] = Joins!Merge(f[n - 1], list[n])
               /\ Joins!Merged(list) = f[Len(list)]
    BY <1>1, MergedStepwise
<1> DEFINE K == {k \in Nat : k <= Len(list) => MergedSoFar(f[k], list, k)}
<1>3. 0 \in K
    <2>1. <<>> \in Seq(Int \X Int) /\ Len(<<>>) = 0
        OBVIOUS
    <2>2. MergedSoFar(<<>>, list, 0)
        BY <2>1 DEF MergedSoFar
    <2> QED BY <1>2, <2>2
<1>4. ASSUME NEW k \in Nat, k \in K PROVE k + 1 \in K
    <2> SUFFICES ASSUME k + 1 <= Len(list) PROVE MergedSoFar(f[k + 1], list, k + 1)
        OBVIOUS
    <2>1. k + 1 \in 1 .. Len(list) /\ k <= Len(list) /\ (k + 1) - 1 = k
        BY <1>1
    <2>2. MergedSoFar(f[k], list, (k + 1) - 1)
        BY <1>4, <2>1
    <2>3. f[k + 1] = Joins!Merge(f[k], list[k + 1])
        BY <1>2, <2>1
    <2>4. MergedSoFar(Joins!Merge(f[k], list[k + 1]), list, k + 1)
        BY <2>1, <2>2, MergeStep
    <2> QED BY <2>3, <2>4
<1>5. Nat \subseteq K
    <2> HIDE DEF K
    <2> QED BY <1>3, <1>4, Induct
<1>6. MergedSoFar(f[Len(list)], list, Len(list))
    BY <1>1, <1>5
<1> QED BY <1>2, <1>6

\* The order of the merge lists a set.
LEMMA SortedListsAll ==
    ASSUME NEW S, IsFiniteSet(S), NEW R, Orders(R, S),
           \A x, y \in S : (<<x, y>> \in R) <=> Joins!Before(x, y)
    PROVE  /\ Cardinality(S) \in Nat
           /\ Joins!Sorted(S) \in [1 .. Cardinality(S) -> S]
           /\ \A x \in S : \E i \in 1 .. Cardinality(S) : Joins!Sorted(S)[i] = x
           /\ \A i, j \in 1 .. Cardinality(S) :
                  i < j => Joins!Before(Joins!Sorted(S)[i], Joins!Sorted(S)[j])
<1> DEFINE N == Cardinality(S)
           nth(i) == CHOOSE x \in S : Rank(R, S, x) = i - 1
           listed(i) == CHOOSE x \in S : Joins!Cardinality({y \in S : Joins!Before(y, x)}) = i - 1
           L == [i \in 1 .. N |-> nth(i)]
<1>1. ASSUME NEW x \in S PROVE Joins!Cardinality({y \in S : Joins!Before(y, x)}) = Rank(R, S, x)
    <2>1. {y \in S : Joins!Before(y, x)} = {y \in S : <<y, x>> \in R}
        OBVIOUS
    <2> QED BY <2>1, JoinsCounts DEF Rank
<1>2. \A i \in 1 .. N : listed(i) = nth(i)
    BY <1>1
<1>3. Joins!Sorted(S) = [i \in 1 .. N |-> listed(i)]
    BY JoinsCounts DEF Joins!Sorted
<1>4. Listing(R, S) = L
    BY DEF Listing
<1>5. Joins!Sorted(S) = L
    <2> HIDE DEF N, nth, listed
    <2> QED BY <1>2, <1>3
<1>6. /\ N \in Nat
      /\ \A i \in 1 .. N : L[i] \in S
      /\ \A x \in S : \E i \in 1 .. N : L[i] = x
      /\ \A i, j \in 1 .. N : i < j => <<L[i], L[j]>> \in R
    <2> HIDE DEF L
    <2> QED BY <1>4, ListsAll
<1>7. L \in [1 .. N -> S]
    <2>1. \A i \in 1 .. N : nth(i) \in S
        BY <1>6
    <2> HIDE DEF nth
    <2> QED BY <2>1
<1>8. \A i, j \in 1 .. N : i < j => Joins!Before(L[i], L[j])
    <2> HIDE DEF L
    <2> QED BY <1>6
<1> HIDE DEF L
<1> QED BY <1>5, <1>6, <1>7, <1>8

\* Spans, and a list of them in their order.
SetOfSpans(S) == IsFiniteSet(S) /\ S \in SUBSET (Int \X Int) /\ \A x \in S : x[1] <= x[2]

LEMMA SpansInOrder ==
    ASSUME NEW S, SetOfSpans(S)
    PROVE  /\ SpanList(Joins!Sorted(S))
           /\ \A i \in 1 .. Len(Joins!Sorted(S)) : Joins!Sorted(S)[i] \in S
           /\ \A x \in S : \E i \in 1 .. Len(Joins!Sorted(S)) : Joins!Sorted(S)[i] = x
<1> DEFINE R == {p \in S \X S : Joins!Before(p[1], p[2])}
<1>1. \A x \in S : x = <<x[1], x[2]>> /\ x[1] \in Int /\ x[2] \in Int /\ x[1] <= x[2]
    BY DEF SetOfSpans
<1>2. \A x, y \in S : (<<x, y>> \in R) <=> Joins!Before(x, y)
    OBVIOUS
<1>3. \A x \in S : ~ Joins!Before(x, x)
    BY <1>1 DEF Joins!Before
<1>4. \A x, y \in S : x # y => Joins!Before(x, y) \/ Joins!Before(y, x)
    <2> SUFFICES ASSUME NEW x \in S, NEW y \in S, x # y PROVE Joins!Before(x, y) \/ Joins!Before(y, x)
        OBVIOUS
    <2>1. x[1] # y[1] \/ x[2] # y[2]
        BY <1>1
    <2>2. x[1] \in Int /\ x[2] \in Int /\ y[1] \in Int /\ y[2] \in Int
        BY <1>1
    <2> QED BY <2>1, <2>2 DEF Joins!Before
<1>5. \A x, y, z \in S : Joins!Before(x, y) /\ Joins!Before(y, z) => Joins!Before(x, z)
    <2> SUFFICES ASSUME NEW x \in S, NEW y \in S, NEW z \in S, Joins!Before(x, y), Joins!Before(y, z)
                 PROVE  Joins!Before(x, z)
        OBVIOUS
    <2>1. /\ x[1] \in Int /\ x[2] \in Int /\ y[1] \in Int /\ y[2] \in Int
          /\ z[1] \in Int /\ z[2] \in Int
        BY <1>1
    <2> QED BY <2>1 DEF Joins!Before
<1> HIDE DEF R
<1>6. Orders(R, S)
    BY <1>2, <1>3, <1>4, <1>5 DEF Orders
<1>7. IsFiniteSet(S)
    BY DEF SetOfSpans
<1> DEFINE N == Cardinality(S)
           L == Joins!Sorted(S)
<1>8. /\ N \in Nat
      /\ L \in [1 .. N -> S]
      /\ \A x \in S : \E i \in 1 .. N : L[i] = x
      /\ \A i, j \in 1 .. N : i < j => Joins!Before(L[i], L[j])
    BY <1>2, <1>6, <1>7, SortedListsAll
<1> HIDE DEF N, L
<1>9. L \in Seq(S) /\ Len(L) = N
    BY <1>8
<1>10. L \in Seq(Int \X Int)
    BY <1>9 DEF SetOfSpans
<1>11. \A i \in 1 .. N : L[i] \in S
    BY <1>8
<1>12. \A i \in 1 .. N : L[i][1] <= L[i][2]
    BY <1>1, <1>11
<1>13. ASSUME NEW i \in 1 .. N, NEW j \in 1 .. N, i < j PROVE L[i][1] <= L[j][1]
    <2>1. Joins!Before(L[i], L[j])
        BY <1>8, <1>13
    <2>2. L[i][1] \in Int /\ L[j][1] \in Int
        BY <1>1, <1>11
    <2> QED BY <2>1, <2>2 DEF Joins!Before
<1>14. SpanList(L)
    BY <1>9, <1>10, <1>12, <1>13 DEF SpanList
<1> QED BY <1>8, <1>9, <1>11, <1>14 DEF L

\* The merge covers what the spans cover.
LEMMA CoverageIsCovers ==
    ASSUME NEW S, SetOfSpans(S), NEW a \in Int, NEW b \in Int, a <= b
    PROVE  Joins!CoverageForWindow(S, a, b) <=> Joins!Covers(S, a, b)
<1>a. PICK L : L = Joins!Sorted(S)
    OBVIOUS
<1>b. PICK M : M = Joins!Merged(L)
    OBVIOUS
<1>1. /\ SpanList(L)
      /\ \A i \in 1 .. Len(L) : L[i] \in S
      /\ \A x \in S : \E i \in 1 .. Len(L) : L[i] = x
    BY <1>a, SpansInOrder
<1>2. MergedSoFar(M, L, Len(L))
    BY <1>1, <1>b, AllMerged
<1>3. Joins!CoverageForWindow(S, a, b) <=> \E i \in 1 .. Len(M) : M[i][1] <= a /\ b <= M[i][2]
    BY <1>a, <1>b DEF Joins!CoverageForWindow
<1>4. \A x \in S : x[1] \in Int /\ x[2] \in Int
    BY DEF SetOfSpans
<1>5. /\ \A i \in 1 .. Len(M) : Joined(M[i], L, Len(L)) /\ M[i][1] \in Int /\ M[i][2] \in Int
      /\ \A i, j \in 1 .. Len(M) : i < j => M[i][2] < M[j][1]
      /\ \A j \in 1 .. Len(L) : \E i \in 1 .. Len(M) : M[i][1] <= L[j][1] /\ L[j][2] <= M[i][2]
    BY <1>2 DEF MergedSoFar
<1>6. ASSUME NEW i \in 1 .. Len(M), M[i][1] <= a, b <= M[i][2] PROVE Joins!Covers(S, a, b)
    <2>1. /\ \E j \in 1 .. Len(L) : L[j][1] <= M[i][1] /\ M[i][1] <= L[j][2]
          /\ \A t \in M[i][1] .. M[i][2] - 1 : \E j \in 1 .. Len(L) : L[j][1] <= t /\ t + 1 <= L[j][2]
        BY <1>5 DEF Joined
    <2>2. M[i][1] \in Int /\ M[i][2] \in Int
        BY <1>5
    <2>3. \A t \in M[i][1] .. M[i][2] - 1 : \E x \in S : x[1] <= t /\ t + 1 <= x[2]
        BY <1>1, <2>1
    <2>4. \E x \in S : x[1] <= a /\ a <= x[2]
        <3>1. CASE a = M[i][1]
            BY <1>1, <2>1, <3>1
        <3>2. CASE a # M[i][1]
            <4>1. a - 1 \in M[i][1] .. M[i][2] - 1 /\ (a - 1) + 1 = a
                BY <1>6, <2>2, <3>2
            <4>2. PICK x \in S : x[1] <= a - 1 /\ (a - 1) + 1 <= x[2]
                BY <2>3, <4>1
            <4> QED BY <1>4, <4>1, <4>2
        <3> QED BY <3>1, <3>2
    <2>5. \A t \in a .. b - 1 : t \in M[i][1] .. M[i][2] - 1
        BY <1>6, <2>2
    <2>6. \A t \in a .. b - 1 : \E x \in S : x[1] <= t /\ t + 1 <= x[2]
        BY <2>3, <2>5
    <2> QED BY <2>4, <2>6 DEF Joins!Covers
<1>7. ASSUME Joins!Covers(S, a, b) PROVE \E i \in 1 .. Len(M) : M[i][1] <= a /\ b <= M[i][2]
    <2>1. /\ \E x \in S : x[1] <= a /\ a <= x[2]
          /\ \A t \in a .. b - 1 : \E x \in S : x[1] <= t /\ t + 1 <= x[2]
        BY <1>7 DEF Joins!Covers
    <2>2. ASSUME NEW x \in S PROVE \E i \in 1 .. Len(M) : M[i][1] <= x[1] /\ x[2] <= M[i][2]
        BY <1>1, <1>5
    <2>3. PICK x \in S : x[1] <= a /\ a <= x[2]
        BY <2>1
    <2>4. PICK i \in 1 .. Len(M) : M[i][1] <= x[1] /\ x[2] <= M[i][2]
        BY <2>2
    <2>5. M[i][1] \in Int /\ M[i][2] \in Int /\ M[i][1] <= a /\ a <= M[i][2]
        BY <1>4, <1>5, <2>3, <2>4
    <2>6. SUFFICES ASSUME M[i][2] < b PROVE FALSE
        BY <2>5
    <2>7. M[i][2] \in a .. b - 1
        BY <2>5, <2>6
    <2>8. PICK y \in S : y[1] <= M[i][2] /\ M[i][2] + 1 <= y[2]
        BY <2>1, <2>7
    <2>9. PICK j \in 1 .. Len(M) : M[j][1] <= y[1] /\ y[2] <= M[j][2]
        BY <2>2
    <2>10. M[j][1] \in Int /\ M[j][2] \in Int /\ M[j][1] <= M[i][2] /\ M[i][2] < M[j][2]
        BY <1>4, <1>5, <2>5, <2>8, <2>9
    <2>11. /\ i < j => M[i][2] < M[j][1]
           /\ j < i => M[j][2] < M[i][1]
        BY <1>5
    <2>12. i < j \/ j < i
        <3>1. i # j
            BY <2>10
        <3> QED BY <3>1
    <2> QED BY <2>5, <2>10, <2>11, <2>12
<1> QED BY <1>3, <1>6, <1>7

\* The rows that do not meet the window count for nothing.
LEMMA LoadedCovers ==
    ASSUME NEW S, SetOfSpans(S), NEW a \in Int, NEW b \in Int, a <= b
    PROVE  /\ SetOfSpans(Joins!Loaded(S, a, b))
           /\ Joins!Covers(Joins!Loaded(S, a, b), a, b) <=> Joins!Covers(S, a, b)
<1>a. PICK T : T = Joins!Loaded(S, a, b)
    OBVIOUS
<1>1. \A x : (x \in T) <=> (x \in S /\ x[2] >= a /\ x[1] <= b)
    BY <1>a DEF Joins!Loaded
<1>2. \A x \in S : x[1] \in Int /\ x[2] \in Int
    BY DEF SetOfSpans
<1>3. T \in SUBSET S
    BY <1>1
<1>4. SetOfSpans(T)
    <2>1. IsFiniteSet(T)
        BY <1>3, FS_Subset DEF SetOfSpans
    <2> QED BY <1>3, <2>1 DEF SetOfSpans
<1>5. \A x \in S : x[1] <= a /\ a <= x[2] => x \in T
    BY <1>1, <1>2
<1>6. \A t \in a .. b - 1 : \A x \in S : x[1] <= t /\ t + 1 <= x[2] => x \in T
    BY <1>1, <1>2
<1>7. Joins!Covers(T, a, b) <=> Joins!Covers(S, a, b)
    BY <1>3, <1>5, <1>6 DEF Joins!Covers
<1> QED BY <1>a, <1>4, <1>7

\* The recorded intervals are spans, finitely many.
SpansRecorded == records \in SUBSET Joins!Spans /\ IsFiniteSet(records)

LEMMA SpansStay ==
    ASSUME SpansRecorded, [Joins!Next]_records
    PROVE  SpansRecorded'
<1>1. CASE Joins!Next
    <2>1. PICK x \in Joins!Spans, complete \in BOOLEAN : Joins!MarkCoverage(x, complete)
        BY <1>1 DEF Joins!Next
    <2>2. records' = records \cup {x} \/ records' = records \ {x}
        BY <2>1 DEF Joins!MarkCoverage
    <2>3. IsFiniteSet({x})
        BY FS_Singleton
    <2>4. IsFiniteSet(records \cup {x}) /\ IsFiniteSet(records \ {x})
        BY <2>3, FS_Union, FS_Difference DEF SpansRecorded
    <2> QED BY <2>2, <2>4 DEF SpansRecorded
<1>2. CASE UNCHANGED records
    BY <1>2 DEF SpansRecorded
<1> QED BY <1>1, <1>2

LEMMA SpansAnswer ==
    ASSUME Joins!ConstantsOK, SpansRecorded
    PROVE  Joins!MergeIsCoverage
<1>1. SetOfSpans(records) /\ \A x \in Joins!Spans : x[1] \in Int /\ x[2] \in Int /\ x[1] <= x[2]
    BY DEF SpansRecorded, SetOfSpans, Joins!Spans, Joins!Ticks, Joins!ConstantsOK
<1>2. ASSUME NEW x \in Joins!Spans
      PROVE  /\ Joins!CoverageForWindow(Joins!Loaded(records, x[1], x[2]), x[1], x[2])
                    <=> Joins!Covers(records, x[1], x[2])
             /\ Joins!CoverageForWindow(records, x[1], x[2]) <=> Joins!Covers(records, x[1], x[2])
    <2>1. x[1] \in Int /\ x[2] \in Int /\ x[1] <= x[2]
        BY <1>1
    <2>2. Joins!CoverageForWindow(records, x[1], x[2]) <=> Joins!Covers(records, x[1], x[2])
        BY <1>1, <2>1, CoverageIsCovers
    <2>3. /\ SetOfSpans(Joins!Loaded(records, x[1], x[2]))
          /\ Joins!Covers(Joins!Loaded(records, x[1], x[2]), x[1], x[2]) <=> Joins!Covers(records, x[1], x[2])
        BY <1>1, <2>1, LoadedCovers
    <2>4. Joins!CoverageForWindow(Joins!Loaded(records, x[1], x[2]), x[1], x[2])
              <=> Joins!Covers(Joins!Loaded(records, x[1], x[2]), x[1], x[2])
        BY <2>1, <2>3, CoverageIsCovers
    <2> QED BY <2>2, <2>3, <2>4
<1> QED BY <1>2 DEF Joins!MergeIsCoverage

\* coverage_for_window sorts, merges and looks for one piece that holds the
\* window; it answers yes exactly when the recorded intervals join up over it,
\* however many they are, and the store may leave out the rows that do not
\* meet the window.
THEOREM MergeAnswers ==
    ASSUME Joins!ConstantsOK
    PROVE  Joins!Spec => []Joins!MergeIsCoverage
<1>1. Joins!Init => SpansRecorded
    BY FS_EmptySet DEF Joins!Init, SpansRecorded
<1>2. SpansRecorded /\ [Joins!Next]_records => SpansRecorded'
    BY SpansStay
<1>3. SpansRecorded => Joins!MergeIsCoverage
    BY SpansAnswer
<1> QED BY <1>1, <1>2, <1>3, PTL DEF Joins!Spec
=============================================================================
