---------------------- MODULE SpeculativeAssignProofs ----------------------
(***************************************************************************)
(* Proofs about the speculative batch, for any publications, fragments,    *)
(* dates, entities, closeness, stories and TopK.                           *)
(*                                                                         *)
(* The commit loop decides on its own copy of the fragments, links and     *)
(* stories, never on the database; that the copy is as good rests on what  *)
(* it was loaded with and on every save being made in both.  And the loop  *)
(* skips what prepare left out; that nothing unanswered is marked rests on *)
(* the order the tasks went in.                                            *)
(***************************************************************************)
EXTENDS SpeculativeAssign, TLAPS

\* Fragments the loop has still to come to.
Ahead(f) == f[1] > at[1] \/ (f[1] = at[1] /\ f[2] >= at[2])

\* Where a batch stands in its own life and in the queue.
Batch ==
    /\ phase = "idle" => mem = NoBatch /\ basis = NoContext
    /\ phase = "reconsider" => ~strict /\ at[2] = 1
    /\ phase \in {"embed", "prepare", "reconsider"} => jobs \subseteq pending
    /\ phase \in {"reconsider", "commit"} =>
        /\ at \in jobs \X (Nat \ {0})
        /\ \A i \in 1 .. at[2] - 1 : <<at[1], i>> \in Fragments
        /\ \A p \in jobs : p >= at[1] => p \in pending

\* A fragment is listed a second time only by its own commit.
Counted == \A f \in Fragments : (phase = "commit" => Ahead(f)) => mem.pool[f] <= 1

\* The fragments as far back as some job looks.
Window(S) == {f \in Fragments : \E p \in S : At[f[1]] >= At[p] - Lookback}

\* The local copies say of the fragments in reach what the database says.
Mirrored ==
    /\ \A l \in cat.links : l[1] \in index
    /\ phase # "idle" =>
        /\ \A f \in Fragments : mem.pool[f] > 0 => f \in index
        /\ \A f \in Window(jobs) : f \in index => mem.pool[f] > 0
        /\ mem.cat.links \subseteq cat.links
        /\ \A f \in Fragments, s \in Stories :
             mem.pool[f] > 0 /\ <<f, s>> \in cat.links =>
                <<f, s>> \in mem.cat.links /\ mem.cat.story[s] = cat.story[s]
        /\ mem.cat.names \subseteq cat.names
        /\ \A l \in cat.links, f \in Fragments :
             mem.pool[f] > 0 /\ f[1] = l[1][1] => Surface[l[1]] \cap cat.names \subseteq mem.cat.names
        /\ \A f \in Fragments :
             mem.pool[f] > 0 \/ f[1] \in jobs =>
                Surface[f] \cap Released \cap cat.names \subseteq mem.cat.names

\* Where the strict task of p stands: at the end, or at a fragment that was not
\* asked about or got no answer, and past none of those.
Front(p, k) ==
    /\ \A i \in 1 .. k - 1 : prop[<<p, i>>].state \in {"deferred", "answered"}
    /\ \A i \in k + 1 .. FragCount[p] : prop[<<p, i>>].state = "none"
    /\ k <= FragCount[p] => prop[<<p, k>>].state \in {"none", "failed"}

\* What prepare leaves: fragments without a proposal only behind a failed one.
Proposed ==
    /\ prop = [f \in Fragments |-> prop[f]]
    /\ \A f \in Fragments : prop[f].state # "answered" => prop[f].ans = Failed
    /\ phase \in {"idle", "embed"} => \A f \in Fragments : prop[f].state = "none"
    /\ phase = "prepare" /\ strict =>
        \A p \in jobs : \E k \in 1 .. FragCount[p] + 1 : Front(p, k)
    /\ phase = "reconsider" => \A f \in Of(jobs) : prop[f].state # "none"
    /\ phase = "commit" => \A f \in Of(jobs) : prop[f].state = "none" =>
        strict /\ \E i \in 1 .. f[2] - 1 : prop[<<f[1], i>>].state = "failed"

\* What the loop has behind it in the current publication.
Behind ==
    phase = "commit" => \A i \in 1 .. at[2] - 1 :
        /\ <<at[1], i>> \in decided
        /\ prop[<<at[1], i>>].state = "failed" => at[1] \in revived

IInv == TypeOK /\ Batch /\ Counted /\ Mirrored /\ Proposed /\ Behind /\ ProcessedUnlessRevived

-----------------------------------------------------------------------------
(* The data.                                                               *)

\* A fragment is a publication and an index into its digest.
LEMMA FragmentIs ==
  ASSUME NEW f
  PROVE  f \in Fragments <=> /\ f = <<f[1], f[2]>>
                             /\ f[1] \in Pubs /\ f[2] \in 1 .. FragCount[f[1]]
  BY DEF Fragments

\* Publications are numbered, dates and digests are natural.
LEMMA PubIs ==
  ASSUME NEW p \in Pubs
  PROVE  p \in Nat /\ At[p] \in Nat /\ FragCount[p] \in Nat
  BY PubsNat, DatesNat DEF Pubs

\* The key entity of a fragment is one of the names or none.
LEMMA KeyTyped ==
  ASSUME NEW f PROVE EntityKey(f) \in Names \cup {NoKey}
  BY DEF EntityKey

\* A fresh story is a row.
LEMMA OpenedTyped ==
  ASSUME NEW f \in Fragments
  PROVE  [seen |-> At[f[1]], key |-> NoKey] \in StoryRows
  BY FragmentIs DEF StoryRows

\* No story is a row too.
LEMMA NoStoryTyped == NoStory \in StoryRows
  BY DEF NoStory, StoryRows

\* A catalog with nothing in it.
LEMMA EmptyTyped == EmptyCatalog \in Catalogs
  BY NoStoryTyped, ReleasedNames DEF EmptyCatalog, Catalogs

\* Candidates are earlier fragments of the pool.
LEMMA CandidatesAre ==
  ASSUME NEW f, NEW pool
  PROVE  Candidates(f, pool) \subseteq Earlier(f, pool) /\ Earlier(f, pool) \subseteq Fragments
  BY DEF Candidates, First, Earlier

\* A context is a context.
LEMMA ContextTyped ==
  ASSUME NEW f, NEW pool, NEW c \in Catalogs
  PROVE  Context(f, pool, c) \in Contexts
<1> DEFINE cands == Candidates(f, pool)
           known == {s \in Stories : \E g \in cands : <<g, s>> \in c.links}
           rows  == [s \in known |-> c.story[s]]
           names == c.names \cap UNION {Surface[g] : g \in cands \cup {f}}
<1>1. cands \in SUBSET Fragments
  BY CandidatesAre
<1>2. names \in SUBSET Names
  BY DEF Catalogs
<1>3. \A s \in Stories : c.story[s] \in StoryRows
  BY NoStoryTyped DEF Catalogs
<1>4. rows \in [known -> StoryRows] /\ known \in SUBSET Stories
  BY <1>3
<1>5. rows \in UNION {[S -> StoryRows] : S \in SUBSET Stories}
  BY <1>4
<1> HIDE DEF cands, rows, names
<1>6. [cands |-> cands, stories |-> rows, names |-> names] \in Contexts
  BY <1>1, <1>2, <1>5 DEF Contexts
<1> QED BY <1>6 DEF Context, cands, rows, names

\* The empty context is one.
LEMMA NoContextTyped == NoContext \in Contexts
  BY DEF NoContext, Contexts

\* The rows a context holds are rows of stories.
LEMMA ContextRows ==
  ASSUME NEW ctx \in Contexts
  PROVE  /\ ctx.cands \in SUBSET Fragments /\ ctx.names \in SUBSET Names
         /\ DOMAIN ctx.stories \in SUBSET Stories
         /\ ctx.stories \in [DOMAIN ctx.stories -> StoryRows]
  BY DEF Contexts

\* What an answer may be.
LEMMA AnswerIs ==
  ASSUME NEW ctx \in Contexts, NEW ans \in Answers(ctx)
  PROVE  /\ ans.kind \in {"failed", "ambiguous", "unusable", "existing", "new"}
         /\ ans.kind \in {"existing", "new"} => ans \in Decisions /\ ans.story \in Stories
         /\ ans.kind = "existing" => ans.story \in DOMAIN ctx.stories
         /\ ans.kind = "failed" => ans = Failed
         /\ ans \in Decisions => ans.kind \in {"existing", "new"}
<1>1. ans \in {Failed, [kind |-> "ambiguous"], [kind |-> "unusable"]}
      \/ ans \in [kind : {"existing"}, story : DOMAIN ctx.stories]
      \/ ans \in [kind : {"new"}, story : Stories]
  BY DEF Answers
<1>2. CASE ans \in {Failed, [kind |-> "ambiguous"], [kind |-> "unusable"]}
  BY <1>2 DEF Failed, Decisions
<1>3. CASE ans \in [kind : {"existing"}, story : DOMAIN ctx.stories]
  BY <1>3, ContextRows DEF Decisions
<1>4. CASE ans \in [kind : {"new"}, story : Stories]
  BY <1>4 DEF Decisions
<1> QED BY <1>1, <1>2, <1>3, <1>4

\* The row that is saved is a row; it keeps the date of the row it replaces, and the key if it has one.
LEMMA ResolvedIs ==
  ASSUME NEW f \in Fragments, NEW known, NEW saved, NEW s \in Stories,
         s \in DOMAIN known => known[s] \in StoryRows,
         saved[s] \in StoryRows
  PROVE  /\ Resolved(f, known, saved, s) \in StoryRows
         /\ (s \in DOMAIN known => known[s] = saved[s]) /\ saved[s] # NoStory =>
              /\ Resolved(f, known, saved, s).seen = saved[s].seen
              /\ saved[s].key # NoKey => Resolved(f, known, saved, s).key = saved[s].key
<1> DEFINE held == IF s \in DOMAIN known THEN known[s]
                   ELSE IF saved[s] # NoStory THEN saved[s] ELSE [seen |-> At[f[1]], key |-> NoKey]
<1>1. held \in StoryRows
  BY OpenedTyped
<1>2. (s \in DOMAIN known => known[s] = saved[s]) /\ saved[s] # NoStory => held = saved[s]
  OBVIOUS
<1>3. Resolved(f, known, saved, s) =
        IF held.key = NoKey THEN [held EXCEPT !.key = EntityKey(f)] ELSE held
  BY DEF Resolved
<1> HIDE DEF held
<1> QED BY <1>1, <1>2, <1>3, KeyTyped DEF StoryRows

\* Saving a row leaves a catalog.
LEMMA SavedTyped ==
  ASSUME NEW c \in Catalogs, NEW f \in Fragments, NEW s \in Stories, NEW row \in StoryRows
  PROVE  Saved(c, f, s, row) \in Catalogs
<1>1. Surface[f] \subseteq Names
  BY DEF Names
<1>2. [c.story EXCEPT ![s] = row] \in [Stories -> {NoStory} \cup StoryRows]
  BY DEF Catalogs
<1> QED BY <1>1, <1>2 DEF Saved, Catalogs

-----------------------------------------------------------------------------
(* Loading and preparing.                                                  *)

\* A batch that is over leaves nothing behind but what it saved.
LEMMA ResetKeeps ==
  ASSUME IInv, Reset, UNCHANGED <<index, cat, batches>>,
         pending' \subseteq Pubs, decided' \subseteq Fragments, revived' \subseteq Pubs,
         ProcessedUnlessRevived'
  PROVE  IInv'
<1>1. /\ phase' = "idle" /\ strict' = TRUE /\ jobs' = {} /\ mem' = NoBatch /\ basis' = NoContext
      /\ prop' = [f \in Fragments |-> Unasked] /\ at' = Nowhere
  BY DEF Reset
<1>2. \A f \in Fragments : prop'[f] = Unasked /\ mem'.pool[f] = 0
  BY <1>1 DEF NoBatch
<1>3. NoBatch.pool \in [Fragments -> 0 .. 2] /\ NoBatch.cat \in Catalogs
  BY EmptyTyped DEF NoBatch
<1>4. TypeOK'
  BY <1>1, <1>2, <1>3, NoContextTyped DEF IInv, TypeOK, Unasked, Answers
<1>5. Batch' /\ Counted' /\ Mirrored' /\ Proposed' /\ Behind'
  BY <1>1, <1>2 DEF IInv, Batch, Counted, Mirrored, Proposed, Behind, Unasked
<1> QED BY <1>4, <1>5 DEF IInv

\* The books are empty, everything is on the queue.
LEMMA InitInv == Init => IInv
<1> SUFFICES ASSUME Init PROVE IInv
  OBVIOUS
<1>1. \A f \in Fragments : prop[f] = Unasked /\ mem.pool[f] = 0
  BY DEF Init, NoBatch
<1>2. mem.pool \in [Fragments -> 0 .. 2] /\ mem.cat \in Catalogs
  BY EmptyTyped DEF Init, NoBatch
<1>3. TypeOK
  BY <1>1, <1>2, EmptyTyped, NoContextTyped, BatchesNat DEF Init, TypeOK, Unasked, Answers
<1>4. Batch /\ Counted /\ Mirrored /\ Proposed /\ Behind /\ ProcessedUnlessRevived
  BY <1>1 DEF Init, Batch, Counted, Mirrored, Proposed, Behind, Unasked, ProcessedUnlessRevived,
              EmptyCatalog
<1> QED BY <1>3, <1>4 DEF IInv

\* What is loaded is the database in reach of the jobs.
LEMMA LoadedIs ==
  ASSUME NEW S \in SUBSET Pubs, index \subseteq Fragments, cat \in Catalogs,
         \A l \in cat.links : l[1] \in index
  PROVE  LET m == Loaded(S) IN
         /\ m.pool \in [Fragments -> 0 .. 1] /\ m.cat \in Catalogs
         /\ \A f \in Fragments : m.pool[f] > 0 <=> f \in index \cap Window(S)
         /\ m.cat.links \subseteq cat.links
         /\ \A f \in Fragments, s \in Stories :
              m.pool[f] > 0 /\ <<f, s>> \in cat.links =>
                 <<f, s>> \in m.cat.links /\ m.cat.story[s] = cat.story[s]
         /\ m.cat.names \subseteq cat.names
         /\ \A l \in cat.links, f \in Fragments :
              m.pool[f] > 0 /\ f[1] = l[1][1] => Surface[l[1]] \cap cat.names \subseteq m.cat.names
         /\ \A f \in Fragments :
              m.pool[f] > 0 \/ f[1] \in S =>
                 Surface[f] \cap Released \cap cat.names \subseteq m.cat.names
<1> DEFINE inPool == {f \in index : \E p \in S : At[f[1]] >= At[p] - Lookback}
           pool   == [f \in Fragments |-> IF f \in inPool THEN 1 ELSE 0]
           links  == {l \in cat.links : l[1] \in Of({f[1] : f \in inPool})}
           names  == Found(cat, Linked(cat, {f[1] : f \in inPool}),
                           UNION {Surface[f] : f \in inPool \cup Of(S)})
           story  == [s \in Stories |-> IF \E l \in links : l[2] = s THEN cat.story[s] ELSE NoStory]
<1>1. Loaded(S) = [pool |-> pool, cat |-> [links |-> links, names |-> names, story |-> story]]
  BY DEF Loaded
<1>2. pool \in [Fragments -> 0 .. 1]
  OBVIOUS
<1>3. \A f \in Fragments : pool[f] > 0 <=> f \in index \cap Window(S)
  BY DEF Window
<1>4. links \subseteq cat.links /\ names \subseteq Names /\ names \subseteq cat.names
  BY DEF Catalogs, Found
<1>5. story \in [Stories -> {NoStory} \cup StoryRows]
  BY DEF Catalogs
<1>6. [links |-> links, names |-> names, story |-> story] \in Catalogs
  BY <1>4, <1>5 DEF Catalogs
<1>7. \A f \in Fragments, s \in Stories :
        f \in inPool /\ <<f, s>> \in cat.links => <<f, s>> \in links /\ story[s] = cat.story[s]
  <2> SUFFICES ASSUME NEW f \in Fragments, NEW s \in Stories, f \in inPool, <<f, s>> \in cat.links
               PROVE  <<f, s>> \in links /\ story[s] = cat.story[s]
    OBVIOUS
  <2>1. f \in Of({g[1] : g \in inPool})
    BY DEF Of
  <2>2. <<f, s>> \in links
    BY <2>1
  <2>3. \E l \in links : l[2] = s
    BY <2>2
  <2> QED BY <2>2, <2>3
<1>8. \A f \in Fragments :
        f \in inPool \/ f[1] \in S => Surface[f] \cap Released \cap cat.names \subseteq names
  BY DEF Of, Found
<1>10. ASSUME NEW l \in cat.links, NEW f \in Fragments, f \in inPool, f[1] = l[1][1]
       PROVE  Surface[l[1]] \cap cat.names \subseteq names
  <2>1. l[1][1] \in {g[1] : g \in inPool}
    BY <1>10
  <2>2. Surface[l[1]] \subseteq Linked(cat, {g[1] : g \in inPool})
    BY <2>1 DEF Linked
  <2> QED BY <2>2 DEF Found
<1>9. \A f \in Fragments : pool[f] > 0 <=> f \in inPool
  OBVIOUS
<1> HIDE DEF inPool, pool, links, names, story
<1> QED BY <1>1, <1>2, <1>3, <1>4, <1>6, <1>7, <1>8, <1>9, <1>10

\* The copy starts as a mirror.
LEMMA LoadKeeps == ASSUME IInv, Load PROVE IInv'
<1>1. PICK S \in (SUBSET pending) \ {{}} : jobs' = S /\ mem' = Loaded(S)
  BY DEF Load
<1>2. /\ phase = "idle" /\ phase' = "embed" /\ strict' \in BOOLEAN /\ batches' = batches + 1
      /\ batches < MaxBatches
      /\ UNCHANGED <<index, cat, pending, prop, at, basis, decided, revived>>
  BY DEF Load, db
<1>3. S \in SUBSET Pubs /\ index \subseteq Fragments /\ cat \in Catalogs
      /\ \A l \in cat.links : l[1] \in index
  BY DEF IInv, TypeOK, Mirrored
<1>4. TypeOK'
  <2>1. mem'.pool \in [Fragments -> 0 .. 2] /\ mem'.cat \in Catalogs
    BY <1>1, <1>3, LoadedIs
  <2>2. batches' \in 0 .. MaxBatches
    BY <1>2, BatchesNat DEF IInv, TypeOK
  <2> QED BY <1>1, <1>2, <1>3, <2>1, <2>2 DEF IInv, TypeOK
<1>5. Batch' /\ Behind' /\ Proposed'
  BY <1>1, <1>2 DEF IInv, Batch, Behind, Proposed
<1>6. Counted'
  BY <1>1, <1>3, LoadedIs DEF Counted
<1>7. Mirrored'
  <2>1. Window(jobs)' = Window(S)
    BY <1>1 DEF Window
  <2> QED BY <1>1, <1>2, <1>3, <2>1, LoadedIs DEF Mirrored
<1>8. ProcessedUnlessRevived'
  BY <1>2 DEF IInv, ProcessedUnlessRevived
<1> QED BY <1>4, <1>5, <1>6, <1>7, <1>8 DEF IInv

\* Every task starts at its first fragment.
LEMMA EmbedKeeps == ASSUME IInv, Embed PROVE IInv'
<1>1. phase = "embed" /\ phase' = "prepare"
      /\ UNCHANGED <<index, cat, pending, strict, jobs, prop, mem, at, basis, decided, revived, batches>>
  BY DEF Embed, db, local
<1>2. \A p \in jobs : Front(p, 1) /\ 1 \in 1 .. FragCount[p] + 1
  <2> SUFFICES ASSUME NEW p \in jobs PROVE Front(p, 1) /\ 1 \in 1 .. FragCount[p] + 1
    OBVIOUS
  <2>1. p \in Pubs /\ FragCount[p] \in Nat
    BY PubIs DEF IInv, TypeOK
  <2>2. \A i \in 1 .. FragCount[p] : prop[<<p, i>>].state = "none"
    BY <1>1, <2>1 DEF IInv, Proposed, Fragments
  <2> QED BY <2>1, <2>2 DEF Front
<1>3. \A p, k : Front(p, k)' <=> Front(p, k)
  BY <1>1 DEF Front
<1>4. Proposed'
  BY <1>1, <1>2, <1>3 DEF IInv, Proposed
<1>5. TypeOK' /\ Batch' /\ Behind'
  BY <1>1 DEF IInv, TypeOK, Batch, Behind
<1>6. Counted' /\ Mirrored' /\ ProcessedUnlessRevived'
  BY <1>1 DEF IInv, Counted, Mirrored, ProcessedUnlessRevived, Window
<1> QED BY <1>4, <1>5, <1>6 DEF IInv

\* A batch without vectors puts nothing on the queue that was not there.
LEMMA EmbedFailKeeps == ASSUME IInv, EmbedFail PROVE IInv'
<1>1. pending' = pending
  BY DEF IInv, Batch, EmbedFail
<1> QED BY <1>1, ResetKeeps DEF IInv, TypeOK, EmbedFail, ProcessedUnlessRevived

\* Nor does one that is given up.
LEMMA AbandonKeeps == ASSUME IInv, Abandon PROVE IInv'
  BY ResetKeeps DEF IInv, TypeOK, Abandon, db, ProcessedUnlessRevived

\* A task is at the first fragment it has no answer for, and asks about that one.
LEMMA ProposeKeeps == ASSUME IInv, NEW f \in Fragments, Propose(f) PROVE IInv'
<1> DEFINE ctx == Context(f, mem.pool, mem.cat)
<1>1. /\ phase = "prepare" /\ f \in Askable
      /\ UNCHANGED <<index, cat, pending, phase, strict, jobs, mem, at, basis, decided, revived, batches>>
  BY DEF Propose, db
<1>2. PICK q : /\ prop' = [prop EXCEPT ![f] = q]
               /\ q.state \in {"deferred", "failed", "answered"} /\ q.ctx = ctx
               /\ q.ans \in Answers(ctx) /\ (q.state # "answered" => q.ans = Failed)
  <2>1. CASE Deferred(f, ctx)
    <3> DEFINE new == [state |-> "deferred", ctx |-> ctx, ans |-> Failed]
    <3>1. prop' = [prop EXCEPT ![f] = new]
      BY <2>1 DEF Propose
    <3>2. new.state = "deferred" /\ new.ctx = ctx /\ new.ans = Failed /\ Failed \in Answers(ctx)
      BY DEF Answers
    <3> HIDE DEF new, ctx
    <3> QED BY <3>1, <3>2
  <2>2. CASE ~Deferred(f, ctx)
    <3>1. PICK ans \in Answers(ctx) : prop' = [prop EXCEPT ![f] =
            [state |-> IF ans = Failed THEN "failed" ELSE "answered", ctx |-> ctx, ans |-> ans]]
      BY <2>2 DEF Propose
    <3> DEFINE new == [state |-> IF ans = Failed THEN "failed" ELSE "answered", ctx |-> ctx, ans |-> ans]
    <3>2. /\ new.state \in {"failed", "answered"} /\ new.ctx = ctx /\ new.ans = ans
          /\ new.state = "failed" => ans = Failed
      OBVIOUS
    <3>3. prop' = [prop EXCEPT ![f] = new]
      BY <3>1
    <3> HIDE DEF new, ctx
    <3> QED BY <3>2, <3>3
  <2> QED BY <2>1, <2>2
<1>3. ctx \in Contexts
  BY ContextTyped DEF IInv, TypeOK
<1> HIDE DEF ctx
<1>4. /\ prop' = [g \in Fragments |-> prop'[g]] /\ prop'[f] = q
      /\ \A g \in Fragments : g # f => prop'[g] = prop[g]
  BY <1>2 DEF IInv, Proposed
<1>5. TypeOK'
  BY <1>1, <1>2, <1>3, <1>4 DEF IInv, TypeOK
<1>6. Batch' /\ Counted' /\ Mirrored' /\ Behind' /\ ProcessedUnlessRevived'
  BY <1>1 DEF IInv, Batch, Counted, Mirrored, Behind, ProcessedUnlessRevived, Window
<1>7. ASSUME strict, NEW p \in jobs PROVE \E k \in 1 .. FragCount[p] + 1 : Front(p, k)'
  <2>1. PICK k \in 1 .. FragCount[p] + 1 : Front(p, k)
    BY <1>1, <1>7 DEF IInv, Proposed
  <2>2. p \in Pubs /\ FragCount[p] \in Nat /\ k \in Nat
    BY PubIs DEF IInv, TypeOK
  <2>3. \A i \in 1 .. FragCount[p] : <<p, i>> \in Fragments
    BY <2>2 DEF Fragments
  <2>4. CASE f[1] # p
    <3>1. \A i \in 1 .. FragCount[p] : prop'[<<p, i>>] = prop[<<p, i>>]
      BY <1>4, <2>3, <2>4
    <3>2. Front(p, k)'
      BY <2>1, <2>2, <3>1 DEF Front
    <3> QED BY <3>2
  <2>5. CASE f[1] = p
    <3>1. f = <<p, f[2]>> /\ f[2] \in 1 .. FragCount[p] /\ prop[f].state = "none"
      BY <1>1, <2>5, FragmentIs DEF Askable
    <3>2. \A i \in 1 .. f[2] - 1 : prop[<<p, i>>].state \in {"deferred", "answered"}
      BY <1>1, <1>7, <2>5 DEF Askable, Turn
    <3>3. f[2] = k
      BY <2>1, <2>2, <3>1, <3>2 DEF Front
    <3>4. \A i \in 1 .. FragCount[p] : i # k => prop'[<<p, i>>] = prop[<<p, i>>]
      BY <1>4, <2>3, <3>1, <3>3
    <3>5. prop'[<<p, k>>] = q /\ k <= FragCount[p]
      BY <1>4, <3>1, <3>3
    <3>6. CASE q.state = "failed"
      <4>1. Front(p, k)'
        BY <2>1, <2>2, <3>4, <3>5, <3>6 DEF Front
      <4> QED BY <4>1
    <3>7. CASE q.state # "failed"
      <4>1. k + 1 \in 1 .. FragCount[p] + 1
        BY <2>2, <3>5
      <4>2. \A i \in 1 .. k : prop'[<<p, i>>].state \in {"deferred", "answered"}
        BY <1>2, <2>1, <2>2, <3>4, <3>5, <3>7 DEF Front
      <4>3. \A i \in k + 1 .. FragCount[p] : prop'[<<p, i>>].state = "none"
        BY <2>1, <2>2, <3>4 DEF Front
      <4>4. Front(p, k + 1)'
        BY <2>2, <4>2, <4>3 DEF Front
      <4> QED BY <4>1, <4>4
    <3> QED BY <3>6, <3>7
  <2> QED BY <2>4, <2>5
<1>8. Proposed'
  BY <1>1, <1>2, <1>4, <1>7 DEF IInv, Proposed
<1> QED BY <1>5, <1>6, <1>8 DEF IInv

\* Nothing left to ask: a task that stopped short stopped at a failed fragment.
LEMMA GatherKeeps == ASSUME IInv, Gather PROVE IInv'
<1>1. /\ phase = "prepare" /\ Askable = {} /\ phase' = IF strict THEN "commit" ELSE "reconsider"
      /\ at' \in FirstOf(jobs)
      /\ UNCHANGED <<index, cat, pending, strict, jobs, prop, mem, basis, decided, revived, batches>>
  BY DEF Gather, db
<1>2. PICK p \in jobs : at' = <<p, 1>> /\ \A r \in jobs : p <= r
  BY <1>1 DEF FirstOf
<1>3. jobs \subseteq Pubs /\ jobs \subseteq pending /\ p \in Nat
  BY <1>1, PubIs DEF IInv, TypeOK, Batch
<1>4. TypeOK' /\ Mirrored' /\ ProcessedUnlessRevived'
  BY <1>1 DEF IInv, TypeOK, Mirrored, ProcessedUnlessRevived, Window
<1>5. Batch' /\ Behind'
  <2>1. at'[1] = p /\ at'[2] = 1 /\ at' \in jobs \X (Nat \ {0}) /\ 1 .. at'[2] - 1 = {}
    BY <1>2
  <2>2. \A r \in jobs : r >= at'[1] => r \in pending
    BY <1>3
  <2> QED BY <1>1, <1>3, <2>1, <2>2 DEF IInv, Batch, Behind
<1>6. Counted'
  BY <1>1 DEF IInv, Counted
<1>7. ASSUME NEW f \in Of(jobs), prop[f].state = "none"
      PROVE  strict /\ \E i \in 1 .. f[2] - 1 : prop[<<f[1], i>>].state = "failed"
  <2>1. ~Turn(f)
    BY <1>1, <1>7 DEF Askable
  <2>2. strict /\ \E i \in 1 .. f[2] - 1 : prop[<<f[1], i>>].state \notin {"deferred", "answered"}
    BY <2>1 DEF Turn
  <2>3. f = <<f[1], f[2]>> /\ f[1] \in jobs /\ f[1] \in Pubs /\ f[2] \in 1 .. FragCount[f[1]]
        /\ FragCount[f[1]] \in Nat
    BY FragmentIs, PubIs DEF Of
  <2>4. PICK k \in 1 .. FragCount[f[1]] + 1 : Front(f[1], k)
    BY <1>1, <2>2, <2>3 DEF IInv, Proposed
  <2>5. k < f[2] /\ k <= FragCount[f[1]] /\ prop[<<f[1], k>>].state \in {"none", "failed"}
    BY <1>7, <2>2, <2>3, <2>4 DEF Front
  <2>6. CASE prop[<<f[1], k>>].state = "none"
    <3>1. <<f[1], k>> \in Of(jobs) /\ <<f[1], k>> \in Fragments
      BY <2>3, <2>5 DEF Of, Fragments
    <3>2. Turn(<<f[1], k>>)
      BY <2>4 DEF Turn, Front
    <3> QED BY <1>1, <2>6, <3>1, <3>2 DEF Askable
  <2>7. CASE prop[<<f[1], k>>].state = "failed"
    BY <2>2, <2>3, <2>5, <2>7
  <2> QED BY <2>5, <2>6, <2>7
<1>8. Proposed'
  <2>1. Of(jobs)' = Of(jobs)
    BY <1>1 DEF Of
  <2>2. CASE strict
    BY <1>1, <1>7, <2>1, <2>2 DEF IInv, Proposed
  <2>3. CASE ~strict
    BY <1>1, <1>7, <2>1, <2>3 DEF IInv, Proposed
  <2> QED BY <2>2, <2>3
<1> QED BY <1>4, <1>5, <1>6, <1>8 DEF IInv

\* A nominee opens a story; the proposal that joins it is well formed.
LEMMA JoinedTyped ==
  ASSUME TypeOK, NEW f \in Fragments, NEW g \in Nominees(f)
  PROVE  Joined(f, g).state = "answered" /\ Joined(f, g).ctx \in Contexts
         /\ Joined(f, g).ans \in Answers(Joined(f, g).ctx)
<1> DEFINE old == prop[f].ctx
           s   == prop[g].ans.story
           all == DOMAIN old.stories \cup {prop[h].ans.story : h \in Nominees(f)}
           rows == [n \in all |-> IF n \in DOMAIN old.stories THEN old.stories[n]
                                  ELSE Opened(CHOOSE h \in Nominees(f) : prop[h].ans.story = n)]
           ctx == [old EXCEPT !.cands = @ \cup Nominees(f), !.stories = rows]
<1>1. old \in Contexts /\ Nominees(f) \subseteq Fragments
  BY DEF TypeOK, Nominees, Prior, Of
<1>2. \A h \in Nominees(f) : prop[h].ans.story \in Stories
  BY <1>1, AnswerIs DEF TypeOK, Nominees
<1>3. rows \in [all -> StoryRows] /\ all \in SUBSET Stories
  <2>1. all \in SUBSET Stories
    BY <1>1, <1>2, ContextRows
  <2>2. \A n \in all : rows[n] \in StoryRows
    <3> SUFFICES ASSUME NEW n \in all PROVE rows[n] \in StoryRows
      OBVIOUS
    <3>1. CASE n \in DOMAIN old.stories
      BY <1>1, <3>1, ContextRows
    <3>2. CASE n \notin DOMAIN old.stories
      <4>1. (CHOOSE h \in Nominees(f) : prop[h].ans.story = n) \in Fragments
        BY <1>1, <3>2
      <4> QED BY <3>2, <4>1, OpenedTyped DEF Opened
    <3> QED BY <3>1, <3>2
  <2> QED BY <2>1, <2>2
<1>4. rows \in UNION {[S -> StoryRows] : S \in SUBSET Stories}
  BY <1>3
<1>5. Joined(f, g) = [state |-> "answered", ctx |-> ctx, ans |-> [kind |-> "existing", story |-> s]]
  BY DEF Joined
<1>6. s \in all /\ DOMAIN rows = all
  OBVIOUS
<1> HIDE DEF rows, all, s
<1>7. ctx \in Contexts /\ ctx.stories = rows
  BY <1>1, <1>4 DEF Contexts
<1> HIDE DEF ctx, old
<1>8. [kind |-> "existing", story |-> s] \in Answers(ctx)
  BY <1>6, <1>7 DEF Answers
<1> QED BY <1>5, <1>7, <1>8

\* Reconsidering changes answers for answers.
LEMMA ReconsiderKeeps == ASSUME IInv, Reconsider PROVE IInv'
<1>1. /\ phase = "reconsider" /\ phase' = "commit"
      /\ UNCHANGED <<index, cat, pending, strict, jobs, mem, at, basis, decided, revived, batches>>
  BY DEF Reconsider, db
<1>2. /\ prop' = [f \in Fragments |-> prop'[f]]
      /\ \A f \in Fragments : prop'[f] = prop[f] \/ \E g \in Nominees(f) : prop'[f] = Joined(f, g)
  BY DEF Reconsider
<1>3. ASSUME NEW f \in Fragments, prop'[f] # prop[f]
      PROVE  /\ prop[f].state = "answered" /\ prop'[f].state = "answered"
             /\ prop'[f].ctx \in Contexts /\ prop'[f].ans \in Answers(prop'[f].ctx)
  <2>1. PICK g \in Nominees(f) : prop'[f] = Joined(f, g)
    BY <1>2, <1>3
  <2>2. prop[f].ans # Failed
    BY <2>1 DEF Nominees, Failed
  <2> QED BY <2>1, <2>2, JoinedTyped DEF IInv, Proposed
<1>4. TypeOK'
  BY <1>1, <1>3 DEF IInv, TypeOK
<1>5. Batch' /\ Counted' /\ Mirrored' /\ ProcessedUnlessRevived'
  BY <1>1 DEF IInv, Batch, Counted, Mirrored, ProcessedUnlessRevived, Window
<1>6. Behind'
  <2>1. 1 .. at[2] - 1 = {}
    BY <1>1 DEF IInv, Batch
  <2> QED BY <1>1, <2>1 DEF Behind
<1>7. Proposed'
  <2>1. \A f \in Of(jobs) : f \in Fragments /\ prop'[f].state # "none"
    BY <1>1, <1>3 DEF IInv, Proposed, Of
  <2>2. Of(jobs)' = Of(jobs)
    BY <1>1 DEF Of
  <2> QED BY <1>1, <1>2, <1>3, <2>1, <2>2 DEF IInv, Proposed
<1> QED BY <1>4, <1>5, <1>6, <1>7 DEF IInv

-----------------------------------------------------------------------------
(* Committing.                                                             *)

\* The database's fragments as SequentialAssign lists them.
Listed == [f \in Fragments |-> IF f \notin index THEN 0 ELSE IF mem.pool[f] = 2 THEN 2 ELSE 1]

\* Two pools that agree on a fragment's rivals give it the same candidates.
LEMMA SameCandidates ==
  ASSUME NEW f, NEW p, NEW q, \A c \in Earlier(f, p) \cup Earlier(f, q) : p[c] = q[c]
  PROVE  Candidates(f, p) = Candidates(f, q)
<1>1. Earlier(f, p) = Earlier(f, q)
  BY DEF Earlier
<1>2. ASSUME NEW C \in SUBSET Earlier(f, p) PROVE First(f, p, C) = First(f, q, C)
  <2>1. ASSUME NEW D \in SUBSET C PROVE Sum(p, D) = Sum(q, D)
    <3>1. UNION {{c} \X (1 .. p[c]) : c \in D} = UNION {{c} \X (1 .. q[c]) : c \in D}
      BY <1>1
    <3> QED BY <3>1 DEF Sum, Units
  <2> QED BY <2>1 DEF First
<1> QED BY <1>1, <1>2 DEF Candidates

\* While a fragment of the batch is committed, its context in the local copies
\* is its context in the database, with the entities the store finds or more.
LEMMA ContextMirrored ==
  ASSUME IInv, phase # "idle", NEW f \in Of(jobs)
  PROVE  LET copy  == Context(f, mem.pool, mem.cat)
             all   == Context(f, Listed, cat)
             store == StoreContext(f, Listed, cat)
         IN  /\ copy = [all EXCEPT !.names = copy.names]
             /\ copy.stories = all.stories
             /\ copy.names \subseteq all.names /\ store.names \subseteq copy.names
<1>1. /\ f \in Fragments /\ f[1] \in jobs /\ f[1] \in Pubs
      /\ Lookback \in Nat /\ \A c \in Fragments : At[c[1]] \in Nat
  BY FragmentIs, PubIs, DatesNat DEF Of
<1>2. ASSUME NEW c \in Fragments, At[f[1]] - Lookback <= At[c[1]]
      PROVE  mem.pool[c] = Listed[c]
  <2>1. c \in Window(jobs)
    BY <1>1, <1>2 DEF Window
  <2>2. mem.pool[c] \in 0 .. 2 /\ (mem.pool[c] > 0 <=> c \in index)
    BY <2>1 DEF IInv, TypeOK, Mirrored
  <2> QED BY <2>2 DEF Listed
<1>3. Candidates(f, mem.pool) = Candidates(f, Listed)
  BY <1>2, SameCandidates DEF Earlier
<1> DEFINE cands == Candidates(f, mem.pool)
<1>4. \A c \in cands : c \in Fragments /\ mem.pool[c] > 0
  BY CandidatesAre DEF Earlier
<1>5. \A c \in cands, s \in Stories : /\ <<c, s>> \in mem.cat.links <=> <<c, s>> \in cat.links
                                      /\ <<c, s>> \in cat.links => mem.cat.story[s] = cat.story[s]
  BY <1>4 DEF IInv, Mirrored
<1> DEFINE names(k) == k.names \cap UNION {Surface[c] : c \in cands \cup {f}}
<1>6. ASSUME NEW n \in names(cat), n \in Linked(cat, {c[1] : c \in cands}) \cup Released
      PROVE  n \in mem.cat.names
  <2>1. CASE n \in Released
    BY <1>1, <1>4, <2>1 DEF IInv, Mirrored
  <2>2. CASE n \in Linked(cat, {c[1] : c \in cands})
    <3>1. PICK l \in cat.links : l[1][1] \in {c[1] : c \in cands} /\ n \in Surface[l[1]]
      BY <2>2 DEF Linked
    <3>2. PICK c \in cands : c[1] = l[1][1]
      BY <3>1
    <3> QED BY <1>4, <3>1, <3>2 DEF IInv, Mirrored
  <2> QED BY <1>6, <2>1, <2>2
<1> HIDE DEF cands
<1> DEFINE known(k) == {s \in Stories : \E c \in cands : <<c, s>> \in k.links}
<1>7. known(mem.cat) = known(cat) /\ \A s \in known(cat) : mem.cat.story[s] = cat.story[s]
  BY <1>5
<1>8. [s \in known(mem.cat) |-> mem.cat.story[s]] = [s \in known(cat) |-> cat.story[s]]
  BY <1>7
<1>9. names(mem.cat) \subseteq names(cat)
  BY DEF IInv, Mirrored
<1> DEFINE rows(k) == [s \in known(k) |-> k.story[s]]
<1>10. /\ Context(f, mem.pool, mem.cat) =
           [cands |-> cands, stories |-> rows(mem.cat), names |-> names(mem.cat)]
       /\ Context(f, Listed, cat) = [cands |-> cands, stories |-> rows(cat), names |-> names(cat)]
  BY <1>3 DEF Context, cands
<1>11. rows(mem.cat) = rows(cat)
  BY <1>8
<1> HIDE DEF rows, names, known
<1>12. StoreContext(f, Listed, cat).names
         = names(cat) \cap Found(cat, Linked(cat, {c[1] : c \in cands}), names(cat))
  BY <1>10 DEF StoreContext
<1>13. ASSUME NEW n \in StoreContext(f, Listed, cat).names PROVE n \in names(mem.cat)
  <2>1. n \in names(cat) /\ n \in Linked(cat, {c[1] : c \in cands}) \cup Released
    BY <1>12, <1>13 DEF Found
  <2>2. n \in mem.cat.names
    BY <1>6, <2>1
  <2> QED BY <2>1, <2>2 DEF names
<1> QED BY <1>9, <1>10, <1>11, <1>13

\* The loop is at a fragment of one of its jobs, whose publication is queued.
LEMMA Here ==
  ASSUME IInv, phase = "commit"
  PROVE  /\ at = <<at[1], at[2]>> /\ at[1] \in jobs /\ at[2] \in Nat \ {0}
         /\ jobs \subseteq Pubs /\ at[1] \in pending
         /\ at \in Fragments => at \in Of(jobs)
<1>1. at \in jobs \X (Nat \ {0}) /\ jobs \subseteq Pubs
  BY DEF IInv, TypeOK, Batch
<1>2. at = <<at[1], at[2]>> /\ at[1] \in jobs /\ at[2] \in Nat \ {0} /\ at[1] \in Nat
  BY <1>1, PubIs
<1> QED BY <1>1, <1>2 DEF IInv, Batch, Of

\* What is committed is an answer for the context it was asked in.
LEMMA FinalIs ==
  ASSUME IInv, NEW f \in Fragments, NEW ans \in Final(f)
  PROVE  /\ AskedIn(f) \in Contexts /\ ans \in Answers(AskedIn(f))
         /\ strict => AskedIn(f) = Context(f, mem.pool, mem.cat)
         /\ ~strict => AskedIn(f) = prop[f].ctx /\ ans = prop[f].ans
<1>1. Context(f, mem.pool, mem.cat) \in Contexts /\ prop[f].ctx \in Contexts
      /\ prop[f].ans \in Answers(prop[f].ctx)
  BY ContextTyped DEF IInv, TypeOK
<1>2. strict /\ ~Stale(f, Current(f)) => prop[f].ctx = Context(f, mem.pool, mem.cat)
  BY DEF Stale, Current
<1> QED BY <1>1, <1>2 DEF Final, AskedIn, Current, Stale

\* A failed proposal is committed only if it is asked again.
LEMMA FailedIsAsked ==
  ASSUME IInv, NEW f \in Fragments, Asked(f), NEW ans \in Final(f), ans # Failed
  PROVE  /\ revived' \subseteq revived \cup {f[1]} /\ revived \subseteq revived'
         /\ prop[f].state = "failed" => f[1] \in revived'
<1>1. prop[f].state = "failed" => Stale(f, Current(f))
  BY DEF IInv, Proposed, Final
<1> QED BY <1>1 DEF Asked

\* Asking again revives at most the publication at hand.
LEMMA AskedIs ==
  ASSUME NEW f, Asked(f)
  PROVE  revived' \subseteq revived \cup {f[1]} /\ revived \subseteq revived'
  BY DEF Asked

\* The loop goes on to the next fragment of the publication.
LEMMA PassKeeps ==
  ASSUME IInv, phase = "commit", NEW f \in Fragments, at = f, at' = <<f[1], f[2] + 1>>,
         decided' = decided \cup {f}, Asked(f), NEW ans \in Final(f), ans # Failed,
         UNCHANGED <<phase, strict, jobs, prop, pending>>
  PROVE  /\ Batch' /\ Proposed' /\ Behind' /\ ProcessedUnlessRevived'
         /\ decided' \subseteq Fragments /\ revived' \subseteq Pubs
<1>1. f = <<f[1], f[2]>> /\ f[1] \in Pubs /\ f[2] \in Nat \ {0} /\ f[1] \in jobs
  BY Here
<1>2. at'[1] = f[1] /\ at'[2] = f[2] + 1 /\ at' \in jobs \X (Nat \ {0})
  BY <1>1
<1>3. revived \subseteq revived' /\ revived' \subseteq Pubs
      /\ (prop[f].state = "failed" => f[1] \in revived')
  BY <1>1, FailedIsAsked DEF IInv, TypeOK
<1>4. \A i \in 1 .. at'[2] - 1 : i = f[2] \/ i \in 1 .. f[2] - 1
  BY <1>1, <1>2
<1>5. Batch'
  BY <1>1, <1>2, <1>4 DEF IInv, Batch
<1>6. Behind'
  BY <1>1, <1>2, <1>3, <1>4 DEF IInv, Behind
<1>7. Proposed'
  BY DEF IInv, Proposed, Of
<1>8. ProcessedUnlessRevived'
  BY <1>3 DEF IInv, ProcessedUnlessRevived
<1> QED BY <1>3, <1>5, <1>6, <1>7, <1>8 DEF IInv, TypeOK

\* What a fragment and its story become, in the database and in the copies.
LEMMA StoryIs ==
  ASSUME IInv, NEW f \in Fragments, CommitStory(f)
  PROVE  \E ans \in Final(f) \cap Decisions :
           LET row == Resolved(f, KnownRows(f, ans), cat.story, ans.story) IN
           /\ ans.story \in Stories /\ row \in StoryRows
           /\ cat' = Saved(cat, f, ans.story, row)
           /\ mem' = [pool |-> [mem.pool EXCEPT ![f] = @ + 1], cat |-> Saved(mem.cat, f, ans.story, row)]
<1>1. PICK ans \in Final(f) \cap Decisions :
           LET row == Resolved(f, KnownRows(f, ans), cat.story, ans.story) IN
           /\ cat' = Saved(cat, f, ans.story, row)
           /\ mem' = [pool |-> [mem.pool EXCEPT ![f] = @ + 1], cat |-> Saved(mem.cat, f, ans.story, row)]
  BY DEF CommitStory
<1>2. ans.story \in Stories
  BY DEF Decisions
<1>3. Current(f) \in Contexts /\ prop[f].ctx \in Contexts
  BY ContextTyped DEF IInv, TypeOK, Current
<1>4. \A s \in Stories : cat.story[s] \in StoryRows /\ mem.cat.story[s] \in StoryRows
  BY NoStoryTyped DEF IInv, TypeOK, Catalogs
<1>5. ans.story \in DOMAIN KnownRows(f, ans) => KnownRows(f, ans)[ans.story] \in StoryRows
  BY <1>2, <1>3, <1>4, ContextRows DEF KnownRows
<1>6. Resolved(f, KnownRows(f, ans), cat.story, ans.story) \in StoryRows
  BY <1>2, <1>4, <1>5, ResolvedIs
<1> QED BY <1>1, <1>2, <1>6

\* Every save is made in both, so the copies stay a mirror.
LEMMA CommitStoryKeeps == ASSUME IInv, NEW f \in Fragments, CommitStory(f) PROVE IInv'
<1>1. PICK ans \in Final(f) \cap Decisions : \E row \in StoryRows :
        /\ ans.story \in Stories
        /\ cat' = Saved(cat, f, ans.story, row)
        /\ mem' = [pool |-> [mem.pool EXCEPT ![f] = @ + 1], cat |-> Saved(mem.cat, f, ans.story, row)]
  BY StoryIs
<1> DEFINE s == ans.story
<1>2. PICK row \in StoryRows :
        /\ s \in Stories /\ cat' = Saved(cat, f, s, row)
        /\ mem' = [pool |-> [mem.pool EXCEPT ![f] = @ + 1], cat |-> Saved(mem.cat, f, s, row)]
  BY <1>1
<1>3. /\ phase = "commit" /\ at = f /\ index' = index \cup {f} /\ basis' = AskedIn(f)
      /\ decided' = decided \cup {f} /\ Asked(f) /\ at' = <<f[1], f[2] + 1>>
      /\ UNCHANGED <<pending, phase, strict, jobs, prop, batches>>
  BY DEF CommitStory
<1>4. ans # Failed
  BY DEF Decisions, Failed
<1> HIDE DEF s
<1>5. /\ Batch' /\ Proposed' /\ Behind' /\ ProcessedUnlessRevived'
      /\ decided' \subseteq Fragments /\ revived' \subseteq Pubs
  BY <1>3, <1>4, PassKeeps
<1>6. f = <<f[1], f[2]>> /\ f[1] \in jobs /\ f[1] \in Nat /\ f[2] \in Nat /\ f \in Of(jobs)
  BY <1>3, Here, FragmentIs, PubIs
<1>7. /\ mem.pool \in [Fragments -> 0 .. 2] /\ mem.pool[f] <= 1
      /\ mem'.pool = [mem.pool EXCEPT ![f] = @ + 1]
      /\ mem.cat \in Catalogs /\ cat \in Catalogs
  BY <1>2, <1>3, <1>6 DEF IInv, TypeOK, Counted, Ahead
<1>8. TypeOK'
  <2>1. mem'.pool \in [Fragments -> 0 .. 2]
    BY <1>7
  <2>2. mem'.cat \in Catalogs /\ cat' \in Catalogs
    BY <1>2, <1>7, SavedTyped
  <2>3. basis' \in Contexts
    BY <1>3, FinalIs
  <2> QED BY <1>3, <1>5, <2>1, <2>2, <2>3 DEF IInv, TypeOK
<1>9. Counted'
  <2> SUFFICES ASSUME NEW g \in Fragments, Ahead(g)' PROVE mem'.pool[g] <= 1
    BY <1>3 DEF Counted
  <2>1. g[1] \in Nat /\ g[2] \in Nat
    BY FragmentIs, PubIs
  <2>2. Ahead(g) /\ g # f
    BY <1>3, <1>6, <2>1 DEF Ahead
  <2> QED BY <1>3, <1>7, <2>2 DEF IInv, Counted
<1>10. Mirrored'
  <2>1. /\ cat'.links = cat.links \cup {<<f, s>>} /\ mem'.cat.links = mem.cat.links \cup {<<f, s>>}
        /\ cat'.names = cat.names \cup Surface[f] /\ mem'.cat.names = mem.cat.names \cup Surface[f]
        /\ cat'.story = [cat.story EXCEPT ![s] = row]
        /\ mem'.cat.story = [mem.cat.story EXCEPT ![s] = row]
    BY <1>2 DEF Saved
  <2>2. cat'.story[s] = row /\ mem'.cat.story[s] = row
        /\ \A t \in Stories : t # s => cat'.story[t] = cat.story[t] /\ mem'.cat.story[t] = mem.cat.story[t]
    BY <1>2, <1>7, <2>1 DEF Catalogs
  <2>3. \A g \in Fragments : mem'.pool[g] > 0 <=> (g = f \/ mem.pool[g] > 0)
    BY <1>7
  <2>4. \A l \in cat'.links : l[1] \in index'
    BY <1>3, <2>1 DEF IInv, Mirrored
  <2>5. \A g \in Fragments : mem'.pool[g] > 0 => g \in index'
    BY <1>3, <2>3 DEF IInv, Mirrored
  <2>6. \A g \in Window(jobs) : g \in index' => mem'.pool[g] > 0
    BY <1>3, <2>3 DEF IInv, Mirrored, Window
  <2>7. mem'.cat.links \subseteq cat'.links
    BY <1>3, <2>1 DEF IInv, Mirrored
  <2>8. ASSUME NEW g \in Fragments, NEW t \in Stories, mem'.pool[g] > 0, <<g, t>> \in cat'.links
        PROVE  <<g, t>> \in mem'.cat.links /\ mem'.cat.story[t] = cat'.story[t]
    <3>1. CASE mem.pool[g] > 0 /\ <<g, t>> \in cat.links
      BY <1>3, <2>1, <2>2, <3>1 DEF IInv, Mirrored
    <3>2. CASE <<g, t>> = <<f, s>>
      BY <2>1, <2>2, <3>2
    <3>3. CASE g = f /\ ~mem.pool[f] > 0 /\ <<g, t>> \in cat.links
      <4>1. f \in index
        BY <3>3 DEF IInv, Mirrored
      <4>2. f \in Window(jobs)
        BY <1>6, PubIs, DatesNat DEF Window, IInv, TypeOK
      <4> QED BY <1>3, <3>3, <4>1, <4>2 DEF IInv, Mirrored
    <3> QED BY <2>1, <2>3, <2>8, <3>1, <3>2, <3>3
  <2>9. mem'.cat.names \subseteq cat'.names
    BY <1>3, <2>1 DEF IInv, Mirrored
  <2>11. ASSUME NEW g \in Fragments, mem'.pool[g] > 0 \/ g[1] \in jobs
         PROVE  Surface[g] \cap Released \cap cat'.names \subseteq mem'.cat.names
    BY <1>3, <1>6, <2>1, <2>3, <2>11 DEF IInv, Mirrored
  <2>12. ASSUME NEW l \in cat'.links, NEW g \in Fragments, mem'.pool[g] > 0, g[1] = l[1][1]
         PROVE  Surface[l[1]] \cap cat'.names \subseteq mem'.cat.names
    <3>1. CASE l = <<f, s>>
      BY <2>1, <3>1
    <3>2. CASE l \in cat.links /\ mem.pool[g] > 0
      BY <1>3, <2>1, <2>12, <3>2 DEF IInv, Mirrored
    <3>3. CASE l \in cat.links /\ g = f
      <4>1. l[1] \in index /\ l[1] \in Fragments /\ l[1][1] = f[1]
        BY <2>12, <3>3 DEF IInv, TypeOK, Mirrored
      <4>2. l[1] \in Window(jobs)
        BY <1>6, <4>1, PubIs, DatesNat DEF Window, IInv, TypeOK
      <4>3. mem.pool[l[1]] > 0
        BY <1>3, <4>1, <4>2 DEF IInv, Mirrored
      <4>4. Surface[l[1]] \cap cat.names \subseteq mem.cat.names
        BY <1>3, <3>3, <4>1, <4>3 DEF IInv, Mirrored
      <4> QED BY <2>1, <4>4
    <3> QED BY <2>1, <2>3, <2>12, <3>1, <3>2, <3>3
  <2>10. Window(jobs)' = Window(jobs)
    BY <1>3 DEF Window
  <2> QED BY <1>3, <2>4, <2>5, <2>6, <2>7, <2>8, <2>9, <2>10, <2>11, <2>12 DEF Mirrored
<1> QED BY <1>5, <1>8, <1>9, <1>10 DEF IInv

\* An ambiguous fragment leaves nothing but the loop's progress.
LEMMA CommitAmbiguousKeeps == ASSUME IInv, NEW f \in Fragments, CommitAmbiguous(f) PROVE IInv'
<1>1. /\ phase = "commit" /\ at = f /\ [kind |-> "ambiguous"] \in Final(f) /\ basis' = AskedIn(f)
      /\ decided' = decided \cup {f} /\ Asked(f) /\ at' = <<f[1], f[2] + 1>>
      /\ UNCHANGED <<index, cat, pending, phase, strict, jobs, prop, mem, batches>>
  BY DEF CommitAmbiguous, db
<1>2. [kind |-> "ambiguous"] # Failed
  BY DEF Failed
<1>3. /\ Batch' /\ Proposed' /\ Behind' /\ ProcessedUnlessRevived'
      /\ decided' \subseteq Fragments /\ revived' \subseteq Pubs
  BY <1>1, <1>2, PassKeeps
<1>4. TypeOK'
  BY <1>1, <1>3, FinalIs DEF IInv, TypeOK
<1>5. Counted'
  <2> SUFFICES ASSUME NEW g \in Fragments, Ahead(g)' PROVE mem.pool[g] <= 1
    BY <1>1 DEF Counted
  <2>1. g[1] \in Nat /\ g[2] \in Nat /\ f[1] \in Nat /\ f[2] \in Nat
    BY FragmentIs, PubIs
  <2>2. Ahead(g)
    BY <1>1, <2>1 DEF Ahead
  <2> QED BY <1>1, <2>2 DEF IInv, Counted
<1>6. Mirrored'
  BY <1>1 DEF IInv, Mirrored, Window
<1> QED BY <1>3, <1>4, <1>5, <1>6 DEF IInv

\* The loop goes on to the next publication, or the batch is over.
LEMMA OnwardsKeeps ==
  ASSUME IInv, phase = "commit", Onwards(at[1]), UNCHANGED <<index, cat, batches>>,
         pending' \subseteq Pubs, \A q \in pending : q # at[1] => q \in pending',
         decided' \subseteq Fragments, revived' \subseteq Pubs, ProcessedUnlessRevived'
  PROVE  IInv'
<1>1. CASE Rest(at[1]) = {}
  BY <1>1, ResetKeeps DEF Onwards
<1>2. CASE Rest(at[1]) # {}
  <2>1. /\ at' \in FirstOf(Rest(at[1]))
        /\ UNCHANGED <<phase, strict, jobs, prop, mem, basis>>
    BY <1>2 DEF Onwards
  <2>2. PICK q \in Rest(at[1]) : at' = <<q, 1>>
    BY <2>1 DEF FirstOf
  <2>3. q \in jobs /\ q > at[1] /\ q \in Nat /\ at[1] \in Nat /\ jobs \subseteq Pubs
    BY <2>2, Here, PubIs DEF Rest
  <2>4. at'[1] = q /\ at'[2] = 1 /\ at' \in jobs \X (Nat \ {0}) /\ 1 .. at'[2] - 1 = {}
    BY <2>2, <2>3
  <2>5. \A p \in jobs : p >= q => p \in pending'
    BY <2>3, PubIs DEF IInv, Batch
  <2>6. Batch' /\ Behind'
    BY <2>1, <2>4, <2>5 DEF IInv, Batch, Behind
  <2>7. TypeOK'
    BY <2>1 DEF IInv, TypeOK
  <2>8. Proposed' /\ Mirrored'
    BY <2>1 DEF IInv, Proposed, Mirrored, Window, Of
  <2>9. Counted'
    <3> SUFFICES ASSUME NEW g \in Fragments, Ahead(g)' PROVE mem.pool[g] <= 1
      BY <2>1 DEF Counted
    <3>1. g[1] \in Nat /\ g[2] \in Nat
      BY FragmentIs, PubIs
    <3>2. Ahead(g)
      BY <2>3, <2>4, <3>1 DEF Ahead
    <3> QED BY <3>2 DEF IInv, Counted
  <2> QED BY <2>6, <2>7, <2>8, <2>9 DEF IInv
<1> QED BY <1>1, <1>2

\* A publication without a decision stays on the queue.
LEMMA CommitFailKeeps == ASSUME IInv, NEW f \in Fragments, CommitFail(f) PROVE IInv'
<1>1. /\ phase = "commit" /\ at = f /\ Asked(f) /\ Onwards(f[1]) /\ pending' = pending \cup {f[1]}
      /\ UNCHANGED <<index, cat, decided, batches>>
  BY DEF CommitFail
<1>2. f[1] \in Pubs /\ f[1] \in pending
  BY <1>1, Here
<1>3. revived' \subseteq Pubs /\ revived \subseteq revived' /\ pending \subseteq Pubs /\ pending' = pending
  BY <1>1, <1>2, AskedIs DEF IInv, TypeOK
<1>4. ProcessedUnlessRevived'
  BY <1>1, <1>3 DEF IInv, ProcessedUnlessRevived
<1> QED BY <1>1, <1>3, <1>4, OnwardsKeeps DEF IInv, TypeOK

\* A publication is marked when the loop has passed all its fragments, or met
\* one that was never proposed; that one is behind a failed one, asked again.
LEMMA MarkKeeps == ASSUME IInv, Mark PROVE IInv'
<1>1. /\ phase = "commit" /\ ~Prepared(at) /\ pending' = pending \ {at[1]} /\ Onwards(at[1])
      /\ UNCHANGED <<index, cat, decided, revived, batches>>
  BY DEF Mark
<1>2. /\ at = <<at[1], at[2]>> /\ at[1] \in jobs /\ at[1] \in Pubs /\ at[2] \in Nat \ {0}
      /\ FragCount[at[1]] \in Nat
      /\ at \in Fragments => at \in Of(jobs)
  BY <1>1, Here, PubIs
<1>3. at[1] \in revived \/ Of({at[1]}) \subseteq decided
  <2>1. CASE at \in Fragments
    <3>1. prop[at].state = "none" /\ at \in Of(jobs)
      BY <1>1, <1>2, <2>1 DEF Prepared
    <3>2. PICK i \in 1 .. at[2] - 1 : prop[<<at[1], i>>].state = "failed"
      BY <1>1, <3>1 DEF IInv, Proposed
    <3> QED BY <1>1, <3>2 DEF IInv, Behind
  <2>2. CASE at \notin Fragments
    <3>1. at[2] > FragCount[at[1]]
      BY <1>2, <2>2, FragmentIs
    <3>2. ASSUME NEW g \in Of({at[1]}) PROVE g \in decided
      <4>1. g = <<at[1], g[2]>> /\ g[2] \in 1 .. FragCount[at[1]]
        BY FragmentIs DEF Of
      <4>2. g[2] \in 1 .. at[2] - 1
        BY <1>2, <3>1, <4>1
      <4> QED BY <1>1, <4>1, <4>2 DEF IInv, Behind
    <3> QED BY <3>2
  <2> QED BY <2>1, <2>2
<1>4. ProcessedUnlessRevived'
  BY <1>1, <1>3 DEF IInv, ProcessedUnlessRevived, Of
<1> QED BY <1>1, <1>4, OnwardsKeeps DEF IInv, TypeOK

-----------------------------------------------------------------------------
(* The invariant, and what follows.                                        *)

\* Every step keeps the invariant.
LEMMA StepInv == IInv /\ [Next]_vars => IInv'
<1> SUFFICES ASSUME IInv, [Next]_vars PROVE IInv'
  OBVIOUS
<1>1. CASE UNCHANGED vars
  <2>1. UNCHANGED <<index, cat, pending, phase, strict, jobs, prop, mem, at, basis, decided, revived, batches>>
    BY <1>1 DEF vars, db, local
  <2>2. TypeOK' /\ Batch' /\ Counted' /\ Behind' /\ ProcessedUnlessRevived'
    BY <2>1 DEF IInv, TypeOK, Batch, Counted, Ahead, Behind, ProcessedUnlessRevived
  <2>3. \A p, k : Front(p, k)' <=> Front(p, k)
    BY <2>1 DEF Front
  <2>4. Mirrored' /\ Proposed'
    BY <2>1, <2>3 DEF IInv, Mirrored, Window, Proposed, Of
  <2> QED BY <2>2, <2>4 DEF IInv
<1> QED BY <1>1, LoadKeeps, EmbedKeeps, EmbedFailKeeps, AbandonKeeps, ProposeKeeps, GatherKeeps,
           ReconsiderKeeps, CommitStoryKeeps, CommitAmbiguousKeeps, CommitFailKeeps, MarkKeeps
        DEF Next

\* The invariant holds throughout.
THEOREM Invariance == Spec => []IInv
<1> QED BY InitInv, StepInv, PTL DEF Spec

\* The batch is well typed, and a publication leaves the queue only once each of
\* its fragments was decided on or a failed one asked again (agenda_assign.py:800).
THEOREM BatchSound == Spec => []BatchIsSound
<1>1. IInv => BatchIsSound
  BY DEF IInv, BatchIsSound
<1> QED BY <1>1, Invariance, PTL

\* A strict commit never takes back what a story has become: the row it writes is
\* resolved from the copy, which mirrors the database.
THEOREM StoriesKept == Spec => StrictKeepsStories
<1> DEFINE A == strict => \A s \in Stories : cat.story[s] # NoStory => Kept(s)
<1>1. IInv /\ [Next]_vars => [A]_vars
  <2> SUFFICES ASSUME IInv, Next, strict, NEW t \in Stories, cat.story[t] # NoStory PROVE Kept(t)
    OBVIOUS
  <2>1. CASE cat' = cat
    BY <2>1 DEF Kept
  <2>2. ASSUME NEW f \in Fragments, CommitStory(f) PROVE Kept(t)
    <3>1. PICK ans \in Final(f) \cap Decisions :
            LET row == Resolved(f, KnownRows(f, ans), cat.story, ans.story) IN
            /\ ans.story \in Stories /\ row \in StoryRows
            /\ cat' = Saved(cat, f, ans.story, row)
      BY <2>2, StoryIs
    <3> DEFINE s == ans.story
               row == Resolved(f, KnownRows(f, ans), cat.story, s)
    <3>2. s \in Stories /\ row \in StoryRows /\ cat' = Saved(cat, f, s, row)
      BY <3>1
    <3>3. f \in Of(jobs) /\ phase # "idle"
      BY <2>2, Here DEF CommitStory
    <3>4. KnownRows(f, ans) = Context(f, Listed, cat).stories
      BY <3>3, ContextMirrored DEF KnownRows, Current
    <3>5. s \in DOMAIN KnownRows(f, ans) => KnownRows(f, ans)[s] = cat.story[s]
      BY <3>4 DEF Context
    <3>6. \A u \in Stories : cat.story[u] \in StoryRows
      BY NoStoryTyped DEF IInv, TypeOK, Catalogs
    <3>7. cat.story[s] # NoStory => /\ row.seen = cat.story[s].seen
                                    /\ cat.story[s].key # NoKey => row.key = cat.story[s].key
      BY <3>2, <3>5, <3>6, ResolvedIs
    <3> HIDE DEF row, s
    <3>8. cat'.story = [cat.story EXCEPT ![s] = row] /\ cat.story \in [Stories -> {NoStory} \cup StoryRows]
      BY <3>2 DEF Saved, IInv, TypeOK, Catalogs
    <3> QED BY <3>2, <3>7, <3>8 DEF Kept
  <2>3. (\E f \in Fragments : CommitStory(f)) \/ cat' = cat
    BY DEF Next, Load, Embed, EmbedFail, Abandon, Propose, Gather, Reconsider, CommitAmbiguous,
           CommitFail, Mark, db
  <2> QED BY <2>1, <2>2, <2>3
<1>2. [][A]_vars => StrictKeepsStories
  BY DEF StrictKeepsStories
<1> QED BY <1>1, <1>2, Invariance, PTL DEF Spec

-----------------------------------------------------------------------------
(* The refinement.                                                         *)

\* The operators of SequentialAssign are those of AssignContext.
LEMMA SameOperators ==
  /\ Sequential!Fragments = Fragments /\ Sequential!Pubs = Pubs
  /\ Sequential!EmptyCatalog = EmptyCatalog /\ Sequential!NoContext = NoContext
  /\ Sequential!StoryRows = StoryRows /\ Sequential!Decisions = Decisions
  BY DEF Sequential!Fragments, Fragments, Sequential!Pubs, Pubs, Sequential!EmptyCatalog,
         EmptyCatalog, Sequential!NoContext, NoContext, Sequential!StoryRows, StoryRows,
         Sequential!Decisions, Decisions, Sequential!NoStory, NoStory, Sequential!NoKey, NoKey,
         Sequential!Names, Names

\* So are its contexts.
LEMMA SameContext ==
  ASSUME NEW f, NEW p, NEW c
  PROVE  /\ Sequential!Context(f, p, c) = Context(f, p, c)
         /\ Sequential!StoreContext(f, p, c) = StoreContext(f, p, c)
<1>1. ASSUME NEW C PROVE Sequential!Cardinality(C) = Cardinality(C)
  BY DEF Cardinality, Sequential!Cardinality
<1>2. ASSUME NEW C PROVE Sequential!Sum(p, C) = Sum(p, C)
  BY <1>1 DEF Sequential!Sum, Sum, Sequential!Units, Units
<1>3. ASSUME NEW C PROVE Sequential!First(f, p, C) = First(f, p, C)
  BY <1>2 DEF Sequential!First, First
<1>4. Sequential!Earlier(f, p) = Earlier(f, p)
  BY SameOperators DEF Sequential!Earlier, Earlier
<1>5. Sequential!Candidates(f, p) = Candidates(f, p)
  BY <1>3, <1>4 DEF Sequential!Candidates, Candidates
<1>6. Sequential!Context(f, p, c) = Context(f, p, c)
  BY <1>5 DEF Sequential!Context, Context
<1> QED BY <1>6 DEF Sequential!StoreContext, StoreContext, Sequential!Found, Found,
                    Sequential!Linked, Linked

\* And its answers and rows.
LEMMA SameDecisions ==
  ASSUME NEW f, NEW known, NEW saved, NEW s, NEW c, NEW row, NEW ctx
  PROVE  /\ Sequential!Resolved(f, known, saved, s) = Resolved(f, known, saved, s)
         /\ Sequential!Saved(c, f, s, row) = Saved(c, f, s, row)
         /\ Sequential!Answers(ctx) = Answers(ctx)
<1>1. Sequential!EntityKey(f) = EntityKey(f)
  BY DEF Sequential!EntityKey, EntityKey, Sequential!Names, Names, Sequential!Fragments,
         Fragments,
         Sequential!Pubs, Pubs, Sequential!NoKey, NoKey
<1> QED BY <1>1 DEF Sequential!Resolved, Resolved, Sequential!Saved, Saved, Sequential!Answers,
                    Answers, Sequential!Failed, Failed, Sequential!NoStory, NoStory,
                    Sequential!NoKey, NoKey

\* The fragments that fill two places.
Twice == {f \in Fragments : mem.pool[f] = 2}

\* The database as the loop's copy lists it is what fragments_since would list.
LEMMA PoolIsListed == Sequential!Pool = Listed
  BY SameOperators DEF Sequential!Pool, Listed

\* The context of the local copies is one of the moment's.
LEMMA CopyIsOfTheMoment ==
  ASSUME IInv, phase # "idle", NEW f \in Of(jobs)
  PROVE  /\ Context(f, mem.pool, mem.cat) \in Sequential!Moments(f)
         /\ Context(f, mem.pool, mem.cat).stories = Context(f, Listed, cat).stories
<1> DEFINE copy == Context(f, mem.pool, mem.cat)
           all  == Context(f, Listed, cat)
<1>1. /\ copy = [all EXCEPT !.names = copy.names] /\ copy.stories = all.stories
      /\ copy.names \in SUBSET all.names /\ StoreContext(f, Listed, cat).names \subseteq copy.names
  BY ContextMirrored
<1>2. Sequential!Moments(f) = {[all EXCEPT !.names = N] :
         N \in {M \in SUBSET all.names : StoreContext(f, Listed, cat).names \subseteq M}}
  BY PoolIsListed, SameContext DEF Sequential!Moments
<1> HIDE DEF copy, all
<1>3. copy.names \in {M \in SUBSET all.names : StoreContext(f, Listed, cat).names \subseteq M}
  BY <1>1
<1>4. copy \in Sequential!Moments(f)
  BY <1>1, <1>2, <1>3
<1> QED BY <1>1, <1>4 DEF copy, all

\* Nothing is listed twice in a new or a finished batch.
LEMMA NoneTwice ==
  ASSUME \A f \in Fragments : mem'.pool[f] \in 0 .. 1
  PROVE  Twice' = {}
  BY DEF Twice

\* A batch begins or ends.
LEMMA ResetIsBetween ==
  ASSUME Reset PROVE strict' \in BOOLEAN /\ Twice' = {} /\ basis' = NoContext
<1>1. \A f \in Fragments : mem'.pool[f] = 0
  BY DEF Reset, NoBatch
<1> QED BY <1>1 DEF Reset, Twice

\* Outside the commits of fragments nothing happens to the database.
LEMMA BetweenIs ==
  ASSUME strict' \in BOOLEAN, Twice' = {}, basis' = NoContext, UNCHANGED <<index, cat, pending>>
  PROVE  Sequential!Next
<1>1. Sequential!Between
  BY SameOperators DEF Sequential!Between, Sequential!Configure, Twice
<1> QED BY <1>1 DEF Sequential!Next

\* What the batch does by itself, it does not see.
LEMMA StutterIs ==
  ASSUME UNCHANGED <<index, cat, pending, basis, strict, mem>>
  PROVE  UNCHANGED Sequential!vars
<1>1. Twice' = Twice
  BY DEF Twice
<1> QED BY <1>1 DEF Sequential!vars, Twice

\* A commit adds the fragment to those listed, once more if it was.
LEMMA TwiceIs ==
  ASSUME IInv, NEW f \in Fragments, phase = "commit", at = f,
         mem'.pool = [mem.pool EXCEPT ![f] = @ + 1]
  PROVE  Twice' = Twice \cup (index \cap {f})
<1>1. mem.pool \in [Fragments -> 0 .. 2] /\ mem.pool[f] <= 1
  <2>1. Ahead(f)
    BY Here DEF Ahead
  <2> QED BY <2>1 DEF IInv, TypeOK, Counted
<1>2. mem.pool[f] > 0 <=> f \in index
  <2>1. f[1] \in jobs /\ f[1] \in Pubs
    BY Here
  <2>2. f \in Window(jobs)
    BY <2>1, PubIs, DatesNat DEF Window
  <2> QED BY <2>2 DEF IInv, Mirrored
<1>3. ASSUME NEW g \in Fragments PROVE mem'.pool[g] = 2 <=> (mem.pool[g] = 2 \/ (g = f /\ g \in index))
  BY <1>1, <1>2
<1> QED BY <1>3 DEF Twice

\* A strict commit is made in the context of the moment, on the rows of the moment.
LEMMA StrictIsAssign ==
  ASSUME IInv, NEW f \in Fragments, CommitStory(f), strict
  PROVE  Sequential!Assign(f)
<1> DEFINE ctx == Context(f, mem.pool, mem.cat)
<1>1. phase = "commit" /\ at = f /\ index' = index \cup {f} /\ basis' = AskedIn(f)
      /\ UNCHANGED <<pending, strict>>
  BY DEF CommitStory
<1>2. f \in Of(jobs) /\ f[1] \in pending
  BY <1>1, Here
<1>3. ctx \in Sequential!Moments(f)
  BY <1>1, <1>2, CopyIsOfTheMoment
<1>4. PICK ans \in Final(f) \cap Decisions :
        LET row == Resolved(f, KnownRows(f, ans), cat.story, ans.story) IN
        /\ cat' = Saved(cat, f, ans.story, row)
        /\ mem' = [pool |-> [mem.pool EXCEPT ![f] = @ + 1], cat |-> Saved(mem.cat, f, ans.story, row)]
  BY StoryIs
<1>5. ans \in Answers(ctx) /\ AskedIn(f) = ctx
  BY FinalIs
<1>6. KnownRows(f, ans) = ctx.stories
  BY DEF KnownRows, Current
<1>7. Twice' = Twice \cup (index \cap {f})
  BY <1>1, <1>4, TwiceIs
<1> HIDE DEF ctx
<1>8. cat' = Saved(cat, f, ans.story, Resolved(f, ctx.stories, cat.story, ans.story))
  BY <1>4, <1>6
<1>10. ans \in Sequential!Answers(ctx) \cap Sequential!Decisions
  BY <1>4, <1>5, SameDecisions, SameOperators
<1>11. cat' = Sequential!Saved(cat, f, ans.story,
                 Sequential!Resolved(f, ctx.stories, cat.story, ans.story))
  BY <1>8, SameDecisions
<1> QED BY <1>1, <1>2, <1>3, <1>5, <1>7, <1>10, <1>11 DEF Sequential!Assign, Twice

\* A relaxed commit saves some row with its evidence.
LEMMA RelaxedIsAssign ==
  ASSUME IInv, NEW f \in Fragments, CommitStory(f), ~strict
  PROVE  Sequential!AssignRelaxed(f)
<1>1. phase = "commit" /\ at = f /\ index' = index \cup {f} /\ UNCHANGED <<pending, strict>>
  BY DEF CommitStory
<1>2. f[1] \in pending
  BY <1>1, Here
<1>3. PICK ans \in Final(f) \cap Decisions :
        LET row == Resolved(f, KnownRows(f, ans), cat.story, ans.story) IN
        /\ ans.story \in Stories /\ row \in StoryRows
        /\ cat' = Saved(cat, f, ans.story, row)
        /\ mem' = [pool |-> [mem.pool EXCEPT ![f] = @ + 1], cat |-> Saved(mem.cat, f, ans.story, row)]
  BY StoryIs
<1>4. \E s \in Stories, row \in StoryRows : cat' = Saved(cat, f, s, row)
  BY <1>3
<1>5. \E s \in Stories, row \in Sequential!StoryRows : cat' = Sequential!Saved(cat, f, s, row)
  BY <1>4, SameOperators, SameDecisions
<1>6. Twice' = Twice \cup (index \cap {f})
  BY <1>1, <1>3, TwiceIs
<1> QED BY <1>1, <1>2, <1>5, <1>6 DEF Sequential!AssignRelaxed, Twice

\* An ambiguous one was asked about in the context of the moment.
LEMMA AmbiguousIs ==
  ASSUME IInv, NEW f \in Fragments, CommitAmbiguous(f)
  PROVE  Sequential!Ambiguous(f)
<1>1. /\ phase = "commit" /\ at = f /\ [kind |-> "ambiguous"] \in Final(f) /\ basis' = AskedIn(f)
      /\ UNCHANGED <<index, cat, pending, strict, mem>>
  BY DEF CommitAmbiguous, db
<1>2. f \in Of(jobs) /\ f[1] \in pending
  BY <1>1, Here
<1>3. strict => basis' = Context(f, mem.pool, mem.cat)
  BY <1>1, <1>2, FinalIs
<1>4. strict => basis' \in Sequential!Moments(f)
  BY <1>1, <1>2, <1>3, CopyIsOfTheMoment
<1>5. Twice' = Twice
  BY <1>1 DEF Twice
<1> QED BY <1>1, <1>2, <1>4, <1>5 DEF Sequential!Ambiguous, Twice

\* The end of a publication without a decision is not seen, unless it ends the batch.
LEMMA FailIs ==
  ASSUME IInv, NEW f \in Fragments, CommitFail(f)
  PROVE  Sequential!Next \/ UNCHANGED Sequential!vars
<1>1. /\ phase = "commit" /\ at = f /\ Onwards(f[1]) /\ pending' = pending \cup {f[1]}
      /\ UNCHANGED <<index, cat>>
  BY DEF CommitFail
<1>2. pending' = pending
  BY <1>1, Here
<1>3. CASE Rest(f[1]) = {}
  BY <1>1, <1>2, <1>3, ResetIsBetween, BetweenIs DEF Onwards
<1>4. CASE Rest(f[1]) # {}
  BY <1>1, <1>2, <1>4, StutterIs DEF Onwards
<1> QED BY <1>3, <1>4

\* The end of one that was gone through is its marking.
LEMMA MarkIs ==
  ASSUME IInv, Mark PROVE Sequential!Mark(at[1]) /\ at[1] \in Pubs
<1>1. /\ phase = "commit" /\ Onwards(at[1]) /\ pending' = pending \ {at[1]}
      /\ UNCHANGED <<index, cat>>
  BY DEF Mark
<1>2. at[1] \in pending /\ at[1] \in Pubs
  BY <1>1, Here
<1>3. Sequential!Configure \/ UNCHANGED <<basis, strict, Twice>>
  <2>1. CASE Rest(at[1]) = {}
    BY <1>1, <2>1, ResetIsBetween, SameOperators DEF Onwards, Sequential!Configure, Twice
  <2>2. CASE Rest(at[1]) # {}
    BY <1>1, <2>2 DEF Onwards, Twice
  <2> QED BY <2>1, <2>2
<1> QED BY <1>1, <1>2, <1>3 DEF Sequential!Mark, Twice

\* A strict batch commits what a sequential assignment could have, that knows the
\* entities the store finds or more of those saved (agenda_assign.py:452).
THEOREM Refinement == Spec => ImplementsSequential
<1>1. Init => Sequential!Init
  <2>1. Init => Twice = {}
    BY DEF Init, NoBatch, Twice
  <2> QED BY <2>1, SameOperators DEF Init, Sequential!Init, Twice
<1>2. ASSUME IInv, [Next]_vars PROVE [Sequential!Next]_Sequential!vars
  <2>1. CASE UNCHANGED vars
    BY <2>1, StutterIs DEF vars, db, local
  <2>2. CASE Load
    <3>1. PICK S \in (SUBSET pending) \ {{}} : mem' = Loaded(S)
      BY <2>2 DEF Load
    <3>2. Twice' = {}
      BY <1>2, <3>1, LoadedIs, NoneTwice DEF IInv, TypeOK, Mirrored
    <3>3. strict' \in BOOLEAN /\ basis' = NoContext /\ UNCHANGED <<index, cat, pending>>
      BY <1>2, <2>2 DEF Load, db, IInv, Batch
    <3> QED BY <3>2, <3>3, BetweenIs
  <2>3. CASE EmbedFail
    BY <1>2, <2>3, ResetIsBetween, BetweenIs DEF EmbedFail, IInv, Batch
  <2>4. CASE Abandon
    BY <2>4, ResetIsBetween, BetweenIs DEF Abandon, db
  <2>5. CASE Embed \/ Gather \/ Reconsider \/ \E f \in Fragments : Propose(f)
    BY <2>5, StutterIs DEF Embed, Gather, Reconsider, Propose, db, local
  <2>6. ASSUME NEW f \in Fragments, CommitStory(f) PROVE Sequential!Next
    BY <1>2, <2>6, StrictIsAssign, RelaxedIsAssign, SameOperators DEF Sequential!Next
  <2>7. ASSUME NEW f \in Fragments, CommitAmbiguous(f) PROVE Sequential!Next
    BY <1>2, <2>7, AmbiguousIs, SameOperators DEF Sequential!Next
  <2>8. ASSUME NEW f \in Fragments, CommitFail(f) PROVE Sequential!Next \/ UNCHANGED Sequential!vars
    BY <1>2, <2>8, FailIs
  <2>9. CASE Mark
    BY <1>2, <2>9, MarkIs, SameOperators DEF Sequential!Next
  <2> QED BY <1>2, <2>1, <2>2, <2>3, <2>4, <2>5, <2>6, <2>7, <2>8, <2>9 DEF Next
<1> QED BY <1>1, <1>2, Invariance, PTL DEF Spec, ImplementsSequential, Sequential!Spec
============================================================================
