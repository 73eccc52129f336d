------------------------- MODULE SpeculativeAssign -------------------------
(***************************************************************************)
(* assign_speculative_batch: the stories of a batch of publications are    *)
(* decided by concurrent model calls on a frozen copy of the database, and *)
(* committed one fragment after the other.                                 *)
(*                                                                         *)
(* In the strict mode a proposal is reused only if its context is still    *)
(* the one of the moment; in the relaxed mode every proposal is committed, *)
(* after a second question about the new stories that look alike.  The     *)
(* batch may be abandoned at any await (a refused budget, a cancellation,  *)
(* the death of the process); what was saved stays.                        *)
(***************************************************************************)
EXTENDS AssignContext, Functions

CONSTANTS
    Similar,     \* pairs <<f, g>> with cosine similarity >= merge_cosine_threshold
    MaxBatches   \* bound on the batches

ASSUME BatchesNat == MaxBatches \in Nat

VARIABLES
    index, cat, pending,  \* the database, as in SequentialAssign
    phase,    \* where the batch stands
    strict,   \* its mode
    jobs,     \* its publications
    prop,     \* [Fragments -> PreparedFragment]
    mem,      \* the local copies: pool, links, entity_map, story_map
    at,       \* <<publication, index>>: the next fragment to commit
    basis,    \* history: the context the latest decision was made in
    decided,  \* history: fragments the batch found a story for or judged ambiguous
    revived,  \* history: publications one of whose failed proposals was asked again
    batches   \* batches begun

db    == <<index, cat, pending>>
local == <<strict, jobs, prop, mem, at>>
vars  == <<db, phase, local, basis, decided, revived, batches>>

Of(S) == {f \in Fragments : f[1] \in S}

Unasked == [state |-> "none", ctx |-> NoContext, ans |-> Failed]
NoBatch == [pool |-> [f \in Fragments |-> 0], cat |-> EmptyCatalog]
Nowhere == <<0, 0>>

Init ==
    /\ index = {} /\ cat = EmptyCatalog
    /\ pending = Pubs
    /\ phase = "idle" /\ strict = TRUE /\ jobs = {} /\ batches = 0
    /\ prop = [f \in Fragments |-> Unasked]
    /\ mem = NoBatch /\ at = Nowhere
    /\ basis = NoContext /\ decided = {} /\ revived = {}

-----------------------------------------------------------------------------
(* Loading.                                                                *)

\* What the batch reads before its first model call: the fragments since the
\* oldest job, their links and stories, the entities they or the jobs name.
Loaded(S) ==
    LET pool  == {f \in index : \E p \in S : At[f[1]] >= At[p] - Lookback}
        links == {l \in cat.links : l[1] \in Of({f[1] : f \in pool})}
    IN  [pool |-> [f \in Fragments |-> IF f \in pool THEN 1 ELSE 0],
         cat  |-> [links |-> links,
                   names |-> Found(cat, Linked(cat, {f[1] : f \in pool}),
                                   UNION {Surface[f] : f \in pool \cup Of(S)}),
                   story |-> [s \in Stories |-> IF \E l \in links : l[2] = s
                                                THEN cat.story[s] ELSE NoStory]]]

Load ==
    /\ phase = "idle" /\ batches < MaxBatches
    /\ \E S \in (SUBSET pending) \ {{}} :
         /\ jobs' = S /\ mem' = Loaded(S)
    /\ phase' = "embed" /\ strict' \in BOOLEAN /\ batches' = batches + 1
    /\ UNCHANGED <<db, prop, at, basis, decided, revived>>

\* The vectors of the fragments; without them no job goes further.
Embed ==
    /\ phase = "embed" /\ phase' = "prepare"
    /\ UNCHANGED <<db, local, basis, decided, revived, batches>>

Reset ==
    /\ phase' = "idle" /\ strict' = TRUE /\ jobs' = {} /\ mem' = NoBatch /\ at' = Nowhere
    /\ prop' = [f \in Fragments |-> Unasked] /\ basis' = NoContext

EmbedFail ==
    /\ phase = "embed" /\ Reset
    /\ pending' = pending \cup jobs
    /\ UNCHANGED <<index, cat, decided, revived, batches>>

Abandon ==
    /\ phase # "idle" /\ Reset
    /\ UNCHANGED <<db, decided, revived, batches>>

-----------------------------------------------------------------------------
(* Preparing: one task per publication, one call per fragment.             *)

Prior(f) == {g \in Of(jobs) : g[1] < f[1]}

\* A fragment that an earlier job of the batch may bear on waits for the commit.
Deferred(f, ctx) ==
    /\ strict
    /\ \/ ~ Candidates(f, [g \in Fragments |-> IF g \in Prior(f) THEN 1 ELSE 0]) \subseteq ctx.cands
       \/ Surface[f] \cap UNION {Surface[g] : g \in Prior(f)} # {}

\* Strict tasks go through their fragments in order and stop at a failed one.
Turn(f) ==
    strict => \A i \in 1 .. f[2] - 1 : prop[<<f[1], i>>].state \in {"deferred", "answered"}

Askable == {f \in Of(jobs) : prop[f].state = "none" /\ Turn(f)}

Propose(f) ==
    LET ctx == Context(f, mem.pool, mem.cat) IN
    /\ phase = "prepare" /\ f \in Askable
    /\ IF Deferred(f, ctx)
       THEN prop' = [prop EXCEPT ![f] = [state |-> "deferred", ctx |-> ctx, ans |-> Failed]]
       ELSE \E ans \in Answers(ctx) :
              prop' = [prop EXCEPT ![f] =
                         [state |-> IF ans = Failed THEN "failed" ELSE "answered", ctx |-> ctx, ans |-> ans]]
    /\ UNCHANGED <<db, phase, strict, jobs, mem, at, basis, decided, revived, batches>>

\* The first fragment of the first of some jobs.
FirstOf(S) == {<<p, 1>> : p \in {q \in S : \A r \in S : q <= r}}

\* gather returns once every task has ended.
Gather ==
    /\ phase = "prepare" /\ Askable = {}
    /\ phase' = IF strict THEN "commit" ELSE "reconsider"
    /\ at' \in FirstOf(jobs)
    /\ UNCHANGED <<db, strict, jobs, prop, mem, basis, decided, revived, batches>>

-----------------------------------------------------------------------------
(* Reconsidering, in the relaxed mode.                                     *)

Opened(f) == [seen |-> At[f[1]], key |-> NoKey]

\* Earlier fragments of the batch that also open a story, about the same entity.
Nominees(f) ==
    {g \in Prior(f) : /\ prop[f].ans.kind \in {"new", "unusable"} /\ prop[g].ans.kind = "new"
                      /\ EntityKey(f) # NoKey /\ EntityKey(g) = EntityKey(f)
                      /\ At[f[1]] - Lookback <= At[g[1]] /\ At[g[1]] < At[f[1]]
                      /\ <<f, g>> \in Similar}

Joined(f, g) ==
    LET old == prop[f].ctx
        s   == prop[g].ans.story
    IN  [state |-> "answered",
         ctx   |-> [old EXCEPT !.cands = @ \cup Nominees(f),
                               !.stories = [n \in DOMAIN @ \cup {prop[h].ans.story : h \in Nominees(f)} |->
                                   IF n \in DOMAIN @ THEN @[n]
                                   ELSE Opened(CHOOSE h \in Nominees(f) : prop[h].ans.story = n)]],
         ans   |-> [kind |-> "existing", story |-> s]]

\* Only a decision for a nominated story replaces the proposal.
Reconsider ==
    LET choices == [f \in Fragments |-> {prop[f]} \cup {Joined(f, g) : g \in Nominees(f)}] IN
    /\ phase = "reconsider" /\ phase' = "commit"
    /\ \E new \in [Fragments -> UNION Range(choices)] :
         /\ \A f \in Fragments : new[f] \in choices[f]
         /\ prop' = new
    /\ UNCHANGED <<db, strict, jobs, mem, at, basis, decided, revived, batches>>

-----------------------------------------------------------------------------
(* Committing, in the order of the jobs.                                   *)

\* The commit loop goes over what prepare returned.
Prepared(f) == f \in Fragments /\ prop[f].state # "none"

Rest(p) == {q \in jobs : q > p}
Onwards(p) ==
    IF Rest(p) = {} THEN Reset
    ELSE at' \in FirstOf(Rest(p)) /\ UNCHANGED <<phase, strict, jobs, prop, mem, basis>>

\* Mutant: a proposal is reused whatever was committed since.
Stale_Never(f, ctx) == strict /\ prop[f].state = "deferred"

\* The context is not the one the proposal was made in.
Stale(f, ctx) == strict /\ (prop[f].state = "deferred" \/ ctx # prop[f].ctx)

\* Mutant: the context is not worked out again.
Current_Frozen(f) == prop[f].ctx

\* The context a fragment is committed in.
Current(f) == IF strict THEN Context(f, mem.pool, mem.cat) ELSE prop[f].ctx

\* The decision that is committed: asked again, or the proposal's.
Final(f) == IF Stale(f, Current(f)) THEN Answers(Current(f)) ELSE {prop[f].ans}

\* The context the model saw when it gave that decision.
AskedIn(f) == IF Stale(f, Current(f)) THEN Current(f) ELSE prop[f].ctx

\* A story decided for another context, seen through the story map.
KnownRows(f, ans) ==
    IF ~strict /\ ans.kind = "new"
    THEN [s \in DOMAIN prop[f].ctx.stories |-> mem.cat.story[s]]
    ELSE Current(f).stories

Asked(f) == revived' = IF prop[f].state = "failed" /\ Stale(f, Current(f))
                       THEN revived \cup {f[1]} ELSE revived

CommitStory(f) ==
    /\ phase = "commit" /\ at = f /\ Prepared(f)
    /\ \E ans \in Final(f) \cap Decisions :
         LET row == Resolved(f, KnownRows(f, ans), cat.story, ans.story) IN
         /\ cat' = Saved(cat, f, ans.story, row)
         /\ mem' = [pool |-> [mem.pool EXCEPT ![f] = @ + 1],
                    cat  |-> Saved(mem.cat, f, ans.story, row)]
    /\ index' = index \cup {f}
    /\ basis' = AskedIn(f) /\ decided' = decided \cup {f} /\ Asked(f)
    /\ at' = <<f[1], f[2] + 1>>
    /\ UNCHANGED <<pending, phase, strict, jobs, prop, batches>>

CommitAmbiguous(f) ==
    /\ phase = "commit" /\ at = f /\ Prepared(f)
    /\ [kind |-> "ambiguous"] \in Final(f)
    /\ basis' = AskedIn(f) /\ decided' = decided \cup {f} /\ Asked(f)
    /\ at' = <<f[1], f[2] + 1>>
    /\ UNCHANGED <<db, phase, strict, jobs, prop, mem, batches>>

\* Mutant: the loop goes on with the next fragment.
CommitFail_GoesOn(f) ==
    /\ phase = "commit" /\ at = f /\ Prepared(f)
    /\ Final(f) \cap {Failed, [kind |-> "unusable"]} # {}
    /\ pending' = pending \cup {f[1]}
    /\ Asked(f) /\ at' = <<f[1], f[2] + 1>>
    /\ UNCHANGED <<index, cat, phase, strict, jobs, prop, mem, basis, decided, batches>>

\* No decision, or one without a usable title: the publication waits for a retry.
CommitFail(f) ==
    /\ phase = "commit" /\ at = f /\ Prepared(f)
    /\ Final(f) \cap {Failed, [kind |-> "unusable"]} # {}
    /\ pending' = pending \cup {f[1]}
    /\ Asked(f) /\ Onwards(f[1])
    /\ UNCHANGED <<index, cat, decided, batches>>

\* mark_processed, when the loop over the proposals ended without a break.
Mark ==
    /\ phase = "commit" /\ ~Prepared(at)
    /\ pending' = pending \ {at[1]}
    /\ Onwards(at[1])
    /\ UNCHANGED <<index, cat, decided, revived, batches>>

-----------------------------------------------------------------------------
Next ==
    \/ Load \/ Embed \/ EmbedFail \/ Abandon
    \/ \E f \in Fragments : Propose(f)
    \/ Gather \/ Reconsider
    \/ \E f \in Fragments : CommitStory(f) \/ CommitAmbiguous(f) \/ CommitFail(f)
    \/ Mark

Spec == Init /\ [][Next]_vars

-----------------------------------------------------------------------------
Contexts == [cands : SUBSET Fragments, names : SUBSET Names,
             stories : UNION {[S -> StoryRows] : S \in SUBSET Stories}]

TypeOK ==
    /\ index \subseteq Fragments /\ cat \in Catalogs /\ pending \subseteq Pubs
    /\ phase \in {"idle", "embed", "prepare", "reconsider", "commit"}
    /\ strict \in BOOLEAN /\ jobs \subseteq Pubs /\ batches \in 0 .. MaxBatches
    /\ \A f \in Fragments : /\ prop[f].state \in {"none", "deferred", "failed", "answered"}
                            /\ prop[f].ctx \in Contexts
                            /\ prop[f].ans \in Answers(prop[f].ctx)
    /\ mem.pool \in [Fragments -> 0 .. 2] /\ mem.cat \in Catalogs
    /\ basis \in Contexts
    /\ decided \subseteq Fragments /\ revived \subseteq Pubs

(* What a strict batch commits is what assign_publication could have done, *)
(* fragment after fragment: each decision was made among the candidates    *)
(* and on the stories of the moment it is saved at (agenda_assign.py:452), *)
(* with no entity missing that assign_publication would find, but for the  *)
(* fragments of a retry, which fill two of the places of find_candidates.  *)
Sequential == INSTANCE SequentialAssign WITH twice <- {f \in Fragments : mem.pool[f] = 2}
ImplementsSequential == Sequential!Spec

(* A publication leaves the queue only once each of its fragments was      *)
(* given a story or judged ambiguous (agenda_assign.py:800), unless a      *)
(* failed proposal of it was asked again at the commit.                    *)
ProcessedUnlessRevived ==
    \A p \in Pubs \ pending : p \in revived \/ Of({p}) \subseteq decided

\* The batch is well formed, and what it took off the queue it dealt with.
BatchIsSound == TypeOK /\ ProcessedUnlessRevived

(* The same without the exception.                                         *)
ProcessedIsAssigned ==
    \A p \in Pubs \ pending : Of({p}) \subseteq decided


Kept(s) == /\ cat'.story[s].seen = cat.story[s].seen
           /\ cat.story[s].key # NoKey => cat'.story[s].key = cat.story[s].key

(* No commit of a strict batch writes an old copy of a story over what an  *)
(* earlier commit has made of it: its first date and its key entity stay   *)
(* (agenda_assign.py:361).                                                 *)
StrictKeepsStories ==
    [][strict => \A s \in Stories : cat.story[s] # NoStory => Kept(s)]_vars
=============================================================================
