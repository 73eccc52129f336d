------------------------- MODULE SequentialAssign -------------------------
(***************************************************************************)
(* What story assignment promises, one fragment at a time                  *)
(* (assign_publication): a fragment is decided among the candidates and    *)
(* the stories the database has at that moment, knowing the entities       *)
(* assign_publication would find there or more of those saved under its    *)
(* names, and the decision is saved with its evidence at once.  The        *)
(* relaxed mode promises only the last part.                               *)
(***************************************************************************)
EXTENDS AssignContext

VARIABLES
    index,   \* agenda_fragment: the fragments saved so far
    cat,     \* the catalog
    pending, \* agenda_queue: the publications still to be assigned
    basis,   \* the context the latest decision was made in
    strict,  \* the mode
    twice    \* fragments that fill two of the TopK places

vars == <<index, cat, pending, basis, strict, twice>>

\* fragments_since.
Pool == [f \in Fragments |-> IF f \notin index THEN 0 ELSE IF f \in twice THEN 2 ELSE 1]

Init ==
    /\ index = {} /\ cat = EmptyCatalog
    /\ pending = Pubs
    /\ basis = NoContext /\ strict \in BOOLEAN /\ twice = {}

\* A batch begins or ends.
Configure == strict' \in BOOLEAN /\ twice' = {} /\ basis' = NoContext

Between == Configure /\ UNCHANGED <<index, cat, pending>>

\* The contexts of the moment: of the entities the store finds, or of more of those saved.
Moments(f) ==
    LET all == Context(f, Pool, cat)
    IN  {[all EXCEPT !.names = N] :
            N \in {M \in SUBSET all.names : StoreContext(f, Pool, cat).names \subseteq M}}

\* _context_from_store, _decide, _apply_decision with a story.
Assign(f) ==
    /\ f[1] \in pending /\ strict
    /\ \E ctx \in Moments(f) :
         /\ \E ans \in Answers(ctx) \cap Decisions :
                cat' = Saved(cat, f, ans.story, Resolved(f, ctx.stories, cat.story, ans.story))
         /\ basis' = ctx
    /\ index' = index \cup {f}
    /\ twice' = twice \cup (index \cap {f})
    /\ UNCHANGED <<pending, strict>>

\* The same, on whatever context.
AssignRelaxed(f) ==
    /\ f[1] \in pending /\ ~strict
    /\ \E s \in Stories, row \in StoryRows : cat' = Saved(cat, f, s, row)
    /\ index' = index \cup {f}
    /\ twice' = twice \cup (index \cap {f})
    /\ UNCHANGED <<pending, strict>>

\* An ambiguous fragment leaves nothing but the fact that it was asked about.
Ambiguous(f) ==
    /\ f[1] \in pending
    /\ strict => basis' \in Moments(f)
    /\ UNCHANGED <<index, cat, pending, strict, twice>>

\* mark_processed; the batch may end with it.
Mark(p) ==
    /\ p \in pending /\ pending' = pending \ {p}
    /\ Configure \/ UNCHANGED <<basis, strict, twice>>
    /\ UNCHANGED <<index, cat>>

Next ==
    \/ Between
    \/ \E f \in Fragments : Assign(f) \/ AssignRelaxed(f) \/ Ambiguous(f)
    \/ \E p \in Pubs : Mark(p)

Spec == Init /\ [][Next]_vars
=============================================================================
