--------------------------- MODULE AssignContext ---------------------------
(***************************************************************************)
(* What a story assignment is decided on: the candidate fragments of a     *)
(* fragment, the stories and entities they bring in, and what a decision   *)
(* does to the catalog (agenda_assign.py).                                 *)
(*                                                                         *)
(* A fragment is <<publication, index>>; only fragments with claims are    *)
(* counted.  A story is known by its id, which the code derives from the   *)
(* title; an entity by its name, from which its id is derived, and the     *)
(* entities of a fragment are its surfaces.  Near[f][c] ranks fragments by *)
(* closeness to f and stands for the cosine of the vectors; no two         *)
(* fragments tie.                                                          *)
(***************************************************************************)
EXTENDS Sums

CONSTANTS
    NumPubs,    \* the publications are 1 .. NumPubs, ordered as the queue orders them
    FragCount,  \* [1 .. NumPubs -> number of fragments with claims]
    At,         \* [1 .. NumPubs -> published_at]
    Surface,    \* [Fragments -> set of entity surfaces]
    Near,       \* [Fragments -> [Fragments -> rank]]
    Lookback,   \* LOOKBACK
    TopK,       \* CANDIDATE_K
    Stories,    \* the story ids a model may come up with
    Released    \* names of the entities of an earlier release

Pubs      == 1 .. NumPubs
Fragments == UNION {{<<p, i>> : i \in 1 .. FragCount[p]} : p \in Pubs}
Names     == UNION {Surface[f] : f \in Fragments}
NoKey     == ""

ASSUME PubsNat == NumPubs \in Nat
ASSUME TopKPositive == TopK \in Nat \ {0}
ASSUME DatesNat == Lookback \in Nat /\ \A p \in Pubs : At[p] \in Nat /\ FragCount[p] \in Nat
ASSUME NoTies == \A f, c, d \in Fragments : Near[f][c] = Near[f][d] => c = d
ASSUME KeyIsAName == NoKey \notin Names
ASSUME ReleasedNames == Released \subseteq Names

(* The rows of agenda_json and agenda_link: the stories with the date and  *)
(* key entity they carry, the entities, and the links of fragments.        *)
NoStory   == [seen |-> 0, key |-> NoKey]
StoryRows == [seen : {0} \cup {At[p] : p \in Pubs}, key : Names \cup {NoKey}]
Catalogs  == [story : [Stories -> {NoStory} \cup StoryRows], names : SUBSET Names,
              links : SUBSET (Fragments \X Stories)]
EmptyCatalog == [story |-> [s \in Stories |-> NoStory], names |-> Released, links |-> {}]

-----------------------------------------------------------------------------
(* find_candidates.  The pool is a bag: a fragment may be listed twice.    *)

\* The first TopK rows by closeness.  Duplicates are dropped only afterwards.
First(f, pool, C) == {c \in C : Sum(pool, {d \in C : Near[f][d] < Near[f][c]}) < TopK}

Earlier(f, pool) ==
    {c \in Fragments : /\ pool[c] > 0 /\ c # f
                       /\ At[f[1]] - Lookback <= At[c[1]] /\ At[c[1]] < At[f[1]]}

Candidates(f, pool) ==
    LET others == Earlier(f, pool)
        alike  == {c \in others : Surface[c] \cap Surface[f] # {}}
    IN  First(f, pool, others) \cup First(f, pool, alike)

\* links_for_publications: the entities on the links of the publications P.
Linked(cat, P) == UNION {Surface[l[1]] : l \in {k \in cat.links : k[1][1] \in P}}

\* entities_matching of SqliteAgendaStore: the ids asked for, and by their names
\* only those the migration has indexed (save_assignment indexes none).
Found(cat, ids, terms) == cat.names \cap (ids \cup (Released \cap terms))

\* select_assignment_context: what the links and surfaces of the candidates bring
\* in, of the rows of cat.
Context(f, pool, cat) ==
    LET cands == Candidates(f, pool)
        known == {s \in Stories : \E c \in cands : <<c, s>> \in cat.links}
    IN  [cands   |-> cands,
         stories |-> [s \in known |-> cat.story[s]],
         names   |-> cat.names \cap UNION {Surface[c] : c \in cands \cup {f}}]

\* _context_from_store: the same, of the entities the store finds.
StoreContext(f, pool, cat) ==
    LET ctx == Context(f, pool, cat)
    IN  [ctx EXCEPT !.names = @ \cap Found(cat, Linked(cat, {c[1] : c \in ctx.cands}), @)]

NoContext == [cands |-> {}, stories |-> <<>>, names |-> {}]

-----------------------------------------------------------------------------
(* A decision, and its effect.                                             *)

Failed == [kind |-> "failed"]

\* The StoryAssigner: a story of its context, a new one, or neither; or it raises.
Answers(ctx) ==
    {Failed, [kind |-> "ambiguous"], [kind |-> "unusable"]}
    \cup [kind : {"existing"}, story : DOMAIN ctx.stories]
    \cup [kind : {"new"}, story : Stories]

Decisions == [kind : {"existing", "new"}, story : Stories]

\* _assignment_entity_key: the one entity of the fragment, if it has one.
EntityKey(f) == IF \E n \in Names : Surface[f] = {n} THEN CHOOSE n \in Names : Surface[f] = {n} ELSE NoKey

\* _resolve_story, get_story for a story the context does not hold, and the key
\* entity filled in.  `known` are the rows of the stories the context holds.
Resolved(f, known, saved, s) ==
    LET opened == [seen |-> At[f[1]], key |-> NoKey]
        held   == IF s \in DOMAIN known THEN known[s]
                  ELSE IF saved[s] # NoStory THEN saved[s] ELSE opened
    IN  IF held.key = NoKey THEN [held EXCEPT !.key = EntityKey(f)] ELSE held

\* save_assignment: the entities, the story and the links in one transaction.
Saved(cat, f, s, row) ==
    [story |-> [cat.story EXCEPT ![s] = row],
     names |-> cat.names \cup Surface[f],
     links |-> cat.links \cup {<<f, s>>}]
=============================================================================
