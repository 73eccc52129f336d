--------------------------- MODULE CatalogStores ---------------------------
(***************************************************************************)
(* The catalog of entities, links and fragments under SqliteAgendaStore,   *)
(* where an entity is found by name through the table agenda_entity_token. *)
(* The migration and save_entity write that table; save_assignment, which  *)
(* is what the assignment saves its entities with, does not.               *)
(*                                                                         *)
(* An entity is its id and its names: the canonical one and the aliases.   *)
(* Names are their lexical tokens, one each.  Stories and events are kept  *)
(* by id as entities are and are left out.  One fragment with one claim    *)
(* per publication.                                                        *)
(***************************************************************************)
EXTENDS Integers, Sequences, FiniteSets

CONSTANTS Ids, Names, Pubs, Versions, Stories,
          MaxSaves   \* bound: calls that write, in one behaviour

\* What is assumed of the constants: no name is NoToken.
ConstantsOK == Names \subseteq Nat \ {0}

VARIABLES
    version,  \* schema_version: below Indexed the names are not indexed yet
    names,    \* agenda_json: [Ids -> set of names], {} for no row
    token,    \* agenda_entity_token: pairs of an id and a name
    given,    \* history: names an assignment gave an entity since its tokens were written
    links,    \* agenda_link: [link key -> entity ids], DOMAIN the keys with a row
    row,      \* agenda_fragment: [Pubs -> surface], DOMAIN the publications with a row
    saves

vars == <<version, names, token, given, links, row, saves>>

Indexed  == 5
LinkKeys == Pubs \X Versions \X Stories
Put(f, k, v) == [i \in DOMAIN f \cup {k} |-> IF i = k THEN v ELSE f[i]]

\* lexical_tokens(*names) or {""}: a name of nothing but punctuation has no token.
Silent   == CHOOSE n \in Names : \A m \in Names : n <= m
NoToken  == 0
Tokens(N) == IF N \subseteq {Silent} THEN {NoToken} ELSE N \ {Silent}

\* A new database is created at the latest version; an older one holds entities.
Init ==
    /\ \/ version = Indexed /\ names = [e \in Ids |-> {}]
       \/ version = Indexed - 1 /\ names \in [Ids -> SUBSET Names]
    /\ given = [e \in Ids |-> {}]
    /\ token = {} /\ links = <<>> /\ row = <<>> /\ saves = 0

-----------------------------------------------------------------------------

\* migrate_agenda_entity_tokens: pages of entities without a token, until none is left.
Backfilled ==
    token \cup UNION {{<<e, t>> : t \in Tokens(names[e])} :
                        e \in {i \in Ids : names[i] # {} /\ \A t \in Names \cup {NoToken} : <<i, t>> \notin token}}

Start ==
    /\ version < Indexed
    /\ version' = Indexed /\ token' = Backfilled
    /\ UNCHANGED <<names, given, links, row, saves>>

\* The predicate of the assignment: an id it asked for, or one of the names.
Wanted(e, ids, surfaces) == e \in ids \/ names[e] \cap surfaces # {}

\* entities_matching: by id, or by a token of the table.
Found(ids, surfaces) ==
    {e \in Ids : /\ names[e] # {} /\ Wanted(e, ids, surfaces)
                 /\ e \in ids \/ \E t \in Tokens(surfaces) \ {NoToken} : <<e, t>> \in token}

\* save_assignment: entity, link and fragment replaced, no token written.
Committed(e, N, key, s) ==
    /\ names' = [names EXCEPT ![e] = N]
    /\ given' = [given EXCEPT ![e] = @ \cup (N \ names[e])]
    /\ links' = Put(links, key, {e})
    /\ row' = Put(row, key[1], s)
    /\ UNCHANGED token

\* assign_publication for one fragment that names `s`.  The model chooses among the
\* entities the store shows it, the ids of a candidate's links included, or it
\* names a new one; the id is its own or comes with the answer.
SaveAssignment ==
    /\ version = Indexed /\ saves < MaxSaves
    /\ \E key \in LinkKeys, s \in Names, cands \in SUBSET DOMAIN row :
         LET ids   == UNION {links[k] : k \in {l \in DOMAIN links : l[1] \in cands}}
             known == Found(ids, {s} \cup {row[c] : c \in cands})
         IN  \E e \in Ids, N \in {names[k] : k \in known} \cup {{s, c} : c \in Names} :
                /\ (N = names[e] /\ e \in known) \/ s \in N
                /\ Committed(e, N, key, s)
    /\ saves' = saves + 1 /\ UNCHANGED version

\* Mutant: the tokens are withdrawn and not written again.
Retokened_Withdrawn(e, N) == {p \in token : p[1] # e}

\* The tokens of an entity, deleted and inserted with its row.
Retokened(e, N) == {p \in token : p[1] # e} \cup {<<e, t>> : t \in Tokens(N)}

SaveEntity ==
    /\ version = Indexed /\ saves < MaxSaves
    /\ \E e \in Ids, N \in (SUBSET Names) \ {{}} :
         /\ names' = [names EXCEPT ![e] = N]
         /\ token' = Retokened(e, N)
         /\ given' = [given EXCEPT ![e] = {}]
    /\ saves' = saves + 1 /\ UNCHANGED <<version, links, row>>

Next == Start \/ SaveAssignment \/ SaveEntity

Spec == Init /\ [][Next]_vars

-----------------------------------------------------------------------------

FindableBy(e) == {n \in names[e] \ {Silent} : e \in Found({}, {n})}

(* Once the names are indexed, an entity is found by each of its names     *)
(* but those an assignment gave it, whatever was saved since by whom.      *)
FoundUnlessGiven ==
    version = Indexed => \A e \in Ids : names[e] \ {Silent} \subseteq FindableBy(e) \cup given[e]

=============================================================================
