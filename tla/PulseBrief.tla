----------------------------- MODULE PulseBrief ------------------------------
(***************************************************************************)
(* From the labels of the model to the brief of the news pulse and its     *)
(* grounding check.  Candidate segments become observations, observations  *)
(* become events, theses and positions, and each comment is linked to one  *)
(* of them on some basis; news_pulse_ground recomputes every link from the *)
(* files of the run.                                                       *)
(*                                                                         *)
(* Segments of one text share one label, the first's; here they are one    *)
(* event too, since their wording is the same (PulseEvents groups in       *)
(* general).  What a comment says is what the predicates of the linker     *)
(* find in it.  Comments have no candidate segments of their own: the      *)
(* labels of theirs never make events, theses or positions.                *)
(***************************************************************************)
EXTENDS Integers, Sequences, FiniteSets

CONSTANTS NumSegments, NumPosts,
          Texts, \* of segments: numbers, see News, Claim and Price
          Labels, \* of the model: [kind, quote \in "found", "missing", "wrong"; context]
          Moods   \* of comments: records of what the predicates of the linker find

None     == 0
Segments == 1 .. NumSegments
Posts    == 1 .. NumPosts
\* Price is a text with a price and a ticker and no prose, a candidate where a
\* post has no other body.  The rules call it an event and Claim a position.
News  == 1
Claim == 2
Price == 3

NoLabel == [kind |-> "none", quote |-> "missing", context |-> FALSE]

VARIABLES pc, text, post, label, comment, link

vars == <<pc, text, post, label, comment, link>>

First(S) == CHOOSE n \in S : \A m \in S : n <= m

Init ==
    /\ pc = "label" /\ label = <<>> /\ comment = <<>> /\ link = <<>>
    /\ text \in [Segments -> Texts]
    /\ post \in [Segments -> Posts] /\ \A s \in 2 .. NumSegments : post[s] >= post[s - 1]
    /\ post[1] = 1
    /\ \A s, t \in Segments : post[s] = post[t] /\ text[s] = Price => text[t] = Price

\* classify_segments asks once for each text; an answer may be missing.
Donor(s) == First({t \in Segments : text[t] = text[s]})

Classify ==
    /\ pc = "label"
    /\ label' \in [{Donor(s) : s \in Segments} -> Labels \cup {NoLabel}]
    /\ pc' = "read" /\ UNCHANGED <<text, post, comment, link>>

RuleKind(s) == IF text[s] = Claim THEN "author_position" ELSE "event"
RoleOf(s)   == IF text[s] = Price THEN "quote_line" ELSE "body"

\* observation_from_label: a quote that is not there holds the segment back.
Observed(l) ==
    IF l.kind = "bad" \/ l.quote = "wrong" THEN [kind |-> "held", status |-> "held", context |-> l.context]
    ELSE [kind |-> l.kind, context |-> l.context,
          status |-> IF l.quote = "missing" /\ l.kind \in {"event", "author_position"}
                     THEN "held" ELSE "ok"]

\* A segment without a label: asked about, it is not processed; else the rules label it.
Obs(s) ==
    IF label[Donor(s)] # NoLabel THEN Observed(label[Donor(s)])
    ELSE IF Donor(s) = s THEN [kind |-> "held", status |-> "not_processed", context |-> FALSE]
    ELSE [kind |-> RuleKind(s), status |-> "ok", context |-> FALSE]

\* observations_for_events; a retelling counts when it names an action.
IsEvent(s) == /\ Obs(s).status = "ok" /\ ~Obs(s).context
              /\ Obs(s).kind = "event" \/ (Obs(s).kind = "redistribution" /\ text[s] = News)
Events      == {text[s] : s \in {t \in Segments : IsEvent(t)}}
MemberPosts(e) == {post[s] : s \in {t \in Segments : IsEvent(t) /\ text[t] = e}}

Theses    == {s \in Segments : Obs(s).kind = "author_position" /\ Obs(s).status = "ok"}
Positions == {s \in Segments : /\ Obs(s).kind = "author_position" /\ Obs(s).status \in {"ok", "held"}
                               /\ RoleOf(s) # "quote_line"}

\* What a comment is and says: its thread, the text whose wording it repeats, the
\* text whose wording the replies it answers to repeat (_reply_chain_text), and
\* what the predicates find in it: mood.deictic stands for DEICTIC and PRICE_REACTION.
Comments == [thread : Posts, repeats : Texts \cup {None}, chain : Texts \cup {None},
             about : Texts \cup {None}, mood : Moods]

Repeats(c, e)    == c.repeats = e
AboutEvent(c, e) == Repeats(c, e) \/ c.about = e
RepliesTo(c, e)  == AboutEvent(c, e) \/ (c.mood.deictic /\ ~c.mood.service)
ParentEvents(c)  == {e \in Events : c.thread \in MemberPosts(e)}
Row(target, id, basis) == [target |-> target, id |-> id, basis |-> basis]

\* Mutant: a reply is taken for one to any event of its post.
Only_Any(c) == ParentEvents(c) # {}

Only(c) == Cardinality(ParentEvents(c)) = 1

\* link_comment: in this order, doubt last.
Foreign(c) == c.mood.service /\ ~c.mood.network /\ \A e \in ParentEvents(c) : ~Repeats(c, e)
Link(c) ==
    LET Own     == CHOOSE e \in ParentEvents(c) : TRUE
        Claimed == {s \in Theses : text[s] \in {c.repeats, c.chain}}
    IN  CASE Foreign(c) -> Row("other_subject", None, "foreign")
          [] ~Foreign(c) /\ c.repeats \in Events -> Row("event", c.repeats, "repeats")
          [] ~Foreign(c) /\ c.repeats \notin Events /\ Claimed # {} ->
                 Row("author_thesis", First(Claimed), "thesis")
          [] OTHER ->
                 IF Only(c) /\ c.mood.service /\ ~AboutEvent(c, Own) THEN Row("other_subject", None, "complaint")
                 ELSE IF Only(c) /\ RepliesTo(c, Own) THEN Row("event", Own, "reply")
                 ELSE IF c.mood.project /\ ~c.mood.service THEN Row("project", None, "project")
                 ELSE Row("topic_level", None, "doubt")

Discuss ==
    /\ pc = "read"
    /\ \E c \in Comments : comment' = <<c>> /\ link' = <<Link(c)>>
    /\ pc' = "linked" /\ UNCHANGED <<text, post, label>>

Next == Classify \/ Discuss
Spec == Init /\ [][Next]_vars
-----------------------------------------------------------------------------
\* _link_claims, from pulse.json and the database.
Grounded(c, r) ==
    CASE r.target = "event" ->
            /\ r.id \in Events
            /\ r.basis = "repeats" => Repeats(c, r.id)
            /\ r.basis = "reply" => ParentEvents(c) = {r.id} /\ RepliesTo(c, r.id)
      [] r.target = "author_thesis" -> r.id \in Positions /\ text[r.id] \in {c.repeats, c.chain}
      [] OTHER -> TRUE

\* Every link of a comment to an event passes the check made of the finished run.
EventLinksGround == pc = "linked" /\ link[1].target = "event" => Grounded(comment[1], link[1])
=============================================================================
