------------------------- MODULE AgendaQueueProofs -------------------------
(***************************************************************************)
(* Proofs about AgendaQueue, for any channels, posts, limits and bounds.   *)
(* LostInTwoWays is not inductive by itself: that mark_processed leaves no  *)
(* fragment undecided that had a proposal depends on what the tasks, the   *)
(* jobs and the assignment loop remember of the stored extraction.         *)
(***************************************************************************)
EXTENDS AgendaQueue, TLAPS

\* Which volatile state is in use at which point of run_cycle.
Control ==
    /\ cur # {} => pc \in {"enqueue", "assign"}
    /\ pc = "enqueue" <=> reason # "absent"
    /\ pc # "extract" => task = Idle
    /\ jobs # {} => pc \in {"extract", "penalise", "assign"}
    /\ pending # {} => pc \in {"batch", "extract", "penalise", "assign", "build"}
    /\ coverage # {} => pc = "build"
    /\ frag # 1 \/ last # 0 => pc = "assign" /\ cur # {}

\* Only recorded publications have a queue row, and a new one has none yet.
Rows ==
    /\ \A p \in Pubs : queue[p] # Absent => pubText[p] # NoText
    /\ \A p \in todo : raw[p] # NoText
    /\ \A p \in cur : pc = "enqueue" => pubText[p] # NoText
    /\ \A p \in cur : reason = "new" => queue[p] = Absent

\* The job being assigned.
Assigning == IF pc = "assign" THEN cur ELSE {}

\* Publications run_cycle has selected and not yet settled, each in one place.
Unsettled(p) == \/ p \in pending \cup jobs \cup Assigning
                \/ task[p] \in {"wait", "call", "ok", "empty"}

Selected ==
    /\ \A p \in Pubs : Unsettled(p) => pubText[p] # NoText /\ Retryable(queue[p])
    /\ \A p \in pending : p \notin jobs \cup Assigning /\ task[p] = "none"
    /\ \A p \in jobs : p \notin Assigning /\ task[p] \in {"none", "awaited"}

\* What the tasks and the jobs know of the stored extractions.
Extracted ==
    /\ \A p \in Pubs : task[p] \in {"ok", "empty"} => extraction[pubText[p]] = task[p]
    /\ \A p \in jobs \cup Assigning : extraction[pubText[p]] = "ok"
    /\ \A p \in Assigning : /\ last \in 1 .. FragCount[pubText[p]] /\ frag <= last + 1
                            /\ DecidedTo(p, frag - 1)

IInv == /\ TypeOK /\ Control /\ Rows /\ Selected /\ Extracted
        /\ OneCallPerText /\ LostInTwoWays

-----------------------------------------------------------------------------

\* The clock is no part of the invariant but for its type.
LEMMA TickKeeps ==
  ASSUME IInv, Tick
  PROVE  IInv'
  BY NoTextIsNoText, TimesNat DEF IInv, TypeOK, Control, Rows, Selected, Extracted,
     OneCallPerText, LostInTwoWays, Tick, store, feed, cycle, Idle, Unsettled,
     Assigning, Calling, Recorded, Analysed, loop, lost, DecidedTo, CutShort

\* A new post changes the channel only.
LEMMA PublishKeeps ==
  ASSUME IInv, NEW p \in Pubs, NEW t \in Texts, Publish(p, t)
  PROVE  IInv'
  BY NoTextIsNoText, TimesNat DEF IInv, TypeOK, Control, Rows, Selected, Extracted,
     OneCallPerText, LostInTwoWays, Publish, store, feed, cycle, Idle, Unsettled,
     Assigning, Calling, Recorded, Analysed, loop, lost, DecidedTo, CutShort

\* An edited post changes the channel only.
LEMMA EditKeeps ==
  ASSUME IInv, NEW p \in Pubs, NEW t \in Texts, Edit(p, t)
  PROVE  IInv'
  BY NoTextIsNoText, TimesNat DEF IInv, TypeOK, Control, Rows, Selected, Extracted,
     OneCallPerText, LostInTwoWays, Edit, store, feed, cycle, Idle, Unsettled,
     Assigning, Calling, Recorded, Analysed, loop, lost, DecidedTo, CutShort

\* A cycle starts with empty volatile state.
LEMMA StartCycleKeeps ==
  ASSUME IInv, NEW S \in SUBSET Sources, NEW ing \in BOOLEAN, StartCycle(S, ing)
  PROVE  IInv'
  BY NoTextIsNoText, TimesNat DEF IInv, TypeOK, Control, Rows, Selected, Extracted,
     OneCallPerText, LostInTwoWays, StartCycle, store, feed, cycle, Idle, Unsettled,
     Assigning, Calling, Recorded, Analysed, loop, lost, DecidedTo, CutShort

\* Collection fills the raw cache; the books are untouched.
LEMMA CollectKeeps ==
  ASSUME IInv, NEW ok \in SUBSET ids, NEW got \in SUBSET Pubs,
         NEW refreshed \in SUBSET Pubs, Collect(ok, got, refreshed)
  PROVE  IInv'
  BY NoTextIsNoText, TimesNat DEF IInv, TypeOK, Control, Rows, Selected, Extracted,
     OneCallPerText, LostInTwoWays, Collect, Slots, Ingestible, Unread, store, feed,
     cycle, Idle, Unsettled, Assigning, Calling, Recorded, Analysed, loop, lost,
     DecidedTo, CutShort

\* A recorded text owes an enqueue: p is cur, and its old analysis no longer counts.
LEMMA RecordKeeps ==
  ASSUME IInv, NEW p \in Pubs, Record(p)
  PROVE  IInv'
<1>1. TypeOK'
  BY NoTextIsNoText DEF IInv, TypeOK, Control, Selected, Entry, Reasons, ErrorReasons,
     Record, store, feed, cycle, loop, lost
<1>2. Control'
  BY DEF IInv, TypeOK, Control, Idle, Record, store, feed, cycle, loop, lost
<1>3. Rows'
  BY DEF IInv, TypeOK, Control, Selected, Unsettled, Assigning, Rows, Absent, Record,
     store, feed, cycle, LostInTwoWays, Recorded, loop, lost
<1>4. Selected'
  BY NoTextIsNoText DEF IInv, TypeOK, Control, Selected, Unsettled, Assigning, Record,
     store, feed, cycle, Idle, loop, lost
<1>5. Extracted'
  BY NoTextIsNoText DEF IInv, TypeOK, Control, Selected, Extracted, Unsettled,
     Assigning, Record, store, feed, cycle, Idle, loop, lost, DecidedTo
<1>6. OneCallPerText'
  BY NoTextIsNoText DEF IInv, TypeOK, Control, Extracted, OneCallPerText, Calling,
     Record, store, feed, cycle, Idle, loop, lost, DecidedTo
<1>7. LostInTwoWays'
  BY NoTextIsNoText DEF IInv, TypeOK, Control, Selected, Extracted, LostInTwoWays,
     Recorded, Analysed, Record, store, feed, cycle, loop, lost, DecidedTo, CutShort
<1> QED BY <1>1, <1>2, <1>3, <1>4, <1>5, <1>6, <1>7 DEF IInv

\* The owed enqueue is made, so p is on the queue.
LEMMA EnqueueKeeps ==
  ASSUME IInv, NEW p \in Pubs, Enqueue(p)
  PROVE  IInv'
<1>1. TypeOK'
  BY TimesNat, SizesPositive DEF IInv, TypeOK, Control, Selected, Entry, Reasons,
     ErrorReasons, Enqueue, Enqueued, store, feed, cycle, Retryable, Absent, Unsettled,
     Assigning, loop, lost
<1>2. Control'
  BY DEF IInv, TypeOK, Control, Idle, Enqueue, Enqueued, store, feed, cycle, loop, lost
<1>3. Rows'
  BY DEF IInv, TypeOK, Control, Selected, Unsettled, Assigning, Rows, Absent, Enqueue,
     Enqueued, store, feed, cycle, Retryable, ErrorReasons, Reasons, loop, lost
<1>4. Selected'
  BY DEF IInv, TypeOK, Control, Selected, Unsettled, Assigning, Enqueue, Enqueued,
     store, feed, cycle, Retryable, ErrorReasons, Absent, Reasons, loop, lost
<1>5. Extracted'
  BY DEF IInv, TypeOK, Control, Selected, Extracted, Unsettled, Assigning, Enqueue,
     Enqueued, store, feed, cycle, loop, lost, DecidedTo
<1>6. OneCallPerText'
  BY DEF IInv, TypeOK, Control, Extracted, OneCallPerText, Calling, Enqueue, Enqueued,
     store, feed, cycle, loop, lost, DecidedTo
<1>7. LostInTwoWays'
  BY DEF IInv, TypeOK, Control, Selected, Extracted, LostInTwoWays, Recorded, Analysed,
     Enqueue, Enqueued, store, feed, cycle, Absent, Unsettled, Assigning, ErrorReasons,
     Retryable, Entry, Reasons, loop, lost, DecidedTo, CutShort
<1> QED BY <1>1, <1>2, <1>3, <1>4, <1>5, <1>6, <1>7 DEF IInv

\* last_collect_at and the phase change.
LEMMA FinishIngestKeeps ==
  ASSUME IInv, FinishIngest
  PROVE  IInv'
  BY NoTextIsNoText, TimesNat DEF IInv, TypeOK, Control, Rows, Selected, Extracted,
     OneCallPerText, LostInTwoWays, FinishIngest, store, feed, cycle, Idle, Unsettled,
     Assigning, Calling, Recorded, Analysed, loop, lost, DecidedTo, CutShort

\* Expiry keeps entries on the queue, and what is selected is retryable.
LEMMA ExpireAndSelectKeeps ==
  ASSUME IInv, NEW S \in SUBSET Pubs, ExpireAndSelect(S)
  PROVE  IInv'
<1>1. TypeOK'
  <2>1. queue' \in [Pubs -> Entry]
    BY SizesPositive DEF IInv, TypeOK, ExpireAndSelect, Entry, Reasons
  <2> QED
    BY <2>1 DEF IInv, TypeOK, ExpireAndSelect, IsPrefix, Selectable, feed, loop, lost
<1>2. Control'
  BY DEF IInv, TypeOK, Control, Idle, ExpireAndSelect, IsPrefix, Expired, Selectable,
     store, feed, cycle, loop, lost
<1>3. Rows'
  BY DEF IInv, TypeOK, Control, Selected, Unsettled, Assigning, Rows, Absent,
     ExpireAndSelect, IsPrefix, Expired, Selectable, store, feed, cycle, Retryable,
     ErrorReasons, Reasons, loop, lost
<1>4. Selected'
  BY NoTextIsNoText DEF IInv, TypeOK, Control, Selected, Unsettled, Assigning,
     ExpireAndSelect, IsPrefix, Expired, Selectable, store, feed, cycle, Retryable,
     ErrorReasons, Absent, Reasons, Idle, loop, lost
<1>5. Extracted'
  BY NoTextIsNoText DEF IInv, TypeOK, Control, Selected, Extracted, Unsettled,
     Assigning, ExpireAndSelect, IsPrefix, Expired, Selectable, store, feed, cycle,
     loop, lost, DecidedTo
<1>6. OneCallPerText'
  BY NoTextIsNoText DEF IInv, TypeOK, Control, Extracted, OneCallPerText, Calling,
     ExpireAndSelect, IsPrefix, Expired, Selectable, store, feed, cycle, loop, lost,
     DecidedTo
<1>7. LostInTwoWays'
  BY NoTextIsNoText DEF IInv, TypeOK, Control, Selected, Extracted, LostInTwoWays,
     Recorded, Analysed, ExpireAndSelect, IsPrefix, Expired, Selectable, store, feed,
     cycle, Absent, Unsettled, Assigning, Enqueued, ErrorReasons, Retryable, Entry,
     Reasons, loop, lost, DecidedTo, CutShort
<1> QED BY <1>1, <1>2, <1>3, <1>4, <1>5, <1>6, <1>7 DEF IInv

\* A batch moves publications from pending to tasks.
LEMMA StartBatchKeeps ==
  ASSUME IInv, NEW B \in SUBSET pending, StartBatch(B)
  PROVE  IInv'
  BY NoTextIsNoText, TimesNat DEF IInv, TypeOK, Control, Rows, Selected, Extracted,
     OneCallPerText, LostInTwoWays, StartBatch, store, feed, cycle, Idle, Unsettled,
     Assigning, Calling, Recorded, Analysed, loop, lost, DecidedTo, CutShort

\* A stored extraction is what the task returns.
LEMMA ExtractCachedKeeps ==
  ASSUME IInv, NEW p \in Pubs, ExtractCached(p)
  PROVE  IInv'
  BY NoTextIsNoText, TimesNat DEF IInv, TypeOK, Control, Rows, Selected, Extracted,
     OneCallPerText, LostInTwoWays, ExtractCached, MayStart, store, feed, cycle, Idle,
     Unsettled, Assigning, Calling, Recorded, Analysed, loop, lost, DecidedTo, CutShort

\* The lock keeps a second task off the text.
LEMMA ExtractCallKeeps ==
  ASSUME IInv, NEW p \in Pubs, ExtractCall(p)
  PROVE  IInv'
  BY NoTextIsNoText, TimesNat DEF IInv, TypeOK, Control, Rows, Selected, Extracted,
     OneCallPerText, LostInTwoWays, ExtractCall, MayStart, store, feed, cycle, Idle,
     Unsettled, Assigning, Calling, Recorded, Analysed, loop, lost, DecidedTo, CutShort

\* A failed extraction counts one attempt of an entry that had one left.
LEMMA ExtractRaiseKeeps ==
  ASSUME IInv, NEW p \in Pubs, ExtractRaise(p)
  PROVE  IInv'
<1>1. TypeOK'
  BY TimesNat, SizesPositive DEF IInv, TypeOK, Control, Selected, Entry, Reasons,
     ErrorReasons, ExtractRaise, Enqueued, store, feed, cycle, Retryable, Absent,
     Unsettled, Assigning, loop, lost
<1>2. Control'
  BY DEF IInv, TypeOK, Control, Idle, ExtractRaise, Enqueued, store, feed, cycle, loop,
     lost
<1>3. Rows'
  BY DEF IInv, TypeOK, Control, Selected, Unsettled, Assigning, Rows, Absent,
     ExtractRaise, Enqueued, store, feed, cycle, Retryable, ErrorReasons, Reasons,
     loop, lost
<1>4. Selected'
  BY DEF IInv, TypeOK, Control, Selected, Unsettled, Assigning, ExtractRaise, Enqueued,
     store, feed, cycle, Retryable, ErrorReasons, Absent, Reasons, loop, lost
<1>5. Extracted'
  BY DEF IInv, TypeOK, Control, Selected, Extracted, Unsettled, Assigning,
     ExtractRaise, Enqueued, store, feed, cycle, loop, lost, DecidedTo
<1>6. OneCallPerText'
  BY DEF IInv, TypeOK, Control, Extracted, OneCallPerText, Calling, ExtractRaise,
     Enqueued, store, feed, cycle, loop, lost, DecidedTo
<1>7. LostInTwoWays'
  BY DEF IInv, TypeOK, Control, Selected, Extracted, LostInTwoWays, Recorded, Analysed,
     ExtractRaise, Enqueued, store, feed, cycle, Absent, Unsettled, Assigning,
     ErrorReasons, Retryable, Entry, Reasons, loop, lost, DecidedTo, CutShort
<1> QED BY <1>1, <1>2, <1>3, <1>4, <1>5, <1>6, <1>7 DEF IInv

\* The caller is the only task on its text, so no other task sees it change.
LEMMA ExtractReturnKeeps ==
  ASSUME IInv, NEW p \in Pubs, NEW status \in {"ok", "empty"}, ExtractReturn(p, status)
  PROVE  IInv'
<1>1. TypeOK'
  BY NoTextIsNoText DEF IInv, TypeOK, Control, Selected, Entry, Reasons, ErrorReasons,
     ExtractReturn, store, feed, cycle, Unsettled, loop, lost
<1>2. Control'
  BY DEF IInv, TypeOK, Control, Idle, ExtractReturn, store, feed, cycle, loop, lost
<1>3. Rows'
  BY DEF IInv, TypeOK, Control, Selected, Unsettled, Assigning, Rows, Absent,
     ExtractReturn, store, feed, cycle, loop, lost
<1>4. Selected'
  BY NoTextIsNoText DEF IInv, TypeOK, Control, Selected, Unsettled, Assigning,
     ExtractReturn, store, feed, cycle, loop, lost
<1>5. Extracted'
  BY NoTextIsNoText DEF IInv, TypeOK, Control, Selected, Extracted, Unsettled,
     Assigning, ExtractReturn, store, feed, cycle, OneCallPerText, Calling, loop, lost,
     DecidedTo
<1>6. OneCallPerText'
  BY NoTextIsNoText DEF IInv, TypeOK, Control, Extracted, OneCallPerText, Calling,
     ExtractReturn, store, feed, cycle, loop, lost, DecidedTo
<1>7. LostInTwoWays'
  BY NoTextIsNoText DEF IInv, TypeOK, Control, Selected, Extracted, LostInTwoWays,
     Recorded, Analysed, ExtractReturn, store, feed, cycle, OneCallPerText, Calling,
     Unsettled, loop, lost, DecidedTo, CutShort
<1> QED BY <1>1, <1>2, <1>3, <1>4, <1>5, <1>6, <1>7 DEF IInv

\* An empty extraction leaves the queue analysed; an ok one becomes a job.
LEMMA AwaitKeeps ==
  ASSUME IInv, NEW p \in Pubs, Await(p)
  PROVE  IInv'
<1>1. TypeOK'
  BY TimesNat, SizesPositive DEF IInv, TypeOK, Control, Selected, Entry, Reasons,
     ErrorReasons, Await, IsPrefix, Awaiting, store, feed, cycle, Retryable, Absent,
     Unsettled, Assigning, loop, lost
<1>2. Control'
  BY DEF IInv, TypeOK, Control, Idle, Await, IsPrefix, Awaiting, store, feed, cycle,
     loop, lost
<1>3. Rows'
  BY DEF IInv, TypeOK, Control, Selected, Unsettled, Assigning, Rows, Absent, Await,
     IsPrefix, Awaiting, store, feed, cycle, Retryable, ErrorReasons, Reasons, loop,
     lost
<1>4. Selected'
  BY DEF IInv, TypeOK, Control, Selected, Unsettled, Assigning, Await, IsPrefix,
     Awaiting, store, feed, cycle, Retryable, ErrorReasons, Absent, Reasons, loop, lost
<1>5. Extracted'
  BY DEF IInv, TypeOK, Control, Selected, Extracted, Unsettled, Assigning, Await,
     IsPrefix, Awaiting, store, feed, cycle, loop, lost, DecidedTo
<1>6. OneCallPerText'
  BY DEF IInv, TypeOK, Control, Extracted, OneCallPerText, Calling, Await, IsPrefix,
     Awaiting, store, feed, cycle, loop, lost, DecidedTo
<1>7. LostInTwoWays'
  BY DEF IInv, TypeOK, Control, Selected, Extracted, LostInTwoWays, Recorded, Analysed,
     Await, IsPrefix, Awaiting, store, feed, cycle, Absent, Unsettled, Assigning,
     Enqueued, ErrorReasons, Retryable, Entry, Reasons, loop, lost, DecidedTo, CutShort
<1> QED BY <1>1, <1>2, <1>3, <1>4, <1>5, <1>6, <1>7 DEF IInv

\* The awaited tasks are dropped; the jobs remain.
LEMMA EmbedKeeps ==
  ASSUME IInv, Embed
  PROVE  IInv'
  BY NoTextIsNoText, TimesNat DEF IInv, TypeOK, Control, Rows, Selected, Extracted,
     OneCallPerText, LostInTwoWays, Embed, Awaiting, store, feed, cycle, Idle,
     Unsettled, Assigning, Calling, Recorded, Analysed, loop, lost, DecidedTo, CutShort

\* The awaited tasks are dropped; the jobs remain.
LEMMA EmbedFailKeeps ==
  ASSUME IInv, EmbedFail
  PROVE  IInv'
  BY NoTextIsNoText, TimesNat DEF IInv, TypeOK, Control, Rows, Selected, Extracted,
     OneCallPerText, LostInTwoWays, EmbedFail, Awaiting, store, feed, cycle, Idle,
     Unsettled, Assigning, Calling, Recorded, Analysed, loop, lost, DecidedTo, CutShort

\* A job has an attempt left, and takes its penalty once.
LEMMA PenaliseKeeps ==
  ASSUME IInv, NEW p \in Pubs, Penalise(p)
  PROVE  IInv'
<1>1. TypeOK'
  BY TimesNat, SizesPositive DEF IInv, TypeOK, Control, Selected, Entry, Reasons,
     ErrorReasons, Penalise, Enqueued, store, feed, cycle, Retryable, Absent,
     Unsettled, Assigning, loop, lost
<1>2. Control'
  BY DEF IInv, TypeOK, Control, Idle, Penalise, Enqueued, store, feed, cycle, loop,
     lost
<1>3. Rows'
  BY DEF IInv, TypeOK, Control, Selected, Unsettled, Assigning, Rows, Absent, Penalise,
     Enqueued, store, feed, cycle, Retryable, ErrorReasons, Reasons, loop, lost
<1>4. Selected'
  BY DEF IInv, TypeOK, Control, Selected, Unsettled, Assigning, Penalise, Enqueued,
     store, feed, cycle, Retryable, ErrorReasons, Absent, Reasons, loop, lost
<1>5. Extracted'
  BY DEF IInv, TypeOK, Control, Selected, Extracted, Unsettled, Assigning, Penalise,
     Enqueued, store, feed, cycle, loop, lost, DecidedTo
<1>6. OneCallPerText'
  BY DEF IInv, TypeOK, Control, Extracted, OneCallPerText, Calling, Penalise, Enqueued,
     store, feed, cycle, loop, lost, DecidedTo
<1>7. LostInTwoWays'
  BY DEF IInv, TypeOK, Control, Selected, Extracted, LostInTwoWays, Recorded, Analysed,
     Penalise, Enqueued, store, feed, cycle, Absent, Unsettled, Assigning,
     ErrorReasons, Retryable, Entry, Reasons, loop, lost, DecidedTo, CutShort
<1> QED BY <1>1, <1>2, <1>3, <1>4, <1>5, <1>6, <1>7 DEF IInv

\* The next job keeps what is known of it as a job.
LEMMA PickJobKeeps ==
  ASSUME IInv, NEW p \in Pubs, PickJob(p)
  PROVE  IInv'
<1>1. TypeOK'
  BY DEF IInv, TypeOK, Control, Selected, Entry, Reasons, ErrorReasons, PickJob,
     IsPrefix, store, feed, cycle, loop, lost
<1>2. Control'
  BY DEF IInv, TypeOK, Control, Idle, PickJob, IsPrefix, store, feed, cycle, loop, lost
<1>3. Rows'
  BY DEF IInv, TypeOK, Control, Selected, Unsettled, Assigning, Rows, Absent, PickJob,
     IsPrefix, store, feed, cycle, loop, lost
<1>4. Selected'
  BY DEF IInv, TypeOK, Control, Selected, Unsettled, Assigning, PickJob, IsPrefix,
     store, feed, cycle, loop, lost
<1>5. Extracted'
  <2>1. p \in jobs /\ Assigning' = {p} /\ Assigning = {} /\ frag = 1 /\ frag' = 1
    BY DEF IInv, Control, PickJob, IsPrefix, Assigning
  <2>2. pubText' = pubText /\ last' \in 1 .. FragCount[pubText[p]]
    BY DEF PickJob, store
  <2>3. extraction' = extraction /\ task' = task /\ jobs' \subseteq jobs
    BY DEF PickJob, store
  <2>4. pubText[p] \in Texts /\ extraction[pubText[p]] = "ok"
    BY <2>1, NoTextIsNoText DEF IInv, TypeOK, Selected, Unsettled, Extracted
  <2>5. DecidedTo(p, frag - 1)'
    BY <2>1, <2>2, <2>3, <2>4 DEF DecidedTo
  <2>6. last' \in 1 .. FragCount[pubText'[p]] /\ frag' <= last' + 1
    <3>1. FragCount[pubText[p]] \in Nat
      BY <2>4, FragCountType
    <3>2. last' \in Nat /\ 1 <= last'
      BY <2>2, <3>1
    <3>3. frag' <= last' + 1
      <4>1. frag' = 1
        BY <2>1
      <4>2. \A i \in Nat : 1 <= i => 1 <= i + 1
        OBVIOUS
      <4> QED BY <3>2, <4>1, <4>2
    <3> QED BY <2>2, <3>3
  <2> QED BY <2>1, <2>2, <2>3, <2>4, <2>5, <2>6 DEF IInv, Extracted
<1>6. OneCallPerText'
  BY DEF IInv, TypeOK, Control, Extracted, OneCallPerText, Calling, PickJob, IsPrefix,
     store, feed, cycle, loop, lost, DecidedTo
<1>7. LostInTwoWays'
  BY DEF IInv, TypeOK, Control, Selected, Extracted, LostInTwoWays, Recorded, Analysed,
     PickJob, IsPrefix, store, feed, cycle, loop, lost, DecidedTo, CutShort
<1> QED BY <1>1, <1>2, <1>3, <1>4, <1>5, <1>6, <1>7 DEF IInv

\* One more fragment of cur is decided.
LEMMA AssignFragmentKeeps ==
  ASSUME IInv, NEW p \in Pubs, AssignFragment(p)
  PROVE  IInv'
<1>1. TypeOK'
  BY NoTextIsNoText, FragCountType DEF IInv, TypeOK, Control, Selected, Entry, Reasons,
     ErrorReasons, AssignFragment, store, feed, cycle, Unsettled, Assigning, loop, lost
<1>2. Control'
  BY DEF IInv, TypeOK, Control, Idle, AssignFragment, store, feed, cycle, loop, lost
<1>3. Rows'
  BY DEF IInv, TypeOK, Control, Selected, Unsettled, Assigning, Rows, Absent,
     AssignFragment, store, feed, cycle, loop, lost
<1>4. Selected'
  BY NoTextIsNoText DEF IInv, TypeOK, Control, Selected, Unsettled, Assigning,
     AssignFragment, store, feed, cycle, loop, lost
<1>5. Extracted'
  BY NoTextIsNoText DEF IInv, TypeOK, Control, Selected, Extracted, Unsettled,
     Assigning, AssignFragment, store, feed, cycle, loop, lost, DecidedTo
<1>6. OneCallPerText'
  BY NoTextIsNoText DEF IInv, TypeOK, Control, Extracted, OneCallPerText, Calling,
     AssignFragment, store, feed, cycle, loop, lost, DecidedTo
<1>7. LostInTwoWays'
  BY NoTextIsNoText DEF IInv, TypeOK, Control, Selected, Extracted, LostInTwoWays,
     Recorded, Analysed, AssignFragment, store, feed, cycle, loop, lost, DecidedTo,
     CutShort
<1> QED BY <1>1, <1>2, <1>3, <1>4, <1>5, <1>6, <1>7 DEF IInv

\* A failed assignment counts one attempt.
LEMMA AssignFailKeeps ==
  ASSUME IInv, NEW p \in Pubs, AssignFail(p)
  PROVE  IInv'
<1>1. TypeOK'
  BY NoTextIsNoText, TimesNat, SizesPositive, FragCountType DEF IInv, TypeOK, Control,
     Selected, Entry, Reasons, ErrorReasons, AssignFail, Enqueued, store, feed, cycle,
     Retryable, Absent, Unsettled, Assigning, loop, lost, Leave
<1>2. Control'
  BY DEF IInv, TypeOK, Control, Idle, AssignFail, Enqueued, store, feed, cycle, loop,
     lost, Leave
<1>3. Rows'
  BY DEF IInv, TypeOK, Control, Selected, Unsettled, Assigning, Rows, Absent,
     AssignFail, Enqueued, store, feed, cycle, Retryable, ErrorReasons, Reasons, loop,
     lost, Leave
<1>4. Selected'
  BY NoTextIsNoText DEF IInv, TypeOK, Control, Selected, Unsettled, Assigning,
     AssignFail, Enqueued, store, feed, cycle, Retryable, ErrorReasons, Absent,
     Reasons, Idle, loop, lost, Leave
<1>5. Extracted'
  BY NoTextIsNoText DEF IInv, TypeOK, Control, Selected, Extracted, Unsettled,
     Assigning, AssignFail, Enqueued, store, feed, cycle, loop, lost, DecidedTo, Leave
<1>6. OneCallPerText'
  BY NoTextIsNoText DEF IInv, TypeOK, Control, Extracted, OneCallPerText, Calling,
     AssignFail, Enqueued, store, feed, cycle, loop, lost, DecidedTo, Leave
<1>7. LostInTwoWays'
  BY NoTextIsNoText DEF IInv, TypeOK, Control, Selected, Extracted, LostInTwoWays,
     Recorded, Analysed, AssignFail, Enqueued, store, feed, cycle, Absent, Unsettled,
     Assigning, ErrorReasons, Retryable, Entry, Reasons, loop, lost, DecidedTo,
     CutShort, Leave
<1> QED BY <1>1, <1>2, <1>3, <1>4, <1>5, <1>6, <1>7 DEF IInv

\* What mark_processed leaves behind: every fragment decided, or those with a
\* proposal and the publication in cut.
LEMMA ProcessedToTheLast ==
  ASSUME IInv, NEW p \in Pubs, MarkProcessed(p)
  PROVE  /\ Analysed(p) \/ CutShort(p)'
         /\ pubText[p] \in Texts
<1>1. p \in Assigning /\ frag > last
  BY DEF MarkProcessed, Assigning
<1>2. pubText[p] \in Texts
  BY <1>1 DEF IInv, TypeOK, Selected, Unsettled
<1>3. /\ FragCount[pubText[p]] \in Nat /\ last \in 1 .. FragCount[pubText[p]]
      /\ frag = last + 1
  BY <1>1, <1>2, FragCountType DEF IInv, TypeOK, Extracted
<1>4. DecidedTo(p, last)
  BY <1>1, <1>3 DEF IInv, Extracted
<1>5. CASE last = FragCount[pubText[p]]
  BY <1>2, <1>4, <1>5 DEF Analysed
<1>6. CASE last < FragCount[pubText[p]]
  <2>1. last \in 1 .. FragCount[pubText[p]] - 1 /\ p \in cut'
    BY <1>3, <1>6 DEF MarkProcessed
  <2>2. /\ pubText' = pubText /\ extraction' = extraction /\ decided' = decided
    BY DEF MarkProcessed
  <2>3. DecidedTo(p, last) => CutShort(p)'
    BY <2>1, <2>2 DEF CutShort, DecidedTo
  <2> QED BY <1>2, <1>4, <2>3
<1> QED BY <1>2, <1>3, <1>5, <1>6

\* All fragments of cur with a proposal are decided when it leaves the queue.
LEMMA MarkProcessedKeeps ==
  ASSUME IInv, NEW p \in Pubs, MarkProcessed(p)
  PROVE  IInv'
<1>1. TypeOK'
  BY NoTextIsNoText, TimesNat, SizesPositive DEF IInv, TypeOK, Control, Selected,
     Entry, Reasons, ErrorReasons, MarkProcessed, store, feed, cycle, Retryable,
     Absent, Unsettled, Assigning, loop, lost, Leave
<1>2. Control'
  BY DEF IInv, TypeOK, Control, Idle, MarkProcessed, store, feed, cycle, loop, lost,
     Leave
<1>3. Rows'
  BY DEF IInv, TypeOK, Control, Selected, Unsettled, Assigning, Rows, Absent,
     MarkProcessed, store, feed, cycle, Retryable, ErrorReasons, Reasons, loop, lost,
     Leave
<1>4. Selected'
  BY NoTextIsNoText DEF IInv, TypeOK, Control, Selected, Unsettled, Assigning,
     MarkProcessed, store, feed, cycle, Retryable, ErrorReasons, Absent, Reasons, Idle,
     loop, lost, Leave
<1>5. Extracted'
  BY NoTextIsNoText, FragCountType DEF IInv, TypeOK, Control, Selected, Extracted,
     Unsettled, Assigning, MarkProcessed, store, feed, cycle, loop, lost, DecidedTo,
     Leave
<1>6. OneCallPerText'
  BY NoTextIsNoText DEF IInv, TypeOK, Control, Extracted, OneCallPerText, Calling,
     MarkProcessed, store, feed, cycle, loop, lost, DecidedTo, Leave
<1>7. LostInTwoWays'
  <2>1. Analysed(p)' \/ CutShort(p)'
    BY ProcessedToTheLast DEF MarkProcessed, Analysed, DecidedTo
  <2>2. ASSUME NEW q \in Recorded', q # p
        PROVE  \/ queue'[q] # Absent \/ Analysed(q)' \/ CutShort(q)'
               \/ q \in torn' \/ (pc' = "enqueue" /\ q \in cur')
    BY <2>2 DEF IInv, TypeOK, LostInTwoWays, Recorded, Analysed, DecidedTo, CutShort,
       MarkProcessed
  <2> QED BY <2>1, <2>2 DEF LostInTwoWays
<1> QED BY <1>1, <1>2, <1>3, <1>4, <1>5, <1>6, <1>7 DEF IInv

\* Only the phase changes.
LEMMA EndBatchKeeps ==
  ASSUME IInv, EndBatch
  PROVE  IInv'
  BY NoTextIsNoText, TimesNat DEF IInv, TypeOK, Control, Rows, Selected, Extracted,
     OneCallPerText, LostInTwoWays, EndBatch, store, feed, cycle, Idle, Unsettled,
     Assigning, Calling, Recorded, Analysed, loop, lost, DecidedTo, CutShort

\* The coverage flags are computed.
LEMMA CoverKeeps ==
  ASSUME IInv, Cover
  PROVE  IInv'
  BY NoTextIsNoText, TimesNat DEF IInv, TypeOK, Control, Rows, Selected, Extracted,
     OneCallPerText, LostInTwoWays, Cover, store, feed, cycle, Idle, Unsettled,
     Assigning, Calling, Recorded, Analysed, loop, lost, DecidedTo, CutShort

\* The snapshot reads the books.
LEMMA BuildKeeps ==
  ASSUME IInv, Build
  PROVE  IInv'
<1>1. TypeOK'
  <2>1. applied' \in BOOLEAN
    BY DEF IInv, TypeOK, Build, Rest, loop
  <2>2. TypeOK'
    BY <2>1, NoTextIsNoText, TimesNat
       DEF IInv, TypeOK, Build, Rest, store, feed, lost, loop, Idle
  <2> QED BY <2>2
<1>2. Control'
  BY DEF IInv, Control, Build, Rest, Idle, loop
<1>3. Rows' /\ Selected'
  BY DEF IInv, TypeOK, Control, Rows, Selected, Unsettled, Assigning, Build, Rest,
     store, feed,
     cycle, loop, Idle
<1>4. Extracted' /\ OneCallPerText'
  BY DEF IInv, Control, Extracted, OneCallPerText, Calling, Assigning, DecidedTo,
     Build, Rest,
     store, feed, cycle, loop, Idle
<1>5. LostInTwoWays'
  BY DEF IInv, TypeOK, Control, LostInTwoWays, Recorded, Analysed, DecidedTo, CutShort,
     Build, Rest,
     store, feed, cycle, lost
<1> QED BY <1>1, <1>2, <1>3, <1>4, <1>5 DEF IInv

\* The interrupted enqueue is the only debt that is forgotten, and it becomes torn.
LEMMA DropKeeps ==
  ASSUME IInv, Drop
  PROVE  IInv'
<1>1. TypeOK'
  <2>1. applied' \in BOOLEAN
    BY DEF IInv, TypeOK, Drop, Rest, loop
  <2>2. TypeOK'
    BY <2>1, NoTextIsNoText, TimesNat
       DEF IInv, TypeOK, Drop, Rest, store, feed, lost, loop, Idle
  <2> QED BY <2>2
<1>2. Control'
  BY DEF IInv, Control, Drop, Rest, Idle
<1>3. Rows' /\ Selected'
  BY DEF IInv, TypeOK, Control, Rows, Selected, Unsettled, Assigning, Drop, Rest,
     store, feed,
     cycle, loop, Idle
<1>4. Extracted' /\ OneCallPerText'
  BY DEF IInv, Control, Extracted, OneCallPerText, Calling, Assigning, DecidedTo, Drop,
     Rest,
     store, feed, cycle, loop, Idle
<1>5. LostInTwoWays'
  BY DEF IInv, TypeOK, Control, LostInTwoWays, Recorded, Analysed, DecidedTo, CutShort,
     Drop, Rest,
     store, feed, cycle, lost
<1> QED BY <1>1, <1>2, <1>3, <1>4, <1>5 DEF IInv

-----------------------------------------------------------------------------
\* The initial state: nothing recorded, nothing queued, nothing running.
LEMMA InitInv == Init => IInv
<1> SUFFICES ASSUME Init PROVE IInv
  OBVIOUS
<1>1. TypeOK
  <2>1. applied \in BOOLEAN
    BY DEF Init
  <2> QED
    BY <2>1, SizesPositive, TimesNat, NoTextIsNoText
       DEF Init, TypeOK, Idle, Entry, Reasons, Absent, Slots
<1>2. Control /\ Rows /\ Selected
  BY NoTextIsNoText DEF Init, Control, Rows, Selected, Idle, Unsettled, Assigning, Absent
<1>3. Extracted /\ OneCallPerText /\ LostInTwoWays
  BY DEF Init, Extracted, OneCallPerText, Calling, Idle, Assigning, LostInTwoWays, Recorded
<1> QED BY <1>1, <1>2, <1>3 DEF IInv

\* Every step of the system, interruptions included, keeps the books.
LEMMA NextInv == IInv /\ [Next]_vars => IInv'
<1> SUFFICES ASSUME IInv, [Next]_vars PROVE IInv'
  OBVIOUS
<1>1. CASE CycleStep
  <2>1. CASE \E S \in SUBSET Sources, ing \in BOOLEAN : StartCycle(S, ing)
    BY <2>1, StartCycleKeeps
  <2>2. CASE \E ok \in SUBSET ids, got, refreshed \in SUBSET Pubs : Collect(ok, got, refreshed)
    BY <2>2, CollectKeeps
  <2>3. CASE \E p \in Pubs : Record(p) \/ Enqueue(p)
    BY <2>3, RecordKeeps, EnqueueKeeps
  <2>4. CASE \E S \in SUBSET Pubs : ExpireAndSelect(S)
    BY <2>4, ExpireAndSelectKeeps
  <2>5. CASE \E B \in SUBSET pending : StartBatch(B)
    BY <2>5, StartBatchKeeps
  <2>6. CASE \E p \in Pubs :
                \/ ExtractCached(p) \/ ExtractCall(p) \/ ExtractRaise(p)
                \/ \E status \in {"ok", "empty"} : ExtractReturn(p, status)
                \/ Await(p)
    BY <2>6, ExtractCachedKeeps, ExtractCallKeeps, ExtractRaiseKeeps, ExtractReturnKeeps,
       AwaitKeeps
  <2>7. CASE \E p \in Pubs : \/ Penalise(p) \/ PickJob(p)
                             \/ AssignFragment(p) \/ AssignFail(p) \/ MarkProcessed(p)
    BY <2>7, PenaliseKeeps, PickJobKeeps, AssignFragmentKeeps, AssignFailKeeps,
       MarkProcessedKeeps
  <2>8. CASE FinishIngest \/ Embed \/ EmbedFail \/ EndFailed \/ EndBatch \/ Cover \/ Build
    BY <2>8, FinishIngestKeeps, EmbedKeeps, EmbedFailKeeps, DropKeeps, EndBatchKeeps,
       CoverKeeps, BuildKeeps DEF EndFailed
  <2> QED BY <1>1, <2>1, <2>2, <2>3, <2>4, <2>5, <2>6, <2>7, <2>8 DEF CycleStep
<1>2. CASE Channel
  BY <1>2, TickKeeps, PublishKeeps, EditKeeps DEF Channel
<1>3. CASE Interrupt
  BY <1>3, DropKeeps DEF Interrupt
<1>4. CASE UNCHANGED vars
  BY <1>4 DEF vars, store, feed, cycle, IInv, TypeOK, Control, Rows, Selected,
     Extracted, OneCallPerText, LostInTwoWays, Idle, Unsettled, Assigning, Calling,
     Recorded, Analysed, loop, lost, DecidedTo, CutShort
<1> QED BY <1>1, <1>2, <1>3, <1>4 DEF Next

\* The invariant holds in every reachable state.
THEOREM Invariant == Spec => []IInv
  BY InitInv, NextInv, PTL DEF Spec

\* Type correctness; in particular no entry is retried past MaxAttempts.
THEOREM TypeCorrect == Spec => []TypeOK
<1>1. IInv => TypeOK
  BY DEF IInv
<1> QED BY <1>1, Invariant, PTL

\* A recorded publication is off the books unanalysed only when it was torn by an
\* interruption between record_publication and enqueue, or cut short by the commit
\* of a batch that had no proposal for its later fragments.
THEOREM NothingElseIsLost == Spec => []LostInTwoWays
<1>1. IInv => LostInTwoWays
  BY DEF IInv
<1> QED BY <1>1, Invariant, PTL

\* Concurrent extractions of one batch never pay for the same text twice.
THEOREM TextsPaidOnce == Spec => []OneCallPerText
<1>1. IInv => OneCallPerText
  BY DEF IInv
<1> QED BY <1>1, Invariant, PTL

-----------------------------------------------------------------------------
(* What a snapshot may compare, and how entries leave the queue.           *)

\* Cover is the only way to "build", and it takes a channel only when none of
\* its publications is queued.
LEMMA CompareStep == IInv /\ ComparableIsAnalysed /\ [Next]_vars => ComparableIsAnalysed'
<1> SUFFICES ASSUME IInv, ComparableIsAnalysed, [Next]_vars, pc' = "build"
             PROVE  ComparableIsAnalysed'
  BY DEF ComparableIsAnalysed
<1>1. CASE Cover
  <2>1. LostInTwoWays /\ pc # "enqueue" /\ torn' = torn /\ asOf' = asOf
    BY <1>1 DEF IInv, Cover, cycle, loop, lost
  <2>2. ASSUME NEW p \in Recorded, SourceOf[p] \in coverage', InLookback(p, asOf)
        PROVE  Analysed(p) \/ CutShort(p) \/ p \in torn
    BY <1>1, <2>1, <2>2 DEF Cover, Processed, LostInTwoWays, Recorded
  <2>3. /\ Recorded' = Recorded
        /\ \A p \in Pubs : (Analysed(p)' <=> Analysed(p)) /\ (CutShort(p)' <=> CutShort(p))
    BY <1>1 DEF Cover, store, lost, Recorded, Analysed, DecidedTo, CutShort
  <2>4. \A p \in Pubs : InLookback(p, asOf)' <=> InLookback(p, asOf)
    BY <1>1 DEF Cover, feed, InLookback, CurrentOf, PreviousOf, Slots
  <2> QED BY <2>1, <2>2, <2>3, <2>4 DEF ComparableIsAnalysed, Recorded
<1>2. CASE UNCHANGED vars
  BY <1>2 DEF vars, store, feed, cycle, ComparableIsAnalysed, Recorded, Analysed,
     InLookback, CurrentOf, PreviousOf, Slots, loop, lost, DecidedTo, CutShort
<1>3. CASE Next /\ ~ Cover
  BY <1>3 DEF Next, CycleStep, Channel, Interrupt, Tick, Publish, Edit, StartCycle,
     Collect, Record, Enqueue, FinishIngest, ExpireAndSelect, StartBatch,
     ExtractCached, ExtractCall, ExtractReturn, ExtractRaise, Await, Embed, EmbedFail,
     Penalise, PickJob, AssignFragment, AssignFail, MarkProcessed, EndBatch, Build,
     EndFailed, Drop, Rest, MayStart, cycle, loop, lost, Leave
<1> QED BY <1>1, <1>2, <1>3

\* Channels compared by a snapshot have every publication of both windows
\* analysed, those lost in one of the two ways excepted.
THEOREM ComparedChannelsAnalysed == Spec => []ComparableIsAnalysed
<1>1. Init => ComparableIsAnalysed
  BY DEF Init, ComparableIsAnalysed
<1> QED BY <1>1, CompareStep, Invariant, PTL DEF Spec

\* No step takes a publication off the queue that is neither analysed nor cut short.
THEOREM OnlyAnalysedOrCutLeave == Spec => LeavesAnalysed
<1>1. ASSUME IInv, Next, NEW p \in Pubs, queue[p] # Absent, queue'[p] = Absent
      PROVE  Analysed(p) \/ CutShort(p)'
  <2> USE <1>1 DEF IInv, TypeOK
  <2>1. CASE \E q \in Pubs : Await(q)
    BY <2>1 DEF Await, Analysed, Extracted, DecidedTo, CutShort
  <2>2. CASE \E q \in Pubs : MarkProcessed(q)
    <3>1. PICK q \in Pubs : MarkProcessed(q)
      BY <2>2
    <3>2. p = q /\ p \in Assigning
      BY <3>1 DEF MarkProcessed, Assigning
    <3> QED BY <3>1, <3>2, ProcessedToTheLast
  <2>3. CASE \E q \in Pubs : \/ Enqueue(q) \/ ExtractRaise(q) \/ Penalise(q) \/ AssignFail(q)
    BY <2>3 DEF Enqueue, ExtractRaise, Penalise, AssignFail, Enqueued, Absent,
       ErrorReasons, Control, Leave
  <2>4. CASE \E S \in SUBSET Pubs : ExpireAndSelect(S)
    BY <2>4 DEF ExpireAndSelect, Absent
  <2>5. CASE UNCHANGED queue
    BY <2>5
  <2> QED
    BY <2>1, <2>2, <2>3, <2>4, <2>5 DEF Next, CycleStep, Channel, Interrupt, Tick,
       Publish, Edit, StartCycle, Collect, Record, FinishIngest, StartBatch,
       ExtractCached, ExtractCall, ExtractReturn, Embed, EmbedFail, PickJob,
       AssignFragment, EndBatch, Cover, Build, EndFailed, Drop, store
<1>2. IInv /\ [Next]_vars =>
        [\A p \in Pubs : queue[p] # Absent /\ queue'[p] = Absent => Analysed(p) \/ CutShort(p)']_vars
  BY <1>1
<1> QED BY <1>2, Invariant, PTL DEF Spec, LeavesAnalysed

\* A stopped or expired entry changes only when its edited post is queued.
THEOREM StoppedStays == Spec => StoppedUntilEdited
<1>1. ASSUME IInv, Next, NEW p \in Pubs, Stopped(queue[p]), queue'[p] # queue[p]
      PROVE  queue'[p].reason = "edited" /\ pc = "enqueue"
  <2> USE <1>1 DEF IInv, TypeOK
  <2>0. ~ Unsettled(p)
    BY DEF Selected, Stopped
  <2>1. CASE \E q \in Pubs : Enqueue(q)
    BY <2>1 DEF Enqueue, Enqueued, Control, Rows, Stopped
  <2>2. CASE \E q \in Pubs : \/ ExtractRaise(q) \/ Await(q) \/ Penalise(q)
                            \/ AssignFail(q) \/ MarkProcessed(q)
    BY <2>0, <2>2 DEF ExtractRaise, Await, Penalise, AssignFail, MarkProcessed,
       Unsettled, Assigning, Leave
  <2>3. CASE \E S \in SUBSET Pubs : ExpireAndSelect(S)
    BY <2>3 DEF ExpireAndSelect, Expired, Stopped
  <2>4. CASE UNCHANGED queue
    BY <2>4
  <2> QED
    BY <2>1, <2>2, <2>3, <2>4 DEF Next, CycleStep, Channel, Interrupt, Tick, Publish,
       Edit, StartCycle, Collect, Record, FinishIngest, StartBatch, ExtractCached,
       ExtractCall, ExtractReturn, Embed, EmbedFail, PickJob, AssignFragment, EndBatch,
       Cover, Build, EndFailed, Drop, store
<1>2. IInv /\ [Next]_vars =>
        [\A p \in Pubs : Stopped(queue[p]) /\ queue'[p] # queue[p]
                             => queue'[p].reason = "edited" /\ pc = "enqueue"]_vars
  BY <1>1
<1> QED BY <1>2, Invariant, PTL DEF Spec, StoppedUntilEdited
=============================================================================
