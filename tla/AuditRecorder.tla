---------------------------- MODULE AuditRecorder -----------------------------
(***************************************************************************)
(* AuditRecorder and AuditTransport: the trail of the calls to the model.  *)
(* A call records its start, waits a moment for that record to be written, *)
(* goes out whatever became of it, and records its end.  One worker task   *)
(* writes the events; a full queue, an event too large and a closed        *)
(* recorder refuse them.                                                   *)
(***************************************************************************)
EXTENDS Integers, Sequences, FiniteSets

CONSTANTS
    Calls,
    QueueEvents, QueueBytes, EventBytes, \* the settings of the same names
    Sizes                                \* bytes an event may have

\* What is assumed of the constants.
ConstantsOK == Sizes \subseteq Nat /\ QueueEvents \in Nat /\ QueueBytes \in Nat /\ EventBytes \in Nat

Nobody == <<>>
Bytes(q) == LET Sum[i \in 0 .. Len(q)] == IF i = 0 THEN 0 ELSE Sum[i - 1] + q[i].size
            IN  Sum[Len(q)]

VARIABLES
    phase,   \* [Calls -> "new", "waiting", "out", "back"]
    queue,   \* events to be written: [id |-> <<call, "started" or "finished">>, size |-> bytes]
    writing, \* the event the worker has taken, as a sequence of at most one
    pending, \* _pending_bytes
    emitted, \* ids of the events recorded before the close
    stored,  \* ids in the store
    dropped, state, \* _dropped; "healthy" or "degraded"
    closing, \* "open", "flushing", "closed"
    verdict  \* what close returned: "none", "ok", "lossy"

auditVars == <<phase, queue, writing, pending, emitted, stored, dropped, state, closing, verdict>>

AuditInit ==
    /\ phase = [c \in Calls |-> "new"] /\ queue = <<>> /\ writing = Nobody /\ pending = 0
    /\ emitted = {} /\ stored = {} /\ dropped = 0 /\ state = "healthy"
    /\ closing = "open" /\ verdict = "none"

Fits(size) == size <= EventBytes /\ pending + size <= QueueBytes /\ Len(queue) < QueueEvents

\* _enqueue; a closed recorder refuses without a trace.
Enqueue(id, size) ==
    \/ /\ closing = "open" /\ Fits(size)
       /\ queue' = Append(queue, [id |-> id, size |-> size]) /\ pending' = pending + size
       /\ emitted' = emitted \cup {id} /\ UNCHANGED <<dropped, state>>
    \/ /\ closing = "open" /\ ~Fits(size)
       /\ dropped' = dropped + 1 /\ state' = "degraded"
       /\ emitted' = emitted \cup {id} /\ UNCHANGED <<queue, pending>>
    \/ closing # "open" /\ UNCHANGED <<queue, pending, emitted, dropped, state>>

\* begin_attempt: only an accepted event is waited for.
Begin(c, size) ==
    /\ phase[c] = "new" /\ Enqueue(<<c, "started">>, size)
    /\ phase' = [phase EXCEPT ![c] = IF queue' = queue THEN "out" ELSE "waiting"]
    /\ UNCHANGED <<writing, stored, closing, verdict>>

\* The record is through, or start_wait_seconds are over: the call goes out.
GoOut(c) ==
    /\ phase[c] = "waiting" /\ phase' = [phase EXCEPT ![c] = "out"]
    /\ UNCHANGED <<queue, writing, pending, emitted, stored, dropped, state, closing, verdict>>

\* The call is answered, fails or is cancelled.
End(c, size) ==
    /\ phase[c] = "out" /\ phase' = [phase EXCEPT ![c] = "back"]
    /\ Enqueue(<<c, "finished">>, size)
    /\ UNCHANGED <<writing, stored, closing, verdict>>

Take ==
    /\ writing = Nobody /\ queue # <<>> /\ closing # "closed"
    /\ writing' = <<Head(queue)>> /\ queue' = Tail(queue)
    /\ UNCHANGED <<phase, pending, emitted, stored, dropped, state, closing, verdict>>

Judged(written) == IF written THEN state ELSE "degraded"

\* The store writes the event or refuses it.
Written(written) ==
    /\ writing # Nobody /\ closing # "closed"
    /\ stored' = IF written THEN stored \cup {writing[1].id} ELSE stored
    /\ state' = Judged(written)
    /\ pending' = pending - writing[1].size
    /\ writing' = Nobody
    /\ UNCHANGED <<phase, queue, emitted, dropped, closing, verdict>>

Close ==
    /\ closing = "open" /\ closing' = "flushing"
    /\ UNCHANGED <<phase, queue, writing, pending, emitted, stored, dropped, state, verdict>>

\* All is written, or the time is over; the worker is then cancelled, perhaps
\* while it writes.
Flushed(inTime, written) ==
    /\ closing = "flushing" /\ closing' = "closed"
    /\ inTime <=> (queue = <<>> /\ writing = Nobody)
    /\ state' = IF inTime THEN state ELSE "degraded"
    /\ verdict' = IF inTime /\ state' # "degraded" /\ dropped = 0 THEN "ok" ELSE "lossy"
    /\ stored' = IF written /\ writing # Nobody THEN stored \cup {writing[1].id} ELSE stored
    /\ pending' = pending - Bytes(writing)
    /\ writing' = Nobody
    /\ UNCHANGED <<phase, queue, emitted, dropped>>

AuditNext ==
    \/ \E c \in Calls : \E size \in Sizes : Begin(c, size) \/ End(c, size)
    \/ \E c \in Calls : GoOut(c)
    \/ Take \/ Close \/ \E written \in BOOLEAN : Written(written)
    \/ \E inTime, written \in BOOLEAN : Flushed(inTime, written)

AuditSpec == AuditInit /\ [][AuditNext]_auditVars

-----------------------------------------------------------------------------
\* The bytes counted as pending are those of the events held, and they stay
\* within the limit however many calls end at once.
PendingIsHeld == pending = Bytes(queue \o writing) /\ pending <= QueueBytes

Held == {queue[i].id : i \in 1 .. Len(queue)} \cup {writing[i].id : i \in 1 .. Len(writing)}

\* An event recorded before the close is written or still held, or the recorder
\* says that it lost something; a close that reports success left nothing out.
LossIsTold ==
    /\ emitted \subseteq stored \cup Held \/ dropped > 0 \/ state = "degraded"
    /\ verdict = "ok" => emitted \subseteq stored
=============================================================================
