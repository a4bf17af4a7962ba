------------------------------- MODULE SdkTs --------------------------------
(***************************************************************************)
(* The TypeScript SDK (sdk/typescript/src: run.ts, transport.ts,           *)
(* client.ts).  It follows the Python one, but every call is asynchronous: *)
(* a call that has to send something waits, and an agent that does not     *)
(* await it goes on to the next call.  Between two awaits JavaScript runs  *)
(* without interruption, so the stretches between awaits are the actions.  *)
(*                                                                         *)
(* An event is the number of its emission.  The attempts of a request are  *)
(* not counted: it may be given up after any number of them, because the   *)
(* collector may refuse it for good at any of them.  The collector may     *)
(* process an attempt long after the client has given it up and gone on.   *)
(***************************************************************************)
EXTENDS Naturals, Sequences, Subsequences

CONSTANTS
    Calls,           \* calls that can be pending at the same time
    BatchSize,       \* ControlDB.batchSize
    MaxEvents,       \* bound: events emitted
    MaxDrains,       \* bound: calls of flushSpool
    MaxDrainErrors   \* bound: requests of flushSpool that throw

ASSUME SdkTsBounds == /\ {MaxEvents, MaxDrains, MaxDrainErrors} \subseteq Nat
                      /\ BatchSize \in Nat \ {0}

VARIABLES
    onFailure,      \* the client's setting: "spool", "drop" (failOpen) or "raise"
    awaits,         \* whether the agent awaits each call before the next
    alive,          \* the process has not exited
    buffer,         \* Run._buffer
    closed,         \* Run._closed
    last,           \* number of the latest event emitted by commit or fail
    emitted,        \* number of events emitted
    call,           \* the pending calls
    spool,          \* the spool file: a sequence of batches
    inode,          \* which file has the spool's name: unlink makes room for another
    streams,        \* write streams of Spool.write that have not written yet
    orphaned,       \* a stream has written to a file without a name
    drained,        \* entries flushSpool has taken from the file, still to be sent
    draining,       \* flushSpool is running
    stored,         \* events at the collector, in the order they were stored
    late,           \* batches of failed attempts, which may still be processed
    runStarted,     \* the collector knows the run
    commitSent,     \* commitRun has been sent
    runCommitted,   \* the collector has processed commitRun
    drains, drainErrors

settings == <<onFailure, awaits>>
runVars  == <<buffer, closed, last, emitted>>
spoolVars == <<spool, inode, streams, orphaned>>
drainVars == <<drained, draining, drains, drainErrors>>
collector == <<stored, late, runStarted, commitSent, runCommitted>>
vars == <<settings, alive, runVars, call, spoolVars, drainVars, collector>>

\* goal: the call; pc: its next stretch; batch: what it is posting; next: what
\* follows the post.
Idle == [goal |-> "none", pc |-> "idle", batch |-> <<>>, next |-> "idle"]

NotOpen == 0

\* new ControlDB(...).run(...): startRun is sent and not awaited.
Init ==
    /\ onFailure \in {"spool", "drop", "raise"}
    /\ awaits \in BOOLEAN
    /\ alive = TRUE
    /\ buffer = <<>> /\ closed = FALSE /\ last = 0 /\ emitted = 0
    /\ call = [c \in Calls |-> Idle]
    /\ spool = <<>> /\ inode = 1 /\ streams = {} /\ orphaned = FALSE
    /\ drained = <<>> /\ draining = FALSE /\ drains = 0 /\ drainErrors = 0
    /\ stored = <<>> /\ late = {} /\ runStarted = FALSE
    /\ commitSent = FALSE /\ runCommitted = FALSE

-----------------------------------------------------------------------------
(* The collector.                                                          *)

\* POST /v1/runs/{run_id}/events is processed: a run the collector does not know
\* is refused, events with a known key are skipped.  The batch is taken in one
\* step; module Ingest has the transaction.
Store(b) ==
    /\ runStarted
    /\ stored' = AppendNew(stored, b)

\* The request of run() is processed, at any time or never: its failure is
\* ignored, and an attempt the client has given up may still arrive.
StartRun ==
    /\ ~runStarted /\ runStarted' = TRUE
    /\ UNCHANGED <<settings, alive, runVars, call, spoolVars, drainVars, stored, late, commitSent,
                   runCommitted>>

\* A request whose attempt has failed at the client is processed after all, at
\* any time, also when the process that sent it is gone.
ProcessLate ==
    /\ \/ \E b \in late : Store(b) /\ UNCHANGED runCommitted
       \/ commitSent /\ runStarted /\ runCommitted' = TRUE /\ UNCHANGED stored
    /\ UNCHANGED <<settings, alive, runVars, call, spoolVars, drainVars, late, runStarted, commitSent>>

-----------------------------------------------------------------------------
(* The run.                                                                *)

\* A mistake: commit() and the others do not flush after they have emitted.
AfterEmitNoFlush(goal) == IF goal \in {"commit", "fail"} THEN "close" ELSE "idle"

\* What a call does once its event is in the buffer, and once that is flushed.
AfterEmit(goal) == IF goal = "emit" THEN "idle" ELSE "flush"
AfterFlush(goal) == IF goal \in {"commit", "fail"} THEN "close" ELSE "idle"

\* The call goes on to the given stretch, or ends.
Continue(c, goal, pc) ==
    call' = [call EXCEPT ![c] = IF pc = "idle" THEN Idle ELSE [Idle EXCEPT !.goal = goal, !.pc = pc]]

\* A mistake: only the newest batchSize events are taken from the buffer.
TakeNewest(c, goal, b, next) ==
    LET older == IF Len(b) > BatchSize THEN Len(b) - BatchSize ELSE 0
    IN  /\ buffer' = SubSeq(b, 1, older)
        /\ call' = [call EXCEPT ![c] = [goal |-> goal, pc |-> "post", next |-> next,
                                        batch |-> SubSeq(b, older + 1, Len(b))]]

\* _flush up to its await: the buffer becomes the batch of a post.
TakeBatch(c, goal, b, next) ==
    /\ buffer' = <<>>
    /\ call' = [call EXCEPT ![c] = [goal |-> goal, pc |-> "post", batch |-> b, next |-> next]]

\* The agent can make call c: one that awaits has no other call pending.
Free(c) == /\ alive /\ call[c].pc = "idle"
           /\ awaits => \A d \in Calls : call[d].pc = "idle"

\* _emit: the event joins the buffer, which is flushed when it is full.  It
\* does not ask whether the run is closed.
EmitFor(c, goal) ==
    /\ Free(c)
    /\ emitted < MaxEvents /\ emitted' = emitted + 1
    /\ LET b == Append(buffer, emitted + 1)
       IN  IF Len(b) >= BatchSize
           THEN TakeBatch(c, goal, b, AfterEmit(goal))
           ELSE buffer' = b /\ Continue(c, goal, AfterEmit(goal))
    /\ UNCHANGED <<settings, alive, closed, spoolVars, drainVars, collector>>

\* toolCall, modelCall, memoryRead and the other calls that emit one event.
emit(c) == EmitFor(c, "emit") /\ UNCHANGED last

\* requestApproval emits and flushes before it asks the approvals service.
requestApproval(c) == EmitFor(c, "approve") /\ UNCHANGED last

\* commit stands for rollback too, which differs in its event and its request.
commit(c) == ~closed /\ EmitFor(c, "commit") /\ last' = emitted + 1
fail(c)   == ~closed /\ EmitFor(c, "fail")   /\ last' = emitted + 1

\* flush(), and ControlDB.close() for a run that is not closed.
flush(c) ==
    /\ Free(c) /\ buffer # <<>>
    /\ TakeBatch(c, "flush", buffer, "idle")
    /\ UNCHANGED <<settings, alive, closed, last, emitted, spoolVars, drainVars, collector>>

\* The flush of commit, rollback, fail and requestApproval, after the await of _emit.
FlushCall(c) ==
    LET goal == call[c].goal
    IN  /\ call[c].pc = "flush"
        /\ IF buffer = <<>>
           THEN Continue(c, goal, AfterFlush(goal)) /\ UNCHANGED buffer
           ELSE TakeBatch(c, goal, buffer, AfterFlush(goal))
        /\ UNCHANGED <<settings, alive, closed, last, emitted, spoolVars, drainVars, collector>>

\* The flush has been awaited: the run is closed.
CloseRun(c) ==
    /\ call[c].pc = "close"
    /\ closed' = TRUE
    /\ Continue(c, call[c].goal, IF call[c].goal = "commit" THEN "commitRun" ELSE "idle")
    /\ UNCHANGED <<settings, alive, buffer, last, emitted, spoolVars, drainVars, collector>>

\* commitRun or rollbackRun ends, processed, still to be processed, or refused.
CommitRun(c) ==
    /\ call[c].pc = "commitRun"
    /\ commitSent' = TRUE
    /\ runCommitted' \in {runStarted, runCommitted}
    /\ Continue(c, "commit", "idle")
    /\ UNCHANGED <<settings, alive, runVars, spoolVars, drainVars, stored, late, runStarted>>

-----------------------------------------------------------------------------
(* postEvents and Transport.request.                                       *)

PostOk(c) ==
    /\ call[c].pc = "post"
    /\ Store(call[c].batch)
    /\ Continue(c, call[c].goal, call[c].next)
    /\ UNCHANGED <<settings, alive, runVars, spoolVars, drainVars, late, runStarted, commitSent,
                   runCommitted>>

\* An attempt fails, or its answer is lost, and the request goes on.  The
\* collector may have it all the same.
AttemptFails(c) ==
    /\ call[c].pc = "post"
    /\ late' = late \cup {call[c].batch}
    /\ UNCHANGED <<settings, alive, runVars, call, spoolVars, drainVars, stored, runStarted, commitSent,
                   runCommitted>>

\* A mistake: the failed events replace the buffer.
PutBackReplaces(events) == events

\* _flush puts the events of a failed post before those that came meanwhile.
PutBack(events) == events \o buffer

\* Spool.write creates a stream and returns; the file is opened and written later.
SpoolWrite(entry) ==
    /\ streams' = streams \cup {[entry |-> entry, inode |-> NotOpen]}
    /\ UNCHANGED <<spool, inode, orphaned>>

\* request() throws, after its last attempt or because the collector refuses
\* the batch for good.  postEvents treats both the same.
PostFails(c) ==
    LET q == call[c]
    IN  /\ q.pc = "post"
        /\ CASE onFailure = "spool" -> /\ SpoolWrite(q.batch)
                                       /\ Continue(c, q.goal, q.next)
                                       /\ UNCHANGED buffer
             [] onFailure = "drop"  -> /\ Continue(c, q.goal, q.next)
                                       /\ UNCHANGED <<buffer, spoolVars>>
             [] onFailure = "raise" -> /\ buffer' = PutBack(q.batch)
                                       /\ Continue(c, q.goal, "idle")
                                       /\ UNCHANGED spoolVars
        /\ late' = late \cup {q.batch}
        /\ UNCHANGED <<settings, alive, closed, last, emitted, drainVars, stored, runStarted, commitSent,
                       runCommitted>>

-----------------------------------------------------------------------------
(* The spool.                                                              *)

StreamOpens(w) ==
    /\ w.inode = NotOpen
    /\ streams' = (streams \ {w}) \cup {[w EXCEPT !.inode = inode]}
    /\ UNCHANGED <<settings, alive, runVars, call, spool, inode, orphaned, drainVars, collector>>

\* The line lands in the file that was opened, whether or not it still has a name.
StreamWrites(w) ==
    /\ w.inode # NotOpen
    /\ streams' = streams \ {w}
    /\ spool' = IF w.inode = inode THEN Append(spool, w.entry) ELSE spool
    /\ orphaned' = (orphaned \/ w.inode # inode)
    /\ UNCHANGED <<settings, alive, runVars, call, inode, drainVars, collector>>

\* flushSpool up to its first await: Spool.drain reads the file and unlinks it.
\* Lines that other threads write between the two are lost with the file.
Drain ==
    /\ onFailure = "spool" /\ alive /\ ~draining
    /\ drains < MaxDrains /\ drains' = drains + 1
    /\ drained' = spool /\ draining' = TRUE
    /\ spool' = <<>> /\ inode' = inode + 1
    /\ \E written \in SUBSET {w \in streams : w.inode = inode} :
          streams' = streams \ written /\ orphaned' = (orphaned \/ written # {})
    /\ UNCHANGED <<settings, alive, runVars, call, drainErrors, collector>>

SendEntry ==
    /\ draining /\ drained # <<>>
    /\ Store(Head(drained))
    /\ drained' = Tail(drained)
    /\ UNCHANGED <<settings, alive, runVars, call, spoolVars, draining, drains, drainErrors,
                   late, runStarted, commitSent, runCommitted>>

\* The entry is queued again and the loop ends: the entries behind it are gone.
SendEntryFails ==
    /\ draining /\ drained # <<>>
    /\ drainErrors < MaxDrainErrors /\ drainErrors' = drainErrors + 1
    /\ SpoolWrite(Head(drained))
    /\ drained' = <<>> /\ draining' = FALSE
    /\ late' = late \cup {Head(drained)}
    /\ UNCHANGED <<settings, alive, runVars, call, drains, stored, runStarted, commitSent, runCommitted>>

DrainDone ==
    /\ draining /\ drained = <<>> /\ draining' = FALSE
    /\ UNCHANGED <<settings, alive, runVars, call, spoolVars, drained, drains, drainErrors, collector>>

\* What is on its way, or leaves in the exit handler's flush of an open run, when
\* the process exits.
OnTheirWay == {call[c].batch : c \in {c \in Calls : call[c].pc = "post"}}
              \cup {Head(d) : d \in {drained} \ {<<>>}}
              \cup {b \in {buffer} : ~closed}

\* The process exits.  Nothing is awaited any more: whether a request still
\* arrives is open, and everything in memory is gone.
Exit ==
    /\ alive /\ alive' = FALSE
    /\ late' = late \cup OnTheirWay
    /\ commitSent' = (commitSent \/ \E c \in Calls : call[c].pc = "commitRun")
    /\ buffer' = <<>> /\ call' = [c \in Calls |-> Idle]
    /\ streams' = {} /\ drained' = <<>> /\ draining' = FALSE
    /\ UNCHANGED <<settings, closed, last, emitted, spool, inode, orphaned, drains, drainErrors,
                   stored, runStarted, runCommitted>>

-----------------------------------------------------------------------------
CallStep(c) ==
    \/ emit(c) \/ requestApproval(c) \/ commit(c) \/ fail(c) \/ flush(c)
    \/ FlushCall(c) \/ CloseRun(c) \/ CommitRun(c)
    \/ PostOk(c) \/ AttemptFails(c) \/ PostFails(c)

Next ==
    \/ \E c \in Calls : CallStep(c)
    \/ \E w \in streams : StreamOpens(w) \/ StreamWrites(w)
    \/ StartRun \/ ProcessLate
    \/ Drain \/ SendEntry \/ SendEntryFails \/ DrainDone \/ Exit

Spec == Init /\ [][Next]_vars

-----------------------------------------------------------------------------
(* Properties.                                                             *)

\* Where events are that have not arrived: in the buffer, in a post, in a
\* write stream, in the spool or in flushSpool.
Posting(calls)  == UNION {InSeq(calls[c].batch) : c \in Calls}
Writing(writes) == UNION {InSeq(w.entry) : w \in writes}
Waiting == InSeq(buffer) \cup Posting(call) \cup Writing(streams) \cup Entries(spool) \cup Entries(drained)

\* While the process lives, no emitted event is lost by calls that overlap,
\* posts that fail or answers that do not arrive, also before the collector
\* knows the run.  The exceptions are a client told to drop, a flushSpool whose
\* request failed, and a spool file unlinked under an open stream or between its
\* being read and a write.
NothingLost ==
    alive /\ onFailure # "drop" /\ drainErrors = 0 /\ ~orphaned =>
        1..emitted \subseteq InSeq(stored) \cup Waiting

\* For an agent that awaits its calls, and a client that throws, the collector
\* has the events in the order they were emitted, although run() does not wait
\* for startRun, and requests are processed after the client has gone on.
InOrder ==
    awaits /\ onFailure = "raise" =>
        \A i, j \in 1..Len(stored) : i < j => stored[i] < stored[j]

\* For an agent that awaits its calls, and a client that throws, commitRun is not
\* sent before every event up to the committing one is stored, so that it is
\* processed for a complete run, whenever that is.
CommittedComplete ==
    awaits /\ onFailure = "raise" /\ runCommitted => 1..last \subseteq InSeq(stored)
=============================================================================
