-------------------------------- MODULE Sdk ---------------------------------
(***************************************************************************)
(* The Python SDK between an agent and the collector: the event buffer of  *)
(* a run (sdk/python/controldb/run.py), the transport with its retries and *)
(* its on-disk spool (transport.py), and the client's exit (client.py).    *)
(*                                                                         *)
(* The agent thread uses the run; a second thread may call flush_spool at  *)
(* the same time (Spool is locked for that).  An event is the number of    *)
(* its emission.  The collector (module Ingest) stores the events of a     *)
(* batch it has not stored before; its answer may not arrive, and it may   *)
(* process a request long after the client has given it up and gone on.    *)
(***************************************************************************)
EXTENDS Naturals, Sequences, Subsequences

CONSTANTS
    BatchSize,       \* Client.batch_size
    MaxAttempts,     \* Transport.max_retries: attempts of a request
    MaxEvents,       \* bound: events emitted
    MaxDrains,       \* bound: calls of flush_spool
    MaxDrainErrors   \* bound: requests of flush_spool that raise

ASSUME SdkBounds == /\ {MaxEvents, MaxDrains, MaxDrainErrors} \subseteq Nat
                    /\ {BatchSize, MaxAttempts} \subseteq Nat \ {0}

VARIABLES
    onFailure,      \* the client's setting: "spool", "drop" (fail_open) or "raise"
    buffer,         \* Run._buffer
    closed,         \* Run._closed
    last,           \* number of the latest event emitted by commit or fail
    pc,             \* agent thread: "user", "post", "commitRun", "gone"
    batch, then,    \* the batch being posted, and what follows the post
    attempt,        \* failed attempts of the request in progress
    spool,          \* the spool file: a sequence of batches
    drained,        \* entries flush_spool has taken from the file, still to be sent
    draining,       \* flush_spool is running
    emitted,        \* number of events emitted
    stored,         \* events at the collector, in the order they were stored
    late,           \* batches of failed attempts, which may still be processed
    commitSent,     \* commit_run has been sent
    runCommitted,   \* the collector has processed commit_run
    drains, drainErrors

vars == <<onFailure, buffer, closed, last, pc, batch, then, attempt, spool, drained,
          draining, emitted, stored, late, commitSent, runCommitted, drains, drainErrors>>
collector == <<stored, late, commitSent, runCommitted>>
spoolVars == <<onFailure, spool, drained, draining, drains, drainErrors>>

\* A client has a spool, or drops what it cannot send, or raises.
Init ==
    /\ onFailure \in {"spool", "drop", "raise"}
    /\ buffer = <<>> /\ batch = <<>> /\ then = "user"
    /\ closed = FALSE /\ last = 0
    /\ pc = "user"
    /\ attempt = 0
    /\ spool = <<>> /\ drained = <<>> /\ draining = FALSE
    /\ emitted = 0
    /\ stored = <<>> /\ late = {}
    /\ commitSent = FALSE /\ runCommitted = FALSE
    /\ drains = 0 /\ drainErrors = 0

-----------------------------------------------------------------------------
(* The collector.                                                          *)

\* POST /v1/runs/{run_id}/events is processed: events with a known key are
\* skipped.  The batch is taken in one step; module Ingest has the transaction.
Store(b) == stored' = AppendNew(stored, b)

\* A request whose attempt has failed at the client is processed after all, at
\* any time, also when the process that sent it is gone.
ProcessLate ==
    /\ \/ \E b \in late : Store(b) /\ UNCHANGED runCommitted
       \/ commitSent /\ runCommitted' = TRUE /\ UNCHANGED stored
    /\ UNCHANGED <<buffer, closed, last, pc, batch, then, attempt, emitted, late, commitSent, spoolVars>>

-----------------------------------------------------------------------------
(* The run.                                                                *)

\* A mistake: only the newest BatchSize events are taken from the buffer.
StartPostNewest(b, next) ==
    LET older == IF Len(b) > BatchSize THEN Len(b) - BatchSize ELSE 0
    IN  /\ buffer' = SubSeq(b, 1, older) /\ batch' = SubSeq(b, older + 1, Len(b))
        /\ then' = next
        /\ attempt' = 0
        /\ pc' = "post"

\* _flush: the buffer is emptied into the batch to be posted.
StartPost(b, next) ==
    /\ buffer' = <<>> /\ batch' = b
    /\ then' = next
    /\ attempt' = 0
    /\ pc' = "post"

\* _emit, which the named helpers call with their payloads (tool_call when its
\* block is entered and left): the event joins the buffer, which is flushed when
\* it is full.  It does not ask whether the run is closed.
Emit ==
    /\ pc = "user"
    /\ emitted < MaxEvents /\ emitted' = emitted + 1
    /\ LET b == Append(buffer, emitted + 1)
       IN  IF Len(b) >= BatchSize
           THEN StartPost(b, "user")
           ELSE buffer' = b /\ UNCHANGED <<batch, then, attempt, pc>>
    /\ UNCHANGED <<closed, last, collector, spoolVars>>

\* request_approval emits its event and flushes, on a closed run too, before it
\* asks the collector (module Governance has the request itself).
request_approval ==
    /\ pc = "user"
    /\ emitted < MaxEvents /\ emitted' = emitted + 1
    /\ StartPost(Append(buffer, emitted + 1), "user")
    /\ UNCHANGED <<closed, last, collector, spoolVars>>

\* commit, rollback and fail emit their event and flush; only then is the run
\* closed.  commit and rollback go on to tell the collector.
EndRun(next) ==
    /\ pc = "user" /\ ~closed
    /\ emitted < MaxEvents /\ emitted' = emitted + 1
    /\ last' = emitted + 1
    /\ StartPost(Append(buffer, emitted + 1), next)
    /\ UNCHANGED <<closed, collector, spoolVars>>

commit == EndRun("commitRun")
fail   == EndRun("close")

\* One last flush of what is in the buffer; a failure is swallowed.
LastFlush(wanted) ==
    /\ pc = "user"
    /\ IF wanted /\ buffer # <<>>
       THEN StartPost(buffer, "gone")
       ELSE pc' = "gone" /\ UNCHANGED <<buffer, batch, then, attempt>>
    /\ UNCHANGED <<closed, last, emitted, collector, spoolVars>>

\* Client.close flushes runs that are not closed, the exit handler every run.
close == LastFlush(~closed)
atexit_flush == LastFlush(TRUE)

-----------------------------------------------------------------------------
(* post_events and Transport.request.                                      *)

\* post_events returns, and the caller of _flush goes on.
Posted ==
    /\ batch' = <<>>
    /\ attempt' = 0
    /\ pc' = IF then = "close" THEN "user" ELSE then
    /\ closed' = (closed \/ then \in {"close", "commitRun"})
    /\ UNCHANGED <<buffer, then>>

\* A mistake: the events of a failed post are not put back.
RaisedDropsBatch ==
    /\ batch' = <<>>
    /\ attempt' = 0
    /\ pc' = IF then = "gone" THEN "gone" ELSE "user"
    /\ UNCHANGED <<buffer, closed, then>>

\* A mistake: commit() goes on to commit_run after a failed flush.
RaisedGoesOn ==
    /\ buffer' = batch \o buffer
    /\ batch' = <<>>
    /\ attempt' = 0
    /\ pc' = IF then \in {"gone", "commitRun"} THEN then ELSE "user"
    /\ UNCHANGED <<closed, then>>

\* post_events raises: _flush puts the events back at the head of the buffer.
\* At exit the exception is swallowed and the buffer dies with the process.
Raised ==
    /\ buffer' = batch \o buffer
    /\ batch' = <<>>
    /\ attempt' = 0
    /\ pc' = IF then = "gone" THEN "gone" ELSE "user"
    /\ UNCHANGED <<closed, then>>

\* An attempt succeeds.
PostOk ==
    /\ pc = "post" /\ attempt < MaxAttempts
    /\ Store(batch)
    /\ Posted
    /\ UNCHANGED <<last, emitted, late, commitSent, runCommitted, spoolVars>>

\* A mistake: one attempt more than max_retries.
PostErrorOnceMore ==
    /\ pc = "post" /\ attempt <= MaxAttempts
    /\ attempt' = attempt + 1
    /\ late' = late \cup {batch}
    /\ UNCHANGED <<buffer, closed, last, pc, batch, then, emitted, stored, commitSent, runCommitted,
                   spoolVars>>

\* A mistake: the count of attempts starts again before it reaches max_retries.
PostErrorRestarts ==
    /\ pc = "post" /\ attempt < MaxAttempts
    /\ attempt' = (attempt + 1) % MaxAttempts
    /\ late' = late \cup {batch}
    /\ UNCHANGED <<buffer, closed, last, pc, batch, then, emitted, stored, commitSent, runCommitted,
                   spoolVars>>

\* An attempt fails: refused, timed out or a 5xx.  The collector may have the
\* request all the same.
PostError ==
    /\ pc = "post" /\ attempt < MaxAttempts
    /\ attempt' = attempt + 1
    /\ late' = late \cup {batch}
    /\ UNCHANGED <<buffer, closed, last, pc, batch, then, emitted, stored, commitSent, runCommitted,
                   spoolVars>>

\* The collector refuses the request for good (401, 403, 409, 413, 422).
PostRejected ==
    /\ pc = "post" /\ attempt < MaxAttempts
    /\ Raised
    /\ UNCHANGED <<last, emitted, collector, spoolVars>>

\* All attempts have failed: spool, give the events up, or raise.
GiveUp ==
    /\ pc = "post" /\ attempt = MaxAttempts
    /\ IF onFailure = "spool" THEN spool' = Append(spool, batch) /\ Posted
       ELSE IF onFailure = "drop" THEN Posted /\ UNCHANGED spool
       ELSE Raised /\ UNCHANGED spool
    /\ UNCHANGED <<onFailure, drained, draining, last, emitted, collector, drains, drainErrors>>

\* The request behind commit(); the run is closed whether or not it succeeds.
CommitRun ==
    /\ pc = "commitRun"
    /\ commitSent' = TRUE
    /\ runCommitted' \in {TRUE, runCommitted}
    /\ pc' = "user"
    /\ UNCHANGED <<buffer, closed, last, batch, then, attempt, emitted, stored, late, spoolVars>>

-----------------------------------------------------------------------------
(* flush_spool.                                                            *)

\* Spool.drain: read all entries and unlink the file, under the lock.
Drain ==
    /\ onFailure = "spool" /\ ~draining
    /\ drains < MaxDrains /\ drains' = drains + 1
    /\ drained' = spool
    /\ spool' = <<>>
    /\ draining' = TRUE
    /\ UNCHANGED <<onFailure, buffer, closed, last, pc, batch, then, attempt, emitted, collector,
                   drainErrors>>

\* One entry is delivered.
SendEntry ==
    /\ draining /\ drained # <<>>
    /\ Store(Head(drained))
    /\ drained' = Tail(drained)
    /\ UNCHANGED <<onFailure, buffer, closed, last, pc, batch, then, attempt, spool, draining, emitted,
                   late, commitSent, runCommitted, drains, drainErrors>>

\* The request of one entry raises: the entry is written back and the loop ends.
SendEntryFails ==
    /\ draining /\ drained # <<>>
    /\ drainErrors < MaxDrainErrors /\ drainErrors' = drainErrors + 1
    /\ late' = late \cup {Head(drained)}
    /\ spool' = Append(spool, Head(drained))
    /\ drained' = <<>>
    /\ draining' = FALSE
    /\ UNCHANGED <<onFailure, buffer, closed, last, pc, batch, then, attempt, emitted, stored, commitSent,
                   runCommitted, drains>>

DrainDone ==
    /\ draining /\ drained = <<>>
    /\ draining' = FALSE
    /\ UNCHANGED <<onFailure, buffer, closed, last, pc, batch, then, attempt, spool, drained, emitted,
                   collector, drains, drainErrors>>

-----------------------------------------------------------------------------
Attempt == PostOk \/ PostError \/ PostRejected \/ GiveUp
FlushSpool == SendEntry \/ SendEntryFails \/ DrainDone

Next ==
    \/ Emit \/ request_approval \/ commit \/ fail \/ close \/ atexit_flush
    \/ Attempt \/ CommitRun
    \/ Drain \/ FlushSpool
    \/ ProcessLate

Spec == Init /\ [][Next]_vars

\* Every attempt ends: a request has a timeout, the back-off is a sleep, and
\* the loop in flush_spool is a plain loop over requests.
FairSpec == Spec /\ WF_vars(Attempt) /\ WF_vars(CommitRun) /\ WF_vars(FlushSpool)

-----------------------------------------------------------------------------
(* Properties.                                                             *)

Batch == Seq(1..MaxEvents)

\* Types; no request is tried more often than max_retries.
TypeOK ==
    /\ onFailure \in {"spool", "drop", "raise"}
    /\ {buffer, batch, stored} \subseteq Batch
    /\ {spool, drained} \subseteq Seq(Batch)
    /\ late \subseteq Batch
    /\ {closed, draining, commitSent, runCommitted} \subseteq BOOLEAN
    /\ pc \in {"user", "post", "commitRun", "gone"}
    /\ then \in {"user", "commitRun", "close", "gone"}
    /\ attempt \in 0..MaxAttempts
    /\ {emitted, last} \subseteq 0..MaxEvents

Spooled == Entries(spool) \cup Entries(drained)

\* While the process lives no emitted event is lost, whatever the transport
\* answers: it is stored, or in the buffer, the batch being posted or the
\* spool.  Exceptions are a client told to drop, and a drain that failed.
NothingLost ==
    pc # "gone" /\ onFailure # "drop" /\ drainErrors = 0 =>
        1..emitted \subseteq InSeq(stored) \cup InSeq(buffer) \cup InSeq(batch) \cup Spooled

\* "Re-queue and stop draining on first error": when the request of one entry
\* fails, no entry taken from the spool disappears.
DrainKeepsEntries ==
    [][SendEntryFails => Spooled \subseteq InSeq(stored') \cup Spooled']_vars

\* A client that raises has the events of a run stored in the order they were
\* emitted, across failed posts, lost answers, events put back, and requests
\* processed after a newer post.  A spooled batch, and one that was given up and
\* is processed late, come after newer events.
InOrder ==
    onFailure = "raise" => \A i, j \in 1..Len(stored) : i < j => stored[i] < stored[j]

\* A run the collector was told is committed is complete there: a client that
\* raises does not send commit_run before every event up to the committing one
\* is stored, whenever the collector comes to process it.
CommittedComplete ==
    onFailure = "raise" /\ runCommitted => 1..last \subseteq InSeq(stored)

\* A post comes to an end: the retries are bounded and every end of them lets
\* the agent go on.
PostEnds == pc = "post" ~> pc # "post"

\* A drained spool entry does not stay in memory: flush_spool comes to an end.
DrainEnds == draining ~> ~draining

\* Neither a post nor flush_spool keeps its thread for ever, whatever the
\* collector answers: both loops of transport.py come to an end.
CallsEnd == PostEnds /\ DrainEnds
=============================================================================
