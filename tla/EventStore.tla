----------------------------- MODULE EventStore -----------------------------
(***************************************************************************)
(* The storage engine (core/src/event_store.cpp): runs, hash-chained       *)
(* events, idempotency index, approvals and exports in RocksDB, written    *)
(* under one mutex (write_mu) behind the application WAL.                  *)
(*                                                                         *)
(* A mutating call is a sequence of steps of the one thread that holds     *)
(* write_mu: read the database, append to the WAL, write one RocksDB       *)
(* batch, mark the WAL entry applied.  The batch under construction is     *)
(* kept as the image the database will have once it is written (staged);   *)
(* the write installs the image or throws.  The process may die between    *)
(* any two steps.  Calls that throw before their first write (run not      *)
(* found, forbidden) and calls that find their row already there change    *)
(* nothing, and are left out.                                              *)
(***************************************************************************)
EXTENDS HashChain

CONSTANTS
    RunIds, NoRun,  \* run identifiers, and no run
    Tenants,        \* (organisation, project) pairs
    Keys, NoKey,    \* idempotency keys, and an event without one
    Batches,        \* the batches of events callers submit
    ApprovalIds,
    ExportIds,
    NoPayload,      \* no WAL entry in flight
    MaxSeq,         \* bound: event sequence numbers assigned
    MaxWal,         \* bound: WAL entries appended
    MaxCrash,       \* bound: crashes
    MaxFail         \* bound: RocksDB writes that throw

EventTypes == {"started", "committed", "failed", "other"}
Statuses   == {"running", "committed", "failed", "rolled_back"}

\* The status of an approval is whatever string the caller passes, also the
\* "requested" of a new one; three stand for all of them.
ApprovalStatuses == {"requested", "approved", "rejected"}

\* An event as a caller submits it.
Input == [key : Keys \cup {NoKey}, type : EventTypes]

ASSUME StoreBounds == {MaxSeq, MaxWal, MaxCrash, MaxFail} \subseteq Nat
ASSUME NoneAssumption == NoKey \notin Keys /\ NoRun \notin RunIds
ASSUME BatchesAssumption == Batches \subseteq Seq(Input)

VARIABLES
    db,         \* RocksDB
    staged,     \* the database with the batch under construction applied
    globalSeq,  \* global_seq_, volatile
    pc,         \* next step of the holder of write_mu; "idle", "down"
    call,       \* arguments and locals of the append_events in progress
    fails,      \* number of writes that threw
    walFile, appliedFile, walUp, lastSeq, appliedSeq, keep, truncating,
    inflight, owed, crashes, torn, truncations  \* the WAL, see module Wal

\* What the engine writes to its log: the kind of mutation and the row.
WalPayload ==
    [op : {"INSERT_EVENT"}, id : Nat]
        \cup [op : {"INSERT_RUN", "UPDATE_RUN"}, id : RunIds]
        \cup [op : {"INSERT_APPROVAL", "UPDATE_APPROVAL"}, id : ApprovalIds]
        \cup [op : {"INSERT_EXPORT"}, id : ExportIds]

\* The engine never truncates its log and never reads it, so neither torn
\* records nor truncation can influence it; module Wal covers both.
W == INSTANCE Wal WITH Payload <- WalPayload, Garbled <- NoPayload, MaxSeq <- MaxWal,
                       MaxTorn <- 0, MaxTruncate <- 0, MaxMisread <- 0

log == <<walFile, appliedFile, walUp, lastSeq, appliedSeq, keep, truncating,
         inflight, owed, crashes, torn, truncations>>

vars == <<db, staged, globalSeq, pc, call, fails, log>>

-----------------------------------------------------------------------------
(* Rows and tables.  A column family is a function on the keys it holds.   *)

Put(cf, k, v) == [x \in DOMAIN cf \cup {k} |-> IF x = k THEN v ELSE cf[x]]

EmptyTable == [x \in {} |-> 0]

Hash == Seq([run : RunIds, key : Keys \cup {NoKey}, type : EventTypes])

\* AgentRun; ended stands for ended_at_ms > 0.
RunRow == [tenant : Tenants, status : Statuses, ended : BOOLEAN, last : Hash, count : Nat]

\* A run whose caller leaves status, hash and count to the engine, which fills
\* in "running".  The engine would store whatever the caller put there instead.
NewRun(t) == [tenant |-> t, status |-> "running", ended |-> FALSE,
              last |-> NoHash, count |-> 0]

EmptyDb == [runs |-> EmptyTable, events |-> EmptyTable, idempotency |-> EmptyTable,
            approvals |-> EmptyTable, exports |-> EmptyTable, seq |-> 0]

NoCall == [run |-> NoRun, batch |-> <<>>, i |-> 0, fresh |-> 0, head |-> NoHash,
           status |-> "running", ended |-> FALSE]

Init ==
    /\ db = EmptyDb
    /\ staged = EmptyDb
    /\ globalSeq = 0
    /\ pc = "idle"
    /\ call = NoCall
    /\ fails = 0
    /\ W!WalInit

-----------------------------------------------------------------------------
(* Calls that write a single row: WAL entry, batch, mark.                  *)

\* The first half of such a call: log the mutation and stage its batch.
LogAndStage(op, id, image) ==
    /\ pc = "idle"
    /\ W!WalAppend([op |-> op, id |-> id])
    /\ staged' = image
    /\ pc' = "write"
    /\ UNCHANGED <<db, globalSeq, call, fails>>

Owns(d, r, t) == r \in DOMAIN d.runs /\ d.runs[r].tenant = t

start_run(r, t) ==
    /\ r \notin DOMAIN db.runs
    /\ LogAndStage("INSERT_RUN", r, [db EXCEPT !.runs = Put(db.runs, r, NewRun(t))])

\* A mistake: the row is written from the request, not from the stored run.
EndedRunFresh(d, r, status) == [NewRun(d.runs[r].tenant) EXCEPT !.status = status, !.ended = TRUE]

\* The row commit_run and rollback_run write, whatever status it replaces.
EndedRun(d, r, status) == [d.runs[r] EXCEPT !.status = status, !.ended = TRUE]

commit_run(r, t) ==
    /\ Owns(db, r, t)
    /\ LogAndStage("UPDATE_RUN", r,
                   [db EXCEPT !.runs = Put(db.runs, r, EndedRun(db, r, "committed"))])

rollback_run(r, t) ==
    /\ Owns(db, r, t)
    /\ LogAndStage("UPDATE_RUN", r,
                   [db EXCEPT !.runs = Put(db.runs, r, EndedRun(db, r, "rolled_back"))])

\* A mistake: a repeated request for approval replaces the row.
RequestAgain(a, t) ==
    /\ a \in DOMAIN db.approvals => db.approvals[a].tenant = t
    /\ LogAndStage("INSERT_APPROVAL", a,
          [db EXCEPT !.approvals = Put(db.approvals, a, [tenant |-> t, status |-> "requested"])])

upsert_approval(a, t) ==
    /\ a \notin DOMAIN db.approvals
    /\ LogAndStage("INSERT_APPROVAL", a,
          [db EXCEPT !.approvals = Put(db.approvals, a, [tenant |-> t, status |-> "requested"])])

\* The status passed replaces whatever the row says, an earlier decision included.
update_approval_status(a, t, status) ==
    /\ a \in DOMAIN db.approvals /\ db.approvals[a].tenant = t
    /\ LogAndStage("UPDATE_APPROVAL", a,
          [db EXCEPT !.approvals = Put(db.approvals, a, [tenant |-> t, status |-> status])])

put_export(x, t) ==
    LogAndStage("INSERT_EXPORT", x, [db EXCEPT !.exports = Put(db.exports, x, t)])

\* write_batch of such a call succeeds.
WriteRow ==
    /\ pc = "write"
    /\ db' = staged
    /\ pc' = "mark"
    /\ UNCHANGED <<staged, globalSeq, call, fails, log>>

\* mark_applied with the number the call's own append returned; write_mu is released.
MarkRow ==
    /\ pc = "mark"
    /\ W!MarkApplied(lastSeq)
    /\ pc' = "idle"
    /\ UNCHANGED <<db, staged, globalSeq, call, fails>>

\* write_batch throws: the call unwinds, its WAL entry stays.
WriteRowFails ==
    /\ pc = "write"
    /\ fails < MaxFail /\ fails' = fails + 1
    /\ W!GiveUp
    /\ staged' = db
    /\ pc' = "idle"
    /\ UNCHANGED <<db, globalSeq, call>>

-----------------------------------------------------------------------------
(* append_events.                                                          *)

\* The call reads the run and starts from its last hash.
append_events(r, t, batch) ==
    /\ pc = "idle"
    /\ Owns(db, r, t)
    /\ globalSeq + Len(batch) <= MaxSeq /\ lastSeq + Len(batch) <= MaxWal
    /\ call' = [run |-> r, batch |-> batch, i |-> 0, fresh |-> 0, head |-> db.runs[r].last,
                status |-> db.runs[r].status, ended |-> db.runs[r].ended]
    /\ staged' = db
    /\ pc' = "event"
    /\ UNCHANGED <<db, globalSeq, fails, log>>

\* A mistake: the index is not consulted.
NeverDuplicate(d, ev) == FALSE

\* The idempotency check reads the database, not the batch under construction.
IsDuplicate(d, ev) == ev.key # NoKey /\ ev.key \in DOMAIN d.idempotency

NextInput == call.batch[call.i + 1]

\* A mistake: the event type is stored as the status.
StatusIsType(status, type) == type

\* Status and end of the run after an event of the given type.  The code
\* computes them in a second loop over the whole batch, duplicates included;
\* nothing reads them before the batch is written.
StatusAfter(status, type) ==
    CASE type = "started" -> "running"
      [] type \in {"committed", "failed"} -> type
      [] OTHER -> status

EndedAfter(ended, type) == ended \/ type \in {"committed", "failed"}

\* A mistake: the next event is chained to the stored duplicate.
SkipAndRelink ==
    /\ pc = "event" /\ call.i < Len(call.batch)
    /\ IsDuplicate(db, NextInput)
    /\ call' = [call EXCEPT !.i = call.i + 1, !.head = db.idempotency[NextInput.key]]
    /\ UNCHANGED <<db, staged, globalSeq, pc, fails, log>>

SkipDuplicate ==
    /\ pc = "event" /\ call.i < Len(call.batch)
    /\ IsDuplicate(db, NextInput)
    /\ call' = [call EXCEPT !.i = call.i + 1,
                            !.status = StatusAfter(call.status, NextInput.type),
                            !.ended = EndedAfter(call.ended, NextInput.type)]
    /\ UNCHANGED <<db, staged, globalSeq, pc, fails, log>>

\* The row of a new event: chained to the head this call has reached.
NewEvent(ev) ==
    LET e == [run |-> call.run, key |-> ev.key, type |-> ev.type, prev |-> call.head,
              hash |-> NoHash]
    IN  [e EXCEPT !.hash = EventHash(e)]

\* The batch with the puts for one more event: row, indexes, idempotency key.
WithEvent(d, s, e) ==
    [d EXCEPT !.events = Put(d.events, s, e),
              !.idempotency = IF e.key = NoKey THEN d.idempotency
                              ELSE Put(d.idempotency, e.key, e.hash)]

\* One round of the loop up to the WAL append, which carries the new row.
LogEvent ==
    /\ pc = "event" /\ call.i < Len(call.batch)
    /\ ~IsDuplicate(db, NextInput)
    /\ globalSeq' = globalSeq + 1
    /\ W!WalAppend([op |-> "INSERT_EVENT", id |-> globalSeq + 1])
    /\ staged' = WithEvent(staged, globalSeq + 1, NewEvent(NextInput))
    /\ call' = [call EXCEPT !.i = call.i + 1, !.fresh = call.fresh + 1,
                            !.head = NewEvent(NextInput).hash,
                            !.status = StatusAfter(call.status, NextInput.type),
                            !.ended = EndedAfter(call.ended, NextInput.type)]
    /\ pc' = "markEvent"
    /\ UNCHANGED <<db, fails>>

\* The end of the round: the entry is marked applied, before the batch is written.
MarkEvent ==
    /\ pc = "markEvent"
    /\ W!MarkApplied(lastSeq)
    /\ pc' = "event"
    /\ UNCHANGED <<db, staged, globalSeq, call, fails>>

\* A mistake: skipped duplicates are counted.
RunAfterCountingAll(row) ==
    [row EXCEPT !.last = call.head, !.count = row.count + Len(call.batch),
                !.status = call.status, !.ended = call.ended]

\* The run row append_events writes.
RunAfter(row) == [row EXCEPT !.last = call.head, !.count = row.count + call.fresh,
                             !.status = call.status, !.ended = call.ended]

\* A mistake: persist_global_seq is left out of the batch.
FinalImageWithoutSeq ==
    [staged EXCEPT !.runs = Put(db.runs, call.run, RunAfter(db.runs[call.run]))]

\* The batch as written: the events, the run row and meta/global_seq.
FinalImage ==
    [staged EXCEPT !.runs = Put(db.runs, call.run, RunAfter(db.runs[call.run])),
                   !.seq = globalSeq]

WriteBatch ==
    /\ pc = "event" /\ call.i = Len(call.batch)
    /\ db' = FinalImage
    /\ staged' = FinalImage
    /\ call' = NoCall
    /\ pc' = "idle"
    /\ UNCHANGED <<globalSeq, fails, log>>

\* The write throws: nothing is stored, the sequence numbers are used up.
WriteBatchFails ==
    /\ pc = "event" /\ call.i = Len(call.batch)
    /\ fails < MaxFail /\ fails' = fails + 1
    /\ staged' = db
    /\ call' = NoCall
    /\ pc' = "idle"
    /\ UNCHANGED <<db, globalSeq, log>>

-----------------------------------------------------------------------------
(* Crash and reopening.                                                    *)

Crash ==
    /\ pc # "down"
    /\ W!Crash \/ (pc \in {"mark", "markEvent"} /\ W!CrashInMark)
    /\ pc' = "down"
    /\ globalSeq' = 0
    /\ staged' = db
    /\ call' = NoCall
    /\ UNCHANGED <<db, fails>>

\* A mistake: the sequence counter starts from nothing.
ReopenFromZero ==
    /\ pc = "down"
    /\ W!Open
    /\ globalSeq' = 0
    /\ pc' = "idle"
    /\ UNCHANGED <<db, staged, call, fails>>

\* The constructor: open the WAL, open RocksDB, load_global_seq.
Reopen ==
    /\ pc = "down"
    /\ W!Open
    /\ globalSeq' = db.seq
    /\ pc' = "idle"
    /\ UNCHANGED <<db, staged, call, fails>>

-----------------------------------------------------------------------------
RowCall ==
    \E t \in Tenants :
        \/ \E r \in RunIds : start_run(r, t) \/ commit_run(r, t) \/ rollback_run(r, t)
        \/ \E a \in ApprovalIds :
              \/ upsert_approval(a, t)
              \/ \E d \in ApprovalStatuses : update_approval_status(a, t, d)
        \/ \E x \in ExportIds : put_export(x, t)

Next ==
    \/ RowCall
    \/ WriteRow \/ MarkRow \/ WriteRowFails
    \/ \E r \in RunIds, t \in Tenants, b \in Batches : append_events(r, t, b)
    \/ SkipDuplicate \/ LogEvent \/ MarkEvent \/ WriteBatch \/ WriteBatchFails
    \/ Crash \/ Reopen

Spec == Init /\ [][Next]_vars

-----------------------------------------------------------------------------
(* Type invariant.                                                         *)

IsTable(f, K, V) == /\ f = [x \in DOMAIN f |-> f[x]]
                    /\ DOMAIN f \subseteq K
                    /\ \A x \in DOMAIN f : f[x] \in V

EventRow == [run : RunIds, key : Keys \cup {NoKey}, type : EventTypes, prev : Hash, hash : Hash]

ApprovalRow == [tenant : Tenants, status : ApprovalStatuses]

IsDb(d) ==
    /\ d = [runs |-> d.runs, events |-> d.events, idempotency |-> d.idempotency,
            approvals |-> d.approvals, exports |-> d.exports, seq |-> d.seq]
    /\ IsTable(d.runs, RunIds, RunRow)
    /\ IsTable(d.events, Nat, EventRow)
    /\ IsTable(d.idempotency, Keys, Hash)
    /\ IsTable(d.approvals, ApprovalIds, ApprovalRow)
    /\ IsTable(d.exports, ExportIds, Tenants)
    /\ d.seq \in Nat

\* Every column family holds rows of its own type, and the call in progress is
\* one of the calls the engine has.
TypeOK ==
    /\ IsDb(db)
    /\ IsDb(staged)
    /\ globalSeq \in Nat
    /\ pc \in {"idle", "write", "mark", "event", "markEvent", "down"}
    /\ call \in [run : RunIds \cup {NoRun}, batch : Seq(Input), i : Nat, fresh : Nat, head : Hash,
                 status : Statuses, ended : BOOLEAN]
    /\ call.i <= Len(call.batch)
    /\ pc \in {"event", "markEvent"} => call.run \in DOMAIN db.runs
    /\ fails \in Nat
    /\ W!WalTypeOK

-----------------------------------------------------------------------------
(* Safety properties.                                                      *)

\* Tamper evidence has no false alarms: across failed writes, crashes and
\* replayed batches the stored events of every run form one unbroken hash
\* chain, so verify() reports a run valid unless somebody altered it.
ChainIntact == Linked(db.events)

\* The row of run r carries the hash of the run's newest event and their number.
RunMatches(d, r) ==
    /\ HeadIs(d.events, OfRun(d.events, r), d.runs[r].last)
    /\ d.runs[r].count = Cardinality(OfRun(d.events, r))

\* The run row and the events agree: last_event_hash is the hash of the newest
\* stored event of the run (the next append chains from it), and event_count
\* is the number of its stored events.
RunsMatchEvents == \A r \in DOMAIN db.runs : RunMatches(db, r)

\* An idempotency key names one stored event: a batch sent again, after a
\* failure, a crash or a lost answer, stores nothing twice.
KeysUnique ==
    \A s, t \in DOMAIN db.events :
        db.events[s].key = db.events[t].key /\ db.events[s].key # NoKey => s = t

\* Every stored key is in the index, and every index entry is of a stored event.
Indexed(d) ==
    /\ \A s \in DOMAIN d.events :
          d.events[s].key # NoKey => d.events[s].key \in DOMAIN d.idempotency
    /\ \A k \in DOMAIN d.idempotency :
          \E s \in DOMAIN d.events :
              d.events[s].key = k /\ d.events[s].hash = d.idempotency[k]

\* The idempotency index and the events agree, so that no replay slips through
\* and none is refused without its event.
KeysIndexed == Indexed(db)

\* The events table is append-only ("events : seq_be(8) -> AuditEvent JSON
\* (append-only)"): no step removes or replaces a stored event.  A sequence
\* number used again after a crash would do so.
AppendOnly ==
    [][\A s \in DOMAIN db.events :
          s \in DOMAIN db'.events /\ db'.events[s] = db.events[s]]_vars

\* The newest entry of the WAL announces an update of approval a.
UpdateLogged(a) ==
    Len(walFile) > 0 /\ walFile[Len(walFile)].payload = [op |-> "UPDATE_APPROVAL", id |-> a]

\* Requests that are repeated, or raced by another tenant, take over no row: runs
\* and approvals stay with the tenant that created them, and the status of a
\* stored approval changes only by an update_approval_status that the WAL
\* announced, so that a repeated request never undoes a decision.
RowsKept ==
    [][/\ \A r \in DOMAIN db.runs :
             r \in DOMAIN db'.runs /\ db'.runs[r].tenant = db.runs[r].tenant
       /\ \A a \in DOMAIN db.approvals :
             /\ a \in DOMAIN db'.approvals /\ db'.approvals[a].tenant = db.approvals[a].tenant
             /\ db'.approvals[a].status # db.approvals[a].status => UpdateLogged(a)]_vars

-----------------------------------------------------------------------------
(* The inductive invariant behind the safety properties.                   *)

\* A database whose events chain, are numbered up to meta/global_seq, belong to
\* runs that match them, and are indexed by their keys.
Consistent(d) ==
    /\ Linked(d.events)
    /\ DOMAIN d.events \subseteq 1..d.seq
    /\ \A s \in DOMAIN d.events : d.events[s].run \in DOMAIN d.runs
    /\ \A r \in DOMAIN d.runs : RunMatches(d, r)
    /\ Indexed(d)

\* A batch under construction only adds events, to the run of the call, above
\* every number in use; the call's head is the newest of them and its count of
\* new events is theirs.
AppendStaged ==
    /\ staged.runs = db.runs
    /\ DOMAIN staged.events \subseteq 1..globalSeq
    /\ \A s \in DOMAIN db.events :
          s \in DOMAIN staged.events /\ staged.events[s] = db.events[s]
    /\ \A s \in DOMAIN staged.events \ DOMAIN db.events : staged.events[s].run = call.run
    /\ Linked(staged.events)
    /\ HeadIs(staged.events, OfRun(staged.events, call.run), call.head)
    /\ Cardinality(OfRun(staged.events, call.run)) = db.runs[call.run].count + call.fresh
    /\ Indexed(staged)

\* A single-row batch leaves the events, the index and the chain heads alone.
RowStaged ==
    /\ staged.events = db.events /\ staged.idempotency = db.idempotency /\ staged.seq = db.seq
    /\ DOMAIN db.runs \subseteq DOMAIN staged.runs
    /\ \A r \in DOMAIN staged.runs :
          IF r \in DOMAIN db.runs
          THEN staged.runs[r].last = db.runs[r].last /\ staged.runs[r].count = db.runs[r].count
          ELSE staged.runs[r].last = NoHash /\ staged.runs[r].count = 0

\* Between any two steps the database is consistent, the sequence counter of a
\* live process is ahead of it, and the staged batch keeps it consistent.
IndInv ==
    /\ Consistent(db)
    /\ pc # "down" => db.seq <= globalSeq
    /\ pc \in {"event", "markEvent"} => AppendStaged
    /\ pc = "write" => RowStaged

-----------------------------------------------------------------------------
(* Refinement.                                                             *)

\* The engine implements the abstract audit log: the log of a run is what its
\* last_event_hash commits to.
Abs == INSTANCE AuditLog WITH runLog <- [r \in DOMAIN db.runs |-> db.runs[r].last]

\* Every behaviour of the engine, crashes and failures included, is one of the
\* abstract log: growth by whole batches, at the end, no key twice.
ImplementsAuditLog == Abs!Spec

-----------------------------------------------------------------------------
(* What the comments of the code promise of the WAL.                       *)

\* The WAL entry's mutation is in the database.
Written(p) ==
    CASE p.op = "INSERT_EVENT"    -> p.id \in DOMAIN db.events
      [] p.op = "INSERT_RUN"      -> p.id \in DOMAIN db.runs
      [] p.op = "INSERT_APPROVAL" -> p.id \in DOMAIN db.approvals
      [] p.op = "INSERT_EXPORT"   -> p.id \in DOMAIN db.exports
      [] OTHER                    -> TRUE

\* "On crash, replay() re-applies all committed entries whose RocksDB write did
\* not complete": once the engine has reopened, every logged mutation of a call
\* that was not refused is in the database.
CrashReplaysLog ==
    pc = "idle" /\ fails = 0 =>
        \A i \in 1..Len(walFile) : Written(walFile[i].payload)
=============================================================================
