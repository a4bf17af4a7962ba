------------------------------- MODULE Ingest -------------------------------
(***************************************************************************)
(* The collector's ingest service (services/collector/.../ingest.py) on    *)
(* PostgreSQL.  A replica runs one request at a time (its handlers are     *)
(* coroutines that never await), and deploy/k8s/deployment.yaml runs two   *)
(* replicas, so that requests interleave between their SQL statements.     *)
(*                                                                         *)
(* A request holds one session: it reads the run row once, adds events to  *)
(* its open transaction one by one, and commits at the end, when the run   *)
(* columns it changed are written.  A statement sees what is committed and *)
(* what its own transaction wrote (READ COMMITTED).                        *)
(***************************************************************************)
EXTENDS HashChain

CONSTANTS
    Replicas,       \* collector processes
    RunIds, NoRun,
    Tenants,        \* (org_id, project_id) of the principals
    EventIds,       \* event_id values
    Keys, NoKey,    \* idempotency keys, and an event without one
    Batches,        \* bodies of POST /v1/runs/{run_id}/events
    MaxSeq,         \* bound: values taken from the audit_events sequence
    MaxRequests,    \* bound: requests served
    MaxFail         \* bound: statements that fail

StatusOf == [started |-> "running", requires_approval |-> "requires_approval",
             committed |-> "committed", rolled_back |-> "rolled_back", failed |-> "failed"]

\* "other" stands for the event types that do not touch the run, "unknown" for
\* a name that is no event type.
EventTypes == DOMAIN StatusOf \cup {"other", "unknown"}
Statuses   == {StatusOf[x] : x \in DOMAIN StatusOf}
Input      == [id : EventIds, key : Keys \cup {NoKey}, type : EventTypes]

ASSUME IngestBounds == {MaxSeq, MaxRequests, MaxFail} \subseteq Nat
ASSUME IngestNone == NoKey \notin Keys /\ NoRun \notin RunIds
ASSUME IngestBatches == Batches \subseteq Seq(Input)

VARIABLES
    runs, events,   \* agent_runs and audit_events, as committed
    nextSeq,        \* the sequence behind audit_events.sequence
    req,            \* the request each replica is serving
    acked,          \* ids returned in answers with status 200
    requests, fails \* counts of the bounded events

vars == <<runs, events, nextSeq, req, acked, requests, fails>>

-----------------------------------------------------------------------------
(* Rows.                                                                   *)

Put(t, k, v) == [x \in DOMAIN t \cup {k} |-> IF x = k THEN v ELSE t[x]]
EmptyTable == [x \in {} |-> 0]

NewRun(t) == [tenant |-> t, status |-> "running", ended |-> FALSE, last |-> NoHash, count |-> 0]

\* The row object of an expired session: its columns are read again on use.
Expired == [tenant |-> "expired"]

\* A replica without a request.  base is the run row as read, row the object
\* the handler changes, mine the events its transaction has inserted.
NoRequest == [pc |-> "idle", run |-> NoRun, batch |-> <<>>, i |-> 0, head |-> NoHash,
              base |-> Expired, row |-> Expired, mine |-> EmptyTable, accepted |-> <<>>]

Init ==
    /\ runs = EmptyTable
    /\ events = EmptyTable
    /\ nextSeq = 1
    /\ req = [c \in Replicas |-> NoRequest]
    /\ acked = {}
    /\ requests = 0
    /\ fails = 0

-----------------------------------------------------------------------------
(* start_run, commit_run, rollback_run.                                    *)

Serve(c, q) ==
    /\ req[c].pc = "idle"
    /\ requests < MaxRequests
    /\ requests' = requests + 1
    /\ req' = [req EXCEPT ![c] = q]
    /\ UNCHANGED <<runs, events, nextSeq, acked, fails>>

\* session.get finds no run of that id; an existing run is returned as it is.
start_run(c, r, t) ==
    /\ r \notin DOMAIN runs
    /\ Serve(c, [NoRequest EXCEPT !.pc = "insertRun", !.run = r, !.row = NewRun(t)])

\* A mistake: an upsert instead of an INSERT.
InsertRunReplaces(c) ==
    /\ req[c].pc = "insertRun"
    /\ runs' = Put(runs, req[c].run, req[c].row)
    /\ req' = [req EXCEPT ![c] = NoRequest]
    /\ UNCHANGED <<events, nextSeq, acked, requests, fails>>

\* The INSERT at commit.  The primary key refuses a run another request has
\* started in the meantime; the request then fails.
InsertRun(c) ==
    /\ req[c].pc = "insertRun"
    /\ runs' = IF req[c].run \in DOMAIN runs THEN runs ELSE Put(runs, req[c].run, req[c].row)
    /\ req' = [req EXCEPT ![c] = NoRequest]
    /\ UNCHANGED <<events, nextSeq, acked, requests, fails>>

\* _authorize_run, for the principal's tenant.
Authorized(r, t) == r \in DOMAIN runs /\ runs[r].tenant = t

EndRun(c, r, t, status) ==
    /\ Authorized(r, t)
    /\ Serve(c, [NoRequest EXCEPT !.pc = "finish", !.run = r, !.base = runs[r], !.head = runs[r].last,
                                  !.row = [runs[r] EXCEPT !.status = status, !.ended = TRUE]])

commit_run(c, r, t)   == EndRun(c, r, t, "committed")
rollback_run(c, r, t) == EndRun(c, r, t, "rolled_back")

-----------------------------------------------------------------------------
(* append_events.                                                          *)

\* The request once the run is read: the chain goes on from the hash in its row.
AppendRequest(r, batch) ==
    [NoRequest EXCEPT !.pc = "event", !.run = r, !.batch = batch,
                      !.base = runs[r], !.row = runs[r], !.head = runs[r].last]

append_events(c, r, t, batch) ==
    /\ batch # <<>>
    /\ Authorized(r, t)
    /\ Serve(c, AppendRequest(r, batch))

Ev(q) == q.batch[q.i + 1]

\* What a SELECT of the request returns: committed rows and its own.
Seen(q) == [s \in DOMAIN events \cup DOMAIN q.mine |->
                IF s \in DOMAIN q.mine THEN q.mine[s] ELSE events[s]]

WithKey(t, k) == {s \in DOMAIN t : k # NoKey /\ t[s].key = k}
WithId(t, id) == {s \in DOMAIN t : t[s].id = id}

\* A mistake: the key column is indexed but not unique.
ClashesOnId(t, ev) == WithId(t, ev.id)

\* The unique columns of audit_events: rows of t the new row collides with.
Clashes(t, ev) == WithKey(t, ev.key) \cup WithId(t, ev.id)

Abort(c) == req' = [req EXCEPT ![c] = NoRequest]

\* The request is done with the event: the id it reports, the hash it goes on from.
Accept(q, e) == [q EXCEPT !.pc = "event", !.i = q.i + 1, !.head = e.hash,
                          !.accepted = Append(q.accepted, e.id)]

\* IngestError: the session is rolled back and the client gets a 4xx.
RejectType(c) ==
    /\ req[c].pc = "event" /\ req[c].i < Len(req[c].batch)
    /\ Ev(req[c]).type = "unknown"
    /\ Abort(c)
    /\ UNCHANGED <<runs, events, nextSeq, acked, requests, fails>>

\* The SELECT by idempotency key: an event with the key, of whatever run, is
\* the answer, and its hash is what the next event is chained to.
CheckKey(c) ==
    LET q == req[c]
        found == WithKey(Seen(q), Ev(q).key)
    IN  /\ q.pc = "event" /\ q.i < Len(q.batch)
        /\ Ev(q).type # "unknown"
        /\ req' = [req EXCEPT ![c] =
                      IF found = {} THEN [q EXCEPT !.pc = "insert"]
                      ELSE Accept(q, Seen(q)[CHOOSE s \in found : TRUE])]
        /\ UNCHANGED <<runs, events, nextSeq, acked, requests, fails>>

\* An expired row object is read again.
Loaded(q) == IF q.row = Expired THEN [q EXCEPT !.row = runs[q.run], !.base = runs[q.run]] ELSE q

NewEvent(q) ==
    LET ev == Ev(q)
        e  == [run |-> q.run, id |-> ev.id, key |-> ev.key, type |-> ev.type,
               prev |-> q.head, hash |-> NoHash]
    IN  [e EXCEPT !.hash = EventHash(e)]

\* A mistake: the event type is stored as the status.
AfterEventRaw(row, type) == IF type \in DOMAIN StatusOf THEN [row EXCEPT !.status = type] ELSE row

\* Status and end of the run after an event of the given type.
AfterEvent(row, type) ==
    IF type \in DOMAIN StatusOf
    THEN [row EXCEPT !.status = StatusOf[type],
                     !.ended = row.ended \/ type \in {"committed", "rolled_back", "failed"}]
    ELSE row

\* A mistake: the row is built but never added to the session.
InsertForgotten(c) ==
    LET q == Loaded(req[c])
        e == NewEvent(q)
    IN  /\ req[c].pc = "insert"
        /\ nextSeq <= MaxSeq
        /\ Clashes(Seen(q), Ev(q)) = {}
        /\ nextSeq' = nextSeq + 1
        /\ req' = [req EXCEPT ![c] = [Accept(q, e) EXCEPT !.row = AfterEvent(q.row, e.type)]]
        /\ UNCHANGED <<runs, events, acked, requests, fails>>

\* The INSERT.  It waits while another open transaction holds a row it collides with.
Insert(c) ==
    LET q == Loaded(req[c])
        e == NewEvent(q)
    IN  /\ req[c].pc = "insert"
        /\ nextSeq <= MaxSeq
        /\ \A d \in Replicas \ {c} : Clashes(req[d].mine, Ev(q)) = {}
        /\ Clashes(Seen(q), Ev(q)) = {}
        /\ nextSeq' = nextSeq + 1
        /\ req' = [req EXCEPT ![c] = [Accept(q, e) EXCEPT !.mine = Put(q.mine, nextSeq, e),
                                                          !.row = AfterEvent(q.row, e.type)]]
        /\ UNCHANGED <<runs, events, acked, requests, fails>>

\* IntegrityError: the whole transaction is rolled back, the events it had
\* inserted before included; if the event is found by its id the loop goes on,
\* otherwise the request fails.
InsertClash(c) ==
    LET q     == req[c]
        found == WithId(events, Ev(q).id)
        clean == [q EXCEPT !.mine = EmptyTable, !.row = Expired, !.base = Expired]
    IN  /\ q.pc = "insert"
        /\ \A d \in Replicas \ {c} : Clashes(req[d].mine, Ev(q)) = {}
        /\ Clashes(Seen(q), Ev(q)) # {}
        /\ IF found # {}
           THEN req' = [req EXCEPT ![c] = Accept(clean, events[CHOOSE s \in found : TRUE])]
           ELSE Abort(c)
        /\ UNCHANGED <<runs, events, nextSeq, acked, requests, fails>>

-----------------------------------------------------------------------------
(* Commit and failure.                                                     *)

\* The run object at the end of append_events.
EndOfAppend(q) ==
    [q EXCEPT !.pc = "finish",
              !.row = [q.row EXCEPT !.last = q.head, !.count = q.row.count + Len(q.accepted)]]

\* The UPDATE of the columns whose value differs from what was read.
Updated(committed, base, row) ==
    [f \in DOMAIN committed |-> IF row[f] = base[f] THEN committed[f] ELSE row[f]]

\* The end of the session: the transaction commits and the answer is sent.
Commit(c) ==
    LET q == IF req[c].pc = "event" THEN EndOfAppend(Loaded(req[c])) ELSE req[c]
    IN  /\ \/ req[c].pc = "event" /\ req[c].i = Len(req[c].batch)
           \/ req[c].pc = "finish"
        /\ events' = Seen(q)
        /\ runs' = Put(runs, q.run, Updated(runs[q.run], q.base, q.row))
        /\ acked' = acked \cup {q.accepted[i] : i \in 1..Len(q.accepted)}
        /\ req' = [req EXCEPT ![c] = NoRequest]
        /\ UNCHANGED <<nextSeq, requests, fails>>

\* A statement fails (lost connection, deadlock victim) or the replica dies:
\* the transaction is gone and the client gets an error or no answer.
StatementFails(c) ==
    /\ req[c].pc # "idle"
    /\ fails < MaxFail /\ fails' = fails + 1
    /\ Abort(c)
    /\ UNCHANGED <<runs, events, nextSeq, acked, requests>>

-----------------------------------------------------------------------------
\* A mistake: the hashes are recomputed but the links not followed.
VerifyHashesOnly(r) == \A s \in OfRun(events, r) : events[s].hash = EventHash(events[s])

\* verify(): along the timeline of the run every event names the hash of the one
\* before it and its own hash recomputes.
verify(r) ==
    \A s \in OfRun(events, r) :
        /\ HeadIs(events, Before(events, r, s), events[s].prev)
        /\ events[s].hash = EventHash(events[s])

-----------------------------------------------------------------------------
\* The routes of app.py: a replica takes up a request.
Request(c) ==
    \E r \in RunIds, t \in Tenants :
        \/ start_run(c, r, t) \/ commit_run(c, r, t) \/ rollback_run(c, r, t)
        \/ \E b \in Batches : append_events(c, r, t, b)

\* The next statement of the request a replica is serving.
Statement(c) ==
    \/ InsertRun(c) \/ RejectType(c) \/ CheckKey(c) \/ Insert(c) \/ InsertClash(c)
    \/ Commit(c) \/ StatementFails(c)

Next == \E c \in Replicas : Request(c) \/ Statement(c)

Spec == Init /\ [][Next]_vars

-----------------------------------------------------------------------------
(* Properties.                                                             *)

Hash == Seq([run : RunIds, id : EventIds, key : Keys \cup {NoKey}, type : EventTypes])

RunRow == [tenant : Tenants, status : Statuses, ended : BOOLEAN, last : Hash, count : Nat]

EventRow == [run : RunIds, id : EventIds, key : Keys \cup {NoKey}, type : EventTypes,
             prev : Hash, hash : Hash]

IsTable(t, K, V) == DOMAIN t \subseteq K /\ \A x \in DOMAIN t : t[x] \in V

\* Tables and requests have their types, and a request in its loop is inside
\* its batch.
TypeOK ==
    /\ IsTable(runs, RunIds, RunRow)
    /\ IsTable(events, Nat, EventRow)
    /\ nextSeq \in Nat
    /\ acked \subseteq EventIds
    /\ {requests, fails} \subseteq Nat
    /\ \A c \in Replicas :
          /\ req[c].pc \in {"idle", "insertRun", "event", "insert", "finish"}
          /\ req[c].i <= Len(req[c].batch)
          /\ req[c].head \in Hash
          /\ req[c].row \in RunRow \cup {Expired}
          /\ IsTable(req[c].mine, Nat, EventRow)

\* The events of every run form one unbroken chain: verify() reports a run
\* valid that nobody has tampered with.
ChainIntact == \A r \in DOMAIN runs : verify(r)

\* Whatever two replicas and their retries do, an event is stored once: no two
\* rows share an event_id or an idempotency key.
StoredOnce ==
    \A s, u \in DOMAIN events :
        \/ events[s].id = events[u].id
        \/ events[s].key = events[u].key /\ events[s].key # NoKey
        => s = u

\* An answer is not taken back: an id reported in event_ids stays the id of a
\* stored event.
AcceptedStored == \A id \in acked : WithId(events, id) # {}

\* h is the hash of a stored event of the run with a number below s.
StoredBefore(r, h, s) == h = NoHash \/ \E u \in OfRun(events, r) : u < s /\ events[u].hash = h

\* No run hangs from an event that was rolled back: the hash a run carries and
\* the hash every event names as its predecessor are those of stored, earlier
\* events of the same run.
HeadsStored ==
    /\ \A r \in DOMAIN runs : StoredBefore(r, runs[r].last, nextSeq)
    /\ \A s \in DOMAIN events : StoredBefore(events[s].run, events[s].prev, s)

\* Two events, sent or stored, that a unique column keeps from being stored both.
Clash(e, f) == e.id = f.id \/ (e.key = f.key /\ e.key # NoKey)

\* Batches as the SDKs send them: no event twice in a batch, and a batch that
\* repeats an event of another one repeats what was before it there.  (A clash
\* behind an event that is new takes that event away although the answer
\* reports it.)
RepeatedFromStart ==
    /\ \A b \in Batches : \A i, j \in 1..Len(b) : Clash(b[i], b[j]) => i = j
    /\ \A b, d \in Batches : \A i \in 1..Len(b), j \in 1..Len(d) :
          Clash(b[i], d[j]) => \A k \in 1..(i - 1) : \E m \in 1..(j - 1) : Clash(b[k], d[m])
    /\ \A a, b, d \in Batches : \A i \in 1..Len(a), j \in 1..Len(b), k \in 1..Len(d) :
          Clash(a[i], b[j]) /\ Clash(b[j], d[k]) => Clash(a[i], d[k])

\* The events sent are those of one run.  (A check by key answers with an event
\* of whatever run, whose hash would become the head of this one.)
OneRun == \A r, s \in RunIds : r = s

\* A rollback in the middle of a batch, by a failing statement or a clash, takes
\* nothing away that somebody relies on: an answer, a run or a later event.
\* (For one run whose batches are RepeatedFromStart.)
RollbackSafe == AcceptedStored /\ HeadsStored

\* Rows are never taken over: a run keeps the tenant that started it even when
\* two tenants start the same id at the same time, and an event stays as it is.
RowsKept ==
    [][/\ \A r \in DOMAIN runs : r \in DOMAIN runs' /\ runs'[r].tenant = runs[r].tenant
       /\ \A s \in DOMAIN events : s \in DOMAIN events' /\ events'[s] = events[s]]_vars
=============================================================================
