---------------------------- MODULE RocksBackend ----------------------------
(***************************************************************************)
(* The collector's Python RocksDB backend (storage/rocksdb_backend.py on   *)
(* storage/_rocksdict_compat.py).  Threads open sessions; a session keeps  *)
(* the objects added to it, turns them into puts of a private WriteBatch   *)
(* when it is flushed, and writes the batch in one step at its end.        *)
(*                                                                         *)
(* The database is one function from <<column family, key>> to values.     *)
(* RocksDB itself is outside: a write is atomic and survives the process.  *)
(* The backend creates a WAL object and never writes to it.                *)
(***************************************************************************)
EXTENDS Naturals, Sequences, FiniteSets

CONSTANTS
    Threads,
    Events,      \* AuditEventRow objects: [kind, id, run, type, key]
    NoKey,       \* an event without idempotency key
    RunIds,      \* numbers, because the indexes are ordered by them
    Started,     \* started_at of each run, or NoTime
    NoTime,
    Times,       \* what _now_ms may say
    Approvals,   \* approval_id values
    Others,      \* objects of any other class
    Bodies,      \* what a caller may add to one session: sets of objects
    Limits,      \* limits callers ask for
    MaxSeq,      \* bound: sequence numbers
    MaxSessions, \* bound: sessions
    MaxOpens     \* bound: times the database is opened

RunRow(r, s)      == [kind |-> "run", id |-> r, status |-> s]
ApprovalRow(a, s) == [kind |-> "approval", id |-> a, status |-> s]

\* An object of a class the backend has no table for: the SQLAlchemy AgentRun,
\* AuditEvent and EvidenceExport of the services, among others.
OtherObject(x) == [kind |-> "other", id |-> x]

Rows == Events \cup {RunRow(r, s) : r \in RunIds, s \in {"running", "committed"}}
               \cup {ApprovalRow(a, s) : a \in Approvals, s \in {"requested", "approved"}}
               \cup {OtherObject(x) : x \in Others}

\* The objects that callers add.
Objects == UNION Bodies

ASSUME RocksBounds == {MaxSeq, MaxSessions, MaxOpens} \cup RunIds \cup Limits \subseteq Nat
ASSUME RocksStarted == Started \in [RunIds -> Nat \cup {NoTime}] /\ Times \subseteq Nat /\ NoTime \notin Nat
ASSUME RocksObjects == Bodies \subseteq SUBSET Rows
ASSUME RocksEvents == \A e \in Events : e.kind = "event"

VARIABLES
    db,          \* the RocksDB database
    up,          \* "down", "opened" (the counter is read), "ready"
    seq,         \* RocksDBDatabase._seq
    sequence,    \* the sequence attribute of each event object, 0 before its first flush
    pc, then,    \* where each thread is, and where its flush returns to
    pending,     \* _RocksSession._pending
    batch,       \* _RocksSession._batch
    acked,       \* events of sessions that have returned
    added,       \* objects added to the session of each thread (history)
    regressed,   \* a write has lowered the stored global_seq (history)
    opens, sessions  \* counts of the bounded events

vars == <<db, up, seq, sequence, pc, then, pending, batch, acked, added, regressed, opens, sessions>>

-----------------------------------------------------------------------------
(* Column families.                                                        *)

Empty == [k \in {} |-> 0]

\* Puts of b over the contents of d.
Over(b, d) == [k \in DOMAIN b \cup DOMAIN d |-> IF k \in DOMAIN b THEN b[k] ELSE d[k]]
Put(cf, key, value) == [k \in {<<cf, key>>} |-> value]
Has(d, cf, key) == <<cf, key>> \in DOMAIN d

\* The keys of a column family, as an iterator meets them.
Keys(d, cf) == {k[2] : k \in {k \in DOMAIN d : k[1] = cf}}

GlobalSeq(d) == IF Has(d, "meta", "global_seq") THEN d[<<"meta", "global_seq">>] ELSE 0
Numbers(d) == Keys(d, "events")

Init ==
    /\ db = Empty /\ up = "down" /\ seq = 0 /\ sequence = [e \in Events |-> 0]
    /\ pc = [t \in Threads |-> "idle"] /\ then = [t \in Threads |-> "body"]
    /\ pending = [t \in Threads |-> <<>>] /\ batch = [t \in Threads |-> Empty]
    /\ acked = {} /\ added = [t \in Threads |-> {}] /\ regressed = FALSE
    /\ opens = 0 /\ sessions = 0

-----------------------------------------------------------------------------
(* Opening, and the end of the process.                                    *)

\* __init__ and _open: the counter is read from the meta column family.
Open ==
    /\ up = "down" /\ opens < MaxOpens
    /\ opens' = opens + 1 /\ up' = "opened"
    /\ seq' = GlobalSeq(db)
    /\ UNCHANGED <<db, sequence, pc, then, pending, batch, acked, added, regressed, sessions>>

\* A mistake: the organisation is written on its own, before the batch.
BootstrapInTwo ==
    /\ up = "opened"
    /\ IF Has(db, "orgs", "default") THEN up' = "ready" /\ UNCHANGED db
       ELSE \/ up' = "opened" /\ db' = Over(Put("orgs", "default", "org"), db)
            \/ up' = "ready" /\ db' = Over(Put("projects", "default", "project"),
                                           Over(Put("api_keys", "bootstrap", "key"), db))
    /\ UNCHANGED <<seq, sequence, pc, then, pending, batch, acked, added, regressed, opens, sessions>>

\* _bootstrap: organisation, project and API keys in one batch, unless the
\* organisation is there.
Bootstrap ==
    /\ up = "opened" /\ up' = "ready"
    /\ db' = IF Has(db, "orgs", "default") THEN db
             ELSE Over(Put("orgs", "default", "org"),
                       Over(Put("projects", "default", "project"),
                            Over(Put("api_keys", "bootstrap", "key"), db)))
    /\ UNCHANGED <<seq, sequence, pc, then, pending, batch, acked, added, regressed, opens, sessions>>

\* The process ends, at any point; close() in a quiet moment has the same effect.
Crash ==
    /\ up # "down" /\ up' = "down"
    /\ pc' = [t \in Threads |-> "idle"] /\ then' = [t \in Threads |-> "body"]
    /\ pending' = [t \in Threads |-> <<>>] /\ batch' = [t \in Threads |-> Empty]
    /\ added' = [t \in Threads |-> {}] /\ sequence' = [e \in Events |-> 0]
    /\ UNCHANGED <<db, seq, acked, regressed, opens, sessions>>

-----------------------------------------------------------------------------
(* get_event_by_idempotency_key: the key's event_id, then a scan for it.   *)

Lookup(key) ==
    {n \in Numbers(db) : Has(db, "idempotency", key)
                           /\ db[<<"events", n>>].id = db[<<"idempotency", key>>]}

\* The event object is not in the hands of an open session.
InUse(e) == \E t \in Threads : e \in added[t]

-----------------------------------------------------------------------------
(* Sessions.                                                               *)

session(t) ==
    /\ up = "ready" /\ pc[t] = "idle" /\ sessions < MaxSessions
    /\ pc' = [pc EXCEPT ![t] = "body"]
    /\ sessions' = sessions + 1
    /\ UNCHANGED <<db, up, seq, sequence, then, pending, batch, acked, added, regressed, opens>>

\* session.add.  An event is added by one caller, which asks for its key before
\* and retries what failed, with the object it has or with a new one.
add(t, o) ==
    /\ pc[t] = "body"
    /\ o \in Events => /\ o \notin acked /\ ~InUse(o)
                       /\ o.key # NoKey => Lookup(o.key) = {}
    /\ o \notin added[t] /\ \E body \in Bodies : added[t] \cup {o} \subseteq body
    /\ pending' = [pending EXCEPT ![t] = Append(@, o)]
    /\ added' = [added EXCEPT ![t] = @ \cup {o}]
    /\ \/ UNCHANGED sequence
       \/ o \in Events /\ sequence[o] # 0 /\ sequence' = [sequence EXCEPT ![o] = 0]
    /\ UNCHANGED <<db, up, seq, pc, then, batch, acked, regressed, opens, sessions>>

\* session.flush, and the flush at the head of commit.
Flush(t, next) ==
    /\ pc[t] = "body"
    /\ next = "body" => pending[t] # <<>>
    /\ pc' = [pc EXCEPT ![t] = "flush"] /\ then' = [then EXCEPT ![t] = next]
    /\ UNCHANGED <<db, up, seq, sequence, pending, batch, acked, added, regressed, opens, sessions>>

flush(t)  == Flush(t, "body")
commit(t) == Flush(t, "write")

Buffer(t, puts) == batch' = [batch EXCEPT ![t] = Over(puts, @)]

\* The time in the index key of a run: started_at, or the time of the write.
Moments(r) == IF Started[r] = NoTime THEN Times ELSE {Started[r]}

\* A mistake: the index key ends with the time.
WriteRunSameMoment(t, o) ==
    /\ \E ms \in Moments(o.id) :
          Buffer(t, Over(Put("runs", o.id, o), Put("runs_by_org", <<ms, 0>>, o.id)))
    /\ pending' = [pending EXCEPT ![t] = Tail(@)]
    /\ UNCHANGED <<seq, sequence, pc>>

\* _write_run: the row, and the index key made of the time and run_id.
WriteRun(t, o) ==
    /\ \E ms \in Moments(o.id) :
          Buffer(t, Over(Put("runs", o.id, o), Put("runs_by_org", <<ms, o.id>>, o.id)))
    /\ pending' = [pending EXCEPT ![t] = Tail(@)]
    /\ UNCHANGED <<seq, sequence, pc>>

WriteApproval(t, o) ==
    /\ Buffer(t, Put("approvals", o.id, o))
    /\ pending' = [pending EXCEPT ![t] = Tail(@)]
    /\ UNCHANGED <<seq, sequence, pc>>

\* The key with ":hash" behind it, and the hash of an event.
HashKey(key) == <<key, "hash">>
Hash(e)      == <<"hash", e.id>>

\* The entries of a key: the event's id, and its hash beside it.
Idempotency(e) ==
    IF e.key = NoKey THEN Empty
    ELSE Over(Put("idempotency", HashKey(e.key), Hash(e)), Put("idempotency", e.key, e.id))

\* A mistake: the key is left out of the batch.
EventPutsNoKey(e, n) ==
    Over(Put("events", n, e), Over(Put("ev_by_run", <<e.run, n>>, ""), Put("ev_by_type", <<e.type, n>>, "")))

\* The puts of _write_event for an event with number n.
EventPuts(e, n) ==
    Over(Put("events", n, e),
         Over(Put("ev_by_run", <<e.run, n>>, ""), Over(Put("ev_by_type", <<e.type, n>>, ""), Idempotency(e))))

\* _next_seq under its lock unless the object has a number, and the puts.
WriteEvent(t, e) ==
    /\ \/ sequence[e] = 0 /\ seq < MaxSeq /\ seq' = seq + 1
          /\ sequence' = [sequence EXCEPT ![e] = seq + 1]
       \/ sequence[e] # 0 /\ UNCHANGED <<seq, sequence>>
    /\ Buffer(t, EventPuts(e, sequence'[e]))
    /\ pc' = [pc EXCEPT ![t] = "persist"]
    /\ UNCHANGED pending

\* An object of another class leaves the queue and nothing else.
SkipOther(t) ==
    /\ pending' = [pending EXCEPT ![t] = Tail(@)]
    /\ UNCHANGED <<seq, sequence, pc, batch>>

\* The loop of flush, on the next pending object (_write_obj).
WriteObj(t) ==
    /\ pc[t] = "flush" /\ pending[t] # <<>>
    /\ LET o == Head(pending[t])
       IN  \/ o.kind = "run" /\ WriteRun(t, o)
           \/ o.kind = "approval" /\ WriteApproval(t, o)
           \/ o.kind = "event" /\ WriteEvent(t, o)
           \/ o.kind \notin {"run", "approval", "event"} /\ SkipOther(t)
    /\ UNCHANGED <<db, up, then, acked, added, regressed, opens, sessions>>

\* A mistake: the counter is not stored.
PersistNothing(t) ==
    /\ pc[t] = "persist" /\ pc' = [pc EXCEPT ![t] = "flush"]
    /\ pending' = [pending EXCEPT ![t] = Tail(@)]
    /\ UNCHANGED <<db, up, seq, sequence, then, batch, acked, added, regressed, opens, sessions>>

\* _persist_seq: the counter as it is now, read without the lock.
PersistSeq(t) ==
    /\ pc[t] = "persist" /\ pc' = [pc EXCEPT ![t] = "flush"]
    /\ Buffer(t, Put("meta", "global_seq", seq))
    /\ pending' = [pending EXCEPT ![t] = Tail(@)]
    /\ UNCHANGED <<db, up, seq, sequence, then, acked, added, regressed, opens, sessions>>

\* A mistake: commit writes what an earlier flush left and not the rest.
FlushSkipped(t) ==
    /\ pc[t] = "flush" /\ (pending[t] = <<>> \/ then[t] = "write")
    /\ pc' = [pc EXCEPT ![t] = then[t]]
    /\ UNCHANGED <<db, up, seq, sequence, then, pending, batch, acked, added, regressed, opens, sessions>>

\* A mistake: flush writes what it has buffered.
FlushDoneWrites(t) ==
    /\ pc[t] = "flush" /\ pending[t] = <<>>
    /\ pc' = [pc EXCEPT ![t] = then[t]]
    /\ db' = Over(batch[t], db)
    /\ UNCHANGED <<up, seq, sequence, then, pending, batch, acked, added, regressed, opens, sessions>>

FlushDone(t) ==
    /\ pc[t] = "flush" /\ pending[t] = <<>>
    /\ pc' = [pc EXCEPT ![t] = then[t]]
    /\ UNCHANGED <<db, up, seq, sequence, then, pending, batch, acked, added, regressed, opens, sessions>>

\* The write at the end of commit: every put of the batch in one step.
Write(t) ==
    /\ pc[t] = "write" /\ pc' = [pc EXCEPT ![t] = "written"]
    /\ db' = Over(batch[t], db)
    /\ regressed' = (regressed \/ (Has(batch[t], "meta", "global_seq") /\ GlobalSeq(batch[t]) < GlobalSeq(db)))
    /\ UNCHANGED <<up, seq, sequence, then, pending, batch, acked, added, opens, sessions>>

Ended(t) ==
    /\ pc' = [pc EXCEPT ![t] = "idle"] /\ then' = [then EXCEPT ![t] = "body"]
    /\ pending' = [pending EXCEPT ![t] = <<>>] /\ batch' = [batch EXCEPT ![t] = Empty]
    /\ added' = [added EXCEPT ![t] = {}]

\* The with-block ends: the caller knows that its objects are stored.
Return(t) ==
    /\ pc[t] = "written"
    /\ Ended(t)
    /\ acked' = acked \cup (added[t] \cap Events)
    /\ UNCHANGED <<db, up, seq, sequence, regressed, opens, sessions>>

\* The body, a conversion in flush or the write raises: rollback.  Numbers that
\* were taken are not given back.
rollback(t) ==
    /\ pc[t] \in {"body", "flush", "write"}
    /\ Ended(t)
    /\ UNCHANGED <<db, up, seq, sequence, acked, regressed, opens, sessions>>

-----------------------------------------------------------------------------
(* Queries: they see the database and nothing of any session.              *)

FirstOf(S, limit) == {n \in S : Cardinality({m \in S : m <= n}) <= limit}

\* A mistake: the page begins with the entry of the cursor.
QueryRunAtCursor(d, r, cursor, limit) ==
    FirstOf({n \in Numbers(d) : Has(d, "ev_by_run", <<r, n>>) /\ n >= cursor}, limit)

\* _query_events for a run: along ev_by_run, from the entry after the cursor.
QueryRun(d, r, cursor, limit) ==
    FirstOf({n \in Numbers(d) : Has(d, "ev_by_run", <<r, n>>) /\ n > cursor}, limit)

\* The same for a project: along ev_by_type, type after type, entries up to the
\* cursor skipped, cut at the limit before anything is sorted.
QueryProject(d, types, cursor, limit) ==
    LET hits   == {e \in Keys(d, "ev_by_type") : e[1] \in types /\ e[2] > cursor /\ Has(d, "events", e[2])}
        up2(e) == {f \in hits : f[1] < e[1] \/ (f[1] = e[1] /\ f[2] <= e[2])}
    IN  {e[2] : e \in {f \in hits : Cardinality(up2(f)) <= limit}}

\* _query_runs: the index from its end, the entries that have a row, up to the
\* limit.  Each is given by its time and its run: a run with two is listed twice.
QueryRuns(d, limit) ==
    LET entries == {e \in Keys(d, "runs_by_org") : Has(d, "runs", d[<<"runs_by_org", e>>])}
        from(e) == {f \in entries : f[1] > e[1] \/ (f[1] = e[1] /\ f[2] >= e[2])}
    IN  {<<e[1], d[<<"runs_by_org", e>>]>> : e \in {f \in entries : Cardinality(from(f)) <= limit}}

-----------------------------------------------------------------------------
ThreadStep(t) ==
    \/ session(t) \/ flush(t) \/ commit(t)
    \/ \E o \in Objects : add(t, o)
    \/ WriteObj(t) \/ PersistSeq(t) \/ FlushDone(t) \/ Write(t) \/ Return(t) \/ rollback(t)

Next == Open \/ Bootstrap \/ Crash \/ \E t \in Threads : ThreadStep(t)

Spec == Init /\ [][Next]_vars

-----------------------------------------------------------------------------
(* Properties.                                                             *)

\* Counters, attributes and positions have their types; a thread that is past
\* the flush has nothing pending.
TypeOK ==
    /\ up \in {"down", "opened", "ready"}
    /\ seq \in 0..MaxSeq /\ sequence \in [Events -> 0..MaxSeq]
    /\ pc \in [Threads -> {"idle", "body", "flush", "persist", "write", "written"}]
    /\ then \in [Threads -> {"body", "write"}]
    /\ acked \subseteq Events /\ opens \in 0..MaxOpens /\ sessions \in 0..MaxSessions
    /\ \A t \in Threads : /\ added[t] \subseteq Objects
                          /\ pc[t] \in {"idle", "write", "written"} => pending[t] = <<>>

\* A database that is ready has its organisation, project and API key, also
\* when an earlier start died half-way.
ReadyIsComplete ==
    up = "ready" => Has(db, "orgs", "default") /\ Has(db, "projects", "default")
                      /\ Has(db, "api_keys", "bootstrap")

Stored(d, o) ==
    CASE o.kind = "event" -> \E n \in Numbers(d) : d[<<"events", n>>] = o
      [] o.kind = "run" -> Has(d, "runs", o.id)
      [] o.kind = "approval" -> Has(d, "approvals", o.id)
      [] OTHER -> FALSE

\* The objects of the backend's own classes.
Known(o) == o.kind \in {"event", "run", "approval"}

\* "buffers writes and commits atomically": whatever other threads write in
\* between, a session changes the database in one step, and that step stores
\* every object of the backend's classes that was added to it, also when there
\* are objects of other classes before it.
SessionsAtomic ==
    [][\A t \in Threads :
          /\ (pc[t] = "write" /\ pc'[t] = "written") => \A o \in added[t] : Known(o) => Stored(db', o)
          /\ (pc[t] # "write" /\ pc'[t] # pc[t]) => db' = db]_vars

\* An event with a key that is not another's key with ":hash" behind it.
Keyed(e) == e.key # NoKey /\ \A f \in Events : f.key # NoKey => e.key # HashKey(f.key)

\* What a session has returned is not lost by crashes and by what other threads
\* do, and an event is not stored twice by a caller that asks for its key
\* before it retries, whichever object it retries with.  (Not once the stored
\* counter has gone back, and not with a key that _write_event may replace by
\* the hash of another event.)
StoredOnce ==
    ~regressed =>
        /\ \A e \in acked : Stored(db, e)
        /\ \A m, n \in Numbers(db) :
              db[<<"events", m>>] = db[<<"events", n>>] /\ Keyed(db[<<"events", m>>]) => m = n

\* A number is given to one event: a stored event is never replaced.
NeverReplaced ==
    [][~regressed' => \A n \in Numbers(db) : Has(db', "events", n)
                                               /\ db'[<<"events", n>>] = db[<<"events", n>>]]_vars

\* The numbers of the events of a run, by a look at every event.
OfRun(d, r) == {n \in Numbers(d) : d[<<"events", n>>].run = r}

\* Every page of a run's events is the next ones after the cursor, whichever
\* sessions wrote them and in which order they were committed; a query of the
\* project whose limit is not reached returns all events of the types.
PagesComplete ==
    ~regressed =>
        /\ \A r \in RunIds, n \in Limits, c \in 0..MaxSeq :
              QueryRun(db, r, c, n) = FirstOf({m \in OfRun(db, r) : m > c}, n)
        /\ LET types == {e.type : e \in Events}
           IN  QueryProject(db, types, 0, MaxSeq) = Numbers(db)

\* Every run that was written is in the list of runs when the limit leaves room
\* for the whole index, also a run that was written again.  When every run has a
\* started_at, every list has each run once and the newest first, also for runs
\* that start in the same millisecond.  (A run without started_at has an entry
\* for each time it was written.)
RunsListed ==
    LET all == {r \in RunIds : Has(db, "runs", r)}
        newer(r) == {q \in all : Started[q] > Started[r] \/ (Started[q] = Started[r] /\ q >= r)}
    IN  /\ {e[2] : e \in QueryRuns(db, Cardinality(Keys(db, "runs_by_org")))} = all
        /\ (\A r \in all : Started[r] # NoTime) =>
              \A n \in Limits :
                 QueryRuns(db, n) = {<<Started[r], r>> : r \in {q \in all : Cardinality(newer(q)) <= n}}

\* "seq survives reopen": the counter of an open database is not behind the
\* events it holds.
SeqSurvivesReopen == up = "ready" => \A n \in Numbers(db) : n <= seq
=============================================================================
