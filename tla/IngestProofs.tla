---------------------------- MODULE IngestProofs ----------------------------
(***************************************************************************)
(* Proofs about the ingest service, for any number of replicas, runs,      *)
(* tenants, events and batches.                                            *)
(***************************************************************************)
EXTENDS IngestReads, Evidence, SubsequenceProofs, FiniteSetTheorems

-----------------------------------------------------------------------------
(* The inductive invariant.                                                *)

Steps == {"idle", "insertRun", "event", "insert", "finish"}

\* The fields of a request have their types.
FieldsOK(q) ==
    /\ q \in [pc : Steps, run : RunIds \cup {NoRun}, batch : Seq(Input), i : Nat, head : Hash,
              base : RunRow \cup {Expired}, row : RunRow \cup {Expired}, mine : {q.mine},
              accepted : Seq(EventIds)]
    /\ IsTable(q.mine, Nat, EventRow)

\* The run object of a request and what was read of it: both expired, or two
\* rows of one tenant.
SameRow(base, row) ==
    \/ base = Expired /\ row = Expired
    \/ base \in RunRow /\ row \in RunRow /\ row.tenant = base.tenant

\* A request is of a run that there is, with the columns it has read of it.
RequestOK(q, rs) ==
    /\ FieldsOK(q)
    /\ q.i <= Len(q.batch)
    /\ q.pc = "insert" => q.i < Len(q.batch)
    /\ q.pc = "insertRun" => q.run \in RunIds /\ q.row \in RunRow
    /\ q.pc \in {"event", "insert", "finish"} => q.run \in DOMAIN rs /\ SameRow(q.base, q.row)
    /\ q.pc = "finish" => q.row \in RunRow

\* The types of the tables and of the requests.
Typed ==
    /\ IsTable(runs, RunIds, RunRow)
    /\ IsTable(events, Nat, EventRow)
    /\ nextSeq \in Nat \ {0}
    /\ acked \subseteq EventIds
    /\ requests \in Nat /\ fails \in Nat
    /\ req = [c \in Replicas |-> req[c]]
    /\ \A c \in Replicas : RequestOK(req[c], runs)

\* The rows of two tables have different numbers and do not clash.
Apart(t, u) == \A s \in DOMAIN t, v \in DOMAIN u : s # v /\ ~Clash(t[s], u[v])

\* The rows of a table do not clash, and their numbers have been given out.
Sound(t) ==
    /\ \A s \in DOMAIN t : s < nextSeq
    /\ \A s, v \in DOMAIN t : Clash(t[s], t[v]) => s = v

\* The committed rows and the rows of the open transactions are all different.
RowsInv ==
    /\ Sound(events)
    /\ \A c \in Replicas : Sound(req[c].mine) /\ Apart(req[c].mine, events)
    /\ \A c, d \in Replicas : c # d => Apart(req[c].mine, req[d].mine)

IngestInv == Typed /\ RowsInv

-----------------------------------------------------------------------------
(* Rows and requests.                                                      *)

\* A put of a row keeps a table.
LEMMA PutTable ==
    ASSUME NEW K, NEW V, NEW t, IsTable(t, K, V), NEW k \in K, NEW v \in V
    PROVE  IsTable(Put(t, k, v), K, V)
  BY DEF IsTable, Put

\* An empty table holds rows of any type.
LEMMA EmptyTableOK ==
    /\ DOMAIN EmptyTable = {}
    /\ \A K, V : IsTable(EmptyTable, K, V)
  BY DEF IsTable, EmptyTable

\* No row of a run is expired.
LEMMA ExpiredIsNoRow == Expired \notin RunRow
  BY DEF Expired, RunRow

\* Updates of a run row, with the sets of its columns left open.
LEMMA StatusUpdate ==
    ASSUME NEW T, NEW S, NEW B, NEW H, NEW C,
           NEW row \in [tenant : T, status : S, ended : B, last : H, count : C],
           NEW st \in S, NEW en \in B
    PROVE  /\ [row EXCEPT !.status = st, !.ended = en]
                 \in [tenant : T, status : S, ended : B, last : H, count : C]
           /\ [row EXCEPT !.status = st, !.ended = en].tenant = row.tenant
  OBVIOUS

\* The same for the chain head and the number of events.
LEMMA HeadUpdate ==
    ASSUME NEW T, NEW S, NEW B, NEW H, NEW C,
           NEW row \in [tenant : T, status : S, ended : B, last : H, count : C],
           NEW h \in H, NEW n \in C
    PROVE  /\ [row EXCEPT !.last = h, !.count = n]
                 \in [tenant : T, status : S, ended : B, last : H, count : C]
           /\ [row EXCEPT !.last = h, !.count = n].tenant = row.tenant
           /\ [row EXCEPT !.last = h, !.count = n].last = h
  OBVIOUS

\* Run rows, with the sets of the columns left open.
RowOf(T, S, B, H, C) == [tenant : T, status : S, ended : B, last : H, count : C]

\* What an UPDATE stores is a row.
LEMMA UpdatedIsRow ==
    ASSUME NEW T, NEW S, NEW B, NEW H, NEW C,
           NEW old \in RowOf(T, S, B, H, C), NEW base, NEW row \in RowOf(T, S, B, H, C)
    PROVE  Updated(old, base, row) \in RowOf(T, S, B, H, C)
  BY DEF Updated, RowOf

\* What an UPDATE stores is a row, and a column the request left alone keeps
\* the committed value.
LEMMA UpdatedOK ==
    ASSUME NEW old \in RunRow, NEW base, NEW row \in RunRow
    PROVE  /\ Updated(old, base, row) \in RunRow
           /\ Updated(old, base, row).last \in {old.last, row.last}
           /\ row.tenant = base.tenant => Updated(old, base, row).tenant = old.tenant
  <1>1. RunRow = RowOf(Tenants, Statuses, BOOLEAN, Hash, Nat)
    BY DEF RunRow, RowOf
  <1>2. Updated(old, base, row) \in RunRow
    BY <1>1, UpdatedIsRow
  <1>3. "tenant" \in DOMAIN old /\ "last" \in DOMAIN old
    BY DEF RunRow
  <1>4. QED
    BY <1>2, <1>3 DEF Updated

\* The status and end a run has after an event keep its row a row.
LEMMA AfterEventOK ==
    ASSUME NEW row \in RunRow, NEW type \in EventTypes
    PROVE  AfterEvent(row, type) \in RunRow /\ AfterEvent(row, type).tenant = row.tenant
  <1>1. CASE type \notin DOMAIN StatusOf
    BY <1>1 DEF AfterEvent
  <1>2. CASE type \in DOMAIN StatusOf
    <2>1. PICK st \in Statuses, en \in BOOLEAN :
              AfterEvent(row, type) = [row EXCEPT !.status = st, !.ended = en]
      <3>1. StatusOf[type] \in Statuses
        BY <1>2 DEF Statuses
      <3>2. (row.ended \/ type \in {"committed", "rolled_back", "failed"}) \in BOOLEAN
        OBVIOUS
      <3>3. QED
        BY <1>2, <3>1, <3>2, Zenon DEF AfterEvent
    <2>2. row \in [tenant : Tenants, status : Statuses, ended : BOOLEAN, last : Hash, count : Nat]
      BY DEF RunRow
    <2>3. /\ [row EXCEPT !.status = st, !.ended = en] \in RunRow
          /\ [row EXCEPT !.status = st, !.ended = en].tenant = row.tenant
      BY <2>2, StatusUpdate, Zenon DEF RunRow
    <2>4. QED
      BY <2>1, <2>3
  <1>3. QED
    BY <1>1, <1>2

\* A replica without a request.
LEMMA NoRequestOK ==
    /\ FieldsOK(NoRequest) /\ NoRequest.pc = "idle" /\ NoRequest.mine = EmptyTable
    /\ NoRequest.accepted = <<>> /\ NoRequest.i = 0 /\ NoRequest.batch = <<>>
    /\ NoRequest.head = NoHash /\ NoRequest.base = Expired
  <1>1. <<>> \in Seq(Input) /\ NoHash \in Hash /\ <<>> \in Seq(EventIds)
    BY DEF NoHash, Hash
  <1>2. IsTable(EmptyTable, Nat, EventRow)
    BY EmptyTableOK
  <1>3. /\ NoRequest.pc = "idle" /\ NoRequest.mine = EmptyTable
        /\ NoRequest.accepted = <<>> /\ NoRequest.i = 0 /\ NoRequest.batch = <<>>
        /\ NoRequest.head = NoHash /\ NoRequest.base = Expired
    BY DEF NoRequest
  <1>4. NoRequest \in [pc : Steps, run : RunIds \cup {NoRun}, batch : Seq(Input), i : Nat, head : Hash,
              base : RunRow \cup {Expired}, row : RunRow \cup {Expired}, mine : {EmptyTable},
              accepted : Seq(EventIds)]
    BY <1>1 DEF NoRequest, Steps
  <1>5. QED
    BY <1>2, <1>3, <1>4 DEF FieldsOK

\* Replica c takes up request q, which goes on from what is committed.
TakesUp(c, q) ==
    /\ RequestOK(q, runs)
    /\ req' = [req EXCEPT ![c] = q]
    /\ q.mine = EmptyTable /\ q.accepted = <<>> /\ q.i = 0
    /\ q.pc \in {"insertRun", "event", "finish"}
    /\ q.pc = "insertRun" => q.row.last = NoHash /\ q.head = NoHash
    /\ q.pc # "insertRun" => /\ q.head = runs[q.run].last
                             /\ q.row.last = q.head /\ q.base.last = q.head
    /\ requests' \in Nat
    /\ UNCHANGED <<runs, events, nextSeq, acked, fails>>

\* The request of an append goes on from the row of the run.
LEMMA AppendRequestOK ==
    ASSUME Typed, NEW r \in DOMAIN runs, NEW b \in Seq(Input)
    PROVE  LET q == AppendRequest(r, b)
           IN  /\ RequestOK(q, runs) /\ q.pc = "event" /\ q.run = r /\ q.batch = b /\ q.i = 0
               /\ q.row = runs[r] /\ q.base = runs[r] /\ q.head = runs[r].last
               /\ q.mine = EmptyTable /\ q.accepted = <<>>
  <1> DEFINE q == AppendRequest(r, b)
  <1>1. r \in RunIds \cup {NoRun} /\ runs[r] \in RunRow /\ runs[r].last \in Hash /\ "event" \in Steps
    BY DEF Typed, IsTable, RunRow, Steps
  <1>2. /\ FieldsOK(q) /\ q.pc = "event" /\ q.row = runs[r] /\ q.head = runs[r].last /\ q.run = r
        /\ q.base = runs[r] /\ q.mine = EmptyTable /\ q.accepted = <<>> /\ q.i = 0 /\ q.batch = b
    BY <1>1, NoRequestOK DEF AppendRequest, FieldsOK
  <1>3. Len(b) \in Nat
    OBVIOUS
  <1> HIDE DEF q
  <1>4. RequestOK(q, runs)
    BY <1>1, <1>2, <1>3 DEF RequestOK, SameRow
  <1>5. QED
    BY <1>2, <1>4 DEF q

\* A request that a replica takes up is well formed.
LEMMA RequestStep ==
    ASSUME Typed, NEW c \in Replicas, Request(c)
    PROVE  \E q : TakesUp(c, q) /\ (q.pc = "event" => q.batch \in Batches)
  <1>0. PICK r \in RunIds, t \in Tenants :
            \/ start_run(c, r, t) \/ commit_run(c, r, t) \/ rollback_run(c, r, t)
            \/ \E b \in Batches : append_events(c, r, t, b)
    BY DEF Request
  <1>s. {"insertRun", "event", "finish"} \subseteq Steps /\ r \in RunIds \cup {NoRun}
    BY DEF Steps
  <1>1. ASSUME start_run(c, r, t) PROVE \E q : TakesUp(c, q) /\ (q.pc = "event" => q.batch \in Batches)
    <2> DEFINE q == [NoRequest EXCEPT !.pc = "insertRun", !.run = r, !.row = NewRun(t)]
    <2>1. NewRun(t) \in RunRow /\ NewRun(t).last = NoHash
      <3>1. "running" \in Statuses
        BY DEF Statuses, StatusOf
      <3>2. <<>> \in Hash
        BY DEF Hash
      <3>3. QED
        BY <3>1, <3>2 DEF NewRun, RunRow, NoHash
    <2>2. /\ FieldsOK(q) /\ q.pc = "insertRun" /\ q.row = NewRun(t) /\ q.run = r /\ q.batch = <<>>
          /\ q.mine = EmptyTable /\ q.accepted = <<>> /\ q.i = 0 /\ q.head = NoHash
      BY <1>s, <2>1, NoRequestOK DEF FieldsOK
    <2>3. start_run(c, r, t) => Serve(c, q)
      BY DEF start_run
    <2> HIDE DEF q
    <2>4. QED
      BY <1>1, <2>1, <2>2, <2>3 DEF Serve, TakesUp, RequestOK, Typed
  <1>2. ASSUME NEW st \in Statuses, EndRun(c, r, t, st) PROVE \E q : TakesUp(c, q) /\ (q.pc = "event" => q.batch \in Batches)
    <2> DEFINE row == [runs[r] EXCEPT !.status = st, !.ended = TRUE]
               q == [NoRequest EXCEPT !.pc = "finish", !.run = r, !.base = runs[r],
                                      !.head = runs[r].last, !.row = row]
    <2>1. r \in DOMAIN runs /\ runs[r] \in RunRow /\ runs[r].last \in Hash
      BY <1>2 DEF EndRun, Authorized, Typed, IsTable, RunRow
    <2>2. row \in RunRow /\ row.tenant = runs[r].tenant
      BY <2>1, TRUE \in BOOLEAN, StatusUpdate, Zenon DEF RunRow
    <2>3. row.last = runs[r].last
      BY <2>1 DEF RunRow
    <2>4. EndRun(c, r, t, st) => Serve(c, q)
      BY DEF EndRun
    <2> HIDE DEF row
    <2>5. /\ FieldsOK(q) /\ q.pc = "finish" /\ q.row = row /\ q.head = runs[r].last /\ q.run = r
          /\ q.base = runs[r] /\ q.mine = EmptyTable /\ q.accepted = <<>> /\ q.i = 0
          /\ q.batch = <<>>
      BY <1>s, <2>1, <2>2, NoRequestOK DEF FieldsOK
    <2> HIDE DEF q
    <2>6. QED
      BY <1>2, <2>1, <2>2, <2>3, <2>4, <2>5 DEF Serve, TakesUp, RequestOK, SameRow, Typed
  <1>3. ASSUME NEW b \in Batches, append_events(c, r, t, b) PROVE \E q : TakesUp(c, q) /\ (q.pc = "event" => q.batch \in Batches)
    <2> DEFINE q == AppendRequest(r, b)
    <2>1. r \in DOMAIN runs /\ b \in Seq(Input)
      BY <1>3, IngestBatches DEF append_events, Authorized
    <2>2. /\ RequestOK(q, runs) /\ q.pc = "event" /\ q.run = r /\ q.batch = b /\ q.i = 0
          /\ q.row = runs[r] /\ q.base = runs[r] /\ q.head = runs[r].last
          /\ q.mine = EmptyTable /\ q.accepted = <<>>
      BY <2>1, AppendRequestOK
    <2>3. Serve(c, q)
      BY <1>3 DEF append_events
    <2>4. requests' \in Nat
      BY <2>3 DEF Serve, Typed
    <2> HIDE DEF q
    <2>5. QED
      BY <2>2, <2>3, <2>4 DEF Serve, TakesUp
  <1>4. QED
    <2>1. "committed" \in Statuses /\ "rolled_back" \in Statuses
      BY DEF Statuses, StatusOf
    <2>2. QED
      BY <1>0, <1>1, <1>2, <1>3, <2>1 DEF commit_run, rollback_run

\* A request that is done with event e.
LEMMA AcceptOK ==
    ASSUME NEW q, NEW rs, RequestOK(q, rs), q.pc \in {"event", "insert"}, q.i < Len(q.batch),
           NEW e \in EventRow
    PROVE  /\ RequestOK(Accept(q, e), rs)
           /\ Accept(q, e).pc = "event" /\ Accept(q, e).i = q.i + 1 /\ Accept(q, e).head = e.hash
           /\ Accept(q, e).accepted = Append(q.accepted, e.id)
           /\ Accept(q, e).run = q.run /\ Accept(q, e).batch = q.batch /\ Accept(q, e).base = q.base
           /\ Accept(q, e).row = q.row /\ Accept(q, e).mine = q.mine
  <1> DEFINE a == Append(q.accepted, e.id)
  <1>1. /\ "event" \in Steps /\ q.i + 1 \in Nat /\ e.hash \in Hash /\ a \in Seq(EventIds)
        /\ FieldsOK(q) /\ Len(q.batch) \in Nat /\ q.i \in Nat
    BY DEF Steps, EventRow, RequestOK, FieldsOK
  <1> HIDE DEF a
  <1> DEFINE n == Accept(q, e)
  <1>2. /\ FieldsOK(n) /\ n.pc = "event" /\ n.i = q.i + 1 /\ n.head = e.hash /\ n.accepted = a
        /\ n.run = q.run /\ n.batch = q.batch /\ n.base = q.base /\ n.row = q.row /\ n.mine = q.mine
    BY <1>1 DEF Accept, a, FieldsOK
  <1> HIDE DEF n
  <1>3. RequestOK(n, rs)
    BY <1>1, <1>2 DEF RequestOK
  <1>4. QED
    BY <1>2, <1>3 DEF n, a

\* A request whose run object is loaded.
LEMMA LoadedOK ==
    ASSUME Typed, NEW q, RequestOK(q, runs), q.pc \in {"event", "insert"}
    PROVE  /\ RequestOK(Loaded(q), runs) /\ Loaded(q).row \in RunRow
           /\ Loaded(q).pc = q.pc /\ Loaded(q).i = q.i /\ Loaded(q).head = q.head
           /\ Loaded(q).accepted = q.accepted /\ Loaded(q).run = q.run
           /\ Loaded(q).batch = q.batch /\ Loaded(q).mine = q.mine
           /\ Loaded(q).base \in RunRow /\ Loaded(q).row.tenant = Loaded(q).base.tenant
           /\ \/ Loaded(q).row = q.row /\ Loaded(q).base = q.base
              \/ Loaded(q).row = runs[q.run] /\ Loaded(q).base = runs[q.run]
  <1>1. CASE q.row # Expired
    BY <1>1 DEF Loaded, RequestOK, SameRow
  <1>2. CASE q.row = Expired
    <2> DEFINE n == Loaded(q)
    <2>1. FieldsOK(q) /\ q.run \in DOMAIN runs /\ runs[q.run] \in RunRow
      BY DEF RequestOK, Typed, IsTable
    <2>2. /\ FieldsOK(n) /\ n.row = runs[q.run] /\ n.base = runs[q.run]
          /\ n.pc = q.pc /\ n.i = q.i /\ n.head = q.head /\ n.accepted = q.accepted /\ n.run = q.run
          /\ n.batch = q.batch /\ n.mine = q.mine
      BY <1>2, <2>1 DEF Loaded, FieldsOK
    <2> HIDE DEF n
    <2>3. RequestOK(n, runs)
      BY <2>1, <2>2 DEF RequestOK, SameRow
    <2>4. QED
      BY <2>1, <2>2, <2>3 DEF n
  <1>3. QED
    BY <1>1, <1>2

\* The next event of a request is one of its batch.
LEMMA EvOK ==
    ASSUME NEW q, NEW rs, RequestOK(q, rs), q.i < Len(q.batch)
    PROVE  Ev(q) \in Input
  BY DEF RequestOK, FieldsOK, Ev

\* The row of a new event carries what the caller sent, is chained to the head
\* of the request and hashed over its own content.
LEMMA NewEventOK ==
    ASSUME NEW q, NEW rs, RequestOK(q, rs), q.i < Len(q.batch), q.run \in RunIds
    PROVE  /\ NewEvent(q) \in EventRow
           /\ NewEvent(q).run = q.run /\ NewEvent(q).id = Ev(q).id /\ NewEvent(q).key = Ev(q).key
           /\ NewEvent(q).type = Ev(q).type /\ NewEvent(q).prev = q.head
           /\ NewEvent(q).hash = EventHash(NewEvent(q))
  <1> DEFINE row(h) == [run |-> q.run, id |-> Ev(q).id, key |-> Ev(q).key, type |-> Ev(q).type,
                        prev |-> q.head, hash |-> h]
             content == [run |-> q.run, id |-> Ev(q).id, key |-> Ev(q).key, type |-> Ev(q).type]
             h0 == Append(q.head, content)
  <1>1. /\ Ev(q).id \in EventIds /\ Ev(q).key \in Keys \cup {NoKey} /\ Ev(q).type \in EventTypes
        /\ q.head \in Hash
    BY EvOK DEF Input, RequestOK, FieldsOK
  <1>2. content \in [run : RunIds, id : EventIds, key : Keys \cup {NoKey}, type : EventTypes]
    BY <1>1
  <1>3. \A h : Content(row(h)) = content
    BY DEF Content
  <1> HIDE DEF content
  <1>4. h0 \in Hash
    BY <1>1, <1>2 DEF Hash
  <1>5. \A h : EventHash(row(h)) = h0
    BY <1>3 DEF EventHash
  <1> HIDE DEF h0
  <1>6. NewEvent(q) = [row(NoHash) EXCEPT !.hash = h0]
    BY <1>5 DEF NewEvent
  <1>7. [row(NoHash) EXCEPT !.hash = h0] = row(h0)
    OBVIOUS
  <1>8. row(h0) \in EventRow
    BY <1>1, <1>4 DEF EventRow
  <1>9. QED
    BY <1>5, <1>6, <1>7, <1>8

\* What a request sees is a table of events.
LEMMA SeenOK ==
    ASSUME Typed, NEW q, NEW rs, RequestOK(q, rs)
    PROVE  /\ IsTable(Seen(q), Nat, EventRow)
           /\ DOMAIN Seen(q) = DOMAIN events \cup DOMAIN q.mine
           /\ \A s \in DOMAIN q.mine : Seen(q)[s] = q.mine[s]
           /\ \A s \in DOMAIN events \ DOMAIN q.mine : Seen(q)[s] = events[s]
  BY DEF Typed, RequestOK, FieldsOK, Seen, IsTable

\* The check by key: nothing found, or done with the event that was.
LEMMA CheckKeyStep ==
    ASSUME Typed, NEW c \in Replicas, CheckKey(c)
    PROVE  LET q == req[c]
           IN  /\ q.pc = "event" /\ q.i < Len(q.batch)
               /\ UNCHANGED <<runs, events, nextSeq, acked, requests, fails>>
               /\ \E n : /\ req' = [req EXCEPT ![c] = n] /\ RequestOK(n, runs)
                         /\ n.mine = q.mine /\ n.run = q.run /\ n.batch = q.batch
                         /\ n.row = q.row /\ n.base = q.base
                         /\ \/ /\ n.pc = "insert" /\ n.i = q.i /\ n.head = q.head
                               /\ n.accepted = q.accepted
                            \/ \E s \in WithKey(Seen(q), Ev(q).key) :
                                  /\ n.pc = "event" /\ n.i = q.i + 1 /\ n.head = Seen(q)[s].hash
                                  /\ n.accepted = Append(q.accepted, Seen(q)[s].id)
  <1> DEFINE q == req[c]
             found == WithKey(Seen(q), Ev(q).key)
  <1>1. /\ q.pc = "event" /\ q.i < Len(q.batch) /\ RequestOK(q, runs)
        /\ UNCHANGED <<runs, events, nextSeq, acked, requests, fails>>
        /\ req' = [req EXCEPT ![c] = IF found = {} THEN [q EXCEPT !.pc = "insert"]
                                     ELSE Accept(q, Seen(q)[CHOOSE s \in found : TRUE])]
    BY DEF CheckKey, Typed
  <1> HIDE DEF q, found
  <1>2. CASE found = {}
    <2> DEFINE n == [q EXCEPT !.pc = "insert"]
    <2>1. /\ RequestOK(n, runs) /\ n.mine = q.mine /\ n.run = q.run /\ n.batch = q.batch
          /\ n.row = q.row /\ n.base = q.base /\ n.pc = "insert" /\ n.i = q.i /\ n.head = q.head
          /\ n.accepted = q.accepted
      BY <1>1 DEF RequestOK, FieldsOK, Steps
    <2>2. req' = [req EXCEPT ![c] = n]
      BY <1>1, <1>2
    <2> HIDE DEF n
    <2>3. QED
      BY <1>1, <2>1, <2>2 DEF q
  <1>3. CASE found # {}
    <2>1. PICK s \in found : req' = [req EXCEPT ![c] = Accept(q, Seen(q)[s])]
      BY <1>1, <1>3
    <2>2. s \in WithKey(Seen(q), Ev(q).key)
      BY <2>1 DEF found
    <2>3. Seen(q)[s] \in EventRow
      BY <1>1, <2>2, SeenOK DEF WithKey, IsTable
    <2> DEFINE n == Accept(q, Seen(q)[s])
    <2>4. /\ RequestOK(n, runs) /\ n.mine = q.mine /\ n.run = q.run /\ n.batch = q.batch
          /\ n.row = q.row /\ n.base = q.base /\ n.pc = "event" /\ n.i = q.i + 1
          /\ n.head = Seen(q)[s].hash /\ n.accepted = Append(q.accepted, Seen(q)[s].id)
      BY <1>1, <2>3, AcceptOK
    <2> HIDE DEF n
    <2>5. req' = [req EXCEPT ![c] = n]
      BY <2>1 DEF n
    <2>6. QED
      BY <1>1, <2>2, <2>4, <2>5 DEF q
  <1>4. QED
    BY <1>2, <1>3

\* Replica c goes on with request n, which has inserted event e.
Inserts(c, n, e) ==
    LET q == req[c]
    IN  /\ req' = [req EXCEPT ![c] = n] /\ RequestOK(n, runs)
        /\ e \in EventRow /\ n.mine = Put(q.mine, nextSeq, e)
        /\ e.id = Ev(q).id /\ e.key = Ev(q).key /\ e.run = q.run /\ e.prev = q.head
        /\ e.hash = EventHash(e)
        /\ n.run = q.run /\ n.batch = q.batch
        /\ n.pc = "event" /\ n.i = q.i + 1 /\ n.head = e.hash
        /\ n.accepted = Append(q.accepted, e.id)

\* The INSERT adds one row, numbered nextSeq, to the transaction.
LEMMA InsertStep ==
    ASSUME Typed, NEW c \in Replicas, Insert(c)
    PROVE  LET q == req[c]
           IN  /\ q.pc = "insert" /\ q.i < Len(q.batch)
               /\ nextSeq' = nextSeq + 1 /\ UNCHANGED <<runs, events, acked, requests, fails>>
               /\ \A d \in Replicas \ {c} : Clashes(req[d].mine, Ev(q)) = {}
               /\ Clashes(Seen(q), Ev(q)) = {}
               /\ \E n, e : Inserts(c, n, e)
  <1> DEFINE q == req[c]
             l == Loaded(q)
             e == NewEvent(l)
             a == Accept(l, e)
             m == Put(q.mine, nextSeq, e)
             w == AfterEvent(l.row, e.type)
             n == [a EXCEPT !.mine = m, !.row = w]
  <1>1. q.pc = "insert" /\ RequestOK(q, runs) /\ q.i < Len(q.batch) /\ nextSeq \in Nat
    BY DEF Insert, Typed, RequestOK
  <1>2. /\ RequestOK(l, runs) /\ l.row \in RunRow /\ l.pc = q.pc /\ l.i = q.i /\ l.head = q.head
        /\ l.accepted = q.accepted /\ l.run = q.run /\ l.batch = q.batch /\ l.mine = q.mine
        /\ l.base \in RunRow /\ l.row.tenant = l.base.tenant
    BY <1>1, LoadedOK
  <1>3. Ev(l) = Ev(q) /\ Seen(l) = Seen(q)
    BY <1>2 DEF Ev, Seen
  <1>4. /\ nextSeq' = nextSeq + 1 /\ UNCHANGED <<runs, events, acked, requests, fails>>
        /\ \A d \in Replicas \ {c} : Clashes(req[d].mine, Ev(l)) = {}
        /\ Clashes(Seen(l), Ev(l)) = {}
        /\ req' = [req EXCEPT ![c] = [a EXCEPT !.mine = Put(l.mine, nextSeq, e), !.row = w]]
    BY DEF Insert
  <1> HIDE DEF q, l
  <1>5. req' = [req EXCEPT ![c] = n]
    BY <1>2, <1>4
  <1>6. l.run \in RunIds
    BY <1>1, <1>2 DEF RequestOK, Typed, IsTable
  <1>7. /\ e \in EventRow /\ e.run = q.run /\ e.id = Ev(q).id /\ e.key = Ev(q).key
        /\ e.prev = q.head /\ e.type \in EventTypes /\ e.hash = EventHash(e)
    <2>1. /\ e \in EventRow /\ e.run = l.run /\ e.id = Ev(l).id /\ e.key = Ev(l).key
          /\ e.prev = l.head /\ e.hash = EventHash(e)
      BY <1>1, <1>2, <1>6, NewEventOK
    <2>2. QED
      BY <1>2, <1>3, <2>1 DEF EventRow
  <1> HIDE DEF e
  <1>8. w \in RunRow /\ w.tenant = l.row.tenant
    BY <1>2, <1>7, AfterEventOK
  <1>9. /\ RequestOK(a, runs) /\ a.pc = "event" /\ a.i = q.i + 1 /\ a.head = e.hash
        /\ a.accepted = Append(q.accepted, e.id) /\ a.run = q.run /\ a.batch = q.batch
        /\ a.base = l.base /\ a.row = l.row /\ a.mine = q.mine
    BY <1>1, <1>2, <1>7, AcceptOK
  <1> HIDE DEF a, w
  <1>10. IsTable(m, Nat, EventRow)
    BY <1>1, <1>7, PutTable DEF RequestOK, FieldsOK
  <1> HIDE DEF m
  <1>11. FieldsOK(a)
    BY <1>9 DEF RequestOK
  <1>12. /\ FieldsOK(n) /\ n.mine = m /\ n.row = w /\ n.pc = a.pc /\ n.i = a.i /\ n.head = a.head
         /\ n.accepted = a.accepted /\ n.run = a.run /\ n.batch = a.batch /\ n.base = a.base
    BY <1>8, <1>10, <1>11 DEF FieldsOK
  <1> HIDE DEF n
  <1>13. RequestOK(n, runs)
    BY <1>2, <1>8, <1>9, <1>12 DEF RequestOK, SameRow
  <1>14. QED
    <2>1. /\ n.mine = Put(q.mine, nextSeq, e) /\ n.run = q.run /\ n.batch = q.batch
          /\ n.pc = "event" /\ n.i = q.i + 1 /\ n.head = e.hash
          /\ n.accepted = Append(q.accepted, e.id)
      BY <1>9, <1>12 DEF m
    <2>2. /\ \A d \in Replicas \ {c} : Clashes(req[d].mine, Ev(q)) = {}
          /\ Clashes(Seen(q), Ev(q)) = {}
      BY <1>3, <1>4
    <2>3. Inserts(c, n, e)
      BY <1>5, <1>7, <1>13, <2>1 DEF q, Inserts
    <2>4. QED
      BY <1>1, <1>4, <2>2, <2>3 DEF q

\* A clash rolls the transaction back: the request is done with the stored
\* event, or fails.
LEMMA ClashStep ==
    ASSUME Typed, NEW c \in Replicas, InsertClash(c)
    PROVE  LET q == req[c]
           IN  /\ q.pc = "insert" /\ q.i < Len(q.batch) /\ Clashes(Seen(q), Ev(q)) # {}
               /\ UNCHANGED <<runs, events, nextSeq, acked, requests, fails>>
               /\ \/ Abort(c)
                  \/ \E n : /\ req' = [req EXCEPT ![c] = n] /\ RequestOK(n, runs)
                            /\ n.mine = EmptyTable /\ n.run = q.run /\ n.batch = q.batch
                            /\ n.row = Expired /\ n.base = Expired
                            /\ \E s \in WithId(events, Ev(q).id) :
                                  /\ n.pc = "event" /\ n.i = q.i + 1 /\ n.head = events[s].hash
                                  /\ n.accepted = Append(q.accepted, events[s].id)
  <1> DEFINE q == req[c]
             found == WithId(events, Ev(q).id)
             l == [q EXCEPT !.mine = EmptyTable, !.row = Expired, !.base = Expired]
  <1>1. /\ q.pc = "insert" /\ RequestOK(q, runs) /\ q.i < Len(q.batch)
        /\ Clashes(Seen(q), Ev(q)) # {}
        /\ UNCHANGED <<runs, events, nextSeq, acked, requests, fails>>
        /\ IF found # {}
           THEN req' = [req EXCEPT ![c] = Accept(l, events[CHOOSE s \in found : TRUE])]
           ELSE Abort(c)
    BY DEF InsertClash, Typed, RequestOK
  <1> HIDE DEF q, found
  <1>2. CASE found = {}
    BY <1>1, <1>2 DEF q
  <1>3. CASE found # {}
    <2>1. PICK s \in found : req' = [req EXCEPT ![c] = Accept(l, events[s])]
      BY <1>1, <1>3
    <2>2. s \in WithId(events, Ev(q).id) /\ events[s] \in EventRow
      BY <2>1 DEF found, WithId, Typed, IsTable
    <2>3. FieldsOK(q) /\ IsTable(EmptyTable, Nat, EventRow)
      BY <1>1, EmptyTableOK DEF RequestOK
    <2>4. /\ FieldsOK(l) /\ l.mine = EmptyTable /\ l.row = Expired /\ l.base = Expired /\ l.pc = q.pc
          /\ l.i = q.i /\ l.head = q.head /\ l.accepted = q.accepted /\ l.run = q.run
          /\ l.batch = q.batch
      BY <2>3 DEF FieldsOK
    <2> HIDE DEF l
    <2>5. RequestOK(l, runs)
      BY <1>1, <2>4 DEF RequestOK, SameRow
    <2> DEFINE n == Accept(l, events[s])
    <2>6. /\ RequestOK(n, runs) /\ n.mine = EmptyTable /\ n.run = q.run /\ n.batch = q.batch
          /\ n.row = Expired /\ n.base = Expired /\ n.pc = "event" /\ n.i = q.i + 1
          /\ n.head = events[s].hash /\ n.accepted = Append(q.accepted, events[s].id)
      BY <1>1, <2>2, <2>4, <2>5, AcceptOK
    <2> HIDE DEF n
    <2>7. req' = [req EXCEPT ![c] = n]
      BY <2>1 DEF n
    <2>8. QED
      BY <1>1, <2>2, <2>6, <2>7 DEF q
  <1>4. QED
    BY <1>2, <1>3

\* A commit stores the rows of the transaction and the columns of the run that
\* the request has changed.
LEMMA CommitStep ==
    ASSUME Typed, NEW c \in Replicas, Commit(c)
    PROVE  LET q == req[c]
           IN  /\ (q.pc = "event" /\ q.i = Len(q.batch)) \/ q.pc = "finish"
               /\ q.run \in DOMAIN runs /\ q.run \in RunIds
               /\ events' = Seen(q)
               /\ acked' = acked \cup {q.accepted[i] : i \in 1..Len(q.accepted)}
               /\ Abort(c) /\ UNCHANGED <<nextSeq, requests, fails>>
               /\ \E row \in RunRow :
                     /\ runs' = Put(runs, q.run, row) /\ row.tenant = runs[q.run].tenant
                     /\ row.last \in {runs[q.run].last, q.head, q.row.last}
                     /\ q.pc = "event" => row.last \in {runs[q.run].last, q.head}
  <1> DEFINE q == req[c]
             l == Loaded(q)
             f == IF q.pc = "event" THEN EndOfAppend(l) ELSE q
             old == runs[q.run]
             row == Updated(old, f.base, f.row)
  <1>1. /\ RequestOK(q, runs) /\ ((q.pc = "event" /\ q.i = Len(q.batch)) \/ q.pc = "finish")
        /\ q.run \in DOMAIN runs /\ q.run \in RunIds /\ old \in RunRow
    BY DEF Commit, Typed, RequestOK, IsTable
  <1>2. /\ events' = Seen(f) /\ runs' = Put(runs, f.run, Updated(runs[f.run], f.base, f.row))
        /\ acked' = acked \cup {f.accepted[i] : i \in 1..Len(f.accepted)}
        /\ Abort(c) /\ UNCHANGED <<nextSeq, requests, fails>>
    BY DEF Commit, Abort
  <1> HIDE DEF q
  <1>3. /\ f.mine = q.mine /\ f.run = q.run /\ f.accepted = q.accepted
        /\ f.row \in RunRow /\ f.base \in RunRow /\ f.row.tenant = f.base.tenant
        /\ f.row.last \in {q.head, q.row.last}
        /\ q.pc = "event" => f.row.last = q.head
    <2>1. CASE q.pc = "event"
      <3>1. /\ RequestOK(l, runs) /\ l.row \in RunRow /\ l.head = q.head
            /\ l.accepted = q.accepted /\ l.run = q.run /\ l.mine = q.mine
            /\ l.base \in RunRow /\ l.row.tenant = l.base.tenant
        BY <1>1, <2>1, LoadedOK
      <3> HIDE DEF l
      <3> DEFINE w == [l.row EXCEPT !.last = l.head, !.count = l.row.count + Len(l.accepted)]
      <3>2. FieldsOK(l) /\ l.head \in Hash /\ l.row.count + Len(l.accepted) \in Nat
        BY <3>1 DEF RequestOK, FieldsOK, RunRow
      <3>3. w \in RunRow /\ w.tenant = l.row.tenant /\ w.last = l.head
        BY <3>1, <3>2, HeadUpdate, Zenon DEF RunRow
      <3>4. f = [l EXCEPT !.pc = "finish", !.row = w]
        BY <2>1 DEF EndOfAppend
      <3> HIDE DEF w, f
      <3>5. f.mine = l.mine /\ f.run = l.run /\ f.accepted = l.accepted /\ f.row = w /\ f.base = l.base
        BY <3>2, <3>4 DEF FieldsOK
      <3>6. QED
        BY <2>1, <3>1, <3>3, <3>5
    <2>2. CASE q.pc = "finish"
      BY <1>1, <2>2, ExpiredIsNoRow DEF RequestOK, SameRow
    <2>3. QED
      BY <1>1, <2>1, <2>2
  <1> HIDE DEF f
  <1>4. row \in RunRow /\ row.tenant = old.tenant
    BY <1>1, <1>3, UpdatedOK
  <1>5. row.last \in {old.last, f.row.last}
    BY <1>1, <1>3, UpdatedOK
  <1>6. Seen(f) = Seen(q)
    BY <1>3 DEF Seen
  <1> HIDE DEF row
  <1>7. runs' = Put(runs, q.run, row)
    BY <1>2, <1>3 DEF row
  <1>8. QED
    BY <1>1, <1>2, <1>3, <1>4, <1>5, <1>6, <1>7 DEF q

-----------------------------------------------------------------------------
(* Every step keeps the types.                                             *)

\* The other replicas go on with what they had.
LEMMA OneRequest ==
    ASSUME Typed, NEW c \in Replicas, NEW n, req' = [req EXCEPT ![c] = n]
    PROVE  /\ req' = [d \in Replicas |-> req'[d]] /\ req'[c] = n
           /\ \A d \in Replicas \ {c} : req'[d] = req[d]
  BY DEF Typed

\* A request stays well formed while runs are added.
LEMMA RequestsStay ==
    ASSUME Typed, NEW c \in Replicas, NEW n, req' = [req EXCEPT ![c] = n], RequestOK(n, runs'),
           DOMAIN runs \subseteq DOMAIN runs'
    PROVE  /\ req' = [d \in Replicas |-> req'[d]]
           /\ \A d \in Replicas : RequestOK(req'[d], runs')
  <1>1. ASSUME NEW d \in Replicas, d # c PROVE RequestOK(req'[d], runs')
    <2>1. req'[d] = req[d] /\ RequestOK(req[d], runs)
      BY <1>1, OneRequest DEF Typed
    <2>2. QED
      BY <2>1 DEF RequestOK
  <1>2. QED
    BY <1>1, OneRequest

\* A replica without a request has nothing that could be wrong.
LEMMA IdleOK == \A rs : RequestOK(NoRequest, rs)
  BY NoRequestOK DEF RequestOK

\* An INSERT of a run adds a row, or is refused.
LEMMA InsertRunStep ==
    ASSUME Typed, NEW c \in Replicas, InsertRun(c)
    PROVE  /\ Abort(c) /\ UNCHANGED <<events, nextSeq, acked, requests, fails>>
           /\ req[c].pc = "insertRun" /\ req[c].run \in RunIds /\ req[c].row \in RunRow
           /\ runs' = IF req[c].run \in DOMAIN runs THEN runs ELSE Put(runs, req[c].run, req[c].row)
           /\ IsTable(runs', RunIds, RunRow) /\ DOMAIN runs \subseteq DOMAIN runs'
           /\ \A r \in DOMAIN runs : runs'[r] = runs[r]
  <1>1. /\ Abort(c) /\ UNCHANGED <<events, nextSeq, acked, requests, fails>>
        /\ req[c].pc = "insertRun" /\ req[c].run \in RunIds /\ req[c].row \in RunRow
        /\ runs' = IF req[c].run \in DOMAIN runs THEN runs ELSE Put(runs, req[c].run, req[c].row)
    BY DEF InsertRun, Abort, Typed, RequestOK
  <1>2. IsTable(runs', RunIds, RunRow)
    BY <1>1, PutTable DEF Typed
  <1>3. QED
    BY <1>1, <1>2 DEF Put

\* A rejected type or a failed statement ends the request.
LEMMA EndsStep ==
    ASSUME Typed, NEW c \in Replicas, RejectType(c) \/ StatementFails(c)
    PROVE  Abort(c) /\ UNCHANGED <<runs, events, nextSeq, acked, requests>> /\ fails' \in Nat
  BY DEF Typed, RejectType, StatementFails

\* What replicas do, whoever asks: a request is taken up, or a statement is run.
Moves ==
    \/ \E c \in Replicas : Statement(c) \/ \E q : TakesUp(c, q)
    \/ UNCHANGED vars

LEMMA NextMoves == Typed /\ [Next]_vars => Moves
  BY RequestStep DEF Next, Moves

\* Every step keeps the types.
LEMMA MovesTyped == Typed /\ Moves => Typed'
  <1> SUFFICES ASSUME Typed, Moves PROVE Typed'
    OBVIOUS
  <1>0. CASE UNCHANGED vars
    BY <1>0 DEF vars, Typed, RequestOK
  <1>1. ASSUME NEW c \in Replicas, NEW q, TakesUp(c, q) PROVE Typed'
    <2>1. TakesUp(c, q)
      BY <1>1
    <2>2. /\ req' = [d \in Replicas |-> req'[d]] /\ \A d \in Replicas : RequestOK(req'[d], runs')
      BY <2>1, RequestsStay DEF TakesUp
    <2>3. QED
      BY <2>1, <2>2 DEF TakesUp, Typed
  <1>2. ASSUME NEW c \in Replicas, InsertRun(c) PROVE Typed'
    <2>1. /\ req' = [d \in Replicas |-> req'[d]] /\ \A d \in Replicas : RequestOK(req'[d], runs')
      BY <1>2, InsertRunStep, IdleOK, RequestsStay DEF Abort
    <2>2. QED
      BY <1>2, <2>1, InsertRunStep DEF Typed
  <1>3. ASSUME NEW c \in Replicas, RejectType(c) \/ StatementFails(c) PROVE Typed'
    <2>1. /\ req' = [d \in Replicas |-> req'[d]] /\ \A d \in Replicas : RequestOK(req'[d], runs')
      BY <1>3, EndsStep, IdleOK, RequestsStay DEF Abort
    <2>2. QED
      BY <1>3, <2>1, EndsStep DEF Typed
  <1>4. ASSUME NEW c \in Replicas, CheckKey(c) PROVE Typed'
    <2>1. /\ \E n : req' = [req EXCEPT ![c] = n] /\ RequestOK(n, runs)
          /\ UNCHANGED <<runs, events, nextSeq, acked, requests, fails>>
      BY <1>4, CheckKeyStep
    <2>2. /\ req' = [d \in Replicas |-> req'[d]] /\ \A d \in Replicas : RequestOK(req'[d], runs')
      BY <2>1, RequestsStay
    <2>3. QED
      BY <2>1, <2>2 DEF Typed
  <1>5. ASSUME NEW c \in Replicas, Insert(c) PROVE Typed'
    <2>1. /\ \E n, e : Inserts(c, n, e)
          /\ nextSeq' = nextSeq + 1 /\ UNCHANGED <<runs, events, acked, requests, fails>>
      BY <1>5, InsertStep
    <2>2. /\ req' = [d \in Replicas |-> req'[d]] /\ \A d \in Replicas : RequestOK(req'[d], runs')
      BY <2>1, RequestsStay DEF Inserts
    <2>3. QED
      BY <2>1, <2>2 DEF Typed
  <1>6. ASSUME NEW c \in Replicas, InsertClash(c) PROVE Typed'
    <2>1. /\ \E n : req' = [req EXCEPT ![c] = n] /\ RequestOK(n, runs)
          /\ UNCHANGED <<runs, events, nextSeq, acked, requests, fails>>
      BY <1>6, ClashStep, IdleOK DEF Abort
    <2>2. /\ req' = [d \in Replicas |-> req'[d]] /\ \A d \in Replicas : RequestOK(req'[d], runs')
      BY <2>1, RequestsStay
    <2>3. QED
      BY <2>1, <2>2 DEF Typed
  <1>7. ASSUME NEW c \in Replicas, Commit(c) PROVE Typed'
    <2>1. RequestOK(req[c], runs)
      BY DEF Typed
    <2>2. PICK row \in RunRow : runs' = Put(runs, req[c].run, row)
      BY <1>7, CommitStep
    <2>3. /\ req[c].run \in DOMAIN runs /\ req[c].run \in RunIds /\ events' = Seen(req[c])
          /\ acked' = acked \cup {req[c].accepted[i] : i \in 1..Len(req[c].accepted)}
          /\ Abort(c) /\ UNCHANGED <<nextSeq, requests, fails>>
      BY <1>7, CommitStep
    <2>4. IsTable(runs', RunIds, RunRow) /\ DOMAIN runs \subseteq DOMAIN runs'
      <3>1. IsTable(runs', RunIds, RunRow)
        BY <2>2, <2>3, PutTable DEF Typed
      <3>2. QED
        BY <2>2, <3>1 DEF Put
    <2>5. IsTable(events', Nat, EventRow)
      BY <2>1, <2>3, SeenOK
    <2>6. req[c].accepted \in Seq(EventIds)
      BY <2>1 DEF RequestOK, FieldsOK
    <2>7. acked' \subseteq EventIds
      BY <2>3, <2>6 DEF Typed
    <2>8. /\ req' = [d \in Replicas |-> req'[d]] /\ \A d \in Replicas : RequestOK(req'[d], runs')
      BY <2>3, <2>4, IdleOK, RequestsStay DEF Abort
    <2>9. QED
      BY <2>3, <2>4, <2>5, <2>7, <2>8 DEF Typed
  <1>8. QED
    BY <1>0, <1>1, <1>2, <1>3, <1>4, <1>5, <1>6, <1>7 DEF Moves, Statement

-----------------------------------------------------------------------------
(* Every step keeps the rows apart.                                        *)

\* Nothing in the table collides with a row that has the id and the key of ev.
LEMMA NoClashes ==
    ASSUME NEW t, NEW ev, Clashes(t, ev) = {}, NEW e, e.id = ev.id, e.key = ev.key
    PROVE  \A s \in DOMAIN t : ~Clash(t[s], e) /\ ~Clash(e, t[s])
  BY DEF Clashes, WithKey, WithId, Clash

\* An empty table is apart from every other.
LEMMA EmptyApart == Sound(EmptyTable) /\ \A t : Apart(EmptyTable, t) /\ Apart(t, EmptyTable)
  BY EmptyTableOK DEF Sound, Apart

\* Two tables that are apart are so in both orders.
LEMMA ApartSym == ASSUME NEW t, NEW u, Apart(t, u) PROVE Apart(u, t)
  BY DEF Apart, Clash

\* A put of a row that collides with nothing in the other table.
LEMMA PutApart ==
    ASSUME NEW t, NEW u, Apart(t, u), NEW n, NEW e, n \notin DOMAIN u,
           \A s \in DOMAIN u : ~Clash(e, u[s])
    PROVE  Apart(Put(t, n, e), u)
  BY DEF Apart, Put

\* The rows stay apart when one request loses its transaction or leaves it as
\* it is.
LEMMA RowsUntouched ==
    ASSUME Typed, RowsInv, NEW c \in Replicas, NEW n, req' = [req EXCEPT ![c] = n],
           n.mine = EmptyTable \/ n.mine = req[c].mine, events' = events, nextSeq' = nextSeq
    PROVE  RowsInv'
  <1>1. \A d \in Replicas : req'[d].mine = req[d].mine \/ req'[d].mine = EmptyTable
    BY OneRequest
  <1>2. Sound(events)' /\ \A t : Sound(t)' <=> Sound(t)
    BY DEF RowsInv, Sound
  <1>3. ASSUME NEW d \in Replicas PROVE Sound(req'[d].mine) /\ Apart(req'[d].mine, events)
    BY <1>1, EmptyApart DEF RowsInv
  <1>4. ASSUME NEW d \in Replicas, NEW f \in Replicas, d # f PROVE Apart(req'[d].mine, req'[f].mine)
    BY <1>1, <1>4, EmptyApart DEF RowsInv
  <1>5. \A d \in Replicas : Sound(req[d].mine)'
    BY <1>3 DEF Sound
  <1>6. QED
    BY <1>2, <1>3, <1>4, <1>5 DEF RowsInv

\* The rows stay apart when a row is inserted.
LEMMA InsertRows ==
    ASSUME Typed, RowsInv, NEW c \in Replicas, Insert(c)
    PROVE  RowsInv'
  <1> DEFINE q == req[c]
  <1>1. PICK n, e : Inserts(c, n, e)
    BY InsertStep
  <1>2. /\ nextSeq' = nextSeq + 1 /\ events' = events /\ nextSeq \in Nat
        /\ \A d \in Replicas \ {c} : Clashes(req[d].mine, Ev(q)) = {}
        /\ Clashes(Seen(q), Ev(q)) = {}
    BY InsertStep DEF Typed
  <1>3. /\ n.mine = Put(q.mine, nextSeq, e) /\ e.id = Ev(q).id /\ e.key = Ev(q).key
        /\ req'[c] = n /\ \A d \in Replicas \ {c} : req'[d] = req[d]
    BY <1>1, OneRequest DEF Inserts
  <1>4. /\ Sound(events) /\ Sound(q.mine) /\ Apart(q.mine, events)
        /\ \A d \in Replicas : Sound(req[d].mine) /\ Apart(req[d].mine, events)
        /\ \A d, f \in Replicas : d # f => Apart(req[d].mine, req[f].mine)
    BY DEF RowsInv
  <1>5. \A s \in DOMAIN Seen(q) : ~Clash(Seen(q)[s], e) /\ ~Clash(e, Seen(q)[s])
    BY <1>2, <1>3, NoClashes
  <1>6. /\ DOMAIN Seen(q) = DOMAIN events \cup DOMAIN q.mine
        /\ \A s \in DOMAIN q.mine : Seen(q)[s] = q.mine[s]
        /\ \A s \in DOMAIN events \ DOMAIN q.mine : Seen(q)[s] = events[s]
    BY SeenOK DEF Typed
  <1>7. \A s \in DOMAIN q.mine : ~Clash(q.mine[s], e) /\ ~Clash(e, q.mine[s])
    BY <1>5, <1>6
  <1>8. \A s \in DOMAIN events : s \notin DOMAIN q.mine
    BY <1>4 DEF Apart
  <1>9. \A s \in DOMAIN events : ~Clash(e, events[s])
    BY <1>5, <1>6, <1>8
  <1>10. \A t : Sound(t) => nextSeq \notin DOMAIN t
    BY <1>2 DEF Sound
  <1>n. \A d \in Replicas : \A s \in DOMAIN req[d].mine : s \in Nat
    BY DEF Typed, RequestOK, FieldsOK, IsTable
  <1>m. \A s \in DOMAIN events : s \in Nat
    BY DEF Typed, IsTable
  <1> HIDE DEF q
  <1>11. Sound(events)' /\ \A d \in Replicas \ {c} : Sound(req[d].mine)'
    <2>1. Sound(events)'
      BY <1>2, <1>4, <1>m DEF Sound
    <2>2. ASSUME NEW d \in Replicas \ {c} PROVE Sound(req[d].mine)'
      BY <1>2, <1>3, <1>4, <1>n DEF Sound
    <2>3. QED
      BY <2>1, <2>2
  <1>12. Sound(req[c].mine)'
    <2>1. /\ DOMAIN n.mine = DOMAIN q.mine \cup {nextSeq} /\ n.mine[nextSeq] = e
          /\ \A s \in DOMAIN q.mine : s # nextSeq /\ n.mine[s] = q.mine[s] /\ s < nextSeq /\ s \in Nat
      BY <1>3, <1>4, <1>10, <1>n DEF Put, Sound, q
    <2>2. \A s \in DOMAIN n.mine : s < nextSeq'
      BY <1>2, <2>1
    <2>3. \A s, v \in DOMAIN n.mine : Clash(n.mine[s], n.mine[v]) => s = v
      BY <1>4, <1>7, <2>1 DEF Sound
    <2>4. QED
      BY <1>3, <2>2, <2>3 DEF Sound
  <1>13. Apart(n.mine, events)
    BY <1>3, <1>4, <1>9, <1>10, PutApart
  <1>14. ASSUME NEW d \in Replicas \ {c} PROVE Apart(n.mine, req[d].mine)
    <2>1. Apart(q.mine, req[d].mine) /\ nextSeq \notin DOMAIN req[d].mine
      BY <1>4, <1>10 DEF q
    <2>2. \A s \in DOMAIN req[d].mine : ~Clash(e, req[d].mine[s])
      BY <1>2, <1>3, NoClashes
    <2>3. QED
      BY <1>3, <2>1, <2>2, PutApart
  <1>15. \A d, f \in Replicas : d # f => Apart(req'[d].mine, req'[f].mine)
    <2>1. ASSUME NEW d \in Replicas, NEW f \in Replicas, d # f PROVE Apart(req'[d].mine, req'[f].mine)
      <3>1. CASE d = c
        BY <1>3, <1>14, <2>1, <3>1
      <3>2. CASE f = c
        BY <1>3, <1>14, <2>1, <3>2, ApartSym
      <3>3. CASE d # c /\ f # c
        BY <1>3, <1>4, <2>1, <3>3
      <3>4. QED
        BY <3>1, <3>2, <3>3
    <2>2. QED
      BY <2>1
  <1>16. \A d \in Replicas : Sound(req[d].mine)' /\ Apart(req'[d].mine, events')
    BY <1>2, <1>3, <1>4, <1>11, <1>12, <1>13
  <1>17. QED
    BY <1>11, <1>15, <1>16 DEF RowsInv

\* The rows stay apart when a transaction commits.
LEMMA CommitRows ==
    ASSUME Typed, RowsInv, NEW c \in Replicas, Commit(c)
    PROVE  RowsInv'
  <1> DEFINE q == req[c]
  <1>1. /\ events' = Seen(q) /\ nextSeq' = nextSeq /\ req' = [req EXCEPT ![c] = NoRequest]
    BY CommitStep DEF Abort
  <1>2. /\ req'[c].mine = EmptyTable /\ \A d \in Replicas \ {c} : req'[d] = req[d]
    BY <1>1, OneRequest, NoRequestOK
  <1>3. /\ DOMAIN events' = DOMAIN events \cup DOMAIN q.mine
        /\ \A s \in DOMAIN q.mine : events'[s] = q.mine[s]
        /\ \A s \in DOMAIN events \ DOMAIN q.mine : events'[s] = events[s]
    BY <1>1, SeenOK DEF Typed
  <1>4. /\ Sound(events) /\ Sound(q.mine) /\ Apart(q.mine, events)
        /\ \A d \in Replicas : Sound(req[d].mine) /\ Apart(req[d].mine, events)
        /\ \A d, f \in Replicas : d # f => Apart(req[d].mine, req[f].mine)
    BY DEF RowsInv
  <1> HIDE DEF q
  <1>5. \A s \in DOMAIN events : s \notin DOMAIN q.mine /\ events'[s] = events[s]
    BY <1>3, <1>4 DEF Apart
  <1>6. Sound(events)'
    <2>1. \A s \in DOMAIN events' : s < nextSeq'
      BY <1>1, <1>3, <1>4 DEF Sound
    <2>2. Apart(events, q.mine)
      BY <1>4, ApartSym
    <2>3. ASSUME NEW s \in DOMAIN events', NEW v \in DOMAIN events', Clash(events'[s], events'[v])
          PROVE  s = v
      <3>1. CASE s \in DOMAIN events /\ v \in DOMAIN events
        BY <1>4, <1>5, <2>3, <3>1 DEF Sound
      <3>2. CASE s \in DOMAIN q.mine /\ v \in DOMAIN q.mine
        BY <1>3, <1>4, <2>3, <3>2 DEF Sound
      <3>3. CASE s \in DOMAIN events /\ v \in DOMAIN q.mine
        BY <1>3, <1>5, <2>2, <2>3, <3>3 DEF Apart
      <3>4. CASE s \in DOMAIN q.mine /\ v \in DOMAIN events
        BY <1>3, <1>4, <1>5, <2>3, <3>4 DEF Apart
      <3>5. QED
        BY <1>3, <3>1, <3>2, <3>3, <3>4
    <2>4. QED
      BY <2>1, <2>3 DEF Sound
  <1>7. ASSUME NEW d \in Replicas \ {c} PROVE Sound(req[d].mine)' /\ Apart(req'[d].mine, events')
    <2>1. Apart(req[d].mine, events) /\ Apart(req[d].mine, q.mine) /\ Sound(req[d].mine)
      BY <1>4 DEF q
    <2>2. Apart(req[d].mine, events')
      BY <1>3, <1>5, <2>1 DEF Apart
    <2>3. QED
      BY <1>1, <1>2, <2>1, <2>2 DEF Sound
  <1>8. Sound(req[c].mine)' /\ Apart(req'[c].mine, events')
    <2>1. DOMAIN (req'[c].mine) = {}
      BY <1>2, EmptyTableOK
    <2>2. QED
      BY <2>1 DEF Sound, Apart
  <1>9. \A d, f \in Replicas : d # f => Apart(req'[d].mine, req'[f].mine)
    BY <1>2, <1>4, EmptyApart
  <1>10. QED
    BY <1>6, <1>7, <1>8, <1>9 DEF RowsInv

\* Every step keeps the rows apart.
LEMMA MovesRows == Typed /\ RowsInv /\ Moves => RowsInv'
  <1> SUFFICES ASSUME Typed, RowsInv, Moves PROVE RowsInv'
    OBVIOUS
  <1>0. CASE UNCHANGED vars
    BY <1>0 DEF vars, RowsInv, Sound, Apart
  <1>1. ASSUME NEW c \in Replicas, NEW q, TakesUp(c, q) PROVE RowsInv'
    BY <1>1, RowsUntouched DEF TakesUp
  <1>2. ASSUME NEW c \in Replicas, InsertRun(c) \/ RejectType(c) \/ StatementFails(c) PROVE RowsInv'
    <2>1. req' = [req EXCEPT ![c] = NoRequest] /\ events' = events /\ nextSeq' = nextSeq
      BY <1>2, InsertRunStep, EndsStep DEF Abort
    <2>2. QED
      BY <2>1, NoRequestOK, RowsUntouched
  <1>3. ASSUME NEW c \in Replicas, CheckKey(c) PROVE RowsInv'
    <2>1. PICK n : req' = [req EXCEPT ![c] = n] /\ n.mine = req[c].mine
      BY <1>3, CheckKeyStep
    <2>2. events' = events /\ nextSeq' = nextSeq
      BY <1>3, CheckKeyStep
    <2>3. QED
      BY <2>1, <2>2, RowsUntouched
  <1>4. ASSUME NEW c \in Replicas, InsertClash(c) PROVE RowsInv'
    <2>1. PICK n : req' = [req EXCEPT ![c] = n] /\ n.mine = EmptyTable
      BY <1>4, ClashStep, NoRequestOK DEF Abort
    <2>2. events' = events /\ nextSeq' = nextSeq
      BY <1>4, ClashStep
    <2>3. QED
      BY <2>1, <2>2, RowsUntouched
  <1>5. QED
    BY <1>0, <1>1, <1>2, <1>3, <1>4, InsertRows, CommitRows DEF Moves, Statement

-----------------------------------------------------------------------------
(* Every step keeps the rows there are.                                    *)

Keeps ==
    /\ \A r \in DOMAIN runs : r \in DOMAIN runs' /\ runs'[r].tenant = runs[r].tenant
    /\ \A s \in DOMAIN events : s \in DOMAIN events' /\ events'[s] = events[s]

\* A step leaves the tenant of a run and every stored event as they are.
LEMMA MovesKeep == Typed /\ RowsInv /\ Moves => Keeps
  <1> SUFFICES ASSUME Typed, RowsInv, Moves PROVE Keeps
    OBVIOUS
  <1>1. ASSUME NEW c \in Replicas, NEW q, TakesUp(c, q) PROVE Keeps
    BY <1>1 DEF TakesUp, Keeps
  <1>2. ASSUME NEW c \in Replicas, InsertRun(c) PROVE Keeps
    BY <1>2, InsertRunStep DEF Keeps
  <1>3. ASSUME NEW c \in Replicas, RejectType(c) \/ StatementFails(c) PROVE Keeps
    BY <1>3, EndsStep DEF Keeps
  <1>4. ASSUME NEW c \in Replicas, CheckKey(c) PROVE Keeps
    BY <1>4, CheckKeyStep DEF Keeps
  <1>5. ASSUME NEW c \in Replicas, Insert(c) PROVE Keeps
    BY <1>5, InsertStep DEF Keeps
  <1>6. ASSUME NEW c \in Replicas, InsertClash(c) PROVE Keeps
    BY <1>6, ClashStep DEF Keeps
  <1>7. ASSUME NEW c \in Replicas, Commit(c) PROVE Keeps
    <2>1. PICK row \in RunRow :
              runs' = Put(runs, req[c].run, row) /\ row.tenant = runs[req[c].run].tenant
      BY <1>7, CommitStep
    <2>2. \A r \in DOMAIN runs : r \in DOMAIN runs' /\ runs'[r].tenant = runs[r].tenant
      BY <2>1 DEF Put
    <2>3. events' = Seen(req[c]) /\ RequestOK(req[c], runs) /\ Apart(req[c].mine, events)
      BY <1>7, CommitStep DEF Typed, RowsInv
    <2>4. \A s \in DOMAIN events : s \in DOMAIN events' /\ events'[s] = events[s]
      BY <2>3, SeenOK DEF Apart
    <2>5. QED
      BY <2>2, <2>4 DEF Keeps
  <1>8. CASE UNCHANGED vars
    BY <1>8 DEF vars, Keeps
  <1>9. QED
    BY <1>1, <1>2, <1>3, <1>4, <1>5, <1>6, <1>7, <1>8 DEF Moves, Statement

-----------------------------------------------------------------------------
(* Where the hashes come from.                                             *)

\* What a transaction with rows mine sees.
View(ev, mine) == [s \in DOMAIN ev \cup DOMAIN mine |-> IF s \in DOMAIN mine THEN mine[s] ELSE ev[s]]

\* h is no hash, or that of a row of t with a number below n.
Known(t, h, n) == h = NoHash \/ \E u \in DOMAIN t : u < n /\ t[u].hash = h

Hashed(e) == e.hash = EventHash(e)

\* Every hash that a request, a run or an event goes on from is that of a row
\* that is committed, or of the same transaction.
RequestHeads(q, ev, n) ==
    /\ Known(View(ev, q.mine), q.head, n)
    /\ \A s \in DOMAIN q.mine : Known(View(ev, q.mine), q.mine[s].prev, s) /\ Hashed(q.mine[s])
    /\ q.pc = "finish" => q.row.last = q.head
    /\ q.pc = "insertRun" => q.row.last = NoHash

HeadsInv ==
    /\ \A r \in DOMAIN runs : Known(events, runs[r].last, nextSeq)
    /\ \A s \in DOMAIN events : Known(events, events[s].prev, s) /\ Hashed(events[s])
    /\ \A c \in Replicas : RequestHeads(req[c], events, nextSeq)

\* The rows of t are in u, as they are.
Extends(t, u) == \A s \in DOMAIN t : s \in DOMAIN u /\ u[s] = t[s]

LEMMA ViewOK ==
    ASSUME NEW ev, NEW mine
    PROVE  /\ DOMAIN View(ev, mine) = DOMAIN ev \cup DOMAIN mine
           /\ \A s \in DOMAIN mine : View(ev, mine)[s] = mine[s]
           /\ \A s \in DOMAIN ev \ DOMAIN mine : View(ev, mine)[s] = ev[s]
  BY DEF View

LEMMA SeenIsView == \A q : Seen(q) = View(events, q.mine)
  BY DEF Seen, View

\* A view grows with the committed rows and with the rows of the transaction.
LEMMA ViewGrows ==
    ASSUME NEW ev, NEW new, NEW mine, Extends(ev, new)
    PROVE  Extends(View(ev, mine), View(new, mine))
  BY DEF Extends, View

LEMMA ViewHasEvents ==
    ASSUME NEW ev, NEW mine, \A s \in DOMAIN ev : s \notin DOMAIN mine
    PROVE  Extends(ev, View(ev, mine))
  BY ViewOK DEF Extends

LEMMA ViewPut ==
    ASSUME NEW ev, NEW mine, NEW n, NEW e, n \notin DOMAIN ev, n \notin DOMAIN mine
    PROVE  Extends(View(ev, mine), View(ev, Put(mine, n, e)))
  BY DEF Extends, View, Put

LEMMA KnownGrows ==
    ASSUME NEW t, NEW u, Extends(t, u), DOMAIN t \subseteq Nat, NEW h,
           NEW n \in Nat, NEW m \in Nat, n <= m, Known(t, h, n)
    PROVE  Known(u, h, m)
  BY DEF Extends, Known

\* A request goes on from known hashes while others commit.
LEMMA RequestHeadsStay ==
    ASSUME NEW q, NEW ev, NEW new, Extends(ev, new), DOMAIN ev \subseteq Nat,
           DOMAIN q.mine \subseteq Nat, NEW n \in Nat, NEW m \in Nat, n <= m, RequestHeads(q, ev, n)
    PROVE  RequestHeads(q, new, m)
  <1> DEFINE v == View(ev, q.mine)
             w == View(new, q.mine)
  <1>0. DOMAIN v = DOMAIN ev \cup DOMAIN q.mine
    BY ViewOK
  <1>1. Extends(v, w) /\ DOMAIN v \subseteq Nat
    <2>1. Extends(v, w)
      BY ViewGrows
    <2>2. QED
      BY <1>0, <2>1
  <1>2. Known(v, q.head, n) /\ \A s \in DOMAIN q.mine : Known(v, q.mine[s].prev, s)
    BY DEF RequestHeads
  <1> HIDE DEF v, w
  <1>3. Known(w, q.head, m)
    BY <1>1, <1>2, KnownGrows
  <1>4. ASSUME NEW s \in DOMAIN q.mine PROVE Known(w, q.mine[s].prev, s)
    <2>1. s \in Nat /\ s <= s /\ Known(v, q.mine[s].prev, s)
      BY <1>2
    <2>2. QED
      BY <1>1, <2>1, KnownGrows
  <1>5. QED
    BY <1>3, <1>4 DEF RequestHeads, w

\* The numbers of all tables are natural numbers, and those of committed rows
\* are not those of an open transaction.
LEMMA Numbers ==
    ASSUME Typed, RowsInv
    PROVE  /\ DOMAIN events \subseteq Nat /\ nextSeq \in Nat
           /\ \A s \in DOMAIN events : s < nextSeq
           /\ \A c \in Replicas : /\ DOMAIN req[c].mine \subseteq Nat
                                  /\ \A s \in DOMAIN req[c].mine : s < nextSeq
                                  /\ \A s \in DOMAIN events : s \notin DOMAIN req[c].mine
  <1>1. ASSUME NEW c \in Replicas
        PROVE  /\ DOMAIN req[c].mine \subseteq Nat
               /\ \A s \in DOMAIN req[c].mine : s < nextSeq
               /\ \A s \in DOMAIN events : s \notin DOMAIN req[c].mine
    BY DEF Typed, RequestOK, FieldsOK, IsTable, RowsInv, Sound, Apart
  <1>2. QED
    BY <1>1 DEF Typed, IsTable, RowsInv, Sound

\* The other requests are as they were; what remains is the one that moved, the
\* runs and the events.
LEMMA HeadsMove ==
    ASSUME Typed, RowsInv, HeadsInv, NEW c \in Replicas, NEW n, req' = [req EXCEPT ![c] = n],
           Extends(events, events'), nextSeq' \in Nat, nextSeq <= nextSeq',
           RequestHeads(n, events', nextSeq'),
           \A r \in DOMAIN runs' : Known(events', runs'[r].last, nextSeq'),
           \A s \in DOMAIN events' : Known(events', events'[s].prev, s) /\ Hashed(events'[s])
    PROVE  HeadsInv'
  <1>1. ASSUME NEW d \in Replicas, d # c PROVE RequestHeads(req'[d], events', nextSeq')
    <2>1. req'[d] = req[d] /\ RequestHeads(req[d], events, nextSeq)
      BY <1>1, OneRequest DEF HeadsInv
    <2>2. DOMAIN events \subseteq Nat /\ nextSeq \in Nat /\ DOMAIN req[d].mine \subseteq Nat
      BY Numbers
    <2>3. QED
      BY <2>1, <2>2, RequestHeadsStay
  <1>2. req'[c] = n
    BY OneRequest
  <1>3. QED
    BY <1>1, <1>2 DEF HeadsInv

\* The same for a step that changes a request only.
LEMMA HeadsUntouched ==
    ASSUME Typed, RowsInv, HeadsInv, NEW c \in Replicas, NEW n, req' = [req EXCEPT ![c] = n],
           UNCHANGED <<runs, events, nextSeq>>, RequestHeads(n, events, nextSeq)
    PROVE  HeadsInv'
  <1>1. Extends(events, events') /\ nextSeq' \in Nat /\ nextSeq <= nextSeq'
    BY Numbers DEF Extends
  <1>2. RequestHeads(n, events', nextSeq')
    OBVIOUS
  <1>3. /\ \A r \in DOMAIN runs' : Known(events', runs'[r].last, nextSeq')
        /\ \A s \in DOMAIN events' : Known(events', events'[s].prev, s) /\ Hashed(events'[s])
    BY DEF HeadsInv
  <1>4. QED
    BY <1>1, <1>2, <1>3, HeadsMove

\* A replica without a request goes on from nothing.
LEMMA IdleHeads == \A ev, n : RequestHeads(NoRequest, ev, n)
  BY NoRequestOK, EmptyTableOK DEF RequestHeads, Known

\* Every step keeps the hashes known.
LEMMA MovesHeads == Typed /\ RowsInv /\ HeadsInv /\ Moves => HeadsInv'
  <1> SUFFICES ASSUME Typed, RowsInv, HeadsInv, Moves PROVE HeadsInv'
    OBVIOUS
  <1>n. /\ DOMAIN events \subseteq Nat /\ nextSeq \in Nat /\ \A s \in DOMAIN events : s < nextSeq
        /\ \A c \in Replicas : /\ DOMAIN req[c].mine \subseteq Nat
                               /\ \A s \in DOMAIN req[c].mine : s < nextSeq
                               /\ \A s \in DOMAIN events : s \notin DOMAIN req[c].mine
    BY Numbers
  <1>h. /\ \A r \in DOMAIN runs : Known(events, runs[r].last, nextSeq)
        /\ \A s \in DOMAIN events : Known(events, events[s].prev, s) /\ Hashed(events[s])
        /\ \A c \in Replicas : RequestHeads(req[c], events, nextSeq)
    BY DEF HeadsInv
  <1>0. CASE UNCHANGED vars
    BY <1>0 DEF vars, HeadsInv
  <1>1. ASSUME NEW c \in Replicas, NEW q, TakesUp(c, q) PROVE HeadsInv'
    <2>1. /\ req' = [req EXCEPT ![c] = q] /\ UNCHANGED <<runs, events, nextSeq>>
          /\ q.mine = EmptyTable /\ RequestOK(q, runs) /\ q.pc \in {"insertRun", "event", "finish"}
          /\ q.pc = "insertRun" => q.row.last = NoHash /\ q.head = NoHash
          /\ q.pc # "insertRun" => q.head = runs[q.run].last /\ q.row.last = q.head
      BY <1>1 DEF TakesUp
    <2>2. DOMAIN q.mine = {} /\ Extends(events, View(events, q.mine))
      BY <2>1, EmptyTableOK, ViewHasEvents
    <2>3. CASE q.pc = "insertRun"
      <3>1. q.head = NoHash
        BY <1>1, <2>3 DEF TakesUp
      <3>2. QED
        BY <2>1, <2>2, <2>3, <3>1, HeadsUntouched DEF RequestHeads, Known
    <2>4. CASE q.pc # "insertRun"
      <3>1. q.run \in DOMAIN runs /\ Known(events, q.head, nextSeq)
        BY <1>h, <2>1, <2>4 DEF RequestOK
      <3>2. Known(View(events, q.mine), q.head, nextSeq)
        BY <1>n, <2>2, <3>1, KnownGrows
      <3>3. RequestHeads(q, events, nextSeq)
        BY <2>1, <2>2, <2>4, <3>2 DEF RequestHeads
      <3>4. QED
        BY <2>1, <3>3, HeadsUntouched
    <2>5. QED
      BY <2>3, <2>4
  <1>2. ASSUME NEW c \in Replicas, InsertRun(c) PROVE HeadsInv'
    <2>1. /\ req' = [req EXCEPT ![c] = NoRequest] /\ UNCHANGED <<events, nextSeq>>
          /\ req[c].pc = "insertRun"
          /\ runs' = IF req[c].run \in DOMAIN runs THEN runs ELSE Put(runs, req[c].run, req[c].row)
      BY <1>2, InsertRunStep DEF Abort
    <2>2. req[c].row.last = NoHash
      BY <1>h, <2>1 DEF RequestHeads
    <2>3. \A r \in DOMAIN runs' : Known(events, runs'[r].last, nextSeq)
      BY <1>h, <2>1, <2>2 DEF Put, Known
    <2>4. Extends(events, events') /\ nextSeq' \in Nat /\ nextSeq <= nextSeq'
      BY <1>n, <2>1 DEF Extends
    <2>5. QED
      BY <1>h, <2>1, <2>3, <2>4, IdleHeads, HeadsMove
  <1>3. ASSUME NEW c \in Replicas, RejectType(c) \/ StatementFails(c) PROVE HeadsInv'
    BY <1>3, EndsStep, IdleHeads, HeadsUntouched DEF Abort
  <1>4. ASSUME NEW c \in Replicas, CheckKey(c) PROVE HeadsInv'
    <2> DEFINE q == req[c]
    <2>0. Seen(q) = View(events, q.mine)
      BY SeenIsView
    <2>1. /\ q.pc = "event" /\ UNCHANGED <<runs, events, nextSeq>>
      BY <1>4, CheckKeyStep
    <2>2. PICK n : /\ req' = [req EXCEPT ![c] = n] /\ n.mine = q.mine
                   /\ n.pc \in {"insert", "event"}
                   /\ n.head = q.head \/ \E s \in WithKey(Seen(q), Ev(q).key) : n.head = Seen(q)[s].hash
      BY <1>4, CheckKeyStep
    <2> HIDE DEF q
    <2>3. RequestHeads(q, events, nextSeq) /\ DOMAIN View(events, q.mine) = DOMAIN events \cup DOMAIN q.mine
      BY <1>h, ViewOK DEF q
    <2>4. Known(View(events, q.mine), n.head, nextSeq)
      <3>1. CASE n.head = q.head
        BY <2>3, <3>1 DEF RequestHeads
      <3>2. CASE n.head # q.head
        <4>1. PICK s \in DOMAIN View(events, q.mine) : n.head = View(events, q.mine)[s].hash
          BY <2>0, <2>2, <3>2 DEF WithKey
        <4>2. s < nextSeq
          BY <1>n, <2>3 DEF q
        <4>3. QED
          BY <4>1, <4>2 DEF Known
      <3>3. QED
        BY <3>1, <3>2
    <2>5. RequestHeads(n, events, nextSeq)
      BY <2>2, <2>3, <2>4 DEF RequestHeads
    <2>6. QED
      BY <2>1, <2>2, <2>5, HeadsUntouched DEF q
  <1>5. ASSUME NEW c \in Replicas, Insert(c) PROVE HeadsInv'
    <2> DEFINE q == req[c]
    <2>1. PICK n, e : Inserts(c, n, e)
      BY <1>5, InsertStep
    <2>2. /\ nextSeq' = nextSeq + 1 /\ UNCHANGED <<runs, events>>
      BY <1>5, InsertStep
    <2>3. /\ req' = [req EXCEPT ![c] = n] /\ n.mine = Put(q.mine, nextSeq, e)
          /\ e.prev = q.head /\ Hashed(e) /\ n.head = e.hash /\ n.pc = "event"
      BY <2>1 DEF Inserts, Hashed
    <2>4. /\ nextSeq \notin DOMAIN events /\ nextSeq \notin DOMAIN q.mine
      BY <1>n
    <2> HIDE DEF q
    <2> DEFINE v == View(events, q.mine)
               w == View(events, n.mine)
    <2>5. /\ Extends(v, w) /\ nextSeq \in DOMAIN w /\ w[nextSeq] = e
          /\ DOMAIN n.mine = DOMAIN q.mine \cup {nextSeq} /\ n.mine[nextSeq] = e
          /\ \A s \in DOMAIN q.mine : n.mine[s] = q.mine[s]
      <3>1. PICK m : m = q.mine
        OBVIOUS
      <3>2. /\ Extends(View(events, m), View(events, Put(m, nextSeq, e)))
            /\ nextSeq \in DOMAIN View(events, Put(m, nextSeq, e))
            /\ View(events, Put(m, nextSeq, e))[nextSeq] = e
            /\ DOMAIN Put(m, nextSeq, e) = DOMAIN m \cup {nextSeq} /\ Put(m, nextSeq, e)[nextSeq] = e
            /\ \A s \in DOMAIN m : Put(m, nextSeq, e)[s] = m[s]
        <4>1. nextSeq \notin DOMAIN events /\ nextSeq \notin DOMAIN m
          BY <2>4, <3>1
        <4>2. Extends(View(events, m), View(events, Put(m, nextSeq, e)))
          BY <4>1, ViewPut
        <4>3. DOMAIN Put(m, nextSeq, e) = DOMAIN m \cup {nextSeq} /\ Put(m, nextSeq, e)[nextSeq] = e
          BY <4>1 DEF Put
        <4>4. /\ nextSeq \in DOMAIN View(events, Put(m, nextSeq, e))
              /\ View(events, Put(m, nextSeq, e))[nextSeq] = e
          BY <4>3 DEF View
        <4>5. \A s \in DOMAIN m : Put(m, nextSeq, e)[s] = m[s]
          BY <4>1 DEF Put
        <4>6. QED
          BY <4>2, <4>3, <4>4, <4>5, Zenon
      <3>3. QED
        BY <2>3, <3>1, <3>2, Zenon
    <2>6. /\ Known(v, q.head, nextSeq) /\ DOMAIN v \subseteq Nat
          /\ \A s \in DOMAIN q.mine : Known(v, q.mine[s].prev, s) /\ Hashed(q.mine[s]) /\ s \in Nat
      <3>1. DOMAIN v = DOMAIN events \cup DOMAIN q.mine
        BY ViewOK
      <3>2. RequestHeads(q, events, nextSeq) /\ DOMAIN q.mine \subseteq Nat
        BY <1>h, <1>n DEF q
      <3>3. QED
        BY <1>n, <3>1, <3>2 DEF RequestHeads
    <2> HIDE DEF v, w
    <2>7. nextSeq < nextSeq' /\ nextSeq <= nextSeq' /\ nextSeq' \in Nat
      BY <1>n, <2>2
    <2>8. Known(w, n.head, nextSeq')
      BY <2>3, <2>5, <2>7 DEF Known
    <2>9. ASSUME NEW s \in DOMAIN n.mine PROVE Known(w, n.mine[s].prev, s) /\ Hashed(n.mine[s])
      <3>1. CASE s = nextSeq
        <4>1. Known(w, q.head, nextSeq)
          BY <1>n, <2>5, <2>6, KnownGrows
        <4>2. QED
          BY <2>3, <2>5, <3>1, <4>1
      <3>2. CASE s # nextSeq
        <4>1. s \in DOMAIN q.mine /\ s \in Nat /\ s <= s /\ n.mine[s] = q.mine[s]
          BY <2>5, <2>6, <3>2
        <4>2. Known(w, q.mine[s].prev, s)
          BY <2>5, <2>6, <4>1, KnownGrows
        <4>3. QED
          BY <2>6, <4>1, <4>2
      <3>3. QED
        BY <3>1, <3>2
    <2>10. RequestHeads(n, events', nextSeq')
      BY <2>2, <2>3, <2>8, <2>9 DEF RequestHeads, w
    <2>11. \A r \in DOMAIN runs' : Known(events', runs'[r].last, nextSeq')
      <3>1. Extends(events, events)
        BY DEF Extends
      <3>2. QED
        BY <1>h, <1>n, <2>2, <2>7, <3>1, KnownGrows
    <2>12. Extends(events, events')
      BY <2>2 DEF Extends
    <2>13. QED
      BY <1>h, <2>2, <2>3, <2>7, <2>10, <2>11, <2>12, HeadsMove
  <1>6. ASSUME NEW c \in Replicas, InsertClash(c) PROVE HeadsInv'
    <2>1. UNCHANGED <<runs, events, nextSeq>>
      BY <1>6, ClashStep
    <2>2. CASE Abort(c)
      BY <2>1, <2>2, IdleHeads, HeadsUntouched DEF Abort
    <2>3. CASE ~Abort(c)
      <3>1. PICK n : /\ req' = [req EXCEPT ![c] = n] /\ n.mine = EmptyTable /\ n.pc = "event"
                     /\ \E s \in WithId(events, Ev(req[c]).id) : n.head = events[s].hash
        BY <1>6, <2>3, ClashStep
      <3>2. DOMAIN n.mine = {} /\ Extends(events, View(events, n.mine))
        BY <3>1, EmptyTableOK, ViewHasEvents
      <3>3. Known(events, n.head, nextSeq)
        BY <1>n, <3>1 DEF WithId, Known
      <3>4. Known(View(events, n.mine), n.head, nextSeq)
        BY <1>n, <3>2, <3>3, KnownGrows
      <3>5. RequestHeads(n, events, nextSeq)
        BY <3>1, <3>2, <3>4 DEF RequestHeads
      <3>6. QED
        BY <2>1, <3>1, <3>5, HeadsUntouched
    <2>4. QED
      BY <2>2, <2>3
  <1>7. ASSUME NEW c \in Replicas, Commit(c) PROVE HeadsInv'
    <2> DEFINE q == req[c]
               v == View(events, q.mine)
    <2>1. /\ events' = Seen(q) /\ nextSeq' = nextSeq /\ req' = [req EXCEPT ![c] = NoRequest]
          /\ q.pc \in {"event", "finish"}
      BY <1>7, CommitStep DEF Abort
    <2>2. PICK row : /\ runs' = Put(runs, q.run, row) /\ q.run \in DOMAIN runs
                     /\ row.last \in {runs[q.run].last, q.head, q.row.last}
                     /\ q.pc = "event" => row.last \in {runs[q.run].last, q.head}
      BY <1>7, CommitStep
    <2>3. RequestHeads(q, events, nextSeq)
      BY <1>h
    <2>4. Seen(q) = v
      BY SeenIsView
    <2>5. /\ DOMAIN v = DOMAIN events \cup DOMAIN q.mine /\ Extends(events, v)
          /\ \A s \in DOMAIN q.mine : v[s] = q.mine[s]
          /\ \A s \in DOMAIN events : v[s] = events[s] /\ s \in Nat
      <3>1. PICK m : m = q.mine
        OBVIOUS
      <3>2. \A s \in DOMAIN events : s \notin DOMAIN m
        BY <1>n, <3>1
      <3>3. Extends(events, View(events, m)) /\ DOMAIN View(events, m) = DOMAIN events \cup DOMAIN m
        BY <3>2, ViewHasEvents, ViewOK
      <3>4. \A s \in DOMAIN m : View(events, m)[s] = m[s]
        BY ViewOK
      <3>5. QED
        BY <1>n, <3>1, <3>3, <3>4, Zenon DEF Extends
    <2> HIDE DEF q
    <2>6. row.last \in {runs[q.run].last, q.head} /\ Known(v, q.head, nextSeq)
      BY <2>1, <2>2, <2>3 DEF RequestHeads
    <2>7. \A s \in DOMAIN q.mine : Known(v, q.mine[s].prev, s) /\ Hashed(q.mine[s])
      BY <2>3 DEF RequestHeads
    <2> HIDE DEF v
    <2>8. \A h : Known(events, h, nextSeq) => Known(v, h, nextSeq)
      BY <1>n, <2>5, KnownGrows
    <2>9. \A r \in DOMAIN runs' : Known(v, runs'[r].last, nextSeq)
      BY <1>h, <2>2, <2>6, <2>8 DEF Put
    <2>10. ASSUME NEW s \in DOMAIN v PROVE Known(v, v[s].prev, s) /\ Hashed(v[s])
      <3>1. CASE s \in DOMAIN q.mine
        BY <2>5, <2>7, <3>1
      <3>2. CASE s \notin DOMAIN q.mine
        <4>1. s \in DOMAIN events /\ s \in Nat /\ s <= s /\ v[s] = events[s]
          BY <2>5, <3>2
        <4>2. Known(v, events[s].prev, s)
          BY <1>h, <1>n, <2>5, <4>1, KnownGrows
        <4>3. QED
          BY <1>h, <4>1, <4>2
      <3>3. QED
        BY <3>1, <3>2
    <2>11. events' = v /\ nextSeq' \in Nat /\ nextSeq <= nextSeq'
      BY <1>n, <2>1, <2>4
    <2>12. QED
      BY <2>1, <2>5, <2>9, <2>10, <2>11, IdleHeads, HeadsMove
  <1>8. QED
    BY <1>0, <1>1, <1>2, <1>3, <1>4, <1>5, <1>6, <1>7 DEF Moves, Statement

-----------------------------------------------------------------------------
(* What an answer reports.                                                 *)

\* The row is that of the input: what the unique columns say is the same.
Like(e, x) == e.id = x.id /\ e.key = x.key

\* The row was sent in some batch.
Sent(e) == \E b \in Batches : \E i \in 1..Len(b) : Like(e, b[i])

\* Some row of t clashes with the event.
Has(t, x) == \E s \in DOMAIN t : Clash(t[s], x)

\* Of a batch with an event that is stored all earlier events are stored.
Closed(t) ==
    \A s \in DOMAIN t : \A b \in Batches : \A i \in 1..Len(b) :
        Clash(t[s], b[i]) => \A k \in 1..(i - 1) : Has(t, b[k])

\* A request sees a row for every event it is done with, and for every id it
\* will report; its transaction holds events of its batch only.
RequestAnswers(q, ev) ==
    /\ q.pc \in {"event", "insert"} => q.batch \in Batches
    /\ q.pc \notin {"event", "insert"} => q.i = 0
    /\ \A k \in 1..q.i : Has(View(ev, q.mine), q.batch[k])
    /\ \A s \in DOMAIN q.mine : \E k \in 1..q.i : Like(q.mine[s], q.batch[k])
    /\ \A k \in 1..Len(q.accepted) : WithId(View(ev, q.mine), q.accepted[k]) # {}

AnswersInv ==
    /\ Closed(events)
    /\ \A s \in DOMAIN events : Sent(events[s])
    /\ \A c \in Replicas : RequestAnswers(req[c], events)
    /\ AcceptedStored

LEMMA HasGrows ==
    ASSUME NEW t, NEW u, Extends(t, u)
    PROVE  /\ \A x : Has(t, x) => Has(u, x)
           /\ \A id : WithId(t, id) # {} => WithId(u, id) # {}
  BY DEF Extends, Has, WithId

LEMMA RequestAnswersStay ==
    ASSUME NEW q, NEW ev, NEW new, Extends(ev, new), RequestAnswers(q, ev)
    PROVE  RequestAnswers(q, new)
  <1>1. Extends(View(ev, q.mine), View(new, q.mine))
    BY ViewGrows
  <1>2. QED
    BY <1>1, HasGrows DEF RequestAnswers

\* The other requests are as they were.
LEMMA AnswersMove ==
    ASSUME Typed, AnswersInv, NEW c \in Replicas, NEW n, req' = [req EXCEPT ![c] = n],
           Extends(events, events'), RequestAnswers(n, events'), Closed(events'),
           \A s \in DOMAIN events' : Sent(events'[s]), AcceptedStored'
    PROVE  AnswersInv'
  <1>1. ASSUME NEW d \in Replicas, d # c PROVE RequestAnswers(req'[d], events')
    <2>1. req'[d] = req[d] /\ RequestAnswers(req[d], events)
      BY <1>1, OneRequest DEF AnswersInv
    <2>2. QED
      BY <2>1, RequestAnswersStay
  <1>2. req'[c] = n
    BY OneRequest
  <1>3. \A d \in Replicas : RequestAnswers(req'[d], events')
    BY <1>1, <1>2
  <1>4. Closed(events)'
    BY DEF Closed
  <1>5. QED
    BY <1>3, <1>4 DEF AnswersInv

LEMMA AnswersUntouched ==
    ASSUME Typed, AnswersInv, NEW c \in Replicas, NEW n, req' = [req EXCEPT ![c] = n],
           UNCHANGED <<events, acked>>, RequestAnswers(n, events)
    PROVE  AnswersInv'
  <1>1. Extends(events, events') /\ Closed(events') /\ RequestAnswers(n, events')
    BY DEF Extends, AnswersInv
  <1>2. (\A s \in DOMAIN events' : Sent(events'[s])) /\ AcceptedStored'
    BY DEF AnswersInv, AcceptedStored
  <1>3. QED
    BY <1>1, <1>2, AnswersMove

LEMMA IdleAnswers == \A ev : RequestAnswers(NoRequest, ev)
  BY NoRequestOK, EmptyTableOK DEF RequestAnswers

\* A request that is done with one more event.
LEMMA OneMoreAnswer ==
    ASSUME Typed, NEW c \in Replicas, NEW q, q = req[c], RequestAnswers(q, events),
           q.pc \in {"event", "insert"}, q.i < Len(q.batch), NEW n,
           n.pc = "event", n.batch = q.batch, n.i = q.i + 1,
           NEW id, n.accepted = Append(q.accepted, id),
           Extends(View(events, q.mine), View(events, n.mine)),
           Has(View(events, n.mine), Ev(q)), WithId(View(events, n.mine), id) # {},
           \A s \in DOMAIN n.mine : \/ s \in DOMAIN q.mine /\ n.mine[s] = q.mine[s]
                                    \/ Like(n.mine[s], Ev(q))
    PROVE  RequestAnswers(n, events)
  <1> DEFINE v == View(events, q.mine)
             w == View(events, n.mine)
  <1>1. /\ \A k \in 1..q.i : Has(v, q.batch[k])
        /\ \A s \in DOMAIN q.mine : \E k \in 1..q.i : Like(q.mine[s], q.batch[k])
        /\ \A k \in 1..Len(q.accepted) : WithId(v, q.accepted[k]) # {}
        /\ q.batch \in Batches
    BY DEF RequestAnswers
  <1>2. Extends(v, w) /\ Has(w, Ev(q)) /\ WithId(w, id) # {}
    OBVIOUS
  <1> HIDE DEF v, w
  <1>3. q.i \in Nat /\ q.accepted \in Seq(EventIds) /\ Ev(q) = q.batch[q.i + 1]
    BY DEF Typed, RequestOK, FieldsOK, Ev
  <1>4. ASSUME NEW k \in 1..n.i PROVE Has(w, n.batch[k])
    <2>1. k \in 1..q.i \/ k = q.i + 1
      BY <1>3
    <2>2. QED
      BY <1>1, <1>2, <1>3, <2>1, HasGrows
  <1>5. ASSUME NEW s \in DOMAIN n.mine PROVE \E k \in 1..n.i : Like(n.mine[s], n.batch[k])
    <2>1. CASE s \in DOMAIN q.mine /\ n.mine[s] = q.mine[s]
      <3>1. PICK k \in 1..q.i : Like(q.mine[s], q.batch[k])
        BY <1>1, <2>1
      <3>2. k \in 1..n.i
        BY <1>3
      <3>3. QED
        BY <2>1, <3>1, <3>2
    <2>2. CASE Like(n.mine[s], Ev(q))
      <3>1. q.i + 1 \in 1..n.i
        BY <1>3
      <3>2. QED
        BY <1>3, <2>2, <3>1
    <2>3. QED
      BY <2>1, <2>2
  <1>6. ASSUME NEW k \in 1..Len(n.accepted) PROVE WithId(w, n.accepted[k]) # {}
    <2>1. /\ k \in 1..Len(q.accepted) \/ k = Len(q.accepted) + 1
          /\ Len(q.accepted) \in Nat
      BY <1>3
    <2>2. CASE k \in 1..Len(q.accepted)
      <3>1. n.accepted[k] = q.accepted[k]
        BY <1>3, <2>2
      <3>2. QED
        BY <1>1, <1>2, <2>2, <3>1, HasGrows
    <2>3. CASE k = Len(q.accepted) + 1
      <3>1. n.accepted[k] = id
        BY <1>3, <2>3
      <3>2. QED
        BY <1>2, <3>1
    <2>4. QED
      BY <2>1, <2>2, <2>3
  <1>7. QED
    BY <1>1, <1>4, <1>5, <1>6 DEF RequestAnswers, w

\* The rows of t were sent.
AllSent(t) == \A s \in DOMAIN t : Sent(t[s])

\* What a transaction holds was sent.
LEMMA MineSent ==
    ASSUME Typed, NEW c \in Replicas, RequestAnswers(req[c], events)
    PROVE  /\ AllSent(req[c].mine)
           /\ \A s \in DOMAIN req[c].mine :
                 /\ req[c].batch \in Batches
                 /\ \E k \in 1..req[c].i : k \in 1..Len(req[c].batch) /\ Like(req[c].mine[s], req[c].batch[k])
  <1> DEFINE q == req[c]
  <1>1. q.i \in Nat /\ q.i <= Len(q.batch) /\ Len(q.batch) \in Nat
    BY DEF Typed, RequestOK, FieldsOK
  <1>2. ASSUME NEW s \in DOMAIN q.mine
        PROVE  q.batch \in Batches /\ \E k \in 1..q.i : k \in 1..Len(q.batch) /\ Like(q.mine[s], q.batch[k])
    <2>1. PICK k \in 1..q.i : Like(q.mine[s], q.batch[k])
      BY DEF RequestAnswers
    <2> HIDE DEF q
    <2>2. k \in 1..Len(q.batch) /\ q.i # 0
      BY <1>1
    <2>3. QED
      BY <2>1, <2>2 DEF RequestAnswers, q
  <1>3. QED
    BY <1>2 DEF AllSent, Sent

\* A clash is with a stored event, and then the transaction holds nothing: of
\* the batch all that is before the event is stored too.
LEMMA NothingLostByClash ==
    ASSUME RepeatedFromStart, Typed, RowsInv, AnswersInv, NEW c \in Replicas,
           req[c].pc = "insert", Clashes(Seen(req[c]), Ev(req[c])) # {}
    PROVE  DOMAIN req[c].mine = {}
  <1> DEFINE q == req[c]
  <1>1. /\ RequestAnswers(q, events) /\ Closed(events) /\ q.batch \in Batches
        /\ q.i \in Nat /\ q.i + 1 \in 1..Len(q.batch) /\ Ev(q) = q.batch[q.i + 1]
    BY DEF AnswersInv, RequestAnswers, Typed, RequestOK, FieldsOK, Ev
  <1>2. /\ Apart(q.mine, events)
        /\ \A s \in DOMAIN q.mine :
              \E k \in 1..q.i : k \in 1..Len(q.batch) /\ Like(q.mine[s], q.batch[k])
    BY <1>1, MineSent DEF RowsInv
  <1>3. /\ DOMAIN Seen(q) = DOMAIN events \cup DOMAIN q.mine
        /\ \A s \in DOMAIN q.mine : Seen(q)[s] = q.mine[s]
        /\ \A s \in DOMAIN events \ DOMAIN q.mine : Seen(q)[s] = events[s]
    BY SeenOK DEF Typed
  <1>4. PICK s \in DOMAIN Seen(q) : Clash(Seen(q)[s], Ev(q))
    BY DEF Clashes, WithKey, WithId, Clash
  <1> HIDE DEF q
  <1>5. s \notin DOMAIN q.mine
    <2> SUFFICES ASSUME s \in DOMAIN q.mine PROVE FALSE
      OBVIOUS
    <2>1. PICK k \in 1..q.i : k \in 1..Len(q.batch) /\ Like(q.mine[s], q.batch[k])
      BY <1>2
    <2>2. Clash(q.batch[k], q.batch[q.i + 1])
      BY <1>1, <1>3, <1>4, <2>1 DEF Clash, Like
    <2>3. k = q.i + 1
      BY <1>1, <2>1, <2>2 DEF RepeatedFromStart
    <2>4. QED
      BY <1>1, <2>3
  <1>6. s \in DOMAIN events /\ Clash(events[s], q.batch[q.i + 1])
    BY <1>1, <1>3, <1>4, <1>5
  <1>7. \A k \in 1..q.i : Has(events, q.batch[k])
    <2>1. (q.i + 1) - 1 = q.i
      BY <1>1
    <2>2. QED
      BY <1>1, <1>6, <2>1 DEF Closed
  <1>8. ASSUME NEW v \in DOMAIN q.mine PROVE FALSE
    <2>1. PICK k \in 1..q.i : Like(q.mine[v], q.batch[k])
      BY <1>2
    <2>2. PICK u \in DOMAIN events : Clash(events[u], q.batch[k])
      BY <1>7 DEF Has
    <2>3. QED
      BY <1>2, <2>1, <2>2 DEF Apart, Clash, Like
  <1>9. QED
    BY <1>8 DEF q

\* A commit keeps the stored events closed.
LEMMA CommitClosed ==
    ASSUME RepeatedFromStart, Typed, RowsInv, AnswersInv, NEW c \in Replicas
    PROVE  LET v == View(events, req[c].mine)
           IN  AllSent(v) /\ Closed(v)
  <1> DEFINE q == req[c]
             v == View(events, q.mine)
  <1>1. /\ RequestAnswers(q, events) /\ Closed(events) /\ AllSent(events) /\ AllSent(q.mine)
        /\ \A s \in DOMAIN q.mine :
              /\ q.batch \in Batches
              /\ \E k \in 1..q.i : k \in 1..Len(q.batch) /\ Like(q.mine[s], q.batch[k])
    <2>1. RequestAnswers(q, events) /\ Closed(events) /\ AllSent(events)
      BY DEF AnswersInv, AllSent
    <2>2. QED
      BY <2>1, MineSent
  <1>2. /\ DOMAIN v = DOMAIN events \cup DOMAIN q.mine
        /\ \A s \in DOMAIN q.mine : v[s] = q.mine[s]
        /\ \A s \in DOMAIN events : v[s] = events[s]
    <2>1. \A s \in DOMAIN events : s \notin DOMAIN q.mine
      BY Numbers
    <2>2. QED
      BY <2>1 DEF View
  <1>3. Extends(events, v)
    BY <1>2 DEF Extends
  <1>4. \A k \in 1..q.i : Has(v, q.batch[k])
    BY <1>1 DEF RequestAnswers
  <1>5. q.i \in Nat /\ q.i <= Len(q.batch) /\ Len(q.batch) \in Nat
    BY DEF Typed, RequestOK, FieldsOK
  <1> HIDE DEF q, v
  <1>6. AllSent(v)
    BY <1>1, <1>2 DEF AllSent
  <1>7. ASSUME NEW s \in DOMAIN v, NEW b \in Batches, NEW i \in 1..Len(b), Clash(v[s], b[i]),
               NEW k \in 1..(i - 1)
        PROVE  Has(v, b[k])
    <2>1. CASE s \in DOMAIN events
      <3>1. Has(events, b[k])
        BY <1>1, <1>2, <1>7, <2>1 DEF Closed
      <3>2. QED
        BY <1>3, <3>1, HasGrows
    <2>2. CASE s \in DOMAIN q.mine
      <3>1. PICK j \in 1..q.i : j \in 1..Len(q.batch) /\ Like(q.mine[s], q.batch[j])
        BY <1>1, <2>2
      <3>2. Clash(b[i], q.batch[j]) /\ q.batch \in Batches
        BY <1>1, <1>2, <1>7, <2>2, <3>1 DEF Clash, Like
      <3>3. PICK m \in 1..(j - 1) : Clash(b[k], q.batch[m])
        <4>1. \A a, d \in Batches : \A x \in 1..Len(a), y \in 1..Len(d) : Clash(a[x], d[y])
                  => \A z \in 1..(x - 1) : \E m \in 1..(y - 1) : Clash(a[z], d[m])
          BY DEF RepeatedFromStart
        <4>2. QED
          BY <3>1, <3>2, <4>1
      <3>4. m \in 1..q.i /\ m \in 1..Len(q.batch)
        BY <1>5, <3>1
      <3>5. PICK u \in DOMAIN v : Clash(v[u], q.batch[m])
        BY <1>4, <3>4 DEF Has
      <3>d. PICK d \in Batches : \E l \in 1..Len(d) : Like(v[u], d[l])
        BY <1>6 DEF AllSent, Sent
      <3>6. PICK l \in 1..Len(d) : Like(v[u], d[l])
        BY <3>d
      <3>7. Clash(d[l], q.batch[m]) /\ Clash(q.batch[m], b[k])
        BY <3>3, <3>5, <3>6 DEF Clash, Like
      <3>8. b \in Seq(Input)
        BY IngestBatches
      <3>9. k \in 1..Len(b)
        BY <3>8
      <3>10. Clash(d[l], b[k])
        BY <3>2, <3>4, <3>6, <3>7, <3>9 DEF RepeatedFromStart
      <3>11. Clash(v[u], b[k])
        BY <3>6, <3>10 DEF Clash, Like
      <3>12. QED
        BY <3>11 DEF Has
    <2>3. QED
      BY <1>2, <2>1, <2>2
  <1>8. Closed(v)
    BY <1>7 DEF Closed
  <1>9. QED
    BY <1>6, <1>8 DEF q, v

\* Every step keeps what the answers report.
LEMMA NextAnswers ==
    ASSUME RepeatedFromStart, Typed, RowsInv, AnswersInv, [Next]_vars
    PROVE  AnswersInv'
  <1>a. \A c \in Replicas : RequestAnswers(req[c], events)
    BY DEF AnswersInv
  <1>0. CASE UNCHANGED vars
    <2>1. UNCHANGED <<events, req, acked>>
      BY <1>0 DEF vars
    <2>2. QED
      BY <2>1 DEF AnswersInv, AcceptedStored, Closed
  <1>1. ASSUME NEW c \in Replicas, Request(c) PROVE AnswersInv'
    <2>1. PICK q : TakesUp(c, q) /\ (q.pc = "event" => q.batch \in Batches)
      BY <1>1, RequestStep
    <2>2. /\ req' = [req EXCEPT ![c] = q] /\ UNCHANGED <<events, acked>> /\ DOMAIN q.mine = {}
          /\ q.accepted = <<>> /\ q.i = 0 /\ q.pc \in {"insertRun", "event", "finish"}
      BY <2>1, EmptyTableOK DEF TakesUp
    <2>3. RequestAnswers(q, events)
      BY <2>1, <2>2 DEF RequestAnswers
    <2>4. QED
      BY <2>2, <2>3, AnswersUntouched
  <1>2. ASSUME NEW c \in Replicas, InsertRun(c) \/ RejectType(c) \/ StatementFails(c) PROVE AnswersInv'
    <2>1. req' = [req EXCEPT ![c] = NoRequest] /\ UNCHANGED <<events, acked>>
      BY <1>2, InsertRunStep, EndsStep DEF Abort
    <2>2. QED
      BY <2>1, IdleAnswers, AnswersUntouched
  <1>3. ASSUME NEW c \in Replicas, CheckKey(c) PROVE AnswersInv'
    <2> DEFINE q == req[c]
               v == View(events, q.mine)
    <2>0. Seen(q) = v
      BY SeenIsView
    <2>1. /\ q.pc = "event" /\ q.i < Len(q.batch) /\ UNCHANGED <<events, acked>>
          /\ RequestAnswers(q, events)
      BY <1>3, <1>a, CheckKeyStep
    <2>2. PICK n : /\ req' = [req EXCEPT ![c] = n] /\ n.mine = q.mine /\ n.batch = q.batch
                   /\ \/ n.pc = "insert" /\ n.i = q.i /\ n.accepted = q.accepted
                      \/ \E s \in WithKey(Seen(q), Ev(q).key) :
                            /\ n.pc = "event" /\ n.i = q.i + 1
                            /\ n.accepted = Append(q.accepted, Seen(q)[s].id)
      BY <1>3, CheckKeyStep
    <2>3. CASE n.pc = "insert" /\ n.i = q.i /\ n.accepted = q.accepted
      <3>1. RequestAnswers(n, events)
        BY <2>1, <2>2, <2>3 DEF RequestAnswers
      <3>2. QED
        BY <2>1, <2>2, <3>1, AnswersUntouched
    <2>4. CASE \E s \in WithKey(Seen(q), Ev(q).key) :
                   /\ n.pc = "event" /\ n.i = q.i + 1
                   /\ n.accepted = Append(q.accepted, Seen(q)[s].id)
      <3>1. PICK s \in WithKey(v, Ev(q).key) :
                   /\ n.pc = "event" /\ n.i = q.i + 1 /\ n.accepted = Append(q.accepted, v[s].id)
        BY <2>0, <2>4
      <3>2. s \in DOMAIN v /\ Clash(v[s], Ev(q)) /\ s \in WithId(v, v[s].id)
        BY DEF WithKey, WithId, Clash
      <3>3. Has(v, Ev(q)) /\ WithId(v, v[s].id) # {} /\ Extends(v, v)
        BY <3>2 DEF Has, Extends
      <3>4. RequestAnswers(n, events)
        <4>1. PICK w, id : w = v /\ id = v[s].id
          OBVIOUS
        <4>2. View(events, n.mine) = w /\ View(events, q.mine) = w
          BY <2>2, <4>1
        <4> HIDE DEF v, q
        <4>3. n.accepted = Append(q.accepted, id) /\ Has(w, Ev(q)) /\ WithId(w, id) # {} /\ Extends(w, w)
          BY <3>1, <3>3, <4>1
        <4>4. QED
          BY <2>1, <2>2, <3>1, <4>2, <4>3, OneMoreAnswer DEF q
      <3>5. QED
        BY <2>1, <2>2, <3>4, AnswersUntouched
    <2>5. QED
      BY <2>2, <2>3, <2>4
  <1>4. ASSUME NEW c \in Replicas, Insert(c) PROVE AnswersInv'
    <2> DEFINE q == req[c]
    <2>1. PICK n, e : Inserts(c, n, e)
      BY <1>4, InsertStep
    <2>2. q.pc = "insert" /\ q.i < Len(q.batch) /\ UNCHANGED <<events, acked>>
      BY <1>4, InsertStep
    <2>3. /\ req' = [req EXCEPT ![c] = n] /\ n.mine = Put(q.mine, nextSeq, e) /\ Like(e, Ev(q))
          /\ n.batch = q.batch /\ n.pc = "event" /\ n.i = q.i + 1
          /\ n.accepted = Append(q.accepted, e.id)
      BY <2>1 DEF Inserts, Like
    <2>4. nextSeq \notin DOMAIN events /\ nextSeq \notin DOMAIN q.mine
      BY Numbers
    <2>5. RequestAnswers(q, events)
      BY <1>a
    <2> HIDE DEF q
    <2>6. /\ DOMAIN n.mine = DOMAIN q.mine \cup {nextSeq} /\ n.mine[nextSeq] = e
          /\ \A s \in DOMAIN q.mine : n.mine[s] = q.mine[s]
      BY <2>3, <2>4 DEF Put
    <2> DEFINE w == View(events, n.mine)
    <2>7. Extends(View(events, q.mine), w)
      <3>1. PICK m : m = q.mine
        OBVIOUS
      <3>2. nextSeq \notin DOMAIN m /\ nextSeq \notin DOMAIN events
        BY <2>4, <3>1
      <3>3. Extends(View(events, m), View(events, Put(m, nextSeq, e)))
        BY <3>2, ViewPut
      <3>4. QED
        BY <2>3, <3>1, <3>3, Zenon
    <2>8. nextSeq \in DOMAIN w /\ w[nextSeq] = e
      BY <2>6 DEF View
    <2> HIDE DEF w
    <2>9. Has(w, Ev(q)) /\ WithId(w, e.id) # {}
      BY <2>3, <2>8 DEF Has, WithId, Clash, Like
    <2>10. \A s \in DOMAIN n.mine : \/ s \in DOMAIN q.mine /\ n.mine[s] = q.mine[s]
                                    \/ Like(n.mine[s], Ev(q))
      BY <2>3, <2>6
    <2>11. RequestAnswers(n, events)
      BY <2>2, <2>3, <2>5, <2>7, <2>9, <2>10, OneMoreAnswer DEF q, w
    <2>12. QED
      BY <2>2, <2>3, <2>11, AnswersUntouched
  <1>5. ASSUME NEW c \in Replicas, InsertClash(c) PROVE AnswersInv'
    <2> DEFINE q == req[c]
    <2>1. /\ UNCHANGED <<events, acked>> /\ q.pc = "insert" /\ q.i < Len(q.batch)
          /\ Clashes(Seen(q), Ev(q)) # {} /\ RequestAnswers(q, events)
      BY <1>5, <1>a, ClashStep
    <2>2. CASE Abort(c)
      BY <2>1, <2>2, IdleAnswers, AnswersUntouched DEF Abort
    <2>3. CASE ~Abort(c)
      <3>1. PICK n : /\ req' = [req EXCEPT ![c] = n] /\ n.mine = EmptyTable /\ n.pc = "event"
                     /\ n.batch = q.batch /\ n.i = q.i + 1
                     /\ \E s \in WithId(events, Ev(q).id) : n.accepted = Append(q.accepted, events[s].id)
        BY <1>5, <2>3, ClashStep
      <3>2. PICK s \in WithId(events, Ev(q).id) : n.accepted = Append(q.accepted, events[s].id)
        BY <3>1
      <3>3. DOMAIN q.mine = {} /\ DOMAIN n.mine = {}
        BY <2>1, <3>1, NothingLostByClash, EmptyTableOK
      <3> HIDE DEF q
      <3>4. Extends(View(events, q.mine), View(events, n.mine))
        BY <3>3 DEF Extends, View
      <3>5. Extends(events, View(events, n.mine))
        BY <3>3, ViewHasEvents
      <3>6. Has(events, Ev(q)) /\ WithId(events, events[s].id) # {}
        BY DEF Has, WithId, Clash
      <3>7. Has(View(events, n.mine), Ev(q)) /\ WithId(View(events, n.mine), events[s].id) # {}
        BY <3>5, <3>6, HasGrows
      <3>8. RequestAnswers(n, events)
        <4>1. PICK id : id = events[s].id
          OBVIOUS
        <4>2. n.accepted = Append(q.accepted, id) /\ WithId(View(events, n.mine), id) # {}
          BY <3>2, <3>7, <4>1
        <4>3. QED
          BY <2>1, <3>1, <3>3, <3>4, <3>7, <4>2, OneMoreAnswer DEF q
      <3>9. QED
        BY <2>1, <3>1, <3>8, AnswersUntouched
    <2>4. QED
      BY <2>2, <2>3
  <1>6. ASSUME NEW c \in Replicas, Commit(c) PROVE AnswersInv'
    <2> DEFINE q == req[c]
               v == View(events, q.mine)
    <2>1. /\ events' = Seen(q) /\ req' = [req EXCEPT ![c] = NoRequest]
          /\ acked' = acked \cup {q.accepted[i] : i \in 1..Len(q.accepted)}
      BY <1>6, CommitStep DEF Abort
    <2>2. events' = v
      BY <2>1, SeenIsView
    <2>3. AllSent(v) /\ Closed(v)
      BY CommitClosed
    <2>4. Extends(events, v)
      BY Numbers, ViewHasEvents
    <2>5. \A k \in 1..Len(q.accepted) : WithId(v, q.accepted[k]) # {}
      BY <1>a DEF RequestAnswers
    <2> HIDE DEF v, q
    <2>6. \A id \in acked' : WithId(v, id) # {}
      BY <2>1, <2>4, <2>5, HasGrows DEF AnswersInv, AcceptedStored
    <2>7. AcceptedStored'
      BY <2>2, <2>6 DEF AcceptedStored
    <2>8. \A s \in DOMAIN events' : Sent(events'[s])
      BY <2>2, <2>3 DEF AllSent
    <2>9. QED
      BY <2>1, <2>2, <2>3, <2>4, <2>7, <2>8, IdleAnswers, AnswersMove
  <1>7. QED
    BY <1>0, <1>1, <1>2, <1>3, <1>4, <1>5, <1>6 DEF Next, Statement

-----------------------------------------------------------------------------
(* Readers.  The first rows of a finite set of numbers.                    *)

\* First rows are an initial segment.
LEMMA FirstRowsInitial ==
    ASSUME NEW S \in SUBSET Nat, IsFiniteSet(S), NEW n \in Nat,
           NEW s \in FirstRows(S, n), NEW u \in S, u <= s
    PROVE  u \in FirstRows(S, n)
  <1> DEFINE A == {x \in S : x <= u}
             B == {x \in S : x <= s}
  <1>0. s \in S /\ s \in Nat /\ u \in Nat
    BY DEF FirstRows
  <1>a. ASSUME NEW x \in S, x <= u PROVE x <= s
    BY <1>0, <1>a
  <1>1. A \subseteq B /\ B \subseteq S
    BY <1>a
  <1>2. IsFiniteSet(B)
    BY <1>1, FS_Subset
  <1>3. IsFiniteSet(A) /\ Cardinality(A) <= Cardinality(B)
    <2> HIDE DEF A, B
    <2> QED
      BY <1>1, <1>2, FS_Subset
  <1>4. Cardinality(A) \in Nat /\ Cardinality(B) \in Nat
    BY <1>2, <1>3, FS_CardinalityType
  <1>5. Cardinality(B) <= n
    BY DEF FirstRows
  <1> HIDE DEF A, B
  <1>6. Cardinality(A) <= n
    BY <1>3, <1>4, <1>5
  <1>7. QED
    BY <1>6 DEF FirstRows, A

\* A page that does not have as many rows as it could have has all of them.
LEMMA FirstRowsAll ==
    ASSUME NEW S \in SUBSET Nat, NEW N \in Nat, \A s \in S : s <= N, NEW n \in Nat \ {0},
           Cardinality(FirstRows(S, n)) # n
    PROVE  FirstRows(S, n) = S
  <1> DEFINE R == FirstRows(S, n)
  <1>0. IsFiniteSet(S)
    BY FS_BoundedSetOfNaturals
  <1>1. R \subseteq S /\ \A s \in R : Cardinality({u \in S : u <= s}) <= n
    BY DEF FirstRows
  <1>2. IsFiniteSet(R) /\ Cardinality(R) \in Nat
    BY <1>0, <1>1, FS_Subset, FS_CardinalityType
  <1>3. \A s \in R : \A u \in S : u <= s => u \in R
    BY <1>0, FirstRowsInitial
  <1>4. Cardinality(R) # n
    OBVIOUS
  <1>r. ASSUME NEW s \in S, Cardinality({u \in S : u <= s}) <= n PROVE s \in R
    BY <1>r DEF FirstRows
  <1> HIDE DEF R
  <1>5. Cardinality(R) <= n
    <2>1. CASE R = {}
      BY <2>1, FS_EmptySet
    <2>2. CASE R # {}
      <3>1. R \in SUBSET (0..N)
        BY <1>1
      <3>2. PICK m \in R : \A u \in R : u <= m
        BY <2>2, <3>1, GreatestNumber
      <3>3. {u \in S : u <= m} = R
        BY <1>1, <1>3, <3>2
      <3>4. QED
        BY <1>1, <3>2, <3>3
    <2>3. QED
      BY <2>1, <2>2
  <1>6. SUFFICES ASSUME S \ R # {} PROVE FALSE
    BY <1>1 DEF R
  <1>7. PICK s \in S \ R : \A u \in S \ R : s <= u
    <2>1. S \ R \in SUBSET Nat
      OBVIOUS
    <2>2. QED
      BY <1>6, <2>1, LeastNumber
  <1>8. {u \in S : u <= s} = R \cup {s}
    <2>1. ASSUME NEW u \in S, u <= s PROVE u \in R \cup {s}
      BY <1>7, <2>1
    <2>2. ASSUME NEW u \in R PROVE u <= s
      BY <1>1, <1>3, <1>7
    <2>3. QED
      BY <1>1, <1>7, <2>1, <2>2
  <1>9. Cardinality(R \cup {s}) = Cardinality(R) + 1
    BY <1>2, <1>7, FS_AddElement
  <1>10. Cardinality(R) + 1 <= n
    BY <1>2, <1>4, <1>5
  <1>11. QED
    BY <1>7, <1>8, <1>9, <1>10, <1>r

Numbered(t) == \A s \in DOMAIN t : s > 0

\* What the reader has not got behind its cursor was hidden from it, or is in a
\* transaction that was open when the cursor went by.
Behind(q) ==
    /\ q.run \in DOMAIN runs /\ q.cursor \in Nat /\ q.cursor < nextSeq
    /\ \A c \in Replicas : \A n \in DOMAIN req[c].mine : n <= q.cursor => n \in q.hidden
    /\ \A s \in Matching(q) : s <= q.cursor => s \in q.seen \cup q.hidden

ReaderFields == {"pc", "run", "tenant", "ask", "cursor", "seen", "hidden", "due"}

ReadsInv ==
    /\ Numbered(events) /\ \A c \in Replicas : Numbered(req[c].mine)
    /\ DOMAIN rd = ReaderFields /\ rd.pc \in {"idle", "more", "done"}
    /\ rd.pc = "more" => Behind(rd) /\ rd.ask \in Queries
    /\ ReadersComplete

\* The page a reader gets continues what it has.
LEMMA PageOK ==
    ASSUME Typed, RowsInv, NEW q, DOMAIN q = ReaderFields,
           Behind(q), q.ask \in Queries
    PROVE  LET n == AfterPage(q)
           IN  /\ DOMAIN n = ReaderFields /\ n.pc \in {"more", "done"} /\ n.ask = q.ask
               /\ n.pc = "more" => Behind(n)
               /\ n.pc = "done" /\ (n.ask.kind = "timeline" \/ n.ask.limit \in 1..QueryCap)
                     => n.due \subseteq n.seen \cup n.hidden
  <1> DEFINE S == {s \in Matching(q) : s > q.cursor}
             l == RowLimit(q.ask)
             rows == Page(q)
             more == rows # {} /\ Cardinality(rows) = q.ask.limit
             n == AfterPage(q)
  <1>1. /\ DOMAIN n = ReaderFields /\ n.ask = q.ask /\ n.run = q.run /\ n.tenant = q.tenant
        /\ n.pc = (IF more THEN "more" ELSE "done")
        /\ n.cursor = (IF rows = {} THEN q.cursor ELSE Newest(rows))
        /\ n.seen = q.seen \cup rows /\ n.hidden = q.hidden \cup OpenNumbers
        /\ n.due = (IF more THEN {} ELSE Matching(q))
    BY DEF AfterPage, ReaderFields
  <1>2. /\ DOMAIN events \subseteq Nat /\ nextSeq \in Nat /\ \A s \in DOMAIN events : s < nextSeq
    BY Numbers
  <1>3. Matching(q) \subseteq DOMAIN events
    BY DEF Matching, OfRun
  <1>4. S \in SUBSET Nat /\ nextSeq \in Nat /\ \A s \in S : s <= nextSeq /\ s < nextSeq
    BY <1>2, <1>3
  <1>5. IsFiniteSet(S)
    BY <1>4, FS_BoundedSetOfNaturals
  <1>6. /\ l \in Nat \ {0}
        /\ q.ask.kind = "timeline" \/ q.ask.limit \in 1..QueryCap => l = q.ask.limit
    BY ReadsCap, ReadsQueries DEF RowLimit
  <1>7. rows = FirstRows(S, l)
    BY DEF Page
  <1> HIDE DEF l, S, rows, n
  <1>8. rows \subseteq S /\ \A s \in rows : \A u \in S : u <= s => u \in rows
    <2>1. rows \subseteq S
      BY <1>7 DEF FirstRows
    <2>2. QED
      BY <1>4, <1>5, <1>6, <1>7, <2>1, FirstRowsInitial
  <1>9. Cardinality(rows) # l => rows = S
    BY <1>4, <1>6, <1>7, FirstRowsAll
  <1>10. rows = {} => S = {}
    BY <1>6, <1>9, FS_EmptySet
  <1>11. ASSUME rows # {} PROVE Newest(rows) \in rows /\ \A u \in rows : u <= Newest(rows)
    <2>1. rows \in SUBSET (0..nextSeq)
      BY <1>4, <1>8
    <2>2. \E s \in rows : \A u \in rows : u <= s
      BY <1>4, <1>11, <2>1, GreatestNumber
    <2>3. QED
      BY <2>2 DEF Newest
  <1>12. \A s \in Matching(q) : s \in S \/ s \in q.seen \cup q.hidden
    BY <1>2, <1>3 DEF Behind, S
  <1>13. ASSUME n.pc = "more" PROVE Behind(n)
    <2>1. more /\ n.cursor = Newest(rows) /\ n.cursor \in rows
      BY <1>1, <1>11, <1>13
    <2>2. n.cursor \in Nat /\ n.cursor < nextSeq
      BY <1>4, <1>8, <2>1
    <2>3. \A c \in Replicas : \A x \in DOMAIN req[c].mine : x \in n.hidden
      BY <1>1 DEF OpenNumbers
    <2>4. Matching(n) = Matching(q)
      BY <1>1 DEF Matching
    <2>5. \A s \in Matching(q) : s <= n.cursor => s \in n.seen \cup n.hidden
      BY <1>1, <1>8, <1>12, <2>1
    <2>6. n.run \in DOMAIN runs
      BY <1>1 DEF Behind
    <2>7. QED
      BY <2>2, <2>3, <2>4, <2>5, <2>6 DEF Behind
  <1>14. ASSUME n.pc = "done", q.ask.kind = "timeline" \/ q.ask.limit \in 1..QueryCap
         PROVE  n.due \subseteq n.seen \cup n.hidden
    <2>1. ~more /\ n.due = Matching(q) /\ l = q.ask.limit
      BY <1>1, <1>6, <1>14
    <2>2. rows = S
      BY <1>8, <1>9, <1>10, <2>1
    <2>3. QED
      BY <1>1, <1>12, <2>1, <2>2
  <1>15. QED
    BY <1>1, <1>13, <1>14 DEF n

\* A replica's step hides nothing from the reader that is behind its cursor.
LEMMA MovesReader ==
    ASSUME Typed, RowsInv, ReadsInv, Moves, UNCHANGED rd
    PROVE  ReadsInv'
  <1>k. Keeps
    BY MovesKeep
  <1>n. /\ DOMAIN events \subseteq Nat /\ nextSeq \in Nat /\ nextSeq > 0
        /\ \A c \in Replicas : DOMAIN req[c].mine \subseteq Nat
    BY Numbers DEF Typed
  <1> DEFINE Opens(d) == \A x \in DOMAIN req'[d].mine : x \in DOMAIN req[d].mine \/ x = nextSeq
             Adds == \A x \in DOMAIN events' : x \in DOMAIN events \/ \E d \in Replicas : x \in DOMAIN req[d].mine
  <1>1. nextSeq' \in Nat /\ nextSeq <= nextSeq' /\ Adds /\ \A d \in Replicas : Opens(d)
    <2>0. ASSUME NEW c \in Replicas, NEW q, req' = [req EXCEPT ![c] = q],
                 \A x \in DOMAIN q.mine : x \in DOMAIN req[c].mine \/ x = nextSeq
          PROVE  \A d \in Replicas : Opens(d)
      BY <2>0, OneRequest
    <2>1. ASSUME NEW c \in Replicas, NEW q, TakesUp(c, q)
          PROVE  nextSeq' = nextSeq /\ events' = events /\ \A d \in Replicas : Opens(d)
      BY <2>0, <2>1, EmptyTableOK DEF TakesUp
    <2>2. ASSUME NEW c \in Replicas, InsertRun(c) \/ RejectType(c) \/ StatementFails(c)
          PROVE  nextSeq' = nextSeq /\ events' = events /\ \A d \in Replicas : Opens(d)
      <3>1. req' = [req EXCEPT ![c] = NoRequest] /\ nextSeq' = nextSeq /\ events' = events
        BY <2>2, InsertRunStep, EndsStep DEF Abort
      <3>2. QED
        BY <2>0, <3>1, NoRequestOK, EmptyTableOK
    <2>3. ASSUME NEW c \in Replicas, CheckKey(c)
          PROVE  nextSeq' = nextSeq /\ events' = events /\ \A d \in Replicas : Opens(d)
      <3>1. PICK q : req' = [req EXCEPT ![c] = q] /\ q.mine = req[c].mine
        BY <2>3, CheckKeyStep
      <3>2. QED
        BY <2>0, <2>3, <3>1, CheckKeyStep
    <2>4. ASSUME NEW c \in Replicas, Insert(c)
          PROVE  nextSeq' = nextSeq + 1 /\ events' = events /\ \A d \in Replicas : Opens(d)
      <3>1. PICK q, e : req' = [req EXCEPT ![c] = q] /\ q.mine = Put(req[c].mine, nextSeq, e)
        BY <2>4, InsertStep DEF Inserts
      <3>2. DOMAIN q.mine = DOMAIN req[c].mine \cup {nextSeq}
        BY <3>1 DEF Put
      <3>3. QED
        BY <2>0, <2>4, <3>1, <3>2, InsertStep
    <2>5. ASSUME NEW c \in Replicas, InsertClash(c)
          PROVE  nextSeq' = nextSeq /\ events' = events /\ \A d \in Replicas : Opens(d)
      <3>1. PICK q : req' = [req EXCEPT ![c] = q] /\ q.mine = EmptyTable
        BY <2>5, ClashStep, NoRequestOK DEF Abort
      <3>2. QED
        BY <2>0, <2>5, <3>1, ClashStep, EmptyTableOK
    <2>6. ASSUME NEW c \in Replicas, Commit(c)
          PROVE  nextSeq' = nextSeq /\ Adds /\ \A d \in Replicas : Opens(d)
      <3>1. req' = [req EXCEPT ![c] = NoRequest] /\ nextSeq' = nextSeq /\ events' = Seen(req[c])
        BY <2>6, CommitStep DEF Abort
      <3>2. DOMAIN events' = DOMAIN events \cup DOMAIN req[c].mine
        BY <3>1, SeenIsView, ViewOK
      <3>3. \A d \in Replicas : Opens(d)
        BY <2>0, <3>1, NoRequestOK, EmptyTableOK
      <3>4. QED
        BY <3>1, <3>2, <3>3
    <2>8. events' = events => Adds
      OBVIOUS
    <2> HIDE DEF Opens, Adds
    <2> DEFINE Counts == nextSeq' = nextSeq \/ nextSeq' = nextSeq + 1
               Goal == Counts /\ Adds /\ \A d \in Replicas : Opens(d)
    <2>9. Goal
      <3>1. ASSUME NEW c \in Replicas, Statement(c) PROVE Goal
        BY <2>2, <2>3, <2>4, <2>5, <2>6, <2>8, <3>1 DEF Statement
      <3>2. ASSUME NEW c \in Replicas, NEW q, TakesUp(c, q) PROVE Goal
        BY <2>1, <2>8, <3>2
      <3>3. CASE UNCHANGED vars
        BY <2>8, <3>3 DEF vars, Opens
      <3> HIDE DEF Goal
      <3>4. ASSUME NEW c \in Replicas, Statement(c) \/ \E q : TakesUp(c, q) PROVE Goal
        BY <3>1, <3>2, <3>4
      <3>5. QED
        BY <3>3, <3>4 DEF Moves
    <2>10. QED
      BY <1>n, <2>9
  <1>2. Numbered(events)' /\ \A c \in Replicas : Numbered(req[c].mine)'
    BY <1>1, <1>n DEF ReadsInv, Numbered
  <1>3. ASSUME rd.pc = "more" PROVE Behind(rd)'
    <2>1. Behind(rd)
      BY <1>3 DEF ReadsInv
    <2>2. rd.run \in DOMAIN runs' /\ runs'[rd.run].tenant = runs[rd.run].tenant
      BY <1>k, <2>1 DEF Keeps, Behind
    <2>3. rd.cursor \in Nat /\ rd.cursor < nextSeq /\ rd.cursor < nextSeq'
      BY <1>1, <1>n, <2>1 DEF Behind
    <2>4. ASSUME NEW c \in Replicas, NEW x \in DOMAIN req'[c].mine, x <= rd.cursor
          PROVE  x \in rd.hidden
      <3>1. x \in DOMAIN req[c].mine
        BY <1>1, <1>n, <2>3, <2>4
      <3>2. QED
        BY <2>1, <2>4, <3>1 DEF Behind
    <2>5. ASSUME NEW s \in Matching(rd)', s <= rd.cursor
          PROVE  s \in rd.seen \cup rd.hidden
      <3>1. /\ s \in DOMAIN events' /\ events'[s].run = rd.run
            /\ rd.ask.types # {} => events'[s].type \in rd.ask.types
            /\ runs'[rd.run].tenant = rd.tenant
        BY <2>5 DEF Matching, OfRun
      <3>2. CASE s \in DOMAIN events
        <4>1. events'[s] = events[s]
          BY <1>k, <3>2 DEF Keeps
        <4>2. s \in Matching(rd)
          BY <2>2, <3>1, <3>2, <4>1 DEF Matching, OfRun
        <4>3. QED
          BY <2>1, <2>5, <4>2 DEF Behind
      <3>3. CASE s \notin DOMAIN events
        BY <1>1, <2>1, <2>5, <3>1, <3>3 DEF Behind
      <3>4. QED
        BY <3>2, <3>3
    <2>6. QED
      BY <2>2, <2>3, <2>4, <2>5 DEF Behind
  <1>4. QED
    BY <1>2, <1>3 DEF ReadsInv, ReadersComplete

\* The reader's next page, or its first one, keeps the invariant.
LEMMA PageReads ==
    ASSUME Typed, RowsInv, ReadsInv, NEW q, DOMAIN q = ReaderFields, Behind(q), q.ask \in Queries,
           rd' = AfterPage(q), UNCHANGED vars
    PROVE  ReadsInv'
  <1> DEFINE n == AfterPage(q)
  <1>1. /\ DOMAIN n = ReaderFields /\ n.pc \in {"more", "done"} /\ n.ask = q.ask
        /\ n.pc = "more" => Behind(n)
        /\ n.pc = "done" /\ (n.ask.kind = "timeline" \/ n.ask.limit \in 1..QueryCap)
              => n.due \subseteq n.seen \cup n.hidden
    BY PageOK
  <1> HIDE DEF n
  <1>2. rd' = n
    BY DEF n
  <1>3. UNCHANGED <<runs, events, nextSeq, req>>
    BY DEF vars
  <1>4. Numbered(events)' /\ \A c \in Replicas : Numbered(req[c].mine)'
    BY <1>3 DEF ReadsInv, Numbered
  <1>5. rd'.pc = "more" => Behind(rd)'
    BY <1>1, <1>2, <1>3 DEF Behind, Matching, OfRun
  <1>6. ReadersComplete'
    BY <1>1, <1>2 DEF ReadersComplete
  <1>7. QED
    BY <1>1, <1>2, <1>4, <1>5, <1>6 DEF ReadsInv

\* A reader that asks for its first page has passed nothing yet.
LEMMA FirstPage ==
    ASSUME Typed, RowsInv, ReadsInv, NEW r \in DOMAIN runs, NEW t, NEW ask \in Queries
    PROVE  LET q == [NoReader EXCEPT !.run = r, !.tenant = t, !.ask = ask]
           IN  DOMAIN q = ReaderFields /\ Behind(q) /\ q.ask \in Queries
  <1> DEFINE q == [NoReader EXCEPT !.run = r, !.tenant = t, !.ask = ask]
  <1>1. DOMAIN q = ReaderFields /\ q.run = r /\ q.cursor = 0 /\ q.ask = ask
    BY DEF NoReader, ReaderFields
  <1> HIDE DEF q
  <1>2. /\ DOMAIN events \subseteq Nat /\ nextSeq \in Nat /\ nextSeq > 0
        /\ \A c \in Replicas : DOMAIN req[c].mine \subseteq Nat
    BY Numbers DEF Typed
  <1>3. Matching(q) \subseteq DOMAIN events
    BY DEF Matching, OfRun
  <1>4. /\ \A s \in Matching(q) : ~(s <= q.cursor)
        /\ \A c \in Replicas : \A n \in DOMAIN req[c].mine : ~(n <= q.cursor)
    BY <1>1, <1>2, <1>3 DEF ReadsInv, Numbered
  <1>5. QED
    BY <1>1, <1>2, <1>4 DEF Behind, q

-----------------------------------------------------------------------------
(* Evidence export: the invariant.                                         *)

Whole(x) == [by |-> {x}, closed |-> TRUE]

LastOpened(r) == opened[r][Len(opened[r])]

\* Export x opened the file of run r last, and had it to itself.
Alone(x, r) == LastOpened(r) = x /\ x \notin overlapped

\* What a bundle says of its run, its tenant and its events is so.
BundleOK(r, t, evs, valid) ==
    /\ r \in DOMAIN runs /\ runs[r].tenant = t
    /\ evs \subseteq OfRun(events, r)
    /\ valid => Linked([s \in evs |-> events[s]])

\* The predecessors of the events read, as far as they are events of the run,
\* were read as well.
Followed(r, evs) ==
    \A s \in evs : \/ events[s].prev = NoHash
                   \/ \E u \in DOMAIN events : /\ events[u].hash = events[s].prev
                                               /\ events[u].run = r => u \in evs

\* What an export knows of the file.
FileOK(q) ==
    /\ q.pc \in {"write", "hash", "insert"} => opened[q.run] # <<>>
    /\ q.pc \in {"write", "hash"} => LastOpened(q.run) = q.id \/ LastOpened(q.run) \in overlapped
    /\ q.pc = "write" /\ Alone(q.id, q.run) => file[q.run].by = {q.id}
    /\ q.pc \in {"hash", "insert"} /\ Alone(q.id, q.run) => file[q.run] = Whole(q.id)
    /\ q.pc = "insert" /\ Alone(q.id, q.run) => q.hash = Whole(q.id)

ExportFields == {"pc", "id", "run", "tenant", "evs", "valid", "hash"}

ExportOK(q) ==
    /\ DOMAIN q = ExportFields /\ q.pc \in {"verify", "open", "write", "hash", "insert", "append"}
    /\ q.id \in started \cap ExportIds /\ (q.pc # "append" => q.id \notin DOMAIN exports)
    /\ BundleOK(q.run, q.tenant, q.evs, q.valid)
    /\ q.pc = "verify" => Followed(q.run, q.evs)
    /\ FileOK(q)

StoredOK(x, e) ==
    /\ BundleOK(e.run, e.tenant, e.evs, e.valid)
    /\ opened[e.run] # <<>>
    /\ Alone(x, e.run) => e.hash = Whole(x) /\ file[e.run] = Whole(x)

ExportsInv ==
    /\ file \in [RunIds -> [by : SUBSET ExportIds, closed : BOOLEAN]]
    /\ opened \in [RunIds -> Seq(ExportIds)]
    /\ \A r \in RunIds : opened[r] # <<>> => file[r].by # {}
    /\ ex = [c \in Replicas |-> ex[c]]
    /\ \A c \in Replicas : ex[c] = NoExport \/ ExportOK(ex[c])
    /\ \A c, d \in Replicas : c # d /\ ex[c] # NoExport /\ ex[d] # NoExport => ex[c].id # ex[d].id
    /\ DOMAIN exports \subseteq started
    /\ \A x \in DOMAIN exports : StoredOK(x, exports[x])

\* Rows that are kept stay what a bundle says of them.
LEMMA BundleStays ==
    ASSUME Keeps, NEW r, NEW t, NEW evs, NEW valid, BundleOK(r, t, evs, valid)
    PROVE  BundleOK(r, t, evs, valid)'
  <1>1. r \in DOMAIN runs' /\ runs'[r].tenant = t
    BY DEF Keeps, BundleOK
  <1>2. \A s \in evs : s \in DOMAIN events /\ s \in DOMAIN events' /\ events'[s] = events[s] /\ events[s].run = r
    BY DEF Keeps, BundleOK, OfRun
  <1>3. [s \in evs |-> events'[s]] = [s \in evs |-> events[s]]
    BY <1>2
  <1>4. evs \subseteq OfRun(events', r)
    BY <1>2 DEF OfRun
  <1>5. valid => Linked([s \in evs |-> events'[s]])
    BY <1>3 DEF BundleOK
  <1>6. QED
    BY <1>1, <1>4, <1>5 DEF BundleOK

LEMMA FollowedStays ==
    ASSUME Keeps, NEW r, NEW evs, evs \subseteq DOMAIN events, Followed(r, evs)
    PROVE  Followed(r, evs)'
  BY DEF Keeps, Followed

\* Two rows with one hash are one row.
LEMMA OneHash ==
    ASSUME Typed, RowsInv, HeadsInv, NEW u \in DOMAIN events, NEW w \in DOMAIN events,
           events[u].hash = events[w].hash
    PROVE  u = w
  <1>1. PICK e \in EventRow : e = events[u]
    BY DEF Typed, IsTable
  <1>2. PICK f \in EventRow : f = events[w]
    BY DEF Typed, IsTable
  <1>3. Append(e.prev, Content(e)) = Append(f.prev, Content(f))
    BY <1>1, <1>2 DEF HeadsInv, Hashed, EventHash
  <1>4. Content(e) = Content(f)
    <2>1. \E H : e.prev \in Seq(H) /\ f.prev \in Seq(H)
      BY <1>1, <1>2 DEF EventRow, Hash
    <2> DEFINE x == Content(e)
               y == Content(f)
    <2> HIDE DEF x, y
    <2>2. x = y
      <3>0. PICK H : e.prev \in Seq(H) /\ f.prev \in Seq(H)
        BY <2>1
      <3>1. PICK a \in Seq(H), b \in Seq(H) : a = e.prev /\ b = f.prev
        BY <3>0
      <3>2. Append(a, x) = Append(b, y)
        BY <1>3, <3>1 DEF x, y
      <3>3. Len(Append(a, x)) = Len(a) + 1 /\ Len(Append(b, y)) = Len(b) + 1
        OBVIOUS
      <3>4. Len(a) = Len(b) /\ Len(a) \in Nat
        BY <3>2, <3>3
      <3>5. Append(a, x)[Len(a) + 1] = x /\ Append(b, y)[Len(b) + 1] = y
        OBVIOUS
      <3>6. QED
        BY <3>2, <3>4, <3>5
    <2>3. QED
      BY <2>2 DEF x, y
  <1>5. Content(e)["id"] = e.id /\ Content(f)["id"] = f.id
    BY DEF Content, EventRow
  <1>6. Clash(events[u], events[w])
    BY <1>1, <1>2, <1>4, <1>5 DEF Clash
  <1>7. QED
    BY <1>6 DEF RowsInv, Sound

\* The verdict on the events of a later moment is one on the events that were
\* read: the predecessor of an event read is not one that was appended since.
LEMMA VerdictHolds ==
    ASSUME Typed, RowsInv, HeadsInv, NEW r, NEW evs, evs \subseteq OfRun(events, r),
           Followed(r, evs), verify(r)
    PROVE  Linked([s \in evs |-> events[s]])
  <1> DEFINE t == [s \in evs |-> events[s]]
  <1>1. /\ DOMAIN t = evs /\ \A s \in evs : t[s] = events[s] /\ s \in DOMAIN events
        /\ \A s \in evs : events[s].run = r
    BY DEF OfRun
  <1> HIDE DEF t
  <1>2. OfRun(t, r) = evs
    BY <1>1 DEF OfRun
  <1>3. ASSUME NEW s \in evs
        PROVE  t[s].hash = EventHash(t[s]) /\ HeadIs(t, Before(t, t[s].run, s), t[s].prev)
    <2>0. s \in OfRun(events, r) /\ t[s] = events[s] /\ t[s].run = r
      BY <1>1
    <2>1. events[s].hash = EventHash(events[s]) /\ HeadIs(events, Before(events, r, s), events[s].prev)
      BY <2>0 DEF verify
    <2> DEFINE B == Before(events, r, s)
               C == Before(t, r, s)
    <2>2. C \subseteq B /\ \A u \in B : u \in evs => u \in C
      BY <1>1, <1>2 DEF Before, OfRun
    <2>2a. B \subseteq DOMAIN events /\ \A u \in B : events[u].run = r
      BY DEF Before, OfRun
    <2>3. ASSUME B = {}, events[s].prev = NoHash PROVE HeadIs(t, C, t[s].prev)
      BY <2>0, <2>1, <2>2, <2>3 DEF HeadIs
    <2>4. ASSUME NEW u \in B, \A v \in B : v <= u, events[s].prev = events[u].hash
          PROVE  HeadIs(t, C, t[s].prev)
      <3>0. u \in DOMAIN events /\ events[u].run = r
        BY <2>2a
      <3>1. events[u].hash # NoHash
        <4>1. events[u].hash = Append(events[u].prev, Content(events[u])) /\ events[u].prev \in Hash
          BY <3>0 DEF HeadsInv, Hashed, EventHash, Typed, IsTable, EventRow
        <4>2. PICK H : events[u].prev \in Seq(H)
          BY <4>1 DEF Hash
        <4>3. PICK a \in Seq(H) : a = events[u].prev
          BY <4>2
        <4>3a. PICK x : x = Content(events[u])
          OBVIOUS
        <4>4. Append(a, x) # <<>>
          OBVIOUS
        <4>5. QED
          BY <4>1, <4>3, <4>3a, <4>4 DEF NoHash
      <3>2. PICK w \in DOMAIN events : /\ events[w].hash = events[s].prev
                                       /\ events[w].run = r => w \in evs
        BY <2>4, <3>1 DEF Followed
      <3>3. w = u
        BY <2>4, <3>0, <3>2, OneHash
      <3>4. u \in C /\ t[u].hash = events[u].hash
        BY <1>1, <2>2, <3>0, <3>2, <3>3
      <3>5. QED
        BY <2>0, <2>2, <2>4, <3>4 DEF HeadIs
    <2>4a. \/ B = {} /\ events[s].prev = NoHash
           \/ \E u \in B : (\A v \in B : v <= u) /\ events[s].prev = events[u].hash
      BY <2>1 DEF HeadIs
    <2> HIDE DEF B, C
    <2>5. HeadIs(t, C, t[s].prev)
      BY <2>3, <2>4, <2>4a
    <2>6. QED
      BY <2>0, <2>1, <2>5 DEF C
  <1>4. Linked(t)
    BY <1>1, <1>3 DEF Linked
  <1>5. QED
    BY <1>4 DEF t

\* What an export reads first: all events of the run, and so all predecessors.
LEMMA ReadFollowed ==
    ASSUME HeadsInv, NEW r PROVE Followed(r, OfRun(events, r))
  BY DEF HeadsInv, Known, Followed, OfRun

\* An export of another replica that keeps its place in the file, or has lost it
\* to an overlap, still knows what it knew.
LEMMA OthersStay ==
    ASSUME ExportsInv, Keeps, NEW I,
           \A r \in RunIds : opened[r] # <<>> => opened'[r] # <<>>,
           \A r \in RunIds : \A x : x \notin I /\ Alone(x, r)' => Alone(x, r) /\ file'[r] = file[r],
           started \subseteq started', DOMAIN exports' \subseteq DOMAIN exports \cup I, Typed
    PROVE  /\ \A q : /\ ExportOK(q) /\ q.id \notin I
                     /\ q.pc \in {"write", "hash"} =>
                           (LastOpened(q.run) = q.id \/ LastOpened(q.run) \in overlapped)'
                     => ExportOK(q)'
           /\ \A x, e : StoredOK(x, e) /\ x \notin I => StoredOK(x, e)'
  <1>0. DOMAIN runs \subseteq RunIds
    BY DEF Typed, IsTable
  <1>1. ASSUME NEW q, ExportOK(q), q.id \notin I,
               q.pc \in {"write", "hash"} =>
                  (LastOpened(q.run) = q.id \/ LastOpened(q.run) \in overlapped)'
        PROVE  ExportOK(q)'
    <2>1. BundleOK(q.run, q.tenant, q.evs, q.valid)'
      BY <1>1, BundleStays DEF ExportOK
    <2>2. q.run \in RunIds /\ q.evs \subseteq DOMAIN events
      BY <1>0, <1>1 DEF ExportOK, BundleOK, OfRun
    <2>3. q.pc = "verify" => Followed(q.run, q.evs)'
      BY <1>1, <2>2, FollowedStays DEF ExportOK
    <2>4. FileOK(q)
      BY <1>1 DEF ExportOK
    <2>5. Alone(q.id, q.run)' => Alone(q.id, q.run) /\ file'[q.run] = file[q.run]
      BY <1>1, <2>2
    <2>6. FileOK(q)'
      BY <1>1, <2>2, <2>4, <2>5 DEF FileOK
    <2>7. q.id \in started' /\ (q.pc # "append" => q.id \notin DOMAIN exports')
      BY <1>1 DEF ExportOK
    <2>8. QED
      BY <1>1, <2>1, <2>3, <2>6, <2>7 DEF ExportOK
  <1>2. ASSUME NEW x, NEW e, StoredOK(x, e), x \notin I PROVE StoredOK(x, e)'
    <2>1. BundleOK(e.run, e.tenant, e.evs, e.valid)'
      BY <1>2, BundleStays DEF StoredOK
    <2>2. e.run \in RunIds
      BY <1>0, <1>2 DEF StoredOK, BundleOK
    <2>3. QED
      BY <1>2, <2>1, <2>2 DEF StoredOK
  <1>3. QED
    BY <1>1, <1>2

\* The other replicas and the stored exports are as they were; what remains is
\* the replica that moved, the files and the export it may have stored.
LEMMA ExportMove ==
    ASSUME ExportsInv, NEW c \in Replicas, NEW n, ex' = [ex EXCEPT ![c] = n],
           n = NoExport \/ ExportOK(n)',
           \A d \in Replicas : d # c /\ ex[d] # NoExport /\ n # NoExport => ex[d].id # n.id,
           \A d \in Replicas : d # c /\ ex[d] # NoExport => ExportOK(ex[d])',
           file' \in [RunIds -> [by : SUBSET ExportIds, closed : BOOLEAN]],
           opened' \in [RunIds -> Seq(ExportIds)],
           \A r \in RunIds : opened'[r] # <<>> => file'[r].by # {},
           DOMAIN exports' \subseteq started',
           \A x \in DOMAIN exports' : StoredOK(x, exports[x])'
    PROVE  ExportsInv'
  <1>1. ex'[c] = n /\ \A d \in Replicas : d # c => ex'[d] = ex[d]
    BY DEF ExportsInv
  <1>2. ASSUME NEW d \in Replicas PROVE ex'[d] = NoExport \/ ExportOK(ex[d])'
    <2>1. CASE d = c
      BY <1>1, <2>1
    <2>2. CASE d # c
      BY <1>1, <2>2 DEF ExportsInv
    <2>3. QED
      BY <2>1, <2>2
  <1>3. ex' = [d \in Replicas |-> ex'[d]]
    BY DEF ExportsInv
  <1>4. ASSUME NEW d \in Replicas, NEW e \in Replicas, d # e, ex'[d] # NoExport, ex'[e] # NoExport
        PROVE  ex'[d].id # ex'[e].id
    BY <1>1, <1>4 DEF ExportsInv
  <1>5. QED
    BY <1>2, <1>3, <1>4 DEF ExportsInv

\* A step that leaves the files alone.
LEMMA QuietMove ==
    ASSUME Typed, ExportsInv, Keeps, NEW c \in Replicas, NEW n, ex' = [ex EXCEPT ![c] = n],
           UNCHANGED <<file, opened, overlapped, exports>>, started \subseteq started',
           n = NoExport \/ ExportOK(n)',
           \A d \in Replicas : d # c /\ ex[d] # NoExport /\ n # NoExport => ex[d].id # n.id
    PROVE  ExportsInv'
  <1>0. PICK I : I = {}
    OBVIOUS
  <1>1. /\ \A r \in RunIds : opened[r] # <<>> => opened'[r] # <<>>
        /\ \A r \in RunIds : \A x : x \notin I /\ Alone(x, r)' => Alone(x, r) /\ file'[r] = file[r]
        /\ DOMAIN exports' \subseteq DOMAIN exports \cup I
    BY DEF Alone, LastOpened
  <1>2. /\ \A q : /\ ExportOK(q) /\ q.id \notin I
                  /\ q.pc \in {"write", "hash"} =>
                        (LastOpened(q.run) = q.id \/ LastOpened(q.run) \in overlapped)'
                  => ExportOK(q)'
        /\ \A x, e : StoredOK(x, e) /\ x \notin I => StoredOK(x, e)'
    BY <1>1, OthersStay
  <1>3. ASSUME NEW q, ExportOK(q) PROVE ExportOK(q)'
    <2>1. q.pc \in {"write", "hash"} =>
              (LastOpened(q.run) = q.id \/ LastOpened(q.run) \in overlapped)'
      BY <1>3 DEF ExportOK, FileOK, LastOpened
    <2>2. QED
      BY <1>0, <1>2, <1>3, <2>1
  <1>4. ASSUME NEW d \in Replicas, d # c, ex[d] # NoExport PROVE ExportOK(ex[d])'
    <2>1. PICK q : q = ex[d]
      OBVIOUS
    <2>2. ex'[d] = q /\ ExportOK(q)
      BY <1>4, <2>1 DEF ExportsInv
    <2>3. QED
      BY <1>3, <2>2
  <1>5. ASSUME NEW x \in DOMAIN exports' PROVE StoredOK(x, exports[x])'
    <2>1. PICK e : e = exports[x]
      OBVIOUS
    <2>2. exports'[x] = e /\ StoredOK(x, e)
      BY <2>1 DEF ExportsInv
    <2>3. QED
      BY <1>0, <1>2, <2>2
  <1>6. /\ file' \in [RunIds -> [by : SUBSET ExportIds, closed : BOOLEAN]]
        /\ opened' \in [RunIds -> Seq(ExportIds)]
        /\ \A r \in RunIds : opened'[r] # <<>> => file'[r].by # {}
        /\ DOMAIN exports' \subseteq started'
    BY DEF ExportsInv
  <1>7. QED
    BY <1>4, <1>5, <1>6, ExportMove

LEMMA NoExportOK == NoExport.pc = "idle" /\ \A q : q.pc # "idle" => q # NoExport
  BY DEF NoExport

\* The export that a replica is working on.
LEMMA Working ==
    ASSUME ExportsInv, Typed, NEW c \in Replicas, ex[c].pc # "idle"
    PROVE  /\ ex[c] # NoExport /\ ExportOK(ex[c]) /\ ex[c].run \in RunIds /\ ex[c].id \in ExportIds
           /\ \A d \in Replicas : d # c /\ ex[d] # NoExport => ex[d].id # ex[c].id
  <1>1. ex[c] # NoExport
    BY NoExportOK
  <1>2. ExportOK(ex[c])
    BY <1>1 DEF ExportsInv
  <1>3. ex[c].run \in RunIds /\ ex[c].id \in ExportIds
    BY <1>2 DEF ExportOK, BundleOK, Typed, IsTable
  <1>4. QED
    BY <1>1, <1>2, <1>3 DEF ExportsInv

\* The first session reads events whose predecessors it reads as well.
LEMMA ExportRunOK ==
    ASSUME Typed, RowsInv, HeadsInv, ExportsInv, NEW c \in Replicas, NEW r, NEW t, NEW x, export_run(c, r, t, x)
    PROVE  ExportsInv'
  <1> DEFINE n == [pc |-> "verify", id |-> x, run |-> r, tenant |-> t,
                   evs |-> OfRun(events, r), valid |-> FALSE, hash |-> NoFile]
  <1>1. /\ ex' = [ex EXCEPT ![c] = n] /\ UNCHANGED <<file, opened, overlapped, exports, runs, events>>
        /\ x \in ExportIds /\ x \notin started /\ started' = started \cup {x} /\ Authorized(r, t)
    BY DEF export_run, vars
  <1>2. Keeps
    BY <1>1 DEF Keeps
  <1>3. /\ DOMAIN n = ExportFields /\ n.pc = "verify" /\ n.id = x /\ n.run = r /\ n.tenant = t
        /\ n.evs = OfRun(events, r) /\ n.valid = FALSE
    BY DEF ExportFields
  <1> HIDE DEF n
  <1>4. BundleOK(n.run, n.tenant, n.evs, n.valid) /\ Followed(n.run, n.evs)
    BY <1>1, <1>3, ReadFollowed DEF BundleOK, Authorized
  <1>5. x \notin DOMAIN exports
    BY <1>1 DEF ExportsInv
  <1>6. PICK m : m = n
    OBVIOUS
  <1>7. ExportOK(m)'
    <2>1. BundleOK(m.run, m.tenant, m.evs, m.valid)' /\ Followed(m.run, m.evs)'
      <3>1. BundleOK(m.run, m.tenant, m.evs, m.valid) /\ Followed(m.run, m.evs) /\ m.evs \subseteq DOMAIN events
        BY <1>3, <1>4, <1>6 DEF OfRun
      <3>2. QED
        BY <1>2, <3>1, BundleStays, FollowedStays
    <2>2. FileOK(m)'
      BY <1>3, <1>6 DEF FileOK
    <2>3. QED
      BY <1>1, <1>3, <1>5, <1>6, <2>1, <2>2 DEF ExportOK
  <1>8. \A d \in Replicas : d # c /\ ex[d] # NoExport => ex[d].id # m.id
    BY <1>1, <1>3, <1>6 DEF ExportsInv, ExportOK
  <1>9. QED
    BY <1>1, <1>2, <1>6, <1>7, <1>8, QuietMove

\* The verdict of the later session is about the events that were read.
LEMMA VerifiedOK ==
    ASSUME Typed, RowsInv, HeadsInv, ExportsInv, NEW c \in Replicas, Verified(c)
    PROVE  ExportsInv'
  <1>0. PICK q : q = ex[c]
    OBVIOUS
  <1> DEFINE n == [q EXCEPT !.pc = "open", !.valid = verify(q.run)]
  <1>1. /\ UNCHANGED <<file, opened, overlapped, exports, runs, events, started>> /\ q.pc = "verify"
        /\ ex' = [ex EXCEPT ![c].pc = "open", ![c].valid = verify(ex[c].run)]
    BY <1>0 DEF Verified, vars
  <1>2. Keeps
    BY <1>1 DEF Keeps
  <1>3. /\ q # NoExport /\ ExportOK(q) /\ q.run \in RunIds /\ q.id \in ExportIds
        /\ \A d \in Replicas : d # c /\ ex[d] # NoExport => ex[d].id # q.id
    BY <1>0, <1>1, Working
  <1>4. DOMAIN q = ExportFields
    BY <1>3 DEF ExportOK
  <1>5. /\ DOMAIN n = ExportFields /\ n.pc = "open" /\ n.id = q.id /\ n.run = q.run /\ n.tenant = q.tenant
        /\ n.evs = q.evs
    BY <1>4 DEF ExportFields
  <1>5a. n.valid = verify(q.run)
    BY <1>4 DEF ExportFields
  <1>6. ex' = [ex EXCEPT ![c] = n]
    BY <1>0, <1>1
  <1> HIDE DEF n
  <1>7. BundleOK(q.run, q.tenant, q.evs, q.valid) /\ Followed(q.run, q.evs)
    BY <1>1, <1>3 DEF ExportOK
  <1>8. n.valid => Linked([s \in q.evs |-> events[s]])
    <2>1. verify(q.run) => Linked([s \in q.evs |-> events[s]])
      BY <1>7, VerdictHolds DEF BundleOK
    <2>2. QED
      BY <1>5a, <2>1
  <1>9. PICK m : m = n
    OBVIOUS
  <1>10. ExportOK(m)'
    <2>1. BundleOK(m.run, m.tenant, m.evs, m.valid)
      BY <1>5, <1>7, <1>8, <1>9 DEF BundleOK
    <2>2. BundleOK(m.run, m.tenant, m.evs, m.valid)'
      BY <1>2, <2>1, BundleStays
    <2>3. FileOK(m)'
      BY <1>5, <1>9 DEF FileOK
    <2>4. QED
      BY <1>1, <1>3, <1>5, <1>9, <2>2, <2>3 DEF ExportOK
  <1>11. ex' = [ex EXCEPT ![c] = m] /\ \A d \in Replicas : d # c /\ ex[d] # NoExport => ex[d].id # m.id
    BY <1>3, <1>5, <1>6, <1>9
  <1>12. UNCHANGED <<file, opened, overlapped, exports>> /\ started \subseteq started'
    BY <1>1
  <1>13. QED
    BY <1>2, <1>10, <1>11, <1>12, QuietMove

\* A step to the next operation, with the hash of the row or without.
LEMMA NextOperation ==
    ASSUME NEW q, DOMAIN q = ExportFields, NEW p, NEW h
    PROVE  LET n == [q EXCEPT !.pc = p, !.hash = h]
           IN  /\ DOMAIN n = ExportFields /\ n.pc = p /\ n.hash = h /\ n.id = q.id /\ n.run = q.run
               /\ n.tenant = q.tenant /\ n.evs = q.evs /\ n.valid = q.valid
  BY DEF ExportFields

LEMMA HashFileOK ==
    ASSUME Typed, RowsInv, HeadsInv, ExportsInv, NEW c \in Replicas, HashFile(c)
    PROVE  ExportsInv'
  <1>0. PICK q : q = ex[c]
    OBVIOUS
  <1>0a. PICK h : h = file[q.run]
    OBVIOUS
  <1> DEFINE n == [q EXCEPT !.pc = "insert", !.hash = h]
  <1>1. /\ UNCHANGED <<file, opened, overlapped, exports, runs, events, started>> /\ q.pc = "hash"
        /\ ex' = [ex EXCEPT ![c].pc = "insert", ![c].hash = h]
    BY <1>0, <1>0a DEF HashFile, vars
  <1>2. Keeps
    BY <1>1 DEF Keeps
  <1>3. /\ q # NoExport /\ ExportOK(q) /\ q.run \in RunIds /\ q.id \in ExportIds
        /\ \A d \in Replicas : d # c /\ ex[d] # NoExport => ex[d].id # q.id
    BY <1>0, <1>1, Working
  <1>4. /\ DOMAIN n = ExportFields /\ n.pc = "insert" /\ n.hash = h /\ n.id = q.id /\ n.run = q.run
        /\ n.tenant = q.tenant /\ n.evs = q.evs /\ n.valid = q.valid
    BY <1>3, NextOperation DEF ExportOK
  <1>6. ex' = [ex EXCEPT ![c] = n]
    BY <1>0, <1>1
  <1> HIDE DEF n
  <1>9. PICK m : m = n
    OBVIOUS
  <1>10. ExportOK(m)'
    <2>1. BundleOK(m.run, m.tenant, m.evs, m.valid)
      BY <1>3, <1>4, <1>9 DEF ExportOK
    <2>2. BundleOK(m.run, m.tenant, m.evs, m.valid)'
      BY <1>2, <2>1, BundleStays
    <2>3. FileOK(q)
      BY <1>3 DEF ExportOK
    <2>4. FileOK(m)'
      BY <1>0a, <1>1, <1>4, <1>9, <2>3 DEF FileOK, Alone, LastOpened
    <2>5. QED
      BY <1>1, <1>3, <1>4, <1>9, <2>2, <2>4 DEF ExportOK
  <1>11. ex' = [ex EXCEPT ![c] = m] /\ \A d \in Replicas : d # c /\ ex[d] # NoExport => ex[d].id # m.id
    BY <1>3, <1>4, <1>6, <1>9
  <1>12. UNCHANGED <<file, opened, overlapped, exports>> /\ started \subseteq started'
    BY <1>1
  <1>13. QED
    BY <1>2, <1>10, <1>11, <1>12, QuietMove

LEMMA ExportEnds ==
    ASSUME Typed, ExportsInv, NEW c \in Replicas, ExportDone(c) \/ ExportFails(c)
    PROVE  ExportsInv'
  <1>1. /\ UNCHANGED <<file, opened, overlapped, exports, runs, events, started>>
        /\ ex' = [ex EXCEPT ![c] = NoExport]
    BY DEF ExportDone, ExportFails, vars
  <1>2. Keeps
    BY <1>1 DEF Keeps
  <1>3. QED
    BY <1>1, <1>2, QuietMove

\* A step of one export on the file of its run: the others stay as they were if
\* nobody but it has the file to itself after the step.
LEMMA FileMove ==
    ASSUME Typed, ExportsInv, Keeps, NEW c \in Replicas, NEW q, q = ex[c], q.pc # "idle", q.pc # "append",
           NEW n, ex' = [ex EXCEPT ![c] = n], n.id = q.id, ExportOK(n)',
           UNCHANGED <<exports, started>>,
           file' \in [RunIds -> [by : SUBSET ExportIds, closed : BOOLEAN]],
           opened' \in [RunIds -> Seq(ExportIds)],
           \A r \in RunIds : opened'[r] # <<>> => file'[r].by # {},
           \A r \in RunIds : opened[r] # <<>> => opened'[r] # <<>>,
           \A r \in RunIds : \A x : x # q.id /\ Alone(x, r)' => Alone(x, r) /\ file'[r] = file[r],
           \A d \in Replicas : d # c /\ ex[d].pc \in {"write", "hash"} /\ ExportOK(ex[d]) =>
               LastOpened(ex[d].run)' = ex[d].id \/ LastOpened(ex[d].run)' \in overlapped'
    PROVE  ExportsInv'
  <1>0. PICK I : I = {q.id}
    OBVIOUS
  <1>1. /\ \A r \in RunIds : \A x : x \notin I /\ Alone(x, r)' => Alone(x, r) /\ file'[r] = file[r]
        /\ DOMAIN exports' \subseteq DOMAIN exports \cup I
        /\ started \subseteq started'
    BY <1>0
  <1>2. /\ \A p : /\ ExportOK(p) /\ p.id \notin I
                  /\ p.pc \in {"write", "hash"} =>
                        (LastOpened(p.run) = p.id \/ LastOpened(p.run) \in overlapped)'
                  => ExportOK(p)'
        /\ \A x, e : StoredOK(x, e) /\ x \notin I => StoredOK(x, e)'
    BY <1>1, OthersStay
  <1>3. /\ q # NoExport /\ ExportOK(q)
        /\ \A d \in Replicas : d # c /\ ex[d] # NoExport => ex[d].id # q.id
    BY Working
  <1>4. ASSUME NEW d \in Replicas, d # c, ex[d] # NoExport PROVE ExportOK(ex[d])'
    <2>1. PICK p : p = ex[d]
      OBVIOUS
    <2>2. ex'[d] = p /\ ExportOK(p) /\ p.id \notin I
      BY <1>0, <1>3, <1>4, <2>1 DEF ExportsInv
    <2>3. p.pc \in {"write", "hash"} =>
              (LastOpened(p.run) = p.id \/ LastOpened(p.run) \in overlapped)'
      BY <1>4, <2>1, <2>2 DEF LastOpened
    <2>4. ExportOK(p)'
      BY <1>2, <2>2, <2>3
    <2>5. QED
      BY <2>2, <2>4
  <1>5. ASSUME NEW x \in DOMAIN exports' PROVE StoredOK(x, exports[x])'
    <2>1. PICK e : e = exports[x]
      OBVIOUS
    <2>2. exports'[x] = e /\ StoredOK(x, e) /\ x \notin I
      BY <1>0, <1>3, <2>1 DEF ExportsInv, ExportOK
    <2>3. QED
      BY <1>2, <2>2
  <1>6. DOMAIN exports' \subseteq started'
    BY DEF ExportsInv
  <1>7. \A d \in Replicas : d # c /\ ex[d] # NoExport /\ n # NoExport => ex[d].id # n.id
    BY <1>3
  <1>8. n = NoExport \/ ExportOK(n)'
    OBVIOUS
  <1>9. QED
    BY <1>4, <1>5, <1>6, <1>7, <1>8, ExportMove

LEMMA OpenZipOK ==
    ASSUME Typed, ExportsInv, NEW c \in Replicas, OpenZip(c)
    PROVE  ExportsInv'
  <1>0. PICK q : q = ex[c]
    OBVIOUS
  <1>0a. PICK r, i, h : r = q.run /\ i = q.id /\ h = q.hash
    OBVIOUS
  <1> DEFINE n == [q EXCEPT !.pc = "write", !.hash = h]
  <1>1. /\ UNCHANGED <<exports, runs, events, started>> /\ q.pc = "open"
        /\ ex' = [ex EXCEPT ![c].pc = "write"]
        /\ file' = [file EXCEPT ![r] = [by |-> {i}, closed |-> FALSE]]
        /\ opened' = [opened EXCEPT ![r] = Append(@, i)]
        /\ overlapped' = IF Using(r, c) = {} THEN overlapped
                         ELSE overlapped \cup {ex[d].id : d \in Using(r, c) \cup {c}}
    BY <1>0, <1>0a DEF OpenZip, vars
  <1>2. Keeps
    BY <1>1 DEF Keeps
  <1>3. /\ q # NoExport /\ ExportOK(q) /\ r \in RunIds /\ i \in ExportIds
        /\ \A d \in Replicas : d # c /\ ex[d] # NoExport => ex[d].id # q.id
    BY <1>0, <1>0a, <1>1, Working
  <1>4. /\ DOMAIN n = ExportFields /\ n.pc = "write" /\ n.hash = h /\ n.id = q.id /\ n.run = q.run
        /\ n.tenant = q.tenant /\ n.evs = q.evs /\ n.valid = q.valid
    BY <1>3, NextOperation DEF ExportOK
  <1>5. DOMAIN q = ExportFields
    BY <1>3 DEF ExportOK
  <1>6. [q EXCEPT !.pc = "write"] = n
    BY <1>0a, <1>5 DEF ExportFields
  <1>7. ex' = [ex EXCEPT ![c] = n]
    BY <1>0, <1>1, <1>6
  <1>8. /\ file \in [RunIds -> [by : SUBSET ExportIds, closed : BOOLEAN]]
        /\ opened \in [RunIds -> Seq(ExportIds)]
        /\ \A s \in RunIds : opened[s] # <<>> => file[s].by # {}
    BY DEF ExportsInv
  <1>9. /\ file' \in [RunIds -> [by : SUBSET ExportIds, closed : BOOLEAN]]
        /\ opened' \in [RunIds -> Seq(ExportIds)]
    BY <1>1, <1>3, <1>8
  <1>10. /\ opened'[r] = Append(opened[r], i) /\ \A s \in RunIds : s # r => opened'[s] = opened[s]
         /\ file'[r] = [by |-> {i}, closed |-> FALSE] /\ \A s \in RunIds : s # r => file'[s] = file[s]
    BY <1>1, <1>3, <1>8
  <1>11. opened'[r] # <<>> /\ LastOpened(r)' = i
    <2>1. PICK o \in Seq(ExportIds) : o = opened[r]
      BY <1>3, <1>8
    <2>2. /\ Append(o, i) # <<>> /\ Len(Append(o, i)) = Len(o) + 1
          /\ Append(o, i)[Len(o) + 1] = i
      BY <1>3
    <2>3. QED
      BY <1>10, <2>1, <2>2 DEF LastOpened
  <1>12. overlapped \subseteq overlapped' /\ (Using(r, c) # {} => i \in overlapped')
    BY <1>0, <1>0a, <1>1
  <1>13. /\ \A s \in RunIds : opened'[s] # <<>> => file'[s].by # {}
         /\ \A s \in RunIds : opened[s] # <<>> => opened'[s] # <<>>
    <2>1. ASSUME NEW s \in RunIds, s # r
          PROVE  (opened'[s] # <<>> => file'[s].by # {}) /\ (opened[s] # <<>> => opened'[s] # <<>>)
      BY <1>8, <1>10, <2>1
    <2>2. file'[r].by # {}
      BY <1>10
    <2>3. QED
      BY <1>11, <2>1, <2>2
  <1>14. ASSUME NEW s \in RunIds, NEW x, x # q.id, Alone(x, s)' PROVE Alone(x, s) /\ file'[s] = file[s]
    BY <1>0a, <1>10, <1>11, <1>12, <1>14 DEF Alone, LastOpened
  <1>15. ASSUME NEW d \in Replicas, d # c, ex[d].pc \in {"write", "hash"}, ExportOK(ex[d])
         PROVE  LastOpened(ex[d].run)' = ex[d].id \/ LastOpened(ex[d].run)' \in overlapped'
    <2>0. ex'[d] = ex[d] /\ ex[d].run \in RunIds
      BY <1>7, <1>15 DEF ExportOK, BundleOK, Typed, IsTable, ExportsInv
    <2>1. CASE ex[d].run = r
      <3>1. d \in Using(r, c)
        BY <1>15, <2>1 DEF Using
      <3>2. QED
        BY <1>11, <1>12, <2>0, <2>1, <3>1 DEF LastOpened
    <2>2. CASE ex[d].run # r
      BY <1>10, <1>12, <1>15, <2>0, <2>2 DEF ExportOK, FileOK, LastOpened
    <2>3. QED
      BY <2>1, <2>2
  <1> HIDE DEF n
  <1>16. PICK m : m = n
    OBVIOUS
  <1>17. ExportOK(m)'
    <2>1. BundleOK(m.run, m.tenant, m.evs, m.valid)
      BY <1>3, <1>4, <1>16 DEF ExportOK
    <2>2. BundleOK(m.run, m.tenant, m.evs, m.valid)'
      BY <1>2, <2>1, BundleStays
    <2>3. m.run = r /\ m.id = i /\ m.pc = "write"
      BY <1>0a, <1>4, <1>16
    <2>4. FileOK(m)'
      BY <1>10, <1>11, <2>3 DEF FileOK, LastOpened
    <2>5. QED
      BY <1>1, <1>3, <1>4, <1>16, <2>2, <2>4 DEF ExportOK
  <1>18. ex' = [ex EXCEPT ![c] = m] /\ m.id = q.id /\ q.pc # "idle" /\ q.pc # "append"
    BY <1>1, <1>4, <1>7, <1>16
  <1>19. UNCHANGED <<exports, started>>
    BY <1>1
  <1>20. QED
    BY <1>0, <1>2, <1>9, <1>13, <1>14, <1>15, <1>17, <1>18, <1>19, FileMove

LEMMA WriteZipOK ==
    ASSUME Typed, ExportsInv, NEW c \in Replicas, WriteZip(c)
    PROVE  ExportsInv'
  <1>0. PICK q : q = ex[c]
    OBVIOUS
  <1>0a. PICK r, i, h : r = q.run /\ i = q.id /\ h = q.hash
    OBVIOUS
  <1> DEFINE n == [q EXCEPT !.pc = "hash", !.hash = h]
  <1>1. /\ UNCHANGED <<exports, runs, events, started, opened, overlapped>> /\ q.pc = "write"
        /\ ex' = [ex EXCEPT ![c].pc = "hash"]
        /\ file' = [file EXCEPT ![r] = [by |-> @.by \cup {i}, closed |-> TRUE]]
    BY <1>0, <1>0a DEF WriteZip, vars
  <1>2. Keeps
    BY <1>1 DEF Keeps
  <1>3. /\ q # NoExport /\ ExportOK(q) /\ r \in RunIds /\ i \in ExportIds
        /\ \A d \in Replicas : d # c /\ ex[d] # NoExport => ex[d].id # q.id
    BY <1>0, <1>0a, <1>1, Working
  <1>4. /\ DOMAIN n = ExportFields /\ n.pc = "hash" /\ n.hash = h /\ n.id = q.id /\ n.run = q.run
        /\ n.tenant = q.tenant /\ n.evs = q.evs /\ n.valid = q.valid
    BY <1>3, NextOperation DEF ExportOK
  <1>5. DOMAIN q = ExportFields
    BY <1>3 DEF ExportOK
  <1>6. [q EXCEPT !.pc = "hash"] = n
    BY <1>0a, <1>5 DEF ExportFields
  <1>7. ex' = [ex EXCEPT ![c] = n]
    BY <1>0, <1>1, <1>6
  <1>8. /\ file \in [RunIds -> [by : SUBSET ExportIds, closed : BOOLEAN]]
        /\ opened \in [RunIds -> Seq(ExportIds)]
        /\ \A s \in RunIds : opened[s] # <<>> => file[s].by # {}
    BY DEF ExportsInv
  <1>9. /\ file'[r] = [by |-> file[r].by \cup {i}, closed |-> TRUE]
        /\ \A s \in RunIds : s # r => file'[s] = file[s]
    BY <1>1, <1>3, <1>8
  <1>10. file' \in [RunIds -> [by : SUBSET ExportIds, closed : BOOLEAN]]
    <2>1. [by |-> file[r].by \cup {i}, closed |-> TRUE] \in [by : SUBSET ExportIds, closed : BOOLEAN]
      BY <1>3, <1>8
    <2>2. QED
      BY <1>1, <1>8, <2>1
  <1>11. /\ opened' \in [RunIds -> Seq(ExportIds)]
         /\ \A s \in RunIds : opened[s] # <<>> => opened'[s] # <<>>
    BY <1>1, <1>8
  <1>12. \A s \in RunIds : opened'[s] # <<>> => file'[s].by # {}
    <2>1. file'[r].by # {}
      BY <1>9
    <2>2. ASSUME NEW s \in RunIds, s # r, opened'[s] # <<>> PROVE file'[s].by # {}
      BY <1>1, <1>8, <1>9, <2>2
    <2>3. QED
      BY <2>1, <2>2
  <1>13. FileOK(q)
    BY <1>3 DEF ExportOK
  <1>14. ASSUME NEW s \in RunIds, NEW x, x # q.id, Alone(x, s)' PROVE Alone(x, s) /\ file'[s] = file[s]
    <2>1. Alone(x, s)
      BY <1>1, <1>14 DEF Alone, LastOpened
    <2>2. s # r
      BY <1>0a, <1>1, <1>13, <1>14, <2>1 DEF FileOK, Alone
    <2>3. QED
      BY <1>9, <2>1, <2>2
  <1>15. ASSUME NEW d \in Replicas, d # c, ex[d].pc \in {"write", "hash"}, ExportOK(ex[d])
         PROVE  LastOpened(ex[d].run)' = ex[d].id \/ LastOpened(ex[d].run)' \in overlapped'
    <2>1. ex'[d] = ex[d]
      BY <1>7, <1>15 DEF ExportsInv
    <2>2. QED
      BY <1>1, <1>15, <2>1 DEF ExportOK, FileOK, LastOpened
  <1> HIDE DEF n
  <1>16. PICK m : m = n
    OBVIOUS
  <1>17. ExportOK(m)'
    <2>1. BundleOK(m.run, m.tenant, m.evs, m.valid)
      BY <1>3, <1>4, <1>16 DEF ExportOK
    <2>2. BundleOK(m.run, m.tenant, m.evs, m.valid)'
      BY <1>2, <2>1, BundleStays
    <2>3. m.run = r /\ m.id = i /\ m.pc = "hash"
      BY <1>0a, <1>4, <1>16
    <2>4. opened'[r] # <<>> /\ (LastOpened(r)' = i \/ LastOpened(r)' \in overlapped')
      BY <1>0a, <1>1, <1>13 DEF FileOK, LastOpened
    <2>5. Alone(i, r)' => file'[r] = Whole(i)
      <3>1. Alone(i, r)' => file[r].by = {i}
        BY <1>0a, <1>1, <1>13 DEF FileOK, Alone, LastOpened
      <3>2. file[r].by = {i} => file'[r] = Whole(i)
        BY <1>9 DEF Whole
      <3>3. QED
        BY <3>1, <3>2
    <2>6. FileOK(m)'
      BY <2>3, <2>4, <2>5 DEF FileOK, LastOpened
    <2>7. QED
      BY <1>1, <1>3, <1>4, <1>16, <2>2, <2>6 DEF ExportOK
  <1>18. ex' = [ex EXCEPT ![c] = m] /\ m.id = q.id /\ q.pc # "idle" /\ q.pc # "append"
    BY <1>1, <1>4, <1>7, <1>16
  <1>19. UNCHANGED <<exports, started>>
    BY <1>1
  <1>20. QED
    BY <1>0, <1>2, <1>10, <1>11, <1>12, <1>14, <1>15, <1>17, <1>18, <1>19, FileMove

\* The row has the hash of the file, and what the file holds is what was hashed
\* if nobody has opened it since.
LEMMA InsertExportOK ==
    ASSUME Typed, ExportsInv, NEW c \in Replicas, InsertExport(c)
    PROVE  ExportsInv'
  <1>0. PICK q : q = ex[c]
    OBVIOUS
  <1>0a. PICK i, h : i = q.id /\ h = q.hash
    OBVIOUS
  <1> DEFINE n == [q EXCEPT !.pc = "append", !.hash = h]
  <1>0b. PICK e : e = [run |-> q.run, tenant |-> q.tenant, hash |-> q.hash, evs |-> q.evs, valid |-> q.valid]
    OBVIOUS
  <1>1. /\ UNCHANGED <<file, opened, overlapped, runs, events, started>> /\ q.pc = "insert"
        /\ ex' = [ex EXCEPT ![c].pc = "append"]
        /\ exports' = Put(exports, i, e)
    BY <1>0, <1>0a, <1>0b DEF InsertExport
  <1>2. Keeps
    BY <1>1 DEF Keeps
  <1>3. /\ q # NoExport /\ ExportOK(q) /\ i \in ExportIds /\ i \in started /\ i \notin DOMAIN exports
        /\ \A d \in Replicas : d # c /\ ex[d] # NoExport => ex[d].id # i
    <2>1. /\ q # NoExport /\ ExportOK(q)
          /\ \A d \in Replicas : d # c /\ ex[d] # NoExport => ex[d].id # i
      BY <1>0, <1>0a, <1>1, Working
    <2>2. QED
      BY <1>0a, <1>1, <2>1 DEF ExportOK
  <1>4. /\ DOMAIN n = ExportFields /\ n.pc = "append" /\ n.hash = h /\ n.id = q.id /\ n.run = q.run
        /\ n.tenant = q.tenant /\ n.evs = q.evs /\ n.valid = q.valid
    BY <1>3, NextOperation DEF ExportOK
  <1>5. DOMAIN q = ExportFields
    BY <1>3 DEF ExportOK
  <1>6. [q EXCEPT !.pc = "append"] = n
    BY <1>0a, <1>5 DEF ExportFields
  <1>7. ex' = [ex EXCEPT ![c] = n]
    BY <1>0, <1>1, <1>6
  <1>8. /\ DOMAIN exports' = DOMAIN exports \cup {i} /\ exports'[i] = e
        /\ \A x \in DOMAIN exports : exports'[x] = exports[x]
    BY <1>1, <1>3 DEF Put
  <1>9. PICK I : I = {i}
    OBVIOUS
  <1>10. /\ \A r \in RunIds : opened[r] # <<>> => opened'[r] # <<>>
         /\ \A r \in RunIds : \A x : x \notin I /\ Alone(x, r)' => Alone(x, r) /\ file'[r] = file[r]
         /\ DOMAIN exports' \subseteq DOMAIN exports \cup I
         /\ started \subseteq started'
    BY <1>1, <1>8, <1>9 DEF Alone, LastOpened
  <1>11. /\ \A p : /\ ExportOK(p) /\ p.id \notin I
                   /\ p.pc \in {"write", "hash"} =>
                         (LastOpened(p.run) = p.id \/ LastOpened(p.run) \in overlapped)'
                   => ExportOK(p)'
         /\ \A x, y : StoredOK(x, y) /\ x \notin I => StoredOK(x, y)'
    BY <1>2, <1>10, OthersStay
  <1>12. ASSUME NEW d \in Replicas, d # c, ex[d] # NoExport PROVE ExportOK(ex[d])'
    <2>1. PICK p : p = ex[d]
      OBVIOUS
    <2>2. ex'[d] = p /\ ExportOK(p) /\ p.id \notin I
      BY <1>3, <1>7, <1>9, <1>12, <2>1 DEF ExportsInv
    <2>3. p.pc \in {"write", "hash"} =>
              (LastOpened(p.run) = p.id \/ LastOpened(p.run) \in overlapped)'
      BY <1>1, <2>2 DEF ExportOK, FileOK, LastOpened
    <2>4. ExportOK(p)'
      BY <1>11, <2>2, <2>3
    <2>5. QED
      BY <2>2, <2>4
  <1>13. StoredOK(i, e)'
    <2>1. e.run = q.run /\ e.tenant = q.tenant /\ e.hash = q.hash /\ e.evs = q.evs /\ e.valid = q.valid
      BY <1>0b
    <2>2. BundleOK(q.run, q.tenant, q.evs, q.valid) /\ FileOK(q)
      BY <1>3 DEF ExportOK
    <2>3. BundleOK(e.run, e.tenant, e.evs, e.valid)'
      <3>1. BundleOK(e.run, e.tenant, e.evs, e.valid)
        BY <2>1, <2>2
      <3>2. QED
        BY <1>2, <3>1, BundleStays
    <2>4. QED
      BY <1>0a, <1>1, <2>1, <2>2, <2>3 DEF StoredOK, FileOK, Alone, LastOpened
  <1>14. ASSUME NEW x \in DOMAIN exports' PROVE StoredOK(x, exports[x])'
    <2>1. CASE x = i
      BY <1>8, <1>13, <2>1
    <2>2. CASE x # i
      <3>1. PICK y : y = exports[x]
        OBVIOUS
      <3>2. exports'[x] = y /\ StoredOK(x, y) /\ x \notin I
        BY <1>8, <1>9, <2>2, <3>1 DEF ExportsInv
      <3>3. QED
        BY <1>11, <3>2
    <2>3. QED
      BY <2>1, <2>2
  <1> HIDE DEF n
  <1>15. PICK m : m = n
    OBVIOUS
  <1>16. ExportOK(m)'
    <2>1. BundleOK(m.run, m.tenant, m.evs, m.valid)
      BY <1>3, <1>4, <1>15 DEF ExportOK
    <2>2. BundleOK(m.run, m.tenant, m.evs, m.valid)'
      BY <1>2, <2>1, BundleStays
    <2>3. m.pc = "append" /\ m.id = i /\ DOMAIN m = ExportFields
      BY <1>0a, <1>4, <1>15
    <2>4. FileOK(m)'
      BY <2>3 DEF FileOK
    <2>5. QED
      BY <1>1, <1>3, <2>2, <2>3, <2>4 DEF ExportOK
  <1>17. /\ ex' = [ex EXCEPT ![c] = m]
         /\ \A d \in Replicas : d # c /\ ex[d] # NoExport /\ m # NoExport => ex[d].id # m.id
    BY <1>0a, <1>3, <1>4, <1>7, <1>15
  <1>18. /\ file' \in [RunIds -> [by : SUBSET ExportIds, closed : BOOLEAN]]
         /\ opened' \in [RunIds -> Seq(ExportIds)]
         /\ \A r \in RunIds : opened'[r] # <<>> => file'[r].by # {}
         /\ DOMAIN exports' \subseteq started'
    BY <1>1, <1>3, <1>8 DEF ExportsInv
  <1>19. m = NoExport \/ ExportOK(m)'
    BY <1>16
  <1>20. QED
    BY <1>12, <1>14, <1>17, <1>18, <1>19, ExportMove

\* A replica's step on the tables leaves the exports as they are.
LEMMA MovesExports ==
    ASSUME Typed, RowsInv, ExportsInv, Moves, UNCHANGED evars PROVE ExportsInv'
  <1>1. Keeps /\ UNCHANGED <<file, exports, ex, started, overlapped, opened>>
    BY MovesKeep DEF evars
  <1>2. DOMAIN runs \subseteq RunIds
    BY DEF Typed, IsTable
  <1>3. ASSUME NEW q, ExportOK(q) PROVE ExportOK(q)'
    <2>1. BundleOK(q.run, q.tenant, q.evs, q.valid) /\ q.evs \subseteq DOMAIN events
      BY <1>3 DEF ExportOK, BundleOK, OfRun
    <2>2. BundleOK(q.run, q.tenant, q.evs, q.valid)'
      BY <1>1, <2>1, BundleStays
    <2>3. q.pc = "verify" => Followed(q.run, q.evs)'
      BY <1>1, <1>3, <2>1, FollowedStays DEF ExportOK
    <2>4. FileOK(q)'
      BY <1>1, <1>3 DEF ExportOK, FileOK, Alone, LastOpened
    <2>5. QED
      BY <1>1, <1>3, <2>2, <2>3, <2>4 DEF ExportOK
  <1>4. ASSUME NEW x, NEW e, StoredOK(x, e) PROVE StoredOK(x, e)'
    <2>1. BundleOK(e.run, e.tenant, e.evs, e.valid)'
      BY <1>1, <1>4, BundleStays DEF StoredOK
    <2>2. QED
      BY <1>1, <1>4, <2>1 DEF StoredOK, Alone, LastOpened
  <1>5. ASSUME NEW c \in Replicas PROVE ex'[c] = NoExport \/ ExportOK(ex[c])'
    <2>1. PICK q : q = ex[c]
      OBVIOUS
    <2>2. ex'[c] = q /\ (q = NoExport \/ ExportOK(q))
      BY <1>1, <2>1 DEF ExportsInv
    <2>3. QED
      BY <1>3, <2>2
  <1>6. ASSUME NEW x \in DOMAIN exports' PROVE StoredOK(x, exports[x])'
    <2>1. PICK e : e = exports[x]
      OBVIOUS
    <2>2. exports'[x] = e /\ StoredOK(x, e)
      BY <1>1, <2>1 DEF ExportsInv
    <2>3. QED
      BY <1>4, <2>2
  <1>7. QED
    BY <1>1, <1>5, <1>6 DEF ExportsInv

\* Every step of the service with exports is one of the tables, or leaves them.
LEMMA EvidenceMoves ==
    ASSUME Typed, ExportsInv, [EvidenceNext]_allvars PROVE Moves
  <1>1. ASSUME UNCHANGED vars PROVE Moves
    BY <1>1 DEF Moves
  <1>2. ASSUME NEW c \in Replicas, Statement(c) \/ Request(c) PROVE Moves
    BY <1>2, RequestStep DEF Moves
  <1>3. ASSUME NEW c \in Replicas, InsertExport(c) PROVE Moves
    <2>1. PICK r, b : r = ex[c].run /\ b = ExportEvent(ex[c].id)
      OBVIOUS
    <2>2. /\ req' = [req EXCEPT ![c] = AppendRequest(r, b)] /\ ex[c].pc = "insert"
          /\ UNCHANGED <<runs, events, nextSeq, acked, requests, fails>>
      BY <1>3, <2>1 DEF InsertExport
    <2>3. ExportOK(ex[c]) /\ ex[c].id \in ExportIds
      BY <2>2, Working
    <2>4. r \in DOMAIN runs
      BY <2>1, <2>3 DEF ExportOK, BundleOK
    <2>5. b \in Seq(Input)
      <3>1. [id |-> ex[c].id, key |-> NoKey, type |-> "other"] \in Input
        BY <2>3, EvidenceIds DEF Input, EventTypes
      <3>2. QED
        BY <2>1, <3>1 DEF ExportEvent
    <2>6. PICK q : q = AppendRequest(r, b)
      OBVIOUS
    <2>7. /\ RequestOK(q, runs) /\ q.pc = "event" /\ q.run = r /\ q.i = 0
          /\ q.row = runs[r] /\ q.base = runs[r] /\ q.head = runs[r].last
          /\ q.mine = EmptyTable /\ q.accepted = <<>>
      BY <2>4, <2>5, <2>6, AppendRequestOK
    <2>8. requests' \in Nat
      BY <2>2 DEF Typed
    <2>9. TakesUp(c, q)
      BY <2>2, <2>6, <2>7, <2>8 DEF TakesUp
    <2>10. QED
      BY <2>9 DEF Moves
  <1>4. ASSUME NEW c \in Replicas, ExportStep(c) PROVE Moves
    <2>1. InsertExport(c) \/ UNCHANGED vars
      BY <1>4 DEF ExportStep, export_run, Verified, OpenZip, WriteZip, HashFile, ExportDone, ExportFails
    <2>2. QED
      BY <1>1, <1>3, <2>1
  <1>5. CASE UNCHANGED allvars
    BY <1>1, <1>5 DEF allvars
  <1>6. QED
    BY <1>2, <1>4, <1>5 DEF EvidenceNext

\* Every step keeps the invariant of the exports.
LEMMA ExportsStep ==
    ASSUME Typed, RowsInv, HeadsInv, ExportsInv, [EvidenceNext]_allvars PROVE ExportsInv'
  <1>1. ASSUME NEW c \in Replicas, ExportStep(c) PROVE ExportsInv'
    <2>2. ASSUME NEW r, NEW t, NEW x, export_run(c, r, t, x) PROVE ExportsInv'
      BY <2>2, ExportRunOK
    <2>3. QED
      BY <1>1, <2>2, VerifiedOK, OpenZipOK, WriteZipOK, HashFileOK, InsertExportOK, ExportEnds
         DEF ExportStep
  <1>2. ASSUME UNCHANGED evars PROVE ExportsInv'
    BY <1>2, EvidenceMoves, MovesExports
  <1>3. UNCHANGED allvars => UNCHANGED evars
    BY DEF allvars
  <1>4. QED
    BY <1>1, <1>2, <1>3 DEF EvidenceNext

-----------------------------------------------------------------------------
(* The theorems.                                                           *)

\* A new service satisfies the invariant.
LEMMA InitInv == Init => IngestInv
  <1> SUFFICES ASSUME Init PROVE IngestInv
    OBVIOUS
  <1>1. /\ runs = EmptyTable /\ events = EmptyTable /\ nextSeq = 1 /\ acked = {}
        /\ requests = 0 /\ fails = 0
        /\ req = [c \in Replicas |-> req[c]] /\ \A c \in Replicas : req[c] = NoRequest
    BY DEF Init
  <1>2. Typed
    BY <1>1, EmptyTableOK, IdleOK DEF Typed
  <1>3. RowsInv
    BY <1>1, EmptyApart, NoRequestOK DEF RowsInv
  <1>4. QED
    BY <1>2, <1>3 DEF IngestInv

\* In every reachable state the requests are well formed, and the committed rows
\* and those of the open transactions do not clash.
THEOREM IngestInvariant == Spec => []IngestInv
  <1>1. IngestInv /\ [Next]_vars => IngestInv'
    BY NextMoves, MovesTyped, MovesRows DEF IngestInv
  <1>2. QED
    BY <1>1, InitInv, PTL DEF Spec

\* Tables and requests have their types, and a request is inside its batch.
THEOREM IngestTypes == Spec => []TypeOK
  <1>1. IngestInv => TypeOK
    <2> SUFFICES ASSUME Typed PROVE TypeOK
      BY DEF IngestInv
    <2>1. ASSUME NEW c \in Replicas
          PROVE  /\ req[c].pc \in {"idle", "insertRun", "event", "insert", "finish"}
                 /\ req[c].i <= Len(req[c].batch) /\ req[c].head \in Hash
                 /\ req[c].row \in RunRow \cup {Expired}
                 /\ IsTable(req[c].mine, Nat, EventRow)
      <3>1. RequestOK(req[c], runs) /\ FieldsOK(req[c])
        BY DEF Typed, RequestOK
      <3>2. req[c].i <= Len(req[c].batch)
        BY <3>1 DEF RequestOK
      <3>3. QED
        BY <3>1, <3>2 DEF FieldsOK, Steps
    <2>2. QED
      BY <2>1 DEF Typed, TypeOK
  <1>2. QED
    BY <1>1, IngestInvariant, PTL

\* No two stored events share an event_id or an idempotency key, whatever two
\* replicas and their retries do.
THEOREM EventsStoredOnce == Spec => []StoredOnce
  <1>1. IngestInv => StoredOnce
    BY DEF IngestInv, RowsInv, Sound, Clash, StoredOnce
  <1>2. QED
    BY <1>1, IngestInvariant, PTL

\* No step takes a run over from its tenant, or removes or replaces an event.
THEOREM RowsAreKept == Spec => RowsKept
  <1>1. IngestInv /\ [Next]_vars => [Keeps]_vars
    BY NextMoves, MovesKeep DEF IngestInv
  <1>2. QED
    BY <1>1, IngestInvariant, PTL DEF Spec, RowsKept, Keeps

\* No run hangs from an event that was rolled back, for one run.
THEOREM HeadsAreStored == ASSUME OneRun PROVE Spec => []HeadsStored
  <1>1. IngestInv /\ HeadsInv /\ [Next]_vars => HeadsInv'
    BY NextMoves, MovesHeads DEF IngestInv
  <1>2. Init => HeadsInv
    <2> SUFFICES ASSUME Init PROVE HeadsInv
      OBVIOUS
    <2>1. /\ runs = EmptyTable /\ events = EmptyTable /\ \A c \in Replicas : req[c] = NoRequest
      BY DEF Init
    <2>2. QED
      BY <2>1, EmptyTableOK, IdleHeads DEF HeadsInv
  <1>3. IngestInv /\ HeadsInv => HeadsStored
    <2> SUFFICES ASSUME Typed, RowsInv, HeadsInv PROVE HeadsStored
      BY DEF IngestInv
    <2>1. ASSUME NEW r \in RunIds PROVE OfRun(events, r) = DOMAIN events
      BY DEF OfRun, Typed, IsTable, EventRow, OneRun
    <2>2. ASSUME NEW r \in RunIds, NEW h, NEW n, Known(events, h, n) PROVE StoredBefore(r, h, n)
      BY <2>1, <2>2 DEF Known, StoredBefore
    <2>3. /\ \A r \in DOMAIN runs : r \in RunIds /\ Known(events, runs[r].last, nextSeq)
          /\ \A s \in DOMAIN events : events[s].run \in RunIds /\ Known(events, events[s].prev, s)
      BY DEF HeadsInv, Typed, IsTable, EventRow
    <2>4. QED
      BY <2>2, <2>3 DEF HeadsStored
  <1>4. QED
    BY <1>1, <1>2, <1>3, IngestInvariant, PTL DEF Spec

\* An id reported in an answer stays the id of a stored event, for batches as the
\* SDKs send them.
THEOREM AnswersAreStored == ASSUME RepeatedFromStart PROVE Spec => []AcceptedStored
  <1>1. IngestInv /\ AnswersInv /\ [Next]_vars => AnswersInv'
    BY NextAnswers DEF IngestInv
  <1>2. Init => AnswersInv
    <2> SUFFICES ASSUME Init PROVE AnswersInv
      OBVIOUS
    <2>1. /\ events = EmptyTable /\ acked = {} /\ \A c \in Replicas : req[c] = NoRequest
      BY DEF Init
    <2>2. QED
      BY <2>1, EmptyTableOK, IdleAnswers DEF AnswersInv, Closed, AcceptedStored
  <1>3. AnswersInv => AcceptedStored
    BY DEF AnswersInv
  <1>4. QED
    BY <1>1, <1>2, <1>3, IngestInvariant, PTL DEF Spec

\* A rollback in the middle of a batch takes nothing away that an answer, a run
\* or a later event relies on, for one run and batches as the SDKs send them.
THEOREM RollbackIsSafe == ASSUME RepeatedFromStart, OneRun PROVE Spec => []RollbackSafe
  <1>1. AcceptedStored /\ HeadsStored => RollbackSafe
    BY DEF RollbackSafe
  <1>2. QED
    BY <1>1, AnswersAreStored, HeadsAreStored, PTL

\* A client that follows the cursors of a timeline or a query to their end while
\* replicas append has every event stored when it read its last page, except
\* those of transactions that were open while it was reading.
THEOREM ReadersAreComplete == ReadsSpec => []ReadersComplete
  <1> DEFINE Inv == IngestInv /\ ReadsInv
  <1>1. ReadsInit => Inv
    <2> SUFFICES ASSUME Init, rd = NoReader PROVE Inv
      BY DEF ReadsInit
    <2>1. /\ events = EmptyTable /\ \A c \in Replicas : req[c] = NoRequest
      BY DEF Init
    <2>2. Numbered(events) /\ \A c \in Replicas : Numbered(req[c].mine)
      BY <2>1, EmptyTableOK, NoRequestOK DEF Numbered
    <2>3. DOMAIN rd = ReaderFields /\ rd.pc = "idle"
      BY DEF NoReader, ReaderFields
    <2>4. QED
      BY <2>2, <2>3, InitInv DEF ReadsInv, ReadersComplete
  <1>2. Inv /\ [ReadsNext]_<<vars, rd>> => Inv'
    <2> SUFFICES ASSUME Typed, RowsInv, ReadsInv, [ReadsNext]_<<vars, rd>> PROVE Inv'
      BY DEF IngestInv
    <2>1. ASSUME Moves PROVE IngestInv'
      BY <2>1, MovesTyped, MovesRows DEF IngestInv
    <2>2. CASE [Next]_vars /\ UNCHANGED rd
      BY <2>1, <2>2, NextMoves, MovesReader
    <2>3. UNCHANGED vars => Moves
      BY DEF Moves
    <2>4. CASE readOn
      <3>1. DOMAIN rd = ReaderFields /\ Behind(rd) /\ rd.ask \in Queries
        BY <2>4 DEF readOn, ReadsInv
      <3>2. QED
        BY <2>1, <2>3, <2>4, <3>1, PageReads DEF readOn
    <2>5. ASSUME NEW r \in RunIds, NEW t \in Tenants, NEW ask \in Queries, read(r, t, ask) PROVE Inv'
      <3> DEFINE q == [NoReader EXCEPT !.run = r, !.tenant = t, !.ask = ask]
      <3>1. r \in DOMAIN runs /\ UNCHANGED vars /\ rd' = AfterPage(q)
        BY <2>5 DEF read
      <3>2. DOMAIN q = ReaderFields /\ Behind(q) /\ q.ask \in Queries
        BY <3>1, FirstPage
      <3> HIDE DEF q
      <3>3. QED
        BY <2>1, <2>3, <3>1, <3>2, PageReads
    <2>6. QED
      BY <2>2, <2>4, <2>5 DEF ReadsNext
  <1>3. Inv => ReadersComplete
    BY DEF ReadsInv
  <1>4. QED
    BY <1>1, <1>2, <1>3, PTL DEF ReadsSpec

\* What an export has read, written and stored, in every reachable state: the
\* invariant from which the two theorems about bundles follow.
THEOREM EvidenceInvariant == EvidenceSpec => [](IngestInv /\ ExportsInv)
  <1> DEFINE Inv == IngestInv /\ HeadsInv /\ ExportsInv
  <1>1. EvidenceInit => Inv
    <2> SUFFICES ASSUME EvidenceInit PROVE Inv
      OBVIOUS
    <2>1. /\ Init /\ runs = EmptyTable /\ events = EmptyTable /\ \A c \in Replicas : req[c] = NoRequest
      BY DEF EvidenceInit, Init
    <2>2. HeadsInv
      BY <2>1, EmptyTableOK, IdleHeads DEF HeadsInv
    <2>3. /\ file = [r \in RunIds |-> NoFile] /\ ex = [c \in Replicas |-> NoExport]
          /\ opened = [r \in RunIds |-> <<>>] /\ exports = EmptyTable
      BY DEF EvidenceInit
    <2>4. file \in [RunIds -> [by : SUBSET ExportIds, closed : BOOLEAN]]
      BY <2>3 DEF NoFile
    <2>5. opened \in [RunIds -> Seq(ExportIds)] /\ \A r \in RunIds : opened[r] = <<>>
      BY <2>3
    <2>6. ex = [c \in Replicas |-> ex[c]] /\ \A c \in Replicas : ex[c] = NoExport
      BY <2>3
    <2>7. ExportsInv
      BY <2>3, <2>4, <2>5, <2>6, EmptyTableOK DEF ExportsInv
    <2>8. QED
      BY <2>1, <2>2, <2>7, InitInv
  <1>2. Inv /\ [EvidenceNext]_allvars => Inv'
    <2> SUFFICES ASSUME Typed, RowsInv, HeadsInv, ExportsInv, [EvidenceNext]_allvars PROVE Inv'
      BY DEF IngestInv
    <2>1. Moves
      BY EvidenceMoves
    <2>2. Typed' /\ RowsInv' /\ HeadsInv'
      BY <2>1, MovesTyped, MovesRows, MovesHeads
    <2>3. QED
      BY <2>2, ExportsStep DEF IngestInv
  <1>3. QED
    BY <1>1, <1>2, PTL DEF EvidenceSpec

\* A bundle that says hash_chain_valid holds events that form one unbroken chain,
\* although the verdict is about the events of a later moment.
THEOREM BundlesAreIntact == EvidenceSpec => []ValidMeansIntact
  <1>1. ExportsInv => ValidMeansIntact
    BY DEF ExportsInv, StoredOK, BundleOK, ValidMeansIntact
  <1>2. QED
    BY <1>1, EvidenceInvariant, PTL

\* The tenant of an export can download it, and gets that export's bundle with the
\* hash of the row, as long as no other export has opened the run's file since and
\* none used it at the same time.
THEOREM DownloadsMatch == EvidenceSpec => []DownloadMatches
  <1>1. IngestInv /\ ExportsInv => DownloadMatches
    <2> SUFFICES ASSUME Typed, ExportsInv, NEW x \in DOMAIN exports
                 PROVE  LET r == exports[x].run
                        IN  /\ download(x, runs[r].tenant) = "bundle"
                            /\ opened[r][Len(opened[r])] = x /\ x \notin overlapped
                                  => /\ file[r] = exports[x].hash
                                     /\ exports[x].hash = [by |-> {x}, closed |-> TRUE]
      BY DEF DownloadMatches, IngestInv
    <2>1. PICK e, r : e = exports[x] /\ r = e.run
      OBVIOUS
    <2>2. StoredOK(x, e)
      BY <2>1 DEF ExportsInv
    <2>3. r \in RunIds /\ e.tenant = runs[r].tenant /\ opened[r] # <<>>
      BY <2>1, <2>2 DEF StoredOK, BundleOK, Typed, IsTable
    <2>4. file[r] # NoFile
      <3>1. file[r].by # {}
        BY <2>3 DEF ExportsInv
      <3>2. QED
        BY <3>1 DEF NoFile
    <2>5. download(x, runs[r].tenant) = "bundle"
      BY <2>1, <2>3, <2>4 DEF download
    <2>6. opened[r][Len(opened[r])] = x /\ x \notin overlapped
              => file[r] = e.hash /\ e.hash = [by |-> {x}, closed |-> TRUE]
      BY <2>1, <2>2 DEF StoredOK, Alone, LastOpened, Whole
    <2>7. QED
      BY <2>1, <2>5, <2>6
  <1>2. QED
    BY <1>1, EvidenceInvariant, PTL
=============================================================================
