-------------------------- MODULE EventStoreProofs --------------------------
(***************************************************************************)
(* Proofs about the storage engine, for any number of runs, tenants, keys, *)
(* batches, crashes and failures: its tables stay consistent, rows stay    *)
(* with their tenants, an idempotency key is stored once, the engine       *)
(* implements AuditLog, and its readers get every event and an exact       *)
(* verify().                                                               *)
(***************************************************************************)
EXTENDS EventStoreReads, SubsequenceProofs, FiniteSetTheorems, TLAPS

-----------------------------------------------------------------------------
(* Tables.                                                                 *)

\* A put of a well-typed row keeps a column family well typed.
LEMMA PutTable ==
    ASSUME NEW K, NEW V, NEW f, IsTable(f, K, V), NEW k \in K, NEW v \in V
    PROVE  IsTable(Put(f, k, v), K, V)
  BY DEF IsTable, Put

\* An empty column family holds rows of any type.
LEMMA EmptyTableOK == ASSUME NEW K, NEW V PROVE IsTable(EmptyTable, K, V)
  BY DEF IsTable, EmptyTable

\* The database of a new store is well typed.
LEMMA EmptyDbOK == IsDb(EmptyDb)
  <1>1. /\ IsTable(EmptyTable, RunIds, RunRow)
        /\ IsTable(EmptyTable, Nat, EventRow)
        /\ IsTable(EmptyTable, Keys, Hash)
        /\ IsTable(EmptyTable, ApprovalIds, ApprovalRow)
        /\ IsTable(EmptyTable, ExportIds, Tenants)
    BY EmptyTableOK
  <1>2. QED
    BY <1>1 DEF IsDb, EmptyDb

-----------------------------------------------------------------------------
(* Type correctness.                                                       *)

\* The batch of a single-row call is a database again.
LEMMA RowImagesOK ==
    ASSUME IsDb(db)
    PROVE  /\ \A r \in RunIds : \A row \in RunRow :
                 IsDb([db EXCEPT !.runs = Put(db.runs, r, row)])
           /\ \A a \in ApprovalIds : \A row \in ApprovalRow :
                 IsDb([db EXCEPT !.approvals = Put(db.approvals, a, row)])
           /\ \A x \in ExportIds : \A t \in Tenants :
                 IsDb([db EXCEPT !.exports = Put(db.exports, x, t)])
  <1>1. ASSUME NEW r \in RunIds, NEW row \in RunRow
        PROVE  IsDb([db EXCEPT !.runs = Put(db.runs, r, row)])
    <2>1. IsTable(Put(db.runs, r, row), RunIds, RunRow)
      BY PutTable DEF IsDb
    <2>2. QED
      BY <2>1 DEF IsDb
  <1>2. ASSUME NEW a \in ApprovalIds, NEW row \in ApprovalRow
        PROVE  IsDb([db EXCEPT !.approvals = Put(db.approvals, a, row)])
    <2>1. IsTable(Put(db.approvals, a, row), ApprovalIds, ApprovalRow)
      BY PutTable DEF IsDb
    <2>2. QED
      BY <2>1 DEF IsDb
  <1>3. ASSUME NEW x \in ExportIds, NEW t \in Tenants
        PROVE  IsDb([db EXCEPT !.exports = Put(db.exports, x, t)])
    <2>1. IsTable(Put(db.exports, x, t), ExportIds, Tenants)
      BY PutTable DEF IsDb
    <2>2. QED
      BY <2>1 DEF IsDb
  <1>4. QED
    BY <1>1, <1>2, <1>3

\* A single-row call logs one entry, stages an image of the right type that
\* leaves the events and the chain heads alone, and changes nothing else.
RowStep ==
    /\ pc = "idle" /\ pc' = "write"
    /\ IsDb(staged')
    /\ \E p \in WalPayload : W!WalAppend(p)
    /\ UNCHANGED <<db, globalSeq, call, fails>>
    /\ staged'.events = db.events /\ staged'.idempotency = db.idempotency
    /\ staged'.seq = db.seq
    /\ DOMAIN db.runs \subseteq DOMAIN staged'.runs
    /\ \A r \in DOMAIN staged'.runs :
          IF r \in DOMAIN db.runs
          THEN staged'.runs[r].last = db.runs[r].last /\ staged'.runs[r].count = db.runs[r].count
          ELSE staged'.runs[r].last = NoHash /\ staged'.runs[r].count = 0

\* A call that writes a run row keeps the chain heads and counts of the runs.
LEMMA RunRowStep ==
    ASSUME TypeOK, NEW r \in RunIds, NEW row \in RunRow, NEW op \in {"INSERT_RUN", "UPDATE_RUN"},
           LogAndStage(op, r, [db EXCEPT !.runs = Put(db.runs, r, row)]),
           row.last = IF r \in DOMAIN db.runs THEN db.runs[r].last ELSE NoHash,
           row.count = IF r \in DOMAIN db.runs THEN db.runs[r].count ELSE 0
    PROVE  RowStep
  <1>1. IsDb(db) /\ IsDb([db EXCEPT !.runs = Put(db.runs, r, row)])
    BY RowImagesOK DEF TypeOK
  <1>2. staged' = [db EXCEPT !.runs = Put(db.runs, r, row)]
    BY DEF LogAndStage
  <1>3. /\ staged'.events = db.events /\ staged'.idempotency = db.idempotency
        /\ staged'.seq = db.seq
        /\ staged'.runs = Put(db.runs, r, row)
    BY <1>1, <1>2 DEF IsDb
  <1>4. [op |-> op, id |-> r] \in WalPayload
    BY DEF WalPayload
  <1>5. QED
    BY <1>1, <1>2, <1>3, <1>4 DEF LogAndStage, RowStep, Put

\* A call that writes an approval or an export touches no run and no event.
LEMMA OtherRowStep ==
    ASSUME TypeOK, NEW op, NEW id, NEW image, LogAndStage(op, id, image),
           [op |-> op, id |-> id] \in WalPayload,
           IsDb(image), image.events = db.events, image.idempotency = db.idempotency,
           image.seq = db.seq, image.runs = db.runs
    PROVE  RowStep
  BY DEF LogAndStage, RowStep

\* Every single-row call only stages its row.
LEMMA RowCallStep == ASSUME TypeOK, RowCall PROVE RowStep
  <1>1. PICK t \in Tenants :
            \/ \E r \in RunIds : start_run(r, t) \/ commit_run(r, t) \/ rollback_run(r, t)
            \/ \E a \in ApprovalIds :
                  \/ upsert_approval(a, t)
                  \/ \E d \in ApprovalStatuses : update_approval_status(a, t, d)
            \/ \E x \in ExportIds : put_export(x, t)
    BY DEF RowCall
  <1> IsDb(db)
    BY DEF TypeOK
  <1>2. ASSUME NEW r \in RunIds, start_run(r, t) PROVE RowStep
    <2>1. NewRun(t) \in RunRow /\ NewRun(t).last = NoHash /\ NewRun(t).count = 0
      BY DEF NewRun, RunRow, Statuses, Hash, NoHash
    <2>2. QED
      BY <1>2, <2>1, RunRowStep DEF start_run
  <1>3. ASSUME NEW r \in RunIds, NEW st \in Statuses, Owns(db, r, t),
               LogAndStage("UPDATE_RUN", r,
                           [db EXCEPT !.runs = Put(db.runs, r, EndedRun(db, r, st))])
        PROVE  RowStep
    <2>1. r \in DOMAIN db.runs /\ db.runs[r] \in RunRow
      BY <1>3 DEF Owns, IsDb, IsTable
    <2>2. /\ EndedRun(db, r, st) \in RunRow /\ EndedRun(db, r, st).last = db.runs[r].last
          /\ EndedRun(db, r, st).count = db.runs[r].count
      BY <2>1 DEF EndedRun, RunRow
    <2>3. QED
      BY <1>3, <2>1, <2>2, RunRowStep
  <1>4. ASSUME NEW a \in ApprovalIds, NEW st \in ApprovalStatuses,
               NEW op \in {"INSERT_APPROVAL", "UPDATE_APPROVAL"},
               LogAndStage(op, a, [db EXCEPT !.approvals =
                                      Put(db.approvals, a, [tenant |-> t, status |-> st])])
        PROVE  RowStep
    <2> DEFINE image == [db EXCEPT !.approvals = Put(db.approvals, a, [tenant |-> t, status |-> st])]
    <2>1. [tenant |-> t, status |-> st] \in ApprovalRow
      BY DEF ApprovalRow
    <2>2. IsDb(image)
      BY <2>1, RowImagesOK
    <2>3. /\ image.events = db.events /\ image.idempotency = db.idempotency
          /\ image.seq = db.seq /\ image.runs = db.runs
      BY DEF IsDb
    <2>4. [op |-> op, id |-> a] \in WalPayload
      BY DEF WalPayload
    <2>5. QED
      BY <1>4, <2>2, <2>3, <2>4, OtherRowStep
  <1>5. ASSUME NEW x \in ExportIds, put_export(x, t) PROVE RowStep
    <2> DEFINE image == [db EXCEPT !.exports = Put(db.exports, x, t)]
    <2>1. IsDb(image)
      BY RowImagesOK
    <2>2. /\ image.events = db.events /\ image.idempotency = db.idempotency
          /\ image.seq = db.seq /\ image.runs = db.runs
      BY DEF IsDb
    <2>3. [op |-> "INSERT_EXPORT", id |-> x] \in WalPayload
      BY DEF WalPayload
    <2>4. QED
      BY <1>5, <2>1, <2>2, <2>3, OtherRowStep DEF put_export
  <1>6. QED
    BY <1>1, <1>2, <1>3, <1>4, <1>5
       DEF commit_run, rollback_run, upsert_approval, update_approval_status, Statuses,
           ApprovalStatuses

-----------------------------------------------------------------------------
(* The WAL steps keep the types of the WAL.                                *)

\* The WAL steps of the engine keep the type invariant of module Wal.
LEMMA WalTypes ==
    ASSUME W!WalTypeOK,
           \/ \E p \in WalPayload : W!WalAppend(p)
           \/ W!MarkApplied(lastSeq)
           \/ W!GiveUp \/ W!Crash \/ W!CrashInMark \/ W!Open
           \/ UNCHANGED log
    PROVE  W!WalTypeOK'
  <1> USE StoreBounds DEF W!WalTypeOK
  <1>1. ASSUME NEW p \in WalPayload, W!WalAppend(p) PROVE W!WalTypeOK'
    <2>1. [seq |-> lastSeq + 1, payload |-> p, torn |-> FALSE] \in W!Record
      BY DEF W!Record
    <2>2. QED
      BY <1>1, <2>1 DEF W!WalAppend
  <1>2. CASE W!MarkApplied(lastSeq)
    BY <1>2 DEF W!MarkApplied
  <1>3. CASE W!GiveUp
    BY <1>3 DEF W!GiveUp
  <1>4. CASE W!Crash \/ W!CrashInMark
    <2>1. W!Die /\ walFile' = walFile /\ appliedFile' \in Nat /\ torn' = torn
      BY <1>4 DEF W!Crash, W!CrashInMark
    <2>2. keep' \in Seq(W!Record)
      BY <2>1 DEF W!Die
    <2>3. {crashes, torn, truncations}' \subseteq Nat
      BY <2>1 DEF W!Die
    <2>4. {inflight, owed}' \subseteq WalPayload \cup {NoPayload}
      BY <2>1 DEF W!Die
    <2>5. QED
      BY <2>1, <2>2, <2>3, <2>4 DEF W!Die
  <1>5. CASE W!Open
    BY <1>5 DEF W!Open, W!ScanLastSeq
  <1>6. CASE UNCHANGED log
    BY <1>6 DEF log
  <1>7. QED
    BY <1>1, <1>2, <1>3, <1>4, <1>5, <1>6

-----------------------------------------------------------------------------
(* Type correctness.                                                       *)

\* The locals of the call in progress have their types.
Locals == [run : RunIds \cup {NoRun}, batch : Seq(Input), i : Nat, fresh : Nat, head : Hash,
           status : Statuses, ended : BOOLEAN]

CallOK == call \in Locals /\ call.i <= Len(call.batch)

\* A new store is well typed.
LEMMA InitTypeOK == Init => TypeOK
  <1> SUFFICES ASSUME Init PROVE TypeOK
    OBVIOUS
  <1>1. IsDb(db) /\ IsDb(staged)
    BY EmptyDbOK DEF Init
  <1>2. call \in [run : RunIds \cup {NoRun}, batch : Seq(Input), i : Nat, fresh : Nat, head : Hash,
                 status : Statuses, ended : BOOLEAN]
    BY DEF Init, NoCall, NoHash, Hash, Statuses
  <1>3. call.i <= Len(call.batch)
    BY DEF Init, NoCall
  <1>4. W!WalTypeOK
    <2>1. W!WalInit
      BY DEF Init
    <2>2. <<>> \in Seq(W!Record)
      OBVIOUS
    <2>3. walUp \in BOOLEAN /\ truncating \in BOOLEAN
      BY <2>1, Zenon DEF W!WalInit
    <2>4. /\ walFile = <<>> /\ keep = <<>> /\ {inflight, owed} \subseteq WalPayload \cup {NoPayload}
          /\ {crashes, torn, truncations} \subseteq Nat
          /\ {lastSeq, appliedSeq, appliedFile} \subseteq Nat
      BY <2>1, SMT DEF W!WalInit
    <2>5. QED
      BY <2>2, <2>3, <2>4 DEF W!WalTypeOK
  <1>5. QED
    BY <1>1, <1>2, <1>3, <1>4 DEF Init, TypeOK

\* Without a call in progress the local variables are well formed.
LEMMA NoCallOK == call' = NoCall => CallOK'
  BY DEF CallOK, Locals, NoCall, NoHash, Hash, Statuses

\* Inside the loop of append_events there is a next event to look at.
LEMMA NextInputOK ==
    ASSUME CallOK, call.i < Len(call.batch)
    PROVE  NextInput \in Input
  BY DEF CallOK, Locals, NextInput

\* What is hashed of an event row.
LEMMA ContentOfRow ==
    ASSUME NEW r, NEW k, NEW t, NEW p, NEW h
    PROVE  Content([run |-> r, key |-> k, type |-> t, prev |-> p, hash |-> h])
              = [run |-> r, key |-> k, type |-> t]
  BY DEF Content

\* The row append_events builds is an event row, hashed over its own content.
LEMMA NewEventOK ==
    ASSUME CallOK, call.run \in RunIds, NEW ev \in Input
    PROVE  /\ NewEvent(ev) \in EventRow
           /\ NewEvent(ev).run = call.run /\ NewEvent(ev).key = ev.key
           /\ NewEvent(ev).prev = call.head
           /\ NewEvent(ev).hash = EventHash(NewEvent(ev))
  <1> DEFINE c == [run |-> call.run, key |-> ev.key, type |-> ev.type]
             row(h) == [run |-> call.run, key |-> ev.key, type |-> ev.type,
                        prev |-> call.head, hash |-> h]
             h0 == Append(call.head, c)
  <1>1. c \in [run : RunIds, key : Keys \cup {NoKey}, type : EventTypes]
    BY DEF Input
  <1>2. h0 \in Hash
    BY <1>1 DEF CallOK, Locals, Hash
  <1>3. \A h : EventHash(row(h)) = h0
    <2>1. ASSUME NEW h PROVE EventHash(row(h)) = h0
      <3>1. Content(row(h)) = c
        BY ContentOfRow
      <3>2. row(h).prev = call.head
        OBVIOUS
      <3>3. QED
        BY <3>1, <3>2 DEF EventHash
    <2>2. QED
      BY <2>1
  <1>4. NewEvent(ev) = [row(NoHash) EXCEPT !.hash = EventHash(row(NoHash))]
    BY DEF NewEvent
  <1>5. NewEvent(ev) = [row(NoHash) EXCEPT !.hash = h0]
    BY <1>3, <1>4
  <1> HIDE DEF h0
  <1>6. [row(NoHash) EXCEPT !.hash = h0] = row(h0)
    OBVIOUS
  <1>7. NewEvent(ev) = row(h0)
    BY <1>5, <1>6
  <1>8. row(h0) \in EventRow
    BY <1>2 DEF CallOK, Locals, EventRow, Input
  <1>9. QED
    BY <1>3, <1>7, <1>8

\* The batch with one more event is a database.
LEMMA WithEventOK ==
    ASSUME NEW d, IsDb(d), NEW s \in Nat, NEW e \in EventRow
    PROVE  /\ IsDb(WithEvent(d, s, e))
           /\ WithEvent(d, s, e).events = Put(d.events, s, e)
           /\ WithEvent(d, s, e).runs = d.runs /\ WithEvent(d, s, e).approvals = d.approvals
           /\ WithEvent(d, s, e).idempotency =
                 IF e.key = NoKey THEN d.idempotency ELSE Put(d.idempotency, e.key, e.hash)
  <1> DEFINE idem == IF e.key = NoKey THEN d.idempotency ELSE Put(d.idempotency, e.key, e.hash)
  <1>1. IsTable(Put(d.events, s, e), Nat, EventRow)
    BY PutTable DEF IsDb
  <1>2. IsTable(idem, Keys, Hash)
    BY PutTable DEF IsDb, EventRow
  <1>3. WithEvent(d, s, e) = [d EXCEPT !.events = Put(d.events, s, e), !.idempotency = idem]
    BY DEF WithEvent
  <1> HIDE DEF idem
  <1>4. QED
    BY <1>1, <1>2, <1>3 DEF IsDb, idem

\* Updates of record fields, with the sets of the fields left open (a Boolean
\* field and arithmetic in one obligation are too much for either prover).
LEMMA RunRowUpdate ==
    ASSUME NEW T, NEW S, NEW B, NEW H, NEW C,
           NEW row \in [tenant : T, status : S, ended : B, last : H, count : C],
           NEW h \in H, NEW c \in C, NEW st \in S, NEW en \in B
    PROVE  LET new == [row EXCEPT !.last = h, !.count = c, !.status = st, !.ended = en]
           IN  /\ new \in [tenant : T, status : S, ended : B, last : H, count : C]
               /\ new.last = h /\ new.count = c /\ new.tenant = row.tenant
  OBVIOUS

\* The same for the local variables of append_events.
LEMMA CallUpdate ==
    ASSUME NEW R, NEW B, NEW N, NEW H, NEW S, NEW E,
           NEW c \in [run : R, batch : B, i : N, fresh : N, head : H, status : S, ended : E],
           NEW i \in N, NEW f \in N, NEW h \in H, NEW st \in S, NEW en \in E
    PROVE  /\ LET new == [c EXCEPT !.i = i, !.status = st, !.ended = en]
              IN  /\ new \in [run : R, batch : B, i : N, fresh : N, head : H, status : S, ended : E]
                  /\ new.i = i /\ new.batch = c.batch /\ new.run = c.run /\ new.head = c.head
                  /\ new.fresh = c.fresh
           /\ LET new == [c EXCEPT !.i = i, !.fresh = f, !.head = h, !.status = st, !.ended = en]
              IN  /\ new \in [run : R, batch : B, i : N, fresh : N, head : H, status : S, ended : E]
                  /\ new.i = i /\ new.batch = c.batch /\ new.run = c.run /\ new.head = h
                  /\ new.fresh = f
  OBVIOUS

\* The same for the image of the database.
LEMMA ImageUpdate ==
    ASSUME NEW A, NEW B, NEW C, NEW D, NEW E, NEW N,
           NEW d \in [runs : A, events : B, idempotency : C, approvals : D, exports : E, seq : N],
           NEW runs \in A, NEW seq \in N
    PROVE  /\ [d EXCEPT !.runs = runs, !.seq = seq]
                 \in [runs : A, events : B, idempotency : C, approvals : D, exports : E, seq : N]
           /\ [d EXCEPT !.runs = runs, !.seq = seq].runs = runs
           /\ [d EXCEPT !.runs = runs, !.seq = seq].seq = seq
  OBVIOUS

\* An image of the database has the fields of a database.
LEMMA ImageIsRecord ==
    ASSUME NEW A, NEW B, NEW C, NEW D, NEW E, NEW N,
           NEW d \in [runs : A, events : B, idempotency : C, approvals : D, exports : E, seq : N]
    PROVE  /\ d = [runs |-> d.runs, events |-> d.events, idempotency |-> d.idempotency,
                   approvals |-> d.approvals, exports |-> d.exports, seq |-> d.seq]
           /\ d.events \in B /\ d.idempotency \in C /\ d.approvals \in D /\ d.exports \in E
  OBVIOUS

WithRuns(d, runs, seq) == [d EXCEPT !.runs = runs, !.seq = seq]

\* Replacing the run rows and meta/global_seq of a database gives a database.
LEMMA DbUpdate ==
    ASSUME NEW d, IsDb(d), NEW runs, NEW seq \in Nat, IsTable(runs, RunIds, RunRow)
    PROVE  /\ IsDb(WithRuns(d, runs, seq))
           /\ WithRuns(d, runs, seq).runs = runs
           /\ WithRuns(d, runs, seq).seq = seq
           /\ WithRuns(d, runs, seq).events = d.events
           /\ WithRuns(d, runs, seq).idempotency = d.idempotency
           /\ WithRuns(d, runs, seq).approvals = d.approvals
  <1> DEFINE new == WithRuns(d, runs, seq)
  <1> DEFINE Image == [runs : {d.runs, runs}, events : {d.events}, idempotency : {d.idempotency},
                       approvals : {d.approvals}, exports : {d.exports}, seq : Nat]
  <1>1. d \in Image
    BY DEF IsDb
  <1>2. new \in Image /\ new.runs = runs /\ new.seq = seq
    BY <1>1, ImageUpdate, Zenon DEF WithRuns
  <1> HIDE DEF new
  <1>3. /\ new = [runs |-> new.runs, events |-> new.events, idempotency |-> new.idempotency,
                  approvals |-> new.approvals, exports |-> new.exports, seq |-> new.seq]
        /\ new.events = d.events /\ new.idempotency = d.idempotency
        /\ new.approvals = d.approvals /\ new.exports = d.exports
    BY <1>2, ImageIsRecord
  <1>4. QED
    <2>1. IsDb(new)
      BY <1>2, <1>3 DEF IsDb
    <2>2. QED
      BY <1>2, <1>3, <2>1 DEF new

\* The batch append_events writes is a database.
LEMMA FinalImageOK ==
    ASSUME IsDb(db), IsDb(staged), CallOK, call.run \in DOMAIN db.runs, globalSeq \in Nat
    PROVE  /\ IsDb(FinalImage)
           /\ FinalImage.events = staged.events
           /\ FinalImage.idempotency = staged.idempotency
           /\ FinalImage.approvals = staged.approvals
           /\ FinalImage.seq = globalSeq
           /\ FinalImage.runs = Put(db.runs, call.run, RunAfter(db.runs[call.run]))
           /\ RunAfter(db.runs[call.run]).tenant = db.runs[call.run].tenant
           /\ RunAfter(db.runs[call.run]).last = call.head
           /\ RunAfter(db.runs[call.run]).count = db.runs[call.run].count + call.fresh
  <1> DEFINE row == db.runs[call.run]
  <1>1. row \in RunRow /\ call.run \in RunIds
    BY DEF IsDb, IsTable
  <1>2. /\ RunAfter(row) \in RunRow /\ RunAfter(row).tenant = row.tenant
        /\ RunAfter(row).last = call.head
        /\ RunAfter(row).count = row.count + call.fresh
    <2>1. /\ call.status \in Statuses /\ call.ended \in BOOLEAN
          /\ call.head \in Hash /\ row.count + call.fresh \in Nat
      BY <1>1 DEF CallOK, Locals, RunRow
    <2>2. QED
      BY <1>1, <2>1, RunRowUpdate, Zenon DEF RunRow, RunAfter
  <1>3. IsTable(Put(db.runs, call.run, RunAfter(row)), RunIds, RunRow)
    BY <1>1, <1>2, PutTable DEF IsDb
  <1>4. QED
    <2> DEFINE runs == Put(db.runs, call.run, RunAfter(row))
               new  == FinalImage
    <2>1. new = WithRuns(staged, runs, globalSeq) /\ IsTable(runs, RunIds, RunRow)
      BY <1>3 DEF FinalImage, WithRuns
    <2> HIDE DEF runs, new
    <2>2. /\ IsDb(new) /\ new.events = staged.events /\ new.idempotency = staged.idempotency
          /\ new.seq = globalSeq /\ new.runs = runs /\ new.approvals = staged.approvals
      BY <2>1, DbUpdate
    <2>3. QED
      BY <1>2, <2>2 DEF runs, new

\* Events leave a run in a status runs have.
LEMMA StatusAfterOK ==
    ASSUME NEW st \in Statuses, NEW type \in EventTypes
    PROVE  StatusAfter(st, type) \in Statuses
  BY DEF StatusAfter, Statuses, EventTypes

\* The conjuncts of TypeOK, with the call's gathered in CallOK.
Typed ==
    /\ IsDb(db) /\ IsDb(staged) /\ globalSeq \in Nat /\ CallOK /\ fails \in Nat /\ W!WalTypeOK
    /\ pc \in {"idle", "write", "mark", "event", "markEvent", "down"}
    /\ pc \in {"event", "markEvent"} => call.run \in DOMAIN db.runs

\* The type invariant, with the part about the call stated apart.
LEMMA TypedIsTypeOK == TypeOK <=> Typed
  BY DEF TypeOK, Typed, CallOK, Locals

\* A skipped duplicate leaves the run and the head of the call alone.
LEMMA SkipStep ==
    ASSUME Typed, SkipDuplicate
    PROVE  /\ CallOK' /\ call'.run = call.run /\ call'.head = call.head /\ call'.fresh = call.fresh
           /\ call'.batch = call.batch /\ call'.i = call.i + 1
  <1>0. CallOK /\ call \in Locals
    BY DEF Typed, CallOK
  <1>1. NextInput \in Input
    BY <1>0, NextInputOK DEF SkipDuplicate
  <1>2. StatusAfter(call.status, NextInput.type) \in Statuses
    BY <1>0, <1>1, StatusAfterOK DEF Locals, Input
  <1>3. EndedAfter(call.ended, NextInput.type) \in BOOLEAN
    BY DEF EndedAfter
  <1>4. /\ call.i + 1 \in Nat /\ call.fresh \in Nat /\ call.head \in Hash
        /\ call.i + 1 <= Len(call.batch)
    BY <1>0 DEF SkipDuplicate, CallOK, Locals
  <1>5. /\ call' \in Locals /\ call'.i = call.i + 1
        /\ call'.batch = call.batch /\ call'.run = call.run
        /\ call'.head = call.head /\ call'.fresh = call.fresh
    BY <1>0, <1>2, <1>3, <1>4, CallUpdate, Zenon DEF SkipDuplicate, Locals
  <1>6. QED
    BY <1>4, <1>5 DEF CallOK

\* One round of append_events adds one row, numbered globalSeq + 1 and chained
\* to the head, to the batch under construction.
LEMMA LogEventStep ==
    ASSUME Typed, LogEvent
    PROVE  /\ CallOK' /\ call'.run = call.run /\ call'.fresh = call.fresh + 1
           /\ call'.batch = call.batch /\ call'.i = call.i + 1
           /\ IsDb(staged') /\ staged'.runs = staged.runs /\ staged'.approvals = staged.approvals
           /\ \E e \in EventRow :
                 /\ e.run = call.run /\ e.key = NextInput.key
                 /\ e.prev = call.head /\ e.hash = EventHash(e)
                 /\ call'.head = e.hash
                 /\ staged'.events = Put(staged.events, globalSeq + 1, e)
                 /\ staged'.idempotency = IF e.key = NoKey THEN staged.idempotency
                                          ELSE Put(staged.idempotency, e.key, e.hash)
  <1> DEFINE e == NewEvent(NextInput)
  <1>0. CallOK /\ call \in Locals /\ IsDb(db) /\ IsDb(staged) /\ globalSeq \in Nat
    BY DEF Typed, CallOK
  <1>1. NextInput \in Input
    BY <1>0, NextInputOK DEF LogEvent
  <1>2. call.run \in RunIds
    BY <1>0 DEF LogEvent, Typed, IsDb, IsTable
  <1>3. /\ e \in EventRow /\ e.run = call.run /\ e.key = NextInput.key
        /\ e.prev = call.head /\ e.hash = EventHash(e)
    BY <1>0, <1>1, <1>2, NewEventOK
  <1>4. StatusAfter(call.status, NextInput.type) \in Statuses
    BY <1>0, <1>1, StatusAfterOK DEF Locals, Input
  <1>5. EndedAfter(call.ended, NextInput.type) \in BOOLEAN
    BY DEF EndedAfter
  <1>6. /\ call.i + 1 \in Nat /\ call.fresh + 1 \in Nat /\ call.i + 1 <= Len(call.batch)
    BY <1>0 DEF LogEvent, CallOK, Locals
  <1>7. e.hash \in Hash
    BY <1>3 DEF EventRow
  <1>8. /\ call' \in Locals /\ call'.i = call.i + 1
        /\ call'.batch = call.batch /\ call'.run = call.run
        /\ call'.head = e.hash /\ call'.fresh = call.fresh + 1
    BY <1>0, <1>4, <1>5, <1>6, <1>7, CallUpdate, Zenon DEF LogEvent, Locals
  <1>9. CallOK'
    BY <1>6, <1>8 DEF CallOK
  <1>10. globalSeq + 1 \in Nat /\ staged' = WithEvent(staged, globalSeq + 1, e)
    BY <1>0 DEF LogEvent
  <1> HIDE DEF e
  <1>11. /\ IsDb(staged') /\ staged'.runs = staged.runs /\ staged'.approvals = staged.approvals
         /\ staged'.events = Put(staged.events, globalSeq + 1, e)
         /\ staged'.idempotency = IF e.key = NoKey THEN staged.idempotency
                                  ELSE Put(staged.idempotency, e.key, e.hash)
    BY <1>0, <1>3, <1>10, WithEventOK
  <1>12. QED
    BY <1>3, <1>8, <1>9, <1>11

\* Every step of the engine keeps the type invariant.
LEMMA NextTypeOK == TypeOK /\ [Next]_vars => TypeOK'
  <1> SUFFICES ASSUME TypeOK, [Next]_vars PROVE TypeOK'
    OBVIOUS
  <1>0. Typed
    BY TypedIsTypeOK
  <1> SUFFICES Typed'
    BY DEF TypeOK, Typed, CallOK, Locals
  <1> USE <1>0 DEF Typed
  <1>1. CASE RowCall
    <2>1. RowStep
      BY <1>1, RowCallStep
    <2>2. W!WalTypeOK'
      BY <1>0, <2>1, WalTypes DEF RowStep
    <2>3. QED
      BY <1>0, <2>1, <2>2 DEF RowStep, CallOK, Locals
  <1>2. CASE WriteRow
    <2>1. W!WalTypeOK'
      BY <1>0, <1>2, WalTypes DEF WriteRow
    <2>2. QED
      BY <1>0, <1>2, <2>1 DEF WriteRow, CallOK, Locals
  <1>3. CASE MarkRow
    <2>1. W!WalTypeOK'
      BY <1>0, <1>3, WalTypes DEF MarkRow
    <2>2. QED
      BY <1>0, <1>3, <2>1 DEF MarkRow, CallOK, Locals
  <1>4. CASE WriteRowFails
    <2>1. W!WalTypeOK'
      BY <1>0, <1>4, WalTypes DEF WriteRowFails
    <2>2. QED
      BY <1>0, <1>4, <2>1 DEF WriteRowFails, CallOK, Locals
  <1>5. ASSUME NEW r \in RunIds, NEW t \in Tenants, NEW b \in Batches, append_events(r, t, b)
        PROVE  Typed'
    <2>1. W!WalTypeOK'
      BY <1>0, <1>5, WalTypes DEF append_events
    <2>2. b \in Seq(Input) /\ db.runs[r] \in RunRow /\ r \in DOMAIN db.runs
      BY <1>0, <1>5, BatchesAssumption DEF append_events, Owns, IsDb, IsTable
    <2>3. CallOK' /\ call'.run = r
      BY <1>5, <2>2 DEF append_events, CallOK, Locals, RunRow
    <2>4. QED
      BY <1>0, <1>5, <2>1, <2>2, <2>3 DEF append_events
  <1>6. CASE SkipDuplicate
    <2>1. W!WalTypeOK'
      BY <1>0, <1>6, WalTypes DEF SkipDuplicate
    <2>2. CallOK' /\ call'.run = call.run
      BY <1>6, SkipStep
    <2>3. QED
      BY <1>0, <1>6, <2>1, <2>2 DEF SkipDuplicate
  <1>7. CASE LogEvent
    <2>1. [op |-> "INSERT_EVENT", id |-> globalSeq + 1] \in WalPayload
      BY <1>0 DEF WalPayload
    <2>2. W!WalTypeOK'
      BY <1>0, <1>7, <2>1, WalTypes DEF LogEvent
    <2>3. CallOK' /\ call'.run = call.run /\ IsDb(staged')
      BY <1>7, LogEventStep
    <2>4. QED
      BY <1>0, <1>7, <2>2, <2>3 DEF LogEvent
  <1>8. CASE MarkEvent
    <2>1. W!WalTypeOK'
      BY <1>0, <1>8, WalTypes DEF MarkEvent
    <2>2. QED
      BY <1>0, <1>8, <2>1 DEF MarkEvent, CallOK, Locals
  <1>9. CASE WriteBatch
    <2>1. W!WalTypeOK'
      BY <1>0, <1>9, WalTypes DEF WriteBatch
    <2>2. IsDb(FinalImage)
      BY <1>0, <1>9, FinalImageOK DEF WriteBatch
    <2>3. QED
      BY <1>0, <1>9, <2>1, <2>2, NoCallOK DEF WriteBatch
  <1>10. CASE WriteBatchFails
    <2>1. W!WalTypeOK'
      BY <1>0, <1>10, WalTypes DEF WriteBatchFails
    <2>2. QED
      BY <1>0, <1>10, <2>1, NoCallOK DEF WriteBatchFails
  <1>11. CASE Crash
    <2>1. W!WalTypeOK'
      BY <1>0, <1>11, WalTypes DEF Crash
    <2>2. QED
      BY <1>0, <1>11, <2>1, NoCallOK DEF Crash
  <1>12. CASE Reopen
    <2>1. W!WalTypeOK'
      BY <1>0, <1>12, WalTypes DEF Reopen
    <2>2. QED
      BY <1>0, <1>12, <2>1 DEF Reopen, CallOK, Locals, IsDb
  <1>13. CASE UNCHANGED vars
    <2>1. W!WalTypeOK'
      BY <1>0, <1>13, WalTypes DEF vars
    <2>2. QED
      BY <1>0, <1>13, <2>1 DEF vars, CallOK, Locals
  <1>14. QED
    BY <1>1, <1>2, <1>3, <1>4, <1>5, <1>6, <1>7, <1>8, <1>9, <1>10, <1>11, <1>12, <1>13 DEF Next

\* In every reachable state the column families hold rows of their own types
\* and the call in progress is well formed.
THEOREM TypeCorrect == Spec => []TypeOK
  <1>1. QED
    BY InitTypeOK, NextTypeOK, PTL DEF Spec

-----------------------------------------------------------------------------
(* Hash chains.                                                            *)

\* HeadIs looks only at the rows numbered in S.
LEMMA HeadIsLocal ==
    ASSUME NEW f, NEW g, NEW S, NEW h, HeadIs(f, S, h), \A t \in S : f[t] = g[t]
    PROVE  HeadIs(g, S, h)
  BY DEF HeadIs

\* Appending an event chained to the newest of its run keeps the chain, and the
\* event becomes the newest.
LEMMA AppendKeepsChain ==
    ASSUME NEW events, NEW n \in Nat, DOMAIN events \subseteq 1..n, Linked(events),
           NEW e, e.hash = EventHash(e), HeadIs(events, OfRun(events, e.run), e.prev)
    PROVE  LET new == Put(events, n + 1, e)
           IN  Linked(new) /\ HeadIs(new, OfRun(new, e.run), e.hash)
  <1> DEFINE new == Put(events, n + 1, e)
  <1>1. /\ DOMAIN new = DOMAIN events \cup {n + 1} /\ DOMAIN new \subseteq 1..(n + 1)
        /\ n + 1 \notin DOMAIN events /\ new[n + 1] = e
        /\ \A s \in DOMAIN events : new[s] = events[s] /\ s < n + 1 /\ s \in Nat
        /\ OfRun(new, e.run) = OfRun(events, e.run) \cup {n + 1}
        /\ \A r : r # e.run => OfRun(new, r) = OfRun(events, r)
    BY DEF Put, OfRun
  <1> HIDE DEF new
  <1>2. ASSUME NEW s \in DOMAIN new
        PROVE  /\ new[s].hash = EventHash(new[s])
               /\ HeadIs(new, Before(new, new[s].run, s), new[s].prev)
    <2>1. CASE s = n + 1
      <3>1. Before(new, e.run, s) = OfRun(events, e.run)
        BY <1>1, <2>1 DEF Before, OfRun
      <3>2. \A t \in OfRun(events, e.run) : events[t] = new[t]
        BY <1>1 DEF OfRun
      <3>3. QED
        BY <1>1, <2>1, <3>1, <3>2, HeadIsLocal
    <2>2. CASE s # n + 1
      <3>1. s \in DOMAIN events /\ new[s] = events[s]
        BY <1>1, <2>2
      <3>2. Before(new, events[s].run, s) = Before(events, events[s].run, s)
        BY <1>1, <3>1 DEF Before, OfRun
      <3>3. \A t \in Before(events, events[s].run, s) : events[t] = new[t]
        BY <1>1 DEF Before, OfRun
      <3>4. HeadIs(events, Before(events, events[s].run, s), events[s].prev)
        BY <3>1 DEF Linked
      <3>5. HeadIs(new, Before(events, events[s].run, s), events[s].prev)
        BY <3>3, <3>4, HeadIsLocal
      <3>6. QED
        BY <3>1, <3>2, <3>5 DEF Linked
    <2>3. QED
      BY <2>1, <2>2
  <1>3. Linked(new)
    BY <1>2 DEF Linked
  <1>4. HeadIs(new, OfRun(new, e.run), e.hash)
    BY <1>1 DEF HeadIs, OfRun
  <1>5. QED
    BY <1>3, <1>4 DEF new

\* The number of events of a run is a number, and grows by one with a put.
LEMMA PutCounts ==
    ASSUME NEW events, NEW n \in Nat, DOMAIN events \subseteq 1..n, NEW e
    PROVE  Cardinality(OfRun(Put(events, n + 1, e), e.run)) = Cardinality(OfRun(events, e.run)) + 1
  <1>1. IsFiniteSet(OfRun(events, e.run))
    <2>1. OfRun(events, e.run) \subseteq 1..n
      BY DEF OfRun
    <2>2. QED
      BY <2>1, 1 \in Int, n \in Int, FS_Interval, FS_Subset
  <1>2. n + 1 \notin OfRun(events, e.run)
    BY DEF OfRun
  <1>3. OfRun(Put(events, n + 1, e), e.run) = OfRun(events, e.run) \cup {n + 1}
    BY DEF Put, OfRun
  <1>4. QED
    BY <1>1, <1>2, <1>3, FS_AddElement

\* A put of an event together with the put of its key keeps the index.
LEMMA PutIndexed ==
    ASSUME NEW d, Indexed(d), NEW n \in Nat, DOMAIN d.events \subseteq 1..n, NEW e, NEW new,
           new.events = Put(d.events, n + 1, e),
           new.idempotency = IF e.key = NoKey THEN d.idempotency
                             ELSE Put(d.idempotency, e.key, e.hash)
    PROVE  Indexed(new)
  <1>1. /\ DOMAIN new.events = DOMAIN d.events \cup {n + 1} /\ n + 1 \notin DOMAIN d.events
        /\ new.events[n + 1] = e
        /\ \A s \in DOMAIN d.events : new.events[s] = d.events[s]
    BY DEF Put, OfRun
  <1>2. CASE e.key = NoKey
    BY <1>1, <1>2 DEF Indexed
  <1>3. CASE e.key # NoKey
    <2>1. /\ DOMAIN new.idempotency = DOMAIN d.idempotency \cup {e.key}
          /\ new.idempotency[e.key] = e.hash
          /\ \A k \in DOMAIN d.idempotency : k # e.key => new.idempotency[k] = d.idempotency[k]
      BY <1>3 DEF Put
    <2>2. QED
      BY <1>1, <2>1 DEF Indexed
  <1>4. QED
    BY <1>2, <1>3

-----------------------------------------------------------------------------
(* The inductive invariant.                                                *)

\* A new store satisfies the inductive invariant.
LEMMA InitIndInv == Init => IndInv
  <1> SUFFICES ASSUME Init PROVE IndInv
    OBVIOUS
  <1>1. /\ db.events = EmptyTable /\ db.runs = EmptyTable /\ db.idempotency = EmptyTable
        /\ db.seq = 0 /\ pc = "idle" /\ globalSeq = 0
    BY DEF Init, EmptyDb
  <1>2. DOMAIN EmptyTable = {}
    BY DEF EmptyTable
  <1>3. Consistent(db)
    BY <1>1, <1>2 DEF Consistent, Linked, Indexed
  <1>4. QED
    BY <1>1, <1>3 DEF IndInv

\* Writing the batch of a single-row call.
LEMMA WriteRowConsistent ==
    ASSUME Typed, Consistent(db), RowStaged
    PROVE  Consistent(staged)
  <1>1. /\ Linked(staged.events) /\ DOMAIN staged.events \subseteq 1..staged.seq
        /\ \A s \in DOMAIN staged.events : staged.events[s].run \in DOMAIN staged.runs
        /\ Indexed(staged)
    BY DEF Consistent, RowStaged, Indexed
  <1>2. ASSUME NEW r \in DOMAIN staged.runs PROVE RunMatches(staged, r)
    <2>1. CASE r \in DOMAIN db.runs
      BY <2>1 DEF Consistent, RowStaged, RunMatches
    <2>2. CASE r \notin DOMAIN db.runs
      <3>1. OfRun(db.events, r) = {}
        BY <2>2 DEF Consistent, OfRun
      <3>2. QED
        BY <2>2, <3>1, FS_EmptySet DEF RowStaged, RunMatches, HeadIs
    <2>3. QED
      BY <2>1, <2>2
  <1>3. QED
    BY <1>1, <1>2 DEF Consistent

\* Writing the batch of an append.
LEMMA WriteBatchConsistent ==
    ASSUME Typed, Consistent(db), AppendStaged, pc = "event", db.seq <= globalSeq
    PROVE  Consistent(FinalImage)
  <1>1. /\ call.run \in DOMAIN db.runs
        /\ FinalImage.events = staged.events
        /\ FinalImage.idempotency = staged.idempotency
        /\ FinalImage.seq = globalSeq
        /\ FinalImage.runs = Put(db.runs, call.run, RunAfter(db.runs[call.run]))
        /\ RunAfter(db.runs[call.run]).last = call.head
        /\ RunAfter(db.runs[call.run]).count = db.runs[call.run].count + call.fresh
    BY FinalImageOK DEF Typed
  <1>2. /\ DOMAIN FinalImage.runs = DOMAIN db.runs
        /\ FinalImage.runs[call.run] = RunAfter(db.runs[call.run])
        /\ \A r \in DOMAIN db.runs : r # call.run => FinalImage.runs[r] = db.runs[r]
    BY <1>1 DEF Put
  <1> HIDE DEF FinalImage
  <1>3. ASSUME NEW r \in DOMAIN db.runs PROVE RunMatches(FinalImage, r)
    <2>1. CASE r = call.run
      BY <1>1, <1>2, <2>1 DEF RunMatches, AppendStaged
    <2>2. CASE r # call.run
      <3>1. OfRun(staged.events, r) = OfRun(db.events, r)
        BY <2>2 DEF OfRun, AppendStaged
      <3>2. \A t \in OfRun(db.events, r) : db.events[t] = staged.events[t]
        BY DEF OfRun, AppendStaged
      <3>3. HeadIs(db.events, OfRun(db.events, r), db.runs[r].last)
        BY DEF Consistent, RunMatches
      <3>4. HeadIs(staged.events, OfRun(db.events, r), db.runs[r].last)
        BY <3>2, <3>3, HeadIsLocal
      <3>5. QED
        BY <1>1, <1>2, <2>2, <3>1, <3>4 DEF RunMatches, Consistent
    <2>3. QED
      BY <2>1, <2>2
  <1>4. ASSUME NEW s \in DOMAIN staged.events PROVE staged.events[s].run \in DOMAIN db.runs
    BY <1>1 DEF Consistent, AppendStaged
  <1>5. QED
    BY <1>1, <1>2, <1>3, <1>4 DEF Consistent, AppendStaged, Indexed

\* One more event in the batch under construction.
LEMMA LogEventStaged ==
    ASSUME Typed, AppendStaged, Consistent(db), db.seq <= globalSeq, LogEvent
    PROVE  AppendStaged'
  <1>1. PICK e \in EventRow :
            /\ e.run = call.run /\ e.prev = call.head /\ e.hash = EventHash(e)
            /\ call'.head = e.hash
            /\ staged'.events = Put(staged.events, globalSeq + 1, e)
            /\ staged'.idempotency = IF e.key = NoKey THEN staged.idempotency
                                     ELSE Put(staged.idempotency, e.key, e.hash)
    BY LogEventStep
  <1>2. /\ call'.run = call.run /\ call'.fresh = call.fresh + 1
        /\ staged'.runs = staged.runs /\ db' = db /\ globalSeq' = globalSeq + 1
    BY LogEventStep DEF LogEvent
  <1>3. globalSeq \in Nat /\ DOMAIN staged.events \subseteq 1..globalSeq
    BY DEF Typed, AppendStaged
  <1>4. Linked(staged'.events) /\ HeadIs(staged'.events, OfRun(staged'.events, call'.run), call'.head)
    BY <1>1, <1>2, <1>3, AppendKeepsChain DEF AppendStaged
  <1>5. Cardinality(OfRun(staged'.events, call'.run)) = db'.runs[call'.run].count + call'.fresh
    <2>1. Cardinality(OfRun(staged'.events, call.run)) = Cardinality(OfRun(staged.events, call.run)) + 1
      BY <1>1, <1>3, PutCounts
    <2>2. call.fresh \in Nat /\ db.runs[call.run].count \in Nat
      BY DEF Typed, CallOK, Locals, LogEvent, IsDb, IsTable, RunRow
    <2>3. QED
      BY <1>2, <2>1, <2>2 DEF AppendStaged
  <1>6. Indexed(staged')
    BY <1>1, <1>3, PutIndexed DEF AppendStaged
  <1>7. /\ DOMAIN staged'.events \subseteq 1..globalSeq'
        /\ \A s \in DOMAIN db'.events :
              s \in DOMAIN staged'.events /\ staged'.events[s] = db'.events[s]
        /\ \A s \in DOMAIN staged'.events \ DOMAIN db'.events : staged'.events[s].run = call'.run
    BY <1>1, <1>2, <1>3 DEF AppendStaged, Put
  <1>8. QED
    BY <1>2, <1>4, <1>5, <1>6, <1>7 DEF AppendStaged

\* Every step of the engine keeps the inductive invariant.
LEMMA NextIndInv == TypeOK /\ IndInv /\ [Next]_vars => IndInv'
  <1> SUFFICES ASSUME TypeOK, IndInv, [Next]_vars PROVE IndInv'
    OBVIOUS
  <1>0. Typed /\ db.seq \in Nat /\ globalSeq \in Nat
    BY TypedIsTypeOK DEF Typed, IsDb
  <1>1. CASE RowCall
    BY <1>1, RowCallStep DEF RowStep, IndInv, RowStaged
  <1>2. CASE WriteRow
    BY <1>0, <1>2, WriteRowConsistent DEF WriteRow, IndInv, RowStaged
  <1>3. CASE MarkRow \/ WriteRowFails
    BY <1>3 DEF MarkRow, WriteRowFails, IndInv
  <1>4. ASSUME NEW r \in RunIds, NEW t \in Tenants, NEW b \in Batches, append_events(r, t, b)
        PROVE  IndInv'
    <2>1. /\ r \in DOMAIN db.runs /\ pc = "idle" /\ pc' = "event" /\ db' = db
          /\ globalSeq' = globalSeq /\ staged' = db
          /\ call'.run = r /\ call'.head = db.runs[r].last /\ call'.fresh = 0
      BY <1>4 DEF append_events, Owns
    <2>2. db.runs[r].count \in Nat
      BY <1>0, <2>1 DEF Typed, IsDb, IsTable, RunRow
    <2>3. AppendStaged'
      BY <1>0, <2>1, <2>2 DEF IndInv, Consistent, RunMatches, AppendStaged
    <2>4. QED
      BY <2>1, <2>3 DEF IndInv
  <1>5. CASE SkipDuplicate
    BY <1>0, <1>5, SkipStep DEF SkipDuplicate, IndInv, AppendStaged
  <1>6. CASE LogEvent
    <2>1. AppendStaged'
      BY <1>0, <1>6, LogEventStaged DEF LogEvent, IndInv
    <2>2. QED
      BY <1>0, <1>6, <2>1 DEF LogEvent, IndInv
  <1>7. CASE MarkEvent
    BY <1>7 DEF MarkEvent, IndInv, AppendStaged
  <1>8. CASE WriteBatch
    <2>1. Consistent(FinalImage) /\ FinalImage.seq = globalSeq
      BY <1>0, <1>8, WriteBatchConsistent, FinalImageOK DEF WriteBatch, IndInv, Typed
    <2>2. QED
      BY <1>0, <1>8, <2>1 DEF WriteBatch, IndInv
  <1>9. CASE WriteBatchFails
    BY <1>9 DEF WriteBatchFails, IndInv
  <1>10. CASE Crash
    BY <1>10 DEF Crash, IndInv
  <1>11. CASE Reopen
    BY <1>0, <1>11 DEF Reopen, IndInv
  <1>12. CASE UNCHANGED vars
    BY <1>12 DEF vars, IndInv, AppendStaged, RowStaged
  <1>13. QED
    BY <1>1, <1>2, <1>3, <1>4, <1>5, <1>6, <1>7, <1>8, <1>9, <1>10, <1>11, <1>12 DEF Next

\* Between any two steps of a call, a crash or a restart the database is
\* consistent and the batch under construction keeps it so.
THEOREM InvariantHolds == Spec => []IndInv
  <1>1. QED
    BY InitTypeOK, NextTypeOK, InitIndInv, NextIndInv, PTL DEF Spec

\* The stored events of every run form one unbroken hash chain: verify() raises
\* no false alarm whatever failed, crashed or was sent twice.
THEOREM ChainHolds == Spec => []ChainIntact
  <1>1. IndInv => ChainIntact
    BY DEF IndInv, Consistent, ChainIntact
  <1>2. QED
    BY <1>1, InvariantHolds, PTL

\* last_event_hash and event_count of every run row are those of its events.
THEOREM RunRowsCorrect == Spec => []RunsMatchEvents
  <1>1. IndInv => RunsMatchEvents
    BY DEF IndInv, Consistent, RunsMatchEvents
  <1>2. QED
    BY <1>1, InvariantHolds, PTL

\* The idempotency index holds exactly the keys of the stored events.
THEOREM IndexCorrect == Spec => []KeysIndexed
  <1>1. IndInv => KeysIndexed
    BY DEF IndInv, Consistent, KeysIndexed
  <1>2. QED
    BY <1>1, InvariantHolds, PTL

\* No step of the engine removes or replaces a stored event.
THEOREM StoreAppendOnly == Spec => AppendOnly
  <1> DEFINE Kept == \A s \in DOMAIN db.events :
                        s \in DOMAIN db'.events /\ db'.events[s] = db.events[s]
  <1>1. TypeOK /\ IndInv /\ [Next]_vars => [Kept]_vars
    <2> SUFFICES ASSUME TypeOK, IndInv, Next PROVE Kept
      OBVIOUS
    <2>1. CASE WriteRow
      BY <2>1 DEF WriteRow, IndInv, RowStaged
    <2>2. CASE WriteBatch
      <3>1. FinalImage.events = staged.events
        BY <2>2, TypedIsTypeOK, FinalImageOK DEF WriteBatch, Typed
      <3>2. QED
        BY <2>2, <3>1 DEF WriteBatch, IndInv, AppendStaged
    <2>3. CASE RowCall
      BY <2>3, RowCallStep DEF RowStep
    <2>4. CASE \/ MarkRow \/ WriteRowFails
               \/ \E r \in RunIds, t \in Tenants, b \in Batches : append_events(r, t, b)
               \/ SkipDuplicate \/ LogEvent \/ MarkEvent \/ WriteBatchFails \/ Crash \/ Reopen
      BY <2>4 DEF MarkRow, WriteRowFails, append_events, SkipDuplicate, LogEvent, MarkEvent,
                  WriteBatchFails, Crash, Reopen
    <2>5. QED
      BY <2>1, <2>2, <2>3, <2>4 DEF Next
  <1>2. QED
    BY <1>1, TypeCorrect, InvariantHolds, PTL DEF Spec, AppendOnly

-----------------------------------------------------------------------------
(* Rows stay with their tenants.                                           *)

\* The rows of d are still there in e, with their tenants, and an approval with
\* another status is one whose update the WAL announced last.
Keeps(d, e) ==
    /\ \A r \in DOMAIN d.runs : r \in DOMAIN e.runs /\ e.runs[r].tenant = d.runs[r].tenant
    /\ \A a \in DOMAIN d.approvals :
          /\ a \in DOMAIN e.approvals /\ e.approvals[a].tenant = d.approvals[a].tenant
          /\ e.approvals[a].status # d.approvals[a].status => UpdateLogged(a)

\* A single-row batch keeps the rows and starts at most one run.
RowKeeps ==
    /\ Keeps(db, staged)
    /\ \A q, r \in DOMAIN staged.runs \ DOMAIN db.runs : q = r

\* The invariant behind RowsKept: what is staged keeps the rows.
KeepInv ==
    /\ pc = "write" => RowKeeps
    /\ pc \in {"event", "markEvent"} => staged.approvals = db.approvals

-----------------------------------------------------------------------------
(* A key is stored once.                                                   *)

\* No batch a caller submits repeats a key.
DistinctKeys ==
    \A b \in Batches : \A i, j \in 1..Len(b) : b[i].key = b[j].key /\ b[i].key # NoKey => i = j

\* A log of contents names only indexed keys.
LogIndexed(d, h) == \A i \in 1..Len(h) : h[i].key # NoKey => h[i].key \in DOMAIN d.idempotency

\* A key that call c has added: from its batch, and new to the database.
Added(d, c, k) == k # NoKey => /\ k \notin DOMAIN d.idempotency
                               /\ \E j \in 1..c.i : c.batch[j].key = k

UniqueKeys(events) ==
    \A s, t \in DOMAIN events : events[s].key = events[t].key /\ events[s].key # NoKey => s = t

\* The end of a log, from position n on, holds keys the call has added, once each.
AddedEnd(d, c, h, n) ==
    \A i \in n + 1 .. Len(h) :
        /\ Added(d, c, h[i].key)
        /\ \A j \in n + 1 .. i - 1 : h[j].key = h[i].key => h[i].key = NoKey

\* The batch under construction extends the log of its run by added keys.
KeysStaged ==
    /\ call.batch \in Batches
    /\ DOMAIN db.idempotency \subseteq DOMAIN staged.idempotency
    /\ UniqueKeys(staged.events)
    /\ \A s \in DOMAIN staged.events \ DOMAIN db.events : Added(db, call, staged.events[s].key)
    /\ Abs!IsExtension(db.runs[call.run].last, call.head)
    /\ AddedEnd(db, call, call.head, Len(db.runs[call.run].last))
    /\ LogIndexed(staged, call.head)

\* The invariant behind KeysUnique and the refinement.
KeysInv ==
    /\ UniqueKeys(db.events)
    /\ \A r \in DOMAIN db.runs : LogIndexed(db, db.runs[r].last)
    /\ pc \in {"event", "markEvent"} => KeysStaged

-----------------------------------------------------------------------------
(* Proof of RowsKept.                                                      *)

\* The row of a run that a call writes has the tenant of the run it replaces.
LEMMA RunRowKeeps ==
    ASSUME IsDb(db), NEW r \in RunIds, NEW row,
           r \in DOMAIN db.runs => row.tenant = db.runs[r].tenant,
           staged' = [db EXCEPT !.runs = Put(db.runs, r, row)], db' = db
    PROVE  RowKeeps'
  <1>1. staged'.runs = Put(db.runs, r, row) /\ staged'.approvals = db.approvals
    BY DEF IsDb
  <1>2. \A q \in DOMAIN db.runs :
           q \in DOMAIN staged'.runs /\ staged'.runs[q].tenant = db.runs[q].tenant
    BY <1>1 DEF Put
  <1>3. DOMAIN staged'.runs \subseteq DOMAIN db.runs \cup {r}
    BY <1>1 DEF Put
  <1>4. Keeps(db, staged)'
    BY <1>1, <1>2 DEF Keeps
  <1>5. QED
    BY <1>3, <1>4 DEF RowKeeps

\* Every single-row call stages a batch that keeps the rows.
LEMMA RowCallKeeps == ASSUME TypeOK, RowCall PROVE RowKeeps'
  <1>1. PICK t \in Tenants :
            \/ \E r \in RunIds : start_run(r, t) \/ commit_run(r, t) \/ rollback_run(r, t)
            \/ \E a \in ApprovalIds :
                  \/ upsert_approval(a, t)
                  \/ \E d \in ApprovalStatuses : update_approval_status(a, t, d)
            \/ \E x \in ExportIds : put_export(x, t)
    BY DEF RowCall
  <1> IsDb(db)
    BY DEF TypeOK
  <1>2. ASSUME NEW r \in RunIds, start_run(r, t) PROVE RowKeeps'
    BY <1>2, RunRowKeeps DEF start_run, LogAndStage
  <1>3. ASSUME NEW r \in RunIds, NEW st, Owns(db, r, t),
               LogAndStage("UPDATE_RUN", r,
                           [db EXCEPT !.runs = Put(db.runs, r, EndedRun(db, r, st))])
        PROVE  RowKeeps'
    <2>1. EndedRun(db, r, st).tenant = db.runs[r].tenant
      BY <1>3 DEF EndedRun, Owns, IsDb, IsTable, RunRow
    <2>2. QED
      BY <1>3, <2>1, RunRowKeeps DEF LogAndStage
  <1>4. ASSUME NEW a \in ApprovalIds, NEW st, NEW op,
               a \in DOMAIN db.approvals => db.approvals[a].tenant = t /\ op = "UPDATE_APPROVAL",
               LogAndStage(op, a, [db EXCEPT !.approvals =
                                      Put(db.approvals, a, [tenant |-> t, status |-> st])])
        PROVE  RowKeeps'
    <2>1. /\ db' = db /\ staged'.runs = db.runs
          /\ staged'.approvals = Put(db.approvals, a, [tenant |-> t, status |-> st])
      BY <1>4 DEF LogAndStage, IsDb
    <2>2. ASSUME a \in DOMAIN db.approvals PROVE UpdateLogged(a)'
      <3>1. walFile' = Append(walFile, [seq |-> lastSeq + 1,
                                        payload |-> [op |-> "UPDATE_APPROVAL", id |-> a], torn |-> FALSE])
        BY <1>4, <2>2 DEF LogAndStage, W!WalAppend
      <3>2. walFile \in Seq(W!Record) /\ lastSeq \in Nat
        BY DEF TypeOK, W!WalTypeOK
      <3>3. Len(walFile') = Len(walFile) + 1 /\ Len(walFile) \in Nat
        BY <3>1, <3>2
      <3>4. walFile'[Len(walFile')].payload = [op |-> "UPDATE_APPROVAL", id |-> a]
        BY <3>1, <3>2, <3>3
      <3>5. QED
        BY <3>3, <3>4 DEF UpdateLogged
    <2>3. \A b \in DOMAIN db.approvals :
             /\ b \in DOMAIN staged'.approvals
             /\ staged'.approvals[b].tenant = db.approvals[b].tenant
             /\ staged'.approvals[b].status # db.approvals[b].status => b = a
      BY <1>4, <2>1 DEF Put
    <2>4. Keeps(db, staged)'
      BY <2>1, <2>2, <2>3 DEF Keeps
    <2>5. QED
      BY <2>1, <2>4 DEF RowKeeps
  <1>5. ASSUME NEW x \in ExportIds, put_export(x, t) PROVE RowKeeps'
    <2>1. db' = db /\ staged'.runs = db.runs /\ staged'.approvals = db.approvals
      BY <1>5 DEF put_export, LogAndStage, IsDb
    <2>2. QED
      BY <2>1 DEF RowKeeps, Keeps
  <1>6. QED
    BY <1>1, <1>2, <1>3, <1>4, <1>5
       DEF commit_run, rollback_run, upsert_approval, update_approval_status

\* What append_events writes keeps the rows.
LEMMA FinalImageKeeps ==
    ASSUME Typed, pc = "event", staged.approvals = db.approvals
    PROVE  Keeps(db, FinalImage)
  <1>1. /\ FinalImage.approvals = db.approvals
        /\ FinalImage.runs = Put(db.runs, call.run, RunAfter(db.runs[call.run]))
        /\ RunAfter(db.runs[call.run]).tenant = db.runs[call.run].tenant
    BY FinalImageOK DEF Typed
  <1> HIDE DEF FinalImage
  <1>2. QED
    BY <1>1 DEF Keeps, Put

\* A step of the engine changes the database by a write, or not at all.
LEMMA OnlyWrites ==
    ASSUME TypeOK, Next, ~WriteRow, ~WriteBatch
    PROVE  db' = db
  <1>1. CASE RowCall
    BY <1>1, RowCallStep DEF RowStep
  <1>2. CASE \/ MarkRow \/ WriteRowFails
             \/ \E r \in RunIds, t \in Tenants, b \in Batches : append_events(r, t, b)
             \/ SkipDuplicate \/ LogEvent \/ MarkEvent \/ WriteBatchFails \/ Crash \/ Reopen
    BY <1>2 DEF MarkRow, WriteRowFails, append_events, SkipDuplicate, LogEvent, MarkEvent,
                WriteBatchFails, Crash, Reopen
  <1>3. QED
    BY <1>1, <1>2 DEF Next

\* Every step keeps the staged rows.
LEMMA NextKeepInv == TypeOK /\ KeepInv /\ [Next]_vars => KeepInv'
  <1> SUFFICES ASSUME TypeOK, KeepInv, [Next]_vars PROVE KeepInv'
    OBVIOUS
  <1>0. Typed
    BY TypedIsTypeOK
  <1>1. CASE RowCall
    BY <1>1, RowCallKeeps, RowCallStep DEF RowStep, KeepInv
  <1>2. CASE \/ WriteRow \/ MarkRow \/ WriteRowFails \/ WriteBatch \/ WriteBatchFails
             \/ Crash \/ Reopen
    BY <1>2 DEF WriteRow, MarkRow, WriteRowFails, WriteBatch, WriteBatchFails, Crash, Reopen, KeepInv
  <1>3. CASE \E r \in RunIds, t \in Tenants, b \in Batches : append_events(r, t, b)
    BY <1>3 DEF append_events, KeepInv
  <1>4. CASE SkipDuplicate \/ MarkEvent
    BY <1>4 DEF SkipDuplicate, MarkEvent, KeepInv
  <1>5. CASE LogEvent
    <2>1. staged'.approvals = staged.approvals
      BY <1>0, <1>5, LogEventStep
    <2>2. QED
      BY <1>5, <2>1 DEF LogEvent, KeepInv
  <1>6. CASE UNCHANGED vars
    BY <1>6 DEF vars, log, KeepInv, RowKeeps, Keeps, UpdateLogged
  <1>7. QED
    BY <1>1, <1>2, <1>3, <1>4, <1>5, <1>6 DEF Next

\* In every reachable state what is staged keeps the rows of the database.
THEOREM StagedKeepsRows == Spec => []KeepInv
  <1>1. Init => KeepInv
    BY DEF Init, KeepInv
  <1>2. QED
    BY <1>1, NextKeepInv, TypeCorrect, PTL DEF Spec

\* No call, repeated, raced or failed, takes a run or an approval over from
\* another tenant, and none but update_approval_status changes a stored status.
THEOREM RowsStay == Spec => RowsKept
  <1>1. TypeOK /\ KeepInv /\ [Next]_vars => [Keeps(db, db')]_vars
    <2> SUFFICES ASSUME TypeOK, KeepInv, Next PROVE Keeps(db, db')
      OBVIOUS
    <2>1. CASE WriteRow
      BY <2>1 DEF WriteRow, KeepInv, RowKeeps
    <2>2. CASE WriteBatch
      BY <2>2, TypedIsTypeOK, FinalImageKeeps DEF WriteBatch, KeepInv
    <2>3. CASE ~WriteRow /\ ~WriteBatch
      BY <2>3, OnlyWrites DEF Keeps
    <2>4. QED
      BY <2>1, <2>2, <2>3
  <1>2. QED
    BY <1>1, TypeCorrect, StagedKeepsRows, PTL DEF Spec, RowsKept, Keeps

-----------------------------------------------------------------------------
(* Proof that a key is stored once.                                        *)

\* The hash of an event is the list it extends, with the event's content added.
LEMMA HashGrows ==
    ASSUME NEW e \in EventRow, e.hash = EventHash(e)
    PROVE  /\ Len(e.hash) = Len(e.prev) + 1 /\ Len(e.prev) \in Nat
           /\ \A i \in 1..Len(e.prev) : e.hash[i] = e.prev[i]
           /\ e.hash[Len(e.prev) + 1].key = e.key
  <1>1. e.prev \in Seq([run : RunIds, key : Keys \cup {NoKey}, type : EventTypes])
    BY DEF EventRow, Hash
  <1>2. Content(e).key = e.key
    BY DEF Content, EventRow
  <1>3. /\ Len(EventHash(e)) = Len(e.prev) + 1 /\ Len(e.prev) \in Nat
        /\ \A i \in 1..Len(e.prev) : EventHash(e)[i] = e.prev[i]
        /\ EventHash(e)[Len(e.prev) + 1] = Content(e)
    BY <1>1 DEF EventHash
  <1>4. QED
    BY <1>2, <1>3

\* The key of a new event is not among those the call has added before.
LEMMA NextKeyNew ==
    ASSUME DistinctKeys, Typed, KeysStaged, LogEvent, NEW k, Added(db, call, k), k # NoKey
    PROVE  k # NextInput.key
  <1>1. call.batch \in Batches /\ call.i \in Nat /\ call.i < Len(call.batch)
    BY DEF KeysStaged, LogEvent, Typed, CallOK, Locals
  <1>2. PICK j \in 1..call.i : call.batch[j].key = k
    BY DEF Added
  <1>3. call.batch \in Seq(Input)
    BY <1>1, BatchesAssumption
  <1>4. j \in 1..Len(call.batch) /\ call.i + 1 \in 1..Len(call.batch) /\ j # call.i + 1
    BY <1>1, <1>2, <1>3
  <1>5. QED
    BY <1>1, <1>2, <1>4 DEF DistinctKeys, NextInput

\* One more event in the batch under construction.
LEMMA LogEventKeys ==
    ASSUME DistinctKeys, Typed, AppendStaged, Consistent(db), KeysStaged, LogEvent
    PROVE  KeysStaged'
  <1>1. PICK e \in EventRow :
            /\ e.key = NextInput.key /\ e.prev = call.head /\ e.hash = EventHash(e)
            /\ call'.head = e.hash
            /\ staged'.events = Put(staged.events, globalSeq + 1, e)
            /\ staged'.idempotency = IF e.key = NoKey THEN staged.idempotency
                                     ELSE Put(staged.idempotency, e.key, e.hash)
    BY LogEventStep
  <1>2. /\ call'.run = call.run /\ call'.batch = call.batch /\ call'.i = call.i + 1
        /\ db' = db /\ call.i \in Nat
    BY LogEventStep DEF LogEvent, Typed, CallOK, Locals
  <1>3. ASSUME NEW k, Added(db, call, k) PROVE Added(db, call', k)
    BY <1>2, <1>3 DEF Added
  <1>4. Added(db, call', e.key) /\ (e.key # NoKey => e.key \notin DOMAIN db.idempotency)
    BY <1>1, <1>2 DEF Added, NextInput, LogEvent, IsDuplicate
  <1>5. ASSUME NEW k, Added(db, call, k), k # NoKey PROVE k # e.key
    BY <1>1, <1>5, NextKeyNew
  <1>6. /\ DOMAIN staged'.events = DOMAIN staged.events \cup {globalSeq + 1}
        /\ staged'.events[globalSeq + 1] = e
        /\ \A s \in DOMAIN staged.events : s # globalSeq + 1 /\ staged'.events[s] = staged.events[s]
    BY <1>1 DEF Put, AppendStaged, Typed
  <1>7. DOMAIN staged.idempotency \subseteq DOMAIN staged'.idempotency
    BY <1>1 DEF Put
  <1>8. e.key # NoKey => e.key \in DOMAIN staged'.idempotency
    BY <1>1 DEF Put
  <1>9. ASSUME NEW s \in DOMAIN staged.events, e.key # NoKey PROVE staged.events[s].key # e.key
    <2>1. CASE s \in DOMAIN db.events
      BY <1>4, <1>9, <2>1 DEF AppendStaged, Consistent, Indexed
    <2>2. CASE s \notin DOMAIN db.events
      BY <1>5, <1>9, <2>2 DEF KeysStaged
    <2>3. QED
      BY <2>1, <2>2
  <1>10. UniqueKeys(staged'.events)
    BY <1>6, <1>9 DEF UniqueKeys, KeysStaged
  <1>11. \A s \in DOMAIN staged'.events \ DOMAIN db'.events : Added(db, call', staged'.events[s].key)
    BY <1>2, <1>3, <1>4, <1>6 DEF KeysStaged
  <1> DEFINE last == db.runs[call.run].last
             h == call.head
             g == call'.head
  <1>12. /\ Len(g) = Len(h) + 1 /\ Len(h) \in Nat /\ g[Len(h) + 1].key = e.key
         /\ \A i \in 1..Len(h) : g[i] = h[i]
    BY <1>1, HashGrows
  <1>13. Len(last) \in Nat
    BY DEF Typed, LogEvent, IsDb, IsTable, RunRow, Hash
  <1> HIDE DEF last, h, g
  <1>14. Abs!IsExtension(last, h) /\ AddedEnd(db, call, h, Len(last)) /\ LogIndexed(staged, h)
    BY DEF KeysStaged, last, h
  <1>15. Abs!IsExtension(last, g)
    BY <1>12, <1>13, <1>14 DEF Abs!IsExtension
  <1>16. LogIndexed(staged', g)
    BY <1>7, <1>8, <1>12, <1>14 DEF LogIndexed
  <1>17. ASSUME NEW i \in Len(last) + 1 .. Len(g)
         PROVE  /\ Added(db, call', g[i].key)
                /\ \A j \in Len(last) + 1 .. i - 1 : g[j].key = g[i].key => g[i].key = NoKey
    <2>1. CASE i = Len(h) + 1
      <3>1. \A j \in Len(last) + 1 .. i - 1 : Added(db, call, g[j].key)
        BY <1>12, <1>13, <1>14, <2>1 DEF AddedEnd
      <3>2. QED
        BY <1>4, <1>5, <1>12, <2>1, <3>1
    <2>2. CASE i # Len(h) + 1
      <3>1. i \in Len(last) + 1 .. Len(h) /\ g[i] = h[i]
        BY <1>12, <1>13, <2>2
      <3>2. \A j \in Len(last) + 1 .. i - 1 : g[j] = h[j]
        BY <1>12, <1>13, <3>1
      <3>3. Added(db, call, h[i].key) /\ \A j \in Len(last) + 1 .. i - 1 : h[j].key = h[i].key => h[i].key = NoKey
        BY <1>14, <3>1 DEF AddedEnd
      <3>4. QED
        BY <1>3, <3>1, <3>2, <3>3
    <2>3. QED
      BY <2>1, <2>2
  <1>18. AddedEnd(db, call', g, Len(last))
    BY <1>17 DEF AddedEnd
  <1>19. QED
    BY <1>2, <1>7, <1>10, <1>11, <1>15, <1>16, <1>18 DEF KeysStaged, g, last

\* A skipped duplicate.
LEMMA SkipKeys ==
    ASSUME Typed, KeysStaged, SkipDuplicate
    PROVE  KeysStaged'
  <1>1. /\ call'.run = call.run /\ call'.head = call.head /\ call'.batch = call.batch
        /\ call'.i = call.i + 1 /\ call.i \in Nat /\ db' = db /\ staged' = staged
    BY SkipStep DEF SkipDuplicate, Typed, CallOK, Locals
  <1>2. ASSUME NEW k, Added(db, call, k) PROVE Added(db, call', k)
    BY <1>1, <1>2 DEF Added
  <1>3. AddedEnd(db, call', call.head, Len(db.runs[call.run].last))
    BY <1>1, <1>2 DEF KeysStaged, AddedEnd
  <1>4. QED
    BY <1>1, <1>2, <1>3 DEF KeysStaged, LogIndexed

\* The written batch of an append names only indexed keys.
LEMMA WriteBatchKeys ==
    ASSUME Typed, KeysInv, pc = "event"
    PROVE  /\ UniqueKeys(FinalImage.events)
           /\ \A r \in DOMAIN FinalImage.runs : LogIndexed(FinalImage, FinalImage.runs[r].last)
  <1>1. /\ call.run \in DOMAIN db.runs
        /\ FinalImage.events = staged.events
        /\ FinalImage.idempotency = staged.idempotency
        /\ FinalImage.runs = Put(db.runs, call.run, RunAfter(db.runs[call.run]))
        /\ RunAfter(db.runs[call.run]).last = call.head
    BY FinalImageOK DEF Typed
  <1> HIDE DEF FinalImage
  <1>2. KeysStaged
    BY DEF KeysInv
  <1>3. ASSUME NEW r \in DOMAIN FinalImage.runs PROVE LogIndexed(FinalImage, FinalImage.runs[r].last)
    <2>1. CASE r = call.run
      BY <1>1, <1>2, <2>1 DEF Put, KeysStaged, LogIndexed
    <2>2. CASE r # call.run
      <3>1. r \in DOMAIN db.runs /\ FinalImage.runs[r] = db.runs[r]
        BY <1>1, <1>3, <2>2 DEF Put
      <3>2. QED
        BY <1>1, <1>2, <3>1 DEF KeysInv, KeysStaged, LogIndexed
    <2>3. QED
      BY <2>1, <2>2
  <1>4. QED
    BY <1>1, <1>2, <1>3 DEF KeysStaged

\* Every step keeps the invariant about keys.
LEMMA NextKeysInv ==
    ASSUME DistinctKeys
    PROVE  TypeOK /\ IndInv /\ KeysInv /\ [Next]_vars => KeysInv'
  <1> SUFFICES ASSUME TypeOK, IndInv, KeysInv, [Next]_vars PROVE KeysInv'
    OBVIOUS
  <1>0. Typed
    BY TypedIsTypeOK
  <1>1. CASE RowCall
    BY <1>1, RowCallStep DEF RowStep, KeysInv, LogIndexed
  <1>2. CASE WriteRow
    <2>1. RowStaged /\ db' = staged /\ pc' = "mark"
      BY <1>2 DEF WriteRow, IndInv
    <2>2. ASSUME NEW r \in DOMAIN staged.runs PROVE LogIndexed(staged, staged.runs[r].last)
      <3>1. CASE r \in DOMAIN db.runs
        BY <2>1, <3>1 DEF RowStaged, KeysInv, LogIndexed
      <3>2. CASE r \notin DOMAIN db.runs
        BY <2>1, <3>2 DEF RowStaged, LogIndexed, NoHash
      <3>3. QED
        BY <3>1, <3>2
    <2>3. QED
      BY <2>1, <2>2 DEF KeysInv, RowStaged
  <1>3. CASE MarkRow \/ WriteRowFails \/ WriteBatchFails \/ Crash \/ Reopen
    BY <1>3 DEF MarkRow, WriteRowFails, WriteBatchFails, Crash, Reopen, KeysInv, LogIndexed
  <1>4. ASSUME NEW r \in RunIds, NEW t \in Tenants, NEW b \in Batches, append_events(r, t, b)
        PROVE  KeysInv'
    <2>1. /\ r \in DOMAIN db.runs /\ db' = db /\ staged' = db
          /\ call'.run = r /\ call'.head = db.runs[r].last /\ call'.batch = b
      BY <1>4 DEF append_events, Owns
    <2>2. Len(db.runs[r].last) \in Nat
      BY <1>0, <2>1 DEF Typed, IsDb, IsTable, RunRow, Hash
    <2>3. KeysStaged'
      BY <2>1, <2>2 DEF KeysStaged, KeysInv, AddedEnd, Abs!IsExtension, LogIndexed
    <2>4. QED
      BY <2>1, <2>3 DEF KeysInv, LogIndexed
  <1>5. CASE SkipDuplicate
    <2>1. KeysStaged'
      BY <1>0, <1>5, SkipKeys DEF SkipDuplicate, KeysInv
    <2>2. QED
      BY <1>5, <2>1 DEF SkipDuplicate, KeysInv, LogIndexed
  <1>6. CASE LogEvent
    <2>1. KeysStaged'
      BY <1>0, <1>6, LogEventKeys DEF LogEvent, IndInv, KeysInv
    <2>2. QED
      BY <1>6, <2>1 DEF LogEvent, KeysInv, LogIndexed
  <1>7. CASE MarkEvent
    BY <1>7 DEF MarkEvent, KeysInv, KeysStaged, Added, AddedEnd, LogIndexed
  <1>8. CASE WriteBatch
    BY <1>0, <1>8, WriteBatchKeys DEF WriteBatch, KeysInv, LogIndexed
  <1>9. CASE UNCHANGED vars
    BY <1>9 DEF vars, KeysInv, KeysStaged, Added, AddedEnd, LogIndexed
  <1>10. QED
    BY <1>1, <1>2, <1>3, <1>4, <1>5, <1>6, <1>7, <1>8, <1>9 DEF Next

\* In every reachable state the run logs and the batch under construction name
\* every key once, and name only indexed keys.
THEOREM KeysInvariant == ASSUME DistinctKeys PROVE Spec => []KeysInv
  <1>1. Init => KeysInv
    BY DEF Init, EmptyDb, EmptyTable, KeysInv, UniqueKeys
  <1>2. TypeOK /\ IndInv /\ KeysInv /\ [Next]_vars => KeysInv'
    BY NextKeysInv
  <1>3. QED
    BY <1>1, <1>2, TypeCorrect, InvariantHolds, PTL DEF Spec

\* A batch sent again, after a failure, a crash or a lost answer, stores no key
\* twice, for batches that do not repeat a key themselves.
THEOREM KeysStoredOnce == ASSUME DistinctKeys PROVE Spec => []KeysUnique
  <1>1. KeysInv => KeysUnique
    BY DEF KeysInv, UniqueKeys, KeysUnique
  <1>2. QED
    BY <1>1, KeysInvariant, PTL

-----------------------------------------------------------------------------
(* The engine implements AuditLog.                                         *)

\* The abstract log of a database.
LogOf(d) == [r \in DOMAIN d.runs |-> d.runs[r].last]

\* A recorded key is indexed.
LEMMA RecordedIndexed ==
    ASSUME KeysInv, NEW k, k # NoKey, Abs!Recorded(LogOf(db), k)
    PROVE  k \in DOMAIN db.idempotency
  BY DEF Abs!Recorded, LogOf, KeysInv, LogIndexed

\* Writing a single row starts at most one run and changes no log.
LEMMA WriteRowRefines ==
    ASSUME Typed, RowStaged, RowKeeps, db' = staged
    PROVE  LogOf(db') = LogOf(db) \/ \E r \in RunIds : Abs!Start(r)
  <1>0. /\ DOMAIN staged.runs \subseteq RunIds /\ DOMAIN db.runs \subseteq DOMAIN staged.runs
        /\ \A r \in DOMAIN db.runs : staged.runs[r].last = db.runs[r].last
        /\ \A r \in DOMAIN staged.runs \ DOMAIN db.runs : staged.runs[r].last = <<>>
    BY DEF Typed, IsDb, IsTable, RowStaged, NoHash
  <1>1. CASE DOMAIN staged.runs = DOMAIN db.runs
    BY <1>0, <1>1 DEF LogOf
  <1>2. CASE DOMAIN staged.runs # DOMAIN db.runs
    <2>1. PICK r \in DOMAIN staged.runs : r \notin DOMAIN db.runs
      BY <1>0, <1>2
    <2>2. DOMAIN staged.runs = DOMAIN db.runs \cup {r}
      BY <1>0, <2>1 DEF RowKeeps
    <2>3. Abs!Start(r)
      BY <1>0, <2>1, <2>2 DEF Abs!Start
    <2>4. QED
      BY <1>0, <2>1, <2>3
  <1>3. QED
    BY <1>1, <1>2

\* Writing the batch of an append records it in the log of its run.
LEMMA WriteBatchRefines ==
    ASSUME Typed, KeysInv, pc = "event", db' = FinalImage
    PROVE  \E r \in RunIds : Abs!Record(r)
  <1>0. PICK run \in RunIds : run = call.run
    BY DEF Typed, IsDb, IsTable
  <1> DEFINE last == db.runs[run].last
  <1>1. /\ run \in DOMAIN db.runs
        /\ DOMAIN db'.runs = DOMAIN db.runs
        /\ db'.runs[run].last = call.head
        /\ \A q \in DOMAIN db.runs : q # run => db'.runs[q] = db.runs[q]
    BY <1>0, FinalImageOK DEF Typed, Put
  <1>2. Abs!IsExtension(last, call.head) /\ AddedEnd(db, call, call.head, Len(last))
    BY <1>0 DEF KeysInv, KeysStaged
  <1>3. /\ LogOf(db)[run] = last /\ LogOf(db')[run] = call.head
        /\ DOMAIN LogOf(db) = DOMAIN db.runs
    BY <1>1 DEF LogOf
  <1>4. LogOf(db') = [q \in DOMAIN LogOf(db) |-> IF q = run THEN LogOf(db')[run] ELSE LogOf(db)[q]]
    BY <1>1, <1>3 DEF LogOf
  <1>5. ASSUME NEW i \in Len(last) + 1 .. Len(call.head), call.head[i].key # NoKey
        PROVE  /\ ~Abs!Recorded(LogOf(db), call.head[i].key)
               /\ \A j \in Len(last) + 1 .. i - 1 : call.head[j].key # call.head[i].key
    BY <1>2, <1>5, RecordedIndexed DEF AddedEnd, Added
  <1>6. Abs!Record(run)
    BY <1>1, <1>2, <1>3, <1>4, <1>5 DEF Abs!Record, LogOf
  <1>7. QED
    BY <1>1, <1>6

\* Every behaviour of the engine, crashes, failed writes and replayed batches
\* included, is one of the abstract audit log, for batches that do not repeat a
\* key themselves.
THEOREM RefinesAuditLog == ASSUME DistinctKeys PROVE Spec => ImplementsAuditLog
  <1>1. Init => Abs!Init
    BY DEF Init, EmptyDb, EmptyTable, Abs!Init
  <1>2. TypeOK /\ IndInv /\ KeepInv /\ KeysInv /\ [Next]_vars => [Abs!Next]_(LogOf(db))
    <2> SUFFICES ASSUME TypeOK, IndInv, KeepInv, KeysInv, Next
                 PROVE  Abs!Next \/ LogOf(db') = LogOf(db)
      BY DEF vars, LogOf
    <2>0. Typed
      BY TypedIsTypeOK
    <2>1. CASE WriteRow
      BY <2>0, <2>1, WriteRowRefines DEF WriteRow, IndInv, KeepInv, Abs!Next
    <2>2. CASE WriteBatch
      BY <2>0, <2>2, WriteBatchRefines DEF WriteBatch, Abs!Next
    <2>3. CASE ~WriteRow /\ ~WriteBatch
      BY <2>3, OnlyWrites
    <2>4. QED
      BY <2>1, <2>2, <2>3
  <1>3. QED
    BY <1>1, <1>2, TypeCorrect, InvariantHolds, StagedKeepsRows, KeysInvariant, PTL
       DEF Spec, ImplementsAuditLog, Abs!Spec, LogOf

-----------------------------------------------------------------------------
(* Index scans.                                                            *)

\* q has the numbers in S, each once and in their order.
Orders(q, S) ==
    /\ q \in Seq(S)
    /\ \A i, j \in 1..Len(q) : i < j => q[i] < q[j]
    /\ \A s \in S : \E i \in 1..Len(q) : q[i] = s

\* A number in an ordered set is at the place that its rank says.
LEMMA OrderCounts ==
    ASSUME NEW S \in SUBSET Nat, NEW q, Orders(q, S)
    PROVE  /\ IsFiniteSet(S) /\ Cardinality(S) = Len(q) /\ Len(q) \in Nat
           /\ \A i \in 1..Len(q) : Cardinality({t \in S : t < q[i]}) = i - 1
  <1>0a. q \in Seq(S) /\ Len(q) \in Nat /\ \A i \in 1..Len(q) : q[i] \in S
    BY DEF Orders
  <1>0. /\ q \in Seq(S) /\ Len(q) \in Nat /\ \A i \in 1..Len(q) : q[i] \in S /\ q[i] \in Nat
    BY <1>0a
  <1>1. ASSUME NEW m \in 0..Len(q)
        PROVE  LET A == {q[i] : i \in 1..m} IN IsFiniteSet(A) /\ Cardinality(A) = m
    <2> DEFINE A == {q[i] : i \in 1..m}
               f == [i \in 1..m |-> q[i]]
    <2>1. m \in Nat /\ 1..m \subseteq 1..Len(q)
      BY <1>0
    <2>2. f \in [1..m -> A]
      OBVIOUS
    <2>3. ASSUME NEW i \in 1..m, NEW j \in 1..m, f[i] = f[j] PROVE i = j
      <3>1. q[i] = q[j] /\ q[i] \in Nat /\ i \in 1..Len(q) /\ j \in 1..Len(q)
        BY <1>0, <2>1, <2>3
      <3>2. ~(i < j) /\ ~(j < i)
        BY <3>1 DEF Orders
      <3>3. QED
        BY <3>2
    <2>4. f \in Bijection(1..m, A)
      <3>1. f \in Injection(1..m, A)
        BY <2>2, <2>3 DEF Injection, IsInjective
      <3>2. f \in Surjection(1..m, A)
        BY <2>2 DEF Surjection
      <3>3. QED
        BY <3>1, <3>2 DEF Bijection
    <2>5. ExistsBijection(1..m, A)
      BY <2>4 DEF ExistsBijection
    <2> HIDE DEF A, f
    <2>6. Cardinality(A) = m /\ IsFiniteSet(A)
      BY <2>1, <2>5, FS_CountingElements, FS_NatBijection
    <2>7. QED
      BY <2>6 DEF A
  <1>2. S = {q[i] : i \in 1..Len(q)}
    BY <1>0 DEF Orders
  <1>3. IsFiniteSet(S) /\ Cardinality(S) = Len(q)
    <2>1. Len(q) \in 0..Len(q)
      BY <1>0
    <2>2. QED
      BY <1>1, <1>2, <2>1
  <1>4. ASSUME NEW i \in 1..Len(q) PROVE Cardinality({t \in S : t < q[i]}) = i - 1
    <2>1. i - 1 \in 0..Len(q)
      BY <1>0
    <2>2. ASSUME NEW t \in S, t < q[i] PROVE \E j \in 1..(i - 1) : t = q[j]
      <3>1. PICK j \in 1..Len(q) : q[j] = t
        BY DEF Orders
      <3>2. j < i
        <4>1. CASE j = i
          BY <1>0, <2>2, <3>1, <4>1
        <4>2. CASE j > i
          <5>1. q[i] < q[j]
            BY <4>2 DEF Orders
          <5>2. QED
            BY <1>0, <2>2, <3>1, <5>1
        <4>3. QED
          BY <1>0, <4>1, <4>2
      <3>3. QED
        BY <1>0, <3>1, <3>2
    <2>3. ASSUME NEW j \in 1..(i - 1) PROVE q[j] \in S /\ q[j] < q[i]
      <3>1. j \in 1..Len(q) /\ j < i
        BY <1>0
      <3>2. QED
        BY <1>0, <3>1 DEF Orders
    <2>4. {t \in S : t < q[i]} = {q[j] : j \in 1..(i - 1)}
      BY <2>2, <2>3
    <2>5. QED
      BY <1>1, <2>1, <2>4
  <1>5. QED
    BY <1>0, <1>3, <1>4

\* The ranks of numbers are in the order of the numbers.
LEMMA RankGrows ==
    ASSUME NEW S \in SUBSET Nat, IsFiniteSet(S), NEW s \in S, NEW u \in S, s < u
    PROVE  /\ Cardinality({t \in S : t < s}) \in Nat /\ Cardinality({t \in S : t < u}) \in Nat
           /\ Cardinality({t \in S : t < s}) < Cardinality({t \in S : t < u})
  <1> DEFINE A == {t \in S : t < s}
             B == {t \in S : t < u}
  <1>1. A \subseteq S /\ B \subseteq S /\ s \notin A
    OBVIOUS
  <1>2. A \cup {s} \subseteq B
    <2>1. s \in Nat /\ u \in Nat
      OBVIOUS
    <2>2. ASSUME NEW t \in S, t < s PROVE t < u
      <3>1. t \in Nat
        OBVIOUS
      <3>2. QED
        BY <2>1, <2>2, <3>1
    <2>3. QED
      BY <2>2
  <1> HIDE DEF A, B
  <1>3. IsFiniteSet(A) /\ IsFiniteSet(B)
    BY <1>1, FS_Subset
  <1>4. Cardinality(A) \in Nat /\ Cardinality(B) \in Nat
    BY <1>3, FS_CardinalityType
  <1>5. Cardinality(A \cup {s}) = Cardinality(A) + 1
    BY <1>1, <1>3, FS_AddElement
  <1>6. Cardinality(A \cup {s}) <= Cardinality(B)
    BY <1>2, <1>3, FS_Subset
  <1>7. Cardinality(A) < Cardinality(B)
    BY <1>4, <1>5, <1>6
  <1>8. QED
    BY <1>4, <1>7 DEF A, B

LEMMA RankUnique ==
    ASSUME NEW S \in SUBSET Nat, IsFiniteSet(S), NEW s \in S, NEW u \in S,
           Cardinality({t \in S : t < s}) = Cardinality({t \in S : t < u})
    PROVE  s = u
  <1>1. s \in Nat /\ u \in Nat
    OBVIOUS
  <1>2. ~(s < u) /\ ~(u < s)
    BY RankGrows
  <1>3. QED
    BY <1>1, <1>2

\* There is only one order: that of the scan.
LEMMA OrdersUnique ==
    ASSUME NEW S \in SUBSET Nat, NEW q, Orders(q, S) PROVE q = Ascending(S)
  <1>1. /\ IsFiniteSet(S) /\ Cardinality(S) = Len(q) /\ Len(q) \in Nat
        /\ \A i \in 1..Len(q) : Cardinality({t \in S : t < q[i]}) = i - 1
    BY OrderCounts
  <1>2. q = [i \in 1..Len(q) |-> q[i]] /\ \A i \in 1..Len(q) : q[i] \in S
    BY DEF Orders
  <1>3. ASSUME NEW i \in 1..Len(q)
        PROVE  q[i] = CHOOSE s \in S : Cardinality({t \in S : t < s}) = i - 1
    <2>1. q[i] \in S /\ Cardinality({t \in S : t < q[i]}) = i - 1
      BY <1>1, <1>2
    <2>2. ASSUME NEW s \in S, Cardinality({t \in S : t < s}) = i - 1 PROVE s = q[i]
      <3>1. PICK u \in S : u = q[i]
        BY <2>1
      <3>2. Cardinality({t \in S : t < s}) = Cardinality({t \in S : t < u})
        BY <2>1, <2>2, <3>1
      <3>3. QED
        BY <1>1, <3>1, <3>2, RankUnique
    <2>3. QED
      BY <2>1, <2>2
  <1>4. QED
    BY <1>1, <1>2, <1>3 DEF Ascending

\* A scan has every number of a finite set, once and in order.
LEMMA AscendingOrders ==
    ASSUME NEW S \in SUBSET Nat, IsFiniteSet(S) PROVE Orders(Ascending(S), S)
  <1> DEFINE Rank(s) == Cardinality({t \in S : t < s})
             f == [s \in S |-> Rank(s) + 1]
             n == Cardinality(S)
             q == Ascending(S)
  <1>0. n \in Nat
    BY FS_CardinalityType
  <1>1. ASSUME NEW s \in S PROVE Rank(s) \in Nat /\ Rank(s) + 1 \in 1..n
    <2> DEFINE A == {t \in S : t < s}
    <2>1. A \subseteq S /\ s \notin A
      OBVIOUS
    <2> HIDE DEF A
    <2>2. IsFiniteSet(A) /\ Cardinality(A) \in Nat
      BY <2>1, FS_Subset, FS_CardinalityType
    <2>3. Cardinality(A) <= n /\ Cardinality(A) # n
      BY <2>1, FS_Subset
    <2>4. Cardinality(A) \in Nat /\ Cardinality(A) + 1 \in 1..n
      BY <1>0, <2>2, <2>3
    <2>5. QED
      BY <2>4 DEF A
  <1>2. \A s, u \in S : Rank(s) = Rank(u) => s = u
    BY RankUnique
  <1>3. \A s, u \in S : s < u => Rank(s) < Rank(u)
    BY RankGrows
  <1>q. q = [i \in 1..n |-> CHOOSE s \in S : Rank(s) = i - 1]
    BY DEF Ascending
  <1> HIDE DEF Rank, n, q
  <1>4. f \in [S -> 1..n]
    BY <1>1
  <1>5. f \in Injection(S, 1..n)
    <2>1. ASSUME NEW s \in S, NEW u \in S, f[s] = f[u] PROVE s = u
      BY <1>1, <1>2, <2>1
    <2>2. QED
      BY <1>4, <2>1 DEF Injection, IsInjective
  <1>6. IsFiniteSet(1..n) /\ Cardinality(1..n) = n
    <2>1. 1 \in Int /\ n \in Int
      BY <1>0
    <2>2. IsFiniteSet(1..n) /\ Cardinality(1..n) = IF 1 > n THEN 0 ELSE n - 1 + 1
      BY <2>1, FS_Interval
    <2>3. QED
      BY <1>0, <2>2
  <1> HIDE DEF f
  <1>7. f \in Surjection(S, 1..n)
    <2>1. Cardinality(S) = Cardinality(1..n)
      BY <1>6 DEF n
    <2>2. QED
      BY <1>5, <1>6, <2>1, FS_Injection
  <1>8. ASSUME NEW i \in 1..n PROVE q[i] \in S /\ Rank(q[i]) = i - 1
    <2>1. PICK s \in S : f[s] = i
      BY <1>7 DEF Surjection
    <2>2. Rank(s) = i - 1
      BY <1>0, <1>1, <2>1 DEF f
    <2>3. q[i] = CHOOSE x \in S : Rank(x) = i - 1
      BY <1>q
    <2>4. QED
      BY <2>2, <2>3
  <1>9. q \in Seq(S) /\ Len(q) = n
    BY <1>0, <1>8, <1>q
  <1>10. ASSUME NEW i \in 1..Len(q), NEW j \in 1..Len(q), i < j PROVE q[i] < q[j]
    <2>1. /\ q[i] \in S /\ q[j] \in S /\ Rank(q[i]) = i - 1 /\ Rank(q[j]) = j - 1
      BY <1>8, <1>9
    <2>1a. i \in Nat /\ j \in Nat /\ i - 1 # j - 1 /\ ~(j - 1 < i - 1)
      BY <1>0, <1>9, <1>10
    <2>2. q[i] # q[j] /\ ~(q[j] < q[i])
      BY <1>3, <2>1, <2>1a
    <2>3. q[i] \in Nat /\ q[j] \in Nat
      BY <2>1
    <2>4. QED
      BY <2>2, <2>3
  <1>11. ASSUME NEW s \in S PROVE \E i \in 1..Len(q) : q[i] = s
    <2>1. PICK i : i = Rank(s) + 1
      OBVIOUS
    <2>2. i \in 1..n /\ Rank(s) = i - 1
      BY <1>0, <1>1, <2>1
    <2>3. q[i] = s
      BY <1>2, <1>8, <2>2
    <2>4. QED
      BY <1>9, <2>2, <2>3
  <1>12. Orders(q, S)
    BY <1>9, <1>10, <1>11 DEF Orders
  <1>13. QED
    BY <1>12 DEF q

\* The first rows of a scan are the numbers up to the last of them.
LEMMA FirstOfScan ==
    ASSUME NEW S \in SUBSET Nat, IsFiniteSet(S), NEW n \in Nat \ {0},
           NEW q, q = FirstOf(Ascending(S), n)
    PROVE  \/ Orders(q, S) /\ Cardinality(S) <= n /\ Len(q) = Cardinality(S)
           \/ /\ Len(q) = n /\ Cardinality(S) > n /\ q[n] \in S
              /\ Orders(q, {s \in S : s <= q[n]})
  <1>1. PICK a : a = Ascending(S)
    OBVIOUS
  <1>2. Orders(a, S) /\ a \in Seq(S) /\ Len(a) \in Nat
    BY <1>1, AscendingOrders DEF Orders
  <1>3. Cardinality(S) = Len(a)
    BY <1>2, OrderCounts
  <1>4. CASE Len(a) <= n
    BY <1>1, <1>2, <1>3, <1>4 DEF FirstOf
  <1>5. CASE ~(Len(a) <= n)
    <2>0. Len(a) > n /\ n \in 1..Len(a)
      BY <1>2, <1>5
    <2>1. q = SubSeq(a, 1, n)
      BY <1>1, <1>5 DEF FirstOf
    <2>3. q \in Seq(S) /\ Len(q) = n /\ \A i \in 1..n : q[i] = a[i]
      BY <1>2, <2>0, <2>1
    <2>4. \A i \in 1..Len(a) : a[i] \in S /\ a[i] \in Nat
      <3>1. \A i \in 1..Len(a) : a[i] \in S
        BY <1>2
      <3>2. QED
        BY <3>1
    <2>5. 1..n \subseteq 1..Len(a) /\ q[n] = a[n] /\ q[n] \in S
      BY <2>0, <2>3, <2>4
    <2>6. \A i, j \in 1..Len(a) : i < j => a[i] < a[j]
      BY <1>2 DEF Orders
    <2>7. ASSUME NEW i \in 1..n PROVE q[i] \in {s \in S : s <= q[n]}
      <3>1. q[i] = a[i] /\ a[i] \in S /\ a[i] \in Nat /\ a[n] \in Nat /\ i \in 1..Len(a)
        BY <2>0, <2>3, <2>4, <2>5
      <3>2. i < n => a[i] < a[n]
        BY <2>0, <2>6, <3>1
      <3>3. i = n \/ i < n
        OBVIOUS
      <3>4. a[i] <= a[n]
        BY <3>1, <3>2, <3>3
      <3>5. QED
        BY <2>5, <3>1, <3>4
    <2>8. ASSUME NEW s \in S, s <= q[n] PROVE \E i \in 1..n : q[i] = s
      <3>1. PICK i \in 1..Len(a) : a[i] = s
        BY <1>2 DEF Orders
      <3>2. ~(n < i)
        <4>1. n < i => a[n] < a[i]
          BY <2>0, <2>6
        <4>2. a[n] \in Nat /\ a[i] \in Nat /\ a[i] <= a[n]
          BY <2>0, <2>4, <2>5, <2>8, <3>1
        <4>3. QED
          BY <4>1, <4>2
      <3>3. i \in 1..n
        BY <1>2, <3>2
      <3>4. QED
        BY <2>3, <3>1, <3>3
    <2>9. \A i, j \in 1..n : i < j => q[i] < q[j]
      BY <2>3, <2>5, <2>6
    <2>10. q \in Seq({s \in S : s <= q[n]})
      <3>1. q = [i \in 1..n |-> q[i]]
        BY <2>3
      <3> DEFINE T == {s \in S : s <= q[n]}
      <3>2. \A i \in 1..n : q[i] \in T
        BY <2>7
      <3> HIDE DEF T
      <3>3. [i \in 1..n |-> q[i]] \in Seq(T)
        BY <3>2
      <3>4. QED
        BY <3>1, <3>3 DEF T
    <2>11. Orders(q, {s \in S : s <= q[n]})
      BY <2>3, <2>8, <2>9, <2>10 DEF Orders
    <2>12. QED
      BY <1>3, <2>0, <2>3, <2>5, <2>11
  <1>6. QED
    BY <1>4, <1>5

\* A page behind another one continues it.
LEMMA OrdersConcat ==
    ASSUME NEW A \in SUBSET Nat, NEW B \in SUBSET Nat, NEW a, NEW b, Orders(a, A), Orders(b, B),
           \A x \in A, y \in B : x < y
    PROVE  Orders(a \o b, A \cup B) /\ Len(a \o b) = Len(a) + Len(b)
  <1>1. /\ a \in Seq(A) /\ b \in Seq(B) /\ Len(a) \in Nat /\ Len(b) \in Nat
        /\ \A i, j \in 1..Len(a) : i < j => a[i] < a[j]
        /\ \A i, j \in 1..Len(b) : i < j => b[i] < b[j]
    BY DEF Orders
  <1>2. /\ a \in Seq(A \cup B) /\ b \in Seq(A \cup B)
        /\ \A i \in 1..Len(a) : a[i] \in A
        /\ \A i \in 1..Len(b) : b[i] \in B
    BY <1>1
  <1>3. PICK q : q = a \o b
    OBVIOUS
  <1>4. q \in Seq(A \cup B) /\ Len(q) = Len(a) + Len(b)
    BY <1>2, <1>3
  <1>5. /\ \A i \in 1..Len(a) : q[i] = a[i]
        /\ \A i \in 1..Len(b) : q[Len(a) + i] = b[i]
    BY <1>1, <1>3
  <1>6. ASSUME NEW i \in 1..Len(q)
        PROVE  i \in 1..Len(a) \/ (i - Len(a) \in 1..Len(b) /\ Len(a) + (i - Len(a)) = i)
    BY <1>1, <1>4
  <1>7. ASSUME NEW i \in 1..Len(q), NEW j \in 1..Len(q), i < j PROVE q[i] < q[j]
    <2>1. CASE j \in 1..Len(a)
      <3>1. i \in 1..Len(a)
        BY <1>1, <1>7, <2>1
      <3>2. QED
        BY <1>1, <1>5, <1>7, <2>1, <3>1
    <2>2. CASE j \notin 1..Len(a)
      <3>1. PICK l : l = j - Len(a)
        OBVIOUS
      <3>2. l \in 1..Len(b) /\ q[j] = b[l]
        BY <1>5, <1>6, <2>2, <3>1
      <3>3. CASE i \in 1..Len(a)
        BY <1>2, <1>5, <3>2, <3>3
      <3>4. CASE i \notin 1..Len(a)
        <4>1. PICK k : k = i - Len(a)
          OBVIOUS
        <4>2. k \in 1..Len(b) /\ q[i] = b[k]
          BY <1>5, <1>6, <3>4, <4>1
        <4>3. k < l
          BY <1>1, <1>4, <1>7, <3>1, <4>1
        <4>4. QED
          BY <1>1, <3>2, <4>2, <4>3
      <3>5. QED
        BY <3>3, <3>4
    <2>3. QED
      BY <2>1, <2>2
  <1>8. ASSUME NEW s \in A \cup B PROVE \E i \in 1..Len(q) : q[i] = s
    <2>1. CASE s \in A
      <3>1. PICK i \in 1..Len(a) : a[i] = s
        BY <2>1 DEF Orders
      <3>2. i \in 1..Len(q)
        BY <1>1, <1>4
      <3>3. QED
        BY <1>5, <3>1, <3>2
    <2>2. CASE s \in B
      <3>1. PICK i \in 1..Len(b) : b[i] = s
        BY <2>2 DEF Orders
      <3>2. Len(a) + i \in 1..Len(q)
        BY <1>1, <1>4
      <3>3. QED
        BY <1>5, <3>1, <3>2
    <2>3. QED
      BY <2>1, <2>2
  <1>9. QED
    BY <1>3, <1>4, <1>7, <1>8 DEF Orders

-----------------------------------------------------------------------------
(* Following cursors.                                                      *)

\* The equation of the recursion in Follow.
FollowStep(P, F, k) ==
    IF k = 0 THEN P[NoCursor]
    ELSE IF F[k - 1].next = NoCursor THEN F[k - 1]
         ELSE [seqs |-> F[k - 1].seqs \o P[F[k - 1].next].seqs, next |-> P[F[k - 1].next].next]

FollowsUpTo(P, F, n) == \A k \in 0..n : F[k] = FollowStep(P, F, k)

\* The recursion has a solution.
LEMMA FollowExists ==
    ASSUME NEW P, NEW n \in Nat
    PROVE  \E F : F = [k \in 0..n |-> F[k]] /\ FollowsUpTo(P, F, n)
  <1> DEFINE Has(m) == \E F : F = [k \in 0..m |-> F[k]] /\ FollowsUpTo(P, F, m)
             T == {m \in Nat : Has(m)}
  <1>1. 0 \in T
    <2> DEFINE F == [k \in 0..0 |-> P[NoCursor]]
    <2>1. F = [k \in 0..0 |-> F[k]] /\ FollowsUpTo(P, F, 0)
      BY DEF FollowsUpTo, FollowStep
    <2>2. QED
      BY <2>1
  <1>2. ASSUME NEW m \in Nat, m \in T PROVE m + 1 \in T
    <2>1. PICK F : F = [k \in 0..m |-> F[k]] /\ FollowsUpTo(P, F, m)
      BY <1>2
    <2>2. PICK new : new = FollowStep(P, F, m + 1)
      OBVIOUS
    <2> DEFINE G == [k \in 0..(m + 1) |-> IF k = m + 1 THEN new ELSE F[k]]
    <2>3. G[m + 1] = new /\ \A k \in 0..m : G[k] = F[k]
      OBVIOUS
    <2>4. G = [k \in 0..(m + 1) |-> G[k]]
      OBVIOUS
    <2> HIDE DEF G
    <2>5. \A k \in 0..m : G[k] = FollowStep(P, G, k)
      <3> SUFFICES ASSUME NEW k \in 0..m PROVE G[k] = FollowStep(P, G, k)
        OBVIOUS
      <3>1. k # 0 => k - 1 \in 0..m
        OBVIOUS
      <3>2. F[k] = FollowStep(P, F, k)
        BY <2>1 DEF FollowsUpTo
      <3>3. QED
        BY <2>3, <3>1, <3>2 DEF FollowStep
    <2>6. G[m + 1] = FollowStep(P, G, m + 1)
      <3>1. m + 1 # 0 /\ (m + 1) - 1 = m /\ G[m] = F[m]
        BY <2>3
      <3>2. QED
        BY <2>2, <2>3, <3>1 DEF FollowStep
    <2>7. \A k \in 0..(m + 1) : k \in 0..m \/ k = m + 1
      OBVIOUS
    <2>8. FollowsUpTo(P, G, m + 1)
      BY <2>5, <2>6, <2>7 DEF FollowsUpTo
    <2>9. QED
      BY <2>4, <2>8
  <1> HIDE DEF T
  <1>3. \A m \in Nat : m \in T
    BY <1>1, <1>2, NatSetInduction
  <1>4. QED
    BY <1>3 DEF T

\* Follow returns the end of a solution of its recursion.
LEMMA FollowSolves ==
    ASSUME NEW P, NEW n \in Nat
    PROVE  \E F : FollowsUpTo(P, F, n) /\ Follow(P, n) = F[n]
  <1>1. PICK F : F = [k \in 0..n |-> F[k]] /\ FollowsUpTo(P, F, n)
    BY FollowExists
  <1>2. F = [k \in 0..n |-> IF k = 0 THEN P[NoCursor]
                            ELSE IF F[k - 1].next = NoCursor THEN F[k - 1]
                                 ELSE [seqs |-> F[k - 1].seqs \o P[F[k - 1].next].seqs,
                                       next |-> P[F[k - 1].next].next]]
    BY <1>1 DEF FollowsUpTo, FollowStep
  <1>3. PICK G : /\ G = [k \in 0..n |-> IF k = 0 THEN P[NoCursor]
                            ELSE IF G[k - 1].next = NoCursor THEN G[k - 1]
                                 ELSE [seqs |-> G[k - 1].seqs \o P[G[k - 1].next].seqs,
                                       next |-> P[G[k - 1].next].next]]
                 /\ Follow(P, n) = G[n]
    BY <1>2 DEF Follow
  <1>4. \A k \in 0..n : G[k] = IF k = 0 THEN P[NoCursor]
                            ELSE IF G[k - 1].next = NoCursor THEN G[k - 1]
                                 ELSE [seqs |-> G[k - 1].seqs \o P[G[k - 1].next].seqs,
                                       next |-> P[G[k - 1].next].next]
    BY <1>3
  <1>5. QED
    BY <1>3, <1>4 DEF FollowsUpTo, FollowStep

Between(S, c, m) == {s \in S : s > c /\ s <= m}

\* p is the page behind cursor c of the numbers in S: all that are left, or all
\* up to the next cursor.
PageFor(p, S, c) ==
    /\ p = [seqs |-> p.seqs, next |-> p.next]
    /\ \/ p.next = NoCursor /\ Orders(p.seqs, {s \in S : s > c})
       \/ /\ p.next \in S /\ p.next > c
          /\ Orders(p.seqs, Between(S, c, p.next))

\* Whoever follows the cursors gets all numbers in S, in order.
LEMMA FollowAll ==
    ASSUME NEW S \in SUBSET (Nat \ {0}), IsFiniteSet(S), NEW P, \A c \in Nat : PageFor(P[c], S, c),
           NEW n \in Nat, Cardinality(S) <= n
    PROVE  Follow(P, n) = [seqs |-> Ascending(S), next |-> NoCursor]
  <1>0. S \in SUBSET Nat /\ NoCursor = 0 /\ NoCursor \in Nat /\ \A s \in S : s \in Nat /\ s > NoCursor
    BY DEF NoCursor
  <1>1. PICK F : FollowsUpTo(P, F, n) /\ Follow(P, n) = F[n]
    BY FollowSolves
  <1> DEFINE Upto(c) == {s \in S : s <= c}
             Good(k, g) == /\ g = [seqs |-> g.seqs, next |-> g.next]
                           /\ \/ g.next = NoCursor /\ Orders(g.seqs, S)
                              \/ /\ g.next \in S /\ Orders(g.seqs, Upto(g.next)) /\ Len(g.seqs) > k
             T == {k \in Nat : k <= n => Good(k, F[k])}
  <1>2. ASSUME NEW q, NEW A, Orders(q, A), A # {} PROVE Len(q) \in Nat /\ Len(q) > 0
    BY <1>2 DEF Orders
  <1>3. 0 \in T
    <2>1. F[0] = P[NoCursor] /\ PageFor(P[NoCursor], S, NoCursor)
      <3>1. 0 \in 0..n
        OBVIOUS
      <3>2. F[0] = P[NoCursor]
        BY <1>1, <3>1 DEF FollowsUpTo, FollowStep
      <3>3. QED
        BY <1>0, <3>2
    <2>2. PICK p : p = P[NoCursor]
      OBVIOUS
    <2>3. {s \in S : s > NoCursor} = S /\ \A c : Between(S, NoCursor, c) = Upto(c)
      BY <1>0 DEF Between
    <2>4. p = [seqs |-> p.seqs, next |-> p.next]
      BY <2>1, <2>2 DEF PageFor
    <2>5. \/ p.next = NoCursor /\ Orders(p.seqs, S)
          \/ p.next \in S /\ Orders(p.seqs, Upto(p.next))
      <3> HIDE DEF Upto
      <3> QED
        BY <2>1, <2>2, <2>3 DEF PageFor
    <2>6. p.next \in S => p.next \in Upto(p.next)
      <3>1. ASSUME NEW m \in S PROVE m \in Upto(m)
        <4>1. m \in Nat
          BY <1>0
        <4>2. m <= m
          BY <4>1
        <4>3. QED
          BY <4>2
      <3>2. QED
        BY <3>1
    <2> HIDE DEF Upto
    <2>7. p.next \in S /\ Orders(p.seqs, Upto(p.next)) => Len(p.seqs) > 0
      BY <1>2, <2>6
    <2>8. Good(0, F[0])
      BY <2>1, <2>2, <2>4, <2>5, <2>7
    <2>9. QED
      BY <2>8
  <1>4. ASSUME NEW k \in Nat, k \in T PROVE k + 1 \in T
    <2> SUFFICES ASSUME k + 1 <= n PROVE Good(k + 1, F[k + 1])
      OBVIOUS
    <2>1. PICK g : g = F[k]
      OBVIOUS
    <2>2. Good(k, g)
      BY <1>4, <2>1
    <2>3. k + 1 \in 0..n /\ k + 1 # 0 /\ (k + 1) - 1 = k
      OBVIOUS
    <2>4. F[k + 1] = IF g.next = NoCursor THEN g
                     ELSE [seqs |-> g.seqs \o P[g.next].seqs, next |-> P[g.next].next]
      BY <1>1, <2>1, <2>3 DEF FollowsUpTo, FollowStep
    <2>5. CASE g.next = NoCursor
      <3>1. g.next \notin S
        BY <1>0, <2>5
      <3>2. QED
        BY <2>2, <2>4, <2>5, <3>1
    <2>6. CASE g.next # NoCursor
      <3>1. /\ g.next \in S /\ g.next \in Nat /\ Orders(g.seqs, Upto(g.next)) /\ Len(g.seqs) > k
        BY <1>0, <2>2, <2>6
      <3>2. PICK c, p : c = g.next /\ p = P[c]
        OBVIOUS
      <3>3. c \in Nat /\ PageFor(p, S, c)
        BY <3>1, <3>2
      <3>4. PICK h : h = [seqs |-> g.seqs \o p.seqs, next |-> p.next]
        OBVIOUS
      <3>5. F[k + 1] = h /\ h = [seqs |-> h.seqs, next |-> h.next] /\ h.seqs = g.seqs \o p.seqs /\ h.next = p.next
        BY <2>4, <2>6, <3>2, <3>4
      <3>a. Upto(c) \in SUBSET Nat /\ \A x \in Upto(c) : x \in Nat /\ x <= c
        BY <1>0
      <3>6. CASE p.next = NoCursor /\ Orders(p.seqs, {s \in S : s > c})
        <4> DEFINE B == {s \in S : s > c}
        <4>1. B \in SUBSET Nat
          BY <1>0
        <4>1a. ASSUME NEW x \in Upto(c), NEW y \in B PROVE x < y
          <5>1. x \in Nat /\ y \in Nat /\ x <= c /\ c < y
            BY <1>0, <3>3, <3>a
          <5>2. QED
            BY <3>3, <5>1
        <4>2. Upto(c) \cup B = S
          <5>1. ASSUME NEW x \in S PROVE x <= c \/ x > c
            <6>1. x \in Nat
              BY <1>0
            <6>2. QED
              BY <3>3, <6>1
          <5>2. QED
            BY <5>1
        <4>3. Orders(g.seqs, Upto(c)) /\ Orders(p.seqs, B)
          BY <3>1, <3>2, <3>6
        <4> HIDE DEF Upto, B
        <4>4. Orders(g.seqs \o p.seqs, S)
          <5>1. PICK a, b, U, V : a = g.seqs /\ b = p.seqs /\ U = Upto(c) /\ V = B
            OBVIOUS
          <5>2. U \in SUBSET Nat /\ V \in SUBSET Nat /\ Orders(a, U) /\ Orders(b, V)
            BY <3>a, <4>1, <4>3, <5>1
          <5>3. \A x \in U, y \in V : x < y
            BY <4>1a, <5>1
          <5>4. Orders(a \o b, U \cup V)
            BY <5>2, <5>3, OrdersConcat
          <5>5. QED
            BY <4>2, <5>1, <5>4
        <4>5. QED
          BY <3>5, <3>6, <4>4
      <3>7. CASE p.next \in S /\ p.next > c /\ Orders(p.seqs, Between(S, c, p.next))
        <4> DEFINE B == {s \in S : s > c /\ s <= p.next}
        <4>0. p.next \in Nat
          BY <1>0, <3>7
        <4>b. p.next <= p.next
          BY <4>0
        <4>1. B \in SUBSET Nat /\ p.next \in B
          BY <1>0, <3>7, <4>b
        <4>1a. ASSUME NEW x \in Upto(c), NEW y \in B PROVE x < y
          <5>1. x \in Nat /\ y \in Nat /\ x <= c /\ c < y
            BY <1>0, <3>a
          <5>2. QED
            BY <3>3, <5>1
        <4>2. Upto(c) \cup B = Upto(p.next)
          <5>1. ASSUME NEW x \in S PROVE (x <= c \/ (x > c /\ x <= p.next)) <=> x <= p.next
            <6>1. x \in Nat
              BY <1>0
            <6>2. QED
              BY <3>3, <3>7, <4>0, <6>1
          <5>2. QED
            BY <5>1
        <4>3. Orders(g.seqs, Upto(c)) /\ Orders(p.seqs, B)
          BY <3>1, <3>2, <3>7 DEF Between
        <4>4. Len(p.seqs) \in Nat /\ Len(p.seqs) > 0 /\ Len(g.seqs) \in Nat
          <5> HIDE DEF Upto, B
          <5>1. Len(p.seqs) \in Nat /\ Len(p.seqs) > 0
            BY <1>2, <4>1, <4>3
          <5>2. Len(g.seqs) \in Nat
            BY <4>3 DEF Orders
          <5>3. QED
            BY <5>1, <5>2
        <4> HIDE DEF Upto, B
        <4>5. Orders(g.seqs \o p.seqs, Upto(p.next)) /\ Len(g.seqs \o p.seqs) = Len(g.seqs) + Len(p.seqs)
          <5>1. PICK a, b, U, V : a = g.seqs /\ b = p.seqs /\ U = Upto(c) /\ V = B
            OBVIOUS
          <5>2. U \in SUBSET Nat /\ V \in SUBSET Nat /\ Orders(a, U) /\ Orders(b, V)
            BY <3>a, <4>1, <4>3, <5>1
          <5>3. \A x \in U, y \in V : x < y
            BY <4>1a, <5>1
          <5>4. Orders(a \o b, U \cup V) /\ Len(a \o b) = Len(a) + Len(b)
            BY <5>2, <5>3, OrdersConcat
          <5>5. QED
            BY <4>2, <5>1, <5>4
        <4>6. Len(g.seqs \o p.seqs) > k + 1
          <5>1. PICK x, y : x = Len(g.seqs) /\ y = Len(p.seqs)
            OBVIOUS
          <5>2. x \in Nat /\ y \in Nat /\ x > k /\ y > 0
            BY <3>1, <4>4, <5>1
          <5>3. x + y > k + 1
            BY <5>2
          <5>4. QED
            BY <4>5, <5>1, <5>3
        <4>7. QED
          BY <3>5, <3>7, <4>5, <4>6
      <3>8. QED
        BY <3>3, <3>6, <3>7 DEF PageFor
    <2>7. QED
      BY <2>5, <2>6
  <1>5. Good(n, F[n])
    <2> HIDE DEF T
    <2>1. n \in T
      BY <1>3, <1>4, NatSetInduction
    <2>2. QED
      BY <2>1 DEF T
  <1>6. PICK g : g = F[n]
    OBVIOUS
  <1>7. ~(g.next \in S /\ Orders(g.seqs, Upto(g.next)) /\ Len(g.seqs) > n)
    <2> SUFFICES ASSUME g.next \in S, Orders(g.seqs, Upto(g.next)), Len(g.seqs) > n PROVE FALSE
      OBVIOUS
    <2>1. Upto(g.next) \in SUBSET S /\ Upto(g.next) \in SUBSET Nat
      BY <1>0
    <2> HIDE DEF Upto
    <2>2. Cardinality(Upto(g.next)) = Len(g.seqs) /\ Len(g.seqs) \in Nat
      BY <2>1, OrderCounts
    <2>3. Cardinality(Upto(g.next)) <= Cardinality(S) /\ Cardinality(S) \in Nat
      BY <2>1, FS_Subset, FS_CardinalityType
    <2>4. QED
      BY <2>2, <2>3
  <1>8. g = [seqs |-> g.seqs, next |-> g.next] /\ g.next = NoCursor /\ Orders(g.seqs, S)
    BY <1>5, <1>6, <1>7
  <1>9. g.seqs = Ascending(S)
    BY <1>0, <1>8, OrdersUnique
  <1>10. QED
    BY <1>1, <1>6, <1>8, <1>9

-----------------------------------------------------------------------------
(* The pages of timeline() and query().                                    *)

\* The events of a consistent database are finitely many, numbered from 1.
LEMMA EventNumbers ==
    ASSUME NEW d, d.seq \in Nat, DOMAIN d.events \subseteq 1..d.seq
    PROVE  /\ IsFiniteSet(DOMAIN d.events) /\ Cardinality(DOMAIN d.events) \in Nat
           /\ DOMAIN d.events \in SUBSET (Nat \ {0})
           /\ \A S \in SUBSET (DOMAIN d.events) :
                 /\ IsFiniteSet(S) /\ S \in SUBSET Nat /\ S \in SUBSET (Nat \ {0})
                 /\ Cardinality(S) <= Cardinality(DOMAIN d.events)
  <1>1. PICK D : D = DOMAIN d.events
    OBVIOUS
  <1>2. D \in SUBSET Nat /\ D \in SUBSET (Nat \ {0}) /\ \A s \in D : s <= d.seq
    BY <1>1
  <1>3. IsFiniteSet(D)
    BY <1>2, FS_BoundedSetOfNaturals
  <1>4. Cardinality(D) \in Nat /\ \A S \in SUBSET D : IsFiniteSet(S) /\ Cardinality(S) <= Cardinality(D)
    BY <1>3, FS_CardinalityType, FS_Subset
  <1>5. QED
    BY <1>1, <1>2, <1>3, <1>4

\* A sequence over a set is one over every larger set.
LEMMA SequenceWidens ==
    ASSUME NEW A, NEW S, A \subseteq S, NEW q \in Seq(A)
    PROVE  q \in Seq(S) /\ Len(q) \in Nat
  <1>1. Len(q) \in Nat /\ \A i \in 1..Len(q) : q[i] \in A
    OBVIOUS
  <1>2. \A i \in 1..Len(q) : q[i] \in S
    BY <1>1
  <1>3. q = [i \in 1..Len(q) |-> q[i]]
    OBVIOUS
  <1>4. QED
    BY <1>1, <1>2, <1>3

\* A full page with a cursor, or all that is left.
LEMMA ScanPage ==
    ASSUME NEW S \in SUBSET (Nat \ {0}), IsFiniteSet(S), NEW n \in Nat \ {0}, NEW c \in Nat,
           NEW R, R = {s \in S : s > c}, NEW q, q = FirstOf(Ascending(R), n)
    PROVE  /\ q \in Seq(S) /\ Len(q) \in Nat
           /\ Len(q) # n => Orders(q, R)
           /\ ~(Cardinality(R) > n) => Orders(q, R)
           /\ Len(q) = n => /\ q[n] \in S /\ q[n] > c /\ q[n] # NoCursor
                            /\ Orders(q, Between(S, c, q[n]))
  <1>0. R \in SUBSET Nat /\ R \subseteq S /\ \A s \in R : s \in Nat /\ s > c
    OBVIOUS
  <1>1. IsFiniteSet(R) /\ Cardinality(R) \in Nat
    BY <1>0, FS_Subset, FS_CardinalityType
  <1>3. \/ Orders(q, R) /\ Cardinality(R) <= n /\ Len(q) = Cardinality(R)
        \/ /\ Len(q) = n /\ Cardinality(R) > n /\ q[n] \in R
           /\ Orders(q, {s \in R : s <= q[n]})
    BY <1>0, <1>1, FirstOfScan
  <1>4. \A m : {s \in R : s <= m} = Between(S, c, m)
    BY DEF Between
  <1>5. q \in Seq(S) /\ Len(q) \in Nat
    <2>1. PICK A : A \subseteq S /\ q \in Seq(A)
      <3>1. Orders(q, R) => q \in Seq(R)
        BY DEF Orders
      <3>2. PICK B : B = {s \in R : s <= q[n]}
        OBVIOUS
      <3>3. Orders(q, B) => q \in Seq(B)
        BY DEF Orders
      <3>4. B \subseteq S /\ R \subseteq S
        BY <1>0, <3>2
      <3>5. QED
        BY <1>3, <3>1, <3>2, <3>3, <3>4
    <2>2. QED
      BY <2>1, SequenceWidens
  <1>6. Len(q) # n => Orders(q, R)
    BY <1>3
  <1>7. ~(Cardinality(R) > n) => Orders(q, R)
    BY <1>3
  <1>8. ASSUME Len(q) = n
        PROVE  q[n] \in R /\ Orders(q, {s \in R : s <= q[n]})
    <2>1. CASE Orders(q, R) /\ Cardinality(R) <= n /\ Len(q) = Cardinality(R)
      <3>1. q \in Seq(R) /\ n \in 1..Len(q)
        BY <1>8, <2>1 DEF Orders
      <3>2. q[n] \in R
        BY <3>1
      <3>3. ASSUME NEW s \in R PROVE s <= q[n]
        <4>1. PICK i \in 1..Len(q) : q[i] = s
          BY <2>1 DEF Orders
        <4>2. i < n => q[i] < q[n]
          BY <2>1, <3>1 DEF Orders
        <4>3. i = n \/ i < n
          BY <1>8, <4>1
        <4>4. s \in Nat /\ q[n] \in Nat
          BY <1>0, <3>2
        <4>5. QED
          BY <4>1, <4>2, <4>3, <4>4
      <3>4. {s \in R : s <= q[n]} = R
        BY <3>3
      <3>5. QED
        BY <2>1, <3>2, <3>4
    <2>2. QED
      BY <1>3, <2>1
  <1>9. Len(q) = n => /\ q[n] \in S /\ q[n] > c /\ q[n] # NoCursor
                      /\ Orders(q, Between(S, c, q[n]))
    BY <1>0, <1>4, <1>8 DEF NoCursor
  <1>10. QED
    BY <1>5, <1>6, <1>7, <1>9

\* Every page of timeline() continues the one before it.
LEMMA TimelinePage ==
    ASSUME NEW d, d.seq \in Nat, DOMAIN d.events \subseteq 1..d.seq, NEW r, NEW n \in Nat \ {0}, NEW c \in Nat
    PROVE  PageFor(Timeline(d, r, n, c), OfRun(d.events, r), c)
  <1> DEFINE S == OfRun(d.events, r)
  <1>0. PICK R : R = {s \in S : s > c}
    OBVIOUS
  <1> DEFINE more == \/ Cardinality(R) > n
                     \/ \E x \in RunIds : x > r /\ OfRun(d.events, x) # {}
  <1>1. S \in SUBSET (DOMAIN d.events)
    BY DEF OfRun
  <1>2. IsFiniteSet(S) /\ S \in SUBSET (Nat \ {0})
    <2> HIDE DEF S
    <2> QED
      BY <1>1, EventNumbers
  <1>3. PICK q : q = FirstOf(Ascending(R), n)
    OBVIOUS
  <1>4. PICK p : p = Timeline(d, r, n, c)
    OBVIOUS
  <1>5. p = [seqs |-> q, next |-> IF Len(q) = n /\ more THEN q[n] ELSE NoCursor]
    BY <1>0, <1>3, <1>4 DEF Timeline
  <1>6. /\ Len(q) # n => Orders(q, R)
        /\ ~(Cardinality(R) > n) => Orders(q, R)
        /\ Len(q) = n => /\ q[n] \in S /\ q[n] > c /\ q[n] # NoCursor
                         /\ Orders(q, Between(S, c, q[n]))
    <2> HIDE DEF S
    <2> QED
      BY <1>0, <1>2, <1>3, ScanPage
  <1>7. p = [seqs |-> p.seqs, next |-> p.next] /\ p.seqs = q
    BY <1>5
  <1>8. CASE Len(q) = n /\ more
    <2>1. p.next = q[n]
      BY <1>5, <1>8
    <2> HIDE DEF S, more
    <2>2. QED
      BY <1>4, <1>6, <1>7, <1>8, <2>1 DEF PageFor, S
  <1>9. CASE ~(Len(q) = n /\ more)
    <2>1. p.next = NoCursor /\ Orders(q, R)
      BY <1>5, <1>6, <1>9
    <2>2. QED
      BY <1>0, <1>4, <1>7, <2>1 DEF PageFor
  <1>10. QED
    BY <1>8, <1>9

\* A list of one scan is that scan.
LEMMA OneScan ==
    ASSUME NEW a, NEW w, w = [i \in 1..1 |-> a] PROVE FlattenSeq(w) = a
  <1>0. Len(w) = 1 /\ w[1] = a
    OBVIOUS
  <1>1. PICK f : f = [i \in 1..1 |-> a]
    OBVIOUS
  <1>2. f = [i \in 1..Len(w) |-> IF i = 1 THEN w[i] ELSE f[i - 1] \o w[i]]
    BY <1>0, <1>1
  <1>3. PICK g : /\ g = [i \in 1..Len(w) |-> IF i = 1 THEN w[i] ELSE g[i - 1] \o w[i]]
                 /\ FlattenSeq(w) = g[Len(w)]
    BY <1>0, <1>2 DEF FlattenSeq
  <1>4. QED
    BY <1>0, <1>3

\* Every page of query() for one type continues the one before it.
LEMMA QueryPage ==
    ASSUME NEW d, d.seq \in Nat, DOMAIN d.events \subseteq 1..d.seq,
           NEW t, NEW r, NEW type, NEW n \in Nat \ {0}, NEW c \in Nat
    PROVE  PageFor(QueryByType(d, t, r, <<type>>, n, c), Selected(d, t, r, type), c)
  <1> DEFINE S == Selected(d, t, r, type)
  <1>0. PICK R : R = {s \in S : s > c}
    OBVIOUS
  <1>1. S \in SUBSET (DOMAIN d.events)
    BY DEF Selected, OfType
  <1>2. IsFiniteSet(S) /\ S \in SUBSET (Nat \ {0})
    <2> HIDE DEF S
    <2> QED
      BY <1>1, EventNumbers
  <1>3. PICK q : q = FirstOf(Ascending(R), n)
    OBVIOUS
  <1>4. PICK p : p = QueryByType(d, t, r, <<type>>, n, c)
    OBVIOUS
  <1>5. p = [seqs |-> Ascending(ToSet(q)), next |-> IF Len(q) = n THEN q[n] ELSE NoCursor]
    <2>0. PICK a : a = Ascending(R)
      OBVIOUS
    <2>1. PICK w : w = [i \in 1..Len(<<type>>) |-> Ascending({s \in Selected(d, t, r, <<type>>[i]) : s > c})]
      OBVIOUS
    <2>2. w = [i \in 1..1 |-> a]
      BY <1>0, <2>0, <2>1
    <2>3. FlattenSeq(w) = a
      BY <2>2, OneScan
    <2>4. QED
      BY <1>3, <1>4, <2>0, <2>1, <2>3 DEF QueryByType
  <1>6. /\ q \in Seq(S) /\ Len(q) \in Nat
        /\ Len(q) # n => Orders(q, R)
        /\ Len(q) = n => /\ q[n] \in S /\ q[n] > c /\ q[n] # NoCursor
                         /\ Orders(q, Between(S, c, q[n]))
    <2> HIDE DEF S
    <2> QED
      BY <1>0, <1>2, <1>3, ScanPage
  <1>7. ASSUME NEW A \in SUBSET S, Orders(q, A) PROVE Ascending(ToSet(q)) = q
    <2>1. ToSet(q) = A
      BY <1>6, <1>7 DEF Orders, ToSet
    <2>2. A \in SUBSET Nat
      BY <1>2
    <2>3. QED
      BY <1>7, <2>1, <2>2, OrdersUnique
  <1>8. Ascending(ToSet(q)) = q
    <2>1. R \in SUBSET S /\ \A m : Between(S, c, m) \in SUBSET S
      BY <1>0 DEF Between
    <2> HIDE DEF S
    <2>2. CASE Len(q) # n
      BY <1>6, <1>7, <2>1, <2>2
    <2>3. CASE Len(q) = n
      <3>1. PICK A : A = Between(S, c, q[n])
        OBVIOUS
      <3>2. A \in SUBSET S /\ Orders(q, A)
        BY <1>6, <2>1, <2>3, <3>1
      <3>3. QED
        BY <1>7, <3>2
    <2>4. QED
      BY <2>2, <2>3
  <1>9. p = [seqs |-> p.seqs, next |-> p.next] /\ p.seqs = q /\ p.next = (IF Len(q) = n THEN q[n] ELSE NoCursor)
    BY <1>5, <1>8
  <1> HIDE DEF S
  <1>10. PageFor(p, S, c)
    BY <1>0, <1>6, <1>9 DEF PageFor
  <1>11. QED
    BY <1>4, <1>10 DEF S

\* Whoever follows the cursors of timeline(), or of query() for one type, misses
\* nothing in a consistent database.
LEMMA AllPages ==
    ASSUME NEW d, d.seq \in Nat, DOMAIN d.events \subseteq 1..d.seq, NEW n \in Nat \ {0}
    PROVE  /\ \A r : TimelinePages(d, r, n) = [seqs |-> Ascending(OfRun(d.events, r)), next |-> NoCursor]
           /\ \A t, r, type : QueryPages(d, t, r, <<type>>, n)
                                = [seqs |-> Ascending(Selected(d, t, r, type)), next |-> NoCursor]
  <1>1. PICK N : N = Cardinality(DOMAIN d.events)
    OBVIOUS
  <1>2. /\ N \in Nat
        /\ \A S \in SUBSET (DOMAIN d.events) :
              IsFiniteSet(S) /\ S \in SUBSET (Nat \ {0}) /\ Cardinality(S) <= N
    BY <1>1, EventNumbers
  <1>3. ASSUME NEW r
        PROVE  TimelinePages(d, r, n) = [seqs |-> Ascending(OfRun(d.events, r)), next |-> NoCursor]
    <2>1. PICK S : S = OfRun(d.events, r)
      OBVIOUS
    <2>2. PICK P : P = [c \in Nat |-> Timeline(d, r, n, c)]
      OBVIOUS
    <2>3. S \in SUBSET (DOMAIN d.events)
      BY <2>1 DEF OfRun
    <2>4. ASSUME NEW c \in Nat PROVE PageFor(P[c], S, c)
      <3>1. PageFor(Timeline(d, r, n, c), S, c)
        BY <2>1, TimelinePage
      <3>2. P[c] = Timeline(d, r, n, c)
        BY <2>2
      <3>3. QED
        BY <3>1, <3>2
    <2>5. Follow(P, N) = [seqs |-> Ascending(S), next |-> NoCursor]
      BY <1>2, <2>3, <2>4, FollowAll
    <2>6. QED
      BY <1>1, <2>1, <2>2, <2>5 DEF TimelinePages
  <1>4. ASSUME NEW t, NEW r, NEW type
        PROVE  QueryPages(d, t, r, <<type>>, n)
                 = [seqs |-> Ascending(Selected(d, t, r, type)), next |-> NoCursor]
    <2>1. PICK S : S = Selected(d, t, r, type)
      OBVIOUS
    <2>2. PICK P : P = [c \in Nat |-> QueryByType(d, t, r, <<type>>, n, c)]
      OBVIOUS
    <2>3. S \in SUBSET (DOMAIN d.events)
      BY <2>1 DEF Selected, OfType
    <2>4. ASSUME NEW c \in Nat PROVE PageFor(P[c], S, c)
      <3>1. PageFor(QueryByType(d, t, r, <<type>>, n, c), S, c)
        BY <2>1, QueryPage
      <3>2. P[c] = QueryByType(d, t, r, <<type>>, n, c)
        BY <2>2
      <3>3. QED
        BY <3>1, <3>2
    <2>5. Follow(P, N) = [seqs |-> Ascending(S), next |-> NoCursor]
      BY <1>2, <2>3, <2>4, FollowAll
    <2>6. QED
      BY <1>1, <2>1, <2>2, <2>5 DEF QueryPages
  <1>5. QED
    BY <1>3, <1>4

-----------------------------------------------------------------------------
(* What readers of the engine's database rely on.                          *)

\* Readers find finitely many events, numbered from 1.
LEMMA DbNumbered ==
    ASSUME TypeOK, IndInv
    PROVE  db.seq \in Nat /\ DOMAIN db.events \subseteq 1..db.seq
  BY DEF TypeOK, IsDb, IndInv, Consistent

\* Whoever follows the cursors of timeline(), or of query() for one type, with
\* any page size, comes to an end and misses nothing, whatever failed writes,
\* replays and crashes led to the database.
THEOREM CursorsAreComplete == ASSUME OneTypeLists PROVE Spec => []CursorsComplete
  <1>1. TypeOK /\ IndInv => CursorsComplete
    <2> SUFFICES ASSUME TypeOK, IndInv PROVE TimelinePagesComplete /\ QueryPagesComplete
      BY DEF CursorsComplete
    <2>0. PICK d : d = db
      OBVIOUS
    <2>1. d.seq \in Nat /\ DOMAIN d.events \subseteq 1..d.seq
      BY <2>0, DbNumbered
    <2>2. ASSUME NEW n \in Limits
          PROVE  /\ \A r : TimelinePages(d, r, n)
                             = [seqs |-> Ascending(OfRun(d.events, r)), next |-> NoCursor]
                 /\ \A t, r, type : QueryPages(d, t, r, <<type>>, n)
                                      = [seqs |-> Ascending(Selected(d, t, r, type)), next |-> NoCursor]
      <3>1. n \in Nat \ {0}
        BY ReadsAssumption
      <3>2. QED
        BY <2>1, <3>1, AllPages
    <2>3. TimelinePagesComplete
      BY <2>0, <2>2 DEF TimelinePagesComplete
    <2>4. ASSUME NEW t \in Tenants, NEW r \in RunIds \cup {NoRun}, NEW n \in Limits, NEW types \in TypeLists
          PROVE  LET all == QueryPages(db, t, r, types, n)
                 IN  /\ ToSet(all.seqs) = UNION {Selected(db, t, r, types[i]) : i \in 1..Len(types)}
                     /\ all.next = NoCursor
      <3>1. PICK type : types = <<type>>
        BY DEF OneTypeLists
      <3>2. PICK S : S = Selected(d, t, r, type)
        OBVIOUS
      <3>3. PICK all : all = QueryPages(d, t, r, types, n)
        OBVIOUS
      <3>4. all.seqs = Ascending(S) /\ all.next = NoCursor
        <4>1. all = [seqs |-> Ascending(S), next |-> NoCursor]
          BY <2>2, <3>1, <3>2, <3>3
        <4>2. QED
          BY <4>1
      <3>5. S \in SUBSET Nat /\ IsFiniteSet(S)
        <4>1. S \in SUBSET (DOMAIN d.events)
          BY <3>2 DEF Selected, OfType
        <4>2. QED
          BY <2>1, <4>1, EventNumbers
      <3>6. ToSet(Ascending(S)) = S
        <4>1. PICK q : q = Ascending(S)
          OBVIOUS
        <4>2. Orders(q, S)
          BY <3>5, <4>1, AscendingOrders
        <4>3. ToSet(q) = S
          BY <4>2 DEF Orders, ToSet
        <4>4. QED
          BY <4>1, <4>3
      <3>7. UNION {Selected(d, t, r, types[i]) : i \in 1..Len(types)} = S
        <4>1. Len(types) = 1 /\ types[1] = type
          BY <3>1
        <4>2. \A i \in 1..Len(types) : Selected(d, t, r, types[i]) = S
          BY <3>2, <4>1
        <4>3. 1 \in 1..Len(types)
          BY <4>1
        <4>4. QED
          BY <4>2, <4>3
      <3>8. QED
        BY <2>0, <3>3, <3>4, <3>6, <3>7
    <2>5. QED
      BY <2>3, <2>4 DEF QueryPagesComplete
  <1>2. QED
    BY <1>1, TypeCorrect, InvariantHolds, PTL

\* A holds every number in S up to any it holds.
InitialPart(A, S) == A \in SUBSET S /\ \A s \in S : \A a \in A : s <= a => s \in A

\* Numbers from 1 are behind no cursor.
LEMMA BehindNone ==
    ASSUME NEW S \in SUBSET (Nat \ {0})
    PROVE  {s \in S : s > NoCursor} = S /\ \A s \in S : s \in Nat /\ s > NoCursor
  <1>1. \A s \in S : s \in Nat /\ s > NoCursor
    BY DEF NoCursor
  <1>2. QED
    BY <1>1

\* A first page has an initial part of the numbers in S.
LEMMA FirstPage ==
    ASSUME NEW S \in SUBSET (Nat \ {0}), NEW p, PageFor(p, S, NoCursor)
    PROVE  \E A : Orders(p.seqs, A) /\ InitialPart(A, S)
  <1>0. {s \in S : s > NoCursor} = S /\ \A s \in S : s \in Nat /\ s > NoCursor
    BY BehindNone
  <1>1. CASE p.next = NoCursor /\ Orders(p.seqs, {s \in S : s > NoCursor})
    <2>1. Orders(p.seqs, S)
      BY <1>0, <1>1
    <2>2. InitialPart(S, S)
      BY DEF InitialPart
    <2>3. QED
      BY <2>1, <2>2
  <1>2. CASE p.next \in S /\ p.next > NoCursor /\ Orders(p.seqs, Between(S, NoCursor, p.next))
    <2>1. PICK A : A = Between(S, NoCursor, p.next)
      OBVIOUS
    <2>2. A \in SUBSET S
      BY <2>1 DEF Between
    <2>3. ASSUME NEW s \in S, NEW a \in A, s <= a PROVE s \in A
      <3>1. a \in S /\ a <= p.next
        BY <2>1 DEF Between
      <3>2. s \in Nat /\ a \in Nat /\ p.next \in Nat /\ s > NoCursor
        BY <1>0, <1>2, <3>1
      <3>3. s <= p.next
        BY <2>3, <3>1, <3>2
      <3>4. QED
        BY <2>1, <3>2, <3>3 DEF Between
    <2>4. InitialPart(A, S)
      BY <2>2, <2>3 DEF InitialPart
    <2>5. QED
      BY <1>2, <2>1, <2>4
  <1>3. QED
    BY <1>1, <1>2 DEF PageFor

\* In an initial part of a scan, an event is preceded by those scanned before it.
LEMMA ScanPredecessors ==
    ASSUME NEW S \in SUBSET Nat, NEW A, InitialPart(A, S), NEW q, Orders(q, A),
           NEW i \in 1..Len(q)
    PROVE  /\ q[i] \in S
           /\ i > 1 => q[i - 1] \in S /\ q[i - 1] < q[i]
           /\ \A t \in S : t < q[i] => i > 1 /\ t <= q[i - 1]
  <1>1. q \in Seq(A) /\ Len(q) \in Nat /\ \A j \in 1..Len(q) : q[j] \in A
    BY DEF Orders
  <1>2. \A j \in 1..Len(q) : q[j] \in S /\ q[j] \in Nat
    BY <1>1 DEF InitialPart
  <1>3. ASSUME i > 1 PROVE q[i - 1] \in S /\ q[i - 1] < q[i]
    <2>1. i - 1 \in 1..Len(q) /\ i - 1 < i
      BY <1>1, <1>3
    <2>2. QED
      BY <1>2, <2>1 DEF Orders
  <1>4. ASSUME NEW t \in S, t < q[i] PROVE i > 1 /\ t <= q[i - 1]
    <2>1. t \in A
      <3>1. t <= q[i] /\ q[i] \in A
        BY <1>1, <1>2, <1>4
      <3>2. QED
        BY <3>1 DEF InitialPart
    <2>2. PICK j \in 1..Len(q) : q[j] = t
      BY <2>1 DEF Orders
    <2>3. j < i
      <3>1. i < j => q[i] < q[j]
        BY DEF Orders
      <3>2. q[i] \in Nat /\ q[j] \in Nat
        BY <1>2
      <3>3. ~(i < j) /\ i # j
        BY <1>4, <2>2, <3>1, <3>2
      <3>4. QED
        BY <3>3
    <2>4. i > 1 /\ i - 1 \in 1..Len(q)
      BY <1>1, <2>3
    <2>5. j = i - 1 \/ j < i - 1
      BY <2>3
    <2>6. j < i - 1 => q[j] < q[i - 1]
      BY <2>4 DEF Orders
    <2>7. q[j] \in Nat /\ q[i - 1] \in Nat
      BY <1>2, <2>4
    <2>8. QED
      BY <2>2, <2>4, <2>5, <2>6, <2>7
  <1>5. QED
    BY <1>2, <1>3, <1>4

\* On the first page of a run every row recomputes and carries the hash of the
\* row before it.
LEMMA PageChains ==
    ASSUME NEW d, d.seq \in Nat, DOMAIN d.events \subseteq 1..d.seq, Linked(d.events),
           NEW r, NEW n \in Nat \ {0}, NEW q, q = Timeline(d, r, n, NoCursor).seqs
    PROVE  \A i \in 1..Len(q) :
              /\ q[i] \in OfRun(d.events, r)
              /\ d.events[q[i]].hash = EventHash(d.events[q[i]])
              /\ d.events[q[i]].prev = IF i = 1 THEN NoHash ELSE d.events[q[i - 1]].hash
  <1>0. PICK S : S = OfRun(d.events, r)
    OBVIOUS
  <1>1. S \in SUBSET (Nat \ {0}) /\ S \in SUBSET Nat /\ S \in SUBSET (DOMAIN d.events)
    <2>1. S \in SUBSET (DOMAIN d.events)
      BY <1>0 DEF OfRun
    <2>2. QED
      BY <2>1, EventNumbers
  <1>2. PICK p : p = Timeline(d, r, n, NoCursor)
    OBVIOUS
  <1>3. PageFor(p, S, NoCursor)
    <2>1. PICK c \in Nat : c = NoCursor
      BY DEF NoCursor
    <2>2. PageFor(Timeline(d, r, n, c), OfRun(d.events, r), c)
      BY TimelinePage
    <2>3. QED
      BY <1>0, <1>2, <2>1, <2>2
  <1>4. PICK A : Orders(q, A) /\ InitialPart(A, S)
    <2>1. p.seqs = q
      BY <1>2
    <2>2. QED
      BY <1>1, <1>3, <2>1, FirstPage
  <1>5. ASSUME NEW i \in 1..Len(q)
        PROVE  /\ q[i] \in S
               /\ d.events[q[i]].hash = EventHash(d.events[q[i]])
               /\ d.events[q[i]].prev = IF i = 1 THEN NoHash ELSE d.events[q[i - 1]].hash
    <2>1. PICK s : s = q[i]
      OBVIOUS
    <2>2. /\ s \in S
          /\ i > 1 => q[i - 1] \in S /\ q[i - 1] < s
          /\ \A t \in S : t < s => i > 1 /\ t <= q[i - 1]
      <3>1. PICK v : v = q
        OBVIOUS
      <3>2. Orders(v, A) /\ i \in 1..Len(v)
        BY <1>4, <3>1
      <3>3. /\ v[i] \in S
            /\ i > 1 => v[i - 1] \in S /\ v[i - 1] < v[i]
            /\ \A t \in S : t < v[i] => i > 1 /\ t <= v[i - 1]
        BY <1>1, <1>4, <3>2, ScanPredecessors
      <3>4. QED
        BY <2>1, <3>1, <3>3
    <2>3. s \in DOMAIN d.events /\ d.events[s].run = r
      BY <1>0, <2>2 DEF OfRun
    <2>4. d.events[s].hash = EventHash(d.events[s])
      BY <2>3 DEF Linked
    <2>5. PICK B : B = Before(d.events, r, s)
      OBVIOUS
    <2>6. HeadIs(d.events, B, d.events[s].prev)
      BY <2>3, <2>5 DEF Linked
    <2>7. \A t : t \in B <=> t \in S /\ t < s
      BY <1>0, <2>5 DEF Before
    <2>8. CASE i = 1
      <3>1. B = {}
        BY <2>2, <2>7, <2>8
      <3>2. d.events[s].prev = NoHash
        BY <2>6, <3>1 DEF HeadIs
      <3>3. QED
        BY <2>1, <2>2, <2>4, <2>8, <3>2
    <2>9. CASE i # 1
      <3>1. i > 1
        BY <2>9
      <3>2. PICK m : m = q[i - 1]
        OBVIOUS
      <3>3. m \in S /\ m < s /\ m \in B
        BY <2>2, <2>7, <3>1, <3>2
      <3>4. PICK t \in B : (\A u \in B : u <= t) /\ d.events[s].prev = d.events[t].hash
        BY <2>6, <3>3 DEF HeadIs
      <3>5. t \in S /\ t <= m /\ m <= t
        BY <2>2, <2>7, <3>2, <3>3, <3>4
      <3>6. t = m
        BY <1>1, <3>3, <3>5
      <3>7. d.events[s].prev = d.events[q[i - 1]].hash
        BY <3>2, <3>4, <3>6
      <3>8. QED
        BY <2>1, <2>2, <2>4, <2>9, <3>7
    <2>10. QED
      BY <2>8, <2>9
  <1>6. QED
    BY <1>0, <1>5

\* A row with another type has another hash.
LEMMA TypeIsHashed ==
    ASSUME NEW e \in EventRow, NEW type, type # e.type, NEW c, c = [e EXCEPT !.type = type]
    PROVE  EventHash(c) # EventHash(e)
  <1>1. DOMAIN c = DOMAIN e /\ "type" \in DOMAIN e \ {"prev", "hash"} /\ c.type = type /\ c.prev = e.prev
    BY DEF EventRow
  <1>2. Content(c)["type"] = type /\ Content(e)["type"] = e.type
    BY <1>1 DEF Content
  <1>3. Content(c) # Content(e)
    BY <1>2
  <1>4. PICK h, x, y : h = e.prev /\ x = Content(c) /\ y = Content(e)
    OBVIOUS
  <1>5. h \in Seq([run : RunIds, key : Keys \cup {NoKey}, type : EventTypes])
    BY <1>4 DEF EventRow, Hash
  <1>6. Append(h, x) # Append(h, y)
    <2>1. Append(h, x)[Len(h) + 1] = x /\ Append(h, y)[Len(h) + 1] = y
      BY <1>5
    <2>2. QED
      BY <1>3, <1>4, <2>1
  <1>7. QED
    BY <1>1, <1>4, <1>6 DEF EventHash

\* verify() accepts every run the engine wrote, at every moment, and refuses a
\* run with an event on the page it reads whose type is not the one hashed.
THEOREM VerifyIsExact == Spec => []VerifyExact
  <1>1. TypeOK /\ IndInv => VerifyExact
    <2> SUFFICES ASSUME TypeOK, IndInv PROVE VerifyAccepts /\ VerifyNoticesChange
      BY DEF VerifyExact
    <2>0. PICK d : d = db
      OBVIOUS
    <2>1. d.seq \in Nat /\ DOMAIN d.events \subseteq 1..d.seq /\ Linked(d.events)
      BY <2>0, DbNumbered DEF IndInv, Consistent
    <2>n. PICK n \in Nat \ {0} : n = VerifyLimit
      BY ReadsAssumption
    <2>2. ASSUME NEW r, NEW q, q = Timeline(d, r, n, NoCursor).seqs
          PROVE  \A i \in 1..Len(q) :
                    /\ q[i] \in OfRun(d.events, r)
                    /\ d.events[q[i]].hash = EventHash(d.events[q[i]])
                    /\ d.events[q[i]].prev = IF i = 1 THEN NoHash ELSE d.events[q[i - 1]].hash
      BY <2>1, <2>2, PageChains
    <2>l. ASSUME NEW r, NEW q, q = Timeline(d, r, n, NoCursor).seqs PROVE Len(q) \in Nat
      <3>1. PICK c \in Nat : c = NoCursor
        BY DEF NoCursor
      <3>2. PageFor(Timeline(d, r, n, c), OfRun(d.events, r), c)
        BY <2>1, TimelinePage
      <3>3. \E A : Orders(q, A)
        BY <2>l, <3>1, <3>2 DEF PageFor
      <3>4. QED
        BY <3>3 DEF Orders
    <2>3. VerifyAccepts
      <3> SUFFICES ASSUME NEW r \in DOMAIN db.runs PROVE Verify(d, r)
        BY <2>0 DEF VerifyAccepts
      <3>1. PICK q : q = Timeline(d, r, n, NoCursor).seqs
        OBVIOUS
      <3>2. PICK w : w = Rows(d, q)
        OBVIOUS
      <3>3. Len(w) = Len(q) /\ \A i \in 1..Len(q) : w[i] = d.events[q[i]]
        BY <2>l, <3>1, <3>2 DEF Rows
      <3>4. ASSUME NEW i \in 1..Len(w)
            PROVE  /\ w[i].prev = IF i = 1 THEN NoHash ELSE w[i - 1].hash
                   /\ w[i].hash = EventHash(w[i])
        <4>1. w[i] = d.events[q[i]] /\ Len(q) \in Nat
          BY <2>l, <3>1, <3>3
        <4>2. i # 1 => w[i - 1] = d.events[q[i - 1]]
          BY <3>3, <4>1
        <4>3. /\ d.events[q[i]].hash = EventHash(d.events[q[i]])
              /\ d.events[q[i]].prev = IF i = 1 THEN NoHash ELSE d.events[q[i - 1]].hash
          BY <2>2, <3>1, <3>3
        <4>4. QED
          BY <4>1, <4>2, <4>3
      <3>5. VerifyChain(w)
        BY <3>4 DEF VerifyChain
      <3>6. QED
        BY <2>n, <3>1, <3>2, <3>5 DEF Verify
    <2>4. ASSUME NEW r \in DOMAIN db.runs, NEW q, q = Timeline(d, r, n, NoCursor).seqs,
                 NEW i \in 1..Len(q), NEW type \in EventTypes \ {d.events[q[i]].type}
          PROVE  ~Verify([d EXCEPT !.events[q[i]].type = type], r)
      <3>1. PICK s : s = q[i]
        OBVIOUS
      <3>2. PICK e : e = d.events[s]
        OBVIOUS
      <3>3. s \in DOMAIN d.events /\ e.hash = EventHash(e)
        BY <2>2, <2>4, <3>1, <3>2 DEF OfRun
      <3>4. e \in EventRow
        BY <2>0, <3>2, <3>3 DEF TypeOK, IsDb, IsTable
      <3>5. PICK c : c = [e EXCEPT !.type = type]
        OBVIOUS
      <3>6. c.hash = e.hash /\ c.run = e.run
        BY <3>4, <3>5 DEF EventRow
      <3>7. EventHash(c) # EventHash(e)
        BY <2>4, <3>1, <3>2, <3>4, <3>5, TypeIsHashed
      <3>8. PICK x : x = [d EXCEPT !.events[s].type = type]
        OBVIOUS
      <3>9. x.events = [d.events EXCEPT ![s] = c]
        <4>1. d = [runs |-> d.runs, events |-> d.events, idempotency |-> d.idempotency,
                   approvals |-> d.approvals, exports |-> d.exports, seq |-> d.seq]
          BY <2>0 DEF TypeOK, IsDb
        <4>2. QED
          BY <3>2, <3>5, <3>8, <4>1
      <3>10. DOMAIN x.events = DOMAIN d.events /\ x.events[s] = c
             /\ \A u \in DOMAIN d.events : u # s => x.events[u] = d.events[u]
        BY <3>3, <3>9
      <3>11. \A y : OfRun(x.events, y) = OfRun(d.events, y)
        BY <3>2, <3>3, <3>6, <3>10 DEF OfRun
      <3>12. Timeline(x, r, n, NoCursor) = Timeline(d, r, n, NoCursor)
        BY <3>11 DEF Timeline
      <3>13. PICK w : w = Rows(x, q)
        OBVIOUS
      <3>14. Len(w) = Len(q) /\ w[i] = c
        BY <2>4, <2>l, <3>1, <3>10, <3>13 DEF Rows
      <3>15. w[i].hash # EventHash(w[i])
        BY <3>3, <3>6, <3>7, <3>14
      <3>16. ~VerifyChain(w)
        BY <3>14, <3>15 DEF VerifyChain
      <3>17. ~Verify(x, r)
        BY <2>n, <2>4, <3>12, <3>13, <3>16 DEF Verify
      <3>18. QED
        BY <3>1, <3>8, <3>17
    <2>5. VerifyNoticesChange
      <3>1. ASSUME NEW r \in DOMAIN db.runs
            PROVE  LET seqs == Timeline(db, r, VerifyLimit, NoCursor).seqs
                   IN  \A i \in 1..Len(seqs) : \A type \in EventTypes \ {db.events[seqs[i]].type} :
                           ~Verify([db EXCEPT !.events[seqs[i]].type = type], r)
        <4>1. PICK q : q = Timeline(d, r, n, NoCursor).seqs
          OBVIOUS
        <4>2. \A i \in 1..Len(q) : \A type \in EventTypes \ {d.events[q[i]].type} :
                 ~Verify([d EXCEPT !.events[q[i]].type = type], r)
          BY <2>4, <4>1
        <4>3. QED
          BY <2>0, <2>n, <4>1, <4>2
      <3>2. QED
        BY <3>1 DEF VerifyNoticesChange
    <2>6. QED
      BY <2>3, <2>5
  <1>2. QED
    BY <1>1, TypeCorrect, InvariantHolds, PTL
=============================================================================
