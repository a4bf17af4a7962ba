---------------------------- MODULE RocksProofs -----------------------------
(***************************************************************************)
(* Proofs about the Python RocksDB backend, for any number of threads,     *)
(* sessions, objects, crashes and restarts.                                *)
(***************************************************************************)
EXTENDS RocksBackend, FiniteSetTheorems, TLAPS

-----------------------------------------------------------------------------
(* The inductive invariant.                                                *)

\* The keys of a store are pairs of a column family and a key, finitely many.
IsStore(d) ==
    /\ d = [k \in DOMAIN d |-> d[k]] /\ IsFiniteSet(DOMAIN d)
    /\ \A k \in DOMAIN d : k = <<k[1], k[2]>>

EventAt(d, n) == d[<<"events", n>>]

\* The families of the events agree: every event has its entries in the two
\* indexes and its key, and every entry is of an event; the entry of a key has
\* the id of an event, or is where an event puts its hash.
EventsAgree(d) ==
    /\ \A n \in Numbers(d) :
          /\ n \in Nat \ {0} /\ EventAt(d, n) \in Events
          /\ <<EventAt(d, n).run, n>> \in Keys(d, "ev_by_run")
          /\ <<EventAt(d, n).type, n>> \in Keys(d, "ev_by_type")
          /\ EventAt(d, n).key # NoKey => EventAt(d, n).key \in Keys(d, "idempotency")
    /\ \A x \in Keys(d, "ev_by_run") : \E n \in Numbers(d) : x = <<EventAt(d, n).run, n>>
    /\ \A x \in Keys(d, "ev_by_type") : \E n \in Numbers(d) : x = <<EventAt(d, n).type, n>>
    /\ \A k \in Keys(d, "idempotency") :
          \E n \in Numbers(d) :
             \/ EventAt(d, n).id = d[<<"idempotency", k>>]
             \/ EventAt(d, n).key # NoKey /\ k = HashKey(EventAt(d, n).key)

\* The families of the runs agree: every run has an entry, with its started_at
\* if it has one, and every entry is of a run.
RunsAgree(d) ==
    /\ \A r \in Keys(d, "runs") :
          r \in RunIds /\ \E ms \in Moments(r) : <<ms, r>> \in Keys(d, "runs_by_org")
    /\ \A x \in Keys(d, "runs_by_org") :
          \E r \in Keys(d, "runs") :
             (\E ms \in Moments(r) : x = <<ms, r>>) /\ d[<<"runs_by_org", x>>] = r

\* No object is twice in a sequence.
Distinct(s) == \A i, j \in 1..Len(s) : s[i] = s[j] => i = j

InQueue(s, from) == {s[i] : i \in from..Len(s)}

\* The objects of a session that have no put in its batch yet.
Waiting(t) == InQueue(pending[t], IF pc[t] = "persist" THEN 2 ELSE 1)

\* What holds of a session by itself.  Its batch has the puts of the objects
\* added before, each event under a number of its own, and stores a counter
\* that covers them once _persist_seq has run.
SessionInv(t) ==
    /\ pending[t] \in Seq(Objects)
    /\ Distinct(pending[t])
    /\ pc[t] = "persist" => pending[t] # <<>>
    /\ up # "ready" => pc[t] = "idle"
    /\ pc[t] = "idle" => batch[t] = Empty /\ added[t] = {}
    /\ IsStore(batch[t]) /\ EventsAgree(batch[t]) /\ RunsAgree(batch[t])
    /\ Keys(batch[t], "orgs") = {}
    /\ GlobalSeq(batch[t]) \in 0..seq
    /\ \A n \in Numbers(batch[t]) : n <= seq /\ (pc[t] # "persist" => n <= GlobalSeq(batch[t]))
    /\ Waiting(t) \subseteq added[t]
    /\ \A o \in added[t] : o \in Waiting(t) \/ ~Known(o) \/ Stored(batch[t], o)
    /\ \A n \in Numbers(batch[t]) : EventAt(batch[t], n) \in added[t] \ Waiting(t)
    /\ \A n \in Numbers(batch[t]) : sequence[EventAt(batch[t], n)] = n

\* Sessions share no events, and have none that a session has returned.
Apart ==
    /\ \A t, u \in Threads : t # u => added[t] \cap added[u] \cap Events = {}
    /\ \A t \in Threads : added[t] \cap acked = {}

\* The numbers that event objects carry are numbers handed out in the life of
\* this process, each to one object.
Numbering ==
    /\ \A e \in Events : sequence[e] <= seq
    /\ \A e, f \in Events : sequence[e] = sequence[f] /\ sequence[e] # 0 => e = f
    /\ up # "ready" => \A e \in Events : sequence[e] = 0

\* The database, whatever happened: the rows of _bootstrap come together, the
\* stored counter is one that was handed out.
DbInv ==
    /\ IsStore(db) /\ RunsAgree(db)
    /\ GlobalSeq(db) \in 0..MaxSeq
    /\ Has(db, "orgs", "default") =>
          Has(db, "projects", "default") /\ Has(db, "api_keys", "bootstrap")
    /\ up = "ready" => Has(db, "orgs", "default")

\* The database as long as the stored counter has not gone back: it covers all
\* numbers in use, and the number of an object is in the database only when the
\* object has been written there.
CounterInv ==
    /\ EventsAgree(db)
    /\ \A n \in Numbers(db) : n <= GlobalSeq(db)
    /\ up # "down" => GlobalSeq(db) <= seq
    /\ \A e \in Events : sequence[e] \in Numbers(db) =>
          e \in acked \/ \E t \in Threads : pc[t] = "written" /\ e \in added[t]

\* An event that is stored under a key is not in the hands of a session that
\* has still to write it.
OnceInv ==
    /\ \A e \in acked : Stored(db, e)
    /\ \A t \in Threads : pc[t] = "written" => \A o \in added[t] : Known(o) => Stored(db, o)
    /\ \A t \in Threads, n \in Numbers(db) :
          EventAt(db, n) \in added[t] /\ Keyed(EventAt(db, n)) => pc[t] = "written"
    /\ \A m, n \in Numbers(db) :
          EventAt(db, m) = EventAt(db, n) /\ Keyed(EventAt(db, m)) => m = n

\* The functions on threads.
Shape ==
    /\ pending = [t \in Threads |-> pending[t]]
    /\ batch = [t \in Threads |-> batch[t]]
    /\ added = [t \in Threads |-> added[t]]
    /\ sequence = [e \in Events |-> sequence[e]]

RocksInv ==
    /\ TypeOK /\ Shape
    /\ \A t \in Threads : SessionInv(t)
    /\ Apart /\ Numbering /\ DbInv
    /\ ~regressed => CounterInv /\ OnceInv

-----------------------------------------------------------------------------
(* Stores.                                                                 *)

\* In a store the keys an iterator meets are the keys that are there.
LEMMA KeysHas ==
    ASSUME NEW d, IsStore(d), NEW cf, NEW key
    PROVE  key \in Keys(d, cf) <=> Has(d, cf, key)
  BY DEF IsStore, Keys, Has

\* What a write leaves: the keys of both, and the values of the batch first.
LEMMA OverKeys ==
    ASSUME NEW b, NEW d, NEW cf
    PROVE  Keys(Over(b, d), cf) = Keys(b, cf) \cup Keys(d, cf)
  BY DEF Over, Keys

\* The same for one key and its value.
LEMMA OverHas ==
    ASSUME NEW b, NEW d, NEW cf, NEW key
    PROVE  /\ Has(Over(b, d), cf, key) <=> Has(b, cf, key) \/ Has(d, cf, key)
           /\ Has(b, cf, key) => Over(b, d)[<<cf, key>>] = b[<<cf, key>>]
           /\ ~Has(b, cf, key) /\ Has(d, cf, key) => Over(b, d)[<<cf, key>>] = d[<<cf, key>>]
  BY DEF Over, Has

\* A store that is written over a store is a store.
LEMMA OverStore ==
    ASSUME NEW b, NEW d, IsStore(b), IsStore(d)
    PROVE  IsStore(Over(b, d))
  <1>1. DOMAIN Over(b, d) = DOMAIN b \cup DOMAIN d
    BY DEF Over
  <1>2. IsFiniteSet(DOMAIN b \cup DOMAIN d)
    BY FS_Union DEF IsStore
  <1>3. Over(b, d) = [k \in DOMAIN Over(b, d) |-> Over(b, d)[k]]
    BY DEF Over
  <1>4. \A k \in DOMAIN b \cup DOMAIN d : k = <<k[1], k[2]>>
    BY DEF IsStore
  <1>5. QED
    BY <1>1, <1>2, <1>3, <1>4 DEF IsStore

\* A batch without puts changes nothing.
LEMMA OverEmpty ==
    ASSUME NEW d, IsStore(d)
    PROVE  Over(Empty, d) = d
  <1>1. DOMAIN Empty = {}
    BY DEF Empty
  <1>2. Over(Empty, d) = [k \in DOMAIN d |-> d[k]]
    BY <1>1 DEF Over
  <1>3. QED
    BY <1>2 DEF IsStore

\* A single put is a store with one key.
LEMMA PutStore ==
    ASSUME NEW cf, NEW key, NEW v
    PROVE  IsStore(Put(cf, key, v)) /\ Put(cf, key, v)[<<cf, key>>] = v
  <1>1. DOMAIN Put(cf, key, v) = {<<cf, key>>} /\ Put(cf, key, v)[<<cf, key>>] = v
    BY DEF Put
  <1>2. IsFiniteSet({<<cf, key>>})
    BY FS_Singleton
  <1>3. Put(cf, key, v) = [k \in DOMAIN Put(cf, key, v) |-> Put(cf, key, v)[k]]
    BY DEF Put
  <1>4. QED
    BY <1>1, <1>2, <1>3 DEF IsStore

\* The keys of a single put.
LEMMA PutKeys ==
    ASSUME NEW cf, NEW key, NEW v, NEW c
    PROVE  Keys(Put(cf, key, v), c) = IF c = cf THEN {key} ELSE {}
  <1>1. DOMAIN Put(cf, key, v) = {<<cf, key>>}
    BY DEF Put
  <1>2. CASE c = cf
    <2>1. {k \in DOMAIN Put(cf, key, v) : k[1] = c} = {<<cf, key>>}
      BY <1>1, <1>2
    <2>2. Keys(Put(cf, key, v), c) = {k[2] : k \in {<<cf, key>>}}
      BY <2>1, Zenon DEF Keys
    <2>3. {k[2] : k \in {<<cf, key>>}} = {key}
      OBVIOUS
    <2>4. QED
      BY <1>2, <2>2, <2>3
  <1>3. CASE c # cf
    BY <1>1, <1>3 DEF Keys
  <1>4. QED
    BY <1>2, <1>3

\* A batch without puts.
LEMMA EmptyKeys ==
    /\ IsStore(Empty) /\ \A cf : Keys(Empty, cf) = {} /\ \A k : ~Has(Empty, cf, k)
    /\ GlobalSeq(Empty) = 0 /\ EventsAgree(Empty) /\ RunsAgree(Empty)
  <1>1. /\ IsStore(Empty) /\ \A cf : Keys(Empty, cf) = {} /\ \A k : ~Has(Empty, cf, k)
    BY FS_EmptySet DEF IsStore, Empty, Keys, Has
  <1>2. QED
    BY <1>1 DEF GlobalSeq, EventsAgree, RunsAgree, Numbers

\* The counter after a write is that of the batch, if it has one.
LEMMA OverSeq ==
    ASSUME NEW b, NEW d
    PROVE  GlobalSeq(Over(b, d)) = IF Has(b, "meta", "global_seq") THEN GlobalSeq(b) ELSE GlobalSeq(d)
  BY OverHas DEF GlobalSeq

\* Events of both sides are found after a write that takes no number again.
LEMMA OverEvents ==
    ASSUME NEW b, NEW d, IsStore(b), IsStore(d), Numbers(b) \cap Numbers(d) = {}
    PROVE  /\ Numbers(Over(b, d)) = Numbers(b) \cup Numbers(d)
           /\ \A n \in Numbers(b) : EventAt(Over(b, d), n) = EventAt(b, n)
           /\ \A n \in Numbers(d) : EventAt(Over(b, d), n) = EventAt(d, n)
  <1>1. Numbers(Over(b, d)) = Numbers(b) \cup Numbers(d)
    BY OverKeys DEF Numbers
  <1>2. ASSUME NEW n \in Numbers(b) PROVE EventAt(Over(b, d), n) = EventAt(b, n)
    BY KeysHas, OverHas DEF Numbers, EventAt
  <1>3. ASSUME NEW n \in Numbers(d) PROVE EventAt(Over(b, d), n) = EventAt(d, n)
    BY KeysHas, OverHas DEF Numbers, EventAt
  <1>4. QED
    BY <1>1, <1>2, <1>3

\* Agreement of the event families is kept by such a write.
LEMMA OverEventsAgree ==
    ASSUME NEW b, NEW d, IsStore(b), IsStore(d), Numbers(b) \cap Numbers(d) = {},
           EventsAgree(b), EventsAgree(d)
    PROVE  EventsAgree(Over(b, d))
  <1> DEFINE o == Over(b, d)
  <1>1. /\ Numbers(o) = Numbers(b) \cup Numbers(d)
        /\ \A n \in Numbers(b) : EventAt(o, n) = EventAt(b, n)
        /\ \A n \in Numbers(d) : EventAt(o, n) = EventAt(d, n)
    BY OverEvents
  <1>2. \A cf : Keys(o, cf) = Keys(b, cf) \cup Keys(d, cf)
    BY OverKeys
  <1>3. /\ \A k \in Keys(b, "idempotency") : o[<<"idempotency", k>>] = b[<<"idempotency", k>>]
        /\ \A k \in Keys(d, "idempotency") :
              k \notin Keys(b, "idempotency") => o[<<"idempotency", k>>] = d[<<"idempotency", k>>]
    BY OverKeys, OverHas, KeysHas
  <1> HIDE DEF o
  <1>4. \A n \in Numbers(o) :
          /\ n \in Nat \ {0} /\ EventAt(o, n) \in Events
          /\ <<EventAt(o, n).run, n>> \in Keys(o, "ev_by_run")
          /\ <<EventAt(o, n).type, n>> \in Keys(o, "ev_by_type")
          /\ EventAt(o, n).key # NoKey => EventAt(o, n).key \in Keys(o, "idempotency")
    BY <1>1, <1>2 DEF EventsAgree
  <1>5. \A x \in Keys(o, "ev_by_run") : \E n \in Numbers(o) : x = <<EventAt(o, n).run, n>>
    BY <1>1, <1>2 DEF EventsAgree
  <1>6. \A x \in Keys(o, "ev_by_type") : \E n \in Numbers(o) : x = <<EventAt(o, n).type, n>>
    BY <1>1, <1>2 DEF EventsAgree
  <1>7. \A k \in Keys(o, "idempotency") :
          \E n \in Numbers(o) : \/ EventAt(o, n).id = o[<<"idempotency", k>>]
                                \/ EventAt(o, n).key # NoKey /\ k = HashKey(EventAt(o, n).key)
    <2> SUFFICES ASSUME NEW k \in Keys(o, "idempotency")
                 PROVE  \E n \in Numbers(o) :
                           \/ EventAt(o, n).id = o[<<"idempotency", k>>]
                           \/ EventAt(o, n).key # NoKey /\ k = HashKey(EventAt(o, n).key)
      OBVIOUS
    <2>1. CASE k \in Keys(b, "idempotency")
      BY <1>1, <1>3, <2>1 DEF EventsAgree
    <2>2. CASE k \notin Keys(b, "idempotency")
      BY <1>1, <1>2, <1>3, <2>2 DEF EventsAgree
    <2>3. QED
      BY <2>1, <2>2
  <1>8. EventsAgree(o)
    BY <1>4, <1>5, <1>6, <1>7 DEF EventsAgree
  <1>9. QED
    BY <1>8 DEF o

\* Agreement of the run families is kept by every write.
LEMMA OverRunsAgree ==
    ASSUME NEW b, NEW d, IsStore(b), IsStore(d), RunsAgree(b), RunsAgree(d)
    PROVE  RunsAgree(Over(b, d))
  <1> DEFINE o == Over(b, d)
  <1>1. \A cf : Keys(o, cf) = Keys(b, cf) \cup Keys(d, cf)
    BY OverKeys
  <1>2. /\ \A x \in Keys(b, "runs_by_org") : o[<<"runs_by_org", x>>] = b[<<"runs_by_org", x>>]
        /\ \A x \in Keys(d, "runs_by_org") :
              x \notin Keys(b, "runs_by_org") => o[<<"runs_by_org", x>>] = d[<<"runs_by_org", x>>]
    BY OverKeys, OverHas, KeysHas
  <1> HIDE DEF o
  <1>3. RunsAgree(o)
    BY <1>1, <1>2 DEF RunsAgree
  <1>4. QED
    BY <1>3 DEF o

-----------------------------------------------------------------------------
(* The puts of one object.                                                 *)

\* The objects callers add are events, runs, approvals and others.
LEMMA KindOf ==
    ASSUME NEW o \in Objects
    PROVE  \/ o.kind = "event" /\ o \in Events
           \/ o.kind = "run" /\ o \notin Events /\ o.id \in RunIds
           \/ o.kind = "approval" /\ o \notin Events
           \/ o.kind = "other" /\ o \notin Events
  BY RocksObjects, RocksEvents DEF Objects, Rows, RunRow, ApprovalRow, OtherObject

\* The puts of _write_event: one number, its index entries and its key.
LEMMA EventPutsOK ==
    ASSUME NEW e \in Events, NEW n \in Nat \ {0}
    PROVE  LET p == EventPuts(e, n)
           IN  /\ IsStore(p) /\ Numbers(p) = {n} /\ EventAt(p, n) = e
               /\ EventsAgree(p) /\ RunsAgree(p) /\ Keys(p, "orgs") = {}
               /\ ~Has(p, "meta", "global_seq")
  <1> DEFINE i == Idempotency(e)
             y == Put("ev_by_type", <<e.type, n>>, "")
             r == Put("ev_by_run", <<e.run, n>>, "")
             v == Put("events", n, e)
             p == EventPuts(e, n)
  <1>0. /\ IsStore(i) /\ \A c : c # "idempotency" => Keys(i, c) = {}
        /\ e.key = NoKey => Keys(i, "idempotency") = {}
        /\ e.key # NoKey => /\ Keys(i, "idempotency") = {e.key, HashKey(e.key)}
                            /\ e.key # HashKey(e.key) => i[<<"idempotency", e.key>>] = e.id
    <2>1. CASE e.key = NoKey
      BY <2>1, EmptyKeys DEF Idempotency
    <2>2. CASE e.key # NoKey
      <3> DEFINE h == Put("idempotency", HashKey(e.key), Hash(e))
                 k == Put("idempotency", e.key, e.id)
      <3>1. i = Over(h, k)
        BY <2>2 DEF Idempotency
      <3>18. IsStore(h)
        BY PutStore
      <3>19. IsStore(k)
        BY PutStore
      <3>20. k[<<"idempotency", e.key>>] = e.id
        BY PutStore
      <3>21. /\ \A c : Keys(h, c) = IF c = "idempotency" THEN {HashKey(e.key)} ELSE {}
             /\ \A c : Keys(k, c) = IF c = "idempotency" THEN {e.key} ELSE {}
        BY PutKeys
      <3> HIDE DEF h, k
      <3>2. /\ IsStore(h) /\ IsStore(k) /\ k[<<"idempotency", e.key>>] = e.id
            /\ \A c : Keys(h, c) = IF c = "idempotency" THEN {HashKey(e.key)} ELSE {}
            /\ \A c : Keys(k, c) = IF c = "idempotency" THEN {e.key} ELSE {}
        BY <3>18, <3>19, <3>20, <3>21
      <3> HIDE DEF i
      <3>3. IsStore(i) /\ \A c : Keys(i, c) = Keys(h, c) \cup Keys(k, c)
        BY <3>1, <3>2, OverStore, OverKeys
      <3>4. ASSUME e.key # HashKey(e.key) PROVE i[<<"idempotency", e.key>>] = e.id
        <4>1. ~Has(h, "idempotency", e.key) /\ Has(k, "idempotency", e.key)
          BY <3>2, <3>4, KeysHas
        <4>2. QED
          BY <3>1, <3>2, <4>1, OverHas
      <3>5. QED
        BY <2>2, <3>2, <3>3, <3>4
    <2>3. QED
      BY <2>1, <2>2
  <1>1. IsStore(i) /\ \A c : c # "idempotency" => Keys(i, c) = {}
    BY <1>0
  <1>2. /\ e.key = NoKey => Keys(i, "idempotency") = {}
        /\ e.key # NoKey => /\ Keys(i, "idempotency") = {e.key, HashKey(e.key)}
                            /\ e.key # HashKey(e.key) => i[<<"idempotency", e.key>>] = e.id
    BY <1>0
  <1>3. IsStore(y) /\ IsStore(r) /\ IsStore(v)
    BY PutStore, PutKeys
  <1>4. /\ \A c : Keys(y, c) = IF c = "ev_by_type" THEN {<<e.type, n>>} ELSE {}
        /\ \A c : Keys(r, c) = IF c = "ev_by_run" THEN {<<e.run, n>>} ELSE {}
        /\ \A c : Keys(v, c) = IF c = "events" THEN {n} ELSE {}
    BY PutKeys
  <1>40. v[<<"events", n>>] = e
    BY PutStore
  <1> HIDE DEF i, y, r, v
  <1>5. p = Over(v, Over(r, Over(y, i)))
    BY DEF EventPuts, i, y, r, v
  <1> HIDE DEF p
  <1>6. IsStore(p)
    BY <1>1, <1>3, <1>5, OverStore
  <1>7. \A c : Keys(p, c) = Keys(v, c) \cup (Keys(r, c) \cup (Keys(y, c) \cup Keys(i, c)))
    BY <1>5, OverKeys
  <1>8. /\ Numbers(p) = {n} /\ Keys(p, "ev_by_run") = {<<e.run, n>>}
        /\ Keys(p, "ev_by_type") = {<<e.type, n>>} /\ Keys(p, "idempotency") = Keys(i, "idempotency")
        /\ Keys(p, "orgs") = {} /\ Keys(p, "runs") = {} /\ Keys(p, "runs_by_org") = {}
        /\ Keys(p, "meta") = {}
    BY <1>1, <1>4, <1>7 DEF Numbers
  <1>9. EventAt(p, n) = e
    BY <1>3, <1>4, <1>40, <1>5, OverHas, KeysHas DEF EventAt
  <1>10. ASSUME e.key # NoKey, e.key # HashKey(e.key) PROVE p[<<"idempotency", e.key>>] = e.id
    <2>1. Has(i, "idempotency", e.key)
      BY <1>1, <1>2, <1>10, KeysHas
    <2>2. ~Has(y, "idempotency", e.key) /\ ~Has(r, "idempotency", e.key) /\ ~Has(v, "idempotency", e.key)
      BY <1>3, <1>4, KeysHas
    <2>3. QED
      BY <1>2, <1>5, <1>10, <2>1, <2>2, OverHas
  <1>11. RunsAgree(p)
    BY <1>8 DEF RunsAgree
  <1>12. EventsAgree(p)
    BY <1>2, <1>8, <1>9, <1>10 DEF EventsAgree
  <1>13. ~Has(p, "meta", "global_seq")
    BY <1>6, <1>8, KeysHas
  <1>14. QED
    BY <1>6, <1>8, <1>9, <1>11, <1>12, <1>13 DEF p

\* A store without events, runs, organisation and counter.
Plain(p) ==
    /\ IsStore(p) /\ Numbers(p) = {} /\ EventsAgree(p) /\ Keys(p, "orgs") = {}
    /\ ~Has(p, "meta", "global_seq")

\* The puts of _write_run.
LEMMA RunPutsOK ==
    ASSUME NEW r \in RunIds, NEW ms \in Moments(r), NEW o
    PROVE  LET p == Over(Put("runs", r, o), Put("runs_by_org", <<ms, r>>, r))
           IN  Plain(p) /\ RunsAgree(p) /\ Has(p, "runs", r)
  <1> DEFINE a == Put("runs", r, o)
             x == Put("runs_by_org", <<ms, r>>, r)
             p == Over(a, x)
  <1>1. /\ IsStore(a) /\ IsStore(x)
        /\ \A c : Keys(a, c) = IF c = "runs" THEN {r} ELSE {}
        /\ \A c : Keys(x, c) = IF c = "runs_by_org" THEN {<<ms, r>>} ELSE {}
    BY PutStore, PutKeys
  <1>10. x[<<"runs_by_org", <<ms, r>>>>] = r
    BY PutStore
  <1> HIDE DEF a, x
  <1>2. IsStore(p) /\ \A c : Keys(p, c) = Keys(a, c) \cup Keys(x, c)
    BY <1>1, OverStore, OverKeys
  <1>3. p[<<"runs_by_org", <<ms, r>>>>] = r
    BY <1>1, <1>10, OverHas, KeysHas
  <1> HIDE DEF p
  <1>4. /\ Keys(p, "runs") = {r} /\ Keys(p, "runs_by_org") = {<<ms, r>>}
        /\ \A c : c \notin {"runs", "runs_by_org"} => Keys(p, c) = {}
    BY <1>1, <1>2
  <1>5. RunsAgree(p)
    BY <1>3, <1>4 DEF RunsAgree
  <1>6. EventsAgree(p) /\ Numbers(p) = {}
    BY <1>4 DEF EventsAgree, Numbers
  <1>7. Has(p, "runs", r) /\ ~Has(p, "meta", "global_seq")
    BY <1>2, <1>4, KeysHas
  <1>8. QED
    BY <1>2, <1>4, <1>5, <1>6, <1>7 DEF p, a, x, Plain

\* The put of an approval, and that of the counter.
LEMMA OnePutOK ==
    ASSUME NEW cf \in {"approvals", "meta"}, NEW k, NEW v
    PROVE  LET p == Put(cf, k, v)
           IN  /\ IsStore(p) /\ Numbers(p) = {} /\ EventsAgree(p) /\ Keys(p, "orgs") = {}
               /\ RunsAgree(p) /\ Has(p, cf, k) /\ p[<<cf, k>>] = v
               /\ cf = "approvals" => ~Has(p, "meta", "global_seq")
  <1> DEFINE p == Put(cf, k, v)
  <1>1. /\ IsStore(p) /\ p[<<cf, k>>] = v /\ \A c : Keys(p, c) = IF c = cf THEN {k} ELSE {}
    BY PutStore, PutKeys
  <1> HIDE DEF p
  <1>2. Has(p, cf, k) /\ (cf = "approvals" => ~Has(p, "meta", "global_seq"))
    BY <1>1, KeysHas
  <1>3. \A c : c # cf => Keys(p, c) = {}
    BY <1>1
  <1>4. /\ Numbers(p) = {} /\ EventsAgree(p) /\ RunsAgree(p) /\ Keys(p, "orgs") = {}
    BY <1>3 DEF Numbers, EventsAgree, RunsAgree
  <1>5. QED
    BY <1>1, <1>2, <1>4 DEF p

\* The put of the counter leaves the numbers of a batch alone.
LEMMA CounterPut ==
    ASSUME NEW b, NEW v
    PROVE  Numbers(Over(Put("meta", "global_seq", v), b)) = Numbers(b)
  <1>1. Keys(Put("meta", "global_seq", v), "events") = {}
    BY PutKeys
  <1>2. QED
    BY <1>1, OverKeys DEF Numbers

\* What is stored stays stored: in the batch that is written, and in the
\* database when the write takes none of its numbers.
LEMMA OverStored ==
    ASSUME NEW b, NEW d, IsStore(b), IsStore(d), NEW o \in Objects \cup Events
    PROVE  /\ Stored(b, o) => Stored(Over(b, d), o)
           /\ Numbers(b) \cap Numbers(d) = {} /\ Stored(d, o) => Stored(Over(b, d), o)
  <1>1. CASE o.kind = "event"
    <2>1. ASSUME Stored(b, o) PROVE Stored(Over(b, d), o)
      <3>1. PICK n \in Numbers(b) : b[<<"events", n>>] = o
        BY <1>1, <2>1 DEF Stored
      <3>2. n \in Numbers(Over(b, d)) /\ Over(b, d)[<<"events", n>>] = o
        BY <3>1, OverKeys, OverHas, KeysHas DEF Numbers
      <3>3. QED
        BY <1>1, <3>2 DEF Stored
    <2>2. ASSUME Numbers(b) \cap Numbers(d) = {}, Stored(d, o) PROVE Stored(Over(b, d), o)
      <3>1. PICK n \in Numbers(d) : d[<<"events", n>>] = o
        BY <1>1, <2>2 DEF Stored
      <3>2. n \in Numbers(Over(b, d)) /\ Over(b, d)[<<"events", n>>] = o
        BY <2>2, <3>1, OverEvents DEF EventAt
      <3>3. QED
        BY <1>1, <3>2 DEF Stored
    <2>3. QED
      BY <2>1, <2>2
  <1>2. CASE o.kind = "run"
    BY <1>2, OverHas DEF Stored
  <1>3. CASE o.kind = "approval"
    BY <1>3, OverHas DEF Stored
  <1>4. CASE o.kind \notin {"event", "run", "approval"}
    BY <1>4 DEF Stored
  <1>5. QED
    BY <1>1, <1>2, <1>3, <1>4

-----------------------------------------------------------------------------
(* The queue of a session.                                                 *)

\* Behind the head of the queue are the other objects.
LEMMA TailQueue ==
    ASSUME NEW S, NEW s \in Seq(S), s # <<>>, Distinct(s)
    PROVE  /\ Tail(s) \in Seq(S) /\ Distinct(Tail(s)) /\ Head(s) \in S
           /\ InQueue(Tail(s), 1) = InQueue(s, 2)
           /\ InQueue(s, 1) = InQueue(s, 2) \cup {Head(s)}
           /\ Head(s) \notin InQueue(s, 2)
  <1>1. /\ Len(s) \in Nat \ {0} /\ Tail(s) \in Seq(S) /\ Len(Tail(s)) = Len(s) - 1
        /\ \A i \in 1..Len(s) - 1 : Tail(s)[i] = s[i + 1]
        /\ Head(s) = s[1] /\ \A i \in 1..Len(s) : s[i] \in S
    OBVIOUS
  <1>2. Distinct(Tail(s))
    BY <1>1 DEF Distinct
  <1>3. InQueue(Tail(s), 1) = InQueue(s, 2)
    <2>1. \A i \in 2..Len(s) : i - 1 \in 1..Len(Tail(s)) /\ Tail(s)[i - 1] = s[i]
      BY <1>1
    <2>2. \A i \in 1..Len(Tail(s)) : i + 1 \in 2..Len(s) /\ Tail(s)[i] = s[i + 1]
      BY <1>1
    <2>3. QED
      BY <2>1, <2>2 DEF InQueue
  <1>4. InQueue(s, 1) = InQueue(s, 2) \cup {Head(s)}
    <2>1. 1..Len(s) = (2..Len(s)) \cup {1}
      BY <1>1
    <2>2. QED
      BY <1>1, <2>1 DEF InQueue
  <1>5. Head(s) \notin InQueue(s, 2)
    BY <1>1 DEF InQueue, Distinct
  <1>6. QED
    BY <1>1, <1>2, <1>3, <1>4, <1>5

\* An object that is not in the queue joins it at the end.
LEMMA AppendQueue ==
    ASSUME NEW S, NEW s \in Seq(S), Distinct(s), NEW o \in S, o \notin InQueue(s, 1)
    PROVE  /\ Append(s, o) \in Seq(S) /\ Distinct(Append(s, o))
           /\ InQueue(Append(s, o), 1) = InQueue(s, 1) \cup {o}
  <1>1. /\ Len(s) \in Nat /\ Append(s, o) \in Seq(S) /\ Len(Append(s, o)) = Len(s) + 1
        /\ \A i \in 1..Len(s) : Append(s, o)[i] = s[i]
        /\ Append(s, o)[Len(s) + 1] = o
    OBVIOUS
  <1>2. \A i \in 1..Len(s) : s[i] # o
    BY DEF InQueue
  <1>3. Distinct(Append(s, o))
    BY <1>1, <1>2 DEF Distinct
  <1>4. 1..Len(Append(s, o)) = (1..Len(s)) \cup {Len(s) + 1}
    BY <1>1
  <1>5. InQueue(Append(s, o), 1) = InQueue(s, 1) \cup {o}
    BY <1>1, <1>4 DEF InQueue
  <1>6. QED
    BY <1>1, <1>3, <1>5

-----------------------------------------------------------------------------
(* The steps of a session.                                                 *)

\* What one round of the flush loop does: the puts of the object at the head of
\* the queue join the batch; an event has its number or takes the next one.
RoundStep(t, p) ==
    /\ pc[t] = "flush" /\ pending[t] # <<>>
    /\ IsStore(p) /\ EventsAgree(p) /\ RunsAgree(p) /\ Keys(p, "orgs") = {}
    /\ ~Has(p, "meta", "global_seq")
    /\ batch' = [batch EXCEPT ![t] = Over(p, batch[t])]
    /\ Known(Head(pending[t])) => Stored(p, Head(pending[t]))
    /\ \/ /\ Numbers(p) = {} /\ seq' = seq /\ sequence' = sequence /\ pc' = pc
          /\ Head(pending[t]) \notin Events
          /\ pending' = [pending EXCEPT ![t] = Tail(pending[t])]
       \/ /\ Head(pending[t]) \in Events /\ pending' = pending
          /\ \/ sequence[Head(pending[t])] = 0 /\ seq < MaxSeq /\ seq' = seq + 1
                /\ sequence' = [sequence EXCEPT ![Head(pending[t])] = seq + 1]
             \/ sequence[Head(pending[t])] # 0 /\ seq' = seq /\ sequence' = sequence
          /\ Numbers(p) = {sequence'[Head(pending[t])]}
          /\ EventAt(p, sequence'[Head(pending[t])]) = Head(pending[t])
          /\ pc' = [pc EXCEPT ![t] = "persist"]
    /\ UNCHANGED <<db, up, then, acked, added, regressed, opens, sessions>>

\* Every case of _write_obj is such a round.
LEMMA WriteObjStep ==
    ASSUME NEW t \in Threads, pending[t] \in Seq(Objects), seq \in Nat, TypeOK, Shape,
           SessionInv(t), WriteObj(t)
    PROVE  \E p : RoundStep(t, p)
  <1> DEFINE o == Head(pending[t])
  <1>1. pending[t] # <<>> /\ o \in Objects /\ pc[t] = "flush"
    BY DEF WriteObj
  <1> HIDE DEF o
  <1>2. CASE o.kind = "run" /\ WriteRun(t, o)
    <2>0. PICK ms \in Moments(o.id) :
            Buffer(t, Over(Put("runs", o.id, o), Put("runs_by_org", <<ms, o.id>>, o.id)))
      BY <1>2 DEF WriteRun
    <2> DEFINE p == Over(Put("runs", o.id, o), Put("runs_by_org", <<ms, o.id>>, o.id))
    <2>1. o.id \in RunIds /\ o \notin Events
      BY <1>1, <1>2, KindOf
    <2>2. Plain(p) /\ RunsAgree(p) /\ Has(p, "runs", o.id)
      BY <2>1, RunPutsOK
    <2>3. batch' = [batch EXCEPT ![t] = Over(p, batch[t])]
      BY <2>0 DEF Buffer
    <2> HIDE DEF p
    <2>4. Stored(p, o)
      BY <1>2, <2>2 DEF Stored
    <2>5. RoundStep(t, p)
      BY <1>1, <1>2, <2>1, <2>2, <2>3, <2>4 DEF RoundStep, Plain, WriteRun, WriteObj, o
    <2>6. QED
      BY <2>5
  <1>3. CASE o.kind = "approval" /\ WriteApproval(t, o)
    <2> DEFINE p == Put("approvals", o.id, o)
    <2>1. o \notin Events
      BY <1>1, <1>3, KindOf
    <2>2. /\ IsStore(p) /\ Numbers(p) = {} /\ EventsAgree(p) /\ Keys(p, "orgs") = {}
          /\ RunsAgree(p) /\ Has(p, "approvals", o.id) /\ ~Has(p, "meta", "global_seq")
      BY OnePutOK
    <2>3. batch' = [batch EXCEPT ![t] = Over(p, batch[t])]
      BY <1>3 DEF WriteApproval, Buffer
    <2> HIDE DEF p
    <2>4. Stored(p, o)
      BY <1>3, <2>2 DEF Stored
    <2>5. RoundStep(t, p)
      BY <1>1, <1>3, <2>1, <2>2, <2>3, <2>4 DEF RoundStep, WriteApproval, WriteObj, o
    <2>6. QED
      BY <2>5
  <1>4. CASE o.kind = "event" /\ WriteEvent(t, o)
    <2> DEFINE n == sequence'[o]
               p == EventPuts(o, n)
    <2>1. o \in Events
      BY <1>1, <1>4, KindOf
    <2>10. /\ \/ sequence[o] = 0 /\ seq < MaxSeq /\ seq' = seq + 1
                 /\ sequence' = [sequence EXCEPT ![o] = seq + 1]
              \/ sequence[o] # 0 /\ seq' = seq /\ sequence' = sequence
           /\ batch' = [batch EXCEPT ![t] = Over(p, batch[t])]
           /\ pc' = [pc EXCEPT ![t] = "persist"] /\ pending' = pending
      BY <1>4 DEF WriteEvent, Buffer
    <2>11. sequence \in [Events -> Nat]
      BY DEF TypeOK
    <2>12. n \in Nat \ {0}
      BY <2>1, <2>10, <2>11
    <2>2. /\ IsStore(p) /\ Numbers(p) = {n} /\ EventAt(p, n) = o
          /\ EventsAgree(p) /\ RunsAgree(p) /\ Keys(p, "orgs") = {}
          /\ ~Has(p, "meta", "global_seq")
      BY <2>1, <2>12, EventPutsOK
    <2> HIDE DEF p
    <2>4. Stored(p, o)
      BY <1>4, <2>2 DEF Stored, EventAt
    <2>5. RoundStep(t, p)
      BY <1>1, <2>1, <2>10, <2>2, <2>4 DEF RoundStep, WriteObj, o
    <2>6. QED
      BY <2>5
  <1>6. CASE o.kind \notin {"run", "approval", "event"} /\ SkipOther(t)
    <2>1. o \notin Events /\ ~Known(o)
      BY <1>1, <1>6, RocksEvents DEF Known
    <2>2. IsStore(Empty) /\ EventsAgree(Empty) /\ RunsAgree(Empty) /\ Keys(Empty, "orgs") = {}
             /\ ~Has(Empty, "meta", "global_seq") /\ Numbers(Empty) = {}
      BY EmptyKeys DEF Numbers
    <2>3. batch' = [batch EXCEPT ![t] = Over(Empty, batch[t])]
      <3>1. Over(Empty, batch[t]) = batch[t]
        BY OverEmpty DEF SessionInv
      <3>2. batch' = batch
        BY <1>6 DEF SkipOther
      <3>3. QED
        BY <3>1, <3>2 DEF Shape
    <2>4. RoundStep(t, Empty)
      BY <1>1, <1>6, <2>1, <2>2, <2>3 DEF RoundStep, SkipOther, WriteObj, o
    <2>5. QED
      BY <2>4
  <1>7. QED
    BY <1>2, <1>3, <1>4, <1>6 DEF WriteObj, o

-----------------------------------------------------------------------------
(* Types.                                                                  *)

\* The fields of the session of one thread are assigned.
Assigned(t) ==
    /\ pc' = [pc EXCEPT ![t] = pc'[t]] /\ then' = [then EXCEPT ![t] = then'[t]]
    /\ pending' = [pending EXCEPT ![t] = pending'[t]]
    /\ batch' = [batch EXCEPT ![t] = batch'[t]]
    /\ added' = [added EXCEPT ![t] = added'[t]]

\* A step of a thread leaves the sessions of the others, the state of the
\* process and the count of starts alone, and takes at most one number.
LEMMA ThreadStepFrame ==
    ASSUME TypeOK, Shape, NEW t \in Threads, ThreadStep(t)
    PROVE  Assigned(t) /\ UNCHANGED <<up, opens>> /\ seq' \in {seq, seq + 1}
  <1> USE DEF TypeOK, Shape, Assigned
  <1>1. CASE session(t) \/ flush(t) \/ commit(t)
    BY <1>1 DEF session, flush, commit, Flush
  <1>2. ASSUME NEW o \in Objects, add(t, o) PROVE Assigned(t) /\ UNCHANGED <<up, opens, seq>>
    BY <1>2 DEF add
  <1>3. CASE WriteObj(t)
    BY <1>3 DEF WriteObj, WriteRun, WriteApproval, WriteEvent, SkipOther, Buffer
  <1>4. CASE PersistSeq(t) \/ FlushDone(t)
    BY <1>4 DEF PersistSeq, FlushDone, Buffer
  <1>5. CASE Write(t)
    BY <1>5 DEF Write
  <1>6. CASE Return(t) \/ rollback(t)
    BY <1>6 DEF Return, rollback, Ended
  <1>7. QED
    BY <1>1, <1>2, <1>3, <1>4, <1>5, <1>6 DEF ThreadStep

\* Every step of a thread keeps the types.
LEMMA ThreadStepType ==
    ASSUME RocksInv, NEW t \in Threads, ThreadStep(t)
    PROVE  TypeOK' /\ Shape'
  <1>0. TypeOK /\ Shape /\ pending[t] \in Seq(Objects) /\ MaxSeq \in Nat /\ MaxSessions \in Nat
    BY RocksBounds DEF RocksInv, SessionInv
  <1>00. sequence' \in [Events -> 0..MaxSeq]
    <2>1. /\ sequence \in [Events -> 0..MaxSeq] /\ seq \in 0..MaxSeq
      BY <1>0 DEF TypeOK
    <2>2. CASE WriteObj(t)
      <3>1. \/ sequence' = sequence
            \/ seq < MaxSeq /\ sequence' = [sequence EXCEPT ![Head(pending[t])] = seq + 1]
        BY <2>2 DEF WriteObj, WriteRun, WriteApproval, WriteEvent, SkipOther
      <3>2. QED
        BY <1>0, <2>1, <3>1
    <2>3. ASSUME NEW o \in Objects, add(t, o) PROVE sequence' \in [Events -> 0..MaxSeq]
      <3>1. sequence' = sequence \/ sequence' = [sequence EXCEPT ![o] = 0]
        BY <2>3 DEF add
      <3>2. QED
        BY <1>0, <2>1, <3>1
    <2>4. CASE UNCHANGED sequence
      BY <2>1, <2>4
    <2>5. QED
      BY <2>2, <2>3, <2>4 DEF ThreadStep, session, flush, commit, Flush, PersistSeq, FlushDone, Write,
         Return, rollback
  <1>1. Assigned(t) /\ UNCHANGED <<up, opens>> /\ seq' \in {seq, seq + 1}
    BY <1>0, ThreadStepFrame
  <1>2. Shape'
    BY <1>0, <1>00, <1>1 DEF Shape, Assigned
  <1>3. \A u \in Threads \ {t} : pc'[u] = pc[u] /\ pending'[u] = pending[u] /\ added'[u] = added[u]
    BY <1>0, <1>1 DEF Assigned, TypeOK, Shape
  <1>4. SUFFICES /\ pc'[t] \in {"idle", "body", "flush", "persist", "write", "written"}
                 /\ then'[t] \in {"body", "write"} /\ seq' \in 0..MaxSeq
                 /\ acked' \subseteq Events /\ sessions' \in 0..MaxSessions
                 /\ added'[t] \subseteq Objects
                 /\ pc'[t] \in {"idle", "write", "written"} => pending'[t] = <<>>
    BY <1>0, <1>00, <1>1, <1>2, <1>3 DEF TypeOK, Assigned
  <1> USE <1>0 DEF TypeOK, Shape
  <1>5. CASE session(t)
    BY <1>5 DEF session
  <1>6. CASE flush(t) \/ commit(t)
    BY <1>6 DEF flush, commit, Flush
  <1>7. ASSUME NEW o \in Objects, add(t, o)
        PROVE  /\ pc'[t] \in {"idle", "body", "flush", "persist", "write", "written"}
               /\ then'[t] \in {"body", "write"} /\ seq' \in 0..MaxSeq
               /\ acked' \subseteq Events /\ sessions' \in 0..MaxSessions
               /\ added'[t] \subseteq Objects
               /\ pc'[t] \in {"idle", "write", "written"} => pending'[t] = <<>>
    BY <1>7 DEF add
  <1>8. CASE WriteObj(t)
    BY <1>8 DEF WriteObj, WriteRun, WriteApproval, WriteEvent, SkipOther
  <1>9. CASE PersistSeq(t)
    BY <1>9 DEF PersistSeq
  <1>10. CASE FlushDone(t)
    BY <1>10 DEF FlushDone
  <1>11. CASE Write(t)
    BY <1>11 DEF Write
  <1>12. CASE Return(t) \/ rollback(t)
    BY <1>12 DEF Return, rollback, Ended
  <1>13. QED
    BY <1>5, <1>6, <1>7, <1>8, <1>9, <1>10, <1>11, <1>12 DEF ThreadStep

\* Every step keeps the types.
LEMMA NextType == RocksInv /\ [Next]_vars => TypeOK' /\ Shape'
  <1> SUFFICES ASSUME RocksInv, [Next]_vars PROVE TypeOK' /\ Shape'
    OBVIOUS
  <1>0. TypeOK /\ Shape /\ GlobalSeq(db) \in 0..MaxSeq /\ {MaxSeq, MaxOpens} \subseteq Nat
    BY RocksBounds DEF RocksInv, DbInv
  <1>1. CASE Open
    BY <1>0, <1>1 DEF Open, TypeOK, Shape
  <1>2. CASE Bootstrap
    BY <1>0, <1>2 DEF Bootstrap, TypeOK, Shape
  <1>3. CASE Crash
    BY <1>0, <1>3 DEF Crash, TypeOK, Shape
  <1>4. CASE UNCHANGED vars
    BY <1>0, <1>4 DEF vars, TypeOK, Shape
  <1>5. QED
    BY <1>1, <1>2, <1>3, <1>4, ThreadStepType DEF Next

-----------------------------------------------------------------------------
(* The numbers of the event objects.                                       *)

\* What a step of a thread does to numbers: only add takes one from an object
\* that no session has, only a round of the flush loop gives one.
LEMMA SequenceSteps ==
    ASSUME RocksInv, NEW w \in Threads, ThreadStep(w)
    PROVE  \/ UNCHANGED <<seq, sequence>>
           \/ \E o \in Events : /\ add(w, o) /\ \A t \in Threads : o \notin added[t]
                               /\ UNCHANGED seq /\ sequence' = [sequence EXCEPT ![o] = 0]
           \/ \E o \in Events : /\ WriteObj(w) /\ o = Head(pending[w]) /\ o \in Waiting(w)
                               /\ sequence[o] = 0 /\ seq' = seq + 1
                               /\ sequence' = [sequence EXCEPT ![o] = seq + 1]
  <1>00. TypeOK /\ Shape /\ SessionInv(w)
    BY DEF RocksInv
  <1>0. TypeOK /\ Shape /\ SessionInv(w) /\ pending[w] \in Seq(Objects) /\ seq \in Nat
    BY <1>00 DEF SessionInv, TypeOK
  <1>1. CASE WriteObj(w)
    <2>1. PICK p : RoundStep(w, p)
      BY <1>0, <1>1, WriteObjStep
    <2>2. /\ Distinct(pending[w]) /\ pending[w] # <<>> /\ pc[w] = "flush"
      BY <1>0, <2>1 DEF SessionInv, RoundStep
    <2>3. Head(pending[w]) \in Waiting(w)
      BY <1>0, <2>2, TailQueue DEF Waiting
    <2>4. QED
      BY <1>1, <2>1, <2>3 DEF RoundStep
  <1>2. ASSUME NEW o \in Objects, add(w, o), ~UNCHANGED <<seq, sequence>>
        PROVE  /\ o \in Events /\ (\A t \in Threads : o \notin added[t])
               /\ UNCHANGED seq /\ sequence' = [sequence EXCEPT ![o] = 0]
    BY <1>2 DEF add, InUse
  <1>3. QED
    BY <1>1, <1>2 DEF ThreadStep, session, flush, commit, Flush, PersistSeq, FlushDone, Write,
       Return, rollback

\* The other threads leave the numbers of a session's events alone.
LEMMA SequenceKept ==
    ASSUME RocksInv, NEW w \in Threads, ThreadStep(w), NEW t \in Threads, t # w
    PROVE  \A e \in added[t] \cap Events : sequence'[e] = sequence[e]
  <1>0. Apart /\ Waiting(w) \subseteq added[w] /\ sequence \in [Events -> 0..MaxSeq]
    BY DEF RocksInv, SessionInv, TypeOK
  <1>1. QED
    BY <1>0, SequenceSteps DEF Apart

\* Every step keeps what is said of numbers.
LEMMA NextNumbering == RocksInv /\ [Next]_vars => Numbering'
  <1> SUFFICES ASSUME RocksInv, [Next]_vars PROVE Numbering'
    OBVIOUS
  <1>0. /\ TypeOK /\ Shape /\ seq \in Nat /\ sequence \in [Events -> 0..MaxSeq] /\ Numbering
        /\ GlobalSeq(db) \in 0..MaxSeq /\ \A e \in Events : sequence[e] \in Nat /\ sequence[e] <= seq
    BY DEF RocksInv, TypeOK, DbInv, Numbering
  <1>1. CASE Open
    BY <1>0, <1>1 DEF Open, Numbering
  <1>2. CASE Bootstrap \/ UNCHANGED vars
    BY <1>0, <1>2 DEF Bootstrap, vars, Numbering
  <1>3. CASE Crash
    BY <1>0, <1>3 DEF Crash, Numbering
  <1>4. ASSUME NEW w \in Threads, ThreadStep(w) PROVE Numbering'
    <2>1. up' = up /\ up = "ready"
      <3>1. up' = up
        BY <1>0, <1>4, ThreadStepFrame
      <3>2. up = "ready" \/ pc[w] # "idle"
        BY <1>4 DEF ThreadStep, session, flush, commit, Flush, add, WriteObj,
            PersistSeq, FlushDone, Return, rollback, Write
      <3>3. SessionInv(w)
        BY DEF RocksInv
      <3>4. QED
        BY <3>1, <3>2, <3>3 DEF SessionInv
    <2>2. CASE UNCHANGED <<seq, sequence>>
      BY <1>0, <2>1, <2>2 DEF Numbering
    <2>3. ASSUME NEW o \in Events, UNCHANGED seq, sequence' = [sequence EXCEPT ![o] = 0]
          PROVE  Numbering'
      <3>1. \A e \in Events : sequence'[e] = IF e = o THEN 0 ELSE sequence[e]
        BY <1>0, <2>3
      <3>2. QED
        BY <1>0, <2>1, <2>3, <3>1 DEF Numbering
    <2>4. ASSUME NEW o \in Events, seq' = seq + 1, sequence' = [sequence EXCEPT ![o] = seq + 1]
          PROVE  Numbering'
      <3>1. \A e \in Events : sequence'[e] = IF e = o THEN seq + 1 ELSE sequence[e]
        BY <1>0, <2>4
      <3>2. \A e \in Events : sequence'[e] <= seq'
        BY <1>0, <2>4, <3>1
      <3>3. ASSUME NEW e \in Events, NEW f \in Events, sequence'[e] = sequence'[f], sequence'[e] # 0
            PROVE  e = f
        <4>1. \A g \in Events : sequence[g] # seq + 1
          BY <1>0
        <4>2. QED
          BY <1>0, <3>1, <3>3, <4>1 DEF Numbering
      <3>4. QED
        BY <2>1, <3>2, <3>3 DEF Numbering
    <2>5. QED
      BY <1>4, <2>2, <2>3, <2>4, SequenceSteps
  <1>5. QED
    BY <1>1, <1>2, <1>3, <1>4 DEF Next

\* A number is of one event: that of no other session, and of none written to
\* the database while the counter has not gone back.
LEMMA NumbersApart ==
    ASSUME RocksInv, NEW t \in Threads
    PROVE  /\ \A m, n \in Numbers(batch[t]) : EventAt(batch[t], m) = EventAt(batch[t], n) => m = n
           /\ CounterInv /\ pc[t] # "written" => Numbers(batch[t]) \cap Numbers(db) = {}
  <1>0. SessionInv(t) /\ Apart /\ Numbering
    BY DEF RocksInv
  <1>1. /\ \A n \in Numbers(batch[t]) :
              /\ EventAt(batch[t], n) \in added[t] \cap Events /\ n # 0
              /\ sequence[EventAt(batch[t], n)] = n
    BY <1>0 DEF SessionInv, EventsAgree
  <1>2. ASSUME CounterInv, pc[t] # "written", NEW n \in Numbers(batch[t]), n \in Numbers(db)
        PROVE  FALSE
    <2> DEFINE e == EventAt(batch[t], n)
    <2>1. e \in added[t] \cap Events /\ sequence[e] \in Numbers(db)
      BY <1>1, <1>2
    <2> HIDE DEF e
    <2>2. e \in acked \/ \E u \in Threads : pc[u] = "written" /\ e \in added[u]
      BY <1>2, <2>1 DEF CounterInv
    <2>3. QED
      BY <1>0, <1>2, <2>1, <2>2 DEF Apart
  <1>3. QED
    BY <1>1, <1>2

-----------------------------------------------------------------------------
(* Sessions.                                                               *)

\* A session stays as it is when others take numbers.
LEMMA SessionKept ==
    ASSUME NEW t \in Threads, SessionInv(t), seq \in Nat, seq' \in Nat, seq <= seq',
           UNCHANGED <<pc[t], pending[t], batch[t], added[t]>>,
           \A e \in added[t] \cap Events : sequence'[e] = sequence[e],
           up' = up \/ up' = "ready"
    PROVE  SessionInv(t)'
  <1>1. Waiting(t)' = Waiting(t)
    BY DEF Waiting
  <1>2. /\ GlobalSeq(batch[t]) \in 0..seq' /\ \A n \in Numbers(batch[t]) : n <= seq'
    <2>1. GlobalSeq(batch[t]) \in 0..seq /\ \A n \in Numbers(batch[t]) : n \in Nat /\ n <= seq
      BY DEF SessionInv, EventsAgree
    <2>2. QED
      BY <2>1
  <1>3. \A n \in Numbers(batch[t]) : sequence'[EventAt(batch[t], n)] = n
    <2>1. \A n \in Numbers(batch[t]) : EventAt(batch[t], n) \in added[t] \cap Events
      BY DEF SessionInv, EventsAgree
    <2>2. QED
      BY <2>1 DEF SessionInv
  <1>4. QED
    BY <1>1, <1>2, <1>3 DEF SessionInv

\* A session that only moves on in its program.
LEMMA SessionMoves ==
    ASSUME NEW t \in Threads, SessionInv(t), UNCHANGED <<pending[t], batch[t], added[t], seq, sequence>>,
           up' = "ready", pc[t] # "persist", pc'[t] \notin {"persist", "idle"}
    PROVE  SessionInv(t)'
  <1>1. Waiting(t)' = Waiting(t)
    BY DEF Waiting
  <1>2. QED
    BY <1>1 DEF SessionInv

\* A session that has ended.
LEMMA SessionEnds ==
    ASSUME NEW t \in Threads, seq' \in Nat, pc'[t] = "idle", pending'[t] = <<>>, batch'[t] = Empty,
           added'[t] = {}
    PROVE  SessionInv(t)'
  <1>1. Waiting(t)' = {} /\ Distinct(<<>>) /\ <<>> \in Seq(Objects)
    BY DEF Waiting, InQueue, Distinct
  <1>2. Numbers(Empty) = {}
    BY EmptyKeys DEF Numbers
  <1>3. QED
    BY <1>1, <1>2, EmptyKeys DEF SessionInv

\* session.add puts a new object at the end of the queue.
LEMMA AddSession ==
    ASSUME RocksInv, NEW t \in Threads, NEW o \in Objects, add(t, o)
    PROVE  SessionInv(t)'
  <1>0. SessionInv(t) /\ Shape /\ TypeOK
    BY DEF RocksInv
  <1>1. /\ pc[t] = "body" /\ o \notin added[t] /\ pending'[t] = Append(pending[t], o)
        /\ added'[t] = added[t] \cup {o}
        /\ UNCHANGED <<pc, batch, seq, up>>
    BY <1>0 DEF add, Shape
  <1>2. /\ pending[t] \in Seq(Objects) /\ Distinct(pending[t]) /\ Waiting(t) = InQueue(pending[t], 1)
        /\ Waiting(t) \subseteq added[t]
    BY <1>0, <1>1 DEF SessionInv, Waiting
  <1>3. /\ pending'[t] \in Seq(Objects) /\ Distinct(pending'[t])
        /\ InQueue(pending'[t], 1) = Waiting(t) \cup {o}
    BY <1>1, <1>2, AppendQueue
  <1>4. Waiting(t)' = Waiting(t) \cup {o}
    BY <1>1, <1>3 DEF Waiting
  <1>5. \A n \in Numbers(batch[t]) : sequence'[EventAt(batch[t], n)] = n
    <2>1. sequence' = sequence \/ (sequence' = [sequence EXCEPT ![o] = 0] /\ o \in Events)
      BY DEF add
    <2>2. \A n \in Numbers(batch[t]) : EventAt(batch[t], n) \in added[t] \cap Events
      BY <1>0 DEF SessionInv, EventsAgree
    <2>3. sequence \in [Events -> 0..MaxSeq]
      BY <1>0 DEF TypeOK
    <2>4. QED
      BY <1>0, <1>1, <2>1, <2>2, <2>3 DEF SessionInv
  <1>6. QED
    BY <1>0, <1>1, <1>3, <1>4, <1>5 DEF SessionInv

\* A round of the flush loop.
LEMMA RoundSession ==
    ASSUME RocksInv, NEW t \in Threads, NEW p, RoundStep(t, p)
    PROVE  SessionInv(t)'
  <1> DEFINE b == batch[t]
             new == Over(p, b)
             o == Head(pending[t])
  <1>0. SessionInv(t) /\ Shape /\ TypeOK /\ seq \in Nat
    BY DEF RocksInv, TypeOK
  <1>1. /\ batch'[t] = new /\ IsStore(p) /\ IsStore(b) /\ EventsAgree(p) /\ RunsAgree(p)
        /\ EventsAgree(b) /\ RunsAgree(b) /\ Keys(p, "orgs") = {} /\ Keys(b, "orgs") = {}
        /\ pc[t] = "flush" /\ up = "ready" /\ up' = up /\ added' = added
    BY <1>0 DEF RoundStep, SessionInv, Shape
  <1>2. \A n \in Numbers(b) : n \in Nat /\ n <= seq /\ n <= GlobalSeq(b)
    BY <1>0, <1>1 DEF SessionInv, EventsAgree
  <1>20. \A n \in Numbers(b) : /\ EventAt(b, n) \in added[t] \cap Events /\ EventAt(b, n) \notin Waiting(t)
                             /\ sequence[EventAt(b, n)] = n
    BY <1>0 DEF SessionInv, EventsAgree
  <1>21. pending[t] \in Seq(Objects) /\ pending[t] # <<>> /\ Distinct(pending[t])
    BY <1>0 DEF SessionInv, RoundStep
  <1>22. o \in Waiting(t)
    BY <1>1, <1>21, TailQueue DEF Waiting
  <1>23. /\ sequence \in [Events -> 0..MaxSeq] /\ Numbering
         /\ \A e \in Events : sequence[e] \in Nat /\ sequence[e] <= seq
    BY <1>0 DEF TypeOK, RocksInv, Numbering
  <1>3. Numbers(p) \cap Numbers(b) = {}
    <2>1. CASE Numbers(p) = {}
      BY <2>1
    <2>2. CASE /\ o \in Events /\ sequence[o] # 0 /\ sequence' = sequence
               /\ Numbers(p) = {sequence'[o]}
      <3>1. sequence[o] \notin Numbers(b)
        <4>1. SUFFICES ASSUME sequence[o] \in Numbers(b) PROVE FALSE
          OBVIOUS
        <4>2. EventAt(b, sequence[o]) \in Events /\ sequence[EventAt(b, sequence[o])] = sequence[o]
          BY <1>20, <4>1
        <4>3. EventAt(b, sequence[o]) = o
          BY <1>23, <2>2, <4>2 DEF Numbering
        <4>4. QED
          BY <1>20, <1>22, <4>1, <4>3
      <3>2. QED
        BY <2>2, <3>1
    <2>3. CASE /\ o \in Events /\ sequence' = [sequence EXCEPT ![o] = seq + 1]
               /\ Numbers(p) = {sequence'[o]}
      <3>1. sequence'[o] = seq + 1
        BY <1>23, <2>3
      <3>2. seq + 1 \notin Numbers(b)
        BY <1>0, <1>2
      <3>3. QED
        BY <2>3, <3>1, <3>2
    <2>4. QED
      BY <2>1, <2>2, <2>3 DEF RoundStep
  <1>4. IsStore(new) /\ EventsAgree(new) /\ RunsAgree(new) /\ Keys(new, "orgs") = {}
    BY <1>1, <1>3, OverStore, OverEventsAgree, OverRunsAgree, OverKeys
  <1>5. GlobalSeq(new) = GlobalSeq(b)
    BY OverSeq DEF RoundStep
  <1>6. /\ Numbers(new) = Numbers(p) \cup Numbers(b)
        /\ \A n \in Numbers(p) : EventAt(new, n) = EventAt(p, n)
        /\ \A n \in Numbers(b) : EventAt(new, n) = EventAt(b, n)
    BY <1>1, <1>3, OverEvents
  <1>7. /\ pending[t] \in Seq(Objects) /\ pending[t] # <<>> /\ Distinct(pending[t])
        /\ Waiting(t) = InQueue(pending[t], 1) /\ Waiting(t) \subseteq added[t]
    BY <1>0, <1>1 DEF SessionInv, Waiting, RoundStep
  <1>8. /\ o \in Objects /\ o \in Waiting(t) /\ InQueue(pending[t], 2) = Waiting(t) \ {o}
        /\ Tail(pending[t]) \in Seq(Objects) /\ Distinct(Tail(pending[t]))
        /\ InQueue(Tail(pending[t]), 1) = InQueue(pending[t], 2)
    BY <1>7, TailQueue
  <1>9. \A x \in added[t] : x \in Waiting(t) \ {o} \/ ~Known(x) \/ Stored(new, x)
    <2> SUFFICES ASSUME NEW x \in added[t], x \notin Waiting(t) \ {o}, Known(x) PROVE Stored(new, x)
      OBVIOUS
    <2>1. CASE x = o
      BY <1>1, <1>8, <2>1, OverStored DEF RoundStep
    <2>2. CASE x # o
      <3>1. Stored(b, x) /\ x \in Objects
        BY <1>0, <2>2 DEF SessionInv, TypeOK
      <3>2. QED
        BY <1>1, <1>3, <3>1, OverStored
    <2>3. QED
      BY <2>1, <2>2
  <1>10. \A n \in Numbers(b) : EventAt(b, n) \in added[t] \ Waiting(t)
    BY <1>0 DEF SessionInv
  <1>12. GlobalSeq(b) \in 0..seq
    BY <1>0 DEF SessionInv
  <1> HIDE DEF new, b, o
  <1>13. CASE /\ Numbers(p) = {} /\ seq' = seq /\ sequence' = sequence /\ pc' = pc /\ o \notin Events
              /\ pending' = [pending EXCEPT ![t] = Tail(pending[t])]
    <2>1. pending'[t] = Tail(pending[t]) /\ pc'[t] = "flush"
      BY <1>0, <1>1, <1>13 DEF Shape
    <2>2. Waiting(t)' = Waiting(t) \ {o}
      BY <1>8, <2>1 DEF Waiting
    <2>3. \A n \in Numbers(new) : /\ EventAt(new, n) \in added[t] \ (Waiting(t) \ {o})
                                 /\ sequence'[EventAt(new, n)] = n
      BY <1>6, <1>20, <1>13
    <2>4. \A n \in Numbers(new) : n <= seq' /\ n <= GlobalSeq(new)
      BY <1>2, <1>5, <1>6, <1>13
    <2>5. Waiting(t) \ {o} \subseteq added[t] /\ GlobalSeq(new) \in 0..seq'
      BY <1>5, <1>7, <1>12, <1>13
    <2>6. QED
      BY <1>1, <1>4, <1>8, <1>9, <2>1, <2>2, <2>3, <2>4, <2>5 DEF SessionInv
  <1>14. CASE /\ o \in Events /\ pending' = pending
              /\ \/ sequence[o] = 0 /\ seq < MaxSeq /\ seq' = seq + 1
                    /\ sequence' = [sequence EXCEPT ![o] = seq + 1]
                 \/ sequence[o] # 0 /\ seq' = seq /\ sequence' = sequence
              /\ Numbers(p) = {sequence'[o]} /\ EventAt(p, sequence'[o]) = o
              /\ pc' = [pc EXCEPT ![t] = "persist"]
    <2>1. pending'[t] = pending[t] /\ pc'[t] = "persist"
      BY <1>0, <1>14 DEF TypeOK
    <2>2. Waiting(t)' = Waiting(t) \ {o}
      BY <1>8, <2>1 DEF Waiting
    <2>3. \A n \in Numbers(new) : EventAt(new, n) \in added[t] \ (Waiting(t) \ {o})
      BY <1>6, <1>7, <1>8, <1>10, <1>14
    <2>4. \A e \in Events \ {o} : sequence'[e] = sequence[e]
      BY <1>14, <1>23
    <2>5. \A n \in Numbers(b) : sequence'[EventAt(b, n)] = n
      BY <1>20, <1>22, <2>4
    <2>6. \A n \in Numbers(new) : sequence'[EventAt(new, n)] = n
      BY <1>6, <1>14, <2>5
    <2>7. sequence'[o] \in Nat /\ sequence'[o] <= seq' /\ seq <= seq' /\ seq' \in Nat
      BY <1>0, <1>14, <1>23
    <2>8. GlobalSeq(new) \in 0..seq' /\ \A n \in Numbers(new) : n <= seq'
      BY <1>0, <1>2, <1>5, <1>6, <1>12, <1>14, <2>7
    <2>9. QED
      BY <1>1, <1>4, <1>7, <1>9, <2>1, <2>2, <2>3, <2>6, <2>8 DEF SessionInv
  <1>15. QED
    BY <1>13, <1>14 DEF RoundStep, o

\* _persist_seq: the counter joins the batch, and covers the numbers in it.
LEMMA PersistSession ==
    ASSUME RocksInv, NEW t \in Threads, PersistSeq(t)
    PROVE  SessionInv(t)'
  <1> DEFINE b == batch[t]
             p == Put("meta", "global_seq", seq)
             new == Over(p, b)
  <1>0. SessionInv(t) /\ Shape /\ TypeOK /\ seq \in Nat
    BY DEF RocksInv, TypeOK
  <1>1. /\ batch'[t] = new /\ pc[t] = "persist" /\ pc'[t] = "flush"
        /\ pending'[t] = Tail(pending[t])
        /\ up = "ready" /\ UNCHANGED <<up, added, seq, sequence>>
    BY <1>0 DEF PersistSeq, Buffer, SessionInv, Shape, TypeOK
  <1>2. /\ IsStore(p) /\ Numbers(p) = {} /\ EventsAgree(p) /\ Keys(p, "orgs") = {}
        /\ RunsAgree(p) /\ Has(p, "meta", "global_seq") /\ p[<<"meta", "global_seq">>] = seq
    BY OnePutOK
  <1>3. IsStore(b) /\ EventsAgree(b) /\ RunsAgree(b) /\ Keys(b, "orgs") = {}
    BY <1>0 DEF SessionInv
  <1> HIDE DEF p
  <1>4. IsStore(new) /\ EventsAgree(new) /\ RunsAgree(new) /\ Keys(new, "orgs") = {}
    BY <1>2, <1>3, OverStore, OverEventsAgree, OverRunsAgree, OverKeys
  <1>5. GlobalSeq(new) = seq
    BY <1>2, OverSeq DEF GlobalSeq
  <1>6. /\ Numbers(new) = Numbers(b)
        /\ \A n \in Numbers(b) : EventAt(new, n) = EventAt(b, n)
    BY <1>2, <1>3, OverEvents
  <1>7. /\ pending[t] \in Seq(Objects) /\ pending[t] # <<>> /\ Distinct(pending[t])
        /\ Waiting(t) = InQueue(pending[t], 2)
    BY <1>0, <1>1 DEF SessionInv, Waiting
  <1>8. /\ Tail(pending[t]) \in Seq(Objects) /\ Distinct(Tail(pending[t]))
        /\ InQueue(Tail(pending[t]), 1) = InQueue(pending[t], 2)
    BY <1>7, TailQueue
  <1>9. Waiting(t)' = Waiting(t)
    BY <1>1, <1>7, <1>8 DEF Waiting
  <1>10. \A x \in added[t] : x \in Waiting(t) \/ ~Known(x) \/ Stored(new, x)
    BY <1>0, <1>2, <1>3, OverStored DEF SessionInv, TypeOK
  <1> HIDE DEF new, b
  <1>11. /\ \A n \in Numbers(b) : n <= seq /\ EventAt(b, n) \in added[t] \ Waiting(t)
         /\ \A n \in Numbers(b) : sequence[EventAt(b, n)] = n
         /\ Waiting(t) \subseteq added[t]
    BY <1>0 DEF SessionInv, b
  <1>12. QED
    BY <1>0, <1>1, <1>4, <1>5, <1>6, <1>8, <1>9, <1>10, <1>11 DEF SessionInv

\* Every step keeps what is said of sessions.
LEMMA NextSession == RocksInv /\ [Next]_vars => \A t \in Threads : SessionInv(t)'
  <1> SUFFICES ASSUME RocksInv, [Next]_vars, NEW t \in Threads PROVE SessionInv(t)'
    OBVIOUS
  <1>0. SessionInv(t) /\ Shape /\ TypeOK /\ seq \in Nat
    BY DEF RocksInv, TypeOK
  <1>00. seq' \in Nat
    BY NextType DEF TypeOK
  <1>1. CASE Open
    <2>1. pc[t] = "idle" /\ UNCHANGED <<pc, pending, batch, added>>
      BY <1>0, <1>1 DEF Open, SessionInv
    <2>2. pending[t] = <<>> /\ batch[t] = Empty /\ added[t] = {}
      BY <1>0, <2>1 DEF SessionInv, TypeOK
    <2>3. QED
      BY <1>00, <2>1, <2>2, SessionEnds
  <1>2. CASE Bootstrap
    BY <1>0, <1>2, SessionKept DEF Bootstrap
  <1>3. CASE Crash
    BY <1>00, <1>3, SessionEnds DEF Crash
  <1>4. CASE UNCHANGED vars
    BY <1>0, <1>4, SessionKept DEF vars
  <1>5. ASSUME NEW u \in Threads, ThreadStep(u) PROVE SessionInv(t)'
    <2>0. Assigned(u) /\ UNCHANGED <<up, opens>> /\ seq' \in {seq, seq + 1}
      BY <1>0, <1>5, ThreadStepFrame
    <2>1. CASE u # t
      <3>1. UNCHANGED <<pc[t], pending[t], batch[t], added[t]>>
        BY <1>0, <2>0, <2>1 DEF Assigned, Shape, TypeOK
      <3>2. \A e \in added[t] \cap Events : sequence'[e] = sequence[e]
        BY <1>5, <2>1, SequenceKept
      <3>3. QED
        BY <1>0, <1>00, <2>0, <3>1, <3>2, SessionKept
    <2>2. CASE u = t
      <3>1. CASE session(t)
        BY <1>0, <3>1, SessionMoves DEF session, TypeOK
      <3>2. CASE flush(t) \/ commit(t)
        BY <1>0, <3>2, SessionMoves DEF flush, commit, Flush, TypeOK, SessionInv
      <3>3. CASE FlushDone(t)
        <4>1. then[t] \in {"body", "write"} /\ up = "ready"
          BY <1>0, <3>3 DEF FlushDone, TypeOK, SessionInv
        <4>2. QED
          BY <1>0, <3>3, <4>1, SessionMoves DEF FlushDone, TypeOK
      <3>4. CASE Write(t)
        BY <1>0, <3>4, SessionMoves DEF Write, TypeOK, SessionInv
      <3>5. CASE Return(t) \/ rollback(t)
        BY <1>0, <1>00, <3>5, SessionEnds DEF Return, rollback, Ended, TypeOK, Shape
      <3>6. CASE WriteObj(t)
        BY <1>0, <3>6, WriteObjStep, RoundSession DEF SessionInv
      <3>7. CASE PersistSeq(t)
        BY <3>7, PersistSession
      <3>8. ASSUME NEW o \in Objects, add(t, o) PROVE SessionInv(t)'
        BY <3>8, AddSession
      <3>9. QED
        BY <1>5, <2>2, <3>1, <3>2, <3>3, <3>4, <3>5, <3>6, <3>7, <3>8 DEF ThreadStep
    <2>3. QED
      BY <2>1, <2>2
  <1>6. QED
    BY <1>1, <1>2, <1>3, <1>4, <1>5 DEF Next

\* Every step keeps sessions apart.
LEMMA NextApart == RocksInv /\ [Next]_vars => Apart'
  <1> SUFFICES ASSUME RocksInv, [Next]_vars PROVE Apart'
    OBVIOUS
  <1>0. TypeOK /\ Shape /\ Apart
    BY DEF RocksInv
  <1>1. CASE Open \/ Bootstrap \/ UNCHANGED vars
    BY <1>0, <1>1 DEF Open, Bootstrap, vars, Apart
  <1>2. CASE Crash
    BY <1>2 DEF Crash, Apart
  <1>3. ASSUME NEW w \in Threads, ThreadStep(w) PROVE Apart'
    <2>1. \A x \in Threads \ {w} : added'[x] = added[x]
      BY <1>0, <1>3, ThreadStepFrame DEF Assigned, Shape
    <2>2. CASE UNCHANGED <<added, acked>>
      BY <1>0, <2>2 DEF Apart
    <2>3. CASE Return(w) \/ rollback(w)
      <3>1. added'[w] = {} /\ acked' \subseteq acked \cup (added[w] \cap Events)
        BY <1>0, <2>3 DEF Return, rollback, Ended, Shape
      <3>2. \A t \in Threads \ {w} : added[t] \cap acked' = {}
        BY <1>0, <3>1 DEF Apart
      <3>3. QED
        BY <1>0, <2>1, <3>1, <3>2 DEF Apart
    <2>4. ASSUME NEW o \in Objects, add(w, o) PROVE Apart'
      <3>1. /\ acked' = acked /\ added'[w] = added[w] \cup {o} /\ acked \subseteq Events
            /\ o \in Events => o \notin acked /\ \A x \in Threads : o \notin added[x]
        BY <1>0, <2>4 DEF add, InUse, Shape, TypeOK
      <3>2. QED
        BY <1>0, <2>1, <3>1 DEF Apart
    <2>5. QED
      BY <1>3, <2>2, <2>3, <2>4 DEF ThreadStep, session, flush, commit, Flush, WriteObj, PersistSeq,
         FlushDone, Write
  <1>4. QED
    BY <1>1, <1>2, <1>3 DEF Next

-----------------------------------------------------------------------------
(* The database.                                                           *)

\* Only a write and the bootstrap change the database.
LEMMA DbChanges ==
    ASSUME [Next]_vars
    PROVE  \/ UNCHANGED <<db, regressed>>
           \/ Bootstrap
           \/ \E t \in Threads : Write(t)
  <1>1. CASE Open \/ Crash \/ UNCHANGED vars
    BY <1>1 DEF Open, Crash, vars
  <1>2. ASSUME NEW t \in Threads, ThreadStep(t), ~Write(t) PROVE UNCHANGED <<db, regressed>>
    BY <1>2 DEF ThreadStep, session, flush, commit, Flush, add, WriteObj, PersistSeq, FlushDone,
                Return, rollback
  <1>3. QED
    BY <1>1, <1>2 DEF Next

\* The rows of _bootstrap have families of their own.
LEMMA BootstrapPuts ==
    ASSUME Bootstrap, IsStore(db)
    PROVE  /\ IsStore(db') /\ GlobalSeq(db') = GlobalSeq(db)
           /\ Numbers(db') = Numbers(db)
           /\ \A n \in Numbers(db) : EventAt(db', n) = EventAt(db, n)
           /\ EventsAgree(db) => EventsAgree(db')
           /\ RunsAgree(db) => RunsAgree(db')
           /\ \A o \in Objects \cup Events : Stored(db, o) => Stored(db', o)
           /\ Has(db', "orgs", "default")
           /\ Has(db, "orgs", "default") \/ (Has(db', "projects", "default") /\ Has(db', "api_keys", "bootstrap"))
           /\ Has(db, "projects", "default") => Has(db', "projects", "default")
           /\ Has(db, "api_keys", "bootstrap") => Has(db', "api_keys", "bootstrap")
  <1>1. CASE Has(db, "orgs", "default")
    BY <1>1 DEF Bootstrap
  <1>2. CASE ~Has(db, "orgs", "default")
    <2> DEFINE a == Put("orgs", "default", "org")
               b == Put("projects", "default", "project")
               c == Put("api_keys", "bootstrap", "key")
               p == Over(a, Over(b, c))
    <2>1. db' = Over(a, Over(b, Over(c, db)))
      BY <1>2 DEF Bootstrap
    <2>2. Over(a, Over(b, Over(c, db))) = Over(p, db)
      BY DEF Over
    <2>3. IsStore(a) /\ IsStore(b) /\ IsStore(c)
      BY PutStore
    <2>4. \A f : /\ Keys(a, f) = (IF f = "orgs" THEN {"default"} ELSE {})
                 /\ Keys(b, f) = (IF f = "projects" THEN {"default"} ELSE {})
                 /\ Keys(c, f) = (IF f = "api_keys" THEN {"bootstrap"} ELSE {})
      BY PutKeys
    <2> HIDE DEF a, b, c
    <2>5. IsStore(p) /\ \A f : Keys(p, f) = Keys(a, f) \cup (Keys(b, f) \cup Keys(c, f))
      BY <2>3, OverStore, OverKeys
    <2> HIDE DEF p
    <2>6. /\ \A f : f \notin {"orgs", "projects", "api_keys"} => Keys(p, f) = {}
          /\ "default" \in Keys(p, "orgs") /\ "default" \in Keys(p, "projects")
          /\ "bootstrap" \in Keys(p, "api_keys")
      BY <2>4, <2>5
    <2>7. Numbers(p) = {} /\ EventsAgree(p) /\ RunsAgree(p)
      BY <2>6 DEF Numbers, EventsAgree, RunsAgree
    <2>8. db' = Over(p, db) /\ IsStore(db')
      BY <2>1, <2>2, <2>5, OverStore
    <2>9. ~Has(p, "meta", "global_seq") /\ Has(p, "orgs", "default") /\ Has(p, "projects", "default")
             /\ Has(p, "api_keys", "bootstrap")
      BY <2>5, <2>6, KeysHas
    <2>10. GlobalSeq(db') = GlobalSeq(db)
      BY <2>8, <2>9, OverSeq
    <2>11. Numbers(db') = Numbers(db) /\ \A n \in Numbers(db) : EventAt(db', n) = EventAt(db, n)
      BY <2>5, <2>7, <2>8, OverEvents
    <2>12. (EventsAgree(db) => EventsAgree(db')) /\ (RunsAgree(db) => RunsAgree(db'))
      BY <2>5, <2>7, <2>8, OverEventsAgree, OverRunsAgree
    <2>13. \A o \in Objects \cup Events : Stored(db, o) => Stored(db', o)
      BY <2>5, <2>7, <2>8, OverStored
    <2>14. QED
      BY <2>8, <2>9, <2>10, <2>11, <2>12, <2>13, OverHas
  <1>3. QED
    BY <1>1, <1>2

\* Every step keeps what is said of the database.
LEMMA NextDb == RocksInv /\ [Next]_vars => DbInv'
  <1> SUFFICES ASSUME RocksInv, [Next]_vars PROVE DbInv'
    OBVIOUS
  <1>0. DbInv /\ TypeOK /\ Shape /\ MaxSeq \in Nat /\ seq \in 0..MaxSeq
    BY RocksBounds DEF RocksInv, TypeOK
  <1>1. CASE Bootstrap
    BY <1>0, <1>1, BootstrapPuts DEF DbInv
  <1>2. ASSUME NEW t \in Threads, Write(t) PROVE DbInv'
    <2>1. db' = Over(batch[t], db) /\ up' = up
      BY <1>2 DEF Write
    <2>2. /\ IsStore(batch[t]) /\ RunsAgree(batch[t]) /\ Keys(batch[t], "orgs") = {}
          /\ GlobalSeq(batch[t]) \in 0..seq
      BY DEF RocksInv, SessionInv
    <2>3. IsStore(db') /\ RunsAgree(db')
      BY <1>0, <2>1, <2>2, OverStore, OverRunsAgree DEF DbInv
    <2>4. GlobalSeq(db') \in 0..MaxSeq
      BY <1>0, <2>1, <2>2, OverSeq DEF DbInv
    <2>5. ~Has(batch[t], "orgs", "default")
      BY <2>2, KeysHas
    <2>6. QED
      BY <1>0, <2>1, <2>3, <2>4, <2>5, OverHas DEF DbInv
  <1>3. CASE UNCHANGED <<db, regressed>> /\ ~Bootstrap
    <2>1. up' = "ready" => up = "ready"
      <3>1. CASE Open \/ Crash \/ UNCHANGED vars
        BY <3>1 DEF Open, Crash, vars
      <3>2. ASSUME NEW t \in Threads, ThreadStep(t) PROVE up' = up
        BY <1>0, <3>2, ThreadStepFrame
      <3>3. QED
        BY <1>3, <3>1, <3>2 DEF Next
    <2>2. QED
      BY <1>0, <1>3, <2>1 DEF DbInv
  <1>4. QED
    BY <1>1, <1>2, <1>3, DbChanges

-----------------------------------------------------------------------------
(* The counter.                                                            *)

\* Only its write brings a session to "written".
LEMMA OnlyWrites ==
    ASSUME TypeOK, NEW w \in Threads, ThreadStep(w), ~Write(w), NEW t \in Threads
    PROVE  pc'[t] = "written" => pc[t] = "written"
  <1>1. CASE FlushDone(w)
    <2>1. then[w] \in {"body", "write"}
      BY DEF TypeOK
    <2>2. QED
      BY <1>1, <2>1 DEF FlushDone, TypeOK
  <1>2. CASE session(w) \/ flush(w) \/ commit(w) \/ \E o \in Objects : add(w, o)
    BY <1>2 DEF session, flush, commit, Flush, add, TypeOK
  <1>3. CASE WriteObj(w) \/ PersistSeq(w)
    BY <1>3 DEF WriteObj, WriteRun, WriteApproval, WriteEvent, SkipOther, PersistSeq, TypeOK
  <1>4. CASE Return(w) \/ rollback(w)
    BY <1>4 DEF Return, rollback, Ended, TypeOK
  <1>5. QED
    BY <1>1, <1>2, <1>3, <1>4 DEF ThreadStep

\* A write that does not lower the counter.
LEMMA WriteCounter ==
    ASSUME RocksInv, NEW t \in Threads, Write(t), ~regressed'
    PROVE  /\ ~regressed /\ Numbers(batch[t]) \cap Numbers(db) = {}
           /\ CounterInv'
  <1> DEFINE b == batch[t]
  <1>0. /\ TypeOK /\ Shape /\ seq \in Nat /\ SessionInv(t) /\ DbInv /\ pc[t] = "write"
        /\ db' = Over(b, db) /\ UNCHANGED <<up, seq, sequence, batch, added, acked>> /\ pc'[t] = "written"
        /\ up = "ready"
    <2>1. TypeOK /\ Shape /\ SessionInv(t) /\ DbInv
      BY DEF RocksInv
    <2>2. /\ pc[t] = "write" /\ db' = Over(b, db) /\ UNCHANGED <<up, seq, sequence, batch, added, acked>>
          /\ pc'[t] = "written" /\ seq \in Nat
      BY <2>1 DEF Write, TypeOK
    <2>3. up = "ready"
      BY <2>1, <2>2 DEF SessionInv
    <2>4. QED
      BY <2>1, <2>2, <2>3
  <1>1. ~regressed /\ ~(Has(b, "meta", "global_seq") /\ GlobalSeq(b) < GlobalSeq(db))
    BY DEF Write
  <1>2. CounterInv
    BY <1>1 DEF RocksInv
  <1>30. Numbers(b) \cap Numbers(db) = {}
    BY <1>0, <1>2, NumbersApart
  <1>3. /\ IsStore(b) /\ IsStore(db) /\ EventsAgree(b) /\ EventsAgree(db)
        /\ Numbers(b) \cap Numbers(db) = {}
        /\ GlobalSeq(b) \in Nat /\ GlobalSeq(db) \in Nat /\ GlobalSeq(b) <= seq /\ GlobalSeq(db) <= seq
    BY <1>0, <1>2, <1>30 DEF SessionInv, DbInv, CounterInv
  <1>4. EventsAgree(db') /\ Numbers(db') = Numbers(b) \cup Numbers(db)
    BY <1>0, <1>3, OverEventsAgree, OverEvents
  <1>5. GlobalSeq(db') = IF Has(b, "meta", "global_seq") THEN GlobalSeq(b) ELSE GlobalSeq(db)
    BY <1>0, OverSeq
  <1>6. ~Has(b, "meta", "global_seq") => GlobalSeq(b) = 0
    BY DEF GlobalSeq
  <1>7. /\ \A n \in Numbers(b) : n \in Nat \ {0} /\ n <= GlobalSeq(b)
        /\ \A n \in Numbers(db) : n \in Nat /\ n <= GlobalSeq(db)
    BY <1>0, <1>2, <1>3 DEF SessionInv, EventsAgree, CounterInv
  <1> HIDE DEF b
  <1>8. GlobalSeq(db') <= seq /\ \A n \in Numbers(db') : n <= GlobalSeq(db')
    <2>1. CASE Has(b, "meta", "global_seq")
      BY <1>1, <1>3, <1>4, <1>5, <1>7, <2>1
    <2>2. CASE ~Has(b, "meta", "global_seq")
      <3>1. Numbers(b) = {}
        BY <1>6, <1>7, <2>2
      <3>2. QED
        BY <1>3, <1>4, <1>5, <1>7, <2>2, <3>1
    <2>3. QED
      BY <2>1, <2>2
  <1>9. ASSUME NEW e \in Events, sequence[e] \in Numbers(db')
        PROVE  e \in acked \/ \E u \in Threads : pc'[u] = "written" /\ e \in added[u]
    <2>1. CASE sequence[e] \in Numbers(b)
      <3> DEFINE g == EventAt(b, sequence[e])
      <3>1. /\ g \in added[t] /\ g \in Events /\ sequence[g] = sequence[e] /\ sequence[e] # 0
        BY <1>0, <2>1 DEF SessionInv, EventsAgree, b
      <3> HIDE DEF g
      <3>2. g = e
        BY <3>1 DEF RocksInv, Numbering
      <3>3. QED
        BY <1>0, <3>1, <3>2
    <2>2. CASE sequence[e] \in Numbers(db)
      <3>1. e \in acked \/ \E u \in Threads : pc[u] = "written" /\ e \in added[u]
        BY <1>2, <2>2 DEF CounterInv
      <3>2. \A u \in Threads : pc[u] = "written" => pc'[u] = "written"
        BY <1>0 DEF Write, TypeOK
      <3>3. QED
        BY <3>1, <3>2
    <2>3. QED
      BY <1>4, <1>9, <2>1, <2>2
  <1>10. QED
    BY <1>0, <1>1, <1>3, <1>4, <1>8, <1>9 DEF CounterInv, b

\* A step that leaves the database alone keeps a number in it with its writer.
LEMMA WriterKept ==
    ASSUME RocksInv, CounterInv, NEW w \in Threads, ThreadStep(w), ~Write(w), up = "ready",
           NEW e \in Events, sequence'[e] \in Numbers(db)
    PROVE  e \in acked' \/ \E t \in Threads : pc'[t] = "written" /\ e \in added'[t]
  <1>00. TypeOK /\ Shape
    BY DEF RocksInv
  <1>01. seq \in Nat /\ sequence \in [Events -> 0..MaxSeq]
    BY <1>00 DEF TypeOK
  <1>02. GlobalSeq(db) \in Nat /\ GlobalSeq(db) <= seq
    BY DEF RocksInv, DbInv, CounterInv
  <1>03. \A n \in Numbers(db) : n \in Nat \ {0} /\ n <= GlobalSeq(db)
    BY DEF CounterInv, EventsAgree
  <1>0. /\ TypeOK /\ Shape /\ seq \in Nat /\ sequence \in [Events -> 0..MaxSeq]
        /\ \A n \in Numbers(db) : n \in Nat \ {0} /\ n <= GlobalSeq(db)
        /\ GlobalSeq(db) \in Nat /\ GlobalSeq(db) <= seq
    BY <1>00, <1>01, <1>02, <1>03
  <1>1. seq + 1 \notin Numbers(db) /\ 0 \notin Numbers(db)
    BY <1>0
  <1>2. sequence'[e] = sequence[e]
    BY <1>0, <1>1, SequenceSteps
  <1>3. e \in acked \/ \E t \in Threads : pc[t] = "written" /\ e \in added[t]
    BY <1>2 DEF CounterInv
  <1>4. acked \subseteq acked'
    BY DEF ThreadStep, session, flush, commit, Flush, add, WriteObj, PersistSeq, FlushDone, Write,
       Return, rollback
  <1>5. ASSUME NEW t \in Threads, pc[t] = "written", e \in added[t]
        PROVE  e \in acked' \/ (pc'[t] = "written" /\ e \in added'[t])
    <2>1. CASE t # w
      BY <1>0, <1>5, <2>1, ThreadStepFrame DEF Assigned, TypeOK, Shape
    <2>2. CASE t = w
      <3>1. Return(w)
        BY <1>5, <2>2 DEF ThreadStep, session, flush, commit, Flush, add, WriteObj, PersistSeq,
           FlushDone, Write, rollback
      <3>2. QED
        BY <1>5, <2>2, <3>1 DEF Return
    <2>3. QED
      BY <2>1, <2>2
  <1>6. QED
    BY <1>3, <1>4, <1>5

\* Every step keeps what is said of the counter.
LEMMA NextCounter == RocksInv /\ [Next]_vars /\ ~regressed' => ~regressed /\ CounterInv'
  <1> SUFFICES ASSUME RocksInv, [Next]_vars, ~regressed' PROVE ~regressed /\ CounterInv'
    OBVIOUS
  <1>0. /\ TypeOK /\ Shape /\ seq \in Nat /\ DbInv /\ GlobalSeq(db) \in Nat
        /\ (\A t \in Threads : SessionInv(t)) /\ Numbering
    BY DEF RocksInv, TypeOK, DbInv
  <1>1. ASSUME NEW t \in Threads, Write(t) PROVE ~regressed /\ CounterInv'
    BY <1>1, WriteCounter
  <1>2. ASSUME ~\E t \in Threads : Write(t) PROVE ~regressed /\ CounterInv'
    <2>1. ~regressed /\ CounterInv
      BY <1>2, DbChanges DEF RocksInv, Bootstrap
    <2>2. CASE Bootstrap
      BY <1>0, <2>1, <2>2, BootstrapPuts DEF CounterInv, DbInv, Bootstrap
    <2>3. CASE Open
      <3>1. /\ db' = db /\ seq' = GlobalSeq(db) /\ UNCHANGED <<sequence, pc, added, acked>>
        BY <2>3 DEF Open
      <3>2. QED
        BY <1>0, <2>1, <3>1 DEF CounterInv
    <2>4. CASE Crash
      <3>1. 0 \notin Numbers(db)
        BY <2>1 DEF CounterInv, EventsAgree
      <3>2. db' = db /\ up' = "down" /\ \A e \in Events : sequence'[e] = 0
        BY <2>4 DEF Crash
      <3>3. QED
        BY <2>1, <3>1, <3>2 DEF CounterInv
    <2>5. CASE UNCHANGED vars
      BY <2>1, <2>5 DEF CounterInv, vars
    <2>6. ASSUME NEW w \in Threads, ThreadStep(w) PROVE CounterInv'
      <3>1. UNCHANGED up /\ seq' \in Nat /\ seq <= seq'
        BY <1>0, <2>6, ThreadStepFrame
      <3>2. db' = db
        BY <1>2, <2>6, DbChanges DEF ThreadStep, session, flush, commit, Flush, add, WriteObj,
              PersistSeq, FlushDone, Return, rollback
      <3>3. up = "ready"
        <4>1. up = "ready" \/ pc[w] # "idle"
          BY <2>6 DEF ThreadStep, session, flush, commit, Flush, add, WriteObj,
              PersistSeq, FlushDone, Return, rollback, Write
        <4>2. QED
          BY <1>0, <4>1 DEF SessionInv
      <3>4. GlobalSeq(db) <= seq'
        BY <1>0, <2>1, <3>1, <3>3 DEF CounterInv
      <3>5. \A e \in Events : sequence'[e] \in Numbers(db) =>
               e \in acked' \/ \E t \in Threads : pc'[t] = "written" /\ e \in added'[t]
        BY <1>2, <2>1, <2>6, <3>3, WriterKept
      <3>6. QED
        BY <2>1, <3>2, <3>4, <3>5 DEF CounterInv
    <2>7. QED
      BY <2>1, <2>2, <2>3, <2>4, <2>5, <2>6 DEF Next
  <1>3. QED
    BY <1>1, <1>2

-----------------------------------------------------------------------------
(* Every event once.                                                       *)

\* A key that is asked for and not found is the key of no stored event.
LEMMA LookupFinds ==
    ASSUME IsStore(db), EventsAgree(db), NEW n \in Numbers(db), Keyed(EventAt(db, n))
    PROVE  Lookup(EventAt(db, n).key) # {}
  <1> DEFINE k == EventAt(db, n).key
  <1>1. k \in Keys(db, "idempotency")
    BY DEF EventsAgree, Keyed
  <1>2. PICK m \in Numbers(db) : EventAt(db, m).id = db[<<"idempotency", k>>]
    <2>1. PICK m \in Numbers(db) :
             \/ EventAt(db, m).id = db[<<"idempotency", k>>]
             \/ EventAt(db, m).key # NoKey /\ k = HashKey(EventAt(db, m).key)
      BY <1>1 DEF EventsAgree
    <2>2. EventAt(db, m) \in Events
      BY DEF EventsAgree
    <2>3. QED
      BY <2>1, <2>2 DEF Keyed
  <1>3. Has(db, "idempotency", k)
    BY <1>1, KeysHas
  <1>4. m \in Lookup(k)
    BY <1>2, <1>3 DEF Lookup, EventAt
  <1>5. QED
    BY <1>4

\* A write that does not lower the counter stores no event again.
LEMMA WriteOnce ==
    ASSUME RocksInv, NEW t \in Threads, Write(t), ~regressed'
    PROVE  OnceInv'
  <1> DEFINE b == batch[t]
  <1>00. /\ ~regressed /\ Numbers(b) \cap Numbers(db) = {} /\ TypeOK /\ SessionInv(t)
         /\ IsStore(db) /\ OnceInv
    BY WriteCounter DEF RocksInv, DbInv
  <1>0. /\ pc[t] = "write" /\ db' = Over(b, db) /\ UNCHANGED <<added, acked>>
        /\ pc'[t] = "written" /\ \A u \in Threads \ {t} : pc'[u] = pc[u]
        /\ IsStore(b) /\ EventsAgree(b) /\ pending[t] = <<>>
    BY <1>00 DEF Write, TypeOK, SessionInv
  <1>1. /\ Numbers(db') = Numbers(b) \cup Numbers(db)
        /\ \A n \in Numbers(b) : EventAt(db', n) = EventAt(b, n)
        /\ \A n \in Numbers(db) : EventAt(db', n) = EventAt(db, n)
    BY <1>00, <1>0, OverEvents
  <1>2. /\ \A o \in Objects \cup Events : Stored(b, o) => Stored(db', o)
        /\ \A o \in Objects \cup Events : Stored(db, o) => Stored(db', o)
    BY <1>00, <1>0, OverStored
  <1>3. /\ \A n \in Numbers(b) : EventAt(b, n) \in added[t] /\ EventAt(b, n) \in Events
        /\ \A m, n \in Numbers(b) : EventAt(b, m) = EventAt(b, n) => m = n
    BY <1>00, NumbersApart DEF SessionInv, EventsAgree
  <1>4. \A o \in added[t] : Known(o) => Stored(b, o)
    <2>1. Waiting(t) = {}
      BY <1>0 DEF Waiting, InQueue
    <2>2. QED
      BY <1>00, <2>1 DEF SessionInv
  <1>5. acked \subseteq Events /\ \A u \in Threads : added[u] \subseteq Objects
    BY <1>00 DEF TypeOK
  <1>6. \A u \in Threads \ {t} : added[t] \cap added[u] \cap Events = {}
    BY DEF RocksInv, Apart
  <1> HIDE DEF b
  <1>7. \A e \in acked : Stored(db', e)
    BY <1>00, <1>2, <1>5 DEF OnceInv
  <1>8. \A u \in Threads : pc'[u] = "written" => \A o \in added[u] : Known(o) => Stored(db', o)
    BY <1>00, <1>0, <1>2, <1>4, <1>5 DEF OnceInv
  <1>9. ASSUME NEW u \in Threads, NEW n \in Numbers(db'), EventAt(db', n) \in added[u],
               Keyed(EventAt(db', n))
        PROVE  pc'[u] = "written"
    <2>1. CASE n \in Numbers(b)
      BY <1>0, <1>1, <1>3, <1>6, <1>9, <2>1
    <2>2. CASE n \in Numbers(db)
      <3>1. pc[u] = "written"
        BY <1>00, <1>1, <1>9, <2>2 DEF OnceInv
      <3>2. QED
        BY <1>0, <3>1
    <2>3. QED
      BY <1>1, <2>1, <2>2
  <1>10. ASSUME NEW m \in Numbers(b), NEW n \in Numbers(db), EventAt(b, m) = EventAt(db, n),
                Keyed(EventAt(b, m))
         PROVE  FALSE
    <2>1. pc[t] = "written"
      BY <1>00, <1>3, <1>10 DEF OnceInv
    <2>2. QED
      BY <1>0, <2>1
  <1>11. ASSUME NEW m \in Numbers(db'), NEW n \in Numbers(db'), EventAt(db', m) = EventAt(db', n),
                Keyed(EventAt(db', m))
         PROVE  m = n
    BY <1>00, <1>1, <1>3, <1>10, <1>11 DEF OnceInv
  <1>12. QED
    BY <1>0, <1>7, <1>8, <1>9, <1>11 DEF OnceInv

\* The other steps of threads neither leave "written" nor add events, except for
\* the end of a session.
LEMMA SessionEvents ==
    ASSUME TypeOK, Shape, NEW w \in Threads, ThreadStep(w), ~Write(w),
           ~\E o \in Objects : add(w, o), NEW t \in Threads
    PROVE  \/ added'[t] = {}
           \/ added'[t] = added[t] /\ (pc'[t] = "written" <=> pc[t] = "written")
  <1>1. Assigned(w)
    BY ThreadStepFrame
  <1>2. CASE t # w
    BY <1>1, <1>2 DEF Assigned, Shape, TypeOK
  <1>3. CASE session(w) \/ flush(w) \/ commit(w)
    BY <1>2, <1>3 DEF session, flush, commit, Flush, TypeOK
  <1>4. CASE FlushDone(w)
    <2>1. then[w] \in {"body", "write"}
      BY DEF TypeOK
    <2>2. QED
      BY <1>2, <1>4, <2>1 DEF FlushDone, TypeOK
  <1>5. CASE Return(w) \/ rollback(w)
    BY <1>2, <1>5 DEF Return, rollback, Ended, Shape
  <1>6. CASE WriteObj(w)
    BY <1>2, <1>6 DEF WriteObj, WriteRun, WriteApproval, WriteEvent, SkipOther, TypeOK
  <1>7. CASE PersistSeq(w)
    BY <1>2, <1>7 DEF PersistSeq, TypeOK
  <1>8. QED
    BY <1>3, <1>4, <1>5, <1>6, <1>7 DEF ThreadStep

\* Every step keeps what is said of events and sessions.
LEMMA NextOnce == RocksInv /\ [Next]_vars /\ ~regressed' => OnceInv'
  <1> SUFFICES ASSUME RocksInv, [Next]_vars, ~regressed' PROVE OnceInv'
    OBVIOUS
  <1>0. TypeOK /\ Shape /\ IsStore(db) /\ ~regressed /\ OnceInv /\ EventsAgree(db)
    BY NextCounter DEF RocksInv, DbInv, CounterInv
  <1>1. CASE Bootstrap
    <2>1. /\ Numbers(db') = Numbers(db)
          /\ \A n \in Numbers(db) : EventAt(db', n) = EventAt(db, n)
          /\ \A o \in Objects \cup Events : Stored(db, o) => Stored(db', o)
      BY <1>0, <1>1, BootstrapPuts
    <2>2. acked \subseteq Events /\ \A u \in Threads : added[u] \subseteq Objects
      BY <1>0 DEF TypeOK
    <2>3. QED
      BY <1>0, <1>1, <2>1, <2>2 DEF Bootstrap, OnceInv
  <1>2. CASE Open \/ UNCHANGED vars
    BY <1>0, <1>2 DEF Open, vars, OnceInv
  <1>3. CASE Crash
    BY <1>0, <1>3 DEF Crash, OnceInv
  <1>4. ASSUME NEW t \in Threads, Write(t) PROVE OnceInv'
    BY <1>4, WriteOnce
  <1>5. ASSUME NEW w \in Threads, NEW o \in Objects, add(w, o) PROVE OnceInv'
    <2>1. /\ UNCHANGED <<db, acked, pc>> /\ pc[w] = "body"
          /\ \A t \in Threads : added'[t] = IF t = w THEN added[t] \cup {o} ELSE added[t]
      BY <1>0, <1>5 DEF add, Shape
    <2>2. \A n \in Numbers(db) : EventAt(db, n) = o => ~Keyed(o)
      <3>1. ASSUME NEW n \in Numbers(db), EventAt(db, n) = o, Keyed(o) PROVE FALSE
        <4>1. o \in Events
          BY <1>0, <3>1 DEF EventsAgree
        <4>2. QED
          BY <1>0, <1>5, <3>1, <4>1, LookupFinds DEF add, Keyed
      <3>2. QED
        BY <3>1
    <2>3. QED
      BY <1>0, <2>1, <2>2 DEF OnceInv
  <1>6. ASSUME NEW w \in Threads, ThreadStep(w), ~Write(w), ~\E o \in Objects : add(w, o)
        PROVE  OnceInv'
    <2>1. db' = db
      BY <1>6 DEF ThreadStep, session, flush, commit, Flush, WriteObj,
              PersistSeq, FlushDone, Return, rollback
    <2>2. \A t \in Threads :
            \/ added'[t] = {}
            \/ added'[t] = added[t] /\ (pc'[t] = "written" <=> pc[t] = "written")
      BY <1>0, <1>6, SessionEvents
    <2>3. \A e \in acked' : Stored(db, e)
      <3>1. CASE Return(w)
        <4>1. \A e \in acked' : e \in acked \/ (e \in added[w] /\ e \in Events /\ Known(e))
          BY <3>1, RocksEvents DEF Return, Known
        <4>2. QED
          BY <1>0, <3>1, <4>1 DEF Return, OnceInv
      <3>2. CASE ~Return(w)
        <4>1. acked' = acked
          BY <1>6, <3>2 DEF ThreadStep, session, flush, commit, Flush, WriteObj,
              PersistSeq, FlushDone, rollback
        <4>2. QED
          BY <1>0, <4>1 DEF OnceInv
      <3>3. QED
        BY <3>1, <3>2
    <2>4. QED
      BY <1>0, <2>1, <2>2, <2>3 DEF OnceInv
  <1>7. QED
    BY <1>1, <1>2, <1>3, <1>4, <1>5, <1>6 DEF Next

-----------------------------------------------------------------------------
(* Theorems.                                                               *)

\* A new database satisfies the inductive invariant.
LEMMA InitRocks == Init => RocksInv
  <1> SUFFICES ASSUME Init PROVE RocksInv
    OBVIOUS
  <1>0. {MaxSeq, MaxOpens, MaxSessions} \subseteq Nat
    BY RocksBounds
  <1>1. TypeOK /\ Shape
    BY <1>0 DEF Init, TypeOK, Shape
  <1>2. ASSUME NEW t \in Threads PROVE SessionInv(t)
    <2>1. /\ pc[t] = "idle" /\ pending[t] = <<>> /\ batch[t] = Empty /\ added[t] = {} /\ seq = 0
      BY DEF Init
    <2>2. Waiting(t) = {} /\ Distinct(<<>>) /\ <<>> \in Seq(Objects)
      BY <2>1 DEF Waiting, InQueue, Distinct
    <2>3. Numbers(Empty) = {}
      BY EmptyKeys DEF Numbers
    <2>4. QED
      BY <2>1, <2>2, <2>3, EmptyKeys DEF SessionInv
  <1>3. Apart /\ Numbering
    BY DEF Init, Apart, Numbering
  <1>4. DbInv
    BY <1>0, EmptyKeys DEF Init, DbInv
  <1>5. CounterInv /\ OnceInv
    BY EmptyKeys DEF Init, CounterInv, OnceInv, Numbers
  <1>6. QED
    BY <1>1, <1>2, <1>3, <1>4, <1>5 DEF RocksInv

\* Every step keeps the inductive invariant.
LEMMA NextRocks == RocksInv /\ [Next]_vars => RocksInv'
  <1> SUFFICES ASSUME RocksInv, [Next]_vars PROVE RocksInv'
    OBVIOUS
  <1>1. TypeOK' /\ Shape' /\ DbInv' /\ (~regressed' => CounterInv' /\ OnceInv')
    BY NextType, NextDb, NextCounter, NextOnce
  <1>2. QED
    BY <1>1, NextSession, NextApart, NextNumbering DEF RocksInv

\* Between any two steps of the threads, and across crashes and restarts, the
\* batches and the database agree as the inductive invariant says.
THEOREM RocksInvariant == Spec => []RocksInv
  <1>1. QED
    BY InitRocks, NextRocks, PTL DEF Spec

\* Counters, positions and queues of the sessions have their types.
THEOREM RocksTypes == Spec => []TypeOK
  <1>1. RocksInv => TypeOK
    BY DEF RocksInv
  <1>2. QED
    BY <1>1, RocksInvariant, PTL

\* A database that is ready has all rows of _bootstrap, whenever an earlier
\* start died.
THEOREM BootstrapComplete == Spec => []ReadyIsComplete
  <1>1. RocksInv => ReadyIsComplete
    BY DEF RocksInv, DbInv, ReadyIsComplete
  <1>2. QED
    BY <1>1, RocksInvariant, PTL

\* As long as the stored counter has not gone back, what a session returned is
\* stored and no event with a key is stored twice.
THEOREM SessionsStoredOnce == Spec => []StoredOnce
  <1>1. RocksInv => StoredOnce
    BY DEF RocksInv, OnceInv, StoredOnce, EventAt
  <1>2. QED
    BY <1>1, RocksInvariant, PTL

\* As long as the stored counter has not gone back, no write replaces an event.
THEOREM EventsNeverReplaced == Spec => NeverReplaced
  <1> DEFINE Kept == ~regressed' => \A n \in Numbers(db) :
                        Has(db', "events", n) /\ db'[<<"events", n>>] = db[<<"events", n>>]
  <1>1. RocksInv /\ [Next]_vars => [Kept]_vars
    <2> SUFFICES ASSUME RocksInv, [Next]_vars, ~regressed', NEW n \in Numbers(db)
                 PROVE  Has(db', "events", n) /\ db'[<<"events", n>>] = db[<<"events", n>>]
      BY DEF vars
    <2>0. IsStore(db) /\ IsStore(db') /\ Has(db, "events", n)
      BY NextDb, KeysHas DEF RocksInv, DbInv, Numbers
    <2>1. CASE Bootstrap
      BY <2>0, <2>1, BootstrapPuts, KeysHas DEF EventAt, Numbers
    <2>2. ASSUME NEW t \in Threads, Write(t)
          PROVE  Has(db', "events", n) /\ db'[<<"events", n>>] = db[<<"events", n>>]
      <3>1. n \notin Numbers(batch[t]) /\ IsStore(batch[t]) /\ db' = Over(batch[t], db)
        BY <2>2, WriteCounter DEF RocksInv, SessionInv, Write
      <3>2. ~Has(batch[t], "events", n)
        BY <3>1, KeysHas DEF Numbers
      <3>3. QED
        BY <2>0, <3>1, <3>2, OverHas
    <2>3. CASE db' = db
      BY <2>0, <2>3
    <2>4. QED
      BY <2>1, <2>2, <2>3, DbChanges
  <1>2. QED
    BY <1>1, RocksInvariant, PTL DEF Spec, NeverReplaced

\* A session changes the database in one step, and that step stores every
\* object of the backend's own classes that was added to it, whatever other
\* threads do and whatever objects of other classes are among them.
THEOREM SessionsAreAtomic == Spec => SessionsAtomic
  <1> DEFINE Whole == \A t \in Threads :
                /\ (pc[t] = "write" /\ pc'[t] = "written") => \A o \in added[t] : Known(o) => Stored(db', o)
                /\ (pc[t] # "write" /\ pc'[t] # pc[t]) => db' = db
  <1>1. RocksInv /\ [Next]_vars => [Whole]_vars
    <2> SUFFICES ASSUME RocksInv, Next PROVE Whole
      BY DEF vars
    <2>0. TypeOK /\ Shape /\ IsStore(db)
      BY DEF RocksInv, DbInv
    <2>1. CASE Open \/ Bootstrap \/ Crash
      BY <2>0, <2>1 DEF Open, Bootstrap, Crash, TypeOK
    <2>2. ASSUME NEW w \in Threads, ThreadStep(w), ~Write(w), NEW t \in Threads
          PROVE  db' = db /\ (pc'[t] = "written" => pc[t] = "written")
      BY <2>0, <2>2, OnlyWrites DEF ThreadStep, session, flush, commit, Flush, add, WriteObj,
            PersistSeq, FlushDone, Return, rollback
    <2>3. ASSUME NEW w \in Threads, Write(w), NEW t \in Threads
          PROVE  /\ (pc[t] = "write" /\ pc'[t] = "written") => \A o \in added[t] : Known(o) => Stored(db', o)
                 /\ (pc[t] # "write" /\ pc'[t] # pc[t]) => db' = db
      <3>1. /\ pc[w] = "write" /\ db' = Over(batch[w], db) /\ pending[w] = <<>>
            /\ t # w => pc'[t] = pc[t]
        BY <2>0, <2>3 DEF Write, TypeOK
      <3>2. Waiting(w) = {}
        BY <3>1 DEF Waiting, InQueue
      <3>3. IsStore(batch[w]) /\ \A o \in added[w] : (Known(o) => Stored(batch[w], o)) /\ o \in Objects
        BY <2>0, <3>2 DEF RocksInv, SessionInv, TypeOK
      <3>4. \A o \in added[w] : Known(o) => Stored(db', o)
        BY <2>0, <3>1, <3>3, OverStored
      <3>5. QED
        BY <3>1, <3>4
    <2>4. QED
      BY <2>1, <2>2, <2>3 DEF Next
  <1>2. QED
    BY <1>1, RocksInvariant, PTL DEF Spec, SessionsAtomic

-----------------------------------------------------------------------------
(* Queries.                                                                *)

\* A store has finitely many keys of a family.
LEMMA KeysFinite ==
    ASSUME NEW d, IsStore(d), NEW cf
    PROVE  IsFiniteSet(Keys(d, cf))
  <1> DEFINE S == {k \in DOMAIN d : k[1] = cf}
             f == [k \in S |-> k[2]]
  <1>1. IsFiniteSet(S)
    BY FS_Subset DEF IsStore
  <1>2. f \in Surjection(S, Keys(d, cf))
    BY DEF Surjection, Keys
  <1>3. QED
    BY <1>1, <1>2, FS_Surjection

\* The index of a run names the events of the run.
LEMMA RunIndexExact ==
    ASSUME NEW d, IsStore(d), EventsAgree(d), NEW r, NEW n \in Numbers(d)
    PROVE  Has(d, "ev_by_run", <<r, n>>) <=> d[<<"events", n>>].run = r
  <1>1. ASSUME Has(d, "ev_by_run", <<r, n>>) PROVE d[<<"events", n>>].run = r
    <2>1. <<r, n>> \in Keys(d, "ev_by_run")
      BY <1>1, KeysHas
    <2>2. PICK m \in Numbers(d) : <<r, n>> = <<EventAt(d, m).run, m>>
      BY <2>1 DEF EventsAgree
    <2>3. m = n /\ EventAt(d, m).run = r
      BY <2>2
    <2>4. QED
      BY <2>3 DEF EventAt
  <1>2. ASSUME d[<<"events", n>>].run = r PROVE Has(d, "ev_by_run", <<r, n>>)
    <2>1. <<r, n>> \in Keys(d, "ev_by_run")
      BY <1>2 DEF EventsAgree, EventAt
    <2>2. QED
      BY <2>1, KeysHas
  <1>3. QED
    BY <1>1, <1>2

\* Pages along the index of a run are pages of the run's events.
LEMMA RunPages ==
    ASSUME IsStore(db), EventsAgree(db), NEW r, NEW limit, NEW c
    PROVE  QueryRun(db, r, c, limit) = FirstOf({m \in OfRun(db, r) : m > c}, limit)
  <1>1. {n \in Numbers(db) : Has(db, "ev_by_run", <<r, n>>) /\ n > c}
           = {m \in OfRun(db, r) : m > c}
    BY RunIndexExact DEF OfRun
  <1>2. QED
    BY <1>1, Zenon DEF QueryRun

\* The entries a query of the project meets, for all types and no cursor.
Hits(d, types, cursor) ==
    {e \in Keys(d, "ev_by_type") : e[1] \in types /\ e[2] > cursor /\ Has(d, "events", e[2])}

Earlier(hits, e) == {f \in hits : f[1] < e[1] \/ (f[1] = e[1] /\ f[2] <= e[2])}

\* A query of the project that stays below its limit returns every event.
LEMMA ProjectQuery ==
    ASSUME IsStore(db), EventsAgree(db), MaxSeq \in Nat, \A n \in Numbers(db) : n <= MaxSeq
    PROVE  QueryProject(db, {e.type : e \in Events}, 0, MaxSeq) = Numbers(db)
  <1> DEFINE types == {e.type : e \in Events}
             hits == Hits(db, types, 0)
  <1>1. QueryProject(db, types, 0, MaxSeq)
           = {e[2] : e \in {f \in hits : Cardinality(Earlier(hits, f)) <= MaxSeq}}
    BY DEF QueryProject, Hits, Earlier
  <1>2. /\ \A n \in Numbers(db) : <<EventAt(db, n).type, n>> \in hits
        /\ \A e \in hits : \E n \in Numbers(db) : e = <<EventAt(db, n).type, n>>
    <2>1. ASSUME NEW n \in Numbers(db) PROVE <<EventAt(db, n).type, n>> \in hits
      <3>1. /\ <<EventAt(db, n).type, n>> \in Keys(db, "ev_by_type")
            /\ EventAt(db, n) \in Events /\ n \in Nat \ {0}
        BY DEF EventsAgree
      <3>2. Has(db, "events", n)
        BY KeysHas DEF Numbers
      <3>3. QED
        BY <3>1, <3>2 DEF Hits
    <2>2. QED
      BY <2>1 DEF Hits, EventsAgree
  <1> HIDE DEF hits, types
  <1>3. \A e \in hits : e[2] \in Numbers(db) /\ e = <<EventAt(db, e[2]).type, e[2]>>
    BY <1>2
  <1>4. IsFiniteSet(hits) /\ Cardinality(hits) <= MaxSeq
    <2> DEFINE g == [e \in hits |-> e[2]]
    <2>0. \A n \in Numbers(db) : n \in Nat \ {0} /\ n <= MaxSeq
      BY DEF EventsAgree
    <2>1. \A e \in hits : e[2] \in 1..MaxSeq
      BY <1>3, <2>0
    <2>2. g \in Injection(hits, 1..MaxSeq)
      <3>1. g \in [hits -> 1..MaxSeq]
        BY <2>1
      <3>2. \A e, f \in hits : g[e] = g[f] => e = f
        BY <1>3
      <3>3. QED
        BY <3>1, <3>2 DEF Injection, IsInjective
    <2>3. IsFiniteSet(1..MaxSeq) /\ Cardinality(1..MaxSeq) = MaxSeq
      BY FS_Interval
    <2>4. QED
      BY <2>2, <2>3, FS_Injection
  <1>5. ASSUME NEW f \in hits PROVE Cardinality(Earlier(hits, f)) <= MaxSeq
    <2>1. Earlier(hits, f) \in SUBSET hits
      BY DEF Earlier
    <2>2. /\ Cardinality(Earlier(hits, f)) \in Nat /\ Cardinality(hits) \in Nat
          /\ Cardinality(Earlier(hits, f)) <= Cardinality(hits)
      BY <1>4, <2>1, FS_Subset, FS_CardinalityType
    <2>3. QED
      BY <1>4, <2>2
  <1>6. {f \in hits : Cardinality(Earlier(hits, f)) <= MaxSeq} = hits
    BY <1>5
  <1>7. {e[2] : e \in hits} = Numbers(db)
    BY <1>2, <1>3
  <1>8. QED
    BY <1>1, <1>6, <1>7 DEF types

\* The entries from e on, backwards from the end of the index.
FromEnd(entries, e) == {f \in entries : f[1] > e[1] \/ (f[1] = e[1] /\ f[2] >= e[2])}

NewerRuns(all, r) == {q \in all : Started[q] > Started[r] \/ (Started[q] = Started[r] /\ q >= r)}

Listed(e) == <<e[1], db[<<"runs_by_org", e>>]>>

\* The entries of the index that have a row are all of them.
LEMMA RunEntries ==
    ASSUME IsStore(db), RunsAgree(db), NEW limit
    PROVE  LET entries == Keys(db, "runs_by_org")
           IN  QueryRuns(db, limit)
                  = {Listed(e) : e \in {f \in entries : Cardinality(FromEnd(entries, f)) <= limit}}
  <1> DEFINE entries == Keys(db, "runs_by_org")
  <1>1. \A e \in entries : Has(db, "runs", db[<<"runs_by_org", e>>])
    BY KeysHas DEF RunsAgree
  <1>2. {e \in entries : Has(db, "runs", db[<<"runs_by_org", e>>])} = entries
    BY <1>1
  <1>3. QED
    BY <1>2 DEF QueryRuns, FromEnd, Listed

\* A list with room for the whole index has every run.
LEMMA WholeRunList ==
    ASSUME IsStore(db), RunsAgree(db), NEW all, all = {r \in RunIds : Has(db, "runs", r)}
    PROVE  {e[2] : e \in QueryRuns(db, Cardinality(Keys(db, "runs_by_org")))} = all
  <1> DEFINE entries == Keys(db, "runs_by_org")
  <1>1. IsFiniteSet(entries)
    BY KeysFinite
  <1>2. ASSUME NEW e \in entries PROVE Cardinality(FromEnd(entries, e)) <= Cardinality(entries)
    <2>1. FromEnd(entries, e) \in SUBSET entries
      BY DEF FromEnd
    <2>2. QED
      BY <1>1, <2>1, FS_Subset
  <1>3. QueryRuns(db, Cardinality(entries)) = {Listed(e) : e \in entries}
    <2>1. {f \in entries : Cardinality(FromEnd(entries, f)) <= Cardinality(entries)} = entries
      BY <1>2
    <2>2. QED
      BY <2>1, RunEntries, Zenon
  <1>4. \A r : r \in all <=> r \in Keys(db, "runs")
    BY KeysHas DEF RunsAgree
  <1>5. \A e \in entries : Listed(e)[2] \in all
    BY <1>4 DEF RunsAgree, Listed
  <1>6. ASSUME NEW r \in all PROVE \E e \in entries : Listed(e)[2] = r
    <2>1. PICK ms \in Moments(r) : <<ms, r>> \in entries
      BY <1>4 DEF RunsAgree
    <2>2. PICK q, at : <<ms, r>> = <<at, q>> /\ db[<<"runs_by_org", <<ms, r>>>>] = q
      BY <2>1 DEF RunsAgree
    <2>3. q = r
      BY <2>2
    <2>4. QED
      BY <2>1, <2>2, <2>3 DEF Listed
  <1>7. QED
    BY <1>3, <1>5, <1>6

\* When every run has a started_at, the list of runs is the newest runs.
LEMMA RunList ==
    ASSUME IsStore(db), RunsAgree(db), NEW limit,
           NEW all, all = {r \in RunIds : Has(db, "runs", r)}, \A r \in all : Started[r] # NoTime
    PROVE  QueryRuns(db, limit)
              = {<<Started[r], r>> : r \in {q \in all : Cardinality(NewerRuns(all, q)) <= limit}}
  <1> DEFINE entries == Keys(db, "runs_by_org")
             entry(r) == <<Started[r], r>>
  <1>1. QueryRuns(db, limit)
           = {Listed(e) : e \in {f \in entries : Cardinality(FromEnd(entries, f)) <= limit}}
    BY RunEntries
  <1>2. all = Keys(db, "runs") /\ IsFiniteSet(all)
    <2>1. \A r : r \in Keys(db, "runs") <=> Has(db, "runs", r)
      BY KeysHas
    <2>2. all = Keys(db, "runs")
      BY <2>1 DEF RunsAgree
    <2>3. QED
      BY <2>2, KeysFinite
  <1>3. /\ \A r \in all : entry(r) \in entries
        /\ \A e \in entries : \E r \in all : e = entry(r) /\ db[<<"runs_by_org", e>>] = r
    <2>1. \A r \in all : Moments(r) = {Started[r]}
      BY DEF Moments
    <2>2. ASSUME NEW r \in all PROVE entry(r) \in entries
      BY <1>2, <2>1 DEF RunsAgree
    <2>3. ASSUME NEW e \in entries
          PROVE  \E r \in all : e = entry(r) /\ db[<<"runs_by_org", e>>] = r
      <3>1. PICK r \in all : (\E ms \in Moments(r) : e = <<ms, r>>) /\ db[<<"runs_by_org", e>>] = r
        BY <1>2 DEF RunsAgree
      <3>2. e = entry(r)
        BY <2>1, <3>1
      <3>3. QED
        BY <3>1, <3>2
    <2>4. QED
      BY <2>2, <2>3
  <1> HIDE DEF entries
  <1>4. \A r \in all : Listed(entry(r)) = entry(r)
    BY <1>3 DEF Listed
  <1>5. ASSUME NEW r \in all
        PROVE  Cardinality(FromEnd(entries, entry(r))) = Cardinality(NewerRuns(all, r))
    <2> DEFINE N == NewerRuns(all, r)
               F == FromEnd(entries, entry(r))
               g == [q \in N |-> entry(q)]
    <2>1. \A q \in all : entry(q) \in F <=> q \in N
      BY <1>3 DEF FromEnd, NewerRuns
    <2>2. \A e \in F : \E q \in all : e = entry(q)
      BY <1>3 DEF FromEnd
    <2>3. N \subseteq all
      BY DEF NewerRuns
    <2> HIDE DEF N, F
    <2>4. g \in [N -> F] /\ \A q \in N : g[q] = entry(q)
      BY <2>1, <2>3
    <2> HIDE DEF g
    <2>5. g \in Injection(N, F)
      BY <2>4 DEF Injection, IsInjective
    <2>6. g \in Surjection(N, F)
      BY <2>1, <2>2, <2>4 DEF Surjection
    <2>7. ExistsBijection(N, F)
      BY <2>5, <2>6 DEF ExistsBijection, Bijection
    <2>8. IsFiniteSet(N)
      BY <1>2, <2>3, FS_Subset
    <2>9. QED
      BY <2>7, <2>8, FS_Bijection DEF N, F
  <1>6. {Listed(e) : e \in {f \in entries : Cardinality(FromEnd(entries, f)) <= limit}}
           = {entry(r) : r \in {q \in all : Cardinality(NewerRuns(all, q)) <= limit}}
    <2> DEFINE Newest == {q \in all : Cardinality(NewerRuns(all, q)) <= limit}
               Last == {f \in entries : Cardinality(FromEnd(entries, f)) <= limit}
    <2>1. \A r \in all : entry(r) \in Last <=> r \in Newest
      BY <1>3, <1>5
    <2>2. \A e \in Last : \E r \in all : e = entry(r)
      BY <1>3
    <2>3. Newest \subseteq all
      OBVIOUS
    <2> HIDE DEF Newest, Last, entry
    <2>4. {Listed(e) : e \in Last} = {entry(r) : r \in Newest}
      BY <1>4, <2>1, <2>2, <2>3
    <2>5. QED
      BY <2>4, Zenon DEF Newest, Last
  <1>7. QED
    BY <1>1, <1>6

\* While the counter has not gone back, the scans over the indexes of the events
\* return what a look at every event returns: pages of a run, and queries of the
\* project below their limit.
THEOREM PagesAreComplete == Spec => []PagesComplete
  <1>1. RocksInv => PagesComplete
    <2> SUFFICES ASSUME RocksInv, ~regressed PROVE PagesComplete
      BY DEF PagesComplete
    <2>1. IsStore(db) /\ MaxSeq \in Nat /\ GlobalSeq(db) \in 0..MaxSeq
      BY RocksBounds DEF RocksInv, DbInv
    <2>2. EventsAgree(db) /\ \A n \in Numbers(db) : n \in Nat /\ n <= GlobalSeq(db)
      BY DEF RocksInv, CounterInv, EventsAgree
    <2>3. \A n \in Numbers(db) : n <= MaxSeq
      BY <2>1, <2>2
    <2>4. QED
      BY <2>1, <2>2, <2>3, RunPages, ProjectQuery DEF PagesComplete
  <1>2. QED
    BY <1>1, RocksInvariant, PTL

\* Every run is in a list that has room for the whole index, also a run without
\* started_at that was written more than once; lists of runs that have one are
\* the newest runs, each once.
THEOREM RunsAreListed == Spec => []RunsListed
  <1>1. RocksInv => RunsListed
    <2> SUFFICES ASSUME RocksInv PROVE RunsListed
      OBVIOUS
    <2>1. IsStore(db) /\ RunsAgree(db)
      BY DEF RocksInv, DbInv
    <2>2. QED
      BY <2>1, RunList, WholeRunList, Zenon DEF RunsListed, NewerRuns
  <1>2. QED
    BY <1>1, RocksInvariant, PTL
=============================================================================
