--------------------------- MODULE EventStoreReads --------------------------
(***************************************************************************)
(* The read side of the storage engine: timeline, query and verify, as     *)
(* functions of the database.  They take no lock; each reads one iterator  *)
(* over an index, which a WriteBatch changes in one step.  Run identifiers *)
(* are numbers here because the indexes are ordered by them.               *)
(***************************************************************************)
EXTENDS EventStore, SequencesExt

CONSTANTS
    Limits,       \* page sizes callers ask for
    TypeLists,    \* event_types filters callers ask for
    VerifyLimit   \* page size of verify(): 5000 in the code

ASSUME ReadsAssumption ==
    RunIds \subseteq Nat /\ Limits \subseteq Nat \ {0} /\ VerifyLimit \in Nat \ {0}

NoCursor == 0   \* sequence numbers start at 1

-----------------------------------------------------------------------------
\* The numbers in S in the order of an index scan.
Ascending(S) == [i \in 1..Cardinality(S) |-> CHOOSE s \in S : Cardinality({t \in S : t < s}) = i - 1]

Rows(d, seqs) == [i \in 1..Len(seqs) |-> d.events[seqs[i]]]

FirstOf(seqs, n) == IF Len(seqs) <= n THEN seqs ELSE SubSeq(seqs, 1, n)

\* timeline() of a run of the caller's own tenant (any other is refused): up to
\* limit events after the cursor.  A next cursor is given when the page is full
\* and the iterator is still on some index entry, which may be one of a run
\* that sorts later.
Timeline(d, r, limit, cursor) ==
    LET rest == {s \in OfRun(d.events, r) : s > cursor}
        page == FirstOf(Ascending(rest), limit)
        more == \/ Cardinality(rest) > limit
                \/ \E q \in RunIds : q > r /\ OfRun(d.events, q) # {}
    IN  [seqs |-> page,
         next |-> IF Len(page) = limit /\ more THEN page[limit] ELSE NoCursor]

\* verify(): the chain check on the first page of the timeline.
Verify(d, r) == VerifyChain(Rows(d, Timeline(d, r, VerifyLimit, NoCursor).seqs))

\* The ev_by_type index: events of a tenant's runs with the given type.
OfType(d, t, type) ==
    {s \in DOMAIN d.events : d.events[s].type = type /\ d.runs[d.events[s].run].tenant = t}

\* Those a query for run r takes from that index; NoRun is a query without run_id.
Selected(d, t, r, type) == {s \in OfType(d, t, type) : r \in {NoRun, d.events[s].run}}

\* A mistake: the cursor is the number after the last event scanned.
QueryOneFurther(d, t, r, types, limit, cursor) ==
    LET scan(i) == Ascending({s \in Selected(d, t, r, types[i]) : s > cursor})
        taken   == FirstOf(FlattenSeq([i \in 1..Len(types) |-> scan(i)]), limit)
    IN  [seqs |-> Ascending(ToSet(taken)),
         next |-> IF Len(taken) = limit THEN taken[limit] + 1 ELSE NoCursor]

\* query() with a list of event types: one index scan per type, in the order
\* of the list, until the limit is reached; the page is sorted afterwards, the
\* cursor is the last event scanned.
QueryByType(d, t, r, types, limit, cursor) ==
    LET scan(i) == Ascending({s \in Selected(d, t, r, types[i]) : s > cursor})
        taken   == FirstOf(FlattenSeq([i \in 1..Len(types) |-> scan(i)]), limit)
    IN  [seqs |-> Ascending(ToSet(taken)),
         next |-> IF Len(taken) = limit THEN taken[limit] ELSE NoCursor]

\* query(): without event types only a run filter returns anything.
Query(d, t, r, types, limit, cursor) ==
    IF types # <<>> THEN QueryByType(d, t, r, types, limit, cursor)
    ELSE IF r # NoRun THEN Timeline(d, r, limit, cursor)
    ELSE [seqs |-> <<>>, next |-> NoCursor]

-----------------------------------------------------------------------------
(* A client that follows next_cursor until there is none.                  *)

\* What it has got after the first page and up to n more; P has the page for every
\* cursor.
Follow(P, n) ==
    LET got[k \in 0..n] ==
            IF k = 0 THEN P[NoCursor]
            ELSE LET g == got[k - 1]
                 IN  IF g.next = NoCursor THEN g
                     ELSE [seqs |-> g.seqs \o P[g.next].seqs, next |-> P[g.next].next]
    IN  got[n]

\* There are not more pages than events, besides the first one.
TimelinePages(d, r, limit) ==
    Follow([c \in Nat |-> Timeline(d, r, limit, c)], Cardinality(DOMAIN d.events))

QueryPages(d, t, r, types, limit) ==
    Follow([c \in Nat |-> QueryByType(d, t, r, types, limit, c)], Cardinality(DOMAIN d.events))

-----------------------------------------------------------------------------
(* Properties.                                                             *)

\* verify() accepts every run the engine itself wrote, at every moment.
VerifyAccepts == \A r \in DOMAIN db.runs : Verify(db, r)

\* Within the page it reads, verify() notices a stored event whose content is
\* not what was hashed.
VerifyNoticesChange ==
    \A r \in DOMAIN db.runs :
        LET seqs == Timeline(db, r, VerifyLimit, NoCursor).seqs
        IN  \A i \in 1..Len(seqs) : \A type \in EventTypes \ {db.events[seqs[i]].type} :
                ~Verify([db EXCEPT !.events[seqs[i]].type = type], r)

\* verify() is exact: no false alarm on what the engine wrote, across failed
\* writes, replays and crashes, and no changed event unnoticed.
VerifyExact == VerifyAccepts /\ VerifyNoticesChange

\* Following the cursors of timeline() comes to an end and yields every event of
\* the run once and in order, for every page size, also when the page ends with
\* the run.
TimelinePagesComplete ==
    \A r \in DOMAIN db.runs, n \in Limits :
        TimelinePages(db, r, n) = [seqs |-> Ascending(OfRun(db.events, r)), next |-> NoCursor]

\* The interface as it can be paged: one event type per query.
OneTypeLists == \A types \in TypeLists : \E type \in EventTypes : types = <<type>>

\* Following the cursors of query() ("sequence > cursor") comes to an end and
\* yields every event of the tenant, or of the run, that has one of the types
\* asked for.
QueryPagesComplete ==
    \A t \in Tenants, r \in RunIds \cup {NoRun}, n \in Limits, types \in TypeLists :
        LET all == QueryPages(db, t, r, types, n)
        IN  /\ ToSet(all.seqs) = UNION {Selected(db, t, r, types[i]) : i \in 1..Len(types)}
            /\ all.next = NoCursor

\* Whoever follows cursors, of timeline() or of query() for one type, misses
\* nothing.  (Not for several types: their scans share one cursor, and events of
\* a later type below it are skipped.)  A call changes the database in one step,
\* so a reader between two calls meets every database there is.
CursorsComplete == pc = "idle" => TimelinePagesComplete /\ QueryPagesComplete
=============================================================================
