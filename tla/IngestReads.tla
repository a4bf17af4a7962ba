---------------------------- MODULE IngestReads -----------------------------
(***************************************************************************)
(* Readers of the collector on PostgreSQL: a client that follows the       *)
(* cursors of GET /v1/runs/{run_id}/timeline (ingest.py) or POST /v1/query *)
(* (query.py) while replicas append.  Every page is a SELECT of its own.   *)
(*                                                                         *)
(* A sequence number is taken when an event is inserted and the event is   *)
(* seen when its transaction commits, so that a lower number may appear    *)
(* after a higher one has been read.                                       *)
(***************************************************************************)
EXTENDS Ingest

CONSTANTS
    Queries,    \* what clients ask for: [kind, types, limit]
    QueryCap    \* the most rows query() selects (1000 in the code)

ASSUME ReadsCap == QueryCap \in Nat \ {0}
ASSUME ReadsQueries ==
    \A q \in Queries : /\ q.kind \in {"timeline", "query"} /\ q.types \subseteq EventTypes
                       /\ q.limit \in Nat /\ (q.kind = "timeline" => q.limit > 0)

VARIABLE rd     \* the reader: its request, its cursor and what it has got

\* hidden are numbers of transactions that were open when a page was read,
\* due the events that were there when the last page was read (both history).
NoReader == [pc |-> "idle", run |-> NoRun, tenant |-> "", ask |-> [kind |-> "none"],
             cursor |-> 0, seen |-> {}, hidden |-> {}, due |-> {}]

-----------------------------------------------------------------------------
\* The first rows of a SELECT ordered by sequence.
FirstRows(S, n) == {s \in S : Cardinality({u \in S : u <= s}) <= n}

\* The rows the WHERE clauses leave, without the cursor.
Matching(q) ==
    {s \in OfRun(events, q.run) : /\ q.ask.types # {} => events[s].type \in q.ask.types
                                  /\ runs[q.run].tenant = q.tenant}

\* LIMIT: a timeline's limit is at most 5000 already in the route; query() brings
\* its own into 1..1000.
RowLimit(ask) ==
    IF ask.kind = "timeline" THEN ask.limit
    ELSE IF ask.limit = 0 THEN 1 ELSE IF ask.limit > QueryCap THEN QueryCap ELSE ask.limit

Page(q) == FirstRows({s \in Matching(q) : s > q.cursor}, RowLimit(q.ask))

Newest(S) == CHOOSE s \in S : \A u \in S : u <= s

OpenNumbers == UNION {DOMAIN req[c].mine : c \in Replicas}

\* A mistake: there is a cursor if the page has more rows than were asked for.
AfterPageShort(q) ==
    LET rows == Page(q)
        more == rows # {} /\ Cardinality(rows) > q.ask.limit
    IN  [q EXCEPT !.pc = IF more THEN "more" ELSE "done",
                  !.cursor = IF rows = {} THEN q.cursor ELSE Newest(rows),
                  !.seen = q.seen \cup rows, !.hidden = q.hidden \cup OpenNumbers,
                  !.due = IF more THEN {} ELSE Matching(q)]

\* The client after one page.  next_cursor is there if the page has as many
\* rows as were asked for.
AfterPage(q) ==
    LET rows == Page(q)
        more == rows # {} /\ Cardinality(rows) = q.ask.limit
    IN  [q EXCEPT !.pc = IF more THEN "more" ELSE "done",
                  !.cursor = IF rows = {} THEN q.cursor ELSE Newest(rows),
                  !.seen = q.seen \cup rows, !.hidden = q.hidden \cup OpenNumbers,
                  !.due = IF more THEN {} ELSE Matching(q)]

\* A client asks for its first page.  timeline() refuses a foreign run; query()
\* answers with no rows.
read(r, t, ask) ==
    /\ rd.pc = "idle"
    /\ r \in DOMAIN runs
    /\ ask.kind = "timeline" => Authorized(r, t)
    /\ rd' = AfterPage([NoReader EXCEPT !.run = r, !.tenant = t, !.ask = ask])
    /\ UNCHANGED vars

\* The client asks for the page behind its cursor.
readOn ==
    /\ rd.pc = "more"
    /\ rd' = AfterPage(rd)
    /\ UNCHANGED vars

ReadsInit == Init /\ rd = NoReader
ReadsNext ==
    \/ Next /\ UNCHANGED rd
    \/ readOn
    \/ \E r \in RunIds, t \in Tenants, ask \in Queries : read(r, t, ask)

ReadsSpec == ReadsInit /\ [][ReadsNext]_<<vars, rd>>

-----------------------------------------------------------------------------
\* A client that follows the cursors to their end, while replicas append, has
\* got every event that was stored when it read its last page, except events of
\* transactions that were open while it was reading.  (Not for a query whose
\* limit is outside of 1..QueryCap: its first page never has a cursor.)
ReadersComplete ==
    rd.pc = "done" /\ (rd.ask.kind = "timeline" \/ rd.ask.limit \in 1..QueryCap)
        => rd.due \subseteq rd.seen \cup rd.hidden
=============================================================================
