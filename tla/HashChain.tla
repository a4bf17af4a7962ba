----------------------------- MODULE HashChain ------------------------------
(***************************************************************************)
(* Event hashes and the relations between the events of a chain            *)
(* (core/src/hash_chain.cpp; sdk/python/controldb/hashing.py computes the  *)
(* same hash).  SHA-256 over the canonical JSON of an event, its           *)
(* previous_event_hash included, is taken to be free of collisions: the    *)
(* hash of an event is the list of the contents of its chain, ending with  *)
(* the event's own.  The hash of nothing (null in the JSON) is the empty   *)
(* list.                                                                   *)
(***************************************************************************)
EXTENDS Naturals, Sequences, FiniteSets

NoHash == <<>>

\* What is hashed besides previous_event_hash: every field but the hash itself.
\* (The sequence number is not part of a row here; it is not hashed.)
Content(e) == [f \in DOMAIN e \ {"prev", "hash"} |-> e[f]]

\* compute_event_hash.
EventHash(e) == Append(e.prev, Content(e))

-----------------------------------------------------------------------------
(* The events table: a function from the sequence numbers in use to rows.   *)

\* Sequence numbers of the events of one run: the ev_by_run index.
OfRun(events, r) == {s \in DOMAIN events : events[s].run = r}

Before(events, r, s) == {t \in OfRun(events, r) : t < s}

\* h is the hash of the newest event among those numbered in S.
HeadIs(events, S, h) ==
    \/ S = {} /\ h = NoHash
    \/ \E t \in S : (\A u \in S : u <= t) /\ h = events[t].hash

\* Every event carries the hash of the one before it in its run, and its own
\* hash recomputes: what verify_chain checks along the timeline of a run.
Linked(events) ==
    \A s \in DOMAIN events :
        /\ events[s].hash = EventHash(events[s])
        /\ HeadIs(events, Before(events, events[s].run, s), events[s].prev)

-----------------------------------------------------------------------------
\* A mistake: the links are compared but no hash is recomputed.
VerifyLinksOnly(evs) ==
    \A i \in 1..Len(evs) : evs[i].prev = IF i = 1 THEN NoHash ELSE evs[i - 1].hash

\* verify_chain on the events of a timeline page.
VerifyChain(evs) ==
    \A i \in 1..Len(evs) :
        /\ evs[i].prev = IF i = 1 THEN NoHash ELSE evs[i - 1].hash
        /\ evs[i].hash = EventHash(evs[i])
=============================================================================
