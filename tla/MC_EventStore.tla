---------------------------- MODULE MC_EventStore ---------------------------
(* Instances of the storage engine for TLC.  Runs are numbers because the   *)
(* indexes of the read side are ordered by them.                            *)
EXTENDS EventStoreReads, TLC

CONSTANTS t1, t2, k1, k2, a1, x1

Ev(k, type) == [key |-> k, type |-> type]

\* Batches with distinct keys: new events, a partial replay (the second batch
\* repeats a key of the first), a keyless event and status changes.
DistinctBatches ==
    { <<Ev(k1, "other"), Ev(k2, "committed")>>,
      <<Ev(k2, "committed"), Ev(NoKey, "started")>> }

OneType == { <<"other">>, <<"started">> }

\* The queries asked here can be paged; the proofs assume it.
ASSUME QueriesPaged == OneTypeLists

Symmetry == Permutations(Tenants)
=============================================================================
