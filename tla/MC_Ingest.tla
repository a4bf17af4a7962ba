------------------------------ MODULE MC_Ingest -----------------------------
(* Instances of the collector's ingest service for TLC.                    *)
EXTENDS IngestReads, TLC

CONSTANTS c1, c2, r1, t1, t2, e1, e2, e3, e4, k1, k2, k3

E(id, k, type) == [id |-> id, key |-> k, type |-> type]

\* What an SDK sends for one run: every event has its key, a batch may be sent
\* again, and after a failure it is sent again with later events behind it.  An
\* agent that starts over with the same run_id emits its first event, whose key
\* is made of run, step and type, under a new event_id.  Another
\* process of the run sends an event of its own.  The last batch is of a newer
\* SDK with an event type this collector does not know.
SdkBatches ==
    { <<E(e1, k1, "started")>>,
      <<E(e1, k1, "started"), E(e2, k2, "committed")>>,
      <<E(e3, k1, "started")>>,
      <<E(e4, k3, "other")>>,
      <<E(e4, k3, "unknown")>> }

\* Single events, each sent again at any later time.
ReplayBatches == { <<E(e1, k1, "other")>>, <<E(e2, k2, "other")>>, <<E(e3, k3, "other")>> }

\* Pages of one event, and pages of two with a filter on types.
MCQueries == { [kind |-> "timeline", types |-> {}, limit |-> 1],
               [kind |-> "query", types |-> {"started", "committed"}, limit |-> 2] }

\* What RollbackSafe is claimed for.
ASSUME SdkSends == RepeatedFromStart /\ OneRun

Symmetry == Permutations(Replicas) \cup Permutations(Tenants)
=============================================================================
