---------------------------- MODULE MC_Evidence -----------------------------
(* Instances of evidence export for TLC.                 *)
EXTENDS Evidence, TLC

CONSTANTS c1, c2, r1, t1, t2, e1, e2, x1, x2, k1, k2

\* Two agents' events, sent to whichever replica is free.
MCBatches == { <<[id |-> e1, key |-> k1, type |-> "other"]>>,
               <<[id |-> e2, key |-> k2, type |-> "committed"]>> }

Symmetry == Permutations(Replicas) \cup Permutations(ExportIds) \cup Permutations(Tenants)
=============================================================================
