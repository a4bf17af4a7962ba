------------------------------ MODULE MC_Rocks ------------------------------
(* Instances of the Python RocksDB backend for TLC.                         *)
EXTENDS RocksBackend, TLC

CONSTANTS t1, t2, a1, k1, e1, e2, e3, x1

Ev(id, r, type, k) == [kind |-> "event", id |-> id, run |-> r, type |-> type, key |-> k]

\* Three events of one run: one with a key, one whose key is that with ":hash"
\* behind it, one without a key.
MCEvents == {Ev(e1, 1, 1, k1), Ev(e2, 1, 2, HashKey(k1)), Ev(e3, 1, 2, NoKey)}

\* Two runs start in the same millisecond, the third has no started_at.
MCStarted == [r \in RunIds |-> IF r = 3 THEN NoTime ELSE 1]

\* What the sessions of one caller are about: events, with an object of another
\* class among them, or rows of runs and of an approval.
MCBodies ==
    {{Ev(e1, 1, 1, k1), Ev(e2, 1, 2, HashKey(k1))},
     {Ev(e3, 1, 2, NoKey), OtherObject(x1)},
     {RunRow(1, "running"), RunRow(2, "running")},
     {RunRow(3, "running"), ApprovalRow(a1, "requested")}}

\* Sessions with events only.
MCEventBodies == {b \in MCBodies : b \subseteq MCEvents}

Symmetry == Permutations(Threads)
=============================================================================
