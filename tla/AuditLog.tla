------------------------------ MODULE AuditLog ------------------------------
(***************************************************************************)
(* What ControlDB promises of its record of agent actions, without any     *)
(* mechanism: per run a log that only grows at its end, by whole batches,  *)
(* and in which no idempotency key is recorded twice.                      *)
(***************************************************************************)
EXTENDS Naturals, Sequences

CONSTANTS RunIds, NoKey

VARIABLE runLog   \* run |-> sequence of recorded contents, for the runs started

\* The key occurs in the log of some run.
Recorded(logs, k) ==
    \E r \in DOMAIN logs : \E i \in 1..Len(logs[r]) : logs[r][i].key = k

IsExtension(old, new) ==
    Len(old) <= Len(new) /\ \A i \in 1..Len(old) : new[i] = old[i]

Init == runLog = [r \in {} |-> <<>>]

Start(r) ==
    /\ r \notin DOMAIN runLog
    /\ runLog' = [q \in DOMAIN runLog \cup {r} |-> IF q = r THEN <<>> ELSE runLog[q]]

\* A batch is recorded: the log of one run is extended by entries whose keys
\* are new.
Record(r) ==
    /\ r \in DOMAIN runLog
    /\ runLog' = [q \in DOMAIN runLog |-> IF q = r THEN runLog'[r] ELSE runLog[q]]
    /\ IsExtension(runLog[r], runLog'[r])
    /\ \A i \in Len(runLog[r]) + 1 .. Len(runLog'[r]) :
          runLog'[r][i].key # NoKey =>
              /\ ~Recorded(runLog, runLog'[r][i].key)
              /\ \A j \in Len(runLog[r]) + 1 .. i - 1 :
                    runLog'[r][j].key # runLog'[r][i].key

Next == \E r \in RunIds : Start(r) \/ Record(r)

Spec == Init /\ [][Next]_runLog
=============================================================================
