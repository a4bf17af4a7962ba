------------------------------ MODULE Evidence ------------------------------
(***************************************************************************)
(* Evidence export (export.py) over the ingest service: a replica reads    *)
(* the events of a run, verifies the run in a later session, writes a zip  *)
(* under a name made of the run id into the directory that the replicas    *)
(* share (deploy/k8s/deployment.yaml mounts one volume), reads the file    *)
(* back for its hash, stores a row and appends an event about the export.  *)
(*                                                                         *)
(* Of the bundle only the events and the verdict are kept; run.json, the   *)
(* approvals and the rendered texts are copies made in the same session.   *)
(***************************************************************************)
EXTENDS Ingest

CONSTANTS
    ExportIds,  \* export_id values; the event about an export has the same id here
    MaxCuts     \* bound: exports cut off in the middle

ASSUME EvidenceIds == ExportIds \subseteq EventIds
ASSUME EvidenceBounds == MaxCuts \in Nat

VARIABLES
    file,       \* evidence_bundle_{run_id}.zip of each run
    exports,    \* evidence_exports
    ex,         \* the export each replica is working on
    started,    \* export ids given out
    overlapped, \* exports that used the file of a run at the same time (history)
    opened,     \* for each run the exports that opened its file, in order (history)
    cuts

evars == <<file, exports, ex, started, overlapped, opened, cuts>>
allvars == <<vars, evars>>

\* What the file holds: the exports that wrote into it since it was last
\* emptied, and whether the archive was closed.
NoFile == [by |-> {}, closed |-> FALSE]

NoExport == [pc |-> "idle", id |-> "none"]

EvidenceInit ==
    /\ Init
    /\ file = [r \in RunIds |-> NoFile]
    /\ exports = EmptyTable
    /\ ex = [c \in Replicas |-> NoExport]
    /\ started = {} /\ overlapped = {} /\ opened = [r \in RunIds |-> <<>>]
    /\ cuts = 0

-----------------------------------------------------------------------------
(* export_run.                                                             *)

\* The first session: the run, looked up for the tenant, and its events.
export_run(c, r, t, x) ==
    /\ req[c].pc = "idle" /\ ex[c].pc = "idle"
    /\ x \in ExportIds \ started
    /\ Authorized(r, t)
    /\ started' = started \cup {x}
    /\ ex' = [ex EXCEPT ![c] = [pc |-> "verify", id |-> x, run |-> r, tenant |-> t,
                                evs |-> OfRun(events, r), valid |-> FALSE, hash |-> NoFile]]
    /\ UNCHANGED <<vars, file, exports, overlapped, opened, cuts>>

\* verify(), in a session of its own.
Verified(c) ==
    /\ ex[c].pc = "verify"
    /\ ex' = [ex EXCEPT ![c].pc = "open", ![c].valid = verify(ex[c].run)]
    /\ UNCHANGED <<vars, file, exports, started, overlapped, opened, cuts>>

\* Exports of other replicas between the opening of the file and its hash.
Using(r, c) == {d \in Replicas \ {c} : ex[d].pc \in {"write", "hash"} /\ ex[d].run = r}

\* ZipFile(path, "w") empties the file.
OpenZip(c) ==
    LET r == ex[c].run
    IN  /\ ex[c].pc = "open"
        /\ file' = [file EXCEPT ![r] = [by |-> {ex[c].id}, closed |-> FALSE]]
        /\ ex' = [ex EXCEPT ![c].pc = "write"]
        /\ opened' = [opened EXCEPT ![r] = Append(@, ex[c].id)]
        /\ overlapped' = IF Using(r, c) = {} THEN overlapped
                         ELSE overlapped \cup {ex[d].id : d \in Using(r, c) \cup {c}}
        /\ UNCHANGED <<vars, exports, started, cuts>>

\* The members and, at the end of the with-block, the directory of the archive.
\* Bytes of two exports in one file are the work of both.
WriteZip(c) ==
    LET r == ex[c].run
    IN  /\ ex[c].pc = "write"
        /\ file' = [file EXCEPT ![r] = [by |-> @.by \cup {ex[c].id}, closed |-> TRUE]]
        /\ ex' = [ex EXCEPT ![c].pc = "hash"]
        /\ UNCHANGED <<vars, exports, started, overlapped, opened, cuts>>

\* A mistake: the bytes are read inside the with-block.
HashEarly(c) ==
    /\ ex[c].pc = "hash"
    /\ ex' = [ex EXCEPT ![c].pc = "insert", ![c].hash = [by |-> {ex[c].id}, closed |-> FALSE]]
    /\ UNCHANGED <<vars, file, exports, started, overlapped, opened, cuts>>

\* read_bytes and the hash: of what the file holds now.
HashFile(c) ==
    /\ ex[c].pc = "hash"
    /\ ex' = [ex EXCEPT ![c].pc = "insert", ![c].hash = file[ex[c].run]]
    /\ UNCHANGED <<vars, file, exports, started, overlapped, opened, cuts>>

\* The second session stores the row; append_events then reads the run again.
ExportEvent(x) == <<[id |-> x, key |-> NoKey, type |-> "other"]>>

InsertExport(c) ==
    LET e == ex[c]
    IN  /\ e.pc = "insert"
        /\ exports' = Put(exports, e.id, [run |-> e.run, tenant |-> e.tenant, hash |-> e.hash,
                                          evs |-> e.evs, valid |-> e.valid])
        /\ req' = [req EXCEPT ![c] = AppendRequest(e.run, ExportEvent(e.id))]
        /\ ex' = [ex EXCEPT ![c].pc = "append"]
        /\ UNCHANGED <<runs, events, nextSeq, acked, requests, fails, file, started, overlapped, opened, cuts>>

\* The answer, whether or not the event could be appended.
ExportDone(c) ==
    /\ ex[c].pc = "append" /\ req[c].pc = "idle"
    /\ ex' = [ex EXCEPT ![c] = NoExport]
    /\ UNCHANGED <<vars, file, exports, started, overlapped, opened, cuts>>

\* A statement or a file operation fails, or the replica dies.
ExportFails(c) ==
    /\ ex[c].pc \in {"verify", "open", "write", "hash", "insert"}
    /\ cuts < MaxCuts /\ cuts' = cuts + 1
    /\ ex' = [ex EXCEPT ![c] = NoExport]
    /\ UNCHANGED <<vars, file, exports, started, overlapped, opened>>

ExportStep(c) ==
    \/ \E r \in RunIds, t \in Tenants, x \in ExportIds : export_run(c, r, t, x)
    \/ Verified(c) \/ OpenZip(c) \/ WriteZip(c) \/ HashFile(c) \/ InsertExport(c)
    \/ ExportDone(c) \/ ExportFails(c)

\* GET /v1/audit/exports/{export_id}/download: the file as it is now.
download(x, t) ==
    IF x \notin DOMAIN exports THEN "404"
    ELSE IF exports[x].tenant # t THEN "403"
    ELSE IF file[exports[x].run] = NoFile THEN "410" ELSE "bundle"

-----------------------------------------------------------------------------
\* A replica that exports serves nothing else; its append runs statement by statement.
EvidenceNext ==
    \/ \E c \in Replicas : ExportStep(c)
    \/ \E c \in Replicas : /\ Statement(c) \/ (ex[c].pc = "idle" /\ Request(c))
                           /\ UNCHANGED evars

EvidenceSpec == EvidenceInit /\ [][EvidenceNext]_allvars

-----------------------------------------------------------------------------
\* A bundle that says hash_chain_valid holds events that form one unbroken
\* chain, although the verdict is about the events of a later moment, and
\* replicas append, out of order too, between the two sessions.
ValidMeansIntact ==
    \A x \in DOMAIN exports :
        exports[x].valid => Linked([s \in exports[x].evs |-> events[s]])

\* The tenant of an export can download it, and what it gets has the hash of the
\* row and is that export's bundle, as long as no other export has opened the
\* run's file since and none used it at the same time.
DownloadMatches ==
    \A x \in DOMAIN exports :
        LET r == exports[x].run
        IN  /\ download(x, runs[r].tenant) = "bundle"
            /\ opened[r][Len(opened[r])] = x /\ x \notin overlapped
                  => /\ file[r] = exports[x].hash
                     /\ exports[x].hash = [by |-> {x}, closed |-> TRUE]
=============================================================================
