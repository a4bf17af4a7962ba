-------------------------------- MODULE Wal --------------------------------
(***************************************************************************)
(* The application write-ahead log of the storage engine (core/src/wal.cpp)*)
(* and the one way its owner uses it: an entry is appended, the mutation   *)
(* is tried, and the entry is then either marked applied or given up.      *)
(*                                                                         *)
(* Disk state: the log file, a sequence of records of which some may be    *)
(* torn (the process died inside append), and the applied.seq file.        *)
(* Volatile state: the two atomic counters and the entries a running       *)
(* truncate_applied has read.  Payloads are opaque.  The CRC is written    *)
(* and never compared, so a reader does not notice a torn record: it fills *)
(* it up with the bytes behind it and is out of step from there on.        *)
(***************************************************************************)
EXTENDS Naturals, Sequences, FiniteSets, Subsequences

CONSTANTS
    Payload,      \* serialised mutations handed to append
    NoPayload,    \* marks the absence of an entry in flight
    Garbled,      \* stands for every payload that nobody appended
    MaxSeq,       \* bound: WAL sequence numbers assigned
    MaxCrash,     \* bound: crashes
    MaxTorn,      \* bound: crashes that tear a record
    MaxTruncate,  \* bound: calls of truncate_applied
    MaxMisread    \* bound: entries a reader makes out behind a torn record

ASSUME WalBounds == {MaxSeq, MaxCrash, MaxTorn, MaxTruncate, MaxMisread} \subseteq Nat
ASSUME NoPayloadAssumption == NoPayload \notin Payload /\ Garbled \notin Payload

VARIABLES
    walFile,      \* wal.log
    appliedFile,  \* applied.seq; 0 stands for a missing or an empty file
    walUp,        \* the log is open in a live process
    lastSeq,      \* last_seq_
    appliedSeq,   \* applied_seq_
    keep,         \* entries read by the truncate_applied in progress
    truncating,   \* a truncate_applied is between its read and its rename
    inflight,     \* entry appended by this process whose mutation is undecided
    owed,         \* entry that was in flight when an earlier process died
    crashes, torn, truncations  \* counts of the bounded events

walVars == <<walFile, appliedFile, walUp, lastSeq, appliedSeq, keep,
             truncating, inflight, owed, crashes, torn, truncations>>

Record == [seq : Nat, payload : Payload \cup {Garbled}, torn : BOOLEAN]

WalTypeOK ==
    /\ walFile \in Seq(Record)
    /\ appliedFile \in Nat
    /\ walUp \in BOOLEAN
    /\ lastSeq \in Nat
    /\ appliedSeq \in Nat
    /\ keep \in Seq(Record)
    /\ truncating \in BOOLEAN
    /\ {inflight, owed} \subseteq Payload \cup {NoPayload}
    /\ {crashes, torn, truncations} \subseteq Nat

-----------------------------------------------------------------------------
(* What a reader of the file sees.                                         *)

\* Records before the first torn one.
Intact(file) ==
    LET ok(n) == \A i \in 1..n : ~file[i].torn
        len   == CHOOSE n \in 0..Len(file) :
                    ok(n) /\ \A m \in 0..Len(file) : ok(m) => m <= n
    IN  SubSeq(file, 1, len)

\* What a reader may make of the bytes from the first torn record on, when
\* others follow it: entries with any number and bytes of several records, or
\* by chance a record of the file (the torn one, if only its CRC is missing,
\* and a later one, if the reader is in step again), until a length it reads
\* takes it past the end.
MisreadEntries(file) ==
    [seq : 0..MaxSeq, payload : {Garbled}, torn : {FALSE}]
        \cup {[file[i] EXCEPT !.torn = FALSE] : i \in (Len(Intact(file)) + 1)..Len(file)}

Misreads(file) == UNION {[1..n -> MisreadEntries(file)] : n \in 0..MaxMisread}

\* The entries a pass over the file may return.  A torn record at the very end
\* is not returned: its payload or its CRC cannot be read.
Reads(file) ==
    IF Len(Intact(file)) + 1 >= Len(file) THEN {Intact(file)}
    ELSE {Intact(file) \o m : m \in Misreads(file)}

Above(s, after) == SelectAt(s, {i \in 1..Len(s) : s[i].seq > after})

\* A mistake: the first entry above the watermark is passed over.
ReadUnappliedLate(file, after) == {Above(s, after + 1) : s \in Reads(file)}

\* read_unapplied(after): of the entries read, those above the given number.
ReadUnapplied(file, after) == {Above(s, after) : s \in Reads(file)}

SeqsIn(file) == {file[i].seq : i \in 1..Len(file)}

IsHighest(n, file) == n \in SeqsIn(file) \cup {0} /\ \A m \in SeqsIn(file) : m <= n

\* A mistake: the scan stops one short, below zero for an empty log.
ScanOneShort(file) == {n - 1 : n \in {m \in 0..MaxSeq : IsHighest(m, Intact(file))}}

\* The values the scan in open() may leave in last_seq_: the highest number
\* read.  A torn record at the end counts when its 21 header bytes were
\* written, because seeking past the end of the file does not fail; behind a
\* torn record the header bytes are those of some payload, so any larger
\* number may be read.
ScanLastSeq(file) ==
    LET good == Intact(file)
    IN  {n \in 0..MaxSeq :
            \/ IsHighest(n, good)
            \/ Len(good) = Len(file) - 1 /\ IsHighest(n, file)
            \/ Len(good) < Len(file) - 1 /\ \A m \in SeqsIn(good) : m <= n}

-----------------------------------------------------------------------------
WalInit ==
    /\ walFile = <<>>
    /\ appliedFile = 0
    /\ walUp = TRUE
    /\ lastSeq = 0
    /\ appliedSeq = 0
    /\ keep = <<>>
    /\ truncating = FALSE
    /\ inflight = NoPayload /\ owed = NoPayload
    /\ crashes = 0 /\ torn = 0 /\ truncations = 0

\* Wal::append: number the entry, write record and CRC, fsync.
WalAppend(p) ==
    /\ walUp
    /\ lastSeq < MaxSeq
    /\ lastSeq' = lastSeq + 1
    /\ walFile' = Append(walFile, [seq |-> lastSeq + 1, payload |-> p, torn |-> FALSE])
    /\ inflight' = p
    /\ UNCHANGED <<appliedFile, walUp, appliedSeq, keep, truncating, owed, crashes, torn, truncations>>

\* Wal::mark_applied: a watermark that only rises, in memory and on disk.  Past
\* the first mark of a new process nobody can tell any more what it was owed.
MarkApplied(s) ==
    /\ walUp
    /\ IF s > appliedSeq
       THEN appliedSeq' = s /\ appliedFile' = s
       ELSE UNCHANGED <<appliedSeq, appliedFile>>
    /\ inflight' = NoPayload /\ owed' = NoPayload
    /\ UNCHANGED <<walFile, walUp, lastSeq, keep, truncating, crashes, torn, truncations>>

\* The owner gives up on the entry (its RocksDB write threw); the log is not told.
GiveUp ==
    /\ walUp
    /\ inflight # NoPayload
    /\ inflight' = NoPayload
    /\ UNCHANGED <<walFile, appliedFile, walUp, lastSeq, appliedSeq, keep, truncating,
                   owed, crashes, torn, truncations>>

\* Wal::truncate_applied up to the rename: it takes no lock, reads the
\* watermark and the entries above it, and writes them to a second file.
TruncateRead ==
    /\ walUp /\ ~truncating
    /\ truncations < MaxTruncate
    /\ truncations' = truncations + 1
    /\ truncating' = TRUE
    /\ keep' \in ReadUnapplied(walFile, appliedSeq)
    /\ UNCHANGED <<walFile, appliedFile, walUp, lastSeq, appliedSeq, inflight, owed, crashes, torn>>

\* The rename that replaces the log by the copy, and the reopen of the descriptor.
TruncateSwap ==
    /\ walUp /\ truncating
    /\ walFile' = keep
    /\ truncating' = FALSE
    /\ keep' = <<>>
    /\ UNCHANGED <<appliedFile, walUp, lastSeq, appliedSeq, inflight, owed, crashes, torn, truncations>>

-----------------------------------------------------------------------------
\* The process dies: the volatile half is gone, and the entry that was in
\* flight is what a recovery owes.
Die ==
    /\ walUp
    /\ crashes < MaxCrash
    /\ crashes' = crashes + 1
    /\ walUp' = FALSE
    /\ lastSeq' = 0 /\ appliedSeq' = 0
    /\ keep' = <<>> /\ truncating' = FALSE
    /\ owed' = IF inflight = NoPayload THEN owed ELSE inflight
    /\ inflight' = NoPayload
    /\ UNCHANGED truncations

Crash == Die /\ UNCHANGED <<walFile, appliedFile, torn>>

\* The process dies inside append, between the first write() and the fsync.
CrashInAppend(p) ==
    /\ Die
    /\ torn < MaxTorn /\ torn' = torn + 1
    /\ lastSeq < MaxSeq
    /\ walFile' = Append(walFile, [seq |-> lastSeq + 1, payload |-> p, torn |-> TRUE])
    /\ UNCHANGED appliedFile

\* The process dies inside mark_applied after the file was truncated to nothing.
CrashInMark ==
    /\ inflight # NoPayload
    /\ Die
    /\ appliedFile' = 0
    /\ UNCHANGED <<walFile, torn>>

\* A mistake: the log is not scanned for its last number.
OpenWithoutScan ==
    /\ ~walUp
    /\ walUp' = TRUE
    /\ appliedSeq' = appliedFile
    /\ lastSeq' = 0
    /\ UNCHANGED <<walFile, appliedFile, keep, truncating, inflight, owed, crashes, torn, truncations>>

\* Wal::Impl::open in a new process.
Open ==
    /\ ~walUp
    /\ walUp' = TRUE
    /\ appliedSeq' = appliedFile
    /\ lastSeq' \in ScanLastSeq(walFile)
    /\ UNCHANGED <<walFile, appliedFile, keep, truncating, inflight, owed, crashes, torn, truncations>>

-----------------------------------------------------------------------------
\* Every entry is a new mutation, and the owner serialises its use of the log
\* under write_mu: it appends only when its previous entry is settled.
Unused(p) == /\ \A i \in 1..Len(walFile) : walFile[i].payload # p
             /\ \A i \in 1..Len(keep) : keep[i].payload # p

OwnerAppend(p) == inflight = NoPayload /\ Unused(p) /\ WalAppend(p)

OwnerMark == inflight # NoPayload /\ MarkApplied(lastSeq)

OwnerCrashInAppend(p) == inflight = NoPayload /\ Unused(p) /\ CrashInAppend(p)

WalNext ==
    \/ \E p \in Payload : OwnerAppend(p)
    \/ OwnerMark
    \/ GiveUp
    \/ TruncateRead
    \/ TruncateSwap
    \/ Crash
    \/ \E p \in Payload : OwnerCrashInAppend(p)
    \/ CrashInMark
    \/ Open

WalSpec == WalInit /\ [][WalNext]_walVars

-----------------------------------------------------------------------------
(* Properties.                                                             *)

\* Whatever read_unapplied(after) makes of the file, an entry with payload p is
\* among what it returns.
Returned(file, after, p) ==
    \A u \in ReadUnapplied(file, after) : \E i \in 1..Len(u) : u[i].payload = p

\* Crash recovery can find its work: the entry whose mutation is undecided,
\* and after a restart the one that was undecided when the process died, is
\* among what read_unapplied(applied_seq()) returns ("Read all entries with
\* wal_seq > after_seq for crash recovery").  It holds as long as no record was
\* torn and the log was not truncated: behind a torn record a reader is out of
\* step, and a truncation loses what is appended while it copies.
RecoveryFindsInFlight ==
    walUp /\ torn = 0 /\ truncations = 0 =>
        \A p \in {inflight, owed} \ {NoPayload} : Returned(walFile, appliedSeq, p)

\* The watermark never overtakes the numbering, with the same exceptions: an
\* entry appended next is numbered above everything marked applied, so that it
\* starts out unapplied.
WatermarkBehindLast ==
    walUp /\ torn = 0 /\ truncations = 0 => appliedSeq <= lastSeq

Ascending(s) == \A i, j \in 1..Len(s) : i < j => s[i].seq < s[j].seq

\* Records are in the order of the appends and name no number twice: all that a
\* recovery reads if no record was ever torn, whatever was truncated and
\* numbered again, and otherwise the part in front of the torn record, until a
\* truncation makes entries of what it misread behind it.
ReadInOrder ==
    /\ torn = 0 => \A s \in Reads(walFile) : Ascending(s)
    /\ truncations = 0 => Ascending(Intact(walFile))

\* The numbering that open() takes up again after a crash is sound: above the
\* watermark, and in order for whoever reads the log.
NumberingSound == WatermarkBehindLast /\ ReadInOrder
=============================================================================
