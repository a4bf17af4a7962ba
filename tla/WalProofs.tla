----------------------------- MODULE WalProofs ------------------------------
(***************************************************************************)
(* Proofs about the write-ahead log: types, the order of the numbers a     *)
(* reader of the log sees, and that a recovery finds what was in flight,   *)
(* for every set of payloads and every bound.                              *)
(***************************************************************************)
EXTENDS Wal, SubsequenceProofs

-----------------------------------------------------------------------------
(* The inductive invariant.                                                *)

\* No record up to position n is torn, and no record at all.
Clear(file, n) == \A k \in 1..n : ~file[k].torn
Whole(file) == Clear(file, Len(file))

\* The intact part of a file is numbered upwards, from 1 at least.
InOrder(file) ==
    \A j \in 1..Len(file) : Clear(file, j) =>
        /\ 1 <= file[j].seq
        /\ \A i \in 1..(j - 1) : file[i].seq < file[j].seq

\* ... and not above n.
UpTo(file, n) == \A j \in 1..Len(file) : Clear(file, j) => file[j].seq <= n

\* The file holds an entry with payload p above the given number.
Holds(file, after, p) == \E i \in 1..Len(file) : file[i].payload = p /\ file[i].seq > after

\* New entries are numbered above those in the file and above those a running
\* truncation has copied.
Ordered ==
    /\ InOrder(walFile) /\ InOrder(keep) /\ Whole(keep)
    /\ walUp => UpTo(walFile, lastSeq) /\ UpTo(keep, lastSeq)

\* Neither torn records nor truncation disturb the order; only the two together
\* do, when a truncation writes down what it misread behind a torn record.
OrderInv ==
    /\ torn = 0 \/ truncations = 0 => Ordered
    /\ torn = 0 => Whole(walFile)
    /\ truncations = 0 => keep = <<>> /\ ~truncating
    /\ ~walUp => keep = <<>>

\* What holds before the first torn record and the first truncation: the log is
\* complete, its last number is last_seq_, both watermarks are behind it, and
\* entries whose mutation is undecided are above the watermark.
CleanLog ==
    /\ ~truncating
    /\ Whole(walFile)
    /\ appliedFile = 0 \/ \E n \in SeqsIn(walFile) : appliedFile <= n
    /\ walUp => appliedSeq = appliedFile /\ IsHighest(lastSeq, walFile)
    /\ inflight # NoPayload => walUp /\ Holds(walFile, appliedFile, inflight)
    /\ owed # NoPayload => Holds(walFile, appliedFile, owed)

CleanInv == torn = 0 /\ truncations = 0 => CleanLog

WalInv == WalTypeOK /\ OrderInv /\ CleanInv
-----------------------------------------------------------------------------
(* Reading the file.                                                       *)

\* Intact is the longest part of the file before a torn record: exactly the
\* positions up to which no record is torn.
LEMMA IntactIs ==
    ASSUME NEW f \in Seq(Record)
    PROVE  \E n \in 0..Len(f) : /\ Intact(f) = SubSeq(f, 1, n)
                                /\ Clear(f, n)
                                /\ \A m \in 0..Len(f) : Clear(f, m) => m <= n
<1>. DEFINE T == {k \in 1..Len(f) : f[k].torn}
            Longest(n) == Clear(f, n) /\ \A m \in 0..Len(f) : Clear(f, m) => m <= n
<1>1. \E n \in 0..Len(f) : Longest(n)
  <2>1. CASE T = {}
    <3>1. Len(f) \in 0..Len(f) /\ Clear(f, Len(f))
      BY <2>1 DEF Clear
    <3>. QED
      BY <3>1
  <2>2. CASE T # {}
    <3>1. T \in SUBSET Nat
      OBVIOUS
    <3>2. PICK k \in T : \A m \in T : k <= m
      BY <2>2, <3>1, LeastNumber
    <3>3. k \in 1..Len(f) /\ k - 1 \in 0..Len(f)
      BY <3>2
    <3>4. Clear(f, k - 1)
      BY <3>2, <3>3 DEF Clear
    <3>5. ASSUME NEW m \in 0..Len(f), Clear(f, m) PROVE m <= k - 1
      <4>1. k \notin 1..m
        BY <3>2, <3>5 DEF Clear
      <4>. QED
        BY <3>3, <4>1
    <3>. QED
      BY <3>3, <3>4, <3>5
  <2>. QED
    BY <2>1, <2>2
<1>2. PICK n \in 0..Len(f) : n = CHOOSE m \in 0..Len(f) : Longest(m)
  BY <1>1
<1>3. Longest(n)
  BY <1>1, <1>2
<1>4. Intact(f) = SubSeq(f, 1, n)
  BY <1>2 DEF Intact, Clear
<1>. QED
  BY <1>3, <1>4

\* The same, position by position.
LEMMA IntactPositions ==
    ASSUME NEW f \in Seq(Record), NEW r, r = Intact(f)
    PROVE  /\ r \in Seq(Record) /\ Len(r) <= Len(f)
           /\ \A i \in 1..Len(r) : i \in 1..Len(f) /\ r[i] = f[i] /\ Clear(f, i)
           /\ \A m \in 0..Len(f) : Clear(f, m) => m <= Len(r)
<1>1. PICK n \in 0..Len(f) : /\ r = SubSeq(f, 1, n)
                             /\ Clear(f, n)
                             /\ \A m \in 0..Len(f) : Clear(f, m) => m <= n
  BY IntactIs
<1>2. r \in Seq(Record) /\ Len(r) = n
  BY <1>1
<1>3. \A i \in 1..n : i \in 1..Len(f) /\ r[i] = f[i]
  BY <1>1
<1>4. \A i \in 1..n : Clear(f, i)
  BY <1>1 DEF Clear
<1>. QED
  BY <1>1, <1>2, <1>3, <1>4

\* Sequence numbers are numbers.
LEMMA SeqNumbers ==
    ASSUME NEW f \in Seq(Record)
    PROVE  SeqsIn(f) \subseteq Nat
<1>1. \A i \in 1..Len(f) : f[i] \in Record
  OBVIOUS
<1>. QED
  BY <1>1 DEF SeqsIn, Record

\* The sequence numbers a reader sees.
LEMMA IntactSeqs ==
    ASSUME NEW f \in Seq(Record), NEW n \in Nat, \A m \in SeqsIn(Intact(f)) : m <= n
    PROVE  UpTo(f, n)
<1>. DEFINE r == Intact(f)
<1>. SUFFICES ASSUME NEW j \in 1..Len(f), Clear(f, j) PROVE f[j].seq <= n
  BY DEF UpTo
<1>1. j \in 1..Len(r) /\ r[j] = f[j]
  BY IntactPositions
<1>2. r[j].seq \in SeqsIn(r)
  BY <1>1 DEF SeqsIn
<1>. QED
  BY <1>1, <1>2

\* A pass over the file returns entries, and of a whole file just its records.
LEMMA ReadsTyped ==
    ASSUME NEW f \in Seq(Record), NEW s \in Reads(f)
    PROVE  s \in Seq(Record) /\ (Whole(f) => s = Intact(f))
<1>1. PICK r : r = Intact(f)
  OBVIOUS
<1>2. /\ r \in Seq(Record) /\ Len(r) <= Len(f)
      /\ \A m \in 0..Len(f) : Clear(f, m) => m <= Len(r)
  BY <1>1, IntactPositions
<1>3. CASE s = r
  BY <1>1, <1>2, <1>3
<1>4. CASE Len(r) + 1 < Len(f) /\ \E m \in Misreads(f) : s = r \o m
  <2>1. ~Whole(f)
    <3>1. Len(f) \in 0..Len(f)
      OBVIOUS
    <3>. QED
      BY <1>2, <1>4, <3>1 DEF Whole
  <2>2. PICK m \in Misreads(f) : s = r \o m
    BY <1>4
  <2>3. PICK n \in 0..MaxMisread : m \in [1..n -> MisreadEntries(f)]
    BY <2>2 DEF Misreads
  <2>4. MisreadEntries(f) \subseteq Record
    <3>1. ASSUME NEW e \in [seq : 0..MaxSeq, payload : {Garbled}, torn : {FALSE}]
          PROVE  e \in Record
      <4>1. /\ e = [seq |-> e.seq, payload |-> e.payload, torn |-> e.torn]
            /\ e.seq \in 0..MaxSeq /\ e.payload = Garbled /\ e.torn = FALSE
        OBVIOUS
      <4>2. e.seq \in Nat
        BY <4>1
      <4>3. e.payload \in Payload \cup {Garbled}
        BY <4>1
      <4>4. e.torn \in BOOLEAN
        BY <4>1
      <4>. QED
        BY <4>1, <4>2, <4>3, <4>4 DEF Record
    <3>2. ASSUME NEW i \in (Len(r) + 1)..Len(f)
          PROVE  [f[i] EXCEPT !.torn = FALSE] \in Record
      <4>1. f[i] \in Record
        BY <1>2, <3>2
      <4>. QED
        BY <4>1 DEF Record
    <3>. QED
      BY <1>1, <3>1, <3>2 DEF MisreadEntries
  <2>5. m \in Seq(Record)
    <3>1. n \in Nat /\ m \in [1..n -> Record]
      BY <2>3, <2>4, WalBounds
    <3>. QED
      BY <3>1
  <2>6. s \in Seq(Record)
    BY <1>2, <2>2, <2>5
  <2>. QED
    BY <2>1, <2>6
<1>5. s = r \/ (Len(r) + 1 < Len(f) /\ \E m \in Misreads(f) : s = r \o m)
  <2>1. CASE Len(r) + 1 >= Len(f)
    BY <1>1, <2>1 DEF Reads
  <2>2. CASE ~(Len(r) + 1 >= Len(f))
    BY <1>1, <1>2, <2>2 DEF Reads
  <2>. QED
    BY <2>1, <2>2
<1>. QED
  BY <1>3, <1>4, <1>5

\* read_unapplied returns entries, whatever it makes of the file.
LEMMA UnappliedTyped ==
    ASSUME NEW f \in Seq(Record), NEW a \in Nat, NEW u \in ReadUnapplied(f, a)
    PROVE  u \in Seq(Record)
<1>1. PICK s \in Reads(f) : u = Above(s, a)
  BY DEF ReadUnapplied
<1>2. s \in Seq(Record)
  BY <1>1, ReadsTyped
<1>. DEFINE I == {i \in 1..Len(s) : s[i].seq > a}
<1>3. u = SelectAt(s, I)
  BY <1>1 DEF Above
<1>. QED
  BY <1>2, <1>3, SelectAtSelects

\* Of a whole file read_unapplied returns records, in order, and each one that
\* is above the watermark.
LEMMA UnappliedIs ==
    ASSUME NEW f \in Seq(Record), Whole(f), NEW a \in Nat, NEW u \in ReadUnapplied(f, a)
    PROVE  /\ u \in Seq(Record)
           /\ \E h \in [1..Len(u) -> 1..Len(f)] :
                /\ \A k \in 1..Len(u) : u[k] = f[h[k]] /\ Clear(f, h[k])
                /\ \A j, k \in 1..Len(u) : j < k => h[j] < h[k]
                /\ \A i \in 1..Len(f) : Clear(f, i) /\ f[i].seq > a => \E k \in 1..Len(u) : h[k] = i
<1>1. PICK r : r = Intact(f)
  OBVIOUS
<1>2. /\ r \in Seq(Record) /\ Len(r) <= Len(f)
      /\ \A i \in 1..Len(r) : i \in 1..Len(f) /\ r[i] = f[i] /\ Clear(f, i)
      /\ \A m \in 0..Len(f) : Clear(f, m) => m <= Len(r)
  BY <1>1, IntactPositions
<1>. DEFINE I == {i \in 1..Len(r) : r[i].seq > a}
<1>3. u = SelectAt(r, I)
  <2>1. PICK s \in Reads(f) : u = Above(s, a)
    BY DEF ReadUnapplied
  <2>2. s = r
    BY <1>1, <2>1, ReadsTyped
  <2>. QED
    BY <2>1, <2>2 DEF Above
<1>4. u \in Seq(Record) /\ Picks(r, I, Len(r), u)
  BY <1>2, <1>3, SelectAtSelects
<1>5. PICK h : PicksBy(r, I, Len(r), u, h)
  BY <1>4 DEF Picks
<1>6. h \in [1..Len(u) -> 1..Len(r)]
  BY <1>5 DEF PicksBy
<1>7. h \in [1..Len(u) -> 1..Len(f)]
  BY <1>2, <1>6
<1>8. ASSUME NEW k \in 1..Len(u) PROVE u[k] = f[h[k]] /\ Clear(f, h[k])
  <2>1. h[k] \in 1..Len(r) /\ u[k] = r[h[k]]
    BY <1>5, <1>6 DEF PicksBy
  <2>. QED
    BY <1>2, <2>1
<1>9. ASSUME NEW i \in 1..Len(f), Clear(f, i), f[i].seq > a PROVE \E k \in 1..Len(u) : h[k] = i
  <2>1. i <= Len(r)
    BY <1>2, <1>9
  <2>2. i \in 1..Len(r) /\ r[i] = f[i]
    BY <1>2, <2>1
  <2>3. i \in I
    BY <1>9, <2>2
  <2>. QED
    BY <1>5, <2>2, <2>3 DEF PicksBy
<1>10. \A j, k \in 1..Len(u) : j < k => h[j] < h[k]
  BY <1>5 DEF PicksBy
<1>. QED
  BY <1>4, <1>7, <1>8, <1>9, <1>10

-----------------------------------------------------------------------------
(* One more record, and a copy of a part.                                  *)

\* Appending a record numbered above what can be read keeps the order; the
\* record itself can be read if nothing before it is torn.
LEMMA AppendOrder ==
    ASSUME NEW f \in Seq(Record), NEW n \in Nat, InOrder(f), UpTo(f, n),
           NEW r \in Record, r.seq = n + 1, NEW g, g = Append(f, r)
    PROVE  g \in Seq(Record) /\ InOrder(g) /\ UpTo(g, n + 1)
<1>1. /\ g \in Seq(Record) /\ Len(g) = Len(f) + 1
      /\ \A i \in 1..Len(f) : g[i] = f[i]
      /\ g[Len(f) + 1] = r
  OBVIOUS
<1>2. \A j \in 1..Len(f) : Clear(g, j) => Clear(f, j)
  BY <1>1 DEF Clear
<1>2a. \A i \in 1..Len(f) : f[i] \in Record
  OBVIOUS
<1>3. \A i \in 1..Len(f) : f[i].seq \in Nat
  BY <1>2a DEF Record
<1>4. ASSUME NEW j \in 1..Len(g), Clear(g, j)
      PROVE  /\ 1 <= g[j].seq /\ g[j].seq <= n + 1
             /\ \A i \in 1..(j - 1) : g[i].seq < g[j].seq
  <2>1. CASE j \in 1..Len(f)
    <3>1. Clear(f, j)
      BY <1>2, <1>4, <2>1
    <3>2. 1 <= f[j].seq /\ f[j].seq <= n /\ \A i \in 1..(j - 1) : f[i].seq < f[j].seq
      BY <2>1, <3>1 DEF InOrder, UpTo
    <3>3. \A i \in 1..(j - 1) : i \in 1..Len(f)
      BY <2>1
    <3>. QED
      BY <1>1, <1>3, <2>1, <3>2, <3>3
  <2>2. CASE j = Len(f) + 1
    <3>1. ASSUME NEW i \in 1..(j - 1) PROVE g[i].seq < n + 1
      <4>1. i \in 1..Len(f)
        BY <2>2
      <4>2. Clear(g, i)
        BY <1>1, <1>4, <4>1, <2>2 DEF Clear
      <4>3. f[i].seq <= n
        BY <1>2, <4>1, <4>2 DEF UpTo
      <4>. QED
        BY <1>1, <1>3, <4>1, <4>3
    <3>. QED
      BY <1>1, <2>2, <3>1
  <2>. QED
    BY <1>1, <2>1, <2>2
<1>. QED
  BY <1>1, <1>4 DEF InOrder, UpTo

\* What read_unapplied returns is whole and in order.
LEMMA UnappliedOrder ==
    ASSUME NEW f \in Seq(Record), Whole(f), NEW a \in Nat, NEW n \in Nat, InOrder(f), UpTo(f, n),
           NEW u \in ReadUnapplied(f, a)
    PROVE  u \in Seq(Record) /\ Whole(u) /\ InOrder(u) /\ UpTo(u, n)
<1>1. u \in Seq(Record)
  BY UnappliedIs
<1>2. PICK h \in [1..Len(u) -> 1..Len(f)] :
                /\ \A k \in 1..Len(u) : u[k] = f[h[k]] /\ Clear(f, h[k])
                /\ \A j, k \in 1..Len(u) : j < k => h[j] < h[k]
  BY UnappliedIs
<1>3. ASSUME NEW k \in 1..Len(u)
      PROVE  ~u[k].torn /\ 1 <= u[k].seq /\ u[k].seq <= n
  <2>1. h[k] \in 1..Len(f) /\ Clear(f, h[k]) /\ u[k] = f[h[k]]
    BY <1>2
  <2>2. ~f[h[k]].torn
    BY <2>1 DEF Clear
  <2>. QED
    BY <2>1, <2>2 DEF InOrder, UpTo
<1>4. ASSUME NEW j \in 1..Len(u), NEW i \in 1..(j - 1) PROVE u[i].seq < u[j].seq
  <2>1. i \in 1..Len(u) /\ i < j
    BY <1>1
  <2>2. /\ h[j] \in 1..Len(f) /\ Clear(f, h[j]) /\ u[j] = f[h[j]]
        /\ h[i] \in 1..Len(f) /\ u[i] = f[h[i]] /\ h[i] < h[j]
    BY <1>2, <2>1
  <2>3. h[i] \in 1..(h[j] - 1)
    BY <2>2
  <2>. QED
    BY <2>2, <2>3 DEF InOrder
<1>5. Whole(u)
  BY <1>3 DEF Whole, Clear
<1>6. InOrder(u) /\ UpTo(u, n)
  BY <1>3, <1>4 DEF InOrder, UpTo
<1>. QED
  BY <1>1, <1>5, <1>6
-----------------------------------------------------------------------------
(* The steps.                                                              *)

\* The empty sequence is a file without anything to read.
LEMMA EmptyFile == <<>> \in Seq(Record) /\ InOrder(<<>>) /\ Whole(<<>>) /\ \A n : UpTo(<<>>, n)
<1>1. <<>> \in Seq(Record)
  OBVIOUS
<1>. QED
  BY <1>1 DEF InOrder, Whole, Clear, UpTo

\* The initial state.
LEMMA InitOK == WalInit => WalInv
<1>. SUFFICES ASSUME WalInit PROVE WalInv
  OBVIOUS
<1>1. WalTypeOK
  <2>1. walFile \in Seq(Record) /\ keep \in Seq(Record)
    BY EmptyFile DEF WalInit
  <2>2. walUp \in BOOLEAN /\ truncating \in BOOLEAN
    BY Zenon DEF WalInit
  <2>3. {appliedFile, lastSeq, appliedSeq} \subseteq Nat /\ {crashes, torn, truncations} \subseteq Nat
    BY DEF WalInit
  <2>4. {inflight, owed} \subseteq Payload \cup {NoPayload}
    BY DEF WalInit
  <2>. QED
    BY <2>1, <2>2, <2>3, <2>4 DEF WalTypeOK
<1>2. OrderInv
  BY EmptyFile DEF WalInit, OrderInv, Ordered
<1>3. CleanInv
  BY DEF WalInit, CleanInv, CleanLog, IsHighest, SeqsIn, Whole, Clear
<1>. QED
  BY <1>1, <1>2, <1>3 DEF WalInv

\* append, by its owner.
LEMMA AppendStep ==
    ASSUME WalInv, NEW p \in Payload, OwnerAppend(p)
    PROVE  WalInv'
<1>. DEFINE r == [seq |-> lastSeq + 1, payload |-> p, torn |-> FALSE]
<1>. USE DEF OwnerAppend, WalAppend
<1>1. r \in Record /\ r.seq = lastSeq + 1 /\ ~r.torn /\ r.payload = p
  BY DEF WalInv, WalTypeOK, Record
<1>2. walFile \in Seq(Record) /\ lastSeq \in Nat /\ keep \in Seq(Record) /\ appliedFile \in Nat
  BY DEF WalInv, WalTypeOK
<1>. HIDE DEF r
<1>3. walFile' = Append(walFile, r)
  BY DEF r
<1>4. walFile' \in Seq(Record)
  BY <1>1, <1>2, <1>3
<1>5. WalTypeOK'
  BY <1>4 DEF WalInv, WalTypeOK
<1>6a. ASSUME torn = 0 \/ truncations = 0 PROVE Ordered'
  <2>0. Ordered
    BY <1>6a DEF WalInv, OrderInv
  <2>1a. InOrder(walFile') /\ UpTo(walFile', lastSeq + 1)
    BY <1>1, <1>2, <1>3, <2>0, AppendOrder DEF Ordered
  <2>1. UpTo(keep, lastSeq + 1)
    <3>1. \A j \in 1..Len(keep) : keep[j] \in Record
      BY <1>2
    <3>2. \A j \in 1..Len(keep) : keep[j].seq \in Nat
      BY <3>1 DEF Record
    <3>. QED
      BY <1>2, <2>0, <3>2 DEF Ordered, UpTo
  <2>. QED
    BY <2>0, <2>1a, <2>1 DEF Ordered
<1>6b. ASSUME torn = 0 PROVE Whole(walFile')
  <2>1. Whole(walFile)
    BY <1>6b DEF WalInv, OrderInv
  <2>2. /\ Len(walFile') = Len(walFile) + 1
        /\ \A i \in 1..Len(walFile) : walFile'[i] = walFile[i]
        /\ walFile'[Len(walFile) + 1] = r
        /\ Len(walFile) \in Nat
    BY <1>1, <1>2, <1>3
  <2>. QED
    BY <1>1, <2>1, <2>2 DEF Whole, Clear
<1>6. OrderInv'
  BY <1>6a, <1>6b DEF WalInv, OrderInv
<1>7. ASSUME torn = 0, truncations = 0 PROVE CleanLog'
  <2>1. CleanLog
    BY <1>7 DEF WalInv, CleanInv
  <2>2. /\ Len(walFile') = Len(walFile) + 1
        /\ \A i \in 1..Len(walFile) : walFile'[i] = walFile[i]
        /\ walFile'[Len(walFile) + 1] = r
        /\ Len(walFile) \in Nat
    BY <1>1, <1>2, <1>3
  <2>3. Whole(walFile')
    BY <1>1, <2>1, <2>2 DEF CleanLog, Whole, Clear
  <2>4. SeqsIn(walFile') = SeqsIn(walFile) \cup {lastSeq + 1}
    BY <1>1, <2>2 DEF SeqsIn
  <2>5. \A m \in SeqsIn(walFile) : m \in Nat /\ m <= lastSeq
    BY <1>2, <2>1, SeqNumbers DEF CleanLog, IsHighest
  <2>5a. IsHighest(lastSeq + 1, walFile')
    <3>1. \A m \in SeqsIn(walFile) \cup {lastSeq + 1} : m <= lastSeq + 1
      BY <1>2, <2>5
    <3>. QED
      BY <2>4, <3>1 DEF IsHighest
  <2>6. appliedFile <= lastSeq
    <3>1. appliedFile = 0 \/ \E n \in SeqsIn(walFile) : appliedFile <= n
      BY <2>1 DEF CleanLog
    <3>. QED
      BY <1>2, <2>5, <3>1
  <2>7. Holds(walFile', appliedFile, p)
    BY <1>1, <1>2, <2>2, <2>6 DEF Holds
  <2>8. owed # NoPayload => Holds(walFile', appliedFile, owed)
    BY <2>1, <2>2 DEF CleanLog, Holds
  <2>9. appliedFile = 0 \/ \E n \in SeqsIn(walFile') : appliedFile <= n
    BY <2>1, <2>4 DEF CleanLog
  <2>. QED
    BY <2>1, <2>3, <2>5a, <2>7, <2>8, <2>9 DEF CleanLog
<1>8. CleanInv'
  BY <1>7 DEF CleanInv
<1>. QED
  BY <1>5, <1>6, <1>8 DEF WalInv

\* mark_applied, by the owner, of its latest entry.
LEMMA MarkStep ==
    ASSUME WalInv, OwnerMark
    PROVE  WalInv'
<1>. USE DEF OwnerMark, MarkApplied
<1>1. WalTypeOK'
  BY DEF WalInv, WalTypeOK
<1>2. OrderInv'
  BY DEF WalInv, OrderInv, Ordered
<1>3. ASSUME torn = 0, truncations = 0 PROVE CleanLog'
  <2>1. CleanLog /\ walUp
    BY <1>3 DEF WalInv, CleanInv
  <2>2. IsHighest(lastSeq, walFile) /\ appliedSeq = appliedFile
    BY <2>1 DEF CleanLog
  <2>3. lastSeq = 0 \/ \E n \in SeqsIn(walFile) : lastSeq <= n
    BY <2>2 DEF IsHighest, WalInv, WalTypeOK
  <2>4. \/ appliedFile' = lastSeq /\ appliedSeq' = lastSeq
        \/ appliedFile' = appliedFile /\ appliedSeq' = appliedSeq
    OBVIOUS
  <2>. QED
    BY <2>1, <2>2, <2>3, <2>4 DEF CleanLog
<1>4. CleanInv'
  BY <1>3 DEF CleanInv
<1>. QED
  BY <1>1, <1>2, <1>4 DEF WalInv

\* The owner gives up.
LEMMA GiveUpStep ==
    ASSUME WalInv, GiveUp
    PROVE  WalInv'
<1>1. WalTypeOK'
  BY DEF WalInv, WalTypeOK, GiveUp
<1>2. OrderInv'
  BY DEF WalInv, OrderInv, Ordered, GiveUp
<1>3. CleanInv'
  BY DEF WalInv, CleanInv, CleanLog, GiveUp
<1>. QED
  BY <1>1, <1>2, <1>3 DEF WalInv

\* truncate_applied reads: as long as nothing is torn, what it copies is whole,
\* in order and numbered below the next entry.
LEMMA TruncateReadStep ==
    ASSUME WalInv, TruncateRead
    PROVE  WalInv'
<1>. USE DEF TruncateRead
<1>1. walFile \in Seq(Record) /\ appliedSeq \in Nat /\ lastSeq \in Nat /\ truncations \in Nat
  BY DEF WalInv, WalTypeOK
<1>2. keep' \in Seq(Record)
  BY <1>1, UnappliedTyped
<1>3. WalTypeOK'
  BY <1>2 DEF WalInv, WalTypeOK
<1>4. ASSUME torn = 0 PROVE Ordered'
  <2>1. Ordered /\ Whole(walFile)
    BY <1>4 DEF WalInv, OrderInv
  <2>2. InOrder(walFile) /\ UpTo(walFile, lastSeq)
    BY <2>1 DEF Ordered
  <2>3. Whole(keep') /\ InOrder(keep') /\ UpTo(keep', lastSeq)
    BY <1>1, <2>1, <2>2, UnappliedOrder
  <2>. QED
    BY <2>2, <2>3 DEF Ordered
<1>4a. truncations' # 0
  BY <1>1
<1>4b. OrderInv'
  BY <1>4, <1>4a DEF WalInv, OrderInv
<1>5. CleanInv'
  BY <1>4a DEF CleanInv
<1>. QED
  BY <1>3, <1>4b, <1>5 DEF WalInv

\* truncate_applied renames: entries appended meanwhile are lost, the order stays.
LEMMA TruncateSwapStep ==
    ASSUME WalInv, TruncateSwap
    PROVE  WalInv'
<1>. USE DEF TruncateSwap
<1>1. WalTypeOK'
  BY EmptyFile DEF WalInv, WalTypeOK
<1>2. truncations # 0
  BY DEF WalInv, OrderInv
<1>3. OrderInv'
  BY <1>2, EmptyFile DEF WalInv, OrderInv, Ordered
<1>4. CleanInv'
  BY DEF WalInv, CleanInv, CleanLog
<1>. QED
  BY <1>1, <1>3, <1>4 DEF WalInv

\* The process dies between two calls.
LEMMA CrashStep ==
    ASSUME WalInv, Crash
    PROVE  WalInv'
<1>. USE DEF Crash, Die
<1>1. WalTypeOK'
  <2>1. walFile' \in Seq(Record) /\ keep' \in Seq(Record)
    BY EmptyFile DEF WalInv, WalTypeOK
  <2>2. walUp' \in BOOLEAN /\ truncating' \in BOOLEAN
    BY Zenon DEF WalInv, WalTypeOK
  <2>3. {appliedFile', lastSeq', appliedSeq'} \subseteq Nat /\ {crashes', torn', truncations'} \subseteq Nat
    BY DEF WalInv, WalTypeOK
  <2>4. {inflight', owed'} \subseteq Payload \cup {NoPayload}
    BY DEF WalInv, WalTypeOK
  <2>. QED
    BY <2>1, <2>2, <2>3, <2>4 DEF WalTypeOK
<1>3. OrderInv'
  BY EmptyFile DEF WalInv, OrderInv, Ordered
<1>4. CleanInv'
  BY DEF WalInv, CleanInv, CleanLog
<1>. QED
  BY <1>1, <1>3, <1>4 DEF WalInv

\* The process dies inside append and leaves a torn record.
LEMMA CrashInAppendStep ==
    ASSUME WalInv, NEW p \in Payload, OwnerCrashInAppend(p)
    PROVE  WalInv'
<1>. DEFINE r == [seq |-> lastSeq + 1, payload |-> p, torn |-> TRUE]
<1>. USE DEF OwnerCrashInAppend, CrashInAppend, Die
<1>1. r \in Record /\ r.seq = lastSeq + 1
  BY DEF WalInv, WalTypeOK, Record
<1>2. walFile \in Seq(Record) /\ lastSeq \in Nat /\ torn \in Nat
  BY DEF WalInv, WalTypeOK
<1>. HIDE DEF r
<1>3. walFile' = Append(walFile, r)
  BY DEF r
<1>4. walFile' \in Seq(Record)
  BY <1>1, <1>2, <1>3
<1>4a. ASSUME truncations = 0 PROVE InOrder(walFile')
  BY <1>1, <1>2, <1>3, <1>4a, AppendOrder DEF WalInv, OrderInv, Ordered
<1>5. WalTypeOK'
  <2>1. walFile' \in Seq(Record) /\ keep' \in Seq(Record)
    BY <1>4, EmptyFile DEF WalInv, WalTypeOK
  <2>2. walUp' \in BOOLEAN /\ truncating' \in BOOLEAN
    BY Zenon DEF WalInv, WalTypeOK
  <2>3. {appliedFile', lastSeq', appliedSeq'} \subseteq Nat /\ {crashes', torn', truncations'} \subseteq Nat
    BY DEF WalInv, WalTypeOK
  <2>4. {inflight', owed'} \subseteq Payload \cup {NoPayload}
    BY DEF WalInv, WalTypeOK
  <2>. QED
    BY <2>1, <2>2, <2>3, <2>4 DEF WalTypeOK
<1>7. OrderInv'
  <2>1. torn' # 0
    BY <1>2
  <2>. QED
    BY <1>4a, <2>1, EmptyFile DEF OrderInv, Ordered
<1>8. CleanInv'
  BY <1>2 DEF CleanInv
<1>. QED
  BY <1>5, <1>7, <1>8 DEF WalInv

\* The process dies inside mark_applied: the watermark is lost, so that more
\* entries count as unapplied, none as applied.
LEMMA CrashInMarkStep ==
    ASSUME WalInv, CrashInMark
    PROVE  WalInv'
<1>. USE DEF CrashInMark, Die
<1>1. WalTypeOK'
  <2>1. walFile' \in Seq(Record) /\ keep' \in Seq(Record)
    BY EmptyFile DEF WalInv, WalTypeOK
  <2>2. walUp' \in BOOLEAN /\ truncating' \in BOOLEAN
    BY Zenon DEF WalInv, WalTypeOK
  <2>3. {appliedFile', lastSeq', appliedSeq'} \subseteq Nat /\ {crashes', torn', truncations'} \subseteq Nat
    BY DEF WalInv, WalTypeOK
  <2>4. {inflight', owed'} \subseteq Payload \cup {NoPayload}
    BY DEF WalInv, WalTypeOK
  <2>. QED
    BY <2>1, <2>2, <2>3, <2>4 DEF WalTypeOK
<1>3. OrderInv'
  BY EmptyFile DEF WalInv, OrderInv, Ordered
<1>4. ASSUME torn = 0, truncations = 0 PROVE CleanLog'
  <2>1. CleanLog
    BY <1>4 DEF WalInv, CleanInv
  <2>2. walFile \in Seq(Record) /\ appliedFile \in Nat
    BY DEF WalInv, WalTypeOK
  <2>3. \A i \in 1..Len(walFile) : walFile[i] \in Record
    BY <2>2
  <2>4. Holds(walFile, 0, inflight)
    <3>1. PICK i \in 1..Len(walFile) : walFile[i].payload = inflight /\ walFile[i].seq > appliedFile
      BY <2>1 DEF CleanLog, Holds
    <3>2. walFile[i].seq \in Nat
      BY <2>3, <3>1 DEF Record
    <3>. QED
      BY <2>2, <3>1, <3>2 DEF Holds
  <2>. QED
    BY <2>1, <2>4 DEF CleanLog
<1>5. CleanInv'
  BY <1>4 DEF CleanInv
<1>. QED
  BY <1>1, <1>3, <1>5 DEF WalInv

\* open: whatever the scan makes of torn records, last_seq_ is not below a
\* number that can be read, and it is the highest one of a whole file.
LEMMA OpenStep ==
    ASSUME WalInv, Open
    PROVE  WalInv'
<1>. USE DEF Open
<1>1. walFile \in Seq(Record) /\ appliedFile \in Nat /\ lastSeq' \in 0..MaxSeq /\ MaxSeq \in Nat
  BY WalBounds DEF WalInv, WalTypeOK, ScanLastSeq
<1>2. PICK g : g = Intact(walFile)
  OBVIOUS
<1>3. \/ IsHighest(lastSeq', g)
      \/ Len(g) = Len(walFile) - 1 /\ IsHighest(lastSeq', walFile)
      \/ Len(g) < Len(walFile) - 1 /\ \A m \in SeqsIn(g) : m <= lastSeq'
  BY <1>2 DEF ScanLastSeq
<1>4. /\ g \in Seq(Record) /\ Len(g) <= Len(walFile)
      /\ \A i \in 1..Len(g) : i \in 1..Len(walFile) /\ g[i] = walFile[i]
      /\ \A m \in 0..Len(walFile) : Clear(walFile, m) => m <= Len(g)
  BY <1>1, <1>2, IntactPositions
<1>5. SeqsIn(g) \subseteq SeqsIn(walFile)
  BY <1>4 DEF SeqsIn
<1>6. \A m \in SeqsIn(g) : m <= lastSeq'
  BY <1>3, <1>5 DEF IsHighest
<1>7. UpTo(walFile, lastSeq')
  BY <1>1, <1>2, <1>6, IntactSeqs
<1>8. WalTypeOK'
  BY <1>1 DEF WalInv, WalTypeOK
<1>9. UpTo(keep, lastSeq')
  BY EmptyFile DEF WalInv, OrderInv, Ordered
<1>10. OrderInv'
  BY <1>7, <1>9 DEF WalInv, OrderInv, Ordered
<1>11. ASSUME torn = 0, truncations = 0 PROVE CleanLog'
  <2>1. CleanLog
    BY <1>11 DEF WalInv, CleanInv
  <2>2. Len(walFile) \in 0..Len(walFile) /\ Clear(walFile, Len(walFile))
    BY <1>1, <2>1 DEF CleanLog, Whole
  <2>3. Len(g) = Len(walFile)
    BY <1>1, <1>4, <2>2
  <2>4. SeqsIn(g) = SeqsIn(walFile)
    BY <1>4, <2>3 DEF SeqsIn
  <2>5. IsHighest(lastSeq', g)
    BY <1>1, <1>3, <1>4, <2>3
  <2>6. IsHighest(lastSeq', walFile)
    BY <2>4, <2>5 DEF IsHighest
  <2>. QED
    BY <2>1, <2>6 DEF CleanLog
<1>12. CleanInv'
  BY <1>11 DEF CleanInv
<1>. QED
  BY <1>8, <1>10, <1>12 DEF WalInv

\* Steps that change nothing.
LEMMA StutterOK ==
    ASSUME WalInv, UNCHANGED walVars
    PROVE  WalInv'
<1>1. WalTypeOK'
  BY DEF WalInv, WalTypeOK, walVars
<1>2. OrderInv'
  BY DEF WalInv, OrderInv, Ordered, walVars
<1>3. CleanInv'
  BY DEF WalInv, CleanInv, CleanLog, walVars
<1>. QED
  BY <1>1, <1>2, <1>3 DEF WalInv

-----------------------------------------------------------------------------
(* Theorems.                                                               *)

\* The invariant holds in every state of the log: across crashes between calls
\* and inside them, and with a truncation that overlaps with appends.
THEOREM WalInvariant == WalSpec => []WalInv
<1>1. WalInit => WalInv
  BY InitOK
<1>2. WalInv /\ [WalNext]_walVars => WalInv'
  <2>. SUFFICES ASSUME WalInv, [WalNext]_walVars PROVE WalInv'
    OBVIOUS
  <2>. QED
    BY AppendStep, MarkStep, GiveUpStep, TruncateReadStep, TruncateSwapStep, CrashStep,
       CrashInAppendStep, CrashInMarkStep, OpenStep, StutterOK DEF WalNext
<1>. QED
  BY <1>1, <1>2, PTL DEF WalSpec

\* Files and counters of the log are well typed.
THEOREM WalTypes == WalSpec => []WalTypeOK
<1>1. WalInv => WalTypeOK
  BY DEF WalInv
<1>. QED
  BY <1>1, WalInvariant, PTL

\* The numbers open() goes on with are sound: records are in order, all that a
\* recovery reads if none was ever torn and those in front of the torn one if
\* the log was never truncated, and as long as neither happened the watermark
\* never overtakes the numbering.
THEOREM WalNumberingSound == WalSpec => []NumberingSound
<1>1. WalInv => NumberingSound
  <2>. SUFFICES ASSUME WalInv PROVE NumberingSound
    OBVIOUS
  <2>0. walFile \in Seq(Record) /\ appliedFile \in Nat /\ lastSeq \in Nat
    BY DEF WalInv, WalTypeOK
  <2>1. WatermarkBehindLast
    <3>. SUFFICES ASSUME walUp, torn = 0, truncations = 0 PROVE appliedSeq <= lastSeq
      BY DEF WatermarkBehindLast
    <3>1. CleanLog
      BY DEF WalInv, CleanInv
    <3>2. /\ appliedSeq = appliedFile
          /\ \A n \in SeqsIn(walFile) : n <= lastSeq
          /\ appliedFile = 0 \/ \E n \in SeqsIn(walFile) : appliedFile <= n
      BY <3>1 DEF CleanLog, IsHighest
    <3>3. SeqsIn(walFile) \subseteq Nat
      BY <2>0, SeqNumbers
    <3>. QED
      BY <2>0, <3>2, <3>3
  <2>2. ReadInOrder
    <3>1. PICK r : r = Intact(walFile)
      OBVIOUS
    <3>2. /\ r \in Seq(Record)
          /\ \A i \in 1..Len(r) : i \in 1..Len(walFile) /\ r[i] = walFile[i] /\ Clear(walFile, i)
      BY <2>0, <3>1, IntactPositions
    <3>3. ASSUME torn = 0 \/ truncations = 0, NEW i \in 1..Len(r), NEW j \in 1..Len(r), i < j
          PROVE  r[i].seq < r[j].seq
      <4>1. i \in 1..(j - 1)
        BY <3>2, <3>3
      <4>2. InOrder(walFile)
        BY <3>3 DEF WalInv, OrderInv, Ordered
      <4>. QED
        BY <3>2, <4>1, <4>2 DEF InOrder
    <3>4. torn = 0 \/ truncations = 0 => Ascending(r)
      BY <3>3 DEF Ascending
    <3>5. ASSUME torn = 0, NEW s \in Reads(walFile) PROVE s = r
      BY <2>0, <3>1, <3>5, ReadsTyped DEF WalInv, OrderInv
    <3>. QED
      BY <3>1, <3>4, <3>5 DEF ReadInOrder
  <2>. QED
    BY <2>1, <2>2 DEF NumberingSound
<1>. QED
  BY <1>1, WalInvariant, PTL

\* A recovery finds its work: the entry whose mutation is undecided, now or
\* when the process died, is among what read_unapplied returns, unless a record
\* was torn or the log truncated.
THEOREM WalRecoveryFinds == WalSpec => []RecoveryFindsInFlight
<1>1. WalInv => RecoveryFindsInFlight
  <2>. SUFFICES ASSUME WalInv, walUp, torn = 0, truncations = 0,
                       NEW p \in {inflight, owed} \ {NoPayload}
                PROVE  Returned(walFile, appliedSeq, p)
    BY DEF RecoveryFindsInFlight
  <2>1. walFile \in Seq(Record) /\ appliedSeq \in Nat /\ CleanLog
    BY DEF WalInv, WalTypeOK, CleanInv
  <2>2. Whole(walFile) /\ Holds(walFile, appliedSeq, p)
    BY <2>1 DEF CleanLog
  <2>3. PICK i \in 1..Len(walFile) : walFile[i].payload = p /\ walFile[i].seq > appliedSeq
    BY <2>2 DEF Holds
  <2>4. Clear(walFile, i)
    BY <2>1, <2>2, <2>3 DEF Whole, Clear
  <2>5. ASSUME NEW u \in ReadUnapplied(walFile, appliedSeq)
        PROVE  \E k \in 1..Len(u) : u[k] = walFile[i]
    BY <2>1, <2>2, <2>3, <2>4, UnappliedIs
  <2>. QED
    BY <2>3, <2>5 DEF Returned
<1>. QED
  BY <1>1, WalInvariant, PTL
=============================================================================
