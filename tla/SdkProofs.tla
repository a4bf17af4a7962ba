----------------------------- MODULE SdkProofs ------------------------------
(***************************************************************************)
(* Proofs about the Python SDK, for every batch size, number of attempts   *)
(* and bound: types, no event lost, the order at the collector, and that a *)
(* committed run is complete there.                                        *)
(***************************************************************************)
EXTENDS Sdk, SubsequenceProofs

-----------------------------------------------------------------------------
(* The inductive invariant.                                                *)

\* One thread uses the run: events are in the buffer or in the batch, never in
\* both.  Entries in memory belong to a running flush_spool, and a client
\* without a spool never has any.
Shape ==
    /\ pc # "post" => batch = <<>>
    /\ pc = "post" => buffer = <<>>
    /\ ~draining => drained = <<>>
    /\ onFailure # "spool" => spool = <<>> /\ drained = <<>> /\ ~draining /\ drainErrors = 0
    /\ drainErrors \in Nat
    /\ last <= emitted

\* Whatever was emitted before an event of b is in b too, or known.
Gapless(b, known) == \A e \in InSeq(b) : 1..e \subseteq known \cup InSeq(b)

\* A batch that a client that raises may have stored at any time.
InPlace(b) == Increasing(b) /\ Gapless(b, InSeq(stored))

\* With a client that raises the collector has the first events, without a gap,
\* and every batch, posted, buffered or late, begins where they end or before:
\* what was not acknowledged is put back, so that a newer batch contains it.
Ordered ==
    onFailure = "raise" =>
        /\ \A e \in InSeq(buffer) \cup InSeq(batch) : e <= emitted
        /\ InPlace(stored) /\ InPlace(buffer) /\ InPlace(batch)
        /\ \A b \in late : InPlace(b)

\* A client that raises is about to send commit_run, or has sent it, only when
\* the run is closed and complete at the collector.
Committed ==
    onFailure = "raise" /\ (commitSent \/ runCommitted \/ pc = "commitRun") =>
        closed /\ 1..last \subseteq InSeq(stored)

SdkInv == TypeOK /\ Shape /\ NothingLost /\ Ordered /\ Committed
-----------------------------------------------------------------------------
(* Facts.                                                                  *)

Starts == {"user", "commitRun", "close", "gone"}

\* The parts of TypeOK, apart from each other.
Sequenced == /\ buffer \in Batch /\ batch \in Batch /\ stored \in Batch
             /\ spool \in Seq(Batch) /\ drained \in Seq(Batch) /\ late \subseteq Batch
Flags     == /\ closed \in BOOLEAN /\ draining \in BOOLEAN
             /\ commitSent \in BOOLEAN /\ runCommitted \in BOOLEAN
Places    == /\ onFailure \in {"spool", "drop", "raise"}
             /\ pc \in {"user", "post", "commitRun", "gone"} /\ then \in Starts
Counts    == attempt \in 0..MaxAttempts /\ emitted \in 0..MaxEvents /\ last \in 0..MaxEvents

LEMMA Parts == TypeOK <=> Sequenced /\ Flags /\ Places /\ Counts
BY DEF TypeOK, Sequenced, Flags, Places, Counts, Starts

LEMMA Constants == /\ MaxEvents \in Nat /\ MaxAttempts \in Nat /\ MaxAttempts # 0
                   /\ BatchSize \in Nat /\ BatchSize # 0
BY SdkBounds

LEMMA EmptyBatch == /\ <<>> \in Batch /\ <<>> \in Seq(Batch)
                    /\ Increasing(<<>>) /\ \A k : Gapless(<<>>, k)
<1>1. <<>> \in Batch /\ <<>> \in Seq(Batch)
  BY DEF Batch
<1>2. Increasing(<<>>) /\ \A k : Gapless(<<>>, k)
  BY InSeqEmpty DEF Increasing, Gapless
<1>. QED
  BY <1>1, <1>2

\* Events are numbers from 1 on.
LEMMA EventsTyped ==
    ASSUME NEW b \in Batch
    PROVE  InSeq(b) \subseteq 1..MaxEvents
BY InSeqTyped DEF Batch

\* The collector processes a batch: it has what it had, and the batch.
LEMMA StoreOK ==
    ASSUME stored \in Batch, NEW b \in Batch, Store(b)
    PROVE  stored' \in Batch /\ InSeq(stored') = InSeq(stored) \cup InSeq(b)
<1>1. stored \in Seq(1..MaxEvents) /\ b \in Seq(1..MaxEvents)
  BY DEF Batch
<1>2. stored' = AppendNew(stored, b)
  BY DEF Store
<1>. QED
  BY <1>1, <1>2, AppendNewIs DEF Batch

\* A batch that is in place stays so when others are stored.
LEMMA GaplessGrows ==
    ASSUME NEW b, NEW known, NEW more, known \subseteq more, Gapless(b, known)
    PROVE  Gapless(b, more)
BY DEF Gapless

\* Storing a batch that is in place keeps the events in order and without gap,
\* whatever was stored since the batch was posted.
LEMMA StoreInPlace ==
    ASSUME stored \in Batch, NEW b \in Batch, Store(b), InPlace(stored), InPlace(b)
    PROVE  /\ InPlace(stored)'
           /\ \A c : InPlace(c) => Increasing(c) /\ Gapless(c, InSeq(stored'))
<1>1. stored \in Seq(1..MaxEvents) /\ b \in Seq(1..MaxEvents) /\ 1..MaxEvents \in SUBSET Nat
  BY Constants DEF Batch
<1>2. stored' \in Batch /\ InSeq(stored') = InSeq(stored) \cup InSeq(b)
  BY StoreOK
<1>3. InSeq(stored) \subseteq 1..MaxEvents /\ InSeq(b) \subseteq 1..MaxEvents
  BY EventsTyped
<1>4. Ahead(b, InSeq(stored))
  <2>. SUFFICES ASSUME NEW e \in InSeq(b), e \notin InSeq(stored), NEW x \in InSeq(stored)
                PROVE  x < e
    BY DEF Ahead
  <2>1. e \in Nat /\ x \in Nat /\ 1 <= e
    BY <1>3, Constants
  <2>2. 1..x \subseteq InSeq(stored)
    BY DEF InPlace, Gapless
  <2>3. e \notin 1..x
    BY <2>2
  <2>. QED
    BY <2>1, <2>3
<1>5. Increasing(stored')
  <2>1. stored' = AppendNew(stored, b)
    BY DEF Store
  <2>2. Increasing(AppendNew(stored, b))
    BY <1>1, <1>4, AppendNewIncreasing DEF InPlace
  <2>. QED
    BY <2>1, <2>2
<1>6. Gapless(stored', InSeq(stored'))
  BY <1>2 DEF InPlace, Gapless
<1>7. \A c : InPlace(c) => Increasing(c) /\ Gapless(c, InSeq(stored'))
  BY <1>2 DEF InPlace, Gapless
<1>. QED
  BY <1>5, <1>6, <1>7 DEF InPlace

\* Put back before an empty buffer, a batch is the buffer.
LEMMA PutBackOK ==
    ASSUME NEW b \in Batch
    PROVE  b \o <<>> = b
BY DEF Batch

\* The event that is emitted next: it is newer than all others.
LEMMA EmitOK ==
    ASSUME SdkInv, pc = "user", emitted < MaxEvents, NEW b, b = Append(buffer, emitted + 1)
    PROVE  /\ b \in Batch /\ InSeq(b) = InSeq(buffer) \cup {emitted + 1}
           /\ emitted + 1 \in 0..MaxEvents
           /\ 1..(emitted + 1) = (1..emitted) \cup {emitted + 1}
           /\ onFailure = "raise" => InPlace(b) /\ \A e \in InSeq(b) : e <= emitted + 1
<1>1. buffer \in Seq(1..MaxEvents) /\ emitted \in 0..MaxEvents /\ MaxEvents \in Nat
  BY Constants, Parts DEF SdkInv, Sequenced, Counts, Batch
<1>2. emitted + 1 \in 1..MaxEvents
  BY <1>1
<1>3. b \in Batch /\ InSeq(b) = InSeq(buffer) \cup {emitted + 1}
  BY <1>1, <1>2, InSeqAppend DEF Batch
<1>4. ASSUME onFailure = "raise"
      PROVE  InPlace(b) /\ \A e \in InSeq(b) : e <= emitted + 1
  <2>1. (\A e \in InSeq(buffer) : e <= emitted) /\ Increasing(buffer)
    BY <1>4 DEF SdkInv, Ordered, InPlace
  <2>2. PICK S : S = 1..MaxEvents
    OBVIOUS
  <2>3. PICK m : m = emitted + 1
    OBVIOUS
  <2>4. S \in SUBSET Nat /\ buffer \in Seq(S) /\ {} \in SUBSET S /\ m \in S
    BY <1>1, <1>2, <2>2, <2>3
  <2>5. \A e \in {} \cup InSeq(buffer) : e < m
    BY <1>1, <2>1, <2>2, <2>3, <2>4, InSeqTyped
  <2>6. Ahead(buffer, {})
    BY DEF Ahead
  <2>7. Increasing(b)
    BY <2>1, <2>3, <2>4, <2>5, <2>6, AppendNewest
  <2>8. InSeq(buffer) \subseteq 1..MaxEvents
    BY <1>1, InSeqTyped
  <2>9. \A e \in InSeq(b) : e \in Nat /\ e <= emitted + 1
    BY <1>1, <1>3, <2>1, <2>8
  <2>10. 1..emitted \subseteq InSeq(stored) \cup InSeq(buffer)
    <3>1. Spooled = {} /\ batch = <<>> /\ drainErrors = 0
      <4>1. spool = <<>> /\ drained = <<>> /\ drainErrors = 0 /\ batch = <<>>
        BY <1>4 DEF SdkInv, Shape
      <4>. QED
        BY <4>1, InSeqEmpty DEF Spooled
    <3>2. pc # "gone" /\ onFailure # "drop"
      BY <1>4
    <3>3. 1..emitted \subseteq InSeq(stored) \cup InSeq(buffer) \cup InSeq(batch) \cup Spooled
      BY <3>1, <3>2 DEF SdkInv, NothingLost
    <3>. QED
      BY <3>1, <3>3, InSeqEmpty
  <2>11. ASSUME NEW e \in InSeq(b) PROVE 1..e \subseteq InSeq(stored) \cup InSeq(b)
    <3>1. 1..e \subseteq (1..emitted) \cup {emitted + 1}
      BY <1>1, <2>9
    <3>. QED
      BY <1>3, <2>10, <3>1
  <2>. QED
    BY <2>7, <2>9, <2>11 DEF InPlace, Gapless
<1>5. emitted + 1 \in 0..MaxEvents /\ 1..(emitted + 1) = (1..emitted) \cup {emitted + 1}
  BY <1>1, <1>2
<1>. QED
  BY <1>3, <1>4, <1>5
-----------------------------------------------------------------------------
(* The steps of the run.                                                   *)

\* An event is emitted and everything in the buffer becomes the batch of a post.
LEMMA EmitAndPost ==
    ASSUME SdkInv, pc = "user", emitted < MaxEvents, emitted' = emitted + 1,
           NEW next \in Starts, StartPost(Append(buffer, emitted + 1), next),
           \/ last' = last
           \/ last' = emitted + 1 /\ ~closed,
           UNCHANGED <<closed, collector, spoolVars>>
    PROVE  SdkInv'
<1>. DEFINE b == Append(buffer, emitted + 1)
<1>1. /\ b \in Batch /\ InSeq(b) = InSeq(buffer) \cup {emitted + 1}
      /\ emitted + 1 \in 0..MaxEvents
      /\ 1..(emitted + 1) = (1..emitted) \cup {emitted + 1}
      /\ onFailure = "raise" => InPlace(b) /\ \A e \in InSeq(b) : e <= emitted + 1
  BY EmitOK
<1>2. /\ buffer' = <<>> /\ batch' = b /\ then' = next /\ attempt' = 0 /\ pc' = "post"
      /\ closed' = closed /\ stored' = stored /\ late' = late /\ commitSent' = commitSent
      /\ runCommitted' = runCommitted
      /\ onFailure' = onFailure /\ spool' = spool /\ drained' = drained
      /\ draining' = draining /\ drainErrors' = drainErrors
  BY DEF StartPost, spoolVars, collector
<1>. HIDE DEF b
<1>3. Sequenced /\ Flags /\ Places /\ Counts
  BY Parts DEF SdkInv
<1>4. TypeOK'
  <2>1. Sequenced'
    BY <1>1, <1>2, <1>3, EmptyBatch DEF Sequenced
  <2>2. Flags'
    BY <1>2, <1>3 DEF Flags
  <2>3. Places'
    BY <1>2, <1>3 DEF Places, Starts
  <2>4. Counts'
    BY <1>1, <1>2, <1>3, Constants DEF Counts
  <2>. QED
    BY <2>1, <2>2, <2>3, <2>4, Parts DEF TypeOK, Sequenced, Flags, Places, Counts, Starts
<1>5. Shape'
  <2>1. last' <= emitted'
    BY <1>3 DEF SdkInv, Shape, Counts
  <2>. QED
    BY <1>2, <2>1 DEF SdkInv, Shape
<1>6. NothingLost'
  <2>1. batch = <<>>
    BY DEF SdkInv, Shape
  <2>. QED
    BY <1>1, <1>2, <2>1, InSeqEmpty DEF SdkInv, NothingLost, Spooled
<1>7. Ordered'
  BY <1>1, <1>2, EmptyBatch, InSeqEmpty DEF SdkInv, Ordered, InPlace
<1>8. Committed'
  BY <1>2 DEF SdkInv, Committed
<1>. QED
  BY <1>4, <1>5, <1>6, <1>7, <1>8 DEF SdkInv

\* An event joins a buffer that is not full.
LEMMA EmitOnly ==
    ASSUME SdkInv, pc = "user", emitted < MaxEvents, emitted' = emitted + 1,
           buffer' = Append(buffer, emitted + 1),
           UNCHANGED <<batch, then, attempt, pc, closed, last, collector, spoolVars>>
    PROVE  SdkInv'
<1>. DEFINE b == Append(buffer, emitted + 1)
<1>1. /\ b \in Batch /\ InSeq(b) = InSeq(buffer) \cup {emitted + 1}
      /\ emitted + 1 \in 0..MaxEvents
      /\ 1..(emitted + 1) = (1..emitted) \cup {emitted + 1}
      /\ onFailure = "raise" => InPlace(b) /\ \A e \in InSeq(b) : e <= emitted + 1
  BY EmitOK
<1>2. /\ buffer' = b /\ batch' = batch /\ then' = then /\ attempt' = attempt /\ pc' = pc
      /\ closed' = closed /\ stored' = stored /\ late' = late /\ commitSent' = commitSent
      /\ runCommitted' = runCommitted /\ last' = last
      /\ onFailure' = onFailure /\ spool' = spool /\ drained' = drained
      /\ draining' = draining /\ drainErrors' = drainErrors
  BY DEF spoolVars, collector
<1>. HIDE DEF b
<1>3. Sequenced /\ Flags /\ Places /\ Counts
  BY Parts DEF SdkInv
<1>4. TypeOK'
  <2>1. Sequenced'
    BY <1>1, <1>2, <1>3 DEF Sequenced
  <2>2. Flags'
    BY <1>2, <1>3 DEF Flags
  <2>3. Places'
    BY <1>2, <1>3 DEF Places
  <2>4. Counts'
    BY <1>1, <1>2, <1>3 DEF Counts
  <2>. QED
    BY <2>1, <2>2, <2>3, <2>4 DEF TypeOK, Sequenced, Flags, Places, Counts, Starts
<1>5. Shape'
  <2>1. last' <= emitted'
    BY <1>2, <1>3 DEF SdkInv, Shape, Counts
  <2>. QED
    BY <1>2, <2>1 DEF SdkInv, Shape
<1>6. NothingLost'
  BY <1>1, <1>2 DEF SdkInv, NothingLost, Spooled
<1>7. Ordered'
  <2>1. batch = <<>>
    BY DEF SdkInv, Shape
  <2>. QED
    BY <1>1, <1>2, <2>1, EmptyBatch, InSeqEmpty DEF SdkInv, Ordered, InPlace
<1>8. Committed'
  BY <1>2 DEF SdkInv, Committed
<1>. QED
  BY <1>4, <1>5, <1>6, <1>7, <1>8 DEF SdkInv

\* _emit, request_approval, commit, rollback and fail.
LEMMA EmitStep ==
    ASSUME SdkInv, Emit \/ request_approval \/ commit \/ fail
    PROVE  SdkInv'
<1>1. CASE Emit
  <2>1. CASE Len(Append(buffer, emitted + 1)) >= BatchSize
    <3>1. StartPost(Append(buffer, emitted + 1), "user")
      BY <1>1, <2>1 DEF Emit
    <3>. QED
      BY <1>1, <3>1, EmitAndPost DEF Emit, Starts
  <2>2. CASE ~(Len(Append(buffer, emitted + 1)) >= BatchSize)
    <3>1. buffer' = Append(buffer, emitted + 1) /\ UNCHANGED <<batch, then, attempt, pc>>
      BY <1>1, <2>2 DEF Emit
    <3>. QED
      BY <1>1, <3>1, EmitOnly DEF Emit
  <2>. QED
    BY <2>1, <2>2
<1>2. CASE request_approval
  BY <1>2, EmitAndPost DEF request_approval, Starts
<1>3. CASE commit
  BY <1>3, EmitAndPost DEF commit, EndRun, Starts
<1>4. CASE fail
  BY <1>4, EmitAndPost DEF fail, EndRun, Starts
<1>. QED
  BY <1>1, <1>2, <1>3, <1>4

\* Client.close and the exit handler.
LEMMA LastFlushStep ==
    ASSUME SdkInv, NEW wanted, LastFlush(wanted)
    PROVE  SdkInv'
<1>1. /\ pc = "user" /\ closed' = closed /\ stored' = stored /\ late' = late /\ commitSent' = commitSent
      /\ runCommitted' = runCommitted
      /\ last' = last /\ emitted' = emitted /\ onFailure' = onFailure /\ spool' = spool
      /\ drained' = drained /\ draining' = draining /\ drainErrors' = drainErrors
  BY DEF LastFlush, spoolVars, collector
<1>2. \/ buffer' = <<>> /\ batch' = buffer /\ then' = "gone" /\ attempt' = 0 /\ pc' = "post"
      \/ buffer' = buffer /\ batch' = batch /\ then' = then /\ attempt' = attempt /\ pc' = "gone"
  BY DEF LastFlush, StartPost
<1>3. Sequenced /\ Flags /\ Places /\ Counts
  BY Parts DEF SdkInv
<1>4. TypeOK'
  <2>1. Sequenced'
    BY <1>1, <1>2, <1>3, EmptyBatch DEF Sequenced
  <2>2. Flags'
    BY <1>1, <1>3 DEF Flags
  <2>3. Places'
    BY <1>1, <1>2, <1>3 DEF Places, Starts
  <2>4. Counts'
    BY <1>1, <1>2, <1>3, Constants DEF Counts
  <2>. QED
    BY <2>1, <2>2, <2>3, <2>4 DEF TypeOK, Sequenced, Flags, Places, Counts, Starts
<1>5. batch = <<>>
  BY <1>1 DEF SdkInv, Shape
<1>6. Shape'
  BY <1>1, <1>2, <1>5 DEF SdkInv, Shape
<1>7. NothingLost'
  BY <1>1, <1>2, <1>5, InSeqEmpty DEF SdkInv, NothingLost, Spooled
<1>8. Ordered'
  BY <1>1, <1>2, <1>5, EmptyBatch, InSeqEmpty DEF SdkInv, Ordered, InPlace
<1>9. Committed'
  BY <1>1, <1>2 DEF SdkInv, Committed
<1>. QED
  BY <1>4, <1>6, <1>7, <1>8, <1>9 DEF SdkInv

-----------------------------------------------------------------------------
(* The steps of a post.                                                    *)

\* The collector processes a batch that is in place, now or late.
LEMMA StoreOrdered ==
    ASSUME SdkInv, NEW b \in Batch, Store(b), onFailure = "raise" => InPlace(b),
           late' = late, onFailure' = onFailure
    PROVE  onFailure = "raise" =>
             /\ InPlace(stored)'
             /\ \A c : InPlace(c) => Increasing(c) /\ Gapless(c, InSeq(stored'))
<1>1. stored \in Batch
  BY Parts DEF SdkInv, Sequenced
<1>2. onFailure = "raise" => InPlace(stored)
  BY DEF SdkInv, Ordered
<1>. QED
  BY <1>1, <1>2, StoreInPlace

\* An attempt fails: the batch may be processed later.
LEMMA PostErrorStep ==
    ASSUME SdkInv, PostError
    PROVE  SdkInv'
<1>1. /\ pc = "post" /\ attempt < MaxAttempts /\ attempt' = attempt + 1 /\ late' = late \cup {batch}
      /\ buffer' = buffer /\ closed' = closed /\ last' = last /\ pc' = pc /\ batch' = batch
      /\ then' = then /\ emitted' = emitted /\ stored' = stored /\ commitSent' = commitSent
      /\ runCommitted' = runCommitted /\ onFailure' = onFailure /\ spool' = spool
      /\ drained' = drained /\ draining' = draining /\ drainErrors' = drainErrors
  BY DEF PostError, spoolVars
<1>3. Sequenced /\ Flags /\ Places /\ Counts
  BY Parts DEF SdkInv
<1>4. TypeOK'
  <2>1. Sequenced'
    BY <1>1, <1>3 DEF Sequenced
  <2>2. Flags'
    BY <1>1, <1>3 DEF Flags
  <2>3. Places'
    BY <1>1, <1>3 DEF Places
  <2>4. Counts'
    BY <1>1, <1>3, Constants DEF Counts
  <2>. QED
    BY <2>1, <2>2, <2>3, <2>4 DEF TypeOK, Sequenced, Flags, Places, Counts, Starts
<1>6. Shape'
  BY <1>1 DEF SdkInv, Shape
<1>7. NothingLost'
  BY <1>1 DEF SdkInv, NothingLost, Spooled
<1>8. Ordered'
  BY <1>1 DEF SdkInv, Ordered, InPlace
<1>9. Committed'
  BY <1>1 DEF SdkInv, Committed
<1>. QED
  BY <1>4, <1>6, <1>7, <1>8, <1>9 DEF SdkInv

\* A post comes back: commit goes on to commit_run, fail closes the run.
PostedTo == IF then = "close" THEN "user" ELSE then

LEMMA PostedTypes ==
    ASSUME SdkInv, Posted, stored' \in Batch, spool' \in Seq(Batch),
           UNCHANGED <<onFailure, last, emitted, late, commitSent, runCommitted, drained, draining>>
    PROVE  TypeOK'
<1>3. Sequenced /\ Flags /\ Places /\ Counts
  BY Parts DEF SdkInv
<1>4. buffer' = buffer /\ batch' = <<>> /\ attempt' = 0 /\ then' = then /\ pc' = PostedTo
  BY DEF Posted, PostedTo
<1>1. Sequenced'
  BY <1>3, <1>4, EmptyBatch DEF Sequenced
<1>2. Flags'
  <2>1. closed' \in BOOLEAN
    BY Zenon DEF Posted
  <2>. QED
    BY <1>3, <2>1 DEF Flags
<1>5. Places'
  BY <1>3, <1>4 DEF Places, Starts, PostedTo
<1>6. Counts'
  BY <1>3, <1>4, Constants DEF Counts
<1>. QED
  BY <1>1, <1>2, <1>5, <1>6 DEF TypeOK, Sequenced, Flags, Places, Counts, Starts

\* The post succeeds: the collector has the whole batch.
LEMMA PostOkStep ==
    ASSUME SdkInv, PostOk
    PROVE  SdkInv'
<1>1. /\ pc = "post" /\ Posted /\ Store(batch)
      /\ last' = last /\ emitted' = emitted /\ late' = late /\ commitSent' = commitSent
      /\ runCommitted' = runCommitted /\ onFailure' = onFailure /\ spool' = spool
      /\ drained' = drained /\ draining' = draining /\ drainErrors' = drainErrors
  BY DEF PostOk, spoolVars
<1>2. buffer' = buffer /\ batch' = <<>> /\ attempt' = 0 /\ then' = then /\ pc' = PostedTo
  BY <1>1 DEF Posted, PostedTo
<1>3. Sequenced /\ Flags /\ Places /\ Counts
  BY Parts DEF SdkInv
<1>4. onFailure = "raise" =>
             /\ InPlace(stored)'
             /\ \A c : InPlace(c) => Increasing(c) /\ Gapless(c, InSeq(stored'))
  <2>1. onFailure = "raise" => InPlace(batch)
    BY DEF SdkInv, Ordered
  <2>. QED
    BY <1>1, <1>3, <2>1, StoreOrdered DEF Sequenced
<1>5. stored' \in Batch /\ InSeq(stored') = InSeq(stored) \cup InSeq(batch)
  BY <1>1, <1>3, StoreOK DEF Sequenced
<1>6. TypeOK'
  BY <1>1, <1>3, <1>5, PostedTypes DEF Sequenced
<1>7. buffer = <<>>
  BY <1>1 DEF SdkInv, Shape
<1>8. Shape'
  BY <1>1, <1>2, <1>7 DEF SdkInv, Shape
<1>9. NothingLost'
  BY <1>1, <1>2, <1>5, <1>7, InSeqEmpty DEF SdkInv, NothingLost, Spooled
<1>10. Ordered'
  <2>. SUFFICES ASSUME onFailure = "raise" PROVE Ordered'
    BY <1>1 DEF Ordered
  <2>1. InPlace(stored)' /\ \A c \in late \cup {<<>>} : Increasing(c) /\ Gapless(c, InSeq(stored'))
    BY <1>4, EmptyBatch DEF SdkInv, Ordered
  <2>. QED
    BY <1>1, <1>2, <1>7, <2>1, InSeqEmpty DEF Ordered, InPlace
<1>11. Committed'
  <2>. SUFFICES ASSUME onFailure = "raise", commitSent \/ runCommitted \/ pc' = "commitRun"
                PROVE  closed' /\ 1..last \subseteq InSeq(stored')
    BY <1>1 DEF Committed
  <2>1. CASE commitSent \/ runCommitted
    <3>1. closed /\ 1..last \subseteq InSeq(stored)
      BY <2>1 DEF SdkInv, Committed
    <3>. QED
      BY <1>1, <1>5, <3>1 DEF Posted
  <2>2. CASE pc' = "commitRun"
    <3>1. then = "commitRun"
      BY <1>2, <2>2 DEF PostedTo
    <3>2. closed'
      BY <1>1, <3>1 DEF Posted
    <3>3. Spooled = {}
      BY InSeqEmpty DEF SdkInv, Shape, Spooled
    <3>4. 1..emitted \subseteq InSeq(stored) \cup InSeq(buffer) \cup InSeq(batch) \cup Spooled
      BY <1>1 DEF SdkInv, NothingLost, Shape
    <3>5. 1..emitted \subseteq InSeq(stored')
      BY <1>5, <1>7, <3>3, <3>4, InSeqEmpty
    <3>6. last \in Nat /\ emitted \in Nat /\ last <= emitted
      BY <1>3, Constants DEF SdkInv, Shape, Counts
    <3>7. 1..last \subseteq 1..emitted
      BY <3>6
    <3>. QED
      BY <3>2, <3>5, <3>7
  <2>. QED
    BY <2>1, <2>2
<1>. QED
  BY <1>6, <1>8, <1>9, <1>10, <1>11 DEF SdkInv

\* The post raises: the events are back in the buffer, in their order.
LEMMA RaisedOK ==
    ASSUME SdkInv, pc = "post", Raised,
           UNCHANGED <<last, emitted, collector, spool, onFailure, drained, draining, drainErrors>>
    PROVE  SdkInv'
<1>1. buffer = <<>>
  BY DEF SdkInv, Shape
<1>3. Sequenced /\ Flags /\ Places /\ Counts
  BY Parts DEF SdkInv
<1>2. /\ buffer' = batch /\ batch' = <<>> /\ attempt' = 0 /\ then' = then /\ closed' = closed
      /\ pc' \in {"user", "gone"} /\ stored' = stored /\ late' = late
      /\ commitSent' = commitSent /\ runCommitted' = runCommitted
  BY <1>1, <1>3, PutBackOK DEF Raised, Sequenced, collector
<1>4. TypeOK'
  <2>1. Sequenced'
    BY <1>2, <1>3, EmptyBatch DEF Sequenced
  <2>2. Flags'
    BY <1>2, <1>3 DEF Flags
  <2>3. Places'
    BY <1>2, <1>3 DEF Places
  <2>4. Counts'
    BY <1>2, <1>3, Constants DEF Counts
  <2>. QED
    BY <2>1, <2>2, <2>3, <2>4 DEF TypeOK, Sequenced, Flags, Places, Counts, Starts
<1>6. Shape'
  BY <1>2 DEF SdkInv, Shape
<1>7. NothingLost'
  BY <1>1, <1>2, InSeqEmpty DEF SdkInv, NothingLost, Spooled
<1>8. Ordered'
  BY <1>1, <1>2, EmptyBatch, InSeqEmpty DEF SdkInv, Ordered, InPlace
<1>9. Committed'
  BY <1>2 DEF SdkInv, Committed
<1>. QED
  BY <1>4, <1>6, <1>7, <1>8, <1>9 DEF SdkInv

LEMMA PostRejectedStep ==
    ASSUME SdkInv, PostRejected
    PROVE  SdkInv'
BY RaisedOK DEF PostRejected, spoolVars

\* All attempts have failed.
LEMMA GiveUpStep ==
    ASSUME SdkInv, GiveUp
    PROVE  SdkInv'
<1>0. /\ pc = "post" /\ stored' = stored /\ late' = late /\ commitSent' = commitSent
      /\ last' = last /\ emitted' = emitted /\ runCommitted' = runCommitted /\ onFailure' = onFailure
      /\ drained' = drained /\ draining' = draining /\ drainErrors' = drainErrors
  BY DEF GiveUp, collector
<1>1. Sequenced /\ Flags /\ Places /\ Counts
  BY Parts DEF SdkInv
<1>2. CASE onFailure \in {"spool", "drop"}
  <2>1. Posted
    BY <1>2 DEF GiveUp
  <2>2. \/ onFailure = "spool" /\ spool' = Append(spool, batch)
        \/ onFailure = "drop" /\ spool' = spool
    BY <1>2 DEF GiveUp
  <2>3. buffer' = buffer /\ batch' = <<>> /\ attempt' = 0 /\ then' = then /\ pc' = PostedTo
    BY <2>1 DEF Posted, PostedTo
  <2>4. /\ spool' \in Seq(Batch)
        /\ onFailure = "spool" => Entries(spool') = Entries(spool) \cup InSeq(batch)
    <3>1. spool \in Seq(Seq(1..MaxEvents)) /\ batch \in Seq(1..MaxEvents)
      BY <1>1 DEF Sequenced, Batch
    <3>2. /\ Append(spool, batch) \in Seq(Seq(1..MaxEvents))
          /\ Entries(Append(spool, batch)) = Entries(spool) \cup InSeq(batch)
      BY <3>1, EntriesAppend
    <3>. QED
      BY <2>2, <3>1, <3>2 DEF Batch
  <2>5. TypeOK'
    BY <1>0, <1>1, <2>1, <2>4, PostedTypes DEF Sequenced
  <2>6. buffer = <<>>
    BY <1>0 DEF SdkInv, Shape
  <2>7. Shape'
    BY <1>0, <2>2, <2>3, <2>6 DEF SdkInv, Shape
  <2>8. NothingLost'
    BY <1>0, <1>2, <2>2, <2>3, <2>4, <2>6, InSeqEmpty DEF SdkInv, NothingLost, Spooled
  <2>9. Ordered'
    BY <1>0, <1>2 DEF Ordered
  <2>10. Committed'
    BY <1>0, <1>2 DEF Committed
  <2>. QED
    BY <2>5, <2>7, <2>8, <2>9, <2>10 DEF SdkInv
<1>3. CASE onFailure = "raise"
  <2>1. Raised /\ UNCHANGED spool
    BY <1>3 DEF GiveUp
  <2>. QED
    BY <1>0, <2>1, RaisedOK DEF collector
<1>. QED
  BY <1>1, <1>2, <1>3 DEF Places

\* The request behind commit().
LEMMA CommitRunStep ==
    ASSUME SdkInv, CommitRun
    PROVE  SdkInv'
<1>1. /\ pc = "commitRun" /\ pc' = "user" /\ runCommitted' \in {TRUE, runCommitted}
      /\ commitSent' = TRUE /\ late' = late
      /\ buffer' = buffer /\ closed' = closed /\ last' = last /\ batch' = batch /\ then' = then
      /\ attempt' = attempt /\ emitted' = emitted /\ stored' = stored
      /\ onFailure' = onFailure /\ spool' = spool
      /\ drained' = drained /\ draining' = draining /\ drainErrors' = drainErrors
  BY DEF CommitRun, spoolVars
<1>3. Sequenced /\ Flags /\ Places /\ Counts
  BY Parts DEF SdkInv
<1>4. TypeOK'
  <2>1. Sequenced'
    BY <1>1, <1>3 DEF Sequenced
  <2>2. Flags'
    BY <1>1, <1>3 DEF Flags
  <2>3. Places'
    BY <1>1, <1>3 DEF Places
  <2>4. Counts'
    BY <1>1, <1>3 DEF Counts
  <2>. QED
    BY <2>1, <2>2, <2>3, <2>4 DEF TypeOK, Sequenced, Flags, Places, Counts, Starts
<1>6. Shape'
  BY <1>1 DEF SdkInv, Shape
<1>7. NothingLost'
  BY <1>1 DEF SdkInv, NothingLost, Spooled
<1>8. Ordered'
  BY <1>1 DEF SdkInv, Ordered, InPlace
<1>9. Committed'
  BY <1>1 DEF SdkInv, Committed
<1>. QED
  BY <1>4, <1>6, <1>7, <1>8, <1>9 DEF SdkInv

-----------------------------------------------------------------------------
(* The steps of flush_spool.                                               *)

\* What flush_spool does not touch.
RunStays ==
    /\ onFailure = "spool" /\ onFailure' = onFailure
    /\ buffer' = buffer /\ closed' = closed /\ last' = last /\ pc' = pc /\ batch' = batch
    /\ then' = then /\ attempt' = attempt /\ emitted' = emitted
    /\ commitSent' = commitSent /\ runCommitted' = runCommitted

LEMMA SpoolStep ==
    ASSUME SdkInv, RunStays, draining' \in BOOLEAN,
           stored' \in Batch, spool' \in Seq(Batch), drained' \in Seq(Batch), late' \subseteq Batch,
           InSeq(stored) \subseteq InSeq(stored'),
           ~draining' => drained' = <<>>,
           drainErrors' \in Nat,
           drainErrors' = 0 => /\ drainErrors = 0
                               /\ Spooled \subseteq InSeq(stored') \cup Spooled'
    PROVE  SdkInv'
<1>3. Sequenced /\ Flags /\ Places /\ Counts
  BY Parts DEF SdkInv
<1>4. TypeOK'
  <2>1. Sequenced'
    BY <1>3 DEF Sequenced, RunStays
  <2>2. Flags'
    BY <1>3 DEF Flags, RunStays
  <2>3. Places'
    BY <1>3 DEF Places, RunStays
  <2>4. Counts'
    BY <1>3 DEF Counts, RunStays
  <2>. QED
    BY <2>1, <2>2, <2>3, <2>4 DEF TypeOK, Sequenced, Flags, Places, Counts, Starts
<1>6. Shape'
  BY DEF SdkInv, Shape, RunStays
<1>7. NothingLost'
  BY DEF SdkInv, NothingLost, RunStays
<1>8. Ordered'
  BY DEF Ordered, RunStays
<1>9. Committed'
  BY DEF Committed, RunStays
<1>. QED
  BY <1>4, <1>6, <1>7, <1>8, <1>9 DEF SdkInv

LEMMA DrainStep ==
    ASSUME SdkInv, Drain
    PROVE  SdkInv'
<1>1. RunStays /\ drained' = spool /\ spool' = <<>> /\ draining' = TRUE /\ ~draining
      /\ stored' = stored /\ late' = late /\ drainErrors' = drainErrors
  BY DEF Drain, RunStays, collector
<1>2. Sequenced
  BY Parts DEF SdkInv
<1>3. drained = <<>> /\ drainErrors \in Nat
  BY <1>1 DEF SdkInv, Shape
<1>4. Spooled \subseteq Spooled'
  BY <1>1, <1>3, InSeqEmpty DEF Spooled
<1>. QED
  BY <1>1, <1>2, <1>3, <1>4, EmptyBatch, SpoolStep DEF Sequenced

LEMMA SendEntryStep ==
    ASSUME SdkInv, SendEntry
    PROVE  SdkInv'
<1>1. /\ draining /\ drained # <<>> /\ Store(Head(drained)) /\ drained' = Tail(drained)
      /\ spool' = spool /\ draining' = draining /\ late' = late /\ drainErrors' = drainErrors
  BY DEF SendEntry
<1>2. Sequenced /\ drainErrors \in Nat /\ RunStays
  BY <1>1, Parts DEF SdkInv, Shape, SendEntry, RunStays
<1>3. /\ Head(drained) \in Batch /\ Tail(drained) \in Seq(Batch)
      /\ Entries(drained) = InSeq(Head(drained)) \cup Entries(Tail(drained))
  BY <1>1, <1>2, EntriesTail DEF Sequenced, Batch
<1>4. stored' \in Batch /\ InSeq(stored') = InSeq(stored) \cup InSeq(Head(drained))
  BY <1>1, <1>2, <1>3, StoreOK DEF Sequenced
<1>5. Spooled \subseteq InSeq(stored') \cup Spooled'
  BY <1>1, <1>3, <1>4 DEF Spooled
<1>6. draining' \in BOOLEAN /\ (~draining' => drained' = <<>>)
  BY <1>1, Parts DEF SdkInv, Flags
<1>. QED
  BY <1>1, <1>2, <1>3, <1>4, <1>5, <1>6, SpoolStep DEF Sequenced

LEMMA SendEntryFailsStep ==
    ASSUME SdkInv, SendEntryFails
    PROVE  SdkInv'
<1>1. /\ draining /\ drained # <<>> /\ stored' = stored /\ late' = late \cup {Head(drained)}
      /\ spool' = Append(spool, Head(drained)) /\ drained' = <<>> /\ draining' = FALSE
      /\ drainErrors' = drainErrors + 1
  BY DEF SendEntryFails
<1>2. Sequenced /\ drainErrors \in Nat /\ RunStays
  BY <1>1, Parts DEF SdkInv, Shape, SendEntryFails, RunStays
<1>3. Head(drained) \in Batch
  BY <1>1, <1>2, EntriesTail DEF Sequenced, Batch
<1>4. stored' \in Batch /\ InSeq(stored) \subseteq InSeq(stored') /\ late' \subseteq Batch
  BY <1>1, <1>2, <1>3 DEF Sequenced
<1>5. spool' \in Seq(Batch)
  BY <1>1, <1>2, <1>3 DEF Sequenced
<1>6. drainErrors' \in Nat /\ drainErrors' # 0
  BY <1>1, <1>2
<1>. QED
  BY <1>1, <1>2, <1>4, <1>5, <1>6, EmptyBatch, SpoolStep

LEMMA DrainDoneStep ==
    ASSUME SdkInv, DrainDone
    PROVE  SdkInv'
<1>1. /\ draining /\ drained = <<>> /\ draining' = FALSE
      /\ spool' = spool /\ drained' = drained /\ stored' = stored /\ late' = late
      /\ drainErrors' = drainErrors
  BY DEF DrainDone, collector
<1>2. Sequenced /\ drainErrors \in Nat /\ RunStays
  BY <1>1, Parts DEF SdkInv, Shape, DrainDone, RunStays, collector
<1>3. Spooled \subseteq Spooled'
  BY <1>1 DEF Spooled
<1>. QED
  BY <1>1, <1>2, <1>3, SpoolStep DEF Sequenced

-----------------------------------------------------------------------------
(* The collector processes what the client has given up.                   *)

LEMMA ProcessLateStep ==
    ASSUME SdkInv, ProcessLate
    PROVE  SdkInv'
<1>1. /\ buffer' = buffer /\ closed' = closed /\ last' = last /\ pc' = pc /\ batch' = batch
      /\ then' = then /\ attempt' = attempt /\ emitted' = emitted /\ late' = late
      /\ commitSent' = commitSent /\ onFailure' = onFailure /\ spool' = spool
      /\ drained' = drained /\ draining' = draining /\ drainErrors' = drainErrors
  BY DEF ProcessLate, spoolVars
<1>2. Sequenced /\ Flags /\ Places /\ Counts
  BY Parts DEF SdkInv
<1>3. /\ stored' \in Batch /\ InSeq(stored) \subseteq InSeq(stored')
      /\ onFailure = "raise" =>
             /\ InPlace(stored)'
             /\ \A c : InPlace(c) => Increasing(c) /\ Gapless(c, InSeq(stored'))
      /\ runCommitted' = runCommitted \/ (commitSent /\ runCommitted' = TRUE)
  <2>1. CASE \E b \in late : Store(b) /\ UNCHANGED runCommitted
    <3>1. PICK b \in late : Store(b) /\ UNCHANGED runCommitted
      BY <2>1
    <3>2. b \in Batch /\ stored \in Batch
      BY <1>2 DEF Sequenced
    <3>3. onFailure = "raise" => InPlace(b)
      BY DEF SdkInv, Ordered
    <3>4. stored' \in Batch /\ InSeq(stored') = InSeq(stored) \cup InSeq(b)
      BY <3>1, <3>2, StoreOK
    <3>5. onFailure = "raise" =>
             /\ InPlace(stored)'
             /\ \A c : InPlace(c) => Increasing(c) /\ Gapless(c, InSeq(stored'))
      BY <1>1, <3>1, <3>2, <3>3, StoreOrdered
    <3>. QED
      BY <3>1, <3>4, <3>5
  <2>2. CASE commitSent /\ runCommitted' = TRUE /\ UNCHANGED stored
    <3>1. onFailure = "raise" => InPlace(stored)
      BY DEF SdkInv, Ordered
    <3>. QED
      BY <1>2, <2>2, <3>1 DEF Sequenced, InPlace
  <2>. QED
    BY <2>1, <2>2 DEF ProcessLate
<1>4. TypeOK'
  <2>1. Sequenced'
    BY <1>1, <1>2, <1>3 DEF Sequenced
  <2>2. Flags'
    BY <1>1, <1>2, <1>3 DEF Flags
  <2>3. Places'
    BY <1>1, <1>2 DEF Places
  <2>4. Counts'
    BY <1>1, <1>2 DEF Counts
  <2>. QED
    BY <2>1, <2>2, <2>3, <2>4 DEF TypeOK, Sequenced, Flags, Places, Counts, Starts
<1>5. Shape'
  BY <1>1 DEF SdkInv, Shape
<1>6. NothingLost'
  BY <1>1, <1>3 DEF SdkInv, NothingLost, Spooled
<1>7. Ordered'
  <2>. SUFFICES ASSUME onFailure = "raise" PROVE Ordered'
    BY <1>1 DEF Ordered
  <2>1. /\ InPlace(stored)'
        /\ \A c \in late \cup {buffer, batch} : Increasing(c) /\ Gapless(c, InSeq(stored'))
    BY <1>3 DEF SdkInv, Ordered
  <2>2. \A e \in InSeq(buffer) \cup InSeq(batch) : e <= emitted
    BY DEF SdkInv, Ordered
  <2>. QED
    BY <1>1, <2>1, <2>2 DEF Ordered, InPlace
<1>8. Committed'
  BY <1>1, <1>3 DEF SdkInv, Committed
<1>. QED
  BY <1>4, <1>5, <1>6, <1>7, <1>8 DEF SdkInv

-----------------------------------------------------------------------------
(* Theorems.                                                               *)

LEMMA InitOK == Init => SdkInv
<1>. SUFFICES ASSUME Init PROVE SdkInv
  OBVIOUS
<1>1. TypeOK
  <2>1. Sequenced
    BY EmptyBatch DEF Init, Sequenced
  <2>2. Flags
    BY Zenon DEF Init, Flags
  <2>3. Places
    BY DEF Init, Places, Starts
  <2>4. Counts
    BY Constants DEF Init, Counts
  <2>. QED
    BY <2>1, <2>2, <2>3, <2>4, Parts
<1>2. Shape
  BY DEF Init, Shape
<1>3. NothingLost
  <2>1. 1..0 = {}
    OBVIOUS
  <2>. QED
    BY <2>1 DEF Init, NothingLost
<1>4. Ordered
  BY EmptyBatch, InSeqEmpty DEF Init, Ordered, InPlace
<1>5. Committed
  BY DEF Init, Committed
<1>. QED
  BY <1>1, <1>2, <1>3, <1>4, <1>5 DEF SdkInv

LEMMA StutterOK ==
    ASSUME SdkInv, UNCHANGED vars
    PROVE  SdkInv'
<1>1. TypeOK'
  BY DEF SdkInv, TypeOK, vars, collector
<1>2. Shape'
  BY DEF SdkInv, Shape, vars
<1>3. NothingLost'
  BY DEF SdkInv, NothingLost, Spooled, vars
<1>4. Ordered'
  BY DEF SdkInv, Ordered, InPlace, vars
<1>5. Committed'
  BY DEF SdkInv, Committed, vars
<1>. QED
  BY <1>1, <1>2, <1>3, <1>4, <1>5 DEF SdkInv

\* The invariant holds whatever the collector answers, and however calls of
\* flush_spool run beside the agent.
THEOREM SdkInvariant == Spec => []SdkInv
<1>1. Init => SdkInv
  BY InitOK
<1>2. SdkInv /\ [Next]_vars => SdkInv'
  <2>. SUFFICES ASSUME SdkInv, [Next]_vars PROVE SdkInv'
    OBVIOUS
  <2>1. CASE Emit \/ request_approval \/ commit \/ fail
    BY <2>1, EmitStep
  <2>2. CASE close \/ atexit_flush
    BY <2>2, LastFlushStep DEF close, atexit_flush
  <2>3. CASE Attempt \/ CommitRun
    BY <2>3, PostOkStep, PostErrorStep, PostRejectedStep, GiveUpStep, CommitRunStep DEF Attempt
  <2>4. CASE Drain \/ FlushSpool
    BY <2>4, DrainStep, SendEntryStep, SendEntryFailsStep, DrainDoneStep DEF FlushSpool
  <2>5. CASE UNCHANGED vars
    BY <2>5, StutterOK
  <2>. QED
    BY <2>1, <2>2, <2>3, <2>4, <2>5, ProcessLateStep DEF Next
<1>. QED
  BY <1>1, <1>2, PTL DEF Spec

\* The state of the SDK is well typed; no request is tried more often than
\* max_retries.
THEOREM SdkTypes == Spec => []TypeOK
<1>1. SdkInv => TypeOK
  BY DEF SdkInv
<1>. QED
  BY <1>1, SdkInvariant, PTL

\* No emitted event is lost while the process lives.
THEOREM SdkLosesNothing == Spec => []NothingLost
<1>1. SdkInv => NothingLost
  BY DEF SdkInv
<1>. QED
  BY <1>1, SdkInvariant, PTL

\* With a client that raises the collector has the events in the order of their
\* emission, whatever is retried, put back or processed late.
THEOREM SdkKeepsOrder == Spec => []InOrder
<1>1. SdkInv => InOrder
  BY DEF SdkInv, Ordered, InPlace, Increasing, InOrder
<1>. QED
  BY <1>1, SdkInvariant, PTL

\* A run the collector was told is committed is complete there.
THEOREM SdkCommitsComplete == Spec => []CommittedComplete
<1>1. SdkInv => CommittedComplete
  BY DEF SdkInv, Committed, CommittedComplete
<1>. QED
  BY <1>1, SdkInvariant, PTL
=============================================================================
