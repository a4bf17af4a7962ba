---------------------------- MODULE SdkTsProofs -----------------------------
(***************************************************************************)
(* Proofs about the TypeScript SDK, for every set of pending calls, batch  *)
(* size and bound: no event is lost by calls that overlap, and for an      *)
(* agent that awaits its calls the collector sees the events in order and  *)
(* a committed run is complete there.                                      *)
(***************************************************************************)
EXTENDS SdkTs, SubsequenceProofs

-----------------------------------------------------------------------------
(* The inductive invariant.                                                *)

Batch  == Seq(1..MaxEvents)
Goals  == {"none", "emit", "approve", "commit", "fail", "flush"}
Nexts  == {"idle", "flush", "close"}
Pcs    == Nexts \cup {"post", "commitRun"}
Call   == [goal : Goals, pc : Pcs, batch : Batch, next : Nexts]
Stream == [entry : Batch, inode : Nat]

Typed ==
    /\ onFailure \in {"spool", "drop", "raise"}
    /\ buffer \in Batch /\ stored \in Batch /\ late \subseteq Batch
    /\ spool \in Seq(Batch) /\ drained \in Seq(Batch)
    /\ call \in [Calls -> Call]
    /\ \A w \in streams : w \in Stream
    /\ emitted \in 0..MaxEvents /\ last \in 0..MaxEvents
    /\ inode \in Nat /\ drainErrors \in Nat

\* Only a post has a batch; entries in memory belong to a running flushSpool; a
\* client without a spool never has any; a process that has exited has no calls.
Shape ==
    /\ \A c \in Calls : call[c].pc # "post" => call[c].batch = <<>>
    /\ ~draining => drained = <<>>
    /\ onFailure # "spool" => /\ spool = <<>> /\ drained = <<>> /\ streams = {}
                              /\ ~draining /\ ~orphaned /\ drainErrors = 0
    /\ ~alive => \A c \in Calls : call[c].pc = "idle"
    /\ last <= emitted

\* An agent that awaits has one call pending, and while that posts the buffer
\* is empty.
OneCall ==
    awaits => /\ \A c, d \in Calls : call[c].pc # "idle" /\ call[d].pc # "idle" => c = d
              /\ \A c \in Calls : call[c].pc = "post" => buffer = <<>>

\* Whatever was emitted before an event of b is in b too, or known.
Gapless(b, known) == \A e \in InSeq(b) : 1..e \subseteq known \cup InSeq(b)

\* A batch that can be stored at any time without disorder.
InPlace(b) == Increasing(b) /\ Gapless(b, InSeq(stored))

\* Events are numbered as they are emitted.
Numbered ==
    /\ \A e \in InSeq(buffer) : e <= emitted
    /\ \A c \in Calls : \A e \in InSeq(call[c].batch) : e <= emitted

\* For an agent that awaits, and a client that throws, the collector has the
\* first events, without a gap, and every batch, posted, buffered or late, begins
\* where they end or before: what was not acknowledged is put back, so that a
\* newer batch contains it.
Ordered ==
    awaits /\ onFailure = "raise" =>
        /\ Numbered
        /\ InPlace(stored) /\ InPlace(buffer)
        /\ \A c \in Calls : InPlace(call[c].batch)
        /\ \A b \in late : InPlace(b)

\* With a client that throws, a call that is past its flush has brought all
\* events to the collector, and none is committed once more.
Committed ==
    awaits /\ onFailure = "raise" =>
        /\ commitSent \/ runCommitted => closed
        /\ \A c \in Calls : call[c].pc = "commitRun" => closed
        /\ (commitSent \/ runCommitted \/ \E c \in Calls : call[c].pc \in {"close", "commitRun"})
              => 1..last \subseteq InSeq(stored)

SdkTsInv == Typed /\ Shape /\ OneCall /\ NothingLost /\ Ordered /\ Committed
-----------------------------------------------------------------------------
(* Facts.                                                                  *)

LEMMA Constants == MaxEvents \in Nat /\ BatchSize \in Nat
BY SdkTsBounds

LEMMA EmptyBatch == /\ <<>> \in Batch /\ <<>> \in Seq(Batch)
                    /\ Increasing(<<>>) /\ \A k : Gapless(<<>>, k)
<1>1. <<>> \in Batch /\ <<>> \in Seq(Batch)
  BY DEF Batch
<1>2. Increasing(<<>>) /\ \A k : Gapless(<<>>, k)
  BY InSeqEmpty DEF Increasing, Gapless
<1>. QED
  BY <1>1, <1>2

\* Events are numbers from 1 on.
LEMMA EventsTyped ==
    ASSUME NEW b \in Batch
    PROVE  InSeq(b) \subseteq 1..MaxEvents
BY InSeqTyped DEF Batch

\* Only call c is changed.
Only(c) == \A d \in Calls : d # c => call'[d] = call[d]

\* A call goes on without a batch, or ends.
LEMMA ContinueOK ==
    ASSUME call \in [Calls -> Call], NEW c \in Calls, NEW goal \in Goals, NEW p \in Pcs,
           Continue(c, goal, p)
    PROVE  /\ call' \in [Calls -> Call] /\ Only(c)
           /\ call'[c].pc = p /\ call'[c].batch = <<>>
<1>. DEFINE q == IF p = "idle" THEN Idle ELSE [Idle EXCEPT !.goal = goal, !.pc = p]
<1>1. q \in Call /\ q.pc = p /\ q.batch = <<>>
  BY EmptyBatch DEF Idle, Call, Goals, Pcs, Nexts
<1>2. call' = [call EXCEPT ![c] = q]
  BY DEF Continue
<1>. HIDE DEF q
<1>. QED
  BY <1>1, <1>2 DEF Only

\* The buffer becomes the batch of a call.
LEMMA TakeBatchOK ==
    ASSUME call \in [Calls -> Call], NEW c \in Calls, NEW goal \in Goals, NEW b \in Batch,
           NEW next \in Nexts, TakeBatch(c, goal, b, next)
    PROVE  /\ call' \in [Calls -> Call] /\ Only(c)
           /\ call'[c].pc = "post" /\ call'[c].batch = b /\ buffer' = <<>>
<1>. DEFINE q == [goal |-> goal, pc |-> "post", batch |-> b, next |-> next]
<1>1. q \in Call /\ q.pc = "post" /\ q.batch = b
  BY DEF Call, Pcs, Nexts
<1>2. call' = [call EXCEPT ![c] = q] /\ buffer' = <<>>
  BY DEF TakeBatch
<1>. HIDE DEF q
<1>. QED
  BY <1>1, <1>2 DEF Only

\* The events in posts when one call changes.
LEMMA PostingOnly ==
    ASSUME NEW c \in Calls, Only(c)
    PROVE  Posting(call) \subseteq Posting(call') \cup InSeq(call[c].batch)
BY DEF Only, Posting

LEMMA PostingHas ==
    ASSUME NEW c \in Calls, NEW calls
    PROVE  InSeq(calls[c].batch) \subseteq Posting(calls)
BY DEF Posting

\* The collector processes a batch: it has what it had, and the batch.
LEMMA StoreOK ==
    ASSUME stored \in Batch, NEW b \in Batch, Store(b)
    PROVE  stored' \in Batch /\ InSeq(stored') = InSeq(stored) \cup InSeq(b)
<1>1. stored \in Seq(1..MaxEvents) /\ b \in Seq(1..MaxEvents)
  BY DEF Batch
<1>2. stored' = AppendNew(stored, b)
  BY DEF Store
<1>. QED
  BY <1>1, <1>2, AppendNewIs DEF Batch

\* Storing a batch that is in place keeps the events in order and without gap,
\* whatever was stored since the batch was posted.
LEMMA StoreInPlace ==
    ASSUME stored \in Batch, NEW b \in Batch, Store(b), InPlace(stored), InPlace(b)
    PROVE  /\ Increasing(stored') /\ Gapless(stored', InSeq(stored'))
           /\ \A c : InPlace(c) => Increasing(c) /\ Gapless(c, InSeq(stored'))
<1>1. stored \in Seq(1..MaxEvents) /\ b \in Seq(1..MaxEvents) /\ 1..MaxEvents \in SUBSET Nat
  BY Constants DEF Batch
<1>2. stored' \in Batch /\ InSeq(stored') = InSeq(stored) \cup InSeq(b)
  BY StoreOK
<1>3. InSeq(stored) \subseteq 1..MaxEvents /\ InSeq(b) \subseteq 1..MaxEvents
  BY EventsTyped
<1>4. Ahead(b, InSeq(stored))
  <2>. SUFFICES ASSUME NEW e \in InSeq(b), e \notin InSeq(stored), NEW x \in InSeq(stored)
                PROVE  x < e
    BY DEF Ahead
  <2>1. e \in Nat /\ x \in Nat /\ 1 <= e
    BY <1>3, Constants
  <2>2. 1..x \subseteq InSeq(stored)
    BY DEF InPlace, Gapless
  <2>3. e \notin 1..x
    BY <2>2
  <2>. QED
    BY <2>1, <2>3
<1>5. Increasing(stored')
  <2>1. stored' = AppendNew(stored, b)
    BY DEF Store
  <2>2. Increasing(AppendNew(stored, b))
    BY <1>1, <1>4, AppendNewIncreasing DEF InPlace
  <2>. QED
    BY <2>1, <2>2
<1>6. Gapless(stored', InSeq(stored'))
  BY <1>2 DEF InPlace, Gapless
<1>7. \A c : InPlace(c) => Increasing(c) /\ Gapless(c, InSeq(stored'))
  BY <1>2 DEF InPlace, Gapless
<1>. QED
  BY <1>5, <1>6, <1>7

\* The event that is emitted next is newer than all others.
LEMMA EmitOK ==
    ASSUME SdkTsInv, emitted < MaxEvents, NEW b, b = Append(buffer, emitted + 1),
           alive, awaits => \A d \in Calls : call[d].batch = <<>>
    PROVE  /\ b \in Batch /\ InSeq(b) = InSeq(buffer) \cup {emitted + 1}
           /\ emitted + 1 \in 0..MaxEvents
           /\ 1..(emitted + 1) = (1..emitted) \cup {emitted + 1}
           /\ awaits /\ onFailure = "raise" => InPlace(b) /\ \A e \in InSeq(b) : e <= emitted + 1
<1>1. buffer \in Seq(1..MaxEvents) /\ emitted \in 0..MaxEvents /\ MaxEvents \in Nat
  BY Constants DEF SdkTsInv, Typed, Batch
<1>2. emitted + 1 \in 1..MaxEvents
  BY <1>1
<1>3. b \in Batch /\ InSeq(b) = InSeq(buffer) \cup {emitted + 1}
  BY <1>1, <1>2, InSeqAppend DEF Batch
<1>4. ASSUME awaits, onFailure = "raise"
      PROVE  InPlace(b) /\ \A e \in InSeq(b) : e <= emitted + 1
  <2>1. (\A e \in InSeq(buffer) : e <= emitted) /\ Increasing(buffer)
    BY <1>4 DEF SdkTsInv, Ordered, Numbered, InPlace
  <2>2. PICK S : S = 1..MaxEvents
    OBVIOUS
  <2>3. PICK m : m = emitted + 1
    OBVIOUS
  <2>4. S \in SUBSET Nat /\ buffer \in Seq(S) /\ {} \in SUBSET S /\ m \in S
    BY <1>1, <1>2, <2>2, <2>3
  <2>5. \A e \in {} \cup InSeq(buffer) : e < m
    BY <1>1, <2>1, <2>2, <2>3, <2>4, InSeqTyped
  <2>6. Ahead(buffer, {})
    BY DEF Ahead
  <2>7. Increasing(b)
    BY <2>1, <2>3, <2>4, <2>5, <2>6, AppendNewest
  <2>8. InSeq(buffer) \subseteq 1..MaxEvents
    BY <1>1, InSeqTyped
  <2>9. \A e \in InSeq(b) : e \in Nat /\ e <= emitted + 1
    BY <1>1, <1>3, <2>1, <2>8
  <2>10. 1..emitted \subseteq InSeq(stored) \cup InSeq(buffer)
    <3>1. Writing(streams) = {} /\ Entries(spool) = {} /\ Entries(drained) = {} /\ Posting(call) = {}
      BY <1>4, InSeqEmpty DEF SdkTsInv, Shape, Writing, Posting
    <3>2. drainErrors = 0 /\ ~orphaned /\ onFailure # "drop"
      BY <1>4 DEF SdkTsInv, Shape
    <3>3. 1..emitted \subseteq InSeq(stored) \cup Waiting
      BY <3>2 DEF SdkTsInv, NothingLost
    <3>. QED
      BY <3>1, <3>3 DEF Waiting
  <2>11. ASSUME NEW e \in InSeq(b) PROVE 1..e \subseteq InSeq(stored) \cup InSeq(b)
    <3>1. 1..e \subseteq (1..emitted) \cup {emitted + 1}
      BY <1>1, <2>9
    <3>. QED
      BY <1>3, <2>10, <3>1
  <2>. QED
    BY <2>7, <2>9, <2>11 DEF InPlace, Gapless
<1>5. emitted + 1 \in 0..MaxEvents /\ 1..(emitted + 1) = (1..emitted) \cup {emitted + 1}
  BY <1>1, <1>2
<1>. QED
  BY <1>3, <1>4, <1>5
-----------------------------------------------------------------------------
(* The steps of the run.                                                   *)

\* An event joins the buffer; the call posts the buffer, flushes it or ends.
LEMMA EmitForOK ==
    ASSUME SdkTsInv, NEW c \in Calls, NEW goal \in Goals, EmitFor(c, goal),
           \/ last' = last
           \/ last' = emitted + 1 /\ ~closed
    PROVE  SdkTsInv'
<1>. DEFINE b == Append(buffer, emitted + 1)
<1>0. /\ Free(c) /\ emitted < MaxEvents /\ emitted' = emitted + 1
      /\ closed' = closed /\ stored' = stored /\ late' = late
      /\ commitSent' = commitSent /\ runCommitted' = runCommitted
      /\ onFailure' = onFailure /\ awaits' = awaits /\ alive' = alive
      /\ spool' = spool /\ inode' = inode /\ streams' = streams /\ orphaned' = orphaned
      /\ drained' = drained /\ draining' = draining /\ drainErrors' = drainErrors
  BY DEF EmitFor, settings, spoolVars, drainVars, collector
<1>1. /\ b \in Batch /\ InSeq(b) = InSeq(buffer) \cup {emitted + 1}
      /\ emitted + 1 \in 0..MaxEvents
      /\ 1..(emitted + 1) = (1..emitted) \cup {emitted + 1}
      /\ awaits /\ onFailure = "raise" => InPlace(b) /\ \A e \in InSeq(b) : e <= emitted + 1
  <2>1. alive /\ (awaits => \A d \in Calls : call[d].batch = <<>>)
    BY <1>0 DEF SdkTsInv, Shape, Free
  <2>. QED
    BY <1>0, <2>1, EmitOK
<1>2. \/ TakeBatch(c, goal, b, AfterEmit(goal))
      \/ buffer' = b /\ Continue(c, goal, AfterEmit(goal))
  BY DEF EmitFor
<1>. HIDE DEF b
<1>3. Typed /\ Shape
  BY DEF SdkTsInv
<1>4. AfterEmit(goal) \in {"idle", "flush"}
  BY DEF AfterEmit
<1>5. /\ call' \in [Calls -> Call] /\ Only(c)
      /\ \/ call'[c].pc = "post" /\ call'[c].batch = b /\ buffer' = <<>>
         \/ call'[c].pc \in {"idle", "flush"} /\ call'[c].batch = <<>> /\ buffer' = b
  <2>1. CASE TakeBatch(c, goal, b, AfterEmit(goal))
    BY <1>1, <1>3, <1>4, <2>1, TakeBatchOK DEF Typed, Nexts
  <2>2. CASE buffer' = b /\ Continue(c, goal, AfterEmit(goal))
    BY <1>3, <1>4, <2>2, ContinueOK DEF Typed, Nexts, Pcs
  <2>. QED
    BY <1>2, <2>1, <2>2
<1>6. /\ alive /\ call[c].pc = "idle" /\ call[c].batch = <<>>
      /\ awaits => \A d \in Calls : call[d].pc = "idle" /\ call[d].batch = <<>>
  BY <1>0, <1>3 DEF Free, Shape
<1>7. Typed'
  BY <1>0, <1>1, <1>3, <1>5, EmptyBatch DEF Typed
<1>8. Shape'
  <2>1. last' <= emitted'
    BY <1>0, <1>3 DEF Shape, Typed
  <2>2. \A d \in Calls : call'[d].pc # "post" => call'[d].batch = <<>>
    BY <1>3, <1>5 DEF Shape, Only
  <2>. QED
    BY <1>0, <1>3, <1>6, <2>1, <2>2 DEF Shape
<1>9. OneCall'
  BY <1>0, <1>5, <1>6 DEF OneCall, Only
<1>10. NothingLost'
  <2>1. Posting(call) \subseteq Posting(call')
    BY <1>5, <1>6, PostingOnly, InSeqEmpty
  <2>2. InSeq(call'[c].batch) \subseteq Posting(call')
    BY PostingHas
  <2>3. InSeq(b) \subseteq InSeq(buffer') \cup Posting(call')
    BY <1>5, <2>2
  <2>. QED
    BY <1>0, <1>1, <2>1, <2>3 DEF SdkTsInv, NothingLost, Waiting
<1>11. Ordered'
  <2>. SUFFICES ASSUME awaits, onFailure = "raise" PROVE Ordered'
    BY <1>0 DEF Ordered
  <2>1. InPlace(stored) /\ \A l \in late : InPlace(l)
    BY DEF SdkTsInv, Ordered
  <2>2. \A d \in Calls : call'[d].batch \in {<<>>, b}
    BY <1>5, <1>6 DEF Only
  <2>3. buffer' \in {<<>>, b}
    BY <1>5
  <2>4. Numbered'
    BY <1>0, <1>1, <2>2, <2>3, InSeqEmpty DEF Numbered
  <2>5. InPlace(b) /\ InPlace(<<>>)
    BY <1>1, EmptyBatch DEF InPlace
  <2>. QED
    BY <1>0, <2>1, <2>2, <2>3, <2>4, <2>5 DEF Ordered, InPlace
<1>12. Committed'
  <2>. SUFFICES ASSUME awaits, onFailure = "raise"
                PROVE  Committed'
    BY <1>0 DEF Committed
  <2>1. \A d \in Calls : call'[d].pc \notin {"close", "commitRun"}
    BY <1>5, <1>6 DEF Only
  <2>2. commitSent \/ runCommitted => closed /\ 1..last \subseteq InSeq(stored)
    BY DEF SdkTsInv, Committed
  <2>. QED
    BY <1>0, <2>1, <2>2 DEF Committed
<1>. QED
  BY <1>7, <1>8, <1>9, <1>10, <1>11, <1>12 DEF SdkTsInv

LEMMA EmitStep ==
    ASSUME SdkTsInv, NEW c \in Calls, emit(c) \/ requestApproval(c) \/ commit(c) \/ fail(c)
    PROVE  SdkTsInv'
<1>1. CASE emit(c)
  BY <1>1, EmitForOK DEF emit, Goals
<1>2. CASE requestApproval(c)
  BY <1>2, EmitForOK DEF requestApproval, Goals
<1>3. CASE commit(c)
  BY <1>3, EmitForOK DEF commit, Goals
<1>4. CASE fail(c)
  BY <1>4, EmitForOK DEF fail, Goals
<1>. QED
  BY <1>1, <1>2, <1>3, <1>4

\* The buffer becomes the batch of a call that had none.
LEMMA FlushOK ==
    ASSUME SdkTsInv, NEW c \in Calls, NEW goal \in Goals, NEW next \in Nexts,
           alive, call[c].pc # "post",
           awaits => \A d \in Calls : d # c => call[d].pc = "idle",
           TakeBatch(c, goal, buffer, next),
           UNCHANGED <<settings, alive, closed, last, emitted, spoolVars, drainVars, stored, late, commitSent,
                       runCommitted>>
    PROVE  SdkTsInv'
<1>0. /\ closed' = closed /\ stored' = stored /\ late' = late
      /\ commitSent' = commitSent /\ runCommitted' = runCommitted
      /\ emitted' = emitted /\ last' = last
      /\ onFailure' = onFailure /\ awaits' = awaits /\ alive' = alive
      /\ spool' = spool /\ inode' = inode /\ streams' = streams /\ orphaned' = orphaned
      /\ drained' = drained /\ draining' = draining /\ drainErrors' = drainErrors
  BY DEF settings, spoolVars, drainVars
<1>1. Typed /\ Shape
  BY DEF SdkTsInv
<1>2. /\ call' \in [Calls -> Call] /\ Only(c)
      /\ call'[c].pc = "post" /\ call'[c].batch = buffer /\ buffer' = <<>>
  BY <1>1, TakeBatchOK DEF Typed
<1>3. call[c].batch = <<>>
  BY <1>1 DEF Shape
<1>4. Typed'
  BY <1>0, <1>1, <1>2, EmptyBatch DEF Typed
<1>5. Shape'
  <2>1. \A d \in Calls : call'[d].pc # "post" => call'[d].batch = <<>>
    BY <1>1, <1>2 DEF Shape, Only
  <2>. QED
    BY <1>0, <1>1, <2>1 DEF Shape
<1>6. OneCall'
  BY <1>0, <1>2 DEF OneCall, Only
<1>7. NothingLost'
  <2>1. Posting(call) \subseteq Posting(call') /\ InSeq(buffer) \subseteq Posting(call')
    BY <1>2, <1>3, PostingOnly, PostingHas, InSeqEmpty
  <2>. QED
    BY <1>0, <2>1 DEF SdkTsInv, NothingLost, Waiting
<1>8. Ordered'
  <2>. SUFFICES ASSUME awaits, onFailure = "raise" PROVE Ordered'
    BY <1>0 DEF Ordered
  <2>1. /\ Numbered /\ InPlace(stored) /\ InPlace(buffer)
        /\ \A d \in Calls : InPlace(call[d].batch)
        /\ \A l \in late : InPlace(l)
    BY DEF SdkTsInv, Ordered
  <2>2. \A d \in Calls : call'[d].batch \in {buffer, call[d].batch}
    BY <1>2 DEF Only
  <2>3. Numbered'
    BY <1>0, <1>2, <2>1, <2>2, InSeqEmpty DEF Numbered
  <2>. QED
    BY <1>0, <1>2, <2>1, <2>2, <2>3, EmptyBatch DEF Ordered, InPlace
<1>9. Committed'
  <2>1. \A d \in Calls : call'[d].pc \in {"close", "commitRun"} => call[d].pc = call'[d].pc
    BY <1>2 DEF Only
  <2>. QED
    BY <1>0, <2>1 DEF SdkTsInv, Committed
<1>. QED
  BY <1>4, <1>5, <1>6, <1>7, <1>8, <1>9 DEF SdkTsInv

LEMMA FlushStep ==
    ASSUME SdkTsInv, NEW c \in Calls, flush(c)
    PROVE  SdkTsInv'
<1>1. alive /\ call[c].pc # "post" /\ (awaits => \A d \in Calls : d # c => call[d].pc = "idle")
  BY DEF flush, Free
<1>2. "flush" \in Goals /\ "idle" \in Nexts
  BY DEF Goals, Nexts
<1>. QED
  BY <1>1, <1>2, FlushOK DEF flush, collector

\* A call goes on without sending anything, and not past its flush unless all
\* events are stored.
LEMMA MoveOK ==
    ASSUME SdkTsInv, NEW c \in Calls, NEW goal \in Goals, NEW p \in Pcs,
           call[c].pc \notin {"post", "idle"}, p # "post", Continue(c, goal, p),
           buffer' = buffer,
           awaits /\ onFailure = "raise" =>
              /\ closed => closed'
              /\ p = "commitRun" => closed'
              /\ p \in {"close", "commitRun"} \/ commitSent' \/ runCommitted' =>
                    1..last \subseteq InSeq(stored)
              /\ commitSent' \/ runCommitted' => closed',
           UNCHANGED <<settings, alive, last, emitted, spoolVars, drainVars, stored, late>>
    PROVE  SdkTsInv'
<1>0. /\ stored' = stored /\ late' = late /\ emitted' = emitted /\ last' = last
      /\ onFailure' = onFailure /\ awaits' = awaits /\ alive' = alive
      /\ spool' = spool /\ inode' = inode /\ streams' = streams /\ orphaned' = orphaned
      /\ drained' = drained /\ draining' = draining /\ drainErrors' = drainErrors
  BY DEF settings, spoolVars, drainVars
<1>1. Typed /\ Shape
  BY DEF SdkTsInv
<1>2. /\ call' \in [Calls -> Call] /\ Only(c)
      /\ call'[c].pc = p /\ call'[c].batch = <<>>
  BY <1>1, ContinueOK DEF Typed
<1>3. call[c].batch = <<>> /\ alive
  BY <1>1 DEF Shape
<1>4. Typed'
  BY <1>0, <1>1, <1>2 DEF Typed
<1>5. Shape'
  <2>1. \A d \in Calls : call'[d].pc # "post" => call'[d].batch = <<>>
    BY <1>1, <1>2 DEF Shape, Only
  <2>. QED
    BY <1>0, <1>1, <1>3, <2>1 DEF Shape
<1>6. OneCall'
  <2>1. \A d \in Calls : call'[d].pc = "post" => call[d].pc = "post"
    BY <1>2 DEF Only
  <2>2. \A d \in Calls : call'[d].pc # "idle" => call[d].pc # "idle"
    BY <1>2 DEF Only
  <2>. QED
    BY <1>0, <2>1, <2>2 DEF SdkTsInv, OneCall
<1>7. NothingLost'
  <2>1. Posting(call) \subseteq Posting(call')
    BY <1>2, <1>3, PostingOnly, InSeqEmpty
  <2>. QED
    BY <1>0, <2>1 DEF SdkTsInv, NothingLost, Waiting
<1>8. Ordered'
  <2>1. \A d \in Calls : call'[d].batch = call[d].batch
    BY <1>2, <1>3 DEF Only
  <2>. QED
    BY <1>0, <2>1 DEF SdkTsInv, Ordered, Numbered, InPlace
<1>9. Committed'
  <2>. SUFFICES ASSUME awaits, onFailure = "raise" PROVE Committed'
    BY <1>0 DEF Committed
  <2>1. \A d \in Calls : d # c => call'[d].pc = call[d].pc
    BY <1>2 DEF Only
  <2>2. \A d \in Calls : call'[d].pc = "commitRun" => closed'
    BY <1>2, <2>1 DEF SdkTsInv, Committed
  <2>3. (\E d \in Calls : call'[d].pc \in {"close", "commitRun"}) => 1..last \subseteq InSeq(stored)
    BY <1>2, <2>1 DEF SdkTsInv, Committed
  <2>. QED
    BY <1>0, <2>2, <2>3 DEF Committed
<1>. QED
  BY <1>4, <1>5, <1>6, <1>7, <1>8, <1>9 DEF SdkTsInv
\* With one call pending, a client that throws and an empty buffer, what is not
\* stored is in that call's batch.
LEMMA AllButBatch ==
    ASSUME SdkTsInv, awaits, onFailure = "raise", NEW c \in Calls, call[c].pc # "idle", buffer = <<>>
    PROVE  1..last \subseteq InSeq(stored) \cup InSeq(call[c].batch)
<1>1. Shape /\ OneCall /\ Typed
  BY DEF SdkTsInv
<1>2. \A d \in Calls : d # c => call[d].batch = <<>>
  BY <1>1 DEF Shape, OneCall
<1>3. Posting(call) \subseteq InSeq(call[c].batch)
  BY <1>2, InSeqEmpty DEF Posting
<1>4. Writing(streams) = {} /\ Entries(spool) = {} /\ Entries(drained) = {} /\ InSeq(buffer) = {}
  BY <1>1, InSeqEmpty DEF Shape, Writing
<1>5. 1..emitted \subseteq InSeq(stored) \cup Waiting
  BY <1>1 DEF SdkTsInv, NothingLost, Shape
<1>6. last \in Nat /\ emitted \in Nat /\ last <= emitted
  BY <1>1, Constants DEF Shape, Typed
<1>7. 1..last \subseteq 1..emitted
  BY <1>6
<1>. QED
  BY <1>3, <1>4, <1>5, <1>7 DEF Waiting

\* The flush of commit, rollback, fail and requestApproval.
LEMMA FlushCallStep ==
    ASSUME SdkTsInv, NEW c \in Calls, FlushCall(c)
    PROVE  SdkTsInv'
<1>1. Typed /\ Shape /\ OneCall
  BY DEF SdkTsInv
<1>2. /\ call[c].pc = "flush" /\ call[c].goal \in Goals /\ AfterFlush(call[c].goal) \in {"idle", "close"}
      /\ UNCHANGED <<settings, alive, closed, last, emitted, spoolVars, drainVars, stored, late,
                     commitSent, runCommitted>>
  BY <1>1 DEF FlushCall, Typed, Call, AfterFlush, collector
<1>3. alive /\ call[c].batch = <<>>
  BY <1>1, <1>2 DEF Shape
<1>4. CASE buffer = <<>>
  <2>1. Continue(c, call[c].goal, AfterFlush(call[c].goal)) /\ buffer' = buffer
    BY <1>4 DEF FlushCall
  <2>2. awaits /\ onFailure = "raise" => 1..last \subseteq InSeq(stored)
    BY <1>2, <1>3, <1>4, AllButBatch, InSeqEmpty
  <2>3. closed' = closed /\ commitSent' = commitSent /\ runCommitted' = runCommitted
    BY <1>2
  <2>4. awaits /\ onFailure = "raise" /\ (commitSent \/ runCommitted) => closed
    BY DEF SdkTsInv, Committed
  <2>5. AfterFlush(call[c].goal) \in Pcs /\ AfterFlush(call[c].goal) \notin {"post", "commitRun"}
    BY <1>2 DEF Pcs, Nexts
  <2>. QED
    BY <1>2, <2>1, <2>2, <2>3, <2>4, <2>5, MoveOK
<1>5. CASE buffer # <<>>
  <2>1. TakeBatch(c, call[c].goal, buffer, AfterFlush(call[c].goal))
    BY <1>5 DEF FlushCall
  <2>2. AfterFlush(call[c].goal) \in Nexts
    BY <1>2 DEF Nexts
  <2>3. awaits => \A d \in Calls : d # c => call[d].pc = "idle"
    BY <1>1, <1>2 DEF OneCall
  <2>. QED
    BY <1>2, <1>3, <2>1, <2>2, <2>3, FlushOK
<1>. QED
  BY <1>4, <1>5

\* The run is closed.
LEMMA CloseRunStep ==
    ASSUME SdkTsInv, NEW c \in Calls, CloseRun(c)
    PROVE  SdkTsInv'
<1>1. Typed /\ Committed
  BY DEF SdkTsInv
<1>. DEFINE p == IF call[c].goal = "commit" THEN "commitRun" ELSE "idle"
<1>2. /\ call[c].pc = "close" /\ call[c].goal \in Goals /\ closed' = TRUE /\ buffer' = buffer
      /\ Continue(c, call[c].goal, p) /\ commitSent' = commitSent /\ runCommitted' = runCommitted
      /\ UNCHANGED <<settings, alive, last, emitted, spoolVars, drainVars, stored, late>>
  BY <1>1 DEF CloseRun, Typed, Call, collector
<1>3. p \in {"idle", "commitRun"} /\ p \in Pcs
  BY DEF Pcs, Nexts
<1>. HIDE DEF p
<1>4. awaits /\ onFailure = "raise" => 1..last \subseteq InSeq(stored)
  BY <1>1, <1>2 DEF Committed
<1>. QED
  BY <1>2, <1>3, <1>4, MoveOK

\* commitRun ends.
LEMMA CommitRunStep ==
    ASSUME SdkTsInv, NEW c \in Calls, CommitRun(c)
    PROVE  SdkTsInv'
<1>1. Typed /\ Committed
  BY DEF SdkTsInv
<1>2. /\ call[c].pc = "commitRun" /\ closed' = closed /\ buffer' = buffer
      /\ Continue(c, "commit", "idle")
      /\ UNCHANGED <<settings, alive, last, emitted, spoolVars, drainVars, stored, late>>
  BY DEF CommitRun, runVars
<1>3. awaits /\ onFailure = "raise" => closed /\ 1..last \subseteq InSeq(stored)
  BY <1>1, <1>2 DEF Committed
<1>4. "commit" \in Goals /\ "idle" \in Pcs
  BY DEF Goals, Pcs, Nexts
<1>. QED
  BY <1>2, <1>3, <1>4, MoveOK

-----------------------------------------------------------------------------
(* The steps of a post.                                                    *)

\* The events of a post are processed, and the call goes on.
LEMMA PostOkStep ==
    ASSUME SdkTsInv, NEW c \in Calls, PostOk(c)
    PROVE  SdkTsInv'
<1>0. /\ closed' = closed /\ buffer' = buffer /\ emitted' = emitted /\ last' = last
      /\ onFailure' = onFailure /\ awaits' = awaits /\ alive' = alive
      /\ spool' = spool /\ inode' = inode /\ streams' = streams /\ orphaned' = orphaned
      /\ drained' = drained /\ draining' = draining /\ drainErrors' = drainErrors
      /\ late' = late /\ commitSent' = commitSent /\ runCommitted' = runCommitted
      /\ call[c].pc = "post" /\ Store(call[c].batch)
  BY DEF PostOk, settings, runVars, spoolVars, drainVars
<1>1. Typed /\ Shape /\ OneCall
  BY DEF SdkTsInv
<1>2. call[c].batch \in Batch /\ stored \in Batch
  BY <1>1 DEF Typed, Call
<1>3. stored' \in Batch /\ InSeq(stored') = InSeq(stored) \cup InSeq(call[c].batch)
  BY <1>0, <1>2, StoreOK
<1>4. /\ call' \in [Calls -> Call] /\ Only(c)
      /\ call'[c].pc \in Nexts /\ call'[c].batch = <<>>
  <2>1. /\ call \in [Calls -> Call] /\ call[c].goal \in Goals /\ call[c].next \in Nexts
        /\ call[c].next \in Pcs
    BY <1>1 DEF Typed, Call, Pcs
  <2>2. Continue(c, call[c].goal, call[c].next)
    BY DEF PostOk
  <2>. QED
    BY <2>1, <2>2, ContinueOK
<1>5. \A d \in Calls : \/ call'[d] = call[d]
                       \/ d = c /\ call'[d].pc \in Nexts /\ call'[d].batch = <<>>
  BY <1>4 DEF Only
<1>. USE DEF Nexts
<1>6. Typed'
  BY <1>0, <1>1, <1>3, <1>4 DEF Typed
<1>7. Shape'
  <2>1. \A d \in Calls : call'[d].pc # "post" => call'[d].batch = <<>>
    BY <1>1, <1>5 DEF Shape
  <2>2. alive
    BY <1>0, <1>1 DEF Shape
  <2>. QED
    BY <1>0, <1>1, <2>1, <2>2 DEF Shape
<1>8. OneCall'
  <2>1. \A d \in Calls : call'[d].pc = "post" => call[d].pc = "post"
    BY <1>5
  <2>2. \A d \in Calls : call'[d].pc # "idle" => call[d].pc # "idle"
    BY <1>0, <1>5
  <2>. QED
    BY <1>0, <1>1, <2>1, <2>2 DEF OneCall
<1>9. NothingLost'
  <2>1. Posting(call) \subseteq Posting(call') \cup InSeq(call[c].batch)
    BY <1>4, PostingOnly
  <2>. QED
    BY <1>0, <1>3, <2>1 DEF SdkTsInv, NothingLost, Waiting
<1>10. Ordered'
  <2>. SUFFICES ASSUME awaits, onFailure = "raise" PROVE Ordered'
    BY <1>0 DEF Ordered
  <2>1. /\ Numbered /\ InPlace(stored) /\ InPlace(buffer)
        /\ \A d \in Calls : InPlace(call[d].batch)
        /\ \A l \in late : InPlace(l)
    BY DEF SdkTsInv, Ordered
  <2>2. /\ Increasing(stored') /\ Gapless(stored', InSeq(stored'))
        /\ \A l : InPlace(l) => Increasing(l) /\ Gapless(l, InSeq(stored'))
    BY <1>0, <1>2, <2>1, StoreInPlace
  <2>3. \A d \in Calls : call'[d].batch \in {<<>>, call[d].batch}
    BY <1>5
  <2>4. Numbered'
    BY <1>0, <2>1, <2>3, InSeqEmpty DEF Numbered
  <2>. QED
    BY <1>0, <2>1, <2>2, <2>3, <2>4, EmptyBatch DEF Ordered, InPlace
<1>11. Committed'
  <2>. SUFFICES ASSUME awaits, onFailure = "raise" PROVE Committed'
    BY <1>0 DEF Committed
  <2>1. buffer = <<>>
    BY <1>0, <1>1 DEF OneCall
  <2>2. 1..last \subseteq InSeq(stored')
    BY <1>0, <1>3, <2>1, AllButBatch
  <2>3. \A d \in Calls : call'[d].pc = "commitRun" => call[d].pc = "commitRun"
    BY <1>5
  <2>4. /\ commitSent \/ runCommitted => closed
        /\ \A d \in Calls : call[d].pc = "commitRun" => closed
    BY DEF SdkTsInv, Committed
  <2>. QED
    BY <1>0, <2>2, <2>3, <2>4 DEF Committed
<1>. QED
  BY <1>6, <1>7, <1>8, <1>9, <1>10, <1>11 DEF SdkTsInv

\* An attempt fails: the collector may still have its batch.
LEMMA AttemptFailsStep ==
    ASSUME SdkTsInv, NEW c \in Calls, AttemptFails(c)
    PROVE  SdkTsInv'
<1>0. /\ closed' = closed /\ buffer' = buffer /\ emitted' = emitted /\ last' = last
      /\ onFailure' = onFailure /\ awaits' = awaits /\ alive' = alive /\ call' = call
      /\ spool' = spool /\ inode' = inode /\ streams' = streams /\ orphaned' = orphaned
      /\ drained' = drained /\ draining' = draining /\ drainErrors' = drainErrors
      /\ stored' = stored /\ commitSent' = commitSent /\ runCommitted' = runCommitted
      /\ late' = late \cup {call[c].batch}
  BY DEF AttemptFails, settings, runVars, spoolVars, drainVars
<1>1. call[c].batch \in Batch
  BY DEF SdkTsInv, Typed, Call
<1>2. Typed'
  BY <1>0, <1>1 DEF SdkTsInv, Typed
<1>3. Shape'
  BY <1>0 DEF SdkTsInv, Shape
<1>4. OneCall'
  BY <1>0 DEF SdkTsInv, OneCall
<1>5. NothingLost'
  BY <1>0 DEF SdkTsInv, NothingLost, Waiting
<1>6. Ordered'
  BY <1>0 DEF SdkTsInv, Ordered, Numbered, InPlace
<1>7. Committed'
  BY <1>0 DEF SdkTsInv, Committed
<1>. QED
  BY <1>2, <1>3, <1>4, <1>5, <1>6, <1>7 DEF SdkTsInv

\* A post is given up: its events are spooled, dropped or put back.
LEMMA PostFailsStep ==
    ASSUME SdkTsInv, NEW c \in Calls, PostFails(c)
    PROVE  SdkTsInv'
<1>. DEFINE b == call[c].batch
            w == [entry |-> b, inode |-> NotOpen]
<1>0. /\ call[c].pc = "post" /\ closed' = closed /\ emitted' = emitted /\ last' = last
      /\ stored' = stored /\ commitSent' = commitSent /\ runCommitted' = runCommitted
      /\ onFailure' = onFailure /\ awaits' = awaits /\ alive' = alive
      /\ drained' = drained /\ draining' = draining /\ drainErrors' = drainErrors
      /\ late' = late \cup {b}
  BY DEF PostFails, settings, drainVars
<1>1. Typed /\ Shape /\ OneCall
  BY DEF SdkTsInv
<1>2. /\ call \in [Calls -> Call] /\ call[c].goal \in Goals /\ call[c].next \in Nexts /\ b \in Batch
      /\ buffer \in Batch
  BY <1>1 DEF Typed, Call
<1>3. /\ spool' = spool /\ inode' = inode /\ orphaned' = orphaned
      /\ \/ /\ onFailure = "spool" /\ streams' = streams \cup {w} /\ buffer' = buffer
            /\ Continue(c, call[c].goal, call[c].next)
         \/ /\ onFailure = "drop" /\ streams' = streams /\ buffer' = buffer
            /\ Continue(c, call[c].goal, call[c].next)
         \/ /\ onFailure = "raise" /\ streams' = streams /\ buffer' = b \o buffer
            /\ Continue(c, call[c].goal, "idle")
  <2>1. CASE onFailure = "spool"
    BY <2>1 DEF PostFails, SpoolWrite
  <2>2. CASE onFailure = "drop"
    BY <2>2 DEF PostFails, spoolVars
  <2>3. CASE onFailure = "raise"
    BY <2>3 DEF PostFails, PutBack, spoolVars
  <2>. QED
    BY <1>1, <2>1, <2>2, <2>3 DEF Typed
<1>4. /\ call' \in [Calls -> Call] /\ Only(c)
      /\ call'[c].pc \in Nexts /\ call'[c].batch = <<>>
      /\ onFailure = "raise" => call'[c].pc = "idle"
  <2>1. call[c].next \in Pcs /\ "idle" \in Pcs /\ "idle" \in Nexts
    BY <1>2 DEF Pcs, Nexts
  <2>2. CASE Continue(c, call[c].goal, call[c].next) /\ onFailure # "raise"
    BY <1>2, <2>1, <2>2, ContinueOK
  <2>3. CASE Continue(c, call[c].goal, "idle")
    BY <1>2, <2>1, <2>3, ContinueOK
  <2>. QED
    BY <1>3, <2>2, <2>3
<1>5. w \in Stream /\ w.entry = b
  BY <1>2 DEF Stream, NotOpen
<1>6. \A d \in Calls : \/ call'[d] = call[d]
                       \/ d = c /\ call'[d].pc \in Nexts /\ call'[d].batch = <<>>
  BY <1>4 DEF Only
<1>7. /\ b \o buffer \in Batch /\ InSeq(b \o buffer) = InSeq(b) \cup InSeq(buffer)
      /\ buffer = <<>> => b \o buffer = b
  BY <1>2, InSeqConcat DEF Batch
<1>. HIDE DEF w, b
<1>8. Typed'
  <2>1. buffer' \in Batch
    BY <1>2, <1>3, <1>7
  <2>2. \A v \in streams' : v \in Stream
    BY <1>1, <1>3, <1>5 DEF Typed
  <2>3. late' \subseteq Batch
    BY <1>0, <1>1, <1>2 DEF Typed
  <2>. QED
    BY <1>0, <1>1, <1>3, <1>4, <2>1, <2>2, <2>3 DEF Typed
<1>9. Shape'
  <2>1. \A d \in Calls : call'[d].pc # "post" => call'[d].batch = <<>>
    BY <1>1, <1>6 DEF Shape
  <2>2. alive
    BY <1>0, <1>1 DEF Shape
  <2>. QED
    BY <1>0, <1>1, <1>3, <2>1, <2>2 DEF Shape
<1>10. OneCall'
  <2>1. \A d \in Calls : call'[d].pc = "post" => call[d].pc = "post" /\ d # c
    BY <1>4, <1>6 DEF Nexts
  <2>2. \A d \in Calls : call'[d].pc # "idle" => call[d].pc # "idle"
    BY <1>0, <1>6
  <2>3. awaits => \A d \in Calls : call'[d].pc # "post"
    BY <1>0, <1>1, <2>1 DEF OneCall
  <2>. QED
    BY <1>0, <1>1, <2>2, <2>3 DEF OneCall
<1>11. NothingLost'
  <2>1. Posting(call) \subseteq Posting(call') \cup InSeq(b)
    BY <1>4, PostingOnly DEF b
  <2>2. onFailure = "spool" => Writing(streams) \cup InSeq(b) \subseteq Writing(streams')
    BY <1>3, <1>5 DEF Writing
  <2>. QED
    BY <1>0, <1>3, <1>7, <2>1, <2>2 DEF SdkTsInv, NothingLost, Waiting
<1>12. Ordered'
  <2>. SUFFICES ASSUME awaits, onFailure = "raise" PROVE Ordered'
    BY <1>0 DEF Ordered
  <2>1. /\ Numbered /\ InPlace(stored) /\ InPlace(buffer)
        /\ \A d \in Calls : InPlace(call[d].batch)
        /\ \A l \in late : InPlace(l)
    BY DEF SdkTsInv, Ordered
  <2>2. buffer = <<>>
    BY <1>0, <1>1 DEF OneCall
  <2>3. buffer' = <<>> \/ buffer' = b
    BY <1>3, <1>7, <2>2
  <2>4. InPlace(b)
    BY <2>1 DEF b
  <2>5. \A d \in Calls : call'[d].batch = <<>> \/ call'[d].batch = call[d].batch
    BY <1>6
  <2>6. Numbered'
    BY <1>0, <2>1, <2>3, <2>5, InSeqEmpty DEF Numbered, b
  <2>. QED
    BY <1>0, <2>1, <2>3, <2>4, <2>5, <2>6, EmptyBatch DEF Ordered, InPlace
<1>13. Committed'
  <2>. SUFFICES ASSUME awaits, onFailure = "raise" PROVE Committed'
    BY <1>0 DEF Committed
  <2>1. \A d \in Calls : call'[d].pc \in {"close", "commitRun"} => call[d].pc = call'[d].pc
    BY <1>4, <1>6
  <2>. QED
    BY <1>0, <2>1 DEF SdkTsInv, Committed
<1>. QED
  BY <1>8, <1>9, <1>10, <1>11, <1>12, <1>13 DEF SdkTsInv

-----------------------------------------------------------------------------
(* The steps of the spool.                                                 *)

\* The events on their way through the spool.
Spooling(st, str, sp, dr) == InSeq(st) \cup Writing(str) \cup Entries(sp) \cup Entries(dr)

LEMMA SpoolStep ==
    ASSUME SdkTsInv, onFailure = "spool",
           UNCHANGED <<settings, alive, runVars, call>>,
           stored' \in Batch, spool' \in Seq(Batch), drained' \in Seq(Batch), late' \subseteq Batch,
           \A w \in streams' : w \in Stream,
           inode' \in Nat, drainErrors' \in Nat,
           ~draining' => drained' = <<>>,
           drainErrors' = 0 /\ ~orphaned' =>
              /\ drainErrors = 0 /\ ~orphaned
              /\ Spooling(stored, streams, spool, drained) \subseteq
                 Spooling(stored', streams', spool', drained')
    PROVE  SdkTsInv'
<1>0. /\ onFailure' = "spool" /\ awaits' = awaits /\ alive' = alive /\ call' = call
      /\ buffer' = buffer /\ closed' = closed /\ last' = last /\ emitted' = emitted
  BY DEF settings, runVars
<1>1. Typed'
  BY <1>0 DEF SdkTsInv, Typed
<1>2. Shape'
  BY <1>0 DEF SdkTsInv, Shape
<1>3. OneCall'
  BY <1>0 DEF SdkTsInv, OneCall
<1>4. NothingLost'
  BY <1>0 DEF SdkTsInv, NothingLost, Waiting, Spooling
<1>5. Ordered'
  BY <1>0 DEF Ordered
<1>6. Committed'
  BY <1>0 DEF Committed
<1>. QED
  BY <1>1, <1>2, <1>3, <1>4, <1>5, <1>6 DEF SdkTsInv

\* A write stream opens the file, and writes to it.
LEMMA StreamStep ==
    ASSUME SdkTsInv, NEW w \in streams, StreamOpens(w) \/ StreamWrites(w)
    PROVE  SdkTsInv'
<1>0. Typed /\ Shape
  BY DEF SdkTsInv
<1>1. onFailure = "spool"
  BY <1>0 DEF Shape
<1>2. w \in Stream /\ w.entry \in Batch
  BY <1>0 DEF Typed, Stream
<1>3. CASE StreamOpens(w)
  <2>. DEFINE v == [w EXCEPT !.inode = inode]
  <2>1. v \in Stream /\ v.entry = w.entry
    BY <1>0, <1>2 DEF Stream, Typed
  <2>2. streams' = (streams \ {w}) \cup {v}
    BY <1>3 DEF StreamOpens
  <2>. HIDE DEF v
  <2>3. Writing(streams) \subseteq Writing(streams')
    BY <2>1, <2>2 DEF Writing
  <2>4. \A x \in streams' : x \in Stream
    BY <1>0, <2>1, <2>2 DEF Typed
  <2>5. /\ stored' = stored /\ spool' = spool /\ drained' = drained /\ inode' = inode
        /\ orphaned' = orphaned /\ draining' = draining /\ drainErrors' = drainErrors
        /\ late' = late /\ UNCHANGED <<settings, alive, runVars, call>>
    BY <1>3 DEF StreamOpens, drainVars, collector
  <2>6. Spooling(stored, streams, spool, drained) \subseteq Spooling(stored', streams', spool', drained')
    BY <2>3, <2>5 DEF Spooling
  <2>. QED
    BY <1>0, <1>1, <2>4, <2>5, <2>6, SpoolStep DEF Typed, Shape
<1>4. CASE StreamWrites(w)
  <2>1. /\ streams' = streams \ {w}
        /\ spool' = (IF w.inode = inode THEN Append(spool, w.entry) ELSE spool)
        /\ orphaned' = (orphaned \/ w.inode # inode)
        /\ stored' = stored /\ drained' = drained /\ inode' = inode
        /\ draining' = draining /\ drainErrors' = drainErrors
        /\ late' = late /\ UNCHANGED <<settings, alive, runVars, call>>
    BY <1>4 DEF StreamWrites, drainVars, collector
  <2>2. spool \in Seq(Seq(1..MaxEvents)) /\ w.entry \in Seq(1..MaxEvents)
    BY <1>0, <1>2 DEF Typed, Batch
  <2>3. /\ Append(spool, w.entry) \in Seq(Seq(1..MaxEvents))
        /\ Entries(Append(spool, w.entry)) = Entries(spool) \cup InSeq(w.entry)
    BY <2>2, EntriesAppend
  <2>4. spool' \in Seq(Batch)
    BY <2>1, <2>2, <2>3 DEF Batch
  <2>5. Writing(streams) \subseteq Writing(streams') \cup InSeq(w.entry)
    BY <2>1 DEF Writing
  <2>6. ASSUME ~orphaned'
        PROVE  /\ ~orphaned
               /\ Spooling(stored, streams, spool, drained) \subseteq
                  Spooling(stored', streams', spool', drained')
    <3>1. ~orphaned /\ w.inode = inode
      BY <2>1, <2>6
    <3>2. spool' = Append(spool, w.entry)
      BY <2>1, <3>1
    <3>. QED
      BY <2>1, <2>3, <2>5, <3>1, <3>2 DEF Spooling
  <2>7. \A x \in streams' : x \in Stream
    BY <1>0, <2>1 DEF Typed
  <2>. QED
    BY <1>0, <1>1, <2>1, <2>4, <2>6, <2>7, SpoolStep DEF Typed, Shape
<1>. QED
  BY <1>3, <1>4

\* flushSpool.
LEMMA DrainStep ==
    ASSUME SdkTsInv, Drain \/ SendEntry \/ SendEntryFails \/ DrainDone
    PROVE  SdkTsInv'
<1>0. Typed /\ Shape
  BY DEF SdkTsInv
<1>1. onFailure = "spool" /\ UNCHANGED <<settings, alive, runVars, call>>
  BY <1>0 DEF Shape, Drain, SendEntry, SendEntryFails, DrainDone
<1>2. CASE Drain
  <2>1. PICK written \in SUBSET {w \in streams : w.inode = inode} :
             streams' = streams \ written /\ orphaned' = (orphaned \/ written # {})
    BY <1>2 DEF Drain
  <2>2. /\ drained' = spool /\ spool' = <<>> /\ inode' = inode + 1 /\ draining' = TRUE /\ ~draining
        /\ drainErrors' = drainErrors /\ stored' = stored /\ late' = late
    BY <1>2 DEF Drain, collector
  <2>3. drained = <<>>
    BY <1>0, <2>2 DEF Shape
  <2>4. ~orphaned' => ~orphaned /\ streams' = streams
    BY <2>1
  <2>5. streams' = streams =>
           Spooling(stored, streams, spool, drained) \subseteq Spooling(stored', streams', spool', drained')
    BY <2>2, <2>3, InSeqEmpty DEF Spooling
  <2>6. \A x \in streams' : x \in Stream
    BY <1>0, <2>1 DEF Typed
  <2>. QED
    BY <1>0, <1>1, <2>2, <2>4, <2>5, <2>6, EmptyBatch, SpoolStep DEF Typed
<1>3. ASSUME drained # <<>>
      PROVE  /\ Head(drained) \in Batch /\ Tail(drained) \in Seq(Batch)
             /\ Entries(drained) = InSeq(Head(drained)) \cup Entries(Tail(drained))
  BY <1>0, <1>3, EntriesTail DEF Typed, Batch
<1>4. CASE SendEntry
  <2>1. /\ draining /\ drained # <<>> /\ Store(Head(drained)) /\ drained' = Tail(drained)
        /\ spool' = spool /\ inode' = inode /\ streams' = streams /\ orphaned' = orphaned
        /\ draining' = draining /\ drainErrors' = drainErrors /\ late' = late
    BY <1>4 DEF SendEntry, spoolVars
  <2>2. stored' \in Batch /\ InSeq(stored') = InSeq(stored) \cup InSeq(Head(drained))
    BY <1>0, <1>3, <2>1, StoreOK DEF Typed
  <2>3. Spooling(stored, streams, spool, drained) \subseteq Spooling(stored', streams', spool', drained')
    BY <1>3, <2>1, <2>2 DEF Spooling
  <2>. QED
    BY <1>0, <1>1, <1>3, <2>1, <2>2, <2>3, SpoolStep DEF Typed
<1>5. CASE SendEntryFails
  <2>. DEFINE w == [entry |-> Head(drained), inode |-> NotOpen]
  <2>1. /\ draining /\ drained # <<>> /\ drained' = <<>> /\ draining' = FALSE
        /\ drainErrors' = drainErrors + 1
        /\ streams' = streams \cup {w} /\ spool' = spool /\ inode' = inode /\ orphaned' = orphaned
        /\ stored' = stored /\ late' = late \cup {Head(drained)}
    BY <1>5 DEF SendEntryFails, SpoolWrite
  <2>2. w \in Stream
    BY <1>3, <2>1 DEF Stream, NotOpen
  <2>3. stored' \in Batch /\ late' \subseteq Batch
    BY <1>0, <1>3, <2>1 DEF Typed
  <2>4. \A x \in streams' : x \in Stream
    BY <1>0, <2>1, <2>2 DEF Typed
  <2>5. drainErrors' \in Nat /\ drainErrors' # 0
    BY <1>0, <2>1 DEF Typed
  <2>. QED
    BY <1>0, <1>1, <2>1, <2>3, <2>4, <2>5, EmptyBatch, SpoolStep DEF Typed
<1>6. CASE DrainDone
  <2>1. /\ draining /\ drained = <<>> /\ draining' = FALSE
        /\ drained' = drained /\ spool' = spool /\ inode' = inode /\ streams' = streams
        /\ orphaned' = orphaned /\ drainErrors' = drainErrors /\ stored' = stored /\ late' = late
    BY <1>6 DEF DrainDone, spoolVars, collector
  <2>2. Spooling(stored, streams, spool, drained) \subseteq Spooling(stored', streams', spool', drained')
    BY <2>1 DEF Spooling
  <2>. QED
    BY <1>0, <1>1, <2>1, <2>2, SpoolStep DEF Typed
<1>. QED
  BY <1>2, <1>4, <1>5, <1>6

-----------------------------------------------------------------------------
(* Start, exit and steps that change nothing.                              *)

LEMMA IdleCall == Idle \in Call /\ Idle.pc = "idle" /\ Idle.batch = <<>>
BY EmptyBatch DEF Idle, Call, Goals, Pcs, Nexts

LEMMA ExitStep ==
    ASSUME SdkTsInv, Exit
    PROVE  SdkTsInv'
<1>0. /\ alive' = FALSE /\ buffer' = <<>> /\ call' = [c \in Calls |-> Idle]
      /\ streams' = {} /\ drained' = <<>> /\ draining' = FALSE
      /\ stored' = stored /\ late' = late \cup OnTheirWay /\ runCommitted' = runCommitted
      /\ commitSent' = (commitSent \/ \E c \in Calls : call[c].pc = "commitRun")
      /\ onFailure' = onFailure /\ awaits' = awaits /\ closed' = closed /\ last' = last
      /\ emitted' = emitted /\ spool' = spool /\ inode' = inode /\ orphaned' = orphaned
      /\ drainErrors' = drainErrors
  BY DEF Exit, settings
<1>1. Typed /\ Shape
  BY DEF SdkTsInv
<1>2. \A c \in Calls : call'[c].pc = "idle" /\ call'[c].batch = <<>>
  BY <1>0, IdleCall
<1>3. ASSUME NEW b \in OnTheirWay
      PROVE  \/ \E c \in Calls : b = call[c].batch
             \/ drained # <<>> /\ b = Head(drained)
             \/ b = buffer
  BY DEF OnTheirWay
<1>4. OnTheirWay \subseteq Batch
  <2>1. \A c \in Calls : call[c].batch \in Batch
    BY <1>1 DEF Typed, Call
  <2>2. drained # <<>> => Head(drained) \in Batch
    BY <1>1, EntriesTail DEF Typed, Batch
  <2>. QED
    BY <1>1, <1>3, <2>1, <2>2 DEF Typed
<1>5. call' \in [Calls -> Call]
  BY <1>0, IdleCall
<1>6. Typed'
  BY <1>0, <1>1, <1>4, <1>5, EmptyBatch DEF Typed
<1>7. Shape'
  BY <1>0, <1>1, <1>2 DEF Shape
<1>8. OneCall'
  BY <1>0, <1>2 DEF OneCall
<1>9. NothingLost'
  BY <1>0 DEF NothingLost
<1>10. Ordered'
  <2>. SUFFICES ASSUME awaits, onFailure = "raise" PROVE Ordered'
    BY <1>0 DEF Ordered
  <2>1. /\ InPlace(stored) /\ InPlace(buffer)
        /\ \A c \in Calls : InPlace(call[c].batch)
        /\ \A l \in late : InPlace(l)
    BY DEF SdkTsInv, Ordered
  <2>2. drained = <<>>
    BY <1>1 DEF Shape
  <2>3. \A l \in late' : InPlace(l)
    BY <1>0, <1>3, <2>1, <2>2
  <2>4. Numbered'
    BY <1>0, <1>2, InSeqEmpty DEF Numbered
  <2>. QED
    BY <1>0, <1>2, <2>1, <2>3, <2>4, EmptyBatch DEF Ordered, InPlace
<1>11. Committed'
  BY <1>0, <1>2 DEF SdkTsInv, Committed
<1>. QED
  BY <1>6, <1>7, <1>8, <1>9, <1>10, <1>11 DEF SdkTsInv

\* The collector processes what the client has given up.
LEMMA ProcessLateStep ==
    ASSUME SdkTsInv, ProcessLate
    PROVE  SdkTsInv'
<1>0. /\ onFailure' = onFailure /\ awaits' = awaits /\ alive' = alive /\ call' = call
      /\ buffer' = buffer /\ closed' = closed /\ last' = last /\ emitted' = emitted
      /\ spool' = spool /\ inode' = inode /\ streams' = streams /\ orphaned' = orphaned
      /\ drained' = drained /\ draining' = draining /\ drainErrors' = drainErrors
      /\ late' = late /\ commitSent' = commitSent
  BY DEF ProcessLate, settings, runVars, spoolVars, drainVars
<1>1. stored \in Batch /\ late \subseteq Batch
  BY DEF SdkTsInv, Typed
<1>2. /\ stored' \in Batch /\ InSeq(stored) \subseteq InSeq(stored')
      /\ awaits /\ onFailure = "raise" =>
             /\ Increasing(stored') /\ Gapless(stored', InSeq(stored'))
             /\ \A l : InPlace(l) => Increasing(l) /\ Gapless(l, InSeq(stored'))
      /\ runCommitted' = runCommitted \/ (commitSent /\ runCommitted' = TRUE)
  <2>1. CASE \E b \in late : Store(b) /\ UNCHANGED runCommitted
    <3>1. PICK b \in late : Store(b) /\ UNCHANGED runCommitted
      BY <2>1
    <3>2. b \in Batch
      BY <1>1
    <3>3. awaits /\ onFailure = "raise" => InPlace(stored) /\ InPlace(b)
      BY DEF SdkTsInv, Ordered
    <3>4. stored' \in Batch /\ InSeq(stored') = InSeq(stored) \cup InSeq(b)
      BY <1>1, <3>1, <3>2, StoreOK
    <3>5. awaits /\ onFailure = "raise" =>
             /\ Increasing(stored') /\ Gapless(stored', InSeq(stored'))
             /\ \A l : InPlace(l) => Increasing(l) /\ Gapless(l, InSeq(stored'))
      BY <1>1, <3>1, <3>2, <3>3, StoreInPlace
    <3>. QED
      BY <3>1, <3>4, <3>5
  <2>2. CASE commitSent /\ runCommitted' = TRUE /\ UNCHANGED stored
    BY <1>1, <2>2 DEF SdkTsInv, Ordered, InPlace
  <2>. QED
    BY <2>1, <2>2 DEF ProcessLate
<1>3. Typed'
  BY <1>0, <1>2 DEF SdkTsInv, Typed
<1>4. Shape'
  BY <1>0 DEF SdkTsInv, Shape
<1>5. OneCall'
  BY <1>0 DEF SdkTsInv, OneCall
<1>6. NothingLost'
  BY <1>0, <1>2 DEF SdkTsInv, NothingLost, Waiting
<1>7. Ordered'
  <2>. SUFFICES ASSUME awaits, onFailure = "raise" PROVE Ordered'
    BY <1>0 DEF Ordered
  <2>1. /\ InPlace(buffer) /\ Numbered
        /\ \A c \in Calls : InPlace(call[c].batch)
        /\ \A l \in late : InPlace(l)
    BY DEF SdkTsInv, Ordered
  <2>2. Numbered'
    BY <1>0, <2>1 DEF Numbered
  <2>. QED
    BY <1>0, <1>2, <2>1, <2>2 DEF Ordered, InPlace
<1>8. Committed'
  BY <1>0, <1>2 DEF SdkTsInv, Committed
<1>. QED
  BY <1>3, <1>4, <1>5, <1>6, <1>7, <1>8 DEF SdkTsInv

\* Steps of what the invariant does not mention, and steps that change nothing.
LEMMA StutterOK ==
    ASSUME SdkTsInv, StartRun \/ UNCHANGED vars
    PROVE  SdkTsInv'
<1>0. /\ onFailure' = onFailure /\ awaits' = awaits /\ alive' = alive /\ call' = call
      /\ buffer' = buffer /\ closed' = closed /\ last' = last /\ emitted' = emitted
      /\ spool' = spool /\ inode' = inode /\ streams' = streams /\ orphaned' = orphaned
      /\ drained' = drained /\ draining' = draining /\ drainErrors' = drainErrors
      /\ stored' = stored /\ late' = late
      /\ commitSent' = commitSent /\ runCommitted' = runCommitted
  BY DEF StartRun, vars, settings, runVars, spoolVars, drainVars, collector
<1>1. Typed'
  BY <1>0 DEF SdkTsInv, Typed
<1>2. Shape'
  BY <1>0 DEF SdkTsInv, Shape
<1>3. OneCall'
  BY <1>0 DEF SdkTsInv, OneCall
<1>4. NothingLost'
  BY <1>0 DEF SdkTsInv, NothingLost, Waiting
<1>5. Ordered'
  BY <1>0 DEF SdkTsInv, Ordered, Numbered, InPlace
<1>6. Committed'
  BY <1>0 DEF SdkTsInv, Committed
<1>. QED
  BY <1>1, <1>2, <1>3, <1>4, <1>5, <1>6 DEF SdkTsInv

LEMMA InitOK == Init => SdkTsInv
<1>. SUFFICES ASSUME Init PROVE SdkTsInv
  OBVIOUS
<1>1. \A c \in Calls : call[c].pc = "idle" /\ call[c].batch = <<>>
  BY IdleCall DEF Init
<1>2. call \in [Calls -> Call]
  BY IdleCall DEF Init
<1>3. Typed
  BY <1>2, EmptyBatch, Constants DEF Init, Typed
<1>4. Shape
  BY <1>1 DEF Init, Shape
<1>5. OneCall
  BY <1>1 DEF OneCall
<1>6. NothingLost
  <2>1. 1..0 = {}
    OBVIOUS
  <2>. QED
    BY <2>1 DEF Init, NothingLost
<1>7. Ordered
  BY <1>1, EmptyBatch, InSeqEmpty DEF Init, Ordered, Numbered, InPlace
<1>8. Committed
  BY <1>1 DEF Init, Committed
<1>. QED
  BY <1>3, <1>4, <1>5, <1>6, <1>7, <1>8 DEF SdkTsInv

-----------------------------------------------------------------------------
(* Theorems.                                                               *)

\* The invariant holds however calls, streams and flushSpool interleave.
THEOREM SdkTsInvariant == Spec => []SdkTsInv
<1>1. Init => SdkTsInv
  BY InitOK
<1>2. SdkTsInv /\ [Next]_vars => SdkTsInv'
  <2>. SUFFICES ASSUME SdkTsInv, [Next]_vars PROVE SdkTsInv'
    OBVIOUS
  <2>1. ASSUME NEW c \in Calls, CallStep(c) PROVE SdkTsInv'
    BY <2>1, EmitStep, FlushStep, FlushCallStep, CloseRunStep, CommitRunStep, PostOkStep,
       AttemptFailsStep, PostFailsStep DEF CallStep
  <2>2. ASSUME NEW w \in streams, StreamOpens(w) \/ StreamWrites(w) PROVE SdkTsInv'
    BY <2>2, StreamStep
  <2>3. CASE Drain \/ SendEntry \/ SendEntryFails \/ DrainDone
    BY <2>3, DrainStep
  <2>4. CASE Exit
    BY <2>4, ExitStep
  <2>5. CASE StartRun \/ UNCHANGED vars
    BY <2>5, StutterOK
  <2>6. CASE ProcessLate
    BY <2>6, ProcessLateStep
  <2>. QED
    BY <2>1, <2>2, <2>3, <2>4, <2>5, <2>6 DEF Next
<1>. QED
  BY <1>1, <1>2, PTL DEF Spec

\* While the process lives no emitted event is lost, also by calls that overlap.
THEOREM SdkTsLosesNothing == Spec => []NothingLost
<1>1. SdkTsInv => NothingLost
  BY DEF SdkTsInv
<1>. QED
  BY <1>1, SdkTsInvariant, PTL

\* An agent that awaits its calls, with a client that throws, has its events
\* stored in order, whatever is put back or processed late.
THEOREM SdkTsKeepsOrder == Spec => []InOrder
<1>1. SdkTsInv => InOrder
  BY DEF SdkTsInv, Ordered, InPlace, Increasing, InOrder
<1>. QED
  BY <1>1, SdkTsInvariant, PTL

\* An agent that awaits its calls, with a client that throws, commits runs that
\* are complete at the collector.
THEOREM SdkTsCommitsComplete == Spec => []CommittedComplete
<1>1. SdkTsInv => CommittedComplete
  BY DEF SdkTsInv, Committed, CommittedComplete
<1>. QED
  BY <1>1, SdkTsInvariant, PTL
=============================================================================
