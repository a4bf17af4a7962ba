-------------------------- MODULE GovernanceProofs --------------------------
(***************************************************************************)
(* Proofs about policies, enforcement and approvals, for any number of     *)
(* replicas, reviewers, calls, attempts and failures, for every set of     *)
(* policy files and inputs, and whatever is made of payloads.              *)
(***************************************************************************)
EXTENDS Governance, SubsequenceProofs

-----------------------------------------------------------------------------
(* The invariant.                                                          *)

Given   == {"tenant", "run_id", "input"}
Decided == {"status", "reviewer_id", "decided_at"}

\* d is a decision of approval a, and row carries it.
Carries(row, d, a) == d.id = a /\ \A f \in Decided : row[f] = d[f]

\* A row is decided by somebody, and carries that decision unless two crossed.
RowInv(a) ==
    /\ DOMAIN approvals[a] = Given \cup Decided
    /\ approvals[a].status # "requested" =>
          /\ \E d \in decisions : d.id = a
          /\ a \notin crossed => \E d \in decisions : Carries(approvals[a], d, a)

\* A decision at work changes what is decided and nothing else, and it has read
\* the row as it still is unless another one of the same approval is at work.
UpdateInv(c) ==
    areq[c].pc = "update" =>
        /\ areq[c].id \in DOMAIN approvals
        /\ DOMAIN areq[c].row = Given \cup Decided
        /\ areq[c].row.status # "requested"
        /\ \A f \in Given : areq[c].row[f] = approvals[areq[c].id][f]
        /\ \E d \in decisions : Carries(areq[c].row, d, areq[c].id)
        /\ areq[c].id \notin crossed =>
              /\ areq[c].base = approvals[areq[c].id]
              /\ \A e \in Replicas : areq[e].pc = "update" /\ areq[e].id = areq[c].id => e = c

InsertInv(c) ==
    areq[c].pc = "insert" =>
        DOMAIN areq[c].row = Given \cup Decided /\ areq[c].row.status = "requested"

ServiceInv ==
    /\ DOMAIN areq = Replicas
    /\ \A c \in Replicas : areq[c].pc \in {"idle", "insert", "update"} /\ InsertInv(c) /\ UpdateInv(c)
    /\ \A a \in DOMAIN approvals : RowInv(a)

\* What the agent is told, and what it makes of it.
Told    == Answer(RawResult)
Verdict == Enforcement(Told)

\* The events: the payload is captured before an event is buffered and kept by
\* the collector before it is stored; types are as the engine's answer says.
Types == {"check.passed", "check.failed", "enforcement.blocked", "enforcement.allowed", "approval.requested"}
Captured == Capture(setup.mode, Payload, setup.rules)
Buffered  == [type : Types, call : 1..MaxCalls, payload : {Captured}]
Delivered == [type : Types, call : 1..MaxCalls, payload : {Keep(Captured, setup.collector_rules)}]

Truthful(e) ==
    /\ e.type = "check.failed" => ~Passed(Told)
    /\ e.type = "enforcement.allowed" => Verdict = "allow"

EventsInv ==
    /\ buffer \in Seq(Buffered) /\ delivered \in Seq(Delivered)
    /\ \A e \in InSeq(buffer) \cup InSeq(delivered) : Truthful(e)

\* The event that asks for the approval of call n is in s.
Announces(s, n) == \E e \in InSeq(s) : e.type = "approval.requested" /\ e.call = n

\* The event that asks for the approval of call n has left the agent, unless the
\* client drops what it cannot send.
Left(n) == setup.on_failure = "drop" \/ Announces(delivered, n)

CallInv ==
    /\ setup \in Scenarios /\ calls \in 0..MaxCalls
    /\ call.pc \in {"idle", "enforce", "flush", "post", "await"}
    /\ call.pc # "idle" => calls # 0
    /\ call.pc = "enforce" => call.answer = Told
    /\ call.pc \in {"flush", "post", "await"} => call.id = NewIds[calls] /\ Verdict = "ask"
    /\ call.pc = "flush" => Announces(buffer, calls)
    /\ call.pc \in {"post", "await"} =>
          DOMAIN call = {"pc", "id", "tries"} /\ Left(calls)

\* Approval a was asked for by a call whose event has left the agent.
Announced(a) == \E n \in 1..calls : a = NewIds[n] /\ Left(n)

\* Rows and rows about to be stored are the agent's.
IsAgents(row) == row.tenant = Agent.tenant /\ row.input = setup.input
AskedInv ==
    /\ \A a \in DOMAIN approvals : IsAgents(approvals[a]) /\ Announced(a)
    /\ \A c \in Replicas : areq[c].pc = "insert" => IsAgents(areq[c].row) /\ Announced(areq[c].id)

OutcomeOK(o) ==
    /\ o = "allowed" => Verdict = "allow"
    /\ o = "blocked" => Verdict = "block"
    /\ o \in ApprovalIds => o \in DOMAIN approvals /\ Verdict = "ask"
OutcomesInv ==
    /\ outcomes \in Seq(ApprovalIds \cup {"allowed", "blocked", "error"})
    /\ \A o \in InSeq(outcomes) : OutcomeOK(o)

GovernanceInv == ServiceInv /\ EventsInv /\ CallInv /\ AskedInv /\ OutcomesInv

-----------------------------------------------------------------------------
(* The approvals service, action by action.                                *)

\* A replica takes up q; the others are as they were.
LEMMA ServeStarts ==
    ASSUME ServiceInv, NEW c \in Replicas, NEW q, areq' = [areq EXCEPT ![c] = q]
    PROVE  /\ DOMAIN areq' = Replicas
           /\ areq'[c] = q
           /\ \A e \in Replicas : e # c => areq'[e] = areq[e]
BY DEF ServiceInv

\* A request that found no row is about to insert one that is undecided.
LEMMA RequestKeeps ==
    ASSUME ServiceInv, NEW c \in Replicas, NEW p, NEW body, request(c, p, body)
    PROVE  ServiceInv'
<1>1. /\ areq' = [areq EXCEPT ![c] = [pc |-> "insert", id |-> body.approval_id, row |-> NewApproval(p, body)]]
      /\ UNCHANGED <<approvals, decisions, crossed>>
  BY DEF request
<1>2. /\ DOMAIN NewApproval(p, body) = Given \cup Decided
      /\ NewApproval(p, body).status = "requested"
  BY DEF NewApproval, Given, Decided
<1>3. /\ DOMAIN areq' = Replicas
      /\ areq'[c] = [pc |-> "insert", id |-> body.approval_id, row |-> NewApproval(p, body)]
      /\ \A e \in Replicas : e # c => areq'[e] = areq[e]
  BY <1>1, ServeStarts
<1>4. \A e \in Replicas : e # c => areq'[e] = areq[e]
  BY <1>3
<1>5. areq'[c] = [pc |-> "insert", id |-> body.approval_id, row |-> NewApproval(p, body)]
  BY <1>3
<1>6. ASSUME NEW e \in Replicas
      PROVE  areq'[e].pc \in {"idle", "insert", "update"} /\ InsertInv(e)' /\ UpdateInv(e)'
  <2>1. CASE e = c
    BY <1>2, <1>5, <2>1 DEF InsertInv, UpdateInv
  <2>2. CASE e # c
    <3>1. areq'[e] = areq[e]
      BY <1>4, <2>2
    <3>2. InsertInv(e)'
      BY <3>1 DEF ServiceInv, InsertInv
    <3>3. UpdateInv(e)'
      BY <1>1, <1>4, <1>5, <3>1 DEF ServiceInv, UpdateInv
    <3>4. QED
      BY <3>1, <3>2, <3>3 DEF ServiceInv
  <2>3. QED
    BY <2>1, <2>2
<1>7. \A a \in DOMAIN approvals' : RowInv(a)'
  BY <1>1 DEF ServiceInv, RowInv
<1>8. QED
  BY <1>3, <1>6, <1>7 DEF ServiceInv

\* A replica that is done has nothing at work; the others are as they were.
LEMMA ServeEnds ==
    ASSUME ServiceInv, NEW c \in Replicas, areq' = [areq EXCEPT ![c] = NoServe]
    PROVE  /\ DOMAIN areq' = Replicas
           /\ areq'[c].pc = "idle"
           /\ \A e \in Replicas : e # c => areq'[e] = areq[e]
BY ServeStarts DEF NoServe

\* A session that fails leaves the table alone.
LEMMA FailKeeps ==
    ASSUME ServiceInv, NEW c \in Replicas, ServeFails(c)
    PROVE  ServiceInv'
<1>1. /\ areq' = [areq EXCEPT ![c] = NoServe]
      /\ UNCHANGED <<approvals, decisions, crossed>>
  BY DEF ServeFails
<1>2. /\ DOMAIN areq' = Replicas
      /\ areq'[c].pc = "idle"
      /\ \A e \in Replicas : e # c => areq'[e] = areq[e]
  BY <1>1, ServeEnds
<1>3. ASSUME NEW e \in Replicas
      PROVE  areq'[e].pc \in {"idle", "insert", "update"} /\ InsertInv(e)' /\ UpdateInv(e)'
  <2>1. CASE e = c
    BY <1>2, <2>1 DEF InsertInv, UpdateInv
  <2>2. CASE e # c
    BY <1>1, <1>2, <2>2 DEF ServiceInv, InsertInv, UpdateInv
  <2>3. QED
    BY <2>1, <2>2
<1>4. \A a \in DOMAIN approvals' : RowInv(a)'
  BY <1>1 DEF ServiceInv, RowInv
<1>5. QED
  BY <1>2, <1>3, <1>4 DEF ServiceInv

\* The INSERT stores an undecided row where there was none.
LEMMA InsertStores ==
    ASSUME ServiceInv, NEW c \in Replicas, InsertApproval(c)
    PROVE  /\ areq[c].pc = "insert" /\ areq' = [areq EXCEPT ![c] = NoServe]
           /\ UNCHANGED <<decisions, crossed>>
           /\ DOMAIN approvals' = DOMAIN approvals \cup {areq[c].id}
           /\ \A a \in DOMAIN approvals : approvals'[a] = approvals[a]
           /\ areq[c].id \notin DOMAIN approvals => approvals'[areq[c].id] = areq[c].row
BY DEF InsertApproval, WithRow

LEMMA InsertKeeps ==
    ASSUME ServiceInv, NEW c \in Replicas, InsertApproval(c)
    PROVE  ServiceInv'
<1>. DEFINE id == areq[c].id
<1>1. /\ areq[c].pc = "insert" /\ areq' = [areq EXCEPT ![c] = NoServe]
      /\ UNCHANGED <<decisions, crossed>>
      /\ DOMAIN approvals' = DOMAIN approvals \cup {id}
      /\ \A a \in DOMAIN approvals : approvals'[a] = approvals[a]
      /\ id \notin DOMAIN approvals => approvals'[id] = areq[c].row
  BY InsertStores
<1>2. /\ DOMAIN areq' = Replicas
      /\ areq'[c].pc = "idle"
      /\ \A e \in Replicas : e # c => areq'[e] = areq[e]
  BY <1>1, ServeEnds
<1>3. ASSUME NEW e \in Replicas
      PROVE  areq'[e].pc \in {"idle", "insert", "update"} /\ InsertInv(e)' /\ UpdateInv(e)'
  <2>1. CASE e = c
    BY <1>2, <2>1 DEF InsertInv, UpdateInv
  <2>2. CASE e # c
    BY <1>1, <1>2, <2>2 DEF ServiceInv, InsertInv, UpdateInv
  <2>3. QED
    BY <2>1, <2>2
<1>4. ASSUME NEW a \in DOMAIN approvals' PROVE RowInv(a)'
  <2>1. CASE a \in DOMAIN approvals
    BY <1>1, <2>1 DEF ServiceInv, RowInv
  <2>2. CASE a \notin DOMAIN approvals
    <3>1. approvals'[a] = areq[c].row
      BY <1>1, <2>2
    <3>2. DOMAIN areq[c].row = Given \cup Decided /\ areq[c].row.status = "requested"
      BY <1>1 DEF ServiceInv, InsertInv
    <3>3. QED
      BY <3>1, <3>2 DEF RowInv
  <2>3. QED
    BY <2>1, <2>2
<1>5. QED
  BY <1>2, <1>3, <1>4 DEF ServiceInv

\* A decision taken up: the row it will write carries it, and it is alone with
\* the approval or the approval counts as crossed.
LEMMA DecideStarts ==
    ASSUME ServiceInv, NEW c \in Replicas, NEW p, NEW id, NEW status, NEW reviewer,
           decide(c, p, id, status, reviewer)
    PROVE  LET q == areq'[c] IN
           /\ DOMAIN areq' = Replicas
           /\ \A e \in Replicas : e # c => areq'[e] = areq[e]
           /\ areq[c].pc = "idle" /\ id \in DOMAIN approvals /\ approvals' = approvals
           /\ q.pc = "update" /\ q.id = id /\ q.base = approvals[id]
           /\ DOMAIN q.row = Given \cup Decided
           /\ q.row.status = status
           /\ \A f \in Given : q.row[f] = approvals[id][f]
           /\ \E d \in decisions' : Carries(q.row, d, id)
           /\ decisions \subseteq decisions'
           /\ crossed \subseteq crossed'
           /\ crossed' \subseteq crossed \cup {id}
           /\ id \notin crossed' => \A e \in Replicas : areq[e].pc = "update" => areq[e].id # id
<1>. PICK at : at = Cardinality(decisions) + 1
  OBVIOUS
<1>. DEFINE row == [approvals[id] EXCEPT !.status = status, !.reviewer_id = reviewer, !.decided_at = at]
            q == [pc |-> "update", id |-> id, base |-> approvals[id], row |-> row]
            d == [id |-> id, status |-> status, reviewer_id |-> reviewer, decided_at |-> at]
<1>1. /\ areq[c].pc = "idle" /\ id \in DOMAIN approvals /\ approvals' = approvals
      /\ areq' = [areq EXCEPT ![c] = q]
      /\ decisions' = decisions \cup {d}
      /\ crossed' = IF \E e \in Replicas : areq[e].pc = "update" /\ areq[e].id = id
                    THEN crossed \cup {id} ELSE crossed
  BY DEF decide
<1>2. /\ DOMAIN areq' = Replicas
      /\ areq'[c] = q
      /\ \A e \in Replicas : e # c => areq'[e] = areq[e]
  <2>. HIDE DEF q
  <2>. QED
    BY <1>1, ServeStarts
<1>3. DOMAIN approvals[id] = Given \cup Decided
  BY <1>1 DEF ServiceInv, RowInv
<1>4. /\ DOMAIN row = Given \cup Decided
      /\ row.status = status /\ row.reviewer_id = reviewer /\ row.decided_at = at
      /\ \A f \in Given : row[f] = approvals[id][f]
  BY <1>3 DEF Given, Decided
<1>5. Carries(row, d, id)
  BY <1>4 DEF Carries, Decided
<1>6. \E e \in decisions' : Carries(row, e, id)
  BY <1>1, <1>5
<1>7. q.pc = "update" /\ q.id = id /\ q.base = approvals[id] /\ q.row = row
  OBVIOUS
<1>. HIDE DEF row, d, q
<1>8. /\ decisions \subseteq decisions'
      /\ crossed \subseteq crossed'
      /\ crossed' \subseteq crossed \cup {id}
      /\ id \notin crossed' => \A e \in Replicas : areq[e].pc = "update" => areq[e].id # id
  BY <1>1
<1>9. QED
  BY <1>1, <1>2, <1>4, <1>6, <1>7, <1>8

LEMMA DecideKeeps ==
    ASSUME ServiceInv, NEW c \in Replicas, NEW p, NEW id, NEW status \in {"approved", "rejected"},
           NEW reviewer, decide(c, p, id, status, reviewer)
    PROVE  ServiceInv'
<1>1. PICK q : q = areq'[c]
  OBVIOUS
<1>2. /\ DOMAIN areq' = Replicas
      /\ \A e \in Replicas : e # c => areq'[e] = areq[e]
      /\ areq[c].pc = "idle" /\ id \in DOMAIN approvals /\ approvals' = approvals
      /\ q.pc = "update" /\ q.id = id /\ q.base = approvals[id]
      /\ DOMAIN q.row = Given \cup Decided
      /\ q.row.status = status
      /\ \A f \in Given : q.row[f] = approvals[id][f]
      /\ \E d \in decisions' : Carries(q.row, d, id)
      /\ decisions \subseteq decisions'
      /\ crossed \subseteq crossed'
      /\ crossed' \subseteq crossed \cup {id}
      /\ id \notin crossed' => \A e \in Replicas : areq[e].pc = "update" => areq[e].id # id
  BY <1>1, DecideStarts
<1>3. ASSUME NEW e \in Replicas
      PROVE  areq'[e].pc \in {"idle", "insert", "update"} /\ InsertInv(e)' /\ UpdateInv(e)'
  <2>1. CASE e = c
    <3>1. InsertInv(e)'
      BY <1>1, <1>2, <2>1 DEF InsertInv
    <3>2. UpdateInv(e)'
      BY <1>1, <1>2, <2>1 DEF UpdateInv
    <3>3. QED
      BY <1>1, <1>2, <2>1, <3>1, <3>2
  <2>2. CASE e # c
    <3>1. areq'[e] = areq[e]
      BY <1>2, <2>2
    <3>2. InsertInv(e)'
      BY <3>1 DEF ServiceInv, InsertInv
    <3>3. SUFFICES ASSUME areq[e].pc = "update" PROVE UpdateInv(e)'
      BY <3>1, <3>2 DEF UpdateInv, ServiceInv
    <3>4. /\ areq[e].id \in DOMAIN approvals
          /\ DOMAIN areq[e].row = Given \cup Decided
          /\ areq[e].row.status # "requested"
          /\ \A f \in Given : areq[e].row[f] = approvals[areq[e].id][f]
          /\ \E d \in decisions : Carries(areq[e].row, d, areq[e].id)
          /\ areq[e].id \notin crossed =>
                /\ areq[e].base = approvals[areq[e].id]
                /\ \A g \in Replicas : areq[g].pc = "update" /\ areq[g].id = areq[e].id => g = e
      BY <3>3 DEF ServiceInv, UpdateInv
    <3>5. \E d \in decisions' : Carries(areq[e].row, d, areq[e].id)
      BY <1>2, <3>4
    <3>6. ASSUME areq[e].id \notin crossed'
          PROVE  /\ areq[e].base = approvals[areq[e].id]
                 /\ \A g \in Replicas : areq'[g].pc = "update" /\ areq'[g].id = areq[e].id => g = e
      <4>1. areq[e].id \notin crossed /\ areq[e].id # id
        BY <1>2, <3>3, <3>6
      <4>2. QED
        BY <1>1, <1>2, <3>4, <4>1
    <3>7. QED
      BY <1>2, <3>1, <3>4, <3>5, <3>6 DEF UpdateInv
  <2>3. QED
    BY <2>1, <2>2
<1>4. ASSUME NEW a \in DOMAIN approvals' PROVE RowInv(a)'
  BY <1>2 DEF ServiceInv, RowInv
<1>5. QED
  BY <1>2, <1>3, <1>4 DEF ServiceInv

\* The UPDATE changes one row, keeps what the row was given and decides it; the
\* row is the one the decision made, unless decisions crossed.
LEMMA UpdateWrites ==
    ASSUME ServiceInv, NEW c \in Replicas, UpdateApproval(c)
    PROVE  LET id == areq[c].id IN
           /\ areq[c].pc = "update" /\ areq' = [areq EXCEPT ![c] = NoServe]
           /\ id \in DOMAIN approvals
           /\ UNCHANGED <<decisions, crossed>>
           /\ DOMAIN approvals' = DOMAIN approvals
           /\ \A a \in DOMAIN approvals : a # id => approvals'[a] = approvals[a]
           /\ DOMAIN approvals'[id] = Given \cup Decided
           /\ \A f \in Given : approvals'[id][f] = approvals[id][f]
           /\ approvals[id].status # "requested" => approvals'[id].status # "requested"
           /\ \E d \in decisions : d.id = id
           /\ id \notin crossed => \E d \in decisions : Carries(approvals'[id], d, id)
<1>1. PICK q : q = areq[c]
  OBVIOUS
<1>2. PICK row : row = [f \in DOMAIN q.row |->
                           IF q.row[f] = q.base[f] THEN approvals[q.id][f] ELSE q.row[f]]
  OBVIOUS
<1>3. /\ q.pc = "update" /\ areq' = [areq EXCEPT ![c] = NoServe]
      /\ approvals' = WithRow(q.id, row)
      /\ UNCHANGED <<decisions, crossed>>
  BY <1>1, <1>2 DEF UpdateApproval
<1>4. /\ q.id \in DOMAIN approvals
      /\ DOMAIN q.row = Given \cup Decided
      /\ q.row.status # "requested"
      /\ \A f \in Given : q.row[f] = approvals[q.id][f]
      /\ \E d \in decisions : Carries(q.row, d, q.id)
      /\ q.id \notin crossed => q.base = approvals[q.id]
  BY <1>1, <1>3 DEF ServiceInv, UpdateInv
<1>5. /\ DOMAIN approvals' = DOMAIN approvals
      /\ \A a \in DOMAIN approvals : a # q.id => approvals'[a] = approvals[a]
      /\ approvals'[q.id] = row
  BY <1>3, <1>4 DEF WithRow
<1>6. DOMAIN row = Given \cup Decided /\ \A f \in Given : row[f] = approvals[q.id][f]
  BY <1>2, <1>4
<1>7. approvals[q.id].status # "requested" => row.status # "requested"
  BY <1>2, <1>4 DEF Given, Decided
<1>8. ASSUME q.id \notin crossed PROVE \E d \in decisions : Carries(row, d, q.id)
  <2>1. \A f \in Given \cup Decided : row[f] = q.row[f]
    BY <1>2, <1>4, <1>8
  <2>2. PICK d \in decisions : Carries(q.row, d, q.id)
    BY <1>4
  <2>3. QED
    BY <2>1, <2>2 DEF Carries
<1>9. \E d \in decisions : d.id = q.id
  BY <1>4 DEF Carries
<1>10. QED
  BY <1>1, <1>3, <1>4, <1>5, <1>6, <1>7, <1>8, <1>9

LEMMA UpdateKeeps ==
    ASSUME ServiceInv, NEW c \in Replicas, UpdateApproval(c)
    PROVE  ServiceInv'
<1>1. PICK id : id = areq[c].id
  OBVIOUS
<1>2. /\ areq[c].pc = "update" /\ areq' = [areq EXCEPT ![c] = NoServe]
      /\ id \in DOMAIN approvals
      /\ UNCHANGED <<decisions, crossed>>
      /\ DOMAIN approvals' = DOMAIN approvals
      /\ \A a \in DOMAIN approvals : a # id => approvals'[a] = approvals[a]
      /\ DOMAIN approvals'[id] = Given \cup Decided
      /\ \A f \in Given : approvals'[id][f] = approvals[id][f]
      /\ \E d \in decisions : d.id = id
      /\ id \notin crossed => \E d \in decisions : Carries(approvals'[id], d, id)
  BY <1>1, UpdateWrites
<1>3. /\ DOMAIN areq' = Replicas
      /\ areq'[c].pc = "idle"
      /\ \A e \in Replicas : e # c => areq'[e] = areq[e]
  BY <1>2, ServeEnds
<1>4. ASSUME NEW e \in Replicas
      PROVE  areq'[e].pc \in {"idle", "insert", "update"} /\ InsertInv(e)' /\ UpdateInv(e)'
  <2>1. CASE e = c
    BY <1>3, <2>1 DEF InsertInv, UpdateInv
  <2>2. CASE e # c
    <3>1. areq'[e] = areq[e]
      BY <1>3, <2>2
    <3>2. InsertInv(e)'
      BY <3>1 DEF ServiceInv, InsertInv
    <3>3. SUFFICES ASSUME areq[e].pc = "update" PROVE UpdateInv(e)'
      BY <3>1, <3>2 DEF UpdateInv, ServiceInv
    <3>4. /\ areq[e].id \in DOMAIN approvals
          /\ DOMAIN areq[e].row = Given \cup Decided
          /\ areq[e].row.status # "requested"
          /\ \A f \in Given : areq[e].row[f] = approvals[areq[e].id][f]
          /\ \E d \in decisions : Carries(areq[e].row, d, areq[e].id)
          /\ areq[e].id \notin crossed =>
                /\ areq[e].base = approvals[areq[e].id]
                /\ \A g \in Replicas : areq[g].pc = "update" /\ areq[g].id = areq[e].id => g = e
      BY <3>3 DEF ServiceInv, UpdateInv
    <3>5. \A f \in Given : areq[e].row[f] = approvals'[areq[e].id][f]
      BY <1>2, <3>4
    <3>6. ASSUME areq[e].id \notin crossed
          PROVE  /\ areq[e].base = approvals'[areq[e].id]
                 /\ \A g \in Replicas : areq'[g].pc = "update" /\ areq'[g].id = areq[e].id => g = e
      BY <1>1, <1>2, <1>3, <2>2, <3>4, <3>6
    <3>7. QED
      BY <1>2, <3>1, <3>4, <3>5, <3>6 DEF UpdateInv
  <2>3. QED
    BY <2>1, <2>2
<1>5. ASSUME NEW a \in DOMAIN approvals' PROVE RowInv(a)'
  <2>1. CASE a = id
    BY <1>2, <2>1 DEF RowInv
  <2>2. CASE a # id
    BY <1>2, <2>2 DEF ServiceInv, RowInv
  <2>3. QED
    BY <2>1, <2>2
<1>6. QED
  BY <1>3, <1>4, <1>5 DEF ServiceInv

\* A step that leaves the service alone.
LEMMA ServiceUnchanged ==
    ASSUME ServiceInv, UNCHANGED avars
    PROVE  ServiceInv'
<1>1. UNCHANGED <<approvals, areq, decisions, crossed>>
  BY DEF avars
<1>2. \A e \in Replicas : InsertInv(e)' /\ UpdateInv(e)'
  BY <1>1 DEF ServiceInv, InsertInv, UpdateInv
<1>3. \A a \in DOMAIN approvals' : RowInv(a)'
  BY <1>1 DEF ServiceInv, RowInv
<1>4. QED
  BY <1>1, <1>2, <1>3 DEF ServiceInv

\* The approvals service as the steps of Governance use it.
ServiceStep ==
    \/ UNCHANGED avars
    \/ \E c \in Replicas :
          \/ request(c, Agent, Body(call.id)) \/ InsertApproval(c) \/ ServeFails(c) \/ UpdateApproval(c)
          \/ \E p \in Principals, a \in ApprovalIds, s \in {"approved", "rejected"}, w \in Reviewers :
                decide(c, p, a, s, w)

LEMMA ServiceKeeps ==
    ASSUME ServiceInv, ServiceStep
    PROVE  ServiceInv'
BY ServiceUnchanged, RequestKeeps, InsertKeeps, FailKeeps, UpdateKeeps, DecideKeeps DEF ServiceStep

LEMMA StepsOfService ==
    ASSUME GovernanceNext
    PROVE  ServiceStep
BY DEF GovernanceNext, AgentStep, policy_check, CheckRaises, enforce_policy, Flush, AttemptTimesOut,
       PostRaises, Post, PostExisting, Stored, ReplicaFails, ReviewerStep, ServiceStep

\* No step takes a row away, changes what it was given or makes it pending again.
LEMMA ServiceKeepsRows ==
    ASSUME ServiceInv, ServiceStep, NEW a \in DOMAIN approvals
    PROVE  /\ a \in DOMAIN approvals'
           /\ \A f \in Given : approvals'[a][f] = approvals[a][f]
           /\ approvals[a].status # "requested" => approvals'[a].status # "requested"
<1>1. CASE approvals' = approvals
  BY <1>1
<1>2. ASSUME NEW c \in Replicas, InsertApproval(c)
      PROVE  a \in DOMAIN approvals' /\ approvals'[a] = approvals[a]
  BY <1>2, InsertStores
<1>3. ASSUME NEW c \in Replicas, UpdateApproval(c)
      PROVE  /\ a \in DOMAIN approvals'
             /\ \A f \in Given : approvals'[a][f] = approvals[a][f]
             /\ approvals[a].status # "requested" => approvals'[a].status # "requested"
  <2>1. PICK id : id = areq[c].id
    OBVIOUS
  <2>2. /\ DOMAIN approvals' = DOMAIN approvals
        /\ \A b \in DOMAIN approvals : b # id => approvals'[b] = approvals[b]
        /\ \A f \in Given : approvals'[id][f] = approvals[id][f]
        /\ approvals[id].status # "requested" => approvals'[id].status # "requested"
    BY <1>3, <2>1, UpdateWrites
  <2>3. QED
    BY <2>2
<1>4. \/ approvals' = approvals
      \/ \E c \in Replicas : InsertApproval(c) \/ UpdateApproval(c)
  BY DEF ServiceStep, avars, request, ServeFails, decide
<1>5. QED
  BY <1>1, <1>2, <1>3, <1>4

-----------------------------------------------------------------------------
(* The agent.                                                              *)

\* What the engine answers, and what becomes of payloads, is settled with the
\* scenario.
LEMMA ScenarioFixed ==
    ASSUME setup' = setup
    PROVE  /\ Told' = Told /\ Verdict' = Verdict /\ Agent' = Agent
           /\ Buffered' = Buffered /\ Delivered' = Delivered
BY DEF Told, Verdict, RawResult, Agent, Buffered, Delivered, Captured, Payload

LEMMA SetupStays ==
    ASSUME GovernanceNext
    PROVE  setup' = setup
BY DEF GovernanceNext, AgentStep, policy_check, CheckRaises, enforce_policy, Flush, AttemptTimesOut,
       PostRaises, Post, PostExisting, Stored, ReplicaFails, ReviewerStep, gvars

\* An event as the SDK builds it.
LEMMA EventBuilt ==
    ASSUME NEW type \in Types, calls \in 1..MaxCalls
    PROVE  Event(type) \in Buffered /\ Event(type).type = type /\ Event(type).call = calls
BY DEF Event, Buffered, Captured

\* One more event in the buffer.
LEMMA EmitKeeps ==
    ASSUME EventsInv, setup' = setup, NEW e \in Buffered, Truthful(e),
           buffer' = Append(buffer, e), delivered' = delivered
    PROVE  EventsInv' /\ InSeq(buffer') = InSeq(buffer) \cup {e}
<1>1. PICK B : B = Buffered
  OBVIOUS
<1>2. buffer \in Seq(B) /\ e \in B
  BY <1>1 DEF EventsInv
<1>3. buffer' \in Seq(B) /\ InSeq(buffer') = InSeq(buffer) \cup {e}
  BY <1>2, InSeqAppend
<1>4. Told' = Told /\ Verdict' = Verdict /\ Buffered' = Buffered /\ Delivered' = Delivered
  BY ScenarioFixed
<1>5. \A x \in InSeq(buffer') \cup InSeq(delivered') : Truthful(x)'
  BY <1>3, <1>4 DEF EventsInv, Truthful
<1>6. QED
  BY <1>1, <1>3, <1>4, <1>5 DEF EventsInv

\* The events of a flush, as the collector stores them.
LEMMA FlushedEvents ==
    ASSUME buffer \in Seq(Buffered),
           NEW new, new = [i \in 1..Len(buffer) |->
                              [buffer[i] EXCEPT !.payload = Keep(@, setup.collector_rules)]]
    PROVE  /\ new \in Seq(Delivered)
           /\ \A e \in InSeq(new) : \E b \in InSeq(buffer) : e.type = b.type /\ e.call = b.call
           /\ \A b \in InSeq(buffer) : \E e \in InSeq(new) : e.type = b.type /\ e.call = b.call
<1>1. PICK B : B = Buffered
  OBVIOUS
<1>2. PICK D : D = Delivered
  OBVIOUS
<1>3. ASSUME NEW b \in B
      PROVE  LET e == [b EXCEPT !.payload = Keep(@, setup.collector_rules)]
             IN  e \in D /\ e.type = b.type /\ e.call = b.call
  BY <1>1, <1>2 DEF Buffered, Delivered
<1>4. Len(buffer) \in Nat /\ \A i \in 1..Len(buffer) : buffer[i] \in B
  BY <1>1
<1>5. \A i \in 1..Len(buffer) : /\ new[i] \in D
                                /\ new[i].type = buffer[i].type /\ new[i].call = buffer[i].call
  BY <1>3, <1>4
<1>6. new \in [1..Len(buffer) -> D]
  BY <1>5
<1>7. new \in Seq(D) /\ Len(new) = Len(buffer)
  BY <1>4, <1>6
<1>8. QED
  BY <1>2, <1>5, <1>7 DEF InSeq

\* A flush that delivers.
LEMMA DeliverKeeps ==
    ASSUME EventsInv, setup' = setup, Deliver
    PROVE  /\ EventsInv'
           /\ \A n : Announces(buffer, n) \/ Announces(delivered, n) => Announces(delivered', n)
<1>1. PICK new : new = [i \in 1..Len(buffer) |->
                              [buffer[i] EXCEPT !.payload = Keep(@, setup.collector_rules)]]
  OBVIOUS
<1>2. PICK D : D = Delivered
  OBVIOUS
<1>3. /\ new \in Seq(D)
      /\ \A e \in InSeq(new) : \E b \in InSeq(buffer) : e.type = b.type /\ e.call = b.call
      /\ \A b \in InSeq(buffer) : \E e \in InSeq(new) : e.type = b.type /\ e.call = b.call
  BY <1>1, <1>2, FlushedEvents DEF EventsInv
<1>4. delivered \in Seq(D) /\ delivered' = delivered \o new
  BY <1>1, <1>2 DEF EventsInv, Deliver
<1>5. delivered' \in Seq(D) /\ InSeq(delivered') = InSeq(delivered) \cup InSeq(new)
  <2>1. PICK old : old = delivered
    OBVIOUS
  <2>2. old \o new \in Seq(D) /\ InSeq(old \o new) = InSeq(old) \cup InSeq(new)
    BY <1>3, <1>4, <2>1, InSeqConcat
  <2>3. QED
    BY <1>4, <2>1, <2>2
<1>6. Told' = Told /\ Verdict' = Verdict /\ Buffered' = Buffered /\ Delivered' = Delivered
  BY ScenarioFixed
<1>7. buffer' = <<>> /\ InSeq(buffer') = {}
  BY InSeqEmpty DEF Deliver
<1>8. ASSUME NEW x \in InSeq(delivered') PROVE Truthful(x)
  <2>1. CASE x \in InSeq(delivered)
    BY <2>1 DEF EventsInv
  <2>2. CASE x \in InSeq(new)
    <3>1. PICK b \in InSeq(buffer) : x.type = b.type
      BY <1>3, <2>2
    <3>2. Truthful(b)
      BY DEF EventsInv
    <3>3. QED
      BY <3>1, <3>2 DEF Truthful
  <2>3. QED
    BY <1>5, <2>1, <2>2
<1>9. \A x \in InSeq(buffer') \cup InSeq(delivered') : Truthful(x)'
  BY <1>6, <1>7, <1>8 DEF Truthful
<1>10. buffer' \in Seq(Buffered')
  BY <1>7
<1>11. EventsInv'
  BY <1>2, <1>5, <1>6, <1>9, <1>10 DEF EventsInv
<1>12. QED
  BY <1>3, <1>5, <1>11 DEF Announces

LEMMA EventsUnchanged ==
    ASSUME EventsInv, UNCHANGED <<setup, buffer, delivered>>
    PROVE  EventsInv'
BY ScenarioFixed DEF EventsInv, Truthful

\* Outcomes that were true stay true, and one more is.
LEMMA EndKeeps ==
    ASSUME OutcomesInv, setup' = setup, DOMAIN approvals \subseteq DOMAIN approvals',
           NEW o \in ApprovalIds \cup {"allowed", "blocked", "error"}, OutcomeOK(o)', End(o)
    PROVE  OutcomesInv'
<1>1. PICK O : O = ApprovalIds \cup {"allowed", "blocked", "error"}
  OBVIOUS
<1>2. outcomes \in Seq(O) /\ o \in O
  BY <1>1 DEF OutcomesInv
<1>3. Append(outcomes, o) \in Seq(O) /\ InSeq(Append(outcomes, o)) = InSeq(outcomes) \cup {o}
  BY <1>2, InSeqAppend
<1>4. outcomes' = Append(outcomes, o)
  BY DEF End
<1>5. Verdict' = Verdict
  BY ScenarioFixed
<1>6. \A x \in InSeq(outcomes) : OutcomeOK(x)'
  BY <1>5 DEF OutcomesInv, OutcomeOK
<1>7. \A x \in InSeq(outcomes') : OutcomeOK(x)'
  BY <1>3, <1>4, <1>6
<1>8. QED
  BY <1>1, <1>3, <1>4, <1>7 DEF OutcomesInv

LEMMA OutcomesUnchanged ==
    ASSUME OutcomesInv, UNCHANGED <<setup, outcomes>>, DOMAIN approvals \subseteq DOMAIN approvals'
    PROVE  OutcomesInv'
<1>1. Verdict' = Verdict
  BY ScenarioFixed
<1>2. \A x \in InSeq(outcomes) : OutcomeOK(x)'
  BY <1>1 DEF OutcomesInv, OutcomeOK
<1>3. QED
  BY <1>2 DEF OutcomesInv

\* The agent's side of the invariant.
AgentInv == EventsInv /\ CallInv /\ OutcomesInv

\* A call that ends leaves nothing behind but its outcome and the events.
LEMMA IdleKeeps ==
    ASSUME setup \in Scenarios, setup' = setup, calls' \in 0..MaxCalls, call' = NoCall
    PROVE  CallInv'
BY DEF CallInv, NoCall

LEMMA CheckKeeps ==
    ASSUME AgentInv, policy_check
    PROVE  AgentInv'
<1>1. PICK type : type = IF Passed(Told) THEN "check.passed" ELSE "check.failed"
  OBVIOUS
<1>2. PICK e : e = [Event(type) EXCEPT !.call = calls']
  OBVIOUS
<1>3. /\ calls' = calls + 1 /\ calls < MaxCalls
      /\ buffer' = Append(buffer, e)
      /\ call' = [pc |-> "enforce", answer |-> Told]
      /\ UNCHANGED <<setup, delivered, outcomes, fails, avars>>
  BY <1>1, <1>2 DEF policy_check, Told
<1>4. calls' \in 1..MaxCalls
  BY <1>3, GovernanceBounds DEF AgentInv, CallInv
<1>5. e \in Buffered /\ e.type = type
  BY <1>1, <1>2, <1>4 DEF Event, Buffered, Captured, Types
<1>6. Truthful(e)
  BY <1>1, <1>5 DEF Truthful
<1>7. EventsInv'
  BY <1>3, <1>5, <1>6, EmitKeeps DEF AgentInv
<1>8. Told' = Told
  BY <1>3, ScenarioFixed
<1>9. CallInv'
  BY <1>3, <1>4, <1>8 DEF AgentInv, CallInv
<1>10. OutcomesInv'
  BY <1>3, OutcomesUnchanged DEF AgentInv, avars
<1>11. QED
  BY <1>7, <1>9, <1>10 DEF AgentInv

LEMMA CheckRaisesKeeps ==
    ASSUME AgentInv, CheckRaises
    PROVE  AgentInv'
<1>1. /\ calls' = calls + 1 /\ calls < MaxCalls /\ End("error")
      /\ UNCHANGED <<setup, buffer, delivered, avars>>
  BY DEF CheckRaises
<1>2. calls' \in 0..MaxCalls
  BY <1>1, GovernanceBounds DEF AgentInv, CallInv
<1>3. CallInv'
  BY <1>1, <1>2, IdleKeeps DEF AgentInv, CallInv, End
<1>4. OutcomeOK("error")'
  BY GovernanceIds DEF OutcomeOK
<1>5. OutcomesInv'
  BY <1>1, <1>4, EndKeeps DEF AgentInv, avars
<1>6. QED
  BY <1>1, <1>3, <1>5, EventsUnchanged DEF AgentInv

LEMMA EnforceKeeps ==
    ASSUME AgentInv, enforce_policy
    PROVE  AgentInv'
<1>1. /\ call.pc = "enforce" /\ UNCHANGED <<setup, delivered, calls, fails, avars>>
      /\ \/ Verdict = "block" /\ Emit("enforcement.blocked") /\ End("blocked")
         \/ Verdict = "allow" /\ Emit("enforcement.allowed") /\ End("allowed")
         \/ /\ Verdict = "ask" /\ Emit("approval.requested")
            /\ call' = [pc |-> "flush", id |-> NewIds[calls]]
            /\ UNCHANGED outcomes
  BY DEF enforce_policy, AgentInv, CallInv, Verdict
<1>2. calls \in 1..MaxCalls /\ setup \in Scenarios
  BY <1>1 DEF AgentInv, CallInv
<1>3. /\ Told' = Told /\ Verdict' = Verdict
      /\ DOMAIN approvals' = DOMAIN approvals
  BY <1>1, ScenarioFixed DEF avars
<1>4. ASSUME NEW type \in Types, Emit(type), type = "check.failed" => ~Passed(Told),
             type = "enforcement.allowed" => Verdict = "allow"
      PROVE  EventsInv' /\ (type = "approval.requested" => Announces(buffer', calls))
  <2>1. Event(type) \in Buffered /\ Event(type).type = type /\ Event(type).call = calls
    BY <1>2, EventBuilt
  <2>2. Truthful(Event(type))
    BY <1>4, <2>1 DEF Truthful
  <2>3. EventsInv' /\ InSeq(buffer') = InSeq(buffer) \cup {Event(type)}
    BY <1>1, <1>4, <2>1, <2>2, EmitKeeps DEF AgentInv, Emit
  <2>4. QED
    BY <2>1, <2>3 DEF Announces
<1>5. ASSUME NEW o \in {"blocked", "allowed"}, End(o), OutcomeOK(o)'
      PROVE  CallInv' /\ OutcomesInv'
  <2>1. CallInv'
    BY <1>1, <1>2, <1>5, IdleKeeps DEF End
  <2>2. OutcomesInv'
    BY <1>1, <1>3, <1>5, EndKeeps DEF AgentInv
  <2>3. QED
    BY <2>1, <2>2
<1>6. CASE Verdict = "block" /\ Emit("enforcement.blocked") /\ End("blocked")
  <2>1. OutcomeOK("blocked")'
    BY <1>3, <1>6, GovernanceIds DEF OutcomeOK
  <2>2. EventsInv'
    BY <1>4, <1>6 DEF Types
  <2>3. QED
    BY <1>5, <1>6, <2>1, <2>2 DEF AgentInv
<1>7. CASE Verdict = "allow" /\ Emit("enforcement.allowed") /\ End("allowed")
  <2>1. OutcomeOK("allowed")'
    BY <1>3, <1>7, GovernanceIds DEF OutcomeOK
  <2>2. EventsInv'
    BY <1>4, <1>7 DEF Types
  <2>3. QED
    BY <1>5, <1>7, <2>1, <2>2 DEF AgentInv
<1>8. CASE /\ Verdict = "ask" /\ Emit("approval.requested")
           /\ call' = [pc |-> "flush", id |-> NewIds[calls]]
           /\ UNCHANGED outcomes
  <2>1. EventsInv' /\ Announces(buffer', calls)
    BY <1>4, <1>8 DEF Types
  <2>2. CallInv'
    BY <1>1, <1>2, <1>3, <1>8, <2>1 DEF AgentInv, CallInv
  <2>3. OutcomesInv'
    BY <1>1, <1>3, <1>8, OutcomesUnchanged DEF AgentInv
  <2>4. QED
    BY <2>1, <2>2, <2>3 DEF AgentInv
<1>9. QED
  BY <1>1, <1>6, <1>7, <1>8

\* A flush that drops the events.
LEMMA DropKeeps ==
    ASSUME EventsInv, setup' = setup, buffer' = <<>>, delivered' = delivered
    PROVE  EventsInv'
<1>1. Told' = Told /\ Verdict' = Verdict /\ Buffered' = Buffered /\ Delivered' = Delivered
  BY ScenarioFixed
<1>2. InSeq(buffer') = {} /\ InSeq(delivered') = InSeq(delivered)
  BY InSeqEmpty
<1>3. buffer' \in Seq(Buffered') /\ delivered' \in Seq(Delivered')
  BY <1>1 DEF EventsInv
<1>4. \A x \in InSeq(delivered) : Truthful(x)'
  BY <1>1 DEF EventsInv, Truthful
<1>5. \A x \in InSeq(buffer') \cup InSeq(delivered') : Truthful(x)'
  BY <1>2, <1>4
<1>. QED
  BY <1>3, <1>5 DEF EventsInv

\* The call goes on to its request, whether its event was delivered or dropped.
LEMMA StartPostKeeps ==
    ASSUME AgentInv, call.pc = "flush", UNCHANGED <<setup, calls, avars, outcomes>>,
           StartPost, EventsInv',
           setup.on_failure = "drop" \/ \A n : Announces(buffer, n) => Announces(delivered', n)
    PROVE  AgentInv'
<1>1. Verdict' = Verdict
  BY ScenarioFixed
<1>2. Left(calls)'
  BY DEF AgentInv, CallInv, Left
<1>3. CallInv'
  BY <1>1, <1>2 DEF AgentInv, CallInv, StartPost
<1>4. DOMAIN approvals \subseteq DOMAIN approvals'
  BY DEF avars
<1>5. OutcomesInv'
  BY <1>4, OutcomesUnchanged DEF AgentInv
<1>. QED
  BY <1>3, <1>5 DEF AgentInv

LEMMA FlushKeeps ==
    ASSUME AgentInv, Flush
    PROVE  AgentInv' /\ \A n : Left(n) => Left(n)'
<1>1. /\ call.pc = "flush" /\ UNCHANGED <<setup, calls, avars>>
      /\ DOMAIN approvals' = DOMAIN approvals
  BY DEF Flush, avars
<1>2. CASE Deliver /\ StartPost /\ UNCHANGED <<outcomes, fails>>
  <2>1. /\ EventsInv'
        /\ \A n : Announces(buffer, n) \/ Announces(delivered, n) => Announces(delivered', n)
    BY <1>1, <1>2, DeliverKeeps DEF AgentInv
  <2>2. AgentInv'
    BY <1>1, <1>2, <2>1, StartPostKeeps
  <2>. QED
    BY <1>1, <2>1, <2>2 DEF Left
<1>3. CASE /\ setup.on_failure = "drop"
           /\ buffer' = <<>> /\ StartPost
           /\ UNCHANGED <<delivered, outcomes>>
  <2>1. EventsInv'
    BY <1>1, <1>3, DropKeeps DEF AgentInv
  <2>2. AgentInv'
    BY <1>1, <1>3, <2>1, StartPostKeeps
  <2>. QED
    BY <1>1, <1>3, <2>2 DEF Left
<1>4. CASE fails < MaxFail /\ fails' = fails + 1 /\ End("error") /\ UNCHANGED <<buffer, delivered>>
  <2>1. CallInv'
    BY <1>1, <1>4, IdleKeeps DEF AgentInv, CallInv, End
  <2>2. OutcomeOK("error")'
    BY GovernanceIds DEF OutcomeOK
  <2>3. OutcomesInv'
    BY <1>1, <1>4, <2>2, EndKeeps DEF AgentInv
  <2>4. QED
    BY <1>1, <1>4, <2>1, <2>3, EventsUnchanged DEF AgentInv, Left
<1>5. QED
  BY <1>2, <1>3, <1>4 DEF Flush

\* A call that only moves between its attempts.
LEMMA AttemptKeeps ==
    ASSUME AgentInv, UNCHANGED <<setup, buffer, delivered, outcomes, calls>>,
           DOMAIN approvals \subseteq DOMAIN approvals',
           call.pc \in {"post", "await"}, call'.pc \in {"post", "await"},
           call'.id = call.id, DOMAIN call' = DOMAIN call
    PROVE  AgentInv'
<1>1. EventsInv' /\ OutcomesInv'
  BY EventsUnchanged, OutcomesUnchanged DEF AgentInv
<1>2. Verdict' = Verdict
  BY ScenarioFixed
<1>3. CallInv'
  BY <1>2 DEF AgentInv, CallInv, Left
<1>4. QED
  BY <1>1, <1>3 DEF AgentInv

\* A call that ends while it asks for approval: with an error, or with the id of
\* an approval that is stored.
LEMMA PostEndsKeeps ==
    ASSUME AgentInv, UNCHANGED <<setup, buffer, delivered, calls>>,
           DOMAIN approvals \subseteq DOMAIN approvals', call.pc \in {"post", "await"},
           NEW o, o = "error" \/ (o = call.id /\ o \in DOMAIN approvals'), End(o)
    PROVE  AgentInv'
<1>1. calls \in 1..MaxCalls /\ call.id = NewIds[calls] /\ Verdict = "ask" /\ setup \in Scenarios
  BY DEF AgentInv, CallInv
<1>2. Verdict' = Verdict
  BY ScenarioFixed
<1>3. o = "error" \/ o \in ApprovalIds
  BY <1>1, GovernanceIds
<1>4. OutcomeOK(o)'
  BY <1>1, <1>2, <1>3, GovernanceIds DEF OutcomeOK
<1>5. OutcomesInv'
  BY <1>3, <1>4, EndKeeps DEF AgentInv
<1>6. CallInv'
  BY <1>1, IdleKeeps DEF AgentInv, CallInv, End
<1>7. QED
  BY <1>5, <1>6, EventsUnchanged DEF AgentInv

LEMMA PostKeeps ==
    ASSUME AgentInv, NEW c \in Replicas, Post(c)
    PROVE  AgentInv'
<1>1. /\ call.pc = "post" /\ call' = [call EXCEPT !.pc = "await", !.tries = call.tries - 1]
      /\ UNCHANGED <<setup, buffer, delivered, outcomes, calls>> /\ approvals' = approvals
  BY DEF Post, request
<1>2. DOMAIN call = {"pc", "id", "tries"}
  BY <1>1 DEF AgentInv, CallInv
<1>3. call'.pc = "await" /\ call'.id = call.id /\ DOMAIN call' = DOMAIN call
  BY <1>1, <1>2
<1>4. QED
  BY <1>1, <1>3, AttemptKeeps

LEMMA BackToPost ==
    ASSUME AgentInv, call.pc = "await", call' = [call EXCEPT !.pc = "post"],
           UNCHANGED <<setup, buffer, delivered, outcomes, calls>>,
           DOMAIN approvals \subseteq DOMAIN approvals'
    PROVE  AgentInv'
<1>1. DOMAIN call = {"pc", "id", "tries"}
  BY DEF AgentInv, CallInv
<1>2. call'.pc = "post" /\ call'.id = call.id /\ DOMAIN call' = DOMAIN call
  BY <1>1
<1>3. QED
  BY <1>2, AttemptKeeps

\* A step after which the agent is where it was.
LEMMA StayKeeps ==
    ASSUME AgentInv, UNCHANGED <<setup, call, buffer, delivered, outcomes, calls>>,
           DOMAIN approvals \subseteq DOMAIN approvals'
    PROVE  AgentInv'
<1>1. EventsInv' /\ OutcomesInv'
  BY EventsUnchanged, OutcomesUnchanged DEF AgentInv
<1>2. Told' = Told /\ Verdict' = Verdict
  BY ScenarioFixed
<1>3. CallInv'
  BY <1>2 DEF AgentInv, CallInv, Left, Announces
<1>4. QED
  BY <1>1, <1>3 DEF AgentInv

\* What has left the agent has left it.
LEMMA LeftStays ==
    ASSUME UNCHANGED <<setup, delivered>>
    PROVE  \A n : Left(n) => Left(n)'
BY DEF Left, Announces

\* Every step keeps the agent's side.
LEMMA AgentKeeps ==
    ASSUME ServiceInv, AgentInv, GovernanceNext
    PROVE  AgentInv' /\ \A n : Left(n) => Left(n)'
<1>1. DOMAIN approvals \subseteq DOMAIN approvals'
  BY StepsOfService, ServiceKeepsRows
<1>2. CASE Flush
  BY <1>2, FlushKeeps
<1>3. CASE policy_check
  BY <1>3, CheckKeeps, LeftStays DEF policy_check
<1>4. CASE CheckRaises
  BY <1>4, CheckRaisesKeeps, LeftStays DEF CheckRaises
<1>5. CASE enforce_policy
  BY <1>5, EnforceKeeps, LeftStays DEF enforce_policy
<1>6. CASE AttemptTimesOut
  BY <1>1, <1>6, BackToPost, LeftStays DEF AttemptTimesOut
<1>7. CASE PostRaises
  BY <1>1, <1>7, PostEndsKeeps, LeftStays DEF PostRaises
<1>8. ASSUME NEW c \in Replicas, Post(c)
      PROVE  AgentInv' /\ UNCHANGED <<setup, delivered>>
  BY <1>8, PostKeeps DEF Post
<1>9. ASSUME NEW c \in Replicas, PostExisting(c)
      PROVE  AgentInv' /\ UNCHANGED <<setup, delivered>>
  BY <1>1, <1>9, PostEndsKeeps DEF PostExisting
<1>10. ASSUME NEW c \in Replicas, Stored(c)
       PROVE  AgentInv' /\ UNCHANGED <<setup, delivered>>
  <2>1. InsertApproval(c) /\ UNCHANGED <<setup, buffer, delivered, calls>>
    BY <1>10 DEF Stored
  <2>2. CASE call.pc = "await" /\ call.id = areq[c].id /\ areq[c].id \notin DOMAIN approvals
    <3>1. End(call.id)
      BY <1>10, <2>2 DEF Stored
    <3>2. call.id \in DOMAIN approvals'
      BY <2>1, <2>2, InsertStores
    <3>3. QED
      BY <1>1, <2>1, <2>2, <3>1, <3>2, PostEndsKeeps
  <2>3. CASE ~(call.pc = "await" /\ call.id = areq[c].id /\ areq[c].id \notin DOMAIN approvals)
    <3>1. /\ call' = IF call.pc = "await" /\ call.id = areq[c].id THEN [call EXCEPT !.pc = "post"] ELSE call
          /\ UNCHANGED outcomes
      BY <1>10, <2>3 DEF Stored
    <3>2. QED
      BY <1>1, <2>1, <3>1, BackToPost, StayKeeps
  <2>4. QED
    BY <2>2, <2>3
<1>11. ASSUME NEW c \in Replicas, ReplicaFails(c)
       PROVE  AgentInv' /\ UNCHANGED <<setup, delivered>>
  <2>1. /\ UNCHANGED <<setup, buffer, delivered, outcomes, calls>>
        /\ \/ call.pc = "await" /\ call' = [call EXCEPT !.pc = "post"]
           \/ call' = call
    BY <1>11 DEF ReplicaFails
  <2>2. QED
    BY <1>1, <2>1, BackToPost, StayKeeps
<1>12. ASSUME NEW c \in Replicas, ReviewerStep(c)
       PROVE  AgentInv' /\ UNCHANGED <<setup, delivered>>
  BY <1>1, <1>12, StayKeeps DEF ReviewerStep, gvars
<1>13. QED
  <2>1. CASE AgentStep
    BY <1>2, <1>3, <1>4, <1>5, <1>6, <1>7, <2>1 DEF AgentStep
  <2>2. CASE \E c \in Replicas : Post(c) \/ PostExisting(c) \/ Stored(c) \/ ReplicaFails(c) \/ ReviewerStep(c)
    <3>1. AgentInv' /\ UNCHANGED <<setup, delivered>>
      BY <1>8, <1>9, <1>10, <1>11, <1>12, <2>2
    <3>2. QED
      BY <3>1, LeftStays
  <2>3. QED
    BY <2>1, <2>2 DEF GovernanceNext

-----------------------------------------------------------------------------
(* What is asked is stored.                                                *)

\* A row about to be inserted was asked for by the attempt that is being made.
LEMMA InsertsArePosts ==
    ASSUME ServiceInv, GovernanceNext, NEW c \in Replicas, areq'[c].pc = "insert"
    PROVE  areq'[c] = areq[c] \/ Post(c)
<1>1. ASSUME NEW e \in Replicas, InsertApproval(e) \/ ServeFails(e) \/ UpdateApproval(e)
      PROVE  areq'[c] = areq[c]
  <2>1. areq' = [areq EXCEPT ![e] = NoServe]
    BY <1>1 DEF InsertApproval, ServeFails, UpdateApproval
  <2>2. QED
    BY <2>1, ServeEnds
<1>2. ASSUME NEW e \in Replicas, NEW p, NEW a, NEW s, NEW w, decide(e, p, a, s, w)
      PROVE  areq'[c] = areq[c]
  <2>1. PICK q : q = areq'[e]
    OBVIOUS
  <2>2. q.pc = "update" /\ \A d \in Replicas : d # e => areq'[d] = areq[d]
    BY <1>2, <2>1, DecideStarts
  <2>3. QED
    BY <2>1, <2>2
<1>3. ASSUME NEW e \in Replicas, Post(e)
      PROVE  areq'[c] = areq[c] \/ Post(c)
  <2>1. CASE e = c
    BY <1>3, <2>1
  <2>2. CASE e # c
    <3>1. PICK q : areq' = [areq EXCEPT ![e] = q]
      BY <1>3 DEF Post, request
    <3>2. QED
      BY <2>2, <3>1, ServeStarts
  <2>3. QED
    BY <2>1, <2>2
<1>4. CASE AgentStep
  BY <1>4 DEF AgentStep, policy_check, CheckRaises, enforce_policy, Flush, AttemptTimesOut, PostRaises, avars
<1>5. ASSUME NEW e \in Replicas,
             Post(e) \/ PostExisting(e) \/ Stored(e) \/ ReplicaFails(e) \/ ReviewerStep(e)
      PROVE  areq'[c] = areq[c] \/ Post(c)
  <2>1. CASE PostExisting(e)
    BY <2>1 DEF PostExisting, avars
  <2>2. CASE Stored(e) \/ ReplicaFails(e)
    BY <1>1, <2>2 DEF Stored, ReplicaFails
  <2>3. CASE ReviewerStep(e)
    BY <1>1, <1>2, <2>3 DEF ReviewerStep
  <2>4. QED
    BY <1>3, <1>5, <2>1, <2>2, <2>3
<1>6. QED
  BY <1>4, <1>5 DEF GovernanceNext

\* A row that appears was about to be inserted.
LEMMA RowsAreInserted ==
    ASSUME ServiceInv, ServiceStep, NEW a \in DOMAIN approvals', a \notin DOMAIN approvals
    PROVE  \E c \in Replicas : /\ areq[c].pc = "insert" /\ areq[c].id = a
                               /\ approvals'[a] = areq[c].row
<1>1. \/ approvals' = approvals
      \/ \E c \in Replicas : InsertApproval(c) \/ UpdateApproval(c)
  BY DEF ServiceStep, avars, request, ServeFails, decide
<1>2. ASSUME NEW c \in Replicas, UpdateApproval(c) PROVE DOMAIN approvals' = DOMAIN approvals
  <2>1. PICK id : id = areq[c].id
    OBVIOUS
  <2>2. QED
    BY <1>2, <2>1, UpdateWrites
<1>3. PICK c \in Replicas : InsertApproval(c)
  BY <1>1, <1>2
<1>4. /\ areq[c].pc = "insert"
      /\ DOMAIN approvals' = DOMAIN approvals \cup {areq[c].id}
      /\ areq[c].id \notin DOMAIN approvals => approvals'[areq[c].id] = areq[c].row
  BY <1>3, InsertStores
<1>5. areq[c].id = a
  BY <1>4
<1>6. QED
  BY <1>4, <1>5

LEMMA AskedKeeps ==
    ASSUME ServiceInv, AgentInv, AskedInv, GovernanceNext
    PROVE  AskedInv'
<1>1. setup' = setup /\ ServiceStep /\ Agent' = Agent
  BY SetupStays, StepsOfService, ScenarioFixed
<1>2. calls' = calls \/ calls' = calls + 1
  BY DEF GovernanceNext, AgentStep, policy_check, CheckRaises, enforce_policy, Flush, AttemptTimesOut,
         PostRaises, Post, PostExisting, Stored, ReplicaFails, ReviewerStep, gvars
<1>3. calls \in Nat /\ \A n \in 1..calls : n \in 1..calls'
  BY <1>2 DEF AgentInv, CallInv
<1>4. \A n : Left(n) => Left(n)'
  BY AgentKeeps
<1>5. ASSUME NEW a, Announced(a) PROVE Announced(a)'
  <2>1. PICK n \in 1..calls : a = NewIds[n] /\ Left(n)
    BY <1>5 DEF Announced
  <2>2. n \in 1..calls' /\ Left(n)'
    BY <1>3, <1>4, <2>1
  <2>3. QED
    BY <2>1, <2>2 DEF Announced
<1>6. ASSUME NEW row, IsAgents(row) PROVE IsAgents(row)'
  BY <1>1, <1>6 DEF IsAgents
<1>7. ASSUME NEW a \in DOMAIN approvals' PROVE IsAgents(approvals[a])' /\ Announced(a)'
  <2>1. CASE a \in DOMAIN approvals
    <3>1. IsAgents(approvals[a]) /\ Announced(a)
      BY <2>1 DEF AskedInv
    <3>2. approvals'[a].tenant = approvals[a].tenant /\ approvals'[a].input = approvals[a].input
      BY <1>1, <2>1, ServiceKeepsRows DEF Given
    <3>3. QED
      BY <1>1, <1>5, <3>1, <3>2 DEF IsAgents
  <2>2. CASE a \notin DOMAIN approvals
    <3>1. PICK c \in Replicas : /\ areq[c].pc = "insert" /\ areq[c].id = a
                                /\ approvals'[a] = areq[c].row
      BY <1>1, <2>2, RowsAreInserted
    <3>2. IsAgents(areq[c].row) /\ Announced(a)
      BY <3>1 DEF AskedInv
    <3>3. QED
      BY <1>1, <1>5, <3>1, <3>2 DEF IsAgents
  <2>3. QED
    BY <2>1, <2>2
<1>8. ASSUME NEW c \in Replicas, areq'[c].pc = "insert"
      PROVE  IsAgents(areq[c].row)' /\ Announced(areq[c].id)'
  <2>1. CASE areq'[c] = areq[c]
    <3>1. IsAgents(areq[c].row) /\ Announced(areq[c].id)
      BY <1>8, <2>1 DEF AskedInv
    <3>2. QED
      BY <1>1, <1>5, <2>1, <3>1 DEF IsAgents
  <2>2. CASE Post(c)
    <3>1. PICK q : q = [pc |-> "insert", id |-> call.id, row |-> NewApproval(Agent, Body(call.id))]
      OBVIOUS
    <3>2. call.pc = "post" /\ areq' = [areq EXCEPT ![c] = q]
      BY <2>2, <3>1 DEF Post, request, Body
    <3>3. areq'[c] = q
      BY <3>2, ServeStarts
    <3>4. q.id = call.id /\ q.row.tenant = Agent.tenant /\ q.row.input = setup.input
      BY <3>1 DEF NewApproval, Body
    <3>5. calls \in 1..calls /\ call.id = NewIds[calls] /\ Left(calls)
      BY <3>2 DEF AgentInv, CallInv
    <3>6. Announced(call.id)
      BY <3>5 DEF Announced
    <3>7. QED
      BY <1>1, <1>5, <3>3, <3>4, <3>6 DEF IsAgents
  <2>3. QED
    BY <1>8, <2>1, <2>2, InsertsArePosts
<1>9. QED
  BY <1>7, <1>8 DEF AskedInv, IsAgents, Announced

-----------------------------------------------------------------------------
(* The engine's decision and the agent's verdict.                          *)

\* What the engine finds is a result of some rule, or allows everything.
LEMMA RawIsResult ==
    ASSUME setup \in Scenarios
    PROVE  RawResult \in Result
<1>1. AllowAll \in Result
  BY DEF AllowAll, Result
<1>2. PICK files, id, input : files = setup.files /\ id = setup.policy /\ input = setup.input
  OBVIOUS
<1>3. /\ Len(files) \in Nat
      /\ \A i \in 1..Len(files) :
            /\ Len(files[i].rules) \in Nat
            /\ \A j \in 1..Len(files[i].rules) : files[i].rules[j].result \in Result
  BY <1>2, GovernanceRules
<1>4. RawResult = Raw(Load(files), id, input)
  BY <1>2 DEF RawResult
<1>5. CASE id \notin DOMAIN Load(files)
  BY <1>1, <1>4, <1>5 DEF Raw
<1>6. CASE id \in DOMAIN Load(files)
  <2>. DEFINE T == {i \in 1..Len(files) : files[i].id = id}
              IsLast(i) == files[i].id = id /\ \A j \in 1..Len(files) : files[j].id = id => j <= i
  <2>1. DOMAIN Load(files) = {files[i].id : i \in 1..Len(files)}
    BY DEF Load
  <2>2. T # {} /\ T \in SUBSET (0..Len(files))
    BY <1>6, <2>1
  <2>3. \E n \in T : \A m \in T : m <= n
    <3>. HIDE DEF T
    <3>. QED
      BY <1>3, <2>2, GreatestNumber
  <2>4. \E i \in 1..Len(files) : IsLast(i)
    BY <2>3
  <2>5. PICK last : last = CHOOSE i \in 1..Len(files) : IsLast(i)
    OBVIOUS
  <2>6. last \in 1..Len(files)
    <3>. HIDE DEF IsLast
    <3>. QED
      BY <2>4, <2>5
  <2>7. Load(files)[id] = files[last].rules
    BY <1>6, <2>1, <2>5 DEF Load
  <2>8. PICK rules : rules = Load(files)[id]
    OBVIOUS
  <2>9. Len(rules) \in Nat /\ \A j \in 1..Len(rules) : rules[j].result \in Result
    BY <1>3, <2>6, <2>7, <2>8
  <2>10. PICK hits : hits = {i \in 1..Len(rules) : Applies(rules[i], input)}
    OBVIOUS
  <2>11. Raw(Load(files), id, input) =
            IF hits = {} THEN AllowAll
            ELSE rules[CHOOSE i \in hits : \A j \in hits : i <= j].result
    BY <1>6, <2>8, <2>10 DEF Raw
  <2>12. CASE hits = {}
    BY <1>1, <1>4, <2>11, <2>12
  <2>13. CASE hits # {}
    <3>1. hits \in SUBSET Nat
      BY <2>9, <2>10
    <3>2. \E n \in hits : \A m \in hits : n <= m
      BY <2>13, <3>1, LeastNumber
    <3>3. (CHOOSE i \in hits : \A j \in hits : i <= j) \in hits
      BY <3>2
    <3>4. QED
      BY <1>4, <2>9, <2>10, <2>11, <2>13, <3>3
  <2>14. QED
    BY <2>12, <2>13
<1>7. QED
  BY <1>5, <1>6

\* The agent's verdict is the engine's decision, through the answer that mixes
\* both: it asks exactly when approval is required, blocks only what is denied
\* and lets pass only what is allowed, apart from a null.
LEMMA VerdictFollows ==
    ASSUME setup \in Scenarios
    PROVE  LET d == Decision(RawResult) IN
           /\ Verdict = "ask" => d.requires_approval
           /\ Verdict = "block" => ~d.allowed
           /\ Verdict = "allow" /\ RawResult.allowed # "null" =>
                 d.allowed /\ ~d.requires_approval /\ Passed(Told)
<1>1. PICK raw : raw = RawResult
  OBVIOUS
<1>2. raw \in Result
  BY <1>1, RawIsResult
<1>3. PICK a, r \in {"true", "false", "null", "absent"} : a = raw.allowed /\ r = raw.requires_approval
  BY <1>2 DEF Result, Unset
<1>4. /\ Decision(raw).allowed <=> a \in {"true", "absent"}
      /\ Decision(raw).requires_approval <=> r = "true"
  <2>1. Truth(a, TRUE) <=> a \in {"true", "absent"}
    BY DEF Truth, Unset
  <2>2. Truth(r, FALSE) <=> r = "true"
    BY DEF Truth, Unset
  <2>3. Decision(raw).allowed = Truth(a, TRUE) /\ Decision(raw).requires_approval = Truth(r, FALSE)
    BY <1>3 DEF Decision
  <2>4. QED
    BY <2>1, <2>2, <2>3
<1>5. /\ Told.allowed = IF a = "absent" THEN "true" ELSE a
      /\ Told.requires_approval = IF r = "absent" THEN "false" ELSE r
  BY <1>1, <1>3, <1>4 DEF Told, Answer, Unset
<1>6. /\ Verdict = "ask" => r = "true"
      /\ Verdict = "block" => a = "false"
      /\ Verdict = "allow" /\ a # "null" => a \in {"true", "absent"} /\ r # "true"
  BY <1>3, <1>5 DEF Verdict, Enforcement, Truth, Unset
<1>7. Verdict = "allow" /\ a # "null" => Passed(Told)
  BY <1>3, <1>5, <1>6 DEF Passed, Truth, Unset
<1>8. QED
  BY <1>1, <1>3, <1>4, <1>6, <1>7

-----------------------------------------------------------------------------
(* Theorems.                                                               *)

\* The invariant holds in every reachable state: rows and the decisions at work
\* on them, the events, the call in progress, what was asked and what was told.
THEOREM GovernanceInvariant == GovernanceSpec => []GovernanceInv
<1>1. GovernanceInit => GovernanceInv
  <2>. SUFFICES ASSUME GovernanceInit PROVE GovernanceInv
    OBVIOUS
  <2>1. ServiceInv
    BY DEF GovernanceInit, ApprovalsInit, NoServe, ServiceInv, InsertInv, UpdateInv
  <2>2. InSeq(buffer) = {} /\ InSeq(delivered) = {} /\ InSeq(outcomes) = {}
    BY InSeqEmpty DEF GovernanceInit
  <2>3. /\ buffer \in Seq(Buffered) /\ delivered \in Seq(Delivered)
        /\ outcomes \in Seq(ApprovalIds \cup {"allowed", "blocked", "error"})
    BY DEF GovernanceInit
  <2>4. EventsInv /\ OutcomesInv
    BY <2>2, <2>3 DEF EventsInv, OutcomesInv
  <2>5. CallInv
    BY GovernanceBounds DEF GovernanceInit, CallInv, NoCall
  <2>6. AskedInv
    BY DEF GovernanceInit, ApprovalsInit, NoServe, AskedInv
  <2>7. QED
    BY <2>1, <2>4, <2>5, <2>6 DEF GovernanceInv
<1>2. GovernanceInv /\ [GovernanceNext]_<<avars, gvars>> => GovernanceInv'
  <2>1. ASSUME GovernanceInv, GovernanceNext PROVE GovernanceInv'
    <3>1. ServiceInv /\ AgentInv /\ AskedInv
      BY <2>1 DEF GovernanceInv, AgentInv
    <3>2. ServiceInv' /\ AgentInv' /\ AskedInv'
      BY <2>1, <3>1, StepsOfService, ServiceKeeps, AgentKeeps, AskedKeeps
    <3>3. QED
      BY <3>2 DEF GovernanceInv, AgentInv
  <2>2. ASSUME GovernanceInv, UNCHANGED <<avars, gvars>> PROVE GovernanceInv'
    <3>1. ServiceInv /\ AgentInv /\ AskedInv
      BY <2>2 DEF GovernanceInv, AgentInv
    <3>2. /\ UNCHANGED <<setup, call, buffer, delivered, outcomes, calls>>
          /\ UNCHANGED <<approvals, areq>>
      BY <2>2 DEF avars, gvars
    <3>3. ServiceInv' /\ AgentInv'
      BY <2>2, <3>1, <3>2, ServiceUnchanged, StayKeeps
    <3>4. AskedInv'
      BY <3>1, <3>2 DEF AskedInv, IsAgents, Announced, Left, Announces, Agent
    <3>5. QED
      BY <3>3, <3>4 DEF GovernanceInv, AgentInv
  <2>3. QED
    BY <2>1, <2>2
<1>3. QED
  BY <1>1, <1>2, PTL DEF GovernanceSpec

\* Status, reviewer and time of a row are those of one decision, whatever
\* decisions failed or came again, unless two were at work at once.
THEOREM DecisionsAreWhole == GovernanceSpec => []DecisionWhole
<1>1. GovernanceInv => DecisionWhole
  BY DEF GovernanceInv, ServiceInv, RowInv, Carries, Decided, DecisionWhole
<1>2. QED
  BY <1>1, GovernanceInvariant, PTL

\* No step of the service takes a row away, changes tenant, run or input, or
\* makes a decided approval pending again.
THEOREM ApprovalsAreKept == GovernanceSpec => ApprovalsKept
<1>. DEFINE Kept == \A a \in DOMAIN approvals :
                       /\ a \in DOMAIN approvals'
                       /\ \A f \in {"tenant", "run_id", "input"} : approvals'[a][f] = approvals[a][f]
                       /\ approvals[a].status # "requested" => approvals'[a].status # "requested"
<1>1. GovernanceInv /\ [GovernanceNext]_<<avars, gvars>> => [Kept]_avars
  <2>1. ASSUME GovernanceInv, GovernanceNext PROVE Kept
    <3>1. ServiceInv /\ ServiceStep
      BY <2>1, StepsOfService DEF GovernanceInv
    <3>2. QED
      BY <3>1, ServiceKeepsRows DEF Given
  <2>2. QED
    BY <2>1
<1>2. QED
  BY <1>1, GovernanceInvariant, PTL DEF GovernanceSpec, ApprovalsKept

\* An agent that was told to wait finds its approval stored, for its tenant and
\* input, pending or decided by somebody; and unless the client drops events it
\* cannot send, the one that asks for it has left the agent before the approval
\* is stored.
THEOREM AskedIsAnswerable == GovernanceSpec => []AskedIsStored
<1>1. ASSUME GovernanceInv PROVE AskedIsStored
  <2>1. ASSUME NEW a \in Asked
        PROVE  /\ a \in DOMAIN approvals
               /\ approvals[a].tenant = Agent.tenant
               /\ approvals[a].input = setup.input
               /\ a \in pending(Agent.tenant) \/ \E d \in decisions : d.id = a
    <3>1. a \in InSeq(outcomes) /\ a \in ApprovalIds
      BY <2>1 DEF Asked, InSeq
    <3>2. a \in DOMAIN approvals
      BY <1>1, <3>1 DEF GovernanceInv, OutcomesInv, OutcomeOK
    <3>3. IsAgents(approvals[a]) /\ RowInv(a)
      BY <1>1, <3>2 DEF GovernanceInv, AskedInv, ServiceInv
    <3>4. QED
      BY <3>2, <3>3 DEF IsAgents, RowInv, pending
  <2>2. ASSUME setup.on_failure # "drop", NEW n \in 1..calls, NewIds[n] \in DOMAIN approvals
        PROVE  \E i \in 1..Len(delivered) : delivered[i].type = "approval.requested" /\ delivered[i].call = n
    <3>1. PICK m \in 1..calls : NewIds[n] = NewIds[m] /\ Announces(delivered, m)
      BY <1>1, <2>2 DEF GovernanceInv, AskedInv, Announced, Left
    <3>2. m \in 1..MaxCalls /\ n \in 1..MaxCalls
      BY <1>1, GovernanceBounds DEF GovernanceInv, CallInv
    <3>3. m = n
      BY <3>1, <3>2, GovernanceIds
    <3>4. QED
      BY <3>1, <3>3 DEF Announces, InSeq
  <2>3. QED
    BY <2>1, <2>2 DEF AskedIsStored, AnnouncedBeforeStored
<1>2. QED
  BY <1>1, GovernanceInvariant, PTL

\* The agent does what the engine decided, for every set of policy files and
\* every input: what passes was allowed, what is blocked was denied, and the
\* events agree.
THEOREM EnforcementIsDecision == GovernanceSpec => []EnforcementFollowsDecision
<1>1. ASSUME GovernanceInv, RawResult.allowed # "null"
      PROVE  LET d == Decision(RawResult) IN
             /\ "allowed" \in {outcomes[i] : i \in 1..Len(outcomes)} => d.allowed /\ ~d.requires_approval
             /\ "blocked" \in {outcomes[i] : i \in 1..Len(outcomes)} => ~d.allowed
             /\ Recorded("enforcement.allowed") => ~Recorded("check.failed")
             /\ Asked # {} => d.requires_approval
  <2>1. PICK d : d = Decision(RawResult)
    OBVIOUS
  <2>2. /\ Verdict = "ask" => d.requires_approval
        /\ Verdict = "block" => ~d.allowed
        /\ Verdict = "allow" => d.allowed /\ ~d.requires_approval /\ Passed(Told)
    BY <1>1, <2>1, VerdictFollows DEF GovernanceInv, CallInv
  <2>3. \A o \in {outcomes[i] : i \in 1..Len(outcomes)} : OutcomeOK(o)
    BY <1>1 DEF GovernanceInv, OutcomesInv, InSeq
  <2>4. ASSUME NEW type, Recorded(type)
        PROVE  \E e : Truthful(e) /\ e.type = type
    <3>1. PICK B : B = Buffered \cup Delivered
      OBVIOUS
    <3>2. buffer \in Seq(B) /\ delivered \in Seq(B)
      BY <1>1, <3>1 DEF GovernanceInv, EventsInv
    <3>3. PICK both : both = buffer \o delivered
      OBVIOUS
    <3>4. InSeq(both) = InSeq(buffer) \cup InSeq(delivered)
      BY <3>2, <3>3, InSeqConcat
    <3>5. PICK i \in 1..Len(both) : both[i].type = type
      BY <2>4, <3>3 DEF Recorded
    <3>6. both[i] \in InSeq(buffer) \cup InSeq(delivered)
      BY <3>4 DEF InSeq
    <3>7. QED
      BY <1>1, <3>5, <3>6 DEF GovernanceInv, EventsInv
  <2>5. Recorded("enforcement.allowed") => ~Recorded("check.failed")
    BY <2>2, <2>4 DEF Truthful
  <2>6. Asked # {} => d.requires_approval
    BY <2>2, <2>3 DEF Asked, OutcomeOK
  <2>7. QED
    BY <2>1, <2>2, <2>3, <2>5, <2>6 DEF OutcomeOK
<1>2. GovernanceInv => EnforcementFollowsDecision
  BY <1>1 DEF EnforcementFollowsDecision
<1>3. QED
  BY <1>2, GovernanceInvariant, PTL
=============================================================================
