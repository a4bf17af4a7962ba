----------------------------- MODULE Approvals ------------------------------
(***************************************************************************)
(* The approvals service (approvals.py and its routes in app.py) on        *)
(* PostgreSQL, served by several replicas.  A replica works on one request *)
(* at a time; a request reads its row, and writes at the end of its        *)
(* session, when others may have written in between (READ COMMITTED).      *)
(***************************************************************************)
EXTENDS Naturals, FiniteSets

CONSTANTS
    Replicas,
    ApprovalIds,
    Principals,     \* API keys: [tenant, scopes]
    Reviewers, NoReviewer,
    MaxDecisions    \* bound: decisions taken up

ASSUME ApprovalsNone == NoReviewer \notin Reviewers
ASSUME ApprovalsBounds == MaxDecisions \in Nat

VARIABLES
    approvals,      \* the approvals table
    areq,           \* the request each replica is serving
    decisions,      \* decisions taken up: [id, status, reviewer_id, decided_at] (history)
    crossed         \* approvals that had two decisions at work at once (history)

avars == <<approvals, areq, decisions, crossed>>

NoServe == [pc |-> "idle"]

ApprovalsInit ==
    /\ approvals = [a \in {} |-> 0]
    /\ areq = [c \in Replicas |-> NoServe]
    /\ decisions = {}
    /\ crossed = {}

-----------------------------------------------------------------------------
(* auth.py.                                                                *)

\* require_scope: the grant names the action, or stands for every action.
HasScope(p, resource, action) ==
    /\ resource \in DOMAIN p.scopes
    /\ \/ p.scopes[resource] \in {"write", "*", action}
       \/ p.scopes[resource] = "read" /\ action = "read"

-----------------------------------------------------------------------------
(* request.                                                                *)

NewApproval(p, body) ==
    [tenant |-> p.tenant, run_id |-> body.run_id, input |-> body.input,
     status |-> "requested", reviewer_id |-> NoReviewer, decided_at |-> 0]

\* session.get finds nothing; the row is added to the session.  A row that is
\* there is the answer, as it is (see Governance).
request(c, p, body) ==
    /\ areq[c].pc = "idle"
    /\ HasScope(p, "approvals", "review")
    /\ body.approval_id \notin DOMAIN approvals
    /\ areq' = [areq EXCEPT ![c] = [pc |-> "insert", id |-> body.approval_id, row |-> NewApproval(p, body)]]
    /\ UNCHANGED <<approvals, decisions, crossed>>

WithRow(id, row) == [a \in DOMAIN approvals \cup {id} |-> IF a = id THEN row ELSE approvals[a]]

\* A mistake: an upsert instead of an INSERT.
InsertReplaces(c) ==
    /\ areq[c].pc = "insert"
    /\ approvals' = WithRow(areq[c].id, areq[c].row)
    /\ areq' = [areq EXCEPT ![c] = NoServe]
    /\ UNCHANGED <<decisions, crossed>>

\* The INSERT at commit; the primary key refuses a row that another replica has
\* stored in the meantime, and the request fails.
InsertApproval(c) ==
    /\ areq[c].pc = "insert"
    /\ approvals' = IF areq[c].id \in DOMAIN approvals THEN approvals
                    ELSE WithRow(areq[c].id, areq[c].row)
    /\ areq' = [areq EXCEPT ![c] = NoServe]
    /\ UNCHANGED <<decisions, crossed>>

-----------------------------------------------------------------------------
(* decide, for the routes approve and reject.                              *)

\* Reads the row, whatever its status is, and changes the object.
decide(c, p, id, status, reviewer) ==
    LET at == Cardinality(decisions) + 1
    IN  /\ areq[c].pc = "idle" /\ at <= MaxDecisions
        /\ HasScope(p, "approvals", "review")
        /\ id \in DOMAIN approvals /\ approvals[id].tenant = p.tenant
        /\ areq' = [areq EXCEPT ![c] =
              [pc |-> "update", id |-> id, base |-> approvals[id],
               row |-> [approvals[id] EXCEPT !.status = status, !.reviewer_id = reviewer, !.decided_at = at]]]
        /\ decisions' = decisions \cup {[id |-> id, status |-> status, reviewer_id |-> reviewer, decided_at |-> at]}
        /\ crossed' = IF \E d \in Replicas : areq[d].pc = "update" /\ areq[d].id = id
                      THEN crossed \cup {id} ELSE crossed
        /\ UNCHANGED approvals

\* A mistake: only an undecided row gets its reviewer.
UpdateFirstReviewer(c) ==
    LET q == areq[c]
    IN  /\ q.pc = "update"
        /\ approvals' = WithRow(q.id, [q.row EXCEPT !.reviewer_id =
                            IF q.base.status = "requested" THEN q.row.reviewer_id ELSE q.base.reviewer_id])
        /\ areq' = [areq EXCEPT ![c] = NoServe]
        /\ UNCHANGED <<decisions, crossed>>

\* The UPDATE at commit, of the columns whose value differs from what was read.
UpdateApproval(c) ==
    LET q == areq[c]
    IN  /\ q.pc = "update"
        /\ approvals' = WithRow(q.id, [f \in DOMAIN q.row |->
                            IF q.row[f] = q.base[f] THEN approvals[q.id][f] ELSE q.row[f]])
        /\ areq' = [areq EXCEPT ![c] = NoServe]
        /\ UNCHANGED <<decisions, crossed>>

\* pending: what the reviewers of a tenant are shown.
pending(t) == {a \in DOMAIN approvals : approvals[a].tenant = t /\ approvals[a].status = "requested"}

\* The session fails or the replica dies.
ServeFails(c) ==
    /\ areq[c].pc # "idle"
    /\ areq' = [areq EXCEPT ![c] = NoServe]
    /\ UNCHANGED <<approvals, decisions, crossed>>

-----------------------------------------------------------------------------
(* Properties.                                                             *)

\* What a row says of its decision is one decision: status, reviewer and time
\* are those of a call that a reviewer made, however often the approval was
\* decided and whatever calls failed in between.  (Not if two decisions of it
\* were at work at the same time: columns that a call leaves as they were
\* come from the other one.)
DecisionWhole ==
    \A a \in DOMAIN approvals \ crossed :
        approvals[a].status # "requested" =>
            \E d \in decisions : /\ d.id = a
                                 /\ \A f \in {"status", "reviewer_id", "decided_at"} : d[f] = approvals[a][f]

\* Requests that are retried, also by a replica that was slow, leave a row as it
\* is: it keeps tenant, run and input, and a decided approval is never pending again.
ApprovalsKept ==
    [][\A a \in DOMAIN approvals :
          /\ a \in DOMAIN approvals'
          /\ \A f \in {"tenant", "run_id", "input"} : approvals'[a][f] = approvals[a][f]
          /\ approvals[a].status # "requested" => approvals'[a].status # "requested"]_avars
=============================================================================
