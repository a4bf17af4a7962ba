----------------------------- MODULE Governance -----------------------------
(***************************************************************************)
(* An agent that asks the policy engine before it acts (Run.enforce_policy *)
(* and Run.request_approval of the Python SDK), against the policy engine  *)
(* and the approvals service of the collector, while reviewers decide.     *)
(*                                                                         *)
(* Requests fail, and a request whose answer is lost is sent again while a *)
(* replica may still be serving it.  The flush before an approval is       *)
(* requested ends as module Sdk says: the events are delivered (posted or  *)
(* spooled), or a client without a spool that fails open drops them and    *)
(* goes on, or the call raises and they stay in the buffer.                *)
(*                                                                         *)
(* What the SDK and the collector make of a payload is a parameter here:   *)
(* module GovernedPayloads gives the walks of module Redaction for it.     *)
(***************************************************************************)
EXTENDS Policy, Approvals

CONSTANTS
    Capture(_, _, _),   \* the payload of an envelope, by capture mode, payload and rules
    Keep(_, _),         \* what the collector stores of a payload, by its rules
    RunId,
    Scenarios,      \* [key, files, policy, input, rules, collector_rules, mode, on_failure]
    NewIds,         \* the ids generate_approval_id returns, in turn
    MaxRetries,     \* attempts of one request
    MaxCalls,       \* bound: calls of enforce_policy
    MaxFail         \* bound: failures outside of the agent

\* Ids are random: none comes twice, and none is the word for another outcome.
ASSUME GovernanceIds ==
    /\ NewIds \in [1..MaxCalls -> ApprovalIds]
    /\ \A m, n \in 1..MaxCalls : NewIds[m] = NewIds[n] => m = n
    /\ ApprovalIds \cap {"allowed", "blocked", "error"} = {}
ASSUME GovernanceKeys == \A s \in Scenarios : s.key \in Principals
ASSUME GovernanceRules ==
    \A s \in Scenarios :
        /\ Len(s.files) \in Nat
        /\ \A i \in 1..Len(s.files) :
              /\ Len(s.files[i].rules) \in Nat
              /\ \A j \in 1..Len(s.files[i].rules) : s.files[i].rules[j].result \in Result
ASSUME GovernanceBounds == {MaxRetries, MaxCalls, MaxFail} \subseteq Nat

VARIABLES
    setup,      \* the scenario: API key, policies, input of the calls, redaction
                \* rules, and what the client does with events it cannot send
    call,       \* the call of enforce_policy the agent is in
    buffer,     \* Run._buffer
    delivered,  \* events that have left the agent, as the collector stores them
    outcomes,   \* how each call ended (history)
    calls, fails

gvars == <<setup, call, buffer, delivered, outcomes, calls, fails>>

NoCall == [pc |-> "idle"]
Agent == setup.key

GovernanceInit ==
    /\ ApprovalsInit
    /\ setup \in Scenarios
    /\ call = NoCall /\ buffer = <<>> /\ delivered = <<>>
    /\ outcomes = <<>> /\ calls = 0 /\ fails = 0

-----------------------------------------------------------------------------
(* The SDK.                                                                *)

\* _emit, for the payloads of policy and approval events; a full buffer is not
\* reached here.
Payload == Dict([input |-> setup.input, policy_id |-> Str(setup.policy)])
Event(type) ==
    [type |-> type, call |-> calls, payload |-> Capture(setup.mode, Payload, setup.rules)]
Emit(type) == buffer' = Append(buffer, Event(type))

\* The call returns or raises.
End(outcome) ==
    /\ call' = NoCall
    /\ outcomes' = Append(outcomes, outcome)

\* The engine's view of the call.
RawResult == Raw(Load(setup.files), setup.policy, setup.input)

\* policy_check: POST /v1/policy/check, and the event about its answer.
policy_check ==
    /\ call.pc = "idle" /\ calls < MaxCalls
    /\ HasScope(Agent, "policies", "read")
    /\ calls' = calls + 1
    /\ LET answer == Answer(RawResult)
       IN  /\ buffer' = Append(buffer, [Event(IF Passed(answer) THEN "check.passed" ELSE "check.failed")
                                            EXCEPT !.call = calls'])
           /\ call' = [pc |-> "enforce", answer |-> answer]
    /\ UNCHANGED <<setup, delivered, outcomes, fails, avars>>

\* The key has no scope for policies, or every attempt fails: the call raises,
\* with fail_open too.
CheckRaises ==
    /\ call.pc = "idle" /\ calls < MaxCalls
    /\ IF HasScope(Agent, "policies", "read") THEN fails < MaxFail /\ fails' = fails + 1 ELSE UNCHANGED fails
    /\ calls' = calls + 1
    /\ End("error")
    /\ UNCHANGED <<setup, buffer, delivered, avars>>

\* enforce_policy, once the answer is there: blocked and PolicyDeniedError, a
\* request for approval, or allowed.
enforce_policy ==
    /\ call.pc = "enforce"
    /\ LET verdict == Enforcement(call.answer)
       IN  \/ verdict = "block" /\ Emit("enforcement.blocked") /\ End("blocked")
           \/ verdict = "allow" /\ Emit("enforcement.allowed") /\ End("allowed")
           \/ /\ verdict = "ask" /\ Emit("approval.requested")
              /\ call' = [pc |-> "flush", id |-> NewIds[calls]]
              /\ UNCHANGED outcomes
    /\ UNCHANGED <<setup, delivered, calls, fails, avars>>

\* The events leave the buffer, and the collector stores them.
Deliver ==
    /\ delivered' = delivered \o [i \in 1..Len(buffer) |->
                              [buffer[i] EXCEPT !.payload = Keep(@, setup.collector_rules)]]
    /\ buffer' = <<>>

\* request_approval goes on to its request.
StartPost == call' = [pc |-> "post", id |-> call.id, tries |-> MaxRetries]

\* A mistake: the approval is requested although the flush has failed.
FlushIgnored ==
    /\ call.pc = "flush"
    /\ \/ Deliver /\ UNCHANGED fails
       \/ fails < MaxFail /\ fails' = fails + 1 /\ UNCHANGED <<buffer, delivered>>
    /\ StartPost
    /\ UNCHANGED <<setup, outcomes, calls, avars>>

\* The flush of request_approval, as a whole: the events are delivered, or
\* dropped, or the call raises.
Flush ==
    /\ call.pc = "flush"
    /\ \/ Deliver /\ StartPost /\ UNCHANGED <<outcomes, fails>>
       \/ /\ fails < MaxFail /\ fails' = fails + 1
          /\ setup.on_failure = "drop"
          /\ buffer' = <<>> /\ StartPost
          /\ UNCHANGED <<delivered, outcomes>>
       \/ /\ fails < MaxFail /\ fails' = fails + 1
          /\ End("error")
          /\ UNCHANGED <<buffer, delivered>>
    /\ UNCHANGED <<setup, calls, avars>>

-----------------------------------------------------------------------------
(* POST /v1/approvals/request.                                             *)

Body(id) == [approval_id |-> id, run_id |-> RunId, input |-> setup.input]

\* An attempt reaches a replica, which finds no row and goes on to insert it.
Post(c) ==
    /\ call.pc = "post" /\ call.tries > 0
    /\ request(c, Agent, Body(call.id))
    /\ call' = [call EXCEPT !.pc = "await", !.tries = call.tries - 1]
    /\ UNCHANGED <<setup, buffer, delivered, outcomes, calls, fails>>

\* An attempt finds the row and is answered with it: ApprovalRequiredError.
PostExisting(c) ==
    /\ call.pc = "post" /\ call.tries > 0
    /\ areq[c].pc = "idle" /\ HasScope(Agent, "approvals", "review")
    /\ call.id \in DOMAIN approvals
    /\ End(call.id)
    /\ UNCHANGED <<setup, buffer, delivered, calls, fails, avars>>

\* The replica commits.  A client that still waits is answered, with status 500
\* and so a further attempt if the row was there.
Stored(c) ==
    /\ InsertApproval(c)
    /\ IF call.pc = "await" /\ call.id = areq[c].id /\ areq[c].id \notin DOMAIN approvals
       THEN End(call.id)
       ELSE /\ call' = IF call.pc = "await" /\ call.id = areq[c].id THEN [call EXCEPT !.pc = "post"] ELSE call
            /\ UNCHANGED outcomes
    /\ UNCHANGED <<setup, buffer, delivered, calls, fails>>

\* A timeout: the client gives the attempt up, the replica does not know.
AttemptTimesOut ==
    /\ call.pc = "await"
    /\ fails < MaxFail /\ fails' = fails + 1
    /\ call' = [call EXCEPT !.pc = "post"]
    /\ UNCHANGED <<setup, buffer, delivered, outcomes, calls, avars>>

\* No attempt is left, or the key has no scope for approvals: the call raises.
PostRaises ==
    /\ call.pc = "post"
    /\ call.tries = 0 \/ ~HasScope(Agent, "approvals", "review")
    /\ End("error")
    /\ UNCHANGED <<setup, buffer, delivered, calls, fails, avars>>

\* A replica dies or its session fails; a waiting client makes another attempt.
ReplicaFails(c) ==
    /\ fails < MaxFail /\ fails' = fails + 1
    /\ ServeFails(c)
    /\ call' = IF areq[c].pc = "insert" /\ call.pc = "await" /\ call.id = areq[c].id
               THEN [call EXCEPT !.pc = "post"] ELSE call
    /\ UNCHANGED <<setup, buffer, delivered, outcomes, calls>>

-----------------------------------------------------------------------------
AgentStep == policy_check \/ CheckRaises \/ enforce_policy \/ Flush \/ AttemptTimesOut \/ PostRaises

ReviewerStep(c) ==
    /\ \/ UpdateApproval(c)
       \/ \E p \in Principals, a \in ApprovalIds, s \in {"approved", "rejected"}, w \in Reviewers :
             decide(c, p, a, s, w)
    /\ UNCHANGED gvars

GovernanceNext ==
    \/ AgentStep
    \/ \E c \in Replicas : Post(c) \/ PostExisting(c) \/ Stored(c) \/ ReplicaFails(c) \/ ReviewerStep(c)

GovernanceSpec == GovernanceInit /\ [][GovernanceNext]_<<avars, gvars>>

-----------------------------------------------------------------------------
(* Properties.                                                             *)

Asked == {outcomes[i] : i \in 1..Len(outcomes)} \cap ApprovalIds
Recorded(type) == \E i \in 1..Len(buffer \o delivered) : (buffer \o delivered)[i].type = type

\* An agent goes on only if the engine allowed it and wants no approval, and is
\* told "denied" only if the engine denied, whatever requests fail or are
\* repeated; the events say the same.  (Not for a rule whose allowed is a false
\* value other than "false": the engine counts it as denied, the answer repeats
\* it as it is, and the SDK looks for False.)
EnforcementFollowsDecision ==
    LET d == Decision(RawResult)
    IN  RawResult.allowed # "null" =>
            /\ "allowed" \in {outcomes[i] : i \in 1..Len(outcomes)} => d.allowed /\ ~d.requires_approval
            /\ "blocked" \in {outcomes[i] : i \in 1..Len(outcomes)} => ~d.allowed
            /\ Recorded("enforcement.allowed") => ~Recorded("check.failed")
            /\ Asked # {} => d.requires_approval

\* "Flush so the dashboard can pick up the request before the API call": no
\* approval is stored before the event that asks for it has left the agent.
AnnouncedBeforeStored ==
    \A n \in 1..calls : NewIds[n] \in DOMAIN approvals =>
        \E i \in 1..Len(delivered) : delivered[i].type = "approval.requested" /\ delivered[i].call = n

\* An agent that is told to wait for an approval can be answered, whatever
\* requests fail: the approval is stored for its tenant with its input and is
\* pending until somebody decides it.  And unless the client drops what it cannot
\* send, the event that asks for it has left the agent before it is stored.
AskedIsStored ==
    /\ \A a \in Asked : /\ a \in DOMAIN approvals
                        /\ approvals[a].tenant = Agent.tenant
                        /\ approvals[a].input = setup.input
                        /\ a \in pending(Agent.tenant) \/ \E d \in decisions : d.id = a
    /\ setup.on_failure # "drop" => AnnouncedBeforeStored
=============================================================================
