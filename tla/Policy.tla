------------------------------- MODULE Policy -------------------------------
(***************************************************************************)
(* The policy engine (services/collector/.../policy/engine.py), the answer *)
(* of POST /v1/policy/check, and what the SDK makes of it                  *)
(* (Run.policy_check, Run.enforce_policy).  Reasons, versions and hashes   *)
(* of policies are left out.                                               *)
(*                                                                         *)
(* An input is a dictionary of JSON values.  A rule is a record [default,  *)
(* when, result]; when is a set of tests [key, op, arg], result a record   *)
(* whose fields allowed and requires_approval may be "absent", "null" (the *)
(* null of YAML, or another false value that is no Boolean), "true" or     *)
(* "false".                                                                *)
(***************************************************************************)
EXTENDS Json

Unset == "absent"

\* What the result of a rule may be in a file.
Result == LET Field == {"true", "false", "null", Unset}
          IN  [allowed : Field, requires_approval : Field]

-----------------------------------------------------------------------------
(* Loading.                                                                *)

\* _load: the files in the order of their names; a later file replaces an
\* earlier one with the same policy_id.
Load(files) ==
    [id \in {files[i].id : i \in 1..Len(files)} |->
        LET last == CHOOSE i \in 1..Len(files) :
                        files[i].id = id /\ \A j \in 1..Len(files) : files[j].id = id => j <= i
        IN  files[last].rules]

-----------------------------------------------------------------------------
(* Evaluation.                                                             *)

\* input_data.get(key).
Actual(input, key) == IF key \in DOMAIN input.items THEN input.items[key] ELSE Null

\* One test of a condition.  Comparisons fail for a value that is no number.
Test(t, v) ==
    CASE t.op = "eq"  -> v = t.arg
      [] t.op = "ne"  -> v # t.arg
      [] t.op = "in"  -> v \in t.arg
      [] t.op = "not_in" -> v \notin t.arg
      [] t.op = "gt"  -> v.kind = "num" /\ v.num > t.arg.num
      [] t.op = "gte" -> v.kind = "num" /\ v.num >= t.arg.num
      [] t.op = "lt"  -> v.kind = "num" /\ v.num < t.arg.num
      [] t.op = "lte" -> v.kind = "num" /\ v.num <= t.arg.num

Match(when, input) == \A t \in when : Test(t, Actual(input, t.key))

Applies(rule, input) == rule.default \/ Match(rule.when, input)

AllowAll == [allowed |-> "true", requires_approval |-> "false"]

\* evaluate: the result of the first rule that applies, as it stands in the file.
Raw(policies, id, input) ==
    IF id \notin DOMAIN policies THEN AllowAll
    ELSE LET rules == policies[id]
             hits  == {i \in 1..Len(rules) : Applies(rules[i], input)}
         IN  IF hits = {} THEN AllowAll
             ELSE rules[CHOOSE i \in hits : \A j \in hits : i <= j].result

\* bool() of a field, with the default of result.get.
Truth(v, default) == IF v = Unset THEN default ELSE v = "true"

\* _wrap: the decision of the engine.
Decision(raw) == [allowed |-> Truth(raw.allowed, TRUE),
                  requires_approval |-> Truth(raw.requires_approval, FALSE)]

\* The result in the answer: the fields of the decision, overwritten by those
\* that the rule's result has.
Answer(raw) ==
    [f \in {"allowed", "requires_approval"} |->
        IF raw[f] # Unset THEN raw[f] ELSE IF Decision(raw)[f] THEN "true" ELSE "false"]

-----------------------------------------------------------------------------
(* The SDK.                                                                *)

\* policy_check: which of the two events is emitted.
Passed(answer) == Truth(answer.allowed, TRUE) \/ Truth(answer.requires_approval, FALSE)

\* A mistake: an answer that asks for approval and allows goes through.
EnforcementAllowedFirst(answer) ==
    IF answer.allowed = "true" THEN "allow"
    ELSE IF Truth(answer.requires_approval, FALSE) THEN "ask" ELSE "block"

\* enforce_policy: blocked only if allowed "is False".
Enforcement(answer) ==
    IF answer.allowed = "false" /\ ~Truth(answer.requires_approval, FALSE) THEN "block"
    ELSE IF Truth(answer.requires_approval, FALSE) THEN "ask" ELSE "allow"
=============================================================================
