--------------------------- MODULE MC_Governance ----------------------------
(* Instances of policies, approvals and redaction for TLC.                  *)
EXTENDS GovernedPayloads, TLC

CONSTANTS c1, c2, a1, a2, w1, w2

MCNewIds == <<a1, a2>>

\* The scopes of the bootstrap key; a key of another tenant; a key that may ask
\* for policies only; a key without scopes.
Full     == [tenant |-> "t1", scopes |-> [policies |-> "read", approvals |-> "review"]]
Other    == [tenant |-> "t2", scopes |-> [policies |-> "*", approvals |-> "write"]]
ReadOnly == [tenant |-> "t1", scopes |-> [policies |-> "read", approvals |-> "read"]]
NoScopes == [tenant |-> "t1", scopes |-> [events |-> "write"]]

MCPrincipals == {Full, Other, ReadOnly, NoScopes}

Rule(when, a, r) == [default |-> FALSE, when |-> when, result |-> [allowed |-> a, requires_approval |-> r]]
Default(a, r)    == [default |-> TRUE, when |-> {}, result |-> [allowed |-> a, requires_approval |-> r]]

\* deploy/policies/refund_requires_approval.yaml, and variants of it in a second
\* file of the same policy: the results that rules may have.
Over(n) == {[key |-> "action", op |-> "eq", arg |-> Str("refund")], [key |-> "amount", op |-> "gt", arg |-> Num(n)]}
Refund(a, r) == [id |-> "refund", rules |-> <<Rule(Over(2), a, r), Default("true", "absent")>>]

Tests == [id |-> "tests", rules |->
    << Rule({[key |-> "amount", op |-> "lt", arg |-> Num(1)], [key |-> "action", op |-> "ne", arg |-> Str("x")]}, "true", "true"),
       Rule({[key |-> "amount", op |-> "lte", arg |-> Num(3)], [key |-> "amount", op |-> "gte", arg |-> Num(3)],
             [key |-> "action", op |-> "in", arg |-> {Str("refund")}],
             [key |-> "note", op |-> "not_in", arg |-> {Str("x")}]}, "false", "false") >>]

FileSets == { <<>>, <<Refund("false", "true")>>, <<Tests>>,
              <<Refund("true", "absent"), Refund("true", "true")>>,
              <<Refund("false", "true"), Refund("false", "absent")>>,
              <<Refund("null", "absent")>> }

\* The input of the calls: a nested dictionary, a list and two strings.
Input(n) == Dict([action |-> Str("refund"), amount |-> Num(n), note |-> Str("ssn 1"),
                  who |-> Dict([card |-> Str("4111"), tags |-> List(<<Str("ssn 2"), Num(7)>>)])])

R(field, regex, mode) == [field |-> field, regex |-> regex, mode |-> mode]

RuleSets == { <<R("card", {}, "hash"), R(NoField, {"ssn 1", "ssn 2"}, "redact")>>,
              <<R("who", {}, "drop"), R("note", {"4111"}, "redact")>>,
              <<R("who", {}, "redact")>> }

Modes == {"metadata_only", "redacted_payload", "full_payload", "self_hosted_payload"}

Base == [key |-> Full, files |-> <<Refund("false", "true")>>, policy |-> "refund", input |-> Input(3),
         rules |-> <<>>, collector_rules |-> <<>>, mode |-> "redacted_payload", on_failure |-> "raise"]

\* Keys, policies, redaction and the client's setting are varied one at a time
\* around an agent whose refund is above the threshold.
MCScenarios ==
    {[Base EXCEPT !.key = k] : k \in {Full, ReadOnly, NoScopes}}
    \cup {[Base EXCEPT !.on_failure = setting] : setting \in {"spool", "drop"}}
    \cup {[Base EXCEPT !.files = f, !.policy = p, !.input = Input(n)] :
            f \in FileSets, p \in {"refund", "tests"}, n \in {0, 2, 3}}
    \cup {[Base EXCEPT !.rules = rules, !.collector_rules = more, !.mode = m] :
            rules \in RuleSets, more \in RuleSets \cup {<<>>}, m \in Modes}

Symmetry == Permutations(Replicas) \cup Permutations(Reviewers)
=============================================================================
