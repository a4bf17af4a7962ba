----------------------------- MODULE Redaction ------------------------------
(***************************************************************************)
(* Payload redaction, in the SDK (sdk/python/controldb/redaction.py), in   *)
(* the collector (services/collector/.../redaction.py), and the payload of *)
(* an event in each capture mode (Run._build_envelope).                    *)
(*                                                                         *)
(* A rule is a record [field, regex, mode]: field is a key or NoField,     *)
(* regex the set of strings the expression is found in.  Digests of values *)
(* are strings that no expression is found in.  Callbacks are left out.    *)
(***************************************************************************)
EXTENDS Json, FiniteSets

CONSTANT NoField

\* The first of the rules at the positions in hits decides.
Deciding(rules, hits) ==
    IF hits = {} THEN {} ELSE {rules[CHOOSE i \in hits : \A j \in hits : i <= j]}

ForField(rules, key) == Deciding(rules, {i \in 1..Len(rules) : rules[i].field # NoField /\ rules[i].field = key})
ForText(rules, s)    == Deciding(rules, {i \in 1..Len(rules) : s \in rules[i].regex})

\* _apply_mode.
ApplyMode(v, mode) ==
    CASE mode = "drop" -> Null [] mode = "hash" -> Digest(v) [] mode = "redact" -> Str("<redacted>")

RECURSIVE RedactValue(_, _)

\* A mistake: a field with a rule is replaced only if it holds a plain value.
RedactPlainField(key, v, rules) ==
    IF ForField(rules, key) # {} /\ v.kind \notin {"dict", "list"}
    THEN ApplyMode(v, (CHOOSE rule \in ForField(rules, key) : TRUE).mode)
    ELSE RedactValue(v, rules)

\* _redact_field.
RedactField(key, v, rules) ==
    IF ForField(rules, key) # {}
    THEN ApplyMode(v, (CHOOSE rule \in ForField(rules, key) : TRUE).mode)
    ELSE RedactValue(v, rules)

\* _redact_value: a field that has a rule is replaced whole, whatever it holds;
\* other fields and the elements of lists are entered; a string is replaced by
\* the first expression that is found in it.
RedactValue(v, rules) ==
    CASE v.kind = "dict" -> Dict([k \in DOMAIN v.items |-> RedactField(k, v.items[k], rules)])
      [] v.kind = "list" -> List([i \in DOMAIN v.elems |-> RedactValue(v.elems[i], rules)])
      [] v.kind = "str" /\ ForText(rules, v.str) # {} ->
            ApplyMode(v, (CHOOSE rule \in ForText(rules, v.str) : TRUE).mode)
      [] OTHER -> v

\* _walk of the collector, which has the same rules in one function.
RECURSIVE Walk(_, _)
Walk(v, rules) ==
    CASE v.kind = "dict" ->
            Dict([k \in DOMAIN v.items |->
                     IF ForField(rules, k) # {}
                     THEN ApplyMode(v.items[k], (CHOOSE rule \in ForField(rules, k) : TRUE).mode)
                     ELSE Walk(v.items[k], rules)])
      [] v.kind = "list" -> List([i \in DOMAIN v.elems |-> Walk(v.elems[i], rules)])
      [] v.kind = "str" /\ ForText(rules, v.str) # {} ->
            ApplyMode(v, (CHOOSE rule \in ForText(rules, v.str) : TRUE).mode)
      [] OTHER -> v

-----------------------------------------------------------------------------
\* The payload of the envelope in each capture mode.
Prepared(mode, payload, rules) ==
    CASE mode \in {"metadata_only", "hash_only"} -> Null
      [] mode = "redacted_payload" -> RedactValue(payload, rules)
      [] mode = "full_payload" -> payload
      [] mode = "self_hosted_payload" ->
            Dict([k \in {"artifact_uri"} |->
                     IF k \in DOMAIN payload.items THEN payload.items[k] ELSE Null])

\* What the collector stores of a payload it receives.
Kept(payload, rules) == IF payload = Null THEN Null ELSE Walk(payload, rules)

-----------------------------------------------------------------------------
(* Reference: the leaves of a value, each with the keys above it.          *)

RECURSIVE Leaves(_, _)
Leaves(v, keys) ==
    CASE v.kind = "dict" -> UNION {Leaves(v.items[k], keys \cup {k}) : k \in DOMAIN v.items}
      [] v.kind = "list" -> UNION {Leaves(v.elems[i], keys) : i \in DOMAIN v.elems}
      [] OTHER -> {[keys |-> keys, leaf |-> v]}

\* The leaves that some rule of the list is about.
Secrets(v, rules) ==
    {l.leaf : l \in {l \in Leaves(v, {}) : \E i \in 1..Len(rules) :
                        \/ rules[i].field \in l.keys
                        \/ l.leaf.kind = "str" /\ l.leaf.str \in rules[i].regex}}

Visible(v) == {l.leaf : l \in Leaves(v, {})}
=============================================================================
