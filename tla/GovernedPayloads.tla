-------------------------- MODULE GovernedPayloads --------------------------
(***************************************************************************)
(* The payloads of the events of module Governance, with the walks of      *)
(* module Redaction in the SDK and in the collector (an instance gives     *)
(* Prepared for Capture and Kept for Keep).                                *)
(***************************************************************************)
EXTENDS Governance, Redaction

\* No value that a rule is about is in an event that has been delivered, at any
\* depth of the payload: for the rules of the collector always, for those of the
\* agent unless payloads are captured in full.  A collector with the rules of the
\* agent changes nothing, except that it hashes a hashed field again.
RedactionHolds ==
    \A i \in 1..Len(delivered) :
        LET shown == Visible(delivered[i].payload) \ {Null}
            rules == setup.rules
        IN  /\ Secrets(Payload, setup.collector_rules) \cap shown = {}
            /\ setup.mode # "full_payload" =>
                  /\ Secrets(Payload, rules) \cap shown = {}
                  /\ setup.collector_rules = rules
                        /\ (\A j \in 1..Len(rules) : rules[j].field # NoField => rules[j].mode # "hash")
                     => delivered[i].payload = Capture(setup.mode, Payload, rules)
=============================================================================
