-------------------------------- MODULE Json --------------------------------
(* Values of a payload or of the input of a policy, as the json module of    *)
(* Python reads them: tagged records, so that values of different kinds can  *)
(* be compared.  A string is a member of a small set and not taken apart.    *)
EXTENDS Naturals, Sequences

Null    == [kind |-> "null"]
Num(n)  == [kind |-> "num", num |-> n]
Str(s)  == [kind |-> "str", str |-> s]
Dict(f) == [kind |-> "dict", items |-> f]
List(s) == [kind |-> "list", elems |-> s]

\* A string made of the digest of a value: "sha256:" and the hash of its repr.
Digest(v) == [kind |-> "digest", of |-> v]
=============================================================================
