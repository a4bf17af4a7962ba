--------------------------- MODULE Subsequences ----------------------------
(***************************************************************************)
(* What sequences contain, and selection of a part of a sequence by        *)
(* position.  SelectAt is SelectSeq with the test replaced by the set of   *)
(* positions that pass it, and with its recursion written out, so that     *)
(* SubsequenceProofs can say what it computes.                             *)
(***************************************************************************)
EXTENDS Naturals, Sequences

\* The elements of s at the positions in I, in their order in s.
SelectAt(s, I) ==
    LET F[n \in 0..Len(s)] ==
            IF n = 0 THEN <<>>
            ELSE IF n \in I THEN Append(F[n - 1], s[n]) ELSE F[n - 1]
    IN  F[Len(s)]

\* The elements of a sequence, and those of the sequences in a sequence.
InSeq(s) == {s[i] : i \in 1..Len(s)}
Entries(s) == UNION {InSeq(s[i]) : i \in 1..Len(s)}

\* s, followed by the elements of b that s does not have.
AppendNew(s, b) == s \o SelectAt(b, {i \in 1..Len(b) : b[i] \notin InSeq(s)})
=============================================================================
