------------------------------ MODULE MC_SdkTs ------------------------------
(* Instances of the TypeScript SDK for TLC.                                *)
EXTENDS SdkTs, TLC

CONSTANTS c1, c2

\* Nothing tells pending calls apart.
CallSymmetry == Permutations(Calls)
=============================================================================
