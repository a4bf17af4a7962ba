------------------------------- MODULE MC_Sdk -------------------------------
(* Instances of the SDK for TLC.                                           *)
EXTENDS Sdk
=============================================================================
