-------------------------------- MODULE MCLab --------------------------------
(***************************************************************************)
(* Instance of Lab for TLC.                                                *)
(***************************************************************************)
EXTENDS Lab, TLC

MCSymmetry == Permutations(Payloads) \union Permutations(Foreign)

=============================================================================
