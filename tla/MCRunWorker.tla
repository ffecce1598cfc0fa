----------------------------- MODULE MCRunWorker -----------------------------
(***************************************************************************)
(* Instances of RunWorker for TLC.                                         *)
(***************************************************************************)
EXTENDS RunWorker, TLC

MCOwnerOf == [w \in Workers |-> CHOOSE o \in Owners : TRUE]

MCSymmetry == Permutations(Workers)

=============================================================================
