----------------------------- MODULE MCRunLease -----------------------------
(***************************************************************************)
(* Instances of RunLease for TLC.                                          *)
(***************************************************************************)
EXTENDS RunLease, TLC

(* Two processes started under one worker name, the hard case for fencing. *)
MCOwnerOf == [w \in Workers |-> CHOOSE o \in Owners : TRUE]

MCSymmetry == Permutations(Workers)

=============================================================================
