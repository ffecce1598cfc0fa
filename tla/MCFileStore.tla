----------------------------- MODULE MCFileStore -----------------------------
(***************************************************************************)
(* Instance of FileStore for TLC.                                          *)
(***************************************************************************)
EXTENDS FileStore, TLC

MCSymmetry == Permutations(Tasks) \union Permutations(Paths)

=============================================================================
