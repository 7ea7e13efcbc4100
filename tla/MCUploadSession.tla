--------------------------- MODULE MCUploadSession ---------------------------
(* Small instances of UploadSession for TLC. *)
EXTENDS UploadSession, TLC

\* Sound where only invariants and action properties are checked: PUTs, calls
\* and workers are interchangeable.
Symmetry ==
  Permutations(Puts) \cup Permutations(Calls) \cup Permutations(Workers)

=============================================================================
