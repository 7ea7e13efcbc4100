-------------------------- MODULE MCAuthEmailOutbox --------------------------
(* Small instances of AuthEmailOutbox for TLC. *)
EXTENDS AuthEmailOutbox

=============================================================================
