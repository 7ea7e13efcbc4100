------------------------------ MODULE MCAiRun ------------------------------
(* Small instances of AiRun for TLC. *)
EXTENDS AiRun
=============================================================================
