-------------------------- MODULE MCCircuitBreaker --------------------------
(***************************************************************************)
(* Instances of CircuitBreaker and SequentialBreaker for TLC.              *)
(***************************************************************************)
EXTENDS SequentialBreaker

=============================================================================
