-------------------------- MODULE MCStackLifecycle --------------------------
(* A handler beside the boot goroutine, for TLC. *)
EXTENDS StackLifecycle

CONSTANT c1
=============================================================================
