---------------------------- MODULE MCSemaphore -----------------------------
(* Semaphore.tla on a small instance. *)
EXTENDS Semaphore, TLC

=============================================================================
