---------------------------- MODULE MCOutboxWorker ----------------------------
(* A small instance of OutboxWorker for TLC. *)
EXTENDS OutboxWorker
================================================================================
