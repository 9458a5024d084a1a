-------------------------------- MODULE MCDaemon --------------------------------
(* A small instance of Daemon for TLC; without symmetry, as it checks liveness. *)
EXTENDS Daemon
================================================================================
