---------------------------- MODULE MCPaperlessAgent ----------------------------
(* A small instance of PaperlessAgent for TLC; without symmetry, as it checks
   liveness. *)
EXTENDS PaperlessAgent
================================================================================
