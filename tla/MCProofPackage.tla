----------------------------- MODULE MCProofPackage -----------------------------
(* A small instance of PackageHandling for TLC. *)
EXTENDS PackageHandling

CONSTANT MaxLeaves  \* bound on batch sizes

\* Members differ in their nonce; two documents, two representations.
SmallBatches ==
  {[i \in 1 .. n |-> [representation |-> IF i % 2 = 0 THEN "original" ELSE "derived",
                      digest |-> i % 2, nonce |-> i]] : n \in 1 .. MaxLeaves}
================================================================================
