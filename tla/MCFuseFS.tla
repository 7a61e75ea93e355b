------------------------------ MODULE MCFuseFS ------------------------------
(* FuseFS for TLC: a temporary and a final name, two requests at a time. *)
EXTENDS FuseFS, TLC

\* Requests differ in nothing but what they do.
Alike == Permutations(Requests)
=============================================================================
