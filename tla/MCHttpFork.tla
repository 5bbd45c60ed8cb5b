------------------------------ MODULE MCHttpFork ------------------------------
(* Instances of HttpFork for TLC.                                          *)
EXTENDS HttpFork, TLC

(* Children's pids are interchangeable.                                    *)
PidSymmetry == Permutations(Pids)

(* Where a child may die: nowhere, in the handler, or at any point.        *)
Nowhere == {}
InHandler == {"handle"}
Anywhere == ChildPoints

=============================================================================
