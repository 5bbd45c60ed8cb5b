------------------------------ MODULE MCHttpPool ------------------------------
(* Instances of HttpPool for TLC.                                          *)
EXTENDS HttpPool, TLC

(* Worker pids are interchangeable.                                        *)
PidSymmetry == Permutations(Pids)

(* Where a worker may die: nowhere, in the handler, or at any point but     *)
(* between the stores of its slot's flag and of active_connections.        *)
Nowhere == {}
InHandler == {"dispatch"}
WholeUpdates == WorkerPoints \ {"enterCount", "leaveCount"}

=============================================================================
