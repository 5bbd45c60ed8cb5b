------------------------------ MODULE MCWorkflow ------------------------------
(* One workflow of plain required steps, for TLC.                          *)
EXTENDS Workflow

PlainShapes == {[required |-> Steps, compensable |-> {}, parallel |-> {}]}
=============================================================================
