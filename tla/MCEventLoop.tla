----------------------------- MODULE MCEventLoop -----------------------------
(* The components that live in one thread, the event loop of the TypeScript *)
(* implementation and the library written in FreeLang, for TLC.            *)
(*                                                                          *)
(* They share no variable: no code of the program makes one of them call    *)
(* another, so a behaviour of the whole is one of each, interleaved.  Each  *)
(* behaviour here is of a single component, chosen at its start; the others *)
(* stay as they begin.                                                     *)
EXTENDS SisBus, Workflow, FlPromise, Distributed, PubSub, Bytecode,
        CircuitBreaker, JobQueue, Cache

VARIABLE part

Parts == {"timers", "workflow", "promises", "distributed", "pubsub", "bytecode",
          "breaker", "jobs", "cache"}

(* A required step, an optional one and a required one.  The middle one is  *)
(* a plain step with a compensation, or a parallel group without.          *)
LoopShapes ==
  {[required |-> {0, 2}, compensable |-> {0, 1}, parallel |-> {}],
   [required |-> {0, 2}, compensable |-> {0}, parallel |-> {1}]}

Init ==
  /\ part \in Parts
  /\ SisInit /\ WfInit /\ PrInit /\ DiInit /\ PsInit /\ BcInit
  /\ CbInit /\ JqInit /\ CaInit
  /\ part # "workflow" =>
       wf_engine = "sync" /\ wf_shape = CHOOSE shape \in WfShapes : TRUE
  /\ part # "cache" => ca_key = CHOOSE key \in [CaWaiters -> CaKeys] : TRUE
  /\ part # "bytecode" => bc_program = (CHOOSE program \in BcPrograms : TRUE) /\ bc_known = BcUnset

library_vars == <<cb_vars, jq_vars, ca_vars>>
runtime_vars == <<sis_vars, wf_vars, pr_vars, di_vars, ps_vars, bc_vars>>
vars == <<part, runtime_vars, library_vars>>

Next ==
  \/ /\ part = "timers" /\ SisNext
     /\ UNCHANGED <<part, wf_vars, pr_vars, di_vars, ps_vars, bc_vars, library_vars>>
  \/ /\ part = "workflow" /\ WfNext
     /\ UNCHANGED <<part, sis_vars, pr_vars, di_vars, ps_vars, bc_vars, library_vars>>
  \/ /\ part = "promises" /\ PrNext
     /\ UNCHANGED <<part, sis_vars, wf_vars, di_vars, ps_vars, bc_vars, library_vars>>
  \/ /\ part = "distributed" /\ DiNext
     /\ UNCHANGED <<part, sis_vars, wf_vars, pr_vars, ps_vars, bc_vars, library_vars>>
  \/ /\ part = "pubsub" /\ PsNext
     /\ UNCHANGED <<part, sis_vars, wf_vars, pr_vars, di_vars, bc_vars, library_vars>>
  \/ /\ part = "bytecode" /\ BcNext
     /\ UNCHANGED <<part, sis_vars, wf_vars, pr_vars, di_vars, ps_vars, library_vars>>
  \/ /\ part = "breaker" /\ CbNext
     /\ UNCHANGED <<part, jq_vars, ca_vars, runtime_vars>>
  \/ /\ part = "jobs" /\ JqNext
     /\ UNCHANGED <<part, cb_vars, ca_vars, runtime_vars>>
  \/ /\ part = "cache" /\ CaNext
     /\ UNCHANGED <<part, cb_vars, jq_vars, runtime_vars>>

Spec == Init /\ [][Next]_vars

(* The state of every component keeps its type.                            *)
LoopTypeOK ==
  /\ SisTypeOK /\ WfTypeOK /\ PrTypeOK /\ DiTypeOK /\ PsTypeOK /\ BcTypeOK
  /\ CbTypeOK /\ JqTypeOK /\ CaTypeOK
  /\ part \in Parts
=============================================================================
