--------------------------- MODULE EventLoopProofs ---------------------------
(* What holds of the components of one thread holds of their composition:   *)
(* its behaviours are behaviours of each of them.                          *)
EXTENDS MCEventLoop, RuntimeProofs, WorkflowProofs, LibraryProofs, BytecodeProofs

(* A step of the composition is a step of one component, and leaves each of *)
(* the others as it is.                                                    *)
LEMMA StepOfOne ==
  ASSUME [Next]_vars
  PROVE  /\ [SisNext]_sis_vars /\ [WfNext]_wf_vars /\ [PrNext]_pr_vars
         /\ [DiNext]_di_vars /\ [PsNext]_ps_vars /\ [BcNext]_bc_vars
         /\ [CbNext]_cb_vars /\ [JqNext]_jq_vars /\ [CaNext]_ca_vars
         /\ part' = part
<1>1. CASE UNCHANGED vars
  BY <1>1 DEF vars, runtime_vars, library_vars
<1>2. CASE Next
  BY <1>2 DEF Next, runtime_vars, library_vars
<1> QED BY <1>1, <1>2

(* Whatever the callbacks of the one thread do, and in whichever component, *)
(* each component behaves as its own module says.                          *)
THEOREM EveryComponent ==
  Spec => /\ SisSpec /\ WfSpec /\ PrSpec /\ DiSpec /\ PsSpec /\ BcSpec
          /\ CbSpec /\ JqSpec /\ CaSpec
<1>1. Init => /\ SisInit /\ WfInit /\ PrInit /\ DiInit /\ PsInit /\ BcInit
              /\ CbInit /\ JqInit /\ CaInit
  BY DEF Init
<1> QED
  BY <1>1, StepOfOne, PTL
     DEF Spec, SisSpec, WfSpec, PrSpec, DiSpec, PsSpec, BcSpec, CbSpec, JqSpec, CaSpec

(* The state of every component keeps its type.                            *)
THEOREM LoopTypes == Spec => []LoopTypeOK
<1>1. Init => part \in Parts
  BY DEF Init
<1>2. part \in Parts /\ [Next]_vars => (part \in Parts)'
  BY StepOfOne
<1>3. Spec => [](part \in Parts)
  BY <1>1, <1>2, PTL DEF Spec
<1> QED
  BY <1>3, EveryComponent, SisTypeCorrect, WfTypeCorrect, PrTypeCorrect, DiTypeCorrect,
     RegistryTypes, BytecodeTypes, BreakerTypes, QueueTypes, CacheTypes, PTL
     DEF LoopTypeOK

(* Every property the components promise, of all of them together.          *)
THEOREM LoopKeepsAll ==
  Spec => /\ [](SisKept /\ PrDelivered /\ DiAnswer /\ PsOrderly)
          /\ [](WfNothingSkipped /\ WfLossBounded /\ WfRollback)
          /\ [](CbSound /\ JqConserved /\ CaTakenOnce /\ BcAgreesElse)
          /\ DiEachOnce /\ BcRewriteSafe
<1>1. Spec => [](SisKept /\ PrDelivered /\ DiAnswer /\ PsOrderly)
  BY EveryComponent, EvidenceKept, Delivered, AnswerIsWhole, Orderly, PTL
<1>2. Spec => [](WfNothingSkipped /\ WfLossBounded /\ WfRollback)
  BY EveryComponent, NothingSkipped, LossIsBounded, RolledBack, PTL
<1>3. Spec => [](CbSound /\ JqConserved /\ CaTakenOnce /\ BcAgreesElse)
  BY EveryComponent, BreakerSound, JobsConserved, TakenOnce, AnswersAgree, PTL
<1> QED
  BY <1>1, <1>2, <1>3, EveryComponent, ImplementsEachOnce, RewritesAgree, PTL
=============================================================================
