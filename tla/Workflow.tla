------------------------------ MODULE Workflow ------------------------------
(* Workflows and their checkpoints (src/src/stdlib-workflow.ts,             *)
(* src/src/stdlib-checkpoint.ts).                                           *)
(*                                                                          *)
(* A workflow is a list of steps over a context their results are merged    *)
(* into.  A failed call may be made again, and the process may die at any   *)
(* moment and be started again: a call with a checkpoint file goes on at    *)
(* the step the file names.  There are two engines.  The asynchronous one   *)
(* undoes the completed steps of its own run, last first, when a required   *)
(* step fails, and can run a step's tasks in parallel; the synchronous one  *)
(* does neither.                                                            *)
(*                                                                          *)
(* What a step's function, condition, handlers and compensation answer is   *)
(* chosen freely; a condition or a handler that is not there is one that    *)
(* says yes or fails.                                                       *)
EXTENDS Integers, Sequences, FiniteSets, SequencesExt

CONSTANTS
  WfSteps,      \* the number of steps
  WfShapes,     \* what the steps are: sets of required, compensable and
                \* parallel steps
  WfRetry,      \* retries of a step's function
  WfEvery,      \* checkpoint_every
  WfMaxCalls    \* bound: calls of the engine

ASSUME WfAssumption ==
  /\ WfSteps \in Nat /\ WfRetry \in Nat /\ WfEvery \in Nat /\ WfMaxCalls \in Nat
  /\ \A shape \in WfShapes :
       shape \in [required : SUBSET (0 .. WfSteps - 1),
                  compensable : SUBSET (0 .. WfSteps - 1),
                  parallel : SUBSET (0 .. WfSteps - 1)]

Steps == 0 .. WfSteps - 1

VARIABLES
  wf_engine,   \* "sync" or "async"
  wf_shape,
  wf_id,       \* workflow_create's name for the workflow
  wf_calls,
  wf_file,     \* the checkpoint file
  wf_run,      \* the local variables of the call, lost with the process
  wf_past,     \* history: what became of each step of this workflow
  wf_stale     \* history: the file is of an earlier execution of the workflow

wf_vars == <<wf_engine, wf_shape, wf_id, wf_calls, wf_file, wf_run, wf_past, wf_stale>>
wf_fixed == <<wf_engine, wf_shape>>

NoFile == [is |-> "none"]
TornFile == [is |-> "torn"]    \* cut short: JSON.parse throws and it reads as null
Checkpoint == [is : {"saved"}, workflow_id : Nat, step_index : 0 .. WfSteps,
               context : SUBSET Steps, steps_completed : 0 .. WfSteps]

Outcomes == {"none", "done", "handled", "skipped", "optional", "undone"}

(* The call's place, the next step, the steps whose results are in ctx,     *)
(* completedStepNames.length, completedSteps, attempts made, stepsFailed,   *)
(* the steps compensation still has to look at, those it has undone, and    *)
(* those it could not; how the last call ended; the step it started at;     *)
(* and whether it has completed a parallel step.                            *)
Idle(status) ==
  [at |-> "idle", index |-> 0, ctx |-> {}, names |-> 0, completed |-> << >>,
   attempt |-> 0, failed |-> 0, undo |-> 0, undone |-> << >>, pending |-> {},
   status |-> status, start |-> 0, grouped |-> FALSE]

WfInit ==
  /\ wf_engine \in {"sync", "async"}
  /\ wf_shape \in WfShapes
  /\ wf_id = 1 /\ wf_calls = 0
  /\ wf_file = NoFile
  /\ wf_run = Idle("none")
  /\ wf_past = [s \in Steps |-> "none"]
  /\ wf_stale = FALSE

-----------------------------------------------------------------------------
(* The call.                                                               *)

VouchesAny(file) == file.is = "saved"   \* a defect: any workflow's file
Vouches(file) == file.is = "saved" /\ file.workflow_id = wf_id

Started(resume) ==
  IF resume /\ Vouches(wf_file)
    THEN [Idle("running") EXCEPT !.at = "loop", !.index = wf_file.step_index,
            !.start = wf_file.step_index, !.ctx = wf_file.context]
    ELSE [Idle("running") EXCEPT !.at = "loop"]

Finished == wf_run.status \in {"success", "partial"}

(* auto_resume is the caller's choice.  Without it, or after a success, the *)
(* call is a new execution of all steps, and a file that is still there is  *)
(* the earlier execution's.                                                *)
Anew(resume) == Finished \/ ~resume

WfCall(resume) ==
  /\ wf_run.at = "idle"
  /\ wf_calls < WfMaxCalls
  /\ wf_calls' = wf_calls + 1
  /\ wf_run' = Started(resume)
  /\ wf_past' = IF Anew(resume) THEN [s \in Steps |-> "none"] ELSE wf_past
  /\ wf_stale' = (wf_stale \/ (Anew(resume) /\ Vouches(wf_file)))
  /\ UNCHANGED <<wf_fixed, wf_id, wf_file>>

At(place) == wf_run.at = place
Step == wf_run.index
Required == Step \in wf_shape.required
Grouped == Step \in wf_shape.parallel

(* Where a call goes when it fails for good: the asynchronous engine first  *)
(* undoes what it has completed.                                           *)
FailingFrom(run, last) ==
  IF wf_engine = "async" THEN [run EXCEPT !.at = "undo", !.undo = last]
                         ELSE [run EXCEPT !.at = "idle", !.status = "failed"]
FailingShort(run) ==                    \* a defect: spares the last one
  FailingFrom(run, IF run.completed = << >> THEN 0 ELSE Len(run.completed) - 1)
Failing(run) == FailingFrom(run, Len(run.completed))

GoOn(run) == [run EXCEPT !.at = "loop", !.index = Step + 1, !.attempt = 0]

WfReject ==
  /\ At("loop") /\ Step < WfSteps
  /\ wf_engine = "sync" /\ Grouped
  /\ wf_run' = [wf_run EXCEPT !.at = "idle", !.status = "failed"]
  /\ UNCHANGED <<wf_fixed, wf_id, wf_calls, wf_file, wf_past, wf_stale>>

Due == At("loop") /\ Step < WfSteps /\ ~(wf_engine = "sync" /\ Grouped)

(* The condition says yes.                                                 *)
WfEnter ==
  /\ Due
  /\ wf_run' = [wf_run EXCEPT !.at = "try", !.attempt = 0]
  /\ UNCHANGED <<wf_fixed, wf_id, wf_calls, wf_file, wf_past, wf_stale>>

(* The condition throws; so does, in the synchronous engine, the log entry  *)
(* of a step whose condition says no: it names a traceId that only the      *)
(* other engine declares.                                                  *)
ConditionFails ==
  IF Required
    THEN /\ wf_run' = Failing(wf_run)
         /\ UNCHANGED wf_past
    ELSE /\ wf_run' = GoOn(wf_run)
         /\ wf_past' = [wf_past EXCEPT ![Step] = "optional"]

WfConditionThrows ==
  /\ Due
  /\ ConditionFails
  /\ UNCHANGED <<wf_fixed, wf_id, wf_calls, wf_file, wf_stale>>

WfSkip ==
  /\ Due
  /\ IF wf_engine = "sync"
       THEN ConditionFails
       ELSE /\ wf_run' = GoOn(wf_run)
            /\ wf_past' = [wf_past EXCEPT ![Step] = "skipped"]
  /\ UNCHANGED <<wf_fixed, wf_id, wf_calls, wf_file, wf_stale>>

-----------------------------------------------------------------------------
(* A step.                                                                 *)

Completed == [wf_run EXCEPT !.names = @ + 1, !.completed = Append(@, Step),
                            !.ctx = @ \cup {Step}, !.grouped = @ \/ Grouped]

SaveLate(names) == names > WfEvery      \* a defect: one step too late
SaveIsDue(names) == WfEvery > 0 /\ names % WfEvery = 0

(* The function returns, or enough of the parallel tasks do.  Only a plain  *)
(* step leads to a checkpoint.                                             *)
WfStepOk ==
  /\ At("try")
  /\ wf_past' = [wf_past EXCEPT ![Step] = "done"]
  /\ wf_run' = IF ~Grouped /\ SaveIsDue(wf_run.names + 1)
                 THEN [Completed EXCEPT !.at = "save"]
                 ELSE GoOn(Completed)
  /\ UNCHANGED <<wf_fixed, wf_id, wf_calls, wf_file, wf_stale>>

WfStepThrows ==
  /\ At("try")
  /\ wf_run' = IF wf_run.attempt < WfRetry /\ ~Grouped
                 THEN [wf_run EXCEPT !.attempt = @ + 1]
                 ELSE [wf_run EXCEPT !.at = "handle"]
  /\ UNCHANGED <<wf_fixed, wf_id, wf_calls, wf_file, wf_past, wf_stale>>

(* on_error or the fallback gives a value.  The step is then compensated    *)
(* like a completed one, but its name is not among the completed.          *)
WfHandled ==
  /\ At("handle")
  /\ wf_past' = [wf_past EXCEPT ![Step] = "handled"]
  /\ wf_run' = GoOn([wf_run EXCEPT !.ctx = @ \cup {Step},
                                   !.completed = Append(@, Step)])
  /\ UNCHANGED <<wf_fixed, wf_id, wf_calls, wf_file, wf_stale>>

WfUnhandled ==
  /\ At("handle")
  /\ LET run == [wf_run EXCEPT !.failed = @ + 1] IN
     IF Required
       THEN /\ wf_run' = Failing(run)
            /\ UNCHANGED wf_past
       ELSE /\ wf_run' = GoOn(run)
            /\ wf_past' = [wf_past EXCEPT ![Step] = "optional"]
  /\ UNCHANGED <<wf_fixed, wf_id, wf_calls, wf_file, wf_stale>>

-----------------------------------------------------------------------------
(* saveCheckpoint writes the file in place: it is cut, then filled.        *)

WfSaveOpens ==
  /\ At("save")
  /\ wf_file' = TornFile
  /\ wf_run' = [wf_run EXCEPT !.at = "write"]
  /\ UNCHANGED <<wf_fixed, wf_id, wf_calls, wf_past, wf_stale>>

Misled == wf_stale /\ wf_run.start > 0   \* it resumed from such a file

Saved == [is |-> "saved", workflow_id |-> wf_id, step_index |-> Step + 1,
          context |-> wf_run.ctx, steps_completed |-> wf_run.names]

WfSaveWrites ==
  /\ At("write")
  /\ wf_file' = Saved
  /\ wf_run' = GoOn(wf_run)
  /\ wf_stale' = Misled
  /\ UNCHANGED <<wf_fixed, wf_id, wf_calls, wf_past>>

(* An error of the file system leaves the engine as an exception: nothing   *)
(* is undone.                                                              *)
WfSaveThrows ==
  /\ At("save") \/ At("write")
  /\ wf_run' = [wf_run EXCEPT !.at = "idle", !.status = "threw"]
  /\ UNCHANGED <<wf_fixed, wf_id, wf_calls, wf_file, wf_past, wf_stale>>

-----------------------------------------------------------------------------
(* The end of a call.                                                      *)

Undoing == wf_run.completed[wf_run.undo]

(* applyCompensations, last completed step first.  A compensation that      *)
(* throws is noted as pending and the next one is tried.                   *)
WfUndo(works) ==
  /\ At("undo") /\ wf_run.undo > 0
  /\ Undoing \in wf_shape.compensable
  /\ wf_run' = [wf_run EXCEPT !.undo = @ - 1, !.undone = Append(@, Undoing),
                              !.pending = IF works THEN @ ELSE @ \cup {Undoing}]
  /\ wf_past' = IF works THEN [wf_past EXCEPT ![Undoing] = "undone"] ELSE wf_past
  /\ UNCHANGED <<wf_fixed, wf_id, wf_calls, wf_file, wf_stale>>

WfUndoNothing ==
  /\ At("undo") /\ wf_run.undo > 0
  /\ Undoing \notin wf_shape.compensable
  /\ wf_run' = [wf_run EXCEPT !.undo = @ - 1]
  /\ UNCHANGED <<wf_fixed, wf_id, wf_calls, wf_file, wf_past, wf_stale>>

WfFailed ==
  /\ At("undo") /\ wf_run.undo = 0
  /\ wf_run' = [wf_run EXCEPT !.at = "idle", !.status = "failed"]
  /\ UNCHANGED <<wf_fixed, wf_id, wf_calls, wf_file, wf_past, wf_stale>>

(* deleteCheckpoint swallows an error.                                     *)
WfFinish(deleted) ==
  /\ At("loop") /\ Step >= WfSteps
  /\ wf_run' = [wf_run EXCEPT !.at = "idle",
                  !.status = IF wf_run.failed = 0 THEN "success" ELSE "partial"]
  /\ wf_file' = IF deleted THEN NoFile ELSE wf_file
  /\ wf_stale' = (~deleted /\ Vouches(wf_file))
  /\ UNCHANGED <<wf_fixed, wf_id, wf_calls, wf_past>>

(* The process dies.  The next one makes its workflow anew, with an id of   *)
(* the moment (workflow_create), or has given it one that stays.           *)
WfCrash(recreated) ==
  /\ ~At("idle")
  /\ wf_run' = Idle("crashed")
  /\ IF recreated
       THEN /\ wf_id' = wf_id + 1
            /\ wf_past' = [s \in Steps |-> "none"]
            /\ wf_stale' = FALSE
       ELSE UNCHANGED <<wf_id, wf_past, wf_stale>>
  /\ UNCHANGED <<wf_fixed, wf_calls, wf_file>>

WfStep ==
  \/ WfReject \/ WfEnter \/ WfConditionThrows \/ WfSkip
  \/ WfStepOk \/ WfStepThrows \/ WfHandled \/ WfUnhandled
  \/ WfSaveOpens \/ WfSaveWrites \/ WfSaveThrows
  \/ WfUndoNothing \/ WfFailed
  \/ \E yes \in BOOLEAN : WfUndo(yes) \/ WfFinish(yes)

WfNext ==
  \/ WfStep
  \/ \E yes \in BOOLEAN : WfCall(yes) \/ WfCrash(yes)

WfSpec == WfInit /\ [][WfNext]_wf_vars

-----------------------------------------------------------------------------
(* Properties.                                                             *)

WfTypeOK ==
  /\ wf_engine \in {"sync", "async"} /\ wf_shape \in WfShapes
  /\ wf_id \in Nat /\ wf_calls \in 0 .. WfMaxCalls
  /\ wf_file \in {NoFile, TornFile} \cup Checkpoint
  /\ wf_run.index \in 0 .. WfSteps /\ wf_run.start \in 0 .. wf_run.index
  /\ wf_run.at \in {"idle", "loop", "try", "handle", "save", "write", "undo"}
  /\ wf_run.attempt \in 0 .. WfRetry
  /\ wf_run.ctx \subseteq Steps /\ wf_run.completed \in Seq(Steps)
  /\ wf_run.undo \in 0 .. Len(wf_run.completed)
  /\ wf_past \in [Steps -> Outcomes]
  /\ wf_stale \in BOOLEAN

(* Every step of this workflow before k has been dealt with, a required one *)
(* has not been passed over, and what a step gave is in the context.       *)
Passed(k, ctx) ==
  \A s \in Steps : s < k =>
    /\ wf_past[s] # "none"
    /\ s \in wf_shape.required => wf_past[s] # "optional"
    /\ wf_past[s] \in {"done", "handled", "undone"} => s \in ctx

(* Wherever a call resumes, after a crash at any moment and whatever is in  *)
(* the file (its own checkpoint, one cut short, another workflow's), it     *)
(* skips no step and carries the results of those before it; and the file   *)
(* never promises more than that (loadCheckpoint and saveCheckpoint).      *)
WfNothingSkipped ==
  /\ ~At("idle") /\ ~Misled => Passed(Step, wf_run.ctx)
  /\ Vouches(wf_file) /\ ~wf_stale => Passed(wf_file.step_index, wf_file.context)

(* What a crash now would make the next call do again: the plain steps done *)
(* up to k since the file's.                                               *)
Since == IF Vouches(wf_file) THEN wf_file.step_index ELSE 0
DoneSinceTo(k) == {s \in Since .. k : wf_past[s] = "done"}

(* A crash costs fewer than WfEvery plain steps, and WfEvery if it comes    *)
(* when the file is to be opened, as long as no parallel group has been     *)
(* counted (the checkpoint_every option).  Not so while the file is         *)
(* written: what it held is gone, and every step is done again.            *)
WfLossBounded ==
  (~At("idle") /\ ~At("write") /\ ~wf_run.grouped /\ ~wf_stale /\ WfEvery > 0) =>
    IF At("save") THEN Cardinality(DoneSinceTo(Step)) = WfEvery
                  ELSE Cardinality(DoneSinceTo(Step - 1)) < WfEvery

(* The second call does again no more than WfEvery of the steps the first   *)
(* one did: it "resumes from the last point".  In the code it may do them   *)
(* all again, for the file is written in place (saveCheckpoint), and the    *)
(* run that checks this finds it.                                          *)
WfResumesNear ==
  (At("loop") /\ Step = wf_run.start /\ wf_calls = 2 /\ ~wf_stale /\ WfEvery > 0) =>
    Cardinality({s \in Steps : s >= Step /\ wf_past[s] = "done"}) <= WfEvery

(* When a required step fails, the asynchronous engine has undone what its  *)
(* own run completed, in the reverse of the order it was done in, and a     *)
(* compensation that threw kept no other from being tried.                 *)
WfRollback ==
  (At("idle") /\ wf_run.status = "failed" /\ wf_engine = "async") =>
    /\ \A s \in Steps : (s >= wf_run.start /\ s < Step /\ wf_past[s] \in {"done", "handled"})
                        => s \notin wf_shape.compensable \/ s \in wf_run.pending
    /\ \A i, j \in 1 .. Len(wf_run.undone) :
         i < j => wf_run.undone[i] > wf_run.undone[j]
=============================================================================
