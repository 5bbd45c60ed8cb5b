---------------------------- MODULE WorkflowProofs ----------------------------
(* What TLAPS proves of the workflows, for every number of steps, every     *)
(* shape they have, and every number of retries, calls and steps between    *)
(* two checkpoints.                                                        *)
EXTENDS Workflow, FiniteSetTheorems, TLAPS

Runs ==
  [at : {"idle", "loop", "try", "handle", "save", "write", "undo"}, index : 0 .. WfSteps,
   ctx : SUBSET Steps, names : Nat, completed : Seq(Steps), attempt : 0 .. WfRetry,
   failed : Nat, undo : Nat, undone : Seq(Steps), pending : SUBSET Steps,
   status : {"none", "running", "success", "partial", "failed", "threw", "crashed"},
   start : 0 .. WfSteps, grouped : BOOLEAN]

Fields ==
  /\ wf_engine \in {"sync", "async"} /\ wf_shape \in WfShapes
  /\ wf_id \in Nat /\ wf_calls \in 0 .. WfMaxCalls
  /\ wf_file \in {NoFile, TornFile} \cup Checkpoint
  /\ wf_run \in Runs
  /\ wf_past \in [Steps -> Outcomes]
  /\ wf_stale \in BOOLEAN

(* Where a call can be.  A checkpoint is written for a step that is done.   *)
InSave == At("save") \/ At("write")

Places ==
  /\ wf_run.start <= wf_run.index
  /\ wf_run.undo <= Len(wf_run.completed)
  /\ At("try") \/ At("handle") \/ InSave => Step < WfSteps
  /\ At("loop") \/ At("try") \/ At("handle") => wf_run.names <= Step
  /\ InSave => /\ WfEvery > 0 /\ wf_run.names % WfEvery = 0 /\ wf_run.names <= Step + 1
               /\ wf_past[Step] = "done" /\ Step \in wf_run.ctx

(* The file is of this workflow or of an earlier one, and never ahead of    *)
(* the call that goes on from it.                                          *)
FileOK ==
  /\ wf_file.is = "saved" => wf_file.workflow_id <= wf_id
  /\ ~At("idle") /\ Vouches(wf_file) /\ ~wf_stale => wf_file.step_index <= Step

-----------------------------------------------------------------------------
(* The types.                                                              *)

LEMMA Ranges ==
  /\ WfSteps \in Nat /\ WfRetry \in Nat /\ WfEvery \in Nat
  /\ 0 \in 0 .. WfSteps /\ 0 \in 0 .. WfRetry
  /\ {} \in SUBSET Steps /\ << >> \in Seq(Steps)
BY WfAssumption

LEMMA StepIsOne ==
  ASSUME wf_run \in Runs, Step < WfSteps
  PROVE  Step \in Steps /\ Step + 1 \in 0 .. WfSteps
<1>1. Step \in 0 .. WfSteps
  BY DEF Runs, Step
<1>. QED
  BY <1>1, Ranges DEF Steps

(* The call goes on to the next step.                                      *)
LEMMA GoOnRun ==
  ASSUME wf_run \in Runs, Step < WfSteps, NEW run \in Runs
  PROVE  /\ GoOn(run) \in Runs
         /\ GoOn(run).at = "loop" /\ GoOn(run).index = Step + 1
         /\ GoOn(run).ctx = run.ctx /\ GoOn(run).names = run.names
         /\ GoOn(run).completed = run.completed /\ GoOn(run).undo = run.undo
         /\ GoOn(run).undone = run.undone /\ GoOn(run).pending = run.pending
         /\ GoOn(run).status = run.status
         /\ GoOn(run).start = run.start /\ GoOn(run).grouped = run.grouped
<1>1. PICK next \in 0 .. WfSteps : next = Step + 1
  BY StepIsOne
<1>2. PICK r : r = [run EXCEPT !.at = "loop", !.index = next, !.attempt = 0]
  OBVIOUS
<1>3. GoOn(run) = r
  BY <1>1, <1>2 DEF GoOn
<1>4. r \in Runs
  BY <1>2, Ranges DEF Runs
<1>5. /\ r.at = "loop" /\ r.index = next /\ r.ctx = run.ctx /\ r.names = run.names
      /\ r.completed = run.completed /\ r.undo = run.undo /\ r.undone = run.undone
      /\ r.pending = run.pending /\ r.start = run.start /\ r.grouped = run.grouped
      /\ r.status = run.status
  BY <1>2 DEF Runs
<1>. QED
  BY <1>1, <1>3, <1>4, <1>5

(* The call ends, or undoes what it has completed.                         *)
LEMMA FailingRun ==
  ASSUME NEW run \in Runs
  PROVE  /\ Failing(run) \in Runs
         /\ Failing(run).index = run.index /\ Failing(run).ctx = run.ctx
         /\ Failing(run).completed = run.completed /\ Failing(run).undone = run.undone
         /\ Failing(run).pending = run.pending /\ Failing(run).start = run.start
         /\ Failing(run).grouped = run.grouped
         /\ wf_engine = "async" => /\ Failing(run).at = "undo"
                                   /\ Failing(run).undo = Len(run.completed)
         /\ wf_engine # "async" => /\ Failing(run).at = "idle"
                                   /\ Failing(run).undo = run.undo
<1>1. PICK n \in Nat : n = Len(run.completed)
  BY DEF Runs
<1>2. PICK r : r = [run EXCEPT !.at = "undo", !.undo = n]
  OBVIOUS
<1>3. PICK r2 : r2 = [run EXCEPT !.at = "idle", !.status = "failed"]
  OBVIOUS
<1>4. Failing(run) = IF wf_engine = "async" THEN r ELSE r2
  BY <1>1, <1>2, <1>3 DEF Failing, FailingFrom
<1>5. r \in Runs /\ r2 \in Runs
  BY <1>2, <1>3 DEF Runs
<1>6. /\ r.at = "undo" /\ r.index = run.index /\ r.ctx = run.ctx /\ r.undo = n
      /\ r.completed = run.completed /\ r.undone = run.undone
      /\ r.pending = run.pending /\ r.start = run.start /\ r.grouped = run.grouped
  BY <1>2 DEF Runs
<1>7. /\ r2.at = "idle" /\ r2.index = run.index /\ r2.ctx = run.ctx /\ r2.undo = run.undo
      /\ r2.completed = run.completed /\ r2.undone = run.undone
      /\ r2.pending = run.pending /\ r2.start = run.start /\ r2.grouped = run.grouped
  BY <1>3 DEF Runs
<1>. QED
  BY <1>1, <1>4, <1>5, <1>6, <1>7

(* Its results and its name are added.                                     *)
LEMMA AddedRun ==
  ASSUME wf_run \in Runs, Step \in Steps
  PROVE  /\ wf_run.ctx \cup {Step} \in SUBSET Steps
         /\ Append(wf_run.completed, Step) \in Seq(Steps)
<1>1. wf_run.completed \in Seq(Steps) /\ wf_run.ctx \in SUBSET Steps
  BY DEF Runs
<1>2. PICK s \in Steps : s = Step
  OBVIOUS
<1>3. Append(wf_run.completed, s) \in Seq(Steps)
  BY <1>1
<1>. QED
  BY <1>1, <1>2, <1>3

-----------------------------------------------------------------------------
(* What a step of the engine does, by its effect on the call.              *)

Rests == UNCHANGED <<wf_engine, wf_shape, wf_id, wf_calls>>
InStep == (At("loop") \/ At("try") \/ At("handle")) /\ Step < WfSteps

SameUndo ==
  /\ wf_run'.undo = wf_run.undo /\ wf_run'.undone = wf_run.undone
  /\ wf_run'.pending = wf_run.pending /\ wf_run'.start = wf_run.start
SameWork ==
  /\ wf_run'.ctx = wf_run.ctx /\ wf_run'.names = wf_run.names
  /\ wf_run'.completed = wf_run.completed /\ wf_run'.grouped = wf_run.grouped

(* The step is entered, or tried again, or its handler called.             *)
MoveStays ==
  /\ InStep /\ Rests /\ UNCHANGED <<wf_file, wf_past, wf_stale>>
  /\ wf_run'.at \in {"loop", "try", "handle"} /\ wf_run'.index = Step
  /\ SameUndo /\ SameWork

Advances ==
  /\ InStep /\ Rests /\ UNCHANGED <<wf_file, wf_stale>>
  /\ wf_run'.at = "loop" /\ wf_run'.index = Step + 1
  /\ SameUndo

MoveOver ==
  /\ Advances /\ SameWork
  /\ \/ wf_past' = [wf_past EXCEPT ![Step] = "skipped"]
     \/ ~Required /\ wf_past' = [wf_past EXCEPT ![Step] = "optional"]

Adds == /\ wf_run'.ctx = wf_run.ctx \cup {Step}
        /\ wf_run'.completed = Append(wf_run.completed, Step)

MoveHandled ==
  /\ Advances /\ Adds
  /\ wf_past' = [wf_past EXCEPT ![Step] = "handled"]
  /\ wf_run'.names = wf_run.names /\ wf_run'.grouped = wf_run.grouped

MoveDone ==
  /\ Advances /\ Adds
  /\ wf_past' = [wf_past EXCEPT ![Step] = "done"]
  /\ wf_run'.names = wf_run.names + 1
  /\ ~wf_run'.grouped => ~wf_run.grouped /\ ~SaveIsDue(wf_run.names + 1)

MoveSaves ==
  /\ InStep /\ Rests /\ UNCHANGED <<wf_file, wf_stale>>
  /\ wf_run'.at = "save" /\ wf_run'.index = Step
  /\ SameUndo /\ Adds
  /\ wf_past' = [wf_past EXCEPT ![Step] = "done"]
  /\ wf_run'.names = wf_run.names + 1 /\ SaveIsDue(wf_run.names + 1)
  /\ wf_run'.grouped = wf_run.grouped

MoveOpens ==
  /\ At("save") /\ Rests /\ UNCHANGED <<wf_past, wf_stale>>
  /\ wf_file' = TornFile
  /\ wf_run'.at = "write" /\ wf_run'.index = Step
  /\ SameUndo /\ SameWork

MoveWrites ==
  /\ At("write") /\ Rests /\ UNCHANGED wf_past
  /\ wf_file' = Saved /\ wf_stale' = Misled
  /\ wf_run'.at = "loop" /\ wf_run'.index = Step + 1
  /\ SameUndo /\ SameWork

(* The call ends without undoing anything.                                 *)
MoveEnds ==
  /\ Rests /\ UNCHANGED <<wf_file, wf_past, wf_stale>>
  /\ wf_run'.at = "idle"
  /\ wf_run'.index >= wf_run'.start /\ wf_run'.undo <= Len(wf_run'.completed)
  /\ wf_engine = "async" => wf_run'.status # "failed"

(* It fails and begins to undo.                                            *)
MoveFails ==
  /\ InStep /\ Rests /\ UNCHANGED <<wf_file, wf_past, wf_stale>>
  /\ wf_engine = "async"
  /\ wf_run'.at = "undo" /\ wf_run'.index = Step
  /\ wf_run'.undo = Len(wf_run.completed)
  /\ wf_run'.undone = wf_run.undone /\ wf_run'.pending = wf_run.pending
  /\ wf_run'.start = wf_run.start /\ wf_run'.grouped = wf_run.grouped
  /\ wf_run'.ctx = wf_run.ctx /\ wf_run'.completed = wf_run.completed

SameFailed ==
  /\ Rests /\ UNCHANGED <<wf_file, wf_stale>>
  /\ wf_run'.index = Step /\ wf_run'.start = wf_run.start
  /\ wf_run'.grouped = wf_run.grouped
  /\ wf_run'.ctx = wf_run.ctx /\ wf_run'.completed = wf_run.completed

MoveUndoes(s) ==
  /\ At("undo") /\ wf_run.undo > 0 /\ SameFailed
  /\ s = Undoing
  /\ wf_run'.at = "undo" /\ wf_run'.undo = wf_run.undo - 1
  /\ wf_run'.undone = Append(wf_run.undone, s)
  /\ \/ /\ wf_run'.pending = wf_run.pending
        /\ wf_past' = [wf_past EXCEPT ![s] = "undone"]
     \/ /\ wf_run'.pending = wf_run.pending \cup {s}
        /\ UNCHANGED wf_past

MoveLeaves(s) ==
  /\ At("undo") /\ wf_run.undo > 0 /\ SameFailed /\ UNCHANGED wf_past
  /\ s = Undoing /\ s \notin wf_shape.compensable
  /\ wf_run'.at = "undo" /\ wf_run'.undo = wf_run.undo - 1
  /\ wf_run'.undone = wf_run.undone /\ wf_run'.pending = wf_run.pending

MoveUndone ==
  /\ At("undo") /\ wf_run.undo = 0 /\ SameFailed /\ UNCHANGED wf_past
  /\ wf_run'.at = "idle" /\ wf_run'.undo = 0
  /\ wf_run'.undone = wf_run.undone /\ wf_run'.pending = wf_run.pending

MoveFinishes ==
  /\ Rests /\ UNCHANGED wf_past
  /\ wf_run'.at = "idle" /\ wf_run'.status # "failed"
  /\ wf_run'.index = Step /\ wf_run'.start = wf_run.start
  /\ wf_run'.undo = wf_run.undo /\ wf_run'.completed = wf_run.completed
  /\ \/ wf_file' = NoFile
     \/ wf_file' = wf_file /\ (Vouches(wf_file) => wf_stale')
  /\ wf_stale' \in BOOLEAN

MoveStarts(resume) ==
  /\ At("idle") /\ wf_calls < WfMaxCalls /\ wf_calls' = wf_calls + 1
  /\ UNCHANGED <<wf_engine, wf_shape, wf_id, wf_file>>
  /\ wf_run'.at = "loop" /\ wf_run'.start = wf_run'.index
  /\ wf_run'.names = 0 /\ wf_run'.completed = << >> /\ wf_run'.undo = 0
  /\ wf_run'.undone = << >> /\ wf_run'.pending = {}
  /\ IF resume /\ Vouches(wf_file)
       THEN wf_run'.index = wf_file.step_index /\ wf_run'.ctx = wf_file.context
       ELSE wf_run'.index = 0
  /\ wf_past' = IF Anew(resume) THEN [s \in Steps |-> "none"] ELSE wf_past
  /\ wf_stale' = (wf_stale \/ (Anew(resume) /\ Vouches(wf_file)))

(* The process is made again, with the workflow.                           *)
MoveRecreates ==
  /\ UNCHANGED <<wf_engine, wf_shape, wf_calls, wf_file>>
  /\ wf_id' = wf_id + 1 /\ wf_stale' = FALSE
  /\ wf_past' = [s \in Steps |-> "none"]
  /\ wf_run'.at = "idle" /\ wf_run'.status # "failed"
  /\ wf_run'.index = 0 /\ wf_run'.start = 0 /\ wf_run'.undo = 0

Move ==
  \/ MoveStays \/ MoveOver \/ MoveHandled \/ MoveDone \/ MoveSaves \/ MoveOpens
  \/ MoveWrites \/ MoveEnds \/ MoveFails \/ MoveUndone \/ MoveFinishes \/ MoveRecreates
  \/ \E s \in Steps : MoveUndoes(s) \/ MoveLeaves(s)
  \/ \E resume \in BOOLEAN : MoveStarts(resume)

LEMMA EnterMoves ==
  ASSUME Fields, WfEnter
  PROVE  wf_run' \in Runs /\ MoveStays
<1>1. PICK r : r = [wf_run EXCEPT !.at = "try", !.attempt = 0]
  OBVIOUS
<1>2. r \in Runs
  BY <1>1, Ranges DEF Fields, Runs
<1>3. /\ r.at = "try" /\ r.index = wf_run.index /\ r.ctx = wf_run.ctx
      /\ r.names = wf_run.names /\ r.completed = wf_run.completed
      /\ r.grouped = wf_run.grouped /\ r.undo = wf_run.undo /\ r.undone = wf_run.undone
      /\ r.pending = wf_run.pending /\ r.start = wf_run.start
  BY <1>1 DEF Fields, Runs
<1>4. wf_run' = r
  BY <1>1 DEF WfEnter
<1>. QED
  BY <1>2, <1>3, <1>4 DEF WfEnter, Due, MoveStays, InStep, Rests, SameUndo, SameWork,
     wf_fixed, Step

LEMMA StepThrowsMoves ==
  ASSUME Fields, Places, WfStepThrows
  PROVE  wf_run' \in Runs /\ MoveStays
<1>1. PICK r \in Runs :
        /\ wf_run' = r /\ r.at \in {"try", "handle"} /\ r.index = wf_run.index
        /\ r.ctx = wf_run.ctx
        /\ r.names = wf_run.names /\ r.completed = wf_run.completed
        /\ r.grouped = wf_run.grouped /\ r.undo = wf_run.undo /\ r.undone = wf_run.undone
        /\ r.pending = wf_run.pending /\ r.start = wf_run.start
  <2>1. CASE wf_run.attempt < WfRetry /\ ~Grouped
    <3>1. PICK n \in 0 .. WfRetry : n = wf_run.attempt + 1
      BY <2>1, Ranges DEF Fields, Runs
    <3>2. PICK r : r = [wf_run EXCEPT !.attempt = n]
      OBVIOUS
    <3>3. r \in Runs
      BY <3>2 DEF Fields, Runs
    <3>4. /\ r.at = wf_run.at /\ r.index = wf_run.index /\ r.ctx = wf_run.ctx
          /\ r.names = wf_run.names /\ r.completed = wf_run.completed
          /\ r.grouped = wf_run.grouped /\ r.undo = wf_run.undo
          /\ r.undone = wf_run.undone
          /\ r.pending = wf_run.pending /\ r.start = wf_run.start
      BY <3>2 DEF Fields, Runs
    <3>5. wf_run' = r /\ wf_run.at = "try"
      BY <2>1, <3>1, <3>2 DEF WfStepThrows, At
    <3>. QED
      BY <3>3, <3>4, <3>5
  <2>2. CASE ~(wf_run.attempt < WfRetry /\ ~Grouped)
    <3>2. PICK r : r = [wf_run EXCEPT !.at = "handle"]
      OBVIOUS
    <3>3. r \in Runs
      BY <3>2 DEF Fields, Runs
    <3>4. /\ r.at = "handle" /\ r.index = wf_run.index /\ r.ctx = wf_run.ctx
          /\ r.names = wf_run.names /\ r.completed = wf_run.completed
          /\ r.grouped = wf_run.grouped /\ r.undo = wf_run.undo
          /\ r.undone = wf_run.undone
          /\ r.pending = wf_run.pending /\ r.start = wf_run.start
      BY <3>2 DEF Fields, Runs
    <3>5. wf_run' = r
      BY <2>2, <3>2 DEF WfStepThrows
    <3>. QED
      BY <3>3, <3>4, <3>5
  <2>. QED
    BY <2>1, <2>2
<1>. QED
  BY <1>1 DEF WfStepThrows, MoveStays, InStep, Rests, SameUndo, SameWork, Places,
     wf_fixed, Step

LEMMA PassesOver ==
  ASSUME Fields, InStep, Rests, UNCHANGED <<wf_file, wf_stale>>, wf_run' = GoOn(wf_run),
         \/ wf_past' = [wf_past EXCEPT ![Step] = "skipped"]
         \/ ~Required /\ wf_past' = [wf_past EXCEPT ![Step] = "optional"]
  PROVE  wf_run' \in Runs /\ MoveOver
BY GoOnRun DEF Fields, InStep, MoveOver, Advances, SameUndo, SameWork

LEMMA FailsOrEnds ==
  ASSUME Fields, Places, InStep, Rests, UNCHANGED <<wf_file, wf_past, wf_stale>>,
         NEW run \in Runs, wf_run' = Failing(run),
         run.index = Step, run.ctx = wf_run.ctx, run.completed = wf_run.completed,
         run.undone = wf_run.undone, run.pending = wf_run.pending,
         run.start = wf_run.start, run.undo = wf_run.undo, run.grouped = wf_run.grouped
  PROVE  wf_run' \in Runs /\ (MoveFails \/ MoveEnds)
<1>1. CASE wf_engine = "async"
  BY <1>1, FailingRun DEF MoveFails
<1>2. CASE wf_engine # "async"
  BY <1>2, FailingRun DEF MoveEnds, Places, Step
<1>. QED
  BY <1>1, <1>2

LEMMA ConditionFailsMoves ==
  ASSUME Fields, Places, InStep, Rests, UNCHANGED <<wf_file, wf_stale>>, ConditionFails
  PROVE  wf_run' \in Runs /\ Move
<1>1. CASE Required
  <2>1. wf_run' = Failing(wf_run) /\ UNCHANGED wf_past
    BY <1>1 DEF ConditionFails
  <2>. QED
    BY <2>1, FailsOrEnds DEF Fields, Step, Move
<1>2. CASE ~Required
  BY <1>2, PassesOver DEF ConditionFails, Move
<1>. QED
  BY <1>1, <1>2

LEMMA HandledMoves ==
  ASSUME Fields, Places, WfHandled
  PROVE  wf_run' \in Runs /\ MoveHandled
<1>1. Step < WfSteps /\ Step \in Steps
  BY StepIsOne DEF WfHandled, Places, Fields
<1>2. PICK c \in SUBSET Steps : c = wf_run.ctx \cup {Step}
  BY <1>1, AddedRun DEF Fields
<1>3. PICK q \in Seq(Steps) : q = Append(wf_run.completed, Step)
  BY <1>1, AddedRun DEF Fields
<1>4. PICK r : r = [wf_run EXCEPT !.ctx = c, !.completed = q]
  OBVIOUS
<1>5. r \in Runs
  BY <1>4 DEF Fields, Runs
<1>6. /\ r.ctx = c /\ r.completed = q /\ r.names = wf_run.names
      /\ r.grouped = wf_run.grouped /\ r.undo = wf_run.undo /\ r.undone = wf_run.undone
      /\ r.pending = wf_run.pending /\ r.start = wf_run.start
  BY <1>4 DEF Fields, Runs
<1>7. wf_run' = GoOn(r)
  BY <1>2, <1>3, <1>4 DEF WfHandled
<1>8. wf_run' \in Runs /\ wf_run'.at = "loop" /\ wf_run'.index = Step + 1 /\ SameUndo /\ Adds
      /\ wf_run'.names = wf_run.names /\ wf_run'.grouped = wf_run.grouped
  BY <1>1, <1>2, <1>3, <1>5, <1>6, <1>7, GoOnRun DEF Fields, SameUndo, Adds
<1>. QED
  BY <1>1, <1>8 DEF WfHandled, MoveHandled, Advances, InStep, Rests, wf_fixed

LEMMA UnhandledMoves ==
  ASSUME Fields, Places, WfUnhandled
  PROVE  wf_run' \in Runs /\ Move
<1>1. InStep /\ Rests /\ UNCHANGED <<wf_file, wf_stale>>
  BY DEF WfUnhandled, Places, InStep, Rests, wf_fixed
<1>2. PICK n \in Nat : n = wf_run.failed + 1
  BY DEF Fields, Runs
<1>3. PICK r : r = [wf_run EXCEPT !.failed = n]
  OBVIOUS
<1>4. r \in Runs
  BY <1>3 DEF Fields, Runs
<1>5. /\ r.index = Step /\ r.ctx = wf_run.ctx /\ r.completed = wf_run.completed
      /\ r.names = wf_run.names /\ r.grouped = wf_run.grouped /\ r.undo = wf_run.undo
      /\ r.undone = wf_run.undone /\ r.pending = wf_run.pending /\ r.start = wf_run.start
  BY <1>3 DEF Fields, Runs, Step
<1>6. CASE Required
  <2>1. wf_run' = Failing(r) /\ UNCHANGED wf_past
    BY <1>2, <1>3, <1>6 DEF WfUnhandled
  <2>. QED
    BY <1>1, <1>4, <1>5, <2>1, FailsOrEnds DEF Move
<1>7. CASE ~Required
  <2>1. wf_run' = GoOn(r) /\ wf_past' = [wf_past EXCEPT ![Step] = "optional"]
    BY <1>2, <1>3, <1>7 DEF WfUnhandled
  <2>2. wf_run' \in Runs /\ MoveOver
    BY <1>1, <1>4, <1>5, <1>7, <2>1, GoOnRun
       DEF Fields, InStep, MoveOver, Advances, SameUndo, SameWork
  <2>. QED
    BY <2>2 DEF Move
<1>. QED
  BY <1>6, <1>7

LEMMA StepOkMoves ==
  ASSUME Fields, Places, WfStepOk
  PROVE  wf_run' \in Runs /\ (MoveDone \/ MoveSaves)
<1>1. Step < WfSteps /\ Step \in Steps /\ InStep /\ Rests /\ UNCHANGED <<wf_file, wf_stale>>
  BY StepIsOne DEF WfStepOk, Places, Fields, InStep, Rests, wf_fixed
<1>2. PICK c \in SUBSET Steps : c = wf_run.ctx \cup {Step}
  BY <1>1, AddedRun DEF Fields
<1>3. PICK q \in Seq(Steps) : q = Append(wf_run.completed, Step)
  BY <1>1, AddedRun DEF Fields
<1>4. PICK n \in Nat : n = wf_run.names + 1
  BY DEF Fields, Runs
<1>5. PICK g \in BOOLEAN : g = (wf_run.grouped \/ Grouped)
  BY DEF Grouped, Fields, Runs
<1>6. PICK r : r = [wf_run EXCEPT !.names = n, !.completed = q, !.ctx = c, !.grouped = g]
  OBVIOUS
<1>7. Completed = r
  BY <1>2, <1>3, <1>4, <1>5, <1>6 DEF Completed
<1>8. r \in Runs
  BY <1>6 DEF Fields, Runs
<1>9. /\ r.ctx = c /\ r.completed = q /\ r.names = n /\ r.grouped = g /\ r.index = Step
      /\ r.undo = wf_run.undo /\ r.undone = wf_run.undone
      /\ r.pending = wf_run.pending /\ r.start = wf_run.start
  BY <1>6 DEF Fields, Runs, Step
<1>10. wf_past' = [wf_past EXCEPT ![Step] = "done"]
  BY DEF WfStepOk
<1>11. CASE ~Grouped /\ SaveIsDue(wf_run.names + 1)
  <2>1. PICK r2 : r2 = [r EXCEPT !.at = "save"]
    OBVIOUS
  <2>2. wf_run' = r2
    BY <1>7, <1>11, <2>1 DEF WfStepOk
  <2>3. r2 \in Runs
    BY <1>8, <2>1 DEF Runs
  <2>4. /\ r2.at = "save" /\ r2.ctx = c /\ r2.completed = q /\ r2.names = n
        /\ r2.grouped = g /\ r2.index = Step
        /\ r2.undo = wf_run.undo /\ r2.undone = wf_run.undone
        /\ r2.pending = wf_run.pending /\ r2.start = wf_run.start
    BY <1>8, <1>9, <2>1 DEF Runs
  <2>5. SameUndo /\ Adds
    BY <1>2, <1>3, <2>2, <2>4 DEF SameUndo, Adds
  <2>6. g = wf_run.grouped
    BY <1>5, <1>11 DEF Fields, Runs
  <2>. QED
    BY <1>1, <1>4, <1>10, <1>11, <2>2, <2>3, <2>4, <2>5, <2>6 DEF MoveSaves
<1>12. CASE ~(~Grouped /\ SaveIsDue(wf_run.names + 1))
  <2>1. wf_run' = GoOn(r)
    BY <1>7, <1>12 DEF WfStepOk
  <2>2. /\ wf_run' \in Runs /\ wf_run'.at = "loop" /\ wf_run'.index = Step + 1
        /\ SameUndo /\ Adds /\ wf_run'.names = n /\ wf_run'.grouped = g
    BY <1>1, <1>2, <1>3, <1>8, <1>9, <2>1, GoOnRun DEF Fields, SameUndo, Adds
  <2>3. ~g => ~wf_run.grouped /\ ~SaveIsDue(wf_run.names + 1)
    BY <1>5, <1>12
  <2>. QED
    BY <1>1, <1>4, <1>10, <2>2, <2>3 DEF MoveDone, Advances
<1>. QED
  BY <1>11, <1>12

LEMMA SavingMoves ==
  ASSUME Fields, Places, WfSaveOpens \/ WfSaveWrites \/ WfSaveThrows
  PROVE  wf_run' \in Runs /\ (MoveOpens \/ MoveWrites \/ MoveEnds)
<1>1. CASE WfSaveOpens
  <2>1. PICK r : r = [wf_run EXCEPT !.at = "write"]
    OBVIOUS
  <2>2. r \in Runs
    BY <2>1 DEF Fields, Runs
  <2>3. /\ r.at = "write" /\ r.ctx = wf_run.ctx /\ r.completed = wf_run.completed
        /\ r.names = wf_run.names /\ r.grouped = wf_run.grouped /\ r.index = Step
        /\ r.undo = wf_run.undo /\ r.undone = wf_run.undone
        /\ r.pending = wf_run.pending /\ r.start = wf_run.start
    BY <2>1 DEF Fields, Runs, Step
  <2>4. wf_run' = r
    BY <1>1, <2>1 DEF WfSaveOpens
  <2>. QED
    BY <1>1, <2>2, <2>3, <2>4 DEF WfSaveOpens, MoveOpens, Rests, wf_fixed, SameUndo, SameWork
<1>2. CASE WfSaveWrites
  <2>1. Step < WfSteps /\ wf_run' = GoOn(wf_run)
    BY <1>2 DEF WfSaveWrites, Places, InSave
  <2>2. wf_run' \in Runs /\ wf_run'.at = "loop" /\ wf_run'.index = Step + 1 /\ SameUndo /\ SameWork
    BY <2>1, GoOnRun DEF Fields, SameUndo, SameWork
  <2>. QED
    BY <1>2, <2>2 DEF WfSaveWrites, MoveWrites, Rests, wf_fixed
<1>3. CASE WfSaveThrows
  <2>1. PICK r : r = [wf_run EXCEPT !.at = "idle", !.status = "threw"]
    OBVIOUS
  <2>2. r \in Runs
    BY <2>1 DEF Fields, Runs
  <2>3. /\ r.at = "idle" /\ r.status = "threw" /\ r.index = Step /\ r.start = wf_run.start
        /\ r.undo = wf_run.undo /\ r.completed = wf_run.completed
    BY <2>1 DEF Fields, Runs, Step
  <2>4. wf_run' = r
    BY <1>3, <2>1 DEF WfSaveThrows
  <2>. QED
    BY <1>3, <2>2, <2>3, <2>4 DEF WfSaveThrows, MoveEnds, Rests, wf_fixed, Places, Step
<1>. QED
  BY <1>1, <1>2, <1>3

LEMMA RejectMoves ==
  ASSUME Fields, Places, WfReject
  PROVE  wf_run' \in Runs /\ MoveEnds
<1>1. PICK r : r = [wf_run EXCEPT !.at = "idle", !.status = "failed"]
  OBVIOUS
<1>2. r \in Runs
  BY <1>1 DEF Fields, Runs
<1>3. /\ r.at = "idle" /\ r.index = Step /\ r.start = wf_run.start
      /\ r.undo = wf_run.undo /\ r.completed = wf_run.completed
  BY <1>1 DEF Fields, Runs, Step
<1>4. wf_run' = r
  BY <1>1 DEF WfReject
<1>. QED
  BY <1>2, <1>3, <1>4 DEF WfReject, MoveEnds, Rests, wf_fixed, Places, Step

(* Compensation.                                                           *)
LEMMA UndoingIsStep ==
  ASSUME Fields, Places, wf_run.undo > 0
  PROVE  Undoing \in Steps /\ wf_run.undo - 1 \in Nat /\ wf_run.undo \in DOMAIN wf_run.completed
BY DEF Fields, Runs, Places, Undoing

LEMMA UndoMoves ==
  ASSUME Fields, Places, NEW works \in BOOLEAN, WfUndo(works)
  PROVE  wf_run' \in Runs /\ \E s \in Steps : MoveUndoes(s)
<1>1. PICK s \in Steps : s = Undoing
  BY UndoingIsStep DEF WfUndo
<1>2. PICK u \in Nat : u = wf_run.undo - 1
  BY UndoingIsStep DEF WfUndo
<1>3. PICK q \in Seq(Steps) : q = Append(wf_run.undone, s)
  <2>1. wf_run.undone \in Seq(Steps)
    BY DEF Fields, Runs
  <2>2. Append(wf_run.undone, s) \in Seq(Steps)
    BY <2>1
  <2>. QED
    BY <2>2
<1>4. PICK p \in SUBSET Steps : p = IF works THEN wf_run.pending ELSE wf_run.pending \cup {s}
  BY <1>1 DEF Fields, Runs
<1>5. PICK r : r = [wf_run EXCEPT !.undo = u, !.undone = q, !.pending = p]
  OBVIOUS
<1>6. wf_run' = r
  BY <1>1, <1>2, <1>3, <1>4, <1>5 DEF WfUndo
<1>7. r \in Runs
  BY <1>5 DEF Fields, Runs
<1>8. /\ r.at = wf_run.at /\ r.undo = u /\ r.undone = q /\ r.pending = p /\ r.index = Step
      /\ r.start = wf_run.start /\ r.ctx = wf_run.ctx /\ r.completed = wf_run.completed
      /\ r.grouped = wf_run.grouped
  BY <1>5 DEF Fields, Runs, Step
<1>9. SameFailed /\ At("undo") /\ wf_run.undo > 0
  BY <1>6, <1>8 DEF SameFailed, Rests, wf_fixed, WfUndo
<1>10. wf_past' = IF works THEN [wf_past EXCEPT ![s] = "undone"] ELSE wf_past
  BY <1>1 DEF WfUndo
<1>11. MoveUndoes(s)
  BY <1>1, <1>2, <1>3, <1>4, <1>6, <1>8, <1>9, <1>10 DEF MoveUndoes, At
<1>. QED
  BY <1>6, <1>7, <1>11

LEMMA UndoNothingMoves ==
  ASSUME Fields, Places, WfUndoNothing
  PROVE  wf_run' \in Runs /\ \E s \in Steps : MoveLeaves(s)
<1>1. PICK s \in Steps : s = Undoing
  BY UndoingIsStep DEF WfUndoNothing
<1>2. PICK u \in Nat : u = wf_run.undo - 1
  BY UndoingIsStep DEF WfUndoNothing
<1>5. PICK r : r = [wf_run EXCEPT !.undo = u]
  OBVIOUS
<1>6. wf_run' = r
  BY <1>2, <1>5 DEF WfUndoNothing
<1>7. r \in Runs
  BY <1>5 DEF Fields, Runs
<1>8. /\ r.at = wf_run.at /\ r.undo = u /\ r.undone = wf_run.undone
      /\ r.pending = wf_run.pending /\ r.index = Step
      /\ r.start = wf_run.start /\ r.ctx = wf_run.ctx /\ r.completed = wf_run.completed
      /\ r.grouped = wf_run.grouped
  BY <1>5 DEF Fields, Runs, Step
<1>9. SameFailed /\ At("undo") /\ wf_run.undo > 0 /\ UNCHANGED wf_past
  BY <1>6, <1>8 DEF SameFailed, Rests, wf_fixed, WfUndoNothing
<1>11. MoveLeaves(s)
  BY <1>1, <1>2, <1>6, <1>8, <1>9 DEF MoveLeaves, At, WfUndoNothing
<1>. QED
  BY <1>6, <1>7, <1>11

LEMMA FailedMoves ==
  ASSUME Fields, Places, WfFailed
  PROVE  wf_run' \in Runs /\ MoveUndone
<1>1. PICK r : r = [wf_run EXCEPT !.at = "idle", !.status = "failed"]
  OBVIOUS
<1>2. r \in Runs
  BY <1>1 DEF Fields, Runs
<1>3. /\ r.at = "idle" /\ r.index = Step /\ r.start = wf_run.start /\ r.ctx = wf_run.ctx
      /\ r.undo = wf_run.undo /\ r.completed = wf_run.completed
      /\ r.undone = wf_run.undone /\ r.pending = wf_run.pending
      /\ r.grouped = wf_run.grouped
  BY <1>1 DEF Fields, Runs, Step
<1>4. wf_run' = r
  BY <1>1 DEF WfFailed
<1>. QED
  BY <1>2, <1>3, <1>4 DEF WfFailed, MoveUndone, SameFailed, Rests, wf_fixed

LEMMA FinishMoves ==
  ASSUME Fields, Places, NEW deleted \in BOOLEAN, WfFinish(deleted)
  PROVE  wf_run' \in Runs /\ MoveFinishes
<1>1. PICK st \in {"success", "partial"} : st = IF wf_run.failed = 0 THEN "success" ELSE "partial"
  OBVIOUS
<1>2. PICK r : r = [wf_run EXCEPT !.at = "idle", !.status = st]
  OBVIOUS
<1>3. r \in Runs
  BY <1>2 DEF Fields, Runs
<1>4. /\ r.at = "idle" /\ r.status = st /\ r.index = Step /\ r.start = wf_run.start
      /\ r.undo = wf_run.undo /\ r.completed = wf_run.completed
  BY <1>2 DEF Fields, Runs, Step
<1>5. wf_run' = r
  BY <1>1, <1>2 DEF WfFinish
<1>6. wf_stale' \in BOOLEAN
  BY DEF WfFinish, Vouches
<1>7. \/ wf_file' = NoFile
      \/ wf_file' = wf_file /\ (Vouches(wf_file) => wf_stale')
  <2>1. CASE deleted
    BY <2>1 DEF WfFinish
  <2>2. CASE ~deleted
    <3>1. wf_stale' = (TRUE /\ Vouches(wf_file))
      BY <2>2, Zenon DEF WfFinish
    <3>2. wf_file' = wf_file
      BY <2>2 DEF WfFinish
    <3>. QED
      BY <3>1, <3>2, Zenon
  <2>. QED
    BY <2>1, <2>2
<1>8. Rests /\ UNCHANGED wf_past
  BY DEF WfFinish, Rests, wf_fixed
<1>. QED
  BY <1>1, <1>3, <1>4, <1>5, <1>6, <1>7, <1>8 DEF MoveFinishes

LEMMA IdleRun ==
  ASSUME NEW status \in {"none", "running", "crashed"}
  PROVE  Idle(status) \in Runs
BY Ranges DEF Idle, Runs

LEMMA CallMoves ==
  ASSUME Fields, NEW resume \in BOOLEAN, WfCall(resume)
  PROVE  wf_run' \in Runs /\ MoveStarts(resume)
<1>1. PICK i : i = Idle("running")
  OBVIOUS
<1>2. i \in Runs
  BY <1>1, IdleRun
<1>3. /\ i.index = 0 /\ i.start = 0 /\ i.names = 0 /\ i.completed = << >> /\ i.undo = 0
      /\ i.undone = << >> /\ i.pending = {} /\ i.ctx = {}
  BY <1>1 DEF Idle
<1>4. CASE resume /\ Vouches(wf_file)
  <2>1. wf_file.step_index \in 0 .. WfSteps /\ wf_file.context \in SUBSET Steps
    BY <1>4 DEF Vouches, Fields, NoFile, TornFile, Checkpoint
  <2>2. PICK k \in 0 .. WfSteps, c \in SUBSET Steps :
          k = wf_file.step_index /\ c = wf_file.context
    BY <2>1
  <2>3. PICK r : r = [i EXCEPT !.at = "loop", !.index = k, !.start = k, !.ctx = c]
    OBVIOUS
  <2>4. wf_run' = r
    BY <1>1, <1>4, <2>2, <2>3 DEF WfCall, Started
  <2>5. r \in Runs
    BY <1>2, <2>3 DEF Runs
  <2>6. /\ r.at = "loop" /\ r.index = k /\ r.start = k /\ r.ctx = c /\ r.names = 0
        /\ r.completed = << >> /\ r.undo = 0 /\ r.undone = << >> /\ r.pending = {}
    BY <1>2, <1>3, <2>3 DEF Runs
  <2>. QED
    BY <1>4, <2>2, <2>4, <2>5, <2>6 DEF WfCall, MoveStarts, wf_fixed, At
<1>5. CASE ~(resume /\ Vouches(wf_file))
  <2>3. PICK r : r = [i EXCEPT !.at = "loop"]
    OBVIOUS
  <2>4. wf_run' = r
    BY <1>1, <1>5, <2>3 DEF WfCall, Started
  <2>5. r \in Runs
    BY <1>2, <2>3 DEF Runs
  <2>6. /\ r.at = "loop" /\ r.index = 0 /\ r.start = 0 /\ r.names = 0
        /\ r.completed = << >> /\ r.undo = 0 /\ r.undone = << >> /\ r.pending = {}
    BY <1>2, <1>3, <2>3 DEF Runs
  <2>. QED
    BY <1>5, <2>4, <2>5, <2>6 DEF WfCall, MoveStarts, wf_fixed, At
<1>. QED
  BY <1>4, <1>5

LEMMA CrashMoves ==
  ASSUME Fields, NEW recreated \in BOOLEAN, WfCrash(recreated)
  PROVE  wf_run' \in Runs /\ (MoveEnds \/ MoveRecreates)
<1>1. PICK i : i = Idle("crashed")
  OBVIOUS
<1>2. i \in Runs
  BY <1>1, IdleRun
<1>3. /\ i.index = 0 /\ i.start = 0 /\ i.completed = << >> /\ i.undo = 0
      /\ i.at = "idle" /\ i.status = "crashed"
  BY <1>1 DEF Idle
<1>4. wf_run' = i
  BY <1>1 DEF WfCrash
<1>5. i.index >= i.start /\ i.undo <= Len(i.completed)
  BY <1>3
<1>. QED
  BY <1>2, <1>3, <1>4, <1>5 DEF WfCrash, MoveEnds, MoveRecreates, Rests, wf_fixed

LEMMA Moves ==
  ASSUME Fields, Places, WfNext
  PROVE  wf_run' \in Runs /\ Move
<1>1. CASE WfReject
  BY <1>1, RejectMoves DEF Move
<1>2. CASE WfEnter
  BY <1>2, EnterMoves DEF Move
<1>3. CASE WfConditionThrows
  BY <1>3, ConditionFailsMoves DEF WfConditionThrows, Due, InStep, Rests, wf_fixed
<1>4. CASE WfSkip
  <2>1. InStep /\ Rests /\ UNCHANGED <<wf_file, wf_stale>>
    BY <1>4 DEF WfSkip, Due, InStep, Rests, wf_fixed
  <2>2. CASE wf_engine = "sync"
    BY <1>4, <2>1, <2>2, ConditionFailsMoves DEF WfSkip
  <2>3. CASE wf_engine # "sync"
    BY <1>4, <2>1, <2>3, PassesOver DEF WfSkip, Move
  <2>. QED
    BY <2>2, <2>3
<1>5. CASE WfStepOk
  BY <1>5, StepOkMoves DEF Move
<1>6. CASE WfStepThrows
  BY <1>6, StepThrowsMoves DEF Move
<1>7. CASE WfHandled
  BY <1>7, HandledMoves DEF Move
<1>8. CASE WfUnhandled
  BY <1>8, UnhandledMoves
<1>9. CASE WfSaveOpens \/ WfSaveWrites \/ WfSaveThrows
  BY <1>9, SavingMoves DEF Move
<1>10. CASE WfUndoNothing
  BY <1>10, UndoNothingMoves DEF Move
<1>11. CASE WfFailed
  BY <1>11, FailedMoves DEF Move
<1>12. CASE \E yes \in BOOLEAN : WfUndo(yes)
  BY <1>12, UndoMoves DEF Move
<1>13. CASE \E yes \in BOOLEAN : WfFinish(yes)
  BY <1>13, FinishMoves DEF Move
<1>14. CASE \E yes \in BOOLEAN : WfCall(yes)
  BY <1>14, CallMoves DEF Move
<1>15. CASE \E yes \in BOOLEAN : WfCrash(yes)
  BY <1>15, CrashMoves DEF Move
<1>. QED
  BY <1>1, <1>2, <1>3, <1>4, <1>5, <1>6, <1>7, <1>8, <1>9, <1>10, <1>11, <1>12, <1>13,
     <1>14, <1>15 DEF WfNext, WfStep

-----------------------------------------------------------------------------
(* The invariants, move by move.                                           *)

LEMMA FileTypes ==
  ASSUME Fields
  PROVE  /\ wf_file.is = "saved" => wf_file \in Checkpoint
         /\ Vouches(wf_file) =>
              /\ wf_file.step_index \in 0 .. WfSteps /\ wf_file.context \in SUBSET Steps
              /\ wf_file.workflow_id = wf_id
BY DEF Fields, NoFile, TornFile, Checkpoint, Vouches

LEMMA NotSaved ==
  /\ NoFile.is # "saved" /\ TornFile.is # "saved"
  /\ ~Vouches(NoFile) /\ ~Vouches(TornFile)
BY DEF NoFile, TornFile, Vouches

LEMMA RunTypes ==
  ASSUME Fields
  PROVE  /\ Step \in 0 .. WfSteps /\ wf_run.start \in 0 .. WfSteps
         /\ wf_run.ctx \in SUBSET Steps /\ wf_run.names \in Nat
         /\ wf_run.completed \in Seq(Steps) /\ wf_run.undo \in Nat
         /\ wf_run.undone \in Seq(Steps) /\ wf_run.pending \in SUBSET Steps
BY DEF Fields, Runs, Step

LEMMA TypesStep ==
  ASSUME Fields, Places, wf_run' \in Runs, Move
  PROVE  Fields'
<1>1. /\ wf_engine' \in {"sync", "async"} /\ wf_shape' \in WfShapes /\ wf_id' \in Nat
      /\ wf_calls' \in 0 .. WfMaxCalls
  BY WfAssumption DEF Fields, Move, MoveStays, MoveOver, MoveHandled, MoveDone, MoveSaves,
     MoveOpens, MoveWrites, MoveEnds, MoveFails, MoveUndone, MoveFinishes, MoveRecreates,
     MoveUndoes, MoveLeaves, MoveStarts, Advances, Rests, SameFailed
<1>2. wf_past' \in [Steps -> Outcomes]
  BY DEF Fields, Outcomes, Move, MoveStays, MoveOver, MoveHandled, MoveDone, MoveSaves,
     MoveOpens, MoveWrites, MoveEnds, MoveFails, MoveUndone, MoveFinishes, MoveRecreates,
     MoveUndoes, MoveLeaves, MoveStarts, Advances, SameFailed
<1>3. wf_stale' \in BOOLEAN
  BY DEF Fields, Misled, Vouches, Anew, Move, MoveStays, MoveOver, MoveHandled, MoveDone,
     MoveSaves, MoveOpens, MoveWrites, MoveEnds, MoveFails, MoveUndone, MoveFinishes,
     MoveRecreates, MoveUndoes, MoveLeaves, MoveStarts, Advances, SameFailed
<1>4. wf_file' \in {NoFile, TornFile} \cup Checkpoint
  <2>1. CASE MoveWrites
    <3>1. Step + 1 \in 0 .. WfSteps /\ wf_run.names <= Step + 1
      BY <2>1, StepIsOne DEF MoveWrites, Places, InSave, Fields
    <3>2. PICK k \in 0 .. WfSteps : k = Step + 1
      BY <3>1
    <3>3. wf_run.names \in 0 .. WfSteps
      BY <3>1, RunTypes, Ranges
    <3>4. PICK n \in 0 .. WfSteps, c \in SUBSET Steps : n = wf_run.names /\ c = wf_run.ctx
      BY <3>3, RunTypes
    <3>5. PICK id \in Nat : id = wf_id
      BY DEF Fields
    <3>6. [is |-> "saved", workflow_id |-> id, step_index |-> k, context |-> c,
           steps_completed |-> n] \in Checkpoint
      BY DEF Checkpoint
    <3>. QED
      BY <2>1, <3>2, <3>4, <3>5, <3>6 DEF MoveWrites, Saved
  <2>2. CASE ~MoveWrites
    BY <2>2 DEF Fields, Move, MoveStays, MoveOver, MoveHandled, MoveDone, MoveSaves,
       MoveOpens, MoveEnds, MoveFails, MoveUndone, MoveFinishes, MoveRecreates,
       MoveUndoes, MoveLeaves, MoveStarts, Advances, SameFailed
  <2>. QED
    BY <2>1, <2>2
<1>. QED
  BY <1>1, <1>2, <1>3, <1>4 DEF Fields

LEMMA PlacesStep ==
  ASSUME Fields, Places, wf_run' \in Runs, Move
  PROVE  Places'
<1> USE DEF Places, InSave, At, Step
<1>1. CASE MoveStays
  BY <1>1, RunTypes DEF MoveStays, InStep, Rests, SameUndo, SameWork
<1>2. CASE MoveOver
  BY <1>2, RunTypes DEF MoveOver, Advances, InStep, Rests, SameUndo, SameWork
<1>3. CASE MoveHandled \/ MoveDone
  <2>1. Step \in Steps
    BY <1>3, StepIsOne DEF MoveHandled, MoveDone, Advances, InStep, Fields
  <2>2. Len(wf_run'.completed) = Len(wf_run.completed) + 1
    BY <1>3, <2>1, RunTypes DEF MoveHandled, MoveDone, Adds
  <2>. QED
    BY <1>3, <2>2, RunTypes DEF MoveHandled, MoveDone, Advances, InStep, SameUndo
<1>4. CASE MoveSaves
  <2>1. Step \in Steps
    BY <1>4, StepIsOne DEF MoveSaves, InStep, Fields
  <2>2. Len(wf_run'.completed) = Len(wf_run.completed) + 1
    BY <1>4, <2>1, RunTypes DEF MoveSaves, Adds
  <2>3. wf_past'[Step] = "done"
    BY <1>4, <2>1 DEF MoveSaves, Fields
  <2>. QED
    BY <1>4, <2>2, <2>3, RunTypes DEF MoveSaves, InStep, SameUndo, SaveIsDue, Adds
<1>5. CASE MoveOpens
  BY <1>5, RunTypes DEF MoveOpens, Rests, SameUndo, SameWork
<1>6. CASE MoveWrites
  BY <1>6, RunTypes DEF MoveWrites, Rests, SameUndo, SameWork
<1>7. CASE MoveEnds \/ MoveRecreates
  <2>1. wf_run'.completed \in Seq(Steps)
    BY DEF Runs
  <2>. QED
    BY <1>7, <2>1, RunTypes DEF MoveEnds, MoveRecreates
<1>8. CASE MoveFails
  BY <1>8, RunTypes DEF MoveFails
<1>9. CASE MoveUndone \/ MoveFinishes
  BY <1>9, RunTypes DEF MoveUndone, MoveFinishes, SameFailed
<1>10. ASSUME NEW s \in Steps, MoveUndoes(s) \/ MoveLeaves(s) PROVE Places'
  BY <1>10, RunTypes DEF MoveUndoes, MoveLeaves, SameFailed
<1>11. ASSUME NEW resume \in BOOLEAN, MoveStarts(resume) PROVE Places'
  BY <1>11, FileTypes DEF MoveStarts
<1>. QED
  BY <1>1, <1>2, <1>3, <1>4, <1>5, <1>6, <1>7, <1>8, <1>9, <1>10, <1>11 DEF Move

LEMMA FileStep ==
  ASSUME Fields, Places, FileOK, wf_run' \in Runs, Move
  PROVE  FileOK'
<1> USE DEF FileOK, At, Step
<1>1. CASE MoveStays \/ MoveOver \/ MoveHandled \/ MoveDone \/ MoveSaves
  <2>1. /\ wf_file' = wf_file /\ wf_id' = wf_id
        /\ wf_stale' = wf_stale /\ ~At("idle") /\ wf_run'.index >= Step
    BY <1>1, RunTypes DEF MoveStays, MoveOver, MoveHandled, MoveDone, MoveSaves, Advances, InStep,
       Rests
  <2>2. Vouches(wf_file)' => Vouches(wf_file) /\ wf_file.step_index \in Nat
    BY <2>1, FileTypes DEF Vouches
  <2>3. Step \in Nat /\ wf_run'.index \in Nat
    BY RunTypes DEF Runs
  <2>. QED
    BY <2>1, <2>2, <2>3
<1>2. CASE MoveOpens
  BY <1>2, NotSaved DEF MoveOpens, Vouches
<1>3. CASE MoveWrites
  BY <1>3, RunTypes DEF MoveWrites, Saved, Rests, Fields
<1>4. CASE MoveEnds \/ MoveUndone
  BY <1>4 DEF MoveEnds, MoveUndone, SameFailed, Rests
<1>5. CASE MoveRecreates
  BY <1>5, FileTypes DEF MoveRecreates, Fields, Checkpoint
<1>6. CASE MoveFinishes
  BY <1>6, NotSaved DEF MoveFinishes, Rests
<1>7. CASE MoveFails
  BY <1>7 DEF MoveFails, InStep, Rests, Vouches
<1>8. ASSUME NEW s \in Steps, MoveUndoes(s) \/ MoveLeaves(s) PROVE FileOK'
  BY <1>8 DEF MoveUndoes, MoveLeaves, SameFailed, Rests, Vouches
<1>9. ASSUME NEW resume \in BOOLEAN, MoveStarts(resume) PROVE FileOK'
  <2>1. wf_file' = wf_file /\ wf_id' = wf_id
    BY <1>9 DEF MoveStarts
  <2>2. Vouches(wf_file)' => Vouches(wf_file) /\ wf_file.step_index \in Nat
    BY <2>1, FileTypes DEF Vouches
  <2>3. Vouches(wf_file) /\ ~wf_stale' => resume
    BY <1>9 DEF MoveStarts, Anew
  <2>4. Vouches(wf_file) /\ resume => wf_run'.index = wf_file.step_index
    BY <1>9 DEF MoveStarts
  <2>. QED
    BY <2>1, <2>2, <2>3, <2>4
<1>. QED
  BY <1>1, <1>2, <1>3, <1>4, <1>5, <1>6, <1>7, <1>8, <1>9 DEF Move

-----------------------------------------------------------------------------
(* Nothing is skipped.                                                     *)

(* The outcome of the step under way changes.                              *)
PassedThen(k, c) ==
  \A s \in Steps : s < k =>
    /\ wf_past'[s] # "none"
    /\ s \in wf_shape'.required => wf_past'[s] # "optional"
    /\ wf_past'[s] \in {"done", "handled", "undone"} => s \in c

Harmless(outcome) == outcome = "skipped" \/ (outcome = "optional" /\ ~Required)
Fruitful(outcome) == outcome \in {"done", "handled"}

LEMMA PassedNow ==
  ASSUME Fields, Step < WfSteps, NEW outcome, NEW k \in Nat, NEW c, Passed(k, c),
         UNCHANGED wf_shape, wf_past' = [wf_past EXCEPT ![Step] = outcome],
         Harmless(outcome) \/ (Fruitful(outcome) /\ k <= Step)
  PROVE  PassedThen(k, c)
<1>1. Step \in Steps
  BY StepIsOne DEF Fields
<1>2. \A s \in Steps : wf_past'[s] = IF s = Step THEN outcome ELSE wf_past[s]
  BY <1>1 DEF Fields
<1>3. Step \in Nat /\ Steps \subseteq Nat
  BY RunTypes, Ranges DEF Steps
<1>. QED
  BY <1>1, <1>2, <1>3 DEF PassedThen, Passed, Harmless, Fruitful, Required

LEMMA PassedOn ==
  ASSUME Fields, Step < WfSteps, NEW outcome, NEW c, Passed(Step, wf_run.ctx),
         UNCHANGED wf_shape, wf_past' = [wf_past EXCEPT ![Step] = outcome],
         \/ Harmless(outcome) /\ c = wf_run.ctx
         \/ Fruitful(outcome) /\ c = wf_run.ctx \cup {Step}
  PROVE  PassedThen(Step + 1, c) /\ PassedThen(Step, c)
<1>1. Step \in Steps
  BY StepIsOne DEF Fields
<1>2. \A s \in Steps : wf_past'[s] = IF s = Step THEN outcome ELSE wf_past[s]
  BY <1>1 DEF Fields
<1>3. Step \in Nat /\ Steps \subseteq Nat
  BY RunTypes, Ranges DEF Steps
<1>. QED
  BY <1>1, <1>2, <1>3 DEF PassedThen, Passed, Harmless, Fruitful, Required

LEMMA PassedUndone ==
  ASSUME Fields, NEW t \in Steps, NEW k, NEW c, Passed(k, c),
         UNCHANGED wf_shape,
         wf_past[t] \in {"done", "handled", "undone"},
         UNCHANGED wf_past \/ wf_past' = [wf_past EXCEPT ![t] = "undone"]
  PROVE  PassedThen(k, c)
<1>1. \A s \in Steps : wf_past'[s] = wf_past[s] \/ (s = t /\ wf_past'[s] = "undone")
  BY DEF Fields
<1>. QED
  BY <1>1 DEF PassedThen, Passed

CallPassed == ~At("idle") /\ ~Misled => Passed(Step, wf_run.ctx)
FilePassed == Vouches(wf_file) /\ ~wf_stale => Passed(wf_file.step_index, wf_file.context)

Undoable ==
  At("undo") => \A i \in 1 .. wf_run.undo :
                  wf_past[wf_run.completed[i]] \in {"done", "handled", "undone"}

LEMMA FileKept ==
  ASSUME Fields, FilePassed, UNCHANGED <<wf_file, wf_id, wf_stale>>,
         Vouches(wf_file) /\ ~wf_stale /\ Passed(wf_file.step_index, wf_file.context)
            => PassedThen(wf_file.step_index, wf_file.context)
  PROVE  FilePassed'
BY DEF FilePassed, PassedThen, Passed, Vouches

LEMMA NothingStep ==
  ASSUME Fields, Places, FileOK, Undoable, CallPassed, FilePassed, wf_run' \in Runs, Move
  PROVE  CallPassed' /\ FilePassed'
<1>1. CASE MoveStays \/ MoveFails
  <2>1. /\ UNCHANGED <<wf_file, wf_id, wf_stale, wf_past, wf_shape>>
        /\ wf_run'.index = Step /\ wf_run'.ctx = wf_run.ctx /\ wf_run'.start = wf_run.start
        /\ ~At("idle")
    BY <1>1 DEF MoveStays, MoveFails, Rests, InStep, SameUndo, SameWork, At
  <2>. QED
    BY <2>1 DEF CallPassed, FilePassed, Misled, Passed, Vouches, At, Step
<1>2. CASE MoveOver \/ MoveHandled \/ MoveDone \/ MoveSaves
  <2>1. /\ UNCHANGED <<wf_file, wf_id, wf_stale, wf_shape>>
        /\ Step < WfSteps /\ ~At("idle") /\ wf_run'.start = wf_run.start
    BY <1>2 DEF MoveOver, MoveHandled, MoveDone, MoveSaves, Advances, Rests, InStep, SameUndo, At
  <2>2. PICK outcome :
          /\ wf_past' = [wf_past EXCEPT ![Step] = outcome]
          /\ \/ Harmless(outcome) /\ wf_run'.ctx = wf_run.ctx
             \/ Fruitful(outcome) /\ wf_run'.ctx = wf_run.ctx \cup {Step}
    BY <1>2 DEF MoveOver, MoveHandled, MoveDone, MoveSaves, Harmless, Fruitful, SameWork, Adds
  <2>3. wf_run'.index = Step + 1 \/ wf_run'.index = Step
    BY <1>2 DEF MoveOver, MoveHandled, MoveDone, MoveSaves, Advances
  <2>4. CallPassed'
    <3>1. CASE Misled
      BY <2>1, <3>1 DEF Misled, CallPassed
    <3>2. CASE ~Misled
      <4>1. Passed(Step, wf_run.ctx)
        BY <2>1, <3>2 DEF CallPassed
      <4>2. PICK c : c = wf_run'.ctx
        OBVIOUS
      <4>3. PassedThen(Step + 1, c) /\ PassedThen(Step, c)
        BY <2>1, <2>2, <4>1, <4>2, PassedOn
      <4>. QED
        BY <2>3, <4>2, <4>3 DEF PassedThen, Passed, CallPassed, Step
    <3>. QED
      BY <3>1, <3>2
  <2>5. FilePassed'
    <3>1. ASSUME Vouches(wf_file), ~wf_stale, Passed(wf_file.step_index, wf_file.context)
          PROVE  PassedThen(wf_file.step_index, wf_file.context)
      <4>1. wf_file.step_index \in Nat /\ wf_file.step_index <= Step
        BY <2>1, <3>1, FileTypes DEF FileOK
      <4>2. PICK k, c : k = wf_file.step_index /\ c = wf_file.context
        OBVIOUS
      <4>3. PassedThen(k, c)
        BY <2>1, <2>2, <3>1, <4>1, <4>2, PassedNow
      <4>. QED
        BY <4>2, <4>3
    <3>. QED
      BY <2>1, <3>1, FileKept
  <2>. QED
    BY <2>4, <2>5
<1>3. CASE MoveOpens
  BY <1>3, NotSaved DEF MoveOpens, CallPassed, FilePassed, Misled, Passed, Vouches, Rests, SameUndo,
     SameWork, At, Step
<1>4. CASE MoveWrites
  <2>1. /\ wf_run'.index = Step + 1 /\ wf_run'.ctx = wf_run.ctx /\ wf_run'.start = wf_run.start
        /\ UNCHANGED <<wf_past, wf_shape>> /\ ~At("idle") /\ wf_stale' = Misled
        /\ Step \in wf_run.ctx /\ wf_past[Step] = "done" /\ Step < WfSteps
    BY <1>4 DEF MoveWrites, Rests, SameUndo, SameWork, Places, InSave, At
  <2>2. wf_file'.step_index = Step + 1 /\ wf_file'.context = wf_run.ctx
    BY <1>4 DEF MoveWrites, Saved
  <2>3. CASE ~Misled
    <3>1. Passed(Step, wf_run.ctx)
      BY <2>1, <2>3 DEF CallPassed
    <3>2. Step \in Nat /\ Steps \subseteq Nat
      BY RunTypes, Ranges DEF Steps
    <3>3. PassedThen(Step + 1, wf_run.ctx)
      <4> SUFFICES ASSUME NEW s \in Steps, s < Step + 1
                   PROVE  /\ wf_past[s] # "none"
                          /\ s \in wf_shape.required => wf_past[s] # "optional"
                          /\ wf_past[s] \in {"done", "handled", "undone"} => s \in wf_run.ctx
        BY <2>1 DEF PassedThen
      <4>1. CASE s = Step
        BY <2>1, <4>1
      <4>2. CASE s < Step
        BY <3>1, <4>2 DEF Passed
      <4>. QED
        BY <3>2, <4>1, <4>2
    <3>. QED
      BY <2>1, <2>2, <3>3 DEF PassedThen, Passed, CallPassed, FilePassed, Step
  <2>4. CASE Misled
    BY <2>1, <2>4 DEF Misled, CallPassed, FilePassed
  <2>. QED
    BY <2>3, <2>4
<1>5. CASE MoveEnds \/ MoveUndone
  <2>1. UNCHANGED <<wf_file, wf_id, wf_stale, wf_past, wf_shape>> /\ wf_run'.at = "idle"
    BY <1>5 DEF MoveEnds, MoveUndone, SameFailed, Rests
  <2>. QED
    BY <2>1 DEF CallPassed, FilePassed, Passed, Vouches, At
<1>6. CASE MoveRecreates
  <2>1. ~Vouches(wf_file)' /\ wf_run'.at = "idle"
    BY <1>6, FileTypes DEF MoveRecreates, FileOK, Vouches, Fields
  <2>. QED
    BY <2>1 DEF CallPassed, FilePassed, At
<1>7. CASE MoveFinishes
  <2>1. wf_run'.at = "idle" /\ UNCHANGED <<wf_id, wf_past, wf_shape>>
    BY <1>7 DEF MoveFinishes, Rests
  <2>2. Vouches(wf_file)' => wf_stale'
    BY <1>7, <2>1, NotSaved DEF MoveFinishes, Vouches
  <2>. QED
    BY <2>1, <2>2 DEF CallPassed, FilePassed, At
<1>8. ASSUME NEW s \in Steps, MoveUndoes(s) \/ MoveLeaves(s) PROVE CallPassed' /\ FilePassed'
  <2>1. /\ UNCHANGED <<wf_file, wf_id, wf_stale, wf_shape>>
        /\ wf_run'.index = Step /\ wf_run'.ctx = wf_run.ctx /\ wf_run'.start = wf_run.start
        /\ ~At("idle") /\ At("undo") /\ wf_run.undo > 0 /\ s = Undoing
        /\ UNCHANGED wf_past \/ wf_past' = [wf_past EXCEPT ![s] = "undone"]
    BY <1>8 DEF MoveUndoes, MoveLeaves, SameFailed, Rests, At
  <2>2. wf_past[s] \in {"done", "handled", "undone"}
    BY <2>1, RunTypes DEF Undoable, Undoing
  <2>3. CallPassed'
    <3>1. CASE Misled
      BY <2>1, <3>1 DEF Misled, CallPassed
    <3>2. CASE ~Misled
      <4>1. Passed(Step, wf_run.ctx)
        BY <2>1, <3>2 DEF CallPassed
      <4>2. PICK k, c : k = Step /\ c = wf_run.ctx
        OBVIOUS
      <4>3. PassedThen(k, c)
        BY <2>1, <2>2, <4>1, <4>2, PassedUndone
      <4>. QED
        BY <2>1, <4>2, <4>3 DEF PassedThen, Passed, CallPassed, Step
    <3>. QED
      BY <3>1, <3>2
  <2>4. FilePassed'
    <3>1. ASSUME Vouches(wf_file), ~wf_stale, Passed(wf_file.step_index, wf_file.context)
          PROVE  PassedThen(wf_file.step_index, wf_file.context)
      <4>2. PICK k, c : k = wf_file.step_index /\ c = wf_file.context
        OBVIOUS
      <4>3. PassedThen(k, c)
        BY <2>1, <2>2, <3>1, <4>2, PassedUndone
      <4>. QED
        BY <4>2, <4>3
    <3>. QED
      BY <2>1, <3>1, FileKept
  <2>. QED
    BY <2>3, <2>4
<1>9. ASSUME NEW resume \in BOOLEAN, MoveStarts(resume) PROVE CallPassed' /\ FilePassed'
  <2>1. wf_file' = wf_file /\ wf_id' = wf_id /\ wf_shape' = wf_shape
        /\ wf_run'.start = wf_run'.index
    BY <1>9 DEF MoveStarts
  <2>2. Vouches(wf_file)' => Vouches(wf_file)
    BY <2>1 DEF Vouches
  <2>3. Vouches(wf_file) /\ ~wf_stale' => ~Anew(resume) /\ ~wf_stale
    BY <1>9 DEF MoveStarts
  <2>4. ~Anew(resume) => resume /\ wf_past' = wf_past
    BY <1>9 DEF MoveStarts, Anew
  <2>5. FilePassed'
    BY <2>1, <2>2, <2>3, <2>4 DEF FilePassed, Passed
  <2>6. CallPassed'
    <3>1. CASE resume /\ Vouches(wf_file)
      <4>1. wf_run'.index = wf_file.step_index /\ wf_run'.ctx = wf_file.context
        BY <1>9, <3>1 DEF MoveStarts
      <4>2. CASE wf_stale'
        <5>1. wf_file.step_index \in Nat
          BY <3>1, FileTypes
        <5>2. CASE wf_file.step_index > 0
          BY <2>1, <4>1, <4>2, <5>2 DEF CallPassed, Misled
        <5>3. CASE wf_file.step_index = 0
          BY <4>1, <5>3, Ranges DEF CallPassed, Passed, Step, Steps
        <5>. QED
          BY <5>1, <5>2, <5>3
      <4>3. CASE ~wf_stale'
        <5>1. Passed(wf_file.step_index, wf_file.context)
          BY <2>3, <3>1, <4>3 DEF FilePassed
        <5>. QED
          BY <2>1, <2>3, <2>4, <3>1, <4>1, <4>3, <5>1 DEF CallPassed, Passed, Step
      <4>. QED
        BY <4>2, <4>3
    <3>2. CASE ~(resume /\ Vouches(wf_file))
      <4>1. wf_run'.index = 0
        BY <1>9, <3>2 DEF MoveStarts
      <4>. QED
        BY <4>1, Ranges DEF CallPassed, Passed, Step, Steps
    <3>. QED
      BY <3>1, <3>2
  <2>. QED
    BY <2>5, <2>6
<1>. QED
  BY <1>1, <1>2, <1>3, <1>4, <1>5, <1>6, <1>7, <1>8, <1>9 DEF Move

-----------------------------------------------------------------------------
(* What the asynchronous engine undoes.                                    *)

WfDealt == {"done", "handled", "undone"}

(* The completed steps are those this run has done, in their order.        *)
InOrder(q) == \A i, j \in DOMAIN q : i < j => q[i] < q[j]

OwnOK ==
  ~At("idle") =>
    /\ \A i \in DOMAIN wf_run.completed :
         /\ wf_past[wf_run.completed[i]] \in WfDealt
         /\ wf_run.completed[i] < Step \/ (InSave /\ wf_run.completed[i] = Step)
    /\ InOrder(wf_run.completed)

(* One it has done is still to be undone, but for those that need not or    *)
(* could not be.                                                           *)
Accounted(s) ==
  \/ \E i \in DOMAIN wf_run.completed :
       wf_run.completed[i] = s /\ (At("undo") => i <= wf_run.undo)
  \/ At("undo") /\ (s \notin wf_shape.compensable \/ s \in wf_run.pending)

Reached(s) == s < Step \/ (InSave /\ s = Step)

AccountOK ==
  ~At("idle") =>
    \A s \in Steps :
      s >= wf_run.start /\ Reached(s) /\ wf_past[s] \in {"done", "handled"} => Accounted(s)

Reversed(q) == \A i, j \in DOMAIN q : i < j => q[i] > q[j]

UndoneOK ==
  /\ At("undo") =>
       /\ wf_engine = "async"
       /\ Reversed(wf_run.undone)
       /\ \A i \in DOMAIN wf_run.undone, j \in 1 .. wf_run.undo :
            wf_run.undone[i] > wf_run.completed[j]
  /\ ~At("undo") /\ ~At("idle") => wf_run.undone = << >>

(* Completing a step appends it.                                           *)
LEMMA WfAppended ==
  ASSUME Fields, Step \in Steps, NEW q, q = Append(wf_run.completed, Step)
  PROVE  /\ DOMAIN q = 1 .. Len(wf_run.completed) + 1
         /\ DOMAIN wf_run.completed = 1 .. Len(wf_run.completed)
         /\ Len(wf_run.completed) \in Nat
         /\ q[Len(wf_run.completed) + 1] = Step
         /\ \A i \in DOMAIN wf_run.completed : q[i] = wf_run.completed[i]
BY RunTypes

LEMMA OwnAdds ==
  ASSUME Fields, OwnOK, Step < WfSteps, ~At("idle"), ~InSave, Adds, ~At("undo"),
         NEW outcome \in {"done", "handled"}, wf_past' = [wf_past EXCEPT ![Step] = outcome],
         \/ wf_run'.index = Step + 1 /\ ~InSave'
         \/ wf_run'.index = Step /\ InSave'
  PROVE  OwnOK'
<1>1. Step \in Steps /\ Step \in Nat
  BY StepIsOne, Ranges DEF Fields, Steps
<1>2. PICK q : q = wf_run'.completed /\ q = Append(wf_run.completed, Step)
  BY DEF Adds
<1>3. /\ DOMAIN q = 1 .. Len(wf_run.completed) + 1
      /\ DOMAIN wf_run.completed = 1 .. Len(wf_run.completed)
      /\ Len(wf_run.completed) \in Nat
      /\ q[Len(wf_run.completed) + 1] = Step
      /\ \A i \in DOMAIN wf_run.completed : q[i] = wf_run.completed[i]
  BY <1>1, <1>2, WfAppended
<1>4. \A i \in DOMAIN wf_run.completed :
        /\ wf_run.completed[i] \in Steps /\ wf_run.completed[i] \in Nat
        /\ wf_run.completed[i] < Step /\ wf_past[wf_run.completed[i]] \in WfDealt
  BY RunTypes, Ranges DEF OwnOK, Steps
<1>5. \A s \in Steps : wf_past'[s] = IF s = Step THEN outcome ELSE wf_past[s]
  BY <1>1 DEF Fields
<1>6. \A i \in DOMAIN q : /\ wf_past'[q[i]] \in WfDealt /\ q[i] \in Nat
                          /\ q[i] < Step \/ (i = Len(wf_run.completed) + 1 /\ q[i] = Step)
  BY <1>1, <1>3, <1>4, <1>5 DEF WfDealt
<1>7. InOrder(q)
  BY <1>3, <1>4 DEF InOrder, OwnOK
<1>8. \A i \in DOMAIN q : q[i] < wf_run'.index \/ (InSave' /\ q[i] = wf_run'.index)
  BY <1>1, <1>6
<1>. QED
  BY <1>2, <1>6, <1>7, <1>8 DEF OwnOK, Step

LEMMA OwnStep ==
  ASSUME Fields, Places, OwnOK, wf_run' \in Runs, Move
  PROVE  OwnOK'
<1>1. CASE MoveStays \/ MoveFails
  <2>1. /\ UNCHANGED wf_past /\ wf_run'.index = Step /\ wf_run'.completed = wf_run.completed
        /\ ~At("idle") /\ ~InSave
    BY <1>1 DEF MoveStays, MoveFails, InStep, SameWork, At, InSave
  <2>. QED
    BY <2>1 DEF OwnOK, Step, At
<1>2. CASE MoveOver
  <2>1. /\ wf_run'.index = Step + 1 /\ wf_run'.completed = wf_run.completed
        /\ ~At("idle") /\ ~InSave /\ Step < WfSteps
    BY <1>2 DEF MoveOver, Advances, InStep, SameWork, At, InSave
  <2>2. Step \in Steps /\ Step \in Nat
    BY <2>1, StepIsOne, Ranges DEF Fields, Steps
  <2>3. \A s \in Steps : s # Step => wf_past'[s] = wf_past[s]
    BY <1>2, <2>2 DEF MoveOver, Fields
  <2>4. \A i \in DOMAIN wf_run.completed :
          /\ wf_run.completed[i] \in Steps /\ wf_run.completed[i] \in Nat
          /\ wf_run.completed[i] < Step /\ wf_past[wf_run.completed[i]] \in WfDealt
    BY <2>1, RunTypes, Ranges DEF OwnOK, Steps
  <2>5. \A i \in DOMAIN wf_run.completed :
          wf_past'[wf_run.completed[i]] \in WfDealt /\ wf_run.completed[i] < Step + 1
    BY <2>2, <2>3, <2>4
  <2>. QED
    BY <2>1, <2>5 DEF OwnOK, Step
<1>3. CASE MoveHandled \/ MoveDone \/ MoveSaves
  <2>1. /\ Step < WfSteps /\ ~At("idle") /\ ~InSave /\ ~At("undo") /\ Adds
        /\ \/ wf_run'.index = Step + 1 /\ ~InSave'
           \/ wf_run'.index = Step /\ InSave'
        /\ \E outcome \in {"done", "handled"} : wf_past' = [wf_past EXCEPT ![Step] = outcome]
    BY <1>3 DEF MoveHandled, MoveDone, MoveSaves, Advances, InStep, At, InSave
  <2>. QED
    BY <2>1, OwnAdds
<1>4. CASE MoveOpens
  BY <1>4 DEF MoveOpens, SameWork, OwnOK, Step, At, InSave
<1>5. CASE MoveWrites
  <2>1. /\ UNCHANGED wf_past /\ wf_run'.index = Step + 1
        /\ wf_run'.completed = wf_run.completed /\ ~At("idle")
    BY <1>5 DEF MoveWrites, SameWork, At
  <2>2. Step \in Nat /\ \A i \in DOMAIN wf_run.completed : wf_run.completed[i] \in Nat
    BY RunTypes, Ranges DEF Steps
  <2>3. \A i \in DOMAIN wf_run.completed :
          /\ wf_run.completed[i] < Step \/ wf_run.completed[i] = Step
          /\ wf_past[wf_run.completed[i]] \in WfDealt
    BY <2>1 DEF OwnOK
  <2>4. \A i \in DOMAIN wf_run.completed : wf_run.completed[i] < Step + 1
    BY <2>2, <2>3
  <2>. QED
    BY <2>1, <2>3, <2>4 DEF OwnOK, Step
<1>6. CASE wf_run'.at = "idle"
  BY <1>6 DEF OwnOK, At
<1>7. ASSUME NEW s \in Steps, MoveUndoes(s) \/ MoveLeaves(s) PROVE OwnOK'
  <2>1. /\ wf_run'.index = Step /\ wf_run'.completed = wf_run.completed
        /\ ~At("idle") /\ ~InSave
        /\ UNCHANGED wf_past \/ wf_past' = [wf_past EXCEPT ![s] = "undone"]
    BY <1>7 DEF MoveUndoes, MoveLeaves, SameFailed, At, InSave
  <2>2. \A t \in Steps : wf_past'[t] = wf_past[t] \/ wf_past'[t] = "undone"
    BY <2>1 DEF Fields
  <2>3. \A i \in DOMAIN wf_run.completed : wf_run.completed[i] \in Steps
    BY RunTypes
  <2>. QED
    BY <2>1, <2>2, <2>3 DEF OwnOK, Step, WfDealt
<1>8. ASSUME NEW resume \in BOOLEAN, MoveStarts(resume) PROVE OwnOK'
  BY <1>8 DEF MoveStarts, OwnOK, InOrder
<1>. QED
  BY <1>1, <1>2, <1>3, <1>4, <1>5, <1>6, <1>7, <1>8 DEF Move, MoveEnds, MoveUndone,
     MoveFinishes, MoveRecreates

LEMMA AccountStep ==
  ASSUME Fields, Places, OwnOK, AccountOK, wf_run' \in Runs, Move
  PROVE  AccountOK'
<1> USE DEF Reached
<1>0. Step \in Nat /\ Steps \subseteq Nat
  BY RunTypes, Ranges DEF Steps
<1>1. CASE MoveStays
  <2>1. /\ UNCHANGED <<wf_past, wf_shape>> /\ wf_run'.index = Step
        /\ wf_run'.completed = wf_run.completed /\ wf_run'.start = wf_run.start
        /\ ~At("idle") /\ ~At("undo") /\ ~At("undo")' /\ ~InSave'
    BY <1>1 DEF MoveStays, InStep, SameWork, SameUndo, Rests, At, InSave
  <2>. QED
    BY <2>1 DEF AccountOK, Accounted, Step
<1>2. CASE MoveOver
  <2>1. /\ wf_run'.index = Step + 1 /\ wf_run'.completed = wf_run.completed
        /\ wf_run'.start = wf_run.start /\ UNCHANGED wf_shape
        /\ ~At("idle") /\ ~At("undo") /\ ~At("undo")' /\ Step < WfSteps /\ ~InSave'
    BY <1>2 DEF MoveOver, Advances, InStep, SameWork, SameUndo, Rests, At, InSave
  <2>2. Step \in Steps
    BY <2>1, StepIsOne DEF Fields
  <2>3. \A s \in Steps : s # Step => wf_past'[s] = wf_past[s]
    BY <1>2, <2>2 DEF MoveOver, Fields
  <2>4. wf_past'[Step] \notin {"done", "handled"}
    BY <1>2, <2>2 DEF MoveOver, Fields
  <2>5. \A s \in Steps : s >= wf_run.start /\ s < Step + 1 /\ wf_past'[s] \in {"done", "handled"}
                           => s < Step /\ wf_past[s] \in {"done", "handled"}
    BY <1>0, <2>3, <2>4
  <2>. QED
    BY <2>1, <2>5 DEF AccountOK, Accounted, Step
<1>3. CASE MoveHandled \/ MoveDone \/ MoveSaves
  <2>1. /\ Step < WfSteps /\ ~At("idle") /\ ~At("undo") /\ ~At("undo")' /\ Adds
        /\ \/ wf_run'.index = Step + 1 /\ ~InSave'
           \/ wf_run'.index = Step
        /\ wf_run'.start = wf_run.start
        /\ \E outcome \in {"done", "handled"} : wf_past' = [wf_past EXCEPT ![Step] = outcome]
    BY <1>3 DEF MoveHandled, MoveDone, MoveSaves, Advances, InStep, At, SameUndo, InSave
  <2>2. Step \in Steps
    BY <2>1, StepIsOne DEF Fields
  <2>3. \A s \in Steps : s # Step => wf_past'[s] = wf_past[s]
    BY <2>1, <2>2 DEF Fields
  <2>4. PICK q : q = wf_run'.completed /\ q = Append(wf_run.completed, Step)
    BY <2>1 DEF Adds
  <2>5. /\ DOMAIN q = 1 .. Len(wf_run.completed) + 1
        /\ DOMAIN wf_run.completed = 1 .. Len(wf_run.completed)
        /\ Len(wf_run.completed) \in Nat
        /\ q[Len(wf_run.completed) + 1] = Step
        /\ \A i \in DOMAIN wf_run.completed : q[i] = wf_run.completed[i]
    BY <2>2, <2>4, WfAppended
  <2>6. \A s \in Steps : s >= wf_run.start /\ s < Step + 1 /\ wf_past'[s] \in {"done", "handled"}
                           => s = Step \/ (s < Step /\ wf_past[s] \in {"done", "handled"})
    BY <1>0, <2>3
  <2>7. \A s \in Steps : s >= wf_run.start /\ s < Step /\ wf_past[s] \in {"done", "handled"}
                           => \E i \in DOMAIN wf_run.completed : wf_run.completed[i] = s
    BY <2>1 DEF AccountOK, Accounted
  <2>8. \A s \in Steps : s >= wf_run.start /\ s < Step + 1 /\ wf_past'[s] \in {"done", "handled"}
                           => \E i \in DOMAIN q : q[i] = s
    BY <2>5, <2>6, <2>7
  <2>9. \A s \in Steps : s < wf_run'.index \/ (InSave' /\ s = wf_run'.index) => s < Step + 1
    BY <1>0, <2>1
  <2>. QED
    BY <2>1, <2>4, <2>8, <2>9 DEF AccountOK, Accounted, Step
<1>4. CASE MoveOpens
  BY <1>4 DEF MoveOpens, SameWork, SameUndo, Rests, AccountOK, Accounted, Step, At, InSave
<1>5. CASE MoveWrites
  <2>1. /\ UNCHANGED <<wf_past, wf_shape>> /\ wf_run'.index = Step + 1
        /\ wf_run'.completed = wf_run.completed /\ wf_run'.start = wf_run.start
        /\ ~At("idle") /\ ~At("undo") /\ ~At("undo")' /\ InSave /\ ~InSave'
    BY <1>5 DEF MoveWrites, SameWork, SameUndo, Rests, At, InSave
  <2>2. \A s \in Steps : s < Step + 1 => s < Step \/ s = Step
    BY <1>0
  <2>. QED
    BY <2>1, <2>2 DEF AccountOK, Accounted, Step
<1>6. CASE wf_run'.at = "idle"
  BY <1>6 DEF AccountOK, At
<1>7. CASE MoveFails
  <2>1. /\ UNCHANGED <<wf_past, wf_shape>> /\ wf_run'.index = Step
        /\ wf_run'.completed = wf_run.completed /\ wf_run'.start = wf_run.start
        /\ ~At("idle") /\ ~At("undo") /\ At("undo")' /\ ~InSave'
        /\ wf_run'.undo = Len(wf_run.completed)
    BY <1>7 DEF MoveFails, InStep, Rests, At, InSave
  <2>2. \A i \in DOMAIN wf_run.completed : i <= Len(wf_run.completed)
    BY RunTypes
  <2>. QED
    BY <2>1, <2>2 DEF AccountOK, Accounted, Step
<1>8. ASSUME NEW t \in Steps, MoveUndoes(t) \/ MoveLeaves(t) PROVE AccountOK'
  <2>1. /\ UNCHANGED wf_shape /\ wf_run'.index = Step
        /\ wf_run'.completed = wf_run.completed /\ wf_run'.start = wf_run.start
        /\ ~At("idle") /\ At("undo") /\ At("undo")' /\ ~InSave'
        /\ wf_run.undo > 0 /\ wf_run'.undo = wf_run.undo - 1 /\ t = wf_run.completed[wf_run.undo]
        /\ wf_run.pending \subseteq wf_run'.pending
    BY <1>8 DEF MoveUndoes, MoveLeaves, SameFailed, Rests, At, InSave, Undoing
  <2>2. \/ wf_past'[t] = "undone" \/ t \in wf_run'.pending \/ t \notin wf_shape.compensable
    BY <1>8 DEF MoveUndoes, MoveLeaves, Fields
  <2>3. \A s \in Steps : s # t => wf_past'[s] = wf_past[s]
    BY <1>8 DEF MoveUndoes, MoveLeaves, Fields
  <2>4. SUFFICES ASSUME NEW s \in Steps, s >= wf_run.start, s < Step,
                        wf_past'[s] \in {"done", "handled"}
                 PROVE  Accounted(s)'
    BY <2>1 DEF AccountOK, Step
  <2>5. CASE s = t
    BY <2>1, <2>2, <2>4, <2>5 DEF Accounted
  <2>6. CASE s # t
    <3>1. Accounted(s)
      BY <2>1, <2>3, <2>4, <2>6 DEF AccountOK
    <3>2. CASE s \notin wf_shape.compensable \/ s \in wf_run.pending
      BY <2>1, <3>2 DEF Accounted
    <3>3. ASSUME NEW i \in DOMAIN wf_run.completed, wf_run.completed[i] = s, i <= wf_run.undo
          PROVE  Accounted(s)'
      <4>1. i # wf_run.undo /\ i \in Nat /\ wf_run.undo \in Nat
        BY <2>1, <2>6, <3>3, RunTypes
      <4>2. i <= wf_run.undo - 1
        BY <3>3, <4>1
      <4>. QED
        BY <2>1, <3>3, <4>2 DEF Accounted
    <3>. QED
      BY <2>1, <3>1, <3>2, <3>3 DEF Accounted
  <2>. QED
    BY <2>5, <2>6
<1>9. ASSUME NEW resume \in BOOLEAN, MoveStarts(resume) PROVE AccountOK'
  <2>1. wf_run'.index = wf_run'.start /\ wf_run'.at = "loop"
    BY <1>9 DEF MoveStarts
  <2>2. wf_run'.start \in Nat
    BY DEF Runs
  <2>. QED
    BY <1>0, <2>1, <2>2 DEF AccountOK, Step, InSave, At
<1>. QED
  BY <1>1, <1>2, <1>3, <1>4, <1>5, <1>6, <1>7, <1>8, <1>9 DEF Move, MoveEnds, MoveUndone,
     MoveFinishes, MoveRecreates

LEMMA UndoneStep ==
  ASSUME Fields, Places, OwnOK, UndoneOK, wf_run' \in Runs, Move
  PROVE  UndoneOK'
<1>1. CASE MoveStays \/ MoveOver \/ MoveHandled \/ MoveDone \/ MoveSaves \/ MoveOpens \/ MoveWrites
  <2>1. wf_run'.undone = wf_run.undone /\ ~At("undo") /\ ~At("idle") /\ ~At("undo")'
    BY <1>1 DEF MoveStays, MoveOver, MoveHandled, MoveDone, MoveSaves, MoveOpens, MoveWrites,
       Advances, InStep, SameUndo, At
  <2>. QED
    BY <2>1 DEF UndoneOK
<1>2. CASE wf_run'.at = "idle"
  BY <1>2 DEF UndoneOK, At
<1>3. CASE MoveFails
  <2>1. wf_run'.undone = << >> /\ wf_engine' = "async" /\ At("undo")'
    BY <1>3 DEF MoveFails, InStep, At, UndoneOK, Rests
  <2>. QED
    BY <2>1 DEF UndoneOK, Reversed, At
<1>4. ASSUME NEW t \in Steps, MoveUndoes(t) \/ MoveLeaves(t) PROVE UndoneOK'
  <2>1. /\ At("undo") /\ At("undo")' /\ wf_engine' = wf_engine
        /\ wf_run'.completed = wf_run.completed /\ t = wf_run.completed[wf_run.undo]
        /\ wf_run.undo > 0 /\ wf_run'.undo = wf_run.undo - 1
        /\ wf_run'.undone = wf_run.undone \/ wf_run'.undone = Append(wf_run.undone, t)
    BY <1>4 DEF MoveUndoes, MoveLeaves, SameFailed, Rests, At, Undoing
  <2>2. wf_engine = "async" /\ Reversed(wf_run.undone)
    BY <2>1 DEF UndoneOK
  <2>3. /\ wf_run.undo \in Nat /\ wf_run.undo <= Len(wf_run.completed)
        /\ DOMAIN wf_run.completed = 1 .. Len(wf_run.completed) /\ Len(wf_run.completed) \in Nat
        /\ \A i \in DOMAIN wf_run.completed : wf_run.completed[i] \in Nat
    BY RunTypes, Ranges DEF Places, Steps
  <2>4. \A j \in 1 .. wf_run.undo - 1 : wf_run.completed[j] < t
    BY <2>1, <2>3 DEF OwnOK, InOrder, At
  <2>5. \A i \in DOMAIN wf_run.undone, j \in 1 .. wf_run.undo :
          wf_run.undone[i] > wf_run.completed[j]
    BY <2>1 DEF UndoneOK
  <2>6. \A i \in DOMAIN wf_run.undone : wf_run.undone[i] > t
    BY <2>1, <2>3, <2>5
  <2>7. CASE wf_run'.undone = wf_run.undone
    <3>1. \A i \in DOMAIN wf_run.undone, j \in 1 .. wf_run.undo - 1 :
            wf_run.undone[i] > wf_run.completed[j]
      BY <2>3, <2>5
    <3>. QED
      BY <2>1, <2>2, <2>7, <3>1 DEF UndoneOK
  <2>8. CASE wf_run'.undone = Append(wf_run.undone, t)
    <3>1. PICK q : q = wf_run'.undone /\ q = Append(wf_run.undone, t)
      BY <2>8
    <3>2. /\ DOMAIN q = 1 .. Len(wf_run.undone) + 1
          /\ DOMAIN wf_run.undone = 1 .. Len(wf_run.undone)
          /\ Len(wf_run.undone) \in Nat
          /\ q[Len(wf_run.undone) + 1] = t
          /\ \A i \in DOMAIN wf_run.undone : q[i] = wf_run.undone[i]
      BY <3>1, RunTypes
    <3>3. Reversed(q)
      BY <2>2, <2>6, <3>2 DEF Reversed
    <3>4. \A i \in DOMAIN wf_run.undone, j \in 1 .. wf_run.undo - 1 :
            wf_run.undone[i] > wf_run.completed[j]
      BY <2>3, <2>5
    <3>5. \A j \in 1 .. wf_run.undo - 1 : t > wf_run.completed[j]
      BY <2>3, <2>4, Ranges DEF Steps
    <3>6. \A i \in DOMAIN q, j \in 1 .. wf_run.undo - 1 : q[i] > wf_run.completed[j]
      BY <3>2, <3>4, <3>5
    <3>. QED
      BY <2>1, <2>2, <3>1, <3>3, <3>6 DEF UndoneOK
  <2>. QED
    BY <2>1, <2>7, <2>8
<1>5. ASSUME NEW resume \in BOOLEAN, MoveStarts(resume) PROVE UndoneOK'
  BY <1>5 DEF MoveStarts, UndoneOK, At
<1>. QED
  BY <1>1, <1>2, <1>3, <1>4, <1>5 DEF Move, MoveEnds, MoveUndone, MoveFinishes, MoveRecreates

(* So it is when the call has failed.                                      *)
LEMMA RollbackStep ==
  ASSUME Fields, Places, AccountOK, UndoneOK, wf_run' \in Runs, Move
  PROVE  WfRollback'
<1> SUFFICES ASSUME wf_run'.at = "idle", wf_run'.status = "failed", wf_engine' = "async"
             PROVE  WfRollback'
  BY DEF WfRollback, At
<1>1. CASE MoveUndone
  <2>1. /\ At("undo") /\ wf_run.undo = 0 /\ UNCHANGED <<wf_past, wf_shape>>
        /\ wf_run'.index = Step /\ wf_run'.start = wf_run.start
        /\ wf_run'.undone = wf_run.undone /\ wf_run'.pending = wf_run.pending
    BY <1>1 DEF MoveUndone, SameFailed, Rests
  <2>2. \A s \in Steps : s >= wf_run.start /\ s < Step /\ wf_past[s] \in {"done", "handled"}
                           => s \notin wf_shape.compensable \/ s \in wf_run.pending
    <3>1. \A i \in DOMAIN wf_run.completed : ~(i <= 0)
      BY RunTypes
    <3>. QED
      BY <2>1, <3>1 DEF AccountOK, Accounted, Reached, At
  <2>3. Reversed(wf_run.undone)
    BY <2>1 DEF UndoneOK
  <2>4. DOMAIN wf_run.undone = 1 .. Len(wf_run.undone)
    BY RunTypes
  <2>. QED
    BY <2>1, <2>2, <2>3, <2>4 DEF WfRollback, Reversed, Step, At
<1>2. CASE ~MoveUndone
  BY <1>2 DEF Move, MoveStays, MoveOver, MoveHandled, MoveDone, MoveSaves, MoveOpens, MoveWrites,
     MoveEnds, MoveFails, MoveFinishes, MoveRecreates, MoveUndoes, MoveLeaves, MoveStarts,
     Advances, Rests
<1>. QED
  BY <1>1, <1>2

-----------------------------------------------------------------------------
(* What a crash can cost.                                                  *)

DoneSince == DoneSinceTo(Step - 1)
InWork == At("loop") \/ At("try") \/ At("handle")

(* The plain steps done since the last checkpoint are counted by the        *)
(* remainder of completedStepNames.length; the one that makes it 0 is the   *)
(* one after which the file is written.                                    *)
LossOK ==
  (~wf_run.grouped /\ ~wf_stale /\ WfEvery > 0) =>
    /\ InWork => Cardinality(DoneSince) = wf_run.names % WfEvery
    /\ At("save") => Cardinality(DoneSinceTo(Step)) = WfEvery
    /\ At("undo") => Cardinality(DoneSince) < WfEvery

LEMMA Division ==
  ASSUME NEW e \in Nat, e > 0, NEW n \in Nat
  PROVE  n = ((n \div e) * e) + (n % e)
BY Z3

LEMMA Remainder ==
  ASSUME NEW e \in Nat, e > 0, NEW n \in Nat
  PROVE  /\ n % e \in Nat /\ n % e < e
         /\ (n + 1) % e # 0 => (n + 1) % e = (n % e) + 1
         /\ (n + 1) % e = 0 => (n % e) + 1 = e
<1>1. n % e \in 0 .. e - 1 /\ (n + 1) % e \in 0 .. e - 1
  OBVIOUS
<1>2. /\ n = ((n \div e) * e) + (n % e)
      /\ n + 1 = (((n + 1) \div e) * e) + ((n + 1) % e)
  BY Division
<1> DEFINE a == n \div e
           b == (n + 1) \div e
           r == n % e
           q == (n + 1) % e
<1>3. a \in Int /\ b \in Int /\ r \in 0 .. e - 1 /\ q \in 0 .. e - 1
  BY <1>1
<1>4. (b - a) * e = r + 1 - q
  BY <1>2, <1>3
<1> HIDE DEF a, b, r, q
<1>5. q # 0 => q = r + 1
  <2>1. CASE b - a <= -1
    <3>1. (b - a) * e <= -e
      BY <1>3, <2>1, Z3
    <3>. QED
      BY <1>3, <1>4, <3>1
  <2>2. CASE b - a = 0
    BY <1>3, <1>4, <2>2
  <2>3. CASE b - a >= 1
    <3>1. (b - a) * e >= e
      BY <1>3, <2>3, Z3
    <3>. QED
      BY <1>3, <1>4, <3>1
  <2>. QED
    BY <1>3, <2>1, <2>2, <2>3
<1>6. q = 0 => r + 1 = e
  <2>1. CASE b - a <= 0
    <3>1. (b - a) * e <= 0
      BY <1>3, <2>1, Z3
    <3>. QED
      BY <1>3, <1>4, <3>1
  <2>2. CASE b - a >= 1
    <3>1. (b - a) * e >= e
      BY <1>3, <2>2, Z3
    <3>. QED
      BY <1>3, <1>4, <3>1
  <2>. QED
    BY <1>3, <2>1, <2>2
<1>. QED
  BY <1>3, <1>5, <1>6 DEF r, q

LEMMA SinceType ==
  ASSUME Fields
  PROVE  Since \in Nat
BY FileTypes DEF Since

LEMMA DoneSinceFinite ==
  ASSUME Fields
  PROVE  IsFiniteSet(DoneSince) /\ Cardinality(DoneSince) \in Nat
<1>1. Since \in Int /\ Step - 1 \in Int
  BY SinceType, RunTypes
<1>2. IsFiniteSet(Since .. Step - 1)
  BY <1>1, FS_Interval
<1>3. DoneSince \subseteq Since .. Step - 1
  BY DEF DoneSince, DoneSinceTo
<1>. QED
  BY <1>2, <1>3, FS_Subset, FS_CardinalityType

LEMMA SinceBelow ==
  ASSUME Fields, FileOK, ~At("idle"), ~wf_stale
  PROVE  Since <= Step
BY FileTypes, RunTypes DEF FileOK, Since

(* One more step done is one more to lose.                                 *)
LEMMA OneMoreDone ==
  ASSUME Fields, FileOK, At("loop") \/ At("try") \/ At("handle"), ~wf_stale, Step < WfSteps,
         wf_past' = [wf_past EXCEPT ![Step] = "done"], Since' = Since
  PROVE  Cardinality({s \in Since .. Step : wf_past'[s] = "done"}) = Cardinality(DoneSince) + 1
<1>0. Step \in Nat /\ Since \in Nat
  BY RunTypes, SinceType
<1>1. Step \in Steps /\ Since <= Step
  BY StepIsOne, SinceBelow DEF Fields, At
<1>2. wf_past'[Step] = "done" /\ \A s \in Since .. Step - 1 : wf_past'[s] = wf_past[s]
  <2>1. \A s \in Since .. Step - 1 : s \in Steps /\ s # Step
    BY <1>0, Ranges DEF Steps
  <2>. QED
    BY <1>1, <2>1 DEF Fields
<1>3. \A s : s \in Since .. Step <=> s \in Since .. Step - 1 \/ s = Step
  BY <1>0, <1>1
<1>4. Step \notin Since .. Step - 1
  BY <1>0
<1>5. {s \in Since .. Step : wf_past'[s] = "done"} = DoneSince \cup {Step} /\ Step \notin DoneSince
  BY <1>2, <1>3, <1>4 DEF DoneSince, DoneSinceTo
<1>. QED
  BY <1>5, DoneSinceFinite, FS_AddElement

(* Nothing is lost by undoing: what is undone is not done any more.         *)
LEMMA NoMoreDone ==
  ASSUME Fields, FileOK, ~At("idle"), Rests, UNCHANGED <<wf_file, wf_stale>>,
         wf_run'.index = Step, NEW s \in Steps,
         UNCHANGED wf_past \/ wf_past' = [wf_past EXCEPT ![s] = "undone"]
  PROVE  Cardinality(DoneSince') \in Nat /\ Cardinality(DoneSince') <= Cardinality(DoneSince)
<1>0. Step \in Nat /\ Since \in Nat
  BY RunTypes, SinceType
<1>1. Since' = Since
  BY DEF Since, Vouches, Rests
<1>2. CASE DoneSince' \subseteq DoneSince
  BY <1>2, DoneSinceFinite, FS_Subset, FS_CardinalityType
<1>3. DoneSince' \subseteq DoneSince
  <2>1. \A k \in Since .. Step - 1 : k \in Steps
    BY <1>0, RunTypes, Ranges DEF Steps
  <2>2. \A k \in Steps : wf_past'[k] = "done" => wf_past[k] = "done"
    BY DEF Fields
  <2>. QED
    BY <1>1, <2>1, <2>2 DEF DoneSince, DoneSinceTo, Step
<1>. QED
  BY <1>2, <1>3

LEMMA LossStep ==
  ASSUME Fields, Places, FileOK, LossOK, wf_run' \in Runs, Move
  PROVE  LossOK'
<1>0. Step \in Nat /\ Steps \subseteq Nat /\ Since \in Nat /\ wf_run.names \in Nat /\ WfEvery \in Nat
  BY RunTypes, SinceType, Ranges DEF Steps
<1> SUFFICES ASSUME ~wf_run'.grouped, ~wf_stale', WfEvery > 0
             PROVE  /\ InWork' => Cardinality(DoneSince') = wf_run'.names % WfEvery
                    /\ At("save")' => Cardinality(DoneSinceTo(Step)') = WfEvery
                    /\ At("undo")' => Cardinality(DoneSince') < WfEvery
  BY DEF LossOK
<1>1. CASE MoveStays
  <2>1. /\ UNCHANGED <<wf_file, wf_id, wf_past, wf_stale>> /\ wf_run'.index = Step
        /\ wf_run'.names = wf_run.names /\ wf_run.grouped = wf_run'.grouped
        /\ InWork
        /\ wf_run'.at \in {"loop", "try", "handle"}
    BY <1>1 DEF MoveStays, InStep, InWork, SameWork, Rests
  <2>2. DoneSince' = DoneSince
    BY <2>1 DEF DoneSince, DoneSinceTo, Since, Vouches, Step
  <2>. QED
    BY <2>1, <2>2 DEF LossOK, At
<1>2. CASE MoveOver \/ MoveHandled
  <2>1. /\ UNCHANGED <<wf_file, wf_id, wf_stale>> /\ wf_run'.index = Step + 1
        /\ wf_run'.names = wf_run.names /\ wf_run.grouped = wf_run'.grouped
        /\ InWork /\ wf_run'.at = "loop"
        /\ Step < WfSteps
    BY <1>2 DEF InWork, MoveOver, MoveHandled, Advances, InStep, SameWork, Rests
  <2>2. Step \in Steps /\ Since <= Step
    BY <2>1, StepIsOne, SinceBelow DEF Fields, At, InWork
  <2>3. PICK outcome : wf_past' = [wf_past EXCEPT ![Step] = outcome] /\ outcome # "done"
    BY <1>2 DEF MoveOver, MoveHandled
  <2>4. wf_past'[Step] # "done" /\ \A s \in Since .. Step - 1 : wf_past'[s] = wf_past[s]
    <3>1. \A s \in Since .. Step - 1 : s \in Steps /\ s # Step
      BY <1>0, <2>1, Ranges DEF Steps
    <3>. QED
      BY <2>2, <2>3, <3>1 DEF Fields
  <2>5. Since' = Since
    BY <2>1 DEF Since, Vouches
  <2>6. DoneSince' = DoneSince
    <3>1. \A s : s \in Since .. Step <=> s \in Since .. Step - 1 \/ s = Step
      BY <1>0, <2>2
    <3>2. Step + 1 - 1 = Step
      BY <1>0
    <3>. QED
      BY <2>1, <2>4, <2>5, <3>1, <3>2 DEF DoneSince, DoneSinceTo, Step
  <2>. QED
    BY <2>1, <2>6 DEF LossOK, At
<1>3. CASE MoveDone
  <2>1. /\ UNCHANGED <<wf_file, wf_id, wf_stale>> /\ wf_run'.index = Step + 1
        /\ wf_run'.names = wf_run.names + 1
        /\ ~wf_run.grouped /\ ~SaveIsDue(wf_run.names + 1)
        /\ InWork /\ wf_run'.at = "loop"
        /\ wf_past' = [wf_past EXCEPT ![Step] = "done"]
        /\ Step < WfSteps
    BY <1>3 DEF MoveDone, Advances, InStep, InWork, Rests
  <2>2. Since' = Since
    BY <2>1 DEF Since, Vouches
  <2>3. DoneSince' = {s \in Since .. Step : wf_past'[s] = "done"}
    <3>1. Step' - 1 = Step
      BY <1>0, <2>1 DEF Step
    <3>. QED
      BY <2>2, <3>1 DEF DoneSince, DoneSinceTo
  <2>4. Cardinality(DoneSince') = Cardinality(DoneSince) + 1
    BY <2>1, <2>2, <2>3, OneMoreDone DEF InWork
  <2>5. Cardinality(DoneSince) = wf_run.names % WfEvery
    BY <2>1 DEF LossOK
  <2>6. (wf_run.names + 1) % WfEvery = (wf_run.names % WfEvery) + 1
    BY <1>0, <2>1, Remainder DEF SaveIsDue
  <2>. QED
    BY <2>1, <2>4, <2>5, <2>6 DEF At
<1>4. CASE MoveWrites
  <2>1. /\ wf_run'.index = Step + 1 /\ wf_run'.names = wf_run.names
        /\ wf_run.names % WfEvery = 0 /\ wf_run'.at = "loop"
    BY <1>4 DEF MoveWrites, SameWork, Places, InSave
  <2>2. Since' = Step + 1
    BY <1>4 DEF MoveWrites, Saved, Since, Vouches, Rests
  <2>3. (Step + 1) .. (Step + 1 - 1) = {}
    BY <1>0
  <2>4. DoneSince' = {}
    BY <2>1, <2>2, <2>3 DEF DoneSince, DoneSinceTo, Step
  <2>. QED
    BY <2>1, <2>4, FS_EmptySet DEF At
<1>5. ASSUME NEW resume \in BOOLEAN, MoveStarts(resume)
      PROVE  Cardinality(DoneSince') = wf_run'.names % WfEvery
  <2>1. wf_file' = wf_file /\ wf_id' = wf_id /\ wf_run'.names = 0
    BY <1>5 DEF MoveStarts
  <2>2. Vouches(wf_file)' <=> Vouches(wf_file)
    BY <2>1 DEF Vouches
  <2>3. Vouches(wf_file) => resume
    BY <1>5 DEF MoveStarts, Anew
  <2>4. CASE Vouches(wf_file)
    <3>1. wf_run'.index = wf_file.step_index /\ wf_file.step_index \in Nat
      BY <1>5, <2>3, <2>4, FileTypes DEF MoveStarts
    <3>2. Since' = wf_file.step_index
      BY <2>1, <2>2, <2>4 DEF Since
    <3>3. \A k \in Nat : k .. k - 1 = {}
      OBVIOUS
    <3>4. DoneSince' = {}
      BY <3>1, <3>2, <3>3 DEF DoneSince, DoneSinceTo, Step
    <3>. QED
      BY <1>0, <2>1, <3>4, FS_EmptySet
  <2>5. CASE ~Vouches(wf_file)
    <3>1. wf_run'.index = 0
      BY <1>5, <2>5 DEF MoveStarts
    <3>2. Since' = 0
      BY <2>2, <2>5 DEF Since
    <3>3. DoneSince' = {}
      BY <3>1, <3>2 DEF DoneSince, DoneSinceTo, Step
    <3>. QED
      BY <1>0, <2>1, <3>3, FS_EmptySet
  <2>. QED
    BY <2>4, <2>5
<1>6. CASE MoveSaves
  <2>1. /\ UNCHANGED <<wf_file, wf_id, wf_stale>> /\ wf_run'.index = Step
        /\ ~wf_run.grouped /\ SaveIsDue(wf_run.names + 1)
        /\ InWork /\ wf_run'.at = "save"
        /\ wf_past' = [wf_past EXCEPT ![Step] = "done"]
        /\ Step < WfSteps
    BY <1>6 DEF MoveSaves, InStep, InWork, Rests
  <2>2. Since' = Since
    BY <2>1 DEF Since, Vouches
  <2>3. DoneSinceTo(Step)' = {s \in Since .. Step : wf_past'[s] = "done"}
    BY <2>1, <2>2 DEF DoneSinceTo, Step
  <2>4. Cardinality(DoneSinceTo(Step)') = Cardinality(DoneSince) + 1
    BY <2>1, <2>2, <2>3, OneMoreDone DEF InWork
  <2>5. Cardinality(DoneSince) = wf_run.names % WfEvery
    BY <2>1 DEF LossOK
  <2>6. (wf_run.names % WfEvery) + 1 = WfEvery
    BY <1>0, <2>1, Remainder DEF SaveIsDue
  <2>. QED
    BY <2>1, <2>4, <2>5, <2>6 DEF At, InWork
<1>7. CASE MoveFails
  <2>1. /\ UNCHANGED <<wf_file, wf_id, wf_past, wf_stale>> /\ wf_run'.index = Step
        /\ wf_run.grouped = wf_run'.grouped /\ InWork /\ wf_run'.at = "undo"
    BY <1>7 DEF MoveFails, InStep, InWork, Rests
  <2>2. DoneSince' = DoneSince
    BY <2>1 DEF DoneSince, DoneSinceTo, Since, Vouches, Step
  <2>3. Cardinality(DoneSince) < WfEvery
    BY <1>0, <2>1, Remainder DEF LossOK
  <2>. QED
    BY <2>1, <2>2, <2>3 DEF At, InWork
<1>8. ASSUME NEW s \in Steps, MoveUndoes(s) \/ MoveLeaves(s)
      PROVE  Cardinality(DoneSince') < WfEvery
  <2>1. /\ Rests /\ UNCHANGED <<wf_file, wf_stale>> /\ wf_run'.index = Step
        /\ wf_run.grouped = wf_run'.grouped /\ At("undo")
        /\ UNCHANGED wf_past \/ wf_past' = [wf_past EXCEPT ![s] = "undone"]
    BY <1>8 DEF MoveUndoes, MoveLeaves, SameFailed
  <2>2. Cardinality(DoneSince') \in Nat /\ Cardinality(DoneSince') <= Cardinality(DoneSince)
    BY <2>1, NoMoreDone DEF At
  <2>3. Cardinality(DoneSince) \in Nat /\ Cardinality(DoneSince) < WfEvery
    BY <2>1, DoneSinceFinite DEF LossOK
  <2>. QED
    BY <1>0, <2>2, <2>3
<1>9. CASE MoveOpens \/ MoveEnds \/ MoveUndone \/ MoveFinishes \/ MoveRecreates
  BY <1>9 DEF MoveOpens, MoveEnds, MoveUndone, MoveFinishes, MoveRecreates, At, InWork
<1>10. ASSUME NEW s \in Steps, MoveUndoes(s) \/ MoveLeaves(s)
       PROVE  ~InWork' /\ ~At("save")'
  BY <1>10 DEF MoveUndoes, MoveLeaves, At, InWork
<1>11. ASSUME NEW resume \in BOOLEAN, MoveStarts(resume)
       PROVE  wf_run'.at = "loop"
  BY <1>11 DEF MoveStarts
<1>. QED
  BY <1>1, <1>2, <1>3, <1>4, <1>5, <1>6, <1>7, <1>8, <1>9, <1>10, <1>11 DEF Move, At

-----------------------------------------------------------------------------
(* The inductive invariant.                                                *)
WfIInv ==
  /\ Fields /\ Places /\ FileOK
  /\ CallPassed /\ FilePassed
  /\ OwnOK /\ AccountOK /\ UndoneOK /\ WfRollback
  /\ LossOK

LEMMA OwnUndoable ==
  ASSUME Fields, Places, OwnOK
  PROVE  Undoable
<1> SUFFICES ASSUME At("undo"), NEW i \in 1 .. wf_run.undo
             PROVE  wf_past[wf_run.completed[i]] \in {"done", "handled", "undone"}
  BY DEF Undoable
<1>1. i \in DOMAIN wf_run.completed
  BY RunTypes DEF Places
<1>. QED
  BY <1>1 DEF OwnOK, WfDealt, At

LEMMA InitInvariant == WfInit => WfIInv
<1> SUFFICES ASSUME WfInit PROVE WfIInv
  OBVIOUS
<1>1. PICK r : r = wf_run /\ r = Idle("none")
  BY DEF WfInit
<1>2. r \in Runs
  BY <1>1, IdleRun
<1>3. /\ r.index = 0 /\ r.start = 0 /\ r.undo = 0 /\ r.completed = << >> /\ r.at = "idle"
      /\ r.status = "none"
  BY <1>1 DEF Idle
<1>4. Fields
  <2>1. wf_past \in [Steps -> Outcomes]
    BY DEF WfInit, Outcomes
  <2>2. wf_calls \in 0 .. WfMaxCalls
    BY WfAssumption DEF WfInit
  <2>. QED
    BY <1>1, <1>2, <2>1, <2>2 DEF WfInit, Fields
<1>5. At("idle") /\ ~InSave /\ ~At("save") /\ ~At("loop") /\ ~At("try") /\ ~At("handle") /\ ~At("undo")
  BY <1>1, <1>3 DEF At, InSave
<1>6. Places
  <2>1. wf_run.start <= wf_run.index /\ wf_run.undo <= Len(wf_run.completed)
    BY <1>1, <1>3
  <2>. QED
    BY <1>5, <2>1 DEF Places
<1>7. FileOK /\ FilePassed
  BY <1>5, NotSaved DEF WfInit, FileOK, FilePassed
<1>8. WfRollback
  BY <1>1, <1>3 DEF WfRollback
<1>. QED
  BY <1>4, <1>5, <1>6, <1>7, <1>8 DEF WfIInv, CallPassed, OwnOK, AccountOK, UndoneOK, LossOK, InWork

LEMMA NextInvariant == WfIInv /\ [WfNext]_wf_vars => WfIInv'
<1> SUFFICES ASSUME WfIInv, [WfNext]_wf_vars PROVE WfIInv'
  OBVIOUS
<1>1. CASE WfNext
  <2>1. wf_run' \in Runs /\ Move
    BY <1>1, Moves DEF WfIInv
  <2>. QED
    BY <2>1, TypesStep, PlacesStep, FileStep, OwnUndoable, NothingStep, OwnStep, AccountStep,
       UndoneStep, RollbackStep, LossStep DEF WfIInv
<1>2. CASE UNCHANGED wf_vars
  <2>1. /\ UNCHANGED <<wf_engine, wf_shape, wf_id, wf_calls, wf_file, wf_run, wf_past, wf_stale>>
    BY <1>2 DEF wf_vars
  <2>2. Fields' /\ Places' /\ FileOK' /\ CallPassed' /\ FilePassed'
    BY <2>1 DEF WfIInv, Fields, Places, FileOK, CallPassed, FilePassed, Passed, Misled, Vouches,
       InSave, At, Step
  <2>3. OwnOK' /\ AccountOK' /\ UndoneOK' /\ WfRollback'
    BY <2>1 DEF WfIInv, OwnOK, AccountOK, UndoneOK, WfRollback, Accounted, Reached, InSave, At, Step
  <2>4. LossOK'
    BY <2>1 DEF WfIInv, LossOK, InWork, DoneSince, DoneSinceTo, Since, Vouches, At, Step
  <2>. QED
    BY <2>2, <2>3, <2>4 DEF WfIInv
<1>. QED
  BY <1>1, <1>2

(* Every reachable state satisfies the inductive invariant (workflow_run,   *)
(* workflow_run_async, saveCheckpoint, loadCheckpoint, applyCompensations). *)
THEOREM WfInvariance == WfSpec => []WfIInv
BY InitInvariant, NextInvariant, PTL DEF WfSpec

(* Every local variable of the engines keeps its type.                     *)
THEOREM WfTypeCorrect == WfSpec => []WfTypeOK
<1>1. WfIInv => WfTypeOK
  <2> SUFFICES ASSUME WfIInv PROVE WfTypeOK
    OBVIOUS
  <2>1. /\ wf_run.start \in 0 .. wf_run.index /\ wf_run.undo \in 0 .. Len(wf_run.completed)
    BY RunTypes DEF WfIInv, Places, Step
  <2>2. /\ wf_run.index \in 0 .. WfSteps
        /\ wf_run.at \in {"idle", "loop", "try", "handle", "save", "write", "undo"}
        /\ wf_run.attempt \in 0 .. WfRetry
        /\ wf_run.ctx \subseteq Steps /\ wf_run.completed \in Seq(Steps)
    BY DEF WfIInv, Fields, Runs
  <2>. QED
    BY <2>1, <2>2 DEF WfIInv, Fields, WfTypeOK
<1>. QED
  BY <1>1, WfInvariance, PTL

(* Wherever a call resumes, it skips no step and carries the results of     *)
(* those before it, whatever crashes, saves and other workflows have done   *)
(* to the file (loadCheckpoint, saveCheckpoint).                           *)
THEOREM NothingSkipped == WfSpec => []WfNothingSkipped
<1>1. WfIInv => WfNothingSkipped
  BY DEF WfIInv, CallPassed, FilePassed, WfNothingSkipped
<1>. QED
  BY <1>1, WfInvariance, PTL

(* Wherever a call is but between the cut and the write of its file, a      *)
(* crash costs fewer than checkpoint_every plain steps, and where the file  *)
(* is about to be written checkpoint_every (workflow_run, saveCheckpoint).  *)
THEOREM LossIsBounded == WfSpec => []WfLossBounded
<1>1. WfIInv => WfLossBounded
  <2> SUFFICES ASSUME WfIInv, ~wf_run.grouped, ~wf_stale, WfEvery > 0,
                      ~At("idle"), ~At("write")
               PROVE  IF At("save") THEN Cardinality(DoneSinceTo(Step)) = WfEvery
                                    ELSE Cardinality(DoneSinceTo(Step - 1)) < WfEvery
    BY DEF WfLossBounded
  <2>1. wf_run.names \in Nat /\ WfEvery \in Nat
    BY RunTypes, Ranges DEF WfIInv
  <2>2. CASE InWork
    <3>1. Cardinality(DoneSince) = wf_run.names % WfEvery
      BY <2>2 DEF WfIInv, LossOK
    <3>. QED
      BY <2>1, <2>2, <3>1, Remainder DEF DoneSince, InWork, At
  <2>3. CASE At("save")
    BY <2>3 DEF WfIInv, LossOK
  <2>4. CASE At("undo")
    BY <2>4 DEF WfIInv, LossOK, DoneSince, At
  <2>5. InWork \/ At("save") \/ At("undo")
    BY DEF WfIInv, Fields, Runs, At, InWork
  <2>. QED
    BY <2>2, <2>3, <2>4, <2>5
<1>. QED
  BY <1>1, WfInvariance, PTL

(* When a required step fails the asynchronous engine has tried to undo     *)
(* all its run completed, last first (applyCompensations).                 *)
THEOREM RolledBack == WfSpec => []WfRollback
<1>1. WfIInv => WfRollback
  BY DEF WfIInv
<1>. QED
  BY <1>1, WfInvariance, PTL

=============================================================================
