------------------------------- MODULE JobQueue -------------------------------
(* The job queue of the standard library (stdlib/job-queue.fl).              *)
(*                                                                          *)
(* jq-process takes the jobs that are due out of the queue, all at once, and *)
(* runs them in turn.  A handler is user code: before it ends it may push,  *)
(* process, clear and retry, so calls of jq-process form a stack.  Time is  *)
(* a step that makes a job due, or passes between the two looks jq-process  *)
(* takes at the clock of each job.                                         *)
EXTENDS Integers, Sequences, Functions, Selection

CONSTANTS
  MaxRetry,         \* max-retry
  JqLastJob,        \* bound: jobs pushed
  JqDepth,          \* bound: calls of jq-process inside one another
  JqRetries         \* bound: calls of jq-retry-failed

ASSUME JobAssumption ==
  MaxRetry \in Nat /\ JqLastJob \in Nat /\ JqDepth \in Nat /\ JqRetries \in Nat

Jobs == 1 .. JqLastJob

VARIABLES
  jq_pushed,        \* jobs pushed
  jq_pending,       \* the queue: entries with the job, its attempts, and
                    \* whether its run-at has come
  jq_done, jq_failed,       \* sequences of jobs
  jq_runs,          \* the calls of jq-process under way, the innermost first:
                    \* the entries left, the first being run if running
  jq_retried,       \* calls of jq-retry-failed
  jq_cleared,       \* history: done jobs that jq-clear-done dropped
  jq_missed         \* history: jobs that came due between the two looks

jq_vars == <<jq_pushed, jq_pending, jq_done, jq_failed, jq_runs,
             jq_retried, jq_cleared, jq_missed>>

JqInit ==
  /\ jq_pushed = 0
  /\ jq_pending = << >> /\ jq_done = << >> /\ jq_failed = << >>
  /\ jq_runs = << >>
  /\ jq_retried = 0 /\ jq_cleared = {} /\ jq_missed = {}

JqEntry(job, attempts, due) == [job |-> job, attempts |-> attempts, due |-> due]

JqRunning == jq_runs # << >> /\ jq_runs[1].running
JqUserRuns == jq_runs = << >> \/ JqRunning    \* code runs outside, or in a handler

-----------------------------------------------------------------------------
(* jq-push and jq-push-delayed; the time of a delayed job comes.            *)

JqPush(delayed) ==
  /\ JqUserRuns /\ jq_pushed < JqLastJob
  /\ jq_pushed' = jq_pushed + 1
  /\ jq_pending' = Append(jq_pending, JqEntry(jq_pushed + 1, 0, ~delayed))
  /\ UNCHANGED <<jq_done, jq_failed, jq_runs, jq_retried, jq_cleared, jq_missed>>

JqDue(i) ==
  /\ i \in DOMAIN jq_pending /\ ~jq_pending[i].due
  /\ jq_pending' = [jq_pending EXCEPT ![i].due = TRUE]
  /\ UNCHANGED <<jq_pushed, jq_done, jq_failed, jq_runs, jq_retried, jq_cleared, jq_missed>>

-----------------------------------------------------------------------------
(* jq-process.                                                             *)

IsDue(entry) == entry.due
JqReadyNow == Selected(jq_pending, {e \in Range(jq_pending) : IsDue(e)})

(* What stays in the queue: the second look finds the entries of late due   *)
(* that the first did not.                                                 *)
JqWaitingAll(late) == Selected(jq_pending, {e \in Range(jq_pending) : e.job \notin late})
                            \* a defect: the ready ones are not taken out
JqWaiting(late) ==
  Selected(jq_pending, {e \in Range(jq_pending) : ~IsDue(e) /\ e.job \notin late})

JqProcess(late) ==
  /\ JqUserRuns /\ Len(jq_runs) < JqDepth
  /\ jq_pending # << >>             \* else nothing happens
  /\ \A job \in late : \E i \in DOMAIN jq_pending :
       jq_pending[i].job = job /\ ~jq_pending[i].due
  /\ jq_runs' = <<[left |-> JqReadyNow, running |-> FALSE]>> \o jq_runs
  /\ jq_pending' = JqWaiting(late)
  /\ jq_missed' = jq_missed \cup late
  /\ UNCHANGED <<jq_pushed, jq_done, jq_failed, jq_retried, jq_cleared>>

JqNext1 == jq_runs[1].left[1]
JqTaken == [jq_runs EXCEPT ![1].left = Tail(@), ![1].running = FALSE]
JqReady == jq_runs # << >> /\ ~JqRunning /\ jq_runs[1].left # << >>

JqNoHandler ==
  /\ JqReady
  /\ jq_failed' = Append(jq_failed, JqNext1.job)
  /\ jq_runs' = JqTaken
  /\ UNCHANGED <<jq_pushed, jq_pending, jq_done, jq_retried, jq_cleared, jq_missed>>

JqHandler ==
  /\ JqReady
  /\ jq_runs' = [jq_runs EXCEPT ![1].running = TRUE]
  /\ UNCHANGED <<jq_pushed, jq_pending, jq_done, jq_failed, jq_retried, jq_cleared, jq_missed>>

JqReturn ==
  /\ JqRunning
  /\ jq_done' = Append(jq_done, JqNext1.job)
  /\ jq_runs' = JqTaken
  /\ UNCHANGED <<jq_pushed, jq_pending, jq_failed, jq_retried, jq_cleared, jq_missed>>

JqMayRetryOnce(attempts) == attempts <= MaxRetry    \* a defect: one too many
JqMayRetry(attempts) == attempts < MaxRetry

JqThrow ==
  /\ JqRunning
  /\ LET attempts == JqNext1.attempts + 1 IN
     \/ /\ JqMayRetry(attempts)
        /\ jq_pending' = Append(jq_pending, JqEntry(JqNext1.job, attempts, FALSE))
        /\ UNCHANGED jq_failed
     \/ /\ ~JqMayRetry(attempts)
        /\ jq_failed' = Append(jq_failed, JqNext1.job)
        /\ UNCHANGED jq_pending
  /\ jq_runs' = JqTaken
  /\ UNCHANGED <<jq_pushed, jq_done, jq_retried, jq_cleared, jq_missed>>

JqEnd ==
  /\ jq_runs # << >> /\ ~JqRunning /\ jq_runs[1].left = << >>
  /\ jq_runs' = Tail(jq_runs)
  /\ UNCHANGED <<jq_pushed, jq_pending, jq_done, jq_failed, jq_retried, jq_cleared, jq_missed>>

-----------------------------------------------------------------------------
(* jq-clear-done and jq-retry-failed.                                      *)

JqClearDone ==
  /\ JqUserRuns
  /\ jq_done' = << >>
  /\ jq_cleared' = jq_cleared \cup Range(jq_done)
  /\ UNCHANGED <<jq_pushed, jq_pending, jq_failed, jq_runs, jq_retried, jq_missed>>

JqRetryFailed ==
  /\ JqUserRuns /\ jq_failed # << >> /\ jq_retried < JqRetries
  /\ jq_failed' = << >>
  /\ jq_pending' = jq_pending \o
       [i \in DOMAIN jq_failed |-> JqEntry(jq_failed[i], 0, TRUE)]
  /\ jq_retried' = jq_retried + 1
  /\ UNCHANGED <<jq_pushed, jq_done, jq_runs, jq_cleared, jq_missed>>

JqNext ==
  \/ \E delayed \in BOOLEAN : JqPush(delayed)
  \/ \E i \in 1 .. JqLastJob : JqDue(i)
  \/ \E late \in SUBSET Jobs : JqProcess(late)
  \/ JqNoHandler \/ JqHandler \/ JqReturn \/ JqThrow \/ JqEnd
  \/ JqClearDone \/ JqRetryFailed

JqSpec == JqInit /\ [][JqNext]_jq_vars

-----------------------------------------------------------------------------
(* Properties.                                                             *)

JqEntries == [job : Jobs, attempts : 0 .. MaxRetry, due : BOOLEAN]

JqTypeOK ==
  /\ jq_pushed \in 0 .. JqLastJob
  /\ jq_pending \in Seq(JqEntries)
  /\ jq_done \in Seq(Jobs) /\ jq_failed \in Seq(Jobs)
  /\ jq_runs \in Seq([left : Seq(JqEntries), running : BOOLEAN])
  /\ jq_retried \in 0 .. JqRetries
  /\ jq_cleared \subseteq Jobs /\ jq_missed \subseteq Jobs

(* The places where jobs are: the queue, the lists of those done and failed, *)
(* what each call of jq-process has left, and nowhere any more.             *)
JqPlaces ==
  ({"pending", "done", "failed", "cleared", "missed"} \X {0})
    \cup ({"left"} \X DOMAIN jq_runs)

JobsOf(entries) == [i \in DOMAIN entries |-> entries[i].job]

JqAt(place) ==
  CASE place[1] = "pending" -> Range(JobsOf(jq_pending))
    [] place[1] = "done"    -> Range(jq_done)
    [] place[1] = "failed"  -> Range(jq_failed)
    [] place[1] = "cleared" -> jq_cleared
    [] place[1] = "missed"  -> jq_missed
    [] place[1] = "left"    -> Range(JobsOf(jq_runs[place[2]].left))

JqMayTry(attempts) == attempts = 0 \/ attempts < MaxRetry

(* Whatever handlers do to the queue while it is being processed, a job is   *)
(* in one place: waiting, taken to be run, done or failed.  It is lost only  *)
(* when its time comes between the two looks jq-process takes at it.  None  *)
(* is tried again that has had its attempts; with a max-retry of 0 a job    *)
(* is tried once all the same.                                             *)
JqConserved ==
  /\ \E where \in [1 .. jq_pushed -> JqPlaces] :
       \A place \in JqPlaces :
         JqAt(place) = {job \in 1 .. jq_pushed : where[job] = place}
  /\ IsInjective(JobsOf(jq_pending)) /\ IsInjective(jq_done) /\ IsInjective(jq_failed)
  /\ \A r \in DOMAIN jq_runs : IsInjective(JobsOf(jq_runs[r].left))
  /\ \A i \in DOMAIN jq_pending : JqMayTry(jq_pending[i].attempts)
=============================================================================
