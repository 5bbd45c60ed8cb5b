------------------------------ MODULE RunParallel ------------------------------
(***************************************************************************)
(* run-parallel, fl_run_parallel of runtime/process.c.                     *)
(*                                                                         *)
(* The caller forks a batch of at most Width children, each of which runs  *)
(* one job and writes its result to a pipe.  Until every child of the      *)
(* batch has been waited for and every pipe has reached its end, the       *)
(* caller goes round a loop: kill what is late, poll, read, waitpid,       *)
(* parse.  A result is a number of chunks, one of which a read returns.    *)
(***************************************************************************)
EXTENDS Integers, FiniteSets

CONSTANTS
  N,           \* number of jobs
  Width,       \* workers_limit
  MaxChunks,   \* FL_PARALLEL_RESULT_MAX, in chunks
  Capacity,    \* chunks a pipe holds
  NotFns,      \* positions of the job vector that hold no function
  MayHang,     \* whether a job may run for ever
  Leavers,     \* jobs that may leave a process behind, which inherits the write
               \* end of the job's pipe
  InTry,       \* whether run-parallel is called inside a try
  ChldIgnored  \* whether the program may have been started with SIGCHLD ignored,
               \* so that its children leave no zombies: a subset of BOOLEAN

Jobs  == 0 .. N - 1
Slots == 0 .. Width - 1

ASSUME ParallelAssumption ==
  /\ N \in Nat \ {0} /\ Width \in Nat \ {0}
  /\ MaxChunks \in Nat \ {0} /\ Capacity \in Nat \ {0}
  /\ NotFns \subseteq Jobs
  /\ Leavers \subseteq Jobs /\ {MayHang, InTry} \subseteq BOOLEAN
  /\ ChldIgnored \subseteq BOOLEAN

Errors == {"NOT_FUNCTION", "PIPE", "FORK", "MEMORY", "TIMEOUT", "UNSUPPORTED_RESULT",
           "RESULT_TOO_LARGE", "CHILD", "WAIT", "NO_RESULT"}

(* How a process ends: the exit statuses the caller tells apart, any other *)
(* one, or a signal.                                                       *)
Statuses == {"0", "2", "3", "other", "signal"}
None == -1   \* the pid of a slot without a child

(* What results[] holds: nothing yet, an error, or the value parsed from   *)
(* so many chunks of a job's pipe.                                         *)
Answer == [kind : Errors \cup {"unset", "value"}, job : Jobs \cup {None},
           chunks : 0 .. MaxChunks]
Error(e) == [kind |-> e, job |-> None, chunks |-> 0]
Value(j, n) == [kind |-> "value", job |-> j, chunks |-> n]
Unset == Error("unset")
Answered(r) == r # Unset

VARIABLES
  pc,       \* where the caller is
  at,       \* its loop index i
  base,     \* first job of the batch
  child,    \* FLParallelChild child[]
  results,  \* results[]
  ready,    \* slots whose pipes poll has reported
  proc,     \* each job's process: "none", "run", "write", "astray", "zombie" or
            \* "gone"
  status,   \* how it ended
  killed,   \* SIGKILL is on its way
  late,     \* FL_PARALLEL_TIMEOUT_MS has passed since its start
  size,     \* chunks of the result its callback returned, 0 before
  left,     \* chunks it has yet to write
  pipe,     \* chunks in its pipe
  heir,     \* a process it left behind still holds its write end
  ignored   \* SIGCHLD is ignored

caller == <<pc, at, base, child, results, ready>>
process == <<proc, status, killed, late, size, left, pipe, heir, ignored>>
vars == <<caller, process>>

Empty == [pid |-> None, fd |-> FALSE, reaped |-> FALSE, eof |-> FALSE,
          failed |-> FALSE, parsed |-> FALSE, len |-> 0]

Init ==
  /\ pc = "fork" /\ at = 0 /\ base = 0
  /\ child = [i \in Slots |-> Empty]
  /\ results = [j \in Jobs |-> Unset]
  /\ ready = {}
  /\ proc = [j \in Jobs |-> "none"]
  /\ status = [j \in Jobs |-> "0"]
  /\ killed = [j \in Jobs |-> FALSE] /\ late = [j \in Jobs |-> FALSE]
  /\ size = [j \in Jobs |-> 0] /\ left = [j \in Jobs |-> 0]
  /\ pipe = [j \in Jobs |-> 0] /\ heir = [j \in Jobs |-> FALSE]
  /\ ignored \in ChldIgnored

count == IF N - base > Width THEN Width ELSE N - base

-----------------------------------------------------------------------------
(* The children.                                                           *)

Running(j) == proc[j] \in {"run", "write", "astray"}

Exits(j, how) ==
  /\ proc' = [proc EXCEPT ![j] = IF ignored THEN "gone" ELSE "zombie"]
  /\ status' = [status EXCEPT ![j] = how]
  /\ UNCHANGED <<caller, ignored, killed, late, pipe, heir>>

(* fl_parallel_child: the callback returns a value that can be encoded,    *)
(* one that cannot (_exit(2)) or one that is too large (_exit(3)); or it   *)
(* itself ends the process; or it throws.  fl_throw ends the process when  *)
(* there is no try to return to, and the child was forked with the try     *)
(* frames of its caller.                                                   *)
Callback(j) ==
  /\ proc[j] = "run"
  /\ \/ \E n \in 1 .. MaxChunks :
          /\ size' = [size EXCEPT ![j] = n]
          /\ left' = [left EXCEPT ![j] = n]
          /\ proc' = [proc EXCEPT ![j] = "write"]
          /\ UNCHANGED <<caller, ignored, status, killed, late, pipe, heir>>
     \/ \E how \in {"0", "2", "3", "other"} :
          /\ Exits(j, how)
          /\ UNCHANGED <<size, left>>
     \/ /\ InTry
        /\ proc' = [proc EXCEPT ![j] = "astray"]
        /\ UNCHANGED <<caller, ignored, status, killed, late, size, left, pipe, heir>>

(* The program that such a child goes on with ends.                        *)
AstrayEnds(j) ==
  /\ proc[j] = "astray"
  /\ \E how \in {"0", "other"} : Exits(j, how)
  /\ UNCHANGED <<size, left>>

LeaveHeir(j) ==
  /\ j \in Leavers /\ proc[j] = "run" /\ ~heir[j]
  /\ heir' = [heir EXCEPT ![j] = TRUE]
  /\ UNCHANGED <<caller, ignored, proc, status, killed, late, size, left, pipe>>

HeirEnds(j) ==
  /\ heir[j]
  /\ heir' = [heir EXCEPT ![j] = FALSE]
  /\ UNCHANGED <<caller, ignored, proc, status, killed, late, size, left, pipe>>

ReadEnd(j) == \E i \in Slots : child[i].pid = j /\ child[i].fd

(* write, into a pipe somebody still reads, or not.                        *)
Write(j) ==
  /\ proc[j] = "write" /\ left[j] > 0
  /\ \/ /\ ReadEnd(j) /\ pipe[j] < Capacity
        /\ pipe' = [pipe EXCEPT ![j] = @ + 1]
        /\ left' = [left EXCEPT ![j] = @ - 1]
        /\ UNCHANGED <<caller, ignored, proc, status, killed, late, size, heir>>
     \/ /\ ~ReadEnd(j)
        /\ Exits(j, "signal")
        /\ UNCHANGED <<size, left>>

(* close(fd); _exit(0).                                                    *)
Finish(j) ==
  /\ proc[j] = "write" /\ left[j] = 0
  /\ Exits(j, "0")
  /\ UNCHANGED <<size, left>>

(* A SIGKILL, the caller's or anybody's, takes effect.                     *)
Killed(j) ==
  /\ Running(j) /\ killed[j]
  /\ Exits(j, "signal")
  /\ UNCHANGED <<size, left>>

KilledFromOutside(j) ==
  /\ Running(j) /\ ~killed[j]
  /\ Exits(j, "signal")
  /\ UNCHANGED <<size, left>>

TimePasses(j) ==
  /\ (Running(j) \/ proc[j] = "zombie") /\ ~late[j]
  /\ late' = [late EXCEPT ![j] = TRUE]
  /\ UNCHANGED <<caller, ignored, proc, status, killed, size, left, pipe, heir>>

-----------------------------------------------------------------------------
(* The caller, slot by slot.                                               *)

Job(i) == base + i
Fails(i, e) == results' = [results EXCEPT ![Job(i)] = Error(e)]

(* Go on to the next slot, or to the next phase.                           *)
NextSlotBelow(last, phase) ==
  IF at + 1 < last THEN at' = at + 1 /\ UNCHANGED pc
                   ELSE at' = 0 /\ pc' = phase
(* Mutant: a loop runs one slot past the batch.                            *)
NextSlotOnePast(phase) == NextSlotBelow(count + 1, phase)
NextSlot(phase) == NextSlotBelow(count, phase)

(* A job that has no child at all.                                         *)
Unforked(i, e) ==
  /\ child' = [child EXCEPT ![i] = [Empty EXCEPT !.reaped = TRUE, !.eof = TRUE]]
  /\ Fails(i, e)
  /\ UNCHANGED process

Forked(i) ==
  /\ proc' = [proc EXCEPT ![Job(i)] = "run"]
  /\ UNCHANGED <<status, late, size, left, pipe, heir, ignored>>
  /\ \/ /\ child' = [child EXCEPT ![i] = [Empty EXCEPT !.pid = Job(i), !.fd = TRUE]]
        /\ UNCHANGED <<results, killed>>
     \/ (* No memory for the result: the child is killed at once.          *)
        /\ child' = [child EXCEPT ![i] = [Empty EXCEPT !.pid = Job(i), !.failed = TRUE,
                                                       !.eof = TRUE]]
        /\ Fails(i, "MEMORY")
        /\ killed' = [killed EXCEPT ![Job(i)] = TRUE]

Fork ==
  /\ pc = "fork"
  /\ \/ Job(at) \in NotFns /\ Unforked(at, "NOT_FUNCTION")
     \/ /\ Job(at) \notin NotFns
        /\ \/ Forked(at)
           \/ \E e \in {"PIPE", "FORK"} : Unforked(at, e)
  /\ NextSlot("scan")
  /\ UNCHANGED <<base, ready>>

(* The first pass of the loop: late children are killed and given up.      *)
GiveUpLate(i, e, kills) ==
  IF /\ child[i].pid # None /\ ~child[i].reaped /\ ~child[i].failed
     /\ late[child[i].pid]
  THEN /\ child' = [child EXCEPT ![i].failed = TRUE, ![i].fd = FALSE, ![i].eof = TRUE]
       /\ Fails(i, e)
       /\ killed' = [killed EXCEPT ![child[i].pid] = kills]
  ELSE UNCHANGED <<child, results, killed>>
ScanWith(e, kills) ==
  /\ pc = "scan"
  /\ GiveUpLate(at, e, kills)
  /\ NextSlot("poll")
  /\ UNCHANGED <<base, ready, proc, status, late, size, left, pipe, heir, ignored>>
(* Mutant: a late child is killed but its slot is not answered.            *)
ScanSilent == ScanWith("unset", TRUE)
(* Mutant: a late child is given up but not killed.                        *)
ScanSpares == ScanWith("TIMEOUT", FALSE)
Scan == ScanWith("TIMEOUT", TRUE)

Busy(i) == ~child[i].reaped \/ ~child[i].eof
Open(i) == child[i].fd /\ ~child[i].eof
Held(j) == Running(j) \/ heir[j]
(* Mutant: a pipe is read only when nobody writes to it any more.          *)
ReadableEnded(i) == Open(i) /\ ~Held(child[i].pid)
Readable(i) == Open(i) /\ (pipe[child[i].pid] > 0 \/ ~Held(child[i].pid))

(* No slot is active: the batch is over, and the next begins.              *)
BatchEndsUnless(active) ==
  /\ pc = "poll"
  /\ \A i \in 0 .. count - 1 : ~active[i]
  /\ child' = [i \in Slots |-> Empty]
  /\ IF base + Width < N THEN base' = base + Width /\ pc' = "fork"
                         ELSE base' = base /\ pc' = "done"
  /\ UNCHANGED <<at, results, ready, process>>
(* Mutant: a batch ends when its pipes do, whether or not its children     *)
(* have been waited for.                                                   *)
BatchEndsAtEof == BatchEndsUnless([i \in Slots |-> ~child[i].eof])
BatchEnds == BatchEndsUnless([i \in Slots |-> Busy(i)])

(* poll returns what is readable, or nothing after 50 ms or a signal.      *)
Poll ==
  /\ pc = "poll"
  /\ \E i \in 0 .. count - 1 : Busy(i)
  /\ ready' = {i \in 0 .. count - 1 : Readable(i)}
  /\ pc' = IF ready' = {} THEN "wait" ELSE "read"
  /\ UNCHANGED <<at, base, child, results, process>>

(* poll fails: every child that has not been waited for is killed.         *)
PollFails ==
  /\ pc = "poll"
  /\ \E i \in 0 .. count - 1 : Busy(i)
  /\ killed' = [j \in Jobs |-> killed[j] \/ \E i \in 0 .. count - 1 :
                                              child[i].pid = j /\ ~child[i].reaped]
  /\ ready' = {} /\ pc' = "wait"
  /\ UNCHANGED <<at, base, child, results, proc, status, late, size, left, pipe,
                 heir, ignored>>

(* read until EAGAIN or the end of the pipe.  A child never writes more    *)
(* than MaxChunks: it has checked its result before it writes.             *)
ReadChunk ==
  /\ pc = "read" /\ at \in ready
  /\ pipe[child[at].pid] > 0
  /\ pipe' = [pipe EXCEPT ![child[at].pid] = @ - 1]
  /\ child' = [child EXCEPT ![at].len = @ + 1]
  /\ UNCHANGED <<pc, at, base, results, ready, proc, status, killed, late, size,
                 left, heir, ignored>>

ReadEnds ==
  /\ pc = "read"
  /\ \/ at \notin ready /\ UNCHANGED child
     \/ /\ at \in ready /\ pipe[child[at].pid] = 0
        /\ IF Held(child[at].pid) THEN UNCHANGED child
           ELSE child' = [child EXCEPT ![at].fd = FALSE, ![at].eof = TRUE]
  /\ NextSlot("wait")
  /\ UNCHANGED <<base, results, ready, process>>

(* waitpid(pid, WNOHANG), and what its answer means for the slot.          *)
Reason(how) == CASE how = "2" -> "UNSUPPORTED_RESULT"
                 [] how = "3" -> "RESULT_TOO_LARGE"
                 [] OTHER -> "CHILD"

WaitedFor(i) == child[i].pid = None \/ child[i].reaped

WaitTelling(keep, echild) ==
  /\ pc = "wait"
  /\ LET j == child[at].pid IN
     \/ /\ IF WaitedFor(at) THEN TRUE ELSE Running(j)
        /\ UNCHANGED <<child, results, proc, killed, late>>
     \/ /\ ~WaitedFor(at) /\ proc[j] = "zombie"
        /\ proc' = [proc EXCEPT ![j] = "gone"]
        /\ killed' = [killed EXCEPT ![j] = FALSE]
        /\ late' = [late EXCEPT ![j] = FALSE]
        /\ IF ~keep /\ status[j] # "0"
           THEN /\ child' = [child EXCEPT ![at].reaped = TRUE, ![at].failed = TRUE]
                /\ Fails(at, Reason(status[j]))
           ELSE /\ child' = [child EXCEPT ![at].reaped = TRUE]
                /\ UNCHANGED results
     \/ /\ ~WaitedFor(at) /\ proc[j] = "gone"
        /\ IF echild
           THEN /\ child' = [child EXCEPT ![at].reaped = TRUE, ![at].failed = TRUE]
                /\ Fails(at, "WAIT")
           ELSE UNCHANGED <<child, results>>
        /\ UNCHANGED <<proc, killed, late>>
  /\ NextSlot("parse")
  /\ UNCHANGED <<base, ready, status, size, left, pipe, heir, ignored>>
(* Mutant: the end of a child that was killed for being late counts as a   *)
(* failure of its own.                                                     *)
WaitRetells == WaitTelling(FALSE, TRUE)
(* Mutant: a waitpid that fails is only tried again.                       *)
WaitRetries == WaitTelling(child[at].failed, FALSE)
Wait == WaitTelling(child[at].failed, TRUE)

ParseInto(j, when) ==
  /\ pc = "parse"
  /\ LET c == child[at] IN
     IF c.pid # None /\ c.reaped /\ when /\ ~c.failed /\ ~c.parsed
     THEN /\ child' = [child EXCEPT ![at].parsed = TRUE]
          /\ results' = [results EXCEPT ![j] =
               IF c.len = 0 THEN Error("NO_RESULT") ELSE Value(c.pid, c.len)]
     ELSE UNCHANGED <<child, results>>
  /\ NextSlot("scan")
  /\ UNCHANGED <<base, ready, process>>
(* Mutant: the batch's own index is used for the results.                  *)
ParseForgetsBase == ParseInto(at, child[at].eof)
(* Mutant: a child that has been waited for is taken to have been read.    *)
ParseEarly == ParseInto(Job(at), TRUE)
Parse == ParseInto(Job(at), child[at].eof)

Done ==
  /\ pc = "done"
  /\ UNCHANGED vars

-----------------------------------------------------------------------------

CallerStep ==
  \/ Fork \/ Scan \/ BatchEnds \/ Poll \/ ReadChunk \/ ReadEnds \/ Wait \/ Parse
  \/ Done

Environment(j) ==
  \/ LeaveHeir(j) \/ HeirEnds(j) \/ KilledFromOutside(j) \/ TimePasses(j)

Next ==
  \/ CallerStep \/ PollFails
  \/ \E j \in Jobs : \/ Callback(j) \/ Write(j) \/ Finish(j) \/ Killed(j)
                     \/ AstrayEnds(j) \/ Environment(j)

Spec == Init /\ [][Next]_vars

(* What a child is bound to do: write and end, or die of a SIGKILL.         *)
ChildStep(j) == Write(j) \/ Finish(j) \/ Killed(j)

(* Fairness: the caller and the children run, time passes, and poll does   *)
(* not fail for ever.  A callback need not return when MayHang, and nothing *)
(* obliges a process that was left behind to end.                          *)
FairSpec ==
  /\ Spec /\ WF_vars(CallerStep) /\ SF_vars(Poll)
  /\ \A j \in Jobs : /\ WF_vars(ChildStep(j)) /\ WF_vars(TimePasses(j))
                     /\ WF_vars(~MayHang /\ Callback(j))

-----------------------------------------------------------------------------
(* Type invariant.                                                         *)
Slot == [pid : Jobs \cup {None}, fd : BOOLEAN, reaped : BOOLEAN, eof : BOOLEAN,
         failed : BOOLEAN, parsed : BOOLEAN, len : 0 .. MaxChunks]
TypeOK ==
  /\ pc \in {"fork", "scan", "poll", "read", "wait", "parse", "done"}
  /\ at \in Slots /\ base \in Jobs
  /\ child \in [Slots -> Slot]
  /\ results \in [Jobs -> Answer]
  /\ ready \subseteq Slots
  /\ proc \in [Jobs -> {"none", "run", "write", "astray", "zombie", "gone"}]
  /\ status \in [Jobs -> Statuses]
  /\ killed \in [Jobs -> BOOLEAN] /\ late \in [Jobs -> BOOLEAN]
  /\ size \in [Jobs -> 0 .. MaxChunks] /\ left \in [Jobs -> 0 .. MaxChunks]
  /\ pipe \in [Jobs -> 0 .. Capacity] /\ heir \in [Jobs -> BOOLEAN]

(* The vector returned keeps input order, and an answer that is not an     *)
(* error is the job's own result, whole, from a child that ended well.     *)
OwnResult ==
  \A j \in Jobs : results[j].kind = "value" =>
    results[j] = Value(j, size[j]) /\ status[j] = "0"

(* Before run-parallel returns, and before the next batch is forked, every *)
(* child has been reaped with waitpid and no job is without an answer.     *)
BatchSettled ==
  \A j \in Jobs : (pc = "done" \/ j < base) =>
    proc[j] \in {"none", "gone"} /\ Answered(results[j])

(* A job is answered once: what a slot says does not change, so a child    *)
(* killed for being late is reported as late.                              *)
AnsweredOnce == [][\A j \in Jobs : Answered(results[j]) => results'[j] = results[j]]_vars

(* A forked child runs its job and nothing else of the program.            *)
RunsOnlyItsJob == \A j \in Jobs : proc[j] # "astray"

(* run-parallel returns, whatever its jobs do.                             *)
Returns == <>(pc = "done")

=============================================================================
