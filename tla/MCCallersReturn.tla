--------------------------- MODULE MCCallersReturn ---------------------------
(* The two calls of the C runtime that wait for the processes they forked,  *)
(* fl_run_parallel and fl_http_start with a pool of workers, for TLC.       *)
(*                                                                          *)
(* The calls share no state: each behaviour here is of one of them, chosen  *)
(* at its start, under that call's own fairness; the other one stays as it  *)
(* begins.  RunParallel has this module's names, the pool prefixed ones.   *)
(* fl_run_parallel is called twice over: with several batches of short     *)
(* results, and with one batch whose result does not fit into the pipe.    *)
EXTENDS RunParallel

CONSTANTS Workers, Server, NoPid

VARIABLES
  part,   \* the call that is made
  po_pc, po_job, po_owner, po_slot, po_served, po_stopping, po_sigterm, po_lock,
  po_active, po_peak, po_workerActive, po_total, po_windowOpen, po_rateCount,
  po_passed, po_workers, po_backlog

Pool == INSTANCE HttpPool WITH
  Pids <- Workers, Super <- Server,
  PoolSize <- 1, MaxConn <- 1, MaxServed <- 1, MaxRequests <- 2, RateMax <- 0,
  Backlog <- 1, MaySignal <- TRUE, MayDie <- {"dispatch"},
  pc <- po_pc, job <- po_job, owner <- po_owner, slot <- po_slot,
  served <- po_served, stopping <- po_stopping, sigterm <- po_sigterm,
  lock <- po_lock, active <- po_active, peak <- po_peak,
  workerActive <- po_workerActive, total <- po_total,
  windowOpen <- po_windowOpen, rateCount <- po_rateCount, passed <- po_passed,
  workers <- po_workers, backlog <- po_backlog

(* A job that answers or ends, with a result that may fill the pipe twice,  *)
(* beside one without a child.                                             *)
Large == INSTANCE RunParallel WITH
  N <- 2, Width <- 2, MaxChunks <- 2, Capacity <- 1, NotFns <- {1}, Leavers <- {},
  MayHang <- FALSE, InTry <- FALSE
LargeJobs == {0, 1}

poolVars == <<po_pc, po_job, po_owner, po_slot, po_served, po_stopping, po_sigterm,
              po_lock, po_active, po_peak, po_workerActive, po_total, po_windowOpen,
              po_rateCount, po_passed, po_workers, po_backlog>>
allVars == <<part, vars, poolVars>>

FirstIsNot == {0}
Nobody == {}
EitherWay == BOOLEAN

InPool(action) == part = "pool" /\ action /\ UNCHANGED <<part, vars>>
InParallel(action) == part = "parallel" /\ action /\ UNCHANGED <<part, poolVars>>
OfLarge(j, action) == j \in LargeJobs /\ part = "large" /\ action /\ UNCHANGED <<part, poolVars>>
InLarge(action) == part = "large" /\ action /\ UNCHANGED <<part, poolVars>>

CallersInit ==
  /\ Pool!Init
  /\ \/ part = "pool" /\ Init /\ ~ignored
     \/ part = "parallel" /\ Init
     \/ part = "large" /\ Large!Init

CallersNext == InPool(Pool!Next) \/ InParallel(Next) \/ InLarge(Large!Next)

(* BusySpec of the pool and FairSpec of run-parallel: since a call that is  *)
(* not made takes no step, fairness of an action of any is fairness of the *)
(* one that is made.  With large results time need not pass: the deadline  *)
(* is not what makes the call return.                                      *)
CallersFairness ==
  /\ WF_allVars(InPool(Pool!SuperStep) \/ InParallel(CallerStep) \/ InLarge(Large!CallerStep))
  /\ SF_allVars(InPool(Pool!Acquire(Server)) \/ InParallel(Poll) \/ InLarge(Large!Poll))
  /\ WF_allVars(InPool(Pool!Deliver(Server)))
  /\ WF_allVars(InPool(Pool!Connect))
  /\ SF_allVars(InPool(Pool!Reap(0)))
  /\ \A p \in Workers :
       /\ WF_allVars(InPool(Pool!WorkerStep(p)))
       /\ SF_allVars(InPool(Pool!Acquire(p))) /\ SF_allVars(InPool(Pool!Accept(p)))
       /\ WF_allVars(InPool(Pool!Deliver(p)))
  /\ \A j \in Jobs :
       /\ WF_allVars(InParallel(ChildStep(j)) \/ OfLarge(j, Large!ChildStep(j)))
       /\ WF_allVars(InParallel(TimePasses(j)))
       /\ WF_allVars(InParallel(~MayHang /\ Callback(j)) \/ OfLarge(j, Large!Callback(j)))

CallersSpec == CallersInit /\ [][CallersNext]_allVars /\ CallersFairness

-----------------------------------------------------------------------------
(* SIGTERM makes fl_http_start return as long as clients connect, although  *)
(* a worker may lose the SIGTERM it is sent: a request ends its accept.    *)
PoolStops == po_stopping[Server] ~> po_pc[Server] = "stopped"

(* fl_run_parallel returns, whatever its jobs do and however SIGCHLD is     *)
(* set, unless a job leaves a process behind; and when its jobs answer it   *)
(* returns without the deadline's help, although a child waits for room in *)
(* its pipe.                                                               *)
ParallelReturns == part \in {"parallel", "large"} ~> pc = "done"
=============================================================================
