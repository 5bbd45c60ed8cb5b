------------------------------- MODULE HttpPool -------------------------------
(***************************************************************************)
(* The pooled HTTP server of runtime/http_server.c (FL_HTTP_WORKERS > 0).  *)
(*                                                                         *)
(* One supervisor (the process that called fl_http_start) forks PoolSize   *)
(* workers that accept on the same listener.  Supervisor and workers share *)
(* one anonymous mapping, FLHttpRateState, guarded by a spin lock whose    *)
(* value is the pid of its owner and which is reclaimed from dead owners.  *)
(* Every step below is one access to that mapping, one system call with an *)
(* effect on another process, or one delivery of a signal.                 *)
(***************************************************************************)
EXTENDS Integers, FiniteSets

CONSTANTS
  Pids,        \* process identifiers the kernel may give to workers
  Super,       \* the pid of the supervisor
  NoPid,       \* the value 0 of a pid field: nobody
  PoolSize,    \* http_pool_workers
  MaxConn,     \* http_max_conn
  MaxServed,   \* http_pool_max_requests, the per-worker retirement limit
  MaxRequests, \* FL_HTTP_MAX_REQUESTS, 0 when unset
  RateMax,     \* http_rate_max, 0 when no rate limit is configured
  Backlog,     \* bound on connections waiting in the listener's queue
  MaySignal,   \* whether the operator may send SIGTERM to the supervisor
  MayDie       \* program points at which a worker may be killed or may exit
               \* on an uncaught error raised by a handler

Slots == 0 .. PoolSize - 1
Procs == Pids \cup {Super}

(* Program points.  A worker between "enterCheck" and "enterGrant" and the *)
(* like holds the lock; "free" is a pid no process has and "zombie" a      *)
(* process that has ended and has not been waited for.                     *)
Critical == {"enterCheck", "enterCount", "enterGrant", "enterRefuse",
             "rateWindow", "rateReset", "rateCount", "ratePass", "rateLimited",
             "leaveCheck", "leaveCount", "leaveDone"}
Spinning == {"lock", "reclaim"}
Serving  == {"parse", "dispatch"}
WorkerPoints == Critical \cup Spinning \cup Serving \cup
                {"boot", "loop", "toAccept", "accept", "accepted", "busy"}
SuperPoints == Spinning \cup
               {"spawn", "loop", "reap", "replace", "retry", "gate", "poll",
                "toAccept", "accept", "accepted", "leaveCheck", "leaveCount",
                "leaveDone", "term", "wait", "stopped"}
Jobs == {"enter", "rate", "leave"}

ASSUME PoolAssumption ==
  /\ Super \notin Pids /\ NoPid \notin Procs
  /\ PoolSize \in Nat \ {0} /\ MaxConn \in Nat \ {0} /\ MaxServed \in Nat \ {0}
  /\ MaxRequests \in Nat /\ RateMax \in Nat /\ Backlog \in Nat \ {0}
  /\ MaySignal \in BOOLEAN /\ MayDie \subseteq WorkerPoints

VARIABLES
  pc,            \* program point of every process
  job,           \* what a process takes the lock for
  owner,         \* the dead lock owner a spinning process has found
  slot,          \* the slot a worker runs in, or the supervisor works on
  served,        \* requests a worker has accepted
  stopping,      \* each process's own copy of http_stopping
  sigterm,       \* processes with a pending SIGTERM
  lock,          \* FLHttpRateState.lock
  active,        \* .active_connections
  peak,          \* .max_active_connections
  workerActive,  \* .worker_active
  total,         \* .total_requests, saturated at MaxRequests (its only reader
                 \* compares it with MaxRequests)
  windowOpen,    \* whether the current rate window has not elapsed
  rateCount,     \* .count, saturated just above RateMax
  passed,        \* history: requests the limiter let through in this window
  workers,       \* http_workers: the pid in each slot
  backlog        \* connections the kernel has queued on the listener

local  == <<job, owner, slot, served>>
limits == <<active, peak, workerActive>>
rate   == <<windowOpen, rateCount, passed>>
shared == <<lock, limits, total, rate>>
world  == <<stopping, sigterm, workers, backlog>>
vars == <<pc, local, shared, world>>

-----------------------------------------------------------------------------

Init ==
  /\ pc = [p \in Procs |-> IF p = Super THEN "spawn" ELSE "free"]
  /\ job = [p \in Procs |-> "enter"]
  /\ owner = [p \in Procs |-> NoPid]
  /\ slot = [p \in Procs |-> 0]
  /\ served = [p \in Procs |-> 0]
  /\ stopping = [p \in Procs |-> FALSE]
  /\ sigterm = {}
  /\ lock = NoPid /\ active = 0 /\ peak = 0
  /\ workerActive = [s \in Slots |-> FALSE]
  /\ total = 0
  /\ windowOpen = FALSE /\ rateCount = 0 /\ passed = 0
  /\ workers = [s \in Slots |-> NoPid]
  /\ backlog = 0

Goto(p, point) == pc' = [pc EXCEPT ![p] = point]
Alive(p) == pc[p] \notin {"free", "zombie"}

-----------------------------------------------------------------------------
(* The shared lock: http_shared_lock and http_shared_unlock.               *)

EntryOf(j) == CASE j = "enter" -> "enterCheck"
                [] j = "rate"  -> "rateWindow"
                [] j = "leave" -> "leaveCheck"

Lock(p, j) ==
  /\ job' = [job EXCEPT ![p] = j]
  /\ Goto(p, "lock")

(* The CAS from 0 to the caller's pid.                                     *)
Acquire(p) ==
  /\ pc[p] = "lock" /\ lock = NoPid
  /\ lock' = p
  /\ Goto(p, EntryOf(job[p]))
  /\ UNCHANGED <<local, limits, total, rate, world>>

(* The lock is taken and kill(owner, 0) fails with ESRCH, which it does    *)
(* only once the owner has been waited for: a zombie still answers.  The   *)
(* read of the owner and the kill are one step here: a dead process stays  *)
(* dead, and if the lock changes hands in between the CAS that follows     *)
(* fails.                                                                  *)
ProbeDead(p, dead) ==
  /\ pc[p] = "lock" /\ lock # NoPid
  /\ pc[lock] \in dead
  /\ owner' = [owner EXCEPT ![p] = lock]
  /\ Goto(p, "reclaim")
  /\ UNCHANGED <<job, slot, served, shared, world>>
(* Mutant: a zombie owner counts as dead.                                  *)
ProbeTakesZombies(p) == ProbeDead(p, {"free", "zombie"})
Probe(p) == ProbeDead(p, {"free"})

(* The owner answers: sched_yield, and the loop goes round.                *)
Spin(p) ==
  /\ pc[p] = "lock" /\ lock # NoPid
  /\ pc[lock] # "free"
  /\ UNCHANGED vars

(* The CAS from the dead owner's pid to 0.                                 *)
ReclaimTo(p, value) ==
  /\ pc[p] = "reclaim"
  /\ lock' = value
  /\ owner' = [owner EXCEPT ![p] = NoPid]
  /\ Goto(p, "lock")
  /\ UNCHANGED <<job, slot, served, limits, total, rate, world>>
(* Mutant: the dead owner's lock is cleared by a plain store.              *)
ReclaimByStore(p) == ReclaimTo(p, NoPid)
Reclaim(p) == ReclaimTo(p, IF lock = owner[p] THEN NoPid ELSE lock)

Unlock(p) == lock' = IF lock = p THEN NoPid ELSE lock

-----------------------------------------------------------------------------
(* Processes: fork, exit, signals.                                         *)

(* A pid is reused only when nobody remembers it: http_shared_lock's       *)
(* comment leaves pid reuse out, and so does the model.                    *)
FreshPids == {p \in Pids : /\ pc[p] = "free" /\ p # lock
                           /\ \A q \in Procs : owner[q] # p}

(* fork into slot s: the child inherits http_stopping.  The supervisor     *)
(* goes on at next, working on slot s2.                                    *)
Fork(s, next, s2) ==
  \E p \in FreshPids :
    /\ pc' = [pc EXCEPT ![p] = "boot", ![Super] = next]
    /\ slot' = [slot EXCEPT ![p] = s, ![Super] = s2]
    /\ stopping' = [stopping EXCEPT ![p] = stopping[Super]]
    /\ workers' = [workers EXCEPT ![s] = p]

ForkFails(s, next, s2) ==
  /\ Goto(Super, next)
  /\ slot' = [slot EXCEPT ![Super] = s2]
  /\ workers' = [workers EXCEPT ![s] = NoPid]
  /\ UNCHANGED stopping

(* A worker ends, its own memory and pending signals with it; SIGCHLD,     *)
(* installed without SA_RESTART, interrupts a supervisor blocked in accept.*)
Ends(p) ==
  /\ pc' = [pc EXCEPT ![p] = "zombie",
                      ![Super] = IF @ = "accept" THEN "loop" ELSE @]
  /\ job' = [job EXCEPT ![p] = "enter"]
  /\ owner' = [owner EXCEPT ![p] = NoPid]
  /\ slot' = [slot EXCEPT ![p] = 0]
  /\ served' = [served EXCEPT ![p] = 0]
  /\ stopping' = [stopping EXCEPT ![p] = FALSE]
  /\ sigterm' = sigterm \ {p}

Die(p) ==
  /\ pc[p] \in MayDie
  /\ Ends(p)
  /\ UNCHANGED <<shared, workers, backlog>>

(* The operator, or a process manager, sends SIGTERM to the supervisor.    *)
Terminate ==
  /\ MaySignal /\ ~stopping[Super] /\ pc[Super] # "stopped"
  /\ sigterm' = sigterm \cup {Super}
  /\ UNCHANGED <<pc, local, stopping, shared, workers, backlog>>

(* http_stop_signal runs: it interrupts accept, and only accept.           *)
Deliver(p) ==
  /\ p \in sigterm
  /\ sigterm' = sigterm \ {p}
  /\ stopping' = [stopping EXCEPT ![p] = TRUE]
  /\ pc' = [pc EXCEPT ![p] = IF @ = "accept" THEN "loop" ELSE @]
  /\ UNCHANGED <<local, shared, workers, backlog>>

Connect ==
  /\ pc[Super] # "stopped" /\ backlog < Backlog
  /\ backlog' = backlog + 1
  /\ UNCHANGED <<pc, local, stopping, sigterm, shared, workers>>

(* http_rate_window_ms passes.                                             *)
WindowElapses ==
  /\ windowOpen
  /\ windowOpen' = FALSE
  /\ UNCHANGED <<pc, local, lock, limits, total, rateCount, passed, world>>

-----------------------------------------------------------------------------
(* The worker: http_pool_worker_loop and what it calls.                    *)

(* Handlers installed, http_stopping reset.                                *)
Boot(p) ==
  /\ pc[p] = "boot"
  /\ stopping' = [stopping EXCEPT ![p] = FALSE]
  /\ Goto(p, "loop")
  /\ UNCHANGED <<local, sigterm, shared, workers, backlog>>

WorkerLoop(p) ==
  /\ pc[p] = "loop"
  /\ \/ /\ ~stopping[p] /\ served[p] < MaxServed
        /\ Goto(p, "toAccept")
        /\ UNCHANGED <<local, stopping, sigterm>>
     \/ /\ stopping[p] \/ served[p] >= MaxServed
        /\ Ends(p)
  /\ UNCHANGED <<shared, workers, backlog>>

(* The system call begins; a signal before this point no longer stops it.  *)
EnterAccept(p) ==
  /\ pc[p] = "toAccept"
  /\ Goto(p, "accept")
  /\ UNCHANGED <<local, shared, world>>

Accept(p) ==
  /\ pc[p] = "accept" /\ backlog > 0
  /\ backlog' = backlog - 1
  /\ served' = [served EXCEPT ![p] = IF p = Super THEN 0 ELSE @ + 1]
  /\ Goto(p, "accepted")
  /\ UNCHANGED <<job, owner, slot, stopping, sigterm, shared, workers>>

(* accept fails for want of resources: the worker's loop goes round, the   *)
(* supervisor's accept gives up until its own loop comes round; any other  *)
(* error ends a worker.                                                    *)
AcceptFails(p) ==
  /\ pc[p] = "accept"
  /\ \/ Goto(p, "loop") /\ UNCHANGED <<local, stopping, sigterm>>
     \/ p # Super /\ Ends(p)
  /\ UNCHANGED <<shared, workers, backlog>>

(* http_pool_request_enter.  The supervisor has answered 503 by then; a    *)
(* worker goes on to http_pool_connection_enter.                           *)
RequestEnter(p) ==
  /\ pc[p] = "accepted"
  /\ total' = IF total < MaxRequests THEN total + 1 ELSE total
  /\ \/ p = Super /\ Goto(p, "loop") /\ UNCHANGED job
     \/ p # Super /\ Lock(p, "enter")
  /\ UNCHANGED <<owner, slot, served, lock, limits, rate, world>>

(* http_pool_connection_enter, under the lock.                             *)
EnterCheckAgainst(p, limit) ==
  /\ pc[p] = "enterCheck"
  /\ \/ active >= limit /\ Goto(p, "enterRefuse") /\ UNCHANGED workerActive
     \/ /\ active < limit
        /\ workerActive' = [workerActive EXCEPT ![slot[p]] = TRUE]
        /\ Goto(p, "enterCount")
  /\ UNCHANGED <<local, lock, active, peak, total, rate, world>>
(* Mutant: one connection too many is admitted.                            *)
EnterCheckOffByOne(p) == EnterCheckAgainst(p, MaxConn + 1)
EnterCheck(p) == EnterCheckAgainst(p, MaxConn)

EnterCount(p) ==
  /\ pc[p] = "enterCount"
  /\ active' = active + 1
  /\ peak' = IF active + 1 > peak THEN active + 1 ELSE peak
  /\ Goto(p, "enterGrant")
  /\ UNCHANGED <<local, lock, workerActive, total, rate, world>>

EnterUnlock(p) ==
  /\ \/ pc[p] = "enterGrant" /\ Goto(p, "parse")
     \/ pc[p] = "enterRefuse" /\ Goto(p, "busy")
  /\ Unlock(p)
  /\ UNCHANGED <<local, limits, total, rate, world>>

(* http_send_busy and close.                                               *)
SendBusy(p) ==
  /\ pc[p] = "busy"
  /\ Goto(p, "loop")
  /\ UNCHANGED <<local, shared, world>>

(* http_parse_request within http_handle_client: a request that does not    *)
(* parse, or does not arrive in time, is answered at once (400, 408, 413,   *)
(* 431); one that does passes the rate limiter first, if there is a limit.  *)
(* Both deadlines are finite, so this step is fair.                         *)
Parse(p) ==
  /\ pc[p] = "parse"
  /\ \/ Lock(p, "leave")
     \/ RateMax > 0 /\ Lock(p, "rate")
     \/ RateMax = 0 /\ Goto(p, "dispatch") /\ UNCHANGED job
  /\ UNCHANGED <<owner, slot, served, shared, world>>

(* http_rate_limited, under the lock.                                      *)
RateWindow(p) ==
  /\ pc[p] = "rateWindow"
  /\ \/ windowOpen /\ Goto(p, "rateCount") /\ UNCHANGED <<windowOpen, passed>>
     \/ /\ ~windowOpen
        /\ windowOpen' = TRUE /\ passed' = 0
        /\ Goto(p, "rateReset")
  /\ UNCHANGED <<local, lock, limits, total, rateCount, world>>

RateReset(p) ==
  /\ pc[p] = "rateReset"
  /\ rateCount' = 0
  /\ Goto(p, "rateCount")
  /\ UNCHANGED <<local, lock, limits, total, windowOpen, passed, world>>

RateCountUpTo(p, max) ==
  /\ pc[p] = "rateCount"
  /\ rateCount' = IF rateCount <= RateMax THEN rateCount + 1 ELSE rateCount
  /\ \/ rateCount' > max /\ Goto(p, "rateLimited") /\ UNCHANGED passed
     \/ rateCount' <= max /\ Goto(p, "ratePass") /\ passed' = passed + 1
  /\ UNCHANGED <<local, lock, limits, total, windowOpen, world>>
(* Mutant: one request more than the limit is let through.                 *)
RateCountOffByOne(p) == RateCountUpTo(p, RateMax + 1)
RateCount(p) == RateCountUpTo(p, RateMax)

RateUnlock(p) ==
  /\ \/ pc[p] = "ratePass" /\ Goto(p, "dispatch") /\ UNCHANGED job
     \/ pc[p] = "rateLimited" /\ Lock(p, "leave")
  /\ Unlock(p)
  /\ UNCHANGED <<owner, slot, served, limits, total, rate, world>>

(* http_dispatch and the answer that http_handle_client sends.  The handler *)
(* of the route returns; it may have called fl_http_stop, which sets the   *)
(* worker's own http_stopping.  Handlers that fail are covered by Die.     *)
Dispatch(p) ==
  /\ pc[p] = "dispatch"
  /\ \E stop \in BOOLEAN :
       stopping' = [stopping EXCEPT ![p] = @ \/ stop]
  /\ Lock(p, "leave")
  /\ UNCHANGED <<owner, slot, served, sigterm, shared, workers, backlog>>

(* http_pool_connection_leave, by a worker for its own slot and by the     *)
(* supervisor for the slot of a worker it has just waited for.             *)
LeaveCheckIf(p, claimed) ==
  /\ pc[p] = "leaveCheck"
  /\ \/ /\ claimed
        /\ workerActive' = [workerActive EXCEPT ![slot[p]] = FALSE]
        /\ Goto(p, "leaveCount")
     \/ ~claimed /\ Goto(p, "leaveDone") /\ UNCHANGED workerActive
  /\ UNCHANGED <<local, lock, active, peak, total, rate, world>>
(* Mutant: leaving does not look at worker_active, so a supervisor that    *)
(* leaves for a worker that had already left decrements twice.             *)
LeaveCheckAlways(p) == LeaveCheckIf(p, TRUE)
LeaveCheck(p) == LeaveCheckIf(p, workerActive[slot[p]])

LeaveCount(p) ==
  /\ pc[p] = "leaveCount"
  /\ active' = IF active > 0 THEN active - 1 ELSE active
  /\ Goto(p, "leaveDone")
  /\ UNCHANGED <<local, lock, peak, workerActive, total, rate, world>>

LeaveUnlockIf(p, unlocks) ==
  /\ pc[p] = "leaveDone"
  /\ IF unlocks THEN Unlock(p) ELSE UNCHANGED lock
  /\ Goto(p, IF p = Super THEN "replace" ELSE "loop")
  /\ UNCHANGED <<local, limits, total, rate, world>>
(* Mutant: the supervisor leaves a slot without unlocking.                 *)
LeaveUnlockMissing(p) == LeaveUnlockIf(p, p # Super)
LeaveUnlock(p) == LeaveUnlockIf(p, TRUE)

-----------------------------------------------------------------------------
(* The supervisor: http_run_pool, then http_stop_pool.                     *)

LastSlot == PoolSize - 1
NextSlot == slot[Super] + 1

SpawnAll ==
  /\ pc[Super] = "spawn"
  /\ LET s == slot[Super]
         next == IF s = LastSlot THEN "loop" ELSE "spawn"
         s2 == IF s = LastSlot THEN 0 ELSE NextSlot
     IN Fork(s, next, s2) \/ ForkFails(s, next, s2)
  /\ UNCHANGED <<job, owner, served, sigterm, shared, backlog>>

SuperLoop ==
  /\ pc[Super] = "loop"
  /\ \/ /\ ~stopping[Super] /\ (MaxRequests = 0 \/ total < MaxRequests)
        /\ Goto(Super, "reap")
     \/ /\ stopping[Super] \/ (MaxRequests > 0 /\ total >= MaxRequests)
        /\ Goto(Super, "term")
  /\ slot' = [slot EXCEPT ![Super] = 0]
  /\ UNCHANGED <<job, owner, served, shared, world>>

(* waitpid(-1, WNOHANG): it returns any one child that has ended; its slot *)
(* is then left on its behalf.  When no child has ended it returns 0.      *)
Ended(s) == workers[s] \in {p \in Pids : pc[p] = "zombie"}

ReapThen(s, next) ==
  /\ pc[Super] = "reap" /\ Ended(s)
  /\ pc' = [pc EXCEPT ![workers[s]] = "free", ![Super] = next]
  /\ job' = [job EXCEPT ![Super] = "leave"]
  /\ slot' = [slot EXCEPT ![Super] = s]
  /\ UNCHANGED <<owner, served, shared, world>>
(* Mutant: the supervisor replaces a dead worker without leaving its slot. *)
ReapWithoutLeave(s) == ReapThen(s, "replace")
Reap(s) == ReapThen(s, "lock")

NoneEnded ==
  /\ pc[Super] = "reap"
  /\ \A s \in Slots : ~Ended(s)
  /\ Goto(Super, "retry")
  /\ slot' = [slot EXCEPT ![Super] = 0]
  /\ UNCHANGED <<job, owner, served, shared, world>>

(* The slot is emptied and, unless the server is stopping, forked again.   *)
ReplaceUnless(stopped) ==
  /\ pc[Super] = "replace"
  /\ LET s == slot[Super]
     IN (~stopped /\ Fork(s, "reap", s)) \/ ForkFails(s, "reap", s)
  /\ UNCHANGED <<job, owner, served, sigterm, shared, backlog>>
(* Mutant: the slot is forked again even when the server is stopping.      *)
ReplaceAlways == ReplaceUnless(FALSE)
Replace == ReplaceUnless(stopping[Super])

(* Slots whose fork failed earlier are tried again, in order.              *)
RetryIf(empty) ==
  /\ pc[Super] = "retry"
  /\ LET s == slot[Super]
         next == IF s = LastSlot THEN "gate" ELSE "retry"
         s2 == IF s = LastSlot THEN 0 ELSE NextSlot
     IN \/ /\ stopping[Super]
           /\ Goto(Super, "gate")
           /\ UNCHANGED <<slot, stopping, workers>>
        \/ /\ ~stopping[Super] /\ ~empty
           /\ Goto(Super, next)
           /\ slot' = [slot EXCEPT ![Super] = s2]
           /\ UNCHANGED <<stopping, workers>>
        \/ /\ ~stopping[Super] /\ empty
           /\ Fork(s, next, s2) \/ ForkFails(s, next, s2)
  /\ UNCHANGED <<job, owner, served, sigterm, shared, backlog>>
(* Mutant: every slot is forked, occupied or not.                          *)
RetryOccupied == RetryIf(TRUE)
Retry == RetryIf(workers[slot[Super]] = NoPid)

(* active_connections is read without the lock.                            *)
Gate ==
  /\ pc[Super] = "gate"
  /\ Goto(Super, IF active >= MaxConn THEN "poll" ELSE "loop")
  /\ UNCHANGED <<local, shared, world>>

(* poll reports a connection that a worker may take before the accept.     *)
Poll ==
  /\ pc[Super] = "poll"
  /\ \/ backlog > 0 /\ Goto(Super, "toAccept")
     \/ Goto(Super, "loop")
  /\ UNCHANGED <<local, shared, world>>

(* http_stop_pool: SIGTERM to every slot, to the group and to the pid, ... *)
Term ==
  /\ pc[Super] = "term"
  /\ LET s == slot[Super]
         p == workers[s]
     IN /\ sigterm' = IF p # NoPid /\ Alive(p) THEN sigterm \cup {p} ELSE sigterm
        /\ Goto(Super, IF s = LastSlot THEN "wait" ELSE "term")
        /\ slot' = [slot EXCEPT ![Super] = IF s = LastSlot THEN 0 ELSE NextSlot]
  /\ UNCHANGED <<job, owner, served, stopping, shared, workers, backlog>>

(* ... then a blocking waitpid for each, in the order of the slots.        *)
WaitUnless(skipped) ==
  /\ pc[Super] = "wait"
  /\ LET s == slot[Super]
         p == workers[s]
         next == IF s = LastSlot THEN "stopped" ELSE "wait"
     IN /\ \/ skipped /\ Goto(Super, next)
           \/ /\ Ended(s)
              /\ pc' = [pc EXCEPT ![p] = "free", ![Super] = next]
        /\ workers' = [workers EXCEPT ![s] = NoPid]
        /\ slot' = [slot EXCEPT ![Super] = IF s = LastSlot THEN 0 ELSE NextSlot]
  /\ UNCHANGED <<job, owner, served, stopping, sigterm, shared, backlog>>
(* Mutant: the supervisor does not wait for workers that still run.        *)
WaitNoHang == WaitUnless(~Ended(slot[Super]))
Wait == WaitUnless(workers[slot[Super]] = NoPid)

Stopped ==
  /\ pc[Super] = "stopped"
  /\ UNCHANGED vars

-----------------------------------------------------------------------------

LockStep(p) == Acquire(p) \/ Probe(p) \/ Spin(p) \/ Reclaim(p)
LeaveStep(p) == LeaveCheck(p) \/ LeaveCount(p) \/ LeaveUnlock(p)
AcceptStep(p) == EnterAccept(p) \/ Accept(p) \/ RequestEnter(p)

WorkerStep(p) ==
  \/ LockStep(p) \/ LeaveStep(p) \/ AcceptStep(p)
  \/ Boot(p) \/ WorkerLoop(p)
  \/ EnterCheck(p) \/ EnterCount(p) \/ EnterUnlock(p) \/ SendBusy(p)
  \/ Parse(p) \/ RateWindow(p) \/ RateReset(p) \/ RateCount(p) \/ RateUnlock(p)
  \/ Dispatch(p)

SuperStep ==
  \/ LockStep(Super) \/ LeaveStep(Super) \/ AcceptStep(Super)
  \/ SpawnAll \/ SuperLoop \/ NoneEnded \/ Replace \/ Retry \/ Gate \/ Poll
  \/ Term \/ Wait \/ Stopped
  \/ \E s \in Slots : Reap(s)

Environment ==
  \/ Terminate \/ Connect \/ WindowElapses
  \/ \E p \in Pids : Die(p)
  \/ \E p \in Procs : AcceptFails(p)

Next ==
  \/ SuperStep \/ Environment
  \/ \E p \in Pids : WorkerStep(p)
  \/ \E p \in Procs : Deliver(p)

Spec == Init /\ [][Next]_vars

-----------------------------------------------------------------------------
(* Type invariant: what each field of the server's state may hold.         *)
TypeOK ==
  /\ pc \in [Procs -> WorkerPoints \cup SuperPoints \cup {"free", "zombie"}]
  /\ job \in [Procs -> Jobs]
  /\ owner \in [Procs -> Procs \cup {NoPid}]
  /\ slot \in [Procs -> Slots]
  /\ served \in [Procs -> 0 .. MaxServed]
  /\ stopping \in [Procs -> BOOLEAN]
  /\ sigterm \subseteq Procs
  /\ lock \in Procs \cup {NoPid}
  /\ active \in 0 .. MaxConn
  /\ peak \in 0 .. MaxConn
  /\ workerActive \in [Slots -> BOOLEAN]
  /\ total \in 0 .. MaxRequests
  /\ windowOpen \in BOOLEAN
  /\ rateCount \in 0 .. RateMax + 1
  /\ passed \in Nat
  /\ workers \in [Slots -> Pids \cup {NoPid}]
  /\ backlog \in 0 .. Backlog

InCritical(p) == pc[p] \in Critical

(* A worker that has been admitted and has not yet given its place back.   *)
Handling(p) ==
  \/ pc[p] \in Serving \cup {"rateWindow", "rateReset", "rateCount", "ratePass",
                              "rateLimited", "leaveCheck"}
  \/ pc[p] \in Spinning /\ job[p] \in {"rate", "leave"}

(* Whatever dies where, two processes are never both between               *)
(* http_shared_lock and http_shared_unlock: reclaiming the lock of a dead  *)
(* owner never takes it from a live one.                                   *)
LockMutex == \A p, q \in Procs : InCritical(p) /\ InCritical(q) => p = q

(* The lock changes hands only when its owner unlocks it or when its owner *)
(* is dead and waited for; a zombie's lock is never taken.                 *)
LockHandover ==
  [][lock # NoPid /\ lock' # lock =>
       /\ lock' = NoPid
       /\ \/ pc[lock] = "free"
          \/ InCritical(lock) /\ pc'[lock] \notin Critical]_vars

(* active_connections always agrees with worker_active, up to the one      *)
(* update a process inside http_pool_connection_enter/leave still owes.    *)
ActiveExact ==
  LET claimed == {s \in Slots : workerActive[s]}
      entering == {p \in Pids : pc[p] = "enterCount"}
      leaving == {p \in Procs : pc[p] = "leaveCount"}
  IN active + Cardinality(entering) = Cardinality(claimed) + Cardinality(leaving)

(* Until the supervisor stops the pool, a worker answers 503 only while    *)
(* MaxConn others handle connections or have died and still have to be     *)
(* waited for and their slots cleared.                                     *)
Held(s) ==
  \/ Handling(workers[s]) \/ pc[workers[s]] = "zombie"
  \/ pc[Super] \in {"lock", "reclaim", "leaveCheck"} /\ slot[Super] = s
RefusalMeansFull ==
  \A p \in Pids :
    pc[p] = "enterRefuse" /\ pc[Super] \notin {"term", "wait", "stopped"} =>
      Cardinality({s \in Slots : workers[s] # NoPid /\ Held(s)}) >= MaxConn

(* Each live worker runs in a slot of its own, the one http_workers        *)
(* records: worker_active[slot] has one writer besides the supervisor.     *)
SlotExclusive == \A p \in Pids : Alive(p) => workers[slot[p]] = p

(* When fl_http_start returns no worker is left, running or unreaped.      *)
NoWorkerOutlives == pc[Super] = "stopped" => \A p \in Pids : pc[p] = "free"

(* The shared limiter lets at most http_rate_max requests of a window      *)
(* through, whichever workers serve them and wherever a worker dies.       *)
RateBound == passed <= RateMax

(* The pool is a connection limiter: a slot is busy while its              *)
(* worker_active flag is set, and refusing from the decision to the 503.   *)
Limiter == INSTANCE ConnLimiter WITH
  Places <- Slots,
  Limit <- MaxConn,
  busy <- {s \in Slots : workerActive[s]},
  refusing <- {slot[p] : p \in {q \in Pids : pc[q] \in {"enterRefuse", "busy"}}}

(* The pool implements its abstract specification as long as no worker     *)
(* dies while it holds the lock.                                           *)
LimiterSpec == Limiter!Spec

-----------------------------------------------------------------------------
(* Fairness.  A process that can take a step eventually takes one; a       *)
(* worker that keeps trying for the lock eventually finds it free          *)
(* (sched_yield gives its owner the processor); accept wakes its waiters   *)
(* in turn; waitpid looks for an ended child in the order the children     *)
(* were forked, so none is passed over for ever.  Nothing obliges a    *)
(* worker to die, an accept to fail, a client to connect or anybody to     *)
(* send SIGTERM.                                                           *)
StepFairness ==
  /\ WF_vars(SuperStep) /\ SF_vars(Acquire(Super))
  /\ \A s \in Slots : SF_vars(Reap(s))
  /\ \A p \in Pids : /\ WF_vars(WorkerStep(p))
                     /\ SF_vars(Acquire(p)) /\ SF_vars(Accept(p))
  /\ \A p \in Procs : WF_vars(Deliver(p))

FairSpec == Spec /\ StepFairness

(* The same with clients that keep connecting.                             *)
BusySpec == FairSpec /\ WF_vars(Connect)

(* Every worker that dies is waited for, and until the server stops a slot *)
(* that counts as active is given back, whether its worker returns from    *)
(* the handler or dies in it.                                              *)
PlacesReturn ==
  /\ \A p \in Pids : pc[p] = "zombie" ~> pc[p] = "free"
  /\ \A s \in Slots :
       workerActive[s] ~> ~workerActive[s] \/ pc[Super] \in {"term", "wait", "stopped"}

(* SIGTERM stops the server: fl_http_start returns.                        *)
StopCompletes == stopping[Super] ~> pc[Super] = "stopped"

=============================================================================
