# A TLA+ verification of FreeLang

FreeLang v11 is a language with a self-hosted compiler to C, a C runtime, an
older interpreter with its libraries in TypeScript, and a standard library in
FreeLang. This directory models the parts of it in which order matters: the
processes of the C runtime that work on shared state, and the libraries of one
event loop whose callbacks, awaits and crashes come in orders nobody wrote a
test for. TLC checks the models on small instances; TLAPS proves the properties
marked below for every value of the constants.

    tlc -workers 2 -config HttpPoolCrash.cfg MCHttpPool   # one run
    tlapm HttpPoolProofs.tla                              # one module's proofs

Paths below are relative to the repository.

## 1. The system

### Components, their state and what makes them correct

| component | source | state | hard part | correct when | module |
|---|---|---|---|---|---|
| HTTP worker pool | `runtime/http_server.c` 57-146, 219-376, 380-397, 1286-1325 | shared mapping `FLHttpRateState` (lock, rate window, count, per-slot flags), `http_workers`, per-process `http_stopping` | processes interleave at every access; workers are killed anywhere; signals come in any gap | the lock excludes, the count is exact and bounded, a slot has one worker, nothing outlives the server | `HttpPool`, `ConnLimiter` |
| Forking HTTP server | the same, 98-115, 155-204, 1326-1392 | `http_workers` list, `http_child_changed`, the lock-free count and its peak | SIGCHLD races accept; compare-and-swap loops; SIGTERM races a child's first lines | count bounded and exact up to the dead, every child on the list once, no child outlives | `HttpFork` |
| run-parallel | `runtime/process.c` 546-776 | `child[]`, `results[]`, pipes | exit, end of file and the deadline in any order; full pipes | input order, each answer the job's own, once; it returns | `RunParallel` |
| promises | `src/async-runtime.ts`, `src/stdlib-async.ts` | state, value, resolvers, rejecters | settling runs callbacks that settle others | one outcome, delivered once to all who listen | `FlPromise` |
| publish and subscribe | `src/stdlib-pubsub.ts` | topic to array of subscriptions | handlers change the array that is walked | each subscriber once per publish | `PubSub` |
| distributed executor | `src/stdlib-distributed.ts` | batch index, results, errors, counters | loops interleave at their awaits | each item once, all of them in the answer | `Distributed`, `EachOnce` |
| workflows, checkpoints | `src/stdlib-workflow.ts`, `src/stdlib-checkpoint.ts` | context, completed steps, the file | a crash between any two steps and in a write | no step skipped, bounded loss but in a write, whole rollback | `Workflow` |
| timers, evidence bus | `src/stdlib-timer.ts`, `src/sis-bus.ts` | registry, ring, drop latch, scores | a full ring; timers that clear themselves | no evidence lost unsaid | `SisBus` |
| cache | `src/stdlib-cache.ts` | entries with expiry, waiters | waiters compete while entries expire | a consumed value goes to one | `Cache` |
| circuit breaker | `stdlib/circuit-breaker.fl` | state, failures in the window, opened-at | nested calls; the state is read before and used after | never half open for good, never closed over the threshold | `CircuitBreaker` |
| job queue | `stdlib/job-queue.fl` | pending, done, failed | handlers push and process; two looks at the clock | jobs are conserved | `JobQueue` |
| bytecode path | `src/compiler.ts`, `src/optimizer.ts`, `src/vm.ts`, `src/interpreter.ts` (evalSExpr) | code, stack | passes move jump targets | the machine answers what the interpreter would, where that answers | `Bytecode` |
| everything else | | | | | not modelled, see 7 |

`PROJECT.json` lists all components with the reason for each one left out.

### How they interact

`fl_http_start` is called by the user's program and picks one of the two servers
by `FL_HTTP_WORKERS`. Both talk to the kernel (listener, fork, waitpid, signals)
and, through one anonymous shared mapping, to their children. A child runs user
code (a handler) between `enter` and `leave`; the handler may call
`fl_http_stop`, hang, throw or be killed. `fl_run_parallel` forks jobs of the
same program image; its only channel to a job is a pipe and an exit status. Both
copy the caller's `error.c` frames by forking.

The TypeScript libraries and the FreeLang ones live in one thread each and meet
the user's code in callbacks: a handler, a task, a job or a step may call back
into the library that is calling it. They are concurrent only where control
returns to the event loop (timers, awaits, polls), and no code of the repository
makes one of them call another, except timers, which report to the evidence bus
and are therefore one module with it.

### Hazards

`PROJECT.json` lists, at its line, each thing here that is hard to test, and
the property that would see it go wrong, or why none does.

## 2. The modules

| module | models |
|---|---|
| `HttpPool`, `ConnLimiter` | the pooled server, and what its connection limit promises, abstractly |
| `HttpFork` | the default, forking server |
| `RunParallel` | `run-parallel` |
| `SisBus` | timers, the evidence bus and its policy |
| `FlPromise` | promises |
| `Distributed`, `EachOnce` | the distributed executor, and what it promises, abstractly |
| `PubSub` | publish and subscribe |
| `Workflow` | both workflow engines and their checkpoints |
| `Bytecode` | compiler, optimizer, machine and the choice to use them |
| `CircuitBreaker`, `JobQueue` | two modules of the FreeLang standard library |
| `Cache` | the in-memory cache |
| `Selection` | filtering a sequence, for `JobQueue` and `PubSub` |
| `*Proofs` | theorems and their proofs; `LibraryProofs` has those of `CircuitBreaker`, `Cache`, `JobQueue` and `PubSub`, `RuntimeProofs` those of `Distributed`, `SisBus` and `FlPromise`, `EventLoopProofs` those of `MCEventLoop` |
| `MCHttpPool`, `MCHttpFork`, `MCRunParallel`, `MCWorkflow` | symmetry sets, sets of death points and shapes of workflows for TLC |
| `MCCallersReturn` | the liveness of the pool's stop and of `run-parallel` |
| `MCEventLoop` | the components of one thread |

`MCCallersReturn` and `MCEventLoop` each hold components that share no variable.
A behaviour there is of one component, chosen in `Init`; the others stay as they
begin. Nothing is lost by that: with no shared state, every property of one
component holds in the interleaved whole if it holds of the component alone.
Names carry a prefix (`wf_`, `Ps`...) because these modules meet in one.

### HttpPool

One action is one access to the shared mapping, one system call with an effect
on another process, or one signal delivery. `pc[p]` is where process `p` is;
pids are the identities, `free` is a pid nobody has and `zombie` a process not
yet waited for. That difference carries the model: `kill(owner, 0)` answers for
a zombie (line 86), so `Probe` fires only for a `free` owner, and
`http_pool_connection_leave` for a dead worker is the supervisor's own passage
through the same lock (`Reap` goes to `lock` with `job = "leave"`).

- *Lock* (79-96): `Acquire`, `Probe`, `Spin`, `Reclaim`. The read of the owner
  and the `kill` are one step; a dead process stays dead, and a lock that has
  changed hands makes the following compare-and-swap fail, which `Reclaim` keeps.
- *Worker* (219-281, 118-141, 380-397): `Boot` resets `http_stopping`,
  `WorkerLoop` tests it, `EnterAccept` begins the system call: between the two a
  signal is noted but no longer stops the call. `EnterCheck`/`EnterCount` and
  `LeaveCheck`/`LeaveCount` are the two stores of enter and leave, taken apart
  because a worker can be killed between them. `RateWindow`, `RateReset`,
  `RateCount` likewise. `Parse` and `Dispatch` stand for the request.
- *Supervisor* (299-376): `SpawnAll`, `SuperLoop`, `Reap`, `NoneEnded`,
  `Replace`, `Retry`, `Gate`, `Poll`, `Accept`, then `Term` and `Wait`, slot by
  slot. `fork` may fail in each.
- *Environment*: `Die` (a kill, or an uncaught error, at the points `MayDie`),
  `Terminate`, `Deliver`, `Connect`, `AcceptFails`, `WindowElapses`.

`total` and `rateCount` are saturated just above the constant they are compared
with. `passed` is a history variable. Pid reuse while a dead owner's pid is in
the lock is left out, as the comment at line 80 leaves it out.

`ConnLimiter` has places and the two sets `busy` and `refusing`. `HttpPool` maps a
slot to busy when its `worker_active` flag is set, and to refusing from the
decision to the 503. The supervisor's own 503 (lines 344-355) holds no place
and is a stutter.

### HttpFork

The request is one step (`Handle`); here the interest is in the two counters.
The parent bounds the list `workers`; children raise `active` by a
compare-and-swap loop (`EnterRead`, `EnterCas`) and then the peak by another.
SIGCHLD is installed with `SA_NOCLDWAIT`: a child leaves no zombie, `waitpid`
answers ECHILD, and its pid is free at once. Signal delivery is separate from
sending (`sigchld`, `sigterm`). `deaf` remembers children that dropped a SIGTERM
in the handler they inherited, before line 1352. `highest` and `leaked` are
history variables.

### RunParallel

The caller goes slot by slot through the phases fork, scan, poll, read, wait,
parse. A job's process runs, writes its result in chunks to a bounded pipe, and
ends by itself, by a kill, or by SIGPIPE. A result is identified by its job and
its size in chunks. `fl_throw` without a frame exits; with one that was
inherited the child goes `astray`. A process the job leaves behind (`heir`)
keeps the pipe's write end. The second size test, in the read loop (727-733), is
left out: `fl_parallel_child` has already refused to write so much.

### SisBus

`set_*`, `clear_*` and `timer_clear_all` are actions; `Fire` starts a callback and
`Returns`, `TimeoutThrows` or `IntervalThrows` end it, so that a callback can set
and clear timers, its own included, in between. `sisEmit` is one step, as in the
code: the overdue notice first, if the ring has room, then the evidence, then
the policy. Evidence is named by its timer; messages and snapshots are left out.
`sis_log`, `sis_notices` and `sis_told` are history variables.

### FlPromise

Settling a promise runs its callbacks then and there; each settles another
promise whose callbacks run before the next one of the first. The calls are a
stack, `todo`: the callbacks of a promise go in front of what is still to run.
Between two of them user code may act (a handler runs), so every operation is
enabled while `todo` is not empty. A timer, an executor or a called function is
a *source* that settles freely. What a promise was settled with is identified by
the promise whose handler or settling gave it.

### Distributed

`DiTake`, `DiItemOk`/`DiItemFails`/`DiItemBreaks` and `DiSync` are the stretches
of `workerLoop` between two awaits. Taking a batch is a step of its own, which is finer than the
code (there is no await before it). The checksum is taken to tell two counters
apart, and `checksum_validation` to be on, its default. A worker's name and the
statistics kept for display are left out. `EachOnce` is the promise: an item goes
from todo to processed, failed or broken, once; it is refined through `di_outcome`.
`DiItemBreaks` is a task that throws null or undefined: `err.message` (line 183)
then throws out of the worker, whose count of failures has been raised but whose
error is not recorded, and the executor gives no answer.

### PubSub

Arrays have identities (`ps_array`), because `publish` walks the array it found
while `unsubscribe` splices that array in place, and its end stores a filtered
copy of it. `ps_walks` is the stack of publishes; `ps_calls`, `ps_removed`,
`ps_replaced`, and a walk's `start`, `seen` and `cut` are history.

### Workflow

`wf_file` is the disk and survives `WfCrash`; `wf_run` is the call's local
variables and does not. `saveCheckpoint` is two steps, for the file is cut and
then filled in place. What a step's function, condition, handler or
compensation answers is chosen freely; the strategies that decide a parallel
group (all, any, quorum) are abstracted to that choice. After a crash the
program either makes its workflow again, with an id of the moment
(`workflow_create` uses `Date.now()`), or kept a stable id. `wf_past` and
`wf_stale` are history variables.

### Bytecode

Programs are a set of expressions of bounded depth over any set of integers.
`BcCode` (what an expression is compiled to, by where its code begins) and
`BcEval` (what the interpreter makes of it, by what the variable holds) are
functions on them, recursive through the operands; `BcEffect` is an instruction
of the machine and `BcTrace` the machine step by step. The state machine takes
the optimizer one rewriting at a time, so that each can be held against the
machine. Constants stand in the code instead of a pool. `bc_entered` records
that some jump led into the middle of what a pass rewrote; `BcPlain` says where
machine and interpreter are meant to agree at all. `bc_known` is what the
interpreter's variable holds when the expression is reached, if anything; the
machine starts without it, throws when it needs it, and `BcFallback` answers
from it. An exception of the interpreter is `BcMismatch` (a builtin was given no
number) or `BcError` (anything else); the first that is thrown is the program's.

### CircuitBreaker, JobQueue, Cache

*CircuitBreaker*: `cb_calls` is the stack of nested `cb-call`s, each with the state
it read. Time is a step: the recovery time is over, or the oldest failures
leave the window (the code never shortens its list while the breaker works; what
it holds beyond the window is nowhere counted, and not in `cb_failures`).
*JobQueue*: `jq_runs` is the stack of nested `jq-process` calls.
`jq-process` filters the queue twice, against a clock that moves on: `late` are
the jobs that come due between the passes, which are in neither answer.
*Cache*: time is a step; an entry's moment comes, and has passed. A waiter's
timer may check at any time, in any order with the others'.

## 3. The runs

Each property has a mutant of a mapped definition in `PROJECT.json` that its run
refutes. Mutants are kept beside the definition they mutate, with a comment
`a defect:` or as the second value of a common operator (`EnterCheckAgainst(p,
limit)` gives both `EnterCheck` and the off-by-one `EnterCheckOffByOne`).

| run | instance | shows |
|---|---|---|
| pool_crash | 2 slots, 3 pids, two requests per worker, limits of 1, SIGTERM anywhere, deaths anywhere but between two stores that belong together | the shared lock is exclusive and never taken from a live or unreaped owner; no window lets more through than the limit; each live worker is the one its slot records; nothing outlives the server; the count agrees with the flags at every step; 503 means full; the pool implements `ConnLimiter` |
| pool_live | 2 slots, traffic, deaths in handlers | the places of dead workers come back |
| pool_stop | 1 slot, no traffic promised | *violated*: SIGTERM need not stop it |
| fork_crash | 3 children, connection limit 2, deaths and SIGTERM anywhere | counter, limit, peak, list, SIGCHLD flag, no child left |
| fork_live | 2 children, request limit 2, handlers that hang, deaths anywhere | both ways of stopping end; places of dead children return |
| fork_leak | 2 children, connection limit 1, deaths in handlers | *violated*: 503 with nothing being served |
| callers_return | pool: 1 slot, 2 pids, request limit 2; run-parallel: 3 jobs in batches of 2, hanging, throwing, one not a function, SIGCHLD ignored or not; and 2 jobs, one with a result of up to 2 chunks through a pipe of 1 | `fl_http_start` returns after SIGTERM while clients connect; `fl_run_parallel` returns, with large results without the deadline's help |
| parallel_safe | 3 jobs in batches of 2, called inside a try, results of 1-2 chunks through a pipe of 1, hanging, throwing, leaving a process | own result, in its place, once; batches settled |
| parallel_heir | a job that leaves a process | *violated*: it does not return |
| parallel_astray | one job that throws inside the caller's try | *violated*: the child runs on in the caller's program |
| event_loop | the nine components of one thread, one to a behaviour | the table below |
| workflow_torn | 3 plain steps, a checkpoint after each, two calls | *violated*: the second call need not resume near where the first one ended |

What `event_loop` checks, apart from the types (`LoopTypeOK`):

| property | says |
|---|---|
| `SisKept` | the ring holds, in order, exactly the evidence accepted since the last drain; each drop is in a notice or counted for the next; exactly the timers that failed often enough are in quarantine |
| `WfNothingSkipped` | wherever a call resumes, whatever is in the file, no step before it is missing and their results are in the context |
| `WfLossBounded` | a crash costs less than `checkpoint_every` plain steps, and exactly as many when the file is about to be opened; nothing is said of one while the file is written (section 5) |
| `WfRollback` | after a failed run everything it completed is compensated, last first, whatever a compensation throws |
| `PrDelivered` | no handler runs twice; when all is quiet a promise is pending only if it waits for a pending one or missed its outcome |
| `DiAnswer`, `DiEachOnce` | the answer has all items once, with counters to match; the executor implements `EachOnce` |
| `PsOrderly` | topics listed have subscribers; a publish calls nobody twice, and everyone that nothing moved; the registry is exact |
| `BcRewriteSafe`, `BcAgreesElse` | a rewriting no jump leads into changes nothing; the answer is the interpreter's, by the machine or by falling back, unless the interpreter throws because a builtin is given no number (section 5) |
| `CbSound` | closed means below the threshold; half open means a trial is on; every call is accounted for |
| `JqConserved` | every job is in one place; none is tried more often than it may be |
| `CaTakenOnce` | a value goes to one waiter at most, and then to nobody else |

Several of these name an exception, because the code has it: `MissedIt`, `Misled`,
`grouped`, `"write"`, `DiGone`, `cut`, `ps_replaced`, `bc_entered`, `BcMismatch`,
`jq_missed`. Section 5 lists them.
The property then says that nothing else goes wrong, and its mutants show that
the exception does not swallow it.

### Why the bounds are enough

*Pool.* Two slots and a limit of one make every conflict there is: two workers
for the lock, one for the place, one refused. The third pid lets a worker be
replaced while the first one's pid is still in the lock word or a zombie. A
rate limit of one is the smallest at which a second request is one too many;
one connection in the backlog is enough for poll-then-accept to lose it. The
server is stopped in `pool_crash` at any point. Liveness is checked without
symmetry, which would be unsound, hence the smaller instances.

*Fork.* Three children against a limit of two: the compare-and-swap loop can
fail and go round, the peak can be raised out of order, and the list is long
enough for swap removal to move an entry. *run-parallel.* Three jobs in
batches of two give a full and a short batch (the base of the second is not 0);
two chunks through a pipe of one block the writer, also in `callers_return`, where a
third part has such a job beside one without a child and lets no time pass.

*Timers and bus.* A ring of 4 holds 3: eight failures fill it, drop, drain, wrap
and announce twice; two timers against a threshold of 3. *Promises.* Four are a
source, two that listen to it and one that joins those, or a chain of three
and a finally on it. *Executor.* Five items in batches of two end with a short
batch; two workers overlap at every await, and there is a third batch for
either. *Publish.* Three subscriptions, two publishes, one inside the other or
after it, on one topic: topics meet only in `PsUnsubscribeAll` and the lookup of
`PsUnsubscribe`. *Workflow.* Three steps with a checkpoint every two, one retry,
three calls: a crash, a resumption that crashes, another. The middle step is a
plain optional one or a parallel group. *Bytecode.* All programs of an operator
over a two-level operand: every pass meets a jump into, before and behind its
window; the interpreter's variable is unset or one of the numbers, so that the
machine throws for want of it and the fallback answers from it, or does not.
*Breaker.* Threshold 2 and three calls inside one another: a trial, a
call that reads HALF-OPEN, and one that finds it open or closed again. *Jobs.*
Three jobs, two attempts, `jq-process` inside a handler. *Cache.* Two waiters on
one key or two, three values.

### Death points

Killed at some points, a worker makes the code lose these properties:

- between lines 124 and 125, or 135 and 137, the slot's flag and the count
  part: `ActiveExact` fails (a connection slot is lost or given twice).
  `pool_crash` kills workers everywhere else (`WholeUpdates`);
- holding the shared lock, a killed worker stays a zombie, for which
  `kill(owner, 0)` succeeds, until the supervisor waits for it; a supervisor
  that is itself at line 311 spins for that lock and never does.
  `PlacesReturn` fails. `pool_live` and the pool of `callers_return` kill workers
  only in handlers, where a worker runs user code.

The safety of the lock, of the slots and of the rate limit does not depend on
this: it is proved for deaths anywhere, those two points included.

### Fairness

The specifications of safety have none. `FairSpec` gives weak fairness to every
step a process can take by itself and to signal delivery, because the kernel
schedules processes and delivers signals. Strong fairness is used where
continuous enabling fails but the kernel still serves everybody: `Acquire`
(spinning yields the processor to the owner), `Accept` on a shared listener,
`Reap(s)` (waitpid finds children in the order of forking), `Poll` of
`run-parallel` (poll does not fail for ever), `DrainEnds` (time). `BusySpec`,
and `HttpFork`'s `FairSpec`, add clients that keep connecting; `pool_stop` shows
that the pool's stop needs them. Handlers and jobs are never obliged to return
where the run is about that (`HttpFork`, `MayHang`); in `HttpPool` they are,
since the pool has no deadline for them, nor for a client that does not read a
long answer (`http_send_all` repeats an interrupted `send`, line 683): the
liveness of the pool assumes that handlers return and clients read.
`CallersSpec` is `BusySpec` of the pool and `FairSpec` of `run-parallel`, for the
call that is made; in its part with large results time need not pass, and a job
is bound to return instead. The libraries of one thread have no liveness property of
their own: whether a callback returns or a promise's source settles is the
user's.

`HttpFork`'s stopping properties except one situation: `Stuck`, a child that
swallowed SIGTERM before line 1352 and whose handler hangs.

## 4. Findings

1. *pool_stop* — a worker loses a SIGTERM that arrives before `http_stopping = 0`
   (line 227) or between the test at 235 and `accept`; `http_stop_pool` then
   waits without a limit. `tests/run-task942-pool.sh` expects no worker after a
   stop; it always sends a request in between.
2. *fork_leak* — a handler that ends its child (an uncaught error, a kill) leaves
   its connection counted; after `HTTP_MAX_CONN` of those the server answers 503
   to everybody.
3. *parallel_heir* — the five-second limit of `run-parallel` stops applying once
   the child is reaped; a process it left behind holds the pipe and the caller
   waits for it.
4. *parallel_astray* — a job's uncaught error inside a caller's `try` continues
   the caller's program in the child.

5. *workflow_torn* — `saveCheckpoint` writes in place: `writeFileSync`
   (`stdlib-checkpoint.ts:36`) cuts the last good checkpoint before it writes the
   new one. A crash or a failing write in between leaves a file that loads as
   null, and the next call starts at step 0; `docs/AI_RELIABILITY_GUIDE.md:188`
   promises to resume "from the last point".

## 5. What else was met

Behaviour of the code that the models contain and the properties except by name,
or that shows on reading; the first point of *Workflows* is finding 5,
and none of the others has a run of its own.

- *Promises.* `then`, `all` and `race` on a pending promise register no rejecter
  (`async-runtime.ts:103`): a later rejection leaves them pending for ever.
- *Publish.* An unsubscribe in a handler makes the walk skip the next
  subscriber; the array stored at the end (line 50) undoes what handlers
  subscribed or unsubscribed when another array has taken its place, and a
  once-only handler can then fire twice.
- *Workflows.* What a crash costs when checkpoints are due every `checkpoint_every`
  steps: between two steps less than that; when the file is about to be opened
  exactly that; between the cut and the write of the file (a crash, or an I/O
  error, which throws) every step since step 0. `WfLossBounded` says the first
  two, `WfResumesNear` fails for the third; it is the write in place alone that
  it fails for, since with a file replaced as a whole TLC finds no violation
  (checkpoints after every step or every second). Parallel groups do not lead to
  checkpoints and shift their rhythm. A failed asynchronous run keeps its checkpoint after compensating, so
  a resumption skips steps that have been undone. An error while saving leaves
  without compensation. The synchronous engine names an undeclared `traceId`
  when it skips a step (line 224). Ids are made from `Date.now()`, so a program
  that makes its workflow again after a restart never resumes. `timeout_ms`
  and `on_timeout` are not enforced, and `step.fn` is not awaited.
- *Timers.* `timer_clear_all` leaves the statistics of the intervals it stops
  (`stdlib-timer.ts:169`). After a notice the bus's own `invariant_ok` is false,
  since notices are received and not emitted (`sis-bus.ts:45`, 64), and the
  policy's count exceeds `received` when evidence is dropped.
- *Executor.* A task that throws null or undefined ends its worker in the handler
  of errors (`stdlib-distributed.ts:183`): `Promise.all` rejects and the executor
  answers nothing, while the other workers go on. `DiAnswer` counts such a failure
  apart (`DiGone`).
- *Job queue.* With a `max-retry` of 0 a job is tried once all the same. A job
  that comes due between the two filters of `jq-process` (lines 54-55) is in
  neither list and lost; the `now` bound above them is not
  used.
- *Breaker.* A trial that succeeds closes a breaker a nested call has opened;
  all calls inside a trial pass.
- *Cache.* In the last millisecond of an entry `cache_ttl` removes what
  `cache_get` would still answer; `cache_incr` goes on counting an expired value.
- *Bytecode.* The machine's arithmetic takes null and truth values (`vm.ts:62`) where
  the interpreter's throws `E_TYPE_MISMATCH` (`eval-builtins.ts:2025`), and since
  the machine has not thrown there is no falling back: `(- 1 (if (not true) 1))`
  is 1 with `FL_VM=1` and an error without, although
  `src/__tests__/vm-optin.test.ts:3` is there to verify that the two agree.
  `BcAgreesElse` excepts the programs for which the interpreter throws that, and
  nothing else; TLC refutes it without the exception. What an operand defines
  is in the machine's variables and not in the program's, so it is lost to the
  statements that follow. In the fallback the builtins inside the program would
  go to the machine again, each by itself; the model's interpreter does not, and
  the two agree for the programs modelled. Lists are equal to the machine only if
  they are one and the same. Folding across a jump target changes the answer:
  `(- 1 (do (if true 2 2) 1))` gives 1. A third operand is not compiled; `and`
  and `or` of the machine answer truth values, the interpreter's an operand;
  the initial variables given to the machine's `run` are not used.

## 6. The proofs

Everything here is proved from the named assumptions on the constants, which
every run that uses the module evaluates. Each proof module defines an inductive
invariant, proves that `Init` implies it and every step keeps it, with one step
per action, and derives the rest.

**HttpPoolProofs.** `MutualExclusion` alone is not inductive: from a state where
a process believes a *live* owner dead, `Reclaim` frees a lock somebody holds.
The invariant therefore adds `LockOwned` (a process between lock and unlock is
the one the lock names) and `DeadOwner` (a pid found dead is `free` and stays
so, because `Fork` hands out no pid that the lock or an `owner` remembers).
Hence `Reclaim`'s compare-and-swap can only hit a dead owner. `Counted` relates
what the limiter let through to its counter and says that nothing was let
through while a process is about to reset it; that needs `LockOwned` again, for
two processes at `rateReset` and `rateCount`. `Room` carries the test of a limit
to the increment after it. `PointsOK` and `DataOK` are the typing, split by
who may be where. `SlotsOK` follows the two loops over the slots: `http_workers`
has every live worker and every zombie in one slot each, and no other pid but
the one the supervisor has just waited for; what the loops have passed is empty
at the end. `ClaimedOK` says whose a set `worker_active` flag can be: a worker's
that is being admitted or handles a connection, a zombie's, or that of the dead
one whose slot is about to be left. Results: `TypeCorrect`, `MutualExclusion`,
`RateLimitHolds`, `SlotsExclude`, `NoneOutlives`, and `NeverStolen`, an action
property proved from `LockOwned` and `DeadOwner`.

What is said of the count is proved under `NoHalfUpdate`: no worker is killed
between the two stores of enter or leave. It is a hypothesis of those theorems
and not an assumption of the module, since the code does not ensure it (see
*Death points*); workers may die everywhere else. `AccountOK` says
that the count and the flags differ by what the holder of the lock still owes,
and that one which is about to answer 503 still sees all places taken, for it
holds the lock. It needs `LockOwned`, or two processes might owe at a time, and
`ClaimedOK`, so that admitting a worker sets a flag that was not set. Results:
`ActiveIsExact`, `RefusedWhenFull`, and `PoolIsLimiter`, the refinement of
`ConnLimiter`: a flag set is a place taken, a flag cleared one given back, a
refusal happens with all places busy, and every other step stutters.

**HttpForkProofs.** `CountersOK` is `ActiveExact` with the ranges of the
counters and of the children's local copies. Every compare-and-swap and every
death changes one side of the equation by what it changes the other by
(`OneFewerCounted`, `SameCounted`, over finite sets); the ranges hold because a
swap succeeds only when the value it tested against the limit is still there.
`TrackOK` says that the list has no duplicates, that every live child is on it or
is the one being recorded, and that none is left at the end;
`SwapOutProperties` is the lemma about moving the last entry into the hole.
`FlagOK` strengthens `GoneIsFlagged` to the child that is yet to be recorded and
to the part of the list a reap under way has still to look at: a death raises
the flag behind the reap's back or in front of it. `PeakOK` adds to `PeakExact`
what a child that is to report has read, which is no more than there is to read.
`ServedOK` needs both counts: the parent's list keeps the live children within
`http_max_conn`, so that a child finds the counter full only if it also counts a
dead one. Results: `TypeCorrect`, `CounterExact`, `ConnLimitHolds`,
`EveryChildTracked`, `NoneOutlives`, `GoneStaysFlagged`, `PeakIsExact`,
`EveryForkedIsServed`.

**WorkflowProofs.** Every step of either engine is one of a few *moves* of a
call (`Moves`): it enters, passes a step over, adds one, saves, fails, undoes,
ends or dies; the invariant is proved over those. `WfNothingSkipped` is half
inductive: `CallPassed` says it of the call that runs, and needs `FilePassed`,
which says it of the file, whatever a crash has left there; saving carries it
from the first to the second, a resumption back, and compensation breaks it for
the file exactly when `wf_stale` says so. `LossOK` is `WfLossBounded` with its
reason: the plain steps done since the last checkpoint are as many as the
remainder of the step count by `checkpoint_every`, and a whole `checkpoint_every`
of them when the save is due. It excepts a call that is writing the file: then
the file holds no start to count from. `WfRollback` needs to know
what may still be undone: `OwnOK` (a run's completed steps are those it has done,
in their order), `AccountOK` (whatever it has done is among them, or need not or
cannot be undone) and `UndoneOK` (what has been undone lies above what is left,
in reverse). Results: `WfTypeCorrect`, `NothingSkipped`, `LossIsBounded`,
`RolledBack`, for every number of steps, every shape, and a crash at any step.

**RuntimeProofs, distributed executor.** Two workers never have the same item because the batches
they hold differ (`BatchesDiffer`), the items of two batches are disjoint
(`BatchesApart`, from the monotonicity of `b * DiBatch`), what is left of a
batch is still to be done (`AllInBatch`), and so is everything beyond the index
(`RestUntouched`). Results: `NoOverlap`, and `ImplementsEachOnce`, the refinement:
each step processes one item that was to be done, or stutters. `AnswerIsWhole` has
an invariant of its own over that one: the arrays are the items that went well
and those that failed, once (`ArraysOK`); the workers' counters add up to their
lengths (`TotalsOK`, with the sum as a sequence of partial sums, `SumOf`, since
one worker changes one term); an item still to be done lies in a batch nobody
has, or in the rest of somebody's (`LeftOK`), so that none is when all workers
have seen the end (`EndSeen`); and the checksum last sent was of the final
counters (`Recorded`).

**RuntimeProofs, timers and evidence bus.** The order of the ring is arithmetic modulo its size. `Around`,
`Distance` and `RingPlace` say where a cell lies; `PushHolds` that a push into a ring
that is not full appends to what it holds. `BusInv` adds to `SisRingHoldsLog` and
`SisDropsAreTold` that fewer than `CAP` pieces are queued; `PolicyInv` relates
scores to missed ticks and needs `TimersInv`: a timer that has not been created
has neither. Results: `RingHoldsLog`, `EvidenceKept`, `GoneForGood`.

**LibraryProofs, circuit breaker.** `CbSound` is three invariants, each inductive
under the typing. `Tripped`: whatever lets the failures reach the threshold opens,
and closing clears them. `Tried`: the end of a trial leaves a state that is not
half open, and the end of another call leaves the trial where it was in the
stack (`Popped`, `Pushed`). `Counted`: each step moves one call. Results:
`BreakerTypes`, `BreakerSound`.

**LibraryProofs, cache.** A written value is identified by the number of its
write. The invariant says that no two keys have the same number, that neither a
key nor a waiter has one that has not been given out, and that only a resolved
call has taken anything. A store, of one key or of several, gives out numbers
that nobody has; taking one removes the entry in the same step, so that the
number is in no entry afterwards. Results: `CacheTypes`, `TakenOnce`.

**LibraryProofs, filtering.** `jq-process` and `publish` filter arrays of any
length, so what `Selected` returns must be known for all of them. It is a
recursive function of the number of elements looked at, and `SelectedFacts` (the
elements that are kept, each as often as before, in their order) is an induction
over it. The library's induction theorems take an operator, which the provers
cannot instantiate; `SetInduction` states the same for a *set*, and is proved
from the theorem that a one-to-one function of a finite set to itself is onto:
were n the first number missing, successor on the members below it would be one.
The function exists because finitely many of its values always do, again by
`SetInduction`.

**LibraryProofs, job queue.** `JqConserved` is inductive as soon as it holds of a
*particular* assignment of places to jobs. `Placed(where)` spells it out list by
list; each operation is then the reassignment of one job, or of those a filter
has chosen (`Selected` keeps each once), or of the stack by one as a run of
`jq-process` begins or ends (`PlacesAre`). `RunsHold`: while a handler runs its
job is the first of its run. `AttemptsLeft`: a job in the queue has an attempt
left, as a failure that uses the last one goes elsewhere. Results: `QueueTypes`,
`JobsConserved`.

**LibraryProofs, publish and subscribe.** The invariant speaks of arrays by
identity. `Owned(own)`: arrays that share a subscription belong to one topic, a
topic's to that topic and a walk's to its own, although at most one of them is
in the registry; without it a filtered copy might bring a subscription to
another topic. `Walked` says of each publish under way, the nested ones
included, that whom it has called lies behind it in its array, each once, and
that those behind it that were there and were not called are no more than the
removals that shifted the array under it (`cut`). An unsubscribe anywhere moves
the array of every walk over it and counts for each of them. `RegistryKept` relates the
registry to what was removed and to the once-only handlers called, as long as
no publish has put its array in another's place. Results: `RegistryTypes`,
`Orderly`.

**RuntimeProofs, promises.** Settling is guarded by the promise's being pending, but
making a promise is not: the invariant adds that what has not been made is
pending and of no kind, so that it has no outcome to lose, and that a callback,
whose target has a kind, does not give it one. Result: `SettledOnce`.

`PrDelivered` speaks of quiet states and of handlers about to run; its inductive
invariant, `PrHeard`, says what is owed meanwhile. `PrListed`: until a promise has
an outcome, all who listen to that outcome are in its list, once, and afterwards
nobody is. `TokensHold`: a callback that waits is of one who listens to the
outcome it brings, of a promise that was pending when that one was made, and no
other waits for the same two. So a chain, which listens to one promise, has one
callback at most and is pending until it has run. `Owed`: a pending promise waits
for each of its elements, missed its outcome, or has its callback on the stack;
`Why`: a settled one has heard from an element or found it settled. `Family`
(promises are made from earlier ones) keeps settling one from changing why
another is settled. `Delivering` carries all of that over a settling, whatever it
puts on the stack, and `MakingHeard` over making a promise of any kind; the last
callback of an `all` is where `Owed` and `Why` meet. Results: `PrTypeCorrect`,
`Delivered`.

**RunParallelProofs.** `OwnResult` is not inductive, for it says nothing of the
way a result takes. `Accounts` does: the chunks of a job's result are those its
slot has read, those in the pipe and those still to be written, and what the
slot says (`reaped`, `eof`, `failed`) is true of the process. With `Procs` (a
process that ended with status 0 has nothing left to write) a slot that is
reaped, at the end of its pipe and not failed has read all of it. `SlotsOK` ties
a slot to the job at its place in the batch, so that the caller's passes disturb
one job each; `SlotInvariant` proves that once for scan, read, wait and parse, and
`ProcessInvariant` the same for every step of a child. `Told` says which slots
are answered, and that whatever can be parsed is parsed in the pass that follows:
when none is busy at `poll`, all are answered, which is `BatchSettled`.
`Untouched` says the same of the jobs whose turn has not come, and gives `Fork` an
unset answer to fill. Results: `TypeCorrect`, `OwnResultHolds`,
`BatchSettledHolds`; and, from `Waited` (a child is gone only after its `waitpid`)
and for programs that are not started with SIGCHLD ignored, `AnsweredOnceHolds`.

**BytecodeProofs.** A machine is a function of the number of steps, code and
values are functions of expressions; all of them are defined by recursion. That
they exist is proved first: for the machine, because finitely many of its steps
always do (`NatSteps`, an induction over a *set* of numbers from their being
well-founded); for expressions, level by level of their depth (`CodeSettles`,
`EvalSettles`). From there on only the unfolded equations are used (`Trace`,
`CodeOf`, `EvalOf`).

- *Well-formed code* (`BytecodeTypes`). `Fits` says of a piece of code where it
  begins and that its jumps lead forward and not beyond its end; it is kept by
  joining pieces (`FitsJoined`), and every form of expression is pieces joined
  (`FormWhole`). So jumps lead forward in compiled code, the place of the next
  instruction only grows, and the machine has stopped after as many steps as
  there are instructions (`TraceStops`), which is where `BcRun` reads its answer.
- *Rewriting* (`RewritesAgree`). The machine on the code before and the machine
  on the code after go together (`StepTogether`): outside the window that a pass
  rewrites they take the same step up to the shift of places, and a jump,
  moved by the same shift, leads to the same place on both sides, since none
  leads into the window; in the window the old machine takes the steps whose
  sum is what the new code does at once (a folded constant) or not at all (a push
  that is popped, a jump to the next place). Both halt together, in states that
  differ in place alone (`HaltsTogether`, `SplicedRuns`).
- *Interpreter and machine* (`AnswersAgree`). `Yields` says what the code of an
  expression does wherever it is in whatever code: it takes the machine to its
  end, with one value more on the stack and some content of the variable. Each
  form yields what it is made of (`YieldsBinary`, `YieldsIf`, ...), and `Same` adds
  that the interpreter's rule for the form gives the same value, no exception,
  and leaves the variable alike (`SameBinary`, `SameIf`, `SameDo`, ...) where
  `BcPlain` holds: conditions are truth values there, so that `and` and `or` mean
  the same to both (`TruthsSay`). The interpreter and the machine begin with
  different variables. An operand is therefore *steady*, of one value whatever
  the variable holds, or the machine throws in it (`Decided`, `NumbersSettle`):
  the variable read before it is defined is the one reason for that, and
  `Throws` carries it from an operand to the program, whose answer is then the
  interpreter's own. A program is `Alike` (`ProgramsAlike`): the machine throws, or
  the interpreter throws `BcMismatch` with every variable, or both come to the
  same value.
  With the invariant `BcInv`, by which the rewritten code runs as the compiled
  one did, this is `BcAgreesElse`.

`NoOverlap`, `GoneForGood` and `SettledOnce` state properties of the modules that
no run lists; TLC agreed with each before its proof.

**EventLoopProofs.** A step of `MCEventLoop` is a step of one component and
leaves every other as it is (`StepOfOne`), so a behaviour of the composition is a
behaviour of each component (`EveryComponent`), and what is proved of the
components holds there: `LoopTypes`, `LoopKeepsAll`.

**Only model-checked.** Liveness (`PlacesReturn`, `PoolStops`, `ParallelReturns`,
`HttpFork`'s `StopCompletes`), for TLAPS 1.4.5 does not reason about ENABLED.
Every invariant and action property of a passing run is stated by a theorem.

## 7. Not modelled

- Parsing, routing, responses of the HTTP servers: sequential byte work, one step
  in the models. The environment's configuration; constants stand for it.
- Pid reuse under a held lock (line 80); `http_stop_workers`' wait for children
  other than its own (line 179): a server process that also spawned children.
- The message queue helper (`stdlib-queue-helpers.ts`): single SQL statements that
  take a message and take it back when its lock has run out. Acknowledgement
  is in a program outside the repository, so there is no protocol to check.
- Channels, cron, mutex, rate limiter, retry and the like: a bounded array or one
  atom, used from one thread; a model would repeat the code.
- The frame stack of `error.c` within one process; the TCP handle registry.
- HTTP and WebSocket services in TypeScript, superseded by the C server;
  wrappers of Node, of databases, of model services.
- Parsers, compilers, the interpreter outside what `Bytecode` shares with it, the
  self-hosted compiler and the code generated from it (`bootstrap.js`, `self/`):
  sequential translation over unbounded syntax, which the repository tests by
  fixpoint and of which a state machine says little. They are most of the
  repository's lines.

## 8. What is left

In this order:

1. `TryFrames` (`error.c`) composed with `RunParallel` and `HttpFork`'s handlers.
2. Several topics in `PubSub` and quorum strategies in `Workflow`, if they come
   to interact with more than they do.
