------------------------------- MODULE HttpFork -------------------------------
(***************************************************************************)
(* The default HTTP server of runtime/http_server.c (FL_HTTP_WORKERS = 0): *)
(* fl_http_start accepts and forks a child for every connection.           *)
(*                                                                         *)
(* The parent bounds its children by the list http_workers, which it       *)
(* shortens when SIGCHLD has told it to; the children bound themselves by  *)
(* active_connections, a counter in shared memory that is only ever        *)
(* changed by compare-and-swap.  SIGCHLD is installed with SA_NOCLDWAIT,   *)
(* so a child that ends leaves no zombie and its pid is free at once.      *)
(* The request itself is one step here: HttpPool takes it apart.           *)
(***************************************************************************)
EXTENDS Integers, FiniteSets, Sequences

CONSTANTS
  Pids,         \* process identifiers the kernel may give to children
  Parent,       \* the process that called fl_http_start
  WorkerLimit,  \* http_worker_limit, set by server-workers
  MaxConn,      \* http_max_conn
  MaxRequests,  \* FL_HTTP_MAX_REQUESTS, 0 when unset
  Backlog,      \* bound on connections waiting in the listener's queue
  MaySignal,    \* whether the operator may send SIGTERM to the parent
  MayDie        \* program points at which a child may be killed or may exit
                \* on an uncaught error raised by a handler

Procs == Pids \cup {Parent}

(* A child at one of these points has counted itself in                    *)
(* active_connections and has not yet taken itself off.                    *)
Counted == {"peakRead", "peakCas", "handle", "leave"}
ChildPoints == Counted \cup {"boot", "enterRead", "enterCas", "busy", "exit"}
ParentPoints == {"loop", "reap", "toAccept", "accept", "accepted", "record",
                 "closing", "drain", "drainReap", "term", "wait", "stopped"}

ASSUME ForkAssumption ==
  /\ IsFiniteSet(Pids) /\ Parent \notin Pids
  /\ WorkerLimit \in Nat \ {0} /\ MaxConn \in Nat \ {0}
  /\ MaxRequests \in Nat /\ Backlog \in Nat \ {0}
  /\ MaySignal \in BOOLEAN /\ MayDie \subseteq ChildPoints

VARIABLES
  pc,            \* program point of every process, "free" for a pid unused
  stopping,      \* the parent's http_stopping
  childChanged,  \* http_child_changed
  sigchld,       \* a SIGCHLD is pending for the parent
  sigterm,       \* processes with a pending SIGTERM
  deaf,          \* history: children that have dropped a SIGTERM
  workers,       \* http_workers[0 .. http_worker_count - 1]
  index,         \* the loop index of http_reap_workers or http_stop_workers
  worker,        \* the child just forked and not yet recorded
  served,        \* connections accepted, saturated at MaxRequests
  backlog,       \* connections the kernel has queued on the listener
  seen,          \* a child's local active
  seenPeak,      \* a child's local peak
  active,        \* .active_connections
  peak,          \* .max_active_connections
  highest,       \* history: the highest value active has ever had
  leaked         \* history: children that ended while they were counted

parentVars == <<stopping, childChanged, workers, index, worker, served>>
counters == <<active, peak, highest, leaked>>
locals == <<seen, seenPeak>>
signals == <<sigchld, sigterm, deaf>>
vars == <<pc, parentVars, signals, backlog, locals, counters>>

Init ==
  /\ pc = [p \in Procs |-> IF p = Parent THEN "loop" ELSE "free"]
  /\ stopping = FALSE /\ childChanged = FALSE
  /\ sigchld = FALSE /\ sigterm = {} /\ deaf = {}
  /\ workers = <<>> /\ index = 1 /\ worker = Parent
  /\ served = 0 /\ backlog = 0
  /\ seen = [p \in Pids |-> 0] /\ seenPeak = [p \in Pids |-> 0]
  /\ active = 0 /\ peak = 0 /\ highest = 0 /\ leaked = 0

Goto(p, point) == pc' = [pc EXCEPT ![p] = point]
Alive(p) == pc[p] # "free"

-----------------------------------------------------------------------------
(* Processes and signals.                                                  *)

(* A child is gone: no zombie, its signals dropped, SIGCHLD to the parent. *)
Ends(p) ==
  /\ Goto(p, "free")
  /\ sigchld' = TRUE
  /\ sigterm' = sigterm \ {p}
  /\ deaf' = deaf \ {p}
  /\ seen' = [seen EXCEPT ![p] = 0]
  /\ seenPeak' = [seenPeak EXCEPT ![p] = 0]
  /\ leaked' = IF pc[p] \in Counted THEN leaked + 1 ELSE leaked
  /\ UNCHANGED <<active, peak, highest>>

Die(p) ==
  /\ pc[p] \in MayDie
  /\ Ends(p)
  /\ UNCHANGED <<parentVars, backlog>>

(* SIGTERM kills a child that has reset the handler it was forked with and *)
(* only sets the child's own copy of http_stopping, which nothing reads,   *)
(* in one that has not.                                                    *)
ChildTerm(p) ==
  /\ p \in sigterm
  /\ \/ pc[p] # "boot" /\ Ends(p)
     \/ /\ pc[p] = "boot"
        /\ sigterm' = sigterm \ {p}
        /\ deaf' = deaf \cup {p}
        /\ UNCHANGED <<pc, sigchld, locals, counters>>
  /\ UNCHANGED <<parentVars, backlog>>

(* accept, and only accept, is interrupted by a signal handler.            *)
Interrupt == pc' = [pc EXCEPT ![Parent] = IF @ = "accept" THEN "loop" ELSE @]

(* http_stop_signal and http_child_signal run in the parent.               *)
StopSignal ==
  /\ Parent \in sigterm
  /\ sigterm' = sigterm \ {Parent}
  /\ stopping' = TRUE
  /\ Interrupt
  /\ UNCHANGED <<childChanged, sigchld, deaf, workers, index, worker, served,
                 backlog, locals, counters>>

ChildSignal ==
  /\ sigchld
  /\ sigchld' = FALSE
  /\ childChanged' = TRUE
  /\ Interrupt
  /\ UNCHANGED <<stopping, sigterm, deaf, workers, index, worker, served, backlog,
                 locals, counters>>

Terminate ==
  /\ MaySignal /\ ~stopping /\ pc[Parent] # "stopped"
  /\ sigterm' = sigterm \cup {Parent}
  /\ UNCHANGED <<pc, parentVars, sigchld, deaf, backlog, locals, counters>>

Connect ==
  /\ pc[Parent] # "stopped" /\ backlog < Backlog
  /\ backlog' = backlog + 1
  /\ UNCHANGED <<pc, parentVars, signals, locals, counters>>

-----------------------------------------------------------------------------
(* The parent: fl_http_start's loop.                                       *)

AllServed == MaxRequests > 0 /\ served >= MaxRequests

(* The loop's test; then, when http_child_changed is set, the reset that   *)
(* begins http_reap_workers.                                               *)
Loop ==
  /\ pc[Parent] = "loop"
  /\ \/ /\ stopping \/ AllServed
        /\ Goto(Parent, "closing")
        /\ UNCHANGED <<childChanged, index>>
     \/ /\ ~stopping /\ ~AllServed /\ childChanged
        /\ childChanged' = FALSE /\ index' = 1
        /\ Goto(Parent, "reap")
     \/ /\ ~stopping /\ ~AllServed /\ ~childChanged
        /\ Goto(Parent, "toAccept")
        /\ UNCHANGED <<childChanged, index>>
  /\ UNCHANGED <<stopping, workers, worker, served, signals, backlog, locals,
                 counters>>

AfterReap == IF pc[Parent] = "reap" THEN "toAccept" ELSE "drain"

(* http_workers[i] = http_workers[--http_worker_count]                     *)
SwapOut(i) ==
  [k \in 1 .. Len(workers) - 1 |->
     IF k = i THEN workers[Len(workers)] ELSE workers[k]]

(* One turn of http_reap_workers: waitpid(..., WNOHANG) fails with ECHILD  *)
(* for a child that is gone and returns 0 for one that runs.               *)
ReapIf(gone, resetAfter) ==
  /\ pc[Parent] \in {"reap", "drainReap"}
  /\ \/ /\ index > Len(workers)
        /\ Goto(Parent, AfterReap)
        /\ childChanged' = IF resetAfter THEN FALSE ELSE childChanged
        /\ UNCHANGED <<index, workers>>
     \/ /\ index <= Len(workers) /\ gone
        /\ workers' = SwapOut(index)
        /\ UNCHANGED <<pc, index, childChanged>>
     \/ /\ index <= Len(workers) /\ ~gone
        /\ index' = index + 1
        /\ UNCHANGED <<pc, childChanged, workers>>
  /\ UNCHANGED <<stopping, worker, served, signals, backlog, locals, counters>>
(* Mutant: http_child_changed is reset after the loop, not before it.      *)
ReapResetsLate == ReapIf(~Alive(workers[index]), TRUE)
(* Mutant: ECHILD is not taken for the end of a child.                     *)
ReapIgnoresEchild == ReapIf(FALSE, FALSE)
Reap == ReapIf(~Alive(workers[index]), FALSE)

EnterAccept ==
  /\ pc[Parent] = "toAccept"
  /\ Goto(Parent, "accept")
  /\ UNCHANGED <<parentVars, signals, backlog, locals, counters>>

Accept ==
  /\ pc[Parent] = "accept" /\ backlog > 0
  /\ backlog' = backlog - 1
  /\ Goto(Parent, "accepted")
  /\ UNCHANGED <<parentVars, signals, locals, counters>>

(* Errors of the connection or for want of resources continue the loop,    *)
(* any other ends it.                                                      *)
AcceptFails ==
  /\ pc[Parent] = "accept"
  /\ Goto(Parent, "loop") \/ Goto(Parent, "closing")
  /\ UNCHANGED <<parentVars, signals, backlog, locals, counters>>

Count == served' = IF served < MaxRequests THEN served + 1 ELSE served

(* A pid the parent still has on its list is not reused: pid reuse is left *)
(* out, as http_shared_lock's comment leaves it out.                       *)
FreshPids == {p \in Pids : pc[p] = "free" /\ \A i \in DOMAIN workers : workers[i] # p}

(* 503 from the parent, or fork, which may fail (503 as well).             *)
AdmitWithin(limit) ==
  /\ pc[Parent] = "accepted"
  /\ \/ /\ Len(workers) >= WorkerLimit \/ Len(workers) >= limit
        /\ Count /\ Goto(Parent, "loop") /\ UNCHANGED worker
     \/ /\ Len(workers) < WorkerLimit /\ Len(workers) < limit
        /\ \/ Count /\ Goto(Parent, "loop") /\ UNCHANGED worker
           \/ \E p \in FreshPids :
                /\ pc' = [pc EXCEPT ![p] = "boot", ![Parent] = "record"]
                /\ worker' = p /\ UNCHANGED served
  /\ UNCHANGED <<stopping, childChanged, workers, index, signals, backlog,
                 locals, counters>>
(* Mutant: the parent lets one child more than http_max_conn run.          *)
AdmitOneMore == AdmitWithin(MaxConn + 1)
Admit == AdmitWithin(MaxConn)

RecordAs(list) ==
  /\ pc[Parent] = "record"
  /\ workers' = list
  /\ Count
  /\ worker' = Parent
  /\ Goto(Parent, "loop")
  /\ UNCHANGED <<stopping, childChanged, index, signals, backlog, locals,
                 counters>>
(* Mutant: the child is written over the last one on the list.             *)
RecordOverLast ==
  RecordAs(IF workers = <<>> THEN <<worker>>
           ELSE [workers EXCEPT ![Len(workers)] = worker])
Record == RecordAs(Append(workers, worker))

(* close(server), then five seconds for the children to finish when the    *)
(* request limit ended the loop, then http_stop_workers.                   *)
Closing ==
  /\ pc[Parent] = "closing"
  /\ Goto(Parent, IF ~stopping /\ AllServed THEN "drain" ELSE "term")
  /\ index' = 1
  /\ UNCHANGED <<stopping, childChanged, workers, worker, served, signals,
                 backlog, locals, counters>>

(* No child is left, or the five seconds have passed.                      *)
DrainEnds ==
  /\ pc[Parent] = "drain"
  /\ Goto(Parent, "term")
  /\ index' = 1
  /\ UNCHANGED <<stopping, childChanged, workers, worker, served, signals,
                 backlog, locals, counters>>

(* http_worker_count > 0 and the five seconds have not passed.             *)
DrainTurn ==
  /\ pc[Parent] = "drain" /\ workers # <<>>
  /\ childChanged' = FALSE /\ index' = 1
  /\ Goto(Parent, "drainReap")
  /\ UNCHANGED <<stopping, workers, worker, served, signals, backlog, locals,
                 counters>>

(* kill(-pid, SIGTERM) and kill(pid, SIGTERM), one pending SIGTERM; both   *)
(* fail for a child that is gone.                                          *)
TermSending(to) ==
  /\ pc[Parent] = "term"
  /\ \/ /\ index <= Len(workers)
        /\ sigterm' = sigterm \cup {p \in to : Alive(p)}
        /\ index' = index + 1
        /\ UNCHANGED pc
     \/ /\ index > Len(workers)
        /\ Goto(Parent, "wait")
        /\ UNCHANGED <<sigterm, index>>
  /\ UNCHANGED <<stopping, childChanged, workers, worker, served, sigchld, deaf,
                 backlog, locals, counters>>
(* Mutant: no SIGTERM is sent.                                             *)
TermSilent == TermSending({})
Term == TermSending({workers[index]})

(* while (http_worker_count > 0) waitpid(-1, ...): without zombies it      *)
(* blocks, through any number of EINTRs, until it fails with ECHILD.       *)
WaitThen(over, left) ==
  /\ pc[Parent] = "wait"
  /\ workers = <<>> \/ over
  /\ workers' = left
  /\ Goto(Parent, IF left = <<>> THEN "stopped" ELSE "wait")
  /\ UNCHANGED <<stopping, childChanged, index, worker, served, signals, backlog,
                 locals, counters>>
NoChild == \A p \in Pids : ~Alive(p)
(* Mutant: an interrupted waitpid ends the wait.                           *)
WaitInterrupted == WaitThen(TRUE, <<>>)
(* Mutant: ECHILD does not empty the list.                                 *)
WaitIgnoresEchild == WaitThen(NoChild, workers)
Wait == WaitThen(NoChild, <<>>)

Stopped ==
  /\ pc[Parent] = "stopped"
  /\ UNCHANGED vars

-----------------------------------------------------------------------------
(* The child.                                                              *)

(* setpgid, the listener closed, signals back to their defaults.           *)
Boot(p) ==
  /\ pc[p] = "boot"
  /\ Goto(p, "enterRead")
  /\ UNCHANGED <<parentVars, signals, backlog, locals, counters>>

(* http_connection_enter: active is read, then tested and swapped for      *)
(* active + 1 if nobody changed it, else read again by the failed swap.    *)
EnterRead(p) ==
  /\ pc[p] = "enterRead"
  /\ seen' = [seen EXCEPT ![p] = active]
  /\ Goto(p, "enterCas")
  /\ UNCHANGED <<parentVars, signals, backlog, seenPeak, counters>>

EnterSwap(p, limit, unchanged) ==
  /\ pc[p] = "enterCas"
  /\ \/ /\ seen[p] >= limit
        /\ Goto(p, "busy")
        /\ UNCHANGED <<seen, counters>>
     \/ /\ seen[p] < limit /\ unchanged
        /\ active' = seen[p] + 1
        /\ seen' = [seen EXCEPT ![p] = seen[p] + 1]
        /\ highest' = IF active' > highest THEN active' ELSE highest
        /\ Goto(p, "peakRead")
        /\ UNCHANGED <<peak, leaked>>
     \/ /\ seen[p] < limit /\ ~unchanged
        /\ seen' = [seen EXCEPT ![p] = active]
        /\ UNCHANGED <<pc, counters>>
  /\ UNCHANGED <<parentVars, signals, backlog, seenPeak>>
(* Mutant: the counter is stored without looking whether it changed.       *)
EnterStores(p) == EnterSwap(p, MaxConn, TRUE)
(* Mutant: one connection too many is admitted.                            *)
EnterOffByOne(p) == EnterSwap(p, MaxConn + 1, active = seen[p])
EnterCas(p) == EnterSwap(p, MaxConn, active = seen[p])

PeakRead(p) ==
  /\ pc[p] = "peakRead"
  /\ seenPeak' = [seenPeak EXCEPT ![p] = peak]
  /\ Goto(p, "peakCas")
  /\ UNCHANGED <<parentVars, signals, backlog, seen, counters>>

PeakSwap(p, unchanged) ==
  /\ pc[p] = "peakCas"
  /\ \/ /\ seen[p] <= seenPeak[p]
        /\ Goto(p, "handle")
        /\ UNCHANGED <<seenPeak, peak>>
     \/ /\ seen[p] > seenPeak[p] /\ unchanged
        /\ peak' = seen[p]
        /\ Goto(p, "handle")
        /\ UNCHANGED seenPeak
     \/ /\ seen[p] > seenPeak[p] /\ ~unchanged
        /\ seenPeak' = [seenPeak EXCEPT ![p] = peak]
        /\ UNCHANGED <<pc, peak>>
  /\ UNCHANGED <<parentVars, signals, backlog, seen, active, highest, leaked>>
(* Mutant: the peak is stored without looking whether it changed.          *)
PeakStores(p) == PeakSwap(p, TRUE)
PeakCas(p) == PeakSwap(p, peak = seenPeak[p])

(* http_handle_client: whatever it answers, it returns.  Die is the handler *)
(* that does not.                                                          *)
Handle(p) ==
  /\ pc[p] = "handle"
  /\ Goto(p, "leave")
  /\ UNCHANGED <<parentVars, signals, backlog, locals, counters>>

Leave(p) ==
  /\ pc[p] = "leave"
  /\ active' = active - 1
  /\ Goto(p, "exit")
  /\ UNCHANGED <<parentVars, signals, backlog, locals, peak, highest, leaked>>

SendBusy(p) ==
  /\ pc[p] = "busy"
  /\ Goto(p, "exit")
  /\ UNCHANGED <<parentVars, signals, backlog, locals, counters>>

Exit(p) ==
  /\ pc[p] = "exit"
  /\ Ends(p)
  /\ UNCHANGED <<parentVars, backlog>>

-----------------------------------------------------------------------------

ParentStep ==
  \/ Loop \/ Reap \/ EnterAccept \/ Accept \/ Admit \/ Record
  \/ Closing \/ DrainTurn \/ DrainEnds \/ Term \/ Wait \/ Stopped

ChildStep(p) ==
  \/ Boot(p) \/ EnterRead(p) \/ EnterCas(p) \/ PeakRead(p) \/ PeakCas(p)
  \/ Handle(p) \/ Leave(p) \/ SendBusy(p) \/ Exit(p)

Environment ==
  \/ Terminate \/ Connect \/ AcceptFails
  \/ StopSignal \/ ChildSignal
  \/ \E p \in Pids : Die(p) \/ ChildTerm(p)

Next ==
  \/ ParentStep \/ Environment
  \/ \E p \in Pids : ChildStep(p)

Spec == Init /\ [][Next]_vars

-----------------------------------------------------------------------------
(* Type invariant.                                                         *)
TypeOK ==
  /\ pc \in [Procs -> ChildPoints \cup ParentPoints \cup {"free"}]
  /\ stopping \in BOOLEAN /\ childChanged \in BOOLEAN /\ sigchld \in BOOLEAN
  /\ sigterm \subseteq Procs /\ deaf \subseteq Pids
  /\ workers \in Seq(Pids)
  /\ index \in Nat \ {0} /\ worker \in Procs
  /\ served \in 0 .. MaxRequests /\ backlog \in 0 .. Backlog
  /\ seen \in [Pids -> 0 .. MaxConn] /\ seenPeak \in [Pids -> 0 .. MaxConn]
  /\ active \in 0 .. MaxConn /\ peak \in 0 .. MaxConn
  /\ highest \in 0 .. MaxConn /\ leaked \in 0 .. MaxConn

CountedChildren == {p \in Pids : pc[p] \in Counted}

(* FL_HTTP_MAX_CONN: wherever children die, the lock-free counter never    *)
(* falls below the number of children being served nor rises above the     *)
(* limit, so no more than the limit are served.                            *)
ConnLimit ==
  /\ Cardinality(CountedChildren) <= active
  /\ active <= MaxConn

(* active_connections is the number of children being served and of those  *)
(* that have died while they were: nothing else moves it, and it is never  *)
(* taken back for the dead.                                                *)
ActiveExact == active = Cardinality(CountedChildren) + leaked

(* HTTP_ACTIVE_CONNECTIONS_MAX is the highest the counter has been, but    *)
(* for children that have yet to report or have died before they could.    *)
PeakExact ==
  /\ peak <= highest
  /\ \/ peak = highest \/ leaked > 0
     \/ \E p \in Pids : /\ pc[p] \in {"peakRead", "peakCas"}
                        /\ seen[p] = highest

(* The parent's limit makes the children's own check redundant until a     *)
(* child dies in a request: a connection given a child is served.          *)
ForkedIsServed == (\E p \in Pids : pc[p] = "busy") => leaked > 0

(* A child that reads a full counter, and so answers 503, reads it while   *)
(* MaxConn connections are being served.                                   *)
RefusalMeansFull ==
  [][\A p \in Pids :
       seen'[p] >= MaxConn /\ pc'[p] = "enterCas" /\ seen'[p] # seen[p] =>
         Cardinality(CountedChildren) >= MaxConn]_vars

(* Whoever runs is on the parent's list, once: http_stop_workers reaches   *)
(* every child and the parent's limit counts every child.                  *)
Tracked ==
  \A p \in Pids : Alive(p) =>
    \/ pc[Parent] = "record" /\ worker = p
    \/ \E i \in DOMAIN workers :
         workers[i] = p /\ \A k \in DOMAIN workers : workers[k] = p => k = i

(* A child that is gone and that http_reap_workers is not about to look at *)
(* has http_child_changed set or a SIGCHLD pending: no place on the        *)
(* parent's list is lost for good.                                         *)
GoneIsFlagged ==
  \A i \in DOMAIN workers :
    ~Alive(workers[i]) =>
      \/ childChanged \/ sigchld
      \/ pc[Parent] \in {"reap", "drainReap"} /\ i >= index

(* When fl_http_start returns no child is left.                            *)
NoChildOutlives == pc[Parent] = "stopped" => \A p \in Pids : ~Alive(p)

-----------------------------------------------------------------------------
(* Fairness.  The parent and every child take the steps they can take, a   *)
(* child whose compare-and-swap keeps failing does so only because others  *)
(* succeed, signals are delivered, and clients keep connecting.  A drain   *)
(* that keeps taking turns has used up its five seconds.  Nothing obliges  *)
(* a handler to return.                                                    *)
FairSpec ==
  /\ Spec
  /\ WF_vars(ParentStep) /\ SF_vars(DrainEnds)
  /\ WF_vars(StopSignal) /\ WF_vars(ChildSignal) /\ WF_vars(Connect)
  /\ \A p \in Pids : WF_vars(pc[p] # "handle" /\ ChildStep(p)) /\ WF_vars(ChildTerm(p))

(* A handler that never returns, in a child that dropped the SIGTERM it    *)
(* was sent before it had reset the handlers it was forked with.           *)
Stuck == \E p \in deaf : pc[p] = "handle"

(* SIGTERM stops the server, whatever its handlers do, unless such a child *)
(* keeps it; and so does FL_HTTP_MAX_REQUESTS a server that has accepted   *)
(* them all, in http_drain_workers' five seconds and then by SIGTERM.      *)
StopCompletes == (stopping \/ AllServed ~> pc[Parent] = "stopped") \/ <>[]Stuck

(* Until the server stops, the place of a child that is gone is given      *)
(* back, whenever its SIGCHLD arrives.                                     *)
Gone(p) == ~Alive(p) /\ \E i \in DOMAIN workers : workers[i] = p
PlacesReturn ==
  \A p \in Pids : Gone(p) ~> ~Gone(p) \/ pc[Parent] \in {"term", "wait", "stopped"}

=============================================================================
