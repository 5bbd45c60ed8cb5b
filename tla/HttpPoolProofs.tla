---------------------------- MODULE HttpPoolProofs ----------------------------
(* What TLAPS proves of HttpPool, for every number of slots, every limit   *)
(* and every set of points at which workers may die.                       *)
EXTENDS HttpPool, FiniteSetTheorems, TLAPS

(* Where each kind of process can be, and why the supervisor locks.        *)
PointsOK ==
  /\ pc \in [Procs -> WorkerPoints \cup SuperPoints \cup {"free", "zombie"}]
  /\ job \in [Procs -> Jobs]
  /\ pc[Super] \in SuperPoints
  /\ \A p \in Pids : pc[p] \in WorkerPoints \cup {"free", "zombie"}
  /\ pc[Super] \in Spinning => job[Super] = "leave"

(* The rest of the type invariant.                                         *)
DataOK ==
  /\ owner \in [Procs -> Procs \cup {NoPid}]
  /\ slot \in [Procs -> Slots]
  /\ served \in [Procs -> 0 .. MaxServed]
  /\ stopping \in [Procs -> BOOLEAN]
  /\ sigterm \subseteq Procs
  /\ lock \in Procs \cup {NoPid}
  /\ active \in 0 .. MaxConn /\ peak \in 0 .. MaxConn
  /\ workerActive \in [Slots -> BOOLEAN]
  /\ total \in 0 .. MaxRequests
  /\ windowOpen \in BOOLEAN
  /\ rateCount \in 0 .. RateMax + 1 /\ passed \in Nat
  /\ workers \in [Slots -> Pids \cup {NoPid}]
  /\ backlog \in 0 .. Backlog

(* A process between lock and unlock is the one the lock names.            *)
LockOwned == \A p \in Procs : InCritical(p) => lock = p

(* The owner a process is about to take the lock from is a pid that no     *)
(* process has, and that is not given to a new one meanwhile.              *)
DeadOwner ==
  \A p \in Procs :
    /\ owner[p] # NoPid => pc[p] = "reclaim"
    /\ pc[p] = "reclaim" => owner[p] \in Pids /\ pc[owner[p]] = "free"

(* A worker that is going to accept may still serve, one that is going to  *)
(* count a connection has found room.                                      *)
Room ==
  /\ \A p \in Pids : pc[p] \in {"toAccept", "accept"} => served[p] < MaxServed
  /\ \A p \in Procs : pc[p] = "enterCount" => active < MaxConn

(* The requests let through were counted, and none was when a new window   *)
(* is about to reset the count.                                            *)
Counted ==
  /\ passed <= rateCount /\ passed <= RateMax
  /\ \A p \in Procs : pc[p] = "rateReset" => passed = 0

(* Forking and ending a process keep the data well typed.                  *)
LEMMA ForkData ==
  ASSUME DataOK, NEW s \in Slots, NEW s2 \in Slots, NEW next,
         Fork(s, next, s2) \/ ForkFails(s, next, s2),
         UNCHANGED <<owner, served, sigterm, shared, backlog>>
  PROVE  DataOK'
<1> USE PoolAssumption DEF DataOK, Procs, limits, rate, shared, world
<1>1. CASE Fork(s, next, s2)
  BY <1>1 DEF Fork, FreshPids
<1>2. CASE ForkFails(s, next, s2)
  BY <1>2 DEF ForkFails, Goto
<1>. QED
  BY <1>1, <1>2

LEMMA EndsData ==
  ASSUME DataOK, NEW p \in Pids, Ends(p), UNCHANGED <<shared, workers, backlog>>
  PROVE  DataOK'
<1>1. 0 \in Slots
  BY PoolAssumption DEF Slots
<1>. QED
  BY <1>1, PoolAssumption DEF Ends, DataOK, Procs, limits, rate, shared, world

LEMMA PointsStep ==
  ASSUME PointsOK, DataOK, Next
  PROVE  PointsOK'
<1> USE PoolAssumption DEF PointsOK, Procs, Slots, Jobs, WorkerPoints, SuperPoints, Critical, Spinning,
  Serving, Goto, Lock, EntryOf, Ends, local, world
<1>1. ASSUME NEW p \in Procs, Acquire(p) PROVE PointsOK'
  BY <1>1 DEF Acquire
<1>2. ASSUME NEW p \in Procs, Probe(p) PROVE PointsOK'
  BY <1>2 DEF Probe, ProbeDead
<1>3. ASSUME NEW p \in Procs, Reclaim(p) PROVE PointsOK'
  BY <1>3 DEF Reclaim, ReclaimTo
<1>4. ASSUME NEW p \in Procs, EnterAccept(p) PROVE PointsOK'
  BY <1>4 DEF EnterAccept
<1>5. ASSUME NEW p \in Procs, Accept(p) PROVE PointsOK'
  BY <1>5 DEF Accept
<1>6. ASSUME NEW p \in Procs, AcceptFails(p) PROVE PointsOK'
  BY <1>6 DEF AcceptFails
<1>7. ASSUME NEW p \in Procs, RequestEnter(p) PROVE PointsOK'
  BY <1>7 DEF RequestEnter
<1>8. ASSUME NEW p \in Procs, LeaveCheck(p) PROVE PointsOK'
  BY <1>8 DEF LeaveCheck, LeaveCheckIf
<1>9. ASSUME NEW p \in Procs, LeaveCount(p) PROVE PointsOK'
  BY <1>9 DEF LeaveCount
<1>10. ASSUME NEW p \in Procs, LeaveUnlock(p) PROVE PointsOK'
  BY <1>10 DEF LeaveUnlock, LeaveUnlockIf
<1>11. ASSUME NEW p \in Procs, Deliver(p) PROVE PointsOK'
  BY <1>11 DEF Deliver
<1>12. ASSUME NEW p \in Pids, Die(p) PROVE PointsOK'
  BY <1>12 DEF Die
<1>13. ASSUME NEW p \in Pids, Boot(p) PROVE PointsOK'
  BY <1>13 DEF Boot
<1>14. ASSUME NEW p \in Pids, WorkerLoop(p) PROVE PointsOK'
  BY <1>14 DEF WorkerLoop
<1>15. ASSUME NEW p \in Pids, EnterCheck(p) PROVE PointsOK'
  BY <1>15 DEF EnterCheck, EnterCheckAgainst
<1>16. ASSUME NEW p \in Pids, EnterCount(p) PROVE PointsOK'
  BY <1>16 DEF EnterCount
<1>17. ASSUME NEW p \in Pids, EnterUnlock(p) PROVE PointsOK'
  BY <1>17 DEF EnterUnlock
<1>18. ASSUME NEW p \in Pids, SendBusy(p) PROVE PointsOK'
  BY <1>18 DEF SendBusy
<1>19. ASSUME NEW p \in Pids, Parse(p) PROVE PointsOK'
  BY <1>19 DEF Parse
<1>20. ASSUME NEW p \in Pids, RateWindow(p) PROVE PointsOK'
  BY <1>20 DEF RateWindow
<1>21. ASSUME NEW p \in Pids, RateReset(p) PROVE PointsOK'
  BY <1>21 DEF RateReset
<1>22. ASSUME NEW p \in Pids, RateCount(p) PROVE PointsOK'
  BY <1>22 DEF RateCount, RateCountUpTo
<1>23. ASSUME NEW p \in Pids, RateUnlock(p) PROVE PointsOK'
  BY <1>23 DEF RateUnlock
<1>24. ASSUME NEW p \in Pids, Dispatch(p) PROVE PointsOK'
  BY <1>24 DEF Dispatch
<1>25. ASSUME NEW s \in Slots, Reap(s) PROVE PointsOK'
  BY <1>25 DEF Reap, Ended, ReapThen, DataOK
<1>26. ASSUME Terminate PROVE PointsOK'
  BY <1>26 DEF Terminate
<1>27. ASSUME Connect PROVE PointsOK'
  BY <1>27 DEF Connect
<1>28. ASSUME WindowElapses PROVE PointsOK'
  BY <1>28 DEF WindowElapses
<1>29. ASSUME SpawnAll PROVE PointsOK'
  BY <1>29 DEF SpawnAll, Fork, ForkFails, FreshPids, NextSlot, LastSlot
<1>30. ASSUME SuperLoop PROVE PointsOK'
  BY <1>30 DEF SuperLoop
<1>31. ASSUME NoneEnded PROVE PointsOK'
  BY <1>31 DEF NoneEnded
<1>32. ASSUME Replace PROVE PointsOK'
  BY <1>32 DEF Replace, Fork, ForkFails, FreshPids, ReplaceUnless
<1>33. ASSUME Retry PROVE PointsOK'
  BY <1>33 DEF Retry, Fork, ForkFails, FreshPids, NextSlot, LastSlot, RetryIf
<1>34. ASSUME Gate PROVE PointsOK'
  BY <1>34 DEF Gate
<1>35. ASSUME Poll PROVE PointsOK'
  BY <1>35 DEF Poll
<1>36. ASSUME Term PROVE PointsOK'
  BY <1>36 DEF Term, NextSlot, LastSlot
<1>37. ASSUME Wait PROVE PointsOK'
  <2> DEFINE next == IF slot[Super] = LastSlot THEN "stopped" ELSE "wait"
  <2>1. workers[slot[Super]] \in Pids \cup {NoPid}
    BY DEF DataOK
  <2>2. CASE Goto(Super, next) /\ UNCHANGED job
    BY <2>2
  <2>3. CASE /\ workers[slot[Super]] \in Pids /\ UNCHANGED job
             /\ pc' = [pc EXCEPT ![workers[slot[Super]]] = "free", ![Super] = next]
    BY <2>3
  <2>. QED
    BY <1>37, <2>1, <2>2, <2>3 DEF Wait, WaitUnless, Ended
<1>38. CASE UNCHANGED vars
  BY <1>38 DEF vars
<1>. QED
  BY <1>1, <1>2, <1>3, <1>4, <1>5, <1>6, <1>7, <1>8, <1>9, <1>10, <1>11,
     <1>12, <1>13, <1>14, <1>15, <1>16, <1>17, <1>18, <1>19, <1>20, <1>21,
     <1>22, <1>23, <1>24, <1>25, <1>26, <1>27, <1>28, <1>29, <1>30, <1>31,
     <1>32, <1>33, <1>34, <1>35, <1>36, <1>37, <1>38 DEF Next, SuperStep,
     WorkerStep, Environment, LockStep, LeaveStep, AcceptStep, Spin,
     Stopped

LEMMA DataStep ==
  ASSUME PointsOK, DataOK, Room, Next
  PROVE  DataOK'
<1> USE PoolAssumption DEF DataOK, Room, Procs, Slots, Goto, Lock, Unlock, Ends,
  local, limits, rate, shared, world
<1>1. ASSUME NEW p \in Procs, Acquire(p) PROVE DataOK'
  BY <1>1 DEF Acquire
<1>2. ASSUME NEW p \in Procs, Probe(p) PROVE DataOK'
  BY <1>2 DEF Probe, ProbeDead
<1>3. ASSUME NEW p \in Procs, Reclaim(p) PROVE DataOK'
  BY <1>3 DEF Reclaim, ReclaimTo
<1>4. ASSUME NEW p \in Procs, EnterAccept(p) PROVE DataOK'
  BY <1>4 DEF EnterAccept
<1>5. ASSUME NEW p \in Procs, Accept(p) PROVE DataOK'
  BY <1>5 DEF Accept
<1>6. ASSUME NEW p \in Procs, AcceptFails(p) PROVE DataOK'
  <2>1. CASE p # Super /\ Ends(p) /\ UNCHANGED <<shared, workers, backlog>>
    BY <2>1, EndsData
  <2>2. CASE UNCHANGED <<local, stopping, sigterm, shared, workers, backlog>>
    BY <2>2
  <2>. QED
    BY <1>6, <2>1, <2>2 DEF AcceptFails
<1>7. ASSUME NEW p \in Procs, RequestEnter(p) PROVE DataOK'
  BY <1>7 DEF RequestEnter
<1>8. ASSUME NEW p \in Procs, LeaveCheck(p) PROVE DataOK'
  BY <1>8 DEF LeaveCheck, LeaveCheckIf
<1>9. ASSUME NEW p \in Procs, LeaveCount(p) PROVE DataOK'
  BY <1>9 DEF LeaveCount
<1>10. ASSUME NEW p \in Procs, LeaveUnlock(p) PROVE DataOK'
  BY <1>10 DEF LeaveUnlock, LeaveUnlockIf
<1>11. ASSUME NEW p \in Procs, Deliver(p) PROVE DataOK'
  BY <1>11 DEF Deliver
<1>12. ASSUME NEW p \in Pids, Die(p) PROVE DataOK'
  BY <1>12 DEF Die
<1>13. ASSUME NEW p \in Pids, Boot(p) PROVE DataOK'
  BY <1>13 DEF Boot
<1>14. ASSUME NEW p \in Pids, WorkerLoop(p) PROVE DataOK'
  <2>1. CASE p # Super /\ Ends(p) /\ UNCHANGED <<shared, workers, backlog>>
    BY <2>1, EndsData
  <2>2. CASE UNCHANGED <<local, stopping, sigterm, shared, workers, backlog>>
    BY <2>2
  <2>. QED
    BY <1>14, <2>1, <2>2 DEF WorkerLoop
<1>15. ASSUME NEW p \in Pids, EnterCheck(p) PROVE DataOK'
  BY <1>15 DEF EnterCheck, EnterCheckAgainst
<1>16. ASSUME NEW p \in Pids, EnterCount(p) PROVE DataOK'
  BY <1>16 DEF EnterCount
<1>17. ASSUME NEW p \in Pids, EnterUnlock(p) PROVE DataOK'
  BY <1>17 DEF EnterUnlock
<1>18. ASSUME NEW p \in Pids, SendBusy(p) PROVE DataOK'
  BY <1>18 DEF SendBusy
<1>19. ASSUME NEW p \in Pids, Parse(p) PROVE DataOK'
  BY <1>19 DEF Parse
<1>20. ASSUME NEW p \in Pids, RateWindow(p) PROVE DataOK'
  <2>1. CASE windowOpen
    BY <1>20, <2>1 DEF RateWindow
  <2>2. CASE ~windowOpen
    <3>1. windowOpen' = TRUE /\ passed' = 0 /\ pc' = [pc EXCEPT ![p] = "rateReset"]
      BY <1>20, <2>2, Zenon DEF RateWindow
    <3>. QED
      BY <1>20, <3>1 DEF RateWindow
  <2>. QED
    BY <2>1, <2>2
<1>21. ASSUME NEW p \in Pids, RateReset(p) PROVE DataOK'
  BY <1>21 DEF RateReset
<1>22. ASSUME NEW p \in Pids, RateCount(p) PROVE DataOK'
  BY <1>22 DEF RateCount, RateCountUpTo
<1>23. ASSUME NEW p \in Pids, RateUnlock(p) PROVE DataOK'
  BY <1>23 DEF RateUnlock
<1>24. ASSUME NEW p \in Pids, Dispatch(p) PROVE DataOK'
  BY <1>24 DEF Dispatch
<1>25. ASSUME NEW s \in Slots, Reap(s) PROVE DataOK'
  BY <1>25 DEF Reap, Ended, ReapThen
<1>26. ASSUME Terminate PROVE DataOK'
  BY <1>26 DEF Terminate
<1>27. ASSUME Connect PROVE DataOK'
  BY <1>27 DEF Connect
<1>28. ASSUME WindowElapses PROVE DataOK'
  BY <1>28 DEF WindowElapses
<1>29. ASSUME SpawnAll PROVE DataOK'
  <2>1. slot[Super] \in Slots /\ (slot[Super] # LastSlot => NextSlot \in Slots) /\ 0 \in Slots
    BY DEF LastSlot, NextSlot
  <2>. QED
    BY <1>29, <2>1, ForkData DEF SpawnAll
<1>30. ASSUME SuperLoop PROVE DataOK'
  BY <1>30 DEF SuperLoop
<1>31. ASSUME NoneEnded PROVE DataOK'
  BY <1>31 DEF NoneEnded
<1>32. ASSUME Replace PROVE DataOK'
  BY <1>32, ForkData DEF Replace, ReplaceUnless
<1>33. ASSUME Retry PROVE DataOK'
  <2>1. slot[Super] \in Slots /\ (slot[Super] # LastSlot => NextSlot \in Slots) /\ 0 \in Slots
    BY DEF LastSlot, NextSlot
  <2>2. CASE workers[slot[Super]] = NoPid /\ ~stopping[Super]
    BY <1>33, <2>1, <2>2, ForkData DEF Retry, RetryIf
  <2>3. CASE ~(workers[slot[Super]] = NoPid /\ ~stopping[Super])
    BY <1>33, <2>1, <2>3 DEF Retry, RetryIf
  <2>. QED
    BY <2>2, <2>3
<1>34. ASSUME Gate PROVE DataOK'
  BY <1>34 DEF Gate
<1>35. ASSUME Poll PROVE DataOK'
  BY <1>35 DEF Poll
<1>36. ASSUME Term PROVE DataOK'
  BY <1>36 DEF Term, NextSlot, LastSlot
<1>37. ASSUME Wait PROVE DataOK'
  BY <1>37 DEF Wait, NextSlot, LastSlot, WaitUnless, Ended
<1>38. CASE UNCHANGED vars
  BY <1>38 DEF vars
<1>. QED
  BY <1>1, <1>2, <1>3, <1>4, <1>5, <1>6, <1>7, <1>8, <1>9, <1>10, <1>11,
     <1>12, <1>13, <1>14, <1>15, <1>16, <1>17, <1>18, <1>19, <1>20, <1>21,
     <1>22, <1>23, <1>24, <1>25, <1>26, <1>27, <1>28, <1>29, <1>30, <1>31,
     <1>32, <1>33, <1>34, <1>35, <1>36, <1>37, <1>38 DEF Next, SuperStep,
     WorkerStep, Environment, LockStep, LeaveStep, AcceptStep, Spin,
     Stopped

LEMMA LockStepOwned ==
  ASSUME PointsOK, DataOK, LockOwned, DeadOwner, Next
  PROVE  LockOwned' /\ DeadOwner'
<1> USE PoolAssumption DEF PointsOK, DataOK, LockOwned, DeadOwner, InCritical,
  Procs, WorkerPoints, SuperPoints, Critical, Spinning,
  Serving, Goto, Lock, Unlock, EntryOf, Ends,
  local, limits, rate, shared, world, Jobs
<1>1. ASSUME NEW p \in Procs, Acquire(p) PROVE LockOwned' /\ DeadOwner'
  BY <1>1 DEF Acquire
<1>2. ASSUME NEW p \in Procs, Probe(p) PROVE LockOwned' /\ DeadOwner'
  BY <1>2 DEF Probe, ProbeDead
<1>3. ASSUME NEW p \in Procs, Reclaim(p) PROVE LockOwned' /\ DeadOwner'
  BY <1>3 DEF Reclaim, ReclaimTo
<1>4. ASSUME NEW p \in Procs, EnterAccept(p) PROVE LockOwned' /\ DeadOwner'
  BY <1>4 DEF EnterAccept
<1>5. ASSUME NEW p \in Procs, Accept(p) PROVE LockOwned' /\ DeadOwner'
  BY <1>5 DEF Accept
<1>6. ASSUME NEW p \in Procs, AcceptFails(p) PROVE LockOwned' /\ DeadOwner'
  BY <1>6 DEF AcceptFails
<1>7. ASSUME NEW p \in Procs, RequestEnter(p) PROVE LockOwned' /\ DeadOwner'
  BY <1>7 DEF RequestEnter
<1>8. ASSUME NEW p \in Procs, LeaveCheck(p) PROVE LockOwned' /\ DeadOwner'
  BY <1>8 DEF LeaveCheck, LeaveCheckIf
<1>9. ASSUME NEW p \in Procs, LeaveCount(p) PROVE LockOwned' /\ DeadOwner'
  BY <1>9 DEF LeaveCount
<1>10. ASSUME NEW p \in Procs, LeaveUnlock(p) PROVE LockOwned' /\ DeadOwner'
  BY <1>10 DEF LeaveUnlock, LeaveUnlockIf
<1>11. ASSUME NEW p \in Procs, Deliver(p) PROVE LockOwned' /\ DeadOwner'
  BY <1>11 DEF Deliver
<1>12. ASSUME NEW p \in Pids, Die(p) PROVE LockOwned' /\ DeadOwner'
  BY <1>12 DEF Die
<1>13. ASSUME NEW p \in Pids, Boot(p) PROVE LockOwned' /\ DeadOwner'
  BY <1>13 DEF Boot
<1>14. ASSUME NEW p \in Pids, WorkerLoop(p) PROVE LockOwned' /\ DeadOwner'
  BY <1>14 DEF WorkerLoop
<1>15. ASSUME NEW p \in Pids, EnterCheck(p) PROVE LockOwned' /\ DeadOwner'
  BY <1>15 DEF EnterCheck, EnterCheckAgainst
<1>16. ASSUME NEW p \in Pids, EnterCount(p) PROVE LockOwned' /\ DeadOwner'
  BY <1>16 DEF EnterCount
<1>17. ASSUME NEW p \in Pids, EnterUnlock(p) PROVE LockOwned' /\ DeadOwner'
  BY <1>17 DEF EnterUnlock
<1>18. ASSUME NEW p \in Pids, SendBusy(p) PROVE LockOwned' /\ DeadOwner'
  BY <1>18 DEF SendBusy
<1>19. ASSUME NEW p \in Pids, Parse(p) PROVE LockOwned' /\ DeadOwner'
  BY <1>19 DEF Parse
<1>20. ASSUME NEW p \in Pids, RateWindow(p) PROVE LockOwned' /\ DeadOwner'
  BY <1>20 DEF RateWindow
<1>21. ASSUME NEW p \in Pids, RateReset(p) PROVE LockOwned' /\ DeadOwner'
  BY <1>21 DEF RateReset
<1>22. ASSUME NEW p \in Pids, RateCount(p) PROVE LockOwned' /\ DeadOwner'
  BY <1>22 DEF RateCount, RateCountUpTo
<1>23. ASSUME NEW p \in Pids, RateUnlock(p) PROVE LockOwned' /\ DeadOwner'
  BY <1>23 DEF RateUnlock
<1>24. ASSUME NEW p \in Pids, Dispatch(p) PROVE LockOwned' /\ DeadOwner'
  BY <1>24 DEF Dispatch
<1>25. ASSUME NEW s \in Slots, Reap(s) PROVE LockOwned' /\ DeadOwner'
  BY <1>25 DEF Reap, Ended, ReapThen
<1>26. ASSUME Terminate PROVE LockOwned' /\ DeadOwner'
  BY <1>26 DEF Terminate
<1>27. ASSUME Connect PROVE LockOwned' /\ DeadOwner'
  BY <1>27 DEF Connect
<1>28. ASSUME WindowElapses PROVE LockOwned' /\ DeadOwner'
  BY <1>28 DEF WindowElapses
<1>29. ASSUME SpawnAll PROVE LockOwned' /\ DeadOwner'
  BY <1>29 DEF SpawnAll, Fork, ForkFails, FreshPids, NextSlot, LastSlot
<1>30. ASSUME SuperLoop PROVE LockOwned' /\ DeadOwner'
  BY <1>30 DEF SuperLoop
<1>31. ASSUME NoneEnded PROVE LockOwned' /\ DeadOwner'
  BY <1>31 DEF NoneEnded
<1>32. ASSUME Replace PROVE LockOwned' /\ DeadOwner'
  BY <1>32 DEF Replace, Fork, ForkFails, FreshPids, ReplaceUnless
<1>33. ASSUME Retry PROVE LockOwned' /\ DeadOwner'
  BY <1>33 DEF Retry, Fork, ForkFails, FreshPids, NextSlot, LastSlot, RetryIf
<1>34. ASSUME Gate PROVE LockOwned' /\ DeadOwner'
  BY <1>34 DEF Gate
<1>35. ASSUME Poll PROVE LockOwned' /\ DeadOwner'
  BY <1>35 DEF Poll
<1>36. ASSUME Term PROVE LockOwned' /\ DeadOwner'
  BY <1>36 DEF Term, NextSlot, LastSlot
<1>37. ASSUME Wait PROVE LockOwned' /\ DeadOwner'
  BY <1>37 DEF Wait, NextSlot, LastSlot, WaitUnless, Ended
<1>38. CASE UNCHANGED vars
  BY <1>38 DEF vars
<1>. QED
  BY <1>1, <1>2, <1>3, <1>4, <1>5, <1>6, <1>7, <1>8, <1>9, <1>10, <1>11,
     <1>12, <1>13, <1>14, <1>15, <1>16, <1>17, <1>18, <1>19, <1>20, <1>21,
     <1>22, <1>23, <1>24, <1>25, <1>26, <1>27, <1>28, <1>29, <1>30, <1>31,
     <1>32, <1>33, <1>34, <1>35, <1>36, <1>37, <1>38 DEF Next, SuperStep,
     WorkerStep, Environment, LockStep, LeaveStep, AcceptStep, Spin,
     Stopped

LEMMA RoomStep ==
  ASSUME PointsOK, DataOK, LockOwned, Room, Next
  PROVE  Room'
<1> USE PoolAssumption DEF PointsOK, DataOK, LockOwned, Room, InCritical,
  Procs, WorkerPoints, SuperPoints, Critical, Spinning,
  Serving, Goto, Lock, EntryOf, Ends, local, world, limits, rate,
  shared, Jobs
<1>1. ASSUME NEW p \in Procs, Acquire(p) PROVE Room'
  BY <1>1 DEF Acquire
<1>2. ASSUME NEW p \in Procs, Probe(p) PROVE Room'
  BY <1>2 DEF Probe, ProbeDead
<1>3. ASSUME NEW p \in Procs, Reclaim(p) PROVE Room'
  BY <1>3 DEF Reclaim, ReclaimTo
<1>4. ASSUME NEW p \in Procs, EnterAccept(p) PROVE Room'
  BY <1>4 DEF EnterAccept
<1>5. ASSUME NEW p \in Procs, Accept(p) PROVE Room'
  BY <1>5 DEF Accept
<1>6. ASSUME NEW p \in Procs, AcceptFails(p) PROVE Room'
  BY <1>6 DEF AcceptFails
<1>7. ASSUME NEW p \in Procs, RequestEnter(p) PROVE Room'
  BY <1>7 DEF RequestEnter
<1>8. ASSUME NEW p \in Procs, LeaveCheck(p) PROVE Room'
  BY <1>8 DEF LeaveCheck, LeaveCheckIf
<1>9. ASSUME NEW p \in Procs, LeaveCount(p) PROVE Room'
  BY <1>9 DEF LeaveCount
<1>10. ASSUME NEW p \in Procs, LeaveUnlock(p) PROVE Room'
  BY <1>10 DEF LeaveUnlock, LeaveUnlockIf
<1>11. ASSUME NEW p \in Procs, Deliver(p) PROVE Room'
  BY <1>11 DEF Deliver
<1>12. ASSUME NEW p \in Pids, Die(p) PROVE Room'
  BY <1>12 DEF Die
<1>13. ASSUME NEW p \in Pids, Boot(p) PROVE Room'
  BY <1>13 DEF Boot
<1>14. ASSUME NEW p \in Pids, WorkerLoop(p) PROVE Room'
  BY <1>14 DEF WorkerLoop
<1>15. ASSUME NEW p \in Pids, EnterCheck(p) PROVE Room'
  BY <1>15 DEF EnterCheck, EnterCheckAgainst
<1>16. ASSUME NEW p \in Pids, EnterCount(p) PROVE Room'
  BY <1>16 DEF EnterCount
<1>17. ASSUME NEW p \in Pids, EnterUnlock(p) PROVE Room'
  BY <1>17 DEF EnterUnlock
<1>18. ASSUME NEW p \in Pids, SendBusy(p) PROVE Room'
  BY <1>18 DEF SendBusy
<1>19. ASSUME NEW p \in Pids, Parse(p) PROVE Room'
  BY <1>19 DEF Parse
<1>20. ASSUME NEW p \in Pids, RateWindow(p) PROVE Room'
  BY <1>20 DEF RateWindow
<1>21. ASSUME NEW p \in Pids, RateReset(p) PROVE Room'
  BY <1>21 DEF RateReset
<1>22. ASSUME NEW p \in Pids, RateCount(p) PROVE Room'
  BY <1>22 DEF RateCount, RateCountUpTo
<1>23. ASSUME NEW p \in Pids, RateUnlock(p) PROVE Room'
  BY <1>23 DEF RateUnlock
<1>24. ASSUME NEW p \in Pids, Dispatch(p) PROVE Room'
  BY <1>24 DEF Dispatch
<1>25. ASSUME NEW s \in Slots, Reap(s) PROVE Room'
  BY <1>25 DEF Reap, Ended, ReapThen
<1>26. ASSUME Terminate PROVE Room'
  BY <1>26 DEF Terminate
<1>27. ASSUME Connect PROVE Room'
  BY <1>27 DEF Connect
<1>28. ASSUME WindowElapses PROVE Room'
  BY <1>28 DEF WindowElapses
<1>29. ASSUME SpawnAll PROVE Room'
  BY <1>29 DEF SpawnAll, Fork, ForkFails, FreshPids, NextSlot, LastSlot
<1>30. ASSUME SuperLoop PROVE Room'
  BY <1>30 DEF SuperLoop
<1>31. ASSUME NoneEnded PROVE Room'
  BY <1>31 DEF NoneEnded
<1>32. ASSUME Replace PROVE Room'
  BY <1>32 DEF Replace, Fork, ForkFails, FreshPids, ReplaceUnless
<1>33. ASSUME Retry PROVE Room'
  BY <1>33 DEF Retry, Fork, ForkFails, FreshPids, NextSlot, LastSlot, RetryIf
<1>34. ASSUME Gate PROVE Room'
  BY <1>34 DEF Gate
<1>35. ASSUME Poll PROVE Room'
  BY <1>35 DEF Poll
<1>36. ASSUME Term PROVE Room'
  BY <1>36 DEF Term, NextSlot, LastSlot
<1>37. ASSUME Wait PROVE Room'
  BY <1>37 DEF Wait, NextSlot, LastSlot, WaitUnless, Ended
<1>38. CASE UNCHANGED vars
  BY <1>38 DEF vars
<1>. QED
  BY <1>1, <1>2, <1>3, <1>4, <1>5, <1>6, <1>7, <1>8, <1>9, <1>10, <1>11,
     <1>12, <1>13, <1>14, <1>15, <1>16, <1>17, <1>18, <1>19, <1>20, <1>21,
     <1>22, <1>23, <1>24, <1>25, <1>26, <1>27, <1>28, <1>29, <1>30, <1>31,
     <1>32, <1>33, <1>34, <1>35, <1>36, <1>37, <1>38 DEF Next, SuperStep,
     WorkerStep, Environment, LockStep, LeaveStep, AcceptStep, Spin,
     Stopped

LEMMA CountedStep ==
  ASSUME PointsOK, DataOK, LockOwned, Counted, Next
  PROVE  Counted'
<1> USE PoolAssumption DEF PointsOK, DataOK, LockOwned, Counted, InCritical,
  Procs, WorkerPoints, SuperPoints, Critical, Spinning,
  Serving, Goto, Lock, EntryOf, Ends, local, world, rate,
  shared, Jobs, limits
<1>1. ASSUME NEW p \in Procs, Acquire(p) PROVE Counted'
  BY <1>1 DEF Acquire
<1>2. ASSUME NEW p \in Procs, Probe(p) PROVE Counted'
  BY <1>2 DEF Probe, ProbeDead
<1>3. ASSUME NEW p \in Procs, Reclaim(p) PROVE Counted'
  BY <1>3 DEF Reclaim, ReclaimTo
<1>4. ASSUME NEW p \in Procs, EnterAccept(p) PROVE Counted'
  BY <1>4 DEF EnterAccept
<1>5. ASSUME NEW p \in Procs, Accept(p) PROVE Counted'
  BY <1>5 DEF Accept
<1>6. ASSUME NEW p \in Procs, AcceptFails(p) PROVE Counted'
  BY <1>6 DEF AcceptFails
<1>7. ASSUME NEW p \in Procs, RequestEnter(p) PROVE Counted'
  BY <1>7 DEF RequestEnter
<1>8. ASSUME NEW p \in Procs, LeaveCheck(p) PROVE Counted'
  BY <1>8 DEF LeaveCheck, LeaveCheckIf
<1>9. ASSUME NEW p \in Procs, LeaveCount(p) PROVE Counted'
  BY <1>9 DEF LeaveCount
<1>10. ASSUME NEW p \in Procs, LeaveUnlock(p) PROVE Counted'
  BY <1>10 DEF LeaveUnlock, LeaveUnlockIf
<1>11. ASSUME NEW p \in Procs, Deliver(p) PROVE Counted'
  BY <1>11 DEF Deliver
<1>12. ASSUME NEW p \in Pids, Die(p) PROVE Counted'
  BY <1>12 DEF Die
<1>13. ASSUME NEW p \in Pids, Boot(p) PROVE Counted'
  BY <1>13 DEF Boot
<1>14. ASSUME NEW p \in Pids, WorkerLoop(p) PROVE Counted'
  BY <1>14 DEF WorkerLoop
<1>15. ASSUME NEW p \in Pids, EnterCheck(p) PROVE Counted'
  BY <1>15 DEF EnterCheck, EnterCheckAgainst
<1>16. ASSUME NEW p \in Pids, EnterCount(p) PROVE Counted'
  BY <1>16 DEF EnterCount
<1>17. ASSUME NEW p \in Pids, EnterUnlock(p) PROVE Counted'
  BY <1>17 DEF EnterUnlock
<1>18. ASSUME NEW p \in Pids, SendBusy(p) PROVE Counted'
  BY <1>18 DEF SendBusy
<1>19. ASSUME NEW p \in Pids, Parse(p) PROVE Counted'
  BY <1>19 DEF Parse
<1>20. ASSUME NEW p \in Pids, RateWindow(p) PROVE Counted'
  BY <1>20 DEF RateWindow
<1>21. ASSUME NEW p \in Pids, RateReset(p) PROVE Counted'
  BY <1>21 DEF RateReset
<1>22. ASSUME NEW p \in Pids, RateCount(p) PROVE Counted'
  BY <1>22 DEF RateCount, RateCountUpTo
<1>23. ASSUME NEW p \in Pids, RateUnlock(p) PROVE Counted'
  BY <1>23 DEF RateUnlock
<1>24. ASSUME NEW p \in Pids, Dispatch(p) PROVE Counted'
  BY <1>24 DEF Dispatch
<1>25. ASSUME NEW s \in Slots, Reap(s) PROVE Counted'
  BY <1>25 DEF Reap, Ended, ReapThen
<1>26. ASSUME Terminate PROVE Counted'
  BY <1>26 DEF Terminate
<1>27. ASSUME Connect PROVE Counted'
  BY <1>27 DEF Connect
<1>28. ASSUME WindowElapses PROVE Counted'
  BY <1>28 DEF WindowElapses
<1>29. ASSUME SpawnAll PROVE Counted'
  BY <1>29 DEF SpawnAll, Fork, ForkFails, FreshPids, NextSlot, LastSlot
<1>30. ASSUME SuperLoop PROVE Counted'
  BY <1>30 DEF SuperLoop
<1>31. ASSUME NoneEnded PROVE Counted'
  BY <1>31 DEF NoneEnded
<1>32. ASSUME Replace PROVE Counted'
  BY <1>32 DEF Replace, Fork, ForkFails, FreshPids, ReplaceUnless
<1>33. ASSUME Retry PROVE Counted'
  BY <1>33 DEF Retry, Fork, ForkFails, FreshPids, NextSlot, LastSlot, RetryIf
<1>34. ASSUME Gate PROVE Counted'
  BY <1>34 DEF Gate
<1>35. ASSUME Poll PROVE Counted'
  BY <1>35 DEF Poll
<1>36. ASSUME Term PROVE Counted'
  BY <1>36 DEF Term, NextSlot, LastSlot
<1>37. ASSUME Wait PROVE Counted'
  BY <1>37 DEF Wait, NextSlot, LastSlot, WaitUnless, Ended
<1>38. CASE UNCHANGED vars
  BY <1>38 DEF vars
<1>. QED
  BY <1>1, <1>2, <1>3, <1>4, <1>5, <1>6, <1>7, <1>8, <1>9, <1>10, <1>11,
     <1>12, <1>13, <1>14, <1>15, <1>16, <1>17, <1>18, <1>19, <1>20, <1>21,
     <1>22, <1>23, <1>24, <1>25, <1>26, <1>27, <1>28, <1>29, <1>30, <1>31,
     <1>32, <1>33, <1>34, <1>35, <1>36, <1>37, <1>38 DEF Next, SuperStep,
     WorkerStep, Environment, LockStep, LeaveStep, AcceptStep, Spin,
     Stopped

(* The supervisor has waited for the worker of slot s and has yet to empty *)
(* the slot or fork it again.                                              *)
Unwinding == {"lock", "reclaim", "leaveCheck", "leaveCount", "leaveDone", "replace"}
Vacated(s) == pc[Super] \in Unwinding /\ slot[Super] = s

(* http_workers holds every live worker and every zombie, in one slot each,*)
(* and no other pid but the one just waited for.                           *)
SlotsOK ==
  /\ \A p \in Pids : Alive(p) => workers[slot[p]] = p
  /\ \A p \in Pids : pc[p] = "zombie" => \E s \in Slots : workers[s] = p
  /\ \A s, t \in Slots : workers[s] = workers[t] /\ workers[s] # NoPid => s = t
  /\ \A s \in Slots : workers[s] # NoPid => (pc[workers[s]] = "free" <=> Vacated(s))
  /\ \A s \in Slots : Vacated(s) => workers[s] # NoPid
  /\ pc[Super] = "spawn" => \A s \in Slots : s >= slot[Super] => workers[s] = NoPid
  /\ pc[Super] = "wait" => \A s \in Slots : s < slot[Super] => workers[s] = NoPid
  /\ pc[Super] = "stopped" => \A s \in Slots : workers[s] = NoPid

(* A slot that counts as active belongs to a worker that is being admitted *)
(* or handles a connection, to a zombie, to the worker the supervisor is   *)
(* about to leave the slot for, or to nobody once the pool is stopping.    *)
Claimant(p) == pc[p] \in {"enterCount", "enterGrant", "zombie"} \/ Handling(p)
ClaimedOK ==
  \A s \in Slots : workerActive[s] =>
    \/ workers[s] = NoPid /\ pc[Super] \in {"wait", "stopped"}
    \/ workers[s] # NoPid /\ Claimant(workers[s])
    \/ Vacated(s) /\ pc[Super] \in {"lock", "reclaim", "leaveCheck"}

(* A step that leaves http_workers alone, and makes no pid free or live.   *)
LEMMA SlotsFrame ==
  ASSUME DataOK, SlotsOK, UNCHANGED workers,
         \A p \in Pids : /\ Alive(p)' => Alive(p) /\ slot'[p] = slot[p]
                         /\ pc'[p] = "free" <=> pc[p] = "free",
         pc'[Super] \in Unwinding <=> pc[Super] \in Unwinding,
         pc[Super] \in Unwinding => slot'[Super] = slot[Super],
         pc'[Super] = "spawn" => pc[Super] = "spawn" /\ slot'[Super] = slot[Super],
         pc'[Super] = "wait" =>
           slot'[Super] = 0 \/ (pc[Super] = "wait" /\ slot'[Super] = slot[Super]),
         pc'[Super] = "stopped" => pc[Super] = "stopped"
  PROVE  SlotsOK'
<1> USE DEF DataOK, SlotsOK, Slots, Alive
<1>1. \A p \in Pids : Alive(p)' => workers'[slot'[p]] = p
  OBVIOUS
<1>2. ASSUME NEW p \in Pids, pc'[p] = "zombie"
      PROVE  \E s \in Slots : workers'[s] = p
  <2>1. pc[p] # "free"
    BY <1>2
  <2>2. CASE pc[p] = "zombie"
    BY <2>2
  <2>3. CASE Alive(p)
    <3>1. slot[p] \in Slots
      BY DEF Procs
    <3>. QED
      BY <2>3, <3>1
  <2>. QED
    BY <2>1, <2>2, <2>3
<1>3. \A s \in Slots : Vacated(s)' <=> Vacated(s)
  BY DEF Vacated
<1>4. \A s \in Slots : workers'[s] # NoPid => (pc'[workers'[s]] = "free" <=> Vacated(s)')
  BY <1>3
<1>5. pc'[Super] = "wait" => \A s \in Slots : s < slot'[Super] => workers'[s] = NoPid
  <2>1. CASE slot'[Super] = 0
    BY <2>1, PoolAssumption
  <2>2. CASE pc[Super] = "wait" /\ slot'[Super] = slot[Super]
    BY <2>2
  <2>. QED
    BY <2>1, <2>2
<1>. QED
  BY <1>1, <1>2, <1>3, <1>4, <1>5

(* A fork of slot s, empty or just vacated, or a fork that fails.          *)
LEMMA SlotsFork ==
  ASSUME PointsOK, DataOK, SlotsOK, NEW s \in Slots, s = slot[Super], NEW s2 \in Slots,
         NEW next \in {"loop", "spawn", "reap", "retry", "gate"},
         Fork(s, next, s2) \/ ForkFails(s, next, s2),
         workers[s] = NoPid \/ pc[Super] = "replace",
         pc[Super] \in {"spawn", "retry", "replace"},
         next = "spawn" => pc[Super] = "spawn" /\ s2 = s + 1
  PROVE  SlotsOK'
<1> USE PoolAssumption DEF Procs, Slots
<1>0. \A t \in Slots : Vacated(t) => t = s
  BY DEF Vacated
<1>1. \A t \in Slots : workers[t] \in Pids \cup {NoPid}
  BY DEF DataOK
<1>2. workers[s] # NoPid => pc[workers[s]] = "free"
  BY DEF SlotsOK, Vacated, Unwinding
<1>3. \A t \in Slots \ {s} : workers[t] # NoPid => pc[workers[t]] # "free"
  BY <1>0 DEF SlotsOK
<1>4. \A p \in Pids : Alive(p) => slot[p] \in Slots \ {s} /\ workers[slot[p]] = p
  <2> SUFFICES ASSUME NEW p \in Pids, Alive(p)
               PROVE  slot[p] \in Slots \ {s} /\ workers[slot[p]] = p
    OBVIOUS
  <2>1. workers[slot[p]] = p /\ slot[p] \in Slots /\ p # NoPid
    BY DEF SlotsOK, DataOK
  <2>. QED
    BY <1>2, <2>1 DEF Alive
<1>5. \A p \in Pids : pc[p] = "zombie" => \E t \in Slots \ {s} : workers[t] = p
  <2> SUFFICES ASSUME NEW p \in Pids, pc[p] = "zombie"
               PROVE  \E t \in Slots \ {s} : workers[t] = p
    OBVIOUS
  <2>1. PICK t \in Slots : workers[t] = p
    BY DEF SlotsOK
  <2>. QED
    BY <1>2, <2>1
<1>6. pc'[Super] = next /\ slot'[Super] = s2
  BY DEF Fork, ForkFails, FreshPids, Goto, PointsOK, DataOK
<1>7. \A t \in Slots : ~Vacated(t)'
  BY <1>6 DEF Vacated, Unwinding
<1>8. \A t \in Slots \ {s} : workers'[t] = workers[t]
  BY DEF Fork, ForkFails, DataOK
<1>9. next = "spawn" => \A t \in Slots : t >= s2 => t # s /\ workers[t] = NoPid
  BY DEF SlotsOK
<1>10. pc'[Super] = "spawn" => \A t \in Slots : t >= slot'[Super] => workers'[t] = NoPid
  BY <1>6, <1>8, <1>9
<1>11. CASE Fork(s, next, s2)
  <2>1. PICK p \in FreshPids :
          /\ pc' = [pc EXCEPT ![p] = "boot", ![Super] = next]
          /\ slot' = [slot EXCEPT ![p] = s, ![Super] = s2]
          /\ workers' = [workers EXCEPT ![s] = p]
    BY <1>11 DEF Fork
  <2>2. p \in Pids /\ pc[p] = "free" /\ p # NoPid /\ p # Super
    BY <2>1 DEF FreshPids
  <2>3. /\ pc'[p] = "boot" /\ \A q \in Pids \ {p} : pc'[q] = pc[q]
        /\ slot'[p] = s /\ \A q \in Pids \ {p} : slot'[q] = slot[q]
        /\ workers'[s] = p
    BY <2>1, <2>2 DEF PointsOK, DataOK
  <2>4. \A t \in Slots \ {s} : workers[t] # p
    BY <1>3, <2>2
  <2>5. \A q \in Pids : Alive(q)' => workers'[slot'[q]] = q
    BY <1>4, <1>8, <2>3 DEF Alive
  <2>6. \A q \in Pids : pc'[q] = "zombie" => \E t \in Slots : workers'[t] = q
    BY <1>5, <1>8, <2>3
  <2>7. \A t, u \in Slots : workers'[t] = workers'[u] /\ workers'[t] # NoPid => t = u
    BY <1>8, <2>3, <2>4 DEF SlotsOK
  <2>8. \A t \in Slots : workers'[t] # NoPid => pc'[workers'[t]] # "free"
    BY <1>1, <1>3, <1>8, <2>3, <2>4
  <2>. QED
    BY <1>6, <1>7, <1>10, <2>5, <2>6, <2>7, <2>8 DEF SlotsOK
<1>12. CASE ForkFails(s, next, s2)
  <2>1. /\ \A q \in Pids : pc'[q] = pc[q] /\ slot'[q] = slot[q]
        /\ workers'[s] = NoPid
    BY <1>12 DEF ForkFails, Goto, PointsOK, DataOK
  <2>2. \A q \in Pids : Alive(q)' => workers'[slot'[q]] = q
    BY <1>4, <1>8, <2>1 DEF Alive
  <2>3. \A q \in Pids : pc'[q] = "zombie" => \E t \in Slots : workers'[t] = q
    BY <1>5, <1>8, <2>1
  <2>4. \A t, u \in Slots : workers'[t] = workers'[u] /\ workers'[t] # NoPid => t = u
    BY <1>8, <2>1 DEF SlotsOK
  <2>5. \A t \in Slots : workers'[t] # NoPid => pc'[workers'[t]] # "free"
    BY <1>1, <1>3, <1>8, <2>1
  <2>. QED
    BY <1>6, <1>7, <1>10, <2>2, <2>3, <2>4, <2>5 DEF SlotsOK
<1>. QED
  BY <1>11, <1>12

(* A worker that ends stays in its slot until it is waited for.            *)
LEMMA SlotsEnds ==
  ASSUME PointsOK, DataOK, SlotsOK, UNCHANGED workers, NEW p \in Pids, Alive(p), Ends(p)
  PROVE  SlotsOK'
<1>1. /\ pc'[p] = "zombie" /\ \A q \in Pids \ {p} : pc'[q] = pc[q]
      /\ pc'[Super] = (IF pc[Super] = "accept" THEN "loop" ELSE pc[Super])
      /\ \A q \in Procs \ {p} : slot'[q] = slot[q]
  BY PoolAssumption DEF Ends, PointsOK, DataOK, Procs
<1>2. slot'[Super] = slot[Super]
  BY <1>1, PoolAssumption DEF Procs
<1>. QED
  BY <1>1, <1>2, SlotsFrame DEF Unwinding, Alive, Procs

(* waitpid returns the worker of slot s.                                   *)
LEMMA SlotsWaited ==
  ASSUME PointsOK, DataOK, SlotsOK, NEW s \in Slots, pc[Super] \notin Unwinding,
         NEW p \in Pids, workers[s] = p, pc[p] = "zombie",
         \A q \in Pids \ {p} : pc'[q] = pc[q], pc'[p] = "free",
         \A q \in Pids : slot'[q] = slot[q]
  PROVE  /\ \A q \in Pids : Alive(q)' => slot'[q] \in Slots \ {s} /\ workers[slot'[q]] = q
         /\ \A q \in Pids : pc'[q] = "zombie" => \E t \in Slots \ {s} : workers[t] = q
         /\ \A t \in Slots \ {s} : workers[t] # NoPid => pc'[workers[t]] # "free"
<1> USE PoolAssumption DEF Procs
<1>0. \A t \in Slots : ~Vacated(t)
  BY DEF Vacated
<1>1. p # NoPid /\ \A t \in Slots : workers[t] \in Pids \cup {NoPid}
  BY DEF DataOK
<1>2. ASSUME NEW q \in Pids, Alive(q)'
      PROVE  slot'[q] \in Slots \ {s} /\ workers[slot'[q]] = q
  <2>1. q # p /\ Alive(q)
    BY <1>2 DEF Alive
  <2>. QED
    BY <2>1 DEF SlotsOK, DataOK
<1>3. ASSUME NEW q \in Pids, pc'[q] = "zombie"
      PROVE  \E t \in Slots \ {s} : workers[t] = q
  <2>1. q # p /\ pc[q] = "zombie"
    BY <1>3
  <2>. QED
    BY <2>1 DEF SlotsOK
<1>4. ASSUME NEW t \in Slots \ {s}, workers[t] # NoPid
      PROVE  pc'[workers[t]] # "free"
  <2>1. workers[t] # p /\ workers[t] \in Pids
    BY <1>1, <1>4 DEF SlotsOK
  <2>. QED
    BY <1>0, <1>4, <2>1 DEF SlotsOK
<1>. QED
  BY <1>2, <1>3, <1>4

LEMMA SlotsStep ==
  ASSUME PointsOK, DataOK, SlotsOK, Next
  PROVE  SlotsOK'
<1> USE PoolAssumption DEF PointsOK, Procs, WorkerPoints, SuperPoints, Critical, Spinning, Serving,
  Jobs, Goto, Lock, EntryOf, Ends, local, limits, rate, shared, world
<1>1. ASSUME NEW p \in Procs, Acquire(p) PROVE SlotsOK'
  BY <1>1, SlotsFrame DEF Acquire, Unwinding, Alive
<1>2. ASSUME NEW p \in Procs, Probe(p) PROVE SlotsOK'
  BY <1>2, SlotsFrame DEF Probe, ProbeDead, Unwinding, Alive
<1>3. ASSUME NEW p \in Procs, Reclaim(p) PROVE SlotsOK'
  BY <1>3, SlotsFrame DEF Reclaim, ReclaimTo, Unwinding, Alive
<1>4. ASSUME NEW p \in Procs, EnterAccept(p) PROVE SlotsOK'
  BY <1>4, SlotsFrame DEF EnterAccept, Unwinding, Alive
<1>5. ASSUME NEW p \in Procs, Accept(p) PROVE SlotsOK'
  BY <1>5, SlotsFrame DEF Accept, Unwinding, Alive
<1>6. ASSUME NEW p \in Procs, AcceptFails(p) PROVE SlotsOK'
  <2>1. CASE Goto(p, "loop") /\ UNCHANGED <<local, workers>>
    BY <1>6, <2>1, SlotsFrame DEF AcceptFails, Unwinding, Alive
  <2>2. CASE Ends(p) /\ p \in Pids /\ UNCHANGED workers
    BY <1>6, <2>2, SlotsEnds DEF AcceptFails, Alive
  <2>. QED
    BY <1>6, <2>1, <2>2 DEF AcceptFails
<1>7. ASSUME NEW p \in Procs, RequestEnter(p) PROVE SlotsOK'
  BY <1>7, SlotsFrame DEF RequestEnter, Unwinding, Alive
<1>8. ASSUME NEW p \in Procs, LeaveCheck(p) PROVE SlotsOK'
  BY <1>8, SlotsFrame DEF LeaveCheck, LeaveCheckIf, Unwinding, Alive
<1>9. ASSUME NEW p \in Procs, LeaveCount(p) PROVE SlotsOK'
  BY <1>9, SlotsFrame DEF LeaveCount, Unwinding, Alive
<1>10. ASSUME NEW p \in Procs, LeaveUnlock(p) PROVE SlotsOK'
  BY <1>10, SlotsFrame DEF LeaveUnlock, LeaveUnlockIf, Unwinding, Alive
<1>11. ASSUME NEW p \in Procs, Deliver(p) PROVE SlotsOK'
  BY <1>11, SlotsFrame DEF Deliver, Unwinding, Alive
<1>12. ASSUME NEW p \in Pids, Die(p) PROVE SlotsOK'
  BY <1>12, SlotsFrame DEF Die, Unwinding, Alive
<1>13. ASSUME NEW p \in Pids, Boot(p) PROVE SlotsOK'
  BY <1>13, SlotsFrame DEF Boot, Unwinding, Alive
<1>14. ASSUME NEW p \in Pids, WorkerLoop(p) PROVE SlotsOK'
  <2>1. CASE Goto(p, "toAccept") /\ UNCHANGED <<local, workers>>
    BY <1>14, <2>1, SlotsFrame DEF WorkerLoop, Unwinding, Alive
  <2>2. CASE Ends(p) /\ p \in Pids /\ UNCHANGED workers
    BY <1>14, <2>2, SlotsEnds DEF WorkerLoop, Alive
  <2>. QED
    BY <1>14, <2>1, <2>2 DEF WorkerLoop
<1>15. ASSUME NEW p \in Pids, EnterCheck(p) PROVE SlotsOK'
  BY <1>15, SlotsFrame DEF EnterCheck, EnterCheckAgainst, Unwinding, Alive
<1>16. ASSUME NEW p \in Pids, EnterCount(p) PROVE SlotsOK'
  BY <1>16, SlotsFrame DEF EnterCount, Unwinding, Alive
<1>17. ASSUME NEW p \in Pids, EnterUnlock(p) PROVE SlotsOK'
  BY <1>17, SlotsFrame DEF EnterUnlock, Unwinding, Alive
<1>18. ASSUME NEW p \in Pids, SendBusy(p) PROVE SlotsOK'
  BY <1>18, SlotsFrame DEF SendBusy, Unwinding, Alive
<1>19. ASSUME NEW p \in Pids, Parse(p) PROVE SlotsOK'
  BY <1>19, SlotsFrame DEF Parse, Unwinding, Alive
<1>20. ASSUME NEW p \in Pids, RateWindow(p) PROVE SlotsOK'
  BY <1>20, SlotsFrame DEF RateWindow, Unwinding, Alive
<1>21. ASSUME NEW p \in Pids, RateReset(p) PROVE SlotsOK'
  BY <1>21, SlotsFrame DEF RateReset, Unwinding, Alive
<1>22. ASSUME NEW p \in Pids, RateCount(p) PROVE SlotsOK'
  BY <1>22, SlotsFrame DEF RateCount, RateCountUpTo, Unwinding, Alive
<1>23. ASSUME NEW p \in Pids, RateUnlock(p) PROVE SlotsOK'
  BY <1>23, SlotsFrame DEF RateUnlock, Unwinding, Alive
<1>24. ASSUME NEW p \in Pids, Dispatch(p) PROVE SlotsOK'
  BY <1>24, SlotsFrame DEF Dispatch, Unwinding, Alive
<1>25. ASSUME NEW s \in Slots, Reap(s) PROVE SlotsOK'
  <2> DEFINE q == workers[s]
  <2>1. q \in Pids /\ pc[q] = "zombie" /\ pc[Super] = "reap" /\ q # Super /\ UNCHANGED workers
    BY <1>25 DEF Reap, ReapThen, Ended
  <2>2. /\ pc' = [pc EXCEPT ![q] = "free", ![Super] = "lock"]
        /\ slot' = [slot EXCEPT ![Super] = s]
    BY <1>25 DEF Reap, ReapThen
  <2>3. /\ pc'[q] = "free" /\ \A r \in Pids \ {q} : pc'[r] = pc[r]
        /\ pc'[Super] = "lock" /\ slot'[Super] = s
        /\ \A r \in Pids : slot'[r] = slot[r]
    BY <2>1, <2>2 DEF DataOK
  <2>4. /\ \A r \in Pids : Alive(r)' => slot'[r] \in Slots \ {s} /\ workers[slot'[r]] = r
        /\ \A r \in Pids : pc'[r] = "zombie" => \E t \in Slots \ {s} : workers[t] = r
        /\ \A t \in Slots \ {s} : workers[t] # NoPid => pc'[workers[t]] # "free"
    BY <2>1, <2>3, SlotsWaited DEF Unwinding
  <2>5. \A t \in Slots : Vacated(t)' <=> t = s
    BY <2>3 DEF Vacated, Unwinding
  <2>6. \A t \in Slots : workers[t] # NoPid => (pc'[workers[t]] = "free" <=> Vacated(t)')
    BY <2>1, <2>3, <2>4, <2>5
  <2>7. \A t \in Slots : Vacated(t)' => workers[t] # NoPid
    BY <2>1, <2>5
  <2>. QED
    BY <2>1, <2>3, <2>4, <2>6, <2>7 DEF SlotsOK
<1>26. ASSUME Terminate PROVE SlotsOK'
  BY <1>26, SlotsFrame DEF Terminate, Unwinding, Alive
<1>27. ASSUME Connect PROVE SlotsOK'
  BY <1>27, SlotsFrame DEF Connect, Unwinding, Alive
<1>28. ASSUME WindowElapses PROVE SlotsOK'
  BY <1>28, SlotsFrame DEF WindowElapses, Unwinding, Alive
<1>29. ASSUME SpawnAll PROVE SlotsOK'
  <2>1. slot[Super] \in Slots /\ (slot[Super] # LastSlot => NextSlot \in Slots) /\ 0 \in Slots
    BY DEF LastSlot, NextSlot, DataOK, Slots
  <2>2. workers[slot[Super]] = NoPid
    BY <1>29, <2>1 DEF SpawnAll, SlotsOK, Slots
  <2>. QED
    BY <1>29, <2>1, <2>2, SlotsFork DEF SpawnAll, NextSlot
<1>30. ASSUME SuperLoop PROVE SlotsOK'
  BY <1>30, SlotsFrame DEF SuperLoop, Unwinding, Alive
<1>31. ASSUME NoneEnded PROVE SlotsOK'
  BY <1>31, SlotsFrame DEF NoneEnded, Unwinding, Alive
<1>32. ASSUME Replace PROVE SlotsOK'
  <2>1. slot[Super] \in Slots /\ (slot[Super] # LastSlot => NextSlot \in Slots) /\ 0 \in Slots
    BY DEF LastSlot, NextSlot, DataOK, Slots
  <2>. QED
    BY <1>32, <2>1, SlotsFork DEF Replace, ReplaceUnless
<1>33. ASSUME Retry PROVE SlotsOK'
  <2>1. slot[Super] \in Slots /\ (slot[Super] # LastSlot => NextSlot \in Slots) /\ 0 \in Slots
    BY DEF LastSlot, NextSlot, DataOK, Slots
  <2>2. CASE workers[slot[Super]] = NoPid /\ ~stopping[Super]
    BY <1>33, <2>1, <2>2, SlotsFork DEF Retry, RetryIf
  <2>3. CASE ~(workers[slot[Super]] = NoPid /\ ~stopping[Super])
    <3>1. /\ pc[Super] = "retry" /\ UNCHANGED workers
          /\ \E next \in {"gate", "retry"} : pc' = [pc EXCEPT ![Super] = next]
          /\ \A p \in Pids : slot'[p] = slot[p]
      BY <1>33, <2>1, <2>3 DEF Retry, RetryIf, DataOK
    <3>. QED
      BY <3>1, SlotsFrame DEF Unwinding, Alive
  <2>. QED
    BY <2>2, <2>3
<1>34. ASSUME Gate PROVE SlotsOK'
  BY <1>34, SlotsFrame DEF Gate, Unwinding, Alive
<1>35. ASSUME Poll PROVE SlotsOK'
  BY <1>35, SlotsFrame DEF Poll, Unwinding, Alive
<1>36. ASSUME Term PROVE SlotsOK'
  <2>1. /\ pc[Super] = "term" /\ UNCHANGED workers
        /\ \/ pc' = [pc EXCEPT ![Super] = "term"]
           \/ pc' = [pc EXCEPT ![Super] = "wait"] /\ slot'[Super] = 0
        /\ \A p \in Pids : slot'[p] = slot[p]
    BY <1>36 DEF Term, DataOK
  <2>2. /\ \A p \in Pids : pc'[p] = pc[p]
        /\ \/ pc'[Super] = "term"
           \/ pc'[Super] = "wait" /\ slot'[Super] = 0
    BY <2>1
  <2>. QED
    BY <2>1, <2>2, SlotsFrame DEF Unwinding, Alive
<1>37. ASSUME Wait PROVE SlotsOK'
  <2> DEFINE s == slot[Super]
             q == workers[s]
             next == IF s = LastSlot THEN "stopped" ELSE "wait"
  <2>1. slot[Super] \in Slots /\ (slot[Super] # LastSlot => NextSlot \in Slots) /\ 0 \in Slots
    BY DEF LastSlot, NextSlot, DataOK, Slots
  <2>2. pc[Super] = "wait" /\ q \in Pids \cup {NoPid}
    BY <1>37, <2>1 DEF Wait, WaitUnless, DataOK
  <2>3. /\ slot' = [slot EXCEPT ![Super] = IF s = LastSlot THEN 0 ELSE NextSlot]
        /\ workers' = [workers EXCEPT ![s] = NoPid]
    BY <1>37 DEF Wait, WaitUnless
  <2>4. /\ \A r \in Pids : slot'[r] = slot[r]
        /\ slot'[Super] = (IF s = LastSlot THEN 0 ELSE NextSlot)
        /\ workers'[s] = NoPid /\ \A t \in Slots \ {s} : workers'[t] = workers[t]
    BY <2>1, <2>3 DEF DataOK
  <2>5. pc'[Super] = next
    BY <1>37, <2>2 DEF Wait, WaitUnless, Ended
  <2>6. /\ \A r \in Pids : Alive(r)' => slot'[r] \in Slots \ {s} /\ workers[slot'[r]] = r
        /\ \A r \in Pids : pc'[r] = "zombie" => \E t \in Slots \ {s} : workers[t] = r
        /\ \A t \in Slots \ {s} : workers[t] # NoPid => pc'[workers[t]] # "free"
    <3>1. CASE q = NoPid
      <4>1. \A r \in Pids : pc'[r] = pc[r]
        BY <1>37, <2>2, <3>1 DEF Wait, WaitUnless, Ended
      <4>2. \A t \in Slots : ~Vacated(t) /\ workers[t] \in Pids \cup {NoPid}
        BY <2>2 DEF Vacated, Unwinding, DataOK
      <4>3. \A r \in Pids : r # NoPid /\ slot[r] \in Slots
        BY DEF DataOK
      <4>4. \A r \in Pids : Alive(r)' => slot'[r] \in Slots \ {s} /\ workers[slot'[r]] = r
        BY <2>4, <3>1, <4>1, <4>3 DEF SlotsOK, Alive
      <4>5. \A r \in Pids : pc'[r] = "zombie" => \E t \in Slots \ {s} : workers[t] = r
        BY <3>1, <4>1, <4>3 DEF SlotsOK
      <4>6. \A t \in Slots \ {s} : workers[t] # NoPid => pc'[workers[t]] # "free"
        BY <4>1, <4>2 DEF SlotsOK
      <4>. QED
        BY <4>4, <4>5, <4>6
    <3>2. CASE q # NoPid
      <4>1. q \in Pids /\ pc[q] = "zombie" /\ pc' = [pc EXCEPT ![q] = "free", ![Super] = next]
        BY <1>37, <2>2, <3>2 DEF Wait, WaitUnless, Ended
      <4>2. pc'[q] = "free" /\ \A r \in Pids \ {q} : pc'[r] = pc[r]
        BY <4>1
      <4>. QED
        BY <2>1, <2>2, <2>4, <4>1, <4>2, SlotsWaited DEF Unwinding
    <3>. QED
      BY <3>1, <3>2
  <2>7. \A t \in Slots : ~Vacated(t)'
    BY <2>5 DEF Vacated, Unwinding
  <2>8. \A r \in Pids : Alive(r)' => workers'[slot'[r]] = r
    BY <2>4, <2>6
  <2>9. \A r \in Pids : pc'[r] = "zombie" => \E t \in Slots : workers'[t] = r
    BY <2>4, <2>6
  <2>10. \A t, u \in Slots : workers'[t] = workers'[u] /\ workers'[t] # NoPid => t = u
    BY <2>4 DEF SlotsOK
  <2>11. \A t \in Slots : workers'[t] # NoPid => pc'[workers'[t]] # "free"
    BY <2>4, <2>6
  <2>12. \A t \in Slots : t < s => workers'[t] = NoPid
    BY <2>2, <2>4 DEF SlotsOK
  <2>13. pc'[Super] = "wait" => \A t \in Slots : t < slot'[Super] => workers'[t] = NoPid
    BY <2>1, <2>4, <2>5, <2>12 DEF NextSlot, Slots
  <2>14. pc'[Super] = "stopped" => \A t \in Slots : workers'[t] = NoPid
    BY <2>1, <2>4, <2>5, <2>12 DEF LastSlot, Slots
  <2>. QED
    BY <2>5, <2>7, <2>8, <2>9, <2>10, <2>11, <2>13, <2>14 DEF SlotsOK
<1>38. CASE UNCHANGED vars
  BY <1>38, SlotsFrame DEF vars, Unwinding, Alive
<1>. QED
  BY <1>1, <1>2, <1>3, <1>4, <1>5, <1>6, <1>7, <1>8, <1>9, <1>10, <1>11,
     <1>12, <1>13, <1>14, <1>15, <1>16, <1>17, <1>18, <1>19, <1>20, <1>21,
     <1>22, <1>23, <1>24, <1>25, <1>26, <1>27, <1>28, <1>29, <1>30, <1>31,
     <1>32, <1>33, <1>34, <1>35, <1>36, <1>37, <1>38 DEF Next, SuperStep,
     WorkerStep, Environment, LockStep, LeaveStep, AcceptStep, Spin,
     Stopped

(* A step that takes no claim from anyone and clears or sets no flag.      *)
LEMMA ClaimedFrame ==
  ASSUME DataOK, ClaimedOK, UNCHANGED <<workers, workerActive>>,
         \A p \in Pids : Claimant(p) => Claimant(p)',
         pc[Super] \in {"wait", "stopped"} => pc'[Super] \in {"wait", "stopped"},
         pc[Super] \in {"lock", "reclaim", "leaveCheck"} =>
           pc'[Super] \in {"lock", "reclaim", "leaveCheck"} /\ slot'[Super] = slot[Super]
  PROVE  ClaimedOK'
<1> SUFFICES ASSUME NEW s \in Slots, workerActive'[s]
             PROVE  \/ workers'[s] = NoPid /\ pc'[Super] \in {"wait", "stopped"}
                    \/ workers'[s] # NoPid /\ Claimant(workers[s])'
                    \/ Vacated(s)' /\ pc'[Super] \in {"lock", "reclaim", "leaveCheck"}
  BY DEF ClaimedOK, Claimant, Handling
<1>1. CASE workers[s] = NoPid /\ pc[Super] \in {"wait", "stopped"}
  BY <1>1
<1>2. CASE workers[s] # NoPid /\ Claimant(workers[s])
  <2>1. workers[s] \in Pids
    BY <1>2 DEF DataOK
  <2>2. Claimant(workers[s])'
    <3> DEFINE p == workers[s]
    <3>1. \A q \in Pids : Claimant(q) => Claimant(q)'
      OBVIOUS
    <3>. QED
      BY <1>2, <2>1, <3>1 DEF Claimant, Handling
  <2>. QED
    BY <1>2, <2>2
<1>3. CASE Vacated(s) /\ pc[Super] \in {"lock", "reclaim", "leaveCheck"}
  BY <1>3 DEF Vacated, Unwinding
<1>. QED
  BY <1>1, <1>2, <1>3 DEF ClaimedOK

(* A slot that is empty or just vacated counts for nobody, so that its     *)
(* next worker finds the flag clear.                                       *)
LEMMA ClaimedFork ==
  ASSUME PointsOK, DataOK, SlotsOK, ClaimedOK,
         NEW s \in Slots, s = slot[Super], NEW s2 \in Slots,
         NEW next \in {"loop", "spawn", "reap", "retry", "gate"},
         Fork(s, next, s2) \/ ForkFails(s, next, s2), UNCHANGED <<job, workerActive>>,
         workers[s] = NoPid \/ pc[Super] = "replace",
         pc[Super] \in {"spawn", "retry", "replace"}
  PROVE  ClaimedOK'
<1> USE PoolAssumption DEF Procs
<1>1. ~workerActive[s]
  <2>1. workers[s] # NoPid => pc[workers[s]] = "free"
    BY DEF SlotsOK, Vacated, Unwinding
  <2>2. workers[s] # NoPid => ~Claimant(workers[s])
    BY <2>1 DEF Claimant, Handling, Serving, Spinning
  <2>. QED
    BY <2>2 DEF ClaimedOK
<1>2. ASSUME NEW t \in Slots, workerActive[t]
      PROVE  /\ workers'[t] = workers[t] /\ workers[t] \in Pids
             /\ Claimant(workers[t]) /\ pc'[workers[t]] = pc[workers[t]]
  <2>1. t # s /\ workers'[t] = workers[t]
    BY <1>1, <1>2 DEF Fork, ForkFails, DataOK
  <2>2. workers[t] \in Pids /\ Claimant(workers[t])
    BY <1>2 DEF ClaimedOK, DataOK
  <2>3. pc[workers[t]] # "free"
    BY <2>2 DEF Claimant, Handling, Serving, Spinning
  <2>4. \A p \in Pids : pc[p] # "free" => pc'[p] = pc[p]
    BY DEF Fork, ForkFails, FreshPids, Goto, PointsOK
  <2>. QED
    BY <2>1, <2>2, <2>3, <2>4
<1>3. ASSUME NEW t \in Slots, workerActive'[t]
      PROVE  workers'[t] # NoPid /\ Claimant(workers[t])'
  BY <1>2, <1>3 DEF Claimant, Handling
<1>4. \A t \in Slots : workerActive'[t] => workers'[t] = workers[t]
  BY <1>2
<1>. QED
  BY <1>3, <1>4 DEF ClaimedOK, Claimant, Handling

(* The claims on the other slots, when one process changes its own.        *)
LEMMA ClaimedElsewhere ==
  ASSUME DataOK, SlotsOK, NEW s \in Slots, NEW p \in Pids, workers[s] = p,
         \A q \in Pids \ {p} : pc'[q] = pc[q] /\ job'[q] = job[q],
         NEW t \in Slots \ {s}, workers[t] # NoPid, Claimant(workers[t]),
         workers'[t] = workers[t]
  PROVE  Claimant(workers[t])'
<1>1. workers[t] \in Pids \ {p}
  BY DEF DataOK, SlotsOK
<1>2. pc'[workers'[t]] = pc[workers[t]] /\ job'[workers'[t]] = job[workers[t]]
  BY <1>1
<1>. QED
  BY <1>2 DEF Claimant, Handling

(* A worker that ends leaves its claim to its zombie.                      *)
LEMMA ClaimedEnds ==
  ASSUME PointsOK, DataOK, ClaimedOK, UNCHANGED <<workers, workerActive>>,
         NEW p \in Pids, Ends(p)
  PROVE  ClaimedOK'
<1>1. /\ pc'[p] = "zombie" /\ \A q \in Pids \ {p} : pc'[q] = pc[q]
      /\ pc'[Super] = (IF pc[Super] = "accept" THEN "loop" ELSE pc[Super])
      /\ \A q \in Procs \ {p} : job'[q] = job[q]
      /\ \A q \in Procs \ {p} : slot'[q] = slot[q]
  BY PoolAssumption DEF Ends, PointsOK, DataOK, Procs
<1>2. slot'[Super] = slot[Super]
  BY <1>1, PoolAssumption DEF Procs
<1>3. \A q \in Pids : Claimant(q) => Claimant(q)'
  BY <1>1 DEF Claimant, Handling, Procs
<1>. QED
  BY <1>1, <1>2, <1>3, ClaimedFrame
LEMMA ClaimedStep ==
  ASSUME PointsOK, DataOK, SlotsOK, ClaimedOK, Next
  PROVE  ClaimedOK'
<1> USE PoolAssumption DEF PointsOK, Procs, WorkerPoints, SuperPoints, Critical, Spinning, Serving,
  Jobs, Goto, Lock, EntryOf, Ends, local, limits, rate, shared, world
<1>1. ASSUME NEW p \in Procs, Acquire(p) PROVE ClaimedOK'
  BY <1>1, ClaimedFrame DEF Acquire, Claimant, Handling
<1>2. ASSUME NEW p \in Procs, Probe(p) PROVE ClaimedOK'
  BY <1>2, ClaimedFrame DEF Probe, ProbeDead, Claimant, Handling
<1>3. ASSUME NEW p \in Procs, Reclaim(p) PROVE ClaimedOK'
  BY <1>3, ClaimedFrame DEF Reclaim, ReclaimTo, Claimant, Handling
<1>4. ASSUME NEW p \in Procs, EnterAccept(p) PROVE ClaimedOK'
  BY <1>4, ClaimedFrame DEF EnterAccept, Claimant, Handling
<1>5. ASSUME NEW p \in Procs, Accept(p) PROVE ClaimedOK'
  BY <1>5, ClaimedFrame DEF Accept, Claimant, Handling
<1>6. ASSUME NEW p \in Procs, AcceptFails(p) PROVE ClaimedOK'
  <2>1. CASE Goto(p, "loop") /\ UNCHANGED <<local, shared, workers>>
    BY <1>6, <2>1, ClaimedFrame DEF AcceptFails, Claimant, Handling
  <2>2. CASE Ends(p) /\ p \in Pids /\ UNCHANGED <<shared, workers>>
    BY <1>6, <2>2, ClaimedEnds DEF AcceptFails
  <2>. QED
    BY <1>6, <2>1, <2>2 DEF AcceptFails
<1>7. ASSUME NEW p \in Procs, RequestEnter(p) PROVE ClaimedOK'
  BY <1>7, ClaimedFrame DEF RequestEnter, Claimant, Handling
<1>8. ASSUME NEW p \in Procs, LeaveCheck(p) PROVE ClaimedOK'
  <2>1. /\ pc[p] = "leaveCheck" /\ slot[p] \in Slots /\ UNCHANGED <<job, slot, workers>>
        /\ pc' = [pc EXCEPT ![p] = IF workerActive[slot[p]] THEN "leaveCount" ELSE "leaveDone"]
        /\ workerActive' = [workerActive EXCEPT ![slot[p]] = FALSE]
    BY <1>8 DEF LeaveCheck, LeaveCheckIf, DataOK
  <2>2. \A q \in Procs \ {p} : pc'[q] = pc[q]
    BY <2>1
  <2>3. ASSUME NEW t \in Slots, workerActive'[t]
        PROVE  t # slot[p] /\ workerActive[t]
    BY <2>1, <2>3 DEF DataOK
  <2>4. CASE p = Super
    <3>1. ASSUME NEW t \in Slots, workerActive'[t]
          PROVE  workers[t] # NoPid /\ Claimant(workers[t])
      BY <2>1, <2>3, <2>4, <3>1 DEF ClaimedOK, Vacated
    <3>2. \A t \in Slots : workers[t] # NoPid => pc'[workers[t]] = pc[workers[t]]
      BY <2>2, <2>4 DEF DataOK
    <3>. QED
      BY <2>1, <3>1, <3>2 DEF ClaimedOK, Claimant, Handling
  <2>5. CASE p \in Pids
    <3>1. workers[slot[p]] = p /\ pc'[Super] = pc[Super]
      BY <2>1, <2>2, <2>5 DEF SlotsOK, Alive
    <3>2. ASSUME NEW t \in Slots, workerActive'[t]
          PROVE  \/ workers'[t] = NoPid /\ pc'[Super] \in {"wait", "stopped"}
                 \/ workers'[t] # NoPid /\ Claimant(workers[t])'
                 \/ Vacated(t)' /\ pc'[Super] \in {"lock", "reclaim", "leaveCheck"}
      <4>1. t \in Slots \ {slot[p]} /\ workerActive[t]
        BY <2>3, <3>2
      <4>2. \/ workers[t] = NoPid /\ pc[Super] \in {"wait", "stopped"}
            \/ workers[t] # NoPid /\ Claimant(workers[t])
            \/ Vacated(t) /\ pc[Super] \in {"lock", "reclaim", "leaveCheck"}
        BY <4>1 DEF ClaimedOK
      <4>3. CASE workers[t] # NoPid /\ Claimant(workers[t])
        BY <2>1, <2>2, <2>5, <3>1, <4>1, <4>3, ClaimedElsewhere
      <4>. QED
        BY <2>1, <3>1, <4>2, <4>3 DEF Vacated
    <3>. QED
      BY <3>2 DEF ClaimedOK, Claimant, Handling
  <2>. QED
    BY <2>4, <2>5
<1>9. ASSUME NEW p \in Procs, LeaveCount(p) PROVE ClaimedOK'
  BY <1>9, ClaimedFrame DEF LeaveCount, Claimant, Handling
<1>10. ASSUME NEW p \in Procs, LeaveUnlock(p) PROVE ClaimedOK'
  BY <1>10, ClaimedFrame DEF LeaveUnlock, LeaveUnlockIf, Claimant, Handling
<1>11. ASSUME NEW p \in Procs, Deliver(p) PROVE ClaimedOK'
  BY <1>11, ClaimedFrame DEF Deliver, Claimant, Handling
<1>12. ASSUME NEW p \in Pids, Die(p) PROVE ClaimedOK'
  BY <1>12, ClaimedEnds DEF Die
<1>13. ASSUME NEW p \in Pids, Boot(p) PROVE ClaimedOK'
  BY <1>13, ClaimedFrame DEF Boot, Claimant, Handling
<1>14. ASSUME NEW p \in Pids, WorkerLoop(p) PROVE ClaimedOK'
  <2>1. CASE Goto(p, "toAccept") /\ UNCHANGED <<local, shared, workers>>
    BY <1>14, <2>1, ClaimedFrame DEF WorkerLoop, Claimant, Handling
  <2>2. CASE Ends(p) /\ p \in Pids /\ UNCHANGED <<shared, workers>>
    BY <1>14, <2>2, ClaimedEnds DEF WorkerLoop
  <2>. QED
    BY <1>14, <2>1, <2>2 DEF WorkerLoop
<1>15. ASSUME NEW p \in Pids, EnterCheck(p) PROVE ClaimedOK'
  <2>1. CASE UNCHANGED workerActive
    BY <1>15, <2>1, ClaimedFrame DEF EnterCheck, EnterCheckAgainst, Claimant, Handling
  <2>2. CASE workerActive' = [workerActive EXCEPT ![slot[p]] = TRUE] /\ Goto(p, "enterCount")
    <3>1. /\ pc[p] = "enterCheck" /\ slot[p] \in Slots /\ workers[slot[p]] = p
          /\ UNCHANGED <<job, slot, workers>> /\ p # NoPid
      BY <1>15 DEF EnterCheck, EnterCheckAgainst, DataOK, SlotsOK, Alive
    <3>2. pc'[p] = "enterCount" /\ pc'[Super] = pc[Super] /\ \A q \in Pids \ {p} : pc'[q] = pc[q]
      BY <2>2
    <3>3. ASSUME NEW t \in Slots \ {slot[p]}, workerActive'[t]
          PROVE  \/ workers'[t] = NoPid /\ pc'[Super] \in {"wait", "stopped"}
                 \/ workers'[t] # NoPid /\ Claimant(workers[t])'
                 \/ Vacated(t)' /\ pc'[Super] \in {"lock", "reclaim", "leaveCheck"}
      <4>1. workerActive[t]
        BY <2>2, <3>3 DEF DataOK
      <4>2. \/ workers[t] = NoPid /\ pc[Super] \in {"wait", "stopped"}
            \/ workers[t] # NoPid /\ Claimant(workers[t])
            \/ Vacated(t) /\ pc[Super] \in {"lock", "reclaim", "leaveCheck"}
        BY <4>1 DEF ClaimedOK
      <4>3. CASE workers[t] # NoPid /\ Claimant(workers[t])
        BY <3>1, <3>2, <4>3, ClaimedElsewhere
      <4>. QED
        BY <3>1, <3>2, <4>2, <4>3 DEF Vacated
    <3>4. \A t \in Slots : t = slot[p] => workers'[t] # NoPid /\ Claimant(workers[t])'
      BY <3>1, <3>2 DEF Claimant
    <3>. QED
      BY <3>3, <3>4 DEF ClaimedOK, Claimant, Handling
  <2>. QED
    BY <1>15, <2>1, <2>2 DEF EnterCheck, EnterCheckAgainst
<1>16. ASSUME NEW p \in Pids, EnterCount(p) PROVE ClaimedOK'
  BY <1>16, ClaimedFrame DEF EnterCount, Claimant, Handling
<1>17. ASSUME NEW p \in Pids, EnterUnlock(p) PROVE ClaimedOK'
  BY <1>17, ClaimedFrame DEF EnterUnlock, Claimant, Handling
<1>18. ASSUME NEW p \in Pids, SendBusy(p) PROVE ClaimedOK'
  BY <1>18, ClaimedFrame DEF SendBusy, Claimant, Handling
<1>19. ASSUME NEW p \in Pids, Parse(p) PROVE ClaimedOK'
  BY <1>19, ClaimedFrame DEF Parse, Claimant, Handling
<1>20. ASSUME NEW p \in Pids, RateWindow(p) PROVE ClaimedOK'
  BY <1>20, ClaimedFrame DEF RateWindow, Claimant, Handling
<1>21. ASSUME NEW p \in Pids, RateReset(p) PROVE ClaimedOK'
  BY <1>21, ClaimedFrame DEF RateReset, Claimant, Handling
<1>22. ASSUME NEW p \in Pids, RateCount(p) PROVE ClaimedOK'
  BY <1>22, ClaimedFrame DEF RateCount, RateCountUpTo, Claimant, Handling
<1>23. ASSUME NEW p \in Pids, RateUnlock(p) PROVE ClaimedOK'
  BY <1>23, ClaimedFrame DEF RateUnlock, Claimant, Handling
<1>24. ASSUME NEW p \in Pids, Dispatch(p) PROVE ClaimedOK'
  BY <1>24, ClaimedFrame DEF Dispatch, Claimant, Handling
<1>25. ASSUME NEW s \in Slots, Reap(s) PROVE ClaimedOK'
  <2>1. /\ workers[s] \in Pids /\ pc[Super] = "reap" /\ UNCHANGED <<workers, workerActive>>
        /\ pc' = [pc EXCEPT ![workers[s]] = "free", ![Super] = "lock"]
        /\ job' = [job EXCEPT ![Super] = "leave"] /\ slot' = [slot EXCEPT ![Super] = s]
    BY <1>25 DEF Reap, ReapThen, Ended
  <2>2. PICK p \in Pids : p = workers[s]
    BY <2>1
  <2>3. /\ pc'[Super] = "lock" /\ slot'[Super] = s
        /\ \A q \in Pids \ {p} : pc'[q] = pc[q] /\ job'[q] = job[q]
    BY <2>1, <2>2 DEF DataOK
  <2>4. ASSUME NEW t \in Slots \ {s}, workerActive'[t]
        PROVE  workers'[t] # NoPid /\ Claimant(workers[t])'
    <3>1. workers[t] # NoPid /\ Claimant(workers[t])
      BY <2>1, <2>4 DEF ClaimedOK
    <3>. QED
      BY <2>1, <2>2, <2>3, <3>1, ClaimedElsewhere
  <2>5. \A t \in Slots : t = s => Vacated(t)'
    BY <2>3 DEF Vacated, Unwinding
  <2>. QED
    BY <2>3, <2>4, <2>5 DEF ClaimedOK, Claimant, Handling, Vacated
<1>26. ASSUME Terminate PROVE ClaimedOK'
  BY <1>26, ClaimedFrame DEF Terminate, Claimant, Handling
<1>27. ASSUME Connect PROVE ClaimedOK'
  BY <1>27, ClaimedFrame DEF Connect, Claimant, Handling
<1>28. ASSUME WindowElapses PROVE ClaimedOK'
  BY <1>28, ClaimedFrame DEF WindowElapses, Claimant, Handling
<1>29. ASSUME SpawnAll PROVE ClaimedOK'
  <2>1. slot[Super] \in Slots /\ (slot[Super] # LastSlot => NextSlot \in Slots) /\ 0 \in Slots
    BY DEF LastSlot, NextSlot, DataOK, Slots
  <2>2. workers[slot[Super]] = NoPid
    BY <1>29, <2>1 DEF SpawnAll, SlotsOK, Slots
  <2>. QED
    BY <1>29, <2>1, <2>2, ClaimedFork DEF SpawnAll, NextSlot
<1>30. ASSUME SuperLoop PROVE ClaimedOK'
  BY <1>30, ClaimedFrame DEF SuperLoop, Claimant, Handling
<1>31. ASSUME NoneEnded PROVE ClaimedOK'
  BY <1>31, ClaimedFrame DEF NoneEnded, Claimant, Handling
<1>32. ASSUME Replace PROVE ClaimedOK'
  <2>1. slot[Super] \in Slots /\ (slot[Super] # LastSlot => NextSlot \in Slots) /\ 0 \in Slots
    BY DEF LastSlot, NextSlot, DataOK, Slots
  <2>. QED
    BY <1>32, <2>1, ClaimedFork DEF Replace, ReplaceUnless
<1>33. ASSUME Retry PROVE ClaimedOK'
  <2>1. slot[Super] \in Slots /\ (slot[Super] # LastSlot => NextSlot \in Slots) /\ 0 \in Slots
    BY DEF LastSlot, NextSlot, DataOK, Slots
  <2>2. CASE workers[slot[Super]] = NoPid /\ ~stopping[Super]
    BY <1>33, <2>1, <2>2, ClaimedFork DEF Retry, RetryIf
  <2>3. CASE ~(workers[slot[Super]] = NoPid /\ ~stopping[Super])
    <3>1. /\ pc[Super] = "retry" /\ UNCHANGED <<job, workers, workerActive>>
          /\ \E next \in {"gate", "retry"} : pc' = [pc EXCEPT ![Super] = next]
      BY <1>33, <2>1, <2>3 DEF Retry, RetryIf
    <3>2. \A p \in Pids : pc'[p] = pc[p]
      BY <3>1
    <3>. QED
      BY <3>1, <3>2, ClaimedFrame DEF Claimant, Handling
  <2>. QED
    BY <2>2, <2>3
<1>34. ASSUME Gate PROVE ClaimedOK'
  BY <1>34, ClaimedFrame DEF Gate, Claimant, Handling
<1>35. ASSUME Poll PROVE ClaimedOK'
  BY <1>35, ClaimedFrame DEF Poll, Claimant, Handling
<1>36. ASSUME Term PROVE ClaimedOK'
  BY <1>36, ClaimedFrame DEF Term, NextSlot, LastSlot, Claimant, Handling
<1>37. ASSUME Wait PROVE ClaimedOK'
  <2>1. slot[Super] \in Slots /\ (slot[Super] # LastSlot => NextSlot \in Slots) /\ 0 \in Slots
    BY DEF LastSlot, NextSlot, DataOK, Slots
  <2> DEFINE s == slot[Super]
             next == IF s = LastSlot THEN "stopped" ELSE "wait"
  <2>2. /\ pc[Super] = "wait" /\ UNCHANGED <<job, workerActive>>
        /\ workers' = [workers EXCEPT ![s] = NoPid]
        /\ \/ workers[s] = NoPid /\ pc' = [pc EXCEPT ![Super] = next]
           \/ workers[s] \in Pids /\ pc' = [pc EXCEPT ![workers[s]] = "free", ![Super] = next]
    BY <1>37 DEF Wait, WaitUnless, Ended
  <2>3. pc'[Super] \in {"wait", "stopped"}
    BY <2>2
  <2>4. workers'[s] = NoPid /\ \A t \in Slots \ {s} : workers'[t] = workers[t]
    BY <2>1, <2>2 DEF DataOK
  <2>5. ASSUME NEW t \in Slots \ {s}, workerActive'[t], workers[t] # NoPid
        PROVE  Claimant(workers[t])'
    <3>1. Claimant(workers[t])
      BY <2>2, <2>5 DEF ClaimedOK, Vacated, Unwinding
    <3>2. CASE workers[s] = NoPid
      <4>1. \A q \in Pids : pc'[q] = pc[q]
        BY <2>2, <3>2
      <4>2. workers[t] \in Pids /\ workers'[t] = workers[t]
        BY <2>4, <2>5 DEF DataOK
      <4>. QED
        BY <2>2, <3>1, <4>1, <4>2 DEF Claimant, Handling
    <3>3. CASE workers[s] # NoPid
      <4>1. PICK p \in Pids : p = workers[s]
        BY <2>2, <3>3
      <4>2. \A q \in Pids \ {p} : pc'[q] = pc[q] /\ job'[q] = job[q]
        BY <2>2, <3>3, <4>1
      <4>. QED
        BY <2>1, <2>4, <2>5, <3>1, <4>1, <4>2, ClaimedElsewhere
    <3>. QED
      BY <3>2, <3>3
  <2>6. ASSUME NEW t \in Slots, workerActive'[t]
        PROVE  \/ workers'[t] = NoPid
               \/ workers'[t] # NoPid /\ Claimant(workers[t])'
    BY <2>4, <2>5, <2>6
  <2>. QED
    BY <2>3, <2>6 DEF ClaimedOK, Claimant, Handling
<1>38. CASE UNCHANGED vars
  BY <1>38, ClaimedFrame DEF vars, Claimant, Handling
<1>. QED
  BY <1>1, <1>2, <1>3, <1>4, <1>5, <1>6, <1>7, <1>8, <1>9, <1>10, <1>11,
     <1>12, <1>13, <1>14, <1>15, <1>16, <1>17, <1>18, <1>19, <1>20, <1>21,
     <1>22, <1>23, <1>24, <1>25, <1>26, <1>27, <1>28, <1>29, <1>30, <1>31,
     <1>32, <1>33, <1>34, <1>35, <1>36, <1>37, <1>38 DEF Next, SuperStep,
     WorkerStep, Environment, LockStep, LeaveStep, AcceptStep, Spin,
     Stopped

(* What a process inside http_pool_connection_enter or leave still owes    *)
(* active_connections, and what one that found the pool full has seen.     *)
Claimed == {s \in Slots : workerActive[s]}
One(b) == IF b THEN 1 ELSE 0
AccountOK ==
  /\ active + One(\E p \in Pids : pc[p] = "enterCount")
       = Cardinality(Claimed) + One(\E p \in Procs : pc[p] = "leaveCount")
  /\ \A p \in Pids : pc[p] = "enterRefuse" => Cardinality(Claimed) = MaxConn

(* No worker is killed between the store of its slot's flag and the store  *)
(* of active_connections (http_pool_connection_enter and _leave).          *)
NoHalfUpdate == MayDie \cap {"enterCount", "leaveCount"} = {}

LEMMA ClaimedFinite == IsFiniteSet(Claimed) /\ Cardinality(Claimed) \in Nat
<1>1. IsFiniteSet(Slots)
  BY PoolAssumption, FS_Interval DEF Slots
<1>2. Claimed \in SUBSET Slots
  BY DEF Claimed
<1>. QED
  BY <1>1, <1>2, FS_Subset, FS_CardinalityType

(* A step that updates neither the flags nor active_connections, and does  *)
(* not enter or leave the two half-made updates.                           *)
LEMMA AccountFrame ==
  ASSUME AccountOK, UNCHANGED <<active, workerActive>>,
         \A p \in Procs : /\ pc'[p] = "enterCount" <=> pc[p] = "enterCount"
                          /\ pc'[p] = "leaveCount" <=> pc[p] = "leaveCount"
                          /\ pc'[p] = "enterRefuse" => pc[p] = "enterRefuse"
  PROVE  AccountOK'
<1>1. Claimed' = Claimed
  BY DEF Claimed
<1>2. /\ (\E p \in Pids : pc[p] = "enterCount")' <=> (\E p \in Pids : pc[p] = "enterCount")
      /\ (\E p \in Procs : pc[p] = "leaveCount")' <=> (\E p \in Procs : pc[p] = "leaveCount")
  BY DEF Procs
<1>. QED
  BY <1>1, <1>2 DEF AccountOK, One, Procs

(* Wherever else a worker ends, it owes no update.                         *)
LEMMA AccountEnds ==
  ASSUME PointsOK, AccountOK, UNCHANGED <<active, workerActive>>, NEW p \in Pids,
         pc[p] \notin {"enterCount", "leaveCount"}, Ends(p)
  PROVE  AccountOK'
<1>1. /\ pc'[p] = "zombie" /\ \A q \in Pids \ {p} : pc'[q] = pc[q]
      /\ pc'[Super] = (IF pc[Super] = "accept" THEN "loop" ELSE pc[Super])
  BY PoolAssumption DEF Ends, PointsOK, Procs
<1>. QED
  BY <1>1, AccountFrame DEF Procs

LEMMA AccountStep ==
  ASSUME NoHalfUpdate, PointsOK, DataOK, LockOwned, SlotsOK, ClaimedOK, AccountOK, Next
  PROVE  AccountOK'
<1> USE PoolAssumption DEF PointsOK, Procs, WorkerPoints, SuperPoints, Critical, Spinning, Serving,
  Jobs, Goto, Lock, EntryOf, Ends, local, limits, rate, shared, world
<1>1. ASSUME NEW p \in Procs, Acquire(p) PROVE AccountOK'
  BY <1>1, AccountFrame DEF Acquire
<1>2. ASSUME NEW p \in Procs, Probe(p) PROVE AccountOK'
  BY <1>2, AccountFrame DEF Probe, ProbeDead
<1>3. ASSUME NEW p \in Procs, Reclaim(p) PROVE AccountOK'
  BY <1>3, AccountFrame DEF Reclaim, ReclaimTo
<1>4. ASSUME NEW p \in Procs, EnterAccept(p) PROVE AccountOK'
  BY <1>4, AccountFrame DEF EnterAccept
<1>5. ASSUME NEW p \in Procs, Accept(p) PROVE AccountOK'
  BY <1>5, AccountFrame DEF Accept
<1>6. ASSUME NEW p \in Procs, AcceptFails(p) PROVE AccountOK'
  <2>1. CASE Goto(p, "loop") /\ UNCHANGED <<local, shared>>
    BY <1>6, <2>1, AccountFrame DEF AcceptFails
  <2>2. CASE Ends(p) /\ p \in Pids /\ UNCHANGED <<shared, workers>>
    BY <1>6, <2>2, AccountEnds DEF AcceptFails
  <2>. QED
    BY <1>6, <2>1, <2>2 DEF AcceptFails
<1>7. ASSUME NEW p \in Procs, RequestEnter(p) PROVE AccountOK'
  BY <1>7, AccountFrame DEF RequestEnter
<1>8. ASSUME NEW p \in Procs, LeaveCheck(p) PROVE AccountOK'
  <2>1. /\ pc[p] = "leaveCheck" /\ slot[p] \in Slots /\ UNCHANGED active
    BY <1>8 DEF LeaveCheck, LeaveCheckIf, DataOK
  <2>2. \A q \in Procs \ {p} : pc'[q] = pc[q] /\ pc[q] \notin Critical
    BY <1>8 DEF LeaveCheck, LeaveCheckIf, LockOwned, InCritical
  <2>3. CASE ~workerActive[slot[p]]
    BY <1>8, <2>3, AccountFrame DEF LeaveCheck, LeaveCheckIf
  <2>4. CASE workerActive[slot[p]]
    <3>1. /\ pc'[p] = "leaveCount"
          /\ workerActive' = [workerActive EXCEPT ![slot[p]] = FALSE]
      BY <1>8, <2>1, <2>4 DEF LeaveCheck, LeaveCheckIf
    <3>2. Claimed' = Claimed \ {slot[p]} /\ slot[p] \in Claimed
      BY <2>1, <2>4, <3>1 DEF Claimed, DataOK
    <3>3. Cardinality(Claimed') = Cardinality(Claimed) - 1
      BY <3>2, ClaimedFinite, FS_RemoveElement
    <3>4. /\ ~ (\E q \in Pids : pc[q] = "enterCount")
          /\ ~ (\E q \in Procs : pc[q] = "leaveCount")
          /\ ~ (\E q \in Pids : pc'[q] = "enterCount")
          /\ \E q \in Procs : pc'[q] = "leaveCount"
          /\ ~ (\E q \in Pids : pc'[q] = "enterRefuse")
      BY <2>1, <2>2, <3>1
    <3>. QED
      BY <2>1, <3>3, <3>4, ClaimedFinite DEF AccountOK, One, DataOK
  <2>. QED
    BY <2>3, <2>4
<1>9. ASSUME NEW p \in Procs, LeaveCount(p) PROVE AccountOK'
  <2>1. /\ pc[p] = "leaveCount" /\ pc'[p] = "leaveDone"
        /\ active' = (IF active > 0 THEN active - 1 ELSE active) /\ Claimed' = Claimed
    BY <1>9 DEF LeaveCount, Claimed
  <2>2. \A q \in Procs \ {p} : pc'[q] = pc[q] /\ pc[q] \notin Critical
    BY <1>9 DEF LeaveCount, LockOwned, InCritical
  <2>3. /\ ~ (\E q \in Pids : pc[q] = "enterCount")
        /\ \E q \in Procs : pc[q] = "leaveCount"
        /\ ~ (\E q \in Pids : pc'[q] = "enterCount")
        /\ ~ (\E q \in Procs : pc'[q] = "leaveCount")
        /\ ~ (\E q \in Pids : pc'[q] = "enterRefuse")
    BY <2>1, <2>2
  <2>4. active = Cardinality(Claimed) + 1
    BY <2>3, ClaimedFinite DEF AccountOK, One, DataOK
  <2>. QED
    BY <2>1, <2>3, <2>4, ClaimedFinite DEF AccountOK, One
<1>10. ASSUME NEW p \in Procs, LeaveUnlock(p) PROVE AccountOK'
  BY <1>10, AccountFrame DEF LeaveUnlock, LeaveUnlockIf
<1>11. ASSUME NEW p \in Procs, Deliver(p) PROVE AccountOK'
  BY <1>11, AccountFrame DEF Deliver
<1>12. ASSUME NEW p \in Pids, Die(p) PROVE AccountOK'
  BY <1>12, AccountEnds DEF Die, NoHalfUpdate
<1>13. ASSUME NEW p \in Pids, Boot(p) PROVE AccountOK'
  BY <1>13, AccountFrame DEF Boot
<1>14. ASSUME NEW p \in Pids, WorkerLoop(p) PROVE AccountOK'
  <2>1. CASE Goto(p, "toAccept") /\ UNCHANGED <<local, shared>>
    BY <1>14, <2>1, AccountFrame DEF WorkerLoop
  <2>2. CASE Ends(p) /\ p \in Pids /\ UNCHANGED <<shared, workers>>
    BY <1>14, <2>2, AccountEnds DEF WorkerLoop
  <2>. QED
    BY <1>14, <2>1, <2>2 DEF WorkerLoop
<1>15. ASSUME NEW p \in Pids, EnterCheck(p) PROVE AccountOK'
  <2>1. /\ pc[p] = "enterCheck" /\ slot[p] \in Slots /\ workers[slot[p]] = p
        /\ UNCHANGED active /\ p # NoPid
    BY <1>15 DEF EnterCheck, EnterCheckAgainst, DataOK, SlotsOK, Alive
  <2>2. \A q \in Procs \ {p} : pc'[q] = pc[q] /\ pc[q] \notin Critical
    BY <1>15 DEF EnterCheck, EnterCheckAgainst, LockOwned, InCritical
  <2>3. active = Cardinality(Claimed)
    <3>1. ~ (\E q \in Pids : pc[q] = "enterCount") /\ ~ (\E q \in Procs : pc[q] = "leaveCount")
      BY <2>1, <2>2
    <3>. QED
      BY <3>1, ClaimedFinite DEF AccountOK, One, DataOK
  <2>4. CASE active >= MaxConn
    <3>1. pc'[p] = "enterRefuse" /\ Claimed' = Claimed
      BY <1>15, <2>1, <2>4 DEF EnterCheck, EnterCheckAgainst, Claimed, DataOK
    <3>2. Cardinality(Claimed) = MaxConn
      BY <2>3, <2>4 DEF DataOK
    <3>3. /\ ~ (\E q \in Pids : pc'[q] = "enterCount")
          /\ ~ (\E q \in Procs : pc'[q] = "leaveCount")
      BY <2>2, <3>1
    <3>. QED
      BY <2>1, <2>3, <3>1, <3>2, <3>3 DEF AccountOK, One
  <2>5. CASE active < MaxConn
    <3>1. /\ pc'[p] = "enterCount"
          /\ workerActive' = [workerActive EXCEPT ![slot[p]] = TRUE]
      BY <1>15, <2>1, <2>5 DEF EnterCheck, EnterCheckAgainst, DataOK
    <3>2. ~workerActive[slot[p]]
      BY <2>1, <1>15 DEF ClaimedOK, Claimant, Handling, Vacated, SlotsOK
    <3>3. Claimed' = Claimed \cup {slot[p]} /\ slot[p] \notin Claimed
      BY <2>1, <3>1, <3>2 DEF Claimed, DataOK
    <3>4. Cardinality(Claimed') = Cardinality(Claimed) + 1
      BY <3>3, ClaimedFinite, FS_AddElement
    <3>5. /\ \E q \in Pids : pc'[q] = "enterCount"
          /\ ~ (\E q \in Procs : pc'[q] = "leaveCount")
          /\ ~ (\E q \in Pids : pc'[q] = "enterRefuse")
      BY <2>2, <3>1
    <3>. QED
      BY <2>1, <2>3, <3>4, <3>5, ClaimedFinite DEF AccountOK, One
  <2>. QED
    BY <2>4, <2>5 DEF DataOK
<1>16. ASSUME NEW p \in Pids, EnterCount(p) PROVE AccountOK'
  <2>1. /\ pc[p] = "enterCount" /\ pc'[p] = "enterGrant" /\ active' = active + 1
        /\ Claimed' = Claimed
    BY <1>16 DEF EnterCount, Claimed
  <2>2. \A q \in Procs \ {p} : pc'[q] = pc[q] /\ pc[q] \notin Critical
    BY <1>16 DEF EnterCount, LockOwned, InCritical
  <2>3. /\ \E q \in Pids : pc[q] = "enterCount"
        /\ ~ (\E q \in Procs : pc[q] = "leaveCount")
        /\ ~ (\E q \in Pids : pc'[q] = "enterCount")
        /\ ~ (\E q \in Procs : pc'[q] = "leaveCount")
        /\ ~ (\E q \in Pids : pc'[q] = "enterRefuse")
    BY <2>1, <2>2
  <2>. QED
    BY <2>1, <2>3, ClaimedFinite DEF AccountOK, One, DataOK
<1>17. ASSUME NEW p \in Pids, EnterUnlock(p) PROVE AccountOK'
  BY <1>17, AccountFrame DEF EnterUnlock
<1>18. ASSUME NEW p \in Pids, SendBusy(p) PROVE AccountOK'
  BY <1>18, AccountFrame DEF SendBusy
<1>19. ASSUME NEW p \in Pids, Parse(p) PROVE AccountOK'
  BY <1>19, AccountFrame DEF Parse
<1>20. ASSUME NEW p \in Pids, RateWindow(p) PROVE AccountOK'
  BY <1>20, AccountFrame DEF RateWindow
<1>21. ASSUME NEW p \in Pids, RateReset(p) PROVE AccountOK'
  BY <1>21, AccountFrame DEF RateReset
<1>22. ASSUME NEW p \in Pids, RateCount(p) PROVE AccountOK'
  BY <1>22, AccountFrame DEF RateCount, RateCountUpTo
<1>23. ASSUME NEW p \in Pids, RateUnlock(p) PROVE AccountOK'
  BY <1>23, AccountFrame DEF RateUnlock
<1>24. ASSUME NEW p \in Pids, Dispatch(p) PROVE AccountOK'
  BY <1>24, AccountFrame DEF Dispatch
<1>25. ASSUME NEW s \in Slots, Reap(s) PROVE AccountOK'
  BY <1>25, AccountFrame DEF Reap, Ended, ReapThen
<1>26. ASSUME Terminate PROVE AccountOK'
  BY <1>26, AccountFrame DEF Terminate
<1>27. ASSUME Connect PROVE AccountOK'
  BY <1>27, AccountFrame DEF Connect
<1>28. ASSUME WindowElapses PROVE AccountOK'
  BY <1>28, AccountFrame DEF WindowElapses
<1>29. ASSUME SpawnAll PROVE AccountOK'
  BY <1>29, AccountFrame DEF SpawnAll, Fork, ForkFails, FreshPids, NextSlot,
    LastSlot
<1>30. ASSUME SuperLoop PROVE AccountOK'
  BY <1>30, AccountFrame DEF SuperLoop
<1>31. ASSUME NoneEnded PROVE AccountOK'
  BY <1>31, AccountFrame DEF NoneEnded
<1>32. ASSUME Replace PROVE AccountOK'
  BY <1>32, AccountFrame DEF Replace, Fork, ForkFails, FreshPids,
    ReplaceUnless
<1>33. ASSUME Retry PROVE AccountOK'
  BY <1>33, AccountFrame DEF Retry, Fork, ForkFails, FreshPids, NextSlot,
    LastSlot, RetryIf
<1>34. ASSUME Gate PROVE AccountOK'
  BY <1>34, AccountFrame DEF Gate
<1>35. ASSUME Poll PROVE AccountOK'
  BY <1>35, AccountFrame DEF Poll
<1>36. ASSUME Term PROVE AccountOK'
  BY <1>36, AccountFrame DEF Term, NextSlot, LastSlot
<1>37. ASSUME Wait PROVE AccountOK'
  <2>1. UNCHANGED <<active, workerActive>>
    BY <1>37 DEF Wait, WaitUnless
  <2>2. /\ pc[Super] = "wait" /\ pc'[Super] \in {"wait", "stopped"}
        /\ \A q \in Pids : pc'[q] = pc[q] \/ (pc[q] = "zombie" /\ pc'[q] = "free")
    BY <1>37 DEF Wait, WaitUnless, Ended, LastSlot
  <2>. QED
    BY <2>1, <2>2, AccountFrame
<1>38. CASE UNCHANGED vars
  BY <1>38, AccountFrame DEF vars
<1>. QED
  BY <1>1, <1>2, <1>3, <1>4, <1>5, <1>6, <1>7, <1>8, <1>9, <1>10, <1>11,
     <1>12, <1>13, <1>14, <1>15, <1>16, <1>17, <1>18, <1>19, <1>20, <1>21,
     <1>22, <1>23, <1>24, <1>25, <1>26, <1>27, <1>28, <1>29, <1>30, <1>31,
     <1>32, <1>33, <1>34, <1>35, <1>36, <1>37, <1>38 DEF Next, SuperStep,
     WorkerStep, Environment, LockStep, LeaveStep, AcceptStep, Spin,
     Stopped

-----------------------------------------------------------------------------
(* The inductive invariant.                                                *)
IInv ==
  /\ PointsOK /\ DataOK /\ LockOwned /\ DeadOwner /\ Room /\ Counted
  /\ SlotsOK /\ ClaimedOK

LEMMA InitIInv == Init => IInv
<1> SUFFICES ASSUME Init PROVE IInv
  OBVIOUS
<1> USE PoolAssumption DEF Init, Procs
<1>1. PointsOK
  BY DEF PointsOK, WorkerPoints, SuperPoints, Spinning, Jobs
<1>2. DataOK
  <2>1. 0 \in Slots
    BY DEF Slots
  <2>2. /\ active \in 0 .. MaxConn /\ peak \in 0 .. MaxConn /\ total \in 0 .. MaxRequests
        /\ rateCount \in 0 .. RateMax + 1 /\ passed \in Nat /\ backlog \in 0 .. Backlog
    OBVIOUS
  <2>3. /\ owner \in [Procs -> Procs \cup {NoPid}]
        /\ served \in [Procs -> 0 .. MaxServed]
        /\ stopping \in [Procs -> BOOLEAN]
    OBVIOUS
  <2>. QED
    BY <2>1, <2>2, <2>3 DEF DataOK
<1>3. LockOwned /\ DeadOwner
  BY DEF LockOwned, DeadOwner, InCritical, Critical
<1>4. Room /\ Counted
  BY DEF Room, Counted
<1>5. SlotsOK /\ ClaimedOK
  BY DEF SlotsOK, ClaimedOK, Alive, Vacated, Unwinding
<1>. QED
  BY <1>1, <1>2, <1>3, <1>4, <1>5 DEF IInv

LEMMA NextIInv == IInv /\ [Next]_vars => IInv'
<1> SUFFICES ASSUME IInv, [Next]_vars PROVE IInv'
  OBVIOUS
<1>1. CASE Next
  BY <1>1, PointsStep, DataStep, LockStepOwned, RoomStep, CountedStep, SlotsStep,
     ClaimedStep DEF IInv
<1>2. CASE UNCHANGED vars
  BY <1>2 DEF vars, local, limits, rate, shared, world, IInv, PointsOK, DataOK, LockOwned,
     DeadOwner, Room, Counted, InCritical, SlotsOK, ClaimedOK, Alive, Vacated, Claimant, Handling
<1>. QED
  BY <1>1, <1>2

(* Every reachable state satisfies the inductive invariant.                *)
THEOREM Invariance == Spec => []IInv
  BY InitIInv, NextIInv, PTL DEF Spec

(* The fields of the server hold what TypeOK says, whatever dies: among    *)
(* others active_connections stays between 0 and http_max_conn.            *)
THEOREM TypeCorrect == Spec => []TypeOK
<1>1. IInv => TypeOK
  BY DEF IInv, PointsOK, DataOK, TypeOK
<1>. QED
  BY <1>1, Invariance, PTL

(* http_shared_lock excludes, for any number of workers dying anywhere.    *)
THEOREM MutualExclusion == Spec => []LockMutex
<1>1. IInv => LockMutex
  BY PoolAssumption DEF IInv, LockOwned, LockMutex
<1>. QED
  BY <1>1, Invariance, PTL

(* The rate limit holds in every window, wherever a worker dies.           *)
THEOREM RateLimitHolds == Spec => []RateBound
<1>1. IInv => RateBound
  BY DEF IInv, Counted, RateBound
<1>. QED
  BY <1>1, Invariance, PTL

(* A step that changes a lock that is held is its owner's unlock, or the   *)
(* reclaiming of the lock of a process that has been waited for.           *)
LEMMA HandoverStep ==
  ASSUME IInv, Next, lock # NoPid, lock' # lock
  PROVE  /\ lock' = NoPid
         /\ \/ pc[lock] = "free"
            \/ InCritical(lock) /\ pc'[lock] \notin Critical
<1> USE PoolAssumption DEF InCritical, Critical, Procs
<1> DEFINE Handover == /\ lock' = NoPid
                       /\ \/ pc[lock] = "free"
                          \/ InCritical(lock) /\ pc'[lock] \notin Critical
<1>1. ASSUME NEW p \in Procs, Reclaim(p) PROVE Handover
  BY <1>1 DEF IInv, DeadOwner, Reclaim, ReclaimTo
<1>2. ASSUME NEW p \in Procs, EnterUnlock(p) \/ RateUnlock(p) \/ LeaveUnlock(p)
      PROVE  Handover
  BY <1>2 DEF IInv, PointsOK, EnterUnlock, RateUnlock, LeaveUnlock, LeaveUnlockIf, Unlock, Goto, Lock
<1>3. ASSUME NEW p \in Procs, Acquire(p) PROVE FALSE
  BY <1>3 DEF Acquire
<1>4. ASSUME NEW p \in Procs,
             Probe(p) \/ EnterAccept(p) \/ Accept(p) \/ AcceptFails(p) \/
             RequestEnter(p) \/ LeaveCheck(p) \/ LeaveCount(p) \/ Deliver(p)
             \/ Die(p) \/ Boot(p) \/ WorkerLoop(p) \/ EnterCheck(p) \/
             EnterCount(p) \/ SendBusy(p) \/ Parse(p) \/ RateWindow(p) \/
             RateReset(p) \/ RateCount(p) \/ Dispatch(p)
      PROVE  FALSE
  BY <1>4 DEF Probe, EnterAccept, Accept, AcceptFails, RequestEnter,
     LeaveCheck, LeaveCount, Deliver, Die, Boot, WorkerLoop, EnterCheck,
     EnterCount, SendBusy, Parse, RateWindow, RateReset, RateCount, Dispatch,
     ProbeDead, EnterCheckAgainst, RateCountUpTo, LeaveCheckIf, shared, rate,
     limits, Ends
<1>5. ASSUME (\E s \in Slots : Reap(s)) \/
            Terminate \/ Connect \/ WindowElapses \/ SpawnAll \/ SuperLoop \/
            NoneEnded \/ Replace \/ Retry \/ Gate \/ Poll \/ Term \/ Wait
      PROVE  FALSE
  BY <1>5 DEF Reap, Terminate, Connect, WindowElapses, SpawnAll, SuperLoop,
     NoneEnded, Replace, Retry, Gate, Poll, Term, Wait, ReapThen,
     ReplaceUnless, RetryIf, WaitUnless, shared
<1>6. ASSUME NEW p \in Procs, Spin(p) PROVE FALSE
  BY <1>6 DEF Spin, vars, shared
<1>7. ASSUME Stopped PROVE FALSE
  BY <1>7 DEF Stopped, vars, shared
<1>. QED
  BY <1>1, <1>2, <1>3, <1>4, <1>5, <1>6, <1>7 DEF Next, SuperStep, WorkerStep,
     Environment, LockStep, LeaveStep, AcceptStep

(* The lock is never taken from a process that runs or is still a zombie.  *)
THEOREM NeverStolen == Spec => LockHandover
<1>1. IInv /\ [Next]_vars =>
        [lock # NoPid /\ lock' # lock =>
           /\ lock' = NoPid
           /\ \/ pc[lock] = "free"
              \/ InCritical(lock) /\ pc'[lock] \notin Critical]_vars
  BY HandoverStep
<1>. QED
  BY <1>1, Invariance, PTL DEF Spec, LockHandover

(* A live worker runs in the slot that http_workers records for it, so     *)
(* that worker_active[slot] has one writer besides the supervisor, however *)
(* forks, deaths and waits interleave.                                     *)
THEOREM SlotsExclude == Spec => []SlotExclusive
<1>1. IInv => SlotExclusive
  BY DEF IInv, SlotsOK, SlotExclusive
<1>. QED
  BY <1>1, Invariance, PTL

(* fl_http_start returns only when every worker has been waited for.       *)
THEOREM NoneOutlives == Spec => []NoWorkerOutlives
<1>1. IInv => NoWorkerOutlives
  <2> SUFFICES ASSUME IInv, pc[Super] = "stopped", NEW p \in Pids
               PROVE  pc[p] = "free"
    BY DEF NoWorkerOutlives
  <2>1. slot[p] \in Slots /\ p # NoPid
    BY PoolAssumption DEF IInv, DataOK, Procs
  <2>. QED
    BY <2>1 DEF IInv, SlotsOK, Alive
<1>. QED
  BY <1>1, Invariance, PTL

-----------------------------------------------------------------------------
(* What holds as long as no worker is killed between the two stores of an  *)
(* update.                                                                 *)

LEMMA InitAccount == Init => AccountOK
<1> SUFFICES ASSUME Init PROVE AccountOK
  OBVIOUS
<1>1. Claimed = {}
  BY DEF Init, Claimed
<1>2. Cardinality(Claimed) = 0
  BY <1>1, FS_EmptySet
<1>. QED
  BY <1>2 DEF Init, AccountOK, One, Procs

LEMMA NextAccount ==
  ASSUME NoHalfUpdate, IInv, AccountOK, [Next]_vars
  PROVE  AccountOK'
<1>1. CASE Next
  BY <1>1, AccountStep DEF IInv
<1>2. CASE UNCHANGED vars
  BY <1>2, AccountFrame DEF vars, shared, limits
<1>. QED
  BY <1>1, <1>2

(* http_pool_connection_enter and http_pool_connection_leave keep         *)
(* active_connections at the number of flags in worker_active, one off     *)
(* while the holder of the lock is between its two stores.                 *)
THEOREM Accounts == ASSUME NoHalfUpdate PROVE Spec => []AccountOK
<1>1. IInv /\ AccountOK /\ [Next]_vars => AccountOK'
  BY NextAccount
<1>. QED
  BY <1>1, InitAccount, Invariance, PTL DEF Spec

(* Between http_shared_lock and http_shared_unlock there is one process at *)
(* most, so that what is owed is counted by none or one.                   *)
LEMMA OneOwes ==
  ASSUME LockOwned, NEW S, NEW point \in Critical,
         \A p \in S : p \in Procs
  PROVE  Cardinality({p \in S : pc[p] = point}) = One(\E p \in S : pc[p] = point)
<1> DEFINE owing == {p \in S : pc[p] = point}
<1>1. \A p, q \in owing : p = q
  BY DEF LockOwned, InCritical
<1>2. CASE \E p \in S : pc[p] = point
  <2>1. PICK p \in S : pc[p] = point
    BY <1>2
  <2>2. owing = {p}
    BY <1>1, <2>1
  <2>. QED
    BY <1>2, <2>2, FS_Singleton DEF One
<1>3. CASE ~ (\E p \in S : pc[p] = point)
  <2>1. owing = {}
    BY <1>3
  <2>. QED
    BY <1>3, <2>1, FS_EmptySet DEF One
<1>. QED
  BY <1>2, <1>3

(* active_connections agrees with worker_active, up to the update that the *)
(* holder of the lock owes, wherever else workers die.                     *)
THEOREM ActiveIsExact == ASSUME NoHalfUpdate PROVE Spec => []ActiveExact
<1>1. IInv /\ AccountOK => ActiveExact
  <2> SUFFICES ASSUME IInv, AccountOK PROVE ActiveExact
    OBVIOUS
  <2>1. Cardinality({p \in Pids : pc[p] = "enterCount"}) = One(\E p \in Pids : pc[p] = "enterCount")
    BY OneOwes DEF IInv, Procs, Critical
  <2>2. Cardinality({p \in Procs : pc[p] = "leaveCount"}) = One(\E p \in Procs : pc[p] = "leaveCount")
    BY OneOwes DEF IInv, Critical
  <2>. QED
    BY <2>1, <2>2 DEF AccountOK, ActiveExact, Claimed
<1>. QED
  BY <1>1, Accounts, Invariance, PTL

(* A 503 of http_pool_connection_enter means that http_max_conn slots are  *)
(* held: by workers with a connection, by zombies, or by the one dead      *)
(* worker whose slot the supervisor is about to leave.                     *)
THEOREM RefusedWhenFull == ASSUME NoHalfUpdate PROVE Spec => []RefusalMeansFull
<1>1. IInv /\ AccountOK => RefusalMeansFull
  <2> SUFFICES ASSUME IInv, AccountOK, NEW p \in Pids, pc[p] = "enterRefuse",
                      pc[Super] \notin {"term", "wait", "stopped"}
               PROVE  Cardinality({s \in Slots : workers[s] # NoPid /\ Held(s)}) >= MaxConn
    BY DEF RefusalMeansFull
  <2> DEFINE held == {s \in Slots : workers[s] # NoPid /\ Held(s)}
  <2>1. \A q \in Pids : pc[q] \notin {"enterCount", "enterGrant"}
    BY DEF IInv, LockOwned, InCritical, Critical, Procs
  <2>2. ASSUME NEW s \in Slots, workerActive[s]
        PROVE  workers[s] # NoPid /\ Held(s)
    <3>1. CASE workers[s] # NoPid /\ Claimant(workers[s])
      <4>1. workers[s] \in Pids
        BY <3>1 DEF IInv, DataOK
      <4>. QED
        BY <2>1, <3>1, <4>1 DEF Claimant, Held
    <3>2. CASE Vacated(s) /\ pc[Super] \in {"lock", "reclaim", "leaveCheck"}
      BY <3>2 DEF IInv, SlotsOK, Vacated, Held
    <3>. QED
      BY <2>2, <3>1, <3>2 DEF IInv, ClaimedOK
  <2>3. Claimed \in SUBSET held
    BY <2>2 DEF Claimed
  <2>4. IsFiniteSet(Slots) /\ held \in SUBSET Slots
    BY PoolAssumption, FS_Interval DEF Slots
  <2>5. IsFiniteSet(held)
    BY <2>4, FS_Subset
  <2>6. Cardinality(held) \in Nat /\ Cardinality(Claimed) <= Cardinality(held)
    BY <2>3, <2>5, FS_Subset, FS_CardinalityType
  <2>7. Cardinality(Claimed) = MaxConn
    BY DEF AccountOK
  <2>. QED
    BY <2>6, <2>7, PoolAssumption
<1>. QED
  BY <1>1, Accounts, Invariance, PTL

-----------------------------------------------------------------------------
(* The pool implements ConnLimiter.                                        *)

Refusing == {slot[p] : p \in {q \in Pids : pc[q] \in {"enterRefuse", "busy"}}}
LimiterStep == Limiter!Next \/ UNCHANGED <<Claimed, Refusing>>

(* A step in which no flag changes and nobody begins or ends a refusal.    *)
LEMMA LimiterFrame ==
  ASSUME UNCHANGED workerActive,
         \A p \in Pids : /\ pc'[p] \in {"enterRefuse", "busy"} <=> pc[p] \in {"enterRefuse", "busy"}
                         /\ pc[p] \in {"enterRefuse", "busy"} => slot'[p] = slot[p]
  PROVE  LimiterStep
<1>1. Claimed' = Claimed
  BY DEF Claimed
<1>2. Refusing' = Refusing
  BY DEF Refusing
<1>. QED
  BY <1>1, <1>2 DEF LimiterStep

(* Both modules count with the Cardinality of FiniteSets.                  *)
LEMMA LimiterCount == \A S : Limiter!Cardinality(S) = Cardinality(S)
BY DEF Limiter!Cardinality, Cardinality

(* The four steps of the limiter, for one slot.                            *)
LEMMA LimiterMoves ==
  ASSUME NEW s \in Slots,
         \/ /\ s \notin Claimed \cup Refusing /\ Cardinality(Claimed) < MaxConn
            /\ Claimed' = Claimed \cup {s} /\ Refusing' = Refusing
         \/ /\ s \notin Claimed \cup Refusing /\ Cardinality(Claimed) = MaxConn
            /\ Refusing' = Refusing \cup {s} /\ Claimed' = Claimed
         \/ Claimed' = Claimed \ {s} /\ Refusing' = Refusing
         \/ Refusing' = Refusing \ {s} /\ Claimed' = Claimed
  PROVE  LimiterStep
<1>1. Limiter!Admit(s) \/ Limiter!Refuse(s) \/ Limiter!Release(s) \/ Limiter!Refused(s)
  BY LimiterCount DEF Limiter!Admit, Limiter!Refuse, Limiter!Release, Limiter!Refused, Claimed, Refusing
<1>. QED
  BY <1>1 DEF LimiterStep, Limiter!Next

(* Two workers that run have two slots.                                    *)
LEMMA SlotsDiffer ==
  ASSUME SlotsOK, NEW p \in Pids, NEW q \in Pids, Alive(p), Alive(q), slot[p] = slot[q]
  PROVE  p = q
BY DEF SlotsOK

(* The 503 is sent, or the worker dies before it could send it.            *)
LEMMA LimiterRefused ==
  ASSUME DataOK, SlotsOK, UNCHANGED workerActive,
         NEW p \in Pids, pc[p] \in {"enterRefuse", "busy"}, pc'[p] \notin {"enterRefuse", "busy"},
         \A q \in Pids \ {p} : pc'[q] = pc[q] /\ slot'[q] = slot[q]
  PROVE  LimiterStep
<1>1. Claimed' = Claimed /\ slot[p] \in Slots
  BY DEF Claimed, DataOK, Procs
<1>2. \A q \in Pids \ {p} : pc[q] \in {"enterRefuse", "busy"} => slot[q] # slot[p]
  BY SlotsDiffer DEF Alive
<1>3. Refusing' = Refusing \ {slot[p]}
  BY <1>2 DEF Refusing
<1>4. PICK s \in Slots : s = slot[p]
  BY <1>1
<1>. QED
  BY <1>1, <1>3, <1>4, LimiterMoves

LEMMA LimiterEnds ==
  ASSUME PointsOK, DataOK, SlotsOK, UNCHANGED workerActive, NEW p \in Pids, Ends(p)
  PROVE  LimiterStep
<1>1. /\ pc'[p] = "zombie"
      /\ \A q \in Pids \ {p} : pc'[q] = pc[q] /\ slot'[q] = slot[q]
  BY PoolAssumption DEF Ends, PointsOK, DataOK, Procs
<1>2. CASE pc[p] \in {"enterRefuse", "busy"}
  BY <1>1, <1>2, LimiterRefused
<1>3. CASE pc[p] \notin {"enterRefuse", "busy"}
  BY <1>1, <1>3, LimiterFrame
<1>. QED
  BY <1>2, <1>3

LEMMA LimiterFork ==
  ASSUME PointsOK, DataOK, UNCHANGED workerActive,
         NEW s, NEW next, NEW s2, Fork(s, next, s2) \/ ForkFails(s, next, s2)
  PROVE  LimiterStep
<1> USE PoolAssumption DEF PointsOK, DataOK, Procs
<1>1. CASE Fork(s, next, s2)
  <2>1. PICK p \in FreshPids :
          /\ pc' = [pc EXCEPT ![p] = "boot", ![Super] = next]
          /\ slot' = [slot EXCEPT ![p] = s, ![Super] = s2]
    BY <1>1 DEF Fork
  <2>2. p \in Pids /\ pc[p] = "free"
    BY <2>1 DEF FreshPids
  <2>3. pc'[p] = "boot" /\ \A q \in Pids \ {p} : pc'[q] = pc[q] /\ slot'[q] = slot[q]
    BY <2>1, <2>2
  <2>. QED
    BY <2>2, <2>3, LimiterFrame
<1>2. CASE ForkFails(s, next, s2)
  <2>1. \A q \in Pids : pc'[q] = pc[q] /\ slot'[q] = slot[q]
    BY <1>2 DEF ForkFails, Goto
  <2>. QED
    BY <2>1, LimiterFrame
<1>. QED
  BY <1>1, <1>2

LEMMA LimiterSteps ==
  ASSUME IInv, AccountOK, Next
  PROVE  LimiterStep
<1> USE PoolAssumption DEF IInv, PointsOK, Procs, WorkerPoints, SuperPoints, Critical, Spinning,
  Serving, Jobs, Goto, Lock, EntryOf, Ends, local, limits, rate, shared, world
<1>1. ASSUME NEW p \in Procs, Acquire(p) PROVE LimiterStep
  BY <1>1, LimiterFrame DEF Acquire
<1>2. ASSUME NEW p \in Procs, Probe(p) PROVE LimiterStep
  BY <1>2, LimiterFrame DEF Probe, ProbeDead
<1>3. ASSUME NEW p \in Procs, Reclaim(p) PROVE LimiterStep
  BY <1>3, LimiterFrame DEF Reclaim, ReclaimTo
<1>4. ASSUME NEW p \in Procs, EnterAccept(p) PROVE LimiterStep
  BY <1>4, LimiterFrame DEF EnterAccept
<1>5. ASSUME NEW p \in Procs, Accept(p) PROVE LimiterStep
  BY <1>5, LimiterFrame DEF Accept
<1>6. ASSUME NEW p \in Procs, AcceptFails(p) PROVE LimiterStep
  <2>1. CASE Goto(p, "loop") /\ UNCHANGED <<local, shared>>
    BY <1>6, <2>1, LimiterFrame DEF AcceptFails
  <2>2. CASE Ends(p) /\ p \in Pids /\ UNCHANGED <<shared, workers>>
    BY <1>6, <2>2, LimiterEnds DEF AcceptFails
  <2>. QED
    BY <1>6, <2>1, <2>2 DEF AcceptFails
<1>7. ASSUME NEW p \in Procs, RequestEnter(p) PROVE LimiterStep
  BY <1>7, LimiterFrame DEF RequestEnter
<1>8. ASSUME NEW p \in Procs, LeaveCheck(p) PROVE LimiterStep
  <2>1. /\ slot[p] \in Slots /\ UNCHANGED slot /\ pc[p] = "leaveCheck"
        /\ workerActive' = [workerActive EXCEPT ![slot[p]] = FALSE]
        /\ pc'[p] \in {"leaveCount", "leaveDone"} /\ \A q \in Procs \ {p} : pc'[q] = pc[q]
    BY <1>8 DEF LeaveCheck, LeaveCheckIf, DataOK
  <2>2. Claimed' = Claimed \ {slot[p]}
    BY <2>1 DEF Claimed, DataOK
  <2>3. Refusing' = Refusing
    BY <2>1 DEF Refusing
  <2>4. PICK s \in Slots : s = slot[p]
    BY <2>1
  <2>. QED
    BY <2>2, <2>3, <2>4, LimiterMoves
<1>9. ASSUME NEW p \in Procs, LeaveCount(p) PROVE LimiterStep
  BY <1>9, LimiterFrame DEF LeaveCount
<1>10. ASSUME NEW p \in Procs, LeaveUnlock(p) PROVE LimiterStep
  BY <1>10, LimiterFrame DEF LeaveUnlock, LeaveUnlockIf
<1>11. ASSUME NEW p \in Procs, Deliver(p) PROVE LimiterStep
  BY <1>11, LimiterFrame DEF Deliver
<1>12. ASSUME NEW p \in Pids, Die(p) PROVE LimiterStep
  BY <1>12, LimiterEnds DEF Die
<1>13. ASSUME NEW p \in Pids, Boot(p) PROVE LimiterStep
  BY <1>13, LimiterFrame DEF Boot
<1>14. ASSUME NEW p \in Pids, WorkerLoop(p) PROVE LimiterStep
  <2>1. CASE Goto(p, "toAccept") /\ UNCHANGED <<local, shared>>
    BY <1>14, <2>1, LimiterFrame DEF WorkerLoop
  <2>2. CASE Ends(p) /\ p \in Pids /\ UNCHANGED <<shared, workers>>
    BY <1>14, <2>2, LimiterEnds DEF WorkerLoop
  <2>. QED
    BY <1>14, <2>1, <2>2 DEF WorkerLoop
<1>15. ASSUME NEW p \in Pids, EnterCheck(p) PROVE LimiterStep
  <2>1. /\ pc[p] = "enterCheck" /\ slot[p] \in Slots /\ workers[slot[p]] = p
        /\ UNCHANGED slot /\ p # NoPid
    BY <1>15 DEF EnterCheck, EnterCheckAgainst, DataOK, SlotsOK, Alive
  <2>2. \A q \in Procs \ {p} : pc'[q] = pc[q] /\ pc[q] \notin Critical
    BY <1>15 DEF EnterCheck, EnterCheckAgainst, LockOwned, InCritical
  <2>3. active = Cardinality(Claimed)
    <3>1. ~ (\E q \in Pids : pc[q] = "enterCount") /\ ~ (\E q \in Procs : pc[q] = "leaveCount")
      BY <2>1, <2>2
    <3>. QED
      BY <3>1, ClaimedFinite DEF AccountOK, One, DataOK
  <2>4. slot[p] \notin Claimed
    BY <2>1 DEF Claimed, ClaimedOK, Claimant, Handling, Vacated, SlotsOK
  <2>5. slot[p] \notin Refusing
    BY <2>1, SlotsDiffer DEF Refusing, Alive
  <2>6. CASE active >= MaxConn
    <3>1. pc'[p] = "enterRefuse" /\ Claimed' = Claimed
      BY <1>15, <2>1, <2>6 DEF EnterCheck, EnterCheckAgainst, Claimed, DataOK
    <3>2. Refusing' = Refusing \cup {slot[p]}
      BY <2>1, <2>2, <3>1 DEF Refusing
    <3>3. Cardinality(Claimed) = MaxConn
      BY <2>3, <2>6 DEF DataOK
    <3>4. PICK s \in Slots : s = slot[p]
      BY <2>1
    <3>. QED
      BY <2>4, <2>5, <3>1, <3>2, <3>3, <3>4, LimiterMoves
  <2>7. CASE active < MaxConn
    <3>1. /\ pc'[p] = "enterCount"
          /\ workerActive' = [workerActive EXCEPT ![slot[p]] = TRUE]
      BY <1>15, <2>1, <2>7 DEF EnterCheck, EnterCheckAgainst, DataOK
    <3>2. Claimed' = Claimed \cup {slot[p]}
      BY <2>1, <3>1 DEF Claimed, DataOK
    <3>3. Refusing' = Refusing
      BY <2>1, <2>2, <3>1 DEF Refusing
    <3>4. PICK s \in Slots : s = slot[p]
      BY <2>1
    <3>. QED
      BY <2>3, <2>4, <2>5, <2>7, <3>2, <3>3, <3>4, LimiterMoves
  <2>. QED
    BY <2>6, <2>7 DEF DataOK
<1>16. ASSUME NEW p \in Pids, EnterCount(p) PROVE LimiterStep
  BY <1>16, LimiterFrame DEF EnterCount
<1>17. ASSUME NEW p \in Pids, EnterUnlock(p) PROVE LimiterStep
  BY <1>17, LimiterFrame DEF EnterUnlock
<1>18. ASSUME NEW p \in Pids, SendBusy(p) PROVE LimiterStep
  <2>1. /\ UNCHANGED workerActive /\ pc[p] = "busy" /\ pc'[p] = "loop"
        /\ \A q \in Pids \ {p} : pc'[q] = pc[q] /\ slot'[q] = slot[q]
    BY <1>18 DEF SendBusy
  <2>. QED
    BY <2>1, LimiterRefused
<1>19. ASSUME NEW p \in Pids, Parse(p) PROVE LimiterStep
  BY <1>19, LimiterFrame DEF Parse
<1>20. ASSUME NEW p \in Pids, RateWindow(p) PROVE LimiterStep
  BY <1>20, LimiterFrame DEF RateWindow
<1>21. ASSUME NEW p \in Pids, RateReset(p) PROVE LimiterStep
  BY <1>21, LimiterFrame DEF RateReset
<1>22. ASSUME NEW p \in Pids, RateCount(p) PROVE LimiterStep
  BY <1>22, LimiterFrame DEF RateCount, RateCountUpTo
<1>23. ASSUME NEW p \in Pids, RateUnlock(p) PROVE LimiterStep
  BY <1>23, LimiterFrame DEF RateUnlock
<1>24. ASSUME NEW p \in Pids, Dispatch(p) PROVE LimiterStep
  BY <1>24, LimiterFrame DEF Dispatch
<1>25. ASSUME NEW s \in Slots, Reap(s) PROVE LimiterStep
  BY <1>25, LimiterFrame DEF Reap, Ended, ReapThen
<1>26. ASSUME Terminate PROVE LimiterStep
  BY <1>26, LimiterFrame DEF Terminate
<1>27. ASSUME Connect PROVE LimiterStep
  BY <1>27, LimiterFrame DEF Connect
<1>28. ASSUME WindowElapses PROVE LimiterStep
  BY <1>28, LimiterFrame DEF WindowElapses
<1>29. ASSUME SpawnAll PROVE LimiterStep
  BY <1>29, LimiterFork DEF SpawnAll
<1>30. ASSUME SuperLoop PROVE LimiterStep
  BY <1>30, LimiterFrame DEF SuperLoop
<1>31. ASSUME NoneEnded PROVE LimiterStep
  BY <1>31, LimiterFrame DEF NoneEnded
<1>32. ASSUME Replace PROVE LimiterStep
  BY <1>32, LimiterFork DEF Replace, ReplaceUnless
<1>33. ASSUME Retry PROVE LimiterStep
  <2>1. CASE workers[slot[Super]] = NoPid /\ ~stopping[Super]
    BY <1>33, <2>1, LimiterFork DEF Retry, RetryIf
  <2>2. CASE ~(workers[slot[Super]] = NoPid /\ ~stopping[Super])
    <3>1. /\ UNCHANGED workerActive
          /\ \A q \in Pids : pc'[q] = pc[q] /\ slot'[q] = slot[q]
      BY <1>33, <2>2 DEF Retry, RetryIf, DataOK
    <3>. QED
      BY <3>1, LimiterFrame
  <2>. QED
    BY <2>1, <2>2
<1>34. ASSUME Gate PROVE LimiterStep
  BY <1>34, LimiterFrame DEF Gate
<1>35. ASSUME Poll PROVE LimiterStep
  BY <1>35, LimiterFrame DEF Poll
<1>36. ASSUME Term PROVE LimiterStep
  BY <1>36, LimiterFrame DEF Term, NextSlot, LastSlot
<1>37. ASSUME Wait PROVE LimiterStep
  <2>1. /\ UNCHANGED workerActive
        /\ \A q \in Pids : slot'[q] = slot[q]
        /\ \A q \in Pids : pc'[q] = pc[q] \/ (pc[q] = "zombie" /\ pc'[q] = "free")
    BY <1>37 DEF Wait, WaitUnless, Ended, LastSlot, DataOK
  <2>. QED
    BY <2>1, LimiterFrame
<1>38. CASE UNCHANGED vars
  BY <1>38, LimiterFrame DEF vars
<1>. QED
  BY <1>1, <1>2, <1>3, <1>4, <1>5, <1>6, <1>7, <1>8, <1>9, <1>10, <1>11,
     <1>12, <1>13, <1>14, <1>15, <1>16, <1>17, <1>18, <1>19, <1>20, <1>21,
     <1>22, <1>23, <1>24, <1>25, <1>26, <1>27, <1>28, <1>29, <1>30, <1>31,
     <1>32, <1>33, <1>34, <1>35, <1>36, <1>37, <1>38 DEF Next, SuperStep,
     WorkerStep, Environment, LockStep, LeaveStep, AcceptStep, Spin,
     Stopped

(* What http_pool_connection_enter and http_pool_connection_leave promise: *)
(* a slot serves one connection, http_max_conn slots serve at once, and a  *)
(* connection is turned away only while they do, as long as no worker is   *)
(* killed between the two stores of an update.                             *)
THEOREM PoolIsLimiter == ASSUME NoHalfUpdate PROVE Spec => LimiterSpec
<1>1. Init => Limiter!Init
  BY PoolAssumption DEF Init, Limiter!Init, Procs
<1>2. IInv /\ AccountOK /\ [Next]_vars => [Limiter!Next]_(Limiter!vars)
  <2> SUFFICES ASSUME IInv, AccountOK, [Next]_vars
               PROVE  [Limiter!Next]_(Limiter!vars)
    OBVIOUS
  <2>1. LimiterStep
    <3>1. CASE Next
      BY <3>1, LimiterSteps
    <3>2. CASE UNCHANGED vars
      BY <3>2, LimiterFrame DEF vars, local, shared, limits
    <3>. QED
      BY <3>1, <3>2
  <2>. QED
    BY <2>1 DEF LimiterStep, Limiter!vars, Claimed, Refusing
<1>. QED
  BY <1>1, <1>2, Accounts, Invariance, PTL DEF Spec, LimiterSpec, Limiter!Spec

=============================================================================
