---------------------------- MODULE HttpForkProofs ----------------------------
(* What TLAPS proves of HttpFork, for every number of children, every      *)
(* limit and every set of points at which children may die.                *)
EXTENDS HttpFork, FiniteSetTheorems, SequenceTheorems, TLAPS

(* Where the parent and the children can be, and which child the parent is *)
(* about to record.                                                        *)
PointsOK ==
  /\ pc \in [Procs -> ChildPoints \cup ParentPoints \cup {"free"}]
  /\ pc[Parent] \in ParentPoints
  /\ \A p \in Pids : pc[p] \in ChildPoints \cup {"free"}
  /\ worker \in Procs
  /\ pc[Parent] = "record" => worker \in Pids

(* The parent's list and the other data no counter depends on.             *)
WorldOK ==
  /\ stopping \in BOOLEAN /\ childChanged \in BOOLEAN /\ sigchld \in BOOLEAN
  /\ sigterm \subseteq Procs /\ deaf \subseteq Pids
  /\ workers \in Seq(Pids)
  /\ index \in Nat \ {0}
  /\ served \in 0 .. MaxRequests /\ backlog \in 0 .. Backlog

(* The counters: active_connections is exact, wherever children die,       *)
(* because a child adds itself in the step in which it becomes counted and *)
(* takes itself off in the step in which it ceases to be.                  *)
CountersOK ==
  /\ seen \in [Pids -> 0 .. MaxConn] /\ seenPeak \in [Pids -> 0 .. MaxConn]
  /\ active \in 0 .. MaxConn /\ peak \in 0 .. MaxConn
  /\ highest \in 0 .. MaxConn /\ leaked \in Nat
  /\ ActiveExact

(* No child is on the list twice, the one about to be recorded is not on   *)
(* it yet, and every other live child is.                                  *)
TrackOK ==
  /\ \A i, k \in 1 .. Len(workers) : workers[i] = workers[k] => i = k
  /\ pc[Parent] = "record" => \A i \in 1 .. Len(workers) : workers[i] # worker
  /\ \A p \in Pids : Alive(p) =>
       \/ pc[Parent] = "record" /\ worker = p
       \/ \E i \in 1 .. Len(workers) : workers[i] = p
  /\ NoChildOutlives

(* http_workers[i] = http_workers[--http_worker_count] takes one child off *)
(* the list and keeps every other one.                                     *)
LEMMA SwapOutProperties ==
  ASSUME workers \in Seq(Pids), NEW i \in 1 .. Len(workers)
  PROVE  /\ SwapOut(i) \in Seq(Pids)
         /\ Len(SwapOut(i)) = Len(workers) - 1
         /\ \A k \in 1 .. Len(workers) - 1 :
              SwapOut(i)[k] = IF k = i THEN workers[Len(workers)] ELSE workers[k]
<1> DEFINE n == Len(workers) - 1
<1>1. n \in Nat
  BY LenProperties
<1>2. workers \in [1 .. Len(workers) -> Pids]
  BY LenProperties
<1>3. SwapOut(i) \in [1 .. n -> Pids]
  BY <1>1, <1>2 DEF SwapOut
<1>4. SwapOut(i) \in Seq(Pids)
  BY <1>1, <1>3, SeqDef
<1>5. Len(SwapOut(i)) = n
  BY <1>1, <1>3, <1>4, LenProperties
<1>6. ASSUME NEW k \in 1 .. n
      PROVE  SwapOut(i)[k] = IF k = i THEN workers[Len(workers)] ELSE workers[k]
  BY <1>6 DEF SwapOut
<1>. QED
  BY <1>4, <1>5, <1>6

LEMMA PointsStep ==
  ASSUME PointsOK, Next
  PROVE  PointsOK'
<1> USE ForkAssumption DEF PointsOK, Procs, ChildPoints, ParentPoints, Counted, Goto,
    parentVars, signals, locals, counters
<1>1. ASSUME Loop PROVE PointsOK'
  BY <1>1 DEF Loop
<1>2. ASSUME Reap PROVE PointsOK'
  BY <1>2 DEF Reap, ReapIf, AfterReap
<1>3. ASSUME EnterAccept PROVE PointsOK'
  BY <1>3 DEF EnterAccept
<1>4. ASSUME Accept PROVE PointsOK'
  BY <1>4 DEF Accept
<1>5. ASSUME AcceptFails PROVE PointsOK'
  BY <1>5 DEF AcceptFails
<1>6. ASSUME Admit PROVE PointsOK'
  BY <1>6 DEF Admit, AdmitWithin, FreshPids, Count
<1>7. ASSUME Record PROVE PointsOK'
  BY <1>7 DEF Record, RecordAs, Count
<1>8. ASSUME Closing PROVE PointsOK'
  BY <1>8 DEF Closing
<1>9. ASSUME DrainTurn PROVE PointsOK'
  BY <1>9 DEF DrainTurn
<1>10. ASSUME DrainEnds PROVE PointsOK'
  BY <1>10 DEF DrainEnds
<1>11. ASSUME Term PROVE PointsOK'
  BY <1>11 DEF Term, TermSending
<1>12. ASSUME Wait PROVE PointsOK'
  BY <1>12 DEF Wait, WaitThen
<1>13. ASSUME Stopped PROVE PointsOK'
  BY <1>13 DEF Stopped, vars
<1>14. ASSUME Terminate PROVE PointsOK'
  BY <1>14 DEF Terminate
<1>15. ASSUME Connect PROVE PointsOK'
  BY <1>15 DEF Connect
<1>16. ASSUME StopSignal PROVE PointsOK'
  BY <1>16 DEF StopSignal, Interrupt
<1>17. ASSUME ChildSignal PROVE PointsOK'
  BY <1>17 DEF ChildSignal, Interrupt
<1>18. ASSUME NEW p \in Pids, Die(p) PROVE PointsOK'
  BY <1>18 DEF Die, Ends
<1>19. ASSUME NEW p \in Pids, ChildTerm(p) PROVE PointsOK'
  BY <1>19 DEF ChildTerm, Ends
<1>20. ASSUME NEW p \in Pids, Boot(p) PROVE PointsOK'
  BY <1>20 DEF Boot
<1>21. ASSUME NEW p \in Pids, EnterRead(p) PROVE PointsOK'
  BY <1>21 DEF EnterRead
<1>22. ASSUME NEW p \in Pids, EnterCas(p) PROVE PointsOK'
  BY <1>22 DEF EnterCas, EnterSwap
<1>23. ASSUME NEW p \in Pids, PeakRead(p) PROVE PointsOK'
  BY <1>23 DEF PeakRead
<1>24. ASSUME NEW p \in Pids, PeakCas(p) PROVE PointsOK'
  BY <1>24 DEF PeakCas, PeakSwap
<1>25. ASSUME NEW p \in Pids, Handle(p) PROVE PointsOK'
  BY <1>25 DEF Handle
<1>26. ASSUME NEW p \in Pids, Leave(p) PROVE PointsOK'
  BY <1>26 DEF Leave
<1>27. ASSUME NEW p \in Pids, SendBusy(p) PROVE PointsOK'
  BY <1>27 DEF SendBusy
<1>28. ASSUME NEW p \in Pids, Exit(p) PROVE PointsOK'
  BY <1>28 DEF Exit, Ends
<1>. QED
  BY <1>1, <1>2, <1>3, <1>4, <1>5, <1>6, <1>7, <1>8, <1>9, <1>10, <1>11,
    <1>12, <1>13, <1>14, <1>15, <1>16, <1>17, <1>18, <1>19, <1>20, <1>21,
    <1>22, <1>23, <1>24, <1>25, <1>26, <1>27, <1>28 DEF Next, ParentStep,
    ChildStep, Environment

LEMMA WorldStep ==
  ASSUME PointsOK, WorldOK, Next
  PROVE  WorldOK'
<1> USE ForkAssumption DEF PointsOK, WorldOK, Procs, ChildPoints, ParentPoints, Counted, Goto,
    parentVars, signals, locals, counters
<1>1. ASSUME Loop PROVE WorldOK'
  <2>1. index' = 1 \/ index' = index
    BY <1>1 DEF Loop
  <2>2. index' \in Nat \ {0}
    BY <2>1
  <2>3. childChanged' \in BOOLEAN
    BY <1>1 DEF Loop
  <2>. QED
    BY <1>1, <2>2, <2>3 DEF Loop
<1>2. ASSUME Reap PROVE WorldOK'
  <2>1. CASE index <= Len(workers) /\ workers' = SwapOut(index)
    BY <1>2, <2>1, SwapOutProperties DEF Reap, ReapIf
  <2>2. CASE workers' = workers
    BY <1>2, <2>2 DEF Reap, ReapIf
  <2>. QED
    BY <1>2, <2>1, <2>2 DEF Reap, ReapIf
<1>3. ASSUME EnterAccept PROVE WorldOK'
  BY <1>3 DEF EnterAccept
<1>4. ASSUME Accept PROVE WorldOK'
  BY <1>4 DEF Accept
<1>5. ASSUME AcceptFails PROVE WorldOK'
  BY <1>5 DEF AcceptFails
<1>6. ASSUME Admit PROVE WorldOK'
  BY <1>6 DEF Admit, AdmitWithin, FreshPids, Count
<1>7. ASSUME Record PROVE WorldOK'
  BY <1>7 DEF Record, RecordAs, Count
<1>8. ASSUME Closing PROVE WorldOK'
  BY <1>8 DEF Closing
<1>9. ASSUME DrainTurn PROVE WorldOK'
  <2>1. index' = 1 /\ childChanged' = FALSE
    BY <1>9 DEF DrainTurn
  <2>2. index' \in Nat \ {0}
    BY <2>1
  <2>3. childChanged' \in BOOLEAN
    BY <2>1
  <2>. QED
    BY <1>9, <2>2, <2>3 DEF DrainTurn
<1>10. ASSUME DrainEnds PROVE WorldOK'
  BY <1>10 DEF DrainEnds
<1>11. ASSUME Term PROVE WorldOK'
  BY <1>11 DEF Term, TermSending
<1>12. ASSUME Wait PROVE WorldOK'
  BY <1>12 DEF Wait, WaitThen
<1>13. ASSUME Stopped PROVE WorldOK'
  BY <1>13 DEF Stopped, vars
<1>14. ASSUME Terminate PROVE WorldOK'
  BY <1>14 DEF Terminate
<1>15. ASSUME Connect PROVE WorldOK'
  BY <1>15 DEF Connect
<1>16. ASSUME StopSignal PROVE WorldOK'
  BY <1>16 DEF StopSignal, Interrupt
<1>17. ASSUME ChildSignal PROVE WorldOK'
  BY <1>17 DEF ChildSignal, Interrupt
<1>18. ASSUME NEW p \in Pids, Die(p) PROVE WorldOK'
  BY <1>18 DEF Die, Ends
<1>19. ASSUME NEW p \in Pids, ChildTerm(p) PROVE WorldOK'
  BY <1>19 DEF ChildTerm, Ends
<1>20. ASSUME NEW p \in Pids, Boot(p) PROVE WorldOK'
  BY <1>20 DEF Boot
<1>21. ASSUME NEW p \in Pids, EnterRead(p) PROVE WorldOK'
  BY <1>21 DEF EnterRead
<1>22. ASSUME NEW p \in Pids, EnterCas(p) PROVE WorldOK'
  BY <1>22 DEF EnterCas, EnterSwap
<1>23. ASSUME NEW p \in Pids, PeakRead(p) PROVE WorldOK'
  BY <1>23 DEF PeakRead
<1>24. ASSUME NEW p \in Pids, PeakCas(p) PROVE WorldOK'
  BY <1>24 DEF PeakCas, PeakSwap
<1>25. ASSUME NEW p \in Pids, Handle(p) PROVE WorldOK'
  BY <1>25 DEF Handle
<1>26. ASSUME NEW p \in Pids, Leave(p) PROVE WorldOK'
  BY <1>26 DEF Leave
<1>27. ASSUME NEW p \in Pids, SendBusy(p) PROVE WorldOK'
  BY <1>27 DEF SendBusy
<1>28. ASSUME NEW p \in Pids, Exit(p) PROVE WorldOK'
  BY <1>28 DEF Exit, Ends
<1>. QED
  BY <1>1, <1>2, <1>3, <1>4, <1>5, <1>6, <1>7, <1>8, <1>9, <1>10, <1>11,
    <1>12, <1>13, <1>14, <1>15, <1>16, <1>17, <1>18, <1>19, <1>20, <1>21,
    <1>22, <1>23, <1>24, <1>25, <1>26, <1>27, <1>28 DEF Next, ParentStep,
    ChildStep, Environment

LEMMA CountedFinite ==
  IsFiniteSet(CountedChildren) /\ Cardinality(CountedChildren) \in Nat
<1>1. CountedChildren \in SUBSET Pids
  BY DEF CountedChildren
<1>. QED
  BY <1>1, ForkAssumption, FS_Subset, FS_CardinalityType

(* A step that takes nobody off and counts nobody.                         *)
LEMMA SameCounted ==
  ASSUME CountersOK, CountedChildren' = CountedChildren,
         active' = active, leaked' = leaked
  PROVE  ActiveExact'
BY DEF CountersOK, ActiveExact

(* A step in which one child ceases to be counted.                         *)
LEMMA OneFewerCounted ==
  ASSUME CountersOK, NEW p \in CountedChildren,
         CountedChildren' = CountedChildren \ {p}
  PROVE  /\ Cardinality(CountedChildren') = Cardinality(CountedChildren) - 1
         /\ Cardinality(CountedChildren) \in Nat \ {0}
         /\ leaked + 1 <= MaxConn
<1>1. Cardinality(CountedChildren') = Cardinality(CountedChildren) - 1
  BY CountedFinite, FS_RemoveElement
<1>2. Cardinality(CountedChildren) # 0
  BY CountedFinite, FS_EmptySet
<1>. QED
  BY <1>1, <1>2, CountedFinite, ForkAssumption DEF CountersOK, ActiveExact

(* A child that ends, counted or not.                                      *)
LEMMA EndsCounters ==
  ASSUME PointsOK, CountersOK, NEW p \in Pids, Ends(p)
  PROVE  CountersOK'
<1> USE ForkAssumption DEF PointsOK, Procs, Goto
<1>1. CASE pc[p] \in Counted
  <2>1. p \in CountedChildren /\ CountedChildren' = CountedChildren \ {p}
    BY <1>1 DEF CountedChildren, Counted, Ends
  <2>2. ActiveExact'
    BY <1>1, <2>1, OneFewerCounted DEF Ends, CountersOK, ActiveExact
  <2>. QED
    BY <1>1, <2>2 DEF Ends, CountersOK
<1>2. CASE pc[p] \notin Counted
  <2>1. CountedChildren' = CountedChildren
    BY <1>2 DEF CountedChildren, Counted, Ends
  <2>2. ActiveExact'
    BY <1>2, <2>1, SameCounted DEF Ends
  <2>. QED
    BY <1>2, <2>2 DEF Ends, CountersOK
<1>. QED
  BY <1>1, <1>2

LEMMA CountersStep ==
  ASSUME PointsOK, CountersOK, Next
  PROVE  CountersOK'
<1> USE ForkAssumption DEF PointsOK, Procs, ChildPoints, ParentPoints, Counted, Goto,
    parentVars, signals, locals, counters
<1>1. ASSUME Loop PROVE CountersOK'
  <2>1. CountedChildren' = CountedChildren
    BY <1>1 DEF CountedChildren, Loop
  <2>2. ActiveExact'
    BY <1>1, <2>1, SameCounted DEF Loop
  <2>. QED
    BY <1>1, <2>2 DEF CountersOK, Loop
<1>2. ASSUME Reap PROVE CountersOK'
  <2>1. CountedChildren' = CountedChildren
    BY <1>2 DEF CountedChildren, Reap, ReapIf, AfterReap
  <2>2. ActiveExact'
    BY <1>2, <2>1, SameCounted DEF Reap, ReapIf, AfterReap
  <2>. QED
    BY <1>2, <2>2 DEF CountersOK, Reap, ReapIf, AfterReap
<1>3. ASSUME EnterAccept PROVE CountersOK'
  <2>1. CountedChildren' = CountedChildren
    BY <1>3 DEF CountedChildren, EnterAccept
  <2>2. ActiveExact'
    BY <1>3, <2>1, SameCounted DEF EnterAccept
  <2>. QED
    BY <1>3, <2>2 DEF CountersOK, EnterAccept
<1>4. ASSUME Accept PROVE CountersOK'
  <2>1. CountedChildren' = CountedChildren
    BY <1>4 DEF CountedChildren, Accept
  <2>2. ActiveExact'
    BY <1>4, <2>1, SameCounted DEF Accept
  <2>. QED
    BY <1>4, <2>2 DEF CountersOK, Accept
<1>5. ASSUME AcceptFails PROVE CountersOK'
  <2>1. CountedChildren' = CountedChildren
    BY <1>5 DEF CountedChildren, AcceptFails
  <2>2. ActiveExact'
    BY <1>5, <2>1, SameCounted DEF AcceptFails
  <2>. QED
    BY <1>5, <2>2 DEF CountersOK, AcceptFails
<1>6. ASSUME Admit PROVE CountersOK'
  <2>1. CountedChildren' = CountedChildren
    BY <1>6 DEF CountedChildren, Admit, AdmitWithin, FreshPids, Count
  <2>2. ActiveExact'
    BY <1>6, <2>1, SameCounted DEF Admit, AdmitWithin, FreshPids, Count
  <2>. QED
    BY <1>6, <2>2 DEF CountersOK, Admit, AdmitWithin, FreshPids, Count
<1>7. ASSUME Record PROVE CountersOK'
  <2>1. CountedChildren' = CountedChildren
    BY <1>7 DEF CountedChildren, Record, RecordAs, Count
  <2>2. ActiveExact'
    BY <1>7, <2>1, SameCounted DEF Record, RecordAs, Count
  <2>. QED
    BY <1>7, <2>2 DEF CountersOK, Record, RecordAs, Count
<1>8. ASSUME Closing PROVE CountersOK'
  <2>1. CountedChildren' = CountedChildren
    BY <1>8 DEF CountedChildren, Closing
  <2>2. ActiveExact'
    BY <1>8, <2>1, SameCounted DEF Closing
  <2>. QED
    BY <1>8, <2>2 DEF CountersOK, Closing
<1>9. ASSUME DrainTurn PROVE CountersOK'
  <2>1. CountedChildren' = CountedChildren
    BY <1>9 DEF CountedChildren, DrainTurn
  <2>2. ActiveExact'
    BY <1>9, <2>1, SameCounted DEF DrainTurn
  <2>. QED
    BY <1>9, <2>2 DEF CountersOK, DrainTurn
<1>10. ASSUME DrainEnds PROVE CountersOK'
  <2>1. CountedChildren' = CountedChildren
    BY <1>10 DEF CountedChildren, DrainEnds
  <2>2. ActiveExact'
    BY <1>10, <2>1, SameCounted DEF DrainEnds
  <2>. QED
    BY <1>10, <2>2 DEF CountersOK, DrainEnds
<1>11. ASSUME Term PROVE CountersOK'
  <2>1. CountedChildren' = CountedChildren
    BY <1>11 DEF CountedChildren, Term, TermSending
  <2>2. ActiveExact'
    BY <1>11, <2>1, SameCounted DEF Term, TermSending
  <2>. QED
    BY <1>11, <2>2 DEF CountersOK, Term, TermSending
<1>12. ASSUME Wait PROVE CountersOK'
  <2>1. CountedChildren' = CountedChildren
    BY <1>12 DEF CountedChildren, Wait, WaitThen
  <2>2. ActiveExact'
    BY <1>12, <2>1, SameCounted DEF Wait, WaitThen
  <2>. QED
    BY <1>12, <2>2 DEF CountersOK, Wait, WaitThen
<1>13. ASSUME Stopped PROVE CountersOK'
  <2>1. CountedChildren' = CountedChildren
    BY <1>13 DEF CountedChildren, Stopped, vars
  <2>2. ActiveExact'
    BY <1>13, <2>1, SameCounted DEF Stopped, vars
  <2>. QED
    BY <1>13, <2>2 DEF CountersOK, Stopped, vars
<1>14. ASSUME Terminate PROVE CountersOK'
  <2>1. CountedChildren' = CountedChildren
    BY <1>14 DEF CountedChildren, Terminate
  <2>2. ActiveExact'
    BY <1>14, <2>1, SameCounted DEF Terminate
  <2>. QED
    BY <1>14, <2>2 DEF CountersOK, Terminate
<1>15. ASSUME Connect PROVE CountersOK'
  <2>1. CountedChildren' = CountedChildren
    BY <1>15 DEF CountedChildren, Connect
  <2>2. ActiveExact'
    BY <1>15, <2>1, SameCounted DEF Connect
  <2>. QED
    BY <1>15, <2>2 DEF CountersOK, Connect
<1>16. ASSUME StopSignal PROVE CountersOK'
  <2>1. CountedChildren' = CountedChildren
    BY <1>16 DEF CountedChildren, StopSignal, Interrupt
  <2>2. ActiveExact'
    BY <1>16, <2>1, SameCounted DEF StopSignal, Interrupt
  <2>. QED
    BY <1>16, <2>2 DEF CountersOK, StopSignal, Interrupt
<1>17. ASSUME ChildSignal PROVE CountersOK'
  <2>1. CountedChildren' = CountedChildren
    BY <1>17 DEF CountedChildren, ChildSignal, Interrupt
  <2>2. ActiveExact'
    BY <1>17, <2>1, SameCounted DEF ChildSignal, Interrupt
  <2>. QED
    BY <1>17, <2>2 DEF CountersOK, ChildSignal, Interrupt
<1>18. ASSUME NEW p \in Pids, Die(p) PROVE CountersOK'
  BY <1>18, EndsCounters DEF Die
<1>19. ASSUME NEW p \in Pids, ChildTerm(p) PROVE CountersOK'
  <2>1. CASE Ends(p)
    BY <2>1, EndsCounters
  <2>2. CASE UNCHANGED <<pc, locals, counters>>
    <3>1. CountedChildren' = CountedChildren
      BY <2>2 DEF CountedChildren
    <3>2. ActiveExact'
      BY <2>2, <3>1, SameCounted
    <3>. QED
      BY <2>2, <3>2 DEF CountersOK
  <2>. QED
    BY <1>19, <2>1, <2>2 DEF ChildTerm
<1>20. ASSUME NEW p \in Pids, Boot(p) PROVE CountersOK'
  <2>1. CountedChildren' = CountedChildren
    BY <1>20 DEF CountedChildren, Boot
  <2>2. ActiveExact'
    BY <1>20, <2>1, SameCounted DEF Boot
  <2>. QED
    BY <1>20, <2>2 DEF CountersOK, Boot
<1>21. ASSUME NEW p \in Pids, EnterRead(p) PROVE CountersOK'
  <2>1. CountedChildren' = CountedChildren
    BY <1>21 DEF CountedChildren, EnterRead
  <2>2. ActiveExact'
    BY <1>21, <2>1, SameCounted DEF EnterRead
  <2>. QED
    BY <1>21, <2>2 DEF CountersOK, EnterRead
<1>22. ASSUME NEW p \in Pids, EnterCas(p) PROVE CountersOK'
  <2>1. CASE pc'[p] = "peakRead"
    <3>1. seen[p] = active /\ active < MaxConn /\ active' = active + 1 /\ leaked' = leaked
      BY <1>22, <2>1 DEF CountersOK, EnterCas, EnterSwap
    <3>2. CountedChildren' = CountedChildren \cup {p} /\ p \notin CountedChildren
      BY <1>22, <2>1 DEF CountedChildren, EnterCas, EnterSwap
    <3>3. Cardinality(CountedChildren') = Cardinality(CountedChildren) + 1
      BY <3>2, CountedFinite, FS_AddElement
    <3>4. ActiveExact'
      BY <3>1, <3>3, CountedFinite DEF CountersOK, ActiveExact
    <3>. QED
      BY <1>22, <3>1, <3>4 DEF CountersOK, EnterCas, EnterSwap
  <2>2. CASE pc'[p] # "peakRead"
    <3>1. CountedChildren' = CountedChildren /\ active' = active /\ leaked' = leaked
      BY <1>22, <2>2 DEF CountedChildren, EnterCas, EnterSwap
    <3>2. ActiveExact'
      BY <3>1, SameCounted
    <3>. QED
      BY <1>22, <2>2, <3>2 DEF CountersOK, EnterCas, EnterSwap
  <2>. QED
    BY <2>1, <2>2
<1>23. ASSUME NEW p \in Pids, PeakRead(p) PROVE CountersOK'
  <2>1. CountedChildren' = CountedChildren
    BY <1>23 DEF CountedChildren, PeakRead
  <2>2. ActiveExact'
    BY <1>23, <2>1, SameCounted DEF PeakRead
  <2>. QED
    BY <1>23, <2>2 DEF CountersOK, PeakRead
<1>24. ASSUME NEW p \in Pids, PeakCas(p) PROVE CountersOK'
  <2>1. CountedChildren' = CountedChildren
    BY <1>24 DEF CountedChildren, PeakCas, PeakSwap
  <2>2. ActiveExact'
    BY <1>24, <2>1, SameCounted DEF PeakCas, PeakSwap
  <2>. QED
    BY <1>24, <2>2 DEF CountersOK, PeakCas, PeakSwap
<1>25. ASSUME NEW p \in Pids, Handle(p) PROVE CountersOK'
  <2>1. CountedChildren' = CountedChildren
    BY <1>25 DEF CountedChildren, Handle
  <2>2. ActiveExact'
    BY <1>25, <2>1, SameCounted DEF Handle
  <2>. QED
    BY <1>25, <2>2 DEF CountersOK, Handle
<1>26. ASSUME NEW p \in Pids, Leave(p) PROVE CountersOK'
  <2>1. CountedChildren' = CountedChildren \ {p} /\ p \in CountedChildren
    BY <1>26 DEF CountedChildren, Leave
  <2>2. active' \in 0 .. MaxConn /\ ActiveExact'
    BY <1>26, <2>1, OneFewerCounted DEF CountersOK, ActiveExact, Leave
  <2>. QED
    BY <1>26, <2>2 DEF CountersOK, Leave
<1>27. ASSUME NEW p \in Pids, SendBusy(p) PROVE CountersOK'
  <2>1. CountedChildren' = CountedChildren
    BY <1>27 DEF CountedChildren, SendBusy
  <2>2. ActiveExact'
    BY <1>27, <2>1, SameCounted DEF SendBusy
  <2>. QED
    BY <1>27, <2>2 DEF CountersOK, SendBusy
<1>28. ASSUME NEW p \in Pids, Exit(p) PROVE CountersOK'
  BY <1>28, EndsCounters DEF Exit
<1>. QED
  BY <1>1, <1>2, <1>3, <1>4, <1>5, <1>6, <1>7, <1>8, <1>9, <1>10, <1>11,
    <1>12, <1>13, <1>14, <1>15, <1>16, <1>17, <1>18, <1>19, <1>20, <1>21,
    <1>22, <1>23, <1>24, <1>25, <1>26, <1>27, <1>28 DEF Next, ParentStep,
    ChildStep, Environment

LEMMA TrackStep ==
  ASSUME PointsOK, WorldOK, TrackOK, Next
  PROVE  TrackOK'
<1> USE ForkAssumption DEF PointsOK, Procs, ChildPoints, ParentPoints, Counted, Goto,
    parentVars, signals, locals, counters
<1>1. ASSUME Loop PROVE TrackOK'
  BY <1>1 DEF TrackOK, NoChildOutlives, Alive, Loop
<1>2. ASSUME Reap PROVE TrackOK'
  <2>1. CASE UNCHANGED workers
    BY <1>2, <2>1 DEF TrackOK, NoChildOutlives, Alive, Reap, ReapIf, AfterReap
  <2>2. CASE index <= Len(workers) /\ ~Alive(workers[index]) /\ workers' = SwapOut(index)
    <3>1. index \in 1 .. Len(workers) /\ Len(workers) \in Nat /\ UNCHANGED <<pc, worker>>
      BY <1>2, <2>2, LenProperties DEF WorldOK, Reap, ReapIf
    <3>2. /\ Len(workers') = Len(workers) - 1
          /\ \A k \in 1 .. Len(workers) - 1 :
               workers'[k] = IF k = index THEN workers[Len(workers)] ELSE workers[k]
      BY <2>2, <3>1, SwapOutProperties DEF WorldOK
    <3>3. \A i, k \in 1 .. Len(workers') : workers'[i] = workers'[k] => i = k
      <4> SUFFICES ASSUME NEW i \in 1 .. Len(workers'), NEW k \in 1 .. Len(workers'),
                          workers'[i] = workers'[k], i # k
                   PROVE  FALSE
        OBVIOUS
      <4>1. /\ i \in 1 .. Len(workers) - 1 /\ k \in 1 .. Len(workers) - 1
            /\ Len(workers) \in 1 .. Len(workers)
        BY <3>1, <3>2
      <4>2. CASE i = index
        BY <3>2, <4>1, <4>2 DEF TrackOK
      <4>3. CASE k = index
        BY <3>2, <4>1, <4>3 DEF TrackOK
      <4>4. CASE i # index /\ k # index
        BY <3>2, <4>1, <4>4 DEF TrackOK
      <4>. QED
        BY <4>2, <4>3, <4>4
    <3>4. pc'[Parent] = "record" => \A i \in 1 .. Len(workers') : workers'[i] # worker'
      BY <3>1, <3>2 DEF TrackOK
    <3>5. ASSUME NEW p \in Pids, Alive(p), NEW i \in 1 .. Len(workers), workers[i] = p
          PROVE  \E k \in 1 .. Len(workers') : workers'[k] = p
      <4>1. i # index
        BY <2>2, <3>5
      <4>2. CASE i = Len(workers)
        BY <3>1, <3>2, <3>5, <4>1, <4>2
      <4>3. CASE i # Len(workers)
        BY <3>1, <3>2, <3>5, <4>1, <4>3
      <4>. QED
        BY <4>2, <4>3
    <3>. QED
      BY <3>1, <3>3, <3>4, <3>5 DEF TrackOK, Alive, NoChildOutlives
  <2>. QED
    BY <1>2, <2>1, <2>2 DEF Reap, ReapIf
<1>3. ASSUME EnterAccept PROVE TrackOK'
  BY <1>3 DEF TrackOK, NoChildOutlives, Alive, EnterAccept
<1>4. ASSUME Accept PROVE TrackOK'
  BY <1>4 DEF TrackOK, NoChildOutlives, Alive, Accept
<1>5. ASSUME AcceptFails PROVE TrackOK'
  BY <1>5 DEF TrackOK, NoChildOutlives, Alive, AcceptFails
<1>6. ASSUME Admit PROVE TrackOK'
  BY <1>6 DEF TrackOK, NoChildOutlives, Alive, Admit, AdmitWithin, FreshPids,
    Count
<1>7. ASSUME Record PROVE TrackOK'
  <2>1. /\ workers' = Append(workers, worker) /\ worker \in Pids
        /\ pc[Parent] = "record" /\ pc' = [pc EXCEPT ![Parent] = "loop"]
    BY <1>7 DEF Record, RecordAs
  <2>2. /\ Len(workers) \in Nat /\ Len(workers') = Len(workers) + 1
        /\ \A k \in 1 .. Len(workers) : workers'[k] = workers[k]
        /\ workers'[Len(workers) + 1] = worker
    BY <2>1 DEF WorldOK
  <2>3. \A p \in Pids : pc'[p] = pc[p]
    BY <2>1
  <2>4. \A i, k \in 1 .. Len(workers') : workers'[i] = workers'[k] => i = k
    BY <2>1, <2>2 DEF TrackOK
  <2>5. \A p \in Pids : Alive(p)' => \E i \in 1 .. Len(workers') : workers'[i] = p
    BY <2>1, <2>2, <2>3 DEF TrackOK, Alive
  <2>. QED
    BY <2>1, <2>4, <2>5 DEF TrackOK, NoChildOutlives
<1>8. ASSUME Closing PROVE TrackOK'
  BY <1>8 DEF TrackOK, NoChildOutlives, Alive, Closing
<1>9. ASSUME DrainTurn PROVE TrackOK'
  BY <1>9 DEF TrackOK, NoChildOutlives, Alive, DrainTurn
<1>10. ASSUME DrainEnds PROVE TrackOK'
  BY <1>10 DEF TrackOK, NoChildOutlives, Alive, DrainEnds
<1>11. ASSUME Term PROVE TrackOK'
  BY <1>11 DEF TrackOK, NoChildOutlives, Alive, Term, TermSending
<1>12. ASSUME Wait PROVE TrackOK'
  <2>1. workers' = <<>> /\ pc[Parent] = "wait" /\ pc' = [pc EXCEPT ![Parent] = "stopped"]
    BY <1>12 DEF Wait, WaitThen
  <2>2. CASE workers = <<>>
    BY <2>1, <2>2 DEF TrackOK, NoChildOutlives, Alive
  <2>3. CASE NoChild
    BY <2>1, <2>3 DEF TrackOK, NoChildOutlives, Alive, NoChild
  <2>. QED
    BY <1>12, <2>2, <2>3 DEF Wait, WaitThen
<1>13. ASSUME Stopped PROVE TrackOK'
  BY <1>13 DEF TrackOK, NoChildOutlives, Alive, Stopped, vars
<1>14. ASSUME Terminate PROVE TrackOK'
  BY <1>14 DEF TrackOK, NoChildOutlives, Alive, Terminate
<1>15. ASSUME Connect PROVE TrackOK'
  BY <1>15 DEF TrackOK, NoChildOutlives, Alive, Connect
<1>16. ASSUME StopSignal PROVE TrackOK'
  BY <1>16 DEF TrackOK, NoChildOutlives, Alive, StopSignal, Interrupt
<1>17. ASSUME ChildSignal PROVE TrackOK'
  BY <1>17 DEF TrackOK, NoChildOutlives, Alive, ChildSignal, Interrupt
<1>18. ASSUME NEW p \in Pids, Die(p) PROVE TrackOK'
  BY <1>18 DEF TrackOK, NoChildOutlives, Alive, Die, Ends
<1>19. ASSUME NEW p \in Pids, ChildTerm(p) PROVE TrackOK'
  BY <1>19 DEF TrackOK, NoChildOutlives, Alive, ChildTerm, Ends
<1>20. ASSUME NEW p \in Pids, Boot(p) PROVE TrackOK'
  BY <1>20 DEF TrackOK, NoChildOutlives, Alive, Boot
<1>21. ASSUME NEW p \in Pids, EnterRead(p) PROVE TrackOK'
  BY <1>21 DEF TrackOK, NoChildOutlives, Alive, EnterRead
<1>22. ASSUME NEW p \in Pids, EnterCas(p) PROVE TrackOK'
  BY <1>22 DEF TrackOK, NoChildOutlives, Alive, EnterCas, EnterSwap
<1>23. ASSUME NEW p \in Pids, PeakRead(p) PROVE TrackOK'
  BY <1>23 DEF TrackOK, NoChildOutlives, Alive, PeakRead
<1>24. ASSUME NEW p \in Pids, PeakCas(p) PROVE TrackOK'
  BY <1>24 DEF TrackOK, NoChildOutlives, Alive, PeakCas, PeakSwap
<1>25. ASSUME NEW p \in Pids, Handle(p) PROVE TrackOK'
  BY <1>25 DEF TrackOK, NoChildOutlives, Alive, Handle
<1>26. ASSUME NEW p \in Pids, Leave(p) PROVE TrackOK'
  BY <1>26 DEF TrackOK, NoChildOutlives, Alive, Leave
<1>27. ASSUME NEW p \in Pids, SendBusy(p) PROVE TrackOK'
  BY <1>27 DEF TrackOK, NoChildOutlives, Alive, SendBusy
<1>28. ASSUME NEW p \in Pids, Exit(p) PROVE TrackOK'
  BY <1>28 DEF TrackOK, NoChildOutlives, Alive, Exit, Ends
<1>. QED
  BY <1>1, <1>2, <1>3, <1>4, <1>5, <1>6, <1>7, <1>8, <1>9, <1>10, <1>11,
    <1>12, <1>13, <1>14, <1>15, <1>16, <1>17, <1>18, <1>19, <1>20, <1>21,
    <1>22, <1>23, <1>24, <1>25, <1>26, <1>27, <1>28 DEF Next, ParentStep,
    ChildStep, Environment

(* A child whose place the parent must still find is one it has been told  *)
(* of, one it has yet to record included.                                  *)
FlagOK ==
  /\ pc[Parent] = "record" /\ ~Alive(worker) => childChanged \/ sigchld
  /\ \A i \in 1 .. Len(workers) :
       ~Alive(workers[i]) =>
         \/ childChanged \/ sigchld
         \/ pc[Parent] \in {"reap", "drainReap"} /\ i >= index

(* A child that has yet to report has read no more than there is to read:  *)
(* the count it reports is one the counter has had, the maximum it         *)
(* compares it with one that was reported.                                 *)
PeakOK ==
  /\ \A p \in Pids : pc[p] \in {"peakRead", "peakCas"} => seen[p] <= highest
  /\ \A p \in Pids : pc[p] = "peakCas" => seenPeak[p] <= peak
  /\ PeakExact

(* The parent's list stays within http_max_conn, and before any child has  *)
(* died in a request no child has read a full counter.                     *)
ServedOK ==
  /\ Len(workers) <= MaxConn
  /\ pc[Parent] = "record" => Len(workers) < MaxConn
  /\ leaked = 0 => \A p \in Pids : /\ pc[p] # "busy"
                                   /\ pc[p] = "enterCas" => seen[p] < MaxConn

(* A step that ends no child, tells the parent of none, and does not take  *)
(* the parent's reaping past anyone.                                       *)
LEMMA FlagFrame ==
  ASSUME PointsOK, WorldOK, FlagOK, UNCHANGED <<workers, childChanged, sigchld>>,
         \A q \in Pids : Alive(q) => Alive(q)',
         pc'[Parent] = "record" => pc[Parent] = "record" /\ worker' = worker,
         pc[Parent] \in {"reap", "drainReap"} =>
           \/ pc'[Parent] \in {"reap", "drainReap"} /\ index' = index
           \/ index > Len(workers)
  PROVE  FlagOK'
<1>1. Len(workers) \in Nat /\ index \in Nat /\ \A i \in 1 .. Len(workers) : workers[i] \in Pids
  BY DEF WorldOK
<1>2. pc'[Parent] = "record" /\ ~Alive(worker)' => childChanged' \/ sigchld'
  BY DEF PointsOK, FlagOK
<1>3. ASSUME NEW i \in 1 .. Len(workers'), ~Alive(workers[i])', ~childChanged', ~sigchld'
      PROVE  pc'[Parent] \in {"reap", "drainReap"} /\ i >= index'
  <2>1. i \in 1 .. Len(workers) /\ ~Alive(workers[i])
    BY <1>1, <1>3 DEF Alive
  <2>2. pc[Parent] \in {"reap", "drainReap"} /\ i >= index
    BY <1>3, <2>1 DEF FlagOK
  <2>. QED
    BY <1>1, <2>1, <2>2
<1>. QED
  BY <1>2, <1>3 DEF FlagOK, Alive

LEMMA FlagStep ==
  ASSUME PointsOK, WorldOK, FlagOK, Next
  PROVE  FlagOK'
<1> USE ForkAssumption DEF PointsOK, Procs, ChildPoints, ParentPoints, Counted, Goto,
    parentVars, signals, locals, counters
<1>1. ASSUME Loop PROVE FlagOK'
  <2>1. CASE UNCHANGED childChanged
    BY <1>1, <2>1, FlagFrame DEF Alive, Loop
  <2>2. CASE childChanged' = FALSE /\ index' = 1 /\ pc' = [pc EXCEPT ![Parent] = "reap"]
    <3>1. \A i \in 1 .. Len(workers') : i >= index'
      BY <2>2
    <3>2. pc'[Parent] = "reap"
      BY <2>2
    <3>. QED
      BY <3>1, <3>2 DEF FlagOK
  <2>. QED
    BY <1>1, <2>1, <2>2 DEF Loop
<1>2. ASSUME Reap PROVE FlagOK'
  <2>0. Len(workers) \in Nat /\ index \in Nat
    BY DEF WorldOK
  <2>1. CASE index > Len(workers)
    BY <1>2, <2>0, <2>1, FlagFrame DEF Alive, Reap, ReapIf, AfterReap
  <2>2. CASE index <= Len(workers) /\ Alive(workers[index])
    <3>1. /\ UNCHANGED <<pc, workers, worker, childChanged, sigchld>> /\ index' = index + 1
          /\ pc[Parent] \in {"reap", "drainReap"}
      BY <1>2, <2>0, <2>2 DEF Reap, ReapIf
    <3>2. Len(workers) \in Nat /\ index \in Nat
      BY DEF WorldOK
    <3>3. \A i \in 1 .. Len(workers) : ~Alive(workers[i]) /\ i >= index => i >= index'
      BY <2>2, <3>1, <3>2
    <3>. QED
      BY <3>1, <3>3 DEF FlagOK, Alive
  <2>3. CASE index <= Len(workers) /\ ~Alive(workers[index])
    <3>0. workers' = SwapOut(index)
      BY <1>2, <2>0, <2>3 DEF Reap, ReapIf
    <3>1. /\ index \in 1 .. Len(workers) /\ Len(workers) \in Nat
          /\ UNCHANGED <<pc, worker, index, childChanged, sigchld>>
          /\ pc[Parent] \in {"reap", "drainReap"}
      BY <1>2, <2>3, LenProperties DEF WorldOK, Reap, ReapIf
    <3>2. /\ Len(workers') = Len(workers) - 1
          /\ \A k \in 1 .. Len(workers) - 1 :
               workers'[k] = IF k = index THEN workers[Len(workers)] ELSE workers[k]
      BY <3>0, <3>1, SwapOutProperties DEF WorldOK
    <3>3. ASSUME NEW i \in 1 .. Len(workers'), ~(i >= index)
          PROVE  i \in 1 .. Len(workers) /\ workers'[i] = workers[i]
      BY <3>1, <3>2, <3>3
    <3>. QED
      BY <3>1, <3>3 DEF FlagOK, Alive
  <2>. QED
    BY <2>0, <2>1, <2>2, <2>3
<1>3. ASSUME EnterAccept PROVE FlagOK'
  BY <1>3 DEF FlagOK, Alive, EnterAccept
<1>4. ASSUME Accept PROVE FlagOK'
  BY <1>4 DEF FlagOK, Alive, Accept
<1>5. ASSUME AcceptFails PROVE FlagOK'
  BY <1>5, FlagFrame DEF Alive, AcceptFails
<1>6. ASSUME Admit PROVE FlagOK'
  <2>1. CASE pc' = [pc EXCEPT ![Parent] = "loop"]
    <3>1. \A q \in Pids : pc'[q] = pc[q]
      BY <1>6, <2>1 DEF Admit, AdmitWithin, FreshPids, Count
    <3>. QED
      BY <1>6, <2>1, <3>1, FlagFrame DEF Alive, Admit, AdmitWithin, FreshPids, Count
  <2>2. CASE \E q \in FreshPids :
               pc' = [pc EXCEPT ![q] = "boot", ![Parent] = "record"] /\ worker' = q
    <3>1. /\ pc[Parent] = "accepted"
          /\ UNCHANGED <<workers, childChanged, sigchld>>
      BY <1>6 DEF Admit, AdmitWithin
    <3>2. PICK q \in FreshPids :
            pc' = [pc EXCEPT ![q] = "boot", ![Parent] = "record"] /\ worker' = q
      BY <2>2
    <3>3. q \in Pids /\ q # Parent /\ pc[q] = "free"
      BY <3>2 DEF FreshPids
    <3>4. Alive(worker)'
      BY <3>2, <3>3 DEF Alive
    <3>5. \A r \in Pids : Alive(r) => Alive(r)'
      BY <3>2, <3>3 DEF Alive
    <3>6. \A i \in 1 .. Len(workers) : workers[i] \in Pids
      BY DEF WorldOK
    <3>7. \A i \in 1 .. Len(workers) : ~Alive(workers[i]) => childChanged \/ sigchld
      BY <3>1 DEF FlagOK
    <3>8. \A i \in 1 .. Len(workers) : Alive(workers[i]) => Alive(workers[i])'
      BY <3>1, <3>5, <3>6 DEF Alive
    <3>. QED
      BY <3>1, <3>4, <3>7, <3>8 DEF FlagOK, Alive
  <2>. QED
    BY <1>6, <2>1, <2>2 DEF Admit, AdmitWithin
<1>7. ASSUME Record PROVE FlagOK'
  <2>1. /\ workers' = Append(workers, worker) /\ worker \in Pids
        /\ pc[Parent] = "record" /\ pc' = [pc EXCEPT ![Parent] = "loop"]
        /\ UNCHANGED <<childChanged, sigchld>>
    BY <1>7 DEF Record, RecordAs
  <2>2. /\ Len(workers) \in Nat /\ Len(workers') = Len(workers) + 1
        /\ \A k \in 1 .. Len(workers) : workers'[k] = workers[k] /\ workers[k] \in Pids
        /\ workers'[Len(workers) + 1] = worker
    BY <2>1 DEF WorldOK
  <2>3. \A p \in Pids : pc'[p] = pc[p]
    BY <2>1
  <2>. QED
    BY <2>1, <2>2, <2>3 DEF FlagOK, Alive
<1>8. ASSUME Closing PROVE FlagOK'
  BY <1>8 DEF FlagOK, Alive, Closing
<1>9. ASSUME DrainTurn PROVE FlagOK'
  BY <1>9 DEF FlagOK, Alive, DrainTurn
<1>10. ASSUME DrainEnds PROVE FlagOK'
  BY <1>10 DEF FlagOK, Alive, DrainEnds
<1>11. ASSUME Term PROVE FlagOK'
  BY <1>11, FlagFrame DEF Alive, Term, TermSending
<1>12. ASSUME Wait PROVE FlagOK'
  BY <1>12 DEF FlagOK, Alive, Wait, WaitThen
<1>13. ASSUME Stopped PROVE FlagOK'
  BY <1>13 DEF FlagOK, Alive, Stopped, vars
<1>14. ASSUME Terminate PROVE FlagOK'
  BY <1>14 DEF FlagOK, Alive, Terminate
<1>15. ASSUME Connect PROVE FlagOK'
  BY <1>15 DEF FlagOK, Alive, Connect
<1>16. ASSUME StopSignal PROVE FlagOK'
  BY <1>16 DEF FlagOK, Alive, StopSignal, Interrupt
<1>17. ASSUME ChildSignal PROVE FlagOK'
  BY <1>17 DEF FlagOK, Alive, ChildSignal, Interrupt
<1>18. ASSUME NEW p \in Pids, Die(p) PROVE FlagOK'
  BY <1>18 DEF FlagOK, Alive, Die, Ends
<1>19. ASSUME NEW p \in Pids, ChildTerm(p) PROVE FlagOK'
  BY <1>19 DEF FlagOK, Alive, ChildTerm, Ends
<1>20. ASSUME NEW p \in Pids, Boot(p) PROVE FlagOK'
  BY <1>20 DEF FlagOK, Alive, Boot
<1>21. ASSUME NEW p \in Pids, EnterRead(p) PROVE FlagOK'
  BY <1>21 DEF FlagOK, Alive, EnterRead
<1>22. ASSUME NEW p \in Pids, EnterCas(p) PROVE FlagOK'
  BY <1>22, FlagFrame DEF Alive, EnterCas, EnterSwap
<1>23. ASSUME NEW p \in Pids, PeakRead(p) PROVE FlagOK'
  BY <1>23 DEF FlagOK, Alive, PeakRead
<1>24. ASSUME NEW p \in Pids, PeakCas(p) PROVE FlagOK'
  BY <1>24, FlagFrame DEF Alive, PeakCas, PeakSwap
<1>25. ASSUME NEW p \in Pids, Handle(p) PROVE FlagOK'
  BY <1>25 DEF FlagOK, Alive, Handle
<1>26. ASSUME NEW p \in Pids, Leave(p) PROVE FlagOK'
  BY <1>26 DEF FlagOK, Alive, Leave
<1>27. ASSUME NEW p \in Pids, SendBusy(p) PROVE FlagOK'
  BY <1>27 DEF FlagOK, Alive, SendBusy
<1>28. ASSUME NEW p \in Pids, Exit(p) PROVE FlagOK'
  BY <1>28 DEF FlagOK, Alive, Exit, Ends
<1>. QED
  BY <1>1, <1>2, <1>3, <1>4, <1>5, <1>6, <1>7, <1>8, <1>9, <1>10, <1>11,
    <1>12, <1>13, <1>14, <1>15, <1>16, <1>17, <1>18, <1>19, <1>20, <1>21,
    <1>22, <1>23, <1>24, <1>25, <1>26, <1>27, <1>28 DEF Next, ParentStep,
    ChildStep, Environment

LEMMA PeakStep ==
  ASSUME PointsOK, CountersOK, PeakOK, Next
  PROVE  PeakOK'
<1> USE ForkAssumption DEF PointsOK, Procs, ChildPoints, ParentPoints, Counted, Goto,
    parentVars, signals, locals, counters
<1>1. ASSUME Loop PROVE PeakOK'
  BY <1>1 DEF CountersOK, PeakOK, PeakExact, Loop
<1>2. ASSUME Reap PROVE PeakOK'
  BY <1>2 DEF CountersOK, PeakOK, PeakExact, Reap, ReapIf, AfterReap
<1>3. ASSUME EnterAccept PROVE PeakOK'
  BY <1>3 DEF CountersOK, PeakOK, PeakExact, EnterAccept
<1>4. ASSUME Accept PROVE PeakOK'
  BY <1>4 DEF CountersOK, PeakOK, PeakExact, Accept
<1>5. ASSUME AcceptFails PROVE PeakOK'
  BY <1>5 DEF CountersOK, PeakOK, PeakExact, AcceptFails
<1>6. ASSUME Admit PROVE PeakOK'
  BY <1>6 DEF CountersOK, PeakOK, PeakExact, Admit, AdmitWithin, FreshPids, Count
<1>7. ASSUME Record PROVE PeakOK'
  BY <1>7 DEF CountersOK, PeakOK, PeakExact, Record, RecordAs, Count
<1>8. ASSUME Closing PROVE PeakOK'
  BY <1>8 DEF CountersOK, PeakOK, PeakExact, Closing
<1>9. ASSUME DrainTurn PROVE PeakOK'
  BY <1>9 DEF CountersOK, PeakOK, PeakExact, DrainTurn
<1>10. ASSUME DrainEnds PROVE PeakOK'
  BY <1>10 DEF CountersOK, PeakOK, PeakExact, DrainEnds
<1>11. ASSUME Term PROVE PeakOK'
  BY <1>11 DEF CountersOK, PeakOK, PeakExact, Term, TermSending
<1>12. ASSUME Wait PROVE PeakOK'
  BY <1>12 DEF CountersOK, PeakOK, PeakExact, Wait, WaitThen
<1>13. ASSUME Stopped PROVE PeakOK'
  BY <1>13 DEF CountersOK, PeakOK, PeakExact, Stopped, vars
<1>14. ASSUME Terminate PROVE PeakOK'
  BY <1>14 DEF CountersOK, PeakOK, PeakExact, Terminate
<1>15. ASSUME Connect PROVE PeakOK'
  BY <1>15 DEF CountersOK, PeakOK, PeakExact, Connect
<1>16. ASSUME StopSignal PROVE PeakOK'
  BY <1>16 DEF CountersOK, PeakOK, PeakExact, StopSignal, Interrupt
<1>17. ASSUME ChildSignal PROVE PeakOK'
  BY <1>17 DEF CountersOK, PeakOK, PeakExact, ChildSignal, Interrupt
<1>18. ASSUME NEW p \in Pids, Die(p) PROVE PeakOK'
  BY <1>18 DEF CountersOK, PeakOK, PeakExact, Die, Ends
<1>19. ASSUME NEW p \in Pids, ChildTerm(p) PROVE PeakOK'
  BY <1>19 DEF CountersOK, PeakOK, PeakExact, ChildTerm, Ends
<1>20. ASSUME NEW p \in Pids, Boot(p) PROVE PeakOK'
  BY <1>20 DEF CountersOK, PeakOK, PeakExact, Boot
<1>21. ASSUME NEW p \in Pids, EnterRead(p) PROVE PeakOK'
  BY <1>21 DEF CountersOK, PeakOK, PeakExact, EnterRead
<1>22. ASSUME NEW p \in Pids, EnterCas(p) PROVE PeakOK'
  BY <1>22 DEF CountersOK, PeakOK, PeakExact, EnterCas, EnterSwap
<1>23. ASSUME NEW p \in Pids, PeakRead(p) PROVE PeakOK'
  BY <1>23 DEF CountersOK, PeakOK, PeakExact, PeakRead
<1>24. ASSUME NEW p \in Pids, PeakCas(p) PROVE PeakOK'
  BY <1>24 DEF CountersOK, PeakOK, PeakExact, PeakCas, PeakSwap
<1>25. ASSUME NEW p \in Pids, Handle(p) PROVE PeakOK'
  BY <1>25 DEF CountersOK, PeakOK, PeakExact, Handle
<1>26. ASSUME NEW p \in Pids, Leave(p) PROVE PeakOK'
  BY <1>26 DEF CountersOK, PeakOK, PeakExact, Leave
<1>27. ASSUME NEW p \in Pids, SendBusy(p) PROVE PeakOK'
  BY <1>27 DEF CountersOK, PeakOK, PeakExact, SendBusy
<1>28. ASSUME NEW p \in Pids, Exit(p) PROVE PeakOK'
  BY <1>28 DEF CountersOK, PeakOK, PeakExact, Exit, Ends
<1>. QED
  BY <1>1, <1>2, <1>3, <1>4, <1>5, <1>6, <1>7, <1>8, <1>9, <1>10, <1>11,
    <1>12, <1>13, <1>14, <1>15, <1>16, <1>17, <1>18, <1>19, <1>20, <1>21,
    <1>22, <1>23, <1>24, <1>25, <1>26, <1>27, <1>28 DEF Next, ParentStep,
    ChildStep, Environment

LEMMA AddOne ==
  ASSUME NEW S, IsFiniteSet(S), NEW x
  PROVE  IsFiniteSet(S \cup {x}) /\ Cardinality(S \cup {x}) <= Cardinality(S) + 1
<1>1. Cardinality(S) \in Nat
  BY FS_CardinalityType
<1>2. /\ IsFiniteSet(S \cup {x})
      /\ Cardinality(S \cup {x}) = IF x \in S THEN Cardinality(S) ELSE Cardinality(S) + 1
  BY FS_AddElement
<1>. QED
  BY <1>1, <1>2

(* The parent's list bounds the children that run.                         *)
LEMMA FewChildren ==
  ASSUME PointsOK, WorldOK, TrackOK, ServedOK
  PROVE  /\ IsFiniteSet({p \in Pids : Alive(p)})
         /\ Cardinality({p \in Pids : Alive(p)}) <= MaxConn
<1> USE ForkAssumption
<1> DEFINE living == {p \in Pids : Alive(p)}
           slots == 1 .. Len(workers)
           listed == {workers[i] : i \in slots}
<1>1. Len(workers) \in Nat
  BY LenProperties DEF WorldOK
<1>2. IsFiniteSet(slots) /\ Cardinality(slots) = Len(workers)
  <2>1. /\ IsFiniteSet(slots)
        /\ Cardinality(slots) = IF 1 > Len(workers) THEN 0 ELSE Len(workers) - 1 + 1
    BY <1>1, FS_Interval
  <2>2. (IF 1 > Len(workers) THEN 0 ELSE Len(workers) - 1 + 1) = Len(workers)
    BY <1>1
  <2>. QED
    BY <2>1, <2>2
<1>3. [i \in slots |-> workers[i]] \in Surjection(slots, listed)
  BY DEF Surjection
<1>4. IsFiniteSet(listed) /\ Cardinality(listed) <= Len(workers)
  <2> HIDE DEF slots, listed
  <2>. QED
    BY <1>2, <1>3, FS_Surjection
<1>5. Cardinality(listed) \in Nat
  BY <1>4, FS_CardinalityType
<1>6. CASE pc[Parent] = "record"
  <2>1. living \in SUBSET (listed \cup {worker})
    BY DEF TrackOK
  <2>2. /\ IsFiniteSet(listed \cup {worker})
        /\ Cardinality(listed \cup {worker}) <= Cardinality(listed) + 1
    <3> HIDE DEF listed
    <3>. QED
      BY <1>4, AddOne
  <2>3. /\ IsFiniteSet(living) /\ Cardinality(living) <= Cardinality(listed \cup {worker})
        /\ Cardinality(living) \in Nat /\ Cardinality(listed \cup {worker}) \in Nat
    BY <2>1, <2>2, FS_Subset, FS_CardinalityType
  <2>. QED
    BY <1>1, <1>4, <1>5, <1>6, <2>2, <2>3 DEF ServedOK
<1>7. CASE pc[Parent] # "record"
  <2>1. living \in SUBSET listed
    BY <1>7 DEF TrackOK
  <2>2. /\ IsFiniteSet(living) /\ Cardinality(living) <= Cardinality(listed)
        /\ Cardinality(living) \in Nat
    BY <1>4, <2>1, FS_Subset, FS_CardinalityType
  <2>. QED
    BY <1>1, <1>4, <1>5, <2>2 DEF ServedOK
<1>. QED
  BY <1>6, <1>7

(* A child that has yet to count itself finds room, until one has died     *)
(* while it was counted.                                                   *)
LEMMA RoomForMe ==
  ASSUME PointsOK, WorldOK, CountersOK, TrackOK, ServedOK, leaked = 0,
         NEW p \in Pids, Alive(p), pc[p] \notin Counted
  PROVE  active < MaxConn
<1> USE ForkAssumption
<1> DEFINE living == {q \in Pids : Alive(q)}
<1>1. IsFiniteSet(living) /\ Cardinality(living) <= MaxConn
  BY FewChildren
<1>2. CountedChildren \cup {p} \in SUBSET living
  BY DEF CountedChildren, Alive, Counted
<1>3. p \notin CountedChildren
  BY DEF CountedChildren
<1>4. Cardinality(CountedChildren \cup {p}) = Cardinality(CountedChildren) + 1
  BY <1>3, CountedFinite, FS_AddElement
<1>5. Cardinality(CountedChildren \cup {p}) <= Cardinality(living)
  BY <1>1, <1>2, FS_Subset
<1>6. Cardinality(living) \in Nat
  BY <1>1, FS_CardinalityType
<1>7. active = Cardinality(CountedChildren)
  BY CountedFinite DEF CountersOK, ActiveExact
<1>. QED
  BY <1>1, <1>4, <1>5, <1>6, <1>7, CountedFinite

LEMMA ServedStep ==
  ASSUME PointsOK, WorldOK, CountersOK, TrackOK, ServedOK, Next
  PROVE  ServedOK'
<1> USE ForkAssumption DEF PointsOK, Procs, ChildPoints, ParentPoints, Counted, Goto,
    parentVars, signals, locals, counters
<1>1. ASSUME Loop PROVE ServedOK'
  BY <1>1 DEF WorldOK, CountersOK, ServedOK, Loop
<1>2. ASSUME Reap PROVE ServedOK'
  <2>1. CASE UNCHANGED workers
    BY <1>2, <2>1 DEF ServedOK, Reap, ReapIf, AfterReap
  <2>2. CASE index <= Len(workers) /\ workers' = SwapOut(index)
    <3>1. /\ index \in 1 .. Len(workers) /\ Len(workers) \in Nat
          /\ UNCHANGED <<pc, seen, leaked>> /\ pc[Parent] # "record"
      BY <1>2, <2>2, LenProperties DEF WorldOK, Reap, ReapIf
    <3>2. Len(workers') = Len(workers) - 1
      BY <2>2, <3>1, SwapOutProperties DEF WorldOK
    <3>. QED
      BY <3>1, <3>2 DEF ServedOK
  <2>. QED
    BY <1>2, <2>1, <2>2 DEF Reap, ReapIf
<1>3. ASSUME EnterAccept PROVE ServedOK'
  BY <1>3 DEF WorldOK, CountersOK, ServedOK, EnterAccept
<1>4. ASSUME Accept PROVE ServedOK'
  BY <1>4 DEF WorldOK, CountersOK, ServedOK, Accept
<1>5. ASSUME AcceptFails PROVE ServedOK'
  BY <1>5 DEF WorldOK, CountersOK, ServedOK, AcceptFails
<1>6. ASSUME Admit PROVE ServedOK'
  BY <1>6 DEF WorldOK, CountersOK, ServedOK, Admit, AdmitWithin, FreshPids, Count
<1>7. ASSUME Record PROVE ServedOK'
  <2>1. /\ workers' = Append(workers, worker) /\ pc[Parent] = "record"
        /\ pc' = [pc EXCEPT ![Parent] = "loop"] /\ UNCHANGED <<seen, leaked>>
    BY <1>7 DEF Record, RecordAs
  <2>2. Len(workers) \in Nat /\ Len(workers') = Len(workers) + 1
    BY <2>1 DEF WorldOK
  <2>3. \A p \in Pids : pc'[p] = pc[p]
    BY <2>1
  <2>. QED
    BY <2>1, <2>2, <2>3 DEF ServedOK
<1>8. ASSUME Closing PROVE ServedOK'
  BY <1>8 DEF WorldOK, CountersOK, ServedOK, Closing
<1>9. ASSUME DrainTurn PROVE ServedOK'
  BY <1>9 DEF WorldOK, CountersOK, ServedOK, DrainTurn
<1>10. ASSUME DrainEnds PROVE ServedOK'
  BY <1>10 DEF WorldOK, CountersOK, ServedOK, DrainEnds
<1>11. ASSUME Term PROVE ServedOK'
  BY <1>11 DEF WorldOK, CountersOK, ServedOK, Term, TermSending
<1>12. ASSUME Wait PROVE ServedOK'
  <2>1. workers' = <<>> /\ UNCHANGED <<seen, leaked>>
    BY <1>12 DEF Wait, WaitThen
  <2>. QED
    BY <1>12, <2>1 DEF ServedOK, Wait, WaitThen
<1>13. ASSUME Stopped PROVE ServedOK'
  BY <1>13 DEF WorldOK, CountersOK, ServedOK, Stopped, vars
<1>14. ASSUME Terminate PROVE ServedOK'
  BY <1>14 DEF WorldOK, CountersOK, ServedOK, Terminate
<1>15. ASSUME Connect PROVE ServedOK'
  BY <1>15 DEF WorldOK, CountersOK, ServedOK, Connect
<1>16. ASSUME StopSignal PROVE ServedOK'
  BY <1>16 DEF WorldOK, CountersOK, ServedOK, StopSignal, Interrupt
<1>17. ASSUME ChildSignal PROVE ServedOK'
  BY <1>17 DEF WorldOK, CountersOK, ServedOK, ChildSignal, Interrupt
<1>18. ASSUME NEW p \in Pids, Die(p) PROVE ServedOK'
  BY <1>18 DEF WorldOK, CountersOK, ServedOK, Die, Ends
<1>19. ASSUME NEW p \in Pids, ChildTerm(p) PROVE ServedOK'
  <2>1. CASE Ends(p)
    BY <1>19, <2>1 DEF CountersOK, ServedOK, ChildTerm, Ends
  <2>2. CASE UNCHANGED <<pc, locals, counters>>
    BY <1>19, <2>2 DEF ServedOK, ChildTerm
  <2>. QED
    BY <1>19, <2>1, <2>2 DEF ChildTerm
<1>20. ASSUME NEW p \in Pids, Boot(p) PROVE ServedOK'
  BY <1>20 DEF WorldOK, CountersOK, ServedOK, Boot
<1>21. ASSUME NEW p \in Pids, EnterRead(p) PROVE ServedOK'
  <2>1. leaked = 0 => active < MaxConn
    BY <1>21, RoomForMe DEF EnterRead, Alive
  <2>. QED
    BY <1>21, <2>1 DEF CountersOK, ServedOK, EnterRead
<1>22. ASSUME NEW p \in Pids, EnterCas(p) PROVE ServedOK'
  <2>1. leaked = 0 => active < MaxConn
    BY <1>22, RoomForMe DEF EnterCas, EnterSwap, Alive
  <2>2. CASE leaked = 0
    <3>1. seen[p] < MaxConn /\ pc[p] = "enterCas"
      BY <1>22, <2>2 DEF ServedOK, EnterCas, EnterSwap
    <3>2. CASE pc' = [pc EXCEPT ![p] = "peakRead"]
      <4>1. seen' = [seen EXCEPT ![p] = seen[p] + 1] /\ UNCHANGED <<workers, leaked>>
        BY <1>22, <3>1, <3>2 DEF EnterCas, EnterSwap
      <4>. QED
        BY <3>2, <4>1 DEF CountersOK, ServedOK
    <3>3. CASE UNCHANGED pc /\ seen' = [seen EXCEPT ![p] = active]
      BY <1>22, <2>1, <2>2, <3>3 DEF CountersOK, ServedOK, EnterCas, EnterSwap
    <3>. QED
      BY <1>22, <3>1, <3>2, <3>3 DEF CountersOK, EnterCas, EnterSwap
  <2>3. CASE leaked # 0
    BY <1>22, <2>3 DEF ServedOK, EnterCas, EnterSwap
  <2>. QED
    BY <2>2, <2>3
<1>23. ASSUME NEW p \in Pids, PeakRead(p) PROVE ServedOK'
  BY <1>23 DEF WorldOK, CountersOK, ServedOK, PeakRead
<1>24. ASSUME NEW p \in Pids, PeakCas(p) PROVE ServedOK'
  BY <1>24 DEF WorldOK, CountersOK, ServedOK, PeakCas, PeakSwap
<1>25. ASSUME NEW p \in Pids, Handle(p) PROVE ServedOK'
  BY <1>25 DEF WorldOK, CountersOK, ServedOK, Handle
<1>26. ASSUME NEW p \in Pids, Leave(p) PROVE ServedOK'
  BY <1>26 DEF WorldOK, CountersOK, ServedOK, Leave
<1>27. ASSUME NEW p \in Pids, SendBusy(p) PROVE ServedOK'
  BY <1>27 DEF WorldOK, CountersOK, ServedOK, SendBusy
<1>28. ASSUME NEW p \in Pids, Exit(p) PROVE ServedOK'
  BY <1>28 DEF WorldOK, CountersOK, ServedOK, Exit, Ends
<1>. QED
  BY <1>1, <1>2, <1>3, <1>4, <1>5, <1>6, <1>7, <1>8, <1>9, <1>10, <1>11,
    <1>12, <1>13, <1>14, <1>15, <1>16, <1>17, <1>18, <1>19, <1>20, <1>21,
    <1>22, <1>23, <1>24, <1>25, <1>26, <1>27, <1>28 DEF Next, ParentStep,
    ChildStep, Environment

(* The inductive invariant.                                                *)
IInv ==
  /\ PointsOK /\ WorldOK /\ CountersOK /\ TrackOK
  /\ FlagOK /\ PeakOK /\ ServedOK

LEMMA InitIInv == Init => IInv
<1> SUFFICES ASSUME Init PROVE IInv
  OBVIOUS
<1> USE ForkAssumption DEF Init
<1>1. PointsOK
  BY DEF PointsOK, Procs, ParentPoints, ChildPoints, Counted
<1>2. WorldOK
  <2>1. stopping \in BOOLEAN /\ childChanged \in BOOLEAN /\ sigchld \in BOOLEAN
    OBVIOUS
  <2>2. workers \in Seq(Pids)
    BY EmptySeq
  <2>3. index \in Nat \ {0} /\ served \in 0 .. MaxRequests /\ backlog \in 0 .. Backlog
    OBVIOUS
  <2>. QED
    BY <2>1, <2>2, <2>3 DEF WorldOK, Procs
<1>3. CountersOK
  <2>1. CountedChildren = {}
    BY DEF CountedChildren, Counted, Procs
  <2>2. Cardinality(CountedChildren) = 0
    BY <2>1, FS_EmptySet
  <2>. QED
    BY <2>2 DEF CountersOK, ActiveExact
<1>4. TrackOK
  BY DEF TrackOK, NoChildOutlives, Alive, Procs
<1>5. FlagOK /\ PeakOK /\ ServedOK
  BY DEF FlagOK, PeakOK, PeakExact, ServedOK, Procs
<1>. QED
  BY <1>1, <1>2, <1>3, <1>4, <1>5 DEF IInv

LEMMA NextIInv == IInv /\ [Next]_vars => IInv'
<1> SUFFICES ASSUME IInv, [Next]_vars PROVE IInv'
  OBVIOUS
<1>1. CASE Next
  BY <1>1, PointsStep, WorldStep, CountersStep, TrackStep, FlagStep, PeakStep,
    ServedStep DEF IInv
<1>2. CASE UNCHANGED vars
  <2>1. PointsOK' /\ WorldOK'
    BY <1>2 DEF IInv, PointsOK, WorldOK, vars, parentVars, signals
  <2>2. CountersOK'
    BY <1>2 DEF IInv, CountersOK, ActiveExact, CountedChildren, vars, counters, locals
  <2>3. TrackOK'
    BY <1>2 DEF IInv, TrackOK, NoChildOutlives, Alive, vars, parentVars
  <2>4. FlagOK' /\ PeakOK' /\ ServedOK'
    BY <1>2 DEF IInv, FlagOK, PeakOK, PeakExact, ServedOK, Alive, vars, parentVars,
      signals, counters, locals
  <2>. QED
    BY <2>1, <2>2, <2>3, <2>4 DEF IInv
<1>. QED
  BY <1>1, <1>2

THEOREM Invariance == Spec => []IInv
  BY InitIInv, NextIInv, PTL DEF Spec

(* Every field of the server's state keeps its type.                       *)
THEOREM TypeCorrect == Spec => []TypeOK
<1>1. IInv => TypeOK
  BY CountedFinite, ForkAssumption
  DEF IInv, PointsOK, WorldOK, CountersOK, ActiveExact, TypeOK
<1>. QED
  BY <1>1, Invariance, PTL

(* active_connections counts the children being served and those that died *)
(* while they were, under every interleaving of the compare-and-swaps.     *)
THEOREM CounterExact == Spec => []ActiveExact
<1>1. IInv => ActiveExact
  BY DEF IInv, CountersOK
<1>. QED
  BY <1>1, Invariance, PTL

(* FL_HTTP_MAX_CONN: the lock-free counter admits no more children than    *)
(* the limit and never loses one, wherever children die.                   *)
THEOREM ConnLimitHolds == Spec => []ConnLimit
<1>1. IInv => ConnLimit
  BY CountedFinite, ForkAssumption DEF IInv, CountersOK, ActiveExact, ConnLimit
<1>. QED
  BY <1>1, Invariance, PTL

(* Every live child is on the parent's list exactly once, or about to be   *)
(* put on it.                                                              *)
THEOREM EveryChildTracked == Spec => []Tracked
<1>1. IInv => Tracked
  <2>1. WorldOK => DOMAIN workers = 1 .. Len(workers)
    BY LenProperties DEF WorldOK
  <2>. QED
    BY <2>1 DEF IInv, TrackOK, Tracked
<1>. QED
  BY <1>1, Invariance, PTL

(* fl_http_start returns only when no child is left.                       *)
THEOREM NoneOutlives == Spec => []NoChildOutlives
<1>1. IInv => NoChildOutlives
  BY DEF IInv, TrackOK
<1>. QED
  BY <1>1, Invariance, PTL

(* A child that is gone and whose place http_reap_workers is not about to  *)
(* reach has http_child_changed set or SIGCHLD pending, however the two    *)
(* and the loop interleave.                                                *)
THEOREM GoneStaysFlagged == Spec => []GoneIsFlagged
<1>1. IInv => GoneIsFlagged
  <2>1. WorldOK => DOMAIN workers = 1 .. Len(workers)
    BY LenProperties DEF WorldOK
  <2>. QED
    BY <2>1 DEF IInv, FlagOK, GoneIsFlagged
<1>. QED
  BY <1>1, Invariance, PTL

(* .max_active_connections is the highest the counter has been, but for    *)
(* children yet to report and children that died before they could.        *)
THEOREM PeakIsExact == Spec => []PeakExact
<1>1. IInv => PeakExact
  BY DEF IInv, PeakOK
<1>. QED
  BY <1>1, Invariance, PTL

(* A connection the parent forks a child for is served, until a child has  *)
(* died while it was counted: the length of http_workers bounds the        *)
(* children that can be counted.                                           *)
THEOREM EveryForkedIsServed == Spec => []ForkedIsServed
<1>1. IInv => ForkedIsServed
  BY DEF IInv, CountersOK, ServedOK, ForkedIsServed
<1>. QED
  BY <1>1, Invariance, PTL

=============================================================================
