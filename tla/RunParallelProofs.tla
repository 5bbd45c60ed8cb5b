-------------------------- MODULE RunParallelProofs --------------------------
(* What TLAPS proves of run-parallel, for every number of jobs, every width  *)
(* of a batch and every size of results and pipes.                          *)
EXTENDS RunParallel, TLAPS

(* Where the caller is: its index stays in the batch, and starts each pass  *)
(* at the first slot.                                                      *)
Places ==
  /\ at < count
  /\ pc \in {"poll", "done"} => at = 0
  /\ pc = "done" => N <= base + Width

(* A slot has the child of its own job, or none, and nothing before its     *)
(* fork.                                                                   *)
SlotsOK ==
  /\ \A i \in Slots :
       /\ child[i].pid \in {None, Job(i)}
       /\ child[i].fd => child[i].pid # None
       /\ pc = "fork" /\ at <= i => child[i] = Empty
  /\ pc = "read" => \A i \in ready : child[i].pid # None

(* The chunks of a result are read, in the pipe, or yet to be written; what *)
(* a slot says of its child is true of the process.                        *)
AccountOf(c, j) ==
  /\ size[j] = c.len + pipe[j] + left[j]
  /\ proc[j] # "none"
  /\ c.reaped => proc[j] = "gone"
  /\ c.reaped /\ ~c.failed => status[j] = "0"
  /\ c.eof /\ ~c.failed => pipe[j] = 0 /\ ~Running(j)
Accounts == \A i \in Slots : child[i].pid # None => AccountOf(child[i], Job(i))

(* Unless SIGCHLD is ignored, a child is gone only when it is waited for.   *)
Waited ==
  \A i \in Slots :
    child[i].pid # None /\ ~child[i].reaped /\ ~ignored => proc[Job(i)] # "gone"

(* The processes: nothing is written before there is a result, and one that *)
(* ends well has written all of it.                                        *)
Procs ==
  \A j \in Jobs :
    /\ proc[j] \in {"none", "run", "astray"} => size[j] = 0 /\ left[j] = 0 /\ pipe[j] = 0
    /\ proc[j] \in {"zombie", "gone"} /\ status[j] = "0" => left[j] = 0

(* The jobs whose turn has not come.                                       *)
Untouched ==
  \A j \in Jobs :
    j >= base + Width \/ (pc = "fork" /\ j >= base + at)
      => proc[j] = "none" /\ results[j] = Unset

(* The slots whose turn has: each is answered when it has failed, has been  *)
(* parsed or has no child, and not before; and every pass parses what can   *)
(* be.                                                                     *)
Begun(i) == i < count /\ (pc = "fork" => i < at) /\ pc # "done"
ToldOf(i, c, r) ==
  /\ c.pid = None => Answered(r) /\ proc[Job(i)] = "none"
  /\ c.failed \/ c.parsed => Answered(r)
  /\ c.pid # None /\ ~c.failed /\ ~c.parsed => r = Unset
  /\ c.parsed => c.reaped
  /\ c.pid # None /\ c.reaped /\ c.eof /\ ~c.failed /\ ~c.parsed =>
       pc \in {"read", "wait"} \/ (pc = "parse" /\ at <= i)
Told == \A i \in Slots : Begun(i) => ToldOf(i, child[i], results[Job(i)])

Own ==
  \A j \in Jobs : results[j].kind = "value" =>
    results[j] = Value(j, size[j]) /\ status[j] = "0" /\ proc[j] = "gone"

IInv ==
  /\ TypeOK /\ Places /\ SlotsOK /\ Accounts /\ Waited /\ Procs /\ Untouched
  /\ Told /\ Own /\ BatchSettled

-----------------------------------------------------------------------------
LEMMA BatchFacts ==
  ASSUME TypeOK, Places
  PROVE  /\ N \in Nat /\ Width \in Nat /\ base \in Nat /\ at \in Nat
         /\ base < N /\ at < Width /\ count <= Width /\ count <= N - base /\ count > 0
         /\ count \in Nat /\ at < count
         /\ at \in Slots /\ Job(at) \in Jobs
         /\ \A i \in Slots : i \in Nat /\ i < Width /\ Job(i) \in Nat
         /\ \A i \in Slots : i < count <=> Job(i) \in Jobs
         /\ \A i, k \in Slots : Job(i) = Job(k) => i = k
         /\ None \notin Jobs
  BY ParallelAssumption DEF TypeOK, Places, count, Slots, Jobs, Job, None

LEMMA NextSlotFacts ==
  ASSUME TypeOK, Places, NEW phase, NextSlot(phase), base' = base,
         phase \notin {"done", pc}
  PROVE  /\ at' \in Slots /\ at' < count
         /\ \/ pc' = pc /\ at' = at + 1 /\ at + 1 < count
            \/ pc' = phase /\ at' = 0 /\ at + 1 = count
<1>1. /\ count \in Nat /\ at \in Nat /\ at < count /\ count <= Width /\ count > 0
      /\ Width \in Nat
  BY BatchFacts
<1> QED
  BY <1>1 DEF NextSlot, NextSlotBelow, Slots

-----------------------------------------------------------------------------
(* A process that runs goes on or ends, and its caller does nothing.        *)
Same(j) ==
  /\ proc'[j] = proc[j] /\ status'[j] = status[j] /\ size'[j] = size[j]
  /\ left'[j] = left[j] /\ pipe'[j] = pipe[j]

LEMMA ProcessInvariant ==
  ASSUME IInv, TypeOK', UNCHANGED <<caller, ignored>>, NEW j \in Jobs, Running(j),
         \A k \in Jobs \ {j} : Same(k),
         proc'[j] # "none", proc'[j] = "gone" => ignored,
         size[j] - left[j] - pipe[j] = size'[j] - left'[j] - pipe'[j],
         proc'[j] \in {"run", "astray"} => size'[j] = 0 /\ left'[j] = 0 /\ pipe'[j] = 0,
         proc'[j] \in {"zombie", "gone"} /\ status'[j] = "0" => left'[j] = 0
  PROVE  IInv'
<1>1. UNCHANGED <<pc, at, base, child, results, ready>> /\ ignored' = ignored
  BY DEF caller
<1>2. Running(j) /\ proc[j] \notin {"none", "zombie", "gone"}
  BY DEF Running
<1>3. Places' /\ SlotsOK'
  BY <1>1 DEF IInv, Places, SlotsOK, count, Job
<1>4. Accounts'
  <2> SUFFICES ASSUME NEW i \in Slots, child[i].pid # None
               PROVE  AccountOf(child[i], Job(i))'
    BY <1>1 DEF Accounts
  <2>1. AccountOf(child[i], Job(i)) /\ Job(i) \in Jobs
    BY DEF IInv, Accounts, SlotsOK, TypeOK, Slot
  <2>2. CASE Job(i) # j
    BY <1>1, <2>1, <2>2 DEF AccountOf, Same, Running, Job
  <2>3. CASE Job(i) = j
    <3>1. ~child[i].reaped /\ ~(child[i].eof /\ ~child[i].failed)
      BY <1>2, <2>1, <2>3 DEF AccountOf
    <3>2. size'[j] = child[i].len + pipe'[j] + left'[j]
      <4>1. size[j] = child[i].len + pipe[j] + left[j]
        BY <2>1, <2>3 DEF AccountOf
      <4>2. /\ {size[j], left[j], pipe[j], child[i].len} \subseteq Int
            /\ {size'[j], left'[j], pipe'[j]} \subseteq Int
        BY ParallelAssumption DEF IInv, TypeOK, Slot
      <4> QED
        BY <4>1, <4>2
    <3> QED
      BY <1>1, <2>3, <3>1, <3>2 DEF AccountOf, Job
  <2> QED
    BY <2>2, <2>3
<1>5. Waited'
  <2> SUFFICES ASSUME NEW i \in Slots, child[i].pid # None, ~child[i].reaped, ~ignored
               PROVE  proc'[Job(i)] # "gone"
    BY <1>1 DEF Waited, Job
  <2>1. proc[Job(i)] # "gone" /\ Job(i) \in Jobs
    BY DEF IInv, Waited, SlotsOK, TypeOK, Slot
  <2> QED
    BY <2>1 DEF Same
<1>6. Procs'
  BY <1>1, <1>2 DEF IInv, Procs, Same
<1>7. Untouched'
  BY <1>1, <1>2 DEF IInv, Untouched, Same
<1>8. Told'
  <2> SUFFICES ASSUME NEW i \in Slots, Begun(i)
               PROVE  ToldOf(i, child[i], results[Job(i)])'
    BY <1>1 DEF Told, Begun, count
  <2>1. ToldOf(i, child[i], results[Job(i)]) /\ Job(i) \in Jobs
    BY BatchFacts DEF IInv, Told, Begun
  <2>2. proc[Job(i)] = "none" => proc'[Job(i)] = "none"
    BY <1>2, <2>1 DEF Same
  <2> QED
    BY <1>1, <2>1, <2>2 DEF ToldOf, Answered, Job
<1>9. Own'
  BY <1>1, <1>2 DEF IInv, Own, Same
<1>10. BatchSettled'
  BY <1>1, <1>2 DEF IInv, BatchSettled, Same, Answered
<1> QED
  BY <1>3, <1>4, <1>5, <1>6, <1>7, <1>8, <1>9, <1>10 DEF IInv

(* What no part of the invariant speaks of.                                *)
LEMMA NothingInvariant ==
  ASSUME IInv, TypeOK', UNCHANGED <<caller, proc, status, size, left, pipe, ignored>>
  PROVE  IInv'
<1>1. UNCHANGED <<pc, at, base, child, results, ready>>
  BY DEF caller
<1>2. UNCHANGED <<proc, status, size, left, pipe, ignored>>
  OBVIOUS
<1>3. Places' /\ SlotsOK'
  BY <1>1 DEF IInv, Places, SlotsOK, count, Job
<1>4. Accounts' /\ Waited'
  BY <1>1, <1>2 DEF IInv, Accounts, AccountOf, Running, Waited, Job
<1>5. Procs' /\ Untouched'
  BY <1>1, <1>2 DEF IInv, Procs, Untouched
<1>6. Told'
  BY <1>1, <1>2 DEF IInv, Told, ToldOf, Begun, count, Job, Answered
<1>7. Own' /\ BatchSettled'
  BY <1>1, <1>2 DEF IInv, Own, BatchSettled, Answered
<1> QED
  BY <1>3, <1>4, <1>5, <1>6, <1>7 DEF IInv

LEMMA ExitsInvariant ==
  ASSUME IInv, NEW j \in Jobs, NEW how \in Statuses, Running(j), Exits(j, how),
         UNCHANGED <<size, left>>, how = "0" => left[j] = 0
  PROVE  IInv'
<1>1. /\ proc' = [proc EXCEPT ![j] = IF ignored THEN "gone" ELSE "zombie"]
      /\ status' = [status EXCEPT ![j] = how]
      /\ UNCHANGED <<caller, ignored, killed, late, pipe, heir, size, left>>
  BY DEF Exits
<1>2. TypeOK'
  BY <1>1 DEF IInv, TypeOK, caller
<1>3. \A k \in Jobs \ {j} : Same(k)
  BY <1>1 DEF IInv, TypeOK, Same
<1>4. /\ proc'[j] = IF ignored THEN "gone" ELSE "zombie"
      /\ status'[j] = how /\ size' = size /\ left' = left /\ pipe' = pipe
  BY <1>1 DEF IInv, TypeOK
<1> QED
  BY <1>1, <1>2, <1>3, <1>4, ProcessInvariant

LEMMA ChildInvariant ==
  ASSUME IInv, NEW j \in Jobs,
         \/ Callback(j) \/ Write(j) \/ Finish(j) \/ Killed(j)
         \/ AstrayEnds(j) \/ Environment(j)
  PROVE  IInv'
<1> USE DEF Statuses
<1>0. /\ proc[j] \in {"run", "astray"} => size[j] = 0 /\ left[j] = 0 /\ pipe[j] = 0
      /\ size[j] \in Nat /\ left[j] \in Nat /\ pipe[j] \in Nat
  BY ParallelAssumption DEF IInv, Procs, TypeOK
<1>1. CASE Callback(j)
  <2>0. proc[j] = "run" /\ Running(j)
    BY <1>1 DEF Callback, Running
  <2>1. ASSUME NEW n \in 1 .. MaxChunks,
               size' = [size EXCEPT ![j] = n], left' = [left EXCEPT ![j] = n],
               proc' = [proc EXCEPT ![j] = "write"],
               UNCHANGED <<caller, ignored, status, killed, late, pipe, heir>>
        PROVE  IInv'
    <3>1. TypeOK'
      BY <2>1, ParallelAssumption DEF IInv, TypeOK, caller
    <3>2. \A k \in Jobs \ {j} : Same(k)
      BY <2>1 DEF IInv, TypeOK, Same
    <3>3. size'[j] = n /\ left'[j] = n /\ proc'[j] = "write" /\ pipe' = pipe /\ n \in Nat
      BY <2>1, ParallelAssumption DEF IInv, TypeOK
    <3> QED
      BY <1>0, <2>0, <2>1, <3>1, <3>2, <3>3, ProcessInvariant
  <2>2. ASSUME NEW how \in {"0", "2", "3", "other"}, Exits(j, how), UNCHANGED <<size, left>>
        PROVE  IInv'
    BY <1>0, <2>0, <2>2, ExitsInvariant
  <2>3. ASSUME proc' = [proc EXCEPT ![j] = "astray"],
               UNCHANGED <<caller, ignored, status, killed, late, size, left, pipe, heir>>
        PROVE  IInv'
    <3>1. TypeOK'
      BY <2>3 DEF IInv, TypeOK, caller
    <3>2. \A k \in Jobs \ {j} : Same(k)
      BY <2>3 DEF IInv, TypeOK, Same
    <3>3. proc'[j] = "astray" /\ size' = size /\ left' = left /\ pipe' = pipe
      BY <2>3 DEF IInv, TypeOK
    <3> QED
      BY <1>0, <2>0, <2>3, <3>1, <3>2, <3>3, ProcessInvariant
  <2> QED
    BY <1>1, <2>1, <2>2, <2>3 DEF Callback
<1>2. CASE Write(j)
  <2>0. proc[j] = "write" /\ Running(j) /\ left[j] > 0
    BY <1>2 DEF Write, Running
  <2>1. ASSUME pipe[j] < Capacity,
               pipe' = [pipe EXCEPT ![j] = @ + 1], left' = [left EXCEPT ![j] = @ - 1],
               UNCHANGED <<caller, ignored, proc, status, killed, late, size, heir>>
        PROVE  IInv'
    <3>1. pipe[j] + 1 \in 0 .. Capacity /\ left[j] - 1 \in 0 .. MaxChunks
      BY <2>0, <2>1, ParallelAssumption DEF IInv, TypeOK
    <3>2. TypeOK'
      BY <2>1, <3>1 DEF IInv, TypeOK, caller
    <3>3. \A k \in Jobs \ {j} : Same(k)
      BY <2>1 DEF IInv, TypeOK, Same
    <3>4. /\ pipe'[j] = pipe[j] + 1 /\ left'[j] = left[j] - 1
          /\ size' = size /\ proc' = proc /\ status' = status
      BY <2>1 DEF IInv, TypeOK
    <3>5. size[j] - left[j] - pipe[j] = size'[j] - left'[j] - pipe'[j]
      BY <1>0, <3>4
    <3> QED
      BY <2>0, <2>1, <3>2, <3>3, <3>4, <3>5, ProcessInvariant
  <2>2. ASSUME Exits(j, "signal"), UNCHANGED <<size, left>> PROVE IInv'
    BY <2>0, <2>2, ExitsInvariant
  <2> QED
    BY <1>2, <2>1, <2>2 DEF Write
<1>3. CASE Finish(j)
  BY <1>3, ExitsInvariant DEF Finish, Running
<1>4. CASE Killed(j) \/ KilledFromOutside(j)
  BY <1>4, ExitsInvariant DEF Killed, KilledFromOutside
<1>5. CASE AstrayEnds(j)
  BY <1>0, <1>5, ExitsInvariant DEF AstrayEnds, Running
<1>6. CASE LeaveHeir(j) \/ HeirEnds(j) \/ TimePasses(j)
  <2>1. UNCHANGED <<caller, proc, status, size, left, pipe, ignored>>
    BY <1>6 DEF LeaveHeir, HeirEnds, TimePasses
  <2>2. TypeOK'
    BY <1>6 DEF LeaveHeir, HeirEnds, TimePasses, IInv, TypeOK, caller
  <2> QED
    BY <2>1, <2>2, NothingInvariant
<1> QED
  BY <1>1, <1>2, <1>3, <1>4, <1>5, <1>6 DEF Environment

-----------------------------------------------------------------------------
(* A pass of the caller over one slot, s: what the invariant says of that   *)
(* slot and its job is enough, if what is left to parse stays so.          *)
LEMMA SlotInvariant ==
  ASSUME IInv, TypeOK', Places', UNCHANGED <<base, ignored>>,
         NEW s \in Slots, s < count,
         pc \notin {"fork", "done"}, pc' \notin {"fork", "done"},
         pc' = "read" => pc = "read" /\ ready' = ready,
         \A i \in Slots \ {s} : child'[i] = child[i],
         \A j \in Jobs \ {Job(s)} : Same(j) /\ results'[j] = results[j],
         child'[s].pid = child[s].pid, child'[s].fd => child[s].fd,
         child[s].pid # None =>
           /\ AccountOf(child[s], Job(s))'
           /\ ~child'[s].reaped /\ ~ignored => proc'[Job(s)] # "gone",
         child[s].pid = None => Same(Job(s)),
         proc'[Job(s)] = proc[Job(s)] \/ proc'[Job(s)] = "gone",
         /\ proc'[Job(s)] \in {"run", "astray", "none"} =>
              size'[Job(s)] = 0 /\ left'[Job(s)] = 0 /\ pipe'[Job(s)] = 0
         /\ proc'[Job(s)] \in {"zombie", "gone"} /\ status'[Job(s)] = "0" =>
              left'[Job(s)] = 0,
         ToldOf(s, child[s], results[Job(s)])',
         \A i \in Slots :
           /\ i < count /\ i # s
           /\ pc \in {"read", "wait"} \/ (pc = "parse" /\ at <= i)
           => (pc' \in {"read", "wait"} \/ (pc' = "parse" /\ at' <= i)),
         results'[Job(s)].kind = "value" =>
           /\ results'[Job(s)] = Value(Job(s), size'[Job(s)])
           /\ status'[Job(s)] = "0" /\ proc'[Job(s)] = "gone"
  PROVE  IInv'
<1>1. /\ base' = base /\ ignored' = ignored /\ count' = count
      /\ \A i : Job(i)' = Job(i) /\ Job(i) = base + i
  BY DEF count, Job
<1>2. /\ \A i \in Slots : i < count <=> Job(i) \in Jobs
      /\ \A i, k \in Slots : Job(i) = Job(k) => i = k
      /\ Job(s) \in Jobs /\ None \notin Jobs
  BY BatchFacts DEF IInv
<1>3. SlotsOK'
  <2>1. \A i \in Slots : child'[i].pid = child[i].pid /\ (child'[i].fd => child[i].fd)
    OBVIOUS
  <2>2. ASSUME pc' = "read", NEW i \in ready' PROVE child'[i].pid # None
    <3>1. i \in Slots /\ child[i].pid # None
      BY <2>2 DEF IInv, SlotsOK, TypeOK
    <3> QED
      BY <2>1, <3>1
  <2> QED
    BY <1>1, <2>1, <2>2 DEF IInv, SlotsOK
<1>4. Accounts' /\ Waited'
  <2> SUFFICES ASSUME NEW i \in Slots, child'[i].pid # None
               PROVE  /\ AccountOf(child[i], Job(i))'
                      /\ ~child'[i].reaped /\ ~ignored => proc'[Job(i)] # "gone"
    BY <1>1 DEF Accounts, Waited
  <2>1. CASE i = s
    BY <2>1
  <2>2. CASE i # s
    <3>1. /\ AccountOf(child[i], Job(i)) /\ child'[i] = child[i]
          /\ ~child[i].reaped /\ ~ignored => proc[Job(i)] # "gone"
      BY <2>2 DEF IInv, Accounts, Waited
    <3>2. Job(i) \in Jobs /\ Job(i) # Job(s)
      BY <1>2, <2>2, <3>1 DEF IInv, SlotsOK, TypeOK, Slot
    <3> QED
      BY <1>1, <3>1, <3>2 DEF AccountOf, Same, Running
  <2> QED
    BY <2>1, <2>2
<1>5. Procs'
  <2> SUFFICES ASSUME NEW j \in Jobs
               PROVE  /\ proc'[j] \in {"none", "run", "astray"} =>
                           size'[j] = 0 /\ left'[j] = 0 /\ pipe'[j] = 0
                      /\ proc'[j] \in {"zombie", "gone"} /\ status'[j] = "0" => left'[j] = 0
    BY DEF Procs
  <2>1. CASE j # Job(s)
    BY <2>1 DEF IInv, Procs, Same
  <2> QED
    BY <2>1
<1>6. Untouched'
  <2> SUFFICES ASSUME NEW j \in Jobs, j >= base + Width
               PROVE  proc'[j] = "none" /\ results'[j] = Unset
    BY <1>1 DEF Untouched
  <2>1. j # Job(s)
    BY BatchFacts DEF IInv, Job, Jobs
  <2> QED
    BY <2>1 DEF IInv, Untouched, Same
<1>7. Told'
  <2> SUFFICES ASSUME NEW i \in Slots, i < count
               PROVE  ToldOf(i, child[i], results[Job(i)])'
    BY <1>1 DEF Told, Begun
  <2>1. CASE i = s
    BY <2>1
  <2>2. CASE i # s
    <3>1. ToldOf(i, child[i], results[Job(i)])
      BY DEF IInv, Told, Begun
    <3>2. Job(i) \in Jobs /\ Job(i) # Job(s) /\ child'[i] = child[i]
      BY <1>2, <2>2
    <3>3. proc'[Job(i)] = proc[Job(i)] /\ results'[Job(i)] = results[Job(i)]
      BY <3>2 DEF Same
    <3> QED
      BY <1>1, <2>2, <3>1, <3>2, <3>3 DEF ToldOf, Answered
  <2> QED
    BY <2>1, <2>2
<1>8. Own'
  <2> SUFFICES ASSUME NEW j \in Jobs, results'[j].kind = "value"
               PROVE  results'[j] = Value(j, size'[j]) /\ status'[j] = "0" /\ proc'[j] = "gone"
    BY DEF Own, Value
  <2>1. CASE j # Job(s)
    BY <2>1 DEF IInv, Own, Same
  <2> QED
    BY <2>1
<1>9. BatchSettled'
  <2> SUFFICES ASSUME NEW j \in Jobs, j < base
               PROVE  proc'[j] \in {"none", "gone"} /\ results'[j] # Unset
    BY <1>1 DEF BatchSettled, Answered
  <2>1. j # Job(s)
    BY BatchFacts DEF IInv, Job, Jobs
  <2> QED
    BY <2>1 DEF IInv, BatchSettled, Same, Answered
<1> QED
  BY <1>3, <1>4, <1>5, <1>6, <1>7, <1>8, <1>9 DEF IInv

(* What the invariant says of the slot the caller looks at.                *)
LEMMA SlotFacts ==
  ASSUME IInv, pc \notin {"fork", "done"}, NEW s \in Slots, s = at
  PROVE  /\ s \in Nat /\ s < count /\ Job(s) \in Jobs /\ None \notin Jobs
         /\ count \in Nat /\ \A i \in Slots : i \in Nat
         /\ child[s] \in Slot /\ results[Job(s)] \in Answer
         /\ child[s].pid \in {None, Job(s)}
         /\ child[s].pid # None => AccountOf(child[s], Job(s))
         /\ child[s].pid # None /\ ~child[s].reaped /\ ~ignored => proc[Job(s)] # "gone"
         /\ ToldOf(s, child[s], results[Job(s)])
         /\ {size[Job(s)], left[Job(s)], pipe[Job(s)], child[s].len} \subseteq Nat
         /\ size[Job(s)] <= MaxChunks /\ MaxChunks \in Nat
         /\ proc[Job(s)] \in {"none", "run", "astray"} =>
              size[Job(s)] = 0 /\ left[Job(s)] = 0 /\ pipe[Job(s)] = 0
         /\ proc[Job(s)] \in {"zombie", "gone"} /\ status[Job(s)] = "0" =>
              left[Job(s)] = 0
         /\ results[Job(s)].kind = "value" =>
              /\ results[Job(s)] = Value(Job(s), size[Job(s)])
              /\ status[Job(s)] = "0" /\ proc[Job(s)] = "gone"
<1>1. /\ s \in Nat /\ s < count /\ Job(s) \in Jobs /\ None \notin Jobs
      /\ count \in Nat /\ \A i \in Slots : i \in Nat
  BY BatchFacts DEF IInv
<1>2. Begun(s)
  BY <1>1 DEF Begun
<1>3. /\ child[s] \in Slot /\ results[Job(s)] \in Answer
      /\ {size[Job(s)], left[Job(s)], pipe[Job(s)], child[s].len} \subseteq Nat
      /\ size[Job(s)] <= MaxChunks /\ MaxChunks \in Nat
  BY <1>1, ParallelAssumption DEF IInv, TypeOK, Slot
<1>4. /\ child[s].pid \in {None, Job(s)}
      /\ child[s].pid # None => AccountOf(child[s], Job(s))
      /\ child[s].pid # None /\ ~child[s].reaped /\ ~ignored => proc[Job(s)] # "gone"
  BY <1>1 DEF IInv, SlotsOK, Accounts, Waited
<1>5. ToldOf(s, child[s], results[Job(s)])
  BY <1>1, <1>2 DEF IInv, Told
<1>6. /\ proc[Job(s)] \in {"none", "run", "astray"} =>
           size[Job(s)] = 0 /\ left[Job(s)] = 0 /\ pipe[Job(s)] = 0
      /\ proc[Job(s)] \in {"zombie", "gone"} /\ status[Job(s)] = "0" =>
           left[Job(s)] = 0
  BY <1>1 DEF IInv, Procs
<1>7. results[Job(s)].kind = "value" =>
        /\ results[Job(s)] = Value(Job(s), size[Job(s)])
        /\ status[Job(s)] = "0" /\ proc[Job(s)] = "gone"
  BY <1>1 DEF IInv, Own
<1> QED
  BY <1>1, <1>3, <1>4, <1>5, <1>6, <1>7

LEMMA ScanInvariant ==
  ASSUME IInv, Scan, NEW s \in Slots, s = at
  PROVE  IInv'
<1>1. /\ pc = "scan" /\ GiveUpLate(s, "TIMEOUT", TRUE) /\ NextSlot("poll")
      /\ UNCHANGED <<base, ready, proc, status, late, size, left, pipe, heir, ignored>>
  BY DEF Scan, ScanWith
<1>2. /\ at' \in Slots /\ at' < count
      /\ pc' \in {"scan", "poll"} /\ (pc' = "poll" => at' = 0)
  BY <1>1, NextSlotFacts DEF IInv
<1>3. Places' /\ Job(s)' = Job(s)
  BY <1>1, <1>2 DEF Places, count, Job
<1>4. \A j \in Jobs : Same(j)
  BY <1>1 DEF Same
<1>5. s < count /\ Job(s) \in Jobs
  BY <1>1, SlotFacts
<1>6. CASE UNCHANGED <<child, results, killed>>
  <2>1. TypeOK'
    BY <1>1, <1>2, <1>6 DEF IInv, TypeOK
  <2>2. child[s].pid # None => AccountOf(child[s], Job(s))'
    BY <1>1, <1>3, <1>6, SlotFacts DEF AccountOf, Running
  <2>3. ToldOf(s, child[s], results[Job(s)])'
    BY <1>1, <1>3, <1>6, SlotFacts DEF ToldOf, Answered
  <2> QED
    BY <1>1, <1>2, <1>3, <1>4, <1>5, <1>6, <2>1, <2>2, <2>3, SlotFacts, SlotInvariant
<1>7. CASE /\ child[s].pid # None /\ ~child[s].reaped /\ ~child[s].failed
           /\ child' = [child EXCEPT ![s].failed = TRUE, ![s].fd = FALSE, ![s].eof = TRUE]
           /\ Fails(s, "TIMEOUT")
           /\ killed' = [killed EXCEPT ![child[s].pid] = TRUE]
  <2>1. results' = [results EXCEPT ![Job(s)] = Error("TIMEOUT")]
    BY <1>7 DEF Fails
  <2>2. /\ child'[s] = [child[s] EXCEPT !.failed = TRUE, !.fd = FALSE, !.eof = TRUE]
        /\ \A i \in Slots \ {s} : child'[i] = child[i]
        /\ results'[Job(s)] = Error("TIMEOUT")
        /\ \A j \in Jobs \ {Job(s)} : results'[j] = results[j]
    BY <1>5, <1>7, <2>1 DEF IInv, TypeOK, Slot
  <2>3. /\ child'[s].pid = child[s].pid /\ ~child'[s].fd /\ child'[s].failed
        /\ child'[s].reaped = child[s].reaped /\ child'[s].len = child[s].len
        /\ child'[s].parsed = child[s].parsed
        /\ child'[s] \in Slot
    <3>1. child[s] \in Slot
      BY DEF IInv, TypeOK
    <3> QED
      BY <2>2, <3>1 DEF Slot
  <2>4. Error("TIMEOUT") \in Answer /\ Error("TIMEOUT").kind # "value"
        /\ Error("TIMEOUT") # Unset
    BY ParallelAssumption DEF Error, Unset, Answer, Errors
  <2>5. TypeOK'
    BY <1>1, <1>2, <1>7, <2>1, <2>2, <2>3, <2>4 DEF IInv, TypeOK
  <2>6. AccountOf(child[s], Job(s))'
    BY <1>1, <1>3, <1>7, <2>3, SlotFacts DEF AccountOf
  <2>7. ToldOf(s, child[s], results[Job(s)])'
    BY <1>1, <1>3, <1>7, <2>2, <2>3, <2>4, SlotFacts DEF ToldOf, Answered
  <2> QED
    BY <1>1, <1>2, <1>3, <1>4, <1>5, <2>2, <2>3, <2>4, <2>5, <2>6, <2>7,
       SlotFacts, SlotInvariant
<1> QED
  BY <1>1, <1>6, <1>7 DEF GiveUpLate

LEMMA ReadChunkInvariant ==
  ASSUME IInv, ReadChunk, NEW s \in Slots, s = at
  PROVE  IInv'
<1>1. /\ pc = "read" /\ s \in ready /\ pipe[child[s].pid] > 0
      /\ pipe' = [pipe EXCEPT ![child[s].pid] = @ - 1]
      /\ child' = [child EXCEPT ![s].len = @ + 1]
      /\ UNCHANGED <<pc, at, base, results, ready, proc, status, killed, late, size,
                     left, heir, ignored>>
  BY DEF ReadChunk
<1>2. s < count /\ Job(s) \in Jobs /\ child[s].pid = Job(s) /\ Job(s)' = Job(s)
  <2>1. child[s].pid # None
    BY <1>1 DEF IInv, SlotsOK
  <2> QED
    BY <1>1, <2>1, SlotFacts DEF Job
<1>3. Places'
  BY <1>1 DEF IInv, Places, count
<1>4. /\ pipe'[Job(s)] = pipe[Job(s)] - 1
      /\ \A j \in Jobs \ {Job(s)} : Same(j) /\ results'[j] = results[j]
  BY <1>1, <1>2 DEF Same, IInv, TypeOK
<1>5. /\ child'[s] = [child[s] EXCEPT !.len = @ + 1]
      /\ \A i \in Slots \ {s} : child'[i] = child[i]
  BY <1>1 DEF IInv, TypeOK, Slot
<1>6. AccountOf(child[s], Job(s)) /\ Job(s) # None
  BY <1>1, <1>2, SlotFacts
<1>7. /\ child[s].len + 1 \in 0 .. MaxChunks
      /\ pipe[Job(s)] - 1 \in 0 .. Capacity
      /\ size[Job(s)] = (child[s].len + 1) + (pipe[Job(s)] - 1) + left[Job(s)]
  <2>1. pipe[Job(s)] \in 0 .. Capacity /\ Capacity \in Nat
    BY <1>2, ParallelAssumption DEF IInv, TypeOK
  <2>2. size[Job(s)] = child[s].len + pipe[Job(s)] + left[Job(s)]
    BY <1>6 DEF AccountOf
  <2> QED
    BY <1>1, <1>2, <2>1, <2>2, SlotFacts
<1>8. /\ child'[s].pid = child[s].pid /\ child'[s].fd = child[s].fd
      /\ child'[s].failed = child[s].failed /\ child'[s].parsed = child[s].parsed
      /\ child'[s].reaped = child[s].reaped /\ child'[s].eof = child[s].eof
      /\ child'[s].len = child[s].len + 1
      /\ child'[s] \in Slot
  <2>1. child[s] \in Slot
    BY DEF IInv, TypeOK
  <2> QED
    BY <1>5, <1>7, <2>1 DEF Slot
<1>9. TypeOK'
  BY <1>1, <1>2, <1>4, <1>5, <1>7, <1>8 DEF IInv, TypeOK
<1>10. AccountOf(child[s], Job(s))'
  BY <1>1, <1>2, <1>4, <1>6, <1>7, <1>8 DEF AccountOf, Running
<1>11. ToldOf(s, child[s], results[Job(s)])'
  BY <1>1, <1>2, <1>8, SlotFacts DEF ToldOf, Answered
<1> QED
  BY <1>1, <1>2, <1>3, <1>4, <1>5, <1>6, <1>8, <1>9, <1>10, <1>11,
     SlotFacts, SlotInvariant

LEMMA ReadEndsInvariant ==
  ASSUME IInv, ReadEnds, NEW s \in Slots, s = at
  PROVE  IInv'
<1>1. /\ pc = "read" /\ NextSlot("wait")
      /\ UNCHANGED <<base, results, ready, process>>
  BY DEF ReadEnds
<1>2. /\ at' \in Slots /\ at' < count
      /\ pc' \in {"read", "wait"}
  BY <1>1, NextSlotFacts DEF IInv
<1>3. Places' /\ Job(s)' = Job(s)
  BY <1>1, <1>2 DEF Places, count, Job
<1>4. \A j \in Jobs : Same(j)
  BY <1>1 DEF Same, process
<1>5. s < count /\ Job(s) \in Jobs /\ ignored' = ignored
  BY <1>1, SlotFacts DEF process
<1>6. CASE UNCHANGED child
  <2>1. TypeOK'
    BY <1>1, <1>2, <1>6 DEF IInv, TypeOK, process
  <2>2. child[s].pid # None => AccountOf(child[s], Job(s))'
    BY <1>1, <1>3, <1>6, SlotFacts DEF AccountOf, Running, process
  <2>3. ToldOf(s, child[s], results[Job(s)])'
    BY <1>1, <1>2, <1>3, <1>6, SlotFacts DEF ToldOf, Answered, process
  <2> QED
    BY <1>1, <1>2, <1>3, <1>4, <1>5, <1>6, <2>1, <2>2, <2>3, SlotFacts, SlotInvariant
       DEF process
<1>7. CASE /\ s \in ready /\ pipe[child[s].pid] = 0 /\ ~Held(child[s].pid)
           /\ child' = [child EXCEPT ![s].fd = FALSE, ![s].eof = TRUE]
  <2>1. child[s].pid = Job(s)
    <3>1. child[s].pid # None
      BY <1>1, <1>7 DEF IInv, SlotsOK
    <3> QED
      BY <1>1, <3>1, SlotFacts
  <2>2. /\ child'[s] = [child[s] EXCEPT !.fd = FALSE, !.eof = TRUE]
        /\ \A i \in Slots \ {s} : child'[i] = child[i]
    BY <1>7 DEF IInv, TypeOK, Slot
  <2>3. /\ child'[s].pid = child[s].pid /\ ~child'[s].fd /\ child'[s].eof
        /\ child'[s].failed = child[s].failed /\ child'[s].parsed = child[s].parsed
        /\ child'[s].reaped = child[s].reaped /\ child'[s].len = child[s].len
        /\ child'[s] \in Slot
    <3>1. child[s] \in Slot
      BY DEF IInv, TypeOK
    <3> QED
      BY <2>2, <3>1 DEF Slot
  <2>4. TypeOK'
    BY <1>1, <1>2, <1>7, <2>2, <2>3 DEF IInv, TypeOK, process
  <2>5. pipe[Job(s)] = 0 /\ ~Running(Job(s))
    BY <1>7, <2>1 DEF Held
  <2>6. child[s].pid # None => AccountOf(child[s], Job(s))'
    BY <1>1, <1>3, <2>3, <2>5, SlotFacts DEF AccountOf, Running, process
  <2>7. ToldOf(s, child[s], results[Job(s)])'
    BY <1>1, <1>2, <1>3, <2>3, SlotFacts DEF ToldOf, Answered, process
  <2> QED
    BY <1>1, <1>2, <1>3, <1>4, <1>5, <2>2, <2>3, <2>4, <2>6, <2>7,
       SlotFacts, SlotInvariant DEF process
<1> QED
  BY <1>6, <1>7 DEF ReadEnds

LEMMA WaitInvariant ==
  ASSUME IInv, Wait, NEW s \in Slots, s = at
  PROVE  IInv'
<1>1. /\ pc = "wait" /\ NextSlot("parse")
      /\ UNCHANGED <<base, ready, status, size, left, pipe, heir, ignored>>
  BY DEF Wait, WaitTelling
<1>2. /\ at' \in Slots /\ at' < count
      /\ pc' = "wait" \/ (pc' = "parse" /\ at' = 0)
  BY <1>1, NextSlotFacts DEF IInv
<1>3. Places' /\ Job(s)' = Job(s)
  BY <1>1, <1>2 DEF Places, count, Job
<1>4. /\ s < count /\ Job(s) \in Jobs /\ Job(s) # None
      /\ \A i \in Slots : at' <= i \/ pc' = "wait"
  BY <1>1, <1>2, SlotFacts
<1>5. CASE UNCHANGED <<child, results, proc, killed, late>>
  <2>1. TypeOK'
    BY <1>1, <1>2, <1>5 DEF IInv, TypeOK
  <2>2. child[s].pid # None => AccountOf(child[s], Job(s))'
    BY <1>1, <1>3, <1>5, SlotFacts DEF AccountOf, Running
  <2>3. ToldOf(s, child[s], results[Job(s)])'
    BY <1>1, <1>2, <1>3, <1>4, <1>5, SlotFacts DEF ToldOf, Answered
  <2>4. \A j \in Jobs : Same(j)
    BY <1>1, <1>5 DEF Same
  <2> QED
    BY <1>1, <1>2, <1>3, <1>4, <1>5, <2>1, <2>2, <2>3, <2>4, SlotFacts, SlotInvariant
<1>6. ASSUME ~WaitedFor(s), NEW failed \in BOOLEAN, NEW r \in Answer,
             child' = [child EXCEPT ![s].reaped = TRUE, ![s].failed = failed],
             results' = [results EXCEPT ![Job(s)] = r],
             proc' = [proc EXCEPT ![Job(s)] = "gone"],
             killed' \in [Jobs -> BOOLEAN], late' \in [Jobs -> BOOLEAN],
             \/ /\ r = results[Job(s)] /\ failed = child[s].failed
                /\ failed \/ status[Job(s)] = "0"
             \/ failed /\ Answered(r) /\ r.kind # "value",
             proc[Job(s)] \in {"zombie", "gone"}
      PROVE  IInv'
  <2>1. child[s].pid = Job(s) /\ ~child[s].reaped
    BY <1>1, <1>6, SlotFacts DEF WaitedFor
  <2>2. /\ child'[s] = [child[s] EXCEPT !.reaped = TRUE, !.failed = failed]
        /\ \A i \in Slots \ {s} : child'[i] = child[i]
        /\ results'[Job(s)] = r /\ proc'[Job(s)] = "gone"
        /\ \A j \in Jobs \ {Job(s)} : Same(j) /\ results'[j] = results[j]
    BY <1>1, <1>4, <1>6 DEF IInv, TypeOK, Slot, Same
  <2>3. /\ child'[s].pid = child[s].pid /\ child'[s].fd = child[s].fd
        /\ child'[s].eof = child[s].eof /\ child'[s].len = child[s].len
        /\ child'[s].parsed = child[s].parsed
        /\ child'[s].reaped /\ child'[s].failed = failed
        /\ child'[s] \in Slot
    <3>1. child[s] \in Slot
      BY DEF IInv, TypeOK
    <3> QED
      BY <2>2, <3>1 DEF Slot
  <2>4. TypeOK'
    BY <1>1, <1>2, <1>6, <2>2, <2>3 DEF IInv, TypeOK
  <2>5. AccountOf(child[s], Job(s))'
    BY <1>1, <1>3, <1>4, <1>6, <2>1, <2>2, <2>3, SlotFacts DEF AccountOf, Running
  <2>6. ToldOf(s, child[s], results[Job(s)])'
    BY <1>1, <1>2, <1>3, <1>4, <1>6, <2>1, <2>2, <2>3, SlotFacts DEF ToldOf, Answered
  <2>7. /\ proc'[Job(s)] \in {"zombie", "gone"} /\ status'[Job(s)] = "0" => left'[Job(s)] = 0
        /\ results'[Job(s)].kind = "value" =>
             /\ results'[Job(s)] = Value(Job(s), size'[Job(s)])
             /\ status'[Job(s)] = "0" /\ proc'[Job(s)] = "gone"
    BY <1>1, <1>6, <2>2, SlotFacts
  <2> QED
    BY <1>1, <1>2, <1>3, <1>4, <2>1, <2>2, <2>3, <2>4, <2>5, <2>6, <2>7, SlotInvariant
<1>7. ASSUME ~WaitedFor(s), proc[child[s].pid] = "zombie",
             proc' = [proc EXCEPT ![child[s].pid] = "gone"],
             killed' = [killed EXCEPT ![child[s].pid] = FALSE],
             late' = [late EXCEPT ![child[s].pid] = FALSE],
             IF ~child[s].failed /\ status[child[s].pid] # "0"
             THEN /\ child' = [child EXCEPT ![s].reaped = TRUE, ![s].failed = TRUE]
                  /\ Fails(s, Reason(status[child[s].pid]))
             ELSE /\ child' = [child EXCEPT ![s].reaped = TRUE]
                  /\ UNCHANGED results
      PROVE  IInv'
  <2>1. child[s].pid = Job(s)
    BY <1>1, <1>7, SlotFacts DEF WaitedFor
  <2>2. /\ killed' \in [Jobs -> BOOLEAN] /\ late' \in [Jobs -> BOOLEAN]
    BY <1>7 DEF IInv, TypeOK
  <2>3. CASE ~child[s].failed /\ status[Job(s)] # "0"
    <3>1. PICK r : r = Error(Reason(status[Job(s)]))
      OBVIOUS
    <3>2. r \in Answer /\ Answered(r) /\ r.kind # "value"
      BY <3>1, ParallelAssumption DEF Error, Reason, Answer, Answered, Unset, Errors
    <3>3. results' = [results EXCEPT ![Job(s)] = r]
      BY <1>7, <2>1, <2>3, <3>1 DEF Fails
    <3> QED
      BY <1>6, <1>7, <2>1, <2>2, <2>3, <3>2, <3>3
  <2>4. CASE child[s].failed \/ status[Job(s)] = "0"
    <3>1. PICK r \in Answer : r = results[Job(s)]
      BY <1>4 DEF IInv, TypeOK
    <3>2. PICK failed \in BOOLEAN : failed = child[s].failed
      BY DEF IInv, TypeOK, Slot
    <3>3. results' = [results EXCEPT ![Job(s)] = r]
      BY <1>7, <2>1, <2>4, <3>1 DEF IInv, TypeOK
    <3>4. child' = [child EXCEPT ![s].reaped = TRUE, ![s].failed = failed]
      BY <1>7, <2>1, <2>4, <3>2 DEF IInv, TypeOK, Slot
    <3> QED
      BY <1>6, <1>7, <2>1, <2>2, <2>4, <3>1, <3>2, <3>3, <3>4
  <2> QED
    BY <2>3, <2>4
<1>8. ASSUME ~WaitedFor(s), proc[child[s].pid] = "gone",
             child' = [child EXCEPT ![s].reaped = TRUE, ![s].failed = TRUE],
             Fails(s, "WAIT"), UNCHANGED <<proc, killed, late>>
      PROVE  IInv'
  <2>1. child[s].pid = Job(s)
    BY <1>1, <1>8, SlotFacts DEF WaitedFor
  <2>2. PICK r : r = Error("WAIT")
    OBVIOUS
  <2>3. r \in Answer /\ Answered(r) /\ r.kind # "value"
    BY <2>2, ParallelAssumption DEF Error, Answer, Answered, Unset, Errors
  <2>4. /\ results' = [results EXCEPT ![Job(s)] = r]
        /\ proc' = [proc EXCEPT ![Job(s)] = "gone"]
        /\ killed' \in [Jobs -> BOOLEAN] /\ late' \in [Jobs -> BOOLEAN]
    BY <1>4, <1>8, <2>1, <2>2 DEF Fails, IInv, TypeOK
  <2>5. TRUE \in BOOLEAN /\ proc[Job(s)] \in {"zombie", "gone"}
    BY <1>8, <2>1
  <2> QED
    BY <1>6, <1>8, <2>3, <2>4, <2>5
<1> QED
  BY <1>1, <1>5, <1>7, <1>8 DEF Wait, WaitTelling

LEMMA ParseInvariant ==
  ASSUME IInv, Parse, NEW s \in Slots, s = at
  PROVE  IInv'
<1>1. /\ pc = "parse" /\ NextSlot("scan")
      /\ UNCHANGED <<base, ready, process>>
  BY DEF Parse, ParseInto
<1>2. /\ at' \in Slots /\ at' < count
      /\ \/ pc' = "parse" /\ at' = s + 1
         \/ pc' = "scan" /\ at' = 0 /\ s + 1 = count
  BY <1>1, NextSlotFacts DEF IInv
<1>3. Places' /\ Job(s)' = Job(s)
  BY <1>1, <1>2 DEF Places, count, Job
<1>4. \A j \in Jobs : Same(j)
  BY <1>1 DEF Same, process
<1>5. /\ s < count /\ Job(s) \in Jobs /\ Job(s) # None
      /\ \A i \in Slots : i < count /\ i # s /\ at <= i => pc' = "parse" /\ at' <= i
  BY <1>1, <1>2, SlotFacts
<1>6. CASE /\ UNCHANGED <<child, results>>
           /\ ~(/\ child[s].pid # None /\ child[s].reaped /\ child[s].eof
                /\ ~child[s].failed /\ ~child[s].parsed)
  <2>1. TypeOK'
    BY <1>1, <1>2, <1>6 DEF IInv, TypeOK, process
  <2>2. child[s].pid # None => AccountOf(child[s], Job(s))'
    BY <1>1, <1>3, <1>6, SlotFacts DEF AccountOf, Running, process
  <2>3. ToldOf(s, child[s], results[Job(s)])'
    BY <1>1, <1>3, <1>6, SlotFacts DEF ToldOf, Answered, process
  <2> QED
    BY <1>1, <1>2, <1>3, <1>4, <1>5, <1>6, <2>1, <2>2, <2>3, SlotFacts, SlotInvariant
       DEF process
<1>7. CASE /\ child[s].pid # None /\ child[s].reaped /\ child[s].eof
           /\ ~child[s].failed /\ ~child[s].parsed
           /\ child' = [child EXCEPT ![s].parsed = TRUE]
           /\ results' = [results EXCEPT ![Job(s)] =
                IF child[s].len = 0 THEN Error("NO_RESULT")
                                    ELSE Value(child[s].pid, child[s].len)]
  <2>1. PICK r : r = IF child[s].len = 0 THEN Error("NO_RESULT")
                                         ELSE Value(Job(s), child[s].len)
    OBVIOUS
  <2>2. child[s].pid = Job(s)
    BY <1>1, <1>7, SlotFacts
  <2>3. child[s].len = size[Job(s)] /\ status[Job(s)] = "0" /\ proc[Job(s)] = "gone"
    <3>1. /\ size[Job(s)] = child[s].len + pipe[Job(s)] + left[Job(s)]
          /\ pipe[Job(s)] = 0 /\ proc[Job(s)] = "gone" /\ status[Job(s)] = "0"
      BY <1>1, <1>7, SlotFacts DEF AccountOf
    <3> QED
      BY <1>1, <3>1, SlotFacts
  <2>4. /\ r \in Answer /\ Answered(r)
        /\ r.kind = "value" => r = Value(Job(s), size[Job(s)])
    <3>1. child[s].len \in 0 .. MaxChunks
      BY DEF IInv, TypeOK, Slot
    <3> QED
      BY <1>5, <2>1, <2>3, <3>1, ParallelAssumption
         DEF Error, Value, Answer, Answered, Unset, Errors
  <2>5. /\ child'[s] = [child[s] EXCEPT !.parsed = TRUE]
        /\ \A i \in Slots \ {s} : child'[i] = child[i]
        /\ results' = [results EXCEPT ![Job(s)] = r]
    BY <1>7, <2>1, <2>2 DEF IInv, TypeOK, Slot
  <2>6. /\ results'[Job(s)] = r
        /\ \A j \in Jobs \ {Job(s)} : results'[j] = results[j]
    BY <1>5, <2>5 DEF IInv, TypeOK
  <2>7. /\ child'[s].pid = child[s].pid /\ child'[s].fd = child[s].fd
        /\ child'[s].eof = child[s].eof /\ child'[s].len = child[s].len
        /\ child'[s].reaped = child[s].reaped /\ child'[s].failed = child[s].failed
        /\ child'[s].parsed /\ child'[s] \in Slot
    <3>1. child[s] \in Slot
      BY DEF IInv, TypeOK
    <3> QED
      BY <2>5, <3>1 DEF Slot
  <2>8. TypeOK'
    <3>0. child' = [child EXCEPT ![s].parsed = TRUE]
      BY <1>7
    <3>1. child' \in [Slots -> Slot] /\ results' \in [Jobs -> Answer]
      BY <2>4, <2>5, <2>7, <3>0 DEF IInv, TypeOK
    <3> QED
      BY <1>1, <1>2, <3>1 DEF IInv, TypeOK, process
  <2>9. AccountOf(child[s], Job(s))'
    BY <1>1, <1>3, <1>7, <2>7, SlotFacts DEF AccountOf, Running, process
  <2>10. ToldOf(s, child[s], results[Job(s)])'
    BY <1>1, <1>3, <1>7, <2>2, <2>4, <2>6, <2>7, SlotFacts DEF ToldOf, Answered, process
  <2> QED
    <3>1. Same(Job(s)) /\ UNCHANGED <<base, ready, ignored, proc, status, size, left, pipe>>
      BY <1>1, <1>4, <1>5 DEF process
    <3>2. /\ proc'[Job(s)] \in {"run", "astray", "none"} =>
               size'[Job(s)] = 0 /\ left'[Job(s)] = 0 /\ pipe'[Job(s)] = 0
          /\ proc'[Job(s)] \in {"zombie", "gone"} /\ status'[Job(s)] = "0" =>
               left'[Job(s)] = 0
          /\ results'[Job(s)].kind = "value" =>
               /\ results'[Job(s)] = Value(Job(s), size'[Job(s)])
               /\ status'[Job(s)] = "0" /\ proc'[Job(s)] = "gone"
      BY <1>1, <2>3, <2>4, <2>6, <3>1, SlotFacts
    <3>3. child[s].reaped /\ \A i \in Slots \ {s} : child'[i] = child[i]
      BY <1>7, <2>5
    <3> QED
      BY <1>1, <1>2, <1>3, <1>4, <1>5, <2>6, <2>7, <2>8, <2>9, <2>10,
         <3>1, <3>2, <3>3, SlotInvariant
<1> QED
  BY <1>6, <1>7 DEF Parse, ParseInto

(* A pass that only decides which pipes to read.                           *)
LEMMA PhaseInvariant ==
  ASSUME IInv, TypeOK', pc = "poll", pc' \in {"wait", "read"},
         UNCHANGED <<at, base, child, results, proc, status, size, left, pipe, ignored>>,
         pc' = "read" => \A i \in ready' : child[i].pid # None
  PROVE  IInv'
<1>1. Places' /\ SlotsOK'
  BY DEF IInv, Places, SlotsOK, count, Job
<1>2. Accounts' /\ Waited'
  BY DEF IInv, Accounts, AccountOf, Running, Waited, Job
<1>3. Procs' /\ Untouched'
  BY DEF IInv, Procs, Untouched
<1>4. Told'
  BY DEF IInv, Told, ToldOf, Begun, count, Job, Answered
<1>5. Own' /\ BatchSettled'
  BY DEF IInv, Own, BatchSettled, Answered
<1> QED
  BY <1>1, <1>2, <1>3, <1>4, <1>5 DEF IInv

LEMMA PollInvariant ==
  ASSUME IInv, Poll \/ PollFails
  PROVE  IInv'
<1>0. \A i \in 0 .. count - 1 : i \in Slots
  BY BatchFacts DEF IInv, Slots
<1>1. CASE Poll
  <2>1. /\ pc = "poll" /\ ready' = {i \in 0 .. count - 1 : Readable(i)}
        /\ pc' \in {"wait", "read"}
        /\ UNCHANGED <<at, base, child, results, process>>
    BY <1>1 DEF Poll
  <2>2. TypeOK'
    BY <1>0, <2>1 DEF IInv, TypeOK, process
  <2>3. \A i \in ready' : child[i].pid # None
    BY <1>0, <2>1 DEF Readable, Open, IInv, SlotsOK
  <2> QED
    BY <2>1, <2>2, <2>3, PhaseInvariant DEF process
<1>2. CASE PollFails
  <2>1. /\ pc = "poll" /\ ready' = {} /\ pc' = "wait" /\ killed' \in [Jobs -> BOOLEAN]
        /\ UNCHANGED <<at, base, child, results, proc, status, late, size, left, pipe,
                       heir, ignored>>
    BY <1>2 DEF PollFails, IInv, TypeOK
  <2>2. TypeOK'
    BY <2>1 DEF IInv, TypeOK
  <2> QED
    BY <2>1, <2>2, PhaseInvariant
<1> QED
  BY <1>1, <1>2

LEMMA InitInvariant ==
  ASSUME Init
  PROVE  IInv
<1>1. /\ N \in Nat /\ N > 0 /\ Width \in Nat /\ Width > 0
      /\ MaxChunks \in Nat /\ Capacity \in Nat
  BY ParallelAssumption
<1>2. 0 \in Slots /\ 0 \in Jobs
  BY <1>1 DEF Slots, Jobs
<1>3. Empty \in Slot /\ Unset \in Answer /\ Unset.kind # "value"
  BY <1>1 DEF Empty, Slot, Unset, Error, Answer
<1>4. TypeOK
  BY <1>1, <1>2, <1>3, ParallelAssumption DEF Init, TypeOK, Statuses
<1>5. Places /\ Waited /\ Accounts /\ SlotsOK
  BY <1>1, None = -1 DEF Init, Places, count, Waited, Accounts, SlotsOK, Empty, None
<1>6. Procs /\ Untouched /\ Own
  BY <1>1, <1>3 DEF Init, Procs, Untouched, Own, Running
<1>7. Told /\ BatchSettled
  BY <1>1 DEF Init, Told, Begun, BatchSettled, Slots, Jobs
<1> QED
  BY <1>4, <1>5, <1>6, <1>7 DEF IInv

(* A job's turn: c is what its slot becomes, r its answer.                 *)
LEMMA ForkInvariant ==
  ASSUME IInv, Fork, NEW s \in Slots, s = at
  PROVE  IInv'
<1>1. /\ pc = "fork" /\ NextSlot("scan")
      /\ UNCHANGED <<base, ready, status, late, size, left, pipe, heir, ignored>>
  BY DEF Fork, Unforked, Forked, process
<1>2. /\ s \in Nat /\ s < count /\ Job(s) \in Jobs /\ None \notin Jobs /\ base \in Nat
      /\ Job(s) = base + s /\ Width \in Nat /\ N \in Nat /\ s < Width
      /\ \A i, k \in Slots : Job(i) = Job(k) => i = k
      /\ \A i \in Slots : i \in Nat /\ i < Width /\ (i < count <=> Job(i) \in Jobs)
  BY BatchFacts DEF IInv, Job
<1>3. /\ at' \in Slots /\ at' < count
      /\ \/ pc' = "fork" /\ at' = s + 1
         \/ pc' = "scan" /\ at' = 0 /\ s + 1 = count
  BY <1>1, NextSlotFacts DEF IInv
<1>4. Places' /\ count' = count /\ \A i : Job(i)' = Job(i)
  BY <1>1, <1>3 DEF Places, count, Job
<1>5. /\ child[s] = Empty /\ proc[Job(s)] = "none" /\ results[Job(s)] = Unset
      /\ size[Job(s)] = 0 /\ left[Job(s)] = 0 /\ pipe[Job(s)] = 0
  BY <1>1, <1>2 DEF IInv, SlotsOK, Untouched, Procs, Jobs
<1>6. /\ \A i \in Slots : child[i] \in Slot
      /\ \A i \in Slots : child[i].pid # None => Job(i) \in Jobs
      /\ DOMAIN child = Slots /\ DOMAIN results = Jobs /\ DOMAIN proc = Jobs
  BY DEF IInv, TypeOK, SlotsOK, Slot
<1>7. ASSUME NEW c \in Slot, NEW r \in Answer, NEW p \in {"none", "run"},
             child' = [child EXCEPT ![s] = c],
             results' = [results EXCEPT ![Job(s)] = r],
             proc' = [proc EXCEPT ![Job(s)] = p],
             killed' \in [Jobs -> BOOLEAN],
             ~c.parsed, r.kind # "value",
             \/ /\ c.pid = None /\ ~c.fd /\ p = "none" /\ Answered(r)
             \/ /\ c.pid = Job(s) /\ p = "run" /\ c.len = 0 /\ ~c.reaped
                /\ \/ c.failed /\ Answered(r)
                   \/ ~c.failed /\ ~c.eof /\ r = Unset
      PROVE  IInv'
  <2>1. /\ child'[s] = c /\ \A i \in Slots \ {s} : child'[i] = child[i]
        /\ results'[Job(s)] = r /\ \A j \in Jobs \ {Job(s)} : results'[j] = results[j]
        /\ proc'[Job(s)] = p /\ \A j \in Jobs \ {Job(s)} : proc'[j] = proc[j]
    BY <1>2, <1>6, <1>7
  <2>2. TypeOK'
    <3>1. /\ child' \in [Slots -> Slot] /\ results' \in [Jobs -> Answer]
          /\ proc' \in [Jobs -> {"none", "run", "write", "astray", "zombie", "gone"}]
      BY <1>7 DEF IInv, TypeOK
    <3> QED
      BY <1>1, <1>3, <1>7, <3>1 DEF IInv, TypeOK
  <2>3. SlotsOK'
    <3> SUFFICES ASSUME NEW i \in Slots
                 PROVE  /\ child'[i].pid \in {None, Job(i)}
                        /\ child'[i].fd => child'[i].pid # None
                        /\ pc' = "fork" /\ at' <= i => child'[i] = Empty
      BY <1>3, <1>4 DEF SlotsOK
    <3>1. CASE i = s
      BY <1>2, <1>3, <1>7, <2>1, <3>1
    <3>2. CASE i # s
      <4>1. /\ child[i].pid \in {None, Job(i)}
            /\ child[i].fd => child[i].pid # None
            /\ at <= i => child[i] = Empty
        BY <1>1 DEF IInv, SlotsOK
      <4>2. pc' = "fork" /\ at' <= i => at <= i
        BY <1>2, <1>3
      <4> QED
        BY <2>1, <3>2, <4>1, <4>2
    <3> QED
      BY <3>1, <3>2
  <2>4. Accounts' /\ Waited'
    <3> SUFFICES ASSUME NEW i \in Slots, child'[i].pid # None
                 PROVE  /\ AccountOf(child[i], Job(i))'
                        /\ ~child'[i].reaped /\ ~ignored => proc'[Job(i)] # "gone"
      BY <1>1, <1>4 DEF Accounts, Waited
    <3>1. CASE i = s
      <4>1. child'[i] = c /\ proc'[Job(i)] = "run" /\ Job(i) = Job(s)
        BY <1>7, <2>1, <3>1
      <4> QED
        BY <1>1, <1>4, <1>5, <1>7, <4>1 DEF AccountOf, Running
    <3>2. CASE i # s
      <4>1. /\ AccountOf(child[i], Job(i)) /\ child'[i] = child[i]
            /\ ~child[i].reaped /\ ~ignored => proc[Job(i)] # "gone"
        BY <2>1, <3>2 DEF IInv, Accounts, Waited
      <4>2. proc'[Job(i)] = proc[Job(i)]
        BY <1>2, <1>6, <2>1, <3>2
      <4> QED
        BY <1>1, <1>4, <4>1, <4>2 DEF AccountOf, Running
    <3> QED
      BY <3>1, <3>2
  <2>5. Procs'
    <3> SUFFICES ASSUME NEW j \in Jobs
                 PROVE  /\ proc'[j] \in {"none", "run", "astray"} =>
                             size[j] = 0 /\ left[j] = 0 /\ pipe[j] = 0
                        /\ proc'[j] \in {"zombie", "gone"} /\ status[j] = "0" => left[j] = 0
      BY <1>1 DEF Procs
    <3>1. CASE j = Job(s)
      BY <1>5, <2>1, <3>1
    <3>2. CASE j # Job(s)
      BY <2>1, <3>2 DEF IInv, Procs
    <3> QED
      BY <3>1, <3>2
  <2>6. Untouched'
    <3> SUFFICES ASSUME NEW j \in Jobs,
                        j >= base + Width \/ (pc' = "fork" /\ j >= base + at')
                 PROVE  proc'[j] = "none" /\ results'[j] = Unset
      BY <1>1 DEF Untouched
    <3>0. j \in Int /\ base \in Nat /\ s \in Nat /\ Width \in Nat /\ s < Width
          /\ Job(s) = base + s /\ (pc' = "fork" => at' = s + 1)
      BY <1>2, <1>3 DEF Jobs
    <3>1. j # Job(s) /\ (j >= base + Width \/ j >= base + at)
      BY <3>0
    <3> QED
      BY <1>1, <2>1, <3>1 DEF IInv, Untouched
  <2>7. Told'
    <3> SUFFICES ASSUME NEW i \in Slots, Begun(i)'
                 PROVE  ToldOf(i, child[i], results[Job(i)])'
      BY DEF Told
    <3>1. CASE i = s
      <4>1. child'[i] = c /\ results'[Job(i)] = r /\ proc'[Job(i)] = p
        BY <2>1, <3>1
      <4> QED
        BY <1>2, <1>4, <1>7, <4>1, <3>1 DEF ToldOf, Answered
    <3>2. CASE i # s
      <4>1. Begun(i)
        BY <1>1, <1>2, <1>3, <1>4, <3>2 DEF Begun
      <4>2. ToldOf(i, child[i], results[Job(i)])
        BY <4>1 DEF IInv, Told
      <4>3. /\ child'[i] = child[i] /\ results'[Job(i)] = results[Job(i)]
            /\ proc'[Job(i)] = proc[Job(i)]
        BY <1>2, <2>1, <3>2, <4>1 DEF Begun
      <4> QED
        BY <1>1, <1>4, <4>2, <4>3 DEF ToldOf, Answered
    <3> QED
      BY <3>1, <3>2
  <2>8. Own'
    <3> SUFFICES ASSUME NEW j \in Jobs, results'[j].kind = "value"
                 PROVE  results'[j] = Value(j, size[j]) /\ status[j] = "0" /\ proc'[j] = "gone"
      BY <1>1 DEF Own, Value
    <3>1. j # Job(s)
      BY <1>7, <2>1
    <3> QED
      BY <2>1, <3>1 DEF IInv, Own
  <2>9. BatchSettled'
    <3> SUFFICES ASSUME NEW j \in Jobs, j < base
                 PROVE  proc'[j] \in {"none", "gone"} /\ results'[j] # Unset
      BY <1>1, <1>3 DEF BatchSettled, Answered
    <3>1. j # Job(s)
      BY <1>2 DEF Jobs
    <3> QED
      BY <2>1, <3>1 DEF IInv, BatchSettled, Answered
  <2> QED
    BY <1>4, <2>2, <2>3, <2>4, <2>5, <2>6, <2>7, <2>8, <2>9 DEF IInv
<1>8. ASSUME NEW e \in {"NOT_FUNCTION", "PIPE", "FORK"}, Unforked(s, e)
      PROVE  IInv'
  <2>1. PICK c : c = [Empty EXCEPT !.reaped = TRUE, !.eof = TRUE]
    OBVIOUS
  <2>2. c \in Slot /\ ~c.parsed /\ c.pid = None /\ ~c.fd
    <3>1. c = [pid |-> None, fd |-> FALSE, reaped |-> TRUE, eof |-> TRUE,
               failed |-> FALSE, parsed |-> FALSE, len |-> 0]
      BY <2>1 DEF Empty
    <3> QED
      BY <3>1, ParallelAssumption DEF Slot
  <2>3. PICK r : r = Error(e)
    OBVIOUS
  <2>4. r \in Answer /\ r.kind # "value" /\ Answered(r)
    BY <2>3, ParallelAssumption DEF Error, Answer, Answered, Unset, Errors
  <2>5. /\ child' = [child EXCEPT ![s] = c]
        /\ results' = [results EXCEPT ![Job(s)] = r]
        /\ proc' = [proc EXCEPT ![Job(s)] = "none"]
        /\ killed' \in [Jobs -> BOOLEAN]
    BY <1>5, <1>6, <1>8, <2>1, <2>3 DEF Unforked, Fails, process, IInv, TypeOK
  <2> QED
    BY <1>7, <2>2, <2>4, <2>5
<1>9. ASSUME Forked(s)
      PROVE  IInv'
  <2>1. proc' = [proc EXCEPT ![Job(s)] = "run"]
    BY <1>9 DEF Forked
  <2>2. CASE /\ child' = [child EXCEPT ![s] = [Empty EXCEPT !.pid = Job(s), !.fd = TRUE]]
             /\ UNCHANGED <<results, killed>>
    <3>1. PICK c : c = [Empty EXCEPT !.pid = Job(s), !.fd = TRUE]
      OBVIOUS
    <3>2. /\ c \in Slot /\ c.pid = Job(s) /\ c.len = 0 /\ ~c.parsed /\ ~c.reaped
          /\ ~c.failed /\ ~c.eof
      <4>1. c = [pid |-> Job(s), fd |-> TRUE, reaped |-> FALSE, eof |-> FALSE,
                 failed |-> FALSE, parsed |-> FALSE, len |-> 0]
        BY <3>1 DEF Empty
      <4> QED
        BY <1>2, <4>1, ParallelAssumption DEF Slot
    <3>3. PICK r : r = Unset
      OBVIOUS
    <3>4. r \in Answer /\ r.kind # "value"
      BY <3>3, ParallelAssumption DEF Error, Answer, Unset
    <3>5. /\ child' = [child EXCEPT ![s] = c]
          /\ results' = [results EXCEPT ![Job(s)] = r]
          /\ killed' \in [Jobs -> BOOLEAN]
      BY <1>5, <1>6, <2>2, <3>1, <3>3 DEF IInv, TypeOK
    <3> QED
      BY <1>7, <2>1, <3>2, <3>3, <3>4, <3>5
  <2>3. CASE /\ child' = [child EXCEPT ![s] = [Empty EXCEPT !.pid = Job(s), !.failed = TRUE,
                                                            !.eof = TRUE]]
             /\ Fails(s, "MEMORY")
             /\ killed' = [killed EXCEPT ![Job(s)] = TRUE]
    <3>1. PICK c : c = [Empty EXCEPT !.pid = Job(s), !.failed = TRUE, !.eof = TRUE]
      OBVIOUS
    <3>2. /\ c \in Slot /\ c.pid = Job(s) /\ c.len = 0 /\ ~c.parsed /\ ~c.reaped
          /\ c.failed
      <4>1. c = [pid |-> Job(s), fd |-> FALSE, reaped |-> FALSE, eof |-> TRUE,
                 failed |-> TRUE, parsed |-> FALSE, len |-> 0]
        BY <3>1 DEF Empty
      <4> QED
        BY <1>2, <4>1, ParallelAssumption DEF Slot
    <3>3. PICK r : r = Error("MEMORY")
      OBVIOUS
    <3>4. r \in Answer /\ r.kind # "value" /\ Answered(r)
      BY <3>3, ParallelAssumption DEF Error, Answer, Answered, Unset, Errors
    <3>5. /\ child' = [child EXCEPT ![s] = c]
          /\ results' = [results EXCEPT ![Job(s)] = r]
          /\ killed' \in [Jobs -> BOOLEAN]
      BY <2>3, <3>1, <3>3 DEF Fails, IInv, TypeOK
    <3> QED
      BY <1>7, <2>1, <3>2, <3>4, <3>5
  <2> QED
    BY <1>9, <2>2, <2>3 DEF Forked
<1> QED
  BY <1>8, <1>9 DEF Fork

(* When no slot is busy, every job of the batch is answered and its child   *)
(* has been waited for.                                                    *)
LEMMA BatchEndsInvariant ==
  ASSUME IInv, BatchEnds
  PROVE  IInv'
<1>1. /\ pc = "poll" /\ at = 0 /\ child' = [i \in Slots |-> Empty]
      /\ \A i \in 0 .. count - 1 : child[i].reaped /\ child[i].eof
      /\ UNCHANGED <<at, results, ready, process>>
      /\ \/ base + Width < N /\ base' = base + Width /\ pc' = "fork"
         \/ ~(base + Width < N) /\ base' = base /\ pc' = "done"
  <2>1. \A i \in 0 .. count - 1 : i \in Slots
    BY BatchFacts DEF IInv, Slots
  <2>2. \A i \in 0 .. count - 1 : ~Busy(i)
    BY <2>1 DEF BatchEnds, BatchEndsUnless
  <2>3. pc = "poll" /\ at = 0
    BY DEF BatchEnds, BatchEndsUnless, IInv, Places
  <2>4. /\ child' = [i \in Slots |-> Empty]
        /\ UNCHANGED <<at, results, ready, process>>
        /\ \/ base + Width < N /\ base' = base + Width /\ pc' = "fork"
           \/ ~(base + Width < N) /\ base' = base /\ pc' = "done"
    BY DEF BatchEnds, BatchEndsUnless
  <2>5. \A i \in 0 .. count - 1 : child[i].reaped /\ child[i].eof
    BY <2>1, <2>2 DEF Busy, IInv, TypeOK, Slot
  <2> QED
    BY <2>3, <2>4, <2>5
<1>2. /\ N \in Nat /\ Width \in Nat /\ Width > 0 /\ base \in Nat /\ base < N
      /\ count \in Nat /\ count <= Width /\ 0 \in Slots /\ None \notin Jobs
      /\ \A i \in Slots : i \in Nat
      /\ MaxChunks \in Nat
  BY BatchFacts, ParallelAssumption DEF IInv, Slots
<1>3. \A j \in Jobs : j < base + count => proc[j] \in {"none", "gone"} /\ Answered(results[j])
  <2> SUFFICES ASSUME NEW j \in Jobs, j < base + count
               PROVE  proc[j] \in {"none", "gone"} /\ Answered(results[j])
    OBVIOUS
  <2>1. CASE j < base
    BY <2>1 DEF IInv, BatchSettled
  <2>2. CASE j >= base
    <3>1. PICK i \in Nat : i = j - base
      BY <1>2, <2>2 DEF Jobs
    <3>2. i \in Slots /\ i < count /\ Job(i) = j /\ i \in 0 .. count - 1
      BY <1>2, <3>1 DEF Slots, Job, Jobs
    <3>3. /\ ToldOf(i, child[i], results[j])
          /\ child[i].pid # None => AccountOf(child[i], j)
      BY <1>1, <3>2 DEF IInv, Told, Begun, Accounts
    <3>4. child[i].reaped /\ child[i].eof
      BY <1>1, <3>2
    <3> QED
      BY <1>1, <3>2, <3>3, <3>4 DEF ToldOf, AccountOf
  <2> QED
    BY <1>2, <2>1, <2>2 DEF Jobs
<1>4. \A j \in Jobs : pc' = "done" \/ j < base' => j < base + count
  BY <1>1, <1>2 DEF count, Jobs
<1>5. UNCHANGED <<proc, status, killed, late, size, left, pipe, heir, ignored>>
  BY <1>1 DEF process
<1>6. Empty \in Slot /\ Empty.pid = None /\ ~Empty.fd
  BY <1>2 DEF Empty, Slot
<1>7. \A i \in Slots : child'[i] = Empty
  BY <1>1
<1>8. TypeOK'
  <2>1. child' \in [Slots -> Slot]
    BY <1>1, <1>6
  <2>2. base' \in Jobs
    BY <1>1, <1>2 DEF IInv, TypeOK, Jobs
  <2> QED
    BY <1>1, <1>5, <2>1, <2>2 DEF IInv, TypeOK
<1>9. Places'
  BY <1>1, <1>2 DEF Places, count
<1>10. SlotsOK' /\ Accounts' /\ Waited'
  BY <1>1, <1>6, <1>7 DEF SlotsOK, Accounts, Waited
<1>11. Procs' /\ Own'
  BY <1>1, <1>5 DEF IInv, Procs, Own
<1>12. Untouched'
  <2> SUFFICES ASSUME NEW j \in Jobs,
                      j >= base' + Width \/ (pc' = "fork" /\ j >= base' + at')
               PROVE  proc[j] = "none" /\ results[j] = Unset
    BY <1>1, <1>5 DEF Untouched
  <2>1. j >= base + Width
    BY <1>1, <1>2 DEF Jobs
  <2> QED
    BY <2>1 DEF IInv, Untouched
<1>13. Told'
  BY <1>1, <1>2 DEF Told, Begun
<1>14. BatchSettled'
  BY <1>1, <1>3, <1>4, <1>5 DEF BatchSettled, Answered
<1> QED
  BY <1>8, <1>9, <1>10, <1>11, <1>12, <1>13, <1>14 DEF IInv

-----------------------------------------------------------------------------
LEMMA StepInvariant ==
  ASSUME IInv, [Next]_vars
  PROVE  IInv'
<1>1. \E s \in Slots : s = at
  BY DEF IInv, TypeOK
<1>2. CASE Fork \/ Scan \/ ReadChunk \/ ReadEnds \/ Wait \/ Parse
  BY <1>1, <1>2, ForkInvariant, ScanInvariant, ReadChunkInvariant, ReadEndsInvariant,
     WaitInvariant, ParseInvariant
<1>3. CASE BatchEnds
  BY <1>3, BatchEndsInvariant
<1>4. CASE Poll \/ PollFails
  BY <1>4, PollInvariant
<1>5. CASE \E j \in Jobs : \/ Callback(j) \/ Write(j) \/ Finish(j) \/ Killed(j)
                           \/ AstrayEnds(j) \/ Environment(j)
  BY <1>5, ChildInvariant
<1>6. CASE Done \/ UNCHANGED vars
  <2>1. UNCHANGED <<caller, process>>
    BY <1>6 DEF Done, vars
  <2>2. TypeOK'
    BY <2>1 DEF IInv, TypeOK, caller, process
  <2> QED
    BY <2>1, <2>2, NothingInvariant DEF process
<1> QED
  BY <1>2, <1>3, <1>4, <1>5, <1>6 DEF Next, CallerStep

(* In every run of fl_run_parallel and its children (fl_parallel_child) the *)
(* invariant holds: each slot belongs to the job at its place in the batch, *)
(* says only what is true of that job's process, and is answered when it    *)
(* should be; and the chunks of a result are conserved on their way.        *)
THEOREM Invariance == Spec => []IInv
<1>1. Init => IInv
  BY InitInvariant
<1>2. IInv /\ [Next]_vars => IInv'
  BY StepInvariant
<1> QED
  BY <1>1, <1>2, PTL DEF Spec

(* child[], results[] and what the processes hold have their types; a slot  *)
(* never reads more than FL_PARALLEL_RESULT_MAX of its child.               *)
THEOREM TypeCorrect == Spec => []TypeOK
<1>1. IInv => TypeOK
  BY DEF IInv
<1> QED
  BY <1>1, Invariance, PTL

(* What fl_run_parallel returns for a job, unless it is an error, is the    *)
(* whole result of that job, and its child ended with status 0.             *)
THEOREM OwnResultHolds == Spec => []OwnResult
<1>1. IInv => OwnResult
  BY DEF IInv, Own, OwnResult
<1> QED
  BY <1>1, Invariance, PTL

(* fl_run_parallel neither returns nor forks the next batch before every    *)
(* child of the last one has been reaped and every job of it is answered.   *)
THEOREM BatchSettledHolds == Spec => []BatchSettled
<1>1. IInv => BatchSettled
  BY DEF IInv
<1> QED
  BY <1>1, Invariance, PTL

-----------------------------------------------------------------------------
(* A step answers a job that has no answer yet, if its children leave       *)
(* zombies.                                                                *)
LEMMA StepAnswersOnce ==
  ASSUME IInv, ~ignored, [Next]_vars
  PROVE  \A j \in Jobs : Answered(results[j]) => results'[j] = results[j]
<1>1. PICK s \in Slots : s = at
  BY DEF IInv, TypeOK
<1>2. /\ Job(s) \in Jobs /\ results \in [Jobs -> Answer]
  BY <1>1, BatchFacts DEF IInv, TypeOK
<1>3. SUFFICES \/ UNCHANGED results
               \/ /\ \E r : results' = [results EXCEPT ![Job(s)] = r]
                  /\ results[Job(s)] = Unset
  BY <1>2 DEF Answered
<1>4. CASE Fork
  <2>1. results[Job(s)] = Unset
    BY <1>1, <1>2, <1>4, BatchFacts DEF Fork, IInv, Untouched, Job
  <2>2. UNCHANGED results \/ \E r : results' = [results EXCEPT ![Job(s)] = r]
    BY <1>1, <1>4 DEF Fork, Forked, Unforked, Fails
  <2> QED
    BY <2>1, <2>2
<1>5. ASSUME pc \in {"scan", "wait", "parse"}, child[s].pid # None,
             ~child[s].failed, ~child[s].parsed
      PROVE  results[Job(s)] = Unset
  BY <1>1, <1>5, SlotFacts DEF ToldOf
<1>6. CASE Scan
  <2>1. pc = "scan"
    BY <1>6 DEF Scan, ScanWith
  <2>2. child[s].parsed => child[s].reaped
    BY <1>1, <2>1, SlotFacts DEF ToldOf
  <2> QED
    BY <1>1, <1>5, <1>6, <2>1, <2>2 DEF Scan, ScanWith, GiveUpLate, Fails
<1>7. CASE Wait
  <2>1. pc = "wait"
    BY <1>7 DEF Wait, WaitTelling
  <2>2. /\ child[s].parsed => child[s].reaped
        /\ child[s].pid # None /\ ~child[s].reaped =>
             child[s].pid = Job(s) /\ proc[Job(s)] # "gone"
    BY <1>1, <2>1, SlotFacts DEF ToldOf
  <2> QED
    BY <1>1, <1>5, <1>7, <2>1, <2>2 DEF Wait, WaitTelling, WaitedFor, Fails
<1>8. CASE Parse
  BY <1>1, <1>5, <1>8 DEF Parse, ParseInto
<1>9. CASE BatchEnds \/ Poll \/ PollFails \/ ReadChunk \/ ReadEnds \/ Done \/ UNCHANGED vars
  BY <1>9 DEF BatchEnds, BatchEndsUnless, Poll, PollFails, ReadChunk, ReadEnds, Done,
              vars, caller
<1>10. CASE \E j \in Jobs : \/ Callback(j) \/ Write(j) \/ Finish(j) \/ Killed(j)
                            \/ AstrayEnds(j) \/ Environment(j)
  BY <1>10 DEF Callback, Write, Finish, Killed, AstrayEnds, Environment, Exits,
               LeaveHeir, HeirEnds, KilledFromOutside, TimePasses, caller
<1> QED
  BY <1>4, <1>6, <1>7, <1>8, <1>9, <1>10 DEF Next, CallerStep

(* Unless the program is started with SIGCHLD ignored, fl_run_parallel      *)
(* answers each job once: a child that is killed for being late is not told *)
(* to have failed by itself when waitpid finds it.                          *)
THEOREM AnsweredOnceHolds ==
  ASSUME ChldIgnored = {FALSE}
  PROVE  Spec => AnsweredOnce
<1>1. Init => ~ignored
  BY DEF Init
<1>2. ~ignored /\ [Next]_vars => ~ignored'
  BY DEF Next, CallerStep, Fork, Unforked, Forked, Scan, ScanWith, BatchEnds,
         BatchEndsUnless, Poll, PollFails, ReadChunk, ReadEnds, Wait, WaitTelling,
         Parse, ParseInto, Done, Callback, Write, Finish, Killed, AstrayEnds,
         Environment, LeaveHeir, HeirEnds, KilledFromOutside, TimePasses, Exits,
         vars, process
<1>3. IInv /\ ~ignored /\ [Next]_vars =>
        [\A j \in Jobs : Answered(results[j]) => results'[j] = results[j]]_vars
  BY StepAnswersOnce
<1> QED
  BY <1>1, <1>2, <1>3, Invariance, PTL DEF Spec, AnsweredOnce
=============================================================================
