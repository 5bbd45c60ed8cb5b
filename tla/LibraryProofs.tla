---------------------------- MODULE LibraryProofs ----------------------------
(* What TLAPS proves of the components that are libraries: the circuit       *)
(* breaker, for every threshold, every number of calls and every depth of   *)
(* their nesting; the cache, for every set of keys and of waiters; the job  *)
(* queue and publish and subscribe, for every number of jobs and of         *)
(* subscriptions, and handlers that call back to any depth.                 *)
EXTENDS CircuitBreaker, Cache, JobQueue, PubSub, SequenceTheorems,
        FiniteSetTheorems, TLAPS

CbFrames == [read : CbStates, trial : BOOLEAN]

(* Taking the innermost call off the stack.                                *)
LEMMA Popped ==
  ASSUME NEW calls \in Seq(CbFrames), calls # << >>
  PROVE  LET rest == SubSeq(calls, 1, Len(calls) - 1) IN
         /\ rest \in Seq(CbFrames)
         /\ Len(rest) = Len(calls) - 1
         /\ \A i \in DOMAIN calls : i # Len(calls) => i \in DOMAIN rest /\ rest[i] = calls[i]
         /\ calls[Len(calls)] \in CbFrames
<1> DEFINE rest == SubSeq(calls, 1, Len(calls) - 1)
<1>1. Len(calls) \in Nat \ {0}
  BY EmptySeq, LenProperties
<1>2. \A i \in 1 .. Len(calls) - 1 : calls[i] \in CbFrames
  BY <1>1
<1> HIDE DEF rest
<1>3. rest \in Seq(CbFrames) /\ Len(rest) = Len(calls) - 1
  <2> DEFINE last == Len(calls) - 1
  <2>1. /\ last \in Nat /\ last = Len(calls) - 1
        /\ \A i \in 1 .. last : calls[i] \in CbFrames
    BY <1>1, <1>2
  <2> HIDE DEF last
  <2>2. /\ SubSeq(calls, 1, last) \in Seq(CbFrames)
        /\ Len(SubSeq(calls, 1, last)) = IF 1 <= last THEN last - 1 + 1 ELSE 0
    BY <2>1, SubSeqProperties
  <2>3. rest = SubSeq(calls, 1, last)
    BY DEF last, rest
  <2>4. (IF 1 <= last THEN last - 1 + 1 ELSE 0) = Len(calls) - 1
    BY <2>1
  <2> QED
    BY <2>2, <2>3, <2>4
<1>4. \A i \in 1 .. Len(calls) - 1 : rest[i] = calls[i]
  BY <1>1, SubSeqProperties DEF rest
<1> QED
  BY <1>1, <1>3, <1>4 DEF rest

(* Putting a call on it.                                                   *)
LEMMA Pushed ==
  ASSUME NEW calls \in Seq(CbFrames), NEW frame \in CbFrames
  PROVE  LET more == Append(calls, frame) IN
         /\ more \in Seq(CbFrames)
         /\ Len(more) = Len(calls) + 1
         /\ Len(more) \in DOMAIN more /\ more[Len(more)] = frame
         /\ \A i \in DOMAIN calls : i \in DOMAIN more /\ more[i] = calls[i]
  OBVIOUS

-----------------------------------------------------------------------------
(* The three parts of CbSound, each inductive with the types.              *)
Tripped == cb_state = "CLOSED" => cb_failures < CbThreshold
Tried == cb_state = "HALF-OPEN" => \E i \in DOMAIN cb_calls : cb_calls[i].trial
Counted ==
  cb_total_calls =
    Len(cb_calls) + cb_total_blocked + cb_total_failures + cb_returned

LEMMA TypeStep == CbTypeOK /\ [CbNext]_cb_vars => CbTypeOK'
<1> SUFFICES ASSUME CbTypeOK, [CbNext]_cb_vars PROVE CbTypeOK'
  OBVIOUS
<1> USE BreakerAssumption DEF CbTypeOK, CbFrames
<1>0. cb_calls \in Seq(CbFrames)
  OBVIOUS
<1>1. CASE CbCall
  <2>1. [read |-> cb_state, trial |-> FALSE] \in CbFrames
    OBVIOUS
  <2> QED
    BY <1>1, <1>0, <2>1, Pushed DEF CbCall, CbBegin, CbCounts
<1>2. CASE CbTrial
  <2>1. [read |-> cb_state, trial |-> TRUE] \in CbFrames
    OBVIOUS
  <2> QED
    BY <1>2, <1>0, <2>1, Pushed DEF CbTrial, CbBegin, CbCounts, CbStates
<1>3. CASE CbBlocked
  BY <1>3 DEF CbBlocked, CbCounts
<1>4. CASE CbReturn
  BY <1>4, <1>0, Popped DEF CbReturn, CbEnds, CbClose, CbClears, CbCurrent, CbStates
<1>5. CASE CbThrow
  <2>1. cb_calls' \in Seq(CbFrames)
    BY <1>5, <1>0, Popped DEF CbThrow, CbEnds
  <2>2. cb_state' \in CbStates /\ cb_recover' \in BOOLEAN
    BY <1>5 DEF CbThrow, CbOpens, CbStates
  <2> QED
    BY <1>5, <2>1, <2>2 DEF CbThrow, CbEnds
<1>6. CASE CbReset \/ CbOpen
  <2>1. cb_recover' \in BOOLEAN
    BY <1>6, Zenon DEF CbReset, CbOpen, CbOpens
  <2>2. cb_state' \in CbStates /\ cb_failures' \in Nat
    BY <1>6 DEF CbReset, CbOpen, CbClose, CbClears, CbOpens, CbStates
  <2> QED
    BY <1>6, <2>1, <2>2 DEF CbReset, CbOpen
<1>8. CASE CbTime
  <2>1. cb_recover' \in BOOLEAN
    BY <1>8, Zenon DEF CbTime
  <2>2. cb_failures' \in Nat
    BY <1>8 DEF CbTime
  <2> QED
    BY <1>8, <2>1, <2>2 DEF CbTime
<1>7. CASE UNCHANGED cb_vars
  BY <1>7 DEF cb_vars
<1> QED
  BY <1>1, <1>2, <1>3, <1>4, <1>5, <1>6, <1>7, <1>8 DEF CbNext

(* A failure that reaches the threshold opens, and closing clears.          *)
LEMMA TrippedStep == CbTypeOK /\ Tripped /\ [CbNext]_cb_vars => Tripped'
<1> SUFFICES ASSUME CbTypeOK, Tripped, [CbNext]_cb_vars PROVE Tripped'
  OBVIOUS
<1> USE BreakerAssumption DEF CbTypeOK, Tripped
<1>1. CASE CbCall \/ CbTrial \/ CbBlocked
  BY <1>1 DEF CbCall, CbTrial, CbBlocked, CbBegin
<1>2. CASE CbReturn
  BY <1>2 DEF CbReturn, CbClose, CbClears
<1>3. CASE CbThrow
  BY <1>3 DEF CbThrow, CbOpens
<1>4. CASE CbReset \/ CbOpen \/ CbTime
  BY <1>4 DEF CbReset, CbOpen, CbTime, CbClose, CbClears, CbOpens
<1>5. CASE UNCHANGED cb_vars
  BY <1>5 DEF cb_vars
<1> QED
  BY <1>1, <1>2, <1>3, <1>4, <1>5 DEF CbNext

(* The end of a trial leaves HALF-OPEN; that of another call leaves the      *)
(* trial where it is.                                                      *)
LEMMA TriedStep == CbTypeOK /\ Tried /\ [CbNext]_cb_vars => Tried'
<1> SUFFICES ASSUME CbTypeOK, Tried, [CbNext]_cb_vars PROVE Tried'
  OBVIOUS
<1>0. cb_calls \in Seq(CbFrames)
  BY DEF CbTypeOK, CbFrames
<1>1. CASE CbCall
  <2>1. [read |-> cb_state, trial |-> FALSE] \in CbFrames
    BY DEF CbTypeOK, CbFrames
  <2> QED
    BY <1>1, <1>0, <2>1, Pushed DEF CbCall, CbBegin, Tried
<1>2. CASE CbTrial
  <2>1. [read |-> cb_state, trial |-> TRUE] \in CbFrames
    BY DEF CbTypeOK, CbFrames
  <2> QED
    BY <1>2, <1>0, <2>1, Pushed DEF CbTrial, CbBegin, Tried
<1>3. CASE CbBlocked
  BY <1>3 DEF CbBlocked, Tried
<1>4. CASE CbEnds /\ CbCurrent.trial /\ cb_state' # "HALF-OPEN"
  BY <1>4 DEF Tried
<1>5. CASE CbEnds /\ ~CbCurrent.trial /\ (cb_state' = "HALF-OPEN" => cb_state = "HALF-OPEN")
  <2> SUFFICES ASSUME cb_state' = "HALF-OPEN"
               PROVE  \E i \in DOMAIN cb_calls' : cb_calls'[i].trial
    BY DEF Tried
  <2>1. PICK i \in DOMAIN cb_calls : cb_calls[i].trial
    BY <1>5 DEF Tried
  <2>2. i # Len(cb_calls)
    BY <1>5, <2>1 DEF CbCurrent
  <2>3. i \in DOMAIN cb_calls' /\ cb_calls'[i] = cb_calls[i]
    BY <1>0, <1>5, <2>2, Popped DEF CbEnds
  <2> QED
    BY <2>1, <2>3
<1>6. CASE CbReturn
  BY <1>4, <1>5, <1>6 DEF CbReturn, CbClose
<1>7. CASE CbThrow
  BY <1>4, <1>5, <1>7 DEF CbThrow, CbOpens
<1>8. CASE CbReset \/ CbOpen \/ CbTime
  BY <1>8 DEF CbReset, CbOpen, CbTime, CbClose, CbOpens, Tried
<1>9. CASE UNCHANGED cb_vars
  BY <1>9 DEF cb_vars, Tried
<1> QED
  BY <1>1, <1>2, <1>3, <1>6, <1>7, <1>8, <1>9 DEF CbNext

LEMMA CountedStep == CbTypeOK /\ Counted /\ [CbNext]_cb_vars => Counted'
<1> SUFFICES ASSUME CbTypeOK, Counted, [CbNext]_cb_vars PROVE Counted'
  OBVIOUS
<1>0. /\ cb_calls \in Seq(CbFrames) /\ Len(cb_calls) \in Nat
      /\ cb_total_calls \in Nat /\ cb_total_failures \in Nat
      /\ cb_total_blocked \in Nat /\ cb_returned \in Nat
  BY DEF CbTypeOK, CbFrames
<1>1. ASSUME NEW trial \in BOOLEAN, CbBegin(trial) PROVE Counted'
  <2>1. [read |-> cb_state, trial |-> trial] \in CbFrames
    BY DEF CbTypeOK, CbFrames
  <2>2. Len(cb_calls') = Len(cb_calls) + 1
    BY <1>0, <1>1, <2>1, Pushed DEF CbBegin
  <2> QED
    BY <1>0, <1>1, <2>2 DEF CbBegin, CbCounts, Counted
<1>2. CASE CbBlocked
  BY <1>0, <1>2 DEF CbBlocked, CbCounts, Counted
<1>3. CASE CbReturn \/ CbThrow
  <2>1. Len(cb_calls') = Len(cb_calls) - 1
    BY <1>0, <1>3, Popped DEF CbReturn, CbThrow, CbEnds
  <2> QED
    <3>1. CASE CbReturn
      BY <1>0, <2>1, <3>1 DEF CbReturn, CbEnds, Counted
    <3>2. CASE CbThrow
      BY <1>0, <2>1, <3>2 DEF CbThrow, CbEnds, Counted
    <3> QED
      BY <1>3, <3>1, <3>2
<1>4. CASE CbReset \/ CbOpen \/ CbTime
  BY <1>4 DEF CbReset, CbOpen, CbTime, Counted
<1>5. CASE UNCHANGED cb_vars
  BY <1>5 DEF cb_vars, Counted
<1> QED
  BY <1>1, <1>2, <1>3, <1>4, <1>5 DEF CbNext, CbCall, CbTrial

-----------------------------------------------------------------------------
(* In every reachable state the types are kept (cb-create).                *)
THEOREM BreakerTypes == CbSpec => []CbTypeOK
<1>1. CbInit => CbTypeOK
  <2>1. 0 \in 0 .. CbMaxCalls /\ << >> \in Seq([read : CbStates, trial : BOOLEAN])
    BY BreakerAssumption
  <2>2. CbInit => cb_recover \in BOOLEAN
    BY Zenon DEF CbInit
  <2> QED
    BY <2>1, <2>2 DEF CbInit, CbTypeOK, CbStates
<1> QED
  BY <1>1, TypeStep, PTL DEF CbSpec

(* A closed breaker is below its threshold, a half-open one is being tried,  *)
(* and every call is accounted for, however calls are nested (cb-call).     *)
THEOREM BreakerSound == CbSpec => []CbSound
<1>1. CbInit => Tripped /\ Tried /\ Counted
  BY BreakerAssumption DEF CbInit, Tripped, Tried, Counted
<1>2. Tripped /\ Tried /\ Counted => CbSound
  BY DEF Tripped, Tried, Counted, CbSound
<1> QED
  BY <1>1, <1>2, BreakerTypes, TrippedStep, TriedStep, CountedStep, PTL DEF CbSpec

-----------------------------------------------------------------------------
(* The cache.                                                              *)

(* A value is told apart by the number of its write.  No two keys have the  *)
(* same one, and none has one that has not been given out, so that a new    *)
(* number is neither in the cache nor with a waiter.                       *)
CaNumbered ==
  /\ \A k \in CaKeys : ca_value[k] <= ca_writes
  /\ \A w \in CaWaiters : ca_got[w] <= ca_writes
  /\ \A k, l \in CaKeys : CaHas(k) /\ ca_value[k] = ca_value[l] => k = l

(* Only a call that has been resolved has taken anything.                  *)
CaGotResolved ==
  \A w \in CaWaiters : ca_wait[w] # "resolved" => ca_got[w] = NoEntry

CaIInv == CaTypeOK /\ CaNumbered /\ CaGotResolved /\ CaTakenOnce

-----------------------------------------------------------------------------
LEMMA CacheInit == CaInit => CaIInv
  BY CacheAssumption
  DEF CaInit, CaIInv, CaTypeOK, CaNumbered, CaGotResolved, CaTakenOnce, CaHas, CaClock,
      CaWrites, NoEntry

(* A store gives out numbers that nobody has.                              *)
LEMMA StoreInvariant ==
  ASSUME CaIInv, NEW keys \in SUBSET CaKeys, NEW expires \in CaClock,
         CaStore(keys, expires)
  PROVE  CaIInv'
<1> DEFINE top == ca_writes + Cardinality(keys)
<1>1. Cardinality(keys) \in Nat
  BY CacheAssumption, FS_Subset, FS_CardinalityType
<1>2. /\ ca_writes \in Nat /\ top \in Nat /\ ca_writes <= top
      /\ top <= CaLastWrite /\ ca_writes' = top
  BY <1>1, CacheAssumption DEF CaStore, CaIInv, CaTypeOK
<1> HIDE DEF top
<1>3. PICK number \in [keys -> ca_writes + 1 .. top] :
        /\ \A k, l \in keys : k # l => number[k] # number[l]
        /\ ca_value' = [k \in CaKeys |-> IF k \in keys THEN number[k] ELSE ca_value[k]]
  BY DEF CaStore, top
<1>4. /\ \A k \in keys : number[k] \in Nat /\ number[k] > ca_writes /\ number[k] <= top
      /\ \A k \in CaKeys : ca_value[k] \in Nat /\ ca_value[k] <= ca_writes
      /\ \A w \in CaWaiters : ca_got[w] \in Nat /\ ca_got[w] <= ca_writes
  BY <1>2, <1>3, CacheAssumption DEF CaIInv, CaTypeOK, CaNumbered, CaWrites, NoEntry
<1>5. /\ ca_expires' = [k \in CaKeys |-> IF k \in keys THEN expires ELSE ca_expires[k]]
      /\ UNCHANGED <<ca_wait, ca_key, ca_got>>
  BY DEF CaStore, CaWaitersStay
<1>6. CaTypeOK'
  <2>1. ca_value' \in [CaKeys -> CaWrites \cup {NoEntry}]
    BY <1>2, <1>3, <1>4, CacheAssumption DEF CaIInv, CaTypeOK, CaWrites, NoEntry
  <2>2. ca_expires' \in [CaKeys -> CaClock]
    BY <1>5 DEF CaIInv, CaTypeOK
  <2>3. \A k \in CaKeys : ca_value'[k] = NoEntry => ca_expires'[k] = "never"
    BY <1>2, <1>3, <1>4, <1>5 DEF CaIInv, CaTypeOK, CaHas, NoEntry
  <2> QED
    BY <1>2, <1>5, <2>1, <2>2, <2>3, CacheAssumption DEF CaIInv, CaTypeOK, CaHas
<1>7. CaNumbered'
  BY <1>2, <1>3, <1>4, <1>5 DEF CaIInv, CaNumbered, CaHas, NoEntry
<1>8. CaTakenOnce'
  BY <1>2, <1>3, <1>4, <1>5 DEF CaIInv, CaTakenOnce, NoEntry
<1> QED
  BY <1>5, <1>6, <1>7, <1>8 DEF CaIInv, CaGotResolved

(* Removing entries takes nothing back from a waiter.                      *)
LEMMA DropKeeps ==
  ASSUME CaIInv, NEW keys, CaDrop(keys)
  PROVE  /\ ca_writes' = ca_writes /\ ca_writes \in 0 .. CaLastWrite
         /\ ca_value' \in [CaKeys -> CaWrites \cup {NoEntry}]
         /\ ca_expires' \in [CaKeys -> CaClock]
         /\ \A k \in CaKeys : ca_value'[k] \in {NoEntry, ca_value[k]}
         /\ \A k \in CaKeys : k \in keys => ca_value'[k] = NoEntry
         /\ \A k \in CaKeys : ca_value'[k] = NoEntry => ca_expires'[k] = "never"
  BY DEF CaIInv, CaTypeOK, CaDrop, CaHas, CaClock

LEMMA DropInvariant ==
  ASSUME CaIInv, NEW keys, CaDrop(keys), CaWaitersStay
  PROVE  CaIInv'
<1>1. UNCHANGED <<ca_wait, ca_key, ca_got>>
  BY DEF CaWaitersStay
<1>2. CaTypeOK'
  BY <1>1, DropKeeps DEF CaIInv, CaTypeOK, CaHas
<1>3. CaNumbered'
  BY <1>1, DropKeeps, CacheAssumption DEF CaIInv, CaTypeOK, CaNumbered, CaHas, NoEntry
<1>4. CaTakenOnce'
  BY <1>1, DropKeeps DEF CaIInv, CaTakenOnce
<1> QED
  BY <1>1, <1>2, <1>3, <1>4 DEF CaIInv, CaGotResolved

(* A waiter that takes a value removes the only entry that has it.         *)
LEMMA CheckInvariant ==
  ASSUME CaIInv, NEW w \in CaWaiters, CaCheck(w)
  PROVE  CaIInv'
<1> DEFINE k == ca_key[w]
<1>0. k \in CaKeys /\ ca_wait[w] # "resolved" /\ ca_got[w] = NoEntry
  BY DEF CaCheck, CaIInv, CaTypeOK, CaGotResolved
<1> HIDE DEF k
<1>1. CASE CaHas(k) /\ ~CaExpired(k)
  <2>1. CaDrop({k}) /\ CaResolve(w, ca_value[k])
    BY <1>1 DEF CaCheck, CaTake, k
  <2>2. /\ ca_wait' = [ca_wait EXCEPT ![w] = "resolved"]
        /\ ca_got' = [ca_got EXCEPT ![w] = ca_value[k]] /\ ca_key' = ca_key
    BY <2>1 DEF CaResolve
  <2>3. CaTypeOK'
    BY <1>0, <2>1, <2>2, DropKeeps DEF CaIInv, CaTypeOK, CaHas
  <2>4. CaNumbered'
    BY <1>0, <2>1, <2>2, DropKeeps, CacheAssumption
    DEF CaIInv, CaTypeOK, CaNumbered, CaHas, NoEntry
  <2>5. \A l \in CaKeys : ca_value'[l] # ca_value[k]
    BY <1>0, <1>1, <2>1, DropKeeps DEF CaIInv, CaNumbered, CaHas
  <2>6. \A v \in CaWaiters \ {w} : ca_got'[v] = ca_got[v] /\ ca_got[v] # ca_value[k]
    BY <1>0, <1>1, <2>2 DEF CaIInv, CaTypeOK, CaTakenOnce, CaHas
  <2>7. ca_got'[w] = ca_value[k]
    BY <2>2 DEF CaIInv, CaTypeOK
  <2>8. CaTakenOnce'
    <3> SUFFICES ASSUME NEW v \in CaWaiters, ca_got'[v] # NoEntry
                 PROVE  /\ \A l \in CaKeys : ca_value'[l] # ca_got'[v]
                        /\ \A other \in CaWaiters \ {v} : ca_got'[other] # ca_got'[v]
      BY DEF CaTakenOnce
    <3>1. CASE v = w
      BY <2>5, <2>6, <2>7, <3>1
    <3>2. CASE v # w
      <4>1. \A l \in CaKeys : ca_value'[l] # ca_got[v]
        BY <2>1, <2>6, <3>2, DropKeeps DEF CaIInv, CaTakenOnce
      <4>2. \A other \in CaWaiters \ {v} : ca_got'[other] # ca_got[v]
        BY <2>6, <2>7, <3>2 DEF CaIInv, CaTakenOnce
      <4> QED
        BY <2>6, <3>2, <4>1, <4>2
    <3> QED
      BY <3>1, <3>2
  <2>9. CaGotResolved'
    BY <2>2 DEF CaIInv, CaTypeOK, CaGotResolved
  <2> QED
    BY <2>3, <2>4, <2>8, <2>9 DEF CaIInv
<1>2. CASE ~(CaHas(k) /\ ~CaExpired(k))
  <2>1. UNCHANGED <<ca_writes, ca_value, ca_expires, ca_key>>
    BY <1>2 DEF CaCheck, CaResolve, k
  <2>2. ca_got' = ca_got
    BY <1>0, <1>2 DEF CaCheck, CaResolve, CaIInv, CaTypeOK, k
  <2>3. /\ ca_wait' \in [CaWaiters -> {"idle", "polling", "late", "resolved"}]
        /\ \A v \in CaWaiters : ca_wait'[v] # "resolved" => ca_wait[v] # "resolved"
    BY <1>0, <1>2 DEF CaCheck, CaResolve, CaIInv, CaTypeOK, k
  <2> QED
    BY <2>1, <2>2, <2>3
    DEF CaIInv, CaTypeOK, CaNumbered, CaGotResolved, CaTakenOnce, CaHas
<1> QED
  BY <1>1, <1>2

LEMMA TimeInvariant ==
  ASSUME CaIInv, CaTime
  PROVE  CaIInv'
<1>1. UNCHANGED <<ca_writes, ca_value, ca_key, ca_got>>
  BY DEF CaTime
<1>2. CASE \E k \in CaKeys :
             /\ ca_expires[k] \in {"ahead", "now"}
             /\ ca_expires' = [ca_expires EXCEPT ![k] = IF @ = "ahead" THEN "now" ELSE "past"]
             /\ UNCHANGED ca_wait
  BY <1>1, <1>2
  DEF CaIInv, CaTypeOK, CaNumbered, CaGotResolved, CaTakenOnce, CaHas, CaClock
<1>3. CASE \E w \in CaWaiters :
             /\ ca_wait[w] \in {"idle", "polling"}
             /\ ca_wait' = [ca_wait EXCEPT ![w] = "late"]
             /\ UNCHANGED ca_expires
  BY <1>1, <1>3 DEF CaIInv, CaTypeOK, CaNumbered, CaGotResolved, CaTakenOnce, CaHas
<1> QED
  BY <1>2, <1>3 DEF CaTime

-----------------------------------------------------------------------------
LEMMA CacheStep == CaIInv /\ [CaNext]_ca_vars => CaIInv'
<1> SUFFICES ASSUME CaIInv, [CaNext]_ca_vars PROVE CaIInv'
  OBVIOUS
<1>1. CASE CaSet
  BY <1>1, StoreInvariant DEF CaSet, CaClock
<1>2. ASSUME NEW k \in CaKeys, CaIncr(k) PROVE CaIInv'
  <2>1. ca_expires[k] \in CaClock /\ "never" \in CaClock
    BY DEF CaIInv, CaTypeOK, CaClock
  <2>2. CASE CaHas(k)
    BY <1>2, <2>1, <2>2, StoreInvariant DEF CaIncr
  <2>3. CASE ~CaHas(k)
    BY <1>2, <2>1, <2>3, StoreInvariant DEF CaIncr
  <2> QED
    BY <2>2, <2>3
<1>3. ASSUME NEW k \in CaKeys, CaTtl(k) PROVE CaIInv'
  BY <1>3, DropInvariant DEF CaTtl
<1>4. ASSUME NEW keys \in SUBSET CaKeys, CaLookup(keys) \/ CaClear(keys) PROVE CaIInv'
  BY <1>4, DropInvariant DEF CaLookup, CaClear
<1>5. CASE CaSweep
  BY <1>5, DropInvariant DEF CaSweep, CaLookup
<1>6. ASSUME NEW w \in CaWaiters, CaCheck(w) PROVE CaIInv'
  BY <1>6, CheckInvariant
<1>7. CASE CaTime
  BY <1>7, TimeInvariant
<1>8. CASE UNCHANGED ca_vars
  BY <1>8 DEF ca_vars, CaIInv, CaTypeOK, CaNumbered, CaGotResolved, CaTakenOnce, CaHas
<1> QED
  BY <1>1, <1>2, <1>3, <1>4, <1>5, <1>6, <1>7, <1>8 DEF CaNext

(* The inductive invariant holds in every reachable state (createCacheModule). *)
THEOREM CacheInvariance == CaSpec => []CaIInv
  BY CacheInit, CacheStep, PTL DEF CaSpec

(* Every field of the cache keeps its type (createCacheModule).            *)
THEOREM CacheTypes == CaSpec => []CaTypeOK
<1>1. CaIInv => CaTypeOK
  BY DEF CaIInv
<1> QED
  BY <1>1, CacheInvariance, PTL

(* A consumed value is nobody else's, whatever is stored, counted, removed  *)
(* or expires between a waiter's polls (wait_for_cache).                   *)
THEOREM TakenOnce == CaSpec => []CaTakenOnce
<1>1. CaIInv => CaTakenOnce
  BY DEF CaIInv
<1> QED
  BY <1>1, CacheInvariance, PTL

-----------------------------------------------------------------------------
(* Induction on the natural numbers, for a set: were m not in it, adding one *)
(* would map the members up to m to themselves, one to one and never to 0,  *)
(* which no finite set allows.                                             *)
LEMMA SetInduction ==
  ASSUME NEW P, 0 \in P, \A n \in Nat : n \in P => n + 1 \in P
  PROVE  Nat \subseteq P
<1> SUFFICES ASSUME NEW m \in Nat, m \notin P PROVE FALSE
  OBVIOUS
<1> DEFINE A == {k \in 0 .. m : k \in P}
           up == [k \in A |-> k + 1]
<1>1. IsFiniteSet(A)
  <2>1. A \in SUBSET (0 .. m) /\ IsFiniteSet(0 .. m)
    BY FS_Interval
  <2> HIDE DEF A
  <2> QED
    BY <2>1, FS_Subset
<1>2. up \in Injection(A, A)
  <2>1. \A k \in A : k + 1 \in A
    OBVIOUS
  <2>2. up \in [A -> A]
    BY <2>1
  <2>3. \A a, b \in A : up[a] = up[b] => a = b
    OBVIOUS
  <2> QED
    BY <2>2, <2>3 DEF Injection, IsInjective
<1>3. up \in Surjection(A, A)
  BY <1>1, <1>2, FS_Injection
<1>4. \E k \in A : up[k] = 0
  <2>1. 0 \in A
    OBVIOUS
  <2> QED
    BY <1>3, <2>1 DEF Surjection
<1> QED
  BY <1>4

(* filter, one element at a time (Selection): the steps, and that there is   *)
(* a sequence of them, which is the one SelectedUpTo chooses.               *)
SelectStep(s, seq, kept, n) == IF seq[n] \in kept THEN Append(s, seq[n]) ELSE s

IsSelecting(f, seq, kept, n) ==
  /\ f = [i \in 0 .. n |-> f[i]]
  /\ f[0] = << >>
  /\ \A i \in 1 .. n : f[i] = SelectStep(f[i - 1], seq, kept, i)

(* There are the results of the first n steps, for every n.                *)
LEMMA SelectingExists ==
  ASSUME NEW seq, NEW kept, NEW n \in Nat
  PROVE  \E f : IsSelecting(f, seq, kept, n)
<1> DEFINE P == {m \in Nat : \E f : IsSelecting(f, seq, kept, m)}
<1>1. 0 \in P
  <2>1. IsSelecting([i \in 0 .. 0 |-> << >>], seq, kept, 0)
    BY DEF IsSelecting
  <2> QED
    BY <2>1
<1>2. ASSUME NEW m \in P PROVE m + 1 \in P
  <2>1. PICK f : IsSelecting(f, seq, kept, m)
    OBVIOUS
  <2> DEFINE g == [i \in 0 .. m + 1 |-> IF i = m + 1 THEN SelectStep(f[m], seq, kept, m + 1) ELSE f[i]]
  <2>2. g[0] = << >>
    BY <2>1 DEF IsSelecting
  <2>3. \A i \in 1 .. m + 1 : g[i] = SelectStep(g[i-1], seq, kept, i)
    <3> SUFFICES ASSUME NEW i \in 1 .. m + 1 PROVE g[i] = SelectStep(g[i - 1], seq, kept, i)
      OBVIOUS
    <3>1. CASE i = m + 1
      BY <3>1
    <3>2. CASE i # m + 1
      <4>1. i \in 1 .. m /\ i - 1 \in 0 .. m /\ i \in 0 .. m + 1 /\ i - 1 \in 0 .. m + 1
        BY <3>2
      <4>2. g[i] = f[i] /\ g[i - 1] = f[i - 1]
        BY <3>2, <4>1
      <4> QED
        BY <2>1, <4>1, <4>2 DEF IsSelecting
    <3> QED
      BY <3>1, <3>2
  <2>4. g = [i \in 0 .. m + 1 |-> g[i]]
    OBVIOUS
  <2> HIDE DEF g
  <2>5. IsSelecting(g, seq, kept, m + 1)
    BY <2>2, <2>3, <2>4 DEF IsSelecting
  <2> QED
    BY <2>5
<1> HIDE DEF P
<1>3. Nat \subseteq P
  BY <1>1, <1>2, SetInduction
<1> QED
  BY <1>3 DEF P

(* SelectedUpTo is made of those steps.                                     *)
LEMMA SelectingIs ==
  ASSUME NEW seq, NEW kept, Len(seq) \in Nat
  PROVE  IsSelecting(SelectedUpTo(seq, kept), seq, kept, Len(seq))
<1> DEFINE u == SelectedUpTo(seq, kept)
<1>1. u = [n \in 0 .. Len(seq) |-> IF n = 0 THEN << >>
        ELSE IF seq[n] \in kept THEN Append(u[n - 1], seq[n])
        ELSE u[n - 1]]
  <2>1. PICK f : IsSelecting(f, seq, kept, Len(seq))
    BY SelectingExists
  <2>2. \A n \in 0 .. Len(seq) :
          f[n] = IF n = 0 THEN << >>
                 ELSE IF seq[n] \in kept THEN Append(f[n - 1], seq[n])
                 ELSE f[n - 1]
    BY <2>1 DEF IsSelecting, SelectStep
  <2>3. f = [n \in 0 .. Len(seq) |-> IF n = 0 THEN << >>
        ELSE IF seq[n] \in kept THEN Append(f[n - 1], seq[n])
        ELSE f[n - 1]]
    BY <2>1, <2>2 DEF IsSelecting
  <2> QED
    BY <2>3 DEF SelectedUpTo
<1> HIDE DEF u
<1>2. u = [n \in 0 .. Len(seq) |-> u[n]]
  BY <1>1
<1>3. u[0] = << >>
  BY <1>1
<1>4. \A i \in 1 .. Len(seq) : u[i] = SelectStep(u[i - 1], seq, kept, i)
  <2> SUFFICES ASSUME NEW i \in 1 .. Len(seq) PROVE u[i] = SelectStep(u[i - 1], seq, kept, i)
    OBVIOUS
  <2>1. i \in 0 .. Len(seq) /\ i # 0
    OBVIOUS
  <2>2. u[i] = IF i = 0 THEN << >>
               ELSE IF seq[i] \in kept THEN Append(u[i - 1], seq[i]) ELSE u[i - 1]
    BY <1>1, <2>1
  <2> QED
    BY <2>1, <2>2 DEF SelectStep
<1>5. IsSelecting(u, seq, kept, Len(seq))
  BY <1>2, <1>3, <1>4 DEF IsSelecting
<1> QED
  BY <1>5 DEF u

(* r is what is kept of the first n elements, the k-th of it from place g[k], *)
(* places that rise.                                                       *)
IsChoice(r, g, seq, kept, n) ==
  /\ \A k \in DOMAIN r : g[k] \in 1 .. n /\ r[k] = seq[g[k]] /\ seq[g[k]] \in kept
  /\ \A j, k \in DOMAIN r : j < k => g[j] < g[k]
  /\ \A i \in 1 .. n : seq[i] \in kept => \E k \in DOMAIN r : g[k] = i

(* One more step keeps that.                                               *)
LEMMA StepChoice ==
  ASSUME NEW S, NEW seq \in Seq(S), NEW kept, NEW r \in Seq(S), NEW g, NEW n \in Nat,
         n + 1 <= Len(seq), IsChoice(r, g, seq, kept, n)
  PROVE  /\ SelectStep(r, seq, kept, n + 1) \in Seq(S)
         /\ \E h : IsChoice(SelectStep(r, seq, kept, n + 1), h, seq, kept, n + 1)
<1>1. n + 1 \in 1 .. Len(seq) /\ seq[n + 1] \in S
  OBVIOUS
<1>2. CASE seq[n + 1] \in kept
  <2> DEFINE q == Append(r, seq[n + 1])
             h == [k \in 1 .. Len(r) + 1 |-> IF k = Len(r) + 1 THEN n + 1 ELSE g[k]]
  <2>1. q \in Seq(S) /\ DOMAIN q = 1 .. Len(r) + 1 /\ DOMAIN r = 1 .. Len(r) /\ Len(r) \in Nat
    BY <1>1
  <2>2. q[Len(r) + 1] = seq[n + 1] /\ \A k \in 1 .. Len(r) : q[k] = r[k]
    BY <1>1
  <2>3. h[Len(r) + 1] = n + 1 /\ \A k \in 1 .. Len(r) : h[k] = g[k]
    BY <2>1
  <2>4. \A k \in DOMAIN q : k \in 1 .. Len(r) \/ k = Len(r) + 1
    BY <2>1
  <2>5. \A k \in 1 .. Len(r) : k \in DOMAIN q /\ k \in DOMAIN r
    BY <2>1
  <2>6. Len(r) + 1 \in DOMAIN q
    BY <2>1
  <2> HIDE DEF q, h
  <2>7. ASSUME NEW k \in DOMAIN q
        PROVE  h[k] \in 1 .. n + 1 /\ q[k] = seq[h[k]] /\ seq[h[k]] \in kept
    <3>1. CASE k = Len(r) + 1
      BY <1>2, <2>2, <2>3, <3>1
    <3>2. CASE k \in 1 .. Len(r)
      BY <2>2, <2>3, <2>5, <3>2 DEF IsChoice
    <3> QED
      BY <2>4, <3>1, <3>2
  <2>8. ASSUME NEW j \in DOMAIN q, NEW k \in DOMAIN q, j < k PROVE h[j] < h[k]
    <3>1. j \in 1 .. Len(r)
      BY <2>1, <2>8
    <3>2. CASE k = Len(r) + 1
      BY <2>3, <2>5, <3>1, <3>2 DEF IsChoice
    <3>3. CASE k \in 1 .. Len(r)
      BY <2>3, <2>5, <2>8, <3>1, <3>3 DEF IsChoice
    <3> QED
      BY <2>4, <3>2, <3>3
  <2>9. ASSUME NEW i \in 1 .. n + 1, seq[i] \in kept PROVE \E k \in DOMAIN q : h[k] = i
    <3>1. CASE i = n + 1
      BY <2>3, <2>6, <3>1
    <3>2. CASE i # n + 1
      <4>1. i \in 1 .. n
        BY <3>2
      <4>2. PICK k \in DOMAIN r : g[k] = i
        BY <2>9, <4>1 DEF IsChoice
      <4> QED
        BY <2>1, <2>3, <2>5, <4>2
    <3> QED
      BY <3>1, <3>2
  <2>10. IsChoice(q, h, seq, kept, n + 1)
    BY <2>7, <2>8, <2>9 DEF IsChoice
  <2>11. q = SelectStep(r, seq, kept, n + 1)
    BY <1>2 DEF SelectStep, q
  <2> QED
    BY <2>1, <2>10, <2>11
<1>3. CASE seq[n + 1] \notin kept
  <2>1. SelectStep(r, seq, kept, n + 1) = r
    BY <1>3 DEF SelectStep
  <2>2. \A i \in 1 .. n + 1 : seq[i] \in kept => i \in 1 .. n
    BY <1>3
  <2>3. IsChoice(r, g, seq, kept, n + 1)
    <3>1. \A i \in 1 .. n : i \in 1 .. n + 1
      OBVIOUS
    <3> QED
      BY <2>2, <3>1 DEF IsChoice
  <2> QED
    BY <2>1, <2>3
<1> QED
  BY <1>2, <1>3

(* What filter returns: what is kept, all of it, in order.                  *)
LEMMA SelectedFacts ==
  ASSUME NEW S, NEW seq \in Seq(S), NEW kept
  PROVE  /\ Selected(seq, kept) \in Seq(S)
         /\ \E g : IsChoice(Selected(seq, kept), g, seq, kept, Len(seq))
<1> DEFINE u == SelectedUpTo(seq, kept)
           P == {n \in Nat : n <= Len(seq) =>
                   u[n] \in Seq(S) /\ \E g : IsChoice(u[n], g, seq, kept, n)}
<1>1. Len(seq) \in Nat
  OBVIOUS
<1>2. IsSelecting(u, seq, kept, Len(seq))
  BY <1>1, SelectingIs
<1> HIDE DEF u
<1>3. 0 \in P
  <2>1. u[0] = << >>
    BY <1>2 DEF IsSelecting
  <2>2. IsChoice(<< >>, << >>, seq, kept, 0)
    BY DEF IsChoice
  <2>3. << >> \in Seq(S)
    OBVIOUS
  <2> QED
    BY <2>1, <2>2, <2>3
<1>4. ASSUME NEW n \in Nat, n \in P PROVE n + 1 \in P
  <2> SUFFICES ASSUME n + 1 <= Len(seq)
               PROVE  u[n + 1] \in Seq(S) /\ \E g : IsChoice(u[n + 1], g, seq, kept, n + 1)
    OBVIOUS
  <2>1. u[n] \in Seq(S) /\ \E g : IsChoice(u[n], g, seq, kept, n)
    BY <1>1, <1>4
  <2>2. u[n + 1] = SelectStep(u[n], seq, kept, n + 1)
    <3>1. n + 1 \in 1 .. Len(seq) /\ (n + 1) - 1 = n
      BY <1>1
    <3> QED
      BY <1>2, <3>1 DEF IsSelecting
  <2> QED
    BY <2>1, <2>2, StepChoice
<1> HIDE DEF P
<1>5. Nat \subseteq P
  BY <1>3, <1>4, SetInduction
<1>6. Len(seq) \in P
  BY <1>1, <1>5
<1> QED
  BY <1>6 DEF P, u, Selected

(* One more element at the end of a sequence that repeats none.            *)
LEMMA Appended ==
  ASSUME NEW S, NEW q \in Seq(S), NEW e \in S
  PROVE  /\ Append(q, e) \in Seq(S)
         /\ Range(Append(q, e)) = Range(q) \cup {e}
         /\ IsInjective(q) /\ e \notin Range(q) => IsInjective(Append(q, e))
<1>1. PICK r : r = Append(q, e)
  OBVIOUS
<1>2. r \in Seq(S) /\ DOMAIN r = 1 .. Len(q) + 1 /\ DOMAIN q = 1 .. Len(q) /\ Len(q) \in Nat
  BY <1>1
<1>3. r[Len(q) + 1] = e /\ \A k \in 1 .. Len(q) : r[k] = q[k]
  BY <1>1
<1>4. /\ \A k \in DOMAIN r : k \in 1 .. Len(q) \/ k = Len(q) + 1
      /\ \A k \in 1 .. Len(q) : k \in DOMAIN r /\ k \in DOMAIN q
      /\ Len(q) + 1 \in DOMAIN r
  BY <1>2
<1>5. Range(r) = Range(q) \cup {e}
  BY <1>2, <1>3, <1>4 DEF Range
<1>6. ASSUME IsInjective(q), e \notin Range(q) PROVE IsInjective(r)
  <2>1. \A k \in 1 .. Len(q) : q[k] # e
    BY <1>4, <1>6 DEF Range
  <2> SUFFICES ASSUME NEW a \in DOMAIN r, NEW b \in DOMAIN r, r[a] = r[b] PROVE a = b
    BY DEF IsInjective
  <2> QED
    BY <1>3, <1>4, <1>6, <2>1 DEF IsInjective
<1> QED
  BY <1>1, <1>2, <1>5, <1>6

-----------------------------------------------------------------------------
(* The job queue.  The jobs of a sequence of entries.                      *)
JqIn(entries) == Range(JobsOf(entries))

LEMMA JobsAre ==
  ASSUME NEW q \in Seq(JqEntries)
  PROVE  /\ JobsOf(q) \in Seq(Jobs) /\ DOMAIN JobsOf(q) = DOMAIN q
         /\ \A i \in DOMAIN q : JobsOf(q)[i] = q[i].job /\ q[i] \in JqEntries
         /\ JqIn(q) \subseteq Jobs
         /\ \A job : job \in JqIn(q) <=> \E i \in DOMAIN q : q[i].job = job
<1>1. /\ \A i \in DOMAIN q : q[i] \in JqEntries
      /\ DOMAIN q = 1 .. Len(q) /\ Len(q) \in Nat
  OBVIOUS
<1>2. \A i \in DOMAIN q : q[i].job \in Jobs
  BY <1>1 DEF JqEntries
<1>3. JobsOf(q) = [i \in 1 .. Len(q) |-> q[i].job]
  BY <1>1 DEF JobsOf
<1>4. JobsOf(q) \in Seq(Jobs)
  BY <1>1, <1>2, <1>3
<1> QED
  BY <1>1, <1>2, <1>3, <1>4 DEF JqIn, Range

LEMMA JobsOfAppend ==
  ASSUME NEW q \in Seq(JqEntries), NEW e \in JqEntries
  PROVE  JobsOf(Append(q, e)) = Append(JobsOf(q), e.job)
<1>1. Append(q, e) \in Seq(JqEntries) /\ Len(Append(q, e)) = Len(q) + 1 /\ Len(q) \in Nat
  OBVIOUS
<1>2. JobsOf(q) \in Seq(Jobs) /\ Len(JobsOf(q)) = Len(q)
  <2>1. JobsOf(q) = [i \in 1 .. Len(q) |-> q[i].job]
    BY DEF JobsOf
  <2> QED
    BY <1>1, <2>1, JobsAre
<1>3. JobsOf(Append(q, e)) = [i \in 1 .. Len(q) + 1 |-> Append(q, e)[i].job]
  BY <1>1 DEF JobsOf
<1>4. Append(JobsOf(q), e.job) = [i \in 1 .. Len(q) + 1 |->
                                    IF i = Len(q) + 1 THEN e.job ELSE JobsOf(q)[i]]
  BY <1>2
<1>5. \A i \in 1 .. Len(q) + 1 :
        Append(q, e)[i].job = IF i = Len(q) + 1 THEN e.job ELSE JobsOf(q)[i]
  <2> SUFFICES ASSUME NEW i \in 1 .. Len(q) + 1
               PROVE  Append(q, e)[i].job = IF i = Len(q) + 1 THEN e.job ELSE JobsOf(q)[i]
    OBVIOUS
  <2>1. CASE i = Len(q) + 1
    BY <2>1
  <2>2. CASE i # Len(q) + 1
    <3>1. i \in DOMAIN q /\ Append(q, e)[i] = q[i]
      BY <1>1, <2>2
    <3> QED
      BY <2>2, <3>1, JobsAre
  <2> QED
    BY <2>1, <2>2
<1> QED
  BY <1>3, <1>4, <1>5

(* A queue with one more entry.                                            *)
LEMMA QueueGrows ==
  ASSUME NEW q \in Seq(JqEntries), IsInjective(JobsOf(q)), NEW e \in JqEntries,
         e.job \notin JqIn(q)
  PROVE  /\ Append(q, e) \in Seq(JqEntries) /\ IsInjective(JobsOf(Append(q, e)))
         /\ JqIn(Append(q, e)) = JqIn(q) \cup {e.job}
<1>1. PICK jobs, job : jobs = JobsOf(q) /\ job = e.job
  OBVIOUS
<1>2. jobs \in Seq(Jobs) /\ job \in Jobs
  BY <1>1, JobsAre DEF JqEntries
<1>3. /\ Range(Append(jobs, job)) = Range(jobs) \cup {job}
      /\ IsInjective(jobs) /\ job \notin Range(jobs) => IsInjective(Append(jobs, job))
  BY <1>2, Appended
<1>4. JobsOf(Append(q, e)) = Append(jobs, job)
  BY <1>1, JobsOfAppend
<1> QED
  BY <1>1, <1>3, <1>4 DEF JqIn

(* One without its first entry.                                            *)
LEMMA QueueShrinks ==
  ASSUME NEW q \in Seq(JqEntries), IsInjective(JobsOf(q)), q # << >>
  PROVE  /\ Tail(q) \in Seq(JqEntries) /\ IsInjective(JobsOf(Tail(q)))
         /\ JqIn(Tail(q)) = JqIn(q) \ {q[1].job}
         /\ q[1] \in JqEntries /\ q[1].job \in JqIn(q)
<1>1. PICK t : t = Tail(q)
  OBVIOUS
<1>2. /\ t \in Seq(JqEntries) /\ Len(q) \in Nat /\ Len(q) >= 1 /\ Len(t) = Len(q) - 1
      /\ \A i \in 1 .. Len(t) : t[i] = q[i + 1]
      /\ DOMAIN q = 1 .. Len(q) /\ DOMAIN t = 1 .. Len(t)
  BY <1>1
<1>3. /\ 1 \in DOMAIN q
      /\ \A i \in DOMAIN t : i + 1 \in DOMAIN q /\ i + 1 # 1 /\ t[i].job = q[i + 1].job
      /\ \A i \in DOMAIN q : i # 1 => i - 1 \in DOMAIN t /\ t[i - 1].job = q[i].job
  BY <1>2
<1>4. \A i, j \in DOMAIN q : q[i].job = q[j].job => i = j
  BY JobsAre DEF IsInjective
<1>5. IsInjective(JobsOf(t))
  <2> SUFFICES ASSUME NEW i \in DOMAIN t, NEW j \in DOMAIN t, t[i].job = t[j].job
               PROVE  i = j
    BY <1>2, JobsAre DEF IsInjective
  <2>1. i + 1 = j + 1
    BY <1>3, <1>4
  <2> QED
    BY <1>2, <2>1
<1>6. \A job : job \in JqIn(t) <=> \E i \in DOMAIN t : t[i].job = job
  BY <1>2, JobsAre
<1>7. JqIn(t) = JqIn(q) \ {q[1].job}
  <2>1. ASSUME NEW job \in JqIn(t) PROVE job \in JqIn(q) /\ job # q[1].job
    BY <1>3, <1>4, <1>6, <2>1, JobsAre
  <2>2. ASSUME NEW job \in JqIn(q), job # q[1].job PROVE job \in JqIn(t)
    <3>1. PICK i \in DOMAIN q : q[i].job = job
      BY JobsAre
    <3> QED
      BY <1>3, <1>6, <2>2, <3>1
  <2> QED
    BY <2>1, <2>2
<1> QED
  BY <1>1, <1>2, <1>3, <1>5, <1>7, JobsAre

(* The entries that are kept, and those that are not.                      *)
LEMMA QueueSelected ==
  ASSUME NEW q \in Seq(JqEntries), IsInjective(JobsOf(q)), NEW kept
  PROVE  /\ Selected(q, kept) \in Seq(JqEntries)
         /\ IsInjective(JobsOf(Selected(q, kept)))
         /\ \A job : job \in JqIn(Selected(q, kept)) <=>
              \E i \in DOMAIN q : q[i].job = job /\ q[i] \in kept
<1>1. PICK r, g : /\ r = Selected(q, kept) /\ r \in Seq(JqEntries)
                  /\ IsChoice(r, g, q, kept, Len(q))
  BY SelectedFacts
<1>2. DOMAIN q = 1 .. Len(q) /\ DOMAIN r = 1 .. Len(r) /\ Len(r) \in Nat
  BY <1>1
<1>3. \A i, j \in DOMAIN q : q[i].job = q[j].job => i = j
  BY JobsAre DEF IsInjective
<1>4. IsInjective(JobsOf(r))
  <2> SUFFICES ASSUME NEW j \in DOMAIN r, NEW k \in DOMAIN r, r[j].job = r[k].job
               PROVE  j = k
    BY <1>1, JobsAre DEF IsInjective
  <2>1. g[j] \in DOMAIN q /\ g[k] \in DOMAIN q /\ r[j] = q[g[j]] /\ r[k] = q[g[k]]
    BY <1>1, <1>2 DEF IsChoice
  <2>2. g[j] = g[k]
    BY <1>3, <2>1
  <2>3. ~(j < k) /\ ~(k < j)
    <3>1. g[j] \in Int
      BY <1>2, <2>1
    <3>2. ~(g[j] < g[k]) /\ ~(g[k] < g[j])
      BY <2>2, <3>1
    <3> QED
      BY <1>1, <3>2 DEF IsChoice
  <2> QED
    BY <1>2, <2>3
<1>5. \A job : job \in JqIn(r) <=> \E i \in DOMAIN q : q[i].job = job /\ q[i] \in kept
  <2>1. ASSUME NEW job \in JqIn(r)
        PROVE  \E i \in DOMAIN q : q[i].job = job /\ q[i] \in kept
    <3>1. PICK k \in DOMAIN r : r[k].job = job
      BY <1>1, JobsAre
    <3> QED
      BY <1>1, <1>2, <3>1 DEF IsChoice
  <2>2. ASSUME NEW i \in DOMAIN q, q[i] \in kept PROVE q[i].job \in JqIn(r)
    <3>1. PICK k \in DOMAIN r : g[k] = i
      BY <1>1, <1>2, <2>2 DEF IsChoice
    <3>2. r[k] = q[i]
      BY <1>1, <3>1 DEF IsChoice
    <3> QED
      BY <1>1, <3>2, JobsAre
  <2> QED
    BY <2>1, <2>2
<1> QED
  BY <1>1, <1>4, <1>5

(* Two queues, one after the other.                                        *)
LEMMA QueueJoined ==
  ASSUME NEW p \in Seq(JqEntries), IsInjective(JobsOf(p)),
         NEW q \in Seq(JqEntries), IsInjective(JobsOf(q)), JqIn(p) \cap JqIn(q) = {}
  PROVE  /\ p \o q \in Seq(JqEntries) /\ IsInjective(JobsOf(p \o q))
         /\ JqIn(p \o q) = JqIn(p) \cup JqIn(q)
<1>1. PICK r : r = p \o q
  OBVIOUS
<1>2. /\ r \in Seq(JqEntries) /\ Len(r) = Len(p) + Len(q)
      /\ Len(p) \in Nat /\ Len(q) \in Nat
      /\ DOMAIN r = 1 .. Len(r) /\ DOMAIN p = 1 .. Len(p) /\ DOMAIN q = 1 .. Len(q)
      /\ \A i \in 1 .. Len(p) : r[i] = p[i]
      /\ \A i \in 1 .. Len(q) : r[i + Len(p)] = q[i]
  BY <1>1
<1>3. ASSUME NEW i \in DOMAIN r
      PROVE  \/ i \in DOMAIN p /\ r[i] = p[i] /\ i <= Len(p)
             \/ i - Len(p) \in DOMAIN q /\ r[i] = q[i - Len(p)] /\ ~(i <= Len(p))
  <2>1. CASE i <= Len(p)
    BY <1>2, <2>1
  <2>2. CASE ~(i <= Len(p))
    <3>1. i - Len(p) \in 1 .. Len(q) /\ (i - Len(p)) + Len(p) = i
      BY <1>2, <2>2
    <3> QED
      BY <1>2, <2>2, <3>1
  <2> QED
    BY <2>1, <2>2
<1>4. /\ \A i, j \in DOMAIN p : p[i].job = p[j].job => i = j
      /\ \A i, j \in DOMAIN q : q[i].job = q[j].job => i = j
      /\ \A i \in DOMAIN p, j \in DOMAIN q : p[i].job # q[j].job
  <2>1. \A i \in DOMAIN p : p[i].job \in JqIn(p)
    BY JobsAre
  <2>2. \A j \in DOMAIN q : q[j].job \in JqIn(q)
    BY JobsAre
  <2> QED
    BY <2>1, <2>2, JobsAre DEF IsInjective
<1>5. IsInjective(JobsOf(r))
  <2> SUFFICES ASSUME NEW i \in DOMAIN r, NEW j \in DOMAIN r, r[i].job = r[j].job
               PROVE  i = j
    BY <1>2, JobsAre DEF IsInjective
  <2>1. i \in Int /\ j \in Int /\ Len(p) \in Int
    BY <1>2
  <2>2. CASE i <= Len(p) /\ j <= Len(p)
    BY <1>3, <1>4, <2>2
  <2>3. CASE ~(i <= Len(p)) /\ ~(j <= Len(p))
    <3>1. i - Len(p) = j - Len(p)
      BY <1>3, <1>4, <2>3
    <3> QED
      BY <2>1, <3>1
  <2>4. CASE i <= Len(p) /\ ~(j <= Len(p))
    BY <1>3, <1>4, <2>4
  <2>5. CASE ~(i <= Len(p)) /\ j <= Len(p)
    <3>1. i - Len(p) \in DOMAIN q /\ r[i] = q[i - Len(p)] /\ j \in DOMAIN p /\ r[j] = p[j]
      BY <1>3, <2>5
    <3> QED
      BY <1>4, <3>1
  <2> QED
    BY <2>2, <2>3, <2>4, <2>5
<1>6. r \in Seq(JqEntries)
  BY <1>2
<1>7. \A job : job \in JqIn(r) <=> \E i \in DOMAIN r : r[i].job = job
  BY <1>6, JobsAre
<1>8. JqIn(r) = JqIn(p) \cup JqIn(q)
  <2>1. ASSUME NEW job \in JqIn(r) PROVE job \in JqIn(p) \cup JqIn(q)
    <3>1. PICK i \in DOMAIN r : r[i].job = job
      BY <1>7, <2>1
    <3>2. CASE i \in DOMAIN p /\ r[i] = p[i]
      <4>1. job \in JqIn(p)
        BY <3>1, <3>2, JobsAre
      <4> QED
        BY <4>1
    <3>3. CASE i - Len(p) \in DOMAIN q /\ r[i] = q[i - Len(p)]
      <4>1. job \in JqIn(q)
        BY <3>1, <3>3, JobsAre
      <4> QED
        BY <4>1
    <3> QED
      BY <1>3, <3>2, <3>3
  <2>2. ASSUME NEW job \in JqIn(p) PROVE job \in JqIn(r)
    <3>1. PICK i \in DOMAIN p : p[i].job = job
      BY JobsAre
    <3>2. i \in DOMAIN r /\ r[i] = p[i]
      BY <1>2
    <3> QED
      BY <1>7, <3>1, <3>2
  <2>3. ASSUME NEW job \in JqIn(q) PROVE job \in JqIn(r)
    <3>1. PICK i \in DOMAIN q : q[i].job = job
      BY JobsAre
    <3>2. i + Len(p) \in DOMAIN r /\ r[i + Len(p)] = q[i]
      BY <1>2
    <3> QED
      BY <1>7, <3>1, <3>2
  <2> QED
    BY <2>1, <2>2, <2>3
<1> QED
  BY <1>1, <1>2, <1>5, <1>8

(* The inductive invariant: a run that runs its first entry has one, and    *)
(* the places of the jobs and the entries as JqConserved has them, the      *)
(* places written out.                                                     *)
RunsHold == \A r \in DOMAIN jq_runs : jq_runs[r].running => jq_runs[r].left # << >>

NoneTwice ==
  /\ IsInjective(JobsOf(jq_pending)) /\ IsInjective(jq_done) /\ IsInjective(jq_failed)
  /\ \A r \in DOMAIN jq_runs : IsInjective(JobsOf(jq_runs[r].left))

AttemptsLeft == \A i \in DOMAIN jq_pending : JqMayTry(jq_pending[i].attempts)

AtPending == <<"pending", 0>>
AtDone == <<"done", 0>>
AtFailed == <<"failed", 0>>
AtCleared == <<"cleared", 0>>
AtMissed == <<"missed", 0>>
AtLeft(r) == <<"left", r>>

JobsAt(where, place) == {job \in DOMAIN where : where[job] = place}

Placed(where) ==
  /\ where = [job \in 1 .. jq_pushed |-> where[job]]
  /\ \A job \in 1 .. jq_pushed : where[job] \in JqPlaces
  /\ JqIn(jq_pending) = JobsAt(where, AtPending)
  /\ Range(jq_done) = JobsAt(where, AtDone)
  /\ Range(jq_failed) = JobsAt(where, AtFailed)
  /\ jq_cleared = JobsAt(where, AtCleared)
  /\ jq_missed = JobsAt(where, AtMissed)
  /\ \A r \in DOMAIN jq_runs : JqIn(jq_runs[r].left) = JobsAt(where, AtLeft(r))

JqIInv ==
  /\ JqTypeOK
  /\ RunsHold
  /\ NoneTwice
  /\ AttemptsLeft
  /\ \E where : Placed(where)

LEMMA PlacesAre ==
  /\ \A place : place \in JqPlaces <=>
       \/ place \in {AtPending, AtDone, AtFailed, AtCleared, AtMissed}
       \/ \E r \in DOMAIN jq_runs : place = AtLeft(r)
  /\ \A place : place \in JqPlaces' <=>
       \/ place \in {AtPending, AtDone, AtFailed, AtCleared, AtMissed}
       \/ \E r \in DOMAIN jq_runs' : place = AtLeft(r)
  BY DEF JqPlaces, AtPending, AtDone, AtFailed, AtCleared, AtMissed, AtLeft

LEMMA PlacesApart ==
  /\ AtPending # AtDone /\ AtPending # AtFailed /\ AtPending # AtCleared
  /\ AtPending # AtMissed /\ AtDone # AtFailed /\ AtDone # AtCleared /\ AtDone # AtMissed
  /\ AtFailed # AtCleared /\ AtFailed # AtMissed /\ AtCleared # AtMissed
  /\ \A r : AtLeft(r) \notin {AtPending, AtDone, AtFailed, AtCleared, AtMissed}
  /\ \A r, s : AtLeft(r) = AtLeft(s) => r = s
  BY DEF AtPending, AtDone, AtFailed, AtCleared, AtMissed, AtLeft

LEMMA ConservedIs == JqIInv => JqConserved
<1> SUFFICES ASSUME JqIInv PROVE JqConserved
  OBVIOUS
<1>1. PICK where : Placed(where)
  BY DEF JqIInv
<1>2. where \in [1 .. jq_pushed -> JqPlaces]
  BY <1>1 DEF Placed
<1>3. ASSUME NEW place \in JqPlaces
      PROVE  JqAt(place) = {job \in 1 .. jq_pushed : where[job] = place}
  <2>1. JobsAt(where, place) = {job \in 1 .. jq_pushed : where[job] = place}
    BY <1>2 DEF JobsAt
  <2>2. CASE place = AtPending
    <3>1. JqAt(place) = JqIn(jq_pending)
      BY <2>2 DEF JqAt, AtPending, JqIn
    <3> QED
      BY <1>1, <2>1, <2>2, <3>1 DEF Placed
  <2>3. CASE place = AtDone
    <3>1. JqAt(place) = Range(jq_done)
      BY <2>3 DEF JqAt, AtDone
    <3> QED
      BY <1>1, <2>1, <2>3, <3>1 DEF Placed
  <2>4. CASE place = AtFailed
    <3>1. JqAt(place) = Range(jq_failed)
      BY <2>4 DEF JqAt, AtFailed
    <3> QED
      BY <1>1, <2>1, <2>4, <3>1 DEF Placed
  <2>5. CASE place = AtCleared
    <3>1. JqAt(place) = jq_cleared
      BY <2>5 DEF JqAt, AtCleared
    <3> QED
      BY <1>1, <2>1, <2>5, <3>1 DEF Placed
  <2>6. CASE place = AtMissed
    <3>1. JqAt(place) = jq_missed
      BY <2>6 DEF JqAt, AtMissed
    <3> QED
      BY <1>1, <2>1, <2>6, <3>1 DEF Placed
  <2>7. ASSUME NEW r \in DOMAIN jq_runs, place = AtLeft(r)
        PROVE  JqAt(place) = {job \in 1 .. jq_pushed : where[job] = place}
    <3>1. JqAt(place) = JqIn(jq_runs[r].left)
      BY <2>7 DEF JqAt, AtLeft, JqIn
    <3> QED
      BY <1>1, <2>1, <2>7, <3>1 DEF Placed
  <2> QED
    BY <2>2, <2>3, <2>4, <2>5, <2>6, <2>7, PlacesAre
<1> QED
  BY <1>2, <1>3 DEF JqIInv, NoneTwice, AttemptsLeft, JqConserved

LEMMA JqInitInvariant == JqInit => JqIInv
<1> SUFFICES ASSUME JqInit PROVE JqIInv
  OBVIOUS
<1>1. JqTypeOK
  BY JobAssumption DEF JqInit, JqTypeOK
<1>2. JobsOf(<< >>) = << >> /\ IsInjective(<< >>) /\ Range(<< >>) = {}
  BY DEF JobsOf, IsInjective, Range
<1>3. Placed(<< >>)
  <2>1. \A place : JobsAt(<< >>, place) = {}
    BY DEF JobsAt
  <2>2. JqIn(<< >>) = {}
    BY <1>2 DEF JqIn
  <2>3. << >> = [job \in 1 .. 0 |-> << >>[job]]
    OBVIOUS
  <2>4. /\ jq_pushed = 0 /\ jq_pending = << >> /\ jq_done = << >> /\ jq_failed = << >>
        /\ jq_runs = << >> /\ jq_cleared = {} /\ jq_missed = {}
    BY DEF JqInit
  <2>5. DOMAIN jq_runs = {} /\ 1 .. 0 = {}
    BY <2>4
  <2> QED
    BY <1>2, <2>1, <2>2, <2>3, <2>4, <2>5 DEF Placed
<1> QED
  BY <1>1, <1>2, <1>3 DEF JqInit, JqIInv, RunsHold, NoneTwice, AttemptsLeft

(* The state's fields, one by one.                                         *)
LEMMA JqFields ==
  ASSUME JqIInv
  PROVE  /\ jq_pushed \in Nat /\ jq_pushed <= JqLastJob
         /\ jq_pending \in Seq(JqEntries)
         /\ jq_done \in Seq(Jobs) /\ jq_failed \in Seq(Jobs)
         /\ jq_runs \in Seq([left : Seq(JqEntries), running : BOOLEAN])
         /\ DOMAIN jq_runs = 1 .. Len(jq_runs) /\ Len(jq_runs) \in Nat
         /\ \A r \in DOMAIN jq_runs : /\ jq_runs[r].left \in Seq(JqEntries)
                                      /\ jq_runs[r].running \in BOOLEAN
         /\ IsInjective(JobsOf(jq_pending)) /\ IsInjective(jq_done) /\ IsInjective(jq_failed)
         /\ \A r \in DOMAIN jq_runs : IsInjective(JobsOf(jq_runs[r].left))
<1>1. jq_pushed \in 0 .. JqLastJob
  BY DEF JqIInv, JqTypeOK
<1>2. jq_runs \in Seq([left : Seq(JqEntries), running : BOOLEAN])
  BY DEF JqIInv, JqTypeOK
<1>3. /\ DOMAIN jq_runs = 1 .. Len(jq_runs) /\ Len(jq_runs) \in Nat
  BY <1>2
<1>4. \A r \in DOMAIN jq_runs : jq_runs[r] \in [left : Seq(JqEntries), running : BOOLEAN]
  BY <1>2, <1>3, ElementOfSeq
<1>5. \A r \in DOMAIN jq_runs : /\ jq_runs[r].left \in Seq(JqEntries)
                                /\ jq_runs[r].running \in BOOLEAN
  BY <1>4
<1>6. jq_pending \in Seq(JqEntries) /\ jq_done \in Seq(Jobs) /\ jq_failed \in Seq(Jobs)
  BY DEF JqIInv, JqTypeOK
<1> QED
  BY <1>1, <1>2, <1>3, <1>5, <1>6, JobAssumption DEF JqIInv, NoneTwice

(* The innermost run is done with its first entry.                         *)
LEMMA JqTakenRuns ==
  ASSUME JqIInv, jq_runs # << >>, jq_runs[1].left # << >>, jq_runs' = JqTaken
  PROVE  /\ 1 \in DOMAIN jq_runs /\ DOMAIN jq_runs' = DOMAIN jq_runs
         /\ jq_runs' \in Seq([left : Seq(JqEntries), running : BOOLEAN])
         /\ jq_runs'[1].left = Tail(jq_runs[1].left) /\ jq_runs'[1].running = FALSE
         /\ \A r \in DOMAIN jq_runs : r # 1 => jq_runs'[r] = jq_runs[r]
<1>1. /\ jq_runs \in Seq([left : Seq(JqEntries), running : BOOLEAN])
      /\ DOMAIN jq_runs = 1 .. Len(jq_runs) /\ Len(jq_runs) \in Nat
  BY JqFields
<1>2. 1 \in DOMAIN jq_runs
  BY <1>1
<1>3. PICK run \in [left : Seq(JqEntries), running : BOOLEAN] :
        run = [jq_runs[1] EXCEPT !.left = Tail(@), !.running = FALSE]
  <2>1. jq_runs[1] \in [left : Seq(JqEntries), running : BOOLEAN]
    BY <1>1, <1>2, ElementOfSeq
  <2>2. Tail(jq_runs[1].left) \in Seq(JqEntries)
    BY <2>1
  <2> QED
    BY <2>1, <2>2
<1>4. run.left = Tail(jq_runs[1].left) /\ run.running = FALSE
  <2>1. jq_runs[1] \in [left : Seq(JqEntries), running : BOOLEAN]
    BY <1>1, <1>2, ElementOfSeq
  <2> QED
    BY <1>3, <2>1
<1>5. jq_runs' = [jq_runs EXCEPT ![1] = run]
  BY <1>2, <1>3 DEF JqTaken
<1> QED
  BY <1>1, <1>2, <1>4, <1>5, ExceptSeq

(* Its job goes to one of the other places.                                *)
JqMoved(job, dest) ==
  \/ /\ dest = AtPending
     /\ \E attempts \in 0 .. MaxRetry :
          /\ attempts < MaxRetry
          /\ jq_pending' = Append(jq_pending, JqEntry(job, attempts, FALSE))
     /\ UNCHANGED <<jq_done, jq_failed>>
  \/ /\ dest = AtDone /\ jq_done' = Append(jq_done, job)
     /\ UNCHANGED <<jq_pending, jq_failed>>
  \/ /\ dest = AtFailed /\ jq_failed' = Append(jq_failed, job)
     /\ UNCHANGED <<jq_pending, jq_done>>

LEMMA MovedSets ==
  ASSUME JqIInv, NEW job \in Jobs, NEW dest, JqMoved(job, dest),
         job \notin JqIn(jq_pending), job \notin Range(jq_done), job \notin Range(jq_failed)
  PROVE  /\ jq_pending' \in Seq(JqEntries) /\ jq_done' \in Seq(Jobs)
         /\ jq_failed' \in Seq(Jobs)
         /\ IsInjective(JobsOf(jq_pending')) /\ IsInjective(jq_done')
         /\ IsInjective(jq_failed')
         /\ AttemptsLeft'
         /\ JqIn(jq_pending') = JqIn(jq_pending) \cup (IF dest = AtPending THEN {job} ELSE {})
         /\ Range(jq_done') = Range(jq_done) \cup (IF dest = AtDone THEN {job} ELSE {})
         /\ Range(jq_failed') = Range(jq_failed) \cup (IF dest = AtFailed THEN {job} ELSE {})
<1>1. /\ jq_pending \in Seq(JqEntries) /\ jq_done \in Seq(Jobs) /\ jq_failed \in Seq(Jobs)
      /\ IsInjective(JobsOf(jq_pending)) /\ IsInjective(jq_done) /\ IsInjective(jq_failed)
      /\ AttemptsLeft
  BY JqFields DEF JqIInv
<1>2. CASE dest = AtPending
  <2>1. PICK attempts \in 0 .. MaxRetry :
          /\ attempts < MaxRetry
          /\ jq_pending' = Append(jq_pending, JqEntry(job, attempts, FALSE))
          /\ UNCHANGED <<jq_done, jq_failed>>
    BY <1>2, PlacesApart DEF JqMoved
  <2>2. PICK e \in JqEntries : /\ e = JqEntry(job, attempts, FALSE)
                               /\ e.job = job /\ e.attempts = attempts
    <3>1. PICK e : e = [job |-> job, attempts |-> attempts, due |-> FALSE]
      OBVIOUS
    <3>2. e \in JqEntries
      BY <3>1 DEF JqEntries
    <3> QED
      BY <3>1, <3>2 DEF JqEntry
  <2>3. jq_pending' = Append(jq_pending, e)
    BY <2>1, <2>2
  <2>4. /\ jq_pending' \in Seq(JqEntries) /\ IsInjective(JobsOf(jq_pending'))
        /\ JqIn(jq_pending') = JqIn(jq_pending) \cup {job}
    BY <1>1, <2>2, <2>3, QueueGrows
  <2>5. AttemptsLeft'
    <3> SUFFICES ASSUME NEW i \in DOMAIN jq_pending'
                 PROVE  JqMayTry(jq_pending'[i].attempts)
      BY DEF AttemptsLeft
    <3>1. i \in 1 .. Len(jq_pending) + 1 /\ Len(jq_pending) \in Nat
      BY <1>1, <2>3
    <3>2. CASE i = Len(jq_pending) + 1
      <4>1. jq_pending'[i] = e
        BY <1>1, <2>3, <3>2
      <4> QED
        BY <2>1, <2>2, <4>1 DEF JqMayTry
    <3>3. CASE i # Len(jq_pending) + 1
      <4>1. i \in DOMAIN jq_pending /\ jq_pending'[i] = jq_pending[i]
        BY <1>1, <2>3, <3>1, <3>3
      <4> QED
        BY <1>1, <4>1 DEF AttemptsLeft
    <3> QED
      BY <3>2, <3>3
  <2> QED
    BY <1>1, <1>2, <2>1, <2>4, <2>5, PlacesApart
<1>3. CASE dest = AtDone
  <2>1. jq_done' = Append(jq_done, job) /\ UNCHANGED <<jq_pending, jq_failed>>
    BY <1>3, PlacesApart DEF JqMoved
  <2>2. /\ jq_done' \in Seq(Jobs) /\ IsInjective(jq_done')
        /\ Range(jq_done') = Range(jq_done) \cup {job}
    BY <1>1, <2>1, Appended
  <2> QED
    BY <1>1, <1>3, <2>1, <2>2, PlacesApart DEF AttemptsLeft
<1>4. CASE dest = AtFailed
  <2>1. jq_failed' = Append(jq_failed, job) /\ UNCHANGED <<jq_pending, jq_done>>
    BY <1>4, PlacesApart DEF JqMoved
  <2>2. /\ jq_failed' \in Seq(Jobs) /\ IsInjective(jq_failed')
        /\ Range(jq_failed') = Range(jq_failed) \cup {job}
    BY <1>1, <2>1, Appended
  <2> QED
    BY <1>1, <1>4, <2>1, <2>2, PlacesApart DEF AttemptsLeft
<1> QED
  BY <1>2, <1>3, <1>4 DEF JqMoved

LEMMA MovedInvariant ==
  ASSUME JqIInv, jq_runs # << >>, jq_runs[1].left # << >>, jq_runs' = JqTaken,
         NEW dest, JqMoved(JqNext1.job, dest),
         UNCHANGED <<jq_pushed, jq_retried, jq_cleared, jq_missed>>
  PROVE  JqIInv'
<1>1. PICK where, q, job : Placed(where) /\ q = jq_runs[1].left /\ job = q[1].job
  BY DEF JqIInv
<1>2. /\ q \in Seq(JqEntries) /\ IsInjective(JobsOf(q)) /\ q # << >>
      /\ 1 \in DOMAIN jq_runs /\ DOMAIN jq_runs' = DOMAIN jq_runs
      /\ jq_runs'[1].left = Tail(q) /\ jq_runs'[1].running = FALSE
      /\ \A r \in DOMAIN jq_runs : r # 1 => jq_runs'[r] = jq_runs[r]
  BY <1>1, JqTakenRuns, JqFields
<1>3. /\ Tail(q) \in Seq(JqEntries) /\ IsInjective(JobsOf(Tail(q)))
      /\ JqIn(Tail(q)) = JqIn(q) \ {job} /\ job \in JqIn(q) /\ job \in Jobs
  <2>1. JqIn(q) \subseteq Jobs
    BY <1>2, JobsAre
  <2> QED
    BY <1>1, <1>2, <2>1, QueueShrinks
<1>4. /\ job \in 1 .. jq_pushed /\ where[job] = AtLeft(1)
      /\ where = [j \in 1 .. jq_pushed |-> where[j]]
  <2>1. job \in JobsAt(where, AtLeft(1))
    BY <1>1, <1>2, <1>3 DEF Placed
  <2>2. where = [j \in 1 .. jq_pushed |-> where[j]]
    BY <1>1 DEF Placed
  <2>3. DOMAIN where = 1 .. jq_pushed
    BY <2>2
  <2> QED
    BY <2>1, <2>2, <2>3 DEF JobsAt
<1>5. job \notin JqIn(jq_pending) /\ job \notin Range(jq_done) /\ job \notin Range(jq_failed)
  BY <1>1, <1>4, PlacesApart DEF Placed, JobsAt
<1>6. /\ jq_pending' \in Seq(JqEntries) /\ jq_done' \in Seq(Jobs)
      /\ jq_failed' \in Seq(Jobs)
      /\ IsInjective(JobsOf(jq_pending')) /\ IsInjective(jq_done')
      /\ IsInjective(jq_failed')
      /\ AttemptsLeft'
      /\ JqIn(jq_pending') = JqIn(jq_pending) \cup (IF dest = AtPending THEN {job} ELSE {})
      /\ Range(jq_done') = Range(jq_done) \cup (IF dest = AtDone THEN {job} ELSE {})
      /\ Range(jq_failed') = Range(jq_failed) \cup (IF dest = AtFailed THEN {job} ELSE {})
  <2>1. JqMoved(job, dest)
    BY <1>1 DEF JqNext1
  <2> QED
    BY <1>3, <1>5, <2>1, MovedSets
<1>7. dest \in {AtPending, AtDone, AtFailed}
  BY DEF JqMoved
<1> DEFINE there == [where EXCEPT ![job] = dest]
<1>8. /\ there = [j \in 1 .. jq_pushed |-> there[j]] /\ there[job] = dest
      /\ \A j \in 1 .. jq_pushed : j # job => there[j] = where[j]
      /\ DOMAIN there = 1 .. jq_pushed /\ DOMAIN where = 1 .. jq_pushed
  BY <1>4
<1> HIDE DEF there
<1>9. \A place : JobsAt(there, place) =
        (JobsAt(where, place) \ {job}) \cup (IF place = dest THEN {job} ELSE {})
  BY <1>4, <1>8 DEF JobsAt
<1>10. Placed(there)'
  <2>1. \A j \in 1 .. jq_pushed' : there[j] \in JqPlaces'
    BY <1>1, <1>2, <1>7, <1>8, PlacesAre DEF Placed
  <2>2. JqIn(jq_pending') = JobsAt(there, AtPending)
    BY <1>1, <1>5, <1>6, <1>9 DEF Placed
  <2>3. Range(jq_done') = JobsAt(there, AtDone)
    BY <1>1, <1>5, <1>6, <1>9 DEF Placed
  <2>4. Range(jq_failed') = JobsAt(there, AtFailed)
    BY <1>1, <1>5, <1>6, <1>9 DEF Placed
  <2>5. jq_cleared' = JobsAt(there, AtCleared) /\ jq_missed' = JobsAt(there, AtMissed)
    <3>1. job \notin jq_cleared /\ job \notin jq_missed
      BY <1>1, <1>4, PlacesApart DEF Placed, JobsAt
    <3>2. jq_cleared = JobsAt(where, AtCleared) /\ jq_missed = JobsAt(where, AtMissed)
      BY <1>1 DEF Placed
    <3>3. dest # AtCleared /\ dest # AtMissed
      BY <1>7, PlacesApart
    <3> QED
      BY <1>9, <3>1, <3>2, <3>3
  <2>6. ASSUME NEW r \in DOMAIN jq_runs'
        PROVE  JqIn(jq_runs'[r].left) = JobsAt(there, AtLeft(r))
    <3>1. JobsAt(there, AtLeft(r)) = JobsAt(where, AtLeft(r)) \ {job}
      BY <1>7, <1>9, PlacesApart
    <3>2. CASE r = 1
      BY <1>1, <1>2, <1>3, <3>1, <3>2 DEF Placed
    <3>3. CASE r # 1
      <4>1. JqIn(jq_runs'[r].left) = JobsAt(where, AtLeft(r))
        BY <1>1, <1>2, <3>3 DEF Placed
      <4>2. job \notin JobsAt(where, AtLeft(r))
        BY <1>4, <3>3, PlacesApart DEF JobsAt
      <4> QED
        BY <3>1, <4>1, <4>2
    <3> QED
      BY <3>2, <3>3
  <2> QED
    BY <1>8, <2>1, <2>2, <2>3, <2>4, <2>5, <2>6 DEF Placed
<1>11. JqTypeOK'
  <2>1. jq_runs' \in Seq([left : Seq(JqEntries), running : BOOLEAN])
    BY JqTakenRuns
  <2> QED
    BY <1>6, <2>1 DEF JqIInv, JqTypeOK, JqEntries, Jobs
<1>12. RunsHold'
  BY <1>2 DEF JqIInv, RunsHold
<1>13. NoneTwice'
  BY <1>2, <1>3, <1>6 DEF JqIInv, NoneTwice
<1> QED
  BY <1>6, <1>10, <1>11, <1>12, <1>13 DEF JqIInv

(* A job is pushed.                                                        *)
LEMMA PushInvariant ==
  ASSUME JqIInv, NEW delayed \in BOOLEAN, JqPush(delayed)
  PROVE  JqIInv'
<1>1. /\ jq_pushed \in Nat /\ jq_pushed < JqLastJob /\ jq_pushed' = jq_pushed + 1
      /\ jq_pending' = Append(jq_pending, JqEntry(jq_pushed + 1, 0, ~delayed))
      /\ UNCHANGED <<jq_done, jq_failed, jq_runs, jq_retried, jq_cleared, jq_missed>>
  BY JqFields DEF JqPush
<1>2. PICK where : Placed(where)
  BY DEF JqIInv
<1>3. PICK job \in Jobs : job = jq_pushed + 1
  BY <1>1, JobAssumption DEF Jobs
<1>4. PICK e \in JqEntries : e = JqEntry(job, 0, ~delayed) /\ e.job = job /\ e.attempts = 0
  <2>1. PICK e : e = [job |-> job, attempts |-> 0, due |-> ~delayed]
    OBVIOUS
  <2>2. e \in JqEntries
    BY <2>1, JobAssumption DEF JqEntries
  <2> QED
    BY <2>1, <2>2 DEF JqEntry
<1>5. where = [j \in 1 .. jq_pushed |-> where[j]] /\ DOMAIN where = 1 .. jq_pushed
  BY <1>2 DEF Placed
<1>6. jq_pending \in Seq(JqEntries) /\ IsInjective(JobsOf(jq_pending)) /\ job \notin JqIn(jq_pending)
  <2>1. job \notin JobsAt(where, AtPending)
    BY <1>1, <1>3, <1>5 DEF JobsAt
  <2> QED
    BY <1>2, <2>1, JqFields DEF Placed
<1>7. jq_pending' = Append(jq_pending, e)
  BY <1>1, <1>3, <1>4
<1>8. /\ jq_pending' \in Seq(JqEntries) /\ IsInjective(JobsOf(jq_pending'))
      /\ JqIn(jq_pending') = JqIn(jq_pending) \cup {job}
  BY <1>4, <1>6, <1>7, QueueGrows
<1>9. AttemptsLeft'
  <2> SUFFICES ASSUME NEW i \in DOMAIN jq_pending'
               PROVE  JqMayTry(jq_pending'[i].attempts)
    BY DEF AttemptsLeft
  <2>1. i \in 1 .. Len(jq_pending) + 1 /\ Len(jq_pending) \in Nat
    BY <1>6, <1>7
  <2>2. CASE i = Len(jq_pending) + 1
    <3>1. jq_pending'[i] = e
      BY <1>6, <1>7, <2>2
    <3> QED
      BY <1>4, <3>1 DEF JqMayTry
  <2>3. CASE i # Len(jq_pending) + 1
    <3>1. i \in DOMAIN jq_pending /\ jq_pending'[i] = jq_pending[i]
      BY <1>6, <1>7, <2>1, <2>3
    <3> QED
      BY <3>1 DEF JqIInv, AttemptsLeft
  <2> QED
    BY <2>2, <2>3
<1> DEFINE there == [j \in 1 .. job |-> IF j = job THEN AtPending ELSE where[j]]
<1>10. /\ there = [j \in 1 .. jq_pushed' |-> there[j]] /\ there[job] = AtPending
       /\ DOMAIN there = 1 .. jq_pushed' /\ job \in 1 .. jq_pushed'
       /\ \A j \in 1 .. jq_pushed' : j # job => j \in 1 .. jq_pushed /\ there[j] = where[j]
       /\ \A j \in 1 .. jq_pushed : j \in 1 .. jq_pushed' /\ j # job
  BY <1>1, <1>3
<1> HIDE DEF there
<1>11. \A place : JobsAt(there, place) =
         JobsAt(where, place) \cup (IF place = AtPending THEN {job} ELSE {})
  BY <1>5, <1>10 DEF JobsAt
<1>12. Placed(there)'
  <2>1. \A j \in 1 .. jq_pushed' : there[j] \in JqPlaces'
    <3>1. JqPlaces' = JqPlaces
      BY <1>1 DEF JqPlaces
    <3> QED
      BY <1>2, <1>10, <3>1, PlacesAre DEF Placed
  <2>2. JqIn(jq_pending') = JobsAt(there, AtPending)
    BY <1>2, <1>8, <1>11 DEF Placed
  <2>3. /\ Range(jq_done') = JobsAt(there, AtDone)
        /\ Range(jq_failed') = JobsAt(there, AtFailed)
        /\ jq_cleared' = JobsAt(there, AtCleared) /\ jq_missed' = JobsAt(there, AtMissed)
        /\ \A r \in DOMAIN jq_runs' : JqIn(jq_runs'[r].left) = JobsAt(there, AtLeft(r))
    <3>1. \A place : place # AtPending => JobsAt(there, place) = JobsAt(where, place)
      BY <1>11
    <3>2. /\ JobsAt(there, AtDone) = JobsAt(where, AtDone)
          /\ JobsAt(there, AtFailed) = JobsAt(where, AtFailed)
          /\ JobsAt(there, AtCleared) = JobsAt(where, AtCleared)
          /\ JobsAt(there, AtMissed) = JobsAt(where, AtMissed)
          /\ \A r : JobsAt(there, AtLeft(r)) = JobsAt(where, AtLeft(r))
      BY <3>1, PlacesApart
    <3> QED
      BY <1>1, <1>2, <3>2 DEF Placed
  <2> QED
    BY <1>10, <2>1, <2>2, <2>3 DEF Placed
<1>13. JqTypeOK'
  <2>1. jq_pushed' \in 0 .. JqLastJob
    BY <1>1, JobAssumption
  <2> QED
    BY <1>1, <1>8, <2>1 DEF JqIInv, JqTypeOK, JqEntries, Jobs
<1>14. RunsHold' /\ NoneTwice'
  BY <1>1, <1>8 DEF JqIInv, RunsHold, NoneTwice
<1> QED
  BY <1>9, <1>12, <1>13, <1>14 DEF JqIInv

(* The time of a delayed job comes.                                        *)
LEMMA DueInvariant ==
  ASSUME JqIInv, NEW i, JqDue(i)
  PROVE  JqIInv'
<1>1. /\ jq_pending \in Seq(JqEntries) /\ i \in 1 .. Len(jq_pending)
      /\ DOMAIN jq_pending = 1 .. Len(jq_pending)
  BY JqFields DEF JqDue
<1>2. PICK e \in JqEntries : /\ e = [jq_pending[i] EXCEPT !.due = TRUE]
                             /\ e.job = jq_pending[i].job
                             /\ e.attempts = jq_pending[i].attempts
  <2>1. jq_pending[i] \in JqEntries
    BY <1>1, ElementOfSeq
  <2>2. PICK e : e = [jq_pending[i] EXCEPT !.due = TRUE]
    OBVIOUS
  <2>3. e \in JqEntries
    BY <2>1, <2>2 DEF JqEntries
  <2>4. e.job = jq_pending[i].job /\ e.attempts = jq_pending[i].attempts
    BY <2>1, <2>2 DEF JqEntries
  <2> QED
    BY <2>2, <2>3, <2>4
<1>3. /\ jq_pending' = [jq_pending EXCEPT ![i] = e]
      /\ UNCHANGED <<jq_pushed, jq_done, jq_failed, jq_runs, jq_retried, jq_cleared,
                     jq_missed>>
  BY <1>2 DEF JqDue
<1>4. /\ jq_pending' \in Seq(JqEntries) /\ Len(jq_pending') = Len(jq_pending)
      /\ DOMAIN jq_pending' = DOMAIN jq_pending
      /\ \A j \in DOMAIN jq_pending : jq_pending'[j] = IF j = i THEN e ELSE jq_pending[j]
  BY <1>1, <1>3, ExceptSeq
<1>5. JobsOf(jq_pending') = JobsOf(jq_pending)
  BY <1>2, <1>4 DEF JobsOf
<1>6. AttemptsLeft'
  BY <1>2, <1>4 DEF JqIInv, AttemptsLeft
<1>7. PICK where : Placed(where)
  BY DEF JqIInv
<1>8. Placed(where)'
  <2>1. JqPlaces' = JqPlaces /\ JqIn(jq_pending') = JqIn(jq_pending)
    BY <1>3, <1>5 DEF JqPlaces, JqIn
  <2> QED
    BY <1>3, <1>7, <2>1 DEF Placed
<1>9. JqTypeOK'
  BY <1>3, <1>4 DEF JqIInv, JqTypeOK, JqEntries, Jobs
<1>10. RunsHold' /\ NoneTwice'
  BY <1>3, <1>5 DEF JqIInv, RunsHold, NoneTwice
<1> QED
  BY <1>6, <1>8, <1>9, <1>10 DEF JqIInv

(* The entries that are due are taken out of the queue.                    *)
LEMMA ProcessInvariant ==
  ASSUME JqIInv, NEW late \in SUBSET Jobs, JqProcess(late)
  PROVE  JqIInv'
<1> DEFINE keep == {e \in Range(jq_pending) : IsDue(e)}
           stay == {e \in Range(jq_pending) : ~IsDue(e) /\ e.job \notin late}
<1>1. PICK where, q, taken, rest :
        /\ Placed(where) /\ q = jq_pending
        /\ taken = Selected(q, keep) /\ rest = Selected(q, stay)
  BY DEF JqIInv
<1>2. /\ q \in Seq(JqEntries) /\ IsInjective(JobsOf(q))
      /\ jq_runs \in Seq([left : Seq(JqEntries), running : BOOLEAN])
      /\ DOMAIN jq_runs = 1 .. Len(jq_runs) /\ Len(jq_runs) \in Nat
  BY <1>1, JqFields
<1>3. /\ \A i \in DOMAIN q : q[i] \in Range(jq_pending)
      /\ \A i, j \in DOMAIN q : q[i].job = q[j].job => i = j
  <2>1. \A i \in DOMAIN q : q[i] \in Range(jq_pending)
    BY <1>1 DEF Range
  <2> QED
    BY <1>2, <2>1, JobsAre DEF IsInjective
<1>4. /\ taken \in Seq(JqEntries) /\ IsInjective(JobsOf(taken))
      /\ \A job : job \in JqIn(taken) <=>
           \E i \in DOMAIN q : q[i].job = job /\ q[i] \in keep
  BY <1>1, <1>2, QueueSelected
<1>5. /\ rest \in Seq(JqEntries) /\ IsInjective(JobsOf(rest))
      /\ \A job : job \in JqIn(rest) <=>
           \E i \in DOMAIN q : q[i].job = job /\ q[i] \in stay
  BY <1>1, <1>2, QueueSelected
<1>6. /\ \A job : job \in JqIn(taken) <=>
           \E i \in DOMAIN q : q[i].job = job /\ IsDue(q[i])
      /\ \A job : job \in JqIn(rest) <=>
           \E i \in DOMAIN q : q[i].job = job /\ ~IsDue(q[i]) /\ job \notin late
      /\ \A job \in late : \E i \in DOMAIN q : q[i].job = job /\ ~IsDue(q[i])
      /\ \A job : job \in JqIn(q) <=> \E i \in DOMAIN q : q[i].job = job
  <2>1. \A job \in late : \E i \in DOMAIN q : q[i].job = job /\ ~IsDue(q[i])
    BY <1>1 DEF JqProcess, IsDue
  <2>2. \A i \in DOMAIN q : /\ q[i] \in keep <=> IsDue(q[i])
                            /\ q[i] \in stay <=> ~IsDue(q[i]) /\ q[i].job \notin late
    BY <1>3
  <2> HIDE DEF keep, stay
  <2>3. \A job : job \in JqIn(taken) <=> \E i \in DOMAIN q : q[i].job = job /\ IsDue(q[i])
    BY <1>4, <2>2
  <2>4. \A job : job \in JqIn(rest) <=>
          \E i \in DOMAIN q : q[i].job = job /\ ~IsDue(q[i]) /\ job \notin late
    BY <1>5, <2>2
  <2>5. \A job : job \in JqIn(q) <=> \E i \in DOMAIN q : q[i].job = job
    BY <1>2, JobsAre
  <2> QED
    BY <2>1, <2>3, <2>4, <2>5
<1> HIDE DEF keep, stay
<1>7. /\ JqIn(q) = JqIn(taken) \cup JqIn(rest) \cup late
      /\ JqIn(taken) \cap JqIn(rest) = {} /\ JqIn(taken) \cap late = {}
      /\ JqIn(rest) \cap late = {}
  <2>1. ASSUME NEW job \in JqIn(q) PROVE job \in JqIn(taken) \cup JqIn(rest) \cup late
    BY <1>6, <2>1
  <2>2. ASSUME NEW job \in JqIn(taken) \cup JqIn(rest) \cup late PROVE job \in JqIn(q)
    BY <1>6, <2>2
  <2>3. ASSUME NEW job \in JqIn(taken) PROVE job \notin JqIn(rest) /\ job \notin late
    BY <1>3, <1>6, <2>3
  <2>4. ASSUME NEW job \in JqIn(rest) PROVE job \notin late
    BY <1>6, <2>4
  <2> QED
    BY <2>1, <2>2, <2>3, <2>4
<1>8. PICK run \in [left : Seq(JqEntries), running : BOOLEAN] :
        run = [left |-> taken, running |-> FALSE] /\ run.left = taken /\ run.running = FALSE
  <2>1. PICK run : run = [left |-> taken, running |-> FALSE]
    OBVIOUS
  <2>2. run \in [left : Seq(JqEntries), running : BOOLEAN]
    BY <1>4, <2>1
  <2> QED
    BY <2>1, <2>2
<1>9. /\ jq_runs' = <<run>> \o jq_runs /\ jq_pending' = rest /\ jq_missed' = jq_missed \cup late
      /\ UNCHANGED <<jq_pushed, jq_done, jq_failed, jq_retried, jq_cleared>>
  BY <1>1, <1>8 DEF JqProcess, JqReadyNow, JqWaiting, keep, stay
<1>10. /\ jq_runs' \in Seq([left : Seq(JqEntries), running : BOOLEAN])
       /\ DOMAIN jq_runs' = 1 .. Len(jq_runs) + 1
       /\ jq_runs'[1] = run
       /\ \A r \in 1 .. Len(jq_runs) : jq_runs'[r + 1] = jq_runs[r]
  BY <1>2, <1>8, <1>9
<1>11. \A r \in DOMAIN jq_runs' : r # 1 => /\ r - 1 \in DOMAIN jq_runs
                                           /\ jq_runs'[r] = jq_runs[r - 1]
  <2> SUFFICES ASSUME NEW r \in DOMAIN jq_runs', r # 1
               PROVE  r - 1 \in DOMAIN jq_runs /\ jq_runs'[r] = jq_runs[r - 1]
    OBVIOUS
  <2>1. r - 1 \in 1 .. Len(jq_runs) /\ (r - 1) + 1 = r
    BY <1>2, <1>10
  <2> QED
    BY <1>2, <1>10, <2>1
<1> DEFINE Moved(place) ==
             IF \E r \in DOMAIN jq_runs : place = AtLeft(r)
               THEN AtLeft((CHOOSE r \in DOMAIN jq_runs : place = AtLeft(r)) + 1)
               ELSE place
           after == [j \in 1 .. jq_pushed |->
                       IF j \in JqIn(taken) THEN AtLeft(1)
                       ELSE IF j \in late THEN AtMissed
                       ELSE Moved(where[j])]
<1>12. /\ where = [j \in 1 .. jq_pushed |-> where[j]] /\ DOMAIN where = 1 .. jq_pushed
       /\ JqIn(q) = JobsAt(where, AtPending)
  BY <1>1 DEF Placed
<1>13. PICK there :
         /\ there = [j \in 1 .. jq_pushed |-> there[j]] /\ DOMAIN there = 1 .. jq_pushed
         /\ \A j \in 1 .. jq_pushed :
              /\ j \in JqIn(taken) => there[j] = AtLeft(1)
              /\ j \in late => there[j] = AtMissed
              /\ j \notin JqIn(taken) /\ j \notin late => there[j] = Moved(where[j])
  <2>1. PICK there : there = after
    OBVIOUS
  <2>2. there = [j \in 1 .. jq_pushed |-> there[j]] /\ DOMAIN there = 1 .. jq_pushed
    BY <2>1
  <2>3. \A j \in 1 .. jq_pushed :
          there[j] = IF j \in JqIn(taken) THEN AtLeft(1)
                     ELSE IF j \in late THEN AtMissed ELSE Moved(where[j])
    BY <2>1
  <2> HIDE DEF after, Moved
  <2> QED
    BY <1>7, <2>2, <2>3
<1>14. /\ \A r \in DOMAIN jq_runs : Moved(AtLeft(r)) = AtLeft(r + 1)
       /\ \A place \in {AtPending, AtDone, AtFailed, AtCleared, AtMissed} :
            Moved(place) = place
  BY PlacesApart
<1> HIDE DEF after, Moved
<1>15. \A j \in 1 .. jq_pushed :
         \/ where[j] \in {AtPending, AtDone, AtFailed, AtCleared, AtMissed}
         \/ \E r \in DOMAIN jq_runs : where[j] = AtLeft(r)
  BY <1>1, PlacesAre DEF Placed
<1>16. \A j \in 1 .. jq_pushed : j \in JqIn(taken) \/ j \in late => where[j] = AtPending
  BY <1>7, <1>12 DEF JobsAt
<1>17. \A r \in DOMAIN jq_runs : r \in Int /\ r + 1 # 1 /\ r + 1 \in DOMAIN jq_runs'
  BY <1>2, <1>10
<1>18. JobsAt(there, AtPending) = JobsAt(where, AtPending) \ (JqIn(taken) \cup late)
  BY <1>12, <1>13, <1>14, <1>15, PlacesApart DEF JobsAt
<1>19. /\ JobsAt(there, AtDone) = JobsAt(where, AtDone)
       /\ JobsAt(there, AtFailed) = JobsAt(where, AtFailed)
       /\ JobsAt(there, AtCleared) = JobsAt(where, AtCleared)
  BY <1>12, <1>13, <1>14, <1>15, <1>16, PlacesApart DEF JobsAt
<1>20. JobsAt(there, AtMissed) = JobsAt(where, AtMissed) \cup late
  <2>1. late \subseteq 1 .. jq_pushed
    BY <1>7, <1>12 DEF JobsAt
  <2> QED
    BY <1>7, <1>12, <1>13, <1>14, <1>15, <1>16, <2>1, PlacesApart DEF JobsAt
<1>21. JobsAt(there, AtLeft(1)) = JqIn(taken)
  <2>1. JqIn(taken) \subseteq 1 .. jq_pushed
    BY <1>7, <1>12 DEF JobsAt
  <2>2. ASSUME NEW j \in 1 .. jq_pushed, j \notin JqIn(taken) PROVE there[j] # AtLeft(1)
    BY <1>13, <1>14, <1>15, <1>17, <2>2, PlacesApart
  <2> QED
    BY <1>13, <2>1, <2>2 DEF JobsAt
<1>22. ASSUME NEW r \in DOMAIN jq_runs PROVE JobsAt(there, AtLeft(r + 1)) = JobsAt(where, AtLeft(r))
  <2>1. ASSUME NEW j \in 1 .. jq_pushed
        PROVE  there[j] = AtLeft(r + 1) <=> where[j] = AtLeft(r)
    <3>1. CASE j \in JqIn(taken) \/ j \in late
      BY <1>13, <1>16, <1>17, <3>1, PlacesApart
    <3>2. CASE j \notin JqIn(taken) /\ j \notin late
      <4>1. there[j] = Moved(where[j])
        BY <1>13, <3>2
      <4>2. CASE where[j] \in {AtPending, AtDone, AtFailed, AtCleared, AtMissed}
        BY <1>14, <4>1, <4>2, PlacesApart
      <4>3. ASSUME NEW s \in DOMAIN jq_runs, where[j] = AtLeft(s)
            PROVE  there[j] = AtLeft(r + 1) <=> where[j] = AtLeft(r)
        <5>1. there[j] = AtLeft(s + 1)
          BY <1>14, <4>1, <4>3
        <5>2. s + 1 = r + 1 <=> s = r
          BY <1>17
        <5> QED
          BY <4>3, <5>1, <5>2, PlacesApart
      <4> QED
        BY <1>15, <4>2, <4>3
    <3> QED
      BY <3>1, <3>2
  <2> QED
    BY <1>12, <1>13, <2>1 DEF JobsAt
<1>23. Placed(there)'
  <2>1. \A j \in 1 .. jq_pushed' : there[j] \in JqPlaces'
    <3> SUFFICES ASSUME NEW j \in 1 .. jq_pushed PROVE there[j] \in JqPlaces'
      BY <1>9
    <3>1. 1 \in DOMAIN jq_runs'
      BY <1>2, <1>10
    <3>2. CASE j \in JqIn(taken) \/ j \in late
      BY <1>13, <3>1, <3>2, PlacesAre
    <3>3. CASE j \notin JqIn(taken) /\ j \notin late
      BY <1>13, <1>14, <1>15, <1>17, <3>3, PlacesAre
    <3> QED
      BY <3>2, <3>3
  <2>2. JqIn(jq_pending') = JobsAt(there, AtPending)
    BY <1>7, <1>9, <1>12, <1>18
  <2>3. /\ Range(jq_done') = JobsAt(there, AtDone)
        /\ Range(jq_failed') = JobsAt(there, AtFailed)
        /\ jq_cleared' = JobsAt(there, AtCleared)
    BY <1>1, <1>9, <1>19 DEF Placed
  <2>4. jq_missed' = JobsAt(there, AtMissed)
    BY <1>1, <1>9, <1>20 DEF Placed
  <2>5. ASSUME NEW r \in DOMAIN jq_runs'
        PROVE  JqIn(jq_runs'[r].left) = JobsAt(there, AtLeft(r))
    <3>1. CASE r = 1
      BY <1>8, <1>10, <1>21, <3>1
    <3>2. CASE r # 1
      <4>1. PICK s \in DOMAIN jq_runs : s = r - 1 /\ r = s + 1 /\ jq_runs'[r] = jq_runs[s]
        BY <1>10, <1>11, <3>2
      <4> QED
        BY <1>1, <1>22, <4>1 DEF Placed
    <3> QED
      BY <3>1, <3>2
  <2>6. there = [j \in 1 .. jq_pushed' |-> there[j]]
    BY <1>9, <1>13
  <2> QED
    BY <2>1, <2>2, <2>3, <2>4, <2>5, <2>6 DEF Placed
<1>24. JqTypeOK'
  BY <1>5, <1>9, <1>10 DEF JqIInv, JqTypeOK, JqEntries, Jobs
<1>25. RunsHold'
  BY <1>8, <1>10, <1>11 DEF JqIInv, RunsHold
<1>26. NoneTwice'
  <2>1. \A r \in DOMAIN jq_runs' : IsInjective(JobsOf(jq_runs'[r].left))
    BY <1>4, <1>8, <1>10, <1>11, JqFields
  <2> QED
    BY <1>5, <1>9, <2>1 DEF JqIInv, NoneTwice
<1>27. AttemptsLeft'
  <2>1. \A i \in DOMAIN rest : \E k \in DOMAIN q : rest[i] = q[k]
    <3>1. PICK g : IsChoice(rest, g, q, stay, Len(q))
      BY <1>1, <1>2, SelectedFacts
    <3>2. DOMAIN q = 1 .. Len(q)
      BY <1>2
    <3> QED
      BY <3>1, <3>2 DEF IsChoice
  <2> QED
    BY <1>1, <1>9, <2>1 DEF JqIInv, AttemptsLeft
<1> QED
  BY <1>23, <1>24, <1>25, <1>26, <1>27 DEF JqIInv

(* A handler is called: its entry stays the first of its run.              *)
LEMMA HandlerInvariant ==
  ASSUME JqIInv, JqHandler
  PROVE  JqIInv'
<1>1. /\ jq_runs \in Seq([left : Seq(JqEntries), running : BOOLEAN])
      /\ DOMAIN jq_runs = 1 .. Len(jq_runs) /\ Len(jq_runs) \in Nat
      /\ jq_runs # << >> /\ jq_runs[1].left # << >>
  BY JqFields DEF JqHandler, JqReady
<1>2. 1 \in DOMAIN jq_runs
  BY <1>1
<1>3. PICK run \in [left : Seq(JqEntries), running : BOOLEAN] :
        run = [jq_runs[1] EXCEPT !.running = TRUE] /\ run.left = jq_runs[1].left
  <2>1. jq_runs[1] \in [left : Seq(JqEntries), running : BOOLEAN]
    BY <1>1, <1>2, ElementOfSeq
  <2>2. PICK run : run = [jq_runs[1] EXCEPT !.running = TRUE]
    OBVIOUS
  <2>3. run \in [left : Seq(JqEntries), running : BOOLEAN]
    BY <2>1, <2>2
  <2>4. run.left = jq_runs[1].left
    BY <2>1, <2>2
  <2> QED
    BY <2>2, <2>3, <2>4
<1>4. /\ jq_runs' = [jq_runs EXCEPT ![1] = run]
      /\ UNCHANGED <<jq_pushed, jq_pending, jq_done, jq_failed, jq_retried, jq_cleared,
                     jq_missed>>
  BY <1>2, <1>3 DEF JqHandler
<1>5. /\ jq_runs' \in Seq([left : Seq(JqEntries), running : BOOLEAN])
      /\ DOMAIN jq_runs' = DOMAIN jq_runs
      /\ \A r \in DOMAIN jq_runs : jq_runs'[r] = IF r = 1 THEN run ELSE jq_runs[r]
  BY <1>1, <1>2, <1>4, ExceptSeq
<1>6. \A r \in DOMAIN jq_runs : jq_runs'[r].left = jq_runs[r].left
  BY <1>3, <1>5
<1>7. PICK where : Placed(where)
  BY DEF JqIInv
<1>8. Placed(where)'
  <2>1. JqPlaces' = JqPlaces
    BY <1>5 DEF JqPlaces
  <2> QED
    BY <1>4, <1>5, <1>6, <1>7, <2>1 DEF Placed
<1>9. JqTypeOK'
  BY <1>4, <1>5 DEF JqIInv, JqTypeOK, JqEntries, Jobs
<1>10. RunsHold'
  BY <1>1, <1>5, <1>6 DEF JqIInv, RunsHold
<1>11. NoneTwice' /\ AttemptsLeft'
  BY <1>4, <1>5, <1>6 DEF JqIInv, NoneTwice, AttemptsLeft
<1> QED
  BY <1>8, <1>9, <1>10, <1>11 DEF JqIInv

(* A run ends that has nothing left.                                       *)
LEMMA EndInvariant ==
  ASSUME JqIInv, JqEnd
  PROVE  JqIInv'
<1>1. /\ jq_runs \in Seq([left : Seq(JqEntries), running : BOOLEAN])
      /\ DOMAIN jq_runs = 1 .. Len(jq_runs) /\ Len(jq_runs) \in Nat
      /\ jq_runs # << >> /\ jq_runs[1].left = << >>
      /\ jq_runs' = Tail(jq_runs)
      /\ UNCHANGED <<jq_pushed, jq_pending, jq_done, jq_failed, jq_retried, jq_cleared,
                     jq_missed>>
  BY JqFields DEF JqEnd
<1>2. /\ jq_runs' \in Seq([left : Seq(JqEntries), running : BOOLEAN])
      /\ DOMAIN jq_runs' = 1 .. Len(jq_runs) - 1
      /\ \A r \in 1 .. Len(jq_runs) - 1 : jq_runs'[r] = jq_runs[r + 1]
  BY <1>1
<1>3. /\ 1 \in DOMAIN jq_runs
      /\ \A r \in DOMAIN jq_runs' : /\ r \in Int /\ r + 1 \in DOMAIN jq_runs
                                    /\ jq_runs'[r] = jq_runs[r + 1]
      /\ \A r \in DOMAIN jq_runs : r # 1 => r \in Int /\ r - 1 \in DOMAIN jq_runs'
  BY <1>1, <1>2
<1>4. PICK where : Placed(where)
  BY DEF JqIInv
<1>5. /\ where = [j \in 1 .. jq_pushed |-> where[j]] /\ DOMAIN where = 1 .. jq_pushed
      /\ \A j \in 1 .. jq_pushed :
           \/ where[j] \in {AtPending, AtDone, AtFailed, AtCleared, AtMissed}
           \/ \E r \in DOMAIN jq_runs : r # 1 /\ where[j] = AtLeft(r)
  <2>1. /\ where = [j \in 1 .. jq_pushed |-> where[j]]
        /\ JqIn(jq_runs[1].left) = JobsAt(where, AtLeft(1))
        /\ \A j \in 1 .. jq_pushed : where[j] \in JqPlaces
    BY <1>3, <1>4 DEF Placed
  <2>2. DOMAIN where = 1 .. jq_pushed
    BY <2>1
  <2>3. JqIn(jq_runs[1].left) = {}
    BY <1>1 DEF JqIn, JobsOf, Range
  <2>4. \A j \in 1 .. jq_pushed : where[j] # AtLeft(1)
    BY <2>1, <2>2, <2>3 DEF JobsAt
  <2>5. \A j \in 1 .. jq_pushed :
          \/ where[j] \in {AtPending, AtDone, AtFailed, AtCleared, AtMissed}
          \/ \E r \in DOMAIN jq_runs : where[j] = AtLeft(r)
    BY <2>1, PlacesAre
  <2> QED
    BY <2>1, <2>2, <2>4, <2>5
<1> DEFINE Moved(place) ==
             IF \E r \in DOMAIN jq_runs : place = AtLeft(r)
               THEN AtLeft((CHOOSE r \in DOMAIN jq_runs : place = AtLeft(r)) - 1)
               ELSE place
<1>6. PICK there : /\ there = [j \in 1 .. jq_pushed |-> there[j]]
                   /\ DOMAIN there = 1 .. jq_pushed
                   /\ \A j \in 1 .. jq_pushed : there[j] = Moved(where[j])
  <2>1. PICK there : there = [j \in 1 .. jq_pushed |-> Moved(where[j])]
    OBVIOUS
  <2>2. there = [j \in 1 .. jq_pushed |-> there[j]] /\ DOMAIN there = 1 .. jq_pushed
    BY <2>1
  <2>3. \A j \in 1 .. jq_pushed : there[j] = Moved(where[j])
    BY <2>1
  <2> HIDE DEF Moved
  <2> QED
    BY <2>2, <2>3
<1>7. /\ \A r \in DOMAIN jq_runs : Moved(AtLeft(r)) = AtLeft(r - 1)
      /\ \A place \in {AtPending, AtDone, AtFailed, AtCleared, AtMissed} :
           Moved(place) = place
  BY PlacesApart
<1> HIDE DEF Moved
<1>8. \A j \in 1 .. jq_pushed :
        \/ /\ where[j] \in {AtPending, AtDone, AtFailed, AtCleared, AtMissed}
           /\ there[j] = where[j]
        \/ \E r \in DOMAIN jq_runs' : where[j] = AtLeft(r + 1) /\ there[j] = AtLeft(r)
  <2> SUFFICES ASSUME NEW j \in 1 .. jq_pushed
               PROVE  \/ /\ where[j] \in {AtPending, AtDone, AtFailed, AtCleared, AtMissed}
                         /\ there[j] = where[j]
                      \/ \E r \in DOMAIN jq_runs' :
                           where[j] = AtLeft(r + 1) /\ there[j] = AtLeft(r)
    OBVIOUS
  <2>1. CASE where[j] \in {AtPending, AtDone, AtFailed, AtCleared, AtMissed}
    BY <1>6, <1>7, <2>1
  <2>2. ASSUME NEW s \in DOMAIN jq_runs, s # 1, where[j] = AtLeft(s)
        PROVE  \E r \in DOMAIN jq_runs' : where[j] = AtLeft(r + 1) /\ there[j] = AtLeft(r)
    <3>1. s - 1 \in DOMAIN jq_runs' /\ (s - 1) + 1 = s
      BY <1>3, <2>2
    <3>2. there[j] = AtLeft(s - 1)
      BY <1>6, <1>7, <2>2
    <3> QED
      BY <2>2, <3>1, <3>2
  <2> QED
    BY <1>5, <2>1, <2>2
<1>9. /\ JobsAt(there, AtPending) = JobsAt(where, AtPending)
      /\ JobsAt(there, AtDone) = JobsAt(where, AtDone)
      /\ JobsAt(there, AtFailed) = JobsAt(where, AtFailed)
      /\ JobsAt(there, AtCleared) = JobsAt(where, AtCleared)
      /\ JobsAt(there, AtMissed) = JobsAt(where, AtMissed)
  BY <1>5, <1>6, <1>8, PlacesApart DEF JobsAt
<1>10. ASSUME NEW r \in DOMAIN jq_runs' PROVE JobsAt(there, AtLeft(r)) = JobsAt(where, AtLeft(r + 1))
  <2>1. ASSUME NEW j \in 1 .. jq_pushed
        PROVE  there[j] = AtLeft(r) <=> where[j] = AtLeft(r + 1)
    <3>1. CASE where[j] \in {AtPending, AtDone, AtFailed, AtCleared, AtMissed}
      BY <1>6, <1>7, <3>1, PlacesApart
    <3>2. ASSUME NEW s \in DOMAIN jq_runs', where[j] = AtLeft(s + 1), there[j] = AtLeft(s)
          PROVE  there[j] = AtLeft(r) <=> where[j] = AtLeft(r + 1)
      <4>1. s + 1 = r + 1 <=> s = r
        BY <1>3
      <4> QED
        BY <3>2, <4>1, PlacesApart
    <3> QED
      BY <1>8, <3>1, <3>2
  <2> QED
    BY <1>5, <1>6, <2>1 DEF JobsAt
<1>11. Placed(there)'
  <2>1. there = [j \in 1 .. jq_pushed' |-> there[j]]
    BY <1>1, <1>6
  <2>2. \A j \in 1 .. jq_pushed' : there[j] \in JqPlaces'
    BY <1>1, <1>8, PlacesAre
  <2>3. /\ JqIn(jq_pending') = JobsAt(there, AtPending)
        /\ Range(jq_done') = JobsAt(there, AtDone)
        /\ Range(jq_failed') = JobsAt(there, AtFailed)
        /\ jq_cleared' = JobsAt(there, AtCleared) /\ jq_missed' = JobsAt(there, AtMissed)
    BY <1>1, <1>4, <1>9 DEF Placed
  <2>4. \A r \in DOMAIN jq_runs' : JqIn(jq_runs'[r].left) = JobsAt(there, AtLeft(r))
    BY <1>3, <1>4, <1>10 DEF Placed
  <2> QED
    BY <2>1, <2>2, <2>3, <2>4 DEF Placed
<1>12. JqTypeOK'
  BY <1>1, <1>2 DEF JqIInv, JqTypeOK, JqEntries, Jobs
<1>13. RunsHold'
  BY <1>3 DEF JqIInv, RunsHold
<1>14. NoneTwice' /\ AttemptsLeft'
  BY <1>1, <1>3 DEF JqIInv, NoneTwice, AttemptsLeft
<1> QED
  BY <1>11, <1>12, <1>13, <1>14 DEF JqIInv

(* Every job at one place goes to another.                                  *)
IsRehoused(there, where, n, from, to) ==
  /\ there = [j \in 1 .. n |-> there[j]]
  /\ \A j \in 1 .. n : there[j] = where[j] \/ there[j] = to
  /\ JobsAt(there, from) = {}
  /\ JobsAt(there, to) = JobsAt(where, to) \cup JobsAt(where, from)
  /\ \A place : place # from /\ place # to => JobsAt(there, place) = JobsAt(where, place)

LEMMA Rehoused ==
  ASSUME NEW where, NEW n, DOMAIN where = 1 .. n, NEW from, NEW to, from # to
  PROVE  \E there : IsRehoused(there, where, n, from, to)
<1>1. PICK there : there = [j \in 1 .. n |-> IF where[j] = from THEN to ELSE where[j]]
  OBVIOUS
<1>2. /\ there = [j \in 1 .. n |-> there[j]] /\ DOMAIN there = 1 .. n
      /\ \A j \in 1 .. n : there[j] = IF where[j] = from THEN to ELSE where[j]
  BY <1>1
<1>3. \A j \in 1 .. n : there[j] = where[j] \/ there[j] = to
  BY <1>2
<1>4. JobsAt(there, from) = {}
  BY <1>2 DEF JobsAt
<1>5. JobsAt(there, to) = JobsAt(where, to) \cup JobsAt(where, from)
  BY <1>2 DEF JobsAt
<1>6. \A place : place # from /\ place # to => JobsAt(there, place) = JobsAt(where, place)
  BY <1>2 DEF JobsAt
<1>7. IsRehoused(there, where, n, from, to)
  BY <1>2, <1>3, <1>4, <1>5, <1>6 DEF IsRehoused
<1> QED
  BY <1>7

(* The list of the jobs that are done is dropped.                          *)
LEMMA ClearInvariant ==
  ASSUME JqIInv, JqClearDone
  PROVE  JqIInv'
<1>1. /\ jq_done' = << >> /\ jq_cleared' = jq_cleared \cup Range(jq_done)
      /\ UNCHANGED <<jq_pushed, jq_pending, jq_failed, jq_runs, jq_retried, jq_missed>>
  BY DEF JqClearDone
<1>2. PICK where : Placed(where)
  BY DEF JqIInv
<1>3. PICK there : /\ there = [j \in 1 .. jq_pushed' |-> there[j]]
                   /\ \A j \in 1 .. jq_pushed' : there[j] \in JqPlaces'
                   /\ JobsAt(there, AtDone) = {}
                   /\ JobsAt(there, AtCleared) = JobsAt(where, AtCleared) \cup JobsAt(where, AtDone)
                   /\ \A place : place # AtDone /\ place # AtCleared =>
                        JobsAt(there, place) = JobsAt(where, place)
  <2>1. PICK n, from, to : n = jq_pushed /\ from = AtDone /\ to = AtCleared
    OBVIOUS
  <2>2. from # to
    BY <2>1, PlacesApart
  <2>3. DOMAIN where = 1 .. n /\ \A j \in 1 .. n : where[j] \in JqPlaces
    BY <1>2, <2>1 DEF Placed
  <2>4. PICK there : IsRehoused(there, where, n, from, to)
    BY <2>2, <2>3, Rehoused
  <2>5. JqPlaces' = JqPlaces /\ to \in JqPlaces /\ jq_pushed' = n
    BY <1>1, <2>1, PlacesAre DEF JqPlaces
  <2>6. \A j \in 1 .. n : there[j] \in JqPlaces'
    BY <2>3, <2>4, <2>5 DEF IsRehoused
  <2> QED
    BY <2>1, <2>4, <2>5, <2>6 DEF IsRehoused
<1>4. /\ JobsAt(there, AtPending) = JobsAt(where, AtPending)
      /\ JobsAt(there, AtFailed) = JobsAt(where, AtFailed)
      /\ JobsAt(there, AtMissed) = JobsAt(where, AtMissed)
      /\ \A r : JobsAt(there, AtLeft(r)) = JobsAt(where, AtLeft(r))
  BY <1>3, PlacesApart
<1>5. Range(jq_done') = {} /\ IsInjective(jq_done') /\ jq_done' \in Seq(Jobs)
  BY <1>1 DEF Range, IsInjective
<1>6. Placed(there)'
  <2>1. Range(jq_done') = JobsAt(there, AtDone)
    BY <1>3, <1>5
  <2>2. jq_cleared' = JobsAt(there, AtCleared)
    BY <1>1, <1>2, <1>3 DEF Placed
  <2>3. /\ JqIn(jq_pending') = JobsAt(there, AtPending)
        /\ Range(jq_failed') = JobsAt(there, AtFailed)
        /\ jq_missed' = JobsAt(there, AtMissed)
        /\ \A r \in DOMAIN jq_runs' : JqIn(jq_runs'[r].left) = JobsAt(there, AtLeft(r))
    BY <1>1, <1>2, <1>4 DEF Placed
  <2> QED
    BY <1>3, <2>1, <2>2, <2>3 DEF Placed
<1>7. JqTypeOK'
  <2>1. Range(jq_done) \subseteq Jobs
    <3>1. jq_done \in Seq(Jobs)
      BY JqFields
    <3> QED
      BY <3>1 DEF Range
  <2>2. jq_cleared' \subseteq Jobs
    BY <1>1, <2>1 DEF JqIInv, JqTypeOK
  <2> QED
    BY <1>1, <1>5, <2>2 DEF JqIInv, JqTypeOK, JqEntries, Jobs
<1>8. RunsHold' /\ NoneTwice' /\ AttemptsLeft'
  BY <1>1, <1>5 DEF JqIInv, RunsHold, NoneTwice, AttemptsLeft
<1> QED
  BY <1>6, <1>7, <1>8 DEF JqIInv

(* The jobs that have failed go back to the queue.                         *)
LEMMA RetryInvariant ==
  ASSUME JqIInv, JqRetryFailed
  PROVE  JqIInv'
<1>1. PICK again :
        /\ again = [i \in DOMAIN jq_failed |-> JqEntry(jq_failed[i], 0, TRUE)]
        /\ jq_failed' = << >> /\ jq_pending' = jq_pending \o again
        /\ jq_retried' = jq_retried + 1 /\ jq_retried < JqRetries
        /\ UNCHANGED <<jq_pushed, jq_done, jq_runs, jq_cleared, jq_missed>>
  BY DEF JqRetryFailed
<1>2. /\ jq_failed \in Seq(Jobs) /\ IsInjective(jq_failed)
      /\ DOMAIN jq_failed = 1 .. Len(jq_failed) /\ Len(jq_failed) \in Nat
      /\ jq_pending \in Seq(JqEntries) /\ IsInjective(JobsOf(jq_pending))
  BY JqFields
<1>3. \A i \in DOMAIN jq_failed : /\ again[i] \in JqEntries
                                  /\ again[i].job = jq_failed[i] /\ again[i].attempts = 0
  <2> SUFFICES ASSUME NEW i \in DOMAIN jq_failed
               PROVE  /\ again[i] \in JqEntries
                      /\ again[i].job = jq_failed[i] /\ again[i].attempts = 0
    OBVIOUS
  <2>1. PICK e : e = [job |-> jq_failed[i], attempts |-> 0, due |-> TRUE]
    OBVIOUS
  <2>2. jq_failed[i] \in Jobs
    BY <1>2, ElementOfSeq
  <2>3. e \in JqEntries
    BY <2>1, <2>2, JobAssumption DEF JqEntries
  <2>4. again[i] = e
    BY <1>1, <2>1 DEF JqEntry
  <2> QED
    BY <2>1, <2>3, <2>4
<1>4. /\ again \in Seq(JqEntries) /\ DOMAIN again = DOMAIN jq_failed
      /\ JobsOf(again) = jq_failed
  <2>1. DOMAIN again = 1 .. Len(jq_failed)
    BY <1>1, <1>2
  <2>2. again \in [1 .. Len(jq_failed) -> JqEntries]
    BY <1>1, <1>2, <1>3
  <2>3. again \in Seq(JqEntries)
    BY <1>2, <2>2
  <2>4. JobsOf(again) = [i \in 1 .. Len(jq_failed) |-> jq_failed[i]]
    BY <1>2, <1>3, <2>1 DEF JobsOf
  <2>5. jq_failed = [i \in 1 .. Len(jq_failed) |-> jq_failed[i]]
    BY <1>2
  <2> QED
    BY <1>2, <2>1, <2>3, <2>4, <2>5
<1>5. PICK where : Placed(where)
  BY DEF JqIInv
<1>6. JqIn(again) = Range(jq_failed) /\ JqIn(jq_pending) \cap JqIn(again) = {}
  <2>1. JobsAt(where, AtPending) \cap JobsAt(where, AtFailed) = {}
    BY PlacesApart DEF JobsAt
  <2> QED
    BY <1>4, <1>5, <2>1 DEF JqIn, Placed
<1>7. /\ jq_pending' \in Seq(JqEntries) /\ IsInjective(JobsOf(jq_pending'))
      /\ JqIn(jq_pending') = JqIn(jq_pending) \cup Range(jq_failed)
  <2>1. IsInjective(JobsOf(again))
    BY <1>2, <1>4
  <2>2. /\ jq_pending \o again \in Seq(JqEntries)
        /\ IsInjective(JobsOf(jq_pending \o again))
        /\ JqIn(jq_pending \o again) = JqIn(jq_pending) \cup JqIn(again)
    BY <1>2, <1>4, <1>6, <2>1, QueueJoined
  <2> QED
    BY <1>1, <1>6, <2>2
<1>8. PICK there : /\ there = [j \in 1 .. jq_pushed' |-> there[j]]
                   /\ \A j \in 1 .. jq_pushed' : there[j] \in JqPlaces'
                   /\ JobsAt(there, AtFailed) = {}
                   /\ JobsAt(there, AtPending) = JobsAt(where, AtPending) \cup JobsAt(where, AtFailed)
                   /\ \A place : place # AtFailed /\ place # AtPending =>
                        JobsAt(there, place) = JobsAt(where, place)
  <2>1. PICK n, from, to : n = jq_pushed /\ from = AtFailed /\ to = AtPending
    OBVIOUS
  <2>2. from # to
    BY <2>1, PlacesApart
  <2>3. DOMAIN where = 1 .. n /\ \A j \in 1 .. n : where[j] \in JqPlaces
    BY <1>5, <2>1 DEF Placed
  <2>4. PICK there : IsRehoused(there, where, n, from, to)
    BY <2>2, <2>3, Rehoused
  <2>5. JqPlaces' = JqPlaces /\ to \in JqPlaces /\ jq_pushed' = n
    BY <1>1, <2>1, PlacesAre DEF JqPlaces
  <2>6. \A j \in 1 .. n : there[j] \in JqPlaces'
    BY <2>3, <2>4, <2>5 DEF IsRehoused
  <2> QED
    BY <2>1, <2>4, <2>5, <2>6 DEF IsRehoused
<1>9. /\ JobsAt(there, AtDone) = JobsAt(where, AtDone)
      /\ JobsAt(there, AtCleared) = JobsAt(where, AtCleared)
      /\ JobsAt(there, AtMissed) = JobsAt(where, AtMissed)
      /\ \A r : JobsAt(there, AtLeft(r)) = JobsAt(where, AtLeft(r))
  BY <1>8, PlacesApart
<1>10. Range(jq_failed') = {} /\ IsInjective(jq_failed') /\ jq_failed' \in Seq(Jobs)
  BY <1>1 DEF Range, IsInjective
<1>11. Placed(there)'
  <2>1. Range(jq_failed') = JobsAt(there, AtFailed)
    BY <1>8, <1>10
  <2>2. JqIn(jq_pending') = JobsAt(there, AtPending)
    BY <1>5, <1>7, <1>8 DEF Placed
  <2>3. /\ Range(jq_done') = JobsAt(there, AtDone)
        /\ jq_cleared' = JobsAt(there, AtCleared) /\ jq_missed' = JobsAt(there, AtMissed)
        /\ \A r \in DOMAIN jq_runs' : JqIn(jq_runs'[r].left) = JobsAt(there, AtLeft(r))
    BY <1>1, <1>5, <1>9 DEF Placed
  <2> QED
    BY <1>8, <2>1, <2>2, <2>3 DEF Placed
<1>12. JqTypeOK'
  <2>1. jq_retried' \in 0 .. JqRetries
    BY <1>1, JobAssumption DEF JqIInv, JqTypeOK
  <2> QED
    BY <1>1, <1>7, <1>10, <2>1 DEF JqIInv, JqTypeOK, JqEntries, Jobs
<1>13. RunsHold' /\ NoneTwice'
  BY <1>1, <1>7, <1>10 DEF JqIInv, RunsHold, NoneTwice
<1>14. AttemptsLeft'
  <2> SUFFICES ASSUME NEW i \in DOMAIN jq_pending' PROVE JqMayTry(jq_pending'[i].attempts)
    BY DEF AttemptsLeft
  <2>1. /\ Len(jq_pending) \in Nat /\ Len(again) \in Nat
        /\ i \in 1 .. Len(jq_pending) + Len(again)
        /\ DOMAIN again = 1 .. Len(again) /\ DOMAIN jq_pending = 1 .. Len(jq_pending)
    BY <1>1, <1>2, <1>4
  <2>2. CASE i <= Len(jq_pending)
    <3>1. i \in DOMAIN jq_pending /\ jq_pending'[i] = jq_pending[i]
      BY <1>1, <1>2, <1>4, <2>1, <2>2
    <3> QED
      BY <3>1 DEF JqIInv, AttemptsLeft
  <2>3. CASE ~(i <= Len(jq_pending))
    <3>1. /\ i - Len(jq_pending) \in DOMAIN again
          /\ jq_pending'[i] = again[i - Len(jq_pending)]
      <4>1. PICK k \in 1 .. Len(again) : k = i - Len(jq_pending) /\ i = k + Len(jq_pending)
        BY <2>1, <2>3
      <4>2. (jq_pending \o again)[k + Len(jq_pending)] = again[k]
        BY <1>2, <1>4, <2>1
      <4> QED
        BY <1>1, <2>1, <4>1, <4>2
    <3> QED
      BY <1>3, <1>4, <3>1 DEF JqMayTry
  <2> QED
    BY <2>2, <2>3
<1> QED
  BY <1>11, <1>12, <1>13, <1>14 DEF JqIInv

LEMMA JqStep == JqIInv /\ [JqNext]_jq_vars => JqIInv'
<1> SUFFICES ASSUME JqIInv, [JqNext]_jq_vars PROVE JqIInv'
  OBVIOUS
<1>1. CASE JqNoHandler
  <2>1. /\ jq_runs # << >> /\ jq_runs[1].left # << >> /\ jq_runs' = JqTaken
        /\ JqMoved(JqNext1.job, AtFailed)
        /\ UNCHANGED <<jq_pushed, jq_retried, jq_cleared, jq_missed>>
    BY <1>1 DEF JqNoHandler, JqReady, JqMoved
  <2> QED
    BY <2>1, MovedInvariant
<1>2. ASSUME JqRunning
      PROVE  jq_runs # << >> /\ jq_runs[1].left # << >> /\ JqNext1 \in JqEntries
  <2>1. jq_runs # << >> /\ 1 \in DOMAIN jq_runs
    BY <1>2, JqFields DEF JqRunning
  <2>2. jq_runs[1].left # << >> /\ jq_runs[1].left \in Seq(JqEntries)
    BY <1>2, <2>1, JqFields DEF JqRunning, JqIInv, RunsHold
  <2> QED
    BY <2>1, <2>2 DEF JqNext1
<1>3. CASE JqReturn
  <2>1. /\ jq_runs' = JqTaken /\ JqMoved(JqNext1.job, AtDone)
        /\ UNCHANGED <<jq_pushed, jq_retried, jq_cleared, jq_missed>>
    BY <1>3 DEF JqReturn, JqMoved
  <2> QED
    BY <1>2, <1>3, <2>1, MovedInvariant DEF JqReturn
<1>4. CASE JqThrow
  <2>1. /\ jq_runs' = JqTaken
        /\ UNCHANGED <<jq_pushed, jq_retried, jq_cleared, jq_missed>>
    BY <1>4 DEF JqThrow
  <2>2. JqNext1 \in JqEntries
    BY <1>2, <1>4 DEF JqThrow
  <2>3. JqNext1.attempts + 1 \in Nat
    BY <2>2, JobAssumption DEF JqEntries
  <2>4. CASE JqMayRetry(JqNext1.attempts + 1)
    <3>1. JqNext1.attempts + 1 \in 0 .. MaxRetry /\ JqNext1.attempts + 1 < MaxRetry
      BY <2>3, <2>4, JobAssumption DEF JqMayRetry
    <3>2. JqMoved(JqNext1.job, AtPending)
      BY <1>4, <2>1, <2>4, <3>1 DEF JqThrow, JqMoved
    <3> QED
      BY <1>2, <1>4, <2>1, <3>2, MovedInvariant DEF JqThrow
  <2>5. CASE ~JqMayRetry(JqNext1.attempts + 1)
    <3>1. JqMoved(JqNext1.job, AtFailed)
      BY <1>4, <2>1, <2>5 DEF JqThrow, JqMoved
    <3> QED
      BY <1>2, <1>4, <2>1, <3>1, MovedInvariant DEF JqThrow
  <2> QED
    BY <2>4, <2>5
<1>5. CASE UNCHANGED jq_vars
  <2>1. PICK where : Placed(where)
    BY DEF JqIInv
  <2>2. Placed(where)'
    BY <1>5, <2>1 DEF jq_vars, Placed, JqPlaces
  <2> QED
    BY <1>5, <2>2 DEF jq_vars, JqIInv, JqTypeOK, RunsHold, NoneTwice, AttemptsLeft,
                     JqEntries, Jobs
<1> QED
  BY <1>1, <1>3, <1>4, <1>5, PushInvariant, DueInvariant, ProcessInvariant,
     HandlerInvariant, EndInvariant, ClearInvariant, RetryInvariant DEF JqNext

(* The job queue's invariant holds in every reachable state.               *)
THEOREM QueueInvariance == JqSpec => []JqIInv
  BY JqInitInvariant, JqStep, PTL DEF JqSpec

(* Every field of the queue keeps its type, the stack of calls of           *)
(* jq-process included (jq-create).                                        *)
THEOREM QueueTypes == JqSpec => []JqTypeOK
<1>1. JqIInv => JqTypeOK
  BY DEF JqIInv
<1> QED
  BY <1>1, QueueInvariance, PTL

(* Every job that was pushed is in one place, however handlers push,        *)
(* process, clear and retry while the queue is being processed, and none is  *)
(* waiting that has had its attempts (jq-process).                          *)
THEOREM JobsConserved == JqSpec => []JqConserved
  BY QueueInvariance, ConservedIs, PTL

-----------------------------------------------------------------------------
(* Publish and subscribe.  The inductive invariant: the types, with a bound *)
(* on the arrays made; that an array lists a subscription once; whose       *)
(* array each is, as `own` says, and that the arrays of two topics share    *)
(* nobody; that a listed array is not empty; for each publish, what it has  *)
(* called and passed over; and which subscriptions are held.               *)
PsFrames == [topic : PsTopics, array : Nat, at : Nat \ {0}, called : 0 .. PsLastSub,
             count : Nat, spent : SUBSET PsSubs, start : SUBSET PsSubs,
             seen : Seq(PsSubs), cut : Nat]

PsTyped ==
  /\ ps_topics \in [PsTopics -> 0 .. ps_arrays]
  /\ ps_arrays \in Nat
  /\ ps_arrays + Len(ps_walks) <= ps_counter + ps_published
  /\ ps_array \in [PsArrays -> Seq(PsSubs)]
  /\ ps_counter \in 0 .. PsLastSub
  /\ ps_once \subseteq 1 .. ps_counter /\ ps_removed \subseteq 1 .. ps_counter
  /\ ps_published \in 0 .. PsMaxPublish
  /\ ps_calls \in [PsSubs -> Nat]
  /\ \A s \in PsSubs : ps_calls[s] > 0 => s <= ps_counter
  /\ ps_replaced \in BOOLEAN
  /\ ps_walks \in Seq(PsFrames)

ArraysHold ==
  \A a \in 1 .. ps_arrays :
    IsInjective(ps_array[a]) /\ Range(ps_array[a]) \subseteq 1 .. ps_counter

Owned(own) ==
  /\ \A t \in PsTopics : ps_topics[t] # 0 => own[ps_topics[t]] = t
  /\ \A i \in DOMAIN ps_walks : own[ps_walks[i].array] = ps_walks[i].topic
  /\ \A a, b \in 1 .. ps_arrays :
       own[a] # own[b] => Range(ps_array[a]) \cap Range(ps_array[b]) = {}

Listed == \A t \in PsTopics : ps_topics[t] # 0 => ps_array[ps_topics[t]] # << >>

(* The places of its array a publish is past, and whom it passed over.      *)
Past(walk) == IF walk.called # 0 THEN walk.at + 1 ELSE walk.at
PassedOver(walk, array) ==
  {s \in walk.start : s \notin Range(walk.seen) /\
     \E p \in DOMAIN array : p < Past(walk) /\ array[p] = s}

Walked(walk, array) ==
  /\ walk.called \in Range(walk.seen) \cup {0}
  /\ walk.spent \subseteq Range(walk.seen)
  /\ (IF walk.called # 0 THEN walk.count + 1 ELSE walk.count) <= Len(walk.seen)
  /\ IsInjective(walk.seen)
  /\ \A p \in DOMAIN array : array[p] \in Range(walk.seen) => p < Past(walk)
  /\ Cardinality(PassedOver(walk, array)) <= walk.cut

WalkHolds(walk) ==
  /\ walk.array \in 1 .. ps_arrays
  /\ walk.spent \subseteq ps_once
  /\ Range(walk.seen) \cup walk.start \subseteq 1 .. ps_counter
  /\ \A s \in Range(walk.seen) : ps_calls[s] > 0
  /\ Range(walk.seen) \cup walk.start \subseteq Range(ps_array[walk.array]) \cup ps_removed

IsHeld(s) == \E t \in PsTopics : s \in PsHeld(t)

RegistryKept ==
  ~ps_replaced =>
    \A s \in 1 .. ps_counter :
      /\ IsHeld(s) => s \notin ps_removed
      /\ s \notin ps_removed /\ (s \in ps_once => ps_calls[s] = 0) => IsHeld(s)
      /\ s \in ps_once /\ ps_calls[s] # 0 /\ ~PsInUse(s) => ~IsHeld(s)

PsIInv ==
  /\ PsTyped
  /\ ArraysHold
  /\ \E own : Owned(own)
  /\ Listed
  /\ \A i \in DOMAIN ps_walks :
       WalkHolds(ps_walks[i]) /\ Walked(ps_walks[i], ps_array[ps_walks[i].array])
  /\ RegistryKept

(* A sequence without its i-th element.                                    *)
LEMMA RemovedAt ==
  ASSUME NEW S, NEW q \in Seq(S), NEW i \in DOMAIN q
  PROVE  /\ RemoveAt(q, i) \in Seq(S) /\ Len(RemoveAt(q, i)) = Len(q) - 1
         /\ \A k \in 1 .. Len(q) - 1 :
              RemoveAt(q, i)[k] = IF k < i THEN q[k] ELSE q[k + 1]
<1>1. /\ Len(q) \in Nat /\ DOMAIN q = 1 .. Len(q) /\ i \in 1 .. Len(q)
      /\ \A k \in 1 .. Len(q) : q[k] \in S
  OBVIOUS
<1>2. PICK front, back : front = SubSeq(q, 1, i - 1) /\ back = SubSeq(q, i + 1, Len(q))
  OBVIOUS
<1>3. front \in Seq(S) /\ Len(front) = i - 1 /\ \A k \in 1 .. i - 1 : front[k] = q[k]
  <2>1. PICK last : last = i - 1 /\ last \in Nat /\ last <= Len(q)
    BY <1>1
  <2>2. \A k \in 1 .. last : q[k] \in S
    BY <1>1, <2>1
  <2>3. /\ SubSeq(q, 1, last) \in Seq(S)
        /\ Len(SubSeq(q, 1, last)) = IF 1 <= last THEN last - 1 + 1 ELSE 0
        /\ \A k \in 1 .. last - 1 + 1 : SubSeq(q, 1, last)[k] = q[1 + k - 1]
    BY <2>1, <2>2, SubSeqProperties
  <2>4. \A k \in 1 .. last : k \in 1 .. last - 1 + 1 /\ 1 + k - 1 = k
    BY <2>1
  <2>5. (IF 1 <= last THEN last - 1 + 1 ELSE 0) = last
    BY <2>1
  <2> QED
    BY <1>2, <2>1, <2>3, <2>4, <2>5
<1>4. /\ back \in Seq(S) /\ Len(back) = Len(q) - i
      /\ \A k \in 1 .. Len(q) - i : back[k] = q[k + i]
  <2>1. PICK first : first = i + 1 /\ first \in Nat /\ first >= 2
    BY <1>1
  <2>2. \A k \in first .. Len(q) : q[k] \in S
    BY <1>1, <2>1
  <2>3. /\ SubSeq(q, first, Len(q)) \in Seq(S)
        /\ Len(SubSeq(q, first, Len(q))) = IF first <= Len(q) THEN Len(q) - first + 1 ELSE 0
        /\ \A k \in 1 .. Len(q) - first + 1 : SubSeq(q, first, Len(q))[k] = q[first + k - 1]
    BY <1>1, <2>1, <2>2, SubSeqProperties
  <2>4. \A k \in 1 .. Len(q) - i : k \in 1 .. Len(q) - first + 1 /\ first + k - 1 = k + i
    BY <1>1, <2>1
  <2>5. (IF first <= Len(q) THEN Len(q) - first + 1 ELSE 0) = Len(q) - i
    BY <1>1, <2>1
  <2> QED
    BY <1>2, <2>1, <2>3, <2>4, <2>5
<1>5. PICK r : r = front \o back
  OBVIOUS
<1>6. /\ r \in Seq(S) /\ Len(r) = Len(q) - 1
      /\ \A k \in 1 .. i - 1 : r[k] = front[k]
      /\ \A k \in 1 .. Len(q) - i : r[k + (i - 1)] = back[k]
  <2>1. /\ r \in Seq(S) /\ Len(r) = Len(front) + Len(back)
        /\ \A k \in 1 .. Len(front) : r[k] = front[k]
        /\ \A k \in 1 .. Len(back) : r[k + Len(front)] = back[k]
    <3>1. front \in Seq(S) /\ back \in Seq(S)
      BY <1>3, <1>4
    <3> QED
      BY <1>5, <3>1
  <2>2. Len(front) + Len(back) = Len(q) - 1
    BY <1>1, <1>3, <1>4
  <2> QED
    BY <1>3, <1>4, <2>1, <2>2
<1>7. ASSUME NEW k \in 1 .. Len(q) - 1 PROVE r[k] = IF k < i THEN q[k] ELSE q[k + 1]
  <2>1. CASE k < i
    <3>1. k \in 1 .. i - 1
      BY <1>1, <2>1
    <3> QED
      BY <1>3, <1>6, <2>1, <3>1
  <2>2. CASE ~(k < i)
    <3>1. PICK j : j = k - (i - 1)
      OBVIOUS
    <3>2. j \in 1 .. Len(q) - i /\ j + (i - 1) = k /\ j + i = k + 1
      BY <1>1, <2>2, <3>1
    <3>3. r[j + (i - 1)] = q[j + i]
      BY <1>4, <1>6, <3>2
    <3> QED
      BY <2>2, <3>2, <3>3
  <2> QED
    BY <2>1, <2>2
<1> QED
  BY <1>2, <1>5, <1>6, <1>7 DEF RemoveAt

(* What pubsub_unsubscribe leaves: the place p of the subscription, and the *)
(* others, those behind p one place further on.                             *)
WithoutAt(array, s, p, rest) ==
  /\ p \in DOMAIN array /\ array[p] = s
  /\ rest \in Seq(PsSubs) /\ Len(rest) = Len(array) - 1
  /\ \A k \in DOMAIN rest : rest[k] = IF k < p THEN array[k] ELSE array[k + 1]

LEMMA Unsubscribed ==
  ASSUME NEW array \in Seq(PsSubs), NEW s \in Range(array), IsInjective(array)
  PROVE  /\ \E p : WithoutAt(array, s, p, PsWithout(array, s))
         /\ IsInjective(PsWithout(array, s))
         /\ Range(PsWithout(array, s)) = Range(array) \ {s}
<1>1. PICK p : p = CHOOSE i \in DOMAIN array : array[i] = s
  OBVIOUS
<1>2. p \in DOMAIN array /\ array[p] = s
  BY <1>1 DEF Range
<1>3. PICK rest : rest = RemoveAt(array, p)
  OBVIOUS
<1>4. /\ rest \in Seq(PsSubs) /\ Len(rest) = Len(array) - 1 /\ DOMAIN rest = 1 .. Len(rest)
      /\ \A k \in 1 .. Len(array) - 1 : rest[k] = IF k < p THEN array[k] ELSE array[k + 1]
      /\ DOMAIN array = 1 .. Len(array) /\ Len(array) \in Nat
  <2>1. /\ RemoveAt(array, p) \in Seq(PsSubs) /\ Len(RemoveAt(array, p)) = Len(array) - 1
        /\ \A k \in 1 .. Len(array) - 1 :
             RemoveAt(array, p)[k] = IF k < p THEN array[k] ELSE array[k + 1]
    BY <1>2, RemovedAt, Zenon
  <2>2. rest \in Seq(PsSubs) => DOMAIN rest = 1 .. Len(rest)
    OBVIOUS
  <2>3. DOMAIN array = 1 .. Len(array) /\ Len(array) \in Nat
    OBVIOUS
  <2> QED
    BY <1>3, <2>1, <2>2, <2>3, Zenon
<1>5. WithoutAt(array, s, p, rest)
  BY <1>2, <1>4 DEF WithoutAt
<1>6. /\ \A k \in DOMAIN rest : /\ k \in DOMAIN array /\ k + 1 \in DOMAIN array
                                /\ k \in Int /\ rest[k] = IF k < p THEN array[k] ELSE array[k + 1]
      /\ p \in Int
      /\ \A k \in DOMAIN array : k # p =>
           \E j \in DOMAIN rest : (k < p /\ j = k) \/ (k = j + 1 /\ ~(j < p))
  <2>1. ASSUME NEW k \in DOMAIN array, k # p
        PROVE  \E j \in DOMAIN rest : (k < p /\ j = k) \/ (k = j + 1 /\ ~(j < p))
    <3>1. CASE k < p
      BY <1>2, <1>4, <3>1
    <3>2. CASE ~(k < p)
      <4>1. k - 1 \in DOMAIN rest /\ k = (k - 1) + 1 /\ ~(k - 1 < p)
        BY <1>2, <1>4, <2>1, <3>2
      <4> QED
        BY <4>1
    <3> QED
      BY <3>1, <3>2
  <2> QED
    BY <1>2, <1>4, <2>1
<1>7. IsInjective(rest)
  <2> SUFFICES ASSUME NEW j \in DOMAIN rest, NEW k \in DOMAIN rest, rest[j] = rest[k]
               PROVE  j = k
    BY DEF IsInjective
  <2>1. CASE j < p /\ k < p
    BY <1>6, <2>1 DEF IsInjective
  <2>2. CASE ~(j < p) /\ ~(k < p)
    <3>1. j + 1 = k + 1
      BY <1>6, <2>2 DEF IsInjective
    <3> QED
      BY <1>6, <3>1
  <2>3. CASE j < p /\ ~(k < p)
    <3>1. j = k + 1
      BY <1>6, <2>3 DEF IsInjective
    <3> QED
      BY <1>6, <2>3, <3>1
  <2>4. CASE ~(j < p) /\ k < p
    <3>1. j + 1 = k
      BY <1>6, <2>4 DEF IsInjective
    <3> QED
      BY <1>6, <2>4, <3>1
  <2> QED
    BY <2>1, <2>2, <2>3, <2>4
<1>8. Range(rest) = Range(array) \ {s}
  <2>1. ASSUME NEW k \in DOMAIN rest PROVE rest[k] \in Range(array) /\ rest[k] # s
    <3>1. CASE k < p
      BY <1>2, <1>6, <3>1 DEF IsInjective, Range
    <3>2. CASE ~(k < p)
      <4>1. k + 1 # p
        BY <1>6, <3>2
      <4> QED
        BY <1>2, <1>6, <3>2, <4>1 DEF IsInjective, Range
    <3> QED
      BY <3>1, <3>2
  <2>2. ASSUME NEW k \in DOMAIN array, array[k] # s PROVE array[k] \in Range(rest)
    <3>1. PICK j \in DOMAIN rest : (k < p /\ j = k) \/ (k = j + 1 /\ ~(j < p))
      BY <1>2, <1>6, <2>2
    <3>2. rest[j] = array[k]
      BY <1>6, <3>1
    <3> QED
      BY <3>2 DEF Range
  <2> QED
    BY <2>1, <2>2 DEF Range
<1> QED
  BY <1>1, <1>3, <1>5, <1>7, <1>8 DEF PsWithout

(* What the end of a publish keeps of its array.                           *)
LEMMA RemainingAre ==
  ASSUME NEW array \in Seq(PsSubs), IsInjective(array), NEW kept
  PROVE  /\ Selected(array, kept) \in Seq(PsSubs) /\ IsInjective(Selected(array, kept))
         /\ Range(Selected(array, kept)) = Range(array) \cap kept
<1>1. PICK r, g : /\ r = Selected(array, kept) /\ r \in Seq(PsSubs)
                  /\ IsChoice(r, g, array, kept, Len(array))
  BY SelectedFacts
<1>2. /\ DOMAIN array = 1 .. Len(array) /\ DOMAIN r = 1 .. Len(r) /\ Len(r) \in Nat
      /\ Len(array) \in Nat
  BY <1>1
<1>3. IsInjective(r)
  <2> SUFFICES ASSUME NEW j \in DOMAIN r, NEW k \in DOMAIN r, r[j] = r[k]
               PROVE  j = k
    BY DEF IsInjective
  <2>1. g[j] \in DOMAIN array /\ g[k] \in DOMAIN array /\ r[j] = array[g[j]] /\ r[k] = array[g[k]]
    BY <1>1, <1>2 DEF IsChoice
  <2>2. g[j] = g[k]
    BY <2>1 DEF IsInjective
  <2>3. g[j] \in Int
    BY <1>2, <2>1
  <2>4. ~(g[j] < g[k]) /\ ~(g[k] < g[j])
    BY <2>2, <2>3
  <2>5. ~(j < k) /\ ~(k < j)
    BY <1>1, <2>4 DEF IsChoice
  <2> QED
    BY <1>2, <2>5
<1>4. Range(r) = Range(array) \cap kept
  <2>1. ASSUME NEW k \in DOMAIN r PROVE r[k] \in Range(array) \cap kept
    <3>1. g[k] \in DOMAIN array /\ r[k] = array[g[k]] /\ array[g[k]] \in kept
      BY <1>1, <1>2 DEF IsChoice
    <3> QED
      BY <3>1 DEF Range
  <2>2. ASSUME NEW i \in DOMAIN array, array[i] \in kept PROVE array[i] \in Range(r)
    <3>1. PICK k \in DOMAIN r : g[k] = i
      BY <1>1, <1>2, <2>2 DEF IsChoice
    <3>2. r[k] = array[i]
      BY <1>1, <3>1 DEF IsChoice
    <3> QED
      BY <3>2 DEF Range
  <2> QED
    BY <2>1, <2>2 DEF Range
<1> QED
  BY <1>1, <1>3, <1>4

LEMMA PassedFinite ==
  ASSUME NEW walk \in PsFrames, NEW array
  PROVE  /\ IsFiniteSet(PassedOver(walk, array))
         /\ Cardinality(PassedOver(walk, array)) \in Nat
<1>1. IsFiniteSet(PsSubs)
  BY PubSubAssumption, FS_Interval DEF PsSubs
<1>2. PassedOver(walk, array) \in SUBSET PsSubs
  BY DEF PassedOver, PsFrames
<1> QED
  BY <1>1, <1>2, FS_Subset, FS_CardinalityType

LEMMA PassedFew ==
  ASSUME NEW walk \in PsFrames, NEW array, NEW next \in PsFrames, NEW rest,
         PassedOver(next, rest) \subseteq PassedOver(walk, array)
  PROVE  Cardinality(PassedOver(next, rest)) <= Cardinality(PassedOver(walk, array))
<1>1. PICK old, new : old = PassedOver(walk, array) /\ new = PassedOver(next, rest)
  OBVIOUS
<1>2. IsFiniteSet(old) /\ new \in SUBSET old
  BY <1>1, PassedFinite
<1>3. Cardinality(new) <= Cardinality(old)
  BY <1>2, FS_Subset
<1> QED
  BY <1>1, <1>3

(* A publish whose array loses a subscription passes over one more at most. *)
LEMMA WalkedWithout ==
  ASSUME NEW walk \in PsFrames, NEW array \in Seq(PsSubs), IsInjective(array),
         Walked(walk, array), NEW s, NEW p, NEW rest, WithoutAt(array, s, p, rest),
         NEW next, next = [walk EXCEPT !.cut = @ + 1]
  PROVE  next \in PsFrames /\ Walked(next, rest)
<1>1. /\ next \in PsFrames
      /\ next.cut = walk.cut + 1 /\ walk.cut \in Nat /\ walk.at \in Nat
      /\ next.topic = walk.topic /\ next.array = walk.array /\ next.at = walk.at
      /\ next.called = walk.called /\ next.count = walk.count /\ next.spent = walk.spent
      /\ next.start = walk.start /\ next.seen = walk.seen
  <2>1. walk.cut \in Nat /\ walk.at \in Nat
    BY DEF PsFrames
  <2>2. PICK cut : cut = walk.cut + 1 /\ cut \in Nat
    BY <2>1
  <2>3. next = [walk EXCEPT !.cut = cut]
    BY <2>2
  <2>4. next \in PsFrames
    BY <2>2, <2>3 DEF PsFrames
  <2>5. /\ next.cut = cut /\ next.topic = walk.topic /\ next.array = walk.array
        /\ next.at = walk.at /\ next.called = walk.called /\ next.count = walk.count
        /\ next.spent = walk.spent /\ next.start = walk.start /\ next.seen = walk.seen
    BY <2>3 DEF PsFrames
  <2> QED
    BY <2>1, <2>2, <2>4, <2>5
<1>2. PICK past : past = Past(walk) /\ past = Past(next) /\ past \in Nat
  BY <1>1 DEF Past
<1>3. /\ DOMAIN rest = 1 .. Len(rest) /\ DOMAIN array = 1 .. Len(array)
      /\ Len(array) \in Nat /\ Len(rest) = Len(array) - 1 /\ p \in 1 .. Len(array)
  BY DEF WithoutAt
<1>4. ASSUME NEW k \in DOMAIN rest
      PROVE  \E j \in DOMAIN array : /\ rest[k] = array[j] /\ k \in Int /\ j \in Int
                                     /\ (k < p /\ j = k) \/ (~(k < p) /\ j = k + 1)
  <2>1. k \in DOMAIN array /\ k + 1 \in DOMAIN array /\ k \in Int
    BY <1>3
  <2> QED
    BY <1>3, <2>1 DEF WithoutAt
<1>5. ASSUME NEW k \in DOMAIN rest, rest[k] \in Range(walk.seen) PROVE k < past
  <2>1. PICK j \in DOMAIN array : rest[k] = array[j] /\ k <= j /\ k \in Int /\ j \in Int
    BY <1>4
  <2>2. j < past
    BY <1>2, <1>5, <2>1 DEF Walked
  <2> QED
    BY <1>2, <2>1, <2>2
<1>6. \E x : PassedOver(next, rest) \subseteq PassedOver(walk, array) \cup {x}
  <2>1. ASSUME NEW a \in PassedOver(next, rest)
        PROVE  a \in PassedOver(walk, array) \/ (past \in DOMAIN array /\ a = array[past])
    <3>1. PICK k \in DOMAIN rest : k < past /\ rest[k] = a
      BY <1>2 DEF PassedOver
    <3>2. PICK j \in DOMAIN array : /\ rest[k] = array[j] /\ k \in Int /\ j \in Int
                                    /\ j = k \/ j = k + 1
      BY <1>4
    <3>3. j < past \/ j = past
      BY <1>2, <3>1, <3>2
    <3>4. a \in walk.start /\ a \notin Range(walk.seen)
      BY <1>1 DEF PassedOver
    <3>5. CASE j < past
      BY <1>2, <3>1, <3>2, <3>4, <3>5 DEF PassedOver
    <3> QED
      BY <3>1, <3>2, <3>3, <3>5
  <2> QED
    BY <2>1
<1>7. Cardinality(PassedOver(next, rest)) <= next.cut
  <2>1. PICK x, old, new : /\ old = PassedOver(walk, array) /\ new = PassedOver(next, rest)
                           /\ new \subseteq old \cup {x}
    BY <1>6
  <2>2. IsFiniteSet(old) /\ Cardinality(old) \in Nat /\ Cardinality(old) <= walk.cut
    BY <2>1, PassedFinite DEF Walked
  <2>3. /\ IsFiniteSet(old \cup {x})
        /\ Cardinality(old \cup {x}) = IF x \in old THEN Cardinality(old) ELSE Cardinality(old) + 1
    BY <2>2, FS_AddElement
  <2>4. Cardinality(new) <= Cardinality(old \cup {x}) /\ Cardinality(new) \in Nat
    <3>1. new \in SUBSET (old \cup {x})
      BY <2>1
    <3> QED
      BY <2>3, <3>1, FS_Subset, FS_CardinalityType
  <2>5. Cardinality(new) <= walk.cut + 1
    BY <1>1, <2>2, <2>3, <2>4
  <2> QED
    BY <1>1, <2>1, <2>5
<1> QED
  BY <1>1, <1>2, <1>5, <1>7 DEF Walked

(* One whose array gains a new subscription.                               *)
LEMMA WalkedMore ==
  ASSUME NEW walk \in PsFrames, NEW array \in Seq(PsSubs), Walked(walk, array),
         NEW s \in PsSubs, s \notin walk.start, s \notin Range(walk.seen)
  PROVE  Walked(walk, Append(array, s))
<1>1. PICK more : more = Append(array, s)
  OBVIOUS
<1>2. /\ \A p \in DOMAIN more : (p \in DOMAIN array /\ more[p] = array[p]) \/ more[p] = s
      /\ \A p \in DOMAIN array : p \in DOMAIN more /\ more[p] = array[p]
  <2>1. /\ DOMAIN more = 1 .. Len(array) + 1 /\ DOMAIN array = 1 .. Len(array)
        /\ Len(array) \in Nat
        /\ more[Len(array) + 1] = s /\ \A p \in 1 .. Len(array) : more[p] = array[p]
    BY <1>1
  <2> QED
    BY <2>1
<1>3. PassedOver(walk, more) = PassedOver(walk, array)
  BY <1>2 DEF PassedOver
<1>4. \A p \in DOMAIN more : more[p] \in Range(walk.seen) => p < Past(walk)
  BY <1>2 DEF Walked
<1> QED
  BY <1>1, <1>3, <1>4 DEF Walked

(* A handler is called.                                                    *)
LEMMA WalkedCall ==
  ASSUME NEW walk \in PsFrames, NEW array \in Seq(PsSubs), IsInjective(array),
         Walked(walk, array), walk.called = 0, walk.at \in DOMAIN array,
         NEW s, s = array[walk.at],
         NEW next, next = [walk EXCEPT !.called = s, !.seen = Append(walk.seen, s)]
  PROVE  /\ next \in PsFrames /\ Walked(next, array)
         /\ Range(next.seen) = Range(walk.seen) \cup {s}
<1>1. s \in PsSubs /\ s \in 1 .. PsLastSub /\ PsLastSub \in Nat
  BY PubSubAssumption, ElementOfSeq DEF PsSubs
<1>2. walk.seen \in Seq(PsSubs) /\ Append(walk.seen, s) \in Seq(PsSubs)
  BY <1>1 DEF PsFrames
<1>3. /\ next \in PsFrames
      /\ next.called = s /\ next.seen = Append(walk.seen, s)
      /\ next.topic = walk.topic /\ next.array = walk.array /\ next.at = walk.at
      /\ next.count = walk.count /\ next.spent = walk.spent
      /\ next.start = walk.start /\ next.cut = walk.cut
      /\ walk.at \in Nat /\ walk.count \in Nat /\ walk.cut \in Nat
  <2>1. PICK more : more = Append(walk.seen, s) /\ more \in Seq(PsSubs)
    BY <1>2
  <2>2. next = [walk EXCEPT !.called = s, !.seen = more]
    BY <2>1
  <2>3. s \in 0 .. PsLastSub
    BY <1>1
  <2>4. next \in PsFrames
    BY <2>1, <2>2, <2>3 DEF PsFrames
  <2>5. /\ next.called = s /\ next.seen = more
        /\ next.topic = walk.topic /\ next.array = walk.array /\ next.at = walk.at
        /\ next.count = walk.count /\ next.spent = walk.spent
        /\ next.start = walk.start /\ next.cut = walk.cut
    BY <2>2 DEF PsFrames
  <2>6. walk.at \in Nat /\ walk.count \in Nat /\ walk.cut \in Nat
    BY DEF PsFrames
  <2> QED
    BY <2>1, <2>4, <2>5, <2>6
<1>4. Past(walk) = walk.at /\ Past(next) = walk.at + 1
  BY <1>1, <1>3 DEF Past
<1>5. s \notin Range(walk.seen)
  BY <1>3, <1>4 DEF Walked
<1>6. /\ Range(next.seen) = Range(walk.seen) \cup {s} /\ IsInjective(next.seen)
      /\ Len(next.seen) = Len(walk.seen) + 1 /\ Len(walk.seen) \in Nat
  <2>1. IsInjective(walk.seen)
    BY DEF Walked
  <2>2. Len(Append(walk.seen, s)) = Len(walk.seen) + 1 /\ Len(walk.seen) \in Nat
    BY <1>2
  <2> QED
    BY <1>1, <1>2, <1>3, <1>5, <2>1, <2>2, Appended
<1>7. ASSUME NEW p \in DOMAIN array, array[p] \in Range(next.seen) PROVE p < Past(next)
  <2>1. CASE array[p] \in Range(walk.seen)
    <3>1. p < walk.at /\ p \in Int
      BY <1>4, <2>1 DEF Walked
    <3> QED
      BY <1>3, <1>4, <3>1
  <2>2. CASE array[p] = s
    <3>1. p = walk.at
      BY <2>2 DEF IsInjective
    <3> QED
      BY <1>3, <1>4, <3>1
  <2> QED
    BY <1>6, <1>7, <2>1, <2>2
<1>8. Cardinality(PassedOver(next, array)) <= next.cut
  <2>1. ASSUME NEW a \in PassedOver(next, array) PROVE a \in PassedOver(walk, array)
    <3>1. PICK p \in DOMAIN array : p < walk.at + 1 /\ array[p] = a
      BY <1>4 DEF PassedOver
    <3>2. a \in walk.start /\ a \notin Range(walk.seen) /\ a # s
      BY <1>3, <1>6 DEF PassedOver
    <3>3. p # walk.at /\ p \in Int
      BY <3>1, <3>2
    <3>4. p < walk.at
      BY <1>3, <3>1, <3>3
    <3> QED
      BY <1>4, <3>1, <3>2, <3>4 DEF PassedOver
  <2>2. PassedOver(next, array) \subseteq PassedOver(walk, array)
    BY <2>1
  <2>3. Cardinality(PassedOver(next, array)) <= Cardinality(PassedOver(walk, array))
    BY <1>3, <2>2, PassedFew
  <2> QED
    BY <1>3, <2>3, PassedFinite DEF Walked
<1>9. /\ next.called \in Range(next.seen) \cup {0}
      /\ next.spent \subseteq Range(next.seen)
  BY <1>3, <1>6 DEF Walked
<1>10. (IF next.called # 0 THEN next.count + 1 ELSE next.count) <= Len(next.seen)
  <2>1. walk.count <= Len(walk.seen)
    BY DEF Walked
  <2> QED
    BY <1>1, <1>3, <1>6, <2>1
<1> QED
  BY <1>3, <1>6, <1>7, <1>8, <1>9, <1>10 DEF Walked

(* It returns, or throws.                                                  *)
LEMMA WalkedReturn ==
  ASSUME NEW walk \in PsFrames, NEW array, Walked(walk, array), walk.called # 0,
         NEW count, count = walk.count \/ count = walk.count + 1,
         NEW once,
         NEW next, next = [walk EXCEPT !.called = 0, !.at = walk.at + 1, !.count = count,
                                       !.spent = walk.spent \cup ({walk.called} \cap once)]
  PROVE  next \in PsFrames /\ Walked(next, array)
<1>1. walk.called \in PsSubs /\ PsLastSub \in Nat
  BY PubSubAssumption DEF PsFrames, PsSubs
<1>2. PICK spent : /\ spent = walk.spent \cup ({walk.called} \cap once)
                   /\ spent \in SUBSET PsSubs /\ spent \subseteq Range(walk.seen)
  <2>1. walk.spent \in SUBSET PsSubs
    BY DEF PsFrames
  <2> QED
    BY <1>1, <2>1 DEF Walked
<1>3. /\ next \in PsFrames
      /\ next.called = 0 /\ next.at = walk.at + 1 /\ next.count = count /\ next.spent = spent
      /\ next.topic = walk.topic /\ next.array = walk.array
      /\ next.start = walk.start /\ next.seen = walk.seen /\ next.cut = walk.cut
      /\ walk.at \in Nat /\ walk.count \in Nat
  <2>1. walk.at \in Nat /\ walk.count \in Nat
    BY DEF PsFrames
  <2>2. PICK at : at = walk.at + 1 /\ at \in Nat \ {0}
    BY <2>1
  <2>3. count \in Nat /\ 0 \in 0 .. PsLastSub
    BY <1>1, <2>1
  <2>4. next = [walk EXCEPT !.called = 0, !.at = at, !.count = count, !.spent = spent]
    BY <1>2, <2>2
  <2>5. next \in PsFrames
    BY <1>2, <2>2, <2>3, <2>4 DEF PsFrames
  <2>6. /\ next.called = 0 /\ next.at = at /\ next.count = count /\ next.spent = spent
        /\ next.topic = walk.topic /\ next.array = walk.array
        /\ next.start = walk.start /\ next.seen = walk.seen /\ next.cut = walk.cut
    BY <2>4 DEF PsFrames
  <2> QED
    BY <2>1, <2>2, <2>5, <2>6
<1>4. Past(next) = Past(walk)
  BY <1>3 DEF Past
<1>5. PassedOver(next, array) = PassedOver(walk, array)
  BY <1>3, <1>4 DEF PassedOver
<1>6. count <= Len(walk.seen)
  <2>1. walk.count + 1 <= Len(walk.seen) /\ Len(walk.seen) \in Nat
    BY DEF Walked, PsFrames
  <2> QED
    BY <1>3, <2>1
<1> QED
  BY <1>2, <1>3, <1>4, <1>5, <1>6 DEF Walked

(* The state's fields, one by one.                                         *)
LEMMA PsFields ==
  ASSUME PsIInv
  PROVE  /\ ps_arrays \in Nat /\ ps_arrays + Len(ps_walks) <= ps_counter + ps_published
         /\ ps_counter \in Nat /\ ps_counter <= PsLastSub /\ PsLastSub \in Nat
         /\ ps_published \in Nat /\ ps_published <= PsMaxPublish /\ PsMaxPublish \in Nat
         /\ ps_array \in [PsArrays -> Seq(PsSubs)] /\ ps_calls \in [PsSubs -> Nat]
         /\ ps_topics \in [PsTopics -> 0 .. ps_arrays]
         /\ \A t \in PsTopics : ps_topics[t] # 0 => ps_topics[t] \in 1 .. ps_arrays
         /\ \A a \in 1 .. ps_arrays :
              /\ a \in PsArrays /\ ps_array[a] \in Seq(PsSubs) /\ IsInjective(ps_array[a])
              /\ Range(ps_array[a]) \subseteq 1 .. ps_counter
         /\ ps_walks \in Seq(PsFrames)
         /\ Len(ps_walks) \in Nat /\ DOMAIN ps_walks = 1 .. Len(ps_walks)
         /\ \A i \in DOMAIN ps_walks :
              /\ ps_walks[i] \in PsFrames /\ ps_walks[i].array \in 1 .. ps_arrays
              /\ WalkHolds(ps_walks[i]) /\ Walked(ps_walks[i], ps_array[ps_walks[i].array])
<1>1. /\ ps_arrays \in Nat /\ ps_arrays + Len(ps_walks) <= ps_counter + ps_published
      /\ ps_counter \in 0 .. PsLastSub /\ ps_published \in 0 .. PsMaxPublish
      /\ ps_array \in [PsArrays -> Seq(PsSubs)] /\ ps_calls \in [PsSubs -> Nat]
      /\ ps_topics \in [PsTopics -> 0 .. ps_arrays]
  BY DEF PsIInv, PsTyped
<1>2. ps_walks \in Seq(PsFrames)
  BY DEF PsIInv, PsTyped
<1>3. Len(ps_walks) \in Nat /\ DOMAIN ps_walks = 1 .. Len(ps_walks)
  BY <1>2
<1>4. \A i \in DOMAIN ps_walks : ps_walks[i] \in PsFrames
  BY <1>2, <1>3, ElementOfSeq
<1>5. \A i \in DOMAIN ps_walks :
        /\ ps_walks[i].array \in 1 .. ps_arrays
        /\ WalkHolds(ps_walks[i]) /\ Walked(ps_walks[i], ps_array[ps_walks[i].array])
  BY DEF PsIInv, WalkHolds
<1>6. /\ ps_counter \in Nat /\ ps_counter <= PsLastSub /\ PsLastSub \in Nat
      /\ ps_published \in Nat /\ ps_published <= PsMaxPublish /\ PsMaxPublish \in Nat
  BY <1>1, PubSubAssumption
<1>7. 1 .. ps_arrays \subseteq PsArrays
  BY <1>1, <1>3, <1>6 DEF PsArrays
<1>8. \A t \in PsTopics : ps_topics[t] # 0 => ps_topics[t] \in 1 .. ps_arrays
  BY <1>1
<1>9. \A a \in 1 .. ps_arrays : IsInjective(ps_array[a]) /\ Range(ps_array[a]) \subseteq 1 .. ps_counter
  BY DEF PsIInv, ArraysHold
<1> QED
  BY <1>1, <1>2, <1>3, <1>4, <1>5, <1>6, <1>7, <1>8, <1>9

LEMMA HeldApart ==
  ASSUME PsIInv, NEW own, Owned(own), NEW t \in PsTopics, NEW u \in PsTopics, t # u
  PROVE  /\ PsHeld(t) \cap PsHeld(u) = {}
         /\ ps_topics[t] # 0 => ps_topics[t] # ps_topics[u]
<1>1. CASE ps_topics[t] # 0 /\ ps_topics[u] # 0
  <2>1. ps_topics[t] \in 1 .. ps_arrays /\ ps_topics[u] \in 1 .. ps_arrays
    BY <1>1, PsFields
  <2>2. own[ps_topics[t]] = t /\ own[ps_topics[u]] = u
    BY <1>1 DEF Owned
  <2>3. Range(ps_array[ps_topics[t]]) \cap Range(ps_array[ps_topics[u]]) = {}
    BY <2>1, <2>2 DEF Owned
  <2> QED
    BY <1>1, <2>2, <2>3 DEF PsHeld
<1>2. CASE ps_topics[t] = 0 \/ ps_topics[u] = 0
  BY <1>2 DEF PsHeld
<1> QED
  BY <1>1, <1>2

(* What a publish knows stays so while the registry grows.                 *)
LEMMA WalkStays ==
  ASSUME NEW walk \in PsFrames, WalkHolds(walk),
         ps_arrays \in Nat, ps_arrays' \in Nat, ps_arrays <= ps_arrays',
         ps_counter \in Nat, ps_counter' \in Nat, ps_counter <= ps_counter',
         ps_once \subseteq ps_once', ps_removed \subseteq ps_removed',
         \A s \in PsSubs : ps_calls[s] > 0 => ps_calls'[s] > 0,
         Range(ps_array[walk.array]) \subseteq Range(ps_array'[walk.array]) \cup ps_removed'
  PROVE  WalkHolds(walk)'
<1>1. walk.array \in 1 .. ps_arrays'
  BY DEF WalkHolds
<1>2. 1 .. ps_counter \subseteq 1 .. ps_counter'
  OBVIOUS
<1>3. Range(walk.seen) \subseteq PsSubs
  BY DEF PsFrames, Range
<1>4. \A s \in Range(walk.seen) : ps_calls'[s] > 0
  BY <1>3 DEF WalkHolds
<1> QED
  BY <1>1, <1>2, <1>4 DEF WalkHolds

LEMMA PsInitInvariant == PsInit => PsIInv
<1> SUFFICES ASSUME PsInit PROVE PsIInv
  OBVIOUS
<1>1. /\ ps_topics = [t \in PsTopics |-> 0] /\ ps_array = [a \in PsArrays |-> << >>]
      /\ ps_arrays = 0 /\ ps_counter = 0 /\ ps_once = {} /\ ps_walks = << >>
      /\ ps_published = 0 /\ ps_removed = {} /\ ps_calls = [s \in PsSubs |-> 0]
      /\ ps_replaced = FALSE
  BY DEF PsInit
<1>2. PsTyped
  <2>1. PsLastSub \in Nat /\ PsMaxPublish \in Nat
    BY PubSubAssumption
  <2>2. ps_walks \in Seq(PsFrames) /\ Len(ps_walks) = 0
    BY <1>1
  <2>3. ps_array \in [PsArrays -> Seq(PsSubs)]
    BY <1>1
  <2>4. /\ ps_topics \in [PsTopics -> 0 .. ps_arrays] /\ ps_calls \in [PsSubs -> Nat]
        /\ \A s \in PsSubs : ps_calls[s] = 0
    BY <1>1
  <2>5. /\ ps_arrays \in Nat /\ ps_counter \in 0 .. PsLastSub
        /\ ps_published \in 0 .. PsMaxPublish
        /\ ps_arrays + Len(ps_walks) <= ps_counter + ps_published
    <3>1. /\ ps_arrays = 0 /\ ps_counter = 0 /\ ps_published = 0
          /\ Len(ps_walks) = 0
      BY <1>1, <2>2
    <3> QED
      BY <2>1, <3>1
  <2>6. /\ ps_once \subseteq 1 .. ps_counter /\ ps_removed \subseteq 1 .. ps_counter
        /\ ps_replaced \in BOOLEAN
    BY <1>1
  <2> QED
    BY <2>2, <2>3, <2>4, <2>5, <2>6 DEF PsTyped
<1>3. 1 .. 0 = {} /\ DOMAIN ps_walks = {}
  BY <1>1
<1>4. ArraysHold /\ Listed /\ RegistryKept
  BY <1>1, <1>3 DEF ArraysHold, Listed, RegistryKept
<1>5. Owned(<< >>)
  BY <1>1, <1>3 DEF Owned
<1> QED
  BY <1>2, <1>3, <1>4, <1>5 DEF PsIInv

(* A subscription: in both cases an array `a` of the topic has the new one   *)
(* behind those the topic held.                                            *)
LEMMA SubscribeInvariant ==
  ASSUME PsIInv, NEW t \in PsTopics, NEW once \in BOOLEAN, PsSubscribe(t, once)
  PROVE  PsIInv'
<1>1. PICK n : n = ps_counter + 1 /\ ps_counter < PsLastSub
  BY DEF PsSubscribe
<1>2. /\ ps_counter' = n
      /\ ps_once' = IF once THEN ps_once \cup {n} ELSE ps_once
      /\ UNCHANGED <<ps_walks, ps_published, ps_removed, ps_calls, ps_replaced>>
  BY <1>1 DEF PsSubscribe
<1>3. /\ ps_counter \in Nat /\ n \in Nat /\ n \in PsSubs /\ n \notin 1 .. ps_counter
      /\ 1 .. n = (1 .. ps_counter) \cup {n} /\ n \in 1 .. PsLastSub
      /\ ps_counter <= n
  BY <1>1, PsFields DEF PsSubs
<1>4. PICK own : Owned(own)
  BY DEF PsIInv
<1>5. PICK a, old :
        /\ old \in Seq(PsSubs) /\ IsInjective(old) /\ Range(old) \subseteq 1 .. ps_counter
        /\ Range(old) = PsHeld(t)
        /\ ps_arrays' \in {ps_arrays, ps_arrays + 1} /\ a \in 1 .. ps_arrays'
        /\ ps_arrays' + Len(ps_walks) <= n + ps_published
        /\ \A b \in 1 .. ps_arrays' : b # a => b \in 1 .. ps_arrays
        /\ a \in 1 .. ps_arrays => own[a] = t /\ old = ps_array[a]
        /\ ps_topics' = [ps_topics EXCEPT ![t] = a]
        /\ ps_array' = [ps_array EXCEPT ![a] = Append(old, n)]
  <2>1. CASE ps_topics[t] # 0
    <3>1. PICK a : a = ps_topics[t] /\ a \in 1 .. ps_arrays
      BY <2>1, PsFields
    <3>2. ps_array' = [ps_array EXCEPT ![a] = Append(ps_array[a], n)]
      BY <1>1, <2>1, <3>1 DEF PsSubscribe
    <3>3. ps_topics' = ps_topics /\ ps_arrays' = ps_arrays
      BY <2>1 DEF PsSubscribe
    <3>4. ps_topics = [ps_topics EXCEPT ![t] = a]
      BY <3>1, PsFields
    <3>5. own[a] = t /\ PsHeld(t) = Range(ps_array[a])
      BY <1>4, <2>1, <3>1 DEF Owned, PsHeld
    <3>6. ps_arrays + Len(ps_walks) <= n + ps_published
      BY <1>3, <1>1, PsFields
    <3> QED
      BY <3>1, <3>2, <3>3, <3>4, <3>5, <3>6, PsFields
  <2>2. CASE ps_topics[t] = 0
    <3>1. PICK a : a = ps_arrays + 1
      OBVIOUS
    <3>2. /\ ps_arrays' = a /\ ps_topics' = [ps_topics EXCEPT ![t] = a]
          /\ ps_array' = [ps_array EXCEPT ![a] = <<n>>]
      BY <1>1, <2>2, <3>1 DEF PsSubscribe
    <3>3. <<n>> = Append(<< >>, n)
      OBVIOUS
    <3>4. /\ << >> \in Seq(PsSubs) /\ IsInjective(<< >>) /\ Range(<< >>) = {}
          /\ PsHeld(t) = {}
      BY <2>2 DEF IsInjective, Range, PsHeld
    <3>5. /\ a \in 1 .. a /\ a \notin 1 .. ps_arrays
          /\ \A b \in 1 .. a : b # a => b \in 1 .. ps_arrays
          /\ a + Len(ps_walks) <= n + ps_published
      BY <1>1, <3>1, PsFields
    <3> QED
      BY <3>1, <3>2, <3>3, <3>4, <3>5
  <2> QED
    BY <2>1, <2>2
<1>6. PICK q : /\ q = Append(old, n) /\ q \in Seq(PsSubs) /\ IsInjective(q)
               /\ Range(q) = Range(old) \cup {n} /\ q # << >>
  <2>1. n \notin Range(old)
    BY <1>3, <1>5
  <2>2. old \in Seq(PsSubs) /\ IsInjective(old)
    BY <1>5
  <2>3. Append(old, n) # << >>
    BY <2>2
  <2> QED
    BY <1>3, <2>1, <2>2, <2>3, Appended
<1>7. /\ ps_arrays' \in Nat /\ ps_arrays <= ps_arrays' /\ ps_arrays \in Nat
      /\ 1 .. ps_arrays' \subseteq PsArrays
  <2>1. /\ ps_arrays \in Nat /\ Len(ps_walks) \in Nat /\ ps_published \in Nat
        /\ ps_published <= PsMaxPublish /\ PsMaxPublish \in Nat /\ PsLastSub \in Nat
    BY PsFields
  <2>2. ps_arrays' \in Nat /\ ps_arrays <= ps_arrays'
    BY <1>5, <2>1
  <2>3. ps_arrays' <= PsLastSub + PsMaxPublish
    <3>1. ps_arrays' + Len(ps_walks) <= n + ps_published /\ n <= PsLastSub
      BY <1>3, <1>5
    <3> QED
      BY <1>3, <2>1, <2>2, <3>1
  <2> QED
    BY <2>1, <2>2, <2>3 DEF PsArrays
<1>8. /\ \A u \in PsTopics : ps_topics'[u] = IF u = t THEN a ELSE ps_topics[u]
      /\ ps_array'[a] = q /\ \A b \in PsArrays : b # a => ps_array'[b] = ps_array[b]
  BY <1>5, <1>6, <1>7, PsFields
<1>9. ASSUME NEW u \in PsTopics, u # t, ps_topics[u] # 0
      PROVE  ps_topics[u] # a /\ ps_topics[u] \in 1 .. ps_arrays
  <2>1. ps_topics[u] \in 1 .. ps_arrays /\ own[ps_topics[u]] = u
    BY <1>4, <1>9, PsFields DEF Owned
  <2> QED
    BY <1>5, <1>9, <2>1
<1>10. /\ PsHeld(t)' = PsHeld(t) \cup {n}
       /\ \A u \in PsTopics : u # t => PsHeld(u)' = PsHeld(u)
  <2>1. a # 0
    BY <1>5
  <2>2. PsHeld(t)' = Range(q)
    BY <1>8, <2>1 DEF PsHeld
  <2>3. ASSUME NEW u \in PsTopics, u # t PROVE PsHeld(u)' = PsHeld(u)
    <3>1. CASE ps_topics[u] = 0
      BY <1>8, <2>3, <3>1 DEF PsHeld
    <3>2. CASE ps_topics[u] # 0
      <4>1. ps_topics[u] # a /\ ps_topics[u] \in PsArrays
        BY <1>9, <2>3, <3>2, PsFields
      <4> QED
        BY <1>8, <2>3, <3>2, <4>1 DEF PsHeld
    <3> QED
      BY <3>1, <3>2
  <2> QED
    BY <1>5, <1>6, <2>2, <2>3
<1>11. PsTyped'
  <2>1. ps_topics' \in [PsTopics -> 0 .. ps_arrays']
    <3>1. a \in 0 .. ps_arrays' /\ \A u \in PsTopics : ps_topics[u] \in 0 .. ps_arrays'
      BY <1>5, <1>7, PsFields
    <3> QED
      BY <1>5, <3>1, PsFields
  <2>2. ps_array' \in [PsArrays -> Seq(PsSubs)]
    BY <1>5, <1>6, PsFields
  <2>3. ps_once' \subseteq 1 .. n /\ ps_removed \subseteq 1 .. n
    BY <1>2, <1>3 DEF PsIInv, PsTyped
  <2>4. \A s \in PsSubs : ps_calls[s] > 0 => s <= n
    BY <1>1, <1>3 DEF PsIInv, PsTyped, PsSubs
  <2>5. n \in 0 .. PsLastSub
    BY <1>3
  <2> QED
    BY <1>2, <1>5, <1>7, <2>1, <2>2, <2>3, <2>4, <2>5 DEF PsIInv, PsTyped
<1>12. ArraysHold'
  <2> SUFFICES ASSUME NEW b \in 1 .. ps_arrays'
               PROVE  IsInjective(ps_array'[b]) /\ Range(ps_array'[b]) \subseteq 1 .. n
    BY <1>2 DEF ArraysHold
  <2>1. CASE b = a
    BY <1>3, <1>5, <1>6, <1>8, <2>1
  <2>2. CASE b # a
    <3>1. b \in 1 .. ps_arrays /\ b \in PsArrays
      BY <1>5, <1>7, <2>2
    <3> QED
      BY <1>3, <1>8, <2>2, <3>1, PsFields
  <2> QED
    BY <2>1, <2>2
<1>13. PICK mine : /\ mine[a] = t
                   /\ \A b \in 1 .. ps_arrays : mine[b] = own[b]
  <2>1. PICK mine : mine = [b \in 1 .. ps_arrays' |-> IF b = a THEN t ELSE own[b]]
    OBVIOUS
  <2>2. mine[a] = t
    BY <1>5, <2>1
  <2>3. ASSUME NEW b \in 1 .. ps_arrays PROVE mine[b] = own[b]
    <3>1. b \in 1 .. ps_arrays'
      BY <1>7
    <3> QED
      BY <1>5, <2>1, <3>1
  <2> QED
    BY <2>2, <2>3
<1>14. Owned(mine)'
  <2>1. ASSUME NEW u \in PsTopics, ps_topics'[u] # 0 PROVE mine[ps_topics'[u]] = u
    <3>1. CASE u = t
      BY <1>8, <1>13, <3>1
    <3>2. CASE u # t
      <4>1. ps_topics'[u] = ps_topics[u] /\ ps_topics[u] # 0 /\ ps_topics[u] \in 1 .. ps_arrays
        BY <1>8, <1>9, <2>1, <3>2
      <4> QED
        BY <1>4, <1>13, <4>1 DEF Owned
    <3> QED
      BY <3>1, <3>2
  <2>2. \A i \in DOMAIN ps_walks : mine[ps_walks[i].array] = ps_walks[i].topic
    BY <1>4, <1>13, PsFields DEF Owned
  <2>3. ASSUME NEW b \in 1 .. ps_arrays', b # a, mine[b] # t
        PROVE  Range(ps_array'[b]) \cap Range(ps_array'[a]) = {}
    <3>1. b \in 1 .. ps_arrays /\ ps_array'[b] = ps_array[b] /\ own[b] # t
      BY <1>5, <1>7, <1>8, <1>13, <2>3
    <3>2. n \notin Range(ps_array[b])
      BY <1>3, <3>1, PsFields
    <3>3. Range(ps_array[b]) \cap Range(old) = {}
      <4>1. CASE a \in 1 .. ps_arrays
        BY <1>4, <1>5, <3>1, <4>1 DEF Owned
      <4>2. CASE ps_topics[t] = 0
        <5>1. PsHeld(t) = {}
          BY <4>2 DEF PsHeld
        <5> QED
          BY <1>5, <5>1
      <4>3. CASE ps_topics[t] # 0
        <5>1. ps_topics[t] \in 1 .. ps_arrays /\ own[ps_topics[t]] = t
          BY <1>4, <4>3, PsFields DEF Owned
        <5>2. Range(ps_array[b]) \cap Range(ps_array[ps_topics[t]]) = {}
          BY <1>4, <3>1, <5>1 DEF Owned
        <5> QED
          BY <1>5, <4>3, <5>2 DEF PsHeld
      <4> QED
        BY <4>1, <4>2, <4>3
    <3> QED
      BY <1>6, <1>8, <3>1, <3>2, <3>3
  <2>4. ASSUME NEW b \in 1 .. ps_arrays', NEW c \in 1 .. ps_arrays', mine[b] # mine[c]
        PROVE  Range(ps_array'[b]) \cap Range(ps_array'[c]) = {}
    <3>1. CASE b = a
      BY <1>13, <2>3, <2>4, <3>1
    <3>2. CASE c = a
      BY <1>13, <2>3, <2>4, <3>2
    <3>3. CASE b # a /\ c # a
      <4>1. /\ b \in 1 .. ps_arrays /\ c \in 1 .. ps_arrays
            /\ ps_array'[b] = ps_array[b] /\ ps_array'[c] = ps_array[c]
        BY <1>5, <1>7, <1>8, <3>3
      <4> QED
        BY <1>4, <1>13, <2>4, <4>1 DEF Owned
    <3> QED
      BY <3>1, <3>2, <3>3
  <2> QED
    BY <1>2, <2>1, <2>2, <2>4 DEF Owned
<1>15. Listed'
  <2>1. ASSUME NEW u \in PsTopics, ps_topics'[u] # 0 PROVE ps_array'[ps_topics'[u]] # << >>
    <3>1. CASE u = t
      BY <1>6, <1>8, <3>1
    <3>2. CASE u # t
      <4>1. /\ ps_topics'[u] = ps_topics[u] /\ ps_topics[u] # 0 /\ ps_topics[u] # a
            /\ ps_topics[u] \in PsArrays
        BY <1>8, <1>9, <2>1, <3>2, PsFields
      <4> QED
        BY <1>8, <4>1 DEF PsIInv, Listed
    <3> QED
      BY <3>1, <3>2
  <2> QED
    BY <2>1 DEF Listed
<1>16. ASSUME NEW i \in DOMAIN ps_walks
       PROVE  (WalkHolds(ps_walks[i]) /\ Walked(ps_walks[i], ps_array[ps_walks[i].array]))'
  <2>1. PICK walk : walk = ps_walks[i] /\ walk = ps_walks'[i]
    BY <1>2
  <2>2. /\ walk \in PsFrames /\ walk.array \in 1 .. ps_arrays /\ walk.array \in PsArrays
        /\ WalkHolds(walk) /\ Walked(walk, ps_array[walk.array])
        /\ ps_array[walk.array] \in Seq(PsSubs)
    BY <2>1, PsFields
  <2>3. ps_array'[walk.array] = IF walk.array = a THEN Append(ps_array[walk.array], n)
                                                  ELSE ps_array[walk.array]
    BY <1>5, <1>6, <1>8, <2>2
  <2>4. n \notin walk.start /\ n \notin Range(walk.seen)
    BY <1>3, <2>2 DEF WalkHolds
  <2>5. Walked(walk, Append(ps_array[walk.array], n))
    BY <1>3, <2>2, <2>4, WalkedMore
  <2>6. Walked(walk, ps_array'[walk.array])
    BY <2>2, <2>3, <2>5
  <2>7. Range(ps_array[walk.array]) \subseteq Range(ps_array'[walk.array])
    <3>1. CASE walk.array = a
      BY <1>5, <1>6, <1>8, <2>2, <3>1
    <3>2. CASE walk.array # a
      BY <2>3, <3>2
    <3> QED
      BY <3>1, <3>2
  <2>8. WalkHolds(walk)'
    <3>1. /\ ps_once \subseteq ps_once' /\ ps_removed \subseteq ps_removed'
          /\ \A s \in PsSubs : ps_calls[s] > 0 => ps_calls'[s] > 0
          /\ Range(ps_array[walk.array]) \subseteq Range(ps_array'[walk.array]) \cup ps_removed'
      BY <1>2, <2>7
    <3>2. ps_counter' \in Nat /\ ps_counter <= ps_counter'
      BY <1>2, <1>3
    <3> QED
      BY <1>3, <1>7, <2>2, <3>1, <3>2, WalkStays
  <2> QED
    BY <2>1, <2>6, <2>8
<1>17. RegistryKept'
  <2>1. \A s : IsHeld(s)' <=> IsHeld(s) \/ s = n
    BY <1>10 DEF IsHeld
  <2>2. \A s : PsInUse(s)' <=> PsInUse(s)
    BY <1>2 DEF PsInUse
  <2>3. n \notin ps_removed /\ ps_calls[n] = 0
    <3>1. ps_calls[n] \in Nat /\ ~(n <= ps_counter)
      BY <1>1, <1>3, PsFields
    <3> QED
      BY <1>3, <3>1 DEF PsIInv, PsTyped
  <2>4. \A s \in 1 .. ps_counter : s # n /\ (s \in ps_once' <=> s \in ps_once)
    BY <1>2, <1>3
  <2> SUFFICES ASSUME ~ps_replaced, NEW s \in 1 .. n
               PROVE  /\ IsHeld(s)' => s \notin ps_removed
                      /\ s \notin ps_removed /\ (s \in ps_once' => ps_calls[s] = 0) => IsHeld(s)'
                      /\ s \in ps_once' /\ ps_calls[s] # 0 /\ ~PsInUse(s)' => ~IsHeld(s)'
    BY <1>2 DEF RegistryKept
  <2>5. CASE s = n
    BY <2>1, <2>3, <2>5
  <2>6. CASE s \in 1 .. ps_counter
    BY <2>1, <2>2, <2>4, <2>6 DEF PsIInv, RegistryKept
  <2> QED
    BY <1>3, <2>5, <2>6
<1> QED
  BY <1>2, <1>11, <1>12, <1>14, <1>15, <1>16, <1>17 DEF PsIInv

(* An array loses the subscription; a walk of it goes on at the same index. *)
LEMMA UnsubscribeInvariant ==
  ASSUME PsIInv, NEW s \in PsSubs, PsUnsubscribe(s)
  PROVE  PsIInv'
<1>1. PICK t \in PsTopics :
        /\ s \in PsHeld(t)
        /\ LET a == ps_topics[t] rest == PsWithout(ps_array[a], s) IN
           /\ ps_array' = [ps_array EXCEPT ![a] = rest]
           /\ ps_topics' = IF PsGone(rest) THEN [ps_topics EXCEPT ![t] = 0] ELSE ps_topics
           /\ ps_walks' = [i \in DOMAIN ps_walks |->
                             IF ps_walks[i].array = a
                               THEN [ps_walks[i] EXCEPT !.cut = @ + 1] ELSE ps_walks[i]]
  BY DEF PsUnsubscribe
<1>2. PICK a, rest : a = ps_topics[t] /\ rest = PsWithout(ps_array[a], s)
  OBVIOUS
<1>3. /\ s \in PsHeld(t) /\ a = ps_topics[t] /\ rest = PsWithout(ps_array[a], s)
      /\ ps_array' = [ps_array EXCEPT ![a] = rest]
      /\ ps_topics' = IF PsGone(rest) THEN [ps_topics EXCEPT ![t] = 0] ELSE ps_topics
      /\ ps_walks' = [i \in DOMAIN ps_walks |->
                        IF ps_walks[i].array = a
                          THEN [ps_walks[i] EXCEPT !.cut = @ + 1] ELSE ps_walks[i]]
      /\ ps_removed' = ps_removed \cup {s}
      /\ UNCHANGED <<ps_arrays, ps_counter, ps_once, ps_published, ps_calls, ps_replaced>>
  <2>1. ps_array' = [ps_array EXCEPT ![a] = rest]
    BY <1>1, <1>2
  <2>2. ps_topics' = IF PsGone(rest) THEN [ps_topics EXCEPT ![t] = 0] ELSE ps_topics
    BY <1>1, <1>2
  <2>3. ps_walks' = [i \in DOMAIN ps_walks |->
                      IF ps_walks[i].array = a
                        THEN [ps_walks[i] EXCEPT !.cut = @ + 1] ELSE ps_walks[i]]
    BY <1>1, <1>2
  <2>4. /\ ps_removed' = ps_removed \cup {s}
        /\ UNCHANGED <<ps_arrays, ps_counter, ps_once, ps_published, ps_calls, ps_replaced>>
    BY DEF PsUnsubscribe
  <2> QED
    BY <1>1, <1>2, <2>1, <2>2, <2>3, <2>4
<1>4. PICK own : Owned(own)
  BY DEF PsIInv
<1>5. /\ a # 0 /\ a \in 1 .. ps_arrays /\ a \in PsArrays /\ own[a] = t
      /\ ps_array[a] \in Seq(PsSubs) /\ IsInjective(ps_array[a])
      /\ PsHeld(t) = Range(ps_array[a]) /\ s \in 1 .. ps_counter
  <2>1. a # 0 /\ PsHeld(t) = Range(ps_array[a])
    BY <1>3 DEF PsHeld
  <2> QED
    BY <1>3, <1>4, <2>1, PsFields DEF Owned
<1>6. PICK p : /\ WithoutAt(ps_array[a], s, p, rest)
               /\ rest \in Seq(PsSubs) /\ IsInjective(rest)
               /\ Range(rest) = Range(ps_array[a]) \ {s}
  <2>1. s \in Range(ps_array[a])
    BY <1>3, <1>5
  <2>2. /\ \E p : WithoutAt(ps_array[a], s, p, rest)
        /\ IsInjective(rest) /\ Range(rest) = Range(ps_array[a]) \ {s}
    BY <1>3, <1>5, <2>1, Unsubscribed
  <2> QED
    BY <2>2 DEF WithoutAt
<1>7. ps_array'[a] = rest /\ \A b \in PsArrays : b # a => ps_array'[b] = ps_array[b]
  BY <1>3, <1>5, PsFields
<1>8. \A u \in PsTopics : ps_topics'[u] = IF u = t /\ rest = << >> THEN 0 ELSE ps_topics[u]
  BY <1>3, PsFields DEF PsGone
<1>9. \A u \in PsTopics : u # t => ps_topics[u] # a
  BY <1>3, <1>4, <1>5, HeldApart
<1>10. ASSUME NEW u \in PsTopics PROVE PsHeld(u)' = PsHeld(u) \ {s}
  <2>1. CASE u = t
    <3>1. CASE rest = << >>
      <4>1. PsHeld(u)' = {}
        BY <1>8, <2>1, <3>1 DEF PsHeld
      <4>2. Range(rest) = {}
        BY <3>1 DEF Range
      <4> QED
        BY <1>5, <1>6, <2>1, <4>1, <4>2
    <3>2. CASE rest # << >>
      <4>1. PsHeld(u)' = Range(rest)
        BY <1>3, <1>5, <1>7, <1>8, <2>1, <3>2 DEF PsHeld
      <4> QED
        BY <1>5, <1>6, <2>1, <4>1
    <3> QED
      BY <3>1, <3>2
  <2>2. CASE u # t
    <3>1. s \notin PsHeld(u)
      BY <1>3, <1>4, <2>2, HeldApart
    <3>2. ps_topics'[u] = ps_topics[u] /\ ps_topics[u] # a
      BY <1>8, <1>9, <2>2
    <3>3. ps_topics[u] # 0 => ps_array'[ps_topics[u]] = ps_array[ps_topics[u]]
      BY <1>7, <3>2, PsFields
    <3>4. PsHeld(u)' = PsHeld(u)
      BY <3>2, <3>3 DEF PsHeld
    <3> QED
      BY <3>1, <3>4
  <2> QED
    BY <2>1, <2>2
<1>11. ASSUME NEW i \in DOMAIN ps_walks
      PROVE  /\ ps_walks'[i] \in PsFrames
             /\ ps_walks'[i].array = ps_walks[i].array /\ ps_walks'[i].topic = ps_walks[i].topic
             /\ ps_walks'[i].spent = ps_walks[i].spent
             /\ ps_walks'[i].called = ps_walks[i].called
             /\ (WalkHolds(ps_walks[i]) /\ Walked(ps_walks[i], ps_array[ps_walks[i].array]))'
  <2>1. PICK walk, next :
          /\ walk = ps_walks[i] /\ next = ps_walks'[i]
          /\ next = IF walk.array = a THEN [walk EXCEPT !.cut = @ + 1] ELSE walk
    BY <1>3
  <2>2. /\ walk \in PsFrames /\ walk.array \in 1 .. ps_arrays /\ walk.array \in PsArrays
        /\ WalkHolds(walk) /\ Walked(walk, ps_array[walk.array])
    BY <2>1, PsFields
  <2>3. /\ next.array = walk.array /\ next.topic = walk.topic /\ next.spent = walk.spent
        /\ next.called = walk.called /\ next.seen = walk.seen /\ next.start = walk.start
    BY <2>1, <2>2 DEF PsFrames
  <2>4. next \in PsFrames /\ Walked(next, ps_array'[walk.array])
    <3>1. CASE walk.array = a
      <4>1. next = [walk EXCEPT !.cut = @ + 1]
        BY <2>1, <3>1
      <4>2. next \in PsFrames /\ Walked(next, rest)
        BY <1>5, <1>6, <2>2, <3>1, <4>1, WalkedWithout
      <4> QED
        BY <1>7, <3>1, <4>2
    <3>2. CASE walk.array # a
      BY <1>7, <2>1, <2>2, <3>2
    <3> QED
      BY <3>1, <3>2
  <2>5. WalkHolds(walk)'
    <3>1. /\ ps_once \subseteq ps_once' /\ ps_removed \subseteq ps_removed'
          /\ \A x \in PsSubs : ps_calls[x] > 0 => ps_calls'[x] > 0
          /\ ps_arrays \in Nat /\ ps_arrays' \in Nat /\ ps_arrays <= ps_arrays'
          /\ ps_counter \in Nat /\ ps_counter' \in Nat /\ ps_counter <= ps_counter'
      BY <1>3, PsFields
    <3>2. Range(ps_array[walk.array]) \subseteq Range(ps_array'[walk.array]) \cup ps_removed'
      BY <1>3, <1>6, <1>7, <2>2
    <3> QED
      BY <2>2, <3>1, <3>2, WalkStays
  <2>6. WalkHolds(next)'
    BY <2>3, <2>5 DEF WalkHolds
  <2> QED
    BY <2>1, <2>3, <2>4, <2>6
<1>12. /\ ps_walks' \in Seq(PsFrames) /\ Len(ps_walks') = Len(ps_walks)
       /\ DOMAIN ps_walks' = DOMAIN ps_walks
  <2>1. /\ DOMAIN ps_walks' = 1 .. Len(ps_walks) /\ Len(ps_walks) \in Nat
        /\ DOMAIN ps_walks = 1 .. Len(ps_walks)
    BY <1>3, PsFields
  <2>2. ps_walks' \in [1 .. Len(ps_walks) -> PsFrames]
    BY <1>3, <1>11, <2>1
  <2>3. ps_walks' \in Seq(PsFrames)
    BY <2>1, <2>2
  <2> QED
    BY <2>1, <2>3
<1>13. PsTyped'
  <2>1. ps_topics' \in [PsTopics -> 0 .. ps_arrays]
    BY <1>3, PsFields DEF PsGone
  <2>2. ps_array' \in [PsArrays -> Seq(PsSubs)]
    BY <1>3, <1>6, PsFields
  <2>3. ps_removed' \subseteq 1 .. ps_counter
    BY <1>3, <1>5 DEF PsIInv, PsTyped
  <2> QED
    BY <1>3, <1>12, <2>1, <2>2, <2>3 DEF PsIInv, PsTyped
<1>14. \A b \in 1 .. ps_arrays :
         /\ ps_array'[b] = IF b = a THEN rest ELSE ps_array[b]
         /\ Range(ps_array'[b]) \subseteq Range(ps_array[b])
  <2>1. \A b \in 1 .. ps_arrays : b \in PsArrays
    BY PsFields
  <2> QED
    BY <1>6, <1>7, <2>1
<1>15. ArraysHold'
  BY <1>3, <1>6, <1>14, PsFields DEF ArraysHold
<1>16. Owned(own)'
  <2>1. ASSUME NEW u \in PsTopics, ps_topics'[u] # 0 PROVE own[ps_topics'[u]] = u
    BY <1>4, <1>8, <2>1 DEF Owned
  <2>2. \A i \in DOMAIN ps_walks' : own[ps_walks'[i].array] = ps_walks'[i].topic
    BY <1>4, <1>11, <1>12 DEF Owned
  <2>3. \A b, c \in 1 .. ps_arrays :
          own[b] # own[c] => Range(ps_array'[b]) \cap Range(ps_array'[c]) = {}
    BY <1>4, <1>14 DEF Owned
  <2> QED
    BY <1>3, <2>1, <2>2, <2>3 DEF Owned
<1>17. Listed'
  <2>1. ASSUME NEW u \in PsTopics, ps_topics'[u] # 0 PROVE ps_array'[ps_topics'[u]] # << >>
    <3>1. CASE u = t
      BY <1>3, <1>7, <1>8, <2>1, <3>1
    <3>2. CASE u # t
      <4>1. /\ ps_topics'[u] = ps_topics[u] /\ ps_topics[u] # a /\ ps_topics[u] # 0
            /\ ps_topics[u] \in PsArrays
        BY <1>8, <1>9, <2>1, <3>2, PsFields
      <4> QED
        BY <1>7, <4>1 DEF PsIInv, Listed
    <3> QED
      BY <3>1, <3>2
  <2> QED
    BY <2>1 DEF Listed
<1>18. RegistryKept'
  <2>1. \A x : IsHeld(x)' <=> IsHeld(x) /\ x # s
    BY <1>10 DEF IsHeld
  <2>2. \A x : PsInUse(x)' <=> PsInUse(x)
    BY <1>11, <1>12 DEF PsInUse
  <2> QED
    BY <1>3, <2>1, <2>2 DEF PsIInv, RegistryKept
<1> QED
  BY <1>11, <1>12, <1>13, <1>15, <1>16, <1>17, <1>18 DEF PsIInv

(* Topics are no longer listed.                                            *)
LEMMA UnsubscribeAllInvariant ==
  ASSUME PsIInv, NEW topics \in SUBSET PsTopics, PsUnsubscribeAll(topics)
  PROVE  PsIInv'
<1>1. /\ ps_topics' = [t \in PsTopics |-> IF t \in topics THEN 0 ELSE ps_topics[t]]
      /\ ps_removed' = ps_removed \cup UNION {PsHeld(t) : t \in topics}
      /\ UNCHANGED <<ps_array, ps_arrays, ps_counter, ps_once, ps_walks, ps_published,
                     ps_calls, ps_replaced>>
  BY DEF PsUnsubscribeAll
<1>2. PICK own : Owned(own)
  BY DEF PsIInv
<1>3. \A t \in PsTopics : PsHeld(t) \subseteq 1 .. ps_counter
  BY PsFields DEF PsHeld
<1>4. PsTyped'
  <2>1. ps_topics' \in [PsTopics -> 0 .. ps_arrays]
    <3>1. \A t \in PsTopics : ps_topics[t] \in 0 .. ps_arrays /\ 0 \in 0 .. ps_arrays
      BY PsFields
    <3> QED
      BY <1>1, <3>1
  <2>2. ps_removed' \subseteq 1 .. ps_counter
    BY <1>1, <1>3 DEF PsIInv, PsTyped
  <2> QED
    BY <1>1, <2>1, <2>2 DEF PsIInv, PsTyped
<1>5. ArraysHold' /\ Listed'
  BY <1>1 DEF PsIInv, ArraysHold, Listed
<1>6. Owned(own)'
  BY <1>1, <1>2 DEF Owned
<1>7. ASSUME NEW i \in DOMAIN ps_walks
      PROVE  (WalkHolds(ps_walks[i]) /\ Walked(ps_walks[i], ps_array[ps_walks[i].array]))'
  <2>1. PICK walk : walk = ps_walks[i] /\ walk = ps_walks'[i]
    BY <1>1
  <2>2. WalkHolds(walk) /\ Walked(walk, ps_array[walk.array])
    BY <2>1, PsFields
  <2>3. WalkHolds(walk)' /\ Walked(walk, ps_array'[walk.array])
    BY <1>1, <2>2 DEF WalkHolds
  <2> QED
    BY <2>1, <2>3
<1>8. RegistryKept'
  <2>1. \A x : IsHeld(x)' <=> IsHeld(x) /\ x \notin UNION {PsHeld(t) : t \in topics}
    <3>1. \A u \in PsTopics : PsHeld(u)' = IF u \in topics THEN {} ELSE PsHeld(u)
      BY <1>1 DEF PsHeld
    <3>2. \A u \in PsTopics, t \in topics : u \notin topics => PsHeld(u) \cap PsHeld(t) = {}
      BY <1>2, HeldApart
    <3> QED
      BY <3>1, <3>2 DEF IsHeld
  <2>2. \A x : PsInUse(x)' <=> PsInUse(x)
    BY <1>1 DEF PsInUse
  <2> QED
    BY <1>1, <2>1, <2>2 DEF PsIInv, RegistryKept
<1> QED
  BY <1>1, <1>4, <1>5, <1>6, <1>7, <1>8 DEF PsIInv

(* A publish begins.                                                       *)
LEMMA PublishInvariant ==
  ASSUME PsIInv, NEW t \in PsTopics, PsPublish(t)
  PROVE  PsIInv'
<1>1. PICK walk :
        /\ walk = [topic |-> t, array |-> ps_topics[t], at |-> 1, called |-> 0, count |-> 0,
                   spent |-> {}, start |-> PsHeld(t), seen |-> << >>, cut |-> 0]
        /\ ps_walks' = <<walk>> \o ps_walks
        /\ ps_topics[t] # 0 /\ ps_published < PsMaxPublish /\ ps_published' = ps_published + 1
        /\ UNCHANGED <<ps_topics, ps_array, ps_arrays, ps_counter, ps_once, ps_removed,
                       ps_calls, ps_replaced>>
  BY DEF PsPublish
<1>2. PICK own : Owned(own)
  BY DEF PsIInv
<1>3. /\ ps_topics[t] \in 1 .. ps_arrays /\ own[ps_topics[t]] = t
      /\ PsHeld(t) = Range(ps_array[ps_topics[t]]) /\ PsHeld(t) \subseteq 1 .. ps_counter
  BY <1>1, <1>2, PsFields DEF Owned, PsHeld
<1>4. walk \in PsFrames
  <2>1. PICK a, start : a = ps_topics[t] /\ start = PsHeld(t)
    OBVIOUS
  <2>2. a \in Nat /\ start \in SUBSET PsSubs /\ 0 \in 0 .. PsLastSub
    BY <1>3, <2>1, PsFields DEF PsSubs
  <2>3. walk = [topic |-> t, array |-> a, at |-> 1, called |-> 0, count |-> 0,
                spent |-> {}, start |-> start, seen |-> << >>, cut |-> 0]
    BY <1>1, <2>1
  <2>4. << >> \in Seq(PsSubs)
    OBVIOUS
  <2> QED
    BY <2>2, <2>3, <2>4 DEF PsFrames
<1>5. /\ walk.topic = t /\ walk.array = ps_topics[t] /\ walk.at = 1 /\ walk.called = 0
      /\ walk.count = 0 /\ walk.spent = {} /\ walk.start = PsHeld(t) /\ walk.seen = << >>
      /\ walk.cut = 0
  BY <1>1
<1>6. Range(walk.seen) = {} /\ IsInjective(walk.seen) /\ Len(walk.seen) = 0
  BY <1>5 DEF Range, IsInjective
<1>7. WalkHolds(walk)'
  BY <1>1, <1>3, <1>5, <1>6 DEF WalkHolds
<1>8. Walked(walk, ps_array[walk.array])
  <2>1. Past(walk) = 1
    BY <1>5 DEF Past
  <2>2. DOMAIN ps_array[walk.array] \subseteq Nat \ {0}
    <3>1. ps_array[walk.array] \in Seq(PsSubs)
      BY <1>3, <1>5, PsFields
    <3> QED
      BY <3>1
  <2>3. PassedOver(walk, ps_array[walk.array]) = {}
    BY <2>1, <2>2 DEF PassedOver
  <2>4. Cardinality(PassedOver(walk, ps_array[walk.array])) = 0
    BY <2>3, FS_EmptySet
  <2> QED
    BY <1>5, <1>6, <2>4 DEF Walked
<1>9. /\ ps_walks' \in Seq(PsFrames) /\ Len(ps_walks') = Len(ps_walks) + 1
      /\ DOMAIN ps_walks' = 1 .. Len(ps_walks) + 1 /\ ps_walks'[1] = walk
      /\ \A i \in DOMAIN ps_walks : ps_walks'[i + 1] = ps_walks[i]
  <2>1. ps_walks \in Seq(PsFrames)
    BY PsFields
  <2> QED
    BY <1>1, <1>4, <2>1
<1>10. \A i \in DOMAIN ps_walks' :
         i = 1 \/ \E k \in DOMAIN ps_walks : i = k + 1 /\ ps_walks'[i] = ps_walks[k]
  <2> SUFFICES ASSUME NEW i \in DOMAIN ps_walks', i # 1
               PROVE  \E k \in DOMAIN ps_walks : i = k + 1 /\ ps_walks'[i] = ps_walks[k]
    OBVIOUS
  <2>1. i - 1 \in DOMAIN ps_walks /\ i = (i - 1) + 1
    BY <1>9, PsFields
  <2> QED
    BY <1>9, <2>1
<1>11. PsTyped'
  <2>1. ps_published' \in 0 .. PsMaxPublish
    BY <1>1, PsFields
  <2>2. ps_arrays + Len(ps_walks') <= ps_counter + ps_published'
    BY <1>1, <1>9, PsFields
  <2> QED
    BY <1>1, <1>9, <2>1, <2>2 DEF PsIInv, PsTyped
<1>12. ArraysHold' /\ Listed'
  BY <1>1 DEF PsIInv, ArraysHold, Listed
<1>13. Owned(own)'
  <2>1. \A i \in DOMAIN ps_walks' : own[ps_walks'[i].array] = ps_walks'[i].topic
    BY <1>2, <1>3, <1>5, <1>9, <1>10 DEF Owned
  <2> QED
    BY <1>1, <1>2, <2>1 DEF Owned
<1>14. ASSUME NEW i \in DOMAIN ps_walks'
       PROVE  (WalkHolds(ps_walks[i]) /\ Walked(ps_walks[i], ps_array[ps_walks[i].array]))'
  <2>1. CASE i = 1
    BY <1>1, <1>7, <1>8, <1>9, <2>1 DEF WalkHolds
  <2>2. ASSUME NEW k \in DOMAIN ps_walks, ps_walks'[i] = ps_walks[k]
        PROVE  (WalkHolds(ps_walks[i]) /\ Walked(ps_walks[i], ps_array[ps_walks[i].array]))'
    <3>1. WalkHolds(ps_walks[k]) /\ Walked(ps_walks[k], ps_array[ps_walks[k].array])
      BY PsFields
    <3> QED
      BY <1>1, <2>2, <3>1 DEF WalkHolds
  <2> QED
    BY <1>10, <2>1, <2>2
<1>15. RegistryKept'
  <2>1. \A x : IsHeld(x)' <=> IsHeld(x)
    BY <1>1 DEF IsHeld, PsHeld
  <2>2. ASSUME NEW x \in 1 .. ps_counter PROVE PsInUse(x)' <=> PsInUse(x)
    <3>1. x \notin walk.spent \cup {walk.called}
      BY <1>5
    <3>2. \A i \in DOMAIN ps_walks : i + 1 \in DOMAIN ps_walks'
      BY <1>9, PsFields
    <3> QED
      BY <1>9, <1>10, <3>1, <3>2 DEF PsInUse
  <2> QED
    BY <1>1, <2>1, <2>2 DEF PsIInv, RegistryKept
<1> QED
  BY <1>11, <1>12, <1>13, <1>14, <1>15 DEF PsIInv

(* The publish that runs goes on, and the others stay: what is left to show *)
(* when only its record changes, with the calls.                            *)
LEMMA FrontWalk ==
  ASSUME PsIInv, ps_walks # << >>, NEW next \in PsFrames,
         ps_walks' = [ps_walks EXCEPT ![1] = next],
         next.topic = ps_walks[1].topic, next.array = ps_walks[1].array,
         WalkHolds(next)', Walked(next, ps_array[next.array]),
         ps_calls' \in [PsSubs -> Nat],
         \A s \in PsSubs : ps_calls[s] > 0 => ps_calls'[s] > 0,
         \A s \in PsSubs : ps_calls'[s] > 0 => s <= ps_counter,
         UNCHANGED <<ps_topics, ps_array, ps_arrays, ps_counter, ps_once, ps_published,
                     ps_removed, ps_replaced>>,
         RegistryKept'
  PROVE  PsIInv'
<1>1. /\ 1 \in DOMAIN ps_walks /\ ps_walks' \in Seq(PsFrames)
      /\ DOMAIN ps_walks' = DOMAIN ps_walks /\ Len(ps_walks') = Len(ps_walks)
      /\ ps_walks'[1] = next /\ \A i \in DOMAIN ps_walks : i # 1 => ps_walks'[i] = ps_walks[i]
  <2>1. ps_walks \in Seq(PsFrames)
    BY PsFields
  <2>2. 1 \in 1 .. Len(ps_walks) /\ DOMAIN ps_walks = 1 .. Len(ps_walks)
    BY <2>1
  <2>3. /\ ps_walks' \in Seq(PsFrames) /\ Len(ps_walks') = Len(ps_walks)
        /\ \A i \in 1 .. Len(ps_walks) : ps_walks'[i] = IF i = 1 THEN next ELSE ps_walks[i]
    BY <2>1, <2>2, ExceptSeq
  <2>4. DOMAIN ps_walks' = 1 .. Len(ps_walks)
    BY <2>3
  <2> QED
    BY <2>2, <2>3, <2>4
<1>2. PsTyped'
  BY <1>1 DEF PsIInv, PsTyped
<1>3. ArraysHold' /\ Listed'
  BY DEF PsIInv, ArraysHold, Listed
<1>4. PICK own : Owned(own)
  BY DEF PsIInv
<1>5. Owned(own)'
  <2>1. \A i \in DOMAIN ps_walks' : own[ps_walks'[i].array] = ps_walks'[i].topic
    BY <1>1, <1>4 DEF Owned
  <2> QED
    BY <1>4, <2>1 DEF Owned
<1>6. ASSUME NEW i \in DOMAIN ps_walks'
      PROVE  (WalkHolds(ps_walks[i]) /\ Walked(ps_walks[i], ps_array[ps_walks[i].array]))'
  <2>1. CASE i = 1
    BY <1>1, <2>1 DEF WalkHolds
  <2>2. CASE i # 1
    <3>1. PICK walk : walk = ps_walks[i] /\ walk = ps_walks'[i]
      BY <1>1, <2>2
    <3>2. walk \in PsFrames /\ WalkHolds(walk) /\ Walked(walk, ps_array[walk.array])
      BY <1>1, <3>1, PsFields
    <3>3. WalkHolds(walk)'
      <4>1. /\ ps_once \subseteq ps_once' /\ ps_removed \subseteq ps_removed'
            /\ ps_arrays \in Nat /\ ps_arrays' \in Nat /\ ps_arrays <= ps_arrays'
            /\ ps_counter \in Nat /\ ps_counter' \in Nat /\ ps_counter <= ps_counter'
            /\ Range(ps_array[walk.array]) \subseteq Range(ps_array'[walk.array]) \cup ps_removed'
        BY PsFields
      <4> QED
        BY <3>2, <4>1, WalkStays
    <3>4. Walked(walk, ps_array'[walk.array])
      BY <3>2
    <3> QED
      BY <3>1, <3>3, <3>4
  <2> QED
    BY <2>1, <2>2
<1> QED
  BY <1>2, <1>3, <1>5, <1>6 DEF PsIInv

(* The publish that runs.                                                  *)
LEMMA FrontIs ==
  ASSUME PsIInv, ps_walks # << >>
  PROVE  /\ 1 \in DOMAIN ps_walks /\ PsWalk = ps_walks[1] /\ PsWalk \in PsFrames
         /\ PsWalk.array \in 1 .. ps_arrays
         /\ ps_array[PsWalk.array] \in Seq(PsSubs) /\ IsInjective(ps_array[PsWalk.array])
         /\ WalkHolds(PsWalk) /\ Walked(PsWalk, ps_array[PsWalk.array])
<1>1. 1 \in DOMAIN ps_walks
  <2>1. ps_walks \in Seq(PsFrames)
    BY PsFields
  <2> QED
    BY <2>1
<1> QED
  BY <1>1, PsFields DEF PsWalk

LEMMA CallInvariant ==
  ASSUME PsIInv, PsCall
  PROVE  PsIInv'
<1>1. ps_walks # << >> /\ PsWalk.called = 0 /\ PsWalk.at <= Len(ps_array[PsWalk.array])
  BY DEF PsCall, PsWalking, PsCalling, PsMore
<1>2. PICK walk, array :
        /\ walk = PsWalk /\ array = ps_array[PsWalk.array] /\ 1 \in DOMAIN ps_walks
        /\ walk = ps_walks[1] /\ walk \in PsFrames /\ walk.array \in 1 .. ps_arrays
        /\ array = ps_array[walk.array] /\ array \in Seq(PsSubs) /\ IsInjective(array)
        /\ WalkHolds(walk) /\ Walked(walk, array) /\ walk.called = 0
  BY <1>1, FrontIs
<1>3. walk.at \in DOMAIN array
  BY <1>1, <1>2 DEF PsFrames
<1>4. PICK s : s = array[walk.at]
  OBVIOUS
<1>5. s \in Range(array) /\ s \in 1 .. ps_counter /\ s \in PsSubs
  <2>1. s \in Range(array)
    BY <1>3, <1>4 DEF Range
  <2>2. s \in 1 .. ps_counter
    BY <1>2, <2>1, PsFields
  <2> QED
    BY <2>1, <2>2, PsFields DEF PsSubs
<1>6. PICK next : next = [walk EXCEPT !.called = s, !.seen = Append(walk.seen, s)]
  OBVIOUS
<1>7. /\ next \in PsFrames /\ Walked(next, array)
      /\ Range(next.seen) = Range(walk.seen) \cup {s}
  BY <1>2, <1>3, <1>4, <1>6, WalkedCall
<1>8. /\ next.topic = walk.topic /\ next.array = walk.array /\ next.called = s
      /\ next.spent = walk.spent /\ next.start = walk.start
  BY <1>2, <1>6 DEF PsFrames
<1>9. /\ ps_walks' = [ps_walks EXCEPT ![1] = next]
      /\ ps_calls' = [ps_calls EXCEPT ![s] = @ + 1]
      /\ UNCHANGED <<ps_topics, ps_array, ps_arrays, ps_counter, ps_once, ps_published,
                     ps_removed, ps_replaced>>
  <2>1. /\ ps_walks' = [ps_walks EXCEPT ![1].called = s, ![1].seen = Append(@, s)]
        /\ ps_calls' = [ps_calls EXCEPT ![s] = @ + 1]
    BY <1>2, <1>4 DEF PsCall
  <2>2. [ps_walks EXCEPT ![1].called = s, ![1].seen = Append(@, s)] =
        [ps_walks EXCEPT ![1] = [ps_walks[1] EXCEPT !.called = s,
                                                    !.seen = Append(ps_walks[1].seen, s)]]
    <3>1. ps_walks[1] \in PsFrames /\ 1 \in DOMAIN ps_walks
      BY <1>2
    <3>2. [ps_walks EXCEPT ![1].called = s][1].seen = ps_walks[1].seen
      BY <3>1 DEF PsFrames
    <3> QED
      BY <3>1, <3>2
  <2> QED
    BY <1>2, <1>6, <2>1, <2>2 DEF PsCall
<1>10. \A x \in PsSubs : ps_calls'[x] = IF x = s THEN ps_calls[x] + 1 ELSE ps_calls[x]
  BY <1>5, <1>9, PsFields
<1>11. ps_calls' \in [PsSubs -> Nat]
  BY <1>5, <1>9, PsFields
<1>12. /\ \A x \in PsSubs : ps_calls[x] > 0 => ps_calls'[x] > 0
       /\ \A x \in PsSubs : ps_calls'[x] > 0 => x <= ps_counter
       /\ ps_calls'[s] > 0
  <2>1. \A x \in PsSubs : ps_calls[x] \in Nat
    BY PsFields
  <2>2. \A x \in PsSubs : ps_calls[x] > 0 => x <= ps_counter
    BY DEF PsIInv, PsTyped
  <2> QED
    BY <1>5, <1>10, <2>1, <2>2
<1>13. WalkHolds(next)'
  <2>1. \A x \in Range(next.seen) : ps_calls'[x] > 0
    <3>1. Range(walk.seen) \subseteq PsSubs
      BY <1>2 DEF PsFrames, Range
    <3> QED
      BY <1>2, <1>7, <1>12, <3>1 DEF WalkHolds
  <2> QED
    BY <1>2, <1>5, <1>7, <1>8, <1>9, <2>1 DEF WalkHolds
<1>14. RegistryKept'
  <2>1. \A x : IsHeld(x)' <=> IsHeld(x)
    BY <1>9 DEF IsHeld, PsHeld
  <2>2. DOMAIN ps_walks' = DOMAIN ps_walks /\ ps_walks'[1] = next
        /\ \A i \in DOMAIN ps_walks : i # 1 => ps_walks'[i] = ps_walks[i]
    BY <1>2, <1>9
  <2>3. PsInUse(s)'
    BY <1>2, <1>8, <2>2 DEF PsInUse
  <2>4. ASSUME NEW x \in 1 .. ps_counter, PsInUse(x) PROVE PsInUse(x)'
    <3>1. PICK i \in DOMAIN ps_walks : x \in ps_walks[i].spent \cup {ps_walks[i].called}
      BY <2>4 DEF PsInUse
    <3>2. CASE i = 1
      BY <1>2, <1>8, <2>2, <2>4, <3>1, <3>2 DEF PsInUse
    <3>3. CASE i # 1
      BY <2>2, <3>1, <3>3 DEF PsInUse
    <3> QED
      BY <3>2, <3>3
  <2> SUFFICES ASSUME ~ps_replaced, NEW x \in 1 .. ps_counter
               PROVE  /\ IsHeld(x)' => x \notin ps_removed
                      /\ x \notin ps_removed /\ (x \in ps_once => ps_calls'[x] = 0) => IsHeld(x)'
                      /\ x \in ps_once /\ ps_calls'[x] # 0 /\ ~PsInUse(x)' => ~IsHeld(x)'
    BY <1>9 DEF RegistryKept
  <2>5. x \in PsSubs
    BY PsFields DEF PsSubs
  <2>6. CASE x = s
    BY <1>12, <2>1, <2>3, <2>6 DEF PsIInv, RegistryKept
  <2>7. CASE x # s
    BY <1>10, <2>1, <2>4, <2>5, <2>7 DEF PsIInv, RegistryKept
  <2> QED
    BY <2>6, <2>7
<1> QED
  BY <1>1, <1>2, <1>7, <1>8, <1>9, <1>11, <1>12, <1>13, <1>14, FrontWalk

LEMMA ReturnInvariant ==
  ASSUME PsIInv, NEW returned \in BOOLEAN, PsReturn(returned)
  PROVE  PsIInv'
<1>1. ps_walks # << >> /\ PsWalk.called # 0
  BY DEF PsReturn, PsWalking, PsCalling
<1>2. PICK walk, array :
        /\ walk = PsWalk /\ array = ps_array[PsWalk.array] /\ 1 \in DOMAIN ps_walks
        /\ walk = ps_walks[1] /\ walk \in PsFrames /\ walk.array \in 1 .. ps_arrays
        /\ array = ps_array[walk.array]
        /\ WalkHolds(walk) /\ Walked(walk, array) /\ walk.called # 0
  BY <1>1, FrontIs
<1>3. PICK count, at, spent, once :
        /\ count = IF returned THEN walk.count + 1 ELSE walk.count
        /\ at = walk.at + 1 /\ once = ps_once
        /\ spent = walk.spent \cup ({walk.called} \cap once)
  OBVIOUS
<1>4. PICK next :
        next = [walk EXCEPT !.called = 0, !.at = walk.at + 1, !.count = count,
                            !.spent = walk.spent \cup ({walk.called} \cap once)]
  OBVIOUS
<1>5. next \in PsFrames /\ Walked(next, array)
  <2>1. count = walk.count \/ count = walk.count + 1
    BY <1>3
  <2> QED
    BY <1>2, <1>4, <2>1, WalkedReturn
<1>6. /\ next.topic = walk.topic /\ next.array = walk.array /\ next.called = 0
      /\ next.spent = spent /\ next.start = walk.start /\ next.seen = walk.seen
  BY <1>2, <1>3, <1>4 DEF PsFrames
<1>7. /\ ps_walks' = [ps_walks EXCEPT ![1] = next]
      /\ UNCHANGED <<ps_topics, ps_array, ps_arrays, ps_counter, ps_once, ps_published,
                     ps_removed, ps_calls, ps_replaced>>
  <2>1. ps_walks' = [ps_walks EXCEPT ![1].called = 0, ![1].at = at,
                       ![1].count = IF returned THEN @ + 1 ELSE @, ![1].spent = spent]
    BY <1>2, <1>3 DEF PsReturn, PsForward, PsSpent
  <2>2. [ps_walks EXCEPT ![1].called = 0, ![1].at = at,
           ![1].count = IF returned THEN @ + 1 ELSE @, ![1].spent = spent] =
        [ps_walks EXCEPT ![1] = [walk EXCEPT !.called = 0, !.at = at, !.count = count,
                                             !.spent = spent]]
    <3>1. ps_walks[1] = walk /\ 1 \in DOMAIN ps_walks /\ walk \in PsFrames
      BY <1>2
    <3>2. [ps_walks EXCEPT ![1].called = 0, ![1].at = at][1].count = walk.count
      BY <3>1 DEF PsFrames
    <3> QED
      BY <1>3, <3>1, <3>2
  <2>3. next = [walk EXCEPT !.called = 0, !.at = at, !.count = count, !.spent = spent]
    BY <1>3, <1>4
  <2> QED
    BY <2>1, <2>2, <2>3 DEF PsReturn
<1>8. WalkHolds(next)'
  <2>1. spent \subseteq ps_once
    BY <1>2, <1>3 DEF WalkHolds
  <2> QED
    BY <1>2, <1>6, <1>7, <2>1 DEF WalkHolds
<1>9. RegistryKept'
  <2>1. \A x : IsHeld(x)' <=> IsHeld(x)
    BY <1>7 DEF IsHeld, PsHeld
  <2>2. DOMAIN ps_walks' = DOMAIN ps_walks /\ ps_walks'[1] = next
        /\ \A i \in DOMAIN ps_walks : i # 1 => ps_walks'[i] = ps_walks[i]
    BY <1>2, <1>7
  <2>3. ASSUME NEW x \in ps_once, PsInUse(x) PROVE PsInUse(x)'
    <3>1. PICK i \in DOMAIN ps_walks : x \in ps_walks[i].spent \cup {ps_walks[i].called}
      BY <2>3 DEF PsInUse
    <3>2. CASE i = 1
      BY <1>2, <1>3, <1>6, <2>2, <2>3, <3>1, <3>2 DEF PsInUse
    <3>3. CASE i # 1
      BY <2>2, <3>1, <3>3 DEF PsInUse
    <3> QED
      BY <3>2, <3>3
  <2> QED
    BY <1>7, <2>1, <2>3 DEF PsIInv, RegistryKept
<1>10. /\ ps_calls' \in [PsSubs -> Nat]
       /\ \A x \in PsSubs : ps_calls[x] > 0 => ps_calls'[x] > 0
       /\ \A x \in PsSubs : ps_calls'[x] > 0 => x <= ps_counter
  BY <1>7 DEF PsIInv, PsTyped
<1> QED
  BY <1>1, <1>2, <1>5, <1>6, <1>7, <1>8, <1>9, <1>10, FrontWalk

(* A publish ends: the topic keeps what it held, less those spent; or what   *)
(* its array kept takes the place of another array, and is noted.          *)
LEMMA EndPublishInvariant ==
  ASSUME PsIInv, PsEnd
  PROVE  PsIInv'
<1>1. ps_walks # << >> /\ PsWalk.called = 0
  BY DEF PsEnd, PsWalking, PsCalling
<1>2. PICK walk, array, t, a, b :
        /\ walk = PsWalk /\ array = ps_array[PsWalk.array] /\ 1 \in DOMAIN ps_walks
        /\ walk = ps_walks[1] /\ walk \in PsFrames /\ walk.array \in 1 .. ps_arrays
        /\ array = ps_array[walk.array] /\ array \in Seq(PsSubs) /\ IsInjective(array)
        /\ WalkHolds(walk) /\ Walked(walk, array) /\ walk.called = 0
        /\ t = walk.topic /\ t \in PsTopics /\ a = walk.array /\ b = ps_arrays + 1
  <2>1. PsWalk.topic \in PsTopics
    BY <1>1, FrontIs DEF PsFrames
  <2> QED
    BY <1>1, <2>1, FrontIs
<1>3. PICK q : /\ q = PsRemaining /\ q \in Seq(PsSubs) /\ IsInjective(q)
               /\ Range(q) = Range(array) \ walk.spent
  <2>1. PICK kept : kept = PsSubs \ walk.spent
    OBVIOUS
  <2>2. PICK q : q = Selected(array, kept)
    OBVIOUS
  <2>3. q \in Seq(PsSubs) /\ IsInjective(q) /\ Range(q) = Range(array) \cap kept
    BY <1>2, <2>2, RemainingAre
  <2>4. Range(array) \subseteq PsSubs
    BY <1>2 DEF Range
  <2>5. q = PsRemaining
    BY <1>2, <2>1, <2>2 DEF PsRemaining
  <2> QED
    BY <2>1, <2>3, <2>4, <2>5
<1>4. /\ ps_walks' = Tail(ps_walks)
      /\ ps_replaced' = (ps_replaced \/ (walk.spent # {} /\ ps_topics[t] # a))
      /\ UNCHANGED <<ps_counter, ps_once, ps_published, ps_removed, ps_calls>>
  BY <1>2 DEF PsEnd
<1>5. \/ /\ walk.spent = {}
         /\ UNCHANGED <<ps_topics, ps_array, ps_arrays>>
      \/ /\ walk.spent # {} /\ q = << >>
         /\ ps_topics' = [ps_topics EXCEPT ![t] = 0]
         /\ UNCHANGED <<ps_array, ps_arrays>>
      \/ /\ walk.spent # {} /\ q # << >>
         /\ ps_arrays' = b
         /\ ps_array' = [ps_array EXCEPT ![b] = q]
         /\ ps_topics' = [ps_topics EXCEPT ![t] = b]
  BY <1>2, <1>3 DEF PsEnd, PsGone
<1>6. /\ ps_walks' \in Seq(PsFrames) /\ Len(ps_walks') = Len(ps_walks) - 1
      /\ Len(ps_walks) \in Nat /\ Len(ps_walks) >= 1
      /\ \A i \in DOMAIN ps_walks' : i + 1 \in DOMAIN ps_walks /\ ps_walks'[i] = ps_walks[i + 1]
      /\ \A i \in DOMAIN ps_walks : i # 1 =>
           \E k \in DOMAIN ps_walks' : ps_walks'[k] = ps_walks[i]
  <2>1. ps_walks \in Seq(PsFrames)
    BY PsFields
  <2>2. /\ ps_walks' \in Seq(PsFrames) /\ Len(ps_walks') = Len(ps_walks) - 1
        /\ Len(ps_walks) \in Nat /\ Len(ps_walks) >= 1
        /\ DOMAIN ps_walks' = 1 .. Len(ps_walks) - 1 /\ DOMAIN ps_walks = 1 .. Len(ps_walks)
        /\ \A i \in 1 .. Len(ps_walks) - 1 : ps_walks'[i] = ps_walks[i + 1]
    BY <1>1, <1>4, <2>1
  <2>3. ASSUME NEW i \in DOMAIN ps_walks, i # 1
        PROVE  \E k \in DOMAIN ps_walks' : ps_walks'[k] = ps_walks[i]
    <3>1. i - 1 \in DOMAIN ps_walks' /\ (i - 1) + 1 = i
      BY <2>2, <2>3
    <3> QED
      BY <2>2, <3>1
  <2> QED
    BY <2>2, <2>3
<1>7. PICK own : Owned(own)
  BY DEF PsIInv
<1>8. /\ ps_arrays \in Nat /\ b \notin 1 .. ps_arrays /\ b \in PsArrays
      /\ 1 .. b = (1 .. ps_arrays) \cup {b} /\ b \in Nat /\ ps_arrays <= b
      /\ 1 .. ps_arrays \subseteq PsArrays /\ b # 0
  <2>1. /\ ps_arrays \in Nat /\ ps_published \in Nat /\ ps_counter \in Nat
        /\ ps_published <= PsMaxPublish /\ PsMaxPublish \in Nat /\ PsLastSub \in Nat
        /\ ps_counter <= PsLastSub /\ ps_arrays + Len(ps_walks) <= ps_counter + ps_published
    BY PsFields
  <2>2. ps_arrays + 1 <= PsLastSub + PsMaxPublish
    BY <1>6, <2>1
  <2> QED
    BY <1>2, <2>1, <2>2 DEF PsArrays
<1>9. /\ ps_arrays' \in {ps_arrays, b} /\ ps_arrays <= ps_arrays' /\ ps_arrays' \in Nat
      /\ \A c \in 1 .. ps_arrays : c \in 1 .. ps_arrays' /\ ps_array'[c] = ps_array[c]
      /\ \A c \in 1 .. ps_arrays' : c \in 1 .. ps_arrays \/
           (c = b /\ ps_arrays' = b /\ ps_array'[b] = q /\ q # << >>)
      /\ ps_topics[t] \in 0 .. ps_arrays
      /\ \A u \in PsTopics : u # t => ps_topics'[u] = ps_topics[u]
      /\ ps_topics'[t] \in {0, ps_topics[t], b} /\ (ps_topics'[t] = b => ps_arrays' = b)
  <2>1. /\ ps_array \in [PsArrays -> Seq(PsSubs)] /\ ps_topics \in [PsTopics -> 0 .. ps_arrays]
        /\ t \in PsTopics
    BY <1>2, PsFields
  <2>2. ps_topics[t] \in 0 .. ps_arrays /\ ps_topics[t] # b
    BY <1>8, <2>1
  <2>3. CASE UNCHANGED <<ps_topics, ps_array, ps_arrays>>
    BY <1>8, <2>2, <2>3
  <2>4. CASE ps_topics' = [ps_topics EXCEPT ![t] = 0] /\ UNCHANGED <<ps_array, ps_arrays>>
    BY <1>8, <2>1, <2>2, <2>4
  <2>5. CASE /\ ps_arrays' = b /\ ps_array' = [ps_array EXCEPT ![b] = q] /\ q # << >>
             /\ ps_topics' = [ps_topics EXCEPT ![t] = b]
    <3>1. \A c \in 1 .. ps_arrays : c # b /\ c \in PsArrays
      BY <1>8
    <3> QED
      BY <1>8, <2>1, <2>2, <2>5, <3>1
  <2> QED
    BY <1>5, <2>3, <2>4, <2>5
<1>10. PsTyped'
  <2>1. ps_topics' \in [PsTopics -> 0 .. ps_arrays']
    <3>1. /\ ps_topics \in [PsTopics -> 0 .. ps_arrays]
          /\ \A u \in PsTopics : ps_topics[u] \in 0 .. b
          /\ b \in 0 .. b /\ 0 \in 0 .. ps_arrays
      BY <1>8, PsFields
    <3> QED
      BY <1>5, <3>1
  <2>2. ps_array' \in [PsArrays -> Seq(PsSubs)]
    BY <1>3, <1>5, PsFields
  <2>3. ps_arrays' + Len(ps_walks') <= ps_counter + ps_published
    <3>1. /\ ps_arrays + Len(ps_walks) <= ps_counter + ps_published
          /\ ps_counter \in Nat /\ ps_published \in Nat
      BY PsFields
    <3> QED
      BY <1>2, <1>6, <1>8, <1>9, <3>1
  <2>4. ps_replaced' \in BOOLEAN
    BY <1>4
  <2> QED
    BY <1>4, <1>6, <1>9, <2>1, <2>2, <2>3, <2>4 DEF PsIInv, PsTyped
<1>11. Range(array) \subseteq 1 .. ps_counter
  BY <1>2, PsFields
<1>12. ArraysHold'
  <2> SUFFICES ASSUME NEW c \in 1 .. ps_arrays'
               PROVE  IsInjective(ps_array'[c]) /\ Range(ps_array'[c]) \subseteq 1 .. ps_counter
    BY <1>4 DEF ArraysHold
  <2>1. CASE c \in 1 .. ps_arrays
    BY <1>9, <2>1, PsFields
  <2>2. CASE c = b /\ ps_array'[b] = q
    BY <1>3, <1>11, <2>2
  <2> QED
    BY <1>9, <2>1, <2>2
<1>13. PICK mine : mine[b] = t /\ \A c \in 1 .. ps_arrays : mine[c] = own[c]
  <2>1. PICK mine : mine = [c \in 1 .. b |-> IF c = b THEN t ELSE own[c]]
    OBVIOUS
  <2>2. b \in 1 .. b /\ \A c \in 1 .. ps_arrays : c \in 1 .. b /\ c # b
    BY <1>8
  <2> QED
    BY <2>1, <2>2
<1>14. own[a] = t /\ a \in 1 .. ps_arrays
  BY <1>2, <1>7 DEF Owned
<1>15. Owned(mine)'
  <2>1. ASSUME NEW u \in PsTopics, ps_topics'[u] # 0 PROVE mine[ps_topics'[u]] = u
    <3>1. CASE ps_topics'[u] = ps_topics[u]
      <4>1. ps_topics[u] \in 1 .. ps_arrays /\ own[ps_topics[u]] = u
        BY <1>7, <2>1, <3>1, PsFields DEF Owned
      <4> QED
        BY <1>13, <3>1, <4>1
    <3>2. CASE u = t /\ ps_topics'[t] = b
      BY <1>13, <3>2
    <3> QED
      BY <1>9, <2>1, <3>1, <3>2
  <2>2. ASSUME NEW i \in DOMAIN ps_walks'
        PROVE  mine[ps_walks'[i].array] = ps_walks'[i].topic
    <3>1. i + 1 \in DOMAIN ps_walks /\ ps_walks'[i] = ps_walks[i + 1]
      BY <1>6
    <3>2. /\ own[ps_walks[i + 1].array] = ps_walks[i + 1].topic
          /\ ps_walks[i + 1].array \in 1 .. ps_arrays
      BY <1>7, <3>1, PsFields DEF Owned
    <3> QED
      BY <1>13, <3>1, <3>2
  <2>3. ASSUME NEW c \in 1 .. ps_arrays, own[c] # t, ps_array'[b] = q
        PROVE  Range(ps_array'[c]) \cap Range(ps_array'[b]) = {}
    <3>1. Range(ps_array[c]) \cap Range(ps_array[a]) = {}
      BY <1>7, <1>14, <2>3 DEF Owned
    <3> QED
      BY <1>2, <1>3, <1>9, <2>3, <3>1
  <2>4. ASSUME NEW c \in 1 .. ps_arrays', NEW d \in 1 .. ps_arrays', mine[c] # mine[d]
        PROVE  Range(ps_array'[c]) \cap Range(ps_array'[d]) = {}
    <3>1. CASE c \in 1 .. ps_arrays /\ d \in 1 .. ps_arrays
      BY <1>7, <1>9, <1>13, <2>4, <3>1 DEF Owned
    <3>2. CASE c = b /\ ps_array'[b] = q /\ d \in 1 .. ps_arrays
      BY <1>13, <2>3, <2>4, <3>2
    <3>3. CASE d = b /\ ps_array'[b] = q /\ c \in 1 .. ps_arrays
      BY <1>13, <2>3, <2>4, <3>3
    <3> QED
      BY <1>9, <2>4, <3>1, <3>2, <3>3
  <2> QED
    BY <2>1, <2>2, <2>4 DEF Owned
<1>16. Listed'
  <2>1. ASSUME NEW u \in PsTopics, ps_topics'[u] # 0 PROVE ps_array'[ps_topics'[u]] # << >>
    <3>1. CASE ps_topics'[u] = ps_topics[u]
      <4>1. ps_topics[u] \in 1 .. ps_arrays /\ ps_array[ps_topics[u]] # << >>
        BY <2>1, <3>1, PsFields DEF PsIInv, Listed
      <4> QED
        BY <1>9, <3>1, <4>1
    <3>2. CASE u = t /\ ps_topics'[t] = b
      <4>1. b \in 1 .. ps_arrays'
        BY <1>8, <1>9, <3>2
      <4> QED
        BY <1>8, <1>9, <3>2, <4>1
    <3> QED
      BY <1>9, <2>1, <3>1, <3>2
  <2> QED
    BY <2>1 DEF Listed
<1>17. ASSUME NEW i \in DOMAIN ps_walks'
       PROVE  (WalkHolds(ps_walks[i]) /\ Walked(ps_walks[i], ps_array[ps_walks[i].array]))'
  <2>1. PICK other : other = ps_walks'[i] /\ other = ps_walks[i + 1] /\ i + 1 \in DOMAIN ps_walks
    BY <1>6
  <2>2. /\ other \in PsFrames /\ other.array \in 1 .. ps_arrays
        /\ WalkHolds(other) /\ Walked(other, ps_array[other.array])
    BY <2>1, PsFields
  <2>3. ps_array'[other.array] = ps_array[other.array]
    BY <1>9, <2>2
  <2>4. WalkHolds(other)'
    <3>1. /\ ps_once \subseteq ps_once' /\ ps_removed \subseteq ps_removed'
          /\ ps_counter \in Nat /\ ps_counter' \in Nat /\ ps_counter <= ps_counter'
          /\ \A x \in PsSubs : ps_calls[x] > 0 => ps_calls'[x] > 0
      BY <1>4, PsFields
    <3>2. Range(ps_array[other.array]) \subseteq Range(ps_array'[other.array]) \cup ps_removed'
      BY <2>3
    <3> QED
      BY <1>8, <1>9, <2>2, <3>1, <3>2, WalkStays
  <2>5. Walked(other, ps_array'[other.array])
    BY <2>2, <2>3
  <2> QED
    BY <2>1, <2>4, <2>5
<1>18. RegistryKept'
  <2> SUFFICES ASSUME ~ps_replaced' PROVE RegistryKept'
    BY DEF RegistryKept
  <2>1. ~ps_replaced /\ (walk.spent # {} => ps_topics[t] = a)
    BY <1>4
  <2>2. \A x \in 1 .. ps_counter :
          /\ IsHeld(x) => x \notin ps_removed
          /\ x \notin ps_removed /\ (x \in ps_once => ps_calls[x] = 0) => IsHeld(x)
          /\ x \in ps_once /\ ps_calls[x] # 0 /\ ~PsInUse(x) => ~IsHeld(x)
    BY <2>1 DEF PsIInv, RegistryKept
  <2>3. ASSUME NEW x \in walk.spent
        PROVE  x \in ps_once /\ ps_calls[x] # 0 /\ x \in Range(array) \cup ps_removed
    <3>1. x \in Range(walk.seen) /\ x \in PsSubs
      BY <1>2 DEF Walked, PsFrames
    <3>2. ps_calls[x] > 0 /\ ps_calls[x] \in Nat
      BY <1>2, <3>1, PsFields DEF WalkHolds
    <3> QED
      BY <1>2, <3>1, <3>2 DEF WalkHolds
  <2>4. ASSUME NEW u \in PsTopics, u # t PROVE PsHeld(u)' = PsHeld(u)
    <3>1. ps_topics'[u] = ps_topics[u]
      BY <1>9, <2>4
    <3>2. ps_topics[u] # 0 => ps_array'[ps_topics[u]] = ps_array[ps_topics[u]]
      BY <1>9, PsFields
    <3> QED
      BY <3>1, <3>2 DEF PsHeld
  <2>5. PsHeld(t)' = PsHeld(t) \ walk.spent
    <3>1. CASE walk.spent = {}
      <4>1. UNCHANGED <<ps_topics, ps_array>>
        BY <1>5, <3>1
      <4> QED
        BY <3>1, <4>1 DEF PsHeld
    <3>2. CASE walk.spent # {}
      <4>1. PsHeld(t) = Range(array)
        <5>1. a # 0
          BY <1>14, <1>8
        <5> QED
          BY <1>2, <2>1, <3>2, <5>1 DEF PsHeld
      <4>2. PsHeld(t)' = Range(q)
        <5>1. CASE q = << >> /\ ps_topics' = [ps_topics EXCEPT ![t] = 0]
          <6>1. ps_topics'[t] = 0
            BY <1>2, <5>1, PsFields
          <6> QED
            BY <5>1, <6>1 DEF PsHeld, Range
        <5>2. CASE /\ q # << >> /\ ps_arrays' = b /\ ps_array' = [ps_array EXCEPT ![b] = q]
                   /\ ps_topics' = [ps_topics EXCEPT ![t] = b]
          <6>1. ps_topics'[t] = b /\ ps_array'[b] = q
            BY <1>2, <1>8, <5>2, PsFields
          <6> QED
            BY <1>8, <6>1 DEF PsHeld
        <5> QED
          BY <1>5, <3>2, <5>1, <5>2
      <4> QED
        BY <1>3, <4>1, <4>2
    <3> QED
      BY <3>1, <3>2
  <2>6. ASSUME NEW x \in walk.spent, NEW u \in PsTopics, u # t, x \in PsHeld(u) PROVE FALSE
    <3>1. ps_topics[t] = a /\ a # 0
      BY <1>8, <1>14, <2>1, <2>6
    <3>2. PsHeld(t) = Range(array)
      BY <1>2, <3>1 DEF PsHeld
    <3>3. PsHeld(t) \cap PsHeld(u) = {}
      BY <1>2, <1>7, <2>6, HeldApart
    <3>4. x \in ps_removed
      BY <2>3, <2>6, <3>2, <3>3
    <3>5. IsHeld(x) /\ x \in 1 .. ps_counter
      BY <2>6, <3>4 DEF IsHeld, PsIInv, PsTyped
    <3> QED
      BY <2>2, <3>4, <3>5
  <2>7. \A x : IsHeld(x)' <=> IsHeld(x) /\ x \notin walk.spent
    BY <1>2, <2>4, <2>5, <2>6 DEF IsHeld
  <2>8. ASSUME NEW x \in 1 .. ps_counter, PsInUse(x) PROVE PsInUse(x)' \/ x \in walk.spent
    <3>1. PICK i \in DOMAIN ps_walks : x \in ps_walks[i].spent \cup {ps_walks[i].called}
      BY <2>8 DEF PsInUse
    <3>2. CASE i = 1
      BY <1>2, <3>1, <3>2
    <3>3. CASE i # 1
      <4>1. PICK k \in DOMAIN ps_walks' : ps_walks'[k] = ps_walks[i]
        BY <1>6, <3>3
      <4> QED
        BY <3>1, <4>1 DEF PsInUse
    <3> QED
      BY <3>2, <3>3
  <2> QED
    BY <1>4, <2>2, <2>3, <2>7, <2>8 DEF RegistryKept
<1> QED
  BY <1>10, <1>12, <1>15, <1>16, <1>17, <1>18 DEF PsIInv

LEMMA PsStep == PsIInv /\ [PsNext]_ps_vars => PsIInv'
<1> SUFFICES ASSUME PsIInv, [PsNext]_ps_vars PROVE PsIInv'
  OBVIOUS
<1>1. ASSUME NEW t \in PsTopics, PsUnsubscribeAll({t}) PROVE PsIInv'
  <2>1. {t} \in SUBSET PsTopics
    OBVIOUS
  <2> QED
    BY <1>1, <2>1, UnsubscribeAllInvariant
<1>2. CASE PsUnsubscribeAll(PsTopics)
  BY <1>2, UnsubscribeAllInvariant
<1>3. CASE UNCHANGED ps_vars
  <2>1. /\ UNCHANGED <<ps_topics, ps_array, ps_arrays, ps_counter, ps_once>>
        /\ UNCHANGED <<ps_walks, ps_published, ps_removed, ps_calls, ps_replaced>>
    BY <1>3 DEF ps_vars
  <2>2. PsTyped' /\ ArraysHold' /\ Listed'
    BY <2>1 DEF PsIInv, PsTyped, ArraysHold, Listed
  <2>3. \E own : Owned(own)'
    BY <2>1 DEF PsIInv, Owned
  <2>4. RegistryKept'
    BY <2>1 DEF PsIInv, RegistryKept, IsHeld, PsHeld, PsInUse
  <2>5. \A i \in DOMAIN ps_walks' :
          (WalkHolds(ps_walks[i]) /\ Walked(ps_walks[i], ps_array[ps_walks[i].array]))'
    BY <2>1 DEF PsIInv, WalkHolds
  <2> QED
    BY <2>2, <2>3, <2>4, <2>5 DEF PsIInv
<1> QED
  BY <1>1, <1>2, <1>3, SubscribeInvariant, UnsubscribeInvariant, PublishInvariant,
     CallInvariant, ReturnInvariant, EndPublishInvariant DEF PsNext

(* The registry's invariant holds in every reachable state.                *)
THEOREM RegistryInvariance == PsSpec => []PsIInv
  BY PsInitInvariant, PsStep, PTL DEF PsSpec

(* Every field of the registry keeps its type, the publishes under way      *)
(* included (pubsub_publish).                                              *)
THEOREM RegistryTypes == PsSpec => []PsTypeOK
<1>1. PsIInv => PsTypeOK
  <2> SUFFICES ASSUME PsIInv PROVE PsTypeOK
    OBVIOUS
  <2>1. ASSUME NEW i \in DOMAIN ps_walks
        PROVE  LET walk == ps_walks[i] IN
               /\ walk.topic \in PsTopics /\ walk.array \in 1 .. ps_arrays
               /\ walk.called \in Range(walk.seen) \cup {0}
               /\ walk.spent \subseteq ps_once \cap Range(walk.seen)
               /\ walk.count <= Len(walk.seen)
    <3>1. PICK walk : walk = ps_walks[i]
      OBVIOUS
    <3>2. /\ walk \in PsFrames /\ WalkHolds(walk) /\ walk.array \in 1 .. ps_arrays
          /\ Walked(walk, ps_array[walk.array])
      BY <3>1, PsFields
    <3>3. walk.topic \in PsTopics /\ walk.count \in Nat /\ Len(walk.seen) \in Nat
      BY <3>2 DEF PsFrames
    <3>4. walk.count <= Len(walk.seen)
      BY <3>2, <3>3 DEF Walked
    <3> QED
      BY <3>1, <3>2, <3>3, <3>4 DEF WalkHolds, Walked
  <2>2. ps_arrays \in 0 .. PsLastSub + PsMaxPublish
    BY PsFields
  <2> QED
    BY <2>1, <2>2 DEF PsIInv, PsTyped, PsTypeOK
<1> QED
  BY <1>1, RegistryInvariance, PTL

(* Handlers that subscribe, unsubscribe and publish while they are called   *)
(* leave every listed topic with subscribers, each once and for one topic;  *)
(* a publish calls nobody twice and misses one subscriber at most for each  *)
(* removal from the array it walks; and the registry is exact until an      *)
(* array replaces another than the one walked (pubsub_publish).             *)
THEOREM Orderly == PsSpec => []PsOrderly
<1>1. PsIInv => PsActive
  <2> SUFFICES ASSUME PsIInv, NEW t \in PsTopics, ps_topics[t] # 0
               PROVE  /\ ps_array[ps_topics[t]] # << >>
                      /\ IsInjective(ps_array[ps_topics[t]])
                      /\ \A u \in PsTopics \ {t} : PsHeld(t) \cap PsHeld(u) = {}
    BY DEF PsActive
  <2>1. PICK own : Owned(own)
    BY DEF PsIInv
  <2>2. ps_topics[t] \in 1 .. ps_arrays
    BY PsFields
  <2>3. \A u \in PsTopics \ {t} : PsHeld(t) \cap PsHeld(u) = {}
    BY <2>1, HeldApart
  <2> QED
    BY <2>2, <2>3, PsFields DEF PsIInv, Listed
<1>2. PsIInv => PsDelivered
  <2> SUFFICES ASSUME PsIInv, ps_walks # << >>, PsWalk.called = 0,
                      ~(PsWalk.at <= Len(ps_array[PsWalk.array]))
               PROVE  /\ IsInjective(PsWalk.seen)
                      /\ Cardinality(PsWalk.start \ (Range(PsWalk.seen) \cup ps_removed))
                           <= PsWalk.cut
    BY DEF PsDelivered, PsWalking, PsCalling, PsMore
  <2>1. PICK walk, array :
          /\ walk = PsWalk /\ array = ps_array[walk.array] /\ walk \in PsFrames
          /\ array \in Seq(PsSubs) /\ WalkHolds(walk) /\ Walked(walk, array)
          /\ walk.called = 0 /\ ~(walk.at <= Len(array))
    BY FrontIs
  <2>2. PICK missed, passed :
          /\ missed = walk.start \ (Range(walk.seen) \cup ps_removed)
          /\ passed = PassedOver(walk, array)
    OBVIOUS
  <2>3. missed \subseteq passed
    <3> SUFFICES ASSUME NEW s \in missed PROVE s \in passed
      OBVIOUS
    <3>1. s \in walk.start /\ s \notin Range(walk.seen) /\ s \in Range(array)
      BY <2>1, <2>2 DEF WalkHolds
    <3>2. PICK p \in DOMAIN array : array[p] = s
      BY <3>1 DEF Range
    <3>3. p < walk.at
      BY <2>1 DEF PsFrames
    <3> QED
      BY <2>1, <2>2, <3>1, <3>2, <3>3 DEF PassedOver, Past
  <2>4. IsFiniteSet(passed) /\ Cardinality(passed) \in Nat /\ Cardinality(passed) <= walk.cut
    BY <2>1, <2>2, PassedFinite DEF Walked
  <2>5. Cardinality(missed) <= Cardinality(passed) /\ Cardinality(missed) \in Nat
    <3>1. missed \in SUBSET passed
      BY <2>3
    <3> QED
      BY <2>4, <3>1, FS_Subset, FS_CardinalityType
  <2>6. Cardinality(missed) <= walk.cut
    <3>1. walk.cut \in Nat
      BY <2>1 DEF PsFrames
    <3> QED
      BY <2>4, <2>5, <3>1
  <2> QED
    BY <2>1, <2>2, <2>6 DEF Walked
<1>3. PsIInv => PsKept
  BY DEF PsIInv, RegistryKept, PsKept, IsHeld
<1> QED
  BY <1>1, <1>2, <1>3, RegistryInvariance, PTL DEF PsOrderly
=============================================================================
