------------------------------- MODULE SisBus -------------------------------
(* The evidence bus of the semantic immune system and the timers that feed  *)
(* it (src/src/sis-bus.ts, src/src/stdlib-timer.ts).                        *)
(*                                                                          *)
(* An interval whose callback throws is not stopped: the tick is counted as *)
(* missed and a piece of evidence goes to a ring of fixed size.  A full     *)
(* ring drops the evidence, keeps the counters of the last drop in a latch, *)
(* and the next emit that finds room announces the drops with a notice.     *)
(* The policy behind the bus scores every failing timer and quarantines it  *)
(* at a threshold.  The program is single threaded, but a callback may set  *)
(* and clear timers, its own included, before it returns or throws.         *)
EXTENDS Integers, Sequences, FiniteSets

CONSTANTS
  CAP,                   \* cells of the ring, one of which stays empty
  QUARANTINE_THRESHOLD,
  LastTimer,             \* bound: how many timers are ever created
  MaxEmits               \* bound: how many callbacks ever throw

ASSUME CapAssumption == CAP \in Nat /\ CAP >= 2
ASSUME ThresholdAssumption == QUARANTINE_THRESHOLD \in Nat \ {0}
ASSUME BoundAssumption == LastTimer \in Nat /\ MaxEmits \in Nat

VARIABLES
  nextTimerId,        \* the next timer's name; names are never used again
  timerKind,          \* what each created timer is
  timerRegistry,      \* the timers the registry holds
  intervalStats,      \* the missed ticks of the intervals it holds stats of
  runningTimer,       \* the timer whose callback runs, or 0
  ring, head, tail,
  emit_count, received_count, dropped_count, dropped_since_notice,
  drop_latch,         \* the counters at the last drop
  drop_latch_seq,
  score, quarantined, \* the policy's state of each timer
  policy_event_count, quarantine_count,
  sis_notices,        \* history: the notices pushed
  sis_told,           \* history: dropped_count in the last notice
  sis_log             \* history: the evidence accepted since the last drain

sis_timers == <<nextTimerId, timerKind, timerRegistry, intervalStats>>
sis_bus == <<ring, head, tail, emit_count, received_count, dropped_count,
         dropped_since_notice, drop_latch, drop_latch_seq, sis_notices, sis_told, sis_log>>
sis_policy == <<score, quarantined, policy_event_count, quarantine_count>>
sis_vars == <<sis_timers, runningTimer, sis_bus, sis_policy>>

Timers == 1 .. LastTimer
Cells == 0 .. CAP - 1
Notice == 0          \* E_EVENT_DROPPED; other evidence is named by its timer

SisInit ==
  /\ nextTimerId = 1
  /\ timerKind = [t \in Timers |-> "unused"]
  /\ timerRegistry = {}
  /\ intervalStats = [t \in {} |-> 0]
  /\ runningTimer = 0
  /\ ring = [c \in Cells |-> Notice] /\ head = 0 /\ tail = 0
  /\ emit_count = 0 /\ received_count = 0 /\ dropped_count = 0
  /\ dropped_since_notice = 0
  /\ drop_latch = [emit_count |-> 0, dropped_count |-> 0]
  /\ drop_latch_seq = 0
  /\ score = [t \in Timers |-> 0] /\ quarantined = {}
  /\ policy_event_count = 0 /\ quarantine_count = 0
  /\ sis_notices = 0 /\ sis_told = 0 /\ sis_log = [i \in 1 .. 0 |-> Notice]

-----------------------------------------------------------------------------
(* The ring: ringPush refuses at the cell before the tail.                 *)

AfterUnwrapped(c) == c + 1              \* a defect: runs off the end
After(c) == (c + 1) % CAP
FullNever(h) == FALSE                   \* a defect: no room is ever denied
Full(h) == After(h) = tail
queued == (head + CAP - tail) % CAP

(* An emit first pushes the overdue notice, when the ring has room for it,  *)
(* and then its evidence, when the ring still has.                         *)
Noticing == dropped_since_notice > 0 /\ ~Full(head)
HeadFor == IF Noticing THEN After(head) ELSE head
UnreportedStill == dropped_since_notice \* a defect: no reset at the notice
Unreported == IF Noticing THEN 0 ELSE dropped_since_notice

RingPush(t) ==
  /\ ring' = [c \in Cells |->
                CASE Noticing /\ c = head -> Notice
                  [] ~Full(HeadFor) /\ c = HeadFor -> t
                  [] OTHER -> ring[c]]
  /\ head' = IF Full(HeadFor) THEN HeadFor ELSE After(HeadFor)
  /\ received_count' = received_count + (IF Noticing THEN 1 ELSE 0)
                                      + (IF Full(HeadFor) THEN 0 ELSE 1)
  /\ sis_notices' = sis_notices + (IF Noticing THEN 1 ELSE 0)
  /\ sis_told' = IF Noticing THEN dropped_count ELSE sis_told
  /\ sis_log' = sis_log \o (IF Noticing THEN <<Notice>> ELSE << >>)
                \o (IF Full(HeadFor) THEN << >> ELSE <<t>>)
  /\ tail' = tail

Latch == [emit_count |-> emit_count + 1, dropped_count |-> dropped_count + 1]

Drop ==
  IF Full(HeadFor)
    THEN /\ dropped_count' = dropped_count + 1
         /\ dropped_since_notice' = Unreported + 1
         /\ drop_latch' = Latch
         /\ drop_latch_seq' = drop_latch_seq + 1
    ELSE /\ dropped_since_notice' = Unreported
         /\ UNCHANGED <<dropped_count, drop_latch, drop_latch_seq>>

(* The policy sees every event emitted, accepted or dropped.               *)
QuarantinesAgain(t) ==                  \* a defect: counts a timer twice
  score[t] + 1 >= QUARANTINE_THRESHOLD
Quarantines(t) ==
  score[t] + 1 >= QUARANTINE_THRESHOLD /\ t \notin quarantined

Scores(t) ==
  /\ policy_event_count' = policy_event_count + 1
  /\ score' = [score EXCEPT ![t] = @ + 1]
  /\ IF Quarantines(t)
       THEN /\ quarantined' = quarantined \cup {t}
            /\ quarantine_count' = quarantine_count + 1
       ELSE UNCHANGED <<quarantined, quarantine_count>>

sisPolicyOnAccepted(t) ==               \* a defect: deaf to dropped events
  IF Full(HeadFor) THEN UNCHANGED sis_policy ELSE Scores(t)
sisPolicyOnEvent(t) == Scores(t)

sisEmit(t) ==
  /\ emit_count' = emit_count + 1
  /\ RingPush(t)
  /\ Drop
  /\ sisPolicyOnEvent(t)

sisDrain ==
  /\ tail' = head
  /\ sis_log' = << >>
  /\ UNCHANGED <<ring, head, emit_count, received_count, dropped_count,
                 dropped_since_notice, drop_latch, drop_latch_seq, sis_notices,
                 sis_told, sis_timers, runningTimer, sis_policy>>

-----------------------------------------------------------------------------
(* The timers.                                                             *)

set_interval ==
  /\ nextTimerId \in Timers
  /\ nextTimerId' = nextTimerId + 1
  /\ timerKind' = [timerKind EXCEPT ![nextTimerId] = "interval"]
  /\ timerRegistry' = timerRegistry \cup {nextTimerId}
  /\ intervalStats' = [t \in DOMAIN intervalStats \cup {nextTimerId} |->
                         IF t = nextTimerId THEN 0 ELSE intervalStats[t]]
  /\ UNCHANGED <<runningTimer, sis_bus, sis_policy>>

set_timeout ==
  /\ nextTimerId \in Timers
  /\ nextTimerId' = nextTimerId + 1
  /\ timerKind' = [timerKind EXCEPT ![nextTimerId] = "timeout"]
  /\ timerRegistry' = timerRegistry \cup {nextTimerId}
  /\ UNCHANGED <<intervalStats, runningTimer, sis_bus, sis_policy>>

(* Either function takes any timer's name; only one forgets the stats.     *)
Without(f, t) == [s \in DOMAIN f \ {t} |-> f[s]]

clear_interval(t) ==
  /\ t \in timerRegistry
  /\ timerRegistry' = timerRegistry \ {t}
  /\ intervalStats' = Without(intervalStats, t)
  /\ UNCHANGED <<nextTimerId, timerKind, runningTimer, sis_bus, sis_policy>>

clear_timeout(t) ==
  /\ t \in timerRegistry
  /\ timerRegistry' = timerRegistry \ {t}
  /\ UNCHANGED <<nextTimerId, timerKind, intervalStats, runningTimer, sis_bus, sis_policy>>

timer_clear_all ==
  /\ timerRegistry' = {}
  /\ UNCHANGED <<nextTimerId, timerKind, intervalStats, runningTimer, sis_bus, sis_policy>>

(* The event loop starts the callback of a timer that is still set.        *)
StillSet(t) == t \in timerRegistry
Fire(t) ==
  /\ runningTimer = 0
  /\ StillSet(t)
  /\ runningTimer' = t
  /\ UNCHANGED <<sis_timers, sis_bus, sis_policy>>

Ended ==
  IF timerKind[runningTimer] = "timeout" THEN timerRegistry \ {runningTimer}
                               ELSE timerRegistry

Returns ==
  /\ runningTimer # 0
  /\ runningTimer' = 0
  /\ timerRegistry' = Ended
  /\ UNCHANGED <<nextTimerId, timerKind, intervalStats, sis_bus, sis_policy>>

(* A timeout's error is logged and no more.  The stats an interval's error  *)
(* is counted in may be gone: its own callback can clear it.               *)
Missed(t) ==
  [s \in DOMAIN intervalStats |->
     IF s = t THEN intervalStats[s] + 1 ELSE intervalStats[s]]

TimeoutThrows ==
  /\ runningTimer # 0 /\ timerKind[runningTimer] = "timeout"
  /\ runningTimer' = 0
  /\ timerRegistry' = Ended
  /\ UNCHANGED <<nextTimerId, timerKind, intervalStats, sis_bus, sis_policy>>

IntervalThrows ==
  /\ runningTimer # 0 /\ timerKind[runningTimer] = "interval"
  /\ emit_count < MaxEmits
  /\ runningTimer' = 0
  /\ intervalStats' = Missed(runningTimer)
  /\ sisEmit(runningTimer)
  /\ UNCHANGED <<nextTimerId, timerKind, timerRegistry>>

SisNext ==
  \/ set_interval \/ set_timeout \/ timer_clear_all
  \/ \E t \in Timers : clear_interval(t) \/ clear_timeout(t) \/ Fire(t)
  \/ Returns \/ TimeoutThrows \/ IntervalThrows
  \/ sisDrain

SisSpec == SisInit /\ [][SisNext]_sis_vars

-----------------------------------------------------------------------------
(* Properties.                                                             *)

SisTypeOK ==
  /\ nextTimerId \in 1 .. LastTimer + 1
  /\ timerKind \in [Timers -> {"unused", "interval", "timeout"}]
  /\ timerRegistry \subseteq 1 .. nextTimerId - 1
  /\ DOMAIN intervalStats \subseteq 1 .. nextTimerId - 1
  /\ \A t \in DOMAIN intervalStats : intervalStats[t] \in Nat
  /\ runningTimer \in 0 .. nextTimerId - 1
  /\ ring \in [Cells -> Timers \cup {Notice}]
  /\ head \in Cells /\ tail \in Cells
  /\ emit_count \in Nat /\ received_count \in Nat /\ dropped_count \in Nat
  /\ dropped_since_notice \in Nat
  /\ drop_latch \in [emit_count : Nat, dropped_count : Nat]
  /\ drop_latch_seq \in Nat
  /\ score \in [Timers -> Nat] /\ quarantined \subseteq Timers
  /\ policy_event_count \in Nat /\ quarantine_count \in Nat
  /\ sis_notices \in Nat /\ sis_told \in Nat
  /\ sis_log \in Seq(Timers \cup {Notice})

(* What was accepted since the last drain is what the ring holds, in order  *)
(* and complete: no push overwrites evidence that has not been drained, and *)
(* head = tail always means empty (ringPush).                              *)
SisRingHoldsLog ==
  /\ queued = Len(sis_log)
  /\ \A i \in 1 .. queued : ring[(tail + i - 1) % CAP] = sis_log[i]

(* A drop is never forgotten: each is in the last notice that was pushed or *)
(* still counted for the next one, the latch holds the last one whatever    *)
(* the ring does, and every emit is received or dropped: the notices of the *)
(* bus itself are the only other things received (sisEmit).                *)
SisDropsAreTold ==
  /\ dropped_count = sis_told + dropped_since_notice
  /\ drop_latch_seq = dropped_count
  /\ drop_latch.dropped_count = dropped_count
  /\ drop_latch.emit_count <= emit_count
  /\ received_count + dropped_count = emit_count + sis_notices

(* The policy misses no failure: an interval's score is its missed ticks,   *)
(* those whose evidence was dropped included, and exactly the timers at the *)
(* threshold are in quarantine, each counted once (sisPolicyOnEvent).      *)
SisQuarantineExact ==
  /\ \A t \in DOMAIN intervalStats : score[t] = intervalStats[t]
  /\ quarantined = {t \in Timers : score[t] >= QUARANTINE_THRESHOLD}
  /\ quarantine_count = Cardinality(quarantined)

(* From a failing callback to the policy nothing is lost on the way unsaid: *)
(* the ring keeps what it took, the bus tells what it did not take, and the *)
(* policy counts both.                                                     *)
SisKept == SisRingHoldsLog /\ SisDropsAreTold /\ SisQuarantineExact

(* A timer that was cleared, or a timeout that has run, never starts again, *)
(* even when it is cleared inside its own callback.                        *)
SisGoneForGood ==
  [][\A t \in Timers :
       (t < nextTimerId /\ t \notin timerRegistry)
         => t \notin timerRegistry' /\ (runningTimer' = t => runningTimer = t)]_sis_vars
=============================================================================
