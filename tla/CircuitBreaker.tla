---------------------------- MODULE CircuitBreaker ----------------------------
(* The circuit breaker of the standard library (stdlib/circuit-breaker.fl).  *)
(*                                                                          *)
(* The function a call protects is user code: before it ends it may call    *)
(* through the same breaker, reset it or open it, so calls form a stack.    *)
(* cb-call reads the state once, before, and decides by it afterwards.      *)
(* Time is a step: the recovery time of the last opening runs out, or the   *)
(* oldest failures leave the window.                                       *)
EXTENDS Integers, Sequences

CONSTANTS
  CbThreshold,      \* fail-threshold
  CbMaxCalls,       \* bound: calls of cb-call
  CbDepth           \* bound: calls inside one another

ASSUME BreakerAssumption ==
  CbThreshold \in Nat \ {0} /\ CbMaxCalls \in Nat /\ CbDepth \in Nat

VARIABLES
  cb_state,
  cb_failures,      \* the failures in the window
  cb_recover,       \* the recovery time since opened-at is over
  cb_calls,         \* the calls under way, the innermost last: the state each
                    \* read and whether it is the trial of an open breaker
  cb_total_calls, cb_total_failures, cb_total_blocked,
  cb_returned       \* history: calls that gave a result

cb_vars == <<cb_state, cb_failures, cb_recover, cb_calls,
             cb_total_calls, cb_total_failures, cb_total_blocked, cb_returned>>

CbStates == {"CLOSED", "OPEN", "HALF-OPEN"}

CbInit ==
  /\ cb_state = "CLOSED" /\ cb_failures = 0 /\ cb_recover = FALSE
  /\ cb_calls = << >>
  /\ cb_total_calls = 0 /\ cb_total_failures = 0 /\ cb_total_blocked = 0
  /\ cb_returned = 0

CbCounts == cb_total_calls < CbMaxCalls /\ cb_total_calls' = cb_total_calls + 1

-----------------------------------------------------------------------------
(* A call begins.                                                          *)

CbBegin(trial) ==
  /\ CbCounts
  /\ Len(cb_calls) < CbDepth
  /\ cb_calls' = Append(cb_calls, [read |-> cb_state, trial |-> trial])
  /\ UNCHANGED <<cb_failures, cb_recover, cb_total_failures, cb_total_blocked, cb_returned>>

CbCall ==
  /\ cb_state # "OPEN"
  /\ CbBegin(FALSE)
  /\ UNCHANGED cb_state

CbTrial ==
  /\ cb_state = "OPEN" /\ cb_recover
  /\ CbBegin(TRUE)
  /\ cb_state' = "HALF-OPEN"

(* The error of a call that is not let through goes to the code around it.  *)
CbBlocked ==
  /\ cb_state = "OPEN" /\ ~cb_recover
  /\ CbCounts
  /\ cb_total_blocked' = cb_total_blocked + 1
  /\ UNCHANGED <<cb_state, cb_failures, cb_recover, cb_calls, cb_total_failures, cb_returned>>

-----------------------------------------------------------------------------
(* The innermost call ends.                                                *)

CbCurrent == cb_calls[Len(cb_calls)]
CbEnds ==
  /\ cb_calls # << >>
  /\ cb_calls' = SubSeq(cb_calls, 1, Len(cb_calls) - 1)
  /\ UNCHANGED <<cb_total_calls, cb_total_blocked>>

CbClose(failures) == cb_state' = "CLOSED" /\ cb_failures' = failures

CbClearsNot(failures) == failures       \* a defect: the failures are kept
CbClears(failures) == 0

CbReturn ==
  /\ CbEnds
  /\ cb_returned' = cb_returned + 1
  /\ IF CbCurrent.trial \/ CbCurrent.read = "HALF-OPEN"
       THEN CbClose(CbClears(cb_failures))
       ELSE UNCHANGED <<cb_state, cb_failures>>
  /\ cb_recover' = (cb_recover /\ ~CbCurrent.trial)
  /\ UNCHANGED cb_total_failures

CbOpens == cb_state' = "OPEN" /\ cb_recover' = FALSE

CbThrow ==
  /\ CbEnds
  /\ cb_total_failures' = cb_total_failures + 1
  /\ \/ /\ CbCurrent.trial
        /\ CbOpens /\ UNCHANGED cb_failures
     \/ /\ ~CbCurrent.trial
        /\ cb_failures' = cb_failures + 1
        /\ IF cb_failures + 1 >= CbThreshold THEN CbOpens
                                             ELSE UNCHANGED <<cb_state, cb_recover>>
  /\ UNCHANGED cb_returned

-----------------------------------------------------------------------------
(* Control by hand, and time.                                              *)

CbReset ==
  /\ CbClose(CbClears(cb_failures)) /\ cb_recover' = FALSE
  /\ UNCHANGED <<cb_calls, cb_total_calls, cb_total_failures, cb_total_blocked, cb_returned>>

CbOpen ==
  /\ CbOpens
  /\ UNCHANGED <<cb_failures, cb_calls, cb_total_calls, cb_total_failures,
                 cb_total_blocked, cb_returned>>

CbTime ==
  /\ \/ cb_state = "OPEN" /\ cb_recover' = TRUE /\ UNCHANGED cb_failures
     \/ \E left \in 0 .. cb_failures : cb_failures' = left /\ UNCHANGED cb_recover
  /\ UNCHANGED <<cb_state, cb_calls, cb_total_calls, cb_total_failures,
                 cb_total_blocked, cb_returned>>

CbNext == CbCall \/ CbTrial \/ CbBlocked \/ CbReturn \/ CbThrow \/ CbReset \/ CbOpen \/ CbTime

CbSpec == CbInit /\ [][CbNext]_cb_vars

-----------------------------------------------------------------------------
(* Properties.                                                             *)

CbTypeOK ==
  /\ cb_state \in CbStates /\ cb_failures \in Nat /\ cb_recover \in BOOLEAN
  /\ cb_calls \in Seq([read : CbStates, trial : BOOLEAN])
  /\ cb_total_calls \in 0 .. CbMaxCalls
  /\ cb_total_failures \in Nat /\ cb_total_blocked \in Nat /\ cb_returned \in Nat

(* However calls, trials and control by hand are nested, a closed breaker   *)
(* has fewer failures in its window than would open it; it is half open     *)
(* only while a trial is under way, whose end closes or opens it; and each  *)
(* call is under way, blocked, failed or answered, and counted as one of    *)
(* them (cb-call, cb-stats).                                               *)
CbSound ==
  /\ cb_state = "CLOSED" => cb_failures < CbThreshold
  /\ cb_state = "HALF-OPEN" => \E i \in DOMAIN cb_calls : cb_calls[i].trial
  /\ cb_total_calls =
       Len(cb_calls) + cb_total_blocked + cb_total_failures + cb_returned
=============================================================================
