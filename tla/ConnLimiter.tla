----------------------------- MODULE ConnLimiter -----------------------------
(***************************************************************************)
(* What the pooled HTTP server promises about its connection limit,        *)
(* whichever processes, locks and counters it is made of: each slot serves *)
(* at most one connection, at most MaxConn slots serve at once, and a      *)
(* connection accepted by a slot is turned away only when MaxConn are      *)
(* being served at that moment.                                            *)
(***************************************************************************)
EXTENDS Integers, FiniteSets

CONSTANTS Places,   \* where a connection can be served, a finite set
          Limit     \* how many may be served at once, at least one

VARIABLES busy,     \* places serving a connection
          refusing  \* places turning a connection away

vars == <<busy, refusing>>

Init == busy = {} /\ refusing = {}

Admit(s) ==
  /\ s \notin busy \cup refusing
  /\ Cardinality(busy) < Limit
  /\ busy' = busy \cup {s}
  /\ UNCHANGED refusing

Refuse(s) ==
  /\ s \notin busy \cup refusing
  /\ Cardinality(busy) = Limit
  /\ refusing' = refusing \cup {s}
  /\ UNCHANGED busy

(* A place is given back by whoever served it or, when that process died,  *)
(* on its behalf.                                                          *)
Release(s) == busy' = busy \ {s} /\ UNCHANGED refusing

Refused(s) == refusing' = refusing \ {s} /\ UNCHANGED busy

Next == \E s \in Places : Admit(s) \/ Refuse(s) \/ Release(s) \/ Refused(s)

Spec == Init /\ [][Next]_vars

=============================================================================
