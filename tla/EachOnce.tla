------------------------------ MODULE EachOnce ------------------------------
(* What a distributed execution promises of its items: each is processed    *)
(* once, with success or with an error, recorded or not, in no particular   *)
(* order.                                                                  *)
CONSTANT Items

VARIABLE outcome   \* of each item: "todo", "ok", "failed" or "broke"

Init == outcome = [i \in Items |-> "todo"]

Process(i) ==
  /\ outcome[i] = "todo"
  /\ \E o \in {"ok", "failed", "broke"} : outcome' = [outcome EXCEPT ![i] = o]

Next == \E i \in Items : Process(i)

Spec == Init /\ [][Next]_outcome
=============================================================================
