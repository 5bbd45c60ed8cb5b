------------------------------ MODULE FlPromise ------------------------------
(* FreeLang's promises (src/src/async-runtime.ts, src/src/stdlib-async.ts,   *)
(* and the async functions of src/src/eval-call-function.ts).               *)
(*                                                                          *)
(* A promise is pending until it is first resolved or rejected.  Settling   *)
(* it runs, then and there, the callbacks registered for that outcome; a    *)
(* callback settles another promise, whose callbacks run before the next    *)
(* one of the first.  Those calls are a stack here, todo.  A handler is     *)
(* user code: before it ends it may create promises and settle others.      *)
EXTENDS Integers, Sequences, FiniteSets, SequencesExt

CONSTANT LastPromise    \* bound: promises created outside the runtime

ASSUME PromiseAssumption == LastPromise \in Nat

Promises == 1 .. LastPromise

VARIABLES
  pr_next,       \* the next promise
  pr_kind,       \* how each was made
  pr_of,         \* the promises it was made from, in order
  pr_state,
  pr_value,      \* what it was settled with: the promise whose settling or
                 \* whose handler gave the value or the error
  pr_results,    \* of an all(): the elements that have given a result
  pr_resolvers, pr_rejecters,   \* the promises its callbacks settle, in order
  pr_late,       \* history: the promises that were pending when this was made
  todo           \* callbacks yet to run, the next one first

pr_vars == <<pr_next, pr_kind, pr_of, pr_state, pr_value, pr_results,
             pr_resolvers, pr_rejecters, pr_late, todo>>

Chains == {"then", "catch", "finally"}
Joins == {"all", "race"}

PrInit ==
  /\ pr_next = 1
  /\ pr_kind = [p \in Promises |-> "none"]
  /\ pr_of = [p \in Promises |-> << >>]
  /\ pr_state = [p \in Promises |-> "pending"]
  /\ pr_value = [p \in Promises |-> 0]
  /\ pr_results = [p \in Promises |-> {}]
  /\ pr_resolvers = [p \in Promises |-> << >>]
  /\ pr_rejecters = [p \in Promises |-> << >>]
  /\ pr_late = [p \in Promises |-> {}]
  /\ todo = << >>

Made == 1 .. pr_next - 1
Pending(p) == pr_state[p] = "pending"
Resolved(p) == pr_state[p] = "resolved"
Rejected(p) == pr_state[p] = "rejected"

-----------------------------------------------------------------------------
(* Settling: resolve() and reject() do nothing to a promise that is no      *)
(* longer pending.                                                         *)

Callbacks(p, state, value) ==
  [i \in 1 .. Len(IF state = "resolved" THEN pr_resolvers[p] ELSE pr_rejecters[p]) |->
     [target |-> IF state = "resolved" THEN pr_resolvers[p][i] ELSE pr_rejecters[p][i],
      state |-> state, from |-> p, value |-> value]]

Dropping(callbacks, p, dropped) ==
  IF dropped THEN [callbacks EXCEPT ![p] = << >>] ELSE callbacks

SettleWhen(guard, p, state, value, rest) ==
  IF guard
    THEN /\ pr_state' = [pr_state EXCEPT ![p] = state]
         /\ pr_value' = [pr_value EXCEPT ![p] = value]
         /\ todo' = Callbacks(p, state, value) \o rest
         /\ pr_resolvers' = Dropping(pr_resolvers, p, state = "resolved")
         /\ pr_rejecters' = Dropping(pr_rejecters, p, state = "rejected")
    ELSE /\ todo' = rest
         /\ UNCHANGED <<pr_state, pr_value, pr_resolvers, pr_rejecters>>

SettleAgain(p, state, value, rest) ==   \* a defect: the state is not looked at
  SettleWhen(TRUE, p, state, value, rest)
SettleFrom(p, state, value, rest) == SettleWhen(Pending(p), p, state, value, rest)

(* A timer, an executor or a function called asynchronously settles the     *)
(* promise it was given; it may do so again, to no effect.                 *)
PrSettle(p) ==
  /\ p \in Made /\ pr_kind[p] = "source"
  /\ \E state \in {"resolved", "rejected"} : SettleFrom(p, state, p, todo)
  /\ UNCHANGED <<pr_next, pr_kind, pr_of, pr_results, pr_late>>

-----------------------------------------------------------------------------
(* Callbacks.                                                              *)

Next1 == Head(todo)
Running == todo # << >>

(* The handler of a then or a catch gives its promise a value or an error.  *)
PrHandler ==
  /\ Running /\ pr_kind[Next1.target] \in {"then", "catch"}
  /\ \E state \in {"resolved", "rejected"} :
       SettleFrom(Next1.target, state, Next1.target, Tail(todo))
  /\ UNCHANGED <<pr_next, pr_kind, pr_of, pr_results, pr_late>>

(* That of a finally gives an error of its own or lets the outcome through. *)
PrFinally ==
  /\ Running /\ pr_kind[Next1.target] = "finally"
  /\ \/ SettleFrom(Next1.target, "rejected", Next1.target, Tail(todo))
     \/ SettleFrom(Next1.target, Next1.state, Next1.value, Tail(todo))
  /\ UNCHANGED <<pr_next, pr_kind, pr_of, pr_results, pr_late>>

PrRace ==
  /\ Running /\ pr_kind[Next1.target] = "race"
  /\ SettleFrom(Next1.target, Next1.state, Next1.value, Tail(todo))
  /\ UNCHANGED <<pr_next, pr_kind, pr_of, pr_results, pr_late>>

(* An element of an all() counts once; the last one resolves it.           *)
Whole(p, results) == results = {pr_of[p][i] : i \in DOMAIN pr_of[p]}

PrAll ==
  /\ Running /\ pr_kind[Next1.target] = "all"
  /\ LET p == Next1.target
         results == pr_results[p] \cup {Next1.from}
     IN  /\ pr_results' = [pr_results EXCEPT ![p] = results]
         /\ IF Whole(p, results)
              THEN SettleFrom(p, "resolved", p, Tail(todo))
              ELSE /\ todo' = Tail(todo)
                   /\ UNCHANGED <<pr_state, pr_value, pr_resolvers, pr_rejecters>>
  /\ UNCHANGED <<pr_next, pr_kind, pr_of, pr_late>>

-----------------------------------------------------------------------------
(* Making promises.                                                        *)

(* The callbacks a new promise leaves with a pending one: a then and the    *)
(* elements of a join listen to a result, a catch to an error, a finally to *)
(* both.  all() and race() do end with .catch(reject), but on the promise   *)
(* of their .then, which the element's error never reaches.                *)
HearsThen(kind) == kind \in {"then"} \cup Joins   \* a defect: finally is deaf
HearsResult(kind) == kind # "catch"
HearsError(kind) == kind \in {"catch", "finally"}

Listening(callbacks, hears, of) ==
  [p \in Promises |->
     IF hears /\ p \in Range(of) /\ Pending(p)
       THEN Append(callbacks[p], pr_next) ELSE callbacks[p]]

(* A promise that is settled at once needs no callback: it would do nothing. *)
PrMake(kind, of, state, value) ==
  /\ pr_next \in Promises
  /\ pr_next' = pr_next + 1
  /\ pr_kind' = [pr_kind EXCEPT ![pr_next] = kind]
  /\ pr_of' = [pr_of EXCEPT ![pr_next] = of]
  /\ pr_state' = [pr_state EXCEPT ![pr_next] = state]
  /\ pr_value' = [pr_value EXCEPT ![pr_next] = value]
  /\ pr_results' = [pr_results EXCEPT ![pr_next] =
                      IF kind = "all" THEN {p \in Range(of) : Resolved(p)} ELSE {}]
  /\ pr_late' = [pr_late EXCEPT ![pr_next] = {p \in Range(of) : Pending(p)}]
  /\ LET listens == state = "pending" IN
     /\ pr_resolvers' = Listening(pr_resolvers, listens /\ HearsResult(kind), of)
     /\ pr_rejecters' = Listening(pr_rejecters, listens /\ HearsError(kind), of)
  /\ UNCHANGED todo

PrSource == PrMake("source", << >>, "pending", 0)

(* What the handler of a chain on a settled promise makes of it at once.    *)
HandlerRuns(kind, p) ==
  \/ kind = "finally"
  \/ kind = "then" /\ Resolved(p)
  \/ kind = "catch" /\ Rejected(p)

PrChain(kind, p) ==
  \/ /\ Pending(p)
     /\ PrMake(kind, <<p>>, "pending", 0)
  \/ /\ ~Pending(p) /\ HandlerRuns(kind, p)
     /\ PrMake(kind, <<p>>, "rejected", pr_next)
  \/ /\ ~Pending(p) /\ HandlerRuns(kind, p) /\ kind # "finally"
     /\ PrMake(kind, <<p>>, "resolved", pr_next)
  \/ /\ ~Pending(p) /\ (HandlerRuns(kind, p) => kind = "finally")
     /\ PrMake(kind, <<p>>, pr_state[p], pr_value[p])

(* A join looks through its elements in order.                             *)
FirstOf(of, Test(_)) ==
  LET at == {i \in DOMAIN of : Test(of[i])}
  IN  IF at = {} THEN 0 ELSE of[CHOOSE i \in at : \A j \in at : i <= j]

Settled(p) == ~Pending(p)

PrAllOf(of) ==
  LET r == FirstOf(of, Rejected) IN
  CASE r # 0 -> PrMake("all", of, "rejected", pr_value[r])
    [] \A i \in DOMAIN of : Resolved(of[i]) -> PrMake("all", of, "resolved", pr_next)
    [] OTHER -> PrMake("all", of, "pending", 0)

(* The promise of an async function whose body gives a promise is a race of *)
(* that one: it listens in the same way.                                   *)
PrRaceOf(of) ==
  LET d == FirstOf(of, Settled) IN
  IF d # 0 THEN PrMake("race", of, pr_state[d], pr_value[d])
           ELSE PrMake("race", of, "pending", 0)

(* The library's promise_all and promise_race do not wait: a pending        *)
(* element, or nothing but pending ones, is an error.                      *)
PrAllNow(of) ==
  LET u == FirstOf(of, LAMBDA p : ~Resolved(p)) IN
  IF u = 0 THEN PrMake("promise_all", of, "resolved", pr_next)
           ELSE PrMake("promise_all", of, "rejected",
                       IF Rejected(u) THEN pr_value[u] ELSE pr_next)

PrRaceNow(of) ==
  LET d == FirstOf(of, Settled) IN
  IF d # 0 THEN PrMake("promise_race", of, pr_state[d], pr_value[d])
           ELSE PrMake("promise_race", of, "rejected", pr_next)

Lists == {<<p>> : p \in Made} \cup {<<p, q>> : p, q \in Made}
Elements == {of \in Lists : Len(of) = 2 => of[1] # of[2]}

PrNext ==
  \/ PrSource
  \/ \E p \in Promises : PrSettle(p)
  \/ \E p \in Made, kind \in Chains : PrChain(kind, p)
  \/ \E of \in Elements : PrAllOf(of) \/ PrRaceOf(of) \/ PrAllNow(of) \/ PrRaceNow(of)
  \/ PrHandler \/ PrFinally \/ PrRace \/ PrAll

PrSpec == PrInit /\ [][PrNext]_pr_vars

-----------------------------------------------------------------------------
(* Properties.                                                             *)

PrTypeOK ==
  /\ pr_next \in 1 .. LastPromise + 1
  /\ pr_kind \in [Promises -> {"none", "source", "promise_all", "promise_race"}
                                \cup Chains \cup Joins]
  /\ pr_state \in [Promises -> {"pending", "resolved", "rejected"}]
  /\ \A p \in Promises :
       /\ pr_of[p] \in Seq(1 .. p - 1)
       /\ pr_value[p] \in 0 .. pr_next - 1
       /\ pr_results[p] \subseteq Range(pr_of[p])
       /\ Resolved(p) => pr_resolvers[p] = << >>
       /\ Rejected(p) => pr_rejecters[p] = << >>

(* The first outcome of a promise is its only one, whatever handlers do to  *)
(* it or to others while callbacks run (resolve and reject).               *)
PrSettledOnce ==
  [][\A p \in Promises :
       Settled(p) => pr_state'[p] = pr_state[p] /\ pr_value'[p] = pr_value[p]]_pr_vars

(* No handler runs twice: the promise of a handler that is about to run is  *)
(* pending, and no second run of it is waiting, although a finally is       *)
(* registered for both outcomes and handlers settle other promises.        *)
PrHandlerOnce ==
  \A i \in DOMAIN todo : pr_kind[todo[i].target] \in Chains =>
    /\ Pending(todo[i].target)
    /\ \A j \in DOMAIN todo : todo[j].target = todo[i].target => i = j

(* A promise made on one that was still pending then, which took the        *)
(* outcome that is not listened to (then, catch, all and race).            *)
MissedIt(p, q) ==
  /\ q \in pr_late[p]
  /\ CASE pr_kind[p] = "then" -> Rejected(q)
       [] pr_kind[p] = "catch" -> Resolved(q)
       [] pr_kind[p] \in Joins -> Rejected(q)
       [] OTHER -> FALSE

WaitsFor(p, q) == Pending(q) \/ MissedIt(p, q)

(* Every outcome is delivered once to all who listen to it: no handler runs *)
(* twice, and when nothing is left to run the promises still pending are    *)
(* those that wait for a pending one or missed its outcome, and no others.  *)
PrDelivered ==
  /\ PrHandlerOnce
  /\ ~Running =>
       \A p \in Made : pr_kind[p] \in Chains \cup Joins =>
         (Pending(p) <=>
            IF pr_kind[p] = "all"
              THEN /\ \E q \in Range(pr_of[p]) : WaitsFor(p, q)
                   /\ \A q \in Range(pr_of[p]) : Rejected(q) => q \in pr_late[p]
              ELSE \A q \in Range(pr_of[p]) : WaitsFor(p, q))
=============================================================================
