------------------------------- MODULE PubSub -------------------------------
(* Publish and subscribe (src/src/stdlib-pubsub.ts).                         *)
(*                                                                          *)
(* A topic's subscriptions are an array.  publish walks the array it found  *)
(* when it was called and calls one handler after the other; a handler is   *)
(* user code and may subscribe, unsubscribe and publish, on the same topic  *)
(* too, before it returns or throws.  At its end publish makes an array     *)
(* without the once-only subscriptions it has called, from the one it       *)
(* walked, and puts it in the registry.                                     *)
EXTENDS Integers, Sequences, FiniteSets, SequencesExt, Selection

CONSTANTS
  PsTopics,
  PsLastSub,     \* bound: subscriptions ever made
  PsDepth,       \* bound: publishes inside one another
  PsMaxPublish   \* bound: publishes

ASSUME PubSubAssumption ==
  {PsLastSub, PsDepth, PsMaxPublish} \subseteq Nat

PsSubs == 1 .. PsLastSub

(* An array is made by a subscription or at the end of a publish.           *)
PsArrays == 1 .. PsLastSub + PsMaxPublish

VARIABLES
  ps_topics,      \* the array the registry has for a topic, 0 for none
  ps_array,       \* what each array holds
  ps_arrays,      \* arrays made
  ps_counter,     \* _subCounter
  ps_once,        \* the once-only subscriptions
  ps_walks,       \* the publishes that are on, innermost first
  ps_published,
  ps_removed,     \* history: subscriptions removed by name, topic or all
  ps_calls,       \* history: how often each handler was called
  ps_replaced     \* history: a publish put its array, or none, in the place of
                  \* another than the one it had walked

ps_vars == <<ps_topics, ps_array, ps_arrays, ps_counter, ps_once, ps_walks,
             ps_published, ps_removed, ps_calls, ps_replaced>>

PsInit ==
  /\ ps_topics = [t \in PsTopics |-> 0]
  /\ ps_array = [a \in PsArrays |-> << >>]
  /\ ps_arrays = 0
  /\ ps_counter = 0
  /\ ps_once = {}
  /\ ps_walks = << >>
  /\ ps_published = 0
  /\ ps_removed = {}
  /\ ps_calls = [s \in PsSubs |-> 0]
  /\ ps_replaced = FALSE

PsWalk == ps_walks[1]
PsWalking == ps_walks # << >>
PsCalling == PsWalking /\ PsWalk.called # 0     \* a handler is running

(* Code runs when no publish is on, or in a handler.                       *)
PsUserRuns == ~PsWalking \/ PsCalling

-----------------------------------------------------------------------------
(* Subscriptions.                                                          *)

PsSubscribe(t, once) ==
  /\ PsUserRuns
  /\ ps_counter < PsLastSub
  /\ ps_counter' = ps_counter + 1
  /\ ps_once' = IF once THEN ps_once \cup {ps_counter + 1} ELSE ps_once
  /\ IF ps_topics[t] # 0
       THEN /\ ps_array' = [ps_array EXCEPT ![ps_topics[t]] = Append(@, ps_counter + 1)]
            /\ UNCHANGED <<ps_topics, ps_arrays>>
       ELSE /\ ps_arrays' = ps_arrays + 1
            /\ ps_topics' = [ps_topics EXCEPT ![t] = ps_arrays + 1]
            /\ ps_array' = [ps_array EXCEPT ![ps_arrays + 1] = <<ps_counter + 1>>]
  /\ UNCHANGED <<ps_walks, ps_published, ps_removed, ps_calls, ps_replaced>>

PsHeld(t) == IF ps_topics[t] = 0 THEN {} ELSE Range(ps_array[ps_topics[t]])
PsWithout(seq, s) == RemoveAt(seq, CHOOSE i \in DOMAIN seq : seq[i] = s)

PsGone(rest) == rest = << >>

(* A walk of the array the subscription is taken from goes on at the same   *)
(* index of the shorter array.                                             *)
PsUnsubscribe(s) ==
  /\ PsUserRuns
  /\ \E t \in PsTopics :
       /\ s \in PsHeld(t)
       /\ LET a == ps_topics[t] rest == PsWithout(ps_array[a], s) IN
          /\ ps_array' = [ps_array EXCEPT ![a] = rest]
          /\ ps_topics' = IF PsGone(rest) THEN [ps_topics EXCEPT ![t] = 0] ELSE ps_topics
          /\ ps_walks' = [i \in DOMAIN ps_walks |->
                            IF ps_walks[i].array = a
                              THEN [ps_walks[i] EXCEPT !.cut = @ + 1] ELSE ps_walks[i]]
  /\ ps_removed' = ps_removed \cup {s}
  /\ UNCHANGED <<ps_arrays, ps_counter, ps_once, ps_published,
                 ps_calls, ps_replaced>>

PsUnsubscribeAll(topics) ==
  /\ PsUserRuns
  /\ \E t \in topics : ps_topics[t] # 0
  /\ ps_topics' = [t \in PsTopics |-> IF t \in topics THEN 0 ELSE ps_topics[t]]
  /\ ps_removed' = ps_removed \cup UNION {PsHeld(t) : t \in topics}
  /\ UNCHANGED <<ps_array, ps_arrays, ps_counter, ps_once, ps_walks, ps_published,
                 ps_calls, ps_replaced>>

-----------------------------------------------------------------------------
(* Publishing.                                                             *)

PsPublish(t) ==
  /\ PsUserRuns
  /\ ps_topics[t] # 0
  /\ Len(ps_walks) < PsDepth /\ ps_published < PsMaxPublish
  /\ ps_published' = ps_published + 1
  /\ ps_walks' = <<[topic |-> t, array |-> ps_topics[t], at |-> 1, called |-> 0,
                    count |-> 0, spent |-> {}, start |-> PsHeld(t), seen |-> << >>,
                    cut |-> 0]>> \o ps_walks
  /\ UNCHANGED <<ps_topics, ps_array, ps_arrays, ps_counter, ps_once, ps_removed,
                 ps_calls, ps_replaced>>

PsMore == PsWalk.at <= Len(ps_array[PsWalk.array])

PsCall ==
  /\ PsWalking /\ ~PsCalling /\ PsMore
  /\ LET s == ps_array[PsWalk.array][PsWalk.at] IN
     /\ ps_walks' = [ps_walks EXCEPT ![1].called = s, ![1].seen = Append(@, s)]
     /\ ps_calls' = [ps_calls EXCEPT ![s] = @ + 1]
  /\ UNCHANGED <<ps_topics, ps_array, ps_arrays, ps_counter, ps_once, ps_published,
                 ps_removed, ps_replaced>>

(* The handler returns or throws; a once-only one is spent either way.     *)
PsSpent == PsWalk.spent \cup ({PsWalk.called} \cap ps_once)
PsRetry(returned) ==                    \* a defect: a throw does not advance
  IF returned THEN PsWalk.at + 1 ELSE PsWalk.at
PsForward(returned) == PsWalk.at + 1

PsReturn(returned) ==
  /\ PsCalling
  /\ ps_walks' = [ps_walks EXCEPT
       ![1].called = 0, ![1].at = PsForward(returned),
       ![1].count = IF returned THEN @ + 1 ELSE @,
       ![1].spent = PsSpent]
  /\ UNCHANGED <<ps_topics, ps_array, ps_arrays, ps_counter, ps_once, ps_published,
                 ps_removed, ps_calls, ps_replaced>>

PsRemainingAll == ps_array[PsWalk.array]   \* a defect: once-only ones stay
PsRemaining == Selected(ps_array[PsWalk.array], PsSubs \ PsWalk.spent)

PsEnd ==
  /\ PsWalking /\ ~PsCalling /\ ~PsMore
  /\ ps_walks' = Tail(ps_walks)
  /\ \/ /\ PsWalk.spent = {}
        /\ UNCHANGED <<ps_topics, ps_array, ps_arrays>>
     \/ /\ PsWalk.spent # {} /\ PsGone(PsRemaining)
        /\ ps_topics' = [ps_topics EXCEPT ![PsWalk.topic] = 0]
        /\ UNCHANGED <<ps_array, ps_arrays>>
     \/ /\ PsWalk.spent # {} /\ ~PsGone(PsRemaining)
        /\ ps_arrays' = ps_arrays + 1
        /\ ps_array' = [ps_array EXCEPT ![ps_arrays + 1] = PsRemaining]
        /\ ps_topics' = [ps_topics EXCEPT ![PsWalk.topic] = ps_arrays + 1]
  /\ ps_replaced' = (ps_replaced \/ (PsWalk.spent # {}
                                      /\ ps_topics[PsWalk.topic] # PsWalk.array))
  /\ UNCHANGED <<ps_counter, ps_once, ps_published, ps_removed, ps_calls>>

PsNext ==
  \/ \E t \in PsTopics, once \in BOOLEAN : PsSubscribe(t, once)
  \/ \E s \in PsSubs : PsUnsubscribe(s)
  \/ \E t \in PsTopics : PsUnsubscribeAll({t}) \/ PsPublish(t)
  \/ PsUnsubscribeAll(PsTopics)
  \/ PsCall \/ PsEnd
  \/ \E returned \in BOOLEAN : PsReturn(returned)

PsSpec == PsInit /\ [][PsNext]_ps_vars

-----------------------------------------------------------------------------
(* Properties.                                                             *)

PsTypeOK ==
  /\ ps_topics \in [PsTopics -> 0 .. ps_arrays]
  /\ ps_arrays \in 0 .. PsLastSub + PsMaxPublish
  /\ ps_array \in [PsArrays -> Seq(PsSubs)]
  /\ ps_counter \in 0 .. PsLastSub
  /\ ps_once \subseteq 1 .. ps_counter /\ ps_removed \subseteq 1 .. ps_counter
  /\ ps_published \in 0 .. PsMaxPublish
  /\ ps_calls \in [PsSubs -> Nat]
  /\ \A i \in DOMAIN ps_walks :
       LET walk == ps_walks[i] IN
       /\ walk.topic \in PsTopics /\ walk.array \in 1 .. ps_arrays
       /\ walk.called \in Range(walk.seen) \cup {0}
       /\ walk.spent \subseteq ps_once \cap Range(walk.seen)
       /\ walk.count <= Len(walk.seen)

(* A topic that is listed has a subscriber, and a subscription is held for  *)
(* one topic and once, whatever handlers do to the registry while it is     *)
(* walked (pubsub_topics: active topics with at least one subscriber).     *)
PsActive ==
  \A t \in PsTopics : ps_topics[t] # 0 =>
    /\ ps_array[ps_topics[t]] # << >>
    /\ IsInjective(ps_array[ps_topics[t]])
    /\ \A u \in PsTopics \ {t} : PsHeld(t) \cap PsHeld(u) = {}

(* A publish calls nobody twice, and everyone who was subscribed when it    *)
(* began and has not been removed since, but for one subscriber for each    *)
(* removal from the array under its walk (the loop of pubsub_publish).     *)
PsDelivered ==
  (PsWalking /\ ~PsCalling /\ ~PsMore) =>
    /\ IsInjective(PsWalk.seen)
    /\ Cardinality(PsWalk.start \ (Range(PsWalk.seen) \cup ps_removed)) <= PsWalk.cut

(* As long as no publish has put its array in the place of another than the *)
(* one it walked, the registry is exact: it has the subscriptions that were *)
(* made, less those removed and the once-only ones that have been called    *)
(* (one that a running publish has called may still be there).             *)
PsInUse(s) == \E i \in DOMAIN ps_walks : s \in ps_walks[i].spent \cup {ps_walks[i].called}

PsKept ==
  ~ps_replaced =>
    \A s \in 1 .. ps_counter : ~PsInUse(s) =>
      ((\E t \in PsTopics : s \in PsHeld(t))
         <=> s \notin ps_removed /\ (s \in ps_once => ps_calls[s] = 0))

(* Handlers that subscribe, unsubscribe and publish while they are called   *)
(* leave the registry and the delivery as the three say.                    *)
PsOrderly == PsActive /\ PsDelivered /\ PsKept
=============================================================================
