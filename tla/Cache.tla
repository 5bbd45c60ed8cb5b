-------------------------------- MODULE Cache --------------------------------
(* The in-memory cache (src/src/stdlib-cache.ts): one map for the process,   *)
(* entries that expire, and waiters that poll for a key and consume it.     *)
(*                                                                          *)
(* Time is a step: an entry's moment comes, and has gone by in the next      *)
(* millisecond; a waiter's time limit is reached.  What is stored is told    *)
(* apart by the number of the write that stored it.                         *)
EXTENDS Integers, FiniteSets

CONSTANTS
  CaKeys, CaWaiters,
  CaLastWrite       \* bound: values stored

ASSUME CacheAssumption == CaLastWrite \in Nat /\ IsFiniteSet(CaKeys)

NoEntry == 0
CaWrites == 1 .. CaLastWrite

VARIABLES
  ca_writes,
  ca_value,         \* _cache: the write whose value a key has, or NoEntry
  ca_expires,       \* how expiresAt lies to the clock
  ca_wait,          \* a call of wait_for_cache: idle, polling, late (the time
                    \* limit is over), resolved
  ca_key,           \* the key it waits for
  ca_got            \* the write it was resolved with, or NoEntry for null

ca_vars == <<ca_writes, ca_value, ca_expires, ca_wait, ca_key, ca_got>>

CaClock == {"never", "ahead", "now", "past"}

CaInit ==
  /\ ca_writes = 0
  /\ ca_value = [k \in CaKeys |-> NoEntry]
  /\ ca_expires = [k \in CaKeys |-> "never"]
  /\ ca_wait = [w \in CaWaiters |-> "idle"]
  /\ ca_key \in [CaWaiters -> CaKeys]
  /\ ca_got = [w \in CaWaiters |-> NoEntry]

CaHas(k) == ca_value[k] # NoEntry
CaExpired(k) == ca_expires[k] = "past"
CaWaitersStay == UNCHANGED <<ca_wait, ca_key, ca_got>>

CaDrop(keys) ==
  /\ ca_value' = [k \in CaKeys |-> IF k \in keys THEN NoEntry ELSE ca_value[k]]
  /\ ca_expires' = [k \in CaKeys |-> IF k \in keys THEN "never" ELSE ca_expires[k]]
  /\ UNCHANGED ca_writes

-----------------------------------------------------------------------------
(* cache_set, cache_set_ttl and cache_mset: without a time, for ever.       *)

CaStore(keys, expires) ==
  /\ keys # {} /\ ca_writes + Cardinality(keys) <= CaLastWrite
  /\ \E number \in [keys -> ca_writes + 1 .. ca_writes + Cardinality(keys)] :
       /\ \A k, l \in keys : k # l => number[k] # number[l]
       /\ ca_value' = [k \in CaKeys |-> IF k \in keys THEN number[k] ELSE ca_value[k]]
  /\ ca_expires' = [k \in CaKeys |-> IF k \in keys THEN expires ELSE ca_expires[k]]
  /\ ca_writes' = ca_writes + Cardinality(keys)
  /\ CaWaitersStay

CaSet == \E keys \in SUBSET CaKeys, expires \in {"never", "ahead"} : CaStore(keys, expires)

(* cache_incr counts on, whether or not the entry has expired, and leaves    *)
(* the time as it is.                                                      *)
CaIncr(k) == CaStore({k}, IF CaHas(k) THEN ca_expires[k] ELSE "never")

-----------------------------------------------------------------------------
(* What removes entries: cache_get, cache_has and cache_mget those they find *)
(* expired, cache_ttl one whose last moment it is too, cache_del and        *)
(* cache_clear those they are told to, the timer all that have expired.     *)

CaLookup(keys) ==
  /\ CaDrop({k \in keys : CaExpired(k)})
  /\ CaWaitersStay

CaTtl(k) ==
  /\ CaDrop({k} \cap {l \in CaKeys : ca_expires[l] \in {"now", "past"}})
  /\ CaWaitersStay

CaClear(keys) ==
  /\ CaDrop(keys)
  /\ CaWaitersStay

CaSweep == CaLookup(CaKeys)

-----------------------------------------------------------------------------
(* wait_for_cache: it looks at once, and again from a timer as long as there *)
(* is nothing to take and its time is not over.                             *)

CaTakeExpiring(k) ==      \* a defect: only what has a time limit is consumed
  CaDrop({k} \cap {l \in CaKeys : ca_expires[l] # "never"})
CaTake(k) == CaDrop({k})

CaResolve(w, value) ==
  /\ ca_wait' = [ca_wait EXCEPT ![w] = "resolved"]
  /\ ca_got' = [ca_got EXCEPT ![w] = value]
  /\ UNCHANGED ca_key

CaCheck(w) ==
  /\ ca_wait[w] \in {"idle", "polling", "late"}
  /\ LET k == ca_key[w] IN
     \/ /\ CaHas(k) /\ ~CaExpired(k)
        /\ CaTake(k)
        /\ CaResolve(w, ca_value[k])
     \/ /\ ~(CaHas(k) /\ ~CaExpired(k))
        /\ UNCHANGED <<ca_writes, ca_value, ca_expires>>
        /\ IF ca_wait[w] = "late"
             THEN CaResolve(w, NoEntry)
             ELSE /\ ca_wait' = [ca_wait EXCEPT ![w] = "polling"]
                  /\ UNCHANGED <<ca_key, ca_got>>

-----------------------------------------------------------------------------
CaTime ==
  /\ UNCHANGED <<ca_writes, ca_value, ca_key, ca_got>>
  /\ \/ \E k \in CaKeys :
          /\ ca_expires[k] \in {"ahead", "now"}
          /\ ca_expires' = [ca_expires EXCEPT ![k] = IF @ = "ahead" THEN "now" ELSE "past"]
          /\ UNCHANGED ca_wait
     \/ \E w \in CaWaiters :
          /\ ca_wait[w] \in {"idle", "polling"}    \* a limit of 0 is over at once
          /\ ca_wait' = [ca_wait EXCEPT ![w] = "late"]
          /\ UNCHANGED ca_expires

CaNext ==
  \/ CaSet
  \/ \E k \in CaKeys : CaIncr(k) \/ CaTtl(k)
  \/ \E keys \in SUBSET CaKeys : CaLookup(keys) \/ CaClear(keys)
  \/ CaSweep
  \/ \E w \in CaWaiters : CaCheck(w)
  \/ CaTime

CaSpec == CaInit /\ [][CaNext]_ca_vars

-----------------------------------------------------------------------------
(* Properties.                                                             *)

CaTypeOK ==
  /\ ca_writes \in 0 .. CaLastWrite
  /\ ca_value \in [CaKeys -> CaWrites \cup {NoEntry}]
  /\ ca_expires \in [CaKeys -> CaClock]
  /\ \A k \in CaKeys : ~CaHas(k) => ca_expires[k] = "never"
  /\ ca_wait \in [CaWaiters -> {"idle", "polling", "late", "resolved"}]
  /\ ca_key \in [CaWaiters -> CaKeys]
  /\ ca_got \in [CaWaiters -> CaWrites \cup {NoEntry}]

(* A value goes to one waiter at most, however many poll for its key, and    *)
(* when a waiter has taken it nobody finds it any more (wait_for_cache      *)
(* consumes what it answers).                                              *)
CaTakenOnce ==
  \A w \in CaWaiters : ca_got[w] # NoEntry =>
    /\ \A k \in CaKeys : ca_value[k] # ca_got[w]
    /\ \A other \in CaWaiters \ {w} : ca_got[other] # ca_got[w]
=============================================================================
