---------------------------- MODULE RuntimeProofs ----------------------------
(* What TLAPS proves of three parts of the TypeScript runtime, whatever     *)
(* their sizes: the distributed executor, for every number of items and     *)
(* workers and every batch; the evidence bus with its timers, for every     *)
(* ring, every threshold and every number of timers and errors; and the     *)
(* promises, for every number of them.                                     *)
EXTENDS Distributed, SisBus, FlPromise, FiniteSetTheorems, SequenceTheorems, TLAPS

-----------------------------------------------------------------------------
(* The distributed executor.                                               *)

(* A batch that is handed out holds an item.                               *)
LEMMA BatchHasItem ==
  ASSUME NEW b \in Nat, b < Batches
  PROVE  b * DiBatch < DiItems
<1> DEFINE q == Batches
           n == DiItems + DiBatch - 1
<1>1. q \in Int /\ n \in Nat /\ q * DiBatch <= n
  BY DistributedAssumption, Z3 DEF Batches
<1>2. (q - (b + 1)) * DiBatch >= 0
  <2>1. q - (b + 1) \in Nat
    BY <1>1
  <2>2. \A x, y \in Nat : x * y \in Nat
    OBVIOUS
  <2>3. DiBatch \in Nat
    BY DistributedAssumption
  <2> QED
    BY <2>1, <2>2, <2>3
<1>3. q * DiBatch - (b + 1) * DiBatch >= 0
  BY <1>1, <1>2, DistributedAssumption
<1>4. (b + 1) * DiBatch = b * DiBatch + DiBatch
  BY DistributedAssumption
<1> QED
  BY <1>1, <1>3, <1>4, DistributedAssumption

(* A batch ends where the next one starts, or before.                      *)
LEMMA BatchesApart ==
  ASSUME NEW a \in Nat, NEW b \in Nat, a < b
  PROVE  a * DiBatch + DiBatch <= b * DiBatch
<1>1. (b - (a + 1)) * DiBatch \in Nat
  <2>1. b - (a + 1) \in Nat
    OBVIOUS
  <2>2. \A x, y \in Nat : x * y \in Nat
    OBVIOUS
  <2>3. DiBatch \in Nat
    BY DistributedAssumption
  <2> QED
    BY <2>1, <2>2, <2>3
<1> QED
  BY <1>1, DistributedAssumption

-----------------------------------------------------------------------------
(* The type invariant in two parts: what the control depends on, and the    *)
(* counters and arrays.                                                    *)
PlacesOK ==
  /\ di_at \in [Worker -> {"take", "process", "sync", "last sync", "done", "gone"}]
  /\ di_batch \in [Worker -> {-1} \cup 0 .. Batches - 1]
  /\ di_item \in [Worker -> 0 .. DiItems]
  /\ di_next \in Nat
  /\ di_outcome \in [Item -> {"todo", "ok", "failed", "broke"}]

CountsOK ==
  /\ di_processed \in [Worker -> Nat] /\ di_failed \in [Worker -> Nat]
  /\ di_results \in Seq(Item) /\ di_errors \in Seq(Item)
  /\ di_checksum \in [Worker -> [processed : Nat, failed : Nat, count : Nat \cup {-1}]]
  /\ di_sync_count \in Nat

LEMMA TypeParts == DiTypeOK <=> PlacesOK /\ CountsOK
  BY Zenon DEF DiTypeOK, PlacesOK, CountsOK

(* The inductive invariant.  What a worker has yet to do of its batch is    *)
(* untouched, no two workers have the same batch, and nothing of a batch    *)
(* that has not been handed out is done.                                   *)
InBatch(w) ==
  /\ di_batch[w] \in Nat /\ di_batch[w] < Batches /\ di_batch[w] < di_next
  /\ StartOf(di_batch[w]) <= di_item[w] /\ di_item[w] < EndOf(di_batch[w])
  /\ \A i \in Item :
       di_item[w] <= i /\ i < EndOf(di_batch[w]) => di_outcome[i] = "todo"

AllInBatch == \A w \in Worker : di_at[w] = "process" => InBatch(w)

BatchesDiffer ==
  \A v, w \in Worker :
    v # w /\ di_at[v] = "process" /\ di_at[w] = "process" => di_batch[v] # di_batch[w]

RestUntouched ==
  \A i \in Item : di_next * DiBatch <= i => di_outcome[i] = "todo"

DiIInv ==
  /\ PlacesOK /\ CountsOK
  /\ AllInBatch
  /\ BatchesDiffer
  /\ RestUntouched

(* The end of a batch.                                                     *)
LEMMA EndBounds ==
  ASSUME NEW b \in Nat
  PROVE  /\ StartOf(b) \in Nat /\ EndOf(b) \in Nat
         /\ EndOf(b) <= DiItems /\ EndOf(b) <= b * DiBatch + DiBatch
<1>1. b * DiBatch \in Nat
  <2>1. \A x, y \in Nat : x * y \in Nat
    OBVIOUS
  <2> QED
    BY <2>1, DistributedAssumption
<1> QED
  BY <1>1, DistributedAssumption DEF StartOf, EndOf

LEMMA DiInitInvariant == DiInit => DiIInv
<1> SUFFICES ASSUME DiInit PROVE DiIInv
  OBVIOUS
<1>1. Batches \in Nat
  BY DistributedAssumption, Z3 DEF Batches
<1>2. PlacesOK
  BY <1>1, DistributedAssumption DEF DiInit, PlacesOK, Worker, Item
<1>3. CountsOK
  BY DEF DiInit, CountsOK, NoChecksum
<1> QED
  BY <1>2, <1>3 DEF DiInit, DiIInv, AllInBatch, BatchesDiffer, RestUntouched, Item

LEMMA PlaceFacts ==
  ASSUME PlacesOK, NEW w \in Worker
  PROVE  di_item[w] \in Nat /\ di_item[w] <= DiItems /\ di_next \in Nat
<1>1. di_item[w] \in 0 .. DiItems /\ di_next \in Nat
  BY DEF PlacesOK
<1> QED
  BY <1>1, DistributedAssumption

(* The item a worker processes is its own and still to be done, and it is   *)
(* of a batch that has been handed out.                                    *)
LEMMA OwnItem ==
  ASSUME DiIInv, NEW w \in Worker, di_at[w] = "process"
  PROVE  /\ di_item[w] \in Item
         /\ di_outcome[di_item[w]] = "todo"
         /\ di_item[w] < di_next * DiBatch
         /\ \A v \in Worker \ {w} : di_at[v] = "process" =>
              ~(di_item[v] <= di_item[w] /\ di_item[w] < EndOf(di_batch[v]))
<1> USE DEF DiIInv
<1>1. InBatch(w) /\ di_next \in Nat /\ di_item[w] \in Nat
  <2>1. InBatch(w)
    BY DEF AllInBatch
  <2>2. di_next \in Nat /\ di_item[w] \in Nat
    BY PlaceFacts
  <2> QED
    BY <2>1, <2>2
<1>2. di_item[w] < DiItems /\ di_item[w] < di_batch[w] * DiBatch + DiBatch
  BY <1>1, EndBounds, DistributedAssumption DEF InBatch
<1>3. di_item[w] \in Item
  BY <1>1, <1>2, DistributedAssumption DEF Item
<1>4. di_batch[w] * DiBatch + DiBatch <= di_next * DiBatch
  BY <1>1, BatchesApart DEF InBatch
<1>5. di_item[w] < di_next * DiBatch
  <2>1. di_batch[w] * DiBatch \in Int /\ di_next * DiBatch \in Int
    BY <1>1, DistributedAssumption DEF InBatch
  <2> QED
    BY <1>1, <1>2, <1>4, <2>1, DistributedAssumption
<1>6. ASSUME NEW v \in Worker \ {w}, di_at[v] = "process",
             di_item[v] <= di_item[w], di_item[w] < EndOf(di_batch[v])
      PROVE  FALSE
  <2>1. InBatch(v) /\ di_item[v] \in Nat /\ di_batch[v] # di_batch[w]
    <3>1. InBatch(v)
      BY <1>6 DEF AllInBatch
    <3>2. di_item[v] \in Nat
      BY <1>6, PlaceFacts
    <3>3. di_batch[v] # di_batch[w]
      BY <1>6 DEF BatchesDiffer
    <3> QED
      BY <3>1, <3>2, <3>3
  <2>2. /\ StartOf(di_batch[v]) <= di_item[w]
        /\ di_item[w] < di_batch[v] * DiBatch + DiBatch
    BY <1>1, <1>6, <2>1, EndBounds, DistributedAssumption DEF InBatch
  <2>3. CASE di_batch[v] < di_batch[w]
    <3>1. di_batch[v] * DiBatch + DiBatch <= di_batch[w] * DiBatch
      BY <1>1, <2>1, <2>3, BatchesApart DEF InBatch
    <3>2. di_batch[w] * DiBatch <= di_item[w]
      BY <1>1 DEF InBatch, StartOf
    <3>3. di_batch[v] * DiBatch \in Int /\ di_batch[w] * DiBatch \in Int
      BY <1>1, <2>1, DistributedAssumption DEF InBatch
    <3> QED
      BY <1>1, <2>2, <3>1, <3>2, <3>3, DistributedAssumption
  <2>4. CASE di_batch[w] < di_batch[v]
    <3>1. di_batch[w] * DiBatch + DiBatch <= di_batch[v] * DiBatch
      BY <1>1, <2>1, <2>4, BatchesApart DEF InBatch
    <3> QED
      BY <1>1, <1>2, <2>1, <2>2, <3>1, EndBounds, DistributedAssumption DEF InBatch, StartOf
  <2> QED
    BY <1>1, <2>1, <2>3, <2>4 DEF InBatch
<1>7. di_outcome[di_item[w]] = "todo"
  BY <1>1, <1>3 DEF InBatch
<1> QED
  BY <1>3, <1>5, <1>6, <1>7

-----------------------------------------------------------------------------
(* A worker takes a batch, or finds none left.                             *)
LEMMA TakeInvariant ==
  ASSUME DiIInv, NEW w \in Worker, DiTake(w)
  PROVE  DiIInv'
<1>1. di_next \in Nat /\ di_next' = di_next + 1 /\ UNCHANGED di_outcome
  BY DEF DiIInv, PlacesOK, DiTake
<1>2. RestUntouched'
  <2>1. di_next * DiBatch <= (di_next + 1) * DiBatch
    BY <1>1, DistributedAssumption
  <2>2. di_next * DiBatch \in Int /\ (di_next + 1) * DiBatch \in Int
    BY <1>1, DistributedAssumption
  <2> QED
    BY <1>1, <2>1, <2>2, DistributedAssumption DEF DiIInv, RestUntouched, Item
<1>3. CASE di_next < Batches
  <2>1. /\ di_at' = [di_at EXCEPT ![w] = "process"]
        /\ di_batch' = [di_batch EXCEPT ![w] = di_next]
        /\ di_item' = [di_item EXCEPT ![w] = StartOf(di_next)]
    BY <1>3 DEF DiTake, SharedNext
  <2>2. StartOf(di_next) \in Nat /\ StartOf(di_next) < DiItems
    BY <1>1, <1>3, BatchHasItem, EndBounds DEF StartOf
  <2>3. Batches \in Int
    BY DistributedAssumption, Z3 DEF Batches
  <2>4. PlacesOK'
    <3>1. di_at' \in [Worker -> {"take", "process", "sync", "last sync", "done", "gone"}]
      BY <2>1 DEF DiIInv, PlacesOK
    <3>2. di_next \in 0 .. Batches - 1 /\ StartOf(di_next) \in 0 .. DiItems
      BY <1>1, <1>3, <2>2, <2>3, DistributedAssumption
    <3>3. di_batch' \in [Worker -> {-1} \cup 0 .. Batches - 1]
      BY <2>1, <3>2 DEF DiIInv, PlacesOK
    <3>4. di_item' \in [Worker -> 0 .. DiItems]
      BY <2>1, <3>2 DEF DiIInv, PlacesOK
    <3>5. di_next' \in Nat
      BY <1>1
    <3>6. di_outcome' \in [Item -> {"todo", "ok", "failed", "broke"}]
      BY <1>1 DEF DiIInv, PlacesOK
    <3> QED
      BY <3>1, <3>3, <3>4, <3>5, <3>6 DEF PlacesOK, Batches, Item, Worker
  <2>7. CountsOK'
    BY DEF DiIInv, CountsOK, DiTake
  <2>5. ASSUME NEW v \in Worker, di_at'[v] = "process" PROVE InBatch(v)'
    <3>1. CASE v = w
      <4>1. di_batch'[w] = di_next /\ di_item'[w] = StartOf(di_next)
        BY <2>1 DEF DiIInv, PlacesOK
      <4>2. StartOf(di_next) < EndOf(di_next)
        BY <2>2, DistributedAssumption DEF EndOf
      <4>3. \A i \in Item : StartOf(di_next) <= i => di_outcome[i] = "todo"
        BY DEF DiIInv, RestUntouched, StartOf
      <4> QED
        BY <1>1, <1>3, <2>2, <3>1, <4>1, <4>2, <4>3 DEF InBatch, StartOf, EndOf, Item, Batches
    <3>2. CASE v # w
      <4>1. di_at[v] = "process" /\ di_batch'[v] = di_batch[v] /\ di_item'[v] = di_item[v]
        BY <2>1, <2>5, <3>2 DEF DiIInv, PlacesOK
      <4>2. InBatch(v)
        BY <4>1 DEF DiIInv, AllInBatch
      <4> QED
        BY <1>1, <4>1, <4>2 DEF InBatch, StartOf, EndOf, Item, Batches
    <3> QED
      BY <3>1, <3>2
  <2>6. BatchesDiffer'
    <3>1. \A v \in Worker \ {w} : di_at[v] = "process" => di_batch[v] < di_next
      BY DEF DiIInv, AllInBatch, InBatch
    <3> QED
      <4>1. BatchesDiffer /\ di_batch'[w] = di_next
        BY <2>1 DEF DiIInv, PlacesOK
      <4>2. \A v \in Worker \ {w} : di_batch'[v] = di_batch[v] /\ di_at'[v] = di_at[v]
        BY <2>1 DEF DiIInv, PlacesOK
      <4>3. \A v \in Worker \ {w} : di_at[v] = "process" => di_batch[v] \in Nat
        BY DEF DiIInv, AllInBatch, InBatch
      <4> QED
        BY <1>1, <3>1, <4>1, <4>2, <4>3 DEF BatchesDiffer
  <2> QED
    BY <1>2, <2>4, <2>5, <2>6, <2>7 DEF DiIInv, AllInBatch
<1>4. CASE ~(di_next < Batches)
  <2>1. /\ di_at' = [di_at EXCEPT ![w] = "last sync"]
        /\ UNCHANGED <<di_batch, di_item>>
    BY <1>4 DEF DiTake, SharedNext
  <2>2. PlacesOK'
    <3>1. di_at' \in [Worker -> {"take", "process", "sync", "last sync", "done", "gone"}]
      BY <2>1 DEF DiIInv, PlacesOK
    <3>2. di_next' \in Nat
      BY <1>1
    <3> QED
      BY <1>1, <2>1, <3>1, <3>2 DEF DiIInv, PlacesOK, Batches, Item, Worker
  <2>5. CountsOK'
    BY DEF DiIInv, CountsOK, DiTake
  <2>3. ASSUME NEW v \in Worker, di_at'[v] = "process" PROVE InBatch(v)'
    <3>1. InBatch(v)
      BY <2>1, <2>3 DEF DiIInv, PlacesOK, AllInBatch
    <3> QED
      <4>1. di_batch[v] < di_next'
        BY <1>1, <3>1 DEF InBatch
      <4> QED
        BY <1>1, <2>1, <3>1, <4>1 DEF InBatch, StartOf, EndOf, Item, Batches
  <2>4. BatchesDiffer'
    BY <2>1 DEF DiIInv, PlacesOK, BatchesDiffer
  <2> QED
    BY <1>2, <2>2, <2>3, <2>4, <2>5 DEF DiIInv, AllInBatch
<1> QED
  BY <1>3, <1>4

-----------------------------------------------------------------------------
(* The task of an item has answered or failed.                             *)
LEMMA ItemInvariant ==
  ASSUME DiIInv, NEW w \in Worker, di_at[w] = "process", AfterItem(w),
         NEW o \in {"ok", "failed"},
         di_outcome' = [di_outcome EXCEPT ![di_item[w]] = o],
         CountsOK'
  PROVE  DiIInv'
<1>1. /\ InBatch(w) /\ di_batch[w] \in Nat /\ di_item[w] \in Nat
      /\ di_item[w] \in Item /\ di_next \in Nat
  <2>1. InBatch(w)
    BY DEF DiIInv, AllInBatch
  <2> QED
    BY <2>1, OwnItem, PlaceFacts DEF DiIInv, InBatch
<1>2. PICK next \in {"process", "take", "sync"} :
        /\ di_at' = [di_at EXCEPT ![w] = next]
        /\ next = "process" => di_item[w] + 1 < EndOf(di_batch[w])
  BY DEF AfterItem
<1>3. /\ di_item' = [di_item EXCEPT ![w] = di_item[w] + 1]
      /\ UNCHANGED <<di_batch, di_next>>
  BY DEF AfterItem
<1>4. PlacesOK'
  <2>1. di_item[w] + 1 \in 0 .. DiItems
    BY <1>1, DistributedAssumption DEF Item
  <2>2. di_item' \in [Worker -> 0 .. DiItems]
    BY <1>3, <2>1 DEF DiIInv, PlacesOK
  <2>3. di_at' \in [Worker -> {"take", "process", "sync", "last sync", "done", "gone"}]
    BY <1>2 DEF DiIInv, PlacesOK
  <2>4. di_outcome' \in [Item -> {"todo", "ok", "failed", "broke"}]
    BY <1>1 DEF DiIInv, PlacesOK
  <2> QED
    BY <1>3, <2>2, <2>3, <2>4 DEF DiIInv, PlacesOK, Batches, Item, Worker
<1>5. ASSUME NEW v \in Worker, di_at'[v] = "process" PROVE InBatch(v)'
  <2>1. CASE v = w
    <3>1. di_item'[w] = di_item[w] + 1 /\ di_item[w] + 1 < EndOf(di_batch[w])
      BY <1>2, <1>3, <1>5, <2>1 DEF DiIInv, PlacesOK
    <3>2. StartOf(di_batch[w]) <= di_item'[w]
      BY <1>1, <3>1, EndBounds DEF InBatch
    <3>3. ASSUME NEW i \in Item, di_item[w] + 1 <= i, i < EndOf(di_batch[w])
          PROVE  di_outcome'[i] = "todo"
      <4>1. i # di_item[w] /\ di_item[w] <= i
        BY <1>1, <3>3, DistributedAssumption DEF Item
      <4> QED
        BY <1>1, <3>3, <4>1 DEF DiIInv, PlacesOK, InBatch
    <3> QED
      BY <1>1, <1>3, <2>1, <3>1, <3>2, <3>3 DEF InBatch, StartOf, EndOf, Item, Batches
  <2>2. CASE v # w
    <3>1. di_at[v] = "process" /\ di_item'[v] = di_item[v]
      BY <1>2, <1>3, <1>5, <2>2 DEF DiIInv, PlacesOK
    <3>2. InBatch(v)
      BY <3>1 DEF DiIInv, AllInBatch
    <3>3. ASSUME NEW i \in Item, di_item[v] <= i, i < EndOf(di_batch[v])
          PROVE  di_outcome'[i] = "todo"
      <4>1. i # di_item[w]
        BY <2>2, <3>1, <3>3, OwnItem
      <4> QED
        BY <3>2, <3>3, <4>1 DEF DiIInv, PlacesOK, InBatch
    <3> QED
      BY <1>3, <3>1, <3>2, <3>3 DEF InBatch, StartOf, EndOf, Item, Batches
  <2> QED
    BY <2>1, <2>2
<1>6. BatchesDiffer'
  <2>1. \A v \in Worker : di_at'[v] = "process" => di_at[v] = "process"
    BY <1>2 DEF DiIInv, PlacesOK
  <2> QED
    BY <1>3, <2>1 DEF DiIInv, BatchesDiffer
<1>7. RestUntouched'
  <2>1. di_item[w] < di_next * DiBatch
    BY OwnItem
  <2>2. di_next * DiBatch \in Int
    BY <1>1, DistributedAssumption
  <2>3. ASSUME NEW i \in Item, di_next * DiBatch <= i PROVE di_outcome'[i] = "todo"
    <3>1. i # di_item[w]
      BY <1>1, <2>1, <2>2, <2>3, DistributedAssumption DEF Item
    <3> QED
      BY <2>3, <3>1 DEF DiIInv, PlacesOK, RestUntouched
  <2> QED
    BY <1>3, <2>3 DEF RestUntouched, Item
<1> QED
  BY <1>4, <1>5, <1>6, <1>7 DEF DiIInv, AllInBatch

(* A worker records its checksum, now and then or for the last time.       *)
LEMMA SyncInvariant ==
  ASSUME DiIInv, NEW w \in Worker, Synchronised(w), NEW next \in {"take", "done"},
         di_at' = [di_at EXCEPT ![w] = next]
  PROVE  DiIInv'
<1>1. UNCHANGED <<di_batch, di_item, di_next, di_processed, di_failed, di_results,
                  di_errors, di_outcome>>
  BY DEF Synchronised
<1>2. PlacesOK'
  <2>1. di_at' \in [Worker -> {"take", "process", "sync", "last sync", "done", "gone"}]
    BY DEF DiIInv, PlacesOK
  <2> QED
    BY <1>1, <2>1 DEF DiIInv, PlacesOK, Batches, Item, Worker
<1>3. CountsOK'
  <2>1. Checksum(w) \in [processed : Nat, failed : Nat, count : Nat \cup {-1}]
    BY DEF DiIInv, CountsOK, Checksum
  <2>2. di_checksum' \in
          [Worker -> [processed : Nat, failed : Nat, count : Nat \cup {-1}]]
    BY <2>1, Zenon DEF DiIInv, CountsOK, Synchronised
  <2>3. di_sync_count' \in Nat
    BY DEF DiIInv, CountsOK, Synchronised
  <2> QED
    BY <1>1, <2>2, <2>3, Zenon DEF DiIInv, CountsOK, Item, Worker
<1>4. \A v \in Worker : di_at'[v] = "process" => di_at[v] = "process"
  BY DEF DiIInv, PlacesOK
<1>5. AllInBatch'
  BY <1>1, <1>4 DEF DiIInv, AllInBatch, InBatch, StartOf, EndOf, Item, Batches
<1>6. BatchesDiffer' /\ RestUntouched'
  BY <1>1, <1>4 DEF DiIInv, BatchesDiffer, RestUntouched, Item
<1> QED
  BY <1>2, <1>3, <1>5, <1>6 DEF DiIInv

(* An error of no description has ended a worker: the rest of its batch is  *)
(* nobody's any more.                                                      *)
LEMMA BreaksInvariant ==
  ASSUME DiIInv, NEW w \in Worker, DiItemBreaks(w)
  PROVE  DiIInv'
<1>1. /\ di_at[w] = "process" /\ di_at' = [di_at EXCEPT ![w] = "gone"]
      /\ di_failed' = [di_failed EXCEPT ![w] = @ + 1]
      /\ di_outcome' = [di_outcome EXCEPT ![di_item[w]] = "broke"]
      /\ UNCHANGED <<di_batch, di_item, di_next, di_processed, di_results, di_errors,
                     di_checksum, di_sync_count>>
  BY DEF DiItemBreaks
<1>2. /\ di_item[w] \in Item /\ di_next \in Nat /\ di_item[w] \in Nat
      /\ di_item[w] < di_next * DiBatch
  BY <1>1, OwnItem, PlaceFacts DEF DiIInv
<1>3. PlacesOK'
  <2>1. di_at' \in [Worker -> {"take", "process", "sync", "last sync", "done", "gone"}]
    BY <1>1 DEF DiIInv, PlacesOK
  <2>2. di_outcome' \in [Item -> {"todo", "ok", "failed", "broke"}]
    BY <1>1 DEF DiIInv, PlacesOK
  <2> QED
    BY <1>1, <2>1, <2>2 DEF DiIInv, PlacesOK, Batches, Item, Worker
<1>4. CountsOK'
  <2>1. di_failed' \in [Worker -> Nat]
    BY <1>1 DEF DiIInv, CountsOK
  <2> QED
    BY <1>1, <2>1 DEF DiIInv, CountsOK, Item, Worker
<1>5. \A v \in Worker : di_at'[v] = "process" => v # w /\ di_at[v] = "process"
  BY <1>1 DEF DiIInv, PlacesOK
<1>6. AllInBatch'
  <2> SUFFICES ASSUME NEW v \in Worker, di_at'[v] = "process" PROVE InBatch(v)'
    BY DEF AllInBatch, Worker
  <2>1. v # w /\ di_at[v] = "process" /\ InBatch(v)
    BY <1>5 DEF DiIInv, AllInBatch
  <2>2. ASSUME NEW i \in Item, di_item[v] <= i, i < EndOf(di_batch[v])
        PROVE  di_outcome'[i] = "todo"
    <3>1. i # di_item[w]
      BY <1>1, <2>1, <2>2, OwnItem
    <3> QED
      BY <1>1, <2>1, <2>2, <3>1 DEF DiIInv, PlacesOK, InBatch
  <2> QED
    BY <1>1, <2>1, <2>2 DEF InBatch, StartOf, EndOf, Item, Batches
<1>7. BatchesDiffer'
  BY <1>1, <1>5 DEF DiIInv, BatchesDiffer
<1>8. RestUntouched'
  <2>1. di_next * DiBatch \in Int
    BY <1>2, DistributedAssumption
  <2>2. ASSUME NEW i \in Item, di_next * DiBatch <= i PROVE di_outcome'[i] = "todo"
    <3>1. i # di_item[w]
      BY <1>2, <2>1, <2>2, DistributedAssumption DEF Item
    <3> QED
      BY <1>1, <2>2, <3>1 DEF DiIInv, PlacesOK, RestUntouched
  <2> QED
    BY <1>1, <2>2 DEF RestUntouched, Item
<1> QED
  BY <1>3, <1>4, <1>6, <1>7, <1>8 DEF DiIInv

LEMMA DiStepInvariant == DiIInv /\ [DiNext]_di_vars => DiIInv'
<1> SUFFICES ASSUME DiIInv, [DiNext]_di_vars PROVE DiIInv'
  OBVIOUS
<1>1. ASSUME NEW w \in Worker, DiTake(w) PROVE DiIInv'
  BY <1>1, TakeInvariant
<1>2. ASSUME NEW w \in Worker, DiItemOk(w) PROVE DiIInv'
  <2>1. di_at[w] = "process" /\ AfterItem(w)
    BY <1>2 DEF DiItemOk
  <2>2. di_item[w] \in Item
    BY <2>1, OwnItem
  <2>3. di_results' \in Seq(Item) /\ di_processed' \in [Worker -> Nat]
    BY <1>2, <2>2 DEF DiIInv, CountsOK, DiItemOk, Collect
  <2>4. CountsOK'
    BY <1>2, <2>3 DEF DiIInv, CountsOK, DiItemOk, AfterItem, Item, Worker
  <2> QED
    BY <1>2, <2>1, <2>4, ItemInvariant DEF DiItemOk
<1>3. ASSUME NEW w \in Worker, DiItemFails(w) PROVE DiIInv'
  <2>1. di_at[w] = "process" /\ AfterItem(w)
    BY <1>3 DEF DiItemFails
  <2>2. di_item[w] \in Item
    BY <2>1, OwnItem
  <2>3. di_errors' \in Seq(Item) /\ di_failed' \in [Worker -> Nat]
    BY <1>3, <2>2 DEF DiIInv, CountsOK, DiItemFails
  <2>4. CountsOK'
    BY <1>3, <2>3 DEF DiIInv, CountsOK, DiItemFails, AfterItem, Item, Worker
  <2> QED
    BY <1>3, <2>1, <2>4, ItemInvariant DEF DiItemFails
<1>4. ASSUME NEW w \in Worker, DiSync(w) PROVE DiIInv'
  BY <1>4, SyncInvariant DEF DiSync
<1>5. ASSUME NEW w \in Worker, DiLastSync(w) PROVE DiIInv'
  BY <1>5, SyncInvariant DEF DiLastSync
<1>7. ASSUME NEW w \in Worker, DiItemBreaks(w) PROVE DiIInv'
  BY <1>7, BreaksInvariant
<1>6. ASSUME UNCHANGED di_vars PROVE DiIInv'
  <2>1. PlacesOK' /\ CountsOK'
    BY <1>6 DEF DiIInv, PlacesOK, CountsOK, di_vars, Batches, Item, Worker
  <2>2. AllInBatch'
    BY <1>6 DEF DiIInv, di_vars, AllInBatch, InBatch, StartOf, EndOf, Item, Batches
  <2>3. BatchesDiffer' /\ RestUntouched'
    BY <1>6 DEF DiIInv, di_vars, BatchesDiffer, RestUntouched, Item
  <2> QED
    BY <2>1, <2>2, <2>3 DEF DiIInv
<1> QED
  BY <1>1, <1>2, <1>3, <1>4, <1>5, <1>6, <1>7 DEF DiNext, DiStep

-----------------------------------------------------------------------------
(* The inductive invariant holds in every reachable state.                 *)
THEOREM DiInvariance == DiSpec => []DiIInv
<1>1. DiInit => DiIInv
  BY DiInitInvariant
<1>2. DiIInv /\ [DiNext]_di_vars => DiIInv'
  BY DiStepInvariant
<1> QED
  BY <1>1, <1>2, PTL DEF DiSpec

(* Every field of the executor keeps its type (DistributedExecutor).       *)
THEOREM DiTypeCorrect == DiSpec => []DiTypeOK
<1>1. DiIInv => DiTypeOK
  BY TypeParts DEF DiIInv
<1> QED
  BY <1>1, DiInvariance, PTL

(* No item is in two workers' hands, or processed again (workerLoop).      *)
THEOREM NoOverlap == DiSpec => []DiNoOverlap
<1>1. DiIInv => DiNoOverlap
  <2> SUFFICES ASSUME DiIInv, NEW w \in Worker, di_at[w] = "process"
               PROVE  /\ di_outcome[di_item[w]] = "todo"
                      /\ \A v \in Worker \ {w} : di_at[v] = "process" =>
                           di_batch[v] # di_batch[w] /\ di_item[v] # di_item[w]
    BY DEF DiNoOverlap
  <2>1. di_outcome[di_item[w]] = "todo"
    BY OwnItem
  <2>2. ASSUME NEW v \in Worker \ {w}, di_at[v] = "process"
        PROVE  di_batch[v] # di_batch[w] /\ di_item[v] # di_item[w]
    <3>1. di_batch[v] # di_batch[w]
      BY <2>2 DEF DiIInv, BatchesDiffer
    <3>2. InBatch(v) /\ di_item[v] \in Nat
      BY <2>2, PlaceFacts DEF DiIInv, AllInBatch
    <3>3. di_item[v] <= di_item[v] /\ di_item[v] < EndOf(di_batch[v])
      BY <3>2 DEF InBatch
    <3> QED
      BY <2>2, <3>1, <3>3, OwnItem
  <2> QED
    BY <2>1, <2>2
<1> QED
  BY <1>1, DiInvariance, PTL

(* The executor implements EachOnce: every item is processed once, however  *)
(* the workers' awaits interleave.                                         *)
THEOREM ImplementsEachOnce == DiSpec => DiEachOnce
<1>1. DiInit => Each!Init
  BY DEF DiInit, Each!Init
<1>2. DiIInv /\ [DiNext]_di_vars => [Each!Next]_di_outcome
  <2> SUFFICES ASSUME DiIInv, [DiNext]_di_vars PROVE [Each!Next]_di_outcome
    OBVIOUS
  <2>1. ASSUME NEW w \in Worker, DiItemOk(w) \/ DiItemFails(w) \/ DiItemBreaks(w)
        PROVE  Each!Next
    <3>1. di_item[w] \in Item /\ di_outcome[di_item[w]] = "todo"
      BY <2>1, OwnItem DEF DiItemOk, DiItemFails, DiItemBreaks
    <3>2. \E o \in {"ok", "failed", "broke"} :
            di_outcome' = [di_outcome EXCEPT ![di_item[w]] = o]
      BY <2>1 DEF DiItemOk, DiItemFails, DiItemBreaks
    <3> QED
      BY <3>1, <3>2 DEF Each!Next, Each!Process
  <2>2. ASSUME NEW w \in Worker, DiTake(w) \/ DiSync(w) \/ DiLastSync(w)
        PROVE  UNCHANGED di_outcome
    BY <2>2 DEF DiTake, DiSync, DiLastSync, Synchronised
  <2>3. ASSUME UNCHANGED di_vars PROVE UNCHANGED di_outcome
    BY <2>3 DEF di_vars
  <2> QED
    BY <2>1, <2>2, <2>3 DEF DiNext, DiStep
<1> QED
  BY <1>1, <1>2, DiInvariance, PTL DEF DiSpec, DiEachOnce, Each!Spec

-----------------------------------------------------------------------------
(* What the executor answers.  The second inductive invariant: the arrays   *)
(* hold the items dealt with and nothing twice, the counters add up to their *)
(* lengths but for the failures that ended their workers, an item still to  *)
(* be done is of a batch not handed out or the rest of a worker's batch, a  *)
(* worker sees the end only when the batches are used up, and its last      *)
(* checksum is of its final counters.                                      *)
DiDealt(o) == {i \in Item : di_outcome[i] = o}

ArraysOK ==
  /\ IsInjective(di_results) /\ IsInjective(di_errors)
  /\ Range(di_results) = DiDealt("ok") /\ Range(di_errors) = DiDealt("failed")

TotalsOK ==
  SumOf(di_processed, Len(di_results)) /\ SumOf(Recordings, Len(di_errors))

GoneOK ==
  /\ \A w \in DiGone : di_failed[w] > 0
  /\ DiDealt("broke") = {di_item[w] : w \in DiGone}

LeftOK ==
  \A i \in Item : di_outcome[i] = "todo" =>
    \/ di_next * DiBatch <= i
    \/ \E w \in Worker : /\ di_at[w] \in {"process", "gone"}
                         /\ di_item[w] <= i /\ i < EndOf(di_batch[w])

EndSeen ==
  \A w \in Worker : di_at[w] \in {"last sync", "done"} => Batches <= di_next

Recorded ==
  \A w \in Worker : di_at[w] = "done" =>
    /\ di_checksum[w].processed = di_processed[w]
    /\ di_checksum[w].failed = di_failed[w]

DiAnswerInv == ArraysOK /\ TotalsOK /\ GoneOK /\ LeftOK /\ EndSeen /\ Recorded

(* One more item at the end of an array.                                   *)
LEMMA OneMore ==
  ASSUME NEW q \in Seq(Item), IsInjective(q), NEW i \in Item, i \notin Range(q)
  PROVE  /\ Append(q, i) \in Seq(Item) /\ Len(Append(q, i)) = Len(q) + 1
         /\ IsInjective(Append(q, i))
         /\ Range(Append(q, i)) = Range(q) \cup {i}
<1> DEFINE r == Append(q, i)
<1>1. r \in Seq(Item) /\ Len(r) = Len(q) + 1 /\ Len(q) \in Nat
  OBVIOUS
<1>2. DOMAIN r = 1 .. Len(q) + 1 /\ DOMAIN q = 1 .. Len(q)
  OBVIOUS
<1>3. r[Len(q) + 1] = i /\ \A k \in 1 .. Len(q) : r[k] = q[k]
  OBVIOUS
<1>4. \A k \in 1 .. Len(q) : q[k] \in Range(q)
  BY <1>2 DEF Range
<1> HIDE DEF r
<1>5. ASSUME NEW a \in DOMAIN r, NEW b \in DOMAIN r, r[a] = r[b] PROVE a = b
  <2>1. a \in 1 .. Len(q) \/ a = Len(q) + 1
    BY <1>1, <1>2
  <2>2. b \in 1 .. Len(q) \/ b = Len(q) + 1
    BY <1>1, <1>2
  <2>3. a \in 1 .. Len(q) /\ b \in 1 .. Len(q) => a = b
    BY <1>2, <1>3, <1>5 DEF IsInjective
  <2> QED
    BY <1>3, <1>4, <1>5, <2>1, <2>2, <2>3
<1>6. Range(r) = Range(q) \cup {i}
  <2>1. ASSUME NEW x \in Range(r) PROVE x \in Range(q) \cup {i}
    <3>1. PICK k \in DOMAIN r : x = r[k]
      BY <2>1 DEF Range
    <3>2. k \in 1 .. Len(q) \/ k = Len(q) + 1
      BY <1>1, <1>2
    <3> QED
      BY <1>3, <1>4, <3>1, <3>2
  <2>2. i \in Range(r)
    <3>1. Len(q) + 1 \in DOMAIN r
      BY <1>1, <1>2
    <3> QED
      BY <1>3, <3>1 DEF Range
  <2>3. ASSUME NEW x \in Range(q) PROVE x \in Range(r)
    <3>1. PICK k \in DOMAIN q : x = q[k]
      BY <2>3 DEF Range
    <3>2. k \in DOMAIN r /\ k \in 1 .. Len(q)
      BY <1>1, <1>2, <3>1
    <3> QED
      BY <1>3, <3>1, <3>2 DEF Range
  <2> QED
    BY <2>1, <2>2, <2>3
<1>7. IsInjective(r)
  BY <1>5 DEF IsInjective
<1> QED
  BY <1>1, <1>6, <1>7 DEF r


(* One more in one of the counters, and in the total.                      *)
LEMMA SumGrows ==
  ASSUME NEW counts \in [Worker -> Nat], NEW total \in Nat, SumOf(counts, total),
         NEW w \in Worker
  PROVE  SumOf([counts EXCEPT ![w] = @ + 1], total + 1)
<1>1. PICK sum \in [0 .. DiWorkers -> 0 .. total] :
        /\ sum[0] = 0
        /\ \A v \in Worker : sum[v + 1] = sum[v] + counts[v]
        /\ sum[DiWorkers] = total
  BY DEF SumOf
<1> DEFINE more == [k \in 0 .. DiWorkers |-> IF w < k THEN sum[k] + 1 ELSE sum[k]]
           c == [counts EXCEPT ![w] = @ + 1]
<1>2. w \in Nat /\ w < DiWorkers /\ DiWorkers \in Nat
  BY DistributedAssumption DEF Worker
<1>3. \A k \in 0 .. DiWorkers : sum[k] \in 0 .. total
  BY <1>1
<1>4. \A k \in 0 .. DiWorkers : more[k] \in 0 .. total + 1
  <2> SUFFICES ASSUME NEW k \in 0 .. DiWorkers PROVE more[k] \in 0 .. total + 1
    OBVIOUS
  <2>1. sum[k] \in Nat /\ sum[k] <= total
    BY <1>3
  <2>2. sum[k] \in 0 .. total + 1 /\ sum[k] + 1 \in 0 .. total + 1
    BY <2>1
  <2> QED
    BY <2>2
<1>5. more[0] = 0 /\ more[DiWorkers] = total + 1
  BY <1>1, <1>2
<1>6. ASSUME NEW v \in Worker PROVE more[v + 1] = more[v] + c[v]
  <2>1. v \in 0 .. DiWorkers /\ v + 1 \in 0 .. DiWorkers /\ v \in Nat
    BY <1>2 DEF Worker
  <2>2. sum[v + 1] = sum[v] + counts[v] /\ sum[v] \in Nat /\ counts[v] \in Nat
    BY <1>1, <1>3, <2>1
  <2>3. CASE v = w
    <3>1. more[v + 1] = sum[v + 1] + 1 /\ more[v] = sum[v] /\ c[v] = counts[v] + 1
      BY <1>2, <2>1, <2>3
    <3> QED
      BY <2>2, <3>1
  <2>4. CASE v # w
    <3>1. c[v] = counts[v]
      BY <2>4
    <3>2. CASE w < v
      <4>1. more[v + 1] = sum[v + 1] + 1 /\ more[v] = sum[v] + 1
        BY <1>2, <2>1, <3>2
      <4> QED
        BY <2>2, <3>1, <4>1
    <3>3. CASE ~(w < v)
      <4>1. more[v + 1] = sum[v + 1] /\ more[v] = sum[v]
        BY <1>2, <2>1, <2>4, <3>3
      <4> QED
        BY <2>2, <3>1, <4>1
    <3> QED
      BY <3>2, <3>3
  <2> QED
    BY <2>3, <2>4
<1>7. more \in [0 .. DiWorkers -> 0 .. total + 1]
  BY <1>4
<1> HIDE DEF more
<1> QED
  BY <1>5, <1>6, <1>7 DEF SumOf

(* Nothing counted yet.                                                    *)
LEMMA SumOfNone == SumOf([w \in Worker |-> 0], 0)
<1> DEFINE none == [k \in 0 .. DiWorkers |-> 0]
<1>1. none \in [0 .. DiWorkers -> 0 .. 0] /\ none[0] = 0 /\ none[DiWorkers] = 0
  BY DistributedAssumption
<1>2. \A w \in Worker : none[w + 1] = none[w] + [v \in Worker |-> 0][w]
  BY DistributedAssumption DEF Worker
<1> HIDE DEF none
<1> QED
  BY <1>1, <1>2 DEF SumOf

(* The quotient and the rest of a division.                                *)
LEMMA Divided ==
  ASSUME NEW m \in Nat, NEW d \in Nat \ {0}
  PROVE  /\ m \div d \in Nat /\ m % d \in 0 .. d - 1
         /\ m = ((m \div d) * d) + (m % d)
  BY Z3

(* The batches cover the items.                                            *)
LEMMA BatchesCover ==
  ASSUME NEW n \in Nat, Batches <= n
  PROVE  DiItems <= n * DiBatch
<1>1. PICK q \in Nat, rest \in 0 .. DiBatch - 1 :
        q = Batches /\ DiItems + DiBatch - 1 = (q * DiBatch) + rest
  <2>1. DiItems + DiBatch - 1 \in Nat
    BY DistributedAssumption
  <2> QED
    BY <2>1, Divided, DistributedAssumption DEF Batches
<1>2. q * DiBatch \in Int /\ n * DiBatch \in Int
  BY DistributedAssumption
<1>3. DiItems <= q * DiBatch
  BY <1>1, <1>2, DistributedAssumption
<1>4. q * DiBatch <= n * DiBatch
  <2>1. n - q \in Nat
    BY <1>1
  <2>2. (n - q) * DiBatch \in Nat
    <3>1. \A x, y \in Nat : x * y \in Nat
      OBVIOUS
    <3>2. DiBatch \in Nat
      BY DistributedAssumption
    <3> QED
      BY <2>1, <3>1, <3>2
  <2> QED
    BY <1>1, <2>2, DistributedAssumption
<1> QED
  BY <1>2, <1>3, <1>4, DistributedAssumption

LEMMA AnswerInit == DiInit => DiAnswerInv
<1> SUFFICES ASSUME DiInit PROVE DiAnswerInv
  OBVIOUS
<1>1. ArraysOK
  <2>1. di_results = << >> /\ di_errors = << >> /\ \A i \in Item : di_outcome[i] = "todo"
    BY DEF DiInit
  <2>2. IsInjective(<< >>) /\ Range(<< >>) = {}
    BY DEF IsInjective, Range
  <2>3. DiDealt("ok") = {} /\ DiDealt("failed") = {}
    BY <2>1 DEF DiDealt
  <2> QED
    BY <2>1, <2>2, <2>3 DEF ArraysOK
<1>2. TotalsOK
  <2>1. Len(<< >>) = 0
    OBVIOUS
  <2>2. DiGone = {}
    BY DEF DiInit, DiGone
  <2>3. Recordings = [w \in Worker |-> 0]
    BY <2>2 DEF DiInit, Recordings
  <2> QED
    BY <2>1, <2>3, SumOfNone DEF DiInit, TotalsOK
<1>5. GoneOK
  BY DEF DiInit, GoneOK, DiGone, DiDealt
<1>3. LeftOK
  BY DistributedAssumption DEF DiInit, LeftOK, Item
<1>4. EndSeen /\ Recorded
  BY DEF DiInit, EndSeen, Recorded
<1> QED
  BY <1>1, <1>2, <1>3, <1>4, <1>5 DEF DiAnswerInv

(* The workers that have ended stay as they are.                           *)
LEMMA GoneStays ==
  ASSUME GoneOK, DiGone' = DiGone, DiDealt("broke")' = DiDealt("broke"),
         \A w \in DiGone : di_failed'[w] = di_failed[w] /\ di_item'[w] = di_item[w]
  PROVE  GoneOK'
  BY DEF GoneOK

(* A step that deals with no item leaves the arrays and their totals.      *)
LEMMA ArraysStay ==
  ASSUME DiAnswerInv, DiGone' = DiGone,
         UNCHANGED <<di_processed, di_failed, di_results, di_errors, di_outcome>>
  PROVE  ArraysOK' /\ TotalsOK'
<1>1. DiDealt("ok")' = DiDealt("ok") /\ DiDealt("failed")' = DiDealt("failed")
  BY DEF DiDealt, Item
<1>2. ArraysOK'
  BY <1>1 DEF DiAnswerInv, ArraysOK
<1>3. TotalsOK'
  <2>1. Recordings' = Recordings
    BY DEF Recordings, Worker
  <2> QED
    BY <2>1 DEF DiAnswerInv, TotalsOK, SumOf, Worker
<1> QED
  BY <1>2, <1>3

(* A batch that is taken leaves the items of the batches after it; one that *)
(* is not there leaves none.                                               *)
LEMMA TakeAnswer ==
  ASSUME DiIInv, DiAnswerInv, NEW w \in Worker, DiTake(w)
  PROVE  DiAnswerInv'
<1>1. /\ di_at[w] = "take" /\ di_next \in Nat /\ di_next' = di_next + 1
      /\ UNCHANGED <<di_processed, di_failed, di_results, di_errors, di_checksum,
                     di_outcome>>
  BY DEF DiIInv, PlacesOK, DiTake
<1>2. ArraysOK' /\ TotalsOK' /\ GoneOK'
  <2>1. /\ \A v \in Worker : v = w \/ (di_at'[v] = di_at[v] /\ di_item'[v] = di_item[v])
        /\ di_at'[w] # "gone"
    BY DEF DiTake, DiIInv, PlacesOK
  <2>2. DiGone' = DiGone
    BY <1>1, <2>1 DEF DiGone, Worker
  <2>3. \A v \in DiGone : di_failed'[v] = di_failed[v] /\ di_item'[v] = di_item[v]
    BY <1>1, <2>1 DEF DiGone
  <2>4. DiDealt("broke")' = DiDealt("broke")
    BY <1>1 DEF DiDealt, Item
  <2> QED
    BY <1>1, <2>2, <2>3, <2>4, ArraysStay, GoneStays DEF DiAnswerInv
<1>3. /\ DiItems \in Nat /\ Batches \in Int
      /\ di_next * DiBatch \in Int /\ (di_next + 1) * DiBatch = (di_next * DiBatch) + DiBatch
  BY <1>1, DistributedAssumption, Z3 DEF Batches
<1>4. CASE di_next < Batches
  <2>1. /\ di_at' = [di_at EXCEPT ![w] = "process"]
        /\ di_batch' = [di_batch EXCEPT ![w] = di_next]
        /\ di_item' = [di_item EXCEPT ![w] = di_next * DiBatch]
    BY <1>4 DEF DiTake, SharedNext, StartOf
  <2>2. /\ di_at'[w] = "process" /\ di_batch'[w] = di_next
        /\ di_item'[w] = di_next * DiBatch
        /\ \A v \in Worker \ {w} : /\ di_at'[v] = di_at[v] /\ di_batch'[v] = di_batch[v]
                                    /\ di_item'[v] = di_item[v]
    BY <2>1 DEF DiIInv, PlacesOK
  <2>3. LeftOK'
    <3> SUFFICES ASSUME NEW i \in Item, di_outcome[i] = "todo"
                 PROVE  \/ (di_next + 1) * DiBatch <= i
                        \/ \E v \in Worker : /\ di_at'[v] \in {"process", "gone"}
                                             /\ di_item'[v] <= i /\ i < EndOf(di_batch'[v])
      BY <1>1 DEF LeftOK, Item, EndOf, StartOf, Worker
    <3>1. i \in Nat /\ i < DiItems
      BY <1>3 DEF Item
    <3>2. CASE di_next * DiBatch <= i
      <4>1. CASE i < (di_next + 1) * DiBatch
        <5>1. i < EndOf(di_next)
          BY <1>3, <3>1, <4>1 DEF EndOf, StartOf
        <5> QED
          BY <2>2, <3>2, <5>1
      <4> QED
        BY <1>3, <3>1, <4>1, DistributedAssumption
    <3>3. CASE ~(di_next * DiBatch <= i)
      <4>1. PICK v \in Worker :
              /\ di_at[v] \in {"process", "gone"}
              /\ di_item[v] <= i /\ i < EndOf(di_batch[v])
        BY <3>3 DEF DiAnswerInv, LeftOK
      <4>2. v # w
        BY <1>1, <4>1
      <4> QED
        BY <2>2, <4>1, <4>2
    <3> QED
      BY <3>2, <3>3
  <2>4. EndSeen'
    <3>1. Batches' = Batches
      BY DEF Batches
    <3>2. ASSUME NEW v \in Worker, di_at'[v] \in {"last sync", "done"}
          PROVE  Batches <= di_next + 1
      <4>1. v # w /\ di_at[v] \in {"last sync", "done"}
        BY <2>2, <3>2
      <4>2. Batches <= di_next
        BY <4>1 DEF DiAnswerInv, EndSeen
      <4> QED
        BY <1>1, <1>3, <4>2
    <3> QED
      BY <1>1, <3>1, <3>2 DEF EndSeen, Worker
  <2>5. Recorded'
    BY <1>1, <2>2 DEF DiAnswerInv, Recorded, Worker
  <2> QED
    BY <1>2, <2>3, <2>4, <2>5 DEF DiAnswerInv
<1>5. CASE ~(di_next < Batches)
  <2>1. di_at' = [di_at EXCEPT ![w] = "last sync"] /\ UNCHANGED <<di_batch, di_item>>
    BY <1>5 DEF DiTake, SharedNext
  <2>2. /\ di_at'[w] = "last sync"
        /\ \A v \in Worker \ {w} : di_at'[v] = di_at[v]
    BY <2>1 DEF DiIInv, PlacesOK
  <2>3. LeftOK'
    <3> SUFFICES ASSUME NEW i \in Item, di_outcome[i] = "todo"
                 PROVE  \E v \in Worker : /\ di_at'[v] \in {"process", "gone"}
                                          /\ di_item[v] <= i /\ i < EndOf(di_batch[v])
      BY <1>1, <2>1 DEF LeftOK, Item, EndOf, StartOf, Worker
    <3>1. ~(di_next * DiBatch <= i)
      BY <1>1, <1>3, <1>5, BatchesCover DEF Item
    <3>2. PICK v \in Worker :
            /\ di_at[v] \in {"process", "gone"}
            /\ di_item[v] <= i /\ i < EndOf(di_batch[v])
      BY <3>1 DEF DiAnswerInv, LeftOK
    <3> QED
      BY <1>1, <2>2, <3>2
  <2>4. EndSeen'
    <3>1. Batches' = Batches
      BY DEF Batches
    <3>2. ASSUME NEW v \in Worker, di_at'[v] \in {"last sync", "done"}
          PROVE  Batches <= di_next + 1
      BY <1>1, <1>3, <1>5
    <3> QED
      BY <1>1, <3>1, <3>2 DEF EndSeen, Worker
  <2>5. Recorded'
    BY <1>1, <2>2 DEF DiAnswerInv, Recorded, Worker
  <2> QED
    BY <1>2, <2>3, <2>4, <2>5 DEF DiAnswerInv
<1> QED
  BY <1>4, <1>5

(* A worker that goes on has not ended.                                    *)
LEMMA AfterStays ==
  ASSUME PlacesOK, NEW w \in Worker, di_at[w] = "process", AfterItem(w)
  PROVE  DiGone' = DiGone /\ w \notin DiGone
<1>1. PICK next \in {"process", "take", "sync"} : di_at' = [di_at EXCEPT ![w] = next]
  BY DEF AfterItem
<1>2. /\ di_at'[w] # "gone" /\ di_at[w] # "gone"
      /\ \A v \in Worker \ {w} : di_at'[v] = di_at[v]
  BY <1>1 DEF PlacesOK
<1> QED
  BY <1>2 DEF DiGone, Worker

(* The counted failures that are recorded are as many as a number says.    *)
LEMMA RecordingsType ==
  ASSUME DiIInv, GoneOK
  PROVE  Recordings \in [Worker -> Nat]
<1> SUFFICES ASSUME NEW w \in Worker
             PROVE  di_failed[w] - (IF w \in DiGone THEN 1 ELSE 0) \in Nat
  BY DEF Recordings
<1>1. di_failed[w] \in Nat /\ (w \in DiGone => di_failed[w] > 0)
  BY DEF DiIInv, CountsOK, GoneOK
<1> QED
  BY <1>1

(* An item that has been dealt with leaves the rest of its batch.          *)
LEMMA ItemAnswer ==
  ASSUME DiIInv, DiAnswerInv, NEW w \in Worker, di_at[w] = "process", AfterItem(w),
         NEW o \in {"ok", "failed"},
         di_outcome' = [di_outcome EXCEPT ![di_item[w]] = o],
         \A v \in Worker \ {w} :
           di_processed'[v] = di_processed[v] /\ di_failed'[v] = di_failed[v],
         ArraysOK', TotalsOK'
  PROVE  DiAnswerInv'
<1>1. di_item[w] \in Item /\ di_item[w] \in Nat /\ di_next \in Nat
  BY OwnItem, PlaceFacts DEF DiIInv
<1>2. PICK next \in {"process", "take", "sync"} :
        /\ di_at' = [di_at EXCEPT ![w] = next]
        /\ di_item[w] + 1 < EndOf(di_batch[w]) => next = "process"
  BY DEF AfterItem
<1>3. /\ di_item' = [di_item EXCEPT ![w] = di_item[w] + 1]
      /\ UNCHANGED <<di_batch, di_next, di_checksum>>
  BY DEF AfterItem
<1>4. /\ di_at'[w] = next /\ di_item'[w] = di_item[w] + 1
      /\ \A v \in Worker \ {w} : di_at'[v] = di_at[v] /\ di_item'[v] = di_item[v]
      /\ \A i \in Item : di_outcome'[i] = "todo" =>
           di_outcome[i] = "todo" /\ i # di_item[w]
  BY <1>1, <1>2, <1>3 DEF DiIInv, PlacesOK
<1>5. LeftOK'
  <2> SUFFICES ASSUME NEW i \in Item, di_outcome'[i] = "todo"
               PROVE  \/ di_next * DiBatch <= i
                      \/ \E v \in Worker : /\ di_at'[v] \in {"process", "gone"}
                                           /\ di_item'[v] <= i /\ i < EndOf(di_batch[v])
    BY <1>3 DEF LeftOK, Item, EndOf, StartOf, Worker
  <2>1. di_outcome[i] = "todo" /\ i # di_item[w] /\ i \in Nat
    BY <1>4 DEF Item
  <2>2. CASE di_next * DiBatch <= i
    BY <2>2
  <2>3. ASSUME NEW v \in Worker, di_at[v] \in {"process", "gone"}, di_item[v] <= i,
               i < EndOf(di_batch[v])
        PROVE  di_at'[v] \in {"process", "gone"} /\ di_item'[v] <= i
    <3>1. CASE v = w
      <4>1. di_item[w] + 1 <= i
        BY <1>1, <2>1, <2>3, <3>1
      <4>2. EndOf(di_batch[w]) \in Nat
        BY EndBounds DEF DiIInv, AllInBatch, InBatch
      <4>3. di_item[w] + 1 < EndOf(di_batch[w])
        BY <1>1, <2>1, <2>3, <3>1, <4>1, <4>2
      <4> QED
        BY <1>2, <1>4, <3>1, <4>1, <4>3
    <3>2. CASE v # w
      BY <1>4, <2>3, <3>2
    <3> QED
      BY <3>1, <3>2
  <2> QED
    BY <2>1, <2>2, <2>3 DEF DiAnswerInv, LeftOK
<1>6. EndSeen'
  <2>1. Batches' = Batches
    BY DEF Batches
  <2> QED
    BY <1>3, <1>4, <2>1 DEF DiAnswerInv, EndSeen, Worker
<1>7. Recorded'
  BY <1>3, <1>4 DEF DiAnswerInv, Recorded, Worker
<1>8. GoneOK'
  <2>1. DiGone' = DiGone
    BY <1>4 DEF DiGone, Worker
  <2>2. \A v \in DiGone : di_failed'[v] = di_failed[v] /\ di_item'[v] = di_item[v]
    BY <1>4 DEF DiGone
  <2>3. DiDealt("broke")' = DiDealt("broke")
    <3>1. di_outcome \in [Item -> {"todo", "ok", "failed", "broke"}]
      BY DEF DiIInv, PlacesOK
    <3>2. di_outcome[di_item[w]] = "todo"
      BY OwnItem
    <3> QED
      BY <1>1, <3>1, <3>2 DEF DiDealt, Item
  <2> QED
    BY <2>1, <2>2, <2>3, GoneStays DEF DiAnswerInv
<1> QED
  BY <1>5, <1>6, <1>7, <1>8 DEF DiAnswerInv

(* The task answered: its item is the last of the results, and one more of  *)
(* its worker's counter.                                                   *)
LEMMA OkAnswer ==
  ASSUME DiIInv, DiAnswerInv, NEW w \in Worker, DiItemOk(w)
  PROVE  DiAnswerInv'
<1>1. /\ di_at[w] = "process" /\ AfterItem(w)
      /\ di_results' = Append(di_results, di_item[w])
      /\ di_processed' = [di_processed EXCEPT ![w] = @ + 1]
      /\ di_outcome' = [di_outcome EXCEPT ![di_item[w]] = "ok"]
      /\ UNCHANGED <<di_failed, di_errors>>
  BY DEF DiItemOk, Collect
<1>2. di_item[w] \in Item /\ di_outcome[di_item[w]] = "todo"
  BY <1>1, OwnItem
<1>3. /\ di_results \in Seq(Item) /\ Len(di_results) \in Nat
      /\ di_processed \in [Worker -> Nat]
      /\ di_outcome \in [Item -> {"todo", "ok", "failed", "broke"}]
  <2>1. di_results \in Seq(Item) /\ di_processed \in [Worker -> Nat]
    BY DEF DiIInv, CountsOK
  <2>2. di_outcome \in [Item -> {"todo", "ok", "failed", "broke"}]
    BY DEF DiIInv, PlacesOK
  <2> QED
    BY <2>1, <2>2
<1>4. ArraysOK'
  <2>1. di_item[w] \notin Range(di_results)
    BY <1>2 DEF DiAnswerInv, ArraysOK, DiDealt
  <2>2. /\ IsInjective(di_results')
        /\ Range(di_results') = Range(di_results) \cup {di_item[w]}
    BY <1>1, <1>2, <1>3, <2>1, OneMore DEF DiAnswerInv, ArraysOK
  <2>3. /\ DiDealt("ok")' = DiDealt("ok") \cup {di_item[w]}
        /\ DiDealt("failed")' = DiDealt("failed")
    BY <1>1, <1>2, <1>3 DEF DiDealt, Item
  <2> QED
    BY <1>1, <2>2, <2>3 DEF DiAnswerInv, ArraysOK
<1>5. TotalsOK'
  <2>1. SumOf(di_processed', Len(di_results) + 1)
    BY <1>1, <1>3, SumGrows DEF DiAnswerInv, TotalsOK
  <2>2. Len(di_results') = Len(di_results) + 1
    BY <1>1, <1>2, <1>3
  <2>3. Recordings' = Recordings
    <3>1. DiGone' = DiGone
      BY <1>1, AfterStays DEF DiIInv
    <3> QED
      BY <1>1, <3>1 DEF Recordings, Worker
  <2> QED
    BY <1>1, <2>1, <2>2, <2>3 DEF DiAnswerInv, TotalsOK, SumOf, Worker
<1>6. \A v \in Worker \ {w} :
        di_processed'[v] = di_processed[v] /\ di_failed'[v] = di_failed[v]
  BY <1>1, <1>3
<1> QED
  BY <1>1, <1>4, <1>5, <1>6, ItemAnswer

(* The task failed: the same, with the errors.                             *)
LEMMA FailedAnswer ==
  ASSUME DiIInv, DiAnswerInv, NEW w \in Worker, DiItemFails(w)
  PROVE  DiAnswerInv'
<1>1. /\ di_at[w] = "process" /\ AfterItem(w)
      /\ di_errors' = Append(di_errors, di_item[w])
      /\ di_failed' = [di_failed EXCEPT ![w] = @ + 1]
      /\ di_outcome' = [di_outcome EXCEPT ![di_item[w]] = "failed"]
      /\ UNCHANGED <<di_processed, di_results>>
  BY DEF DiItemFails
<1>2. di_item[w] \in Item /\ di_outcome[di_item[w]] = "todo"
  BY <1>1, OwnItem
<1>3. /\ di_errors \in Seq(Item) /\ Len(di_errors) \in Nat
      /\ di_failed \in [Worker -> Nat]
      /\ di_outcome \in [Item -> {"todo", "ok", "failed", "broke"}]
  <2>1. di_errors \in Seq(Item) /\ di_failed \in [Worker -> Nat]
    BY DEF DiIInv, CountsOK
  <2>2. di_outcome \in [Item -> {"todo", "ok", "failed", "broke"}]
    BY DEF DiIInv, PlacesOK
  <2> QED
    BY <2>1, <2>2
<1>4. ArraysOK'
  <2>1. di_item[w] \notin Range(di_errors)
    BY <1>2 DEF DiAnswerInv, ArraysOK, DiDealt
  <2>2. /\ IsInjective(di_errors')
        /\ Range(di_errors') = Range(di_errors) \cup {di_item[w]}
    BY <1>1, <1>2, <1>3, <2>1, OneMore DEF DiAnswerInv, ArraysOK
  <2>3. /\ DiDealt("failed")' = DiDealt("failed") \cup {di_item[w]}
        /\ DiDealt("ok")' = DiDealt("ok")
    BY <1>1, <1>2, <1>3 DEF DiDealt, Item
  <2> QED
    BY <1>1, <2>2, <2>3 DEF DiAnswerInv, ArraysOK
<1>5. TotalsOK'
  <2>3. DiGone' = DiGone /\ w \notin DiGone
    BY <1>1, AfterStays DEF DiIInv
  <2>4. Recordings' = [Recordings EXCEPT ![w] = @ + 1]
    <3>1. \A v \in Worker : di_failed'[v] = IF v = w THEN di_failed[v] + 1 ELSE di_failed[v]
      BY <1>1, <1>3
    <3>2. \A v \in Worker : di_failed[v] \in Int
      BY <1>3
    <3>3. \A v \in Worker :
            Recordings'[v] = IF v = w THEN Recordings[v] + 1 ELSE Recordings[v]
      <4> SUFFICES ASSUME NEW v \in Worker
                   PROVE  Recordings'[v] = IF v = w THEN Recordings[v] + 1 ELSE Recordings[v]
        OBVIOUS
      <4>1. /\ Recordings[v] = di_failed[v] - (IF v \in DiGone THEN 1 ELSE 0)
            /\ Recordings'[v] = di_failed'[v] - (IF v \in DiGone THEN 1 ELSE 0)
        BY <2>3 DEF Recordings, Worker
      <4> QED
        BY <2>3, <3>1, <3>2, <4>1
    <3>4. Recordings' = [v \in Worker |-> Recordings'[v]]
      BY DEF Recordings, Worker
    <3>5. Recordings \in [Worker -> Nat]
      BY RecordingsType DEF DiAnswerInv
    <3> QED
      BY <3>3, <3>4, <3>5
  <2>1. SumOf(Recordings', Len(di_errors) + 1)
    BY <1>3, <2>4, RecordingsType, SumGrows DEF DiAnswerInv, TotalsOK
  <2>2. Len(di_errors') = Len(di_errors) + 1
    BY <1>1, <1>2, <1>3
  <2> QED
    BY <1>1, <2>1, <2>2 DEF DiAnswerInv, TotalsOK, SumOf, Worker
<1>6. \A v \in Worker \ {w} :
        di_processed'[v] = di_processed[v] /\ di_failed'[v] = di_failed[v]
  BY <1>1, <1>3
<1> QED
  BY <1>1, <1>4, <1>5, <1>6, ItemAnswer

(* The task threw what err.message throws on.                              *)
LEMMA BrokeAnswer ==
  ASSUME DiIInv, DiAnswerInv, NEW w \in Worker, DiItemBreaks(w)
  PROVE  DiAnswerInv'
<1>1. /\ di_at[w] = "process" /\ di_at' = [di_at EXCEPT ![w] = "gone"]
      /\ di_failed' = [di_failed EXCEPT ![w] = @ + 1]
      /\ di_outcome' = [di_outcome EXCEPT ![di_item[w]] = "broke"]
      /\ UNCHANGED <<di_batch, di_item, di_next, di_processed, di_results, di_errors,
                     di_checksum, di_sync_count>>
  BY DEF DiItemBreaks
<1>2. di_item[w] \in Item /\ di_outcome[di_item[w]] = "todo"
  BY <1>1, OwnItem
<1>3. /\ di_failed \in [Worker -> Nat]
      /\ di_outcome \in [Item -> {"todo", "ok", "failed", "broke"}]
      /\ di_at \in [Worker -> {"take", "process", "sync", "last sync", "done", "gone"}]
  BY DEF DiIInv, CountsOK, PlacesOK
<1>4. /\ di_at'[w] = "gone" /\ di_failed'[w] = di_failed[w] + 1
      /\ \A v \in Worker \ {w} : di_at'[v] = di_at[v] /\ di_failed'[v] = di_failed[v]
  BY <1>1, <1>3
<1>5. DiGone' = DiGone \cup {w} /\ w \notin DiGone
  BY <1>1, <1>4 DEF DiGone, Worker
<1>6. /\ DiDealt("ok")' = DiDealt("ok") /\ DiDealt("failed")' = DiDealt("failed")
      /\ DiDealt("broke")' = DiDealt("broke") \cup {di_item[w]}
  BY <1>1, <1>2, <1>3 DEF DiDealt, Item
<1>7. ArraysOK'
  BY <1>1, <1>6 DEF DiAnswerInv, ArraysOK
<1>8. TotalsOK'
  <2>1. \A v \in Worker : di_failed[v] \in Int
    <3>1. di_failed \in [Worker -> Nat]
      BY <1>3
    <3> QED
      BY <3>1
  <2>2. Recordings' = Recordings
    BY <1>4, <1>5, <2>1 DEF Recordings, Worker
  <2> QED
    BY <1>1, <2>2 DEF DiAnswerInv, TotalsOK, SumOf, Worker
<1>9. GoneOK'
  <2>1. di_failed[w] \in Nat
    BY <1>3
  <2>2. \A v \in DiGone' : di_failed'[v] > 0
    BY <1>4, <1>5, <2>1 DEF DiAnswerInv, GoneOK, DiGone
  <2>3. {di_item'[v] : v \in DiGone'} = {di_item[v] : v \in DiGone} \cup {di_item[w]}
    BY <1>1, <1>5
  <2> QED
    BY <1>6, <2>2, <2>3 DEF DiAnswerInv, GoneOK
<1>10. LeftOK'
  <2> SUFFICES ASSUME NEW i \in Item, di_outcome'[i] = "todo"
               PROVE  \/ di_next * DiBatch <= i
                      \/ \E v \in Worker : /\ di_at'[v] \in {"process", "gone"}
                                           /\ di_item[v] <= i /\ i < EndOf(di_batch[v])
    BY <1>1 DEF LeftOK, Item, EndOf, StartOf, Worker
  <2>1. di_outcome[i] = "todo"
    BY <1>1, <1>2, <1>3
  <2>2. \A v \in Worker : di_at[v] \in {"process", "gone"} => di_at'[v] \in {"process", "gone"}
    BY <1>4
  <2> QED
    BY <2>1, <2>2 DEF DiAnswerInv, LeftOK
<1>11. EndSeen'
  <2>1. Batches' = Batches
    BY DEF Batches
  <2> QED
    BY <1>1, <1>4, <2>1 DEF DiAnswerInv, EndSeen, Worker
<1>12. Recorded'
  BY <1>1, <1>4 DEF DiAnswerInv, Recorded, Worker
<1> QED
  BY <1>7, <1>8, <1>9, <1>10, <1>11, <1>12 DEF DiAnswerInv

(* A checksum is of the counters as they are.                              *)
LEMMA SyncAnswer ==
  ASSUME DiIInv, DiAnswerInv, NEW w \in Worker, DiSync(w) \/ DiLastSync(w)
  PROVE  DiAnswerInv'
<1>1. Synchronised(w)
  BY DEF DiSync, DiLastSync
<1>2. /\ di_checksum' = [di_checksum EXCEPT ![w] = Checksum(w)]
      /\ UNCHANGED <<di_batch, di_item, di_next, di_processed, di_failed, di_results,
                     di_errors, di_outcome>>
  BY <1>1 DEF Synchronised
<1>3. /\ di_at[w] \notin {"process", "gone"}
      /\ di_at'[w] \in {"take", "done"} /\ (di_at'[w] = "done" => di_at[w] = "last sync")
      /\ \A v \in Worker \ {w} : di_at'[v] = di_at[v]
  BY DEF DiSync, DiLastSync, DiIInv, PlacesOK
<1>4. ArraysOK' /\ TotalsOK' /\ GoneOK'
  <2>1. DiGone' = DiGone
    BY <1>3 DEF DiGone, Worker
  <2>2. DiDealt("broke")' = DiDealt("broke")
    BY <1>2 DEF DiDealt, Item
  <2> QED
    BY <1>2, <2>1, <2>2, ArraysStay, GoneStays DEF DiAnswerInv
<1>5. LeftOK'
  BY <1>2, <1>3 DEF DiAnswerInv, LeftOK, Item, EndOf, StartOf, Worker
<1>6. EndSeen'
  <2>1. Batches' = Batches
    BY DEF Batches
  <2> QED
    BY <1>2, <1>3, <2>1 DEF DiAnswerInv, EndSeen, Worker
<1>7. Recorded'
  <2>1. DOMAIN di_checksum = Worker
    BY DEF DiIInv, CountsOK
  <2>2. di_checksum'[w] = Checksum(w)
    BY <1>2, <2>1
  <2>3. \A v \in Worker \ {w} : di_checksum'[v] = di_checksum[v]
    BY <1>2, <2>1
  <2>4. di_checksum'[w].processed = di_processed[w] /\ di_checksum'[w].failed = di_failed[w]
    BY <2>2 DEF Checksum
  <2> QED
    BY <1>2, <1>3, <2>3, <2>4 DEF DiAnswerInv, Recorded, Worker
<1> QED
  BY <1>4, <1>5, <1>6, <1>7 DEF DiAnswerInv

(* What the executor answers is made of the items it has dealt with, and    *)
(* when it answers, of every item (execute, syncState).                    *)
THEOREM AnswerIsWhole == DiSpec => []DiAnswer
<1>1. DiInit => DiAnswerInv
  BY AnswerInit
<1>2. DiIInv /\ DiAnswerInv /\ [DiNext]_di_vars => DiAnswerInv'
  <2> SUFFICES ASSUME DiIInv, DiAnswerInv, [DiNext]_di_vars PROVE DiAnswerInv'
    OBVIOUS
  <2>1. ASSUME UNCHANGED di_vars PROVE DiAnswerInv'
    <3>1. ArraysOK' /\ TotalsOK' /\ GoneOK'
      <4>1. DiGone' = DiGone
        BY <2>1 DEF di_vars, DiGone, Worker
      <4>2. DiDealt("broke")' = DiDealt("broke")
        BY <2>1 DEF di_vars, DiDealt, Item
      <4> QED
        BY <2>1, <4>1, <4>2, ArraysStay, GoneStays DEF di_vars, DiAnswerInv
    <3>2. LeftOK' /\ Recorded'
      BY <2>1 DEF di_vars, DiAnswerInv, LeftOK, Recorded, Item, EndOf, StartOf, Worker
    <3>3. EndSeen'
      BY <2>1 DEF di_vars, DiAnswerInv, EndSeen, Worker, Batches
    <3> QED
      BY <3>1, <3>2, <3>3 DEF DiAnswerInv
  <2> QED
    BY <2>1, TakeAnswer, OkAnswer, FailedAnswer, BrokeAnswer, SyncAnswer
       DEF DiNext, DiStep
<1>3. DiIInv /\ DiAnswerInv => DiAnswer
  <2> SUFFICES ASSUME DiIInv, DiAnswerInv, \A w \in Worker : di_at[w] = "done"
               PROVE  \A i \in Item : di_outcome[i] # "todo"
    BY DEF DiAnswerInv, DiAnswer, ArraysOK, TotalsOK, GoneOK, Recorded, DiDealt
  <2>1. di_next \in Nat
    BY DEF DiIInv, PlacesOK
  <2>2. Batches <= di_next
    <3>1. 0 \in Worker
      BY DistributedAssumption DEF Worker
    <3>2. di_at[0] = "done"
      BY <3>1
    <3> QED
      BY <3>1, <3>2 DEF DiAnswerInv, EndSeen
  <2>3. DiItems <= di_next * DiBatch /\ di_next * DiBatch \in Int
    BY <2>1, <2>2, BatchesCover, DistributedAssumption
  <2>4. \A i \in Item : ~(di_next * DiBatch <= i)
    BY <2>3, DistributedAssumption DEF Item
  <2> QED
    BY <2>4 DEF DiAnswerInv, LeftOK
<1> QED
  BY <1>1, <1>2, <1>3, DiInvariance, PTL DEF DiSpec

-----------------------------------------------------------------------------
(* The evidence bus and the timers.                                        *)

-----------------------------------------------------------------------------
(* Places around the ring.                                                 *)
LEMMA Around ==
  ASSUME NEW x \in Nat, x < 2 * CAP
  PROVE  x % CAP = IF x < CAP THEN x ELSE x - CAP
<1>1. ASSUME NEW n \in Nat \ {0}, NEW y \in Nat, y < n PROVE y % n = y
  BY <1>1
<1>2. ASSUME NEW n \in Nat \ {0}, NEW y \in Nat, y < n PROVE (y + n) % n = y
  BY <1>2
<1>3. CAP \in Nat \ {0}
  BY CapAssumption
<1>4. CASE x < CAP
  BY <1>1, <1>3, <1>4
<1>5. CASE ~(x < CAP)
  <2>1. x - CAP \in Nat /\ x - CAP < CAP /\ (x - CAP) + CAP = x
    BY <1>3, <1>5
  <2>2. ((x - CAP) + CAP) % CAP = x - CAP
    BY <1>2, <1>3, <2>1
  <2> QED
    BY <1>5, <2>1, <2>2
<1> QED
  BY <1>4, <1>5

LEMMA AfterIsCell ==
  ASSUME NEW h \in Cells
  PROVE  /\ After(h) \in Cells /\ After(h) # h
         /\ After(h) = IF h + 1 < CAP THEN h + 1 ELSE 0
<1>1. h \in Nat /\ h < CAP
  BY CapAssumption DEF Cells
<1>2. (h + 1) % CAP = IF h + 1 < CAP THEN h + 1 ELSE h + 1 - CAP
  BY <1>1, Around, CapAssumption
<1> QED
  BY <1>1, <1>2, CapAssumption DEF After, Cells

LEMMA Distance ==
  ASSUME NEW from \in Cells, NEW to \in Cells
  PROVE  (to + CAP - from) % CAP = IF to >= from THEN to - from ELSE to + CAP - from
<1> DEFINE x == to + CAP - from
<1>1. /\ from \in Nat /\ from < CAP /\ to \in Nat /\ to < CAP /\ CAP \in Nat
      /\ x = to + CAP - from
  BY CapAssumption DEF Cells
<1>2. x \in Nat /\ x < 2 * CAP
  BY <1>1
<1> HIDE DEF x
<1>3. x % CAP = IF x < CAP THEN x ELSE x - CAP
  BY <1>2, Around
<1>4. x % CAP = IF to >= from THEN to - from ELSE to + CAP - from
  BY <1>1, <1>2, <1>3
<1> QED
  BY <1>4 DEF x

LEMMA RingPlace ==
  ASSUME NEW from \in Cells, NEW i \in 1 .. CAP
  PROVE  /\ (from + i - 1) % CAP = IF from + i - 1 < CAP THEN from + i - 1
                                  ELSE from + i - 1 - CAP
         /\ (from + i - 1) % CAP \in Cells
<1> DEFINE x == from + i - 1
<1>1. from \in Nat /\ from < CAP /\ CAP \in Nat /\ x = from + i - 1
  BY CapAssumption DEF Cells
<1>2. x \in Nat /\ x < 2 * CAP
  BY <1>1
<1> HIDE DEF x
<1>3. x % CAP = IF x < CAP THEN x ELSE x - CAP
  BY <1>2, Around
<1>4. x % CAP \in Cells
  BY <1>1, <1>2, <1>3 DEF Cells
<1>5. x % CAP = IF from + i - 1 < CAP THEN from + i - 1 ELSE from + i - 1 - CAP
  BY <1>1, <1>3
<1> QED
  BY <1>4, <1>5 DEF x

(* A ring r with the given ends holds the sequence log.                    *)
Evidence == Timers \cup {Notice}

Holds(r, from, to, log) ==
  /\ (to + CAP - from) % CAP = Len(log)
  /\ \A i \in 1 .. Len(log) : r[(from + i - 1) % CAP] = log[i]

(* A push into a ring with room adds to what it holds.                     *)
LEMMA PushHolds ==
  ASSUME NEW r \in [Cells -> Evidence], NEW from \in Cells, NEW to \in Cells,
         NEW log \in Seq(Evidence), NEW e \in Evidence,
         Holds(r, from, to, log), After(to) # from
  PROVE  Holds([r EXCEPT ![to] = e], from, After(to), log \o <<e>>)
<1> DEFINE longer == log \o <<e>>
           n == Len(log)
<1>1. /\ n \in Nat /\ Len(longer) = n + 1 /\ longer[n + 1] = e
      /\ \A i \in 1 .. n : longer[i] = log[i]
  BY LenProperties, ConcatProperties
<1>2. from \in Nat /\ from < CAP /\ to \in Nat /\ to < CAP /\ CAP \in Nat
  BY CapAssumption DEF Cells
<1>3. n = IF to >= from THEN to - from ELSE to + CAP - from
  BY Distance DEF Holds
<1>4. After(to) = (IF to + 1 < CAP THEN to + 1 ELSE 0) /\ After(to) \in Nat
  BY <1>2, AfterIsCell
<1>5. n + 1 < CAP
  BY <1>1, <1>2, <1>3, <1>4
<1>6. (After(to) + CAP - from) % CAP = n + 1
  <2>1. (After(to) + CAP - from) % CAP =
          IF After(to) >= from THEN After(to) - from ELSE After(to) + CAP - from
    BY AfterIsCell, Distance
  <2> QED
    BY <1>2, <1>3, <1>4, <1>5, <2>1
<1>7. ASSUME NEW i \in 1 .. n + 1
      PROVE  [r EXCEPT ![to] = e][(from + i - 1) % CAP] = longer[i]
  <2>1. i \in 1 .. CAP /\ i \in Nat
    BY <1>1, <1>2, <1>5
  <2>2. (from + i - 1) % CAP = IF from + i - 1 < CAP THEN from + i - 1
                               ELSE from + i - 1 - CAP
    BY <2>1, RingPlace
  <2>3. (from + i - 1) % CAP \in Cells
    BY <2>1, RingPlace
  <2>4. CASE i = n + 1
    <3>1. (from + i - 1) % CAP = to
      BY <1>1, <1>2, <1>3, <2>2, <2>4
    <3> QED
      BY <1>1, <2>4, <3>1
  <2>5. CASE i # n + 1
    <3>1. i \in 1 .. n
      BY <1>1, <2>5
    <3>2. (from + i - 1) % CAP # to
      <4> DEFINE place == (from + i - 1) % CAP
      <4>1. place = IF from + i - 1 < CAP THEN from + i - 1 ELSE from + i - 1 - CAP
        BY <2>2
      <4>2. n \in Nat /\ i \in Nat /\ 1 <= i /\ i <= n
        BY <1>1, <3>1
      <4> HIDE DEF place, n
      <4>3. place # to
        BY <1>2, <1>3, <4>1, <4>2
      <4> QED
        BY <4>3 DEF place
    <3>3. r[(from + i - 1) % CAP] = log[i]
      BY <3>1 DEF Holds
    <3> QED
      BY <1>1, <2>3, <3>1, <3>2, <3>3
  <2> QED
    BY <2>4, <2>5
<1> QED
  BY <1>1, <1>6, <1>7 DEF Holds

-----------------------------------------------------------------------------
(* The bus.                                                                *)
BusOK ==
  /\ ring \in [Cells -> Evidence] /\ head \in Cells /\ tail \in Cells
  /\ sis_log \in Seq(Evidence)
  /\ emit_count \in Nat /\ received_count \in Nat /\ dropped_count \in Nat
  /\ dropped_since_notice \in Nat
  /\ drop_latch \in [emit_count : Nat, dropped_count : Nat]
  /\ drop_latch_seq \in Nat
  /\ sis_notices \in Nat /\ sis_told \in Nat

BusInv == BusOK /\ Holds(ring, tail, head, sis_log) /\ SisDropsAreTold

LEMMA RingPushHolds ==
  ASSUME BusOK, Holds(ring, tail, head, sis_log), NEW t \in Timers, RingPush(t)
  PROVE  /\ ring' \in [Cells -> Evidence] /\ head' \in Cells /\ tail' \in Cells
         /\ sis_log' \in Seq(Evidence)
         /\ Holds(ring', tail', head', sis_log')
<1> DEFINE ring1 == IF Noticing THEN [ring EXCEPT ![head] = Notice] ELSE ring
           log1 == IF Noticing THEN sis_log \o <<Notice>> ELSE sis_log
<1>1. /\ ring \in [Cells -> Evidence] /\ head \in Cells /\ tail \in Cells
      /\ sis_log \in Seq(Evidence) /\ t \in Evidence /\ Notice \in Evidence
  BY DEF BusOK, Evidence
<1>2. \A log \in Seq(Evidence), e \in Evidence : log \o <<e>> \in Seq(Evidence)
  BY ConcatProperties
<1>3. HeadFor \in Cells /\ ring1 \in [Cells -> Evidence] /\ log1 \in Seq(Evidence)
  BY <1>1, <1>2, AfterIsCell DEF HeadFor
<1>4. Holds(ring1, tail, HeadFor, log1)
  <2>1. CASE Noticing
    <3>1. After(head) # tail
      BY <2>1 DEF Noticing, Full
    <3>2. Holds([ring EXCEPT ![head] = Notice], tail, After(head), sis_log \o <<Notice>>)
      BY <1>1, <3>1, PushHolds
    <3> QED
      BY <2>1, <3>2 DEF HeadFor
  <2>2. CASE ~Noticing
    BY <2>2 DEF HeadFor
  <2> QED
    BY <2>1, <2>2
<1>5. sis_log' = IF Full(HeadFor) THEN log1 ELSE log1 \o <<t>>
  <2>1. sis_log \o << >> = sis_log /\ log1 \o << >> = log1
    BY <1>1, <1>3, ConcatEmptySeq
  <2>2. sis_log' = sis_log \o (IF Noticing THEN <<Notice>> ELSE << >>)
                   \o (IF Full(HeadFor) THEN << >> ELSE <<t>>)
    BY DEF RingPush
  <2>3. sis_log \o (IF Noticing THEN <<Notice>> ELSE << >>) = log1
    BY <2>1
  <2> QED
    BY <2>1, <2>2, <2>3
<1>6. ring' = IF Full(HeadFor) THEN ring1 ELSE [ring1 EXCEPT ![HeadFor] = t]
  <2>1. Noticing => HeadFor # head
    BY <1>1, AfterIsCell DEF HeadFor
  <2> QED
    BY <1>1, <1>3, <2>1 DEF RingPush
<1>7. /\ head' = IF Full(HeadFor) THEN HeadFor ELSE After(HeadFor)
      /\ tail' = tail
  BY DEF RingPush
<1>8. CASE Full(HeadFor)
  BY <1>1, <1>3, <1>4, <1>5, <1>6, <1>7, <1>8
<1>9. CASE ~Full(HeadFor)
  <2> HIDE DEF ring1, log1
  <2>1. After(HeadFor) # tail /\ After(HeadFor) \in Cells
    BY <1>3, <1>9, AfterIsCell DEF Full
  <2>2. Holds([ring1 EXCEPT ![HeadFor] = t], tail, After(HeadFor), log1 \o <<t>>)
    BY <1>1, <1>3, <1>4, <2>1, PushHolds
  <2> QED
    BY <1>1, <1>2, <1>3, <1>5, <1>6, <1>7, <1>9, <2>1, <2>2
<1> QED
  BY <1>8, <1>9

LEMMA EmitBus ==
  ASSUME BusInv, NEW t \in Timers, sisEmit(t)
  PROVE  BusInv'
<1>1. /\ ring' \in [Cells -> Evidence] /\ head' \in Cells /\ tail' \in Cells
      /\ sis_log' \in Seq(Evidence)
      /\ Holds(ring', tail', head', sis_log')
  BY RingPushHolds DEF BusInv, sisEmit
<1>2. /\ emit_count' = emit_count + 1
      /\ received_count' = received_count + (IF Noticing THEN 1 ELSE 0)
                                          + (IF Full(HeadFor) THEN 0 ELSE 1)
      /\ sis_notices' = sis_notices + (IF Noticing THEN 1 ELSE 0)
      /\ sis_told' = IF Noticing THEN dropped_count ELSE sis_told
  BY DEF sisEmit, RingPush
<1>3. /\ emit_count \in Nat /\ received_count \in Nat /\ dropped_count \in Nat
      /\ dropped_since_notice \in Nat /\ drop_latch_seq \in Nat
      /\ sis_notices \in Nat /\ sis_told \in Nat
      /\ drop_latch \in [emit_count : Nat, dropped_count : Nat]
  BY DEF BusInv, BusOK
<1>4. CASE Full(HeadFor)
  <2>1. /\ dropped_count' = dropped_count + 1
        /\ dropped_since_notice' = Unreported + 1
        /\ drop_latch' = [emit_count |-> emit_count + 1, dropped_count |-> dropped_count + 1]
        /\ drop_latch_seq' = drop_latch_seq + 1
    BY <1>4 DEF sisEmit, Drop, Latch
  <2>2. BusOK'
    BY <1>1, <1>2, <1>3, <2>1 DEF BusOK, Unreported, Cells, Evidence, Timers
  <2>3. SisDropsAreTold'
    BY <1>2, <1>3, <1>4, <2>1 DEF BusInv, SisDropsAreTold, Unreported
  <2> QED
    BY <1>1, <2>2, <2>3 DEF BusInv, Holds, Cells
<1>5. CASE ~Full(HeadFor)
  <2>1. /\ dropped_since_notice' = Unreported
        /\ UNCHANGED <<dropped_count, drop_latch, drop_latch_seq>>
    BY <1>5 DEF sisEmit, Drop
  <2>2. BusOK'
    BY <1>1, <1>2, <1>3, <2>1 DEF BusOK, Unreported, Cells, Evidence, Timers
  <2>3. SisDropsAreTold'
    BY <1>2, <1>3, <1>5, <2>1 DEF BusInv, SisDropsAreTold, Unreported
  <2> QED
    BY <1>1, <2>2, <2>3 DEF BusInv, Holds, Cells
<1> QED
  BY <1>4, <1>5

LEMMA DrainBus ==
  ASSUME BusInv, sisDrain
  PROVE  BusInv'
<1>1. BusOK /\ head \in Cells /\ tail' = head /\ sis_log' = << >>
  BY DEF BusInv, BusOK, sisDrain
<1>2. (head + CAP - head) % CAP = 0
  <2>1. (head + CAP - head) % CAP = IF head >= head THEN head - head ELSE head + CAP - head
    BY <1>1, Distance
  <2>2. head \in Nat
    BY <1>1, CapAssumption DEF Cells
  <2> QED
    BY <2>1, <2>2
<1>3. << >> \in Seq(Evidence) /\ Len(<< >>) = 0
  BY EmptySeq
<1>4. Holds(ring', tail', head', sis_log')
  BY <1>1, <1>2, <1>3 DEF sisDrain, Holds
<1>5. BusOK'
  BY <1>1, <1>3 DEF sisDrain, BusOK, Cells, Evidence, Timers
<1>6. SisDropsAreTold'
  BY DEF sisDrain, BusInv, SisDropsAreTold
<1> QED
  BY <1>4, <1>5, <1>6 DEF BusInv

-----------------------------------------------------------------------------
(* The policy.                                                             *)
PolicyInv ==
  /\ score \in [Timers -> Nat] /\ quarantined \subseteq Timers
  /\ policy_event_count \in Nat /\ quarantine_count \in Nat
  /\ quarantined = {t \in Timers : score[t] >= QUARANTINE_THRESHOLD}
  /\ quarantine_count = Cardinality(quarantined)

LEMMA ScorePolicy ==
  ASSUME PolicyInv, NEW t \in Timers, Scores(t)
  PROVE  PolicyInv'
<1>1. IsFiniteSet(quarantined)
  <2>1. IsFiniteSet(Timers)
    BY FS_Interval, BoundAssumption DEF Timers
  <2> QED
    BY <2>1, FS_Subset DEF PolicyInv
<1>2. score \in [Timers -> Nat] /\ score' = [score EXCEPT ![t] = score[t] + 1]
  BY DEF PolicyInv, Scores
<1>3. score' \in [Timers -> Nat] /\ policy_event_count' \in Nat
  BY <1>2 DEF PolicyInv, Scores
<1>4. CASE Quarantines(t)
  <2>1. /\ quarantined' = quarantined \cup {t} /\ quarantine_count' = quarantine_count + 1
        /\ t \notin quarantined /\ score[t] + 1 >= QUARANTINE_THRESHOLD
    BY <1>4 DEF Scores, Quarantines
  <2>2. quarantined' = {s \in Timers : score'[s] >= QUARANTINE_THRESHOLD}
    BY <1>2, <2>1 DEF PolicyInv
  <2>3. Cardinality(quarantined') = quarantine_count + 1
    BY <1>1, <2>1, FS_AddElement DEF PolicyInv
  <2> QED
    BY <1>3, <2>1, <2>2, <2>3 DEF PolicyInv, Timers
<1>5. CASE ~Quarantines(t)
  <2>1. UNCHANGED <<quarantined, quarantine_count>>
    BY <1>5 DEF Scores
  <2>2. t \in quarantined <=> score'[t] >= QUARANTINE_THRESHOLD
    <3>1. score'[t] = score[t] + 1 /\ score[t] \in Nat
      BY <1>2
    <3>2. t \in quarantined <=> score[t] >= QUARANTINE_THRESHOLD
      BY DEF PolicyInv
    <3>3. ~(score[t] + 1 >= QUARANTINE_THRESHOLD) \/ t \in quarantined
      BY <1>5 DEF Quarantines
    <3> QED
      BY <3>1, <3>2, <3>3, ThresholdAssumption
  <2>3. quarantined' = {s \in Timers : score'[s] >= QUARANTINE_THRESHOLD}
    BY <1>2, <2>1, <2>2 DEF PolicyInv
  <2> QED
    BY <1>3, <2>1, <2>3 DEF PolicyInv, Timers
<1> QED
  BY <1>4, <1>5

-----------------------------------------------------------------------------
(* The timers.  The score of a timer that is yet to be made is 0, and that  *)
(* of an interval whose stats are still held is its missed ticks.          *)
TimersOK ==
  /\ nextTimerId \in 1 .. LastTimer + 1
  /\ timerKind \in [Timers -> {"unused", "interval", "timeout"}]
  /\ timerRegistry \subseteq 1 .. nextTimerId - 1
  /\ DOMAIN intervalStats \subseteq 1 .. nextTimerId - 1
  /\ \A t \in DOMAIN intervalStats : intervalStats[t] \in Nat
  /\ runningTimer \in 0 .. nextTimerId - 1

Scored ==
  /\ score \in [Timers -> Nat]
  /\ \A t \in DOMAIN intervalStats : score[t] = intervalStats[t]
  /\ \A t \in Timers : nextTimerId <= t => score[t] = 0

TimersInv == TimersOK /\ Scored

LEMMA CreateTimers ==
  ASSUME TimersInv, set_interval \/ set_timeout
  PROVE  TimersInv'
<1>1. /\ nextTimerId \in Timers /\ nextTimerId' = nextTimerId + 1
      /\ timerRegistry' = timerRegistry \cup {nextTimerId}
      /\ UNCHANGED <<runningTimer, score>>
      /\ \/ timerKind' = [timerKind EXCEPT ![nextTimerId] = "interval"]
         \/ timerKind' = [timerKind EXCEPT ![nextTimerId] = "timeout"]
  BY DEF set_interval, set_timeout, sis_policy
<1>2. /\ nextTimerId \in Nat /\ 1 <= nextTimerId /\ nextTimerId <= LastTimer
      /\ LastTimer \in Nat
  BY <1>1, BoundAssumption DEF Timers
<1>3. /\ DOMAIN intervalStats' \subseteq DOMAIN intervalStats \cup {nextTimerId}
      /\ \A t \in DOMAIN intervalStats' :
           intervalStats'[t] = IF t = nextTimerId /\ set_interval THEN 0 ELSE intervalStats[t]
      /\ nextTimerId \in DOMAIN intervalStats' /\ ~set_interval
           => nextTimerId \in DOMAIN intervalStats
  BY DEF set_interval, set_timeout
<1>4. nextTimerId \notin DOMAIN intervalStats
  BY <1>2 DEF TimersInv, TimersOK
<1>5. TimersOK'
  <2>1. timerKind' \in [Timers -> {"unused", "interval", "timeout"}]
    BY <1>1 DEF TimersInv, TimersOK
  <2>2. nextTimerId' \in 1 .. LastTimer + 1 /\ runningTimer' \in 0 .. nextTimerId' - 1
    BY <1>1, <1>2 DEF TimersInv, TimersOK
  <2>3. /\ timerRegistry' \subseteq 1 .. nextTimerId' - 1
        /\ DOMAIN intervalStats' \subseteq 1 .. nextTimerId' - 1
    BY <1>1, <1>2, <1>3 DEF TimersInv, TimersOK
  <2>4. \A t \in DOMAIN intervalStats' : intervalStats'[t] \in Nat
    BY <1>3, <1>4 DEF TimersInv, TimersOK
  <2> QED
    BY <2>1, <2>2, <2>3, <2>4 DEF TimersOK, Timers
<1>6. Scored'
  <2>1. \A t \in DOMAIN intervalStats' : score[t] = intervalStats'[t]
    BY <1>1, <1>2, <1>3, <1>4 DEF TimersInv, Scored, Timers
  <2>2. \A t \in Timers : nextTimerId' <= t => score[t] = 0
    BY <1>1, <1>2 DEF TimersInv, Scored, Timers
  <2> QED
    BY <1>1, <2>1, <2>2 DEF TimersInv, Scored, Timers
<1> QED
  BY <1>5, <1>6 DEF TimersInv

(* What forgets timers, or stats, or ends a callback without an error in it. *)
LEMMA ForgetTimers ==
  ASSUME TimersInv, timerRegistry' \subseteq timerRegistry,
         \/ UNCHANGED intervalStats
         \/ \E t \in Timers : intervalStats' = Without(intervalStats, t),
         UNCHANGED <<nextTimerId, timerKind, score>>,
         runningTimer' \in 0 .. nextTimerId - 1
  PROVE  TimersInv'
<1>1. /\ DOMAIN intervalStats' \subseteq DOMAIN intervalStats
      /\ \A t \in DOMAIN intervalStats' : intervalStats'[t] = intervalStats[t]
  BY DEF Without
<1>2. TimersOK'
  BY <1>1 DEF TimersInv, TimersOK, Timers
<1>3. Scored'
  BY <1>1 DEF TimersInv, Scored, Timers
<1> QED
  BY <1>2, <1>3 DEF TimersInv

(* An interval's callback throws: the tick is counted by both, unless the   *)
(* stats are gone.                                                         *)
LEMMA ThrowTimers ==
  ASSUME TimersInv, IntervalThrows
  PROVE  TimersInv'
<1> DEFINE r == runningTimer
<1>1. /\ r \in Timers /\ r < nextTimerId /\ nextTimerId \in Nat
  BY BoundAssumption DEF TimersInv, TimersOK, IntervalThrows, Timers
<1>2. /\ DOMAIN intervalStats' = DOMAIN intervalStats
      /\ \A t \in DOMAIN intervalStats :
           intervalStats'[t] = IF t = r THEN intervalStats[t] + 1 ELSE intervalStats[t]
  BY DEF IntervalThrows, Missed
<1>3. score' = [score EXCEPT ![r] = score[r] + 1] /\ score \in [Timers -> Nat]
  BY DEF IntervalThrows, sisEmit, sisPolicyOnEvent, Scores, TimersInv, Scored
<1>4. UNCHANGED <<nextTimerId, timerKind, timerRegistry>> /\ runningTimer' = 0
  BY DEF IntervalThrows
<1>5. TimersOK'
  <2>1. \A t \in DOMAIN intervalStats' : intervalStats'[t] \in Nat
    BY <1>2 DEF TimersInv, TimersOK
  <2>2. runningTimer' \in 0 .. nextTimerId' - 1
    <3>1. nextTimerId \in Nat /\ 1 <= nextTimerId
      BY BoundAssumption DEF TimersInv, TimersOK
    <3> QED
      BY <1>4, <3>1
  <2> QED
    BY <1>2, <1>4, <2>1, <2>2 DEF TimersInv, TimersOK, Timers
<1>6. Scored'
  <2>1. DOMAIN intervalStats \subseteq Timers
    BY BoundAssumption DEF TimersInv, TimersOK, Timers
  <2>2. \A t \in DOMAIN intervalStats' : score'[t] = intervalStats'[t]
    BY <1>1, <1>2, <1>3, <2>1 DEF TimersInv, Scored
  <2>3. \A t \in Timers : nextTimerId' <= t => score'[t] = 0
    BY <1>1, <1>3, <1>4 DEF TimersInv, Scored, Timers
  <2>4. score' \in [Timers -> Nat]
    BY <1>1, <1>3
  <2> QED
    BY <2>2, <2>3, <2>4 DEF Scored, Timers
<1> QED
  BY <1>5, <1>6 DEF TimersInv

-----------------------------------------------------------------------------
(* The inductive invariant: the three parts, which meet in sisEmit.         *)
SisIInv == BusInv /\ PolicyInv /\ TimersInv

LEMMA SisInitInvariant == SisInit => SisIInv
<1> SUFFICES ASSUME SisInit PROVE SisIInv
  OBVIOUS
<1>1. << >> \in Seq(Evidence) /\ Len(<< >>) = 0 /\ sis_log = << >>
  BY EmptySeq DEF SisInit
<1>2. 0 \in Cells /\ Notice \in Evidence
  BY CapAssumption DEF Cells, Evidence
<1>3. BusOK
  BY <1>1, <1>2 DEF SisInit, BusOK
<1>4. Holds(ring, tail, head, sis_log)
  <2>1. (0 + CAP - 0) % CAP = IF 0 >= 0 THEN 0 - 0 ELSE 0 + CAP - 0
    BY <1>2, Distance
  <2> QED
    BY <1>1, <2>1 DEF SisInit, Holds
<1>5. SisDropsAreTold
  BY DEF SisInit, SisDropsAreTold
<1>6. PolicyInv
  <2>1. {t \in Timers : score[t] >= QUARANTINE_THRESHOLD} = {}
    BY ThresholdAssumption DEF SisInit
  <2>2. Cardinality({}) = 0
    BY FS_EmptySet
  <2>3. score \in [Timers -> Nat] /\ quarantined = {} /\ quarantine_count = 0
        /\ policy_event_count = 0
    BY DEF SisInit
  <2> QED
    BY <2>1, <2>2, <2>3 DEF PolicyInv
<1>7. TimersInv
  BY BoundAssumption DEF SisInit, TimersInv, TimersOK, Scored, Timers
<1> QED
  BY <1>3, <1>4, <1>5, <1>6, <1>7 DEF SisIInv, BusInv

LEMMA BusUnchanged ==
  ASSUME BusInv, UNCHANGED sis_bus
  PROVE  BusInv'
<1>1. BusOK' /\ SisDropsAreTold'
  BY DEF BusInv, sis_bus, BusOK, SisDropsAreTold, Cells, Evidence, Timers
<1>2. Holds(ring', tail', head', sis_log')
  BY DEF BusInv, sis_bus
<1> QED
  BY <1>1, <1>2 DEF BusInv

LEMMA PolicyUnchanged ==
  ASSUME PolicyInv, UNCHANGED sis_policy
  PROVE  PolicyInv'
BY DEF PolicyInv, sis_policy, Timers

LEMMA SisStepInvariant == SisIInv /\ [SisNext]_sis_vars => SisIInv'
<1> SUFFICES ASSUME SisIInv, [SisNext]_sis_vars PROVE SisIInv'
  OBVIOUS
<1>1. BusInv /\ PolicyInv /\ TimersInv
  BY DEF SisIInv
<1>2. runningTimer \in 0 .. nextTimerId - 1 /\ 0 \in 0 .. nextTimerId - 1
  BY <1>1, BoundAssumption DEF TimersInv, TimersOK
<1>3. CASE set_interval \/ set_timeout
  BY <1>1, <1>3, BusUnchanged, PolicyUnchanged, CreateTimers
  DEF SisIInv, set_interval, set_timeout
<1>4. CASE timer_clear_all
  <2>1. TimersInv'
    BY <1>1, <1>2, <1>4, ForgetTimers DEF timer_clear_all, sis_policy
  <2> QED
    BY <1>1, <1>4, <2>1, BusUnchanged, PolicyUnchanged DEF SisIInv, timer_clear_all
<1>5. ASSUME NEW t \in Timers, clear_interval(t) \/ clear_timeout(t)
      PROVE  SisIInv'
  <2>1. TimersInv'
    BY <1>1, <1>2, <1>5, ForgetTimers DEF clear_interval, clear_timeout, sis_policy
  <2> QED
    BY <1>1, <1>5, <2>1, BusUnchanged, PolicyUnchanged
    DEF SisIInv, clear_interval, clear_timeout
<1>6. ASSUME NEW t \in Timers, Fire(t) PROVE SisIInv'
  <2>1. t \in 0 .. nextTimerId - 1
    <3>1. t \in timerRegistry /\ timerRegistry \subseteq 1 .. nextTimerId - 1
      BY <1>1, <1>6 DEF Fire, StillSet, TimersInv, TimersOK
    <3> QED
      BY <3>1, BoundAssumption DEF Timers
  <2>2. TimersInv'
    BY <1>1, <1>6, <2>1, ForgetTimers DEF Fire, sis_timers, sis_policy
  <2> QED
    BY <1>1, <1>6, <2>2, BusUnchanged, PolicyUnchanged DEF SisIInv, Fire
<1>7. CASE Returns \/ TimeoutThrows
  <2>1. TimersInv'
    BY <1>1, <1>2, <1>7, ForgetTimers DEF Returns, TimeoutThrows, Ended, sis_policy
  <2> QED
    BY <1>1, <1>7, <2>1, BusUnchanged, PolicyUnchanged DEF SisIInv, Returns, TimeoutThrows
<1>8. CASE IntervalThrows
  <2>1. runningTimer \in Timers
    BY <1>1, <1>8, BoundAssumption DEF TimersInv, TimersOK, IntervalThrows, Timers
  <2>2. sisEmit(runningTimer) /\ Scores(runningTimer)
    BY <1>8 DEF IntervalThrows, sisEmit, sisPolicyOnEvent
  <2>3. BusInv' /\ PolicyInv'
    BY <1>1, <2>1, <2>2, EmitBus, ScorePolicy
  <2> QED
    BY <1>1, <1>8, <2>3, ThrowTimers DEF SisIInv
<1>9. CASE sisDrain
  <2>1. TimersInv'
    BY <1>1, <1>2, <1>9, ForgetTimers DEF sisDrain, sis_timers, sis_policy
  <2> QED
    BY <1>1, <1>9, <2>1, DrainBus, PolicyUnchanged DEF SisIInv, sisDrain
<1>10. CASE UNCHANGED sis_vars
  <2>1. TimersInv'
    BY <1>1, <1>2, <1>10, ForgetTimers DEF sis_vars, sis_timers, sis_policy
  <2> QED
    BY <1>1, <1>10, <2>1, BusUnchanged, PolicyUnchanged DEF SisIInv, sis_vars
<1> QED
  BY <1>3, <1>4, <1>5, <1>6, <1>7, <1>8, <1>9, <1>10 DEF SisNext

-----------------------------------------------------------------------------
(* The inductive invariant holds in every reachable state.                 *)
THEOREM SisInvariance == SisSpec => []SisIInv
<1>1. SisInit => SisIInv
  BY SisInitInvariant
<1>2. SisIInv /\ [SisNext]_sis_vars => SisIInv'
  BY SisStepInvariant
<1> QED
  BY <1>1, <1>2, PTL DEF SisSpec

(* Every field of bus, policy and timers keeps its type.                   *)
THEOREM SisTypeCorrect == SisSpec => []SisTypeOK
<1>1. SisIInv => SisTypeOK
  BY DEF SisIInv, BusInv, BusOK, PolicyInv, TimersInv, TimersOK, SisTypeOK, Evidence
<1> QED
  BY <1>1, SisInvariance, PTL

(* The ring holds what was accepted since the last drain (ringPush).       *)
THEOREM RingHoldsLog == SisSpec => []SisRingHoldsLog
<1>1. SisIInv => SisRingHoldsLog
  <2> SUFFICES ASSUME SisIInv PROVE SisRingHoldsLog
    OBVIOUS
  <2>1. Holds(ring, tail, head, sis_log)
    BY DEF SisIInv, BusInv
  <2> QED
    BY <2>1 DEF Holds, SisRingHoldsLog, queued
<1> QED
  BY <1>1, SisInvariance, PTL

(* No drop is forgotten, whatever the ring does (sisEmit).                 *)
THEOREM DropsAreTold == SisSpec => []SisDropsAreTold
<1>1. SisIInv => SisDropsAreTold
  BY DEF SisIInv, BusInv
<1> QED
  BY <1>1, SisInvariance, PTL

(* The policy's scores and quarantine are exact (sisPolicyOnEvent).        *)
THEOREM QuarantineExact == SisSpec => []SisQuarantineExact
<1>1. SisIInv => SisQuarantineExact
  BY DEF SisIInv, PolicyInv, TimersInv, Scored, SisQuarantineExact
<1> QED
  BY <1>1, SisInvariance, PTL

(* Nothing is lost unsaid between a callback that fails and the policy.     *)
THEOREM EvidenceKept == SisSpec => []SisKept
  BY RingHoldsLog, DropsAreTold, QuarantineExact, PTL DEF SisKept

(* A timer that is gone never starts again (clear_interval, set_timeout).  *)
THEOREM GoneForGood == SisSpec => SisGoneForGood
<1> DEFINE Gone ==
      \A t \in Timers :
        (t < nextTimerId /\ t \notin timerRegistry)
          => t \notin timerRegistry' /\ (runningTimer' = t => runningTimer = t)
<1>1. SisIInv /\ [SisNext]_sis_vars => [Gone]_sis_vars
  <2> SUFFICES ASSUME SisIInv, SisNext, NEW t \in Timers, t < nextTimerId,
                      t \notin timerRegistry
               PROVE  t \notin timerRegistry' /\ (runningTimer' = t => runningTimer = t)
    OBVIOUS
  <2>1. t # 0 /\ t # nextTimerId
    BY BoundAssumption DEF Timers
  <2>2. CASE set_interval \/ set_timeout
    BY <2>1, <2>2 DEF set_interval, set_timeout
  <2>3. CASE timer_clear_all
    BY <2>3 DEF timer_clear_all
  <2>4. ASSUME NEW s \in Timers, clear_interval(s) \/ clear_timeout(s) \/ Fire(s)
        PROVE  t \notin timerRegistry' /\ (runningTimer' = t => runningTimer = t)
    BY <2>4 DEF clear_interval, clear_timeout, Fire, StillSet, sis_timers
  <2>5. CASE Returns \/ TimeoutThrows \/ IntervalThrows
    BY <2>1, <2>5 DEF Returns, TimeoutThrows, IntervalThrows, Ended
  <2>6. CASE sisDrain
    BY <2>6 DEF sisDrain, sis_timers
  <2> QED
    BY <2>2, <2>3, <2>4, <2>5, <2>6 DEF SisNext
<1> QED
  BY <1>1, SisInvariance, PTL DEF SisSpec, SisGoneForGood

-----------------------------------------------------------------------------
(* The promises.                                                           *)

(* What a settled promise needs to stay as it is: what will be made later   *)
(* is pending and of no kind yet, so that making it disturbs none, and no   *)
(* callback waits for it that settles it before.                           *)
PrShape ==
  /\ pr_next \in Nat
  /\ pr_state = [p \in Promises |-> pr_state[p]]
  /\ pr_value = [p \in Promises |-> pr_value[p]]
  /\ pr_kind = [p \in Promises |-> pr_kind[p]]

Unmade == \A p \in Promises : p >= pr_next => pr_kind[p] = "none" /\ Pending(p)

PrIInv == PrShape /\ Unmade

PrKept(p) == pr_state'[p] = pr_state[p] /\ pr_value'[p] = pr_value[p]
SettledKept == \A p \in Promises : Settled(p) => PrKept(p)

-----------------------------------------------------------------------------
(* Settling a promise that has been made, or none of ours.                 *)
LEMMA Settling ==
  ASSUME PrIInv, NEW p, NEW state, NEW value, NEW rest,
         p \in Promises => p < pr_next,
         SettleFrom(p, state, value, rest),
         UNCHANGED <<pr_next, pr_kind>>
  PROVE  PrIInv' /\ SettledKept
<1>1. CASE Pending(p)
  <2>1. /\ pr_state' = [pr_state EXCEPT ![p] = state]
        /\ pr_value' = [pr_value EXCEPT ![p] = value]
    BY <1>1 DEF SettleFrom, SettleWhen
  <2>2. PrShape'
    BY <2>1 DEF PrIInv, PrShape
  <2>3. \A q \in Promises : q # p => PrKept(q)
    BY <2>1 DEF PrIInv, PrShape, PrKept
  <2>4. SettledKept
    BY <1>1, <2>3 DEF SettledKept, Settled
  <2>5. Unmade'
    <3> SUFFICES ASSUME NEW q \in Promises, q >= pr_next
                 PROVE  pr_kind[q] = "none" /\ pr_state'[q] = "pending"
      BY DEF Unmade, Pending
    <3>1. q # p
      BY DEF PrIInv, PrShape, Promises
    <3> QED
      BY <2>3, <3>1 DEF PrIInv, Unmade, Pending, PrKept
  <2> QED
    BY <2>2, <2>4, <2>5 DEF PrIInv
<1>2. CASE ~Pending(p)
  <2>1. UNCHANGED <<pr_state, pr_value>>
    BY <1>2 DEF SettleFrom, SettleWhen
  <2> QED
    BY <2>1 DEF PrIInv, PrShape, Unmade, Pending, SettledKept, PrKept
<1> QED
  BY <1>1, <1>2

(* A callback settles a promise that has a kind, so one that was made.     *)
LEMMA TargetIsMade ==
  ASSUME PrIInv, NEW p, pr_kind[p] \in Chains \cup Joins \cup {"source"}, p \in Promises
  PROVE  p < pr_next
<1>1. pr_kind[p] # "none"
  BY DEF Chains, Joins
<1> QED
  BY <1>1 DEF PrIInv, PrShape, Unmade, Promises

LEMMA Making ==
  ASSUME PrIInv, NEW kind, NEW of, NEW state, NEW value, PrMake(kind, of, state, value)
  PROVE  PrIInv' /\ SettledKept
<1>1. /\ pr_next \in Promises
      /\ pr_next' = pr_next + 1
      /\ pr_kind' = [pr_kind EXCEPT ![pr_next] = kind]
      /\ pr_state' = [pr_state EXCEPT ![pr_next] = state]
      /\ pr_value' = [pr_value EXCEPT ![pr_next] = value]
  BY DEF PrMake
<1>2. PrShape'
  <2>1. pr_next' \in Nat
    BY <1>1 DEF PrIInv, PrShape
  <2>2. pr_state' = [p \in Promises |-> pr_state'[p]]
    BY <1>1 DEF PrIInv, PrShape
  <2>3. pr_value' = [p \in Promises |-> pr_value'[p]]
    BY <1>1 DEF PrIInv, PrShape
  <2>4. pr_kind' = [p \in Promises |-> pr_kind'[p]]
    BY <1>1 DEF PrIInv, PrShape
  <2> QED
    BY <2>1, <2>2, <2>3, <2>4 DEF PrShape
<1>3. \A q \in Promises : q # pr_next => PrKept(q) /\ pr_kind'[q] = pr_kind[q]
  BY <1>1 DEF PrIInv, PrShape, PrKept
<1>4. SettledKept
  BY <1>1, <1>3 DEF PrIInv, PrShape, Unmade, SettledKept, Settled
<1>5. Unmade'
  <2> SUFFICES ASSUME NEW q \in Promises, q >= pr_next'
               PROVE  pr_kind'[q] = "none" /\ pr_state'[q] = "pending"
    BY DEF Unmade, Pending
  <2>1. q # pr_next /\ q >= pr_next
    BY <1>1 DEF PrIInv, PrShape, Promises
  <2> QED
    BY <1>3, <2>1 DEF PrIInv, Unmade, Pending, PrKept
<1> QED
  BY <1>2, <1>4, <1>5 DEF PrIInv

-----------------------------------------------------------------------------
LEMMA PrStep == PrIInv /\ [PrNext]_pr_vars => PrIInv' /\ [SettledKept]_pr_vars
<1> SUFFICES ASSUME PrIInv, [PrNext]_pr_vars PROVE PrIInv' /\ [SettledKept]_pr_vars
  OBVIOUS
<1>1. CASE PrSource
  BY <1>1, Making DEF PrSource
<1>2. ASSUME NEW p \in Promises, PrSettle(p) PROVE PrIInv' /\ SettledKept
  <2>1. p < pr_next
    BY <1>2, TargetIsMade DEF PrSettle
  <2>2. PICK state \in {"resolved", "rejected"} : SettleFrom(p, state, p, todo)
    BY <1>2 DEF PrSettle
  <2> QED
    BY <1>2, <2>1, <2>2, Settling DEF PrSettle
<1>3. ASSUME NEW kind \in Chains, NEW p \in Made, PrChain(kind, p) PROVE PrIInv' /\ SettledKept
  BY <1>3, Making DEF PrChain
<1>4. ASSUME NEW of \in Elements, PrAllOf(of) PROVE PrIInv' /\ SettledKept
  <2>1. \E state, value : PrMake("all", of, state, value)
    BY <1>4 DEF PrAllOf
  <2> QED
    BY <2>1, Making
<1>5. ASSUME NEW of \in Elements, PrRaceOf(of) PROVE PrIInv' /\ SettledKept
  <2>1. \E state, value : PrMake("race", of, state, value)
    BY <1>5 DEF PrRaceOf
  <2> QED
    BY <2>1, Making
<1>6. ASSUME NEW of \in Elements, PrAllNow(of) PROVE PrIInv' /\ SettledKept
  <2>1. \E state, value : PrMake("promise_all", of, state, value)
    BY <1>6 DEF PrAllNow
  <2> QED
    BY <2>1, Making
<1>7. ASSUME NEW of \in Elements, PrRaceNow(of) PROVE PrIInv' /\ SettledKept
  <2>1. \E state, value : PrMake("promise_race", of, state, value)
    BY <1>7 DEF PrRaceNow
  <2> QED
    BY <2>1, Making
<1>8. ASSUME Next1.target \in Promises => Next1.target < pr_next,
             NEW state, NEW value, NEW rest, SettleFrom(Next1.target, state, value, rest),
             UNCHANGED <<pr_next, pr_kind>>
      PROVE  PrIInv' /\ SettledKept
  BY <1>8, Settling
<1>9. ASSUME pr_kind[Next1.target] \in Chains \cup Joins
      PROVE  Next1.target \in Promises => Next1.target < pr_next
  BY <1>9, TargetIsMade
<1>10. CASE PrHandler
  <2>1. PICK state \in {"resolved", "rejected"} :
          SettleFrom(Next1.target, state, Next1.target, Tail(todo))
    BY <1>10 DEF PrHandler
  <2> QED
    BY <1>8, <1>9, <1>10, <2>1 DEF PrHandler, Chains
<1>11. CASE PrFinally
  <2>1. \E state, value : SettleFrom(Next1.target, state, value, Tail(todo))
    BY <1>11 DEF PrFinally
  <2> QED
    BY <1>8, <1>9, <1>11, <2>1 DEF PrFinally, Chains
<1>12. CASE PrRace
  BY <1>8, <1>9, <1>12 DEF PrRace, Joins
<1>13. CASE PrAll
  <2>1. \/ SettleFrom(Next1.target, "resolved", Next1.target, Tail(todo))
        \/ UNCHANGED <<pr_state, pr_value>>
    BY <1>13 DEF PrAll
  <2>2. CASE SettleFrom(Next1.target, "resolved", Next1.target, Tail(todo))
    BY <1>8, <1>9, <1>13, <2>2 DEF PrAll, Joins
  <2>3. CASE UNCHANGED <<pr_state, pr_value>>
    BY <1>13, <2>3 DEF PrAll, PrIInv, PrShape, Unmade, Pending, SettledKept, PrKept
  <2> QED
    BY <2>1, <2>2, <2>3
<1>14. CASE UNCHANGED pr_vars
  BY <1>14 DEF pr_vars, PrIInv, PrShape, Unmade, Pending
<1> QED
  BY <1>1, <1>2, <1>3, <1>4, <1>5, <1>6, <1>7, <1>10, <1>11, <1>12, <1>13, <1>14 DEF PrNext

(* What has not been made is pending, in every reachable state.            *)
THEOREM PrInvariance == PrSpec => []PrIInv
<1>1. PrInit => PrIInv
  BY DEF PrInit, PrIInv, PrShape, Unmade, Pending
<1> QED
  BY <1>1, PrStep, PTL DEF PrSpec

(* The first outcome of a promise is its only one, whatever handlers do     *)
(* while callbacks run (resolve, reject).                                  *)
THEOREM SettledOnce == PrSpec => PrSettledOnce
<1>1. [SettledKept]_pr_vars =>
        [\A p \in Promises :
           Settled(p) => pr_state'[p] = pr_state[p] /\ pr_value'[p] = pr_value[p]]_pr_vars
  BY DEF SettledKept, PrKept
<1> QED
  BY <1>1, PrStep, PrInvariance, PTL DEF PrSpec, PrSettledOnce
-----------------------------------------------------------------------------
(* Delivery.  The inductive invariant: the types; that a promise is made    *)
(* from earlier ones, and a chain from one; that all who listen to an       *)
(* outcome of a promise are in its list, once, until it has that outcome;   *)
(* that a callback which waits is of one who listens to the outcome it      *)
(* brings, and no other waits for the same two; and what a promise that is  *)
(* pending waits for, and why one that is settled is.                      *)
PrOutcomes == {"resolved", "rejected"}
Waiters == Chains \cup Joins
Firsts == Chains \cup {"race"}       \* those the first to be heard settles

Hears(kind, state) == IF state = "resolved" THEN HearsResult(kind) ELSE HearsError(kind)
Listeners(q, state) == IF state = "resolved" THEN pr_resolvers[q] ELSE pr_rejecters[q]

PrTokens == [target : Promises, state : PrOutcomes, from : Promises, value : Nat]

PrTyped ==
  /\ pr_next \in 1 .. LastPromise + 1
  /\ pr_kind \in [Promises -> {"none", "source", "promise_all", "promise_race"} \cup Waiters]
  /\ pr_of \in [Promises -> Seq(Promises)]
  /\ pr_state \in [Promises -> {"pending"} \cup PrOutcomes]
  /\ pr_value \in [Promises -> Nat]
  /\ pr_results \in [Promises -> SUBSET Promises]
  /\ pr_resolvers \in [Promises -> Seq(Promises)]
  /\ pr_rejecters \in [Promises -> Seq(Promises)]
  /\ pr_late \in [Promises -> SUBSET Promises]
  /\ todo \in Seq(PrTokens)
  /\ \A p \in Promises : p >= pr_next => pr_kind[p] = "none" /\ Pending(p)

Family(p) ==
  /\ Range(pr_of[p]) \subseteq 1 .. p - 1
  /\ pr_late[p] \cup pr_results[p] \subseteq Range(pr_of[p])
  /\ pr_value[p] < pr_next
  /\ pr_kind[p] \in Chains => \E q \in Promises : pr_of[p] = <<q>>
  /\ pr_kind[p] \in Waiters =>
       \A q \in Range(pr_of[p]) : Pending(q) => q \in pr_late[p]
  /\ pr_kind[p] = "all" => \A q \in pr_results[p] : Resolved(q)

PrListed(q, state, listeners) ==
  /\ IsInjective(listeners)
  /\ pr_state[q] = state => listeners = << >>
  /\ \A p \in Range(listeners) :
       q \in pr_late[p] /\ pr_kind[p] \in Waiters /\ Hears(pr_kind[p], state)
  /\ pr_state[q] # state =>
       \A p \in Promises :
         /\ pr_kind[p] \in Waiters /\ Pending(p)
         /\ q \in pr_late[p] /\ Hears(pr_kind[p], state)
         => p \in Range(listeners)

TokensHold(tokens) ==
  /\ \A i \in DOMAIN tokens :
       LET token == tokens[i] IN
       /\ pr_kind[token.target] \in Waiters
       /\ token.from \in pr_late[token.target]
       /\ pr_state[token.from] = token.state
       /\ Hears(pr_kind[token.target], token.state)
       /\ token.value < pr_next
       /\ pr_kind[token.target] \in Chains => Pending(token.target)
  /\ \A i, j \in DOMAIN tokens :
       tokens[i].target = tokens[j].target /\ tokens[i].from = tokens[j].from => i = j

Comes(p, q, tokens) == \E i \in DOMAIN tokens : tokens[i].target = p /\ tokens[i].from = q

Owed(p, tokens) ==
  Pending(p) =>
    /\ pr_kind[p] \in Firsts =>
         \A q \in Range(pr_of[p]) : WaitsFor(p, q) \/ Comes(p, q, tokens)
    /\ pr_kind[p] = "all" =>
         /\ pr_results[p] # Range(pr_of[p])
         /\ \A q \in Range(pr_of[p]) \ pr_results[p] :
              WaitsFor(p, q) \/ Comes(p, q, tokens)

Why(p) ==
  /\ pr_kind[p] \in Firsts => \E q \in Range(pr_of[p]) : ~WaitsFor(p, q)
  /\ pr_kind[p] = "all" =>
       \/ \E q \in Range(pr_of[p]) : Rejected(q) /\ q \notin pr_late[p]
       \/ \A q \in Range(pr_of[p]) : Resolved(q)

PrHeard ==
  /\ PrTyped
  /\ \A p \in Promises : Family(p)
  /\ \A q \in Promises, state \in PrOutcomes : PrListed(q, state, Listeners(q, state))
  /\ TokensHold(todo)
  /\ \A p \in Promises : Owed(p, todo)
  /\ \A p \in Promises : Settled(p) => Why(p)

-----------------------------------------------------------------------------
(* A waiter misses the outcome it does not hear.                           *)
LEMMA MissedIs ==
  ASSUME NEW p, NEW q, pr_kind[p] \in Waiters, q \in pr_late[p],
         pr_state[q] \in PrOutcomes
  PROVE  MissedIt(p, q) <=> ~Hears(pr_kind[p], pr_state[q])
<1>1. pr_kind[p] \in {"then", "catch", "finally", "all", "race"}
  BY DEF Waiters, Chains, Joins
<1>2. pr_state[q] \in {"resolved", "rejected"}
  BY DEF PrOutcomes
<1> QED
  BY <1>1, <1>2 DEF MissedIt, Hears, HearsResult, HearsError, Joins, Resolved, Rejected

(* What a callback that is heard brings is not missed.                     *)
LEMMA HeardIs ==
  ASSUME NEW p, NEW q, pr_kind[p] \in Waiters, q \in pr_late[p],
         pr_state[q] \in PrOutcomes, Hears(pr_kind[p], pr_state[q])
  PROVE  ~WaitsFor(p, q)
<1>1. ~MissedIt(p, q)
  BY MissedIs
<1>2. ~Pending(q)
  BY DEF Pending, PrOutcomes
<1> QED
  BY <1>1, <1>2 DEF WaitsFor

(* The first callback, and what waits behind it.                           *)
LEMMA PrPopped ==
  ASSUME PrHeard, Running
  PROVE  /\ Next1 \in PrTokens
         /\ pr_kind[Next1.target] \in Waiters
         /\ Next1.from \in pr_late[Next1.target]
         /\ pr_state[Next1.from] = Next1.state
         /\ Hears(pr_kind[Next1.target], Next1.state)
         /\ Next1.value < pr_next
         /\ pr_kind[Next1.target] \in Chains => Pending(Next1.target)
         /\ Tail(todo) \in Seq(PrTokens)
         /\ TokensHold(Tail(todo))
         /\ \A p, q : Comes(p, q, todo) =>
              Comes(p, q, Tail(todo)) \/ (p = Next1.target /\ q = Next1.from)
         /\ \A i \in DOMAIN Tail(todo) :
              ~(Tail(todo)[i].target = Next1.target /\ Tail(todo)[i].from = Next1.from)
<1>. DEFINE rest == Tail(todo)
<1>1. todo \in Seq(PrTokens) /\ TokensHold(todo) /\ todo # << >>
  BY DEF PrHeard, PrTyped, Running
<1>2. /\ Len(todo) \in Nat \ {0}
      /\ Next1 = todo[1]
      /\ rest \in Seq(PrTokens)
      /\ Len(rest) = Len(todo) - 1
      /\ \A i \in 1 .. Len(rest) : rest[i] = todo[i + 1]
      /\ DOMAIN todo = 1 .. Len(todo)
      /\ DOMAIN rest = 1 .. Len(rest)
  BY <1>1 DEF Next1
<1>3. 1 \in DOMAIN todo
  BY <1>2
<1>4. Next1 \in PrTokens
  BY <1>1, <1>2, <1>3, ElementOfSeq
<1>5. \A i \in DOMAIN rest : i + 1 \in DOMAIN todo /\ rest[i] = todo[i + 1] /\ i + 1 # 1
  BY <1>2
<1>. HIDE DEF rest
<1>6. /\ pr_kind[Next1.target] \in Waiters
      /\ Next1.from \in pr_late[Next1.target]
      /\ pr_state[Next1.from] = Next1.state
      /\ Hears(pr_kind[Next1.target], Next1.state)
      /\ Next1.value < pr_next
      /\ pr_kind[Next1.target] \in Chains => Pending(Next1.target)
  BY <1>1, <1>2, <1>3 DEF TokensHold
<1>7. TokensHold(rest)
  <2>1. ASSUME NEW i \in DOMAIN rest
        PROVE  LET token == rest[i] IN
               /\ pr_kind[token.target] \in Waiters
               /\ token.from \in pr_late[token.target]
               /\ pr_state[token.from] = token.state
               /\ Hears(pr_kind[token.target], token.state)
               /\ token.value < pr_next
               /\ pr_kind[token.target] \in Chains => Pending(token.target)
    BY <1>1, <1>5 DEF TokensHold
  <2>2. ASSUME NEW i \in DOMAIN rest, NEW j \in DOMAIN rest,
               rest[i].target = rest[j].target, rest[i].from = rest[j].from
        PROVE  i = j
    <3>1. i + 1 = j + 1
      BY <1>1, <1>5, <2>2 DEF TokensHold
    <3> QED
      BY <1>2, <3>1
  <2> QED
    BY <2>1, <2>2 DEF TokensHold
<1>8. ASSUME NEW p, NEW q, Comes(p, q, todo)
      PROVE  Comes(p, q, rest) \/ (p = Next1.target /\ q = Next1.from)
  <2>1. PICK i \in DOMAIN todo : todo[i].target = p /\ todo[i].from = q
    BY <1>8 DEF Comes
  <2>2. CASE i = 1
    BY <1>2, <2>1, <2>2
  <2>3. CASE i # 1
    <3>1. i - 1 \in DOMAIN rest /\ rest[i - 1] = todo[i]
      BY <1>2, <2>3
    <3> QED
      BY <2>1, <3>1 DEF Comes
  <2> QED
    BY <2>2, <2>3
<1>9. ASSUME NEW i \in DOMAIN rest, rest[i].target = Next1.target, rest[i].from = Next1.from
      PROVE  FALSE
  <2>1. i + 1 = 1
    BY <1>1, <1>2, <1>3, <1>5, <1>9 DEF TokensHold
  <2> QED
    BY <1>5, <2>1
<1> QED
  BY <1>2, <1>4, <1>6, <1>7, <1>8, <1>9 DEF rest

(* What the states of all promises say is the same as long as those and     *)
(* what they were made from are.                                           *)
LEMMA SameStates ==
  ASSUME UNCHANGED <<pr_kind, pr_of, pr_state, pr_late>>
  PROVE  /\ \A p : Pending(p)' = Pending(p) /\ Settled(p)' = Settled(p)
         /\ \A p : Resolved(p)' = Resolved(p) /\ Rejected(p)' = Rejected(p)
         /\ \A p, q : WaitsFor(p, q)' = WaitsFor(p, q)
         /\ \A p : Why(p)' = Why(p)
  BY DEF Pending, Settled, Resolved, Rejected, WaitsFor, MissedIt, Why

(* A callback that settles nothing.                                        *)
LEMMA Passing ==
  ASSUME PrHeard, Running, todo' = Tail(todo),
         UNCHANGED <<pr_next, pr_kind, pr_of, pr_late, pr_state, pr_value,
                     pr_resolvers, pr_rejecters>>,
         pr_results' \in [Promises -> SUBSET Promises],
         \A p \in Promises : p # Next1.target => pr_results'[p] = pr_results[p],
         pr_results'[Next1.target] \subseteq Range(pr_of[Next1.target]),
         pr_kind[Next1.target] = "all" => \A q \in pr_results'[Next1.target] : Resolved(q),
         Pending(Next1.target) =>
           /\ pr_kind[Next1.target] = "all"
           /\ pr_results'[Next1.target] = pr_results[Next1.target] \cup {Next1.from}
           /\ pr_results'[Next1.target] # Range(pr_of[Next1.target])
  PROVE  PrHeard'
<1>1. /\ Tail(todo) \in Seq(PrTokens)
      /\ TokensHold(Tail(todo))
      /\ \A p, q : Comes(p, q, todo) =>
           Comes(p, q, Tail(todo)) \/ (p = Next1.target /\ q = Next1.from)
  BY PrPopped
<1>2. PrTyped'
  <2>1. /\ pr_next' \in 1 .. LastPromise + 1
        /\ pr_kind' \in [Promises -> {"none", "source", "promise_all", "promise_race"} \cup Waiters]
        /\ pr_of' \in [Promises -> Seq(Promises)]
        /\ pr_state' \in [Promises -> {"pending"} \cup PrOutcomes]
        /\ pr_value' \in [Promises -> Nat]
        /\ pr_resolvers' \in [Promises -> Seq(Promises)]
        /\ pr_rejecters' \in [Promises -> Seq(Promises)]
        /\ pr_late' \in [Promises -> SUBSET Promises]
    BY DEF PrHeard, PrTyped
  <2>2. todo' \in Seq(PrTokens)
    BY <1>1
  <2>3. (\A p \in Promises : p >= pr_next => pr_kind[p] = "none" /\ Pending(p))'
    BY SameStates DEF PrHeard, PrTyped
  <2> QED
    BY <2>1, <2>2, <2>3 DEF PrTyped
<1>3. ASSUME NEW p \in Promises PROVE Family(p)'
  <2>1. Family(p)
    BY DEF PrHeard
  <2>2. CASE p = Next1.target
    BY <2>1, <2>2, SameStates DEF Family
  <2>3. CASE p # Next1.target
    <3>1. pr_results'[p] = pr_results[p]
      BY <2>3
    <3> QED
      BY <2>1, <3>1, SameStates DEF Family
  <2> QED
    BY <2>2, <2>3
<1>4. ASSUME NEW q \in Promises, NEW state \in PrOutcomes
      PROVE  PrListed(q, state, Listeners(q, state))'
  <2>1. PrListed(q, state, Listeners(q, state))
    BY DEF PrHeard
  <2> QED
    BY <2>1 DEF PrListed, Listeners, Pending
<1>5. TokensHold(todo)'
  BY <1>1 DEF TokensHold, Pending
<1>6. ASSUME NEW p \in Promises PROVE Owed(p, todo)'
  <2>1. Owed(p, todo)
    BY DEF PrHeard
  <2>2. \A q : Comes(p, q, todo)' <=> Comes(p, q, Tail(todo))
    BY DEF Comes
  <2>3. CASE p = Next1.target
    BY <1>1, <2>1, <2>2, <2>3, SameStates DEF Owed, Firsts, Chains
  <2>4. CASE p # Next1.target
    <3>1. pr_results'[p] = pr_results[p]
      BY <2>4
    <3>2. \A q : Comes(p, q, todo) => Comes(p, q, todo)'
      BY <1>1, <2>2, <2>4
    <3> QED
      BY <2>1, <3>1, <3>2, SameStates DEF Owed
  <2> QED
    BY <2>3, <2>4
<1>7. \A p \in Promises : (Settled(p) => Why(p))'
  BY SameStates DEF PrHeard
<1> QED
  BY <1>2, <1>3, <1>4, <1>5, <1>6, <1>7 DEF PrHeard

LEMMA HeardStutter ==
  ASSUME PrHeard, UNCHANGED pr_vars
  PROVE  PrHeard'
<1>1. /\ UNCHANGED <<pr_next, pr_kind, pr_of, pr_state, pr_value, pr_results>>
      /\ UNCHANGED <<pr_resolvers, pr_rejecters, pr_late, todo>>
  BY DEF pr_vars
<1>2. /\ \A p : Pending(p)' = Pending(p) /\ Settled(p)' = Settled(p)
      /\ \A p : Resolved(p)' = Resolved(p)
      /\ \A p, q : WaitsFor(p, q)' = WaitsFor(p, q)
      /\ \A p : Why(p)' = Why(p)
  BY <1>1, SameStates
<1>3. PrTyped'
  BY <1>1, <1>2 DEF PrHeard, PrTyped
<1>4. \A p \in Promises : Family(p)'
  BY <1>1, <1>2 DEF PrHeard, Family
<1>5. \A q \in Promises, s \in PrOutcomes : PrListed(q, s, Listeners(q, s))'
  BY <1>1, <1>2 DEF PrHeard, PrListed, Listeners
<1>6. TokensHold(todo)'
  BY <1>1, <1>2 DEF PrHeard, TokensHold
<1>7. \A p \in Promises : Owed(p, todo)' /\ (Settled(p) => Why(p))'
  BY <1>1, <1>2 DEF PrHeard, Owed, Comes
<1> QED
  BY <1>3, <1>4, <1>5, <1>6, <1>7 DEF PrHeard

(* both are the calls of the listeners and then what was waiting.           *)
Before(both, listeners, q, state, value, rest) ==
  /\ both \in Seq(PrTokens)
  /\ Len(listeners) \in Nat /\ Len(rest) \in Nat
  /\ DOMAIN listeners = 1 .. Len(listeners)
  /\ DOMAIN rest = 1 .. Len(rest)
  /\ DOMAIN both = 1 .. Len(listeners) + Len(rest)
  /\ \A i \in DOMAIN listeners :
       both[i] = [target |-> listeners[i], state |-> state,
                  from |-> q, value |-> value]
  /\ \A i \in DOMAIN rest : both[Len(listeners) + i] = rest[i]

(* The callbacks registered for an outcome, when it comes.                 *)
LEMMA CallbacksAre ==
  ASSUME PrHeard, NEW q \in Promises, NEW state \in PrOutcomes,
         NEW value \in Nat, NEW rest \in Seq(PrTokens)
  PROVE  Before(Callbacks(q, state, value) \o rest, Listeners(q, state),
                q, state, value, rest)
<1>a. PICK listeners : listeners = Listeners(q, state)
  OBVIOUS
<1>b. PICK both : both = Callbacks(q, state, value) \o rest
  OBVIOUS
<1>. DEFINE calls == Callbacks(q, state, value)
<1>0. both = calls \o rest
  BY <1>b
<1>1. listeners \in Seq(Promises)
  BY <1>a DEF PrHeard, PrTyped, Listeners
<1>2. /\ Len(listeners) \in Nat /\ Len(rest) \in Nat
      /\ DOMAIN listeners = 1 .. Len(listeners)
      /\ DOMAIN rest = 1 .. Len(rest)
  BY <1>1
<1>3. calls = [i \in 1 .. Len(listeners) |->
                 [target |-> listeners[i], state |-> state, from |-> q, value |-> value]]
  BY <1>a DEF Callbacks, Listeners
<1>4. \A i \in 1 .. Len(listeners) : listeners[i] \in Promises
  BY <1>1, <1>2, ElementOfSeq
<1>5. \A i \in 1 .. Len(listeners) : calls[i] \in PrTokens
  BY <1>3, <1>4 DEF PrTokens
<1>6. /\ DOMAIN calls = 1 .. Len(listeners)
      /\ \A i \in 1 .. Len(listeners) :
           calls[i] = [target |-> listeners[i], state |-> state, from |-> q, value |-> value]
  BY <1>3
<1>. HIDE DEF calls
<1>7. calls = [i \in 1 .. Len(listeners) |-> calls[i]]
  BY <1>3, <1>6
<1>8. calls \in Seq(PrTokens) /\ Len(calls) = Len(listeners)
  <2>1. calls \in [1 .. Len(listeners) -> PrTokens]
    BY <1>5, <1>7
  <2> QED
    BY <1>2, <1>6, <2>1
<1>9. /\ both \in Seq(PrTokens)
      /\ DOMAIN both = 1 .. Len(listeners) + Len(rest)
      /\ \A i \in 1 .. Len(listeners) : both[i] = calls[i]
      /\ \A i \in DOMAIN rest : both[Len(listeners) + i] = rest[i]
  <2>1. Len(both) = Len(listeners) + Len(rest)
    <3>1. calls \in Seq(PrTokens)
      BY <1>8
    <3>2. Len(calls \o rest) = Len(calls) + Len(rest)
      BY <3>1, ConcatProperties, ZenonT(30)
    <3> QED
      BY <1>0, <1>8, <3>2, ZenonT(30)
  <2>2. both \in Seq(PrTokens)
    BY <1>0, <1>8
  <2>3. DOMAIN both = 1 .. Len(listeners) + Len(rest)
    BY <2>1, <2>2
  <2>4. \A i \in 1 .. Len(listeners) : both[i] = calls[i]
    BY <1>0, <1>2, <1>8
  <2>5. \A i \in 1 .. Len(rest) : both[Len(listeners) + i] = rest[i]
    BY <1>0, <1>2, <1>8
  <2> QED
    BY <1>2, <2>2, <2>3, <2>4, <2>5
<1>10. Before(both, listeners, q, state, value, rest)
  BY <1>2, <1>6, <1>9 DEF Before
<1> QED
  BY <1>10, <1>a, <1>b

(* A waiting chain is as yet unsettled: what it waits for has not come.     *)
LEMMA ChainWaits ==
  ASSUME PrHeard, NEW p \in Promises, NEW q \in Promises,
         pr_kind[p] \in Chains, q \in pr_late[p], Pending(q)
  PROVE  Pending(p)
<1>1. PICK r \in Promises : pr_of[p] = <<r>>
  BY DEF PrHeard, Family
<1>2. Range(pr_of[p]) = {r}
  BY <1>1 DEF Range
<1>3. q = r
  BY <1>2 DEF PrHeard, Family
<1>4. ~Settled(p)
  BY <1>2, <1>3 DEF PrHeard, Why, Firsts, WaitsFor
<1> QED
  BY <1>4 DEF Settled

(* A pending promise is settled: its callbacks come first.  Why it may be   *)
(* is the caller's to say; pr_results is as the step leaves it.            *)
LEMMA Delivering ==
  ASSUME PrHeard, NEW q \in Promises, Pending(q), q < pr_next,
         NEW state \in PrOutcomes, NEW value \in Nat, value < pr_next,
         NEW rest \in Seq(PrTokens), TokensHold(rest),
         \A p \in Promises : p # q => Owed(p, rest),
         \A i \in DOMAIN rest : pr_kind[q] \in Chains => rest[i].target # q,
         Why(q),
         SettleFrom(q, state, value, rest),
         UNCHANGED <<pr_next, pr_kind, pr_of, pr_late>>,
         pr_results' \in [Promises -> SUBSET Promises],
         \A p \in Promises : p # q => pr_results'[p] = pr_results[p],
         pr_results'[q] \subseteq Range(pr_of[q]),
         pr_kind[q] = "all" => \A r \in pr_results'[q] : Resolved(r)
  PROVE  PrHeard'
<1>a. PICK listeners : listeners = Listeners(q, state)
  OBVIOUS
<1>b. PICK both : both = Callbacks(q, state, value) \o rest
  OBVIOUS
<1>c. PICK n : n = Len(listeners)
  OBVIOUS
<1>1. /\ pr_state' = [pr_state EXCEPT ![q] = state]
      /\ pr_value' = [pr_value EXCEPT ![q] = value]
      /\ todo' = both
      /\ pr_resolvers' = Dropping(pr_resolvers, q, state = "resolved")
      /\ pr_rejecters' = Dropping(pr_rejecters, q, state = "rejected")
  BY <1>b DEF SettleFrom, SettleWhen
<1>2. PrTyped /\ (\A p \in Promises : Family(p))
  BY DEF PrHeard
<1>3. /\ pr_state'[q] = state /\ state # "pending"
      /\ \A p \in Promises : p # q => pr_state'[p] = pr_state[p]
      /\ \A p \in Promises : pr_value'[p] = IF p = q THEN value ELSE pr_value[p]
  BY <1>1, <1>2 DEF PrTyped, PrOutcomes
<1>4. \A p \in Promises, s \in PrOutcomes :
        Listeners(p, s)' = IF p = q /\ s = state THEN << >> ELSE Listeners(p, s)
  BY <1>1, <1>2 DEF Listeners, Dropping, PrOutcomes, PrTyped
<1>4a. Before(both, listeners, q, state, value, rest)
  BY <1>a, <1>b, CallbacksAre
<1>5. /\ both \in Seq(PrTokens)
      /\ n \in Nat /\ Len(rest) \in Nat
      /\ DOMAIN listeners = 1 .. n
      /\ DOMAIN rest = 1 .. Len(rest)
      /\ DOMAIN both = 1 .. n + Len(rest)
      /\ \A i \in DOMAIN listeners :
           both[i] = [target |-> listeners[i], state |-> state, from |-> q, value |-> value]
      /\ \A i \in DOMAIN rest : both[n + i] = rest[i]
  BY <1>4a, <1>c DEF Before
<1>6. PrListed(q, state, listeners) /\ listeners \in Seq(Promises)
  BY <1>a, <1>2 DEF PrHeard, PrTyped, Listeners
<1>7. \A p \in Promises : Range(pr_of[p]) \subseteq Promises /\ p \notin Range(pr_of[p])
  <2> SUFFICES ASSUME NEW p \in Promises
               PROVE  Range(pr_of[p]) \subseteq Promises /\ p \notin Range(pr_of[p])
    OBVIOUS
  <2>1. Range(pr_of[p]) \subseteq 1 .. p - 1
    BY <1>2 DEF Family
  <2>2. \A r \in 1 .. p - 1 : r \in Promises /\ r # p
    BY PromiseAssumption DEF Promises
  <2> QED
    BY <2>1, <2>2
<1>8. \A p \in Promises :
        /\ p # q => (Pending(p)' <=> Pending(p)) /\ (Resolved(p)' <=> Resolved(p))
                    /\ (Rejected(p)' <=> Rejected(p))
        /\ Pending(p)' => Pending(p)
        /\ Resolved(p) => Resolved(p)'
  BY <1>3 DEF Pending, Resolved, Rejected
<1>9. \A p, r \in Promises : r # q => (WaitsFor(p, r)' <=> WaitsFor(p, r))
  BY <1>8 DEF WaitsFor, MissedIt
<1>10. PrTyped'
  <2>1. /\ pr_next' \in 1 .. LastPromise + 1
        /\ pr_kind' \in [Promises -> {"none", "source", "promise_all", "promise_race"} \cup Waiters]
        /\ pr_of' \in [Promises -> Seq(Promises)]
        /\ pr_late' \in [Promises -> SUBSET Promises]
    BY <1>2 DEF PrTyped
  <2>2. pr_state' \in [Promises -> {"pending"} \cup PrOutcomes]
    BY <1>1, <1>2 DEF PrTyped
  <2>3. pr_value' \in [Promises -> Nat]
    BY <1>1, <1>2 DEF PrTyped
  <2>4. << >> \in Seq(Promises)
    OBVIOUS
  <2>5. pr_resolvers' \in [Promises -> Seq(Promises)]
    BY <1>1, <1>2, <2>4 DEF PrTyped, Dropping
  <2>6. pr_rejecters' \in [Promises -> Seq(Promises)]
    BY <1>1, <1>2, <2>4 DEF PrTyped, Dropping
  <2>7. todo' \in Seq(PrTokens)
    BY <1>1, <1>5
  <2>8. (\A p \in Promises : p >= pr_next => pr_kind[p] = "none" /\ Pending(p))'
    <3> SUFFICES ASSUME NEW p \in Promises, p >= pr_next
                 PROVE  pr_kind[p] = "none" /\ Pending(p)'
      OBVIOUS
    <3>1. p # q
      BY <1>2 DEF PrTyped, Promises
    <3> QED
      BY <1>2, <1>8, <3>1 DEF PrTyped
  <2> QED
    BY <2>1, <2>2, <2>3, <2>5, <2>6, <2>7, <2>8 DEF PrTyped
<1>11. ASSUME NEW p \in Promises PROVE Family(p)'
  <2>1. Family(p)
    BY <1>2
  <2>2. /\ Range(pr_of[p]) \subseteq 1 .. p - 1
        /\ pr_value'[p] < pr_next
        /\ pr_kind[p] \in Chains => \E r \in Promises : pr_of[p] = <<r>>
    BY <1>3, <2>1 DEF Family
  <2>3. pr_late[p] \cup pr_results'[p] \subseteq Range(pr_of[p])
    BY <2>1 DEF Family
  <2>4. pr_kind[p] \in Waiters =>
          \A r \in Range(pr_of[p]) : Pending(r)' => r \in pr_late[p]
    BY <1>7, <1>8, <2>1 DEF Family
  <2>5. pr_kind[p] = "all" => \A r \in pr_results'[p] : Resolved(r)
    BY <2>1 DEF Family
  <2>6. pr_kind[p] = "all" => \A r \in pr_results'[p] : Resolved(r)'
    BY <1>7, <1>8, <2>3, <2>5
  <2> QED
    BY <2>2, <2>3, <2>4, <2>6 DEF Family
<1>12. ASSUME NEW r \in Promises, NEW s \in PrOutcomes
       PROVE  PrListed(r, s, Listeners(r, s))'
  <2>1. PrListed(r, s, Listeners(r, s))
    BY DEF PrHeard
  <2>2. PICK now : now = Listeners(r, s)'
    OBVIOUS
  <2>3. CASE r = q /\ s = state
    <3>1. now = << >>
      BY <1>4, <2>2, <2>3
    <3>2. IsInjective(now) /\ Range(now) = {}
      BY <3>1 DEF IsInjective, Range
    <3> QED
      BY <1>3, <2>2, <2>3, <3>1, <3>2 DEF PrListed
  <2>4. CASE r = q /\ s # state
    <3>1. now = Listeners(r, s)
      BY <1>4, <2>2, <2>4
    <3>2. pr_state[r] # s /\ pr_state'[r] # s
      BY <1>3, <2>4 DEF Pending, PrOutcomes
    <3> QED
      BY <1>8, <2>1, <2>2, <3>1, <3>2 DEF PrListed
  <2>5. CASE r # q
    <3>1. now = Listeners(r, s)
      BY <1>4, <2>2, <2>5
    <3>2. pr_state'[r] = pr_state[r]
      BY <1>3, <2>5
    <3> QED
      BY <1>8, <2>1, <2>2, <3>1, <3>2 DEF PrListed
  <2> QED
    BY <2>3, <2>4, <2>5
<1>13. ASSUME NEW i \in DOMAIN both
       PROVE  \/ /\ i \in DOMAIN listeners
                 /\ both[i].target = listeners[i]
                 /\ both[i].state = state /\ both[i].from = q /\ both[i].value = value
              \/ /\ i - n \in DOMAIN rest /\ i \notin DOMAIN listeners
                 /\ both[i] = rest[i - n]
                 /\ both[i].from # q
  <2>1. CASE i \in DOMAIN listeners
    <3>1. both[i] = [target |-> listeners[i], state |-> state, from |-> q, value |-> value]
      BY <1>5, <2>1
    <3> QED
      BY <2>1, <3>1
  <2>2. CASE i \notin DOMAIN listeners
    <3>1. i - n \in DOMAIN rest /\ both[n + (i - n)] = rest[i - n] /\ n + (i - n) = i
      BY <1>5, <2>2
    <3>2. rest[i - n] \in PrTokens
      BY <1>5, <3>1, ElementOfSeq
    <3>3. pr_state[rest[i - n].from] # "pending"
      BY <3>1, <3>2 DEF TokensHold, PrTokens, PrOutcomes
    <3> QED
      BY <2>2, <3>1, <3>3 DEF Pending
  <2> QED
    BY <2>1, <2>2
<1>14. ASSUME NEW i \in DOMAIN both
       PROVE  /\ pr_kind[both[i].target] \in Waiters
              /\ both[i].from \in pr_late[both[i].target]
              /\ pr_state'[both[i].from] = both[i].state
              /\ Hears(pr_kind[both[i].target], both[i].state)
              /\ both[i].value < pr_next
              /\ pr_kind[both[i].target] \in Chains => Pending(both[i].target)'
  <2>1. both[i] \in PrTokens
    BY <1>5, ElementOfSeq
  <2>2. CASE i \in DOMAIN listeners
    <3>1. /\ both[i].target = listeners[i]
          /\ both[i].state = state /\ both[i].from = q /\ both[i].value = value
      BY <1>13, <2>2
    <3>2. listeners[i] \in Range(listeners) /\ listeners[i] \in Promises
      BY <2>1, <2>2, <3>1 DEF Range, PrTokens
    <3>3. /\ q \in pr_late[listeners[i]]
          /\ pr_kind[listeners[i]] \in Waiters
          /\ Hears(pr_kind[listeners[i]], state)
      BY <1>6, <3>2 DEF PrListed
    <3>4. listeners[i] # q
      BY <1>2, <1>7, <3>2, <3>3 DEF Family
    <3>5. pr_kind[listeners[i]] \in Chains => Pending(listeners[i])'
      BY <1>8, <3>2, <3>3, <3>4, ChainWaits
    <3> QED
      BY <1>3, <3>1, <3>3, <3>5
  <2>3. CASE i \notin DOMAIN listeners
    <3>1. /\ i - n \in DOMAIN rest /\ both[i] = rest[i - n]
          /\ both[i].from # q
      BY <1>13, <2>3
    <3>2. /\ pr_kind[both[i].target] \in Waiters
          /\ both[i].from \in pr_late[both[i].target]
          /\ pr_state[both[i].from] = both[i].state
          /\ Hears(pr_kind[both[i].target], both[i].state)
          /\ both[i].value < pr_next
          /\ pr_kind[both[i].target] \in Chains => Pending(both[i].target)
      BY <3>1 DEF TokensHold
    <3>3. pr_kind[both[i].target] \in Chains => both[i].target # q
      BY <3>1
    <3> QED
      BY <1>3, <1>8, <2>1, <3>1, <3>2, <3>3 DEF PrTokens
  <2> QED
    BY <2>2, <2>3
<1>15. ASSUME NEW i \in DOMAIN both, NEW j \in DOMAIN both,
              both[i].target = both[j].target, both[i].from = both[j].from
       PROVE  i = j
  <2>1. CASE i \in DOMAIN listeners /\ j \in DOMAIN listeners
    <3>1. listeners[i] = listeners[j]
      BY <1>13, <1>15, <2>1
    <3> QED
      BY <1>6, <2>1, <3>1 DEF PrListed, IsInjective
  <2>2. CASE i \notin DOMAIN listeners /\ j \notin DOMAIN listeners
    <3>1. /\ i - n \in DOMAIN rest /\ both[i] = rest[i - n]
          /\ j - n \in DOMAIN rest /\ both[j] = rest[j - n]
      BY <1>13, <2>2
    <3>2. i - n = j - n
      BY <1>15, <3>1 DEF TokensHold
    <3> QED
      BY <1>5, <3>2
  <2>3. CASE ~(i \in DOMAIN listeners <=> j \in DOMAIN listeners)
    BY <1>13, <1>15, <2>3
  <2> QED
    BY <2>1, <2>2, <2>3
<1>16. TokensHold(todo)'
  <2>1. todo' = both
    BY <1>1, <1>b
  <2> QED
    BY <1>14, <1>15, <2>1 DEF TokensHold
<1>17. ASSUME NEW p \in Promises, NEW r
       PROVE  /\ Comes(p, r, rest) => Comes(p, r, both)
              /\ r = q /\ p \in Range(listeners) => Comes(p, r, both)
  <2>1. ASSUME NEW i \in DOMAIN rest, rest[i].target = p, rest[i].from = r
        PROVE  Comes(p, r, both)
    <3>1. n + i \in DOMAIN both /\ both[n + i] = rest[i]
      BY <1>5
    <3> QED
      BY <2>1, <3>1 DEF Comes
  <2>2. ASSUME NEW i \in DOMAIN listeners, listeners[i] = p, r = q
        PROVE  Comes(p, r, both)
    <3>1. i \in DOMAIN both
      BY <1>5
    <3>2. both[i].target = p /\ both[i].from = r
      BY <1>13, <2>2, <3>1
    <3> QED
      BY <3>1, <3>2 DEF Comes
  <2> QED
    BY <2>1, <2>2 DEF Comes, Range
<1>18. ASSUME NEW p \in Promises, p # q, Pending(p), pr_kind[p] \in Waiters,
              NEW r \in Range(pr_of[p]), WaitsFor(p, r) \/ Comes(p, r, rest)
       PROVE  WaitsFor(p, r)' \/ Comes(p, r, both)
  <2>1. r \in Promises
    BY <1>7
  <2>2. CASE r # q
    BY <1>9, <1>17, <1>18, <2>1, <2>2
  <2>3. CASE r = q
    <3>1. q \in pr_late[p]
      BY <1>2, <1>18, <2>3 DEF Family
    <3>2. CASE Hears(pr_kind[p], state)
      <4>1. p \in Range(listeners)
        BY <1>3, <1>6, <1>18, <3>1, <3>2 DEF PrListed, Pending
      <4> QED
        BY <1>17, <2>3, <4>1
    <3>3. CASE ~Hears(pr_kind[p], state)
      <4>1. state \in {"resolved", "rejected"}
        BY DEF PrOutcomes
      <4>2. pr_kind[p] \in {"then", "catch", "finally", "all", "race"}
        BY <1>18 DEF Waiters, Chains, Joins
      <4>3. MissedIt(p, q)'
        BY <1>3, <3>1, <3>3, <4>1, <4>2
           DEF MissedIt, Hears, HearsResult, HearsError, Joins, Resolved, Rejected
      <4> QED
        BY <2>3, <4>3 DEF WaitsFor
    <3> QED
      BY <3>2, <3>3
  <2> QED
    BY <2>2, <2>3
<1>19. ASSUME NEW p \in Promises PROVE Owed(p, todo)'
  <2>1. todo' = both
    BY <1>1, <1>b
  <2>2. SUFFICES ASSUME Pending(p)'
                 PROVE  /\ pr_kind[p] \in Firsts =>
                             \A r \in Range(pr_of[p]) : WaitsFor(p, r)' \/ Comes(p, r, both)
                        /\ pr_kind[p] = "all" =>
                             /\ pr_results'[p] # Range(pr_of[p])
                             /\ \A r \in Range(pr_of[p]) \ pr_results'[p] :
                                  WaitsFor(p, r)' \/ Comes(p, r, both)
    BY <2>1 DEF Owed, Comes
  <2>3. p # q /\ Pending(p)
    BY <1>3, <1>8, <2>2 DEF Pending
  <2>4. Owed(p, rest)
    BY <2>3
  <2>5. pr_results'[p] = pr_results[p]
    BY <2>3
  <2>6. pr_kind[p] \in Firsts \/ pr_kind[p] = "all" => pr_kind[p] \in Waiters
    BY DEF Firsts, Waiters, Joins
  <2>7. CASE pr_kind[p] \in Firsts
    <3>1. pr_kind[p] # "all"
      BY <2>7 DEF Firsts, Chains
    <3> QED
      BY <1>18, <2>3, <2>4, <2>6, <2>7, <3>1 DEF Owed
  <2>8. CASE pr_kind[p] = "all"
    <3>1. pr_kind[p] \notin Firsts
      BY <2>8 DEF Firsts, Chains
    <3> QED
      BY <1>18, <2>3, <2>4, <2>5, <2>6, <2>8, <3>1 DEF Owed
  <2> QED
    BY <2>7, <2>8
<1>20. ASSUME NEW p \in Promises, Settled(p)' PROVE Why(p)'
  <2>1. Why(p)
    <3>1. CASE p = q
      BY <3>1
    <3>2. CASE p # q
      BY <1>8, <1>20, <3>2 DEF PrHeard, Settled
    <3> QED
      BY <3>1, <3>2
  <2>2. ASSUME NEW r \in Range(pr_of[p]), ~WaitsFor(p, r)
        PROVE  ~WaitsFor(p, r)'
    <3>1. r \in Promises /\ r # q
      BY <1>7, <2>2 DEF WaitsFor
    <3> QED
      BY <1>9, <2>2, <3>1
  <2>3. ASSUME NEW r \in Range(pr_of[p])
        PROVE  /\ Rejected(r) => Rejected(r)'
               /\ Resolved(r) => Resolved(r)'
    <3>1. r \in Promises /\ (Rejected(r) => r # q)
      BY <1>7 DEF Rejected, Pending
    <3> QED
      BY <1>8, <3>1
  <2> QED
    BY <2>1, <2>2, <2>3 DEF Why
<1> QED
  BY <1>10, <1>11, <1>12, <1>16, <1>19, <1>20 DEF PrHeard

-----------------------------------------------------------------------------
(* What a new promise may be: a waiter that is pending hears of every       *)
(* element that is, and of nothing else it needs; one that is settled has   *)
(* a reason to be.                                                         *)
PrDue(kind, of, state) ==
  /\ of \in Seq(Promises) /\ Range(of) \subseteq Made
  /\ kind \in {"source", "promise_all", "promise_race"} \cup Waiters
  /\ kind \in Chains => \E q \in Promises : of = <<q>>
  /\ state \in {"pending"} \cup PrOutcomes
  /\ state = "pending" =>
       /\ kind \in Waiters \/ of = << >>
       /\ kind \in Firsts => \A q \in Range(of) : Pending(q)
       /\ kind = "all" => /\ \A q \in Range(of) : Pending(q) \/ Resolved(q)
                          /\ \E q \in Range(of) : ~Resolved(q)
  /\ state # "pending" =>
       /\ kind \in Firsts => \E q \in Range(of) : ~Pending(q)
       /\ kind = "all" => \/ \E q \in Range(of) : Rejected(q)
                          \/ \A q \in Range(of) : Resolved(q)

LEMMA Listened ==
  ASSUME NEW listeners \in Seq(Promises), NEW n \in Promises,
         n \notin Range(listeners), IsInjective(listeners)
  PROVE  /\ Append(listeners, n) \in Seq(Promises)
         /\ IsInjective(Append(listeners, n))
         /\ Range(Append(listeners, n)) = Range(listeners) \cup {n}
         /\ Append(listeners, n) # << >>
<1>. DEFINE longer == Append(listeners, n)
<1>1. /\ longer \in Seq(Promises)
      /\ Len(listeners) \in Nat
      /\ DOMAIN listeners = 1 .. Len(listeners)
      /\ DOMAIN longer = 1 .. Len(listeners) + 1
      /\ \A i \in DOMAIN listeners : longer[i] = listeners[i]
      /\ longer[Len(listeners) + 1] = n
      /\ longer # << >>
  OBVIOUS
<1>. HIDE DEF longer
<1>2. \A i \in DOMAIN longer : i \in DOMAIN listeners \/ i = Len(listeners) + 1
  BY <1>1
<1>3. Range(longer) = Range(listeners) \cup {n}
  <2>1. ASSUME NEW x \in Range(longer) PROVE x \in Range(listeners) \cup {n}
    BY <1>1, <1>2, <2>1 DEF Range
  <2>2. ASSUME NEW x \in Range(listeners) \cup {n} PROVE x \in Range(longer)
    <3>1. Len(listeners) + 1 \in DOMAIN longer
      BY <1>1
    <3>2. \A i \in DOMAIN listeners : i \in DOMAIN longer
      BY <1>1
    <3> QED
      BY <1>1, <2>2, <3>1, <3>2 DEF Range
  <2> QED
    BY <2>1, <2>2
<1>4. IsInjective(longer)
  <2> SUFFICES ASSUME NEW i \in DOMAIN longer, NEW j \in DOMAIN longer,
                      longer[i] = longer[j]
               PROVE  i = j
    BY DEF IsInjective
  <2>1. CASE i \in DOMAIN listeners /\ j \in DOMAIN listeners
    BY <1>1, <2>1 DEF IsInjective
  <2>2. CASE ~(i \in DOMAIN listeners /\ j \in DOMAIN listeners)
    BY <1>1, <1>2, <2>2 DEF Range
  <2> QED
    BY <2>1, <2>2
<1> QED
  BY <1>1, <1>3, <1>4 DEF longer

(* What is not made yet has no listeners, and listens to nothing.          *)
LEMMA Unheard ==
  ASSUME PrHeard, pr_next \in Promises
  PROVE  /\ \A p \in Promises : pr_kind[p] \in Waiters =>
              /\ p < pr_next /\ pr_next \notin Range(pr_of[p]) /\ pr_next \notin pr_late[p]
         /\ \A q \in Promises, s \in PrOutcomes : pr_next \notin Range(Listeners(q, s))
         /\ \A s \in PrOutcomes : Listeners(pr_next, s) = << >>
<1>1. ASSUME NEW p \in Promises, pr_kind[p] \in Waiters
      PROVE  p < pr_next /\ pr_next \notin Range(pr_of[p]) /\ pr_next \notin pr_late[p]
  <2>1. pr_kind[p] # "none"
    BY <1>1 DEF Waiters, Chains, Joins
  <2>2. p < pr_next
    BY <2>1 DEF PrHeard, PrTyped, Promises
  <2>3. Range(pr_of[p]) \subseteq 1 .. p - 1 /\ pr_late[p] \subseteq Range(pr_of[p])
    BY DEF PrHeard, Family
  <2>4. \A q \in 1 .. p - 1 : q # pr_next
    BY <2>2 DEF Promises
  <2> QED
    BY <2>2, <2>3, <2>4
<1>2. ASSUME NEW q \in Promises, NEW s \in PrOutcomes
      PROVE  pr_next \notin Range(Listeners(q, s))
  <2>1. PrListed(q, s, Listeners(q, s))
    BY DEF PrHeard
  <2>2. ~(pr_kind[pr_next] \in Waiters)
    BY <1>1 DEF Promises
  <2> QED
    BY <2>1, <2>2 DEF PrListed
<1>3. ASSUME NEW s \in PrOutcomes PROVE Listeners(pr_next, s) = << >>
  <2>1. PICK listeners : listeners = Listeners(pr_next, s)
    OBVIOUS
  <2>2. listeners \in Seq(Promises)
    BY <2>1 DEF PrHeard, PrTyped, Listeners
  <2>3. PrListed(pr_next, s, listeners)
    BY <2>1 DEF PrHeard
  <2>4. \A i \in DOMAIN listeners : listeners[i] \in Promises
    BY <2>2
  <2>5. Range(listeners) = {}
    BY <1>1, <2>3, <2>4 DEF PrListed, Range
  <2>6. DOMAIN listeners = 1 .. Len(listeners) /\ Len(listeners) \in Nat
    BY <2>2
  <2>7. Len(listeners) = 0
    <3>1. ASSUME Len(listeners) # 0 PROVE FALSE
      <4>1. 1 \in DOMAIN listeners
        BY <2>6, <3>1
      <4> QED
        BY <2>5, <4>1 DEF Range
    <3> QED
      BY <3>1
  <2> QED
    BY <2>1, <2>2, <2>7, EmptySeq
<1> QED
  BY <1>1, <1>2, <1>3

(* Making a promise.                                                      *)
LEMMA MakingHeard ==
  ASSUME PrHeard, NEW kind, NEW of, NEW state, NEW value \in Nat,
         PrDue(kind, of, state), value <= pr_next,
         PrMake(kind, of, state, value)
  PROVE  PrHeard'
<1>a. PICK n : n = pr_next
  OBVIOUS
<1>1. /\ n \in Promises
      /\ pr_next' = n + 1
      /\ pr_kind' = [pr_kind EXCEPT ![n] = kind]
      /\ pr_of' = [pr_of EXCEPT ![n] = of]
      /\ pr_state' = [pr_state EXCEPT ![n] = state]
      /\ pr_value' = [pr_value EXCEPT ![n] = value]
      /\ todo' = todo
  BY <1>a DEF PrMake
<1>2. /\ pr_results' = [pr_results EXCEPT ![n] =
                          IF kind = "all" THEN {p \in Range(of) : Resolved(p)} ELSE {}]
      /\ pr_late' = [pr_late EXCEPT ![n] = {p \in Range(of) : Pending(p)}]
      /\ pr_resolvers' = Listening(pr_resolvers, state = "pending" /\ HearsResult(kind), of)
      /\ pr_rejecters' = Listening(pr_rejecters, state = "pending" /\ HearsError(kind), of)
  BY <1>a DEF PrMake
<1>3. PrTyped /\ (\A p \in Promises : Family(p))
  BY DEF PrHeard
<1>4. /\ \A p \in Promises : pr_kind[p] \in Waiters =>
           p < n /\ n \notin Range(pr_of[p]) /\ n \notin pr_late[p]
      /\ \A q \in Promises, s \in PrOutcomes : n \notin Range(Listeners(q, s))
      /\ \A s \in PrOutcomes : Listeners(n, s) = << >>
  BY <1>a, <1>1, Unheard
<1>5. /\ pr_kind'[n] = kind /\ pr_of'[n] = of /\ pr_state'[n] = state
      /\ pr_value'[n] = value
      /\ pr_late'[n] = {p \in Range(of) : Pending(p)}
      /\ pr_results'[n] = IF kind = "all" THEN {p \in Range(of) : Resolved(p)} ELSE {}
  BY <1>1, <1>2, <1>3 DEF PrTyped
<1>6. \A p \in Promises : p # n =>
        /\ pr_kind'[p] = pr_kind[p] /\ pr_of'[p] = pr_of[p] /\ pr_state'[p] = pr_state[p]
        /\ pr_value'[p] = pr_value[p] /\ pr_late'[p] = pr_late[p]
        /\ pr_results'[p] = pr_results[p]
  BY <1>1, <1>2, <1>3 DEF PrTyped
<1>7. \A q \in Promises, s \in PrOutcomes :
        Listeners(q, s)' =
          IF state = "pending" /\ Hears(kind, s) /\ q \in Range(of) /\ Pending(q)
            THEN Append(Listeners(q, s), n) ELSE Listeners(q, s)
  BY <1>a, <1>2 DEF Listeners, Listening, Hears, PrOutcomes
<1>8. /\ n \in Nat /\ of \in Seq(Promises)
      /\ \A q \in Range(of) : q \in Promises /\ q < n /\ q # n
  <2>1. n \in Nat /\ n <= LastPromise
    BY <1>1, PromiseAssumption DEF Promises
  <2>2. of \in Seq(Promises) /\ Range(of) \subseteq 1 .. n - 1
    BY <1>a DEF PrDue, Made
  <2>3. \A q \in 1 .. n - 1 : q \in Promises /\ q < n /\ q # n
    BY <2>1, PromiseAssumption DEF Promises
  <2> QED
    BY <2>1, <2>2, <2>3
<1>9. /\ pr_kind[n] = "none" /\ Pending(n)
  BY <1>a, <1>1, <1>3 DEF PrTyped, Promises
<1>10. \A p \in Promises : p # n =>
         /\ Pending(p)' <=> Pending(p)
         /\ Settled(p)' <=> Settled(p)
         /\ Resolved(p)' <=> Resolved(p)
         /\ Rejected(p)' <=> Rejected(p)
  BY <1>6 DEF Pending, Settled, Resolved, Rejected
<1>11. PrTyped'
  <2>1. pr_next' \in 1 .. LastPromise + 1
    BY <1>1, PromiseAssumption DEF Promises
  <2>2. pr_kind' \in [Promises -> {"none", "source", "promise_all", "promise_race"} \cup Waiters]
    BY <1>1, <1>3 DEF PrTyped, PrDue
  <2>3. pr_of' \in [Promises -> Seq(Promises)]
    BY <1>1, <1>3 DEF PrTyped, PrDue
  <2>4. pr_state' \in [Promises -> {"pending"} \cup PrOutcomes]
    BY <1>1, <1>3 DEF PrTyped, PrDue
  <2>5. pr_value' \in [Promises -> Nat]
    BY <1>1, <1>3 DEF PrTyped
  <2>6. pr_results' \in [Promises -> SUBSET Promises]
    BY <1>2, <1>3, <1>8 DEF PrTyped
  <2>7. pr_late' \in [Promises -> SUBSET Promises]
    BY <1>2, <1>3, <1>8 DEF PrTyped
  <2>8. ASSUME NEW lists \in [Promises -> Seq(Promises)], NEW hears
        PROVE  Listening(lists, hears, of) \in [Promises -> Seq(Promises)]
    <3> SUFFICES ASSUME NEW p \in Promises
                 PROVE  /\ lists[p] \in Seq(Promises)
                        /\ Append(lists[p], pr_next) \in Seq(Promises)
      BY DEF Listening
    <3> QED
      BY <1>a, <1>1
  <2>9. pr_resolvers' \in [Promises -> Seq(Promises)]
    BY <1>2, <1>3, <2>8 DEF PrTyped
  <2>10. pr_rejecters' \in [Promises -> Seq(Promises)]
    BY <1>2, <1>3, <2>8 DEF PrTyped
  <2>11. todo' \in Seq(PrTokens)
    BY <1>1, <1>3 DEF PrTyped
  <2>12. (\A p \in Promises : p >= pr_next => pr_kind[p] = "none" /\ Pending(p))'
    <3> SUFFICES ASSUME NEW p \in Promises, p >= n + 1
                 PROVE  pr_kind'[p] = "none" /\ Pending(p)'
      BY <1>1
    <3>1. p # n /\ p >= pr_next
      BY <1>a, <1>8 DEF Promises
    <3> QED
      BY <1>3, <1>6, <1>10, <3>1 DEF PrTyped
  <2> QED
    BY <2>1, <2>2, <2>3, <2>4, <2>5, <2>6, <2>7, <2>9, <2>10, <2>11, <2>12 DEF PrTyped
<1>4a. ASSUME NEW p \in Promises, pr_kind[p] \in Waiters, NEW q \in Range(pr_of[p])
       PROVE  q \in Promises /\ q # n
  <2>1. q \in 1 .. p - 1 /\ n \notin Range(pr_of[p])
    BY <1>3, <1>4, <1>4a DEF Family
  <2> QED
    BY <2>1, PromiseAssumption DEF Promises
<1>12. ASSUME NEW p \in Promises PROVE Family(p)'
  <2>1. CASE p # n
    <3>1. Family(p)
      BY <1>3
    <3>2. \A q \in Range(pr_of[p]) : pr_kind[p] \in Waiters => q \in Promises /\ q # n
      BY <1>4a
    <3>3. /\ Range(pr_of'[p]) \subseteq 1 .. p - 1
          /\ pr_late'[p] \cup pr_results'[p] \subseteq Range(pr_of'[p])
          /\ pr_kind'[p] \in Chains => \E q \in Promises : pr_of'[p] = <<q>>
      BY <1>6, <2>1, <3>1 DEF Family
    <3>4. pr_value'[p] < pr_next'
      <4>1. pr_value'[p] = pr_value[p] /\ pr_value[p] < n /\ pr_value[p] \in Nat
        BY <1>a, <1>3, <1>6, <2>1, <3>1 DEF Family, PrTyped
      <4> QED
        BY <1>1, <1>8, <4>1
    <3>5. pr_kind'[p] \in Waiters =>
            \A q \in Range(pr_of'[p]) : Pending(q)' => q \in pr_late'[p]
      BY <1>6, <1>10, <2>1, <3>1, <3>2 DEF Family
    <3>6. pr_kind'[p] = "all" => \A q \in pr_results'[p] : Resolved(q)'
      <4> SUFFICES ASSUME pr_kind[p] = "all", NEW q \in pr_results[p]
                   PROVE  Resolved(q)'
        BY <1>6, <2>1
      <4>1. Resolved(q) /\ q \in Range(pr_of[p])
        BY <3>1 DEF Family
      <4>2. pr_kind[p] \in Waiters
        BY DEF Waiters, Joins
      <4> QED
        BY <1>10, <3>2, <4>1, <4>2
    <3> QED
      BY <3>3, <3>4, <3>5, <3>6 DEF Family
  <2>2. CASE p = n
    <3>1. Range(of) \subseteq 1 .. n - 1
      BY <1>a DEF PrDue, Made
    <3>2. pr_value'[n] < pr_next'
      BY <1>a, <1>1, <1>5, <1>8
    <3>3. \A q \in Range(of) : (Pending(q)' <=> Pending(q)) /\ (Resolved(q)' <=> Resolved(q))
      BY <1>8, <1>10
    <3>4. /\ pr_late'[n] \cup pr_results'[n] \subseteq Range(of)
          /\ \A q \in Range(of) : Pending(q)' => q \in pr_late'[n]
          /\ kind = "all" => \A q \in pr_results'[n] : Resolved(q)'
      BY <1>5, <3>3
    <3>5. kind \in Chains => \E q \in Promises : of = <<q>>
      BY DEF PrDue
    <3> QED
      BY <1>5, <2>2, <3>1, <3>2, <3>4, <3>5 DEF Family
  <2> QED
    BY <2>1, <2>2
<1>13. ASSUME NEW q \in Promises, NEW s \in PrOutcomes
       PROVE  PrListed(q, s, Listeners(q, s))'
  <2>1. PICK old, now : old = Listeners(q, s) /\ now = Listeners(q, s)'
    OBVIOUS
  <2>2. PrListed(q, s, old)
    BY <2>1 DEF PrHeard
  <2>3. old \in Seq(Promises)
    BY <1>3, <2>1 DEF PrTyped, Listeners
  <2>4. n \notin Range(old)
    BY <1>4, <2>1
  <2>5. \A p \in Promises : pr_kind[p] \in Waiters /\ p # n =>
          /\ pr_kind'[p] = pr_kind[p] /\ pr_late'[p] = pr_late[p]
          /\ Pending(p)' <=> Pending(p)
    BY <1>6, <1>10
  <2>6. \A p \in Range(old) : p \in Promises /\ p # n
    BY <2>3, <2>4 DEF Range
  <2>7. CASE q = n
    <3>1. now = << >>
      <4>1. n \notin Range(of)
        BY <1>8
      <4> QED
        BY <1>4, <1>7, <2>1, <2>7, <4>1
    <3>2. IsInjective(now) /\ Range(now) = {}
      BY <3>1 DEF IsInjective, Range
    <3>3. \A p \in Promises : pr_kind'[p] \in Waiters => n \notin pr_late'[p]
      <4> SUFFICES ASSUME NEW p \in Promises, pr_kind'[p] \in Waiters
                   PROVE  n \notin pr_late'[p]
        OBVIOUS
      <4>1. CASE p = n
        BY <1>5, <1>8, <4>1
      <4>2. CASE p # n
        BY <1>4, <1>6, <4>2
      <4> QED
        BY <4>1, <4>2
    <3> QED
      BY <2>1, <2>7, <3>1, <3>2, <3>3 DEF PrListed
  <2>8. CASE q # n /\ ~(state = "pending" /\ Hears(kind, s) /\ q \in Range(of) /\ Pending(q))
    <3>1. now = old
      BY <1>7, <2>1, <2>8
    <3>2. pr_state'[q] = pr_state[q]
      BY <1>6, <2>8
    <3>3. \A p \in Range(now) :
            q \in pr_late'[p] /\ pr_kind'[p] \in Waiters /\ Hears(pr_kind'[p], s)
      BY <2>2, <2>5, <2>6, <3>1 DEF PrListed
    <3>4. ~(Pending(n)' /\ Hears(pr_kind'[n], s) /\ q \in pr_late'[n])
      BY <1>5, <2>8 DEF Pending
    <3>5. pr_state'[q] # s =>
            \A p \in Promises :
              /\ pr_kind'[p] \in Waiters /\ Pending(p)'
              /\ q \in pr_late'[p] /\ Hears(pr_kind'[p], s)
              => p \in Range(now)
      <4> SUFFICES ASSUME pr_state[q] # s, NEW p \in Promises,
                          pr_kind'[p] \in Waiters, Pending(p)',
                          q \in pr_late'[p], Hears(pr_kind'[p], s)
                   PROVE  p \in Range(old)
        BY <3>1, <3>2
      <4>1. p # n
        BY <3>4
      <4>2. /\ pr_kind[p] \in Waiters /\ Pending(p)
            /\ q \in pr_late[p] /\ Hears(pr_kind[p], s)
        BY <1>6, <1>10, <4>1
      <4> QED
        BY <2>2, <4>2 DEF PrListed
    <3> QED
      BY <2>1, <2>2, <3>1, <3>2, <3>3, <3>5 DEF PrListed
  <2>9. CASE q # n /\ state = "pending" /\ Hears(kind, s) /\ q \in Range(of) /\ Pending(q)
    <3>1. now = Append(old, n)
      BY <1>7, <2>1, <2>9
    <3>2. IsInjective(now) /\ Range(now) = Range(old) \cup {n}
      BY <1>1, <2>2, <2>3, <2>4, <3>1, Listened DEF PrListed
    <3>3. pr_state'[q] = pr_state[q] /\ pr_state[q] # s
      BY <1>6, <2>9 DEF Pending, PrOutcomes
    <3>4. kind \in Waiters
      <4>1. of # << >>
        BY <2>9 DEF Range
      <4> QED
        BY <2>9, <4>1 DEF PrDue
    <3>5. q \in pr_late'[n] /\ pr_kind'[n] \in Waiters /\ Hears(pr_kind'[n], s)
      BY <1>5, <2>9, <3>4
    <3>6. \A p \in Range(old) :
            q \in pr_late'[p] /\ pr_kind'[p] \in Waiters /\ Hears(pr_kind'[p], s)
      BY <2>2, <2>5, <2>6 DEF PrListed
    <3>7. ASSUME NEW p \in Promises,
                 pr_kind'[p] \in Waiters, Pending(p)',
                 q \in pr_late'[p], Hears(pr_kind'[p], s)
          PROVE  p \in Range(now)
      <4>1. CASE p = n
        BY <3>2, <4>1
      <4>2. CASE p # n
        <5>1. /\ pr_kind[p] \in Waiters /\ Pending(p)
              /\ q \in pr_late[p] /\ Hears(pr_kind[p], s)
          BY <1>6, <1>10, <3>7, <4>2
        <5> QED
          BY <2>2, <3>2, <3>3, <5>1 DEF PrListed
      <4> QED
        BY <4>1, <4>2
    <3> QED
      BY <2>1, <3>2, <3>3, <3>5, <3>6, <3>7 DEF PrListed
  <2> QED
    BY <2>7, <2>8, <2>9
<1>14. TokensHold(todo)'
  <2>1. ASSUME NEW i \in DOMAIN todo
        PROVE  /\ pr_kind'[todo[i].target] \in Waiters
               /\ todo[i].from \in pr_late'[todo[i].target]
               /\ pr_state'[todo[i].from] = todo[i].state
               /\ Hears(pr_kind'[todo[i].target], todo[i].state)
               /\ todo[i].value < pr_next'
               /\ pr_kind'[todo[i].target] \in Chains => Pending(todo[i].target)'
    <3>1. todo[i] \in PrTokens
      BY <1>3, ElementOfSeq DEF PrTyped
    <3>2. todo[i].target \in Promises /\ todo[i].from \in Promises /\ todo[i].value \in Nat
      BY <3>1 DEF PrTokens
    <3>3. /\ pr_kind[todo[i].target] \in Waiters
          /\ todo[i].from \in pr_late[todo[i].target]
          /\ pr_state[todo[i].from] = todo[i].state
          /\ Hears(pr_kind[todo[i].target], todo[i].state)
          /\ todo[i].value < n
          /\ pr_kind[todo[i].target] \in Chains => Pending(todo[i].target)
      BY <1>a DEF PrHeard, TokensHold
    <3>4. todo[i].target # n /\ todo[i].from # n
      BY <1>4, <1>8, <3>2, <3>3 DEF Promises
    <3>5. todo[i].value < pr_next'
      BY <1>1, <1>8, <3>2, <3>3
    <3>6. pr_kind'[todo[i].target] \in Waiters /\ Hears(pr_kind'[todo[i].target], todo[i].state)
      BY <1>6, <3>2, <3>3, <3>4
    <3>7. todo[i].from \in pr_late'[todo[i].target] /\ pr_state'[todo[i].from] = todo[i].state
      BY <1>6, <3>2, <3>3, <3>4
    <3>8. pr_kind'[todo[i].target] \in Chains => Pending(todo[i].target)'
      <4>1. pr_kind'[todo[i].target] = pr_kind[todo[i].target]
        BY <1>6, <3>2, <3>4
      <4>2. Pending(todo[i].target)' <=> Pending(todo[i].target)
        BY <1>1, <1>6, <3>2, <3>4 DEF Pending
      <4> QED
        BY <3>3, <4>1, <4>2
    <3> QED
      BY <3>5, <3>6, <3>7, <3>8
  <2>2. \A i, j \in DOMAIN todo :
          todo[i].target = todo[j].target /\ todo[i].from = todo[j].from => i = j
    BY DEF PrHeard, TokensHold
  <2> QED
    BY <1>1, <2>1, <2>2 DEF TokensHold
<1>15. ASSUME NEW p \in Promises, p # n, pr_kind[p] \in Waiters, NEW q \in Range(pr_of[p])
       PROVE  /\ WaitsFor(p, q)' <=> WaitsFor(p, q)
              /\ Resolved(q)' <=> Resolved(q)
              /\ Rejected(q)' <=> Rejected(q)
  <2>1. q \in Promises /\ q # n
    BY <1>4a, <1>15
  <2> QED
    BY <1>6, <1>10, <1>15, <2>1 DEF WaitsFor, MissedIt
<1>16. \A q \in Range(of) :
         /\ Pending(q)' <=> Pending(q)
         /\ Resolved(q)' <=> Resolved(q)
         /\ Rejected(q)' <=> Rejected(q)
  BY <1>8, <1>10
<1>17. /\ \A k : k \in Firsts \/ k = "all" => k \in Waiters
       /\ "all" \notin Firsts
  BY DEF Firsts, Waiters, Chains, Joins
<1>18. ASSUME NEW p \in Promises PROVE Owed(p, todo)'
  <2>1. \A q : Comes(p, q, todo)' <=> Comes(p, q, todo)
    BY <1>1 DEF Comes
  <2>2. CASE p # n
    <3>1. Owed(p, todo)
      BY DEF PrHeard
    <3>2. /\ pr_kind'[p] = pr_kind[p] /\ pr_of'[p] = pr_of[p] /\ pr_results'[p] = pr_results[p]
          /\ Pending(p)' <=> Pending(p)
      BY <1>6, <1>10, <2>2
    <3> QED
      BY <1>15, <1>17, <2>1, <2>2, <3>1, <3>2 DEF Owed
  <2>3. CASE p = n
    <3> SUFFICES ASSUME state = "pending"
                 PROVE  /\ kind \in Firsts => \A q \in Range(of) : WaitsFor(n, q)'
                        /\ kind = "all" =>
                             /\ pr_results'[n] # Range(of)
                             /\ \A q \in Range(of) \ pr_results'[n] : WaitsFor(n, q)'
      BY <1>5, <2>3 DEF Owed, Pending
    <3>1. kind \in Firsts => \A q \in Range(of) : WaitsFor(n, q)'
      BY <1>16 DEF PrDue, WaitsFor
    <3>2. ASSUME kind = "all"
          PROVE  /\ pr_results'[n] # Range(of)
                 /\ \A q \in Range(of) \ pr_results'[n] : WaitsFor(n, q)'
      <4>1. pr_results'[n] = {q \in Range(of) : Resolved(q)}
        BY <1>5, <3>2
      <4> QED
        BY <1>16, <3>2, <4>1 DEF PrDue, WaitsFor
    <3> QED
      BY <3>1, <3>2
  <2> QED
    BY <2>2, <2>3
<1>19. ASSUME NEW p \in Promises, Settled(p)' PROVE Why(p)'
  <2>1. CASE p # n
    <3>1. Why(p)
      BY <1>10, <1>19, <2>1 DEF PrHeard
    <3>2. /\ pr_kind'[p] = pr_kind[p] /\ pr_of'[p] = pr_of[p] /\ pr_late'[p] = pr_late[p]
      BY <1>6, <2>1
    <3> QED
      BY <1>15, <1>17, <2>1, <3>1, <3>2 DEF Why
  <2>2. CASE p = n
    <3>1. state # "pending"
      BY <1>5, <1>19, <2>2 DEF Settled, Pending
    <3>2. ASSUME NEW q \in Range(of), ~Pending(q)
          PROVE  ~WaitsFor(n, q)' /\ q \notin pr_late'[n]
      BY <1>5, <1>16, <3>2 DEF WaitsFor, MissedIt
    <3>3. kind \in Firsts => \E q \in Range(of) : ~WaitsFor(n, q)'
      BY <3>1, <3>2 DEF PrDue
    <3>4. kind = "all" => \/ \E q \in Range(of) : Rejected(q)' /\ q \notin pr_late'[n]
                          \/ \A q \in Range(of) : Resolved(q)'
      <4>1. \A q : Rejected(q) => ~Pending(q)
        BY DEF Rejected, Pending
      <4> QED
        BY <1>16, <3>1, <3>2, <4>1 DEF PrDue
    <3> QED
      BY <1>5, <2>2, <3>3, <3>4 DEF Why
  <2> QED
    BY <2>1, <2>2
<1> QED
  BY <1>11, <1>12, <1>13, <1>14, <1>18, <1>19 DEF PrHeard

-----------------------------------------------------------------------------
(* What the first callback finds of the promise it settles.                *)
LEMMA Called ==
  ASSUME PrHeard, Running
  PROVE  LET t == Next1.target IN
         /\ t \in Promises /\ t < pr_next /\ t \in Nat
         /\ Next1.state \in PrOutcomes /\ Next1.value \in Nat /\ Next1.value < pr_next
         /\ Next1.from \in Range(pr_of[t]) /\ Next1.from \in Promises
         /\ ~WaitsFor(t, Next1.from)
         /\ pr_kind[t] = "all" => Resolved(Next1.from)
         /\ pr_kind[t] \in Firsts => Why(t)
         /\ \A p \in Promises : p # t => Owed(p, Tail(todo))
         /\ \A i \in DOMAIN Tail(todo) : pr_kind[t] \in Chains => Tail(todo)[i].target # t
         /\ pr_results[t] \subseteq Range(pr_of[t])
         /\ pr_kind[t] = "all" => \A q \in pr_results[t] : Resolved(q)
<1>a. PICK t, f : t = Next1.target /\ f = Next1.from
  OBVIOUS
<1>1. /\ Next1 \in PrTokens
      /\ pr_kind[t] \in Waiters
      /\ f \in pr_late[t]
      /\ pr_state[f] = Next1.state
      /\ Hears(pr_kind[t], Next1.state)
      /\ Next1.value < pr_next
      /\ Tail(todo) \in Seq(PrTokens)
      /\ TokensHold(Tail(todo))
      /\ \A p, q : Comes(p, q, todo) =>
           Comes(p, q, Tail(todo)) \/ (p = t /\ q = f)
      /\ \A i \in DOMAIN Tail(todo) :
           ~(Tail(todo)[i].target = t /\ Tail(todo)[i].from = f)
  BY <1>a, PrPopped
<1>2. /\ t \in Promises /\ f \in Promises
      /\ Next1.state \in PrOutcomes /\ Next1.value \in Nat
  BY <1>1, <1>a DEF PrTokens
<1>3. t \in Nat /\ t < pr_next
  <2>1. pr_kind[t] # "none"
    BY <1>1 DEF Waiters, Chains, Joins
  <2> QED
    BY <1>2, <2>1 DEF PrHeard, PrTyped, Promises
<1>4. Family(t)
  BY <1>2 DEF PrHeard
<1>5. f \in Range(pr_of[t])
  BY <1>1, <1>4 DEF Family
<1>6. ~WaitsFor(t, f)
  BY <1>1, <1>2, HeardIs
<1>7. pr_kind[t] = "all" => Resolved(f)
  BY <1>1, <1>2 DEF Hears, HearsResult, HearsError, PrOutcomes, Resolved
<1>8. pr_kind[t] \in Firsts => Why(t)
  <2>1. "all" \notin Firsts
    BY DEF Firsts, Chains
  <2> QED
    BY <1>5, <1>6, <2>1 DEF Why
<1>9. ASSUME NEW p \in Promises, p # t PROVE Owed(p, Tail(todo))
  <2>1. Owed(p, todo)
    BY DEF PrHeard
  <2>2. \A q : Comes(p, q, todo) => Comes(p, q, Tail(todo))
    BY <1>1, <1>9
  <2> QED
    BY <2>1, <2>2 DEF Owed
<1>10. ASSUME NEW i \in DOMAIN Tail(todo), pr_kind[t] \in Chains, Tail(todo)[i].target = t
       PROVE  FALSE
  <2>1. PICK q \in Promises : pr_of[t] = <<q>>
    BY <1>4, <1>10 DEF Family
  <2>2. \A r \in pr_late[t] : r = q
    BY <1>4, <2>1 DEF Family, Range
  <2>3. Tail(todo)[i].from \in pr_late[t]
    BY <1>1, <1>10 DEF TokensHold
  <2> QED
    BY <1>1, <1>10, <2>2, <2>3
<1>11. /\ pr_results[t] \subseteq Range(pr_of[t])
       /\ pr_kind[t] = "all" => \A q \in pr_results[t] : Resolved(q)
  BY <1>4 DEF Family
<1> QED
  BY <1>a, <1>1, <1>2, <1>3, <1>5, <1>6, <1>7, <1>8, <1>9, <1>10, <1>11

(* A callback that settles its promise, or finds it settled.               *)
LEMMA Calling ==
  ASSUME PrHeard, Running, NEW t, t = Next1.target,
         NEW state \in PrOutcomes, NEW value \in Nat, value < pr_next,
         SettleFrom(t, state, value, Tail(todo)),
         Why(t),
         UNCHANGED <<pr_next, pr_kind, pr_of, pr_late>>,
         pr_results' \in [Promises -> SUBSET Promises],
         \A p \in Promises : p # t => pr_results'[p] = pr_results[p],
         pr_results'[t] \subseteq Range(pr_of[t]),
         pr_kind[t] = "all" => \A q \in pr_results'[t] : Resolved(q)
  PROVE  PrHeard'
<1>1. /\ t \in Promises /\ t < pr_next
      /\ \A p \in Promises : p # t => Owed(p, Tail(todo))
      /\ \A i \in DOMAIN Tail(todo) : pr_kind[t] \in Chains => Tail(todo)[i].target # t
  BY Called
<1>2. Tail(todo) \in Seq(PrTokens) /\ TokensHold(Tail(todo))
  BY PrPopped
<1>3. CASE Pending(t)
  BY <1>1, <1>2, <1>3, Delivering
<1>4. CASE ~Pending(t)
  <2>1. todo' = Tail(todo) /\ UNCHANGED <<pr_state, pr_value, pr_resolvers, pr_rejecters>>
    BY <1>4 DEF SettleFrom, SettleWhen
  <2> QED
    BY <1>1, <1>4, <2>1, Passing
<1> QED
  BY <1>3, <1>4

LEMMA HeardInit == PrInit => PrHeard
<1> SUFFICES ASSUME PrInit PROVE PrHeard
  OBVIOUS
<1>1. /\ << >> \in Seq(Promises) /\ << >> \in Seq(PrTokens)
      /\ IsInjective(<< >>) /\ Range(<< >>) = {} /\ DOMAIN << >> = {}
  BY DEF IsInjective, Range
<1>2. PrTyped
  BY <1>1, PromiseAssumption DEF PrInit, PrTyped, Pending
<1>3. "none" \notin Waiters /\ "none" \notin Chains /\ "none" \notin Firsts
  BY DEF Waiters, Firsts, Chains, Joins
<1>4. \A p \in Promises : Family(p)
  BY <1>1, <1>3 DEF PrInit, Family
<1>5. \A q \in Promises, state \in PrOutcomes : PrListed(q, state, Listeners(q, state))
  BY <1>1, <1>3 DEF PrInit, PrListed, Listeners
<1>6. TokensHold(todo)
  BY <1>1 DEF PrInit, TokensHold
<1>7. \A p \in Promises : Owed(p, todo) /\ (Settled(p) => Why(p))
  BY <1>3 DEF PrInit, Owed, Settled, Pending, Why
<1> QED
  BY <1>2, <1>4, <1>5, <1>6, <1>7 DEF PrHeard

-----------------------------------------------------------------------------
(* The element a join finds first.                                         *)
FirstAt(of, at, r) ==
  r = IF at = {} THEN 0 ELSE of[CHOOSE i \in at : \A j \in at : i <= j]

LEMMA FirstFound ==
  ASSUME PrHeard, NEW of \in Elements, NEW at \in SUBSET DOMAIN of, NEW r,
         FirstAt(of, at, r)
  PROVE  /\ r = 0 <=> at = {}
         /\ r # 0 => \E i \in at : r = of[i]
<1>1. /\ DOMAIN of \subseteq 1 .. 2
      /\ \A i \in DOMAIN of : of[i] \in Made
  BY DEF Elements, Lists
<1>2. CASE at = {}
  BY <1>2 DEF FirstAt
<1>3. CASE at # {}
  <2>1. \E i \in at : \A j \in at : i <= j
    BY <1>1, <1>3
  <2>2. PICK i \in at : r = of[i]
    BY <1>3, <2>1 DEF FirstAt
  <2>3. r # 0
    BY <1>1, <2>2 DEF Made
  <2> QED
    BY <1>3, <2>2, <2>3
<1> QED
  BY <1>2, <1>3

LEMMA ElementsAre ==
  ASSUME PrHeard, pr_next \in Promises, NEW of \in Elements
  PROVE  /\ of \in Seq(Promises)
         /\ Range(of) \subseteq Made
         /\ \A i \in DOMAIN of : of[i] \in Made /\ of[i] \in Promises
         /\ \A i \in DOMAIN of : of[i] \in Range(of)
         /\ \A q \in Range(of) : \E i \in DOMAIN of : q = of[i]
<1>1. \A p \in Made : p \in Promises
  BY PromiseAssumption DEF Made, Promises
<1>2. of \in Seq(Promises)
  <2>1. of \in Lists
    BY DEF Elements
  <2>2. CASE \E p \in Made : of = <<p>>
    BY <1>1, <2>2
  <2>3. CASE \E p, q \in Made : of = <<p, q>>
    BY <1>1, <2>3
  <2> QED
    BY <2>1, <2>2, <2>3 DEF Lists
<1>3. \A i \in DOMAIN of : of[i] \in Made
  BY DEF Elements, Lists
<1> QED
  BY <1>1, <1>2, <1>3 DEF Range

-----------------------------------------------------------------------------
LEMMA HeardChain ==
  ASSUME PrHeard, NEW kind \in Chains, NEW p \in Made, PrChain(kind, p)
  PROVE  PrHeard'
<1>1. /\ pr_next \in Promises /\ pr_next \in Nat
      /\ p \in Promises /\ <<p>> \in Seq(Promises) /\ Range(<<p>>) = {p}
  <2>1. pr_next \in Promises
    BY DEF PrChain, PrMake
  <2>2. p \in Promises
    BY <2>1, PromiseAssumption DEF Made, Promises
  <2> QED
    BY <2>1, <2>2 DEF Promises, Range
<1>2. /\ kind \in Waiters /\ kind \in Firsts /\ kind # "all"
      /\ kind \in {"source", "promise_all", "promise_race"} \cup Waiters
  BY DEF Waiters, Firsts, Chains
<1>3. pr_state[p] \in {"pending"} \cup PrOutcomes /\ pr_value[p] \in Nat /\ pr_value[p] < pr_next
  BY <1>1 DEF PrHeard, PrTyped, Family
<1>4. CASE Pending(p) /\ PrMake(kind, <<p>>, "pending", 0)
  <2>1. PrDue(kind, <<p>>, "pending")
    BY <1>1, <1>2, <1>4 DEF PrDue
  <2> QED
    BY <1>1, <1>4, <2>1, MakingHeard
<1>5. ASSUME ~Pending(p), NEW state \in PrOutcomes PROVE PrDue(kind, <<p>>, state)
  <2>1. state # "pending"
    BY DEF PrOutcomes
  <2> QED
    BY <1>1, <1>2, <1>5, <2>1 DEF PrDue
<1>6. "resolved" \in PrOutcomes /\ "rejected" \in PrOutcomes /\ pr_next <= pr_next
      /\ pr_value[p] <= pr_next
  BY <1>1, <1>3 DEF PrOutcomes
<1>7. CASE ~Pending(p) /\ PrMake(kind, <<p>>, "rejected", pr_next)
  BY <1>1, <1>5, <1>6, <1>7, MakingHeard
<1>8. CASE ~Pending(p) /\ PrMake(kind, <<p>>, "resolved", pr_next)
  BY <1>1, <1>5, <1>6, <1>8, MakingHeard
<1>9. CASE ~Pending(p) /\ PrMake(kind, <<p>>, pr_state[p], pr_value[p])
  <2>1. pr_state[p] \in PrOutcomes
    BY <1>3, <1>9 DEF Pending
  <2>2. PrDue(kind, <<p>>, pr_state[p])
    BY <1>5, <1>9, <2>1
  <2> QED
    BY <1>3, <1>6, <1>9, <2>2, MakingHeard
<1> QED
  BY <1>4, <1>7, <1>8, <1>9 DEF PrChain

LEMMA HeardJoin ==
  ASSUME PrHeard, NEW of \in Elements,
         PrAllOf(of) \/ PrRaceOf(of) \/ PrAllNow(of) \/ PrRaceNow(of)
  PROVE  PrHeard'
<1>1. /\ pr_next \in Promises /\ pr_next \in Nat
      /\ of \in Seq(Promises) /\ Range(of) \subseteq Made
      /\ \A i \in DOMAIN of : of[i] \in Promises /\ of[i] \in Range(of)
      /\ \A q \in Range(of) : \E i \in DOMAIN of : q = of[i]
      /\ \A q \in Range(of) : q \in Promises
  <2>1. pr_next \in Promises
    BY DEF PrAllOf, PrRaceOf, PrAllNow, PrRaceNow, PrMake
  <2> QED
    BY <2>1, ElementsAre DEF Promises
<1>2. \A q \in Range(of) :
        /\ pr_value[q] \in Nat /\ pr_value[q] < pr_next /\ pr_value[q] <= pr_next
        /\ pr_state[q] \in {"pending"} \cup PrOutcomes
        /\ Pending(q) \/ Resolved(q) \/ Rejected(q)
        /\ ~(Pending(q) /\ Resolved(q)) /\ ~(Rejected(q) /\ Resolved(q))
        /\ ~(Pending(q) /\ Rejected(q))
  <2> SUFFICES ASSUME NEW q \in Promises
               PROVE  /\ pr_value[q] \in Nat /\ pr_value[q] < pr_next
                      /\ pr_state[q] \in {"pending"} \cup PrOutcomes
    <3> SUFFICES ASSUME NEW q \in Range(of)
                 PROVE  /\ pr_value[q] \in Nat /\ pr_value[q] < pr_next /\ pr_value[q] <= pr_next
                        /\ pr_state[q] \in {"pending"} \cup PrOutcomes
                        /\ Pending(q) \/ Resolved(q) \/ Rejected(q)
                        /\ ~(Pending(q) /\ Resolved(q)) /\ ~(Rejected(q) /\ Resolved(q))
                        /\ ~(Pending(q) /\ Rejected(q))
      OBVIOUS
    <3>1. /\ pr_value[q] \in Nat /\ pr_value[q] < pr_next
          /\ pr_state[q] \in {"pending", "resolved", "rejected"}
      BY <1>1 DEF PrOutcomes
    <3>2. pr_value[q] <= pr_next
      BY <1>1, <3>1
    <3> QED
      BY <3>1, <3>2 DEF Pending, Resolved, Rejected, PrOutcomes
  <2> QED
    BY DEF PrHeard, PrTyped, Family
<1>3. /\ "resolved" \in PrOutcomes /\ "rejected" \in PrOutcomes /\ "pending" \notin PrOutcomes
      /\ {"all", "race"} \subseteq Waiters /\ "race" \in Firsts
      /\ {"all", "promise_all", "promise_race"} \cap Firsts = {}
      /\ {"all", "race", "promise_all", "promise_race"} \cap Chains = {}
      /\ pr_next <= pr_next /\ 0 \in Nat /\ 0 <= pr_next
  BY <1>1 DEF PrOutcomes, Waiters, Firsts, Chains, Joins
<1>4. ASSUME NEW kind \in {"promise_all", "promise_race"}, NEW state \in PrOutcomes,
             NEW value \in Nat, value <= pr_next, PrMake(kind, of, state, value)
      PROVE  PrHeard'
  <2>1. PrDue(kind, of, state)
    BY <1>1, <1>3 DEF PrDue
  <2> QED
    BY <1>4, <2>1, MakingHeard
<1>5. CASE PrAllOf(of)
  <2>1. PICK r : r = FirstOf(of, Rejected)
    OBVIOUS
  <2>2. PICK at : at = {i \in DOMAIN of : Rejected(of[i])}
    OBVIOUS
  <2>3. FirstAt(of, at, r)
    BY <2>1, <2>2 DEF FirstOf, FirstAt
  <2>4. /\ r = 0 => \A q \in Range(of) : ~Rejected(q)
        /\ r # 0 => r \in Range(of) /\ Rejected(r)
    <3>1. at \in SUBSET DOMAIN of
      BY <2>2
    <3>2. (r = 0 <=> at = {}) /\ (r # 0 => \E i \in at : r = of[i])
      BY <2>3, <3>1, FirstFound
    <3> QED
      BY <1>1, <2>2, <3>2
  <2>5. CASE r # 0
    <3>1. ~(\A i \in DOMAIN of : Resolved(of[i]))
      BY <1>1, <1>2, <2>4, <2>5
    <3>2. PrMake("all", of, "rejected", pr_value[r])
      BY <1>5, <2>1, <2>5, <3>1 DEF PrAllOf
    <3>3. PrDue("all", of, "rejected")
      BY <1>1, <1>3, <2>4, <2>5 DEF PrDue
    <3> QED
      BY <1>2, <2>4, <2>5, <3>2, <3>3, MakingHeard
  <2>6. CASE r = 0 /\ \A i \in DOMAIN of : Resolved(of[i])
    <3>1. PrMake("all", of, "resolved", pr_next)
      BY <1>5, <2>1, <2>6 DEF PrAllOf
    <3>2. PrDue("all", of, "resolved")
      BY <1>1, <1>3, <2>6 DEF PrDue
    <3> QED
      BY <1>1, <1>3, <3>1, <3>2, MakingHeard
  <2>7. CASE r = 0 /\ ~(\A i \in DOMAIN of : Resolved(of[i]))
    <3>1. PrMake("all", of, "pending", 0)
      BY <1>5, <2>1, <2>7 DEF PrAllOf
    <3>2. PrDue("all", of, "pending")
      BY <1>1, <1>2, <1>3, <2>4, <2>7 DEF PrDue
    <3> QED
      BY <1>1, <1>3, <3>1, <3>2, MakingHeard
  <2> QED
    BY <2>5, <2>6, <2>7
<1>6. ASSUME NEW d, d = FirstOf(of, Settled)
      PROVE  /\ d = 0 => \A q \in Range(of) : Pending(q)
             /\ d # 0 => d \in Range(of) /\ ~Pending(d) /\ pr_state[d] \in PrOutcomes
  <2>1. PICK at : at = {i \in DOMAIN of : Settled(of[i])}
    OBVIOUS
  <2>2. FirstAt(of, at, d)
    BY <1>6, <2>1 DEF FirstOf, FirstAt
  <2>3. /\ d = 0 => \A q \in Range(of) : ~Settled(q)
        /\ d # 0 => d \in Range(of) /\ Settled(d)
    <3>1. at \in SUBSET DOMAIN of
      BY <2>1
    <3>2. (d = 0 <=> at = {}) /\ (d # 0 => \E i \in at : d = of[i])
      BY <2>2, <3>1, FirstFound
    <3> QED
      BY <1>1, <2>1, <3>2
  <2>4. d # 0 => pr_state[d] # "pending"
    BY <2>3 DEF Settled, Pending
  <2> QED
    BY <1>2, <2>3, <2>4 DEF Settled
<1>7. CASE PrRaceOf(of)
  <2>1. PICK d : d = FirstOf(of, Settled)
    OBVIOUS
  <2>2. CASE d # 0
    <3>1. PrMake("race", of, pr_state[d], pr_value[d])
      BY <1>7, <2>1, <2>2 DEF PrRaceOf
    <3>2. d \in Range(of) /\ ~Pending(d) /\ pr_state[d] \in PrOutcomes
      BY <1>6, <2>1, <2>2
    <3>3. PrDue("race", of, pr_state[d])
      BY <1>1, <1>3, <3>2 DEF PrDue
    <3> QED
      BY <1>2, <3>1, <3>2, <3>3, MakingHeard
  <2>3. CASE d = 0
    <3>1. PrMake("race", of, "pending", 0)
      BY <1>7, <2>1, <2>3 DEF PrRaceOf
    <3>2. \A q \in Range(of) : Pending(q)
      BY <1>6, <2>1, <2>3
    <3>3. PrDue("race", of, "pending")
      BY <1>1, <1>3, <3>2 DEF PrDue
    <3> QED
      BY <1>1, <1>3, <3>1, <3>3, MakingHeard
  <2> QED
    BY <2>2, <2>3
<1>8. CASE PrAllNow(of)
  <2>1. PICK at : at = {i \in DOMAIN of : ~Resolved(of[i])}
    OBVIOUS
  <2>u. PICK u : u = FirstOf(of, LAMBDA p : ~Resolved(p))
    OBVIOUS
  <2>2. FirstAt(of, at, u)
    BY <2>1, <2>u DEF FirstOf, FirstAt
  <2>3. u # 0 => u \in Range(of)
    <3>1. at \in SUBSET DOMAIN of
      BY <2>1
    <3>2. u # 0 => \E i \in at : u = of[i]
      BY <2>2, <3>1, FirstFound
    <3> QED
      BY <1>1, <3>1, <3>2
  <2>4. \/ PrMake("promise_all", of, "resolved", pr_next)
        \/ u # 0 /\ PrMake("promise_all", of, "rejected",
                           IF Rejected(u) THEN pr_value[u] ELSE pr_next)
    BY <1>8, <2>u DEF PrAllNow
  <2> QED
    BY <1>1, <1>2, <1>3, <1>4, <2>3, <2>4
<1>9. CASE PrRaceNow(of)
  <2>1. PICK d : d = FirstOf(of, Settled)
    OBVIOUS
  <2>2. CASE d # 0
    <3>1. PrMake("promise_race", of, pr_state[d], pr_value[d])
      BY <1>9, <2>1, <2>2 DEF PrRaceNow
    <3>2. d \in Range(of) /\ pr_state[d] \in PrOutcomes
      BY <1>6, <2>1, <2>2
    <3> QED
      BY <1>2, <1>4, <3>1, <3>2
  <2>3. CASE d = 0
    <3>1. PrMake("promise_race", of, "rejected", pr_next)
      BY <1>9, <2>1, <2>3 DEF PrRaceNow
    <3> QED
      BY <1>1, <1>3, <1>4, <3>1
  <2> QED
    BY <2>2, <2>3
<1> QED
  BY <1>5, <1>7, <1>8, <1>9

LEMMA HeardSettle ==
  ASSUME PrHeard, NEW p \in Promises, PrSettle(p)
  PROVE  PrHeard'
<1>1. PICK state \in {"resolved", "rejected"} : SettleFrom(p, state, p, todo)
  BY DEF PrSettle
<1>2. /\ p < pr_next /\ p \in Nat /\ state \in PrOutcomes
      /\ pr_kind[p] = "source"
      /\ UNCHANGED <<pr_next, pr_kind, pr_of, pr_results, pr_late>>
  BY DEF PrSettle, Made, PrHeard, PrTyped, Promises, PrOutcomes
<1>3. pr_kind[p] \notin Chains /\ pr_kind[p] \notin Firsts /\ pr_kind[p] # "all"
  BY <1>2 DEF Chains, Firsts
<1>4. /\ todo \in Seq(PrTokens) /\ TokensHold(todo)
      /\ \A q \in Promises : Owed(q, todo)
      /\ pr_results \in [Promises -> SUBSET Promises]
      /\ pr_results[p] \subseteq Range(pr_of[p])
  BY DEF PrHeard, PrTyped, Family
<1>5. Why(p)
  BY <1>3 DEF Why
<1>6. CASE Pending(p)
  BY <1>1, <1>2, <1>3, <1>4, <1>5, <1>6, Delivering
<1>7. CASE ~Pending(p)
  <2>1. UNCHANGED pr_vars
    BY <1>1, <1>2, <1>7 DEF SettleFrom, SettleWhen, pr_vars
  <2> QED
    BY <2>1, HeardStutter
<1> QED
  BY <1>6, <1>7

LEMMA HeardCallback ==
  ASSUME PrHeard, PrHandler \/ PrFinally \/ PrRace \/ PrAll
  PROVE  PrHeard'
<1>a. PICK t, f : t = Next1.target /\ f = Next1.from
  OBVIOUS
<1>1. Running
  BY DEF PrHandler, PrFinally, PrRace, PrAll
<1>2. /\ t \in Promises /\ t < pr_next /\ t \in Nat
      /\ Next1.state \in PrOutcomes /\ Next1.value \in Nat /\ Next1.value < pr_next
      /\ f \in Range(pr_of[t]) /\ f \in Promises
      /\ pr_kind[t] = "all" => Resolved(f)
      /\ pr_kind[t] \in Firsts => Why(t)
      /\ pr_results[t] \subseteq Range(pr_of[t])
      /\ pr_kind[t] = "all" => \A q \in pr_results[t] : Resolved(q)
  BY <1>1, <1>a, Called
<1>3. pr_results \in [Promises -> SUBSET Promises]
  BY DEF PrHeard, PrTyped
<1>4. ASSUME NEW state \in PrOutcomes, NEW value \in Nat, value < pr_next,
             SettleFrom(t, state, value, Tail(todo)), pr_kind[t] \in Firsts,
             UNCHANGED <<pr_next, pr_kind, pr_of, pr_results, pr_late>>
      PROVE  PrHeard'
  <2>1. Why(t) /\ pr_kind[t] # "all"
    BY <1>2, <1>4 DEF Firsts, Chains
  <2> QED
    BY <1>1, <1>2, <1>3, <1>4, <1>a, <2>1, Calling
<1>5. "resolved" \in PrOutcomes /\ "rejected" \in PrOutcomes
  BY DEF PrOutcomes
<1>6. {"then", "catch", "finally", "race"} \subseteq Firsts
  BY DEF Firsts, Chains
<1>7. CASE PrHandler
  <2>1. PICK state \in {"resolved", "rejected"} : SettleFrom(t, state, t, Tail(todo))
    BY <1>7, <1>a DEF PrHandler
  <2>2. pr_kind[t] \in Firsts /\ UNCHANGED <<pr_next, pr_kind, pr_of, pr_results, pr_late>>
    BY <1>6, <1>7, <1>a DEF PrHandler
  <2> QED
    BY <1>2, <1>4, <1>5, <2>1, <2>2
<1>8. CASE PrFinally
  <2>1. \/ SettleFrom(t, "rejected", t, Tail(todo))
        \/ SettleFrom(t, Next1.state, Next1.value, Tail(todo))
    BY <1>8, <1>a DEF PrFinally
  <2>2. pr_kind[t] \in Firsts /\ UNCHANGED <<pr_next, pr_kind, pr_of, pr_results, pr_late>>
    BY <1>6, <1>8, <1>a DEF PrFinally
  <2> QED
    BY <1>2, <1>4, <1>5, <2>1, <2>2
<1>9. CASE PrRace
  <2>1. SettleFrom(t, Next1.state, Next1.value, Tail(todo))
    BY <1>9, <1>a DEF PrRace
  <2>2. pr_kind[t] \in Firsts /\ UNCHANGED <<pr_next, pr_kind, pr_of, pr_results, pr_late>>
    BY <1>6, <1>9, <1>a DEF PrRace
  <2> QED
    BY <1>2, <1>4, <2>1, <2>2
<1>10. CASE PrAll
  <2>1. PICK results : results = pr_results[t] \cup {f}
    OBVIOUS
  <2>2. /\ pr_kind[t] = "all"
        /\ pr_results' = [pr_results EXCEPT ![t] = results]
        /\ UNCHANGED <<pr_next, pr_kind, pr_of, pr_late>>
    BY <1>10, <1>a, <2>1 DEF PrAll
  <2>3. /\ results \subseteq Range(pr_of[t])
        /\ \A q \in results : Resolved(q)
    BY <1>2, <2>1, <2>2
  <2>4. results \subseteq Promises
    BY <1>2, <1>3, <2>1
  <2>5. /\ pr_results' \in [Promises -> SUBSET Promises]
        /\ pr_results'[t] = results
        /\ \A p \in Promises : p # t => pr_results'[p] = pr_results[p]
    BY <1>2, <1>3, <2>2, <2>4
  <2>6. Whole(t, results) <=> results = Range(pr_of[t])
    BY DEF Whole, Range
  <2>7. CASE Whole(t, results)
    <3>1. SettleFrom(t, "resolved", t, Tail(todo))
      BY <1>10, <1>a, <2>1, <2>7 DEF PrAll
    <3>2. Why(t)
      <4>1. "all" \notin Firsts
        BY DEF Firsts, Chains
      <4> QED
        BY <2>2, <2>3, <2>6, <2>7, <4>1 DEF Why
    <3> QED
      BY <1>1, <1>2, <1>5, <1>a, <2>2, <2>3, <2>5, <3>1, <3>2, Calling
  <2>8. CASE ~Whole(t, results)
    <3>1. todo' = Tail(todo) /\ UNCHANGED <<pr_state, pr_value, pr_resolvers, pr_rejecters>>
      BY <1>10, <1>a, <2>1, <2>8 DEF PrAll
    <3> QED
      BY <1>1, <1>a, <2>1, <2>2, <2>3, <2>5, <2>6, <2>8, <3>1, Passing
  <2> QED
    BY <2>7, <2>8
<1> QED
  BY <1>7, <1>8, <1>9, <1>10

LEMMA HeardStep == PrHeard /\ [PrNext]_pr_vars => PrHeard'
<1> SUFFICES ASSUME PrHeard, [PrNext]_pr_vars PROVE PrHeard'
  OBVIOUS
<1>1. CASE PrSource
  <2>1. << >> \in Seq(Promises) /\ Range(<< >>) = {}
    BY DEF Range
  <2>2. "source" \notin Chains /\ "source" \notin Firsts
    BY DEF Chains, Firsts
  <2>3. PrDue("source", << >>, "pending")
    BY <2>1, <2>2 DEF PrDue
  <2>4. 0 <= pr_next
    BY DEF PrHeard, PrTyped
  <2> QED
    BY <1>1, <2>3, <2>4, MakingHeard DEF PrSource
<1>2. ASSUME NEW p \in Promises, PrSettle(p) PROVE PrHeard'
  BY <1>2, HeardSettle
<1>3. ASSUME NEW p \in Made, NEW kind \in Chains, PrChain(kind, p) PROVE PrHeard'
  BY <1>3, HeardChain
<1>4. ASSUME NEW of \in Elements, PrAllOf(of) \/ PrRaceOf(of) \/ PrAllNow(of) \/ PrRaceNow(of)
      PROVE  PrHeard'
  BY <1>4, HeardJoin
<1>5. CASE PrHandler \/ PrFinally \/ PrRace \/ PrAll
  BY <1>5, HeardCallback
<1>6. CASE UNCHANGED pr_vars
  BY <1>6, HeardStutter
<1> QED
  BY <1>1, <1>2, <1>3, <1>4, <1>5, <1>6 DEF PrNext

(* What all who listen are owed holds in every reachable state.            *)
THEOREM Hearing == PrSpec => []PrHeard
  BY HeardInit, HeardStep, PTL DEF PrSpec

(* Every field of a promise keeps its type; a settled promise has no        *)
(* callbacks left for its outcome (FreeLangPromise).                       *)
THEOREM PrTypeCorrect == PrSpec => []PrTypeOK
<1>1. PrHeard => PrTypeOK
  <2> SUFFICES ASSUME PrHeard PROVE PrTypeOK
    OBVIOUS
  <2>1. /\ pr_next \in 1 .. LastPromise + 1
        /\ pr_kind \in [Promises -> {"none", "source", "promise_all", "promise_race"}
                                      \cup Chains \cup Joins]
        /\ pr_state \in [Promises -> {"pending", "resolved", "rejected"}]
    BY DEF PrHeard, PrTyped, Waiters, PrOutcomes
  <2>2. ASSUME NEW p \in Promises
        PROVE  /\ pr_of[p] \in Seq(1 .. p - 1)
               /\ pr_value[p] \in 0 .. pr_next - 1
               /\ pr_results[p] \subseteq Range(pr_of[p])
    <3>1. Family(p)
      BY DEF PrHeard
    <3>2. pr_of[p] \in Seq(Promises)
      BY DEF PrHeard, PrTyped
    <3>3. \A i \in 1 .. Len(pr_of[p]) : pr_of[p][i] \in 1 .. p - 1
      BY <3>1, <3>2 DEF Family, Range
    <3>4. pr_of[p] \in Seq(1 .. p - 1)
      <4>1. PICK of : of = pr_of[p]
        OBVIOUS
      <4>2. PICK n \in Nat : n = Len(of) /\ of \in [1 .. n -> Promises]
        BY <3>2, <4>1
      <4>3. of \in [1 .. n -> 1 .. p - 1]
        BY <3>3, <4>1, <4>2
      <4>4. of \in Seq(1 .. p - 1)
        BY <4>2, <4>3
      <4> QED
        BY <4>1, <4>4
    <3>5. pr_value[p] \in Nat /\ pr_value[p] < pr_next /\ pr_next \in Nat
      BY <3>1 DEF PrHeard, PrTyped, Family
    <3>6. pr_value[p] \in 0 .. pr_next - 1
      BY <3>5
    <3> QED
      BY <3>1, <3>4, <3>6 DEF Family
  <2>3. ASSUME NEW p \in Promises
        PROVE  /\ Resolved(p) => pr_resolvers[p] = << >>
               /\ Rejected(p) => pr_rejecters[p] = << >>
    <3>1. PrListed(p, "resolved", Listeners(p, "resolved"))
      BY DEF PrHeard, PrOutcomes
    <3>2. PrListed(p, "rejected", Listeners(p, "rejected"))
      BY DEF PrHeard, PrOutcomes
    <3> QED
      BY <3>1, <3>2 DEF PrListed, Listeners, Resolved, Rejected
  <2> QED
    BY <2>1, <2>2, <2>3 DEF PrTypeOK
<1> QED
  BY <1>1, Hearing, PTL

(* Every outcome is delivered once to all who listen to it (resolve,        *)
(* reject, then, catch, finally, all, race): no handler runs twice, and     *)
(* when nothing is left to run a promise is pending only if it waits for    *)
(* one that is, or missed its outcome.                                     *)
THEOREM Delivered == PrSpec => []PrDelivered
<1>1. PrHeard => PrHandlerOnce
  <2> SUFFICES ASSUME PrHeard, NEW i \in DOMAIN todo, pr_kind[todo[i].target] \in Chains
               PROVE  /\ Pending(todo[i].target)
                      /\ \A j \in DOMAIN todo : todo[j].target = todo[i].target => i = j
    BY DEF PrHandlerOnce
  <2>1. TokensHold(todo) /\ todo[i].target \in Promises
    <3>1. todo[i] \in PrTokens
      BY ElementOfSeq DEF PrHeard, PrTyped
    <3> QED
      BY <3>1 DEF PrTokens, PrHeard
  <2>2. PICK q \in Promises : pr_of[todo[i].target] = <<q>>
    BY <2>1 DEF PrHeard, Family
  <2>3. \A r \in pr_late[todo[i].target] : r = q
    BY <2>1, <2>2 DEF PrHeard, Family, Range
  <2>4. ASSUME NEW j \in DOMAIN todo, todo[j].target = todo[i].target PROVE i = j
    <3>1. todo[i].from \in pr_late[todo[i].target] /\ todo[j].from \in pr_late[todo[i].target]
      BY <2>1, <2>4 DEF TokensHold
    <3>2. todo[i].from = todo[j].from
      BY <2>3, <3>1
    <3> QED
      BY <2>1, <2>4, <3>2 DEF TokensHold
  <2> QED
    BY <2>1, <2>4 DEF TokensHold
<1>2. ASSUME PrHeard, ~Running, NEW p \in Made, pr_kind[p] \in Waiters
      PROVE  Pending(p) <=>
               IF pr_kind[p] = "all"
                 THEN /\ \E q \in Range(pr_of[p]) : WaitsFor(p, q)
                      /\ \A q \in Range(pr_of[p]) : Rejected(q) => q \in pr_late[p]
                 ELSE \A q \in Range(pr_of[p]) : WaitsFor(p, q)
  <2>1. p \in Promises
    BY <1>2, PromiseAssumption DEF PrHeard, PrTyped, Made, Promises
  <2>2. Owed(p, todo) /\ (Settled(p) => Why(p)) /\ Family(p)
    BY <1>2, <2>1 DEF PrHeard
  <2>3. \A q : ~Comes(p, q, todo)
    BY <1>2 DEF Running, Comes
  <2>4. CASE pr_kind[p] = "all"
    <3>1. ASSUME Pending(p)
          PROVE  /\ \E q \in Range(pr_of[p]) : WaitsFor(p, q)
                 /\ \A q \in Range(pr_of[p]) : Rejected(q) => q \in pr_late[p]
      <4>1. /\ pr_results[p] # Range(pr_of[p])
            /\ \A q \in Range(pr_of[p]) \ pr_results[p] : WaitsFor(p, q)
        BY <2>2, <2>3, <2>4, <3>1 DEF Owed
      <4>2. pr_results[p] \subseteq Range(pr_of[p]) /\ \A q \in pr_results[p] : Resolved(q)
        BY <2>2, <2>4 DEF Family
      <4>3. \A q : Rejected(q) => ~Resolved(q) /\ ~Pending(q)
        BY DEF Rejected, Resolved, Pending
      <4>4. \E q \in Range(pr_of[p]) : WaitsFor(p, q)
        BY <4>1, <4>2
      <4>5. ASSUME NEW q \in Range(pr_of[p]), Rejected(q) PROVE q \in pr_late[p]
        BY <4>1, <4>2, <4>3, <4>5 DEF WaitsFor, MissedIt
      <4> QED
        BY <4>4, <4>5
    <3>2. ASSUME ~Pending(p), NEW q \in Range(pr_of[p]), WaitsFor(p, q),
                 \A r \in Range(pr_of[p]) : Rejected(r) => r \in pr_late[p]
          PROVE  FALSE
      <4>1. \A r \in Range(pr_of[p]) : Resolved(r)
        BY <2>2, <2>4, <3>2 DEF Why, Settled
      <4>2. Resolved(q)
        BY <4>1, <3>2
      <4> QED
        BY <2>4, <3>2, <4>2 DEF WaitsFor, MissedIt, Joins, Resolved, Rejected, Pending
    <3> QED
      BY <2>4, <3>1, <3>2
  <2>5. CASE pr_kind[p] # "all"
    <3>1. pr_kind[p] \in Firsts
      BY <1>2, <2>5 DEF Waiters, Firsts, Joins
    <3> QED
      BY <2>2, <2>3, <2>5, <3>1 DEF Owed, Why, Settled
  <2> QED
    BY <2>4, <2>5
<1>3. PrHeard => PrDelivered
  BY <1>1, <1>2 DEF PrDelivered, Waiters
<1> QED
  BY <1>3, Hearing, PTL
=============================================================================
