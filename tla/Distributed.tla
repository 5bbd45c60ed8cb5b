----------------------------- MODULE Distributed -----------------------------
(* The distributed executor (src/src/stdlib-distributed.ts).                *)
(*                                                                          *)
(* Workers, asynchronous loops of one process, take batches of items by a   *)
(* shared index and await the task of one item after the other; results     *)
(* are collected in one array as they come.  Now and then, and at its end,  *)
(* a worker records a checksum of its counters.  An error of no description *)
(* ends its worker, and the executor then answers nothing.                 *)
EXTENDS Integers, Sequences, FiniteSets, SequencesExt

CONSTANTS DiItems, DiWorkers, DiBatch    \* how many items and workers, batch_size

ASSUME DistributedAssumption ==
  DiItems \in Nat /\ DiWorkers \in Nat \ {0} /\ DiBatch \in Nat \ {0}

Item == 0 .. DiItems - 1
Worker == 0 .. DiWorkers - 1

VARIABLES
  di_at,          \* each worker's place
  di_batch,       \* current_batch_index
  di_item,        \* the item it processes, or will next
  di_next,        \* nextBatchIndex
  di_processed, di_failed,     \* each worker's counters
  di_results, di_errors,       \* the items of the executor's arrays, in order
  di_checksum,    \* what each worker last recorded: counters and results.length
  di_sync_count,
  di_outcome      \* history: what became of each item

di_vars == <<di_at, di_batch, di_item, di_next, di_processed, di_failed, di_results,
             di_errors, di_checksum, di_sync_count, di_outcome>>

BatchesFloor == DiItems \div DiBatch   \* a defect: a last short batch is lost
Batches == (DiItems + DiBatch - 1) \div DiBatch

NoChecksum == [processed |-> 0, failed |-> 0, count |-> -1]

DiInit ==
  /\ di_at = [w \in Worker |-> "take"]
  /\ di_batch = [w \in Worker |-> -1]
  /\ di_item = [w \in Worker |-> 0]
  /\ di_next = 0
  /\ di_processed = [w \in Worker |-> 0] /\ di_failed = [w \in Worker |-> 0]
  /\ di_results = << >> /\ di_errors = << >>
  /\ di_checksum = [w \in Worker |-> NoChecksum]
  /\ di_sync_count = 0
  /\ di_outcome = [i \in Item |-> "todo"]

StartOf(b) == b * DiBatch
EndOf(b) == IF StartOf(b) + DiBatch < DiItems THEN StartOf(b) + DiBatch ELSE DiItems

(* getBatchIndex counts up even when nothing is left.                      *)
OwnNext(w) == di_batch[w] + 1           \* a defect: an index of its own
SharedNext(w) == di_next

DiTake(w) ==
  /\ di_at[w] = "take"
  /\ di_next' = di_next + 1
  /\ IF SharedNext(w) < Batches
       THEN /\ di_at' = [di_at EXCEPT ![w] = "process"]
            /\ di_batch' = [di_batch EXCEPT ![w] = SharedNext(w)]
            /\ di_item' = [di_item EXCEPT ![w] = StartOf(SharedNext(w))]
       ELSE /\ di_at' = [di_at EXCEPT ![w] = "last sync"]
            /\ UNCHANGED <<di_batch, di_item>>
  /\ UNCHANGED <<di_processed, di_failed, di_results, di_errors, di_checksum,
                 di_sync_count, di_outcome>>

(* The task of an item answers, or fails.  After the last one of the batch  *)
(* the interval may have passed.                                           *)
AfterItem(w) ==
  /\ di_item' = [di_item EXCEPT ![w] = @ + 1]
  /\ \E next \in (IF di_item[w] + 1 < EndOf(di_batch[w]) THEN {"process"}
                                                       ELSE {"take", "sync"}) :
       di_at' = [di_at EXCEPT ![w] = next]
  /\ UNCHANGED <<di_batch, di_next, di_checksum, di_sync_count>>

Collect(item) == Append(di_results, item)

DiItemOk(w) ==
  /\ di_at[w] = "process"
  /\ di_results' = Collect(di_item[w])
  /\ di_processed' = [di_processed EXCEPT ![w] = @ + 1]
  /\ di_outcome' = [di_outcome EXCEPT ![di_item[w]] = "ok"]
  /\ AfterItem(w)
  /\ UNCHANGED <<di_failed, di_errors>>

DiItemFails(w) ==
  /\ di_at[w] = "process"
  /\ di_errors' = Append(di_errors, di_item[w])
  /\ di_failed' = [di_failed EXCEPT ![w] = @ + 1]
  /\ di_outcome' = [di_outcome EXCEPT ![di_item[w]] = "failed"]
  /\ AfterItem(w)
  /\ UNCHANGED <<di_processed, di_results>>

(* What the task throws is null or undefined: the worker counts the failure *)
(* and then throws itself, over the err.message it would record.           *)
DiItemBreaks(w) ==
  /\ di_at[w] = "process"
  /\ di_at' = [di_at EXCEPT ![w] = "gone"]
  /\ di_failed' = [di_failed EXCEPT ![w] = @ + 1]
  /\ di_outcome' = [di_outcome EXCEPT ![di_item[w]] = "broke"]
  /\ UNCHANGED <<di_batch, di_item, di_next, di_processed, di_results, di_errors,
                 di_checksum, di_sync_count>>

(* syncState leaves early when the checksum is the one it has.             *)
Checksum(w) ==
  [processed |-> di_processed[w], failed |-> di_failed[w], count |-> Len(di_results)]

Synchronised(w) ==
  /\ di_checksum' = [di_checksum EXCEPT ![w] = Checksum(w)]
  /\ di_sync_count' = di_sync_count + (IF di_checksum[w] = Checksum(w) THEN 0 ELSE 1)
  /\ UNCHANGED <<di_batch, di_item, di_next, di_processed, di_failed, di_results,
                 di_errors, di_outcome>>

DiSync(w) ==
  /\ di_at[w] = "sync"
  /\ Synchronised(w)
  /\ di_at' = [di_at EXCEPT ![w] = "take"]

DiLastSync(w) ==
  /\ di_at[w] = "last sync"
  /\ Synchronised(w)
  /\ di_at' = [di_at EXCEPT ![w] = "done"]

DiStep(w) ==
  \/ DiTake(w)
  \/ DiItemOk(w) \/ DiItemFails(w) \/ DiItemBreaks(w)
  \/ DiSync(w) \/ DiLastSync(w)

DiNext == \E w \in Worker : DiStep(w)

DiSpec == DiInit /\ [][DiNext]_di_vars

-----------------------------------------------------------------------------
(* Properties.                                                             *)

DiTypeOK ==
  /\ di_at \in [Worker -> {"take", "process", "sync", "last sync", "done", "gone"}]
  /\ di_batch \in [Worker -> {-1} \cup 0 .. Batches - 1]
  /\ di_item \in [Worker -> 0 .. DiItems]
  /\ di_next \in Nat
  /\ di_processed \in [Worker -> Nat] /\ di_failed \in [Worker -> Nat]
  /\ di_results \in Seq(Item) /\ di_errors \in Seq(Item)
  /\ di_checksum \in [Worker -> [processed : Nat, failed : Nat, count : Nat \cup {-1}]]
  /\ di_sync_count \in Nat
  /\ di_outcome \in [Item -> {"todo", "ok", "failed", "broke"}]

(* Every item is processed once: the executor implements EachOnce.         *)
Each == INSTANCE EachOnce WITH Items <- Item, outcome <- di_outcome
DiEachOnce == Each!Spec

(* No item is in the hands of two workers, or of one when it has already    *)
(* been dealt with, although the batches are handed out between awaits      *)
(* (workerLoop).                                                           *)
DiNoOverlap ==
  \A w \in Worker : di_at[w] = "process" =>
    /\ di_outcome[di_item[w]] = "todo"
    /\ \A v \in Worker \ {w} :
         di_at[v] = "process" => di_batch[v] # di_batch[w] /\ di_item[v] # di_item[w]

(* A total of the workers' counters, by the partial sums of the answer's    *)
(* reduce.                                                                 *)
SumOf(counts, total) ==
  \E sum \in [0 .. DiWorkers -> 0 .. total] :
    /\ sum[0] = 0
    /\ \A w \in Worker : sum[w + 1] = sum[w] + counts[w]
    /\ sum[DiWorkers] = total

DiGone == {w \in Worker : di_at[w] = "gone"}

(* The failures a worker has both counted and recorded.                    *)
Recordings == [w \in Worker |-> di_failed[w] - (IF w \in DiGone THEN 1 ELSE 0)]

(* The arrays and the counters the answer is made of are those of the items *)
(* processed at every moment, nothing twice and nothing missing but the     *)
(* error that ended its worker; and when the executor answers every item    *)
(* has been dealt with, and every worker has recorded its final counters,   *)
(* whatever it had recorded before (execute, syncState).                   *)
DiAnswer ==
  /\ IsInjective(di_results) /\ IsInjective(di_errors)
  /\ Range(di_results) = {i \in Item : di_outcome[i] = "ok"}
  /\ Range(di_errors) = {i \in Item : di_outcome[i] = "failed"}
  /\ SumOf(di_processed, Len(di_results))
  /\ SumOf(Recordings, Len(di_errors))
  /\ {i \in Item : di_outcome[i] = "broke"} = {di_item[w] : w \in DiGone}
  /\ (\A w \in Worker : di_at[w] = "done") =>
       /\ \A i \in Item : di_outcome[i] # "todo"
       /\ \A w \in Worker : /\ di_checksum[w].processed = di_processed[w]
                             /\ di_checksum[w].failed = di_failed[w]
=============================================================================
