------------------------------ MODULE ShmSlots ------------------------------
(***************************************************************************)
(* The shared-memory slots of one pool (fpm/fpm_shm_slots.c): the arrays   *)
(* slots_used and slots_free (fpm/fpm_arrays.h), the index each child      *)
(* structure keeps into the first, the slot each worker writes, and the    *)
(* lock word (fpm/fpm_atomic.h) that keeps master and worker apart.        *)
(*                                                                         *)
(* Some definitions are the code with a slip in it, each beside the one it *)
(* varies, and no specification uses them: RemoveItemDrop, RemoveItemShift,*)
(* TakeLocked.                                                             *)
(***************************************************************************)
EXTENDS Integers, Sequences, FiniteSets

CONSTANTS
    Child,       \* child structures of the pool
    Stale,       \* a child pointer nobody has set: it may lead anywhere
    MaxSlots,    \* bound: slots fpm_shm_alloc_chunk can give out; those
                 \* beyond one per child bound the failed pushes
    PushFails,   \* may realloc of slots_free fail?
    ChunkFails   \* may fpm_shm_alloc_chunk fail?

ASSUME ChildAssumption == Stale \notin Child /\ IsFiniteSet(Child)
ASSUME SlotAssumption  == MaxSlots \in Nat
ASSUME FailAssumption  == PushFails \in BOOLEAN /\ ChunkFails \in BOOLEAN

VARIABLES
    slots_used,   \* [slot, child] records
    slots_free,   \* slots
    shm_slot_i,   \* child->shm_slot_i
    stage,        \* "none", "prepared", "running" or "dead"
    mine,         \* the worker's static shm_slot
    lock,         \* the lock word of each slot
    inside,       \* the worker is between acquire and release
    probe,        \* the slot the master is copying, 0 if none
    allocated,    \* how many chunks have been given out
    leaked,       \* history: slots dropped by a failed push
    wild          \* history: the master wrote through a pointer to nothing

arrays == <<slots_used, slots_free, shm_slot_i>>
vars   == <<arrays, stage, mine, lock, inside, probe, allocated, leaked, wild>>

Slot == 1 .. MaxSlots      \* 0 is the null pointer

(* fpm_array_item, fpm_array_item_remove: the last item fills the hole     *)
Item(a, n) == a[n + 1]

RemoveItemDrop(a, n) == SubSeq(a, 1, Len(a) - 1)

RemoveItemShift(a, n) ==
    [i \in 1 .. Len(a) - 1 |-> IF i > n THEN a[i + 1] ELSE a[i]]

RemoveItem(a, n) ==
    [i \in 1 .. Len(a) - 1 |-> IF i = n + 1 THEN a[Len(a)] ELSE a[i]]

(* fpm_spinlock takes the lock of slot s if nobody has it                  *)
Free(s) == lock[s] = 0

(* The master does one thing at a time, and nothing defined once wild.     *)
MasterFree == ~wild /\ probe = 0 /\ \A c \in Child : stage[c] # "prepared"

-----------------------------------------------------------------------------
(* fpm_shm_slots_prepare_slot: a slot last freed is first reused; either   *)
(* way the slot is zeroed.  (When slots_used cannot grow nothing changes.) *)
TakeLocked(c, s) ==
    /\ slots_used' = Append(slots_used, [slot |-> s, child |-> c])
    /\ shm_slot_i' = [shm_slot_i EXCEPT ![c] = Len(slots_used)]
    /\ lock' = lock
    /\ stage' = [stage EXCEPT ![c] = "prepared"]

Take(c, s) ==
    /\ slots_used' = Append(slots_used, [slot |-> s, child |-> c])
    /\ shm_slot_i' = [shm_slot_i EXCEPT ![c] = Len(slots_used)]
    /\ lock' = [lock EXCEPT ![s] = 0]
    /\ stage' = [stage EXCEPT ![c] = "prepared"]

Prepare(c) ==
    /\ MasterFree
    /\ stage[c] = "none"
    /\ \/ /\ slots_free = <<>>
          /\ allocated < MaxSlots
          /\ allocated' = allocated + 1
          /\ Take(c, allocated + 1)
          /\ UNCHANGED slots_free
       \/ /\ slots_free # <<>>
          /\ Take(c, slots_free[Len(slots_free)])
          /\ slots_free' = SubSeq(slots_free, 1, Len(slots_free) - 1)
          /\ UNCHANGED allocated
    /\ UNCHANGED <<mine, inside, probe, leaked, wild>>

(* No chunk: the item pushed on slots_used stays, with a null slot and     *)
(* whatever child pointer its memory held; the child itself is freed.      *)
NoChunk(c) ==
    /\ ChunkFails
    /\ MasterFree
    /\ stage[c] = "none"
    /\ slots_free = <<>>
    /\ Len(slots_used) < 2 * MaxSlots
    /\ slots_used' = Append(slots_used, [slot |-> 0, child |-> Stale])
    /\ UNCHANGED <<slots_free, shm_slot_i, stage, mine, lock, inside, probe,
                   allocated, leaked>>

PrepareFails(c) == NoChunk(c) /\ UNCHANGED wild

(* Or mmap() has failed, which fpm_shm_alloc does not see, as it looks for *)
(* a null pointer and not for MAP_FAILED: what is zeroed is no memory.     *)
MapFails(c) == NoChunk(c) /\ wild' = TRUE

(* fpm_shm_slots_discard_slot                                              *)
Discard(c) ==
    LET n == shm_slot_i[c]
        s == Item(slots_used, n).slot
        last == slots_used[Len(slots_used)].child
        moved == n < Len(slots_used) - 1
    IN /\ \/ slots_free' = Append(slots_free, s) /\ UNCHANGED leaked
          \/ /\ PushFails
             /\ Cardinality(leaked) + Cardinality(Child) < MaxSlots
             /\ leaked' = leaked \cup {s}
             /\ UNCHANGED slots_free
       /\ slots_used' = RemoveItem(slots_used, n)
       /\ IF moved /\ last \in Child
          THEN shm_slot_i' = [shm_slot_i EXCEPT ![last] = n]
          ELSE UNCHANGED shm_slot_i
       /\ wild' = (moved /\ last = Stale)
       /\ stage' = [stage EXCEPT ![c] = "none"]
       /\ mine' = [mine EXCEPT ![c] = 0]
       /\ inside' = [inside EXCEPT ![c] = FALSE]
       /\ UNCHANGED <<lock, probe, allocated>>

(* fork(): in the child fpm_shm_slots_child_use_slot looks its slot up     *)
Fork(c) ==
    /\ stage[c] = "prepared"
    /\ stage' = [stage EXCEPT ![c] = "running"]
    /\ mine' = [mine EXCEPT ![c] = Item(slots_used, shm_slot_i[c]).slot]
    /\ UNCHANGED <<arrays, lock, inside, probe, allocated, leaked, wild>>

ForkFails(c) == stage[c] = "prepared" /\ Discard(c)

(* fpm_children_bury                                                       *)
Bury(c) == MasterFree /\ stage[c] = "dead" /\ Discard(c)

(* fpm_request_check_timed_out: fpm_shm_slot, one try for the lock, copy   *)
(* and release                                                             *)
Watched(c) == Item(slots_used, shm_slot_i[c]).slot

Watch(c) ==
    /\ MasterFree
    /\ stage[c] \in {"running", "dead"}
    /\ Free(Watched(c))
    /\ lock' = [lock EXCEPT ![Watched(c)] = 1]
    /\ probe' = Watched(c)
    /\ UNCHANGED <<arrays, stage, mine, inside, allocated, leaked, wild>>

Copied ==
    /\ probe # 0
    /\ lock' = [lock EXCEPT ![probe] = 0]
    /\ probe' = 0
    /\ UNCHANGED <<arrays, stage, mine, inside, allocated, leaked, wild>>

-----------------------------------------------------------------------------
(* The worker: fpm_shm_slots_acquire(0, 0), fpm_shm_slots_release, death   *)
(* at any point.                                                           *)
Acquire(c) ==
    /\ stage[c] = "running"
    /\ ~inside[c]
    /\ Free(mine[c])
    /\ lock' = [lock EXCEPT ![mine[c]] = 1]
    /\ inside' = [inside EXCEPT ![c] = TRUE]
    /\ UNCHANGED <<arrays, stage, mine, probe, allocated, leaked, wild>>

Release(c) ==
    /\ stage[c] = "running"
    /\ inside[c]
    /\ lock' = [lock EXCEPT ![mine[c]] = 0]
    /\ inside' = [inside EXCEPT ![c] = FALSE]
    /\ UNCHANGED <<arrays, stage, mine, probe, allocated, leaked, wild>>

Die(c) ==
    /\ stage[c] = "running"
    /\ stage' = [stage EXCEPT ![c] = "dead"]
    /\ UNCHANGED <<arrays, mine, lock, inside, probe, allocated, leaked, wild>>

-----------------------------------------------------------------------------
Init ==
    /\ slots_used = <<>>
    /\ slots_free = <<>>
    /\ shm_slot_i = [c \in Child |-> 0]
    /\ stage = [c \in Child |-> "none"]
    /\ mine = [c \in Child |-> 0]
    /\ lock = [s \in Slot |-> 0]
    /\ inside = [c \in Child |-> FALSE]
    /\ probe = 0
    /\ allocated = 0
    /\ leaked = {}
    /\ wild = FALSE

(* After a wild write anything may happen: it is where the model stops.    *)
Undefined == wild /\ UNCHANGED vars

Next ==
    \/ \E c \in Child :
          \/ Prepare(c) \/ PrepareFails(c) \/ MapFails(c)
          \/ Fork(c) \/ ForkFails(c) \/ Bury(c) \/ Watch(c) \/ Acquire(c) \/ Release(c) \/ Die(c)
    \/ Copied
    \/ Undefined

Spec == Init /\ [][Next]_vars

-----------------------------------------------------------------------------
(* The type of every variable.                                             *)
TypeOK ==
    /\ slots_used \in Seq([slot : Slot \cup {0}, child : Child \cup {Stale}])
    /\ slots_free \in Seq(Slot)
    /\ shm_slot_i \in [Child -> Nat]
    /\ stage \in [Child -> {"none", "prepared", "running", "dead"}]
    /\ mine \in [Child -> Slot \cup {0}]
    /\ lock \in [Slot -> {0, 1}]
    /\ inside \in [Child -> BOOLEAN]
    /\ probe \in Slot \cup {0}
    /\ allocated \in 0 .. MaxSlots
    /\ leaked \subseteq Slot
    /\ wild \in BOOLEAN

(* The slot the master watches for a child is the one its worker writes:   *)
(* the worker looked it up at its fork, the master looks it up again after *)
(* any number of other children came and went and items were moved to fill *)
(* the holes (until a write through a pointer to nothing, if a chunk was   *)
(* refused).                                                               *)
WatchesOwnSlot == ~wild =>
    \A c \in Child : stage[c] \in {"running", "dead"} => Watched(c) = mine[c]

(* No slot is in the hands of two children, or of a child and the free     *)
(* list, and none is lost except to a push that failed.  Types included.   *)
SlotsPartitioned ==
    /\ TypeOK
    /\ \A i, j \in 1 .. Len(slots_used) :
          i # j /\ slots_used[i].slot # 0 => slots_used[i].slot # slots_used[j].slot
    /\ \A i, j \in 1 .. Len(slots_free) : i # j => slots_free[i] # slots_free[j]
    /\ \A i \in 1 .. Len(slots_used), j \in 1 .. Len(slots_free) :
          slots_used[i].slot # slots_free[j]
    /\ 1 .. allocated =
          ({slots_used[i].slot : i \in 1 .. Len(slots_used)} \ {0})
          \cup {slots_free[j] : j \in 1 .. Len(slots_free)} \cup leaked

(* A running worker finds its lock taken only by the master's copying or   *)
(* by itself: a predecessor killed while holding it does not lock it out.  *)
LockHasHolder ==
    \A c \in Child : stage[c] = "running" /\ lock[mine[c]] = 1 =>
        inside[c] \/ probe = mine[c]
=============================================================================
