--------------------------- MODULE ShmSlotsProofs ----------------------------
(***************************************************************************)
(* Proofs about ShmSlots, for any number of children and of slots, and     *)
(* whichever pushes and chunks fail.                                       *)
(***************************************************************************)
EXTENDS ShmSlots, SequenceTheorems, TLAPS

UsedIndex == 1 .. Len(slots_used)

(* As long as no wild write has been made, array and children point at     *)
(* each other: a child that is anywhere between prepare and discard finds  *)
(* its own item at its index, and an item names such a child; items with a *)
(* null slot, and no others, name nobody.                                  *)
Linked ==
    /\ \A n \in UsedIndex : slots_used[n].child = Stale <=> slots_used[n].slot = 0
    /\ ~wild =>
        /\ \A c \in Child : stage[c] # "none" =>
              /\ shm_slot_i[c] + 1 \in UsedIndex
              /\ slots_used[shm_slot_i[c] + 1].child = c
        /\ \A n \in UsedIndex : slots_used[n].child # Stale =>
              /\ stage[slots_used[n].child] # "none"
              /\ shm_slot_i[slots_used[n].child] = n - 1

(* A child is prepared by the master in one go with its fork: alone, while *)
(* the master copies nothing, and with its lock free.                      *)
Preparing ==
    /\ \A c, d \in Child : stage[c] = "prepared" /\ stage[d] = "prepared" => c = d
    /\ \A c \in Child : stage[c] = "prepared" =>
          ~wild /\ probe = 0 /\ lock[Watched(c)] = 0

(* Workers write different slots, also after a wild write.                 *)
OwnSlots ==
    /\ \A c \in Child : stage[c] \in {"running", "dead"} => mine[c] # 0
    /\ \A c, d \in Child :
          stage[c] \in {"running", "dead"} /\ stage[d] \in {"running", "dead"}
             /\ mine[c] = mine[d] => c = d

(* The inductive invariant: what the master watches is a consequence of    *)
(* where the items are, and that a lock has a holder one of whose slots    *)
(* are in nobody else's hands.                                             *)
IInv ==
    /\ SlotsPartitioned
    /\ Linked
    /\ Preparing
    /\ OwnSlots
    /\ WatchesOwnSlot
    /\ LockHasHolder

-----------------------------------------------------------------------------
(* The arrays.                                                             *)

(* fpm_array_item_remove: one item fewer, the last one in the hole.        *)
LEMMA RemoveItemFacts ==
    ASSUME NEW S, NEW a \in Seq(S), NEW n \in Nat, n + 1 \in 1 .. Len(a)
    PROVE  /\ RemoveItem(a, n) \in Seq(S)
           /\ Len(RemoveItem(a, n)) = Len(a) - 1
           /\ \A k \in 1 .. Len(a) - 1 :
                 RemoveItem(a, n)[k] = IF k = n + 1 THEN a[Len(a)] ELSE a[k]
<1> DEFINE r == RemoveItem(a, n)
<1>1. Len(a) - 1 \in Nat /\ \A k \in 1 .. Len(a) : a[k] \in S
  BY ElementOfSeq
<1>2. r \in [1 .. Len(a) - 1 -> S]
  BY <1>1 DEF RemoveItem
<1>3. r \in Seq(S)
  BY <1>1, <1>2, SeqDef
<1>4. Len(r) = Len(a) - 1
  BY <1>1, <1>2, <1>3, LenProperties
<1> QED
  BY <1>3, <1>4 DEF RemoveItem

(* An item more at the end, an item less at the end.                       *)
LEMMA PushPopFacts ==
    ASSUME NEW S, NEW a \in Seq(S)
    PROVE  /\ \A e \in S :
                 /\ Append(a, e) \in Seq(S)
                 /\ Len(Append(a, e)) = Len(a) + 1
                 /\ Append(a, e)[Len(a) + 1] = e
                 /\ \A k \in 1 .. Len(a) : Append(a, e)[k] = a[k]
           /\ a # <<>> =>
                 /\ Len(a) \in 1 .. Len(a)
                 /\ SubSeq(a, 1, Len(a) - 1) \in Seq(S)
                 /\ Len(SubSeq(a, 1, Len(a) - 1)) = Len(a) - 1
                 /\ \A k \in 1 .. Len(a) - 1 : SubSeq(a, 1, Len(a) - 1)[k] = a[k]
           /\ Len(a) \in Nat
           /\ \A k \in 1 .. Len(a) : a[k] \in S
<1>1. \A k \in 1 .. Len(a) : a[k] \in S
  BY ElementOfSeq
<1>2. ASSUME a # <<>>
      PROVE  /\ Len(a) \in 1 .. Len(a)
             /\ SubSeq(a, 1, Len(a) - 1) \in Seq(S)
             /\ Len(SubSeq(a, 1, Len(a) - 1)) = Len(a) - 1
             /\ \A k \in 1 .. Len(a) - 1 : SubSeq(a, 1, Len(a) - 1)[k] = a[k]
  <2>1. Len(a) \in Nat \ {0}
    BY <1>2, EmptySeq
  <2> DEFINE m == Len(a) - 1
  <2>2. m \in Nat /\ \A k \in 1 .. m : a[k] \in S
    BY <1>1, <2>1
  <2>3. Len(a) \in 1 .. Len(a)
    BY <2>1
  <2> HIDE DEF m
  <2>4. /\ SubSeq(a, 1, m) \in Seq(S)
        /\ Len(SubSeq(a, 1, m)) = IF 1 <= m THEN m - 1 + 1 ELSE 0
        /\ \A k \in 1 .. m - 1 + 1 : SubSeq(a, 1, m)[k] = a[1 + k - 1]
    BY <2>2, SubSeqProperties
  <2>5. Len(SubSeq(a, 1, m)) = m /\ \A k \in 1 .. m : SubSeq(a, 1, m)[k] = a[k]
    BY <2>2, <2>4
  <2> QED
    BY <2>3, <2>4, <2>5 DEF m
<1>3. ASSUME NEW e \in S
      PROVE  /\ Append(a, e) \in Seq(S)
             /\ Len(Append(a, e)) = Len(a) + 1
             /\ Append(a, e)[Len(a) + 1] = e
             /\ \A k \in 1 .. Len(a) : Append(a, e)[k] = a[k]
  BY AppendProperties, LenProperties
<1> QED
  BY <1>1, <1>2, <1>3, LenProperties

-----------------------------------------------------------------------------
(* The partition, slot by slot.                                            *)

ItemType == [slot : Slot \cup {0}, child : Child \cup {Stale}]

(* The items of both arrays, one by one.                                   *)
LEMMA ItemTypes ==
    ASSUME TypeOK
    PROVE  /\ slots_used \in Seq(ItemType) /\ slots_free \in Seq(Slot)
           /\ Len(slots_used) \in Nat /\ Len(slots_free) \in Nat
           /\ \A n \in UsedIndex : /\ slots_used[n] \in ItemType
                                   /\ slots_used[n].slot \in Slot \cup {0}
                                   /\ slots_used[n].child \in Child \cup {Stale}
           /\ \A n \in 1 .. Len(slots_free) : slots_free[n] \in Slot
           /\ \A s \in Slot : s # 0 /\ s \in Nat
<1>1. slots_used \in Seq(ItemType) /\ slots_free \in Seq(Slot)
  BY DEF TypeOK, ItemType
<1>2. \A n \in UsedIndex : slots_used[n] \in ItemType
  BY <1>1, ElementOfSeq DEF UsedIndex
<1>3. \A n \in 1 .. Len(slots_free) : slots_free[n] \in Slot
  BY <1>1, ElementOfSeq
<1>4. Len(slots_used) \in Nat /\ Len(slots_free) \in Nat
  BY <1>1, LenProperties
<1> QED
  BY <1>1, <1>2, <1>3, <1>4, SlotAssumption DEF ItemType, Slot

InUsed(s)   == \E n \in UsedIndex : slots_used[n].slot = s
InFree(s)   == \E n \in 1 .. Len(slots_free) : slots_free[n] = s

Distinct ==
    /\ \A n, k \in UsedIndex :
          n # k /\ slots_used[n].slot # 0 => slots_used[n].slot # slots_used[k].slot
    /\ \A n, k \in 1 .. Len(slots_free) : n # k => slots_free[n] # slots_free[k]
    /\ \A n \in UsedIndex, k \in 1 .. Len(slots_free) :
          slots_used[n].slot # slots_free[k]

Placed == \A s \in Slot : s <= allocated <=> InUsed(s) \/ InFree(s) \/ s \in leaked

(* SlotsPartitioned said of each slot instead of whole sets.               *)
LEMMA PartitionBySlot == SlotsPartitioned <=> TypeOK /\ Distinct /\ Placed
<1> DEFINE U == {slots_used[n].slot : n \in UsedIndex} \ {0}
           F == {slots_free[n] : n \in 1 .. Len(slots_free)}
<1>1. ASSUME TypeOK PROVE Placed <=> 1 .. allocated = U \cup F \cup leaked
  <2>1. \A n \in UsedIndex : slots_used[n].slot \in Slot \cup {0}
    BY <1>1, ItemTypes
  <2>2. \A n \in 1 .. Len(slots_free) : slots_free[n] \in Slot
    BY <1>1, ItemTypes
  <2>3. /\ U \subseteq Slot /\ F \subseteq Slot
        /\ leaked \subseteq Slot /\ 1 .. allocated \subseteq Slot
    <3>1. U \subseteq Slot
      BY <2>1
    <3>2. F \subseteq Slot
      BY <2>2
    <3>3. leaked \subseteq Slot /\ 1 .. allocated \subseteq Slot
      BY <1>1, SlotAssumption DEF TypeOK, Slot
    <3> QED
      BY <3>1, <3>2, <3>3
  <2>4. \A s \in Slot : s # 0 /\ (s \in 1 .. allocated <=> s <= allocated)
    BY <1>1, SlotAssumption DEF TypeOK, Slot
  <2>5. \A s \in Slot : /\ s \in U <=> InUsed(s)
                        /\ s \in F <=> InFree(s)
    BY <2>4 DEF InUsed, InFree
  <2> HIDE DEF U, F
  <2> QED
    BY <2>3, <2>4, <2>5 DEF Placed
<1> QED
  BY <1>1 DEF SlotsPartitioned, Distinct, UsedIndex

-----------------------------------------------------------------------------
(* The invariant holds initially.                                          *)
LEMMA InitIInv == Init => IInv
<1> SUFFICES ASSUME Init PROVE IInv
  OBVIOUS
<1>1. Len(slots_used) = 0 /\ Len(slots_free) = 0
  BY DEF Init
<1>2. TypeOK
  <2>1. <<>> \in Seq([slot : Slot \cup {0}, child : Child \cup {Stale}])
    BY EmptySeq
  <2>2. <<>> \in Seq(Slot)
    BY EmptySeq
  <2>3. 0 \in 0 .. MaxSlots
    BY SlotAssumption
  <2> QED
    BY <2>1, <2>2, <2>3 DEF Init, TypeOK
<1>3. Distinct /\ Placed
  BY <1>1, <1>2, SlotAssumption DEF Init, Distinct, Placed, UsedIndex, InUsed, InFree, Slot
<1>4. SlotsPartitioned
  BY <1>2, <1>3, PartitionBySlot
<1> QED
  BY <1>1, <1>4 DEF Init, IInv, Linked, Preparing, OwnSlots, WatchesOwnSlot,
     LockHasHolder, UsedIndex

-----------------------------------------------------------------------------
(* What links and partition say together: every child between prepare and  *)
(* discard has a slot, and no two the same.                                *)
LEMMA SlotOfChild ==
    ASSUME TypeOK, Distinct, Linked, ~wild,
           NEW c \in Child, stage[c] # "none"
    PROVE  /\ shm_slot_i[c] \in Nat /\ shm_slot_i[c] + 1 \in UsedIndex
           /\ slots_used[shm_slot_i[c] + 1].child = c
           /\ Watched(c) = slots_used[shm_slot_i[c] + 1].slot
           /\ Watched(c) \in Slot
           /\ \A d \in Child : stage[d] # "none" /\ Watched(d) = Watched(c) => d = c
<1>1. /\ shm_slot_i[c] \in Nat /\ shm_slot_i[c] + 1 \in UsedIndex
      /\ slots_used[shm_slot_i[c] + 1].child = c
      /\ Watched(c) = slots_used[shm_slot_i[c] + 1].slot
  BY DEF TypeOK, Linked, Watched, Item
<1>2. Watched(c) \in Slot
  BY <1>1, ItemTypes, ChildAssumption DEF Linked
<1>3. ASSUME NEW d \in Child, stage[d] # "none", Watched(d) = Watched(c)
      PROVE  d = c
  <2>1. /\ shm_slot_i[d] \in Nat /\ shm_slot_i[d] + 1 \in UsedIndex
        /\ slots_used[shm_slot_i[d] + 1].child = d
        /\ Watched(d) = slots_used[shm_slot_i[d] + 1].slot
    BY <1>3 DEF TypeOK, Linked, Watched, Item
  <2>2. Watched(c) # 0
    BY <1>2, ItemTypes
  <2>3. shm_slot_i[d] + 1 = shm_slot_i[c] + 1
    BY <1>1, <1>3, <2>1, <2>2 DEF Distinct
  <2> QED
    BY <1>1, <2>1, <2>3
<1> QED
  BY <1>1, <1>2, <1>3

(* A step that leaves the arrays and the children alone, but for a death,  *)
(* concerns the locks only.                                                *)
LEMMA QuietIInv ==
    ASSUME IInv, TypeOK',
           UNCHANGED <<slots_used, slots_free, shm_slot_i, mine, allocated,
                       leaked, wild>>,
           \A c \in Child :
               stage'[c] # stage[c] => stage[c] = "running" /\ stage'[c] = "dead",
           Preparing', LockHasHolder'
    PROVE  IInv'
<1>1. SlotsPartitioned'
  BY DEF IInv, SlotsPartitioned, arrays
<1>2. Linked'
  <2>1. TypeOK
    BY DEF IInv, SlotsPartitioned
  <2>2. \A c \in Child : stage'[c] = "none" <=> stage[c] = "none"
    OBVIOUS
  <2>3. \A n \in UsedIndex : slots_used[n].child \in Child \cup {Stale}
    BY <2>1, ItemTypes
  <2> QED
    BY <2>2, <2>3 DEF IInv, Linked, UsedIndex
<1>3. OwnSlots'
  BY DEF IInv, OwnSlots
<1>4. WatchesOwnSlot'
  BY DEF IInv, WatchesOwnSlot, Watched, Item, arrays
<1> QED
  BY <1>1, <1>2, <1>3, <1>4 DEF IInv

(* fpm_spinlock and the release, by the master and by the worker.          *)
LEMMA LockIInv ==
    ASSUME IInv,
           Copied \/ \E c \in Child : Watch(c) \/ Acquire(c) \/ Release(c) \/ Die(c)
    PROVE  IInv'
<1>0. /\ TypeOK /\ Distinct /\ Linked /\ Preparing
      /\ OwnSlots /\ WatchesOwnSlot /\ LockHasHolder
  BY PartitionBySlot DEF IInv
<1>1. CASE Copied
  <2>1. /\ probe # 0 /\ probe \in Slot
        /\ lock' = [lock EXCEPT ![probe] = 0] /\ probe' = 0
        /\ UNCHANGED <<arrays, stage, mine, inside, allocated, leaked, wild>>
    BY <1>0, <1>1 DEF Copied, TypeOK
  <2>2. TypeOK'
    BY <1>0, <2>1 DEF TypeOK, arrays
  <2>3. Preparing'
    BY <1>0, <2>1 DEF Preparing
  <2>4. LockHasHolder'
    BY <1>0, <2>1 DEF LockHasHolder, TypeOK, OwnSlots
  <2> QED
    BY <2>1, <2>2, <2>3, <2>4, QuietIInv DEF arrays
<1>2. ASSUME NEW c \in Child, Watch(c) PROVE IInv'
  <2>1. /\ MasterFree /\ stage[c] # "none"
        /\ lock' = [lock EXCEPT ![Watched(c)] = 1] /\ probe' = Watched(c)
        /\ UNCHANGED <<arrays, stage, mine, inside, allocated, leaked, wild>>
    BY <1>2 DEF Watch
  <2>2. Watched(c) \in Slot
    BY <1>0, <2>1, SlotOfChild DEF MasterFree
  <2>3. TypeOK'
    BY <1>0, <2>1, <2>2 DEF TypeOK, arrays
  <2>4. Preparing'
    BY <1>0, <2>1 DEF Preparing, MasterFree
  <2>5. LockHasHolder'
    BY <1>0, <2>1, <2>2, ItemTypes DEF LockHasHolder, TypeOK, MasterFree, OwnSlots
  <2> QED
    BY <2>1, <2>3, <2>4, <2>5, QuietIInv DEF arrays
<1>3. ASSUME NEW c \in Child, Acquire(c) \/ Release(c) PROVE IInv'
  <2>1. /\ stage[c] = "running"
        /\ \E v \in {0, 1} : lock' = [lock EXCEPT ![mine[c]] = v]
        /\ \E v \in BOOLEAN : inside' = [inside EXCEPT ![c] = v]
        /\ Acquire(c) => inside'[c]
        /\ Release(c) => lock'[mine[c]] = 0
        /\ UNCHANGED <<arrays, stage, mine, probe, allocated, leaked, wild>>
    BY <1>0, <1>3 DEF Acquire, Release, TypeOK, OwnSlots
  <2>2. mine[c] \in Slot
    BY <1>0, <2>1 DEF TypeOK, OwnSlots
  <2>3. TypeOK'
    BY <1>0, <2>1, <2>2 DEF TypeOK, arrays
  <2>4. \A d \in Child : stage[d] = "prepared" => Watched(d) # mine[c]
    BY <1>0, <2>1, SlotOfChild DEF WatchesOwnSlot, Preparing
  <2>5. \A d \in Child : Watched(d)' = Watched(d)
    BY <2>1 DEF Watched, Item, arrays
  <2>6. Preparing'
    BY <1>0, <2>1, <2>2, <2>4, <2>5, SlotOfChild DEF Preparing, TypeOK
  <2>7. LockHasHolder'
    BY <1>0, <1>3, <2>1, <2>2 DEF LockHasHolder, OwnSlots, TypeOK
  <2> QED
    BY <2>1, <2>3, <2>6, <2>7, QuietIInv DEF arrays
<1>4. ASSUME NEW c \in Child, Die(c) PROVE IInv'
  <2>1. /\ stage[c] = "running"
        /\ stage' = [stage EXCEPT ![c] = "dead"]
        /\ UNCHANGED <<arrays, mine, lock, inside, probe, allocated, leaked, wild>>
    BY <1>4 DEF Die
  <2>2. TypeOK' /\ \A d \in Child : stage'[d] = IF d = c THEN "dead" ELSE stage[d]
    BY <1>0, <2>1 DEF TypeOK, arrays
  <2>3. \A d \in Child : Watched(d)' = Watched(d)
    BY <2>1 DEF Watched, Item, arrays
  <2>4. Preparing' /\ LockHasHolder'
    BY <1>0, <2>1, <2>2, <2>3 DEF Preparing, LockHasHolder
  <2> QED
    BY <2>1, <2>2, <2>4, QuietIInv DEF arrays
<1> QED
  BY <1>1, <1>2, <1>3, <1>4

-----------------------------------------------------------------------------
(* Taking a slot.                                                          *)

(* Fresh or used before, the slot taken is in nobody's hands.               *)
LEMMA TakeIInv ==
    ASSUME IInv, NEW c \in Child, Prepare(c)
    PROVE  IInv'
<1>0. /\ TypeOK /\ Distinct /\ Placed /\ Linked /\ Preparing
      /\ OwnSlots /\ WatchesOwnSlot /\ LockHasHolder
  BY PartitionBySlot DEF IInv
<1> DEFINE len == Len(slots_used)
<1>1. PICK s \in Slot :
        /\ ~InUsed(s)
        /\ Take(c, s)
        /\ allocated' \in 0 .. MaxSlots
        /\ slots_free' \in Seq(Slot)
        /\ \A k, n \in 1 .. Len(slots_free') : k # n => slots_free'[k] # slots_free'[n]
        /\ \A n \in 1 .. Len(slots_free') : slots_free'[n] # s /\ InFree(slots_free'[n])
        /\ \A t \in Slot : t <= allocated' <=>
              t = s \/ InUsed(t) \/ (\E n \in 1 .. Len(slots_free') : slots_free'[n] = t)
              \/ t \in leaked
  <2>1. CASE slots_free = <<>>
    <3>1. /\ Take(c, allocated + 1) /\ allocated' = allocated + 1
          /\ allocated < MaxSlots /\ slots_free' = slots_free /\ Len(slots_free) = 0
      BY <2>1 DEF Prepare
    <3>2. allocated + 1 \in Slot /\ allocated \in Nat
      BY <1>0, <3>1, SlotAssumption DEF TypeOK, Slot
    <3>3. ~InUsed(allocated + 1)
      BY <1>0, <3>2 DEF Placed
    <3>4. \A t \in Slot : t <= allocated' <=> t = allocated + 1 \/ t <= allocated
      BY <3>1, <3>2, SlotAssumption DEF Slot
    <3>5. allocated' \in 0 .. MaxSlots /\ slots_free' \in Seq(Slot)
      BY <1>0, <3>1, SlotAssumption DEF TypeOK
    <3> QED
      BY <1>0, <3>1, <3>2, <3>3, <3>4, <3>5 DEF Placed, InFree
  <2>2. CASE slots_free # <<>>
    <3> DEFINE m == Len(slots_free)
               s == slots_free[m]
    <3>1. /\ Take(c, s) /\ allocated' = allocated
          /\ slots_free' = SubSeq(slots_free, 1, m - 1)
      BY <2>2 DEF Prepare
    <3>2. /\ slots_free \in Seq(Slot) /\ m \in 1 .. m /\ m \in Nat
          /\ slots_free' \in Seq(Slot) /\ Len(slots_free') = m - 1
          /\ \A n \in 1 .. m - 1 : slots_free'[n] = slots_free[n]
          /\ \A n \in 1 .. m : slots_free[n] \in Slot
      BY <1>0, <2>2, <3>1, PushPopFacts DEF TypeOK
    <3>3. s \in Slot /\ ~InUsed(s) /\ InFree(s)
      BY <1>0, <3>2 DEF Distinct, InUsed, InFree
    <3>4. \A n, k \in 1 .. Len(slots_free') : n # k => slots_free'[n] # slots_free'[k]
      BY <1>0, <3>2 DEF Distinct
    <3>5. \A n \in 1 .. Len(slots_free') : slots_free'[n] # s /\ InFree(slots_free'[n])
      BY <1>0, <3>2 DEF Distinct, InFree
    <3>6. ASSUME NEW t \in Slot
          PROVE  InFree(t) <=> t = s \/ \E n \in 1 .. Len(slots_free') : slots_free'[n] = t
      BY <3>2 DEF InFree
    <3>7. allocated' \in 0 .. MaxSlots
      BY <1>0, <3>1 DEF TypeOK
    <3> HIDE DEF s, m
    <3> QED
      BY <1>0, <3>1, <3>2, <3>3, <3>4, <3>5, <3>6, <3>7 DEF Placed
  <2> QED
    BY <2>1, <2>2
<1>2. /\ MasterFree /\ stage[c] = "none"
      /\ slots_used' = Append(slots_used, [slot |-> s, child |-> c])
      /\ shm_slot_i' = [shm_slot_i EXCEPT ![c] = len]
      /\ lock' = [lock EXCEPT ![s] = 0]
      /\ stage' = [stage EXCEPT ![c] = "prepared"]
      /\ UNCHANGED <<mine, inside, probe, leaked, wild>>
  BY <1>1 DEF Prepare, Take
<1>3. /\ slots_used' \in Seq(ItemType) /\ len \in Nat
      /\ Len(slots_used') = len + 1
      /\ slots_used'[len + 1].slot = s /\ slots_used'[len + 1].child = c
      /\ \A n \in 1 .. len : slots_used'[n] = slots_used[n]
      /\ UsedIndex = 1 .. len /\ UsedIndex' = 1 .. len + 1
  <2>1. [slot |-> s, child |-> c] \in ItemType
    BY DEF ItemType
  <2> QED
    BY <1>0, <1>2, <2>1, ItemTypes, PushPopFacts DEF UsedIndex
<1>4. /\ \A n \in UsedIndex' : n = len + 1 \/ (n \in UsedIndex /\ n # len + 1)
      /\ s # 0
      /\ \A n \in UsedIndex : slots_used[n].slot # s
  BY <1>1, <1>3, ItemTypes, <1>0 DEF InUsed
<1> HIDE DEF len
<1>5. TypeOK'
  <2>1. lock' \in [Slot -> {0, 1}] /\ stage' \in [Child -> {"none", "prepared", "running", "dead"}]
    BY <1>0, <1>2 DEF TypeOK
  <2>2. shm_slot_i' \in [Child -> Nat]
    BY <1>0, <1>2, <1>3 DEF TypeOK
  <2> QED
    BY <1>0, <1>1, <1>2, <1>3, <2>1, <2>2 DEF TypeOK, ItemType
<1>6. Distinct'
  <2>1. \A n, k \in UsedIndex' : n # k /\ slots_used'[n].slot # 0
            => slots_used'[n].slot # slots_used'[k].slot
    BY <1>0, <1>3, <1>4 DEF Distinct
  <2>2. \A n \in UsedIndex', k \in 1 .. Len(slots_free') : slots_used'[n].slot # slots_free'[k]
    BY <1>0, <1>1, <1>3, <1>4 DEF Distinct, InFree
  <2> QED
    BY <1>1, <2>1, <2>2 DEF Distinct
<1>7. Placed'
  <2>1. \A t : InUsed(t)' <=> t = s \/ InUsed(t)
    BY <1>3, <1>4 DEF InUsed
  <2> QED
    BY <1>1, <1>2, <2>1 DEF Placed, InFree
<1>8. SlotsPartitioned'
  <2>1. (SlotsPartitioned <=> TypeOK /\ Distinct /\ Placed)'
    BY PartitionBySlot, PTL
  <2> QED
    BY <1>5, <1>6, <1>7, <2>1
<1>9. /\ \A d \in Child : stage'[d] = IF d = c THEN "prepared" ELSE stage[d]
      /\ \A d \in Child : shm_slot_i'[d] = IF d = c THEN len ELSE shm_slot_i[d]
      /\ \A t \in Slot : lock'[t] = IF t = s THEN 0 ELSE lock[t]
      /\ ~wild /\ ~wild' /\ probe = 0 /\ probe' = 0
      /\ \A d \in Child : stage[d] # "prepared"
  BY <1>0, <1>2 DEF TypeOK, MasterFree
<1>10. Linked'
  <2>1. \A n \in UsedIndex' : slots_used'[n].child = Stale <=> slots_used'[n].slot = 0
    BY <1>0, <1>3, <1>4, ChildAssumption DEF Linked
  <2>2. \A d \in Child : stage'[d] # "none" =>
              /\ shm_slot_i'[d] + 1 \in UsedIndex'
              /\ slots_used'[shm_slot_i'[d] + 1].child = d
    BY <1>0, <1>2, <1>3, <1>4, <1>9 DEF Linked
  <2>3. ASSUME NEW n \in UsedIndex', slots_used'[n].child # Stale
        PROVE  /\ stage'[slots_used'[n].child] # "none"
               /\ shm_slot_i'[slots_used'[n].child] = n - 1
    <3>1. CASE n = len + 1
      BY <1>3, <1>9, <3>1
    <3>2. CASE n # len + 1
      <4>1. /\ n \in UsedIndex /\ slots_used'[n] = slots_used[n]
            /\ slots_used[n].child \in Child
        BY <1>0, <1>3, <1>4, <2>3, <3>2, ItemTypes
      <4>2. slots_used[n].child # c
        BY <1>0, <1>2, <1>9, <4>1, <2>3, ZenonT(60) DEF Linked
      <4> QED
        BY <1>0, <1>9, <2>3, <4>1, <4>2 DEF Linked
    <3> QED
      BY <3>1, <3>2
  <2> QED
    BY <2>1, <2>2, <2>3 DEF Linked
<1>11. ASSUME NEW d \in Child, stage[d] # "none", d # c
       PROVE  Watched(d)' = Watched(d) /\ Watched(d) # s /\ Watched(d) \in Slot
  <2>1. /\ shm_slot_i[d] + 1 \in UsedIndex /\ Watched(d) \in Slot
        /\ Watched(d) = slots_used[shm_slot_i[d] + 1].slot
    BY <1>0, <1>9, <1>11, SlotOfChild
  <2> QED
    BY <1>3, <1>4, <1>9, <1>11, <2>1 DEF Watched, Item
<1>12. Watched(c)' = s
  BY <1>3, <1>9 DEF Watched, Item
<1>13. Preparing'
  BY <1>9, <1>12 DEF Preparing
<1>14. OwnSlots' /\ WatchesOwnSlot'
  BY <1>0, <1>2, <1>9, <1>11 DEF OwnSlots, WatchesOwnSlot
<1>15. LockHasHolder'
  BY <1>0, <1>2, <1>9, <1>11 DEF LockHasHolder, WatchesOwnSlot
<1> QED
  BY <1>8, <1>10, <1>13, <1>14, <1>15 DEF IInv

(* The item of a refused chunk has no slot and names nobody.               *)
LEMMA NoChunkIInv ==
    ASSUME IInv, NEW c \in Child, PrepareFails(c) \/ MapFails(c)
    PROVE  IInv'
<1>0. /\ TypeOK /\ Distinct /\ Placed /\ Linked /\ Preparing
      /\ OwnSlots /\ WatchesOwnSlot /\ LockHasHolder
  BY PartitionBySlot DEF IInv
<1> DEFINE len == Len(slots_used)
<1>1. /\ ~wild /\ \A d \in Child : stage[d] # "prepared"
      /\ wild' \in BOOLEAN
      /\ slots_used' = Append(slots_used, [slot |-> 0, child |-> Stale])
      /\ UNCHANGED <<slots_free, shm_slot_i, stage, mine, lock, inside, probe,
                     allocated, leaked>>
  BY <1>0 DEF PrepareFails, MapFails, NoChunk, MasterFree, TypeOK
<1>2. /\ slots_used' \in Seq(ItemType) /\ len \in Nat
      /\ slots_used'[len + 1].slot = 0 /\ slots_used'[len + 1].child = Stale
      /\ \A n \in 1 .. len : slots_used'[n] = slots_used[n]
      /\ UsedIndex = 1 .. len /\ UsedIndex' = 1 .. len + 1
  <2>1. [slot |-> 0, child |-> Stale] \in ItemType
    BY DEF ItemType
  <2> QED
    BY <1>0, <1>1, <2>1, ItemTypes, PushPopFacts DEF UsedIndex
<1> HIDE DEF len
<1>3. \A n \in UsedIndex' : n = len + 1 \/ (n \in UsedIndex /\ n # len + 1)
  BY <1>2
<1>4. TypeOK'
  BY <1>0, <1>1, <1>2 DEF TypeOK, ItemType
<1>5. Distinct'
  <2>1. \A n \in 1 .. Len(slots_free) : slots_free[n] # 0
    BY <1>0, ItemTypes
  <2>2. \A n, k \in UsedIndex' : n # k /\ slots_used'[n].slot # 0
            => slots_used'[n].slot # slots_used'[k].slot
    BY <1>0, <1>2, <1>3 DEF Distinct
  <2>3. \A n \in UsedIndex', k \in 1 .. Len(slots_free) : slots_used'[n].slot # slots_free[k]
    BY <1>0, <1>2, <1>3, <2>1 DEF Distinct
  <2> QED
    BY <1>0, <1>1, <2>2, <2>3 DEF Distinct
<1>6. Placed'
  <2>1. ASSUME NEW t \in Slot PROVE InUsed(t)' <=> InUsed(t)
    <3>1. t # 0
      BY <1>0, ItemTypes
    <3> QED
      BY <1>2, <1>3, <3>1 DEF InUsed
  <2> QED
    BY <1>0, <1>1, <2>1 DEF Placed, InFree
<1>7. SlotsPartitioned'
  <2>1. (SlotsPartitioned <=> TypeOK /\ Distinct /\ Placed)'
    BY PartitionBySlot, PTL
  <2> QED
    BY <1>4, <1>5, <1>6, <2>1
<1>8. Linked'
  <2>1. \A n \in UsedIndex' : slots_used'[n].child = Stale <=> slots_used'[n].slot = 0
    BY <1>0, <1>2, <1>3 DEF Linked
  <2>2. \A d \in Child : stage[d] # "none" =>
            /\ shm_slot_i[d] + 1 \in UsedIndex'
            /\ slots_used'[shm_slot_i[d] + 1].child = d
    <3>1. \A d \in Child : stage[d] # "none" =>
              shm_slot_i[d] + 1 \in UsedIndex /\ slots_used[shm_slot_i[d] + 1].child = d
      BY <1>0, <1>1 DEF Linked
    <3>2. \A x \in UsedIndex : x \in UsedIndex' /\ slots_used'[x] = slots_used[x]
      BY <1>2
    <3> QED
      BY <3>1, <3>2
  <2>3. \A n \in UsedIndex' : slots_used'[n].child # Stale =>
            /\ stage[slots_used'[n].child] # "none"
            /\ shm_slot_i[slots_used'[n].child] = n - 1
    BY <1>0, <1>1, <1>2, <1>3 DEF Linked
  <2> QED
    BY <1>1, <2>1, <2>2, <2>3 DEF Linked
<1>9. ASSUME NEW d \in Child, stage[d] # "none"
      PROVE  Watched(d)' = Watched(d)
  <2>1. shm_slot_i[d] + 1 \in UsedIndex
    BY <1>0, <1>1, <1>9 DEF Linked
  <2> QED
    BY <1>1, <1>2, <2>1 DEF Watched, Item
<1>10. Preparing'
  BY <1>1 DEF Preparing
<1>11. OwnSlots' /\ WatchesOwnSlot' /\ LockHasHolder'
  BY <1>0, <1>1, <1>9 DEF OwnSlots, WatchesOwnSlot, LockHasHolder
<1> QED
  BY <1>7, <1>8, <1>10, <1>11 DEF IInv

-----------------------------------------------------------------------------
(* Giving a slot back: the item that is moved into the hole takes its      *)
(* child's index along, and the slot is free or, if the push fails, lost.  *)
LEMMA DiscardIInv ==
    ASSUME IInv, ~wild, NEW c \in Child, stage[c] # "none", Discard(c),
           \A d \in Child \ {c} : stage[d] # "prepared"
    PROVE  IInv'
<1>0. /\ TypeOK /\ Distinct /\ Placed /\ Linked /\ Preparing
      /\ OwnSlots /\ WatchesOwnSlot /\ LockHasHolder
  BY PartitionBySlot DEF IInv
<1> DEFINE len  == Len(slots_used)
           n    == shm_slot_i[c]
           s    == Watched(c)
           last == slots_used[len].child
           moved == n < len - 1
<1>1. /\ n \in Nat /\ n + 1 \in 1 .. len /\ len \in Nat /\ len \in 1 .. len
      /\ UsedIndex = 1 .. len
      /\ slots_used[n + 1].slot = s /\ slots_used[n + 1].child = c
      /\ s \in Slot /\ s # 0
      /\ \A d \in Child : stage[d] # "none" /\ Watched(d) = s => d = c
  BY <1>0, SlotOfChild, ItemTypes DEF UsedIndex
<1>2. /\ \/ slots_free' = Append(slots_free, s) /\ leaked' = leaked
         \/ slots_free' = slots_free /\ leaked' = leaked \cup {s}
      /\ slots_used' = RemoveItem(slots_used, n)
      /\ shm_slot_i' = IF moved /\ last \in Child
                       THEN [shm_slot_i EXCEPT ![last] = n] ELSE shm_slot_i
      /\ wild' = (moved /\ last = Stale)
      /\ stage' = [stage EXCEPT ![c] = "none"]
      /\ mine' = [mine EXCEPT ![c] = 0]
      /\ inside' = [inside EXCEPT ![c] = FALSE]
      /\ UNCHANGED <<lock, probe, allocated>>
  BY DEF Discard, Watched
<1>3. /\ slots_used' \in Seq(ItemType) /\ UsedIndex' = 1 .. len - 1
      /\ \A k \in 1 .. len - 1 :
            slots_used'[k] = IF k = n + 1 THEN slots_used[len] ELSE slots_used[k]
  BY <1>0, <1>1, <1>2, ItemTypes, RemoveItemFacts, SMTT(30) DEF UsedIndex
<1>4. /\ last \in Child \cup {Stale}
      /\ \A k \in 1 .. len : k # n + 1 => slots_used[k].slot # s
  BY <1>0, <1>1, ItemTypes DEF Distinct
<1>5. /\ \A d \in Child : stage'[d] = IF d = c THEN "none" ELSE stage[d]
      /\ \A d \in Child : mine'[d] = IF d = c THEN 0 ELSE mine[d]
      /\ \A d \in Child : inside'[d] = IF d = c THEN FALSE ELSE inside[d]
      /\ \A d \in Child :
            shm_slot_i'[d] = IF moved /\ last = d THEN n ELSE shm_slot_i[d]
  BY <1>0, <1>2 DEF TypeOK
<1> HIDE DEF len, n, s, last, moved
(* the slot that leaves slots_used is the child's, and no other does       *)
<1>6. \A t \in Slot : InUsed(t) <=> t = s \/ InUsed(t)'
  <2>1. ASSUME NEW t \in Slot, InUsed(t), t # s PROVE InUsed(t)'
    <3>1. PICK k \in 1 .. len : slots_used[k].slot = t
      BY <1>1, <2>1 DEF InUsed
    <3>2. k # n + 1
      BY <1>1, <2>1, <3>1
    <3>3. CASE k = len
      BY <1>1, <1>3, <3>1, <3>2, <3>3 DEF InUsed
    <3>4. CASE k # len
      BY <1>1, <1>3, <3>1, <3>2, <3>4 DEF InUsed
    <3> QED
      BY <3>3, <3>4
  <2>2. ASSUME NEW t \in Slot, InUsed(t)' PROVE InUsed(t)
    BY <1>1, <1>3, <2>2 DEF InUsed
  <2>3. InUsed(s)
    BY <1>1 DEF InUsed
  <2> QED
    BY <1>1, <2>1, <2>2, <2>3
<1>7. \A k \in UsedIndex' : slots_used'[k].slot # s
  BY <1>1, <1>3, <1>4
<1>8. /\ slots_free' \in Seq(Slot)
      /\ \A t \in Slot : InFree(t)' \/ t \in leaked' <=> t = s \/ InFree(t) \/ t \in leaked
      /\ \A k, j \in 1 .. Len(slots_free') : k # j => slots_free'[k] # slots_free'[j]
      /\ \A k \in 1 .. Len(slots_free') : slots_free'[k] = s \/ InFree(slots_free'[k])
      /\ leaked' \subseteq Slot
  <2>1. CASE slots_free' = Append(slots_free, s) /\ leaked' = leaked
    <3>1. /\ slots_free' \in Seq(Slot) /\ Len(slots_free') = Len(slots_free) + 1
          /\ slots_free'[Len(slots_free) + 1] = s
          /\ \A k \in 1 .. Len(slots_free) : slots_free'[k] = slots_free[k]
          /\ Len(slots_free) \in Nat
      BY <1>0, <1>1, <2>1, ItemTypes, PushPopFacts
    <3>2. \A k \in 1 .. Len(slots_free) : slots_free[k] # s
      BY <1>0, <1>1 DEF Distinct
    <3>3. \A k \in 1 .. Len(slots_free') : k \in 1 .. Len(slots_free) \/ k = Len(slots_free) + 1
      BY <3>1
    <3>4. ASSUME NEW t \in Slot PROVE InFree(t)' <=> t = s \/ InFree(t)
      BY <3>1, <3>3 DEF InFree
    <3>5. \A k, j \in 1 .. Len(slots_free') : k # j => slots_free'[k] # slots_free'[j]
      BY <1>0, <3>1, <3>2, <3>3 DEF Distinct
    <3>6. \A k \in 1 .. Len(slots_free') : slots_free'[k] = s \/ InFree(slots_free'[k])
      BY <3>1, <3>3 DEF InFree
    <3> QED
      BY <1>0, <2>1, <3>1, <3>4, <3>5, <3>6 DEF TypeOK
  <2>2. CASE slots_free' = slots_free /\ leaked' = leaked \cup {s}
    BY <1>0, <1>1, <2>2 DEF InFree, Distinct, TypeOK
  <2> QED
    BY <1>2, <2>1, <2>2
<1>9. TypeOK'
  <2>1. /\ stage' \in [Child -> {"none", "prepared", "running", "dead"}]
        /\ mine' \in [Child -> Slot \cup {0}] /\ inside' \in [Child -> BOOLEAN]
    BY <1>0, <1>2 DEF TypeOK
  <2>2. shm_slot_i' \in [Child -> Nat] /\ wild' \in BOOLEAN
    BY <1>0, <1>1, <1>2 DEF TypeOK
  <2> QED
    BY <1>0, <1>2, <1>3, <1>8, <2>1, <2>2 DEF TypeOK, ItemType
<1>10. Distinct'
  <2>1. \A k, j \in UsedIndex' : k # j /\ slots_used'[k].slot # 0
            => slots_used'[k].slot # slots_used'[j].slot
    BY <1>0, <1>1, <1>3 DEF Distinct
  <2>2. \A k \in UsedIndex' : \E j \in UsedIndex : slots_used'[k] = slots_used[j]
    BY <1>1, <1>3
  <2>3. \A k \in UsedIndex', j \in 1 .. Len(slots_free') : slots_used'[k].slot # slots_free'[j]
    BY <1>0, <1>7, <1>8, <2>2 DEF Distinct, InFree
  <2> QED
    BY <1>8, <2>1, <2>3 DEF Distinct
<1>11. Placed'
  BY <1>0, <1>2, <1>6, <1>8 DEF Placed
<1>12. SlotsPartitioned'
  <2>1. (SlotsPartitioned <=> TypeOK /\ Distinct /\ Placed)'
    BY PartitionBySlot, PTL
  <2> QED
    BY <1>9, <1>10, <1>11, <2>1
(* where the item of another child is afterwards                           *)
<1>13. ASSUME ~wild', NEW d \in Child, d # c, stage[d] # "none"
       PROVE  /\ shm_slot_i'[d] + 1 \in UsedIndex'
              /\ slots_used'[shm_slot_i'[d] + 1] = slots_used[shm_slot_i[d] + 1]
              /\ slots_used[shm_slot_i[d] + 1].child = d
  <2>1. /\ shm_slot_i[d] \in Nat /\ shm_slot_i[d] + 1 \in 1 .. len
        /\ slots_used[shm_slot_i[d] + 1].child = d
    BY <1>0, <1>1, <1>13 DEF Linked, TypeOK
  <2>2. shm_slot_i[d] + 1 # n + 1
    BY <1>1, <1>13, <2>1
  <2>3. CASE shm_slot_i[d] + 1 = len
    <3>1. last = d /\ moved
      BY <1>1, <2>1, <2>2, <2>3 DEF last, moved
    <3> QED
      BY <1>1, <1>3, <1>5, <2>1, <2>2, <2>3, <3>1
  <2>4. CASE shm_slot_i[d] + 1 # len
    <3>1. ~(moved /\ last = d)
      <4>1. last = d => shm_slot_i[d] = len - 1
        BY <1>0, <1>1, ChildAssumption DEF Linked, last
      <4> QED
        BY <1>1, <2>1, <2>4, <4>1
    <3> QED
      BY <1>1, <1>3, <1>5, <2>1, <2>2, <2>4, <3>1
  <2> QED
    BY <2>3, <2>4
<1>14. Linked'
  <2>1. \A k \in UsedIndex' : slots_used'[k].child = Stale <=> slots_used'[k].slot = 0
    BY <1>0, <1>1, <1>3 DEF Linked
  <2>2. ASSUME ~wild', NEW d \in Child, stage'[d] # "none"
        PROVE  /\ shm_slot_i'[d] + 1 \in UsedIndex'
               /\ slots_used'[shm_slot_i'[d] + 1].child = d
    BY <1>5, <1>13, <2>2
  <2>3. ASSUME ~wild', NEW k \in UsedIndex', slots_used'[k].child # Stale
        PROVE  /\ stage'[slots_used'[k].child] # "none"
               /\ shm_slot_i'[slots_used'[k].child] = k - 1
    <3> DEFINE d == slots_used'[k].child
    <3>1. PICK j \in 1 .. len :
            /\ slots_used'[k] = slots_used[j] /\ j # n + 1
            /\ IF k = n + 1 THEN j = len ELSE j = k
      BY <1>1, <1>3
    <3>2. d \in Child /\ stage[d] # "none" /\ shm_slot_i[d] = j - 1
      BY <1>0, <1>1, <2>3, <3>1, ItemTypes DEF Linked
    <3>3. d # c
      BY <1>1, <3>1, <3>2 DEF n
    <3>4. shm_slot_i'[d] = k - 1
      <4>1. CASE k = n + 1
        <5>1. moved /\ last = d
          BY <1>1, <1>3, <3>1, <4>1 DEF moved, last
        <5> QED
          BY <1>1, <1>5, <3>2, <4>1, <5>1
      <4>2. CASE k # n + 1
        <5>1. j # len
          BY <1>1, <1>3, <3>1, <4>2
        <5>2. last # d
          BY <1>0, <1>1, <3>1, <3>2, <5>1, ChildAssumption DEF Linked, last
        <5> QED
          BY <1>1, <1>5, <3>1, <3>2, <4>2, <5>2
      <4> QED
        BY <4>1, <4>2
    <3> QED
      BY <1>5, <3>2, <3>3, <3>4
  <2> QED
    BY <2>1, <2>2, <2>3 DEF Linked
<1>15. Preparing'
  BY <1>5 DEF Preparing
<1>16. OwnSlots'
  BY <1>0, <1>5 DEF OwnSlots
<1>17. WatchesOwnSlot'
  <2>1. ASSUME ~wild', NEW d \in Child, d # c, stage[d] # "none"
        PROVE  Watched(d)' = Watched(d)
    BY <1>13, <2>1 DEF Watched, Item
  <2> QED
    BY <1>0, <1>5, <2>1 DEF WatchesOwnSlot
<1>18. LockHasHolder'
  BY <1>0, <1>2, <1>5 DEF LockHasHolder
<1> QED
  BY <1>12, <1>14, <1>15, <1>16, <1>17, <1>18 DEF IInv

-----------------------------------------------------------------------------
(* fork(): the worker's slot is the one prepared for it, and it is free.   *)
LEMMA ForkIInv ==
    ASSUME IInv, NEW c \in Child, Fork(c)
    PROVE  IInv'
<1>0. /\ TypeOK /\ Distinct /\ Placed /\ Linked /\ Preparing
      /\ OwnSlots /\ WatchesOwnSlot /\ LockHasHolder
  BY PartitionBySlot DEF IInv
<1>1. /\ stage[c] = "prepared" /\ ~wild
      /\ stage' = [stage EXCEPT ![c] = "running"]
      /\ mine' = [mine EXCEPT ![c] = Watched(c)]
      /\ UNCHANGED <<slots_used, slots_free, shm_slot_i, lock, inside, probe,
                     allocated, leaked, wild>>
  BY <1>0 DEF Fork, Watched, arrays, Preparing
<1>2. /\ Watched(c) \in Slot /\ Watched(c) # 0 /\ lock[Watched(c)] = 0
      /\ \A d \in Child : stage[d] # "none" /\ Watched(d) = Watched(c) => d = c
  BY <1>0, <1>1, SlotOfChild, ItemTypes DEF Preparing
<1>3. /\ \A d \in Child : stage'[d] = IF d = c THEN "running" ELSE stage[d]
      /\ \A d \in Child : mine'[d] = IF d = c THEN Watched(c) ELSE mine[d]
      /\ \A d \in Child : Watched(d)' = Watched(d)
  BY <1>0, <1>1 DEF TypeOK, Watched, Item
<1>4. TypeOK'
  BY <1>0, <1>1, <1>2 DEF TypeOK
<1>5. SlotsPartitioned'
  BY <1>1, <1>4 DEF IInv, SlotsPartitioned
<1>6. Linked'
  <2>1. \A d \in Child : stage'[d] = "none" <=> stage[d] = "none"
    BY <1>1, <1>3
  <2>2. \A k \in UsedIndex : slots_used[k].child \in Child \cup {Stale}
    BY <1>0, ItemTypes
  <2> QED
    BY <1>0, <1>1, <2>1, <2>2 DEF Linked, UsedIndex
<1>7. Preparing'
  BY <1>0, <1>1, <1>3 DEF Preparing
<1>8. OwnSlots' /\ WatchesOwnSlot' /\ LockHasHolder'
  BY <1>0, <1>1, <1>2, <1>3 DEF OwnSlots, WatchesOwnSlot, LockHasHolder
<1> QED
  BY <1>5, <1>6, <1>7, <1>8 DEF IInv

-----------------------------------------------------------------------------
(* Every step keeps the invariant: one case for each action.               *)
LEMMA StepIInv == IInv /\ [Next]_vars => IInv'
<1> SUFFICES ASSUME IInv, [Next]_vars PROVE IInv'
  OBVIOUS
<1>1. ASSUME NEW c \in Child, ForkFails(c) \/ Bury(c) PROVE IInv'
  <2>1. ~wild /\ stage[c] # "none" /\ Discard(c)
    BY <1>1 DEF ForkFails, Bury, MasterFree, IInv, Preparing
  <2>2. \A d \in Child \ {c} : stage[d] # "prepared"
    BY <1>1 DEF ForkFails, Bury, MasterFree, IInv, Preparing
  <2> QED
    BY <2>1, <2>2, DiscardIInv
<1>2. CASE Undefined \/ UNCHANGED vars
  <2>1. UNCHANGED vars
    BY <1>2 DEF Undefined
  <2> QED
    BY <2>1 DEF vars, arrays, IInv, SlotsPartitioned, TypeOK, Linked, UsedIndex,
       Preparing, OwnSlots, WatchesOwnSlot, LockHasHolder, Watched, Item
<1> QED
  BY <1>1, <1>2, TakeIInv, NoChunkIInv, ForkIInv, LockIInv DEF Next

(* The invariant is one of the specification.                              *)
LEMMA Inductive == Spec => []IInv
<1> QED
  BY InitIInv, StepIInv, PTL DEF Spec

-----------------------------------------------------------------------------
(* The results.                                                            *)

(* No slot is in two places, or in none but for a push that failed, and    *)
(* every variable has its type.                                            *)
THEOREM Partition == Spec => []SlotsPartitioned
<1>1. IInv => SlotsPartitioned
  BY DEF IInv
<1> QED
  BY <1>1, Inductive, PTL

(* The slot the master judges a child by is the one its worker writes,     *)
(* whatever children came, went and were moved since its fork, until a     *)
(* write through a pointer to nothing.                                     *)
THEOREM SameSlot == Spec => []WatchesOwnSlot
<1>1. IInv => WatchesOwnSlot
  BY DEF IInv
<1> QED
  BY <1>1, Inductive, PTL

(* A running worker that finds its lock taken has taken it itself, or the  *)
(* master is copying that slot: no predecessor has left it locked.         *)
THEOREM HeldByTheLiving == Spec => []LockHasHolder
<1>1. IInv => LockHasHolder
  BY DEF IInv
<1> QED
  BY <1>1, Inductive, PTL
=============================================================================
