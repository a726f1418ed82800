----------------------- MODULE EmergencyRestartProofs -----------------------
(***************************************************************************)
(* Proofs about EmergencyRestart, for every threshold, every interval and  *)
(* any number of faults.                                                   *)
(***************************************************************************)
EXTENDS EmergencyRestart, TLAPS

(* The slot written k faults ago, when f is the next to be written         *)
Back(f, k) == IF k <= f THEN f - k ELSE f + Threshold - k

(* The modulus of RingIsHistory is that slot, ...                          *)
LEMMA BackIsModulus ==
    ASSUME NEW f \in Slots, NEW k \in 1 .. Threshold
    PROVE  /\ (f + Threshold - k) % Threshold = Back(f, k)
           /\ Back(f, k) \in Slots
<1>1. Back(f, k) \in Slots
  BY SettingAssumption DEF Back, Slots
<1>2. CASE k <= f
  <2>1. f + Threshold - k = Threshold + (f - k) /\ f - k \in 0 .. Threshold - 1
    BY <1>2, SettingAssumption DEF Slots
  <2>2. \A r \in 0 .. Threshold - 1 : (Threshold + r) % Threshold = r
    BY SettingAssumption, SMTT(30)
  <2> QED
    BY <1>1, <1>2, <2>1, <2>2 DEF Back
<1>3. CASE ~(k <= f)
  <2>1. f + Threshold - k \in 0 .. Threshold - 1
    BY <1>3, SettingAssumption DEF Slots
  <2>2. \A r \in 0 .. Threshold - 1 : r % Threshold = r
    BY SettingAssumption, SMTT(30)
  <2> QED
    BY <1>1, <1>3, <2>1, <2>2 DEF Back
<1> QED
  BY <1>2, <1>3, <1>1

(* ... every slot is reached that way, ...                                 *)
LEMMA BackCovers ==
    ASSUME NEW f \in Slots, NEW i \in Slots
    PROVE  \E k \in 1 .. Threshold : Back(f, k) = i
<1> DEFINE k == IF i < f THEN f - i ELSE f + Threshold - i
<1>1. k \in 1 .. Threshold /\ Back(f, k) = i
  BY SettingAssumption DEF Slots, Back
<1> QED
  BY <1>1

(* ... and the next fault moves every one of them one step back, whether   *)
(* or not the ring wraps around.                                           *)
LEMMA BackOfNext ==
    ASSUME NEW f \in Slots, NEW k \in 1 .. Threshold
    PROVE  /\ NextSlot(f) \in Slots
           /\ k = 1 => Back(NextSlot(f), k) = f
           /\ k # 1 => /\ k - 1 \in 1 .. Threshold
                       /\ Back(NextSlot(f), k) = Back(f, k - 1)
                       /\ Back(f, k - 1) # f
  BY SettingAssumption DEF Slots, Back, NextSlot

-----------------------------------------------------------------------------
(* RingIsHistory, with the slot named instead of computed.                 *)
History ==
    \A k \in 1 .. Threshold :
        last_faults[Back(fault, k)] =
            IF k <= Len(times) THEN times[Len(times) - k + 1] ELSE 0

(* The history is in the order of the clock, which only goes forward.      *)
Ordered ==
    /\ clock >= Boot
    /\ \A j \in 1 .. Len(times) :
          /\ times[j] <= clock
          /\ \A i \in 1 .. j : times[i] <= times[j]

IInv == TypeOK /\ History /\ Ordered

(* The ring is the history either way.                                     *)
LEMMA HistoryOfRing == TypeOK => (RingIsHistory <=> History)
  BY BackIsModulus DEF RingIsHistory, History, TypeOK

(* The invariant holds initially.                                          *)
LEMMA InitIInv == Init => IInv
<1> SUFFICES ASSUME Init PROVE IInv
  OBVIOUS
<1>1. Fresh \in [Slots -> Nat] /\ 0 \in Slots
  BY SettingAssumption DEF Fresh, Slots
<1>2. TypeOK
  BY <1>1, ClockAssumption DEF Init, TypeOK
<1>3. History
  BY <1>1, BackIsModulus DEF Init, History, Fresh
<1>4. Ordered
  BY ClockAssumption DEF Init, Ordered
<1> QED
  BY <1>2, <1>3, <1>4 DEF IInv

(* A fault becomes the newest of the history and all others grow older.    *)
LEMMA FaultIInv == IInv /\ Fault => IInv'
<1> SUFFICES ASSUME IInv, Fault PROVE IInv'
  OBVIOUS
<1>0. TypeOK /\ History /\ Ordered
  BY DEF IInv
<1>1. /\ last_faults' = [last_faults EXCEPT ![fault] = clock]
      /\ fault' = NextSlot(fault) /\ clock' = clock
      /\ times' = Append(times, clock)
      /\ fpm_state' \in {"NORMAL", "RELOADING"}
  BY <1>0 DEF Fault, TypeOK
<1>2. /\ Len(times) \in Nat /\ Len(times') = Len(times) + 1
      /\ times'[Len(times) + 1] = clock
      /\ \A j \in 1 .. Len(times) : times'[j] = times[j]
      /\ times' \in Seq(Nat)
  BY <1>0, <1>1 DEF TypeOK
<1>3. TypeOK'
  BY <1>0, <1>1, <1>2, BackOfNext, SettingAssumption, SMTT(30) DEF TypeOK, Slots, NextSlot
<1>4. ASSUME NEW k \in 1 .. Threshold
      PROVE  last_faults'[Back(fault', k)] =
                 IF k <= Len(times') THEN times'[Len(times') - k + 1] ELSE 0
  <2>1. CASE k = 1
    BY <1>0, <1>1, <1>2, <2>1, BackOfNext DEF TypeOK
  <2>2. CASE k # 1
    <3>1. /\ Back(fault', k) = Back(fault, k - 1) /\ Back(fault, k - 1) # fault
          /\ k - 1 \in 1 .. Threshold
      BY <1>0, <1>1, <2>2, BackOfNext DEF TypeOK
    <3>2. Back(fault, k - 1) \in Slots
      BY <1>0, <3>1, BackIsModulus DEF TypeOK
    <3>3. last_faults'[Back(fault', k)] = last_faults[Back(fault, k - 1)]
      BY <1>0, <1>1, <3>1, <3>2 DEF TypeOK
    <3>4. last_faults[Back(fault, k - 1)] =
             IF k - 1 <= Len(times) THEN times[Len(times) - (k - 1) + 1] ELSE 0
      BY <1>0, <3>1 DEF History
    <3>5. k \in Nat /\ k >= 2
      BY <2>2
    <3>6. CASE k - 1 <= Len(times)
      <4>1. /\ Len(times) - (k - 1) + 1 \in 1 .. Len(times)
            /\ Len(times) - (k - 1) + 1 = Len(times') - k + 1
            /\ k <= Len(times')
        BY <1>2, <3>5, <3>6
      <4>2. times'[Len(times) - (k - 1) + 1] = times[Len(times) - (k - 1) + 1]
        BY <1>2, <4>1
      <4>3. times'[Len(times') - k + 1] = times[Len(times) - (k - 1) + 1]
        BY <4>1, <4>2
      <4> QED
        BY <3>3, <3>4, <3>6, <4>1, <4>3
    <3>7. CASE ~(k - 1 <= Len(times))
      BY <1>2, <3>3, <3>4, <3>5, <3>7
    <3> QED
      BY <3>6, <3>7
  <2> QED
    BY <2>1, <2>2
<1>5. History'
  BY <1>4 DEF History
<1>6. Ordered'
  <2>1. \A j \in 1 .. Len(times) : times'[j] <= clock /\ \A i \in 1 .. j : times'[i] <= times'[j]
    <3> SUFFICES ASSUME NEW j \in 1 .. Len(times)
                 PROVE  times'[j] <= clock /\ \A i \in 1 .. j : times'[i] <= times'[j]
      OBVIOUS
    <3>1. \A i \in 1 .. j : i \in 1 .. Len(times)
      BY <1>2
    <3> QED
      BY <1>0, <1>2, <3>1 DEF Ordered
  <2>2. \A i \in 1 .. Len(times) + 1 : times'[i] <= clock
    <3>1. \A i \in 1 .. Len(times) + 1 : i \in 1 .. Len(times) \/ i = Len(times) + 1
      BY <1>2
    <3> QED
      BY <1>0, <1>2, <2>1, <3>1 DEF TypeOK
  <2>3. \A j \in 1 .. Len(times) + 1 : \A i \in 1 .. j : times'[i] <= times'[j]
    <3> SUFFICES ASSUME NEW j \in 1 .. Len(times) + 1, NEW i \in 1 .. j
                 PROVE  times'[i] <= times'[j]
      OBVIOUS
    <3>1. CASE j = Len(times) + 1
      BY <1>2, <2>2, <3>1
    <3>2. CASE j # Len(times) + 1
      <4>1. j \in 1 .. Len(times)
        BY <1>2, <3>2
      <4> QED
        BY <2>1, <4>1
    <3> QED
      BY <3>1, <3>2
  <2> QED
    BY <1>0, <1>1, <1>2, <2>2, <2>3 DEF Ordered
<1> QED
  BY <1>3, <1>5, <1>6 DEF IInv

(* One case for each action.                                               *)
LEMMA StepIInv == IInv /\ [Next]_vars => IInv'
<1> SUFFICES ASSUME IInv, [Next]_vars PROVE IInv'
  OBVIOUS
<1>0. TypeOK /\ History /\ Ordered
  BY DEF IInv
<1>1. CASE Tick
  BY <1>0, <1>1, ClockAssumption DEF Tick, IInv, TypeOK, History, Ordered
<1>2. CASE Exec
  <2>1. /\ last_faults' = Fresh /\ fault' = 0 /\ times' = <<>> /\ clock' = clock
        /\ fpm_state' = "NORMAL"
    BY <1>2 DEF Exec
  <2>2. Fresh \in [Slots -> Nat] /\ 0 \in Slots
    BY SettingAssumption DEF Fresh, Slots
  <2>3. History'
    BY <2>1, <2>2, BackIsModulus DEF History, Fresh
  <2>4. TypeOK' /\ Ordered'
    BY <1>0, <2>1, <2>2 DEF TypeOK, Ordered
  <2> QED
    BY <2>3, <2>4 DEF IInv
<1>3. CASE UNCHANGED vars
  BY <1>0, <1>3 DEF vars, IInv, TypeOK, History, Ordered
<1> QED
  BY <1>1, <1>2, <1>3, FaultIInv DEF Next, Over

(* The invariant is one of the specification.                              *)
LEMMA Inductive == Spec => []IInv
<1> QED
  BY InitIInv, StepIInv, PTL DEF Spec

(* Read backwards from the slot to be overwritten, the ring is the history *)
(* of the faults of this image, however often it has wrapped around.       *)
THEOREM RingHoldsHistory == Spec => []RingIsHistory
<1>1. IInv => RingIsHistory
  BY HistoryOfRing DEF IInv
<1> QED
  BY <1>1, Inductive, PTL

-----------------------------------------------------------------------------
(* What restart_condition finds in the ring is what the history says, once *)
(* the zeros of a fresh ring are further back than the interval.           *)
LEMMA ConditionIsEnough ==
    ASSUME IInv, Boot > Interval
    PROVE  RestartCondition(clock, last_faults) <=> Enough(times, clock)
<1>0. TypeOK /\ History /\ Ordered
  BY DEF IInv
<1>1. /\ Threshold \in Nat \ {0} /\ Interval \in Nat \ {0} /\ clock \in Nat
      /\ Len(times) \in Nat /\ clock > Interval
      /\ \A j \in 1 .. Len(times) : times[j] \in Nat
      /\ \A i \in Slots : last_faults[i] \in Nat
  BY <1>0, SettingAssumption, ClockAssumption DEF TypeOK, Ordered
<1>2. ASSUME RestartCondition(clock, last_faults) PROVE Enough(times, clock)
  <2>1. Threshold \in 1 .. Threshold
    BY <1>1
  <2>2. Back(fault, Threshold) \in Slots
    BY <1>0, <2>1, BackIsModulus DEF TypeOK
  <2>3. ~(clock - last_faults[Back(fault, Threshold)] > Interval)
    BY <1>2, <2>2 DEF RestartCondition
  <2>4. last_faults[Back(fault, Threshold)] =
           IF Threshold <= Len(times) THEN times[Len(times) - Threshold + 1] ELSE 0
    BY <1>0, <2>1 DEF History
  <2>5. Threshold <= Len(times)
    BY <1>1, <2>3, <2>4
  <2>6. Len(times) - Threshold + 1 \in 1 .. Len(times)
    BY <1>1, <2>5
  <2> QED
    BY <1>1, <2>3, <2>4, <2>5, <2>6 DEF Enough
<1>3. ASSUME Enough(times, clock) PROVE RestartCondition(clock, last_faults)
  <2>1. ASSUME NEW i \in Slots PROVE ~(clock - last_faults[i] > Interval)
    <3>1. PICK k \in 1 .. Threshold : Back(fault, k) = i
      BY <1>0, BackCovers DEF TypeOK
    <3>2. Len(times) >= Threshold /\ k \in Nat /\ 1 <= k /\ k <= Threshold
      BY <1>1, <1>3 DEF Enough
    <3>3. last_faults[i] = times[Len(times) - k + 1]
      BY <1>0, <1>1, <3>1, <3>2 DEF History
    <3>4. /\ Len(times) - k + 1 \in 1 .. Len(times)
          /\ Len(times) - Threshold + 1 \in 1 .. Len(times) - k + 1
      BY <1>1, <3>2
    <3>5. times[Len(times) - Threshold + 1] <= times[Len(times) - k + 1]
      BY <1>0, <3>4 DEF Ordered
    <3>6. Len(times) - Threshold + 1 \in 1 .. Len(times)
      BY <1>1, <3>2
    <3> QED
      BY <1>1, <1>3, <3>3, <3>4, <3>5, <3>6 DEF Enough
  <2> QED
    BY <2>1 DEF RestartCondition
<1> QED
  BY <1>2, <1>3

(* On a host that has been up for longer than the interval, a fault starts *)
(* a reload exactly when it is the last of Threshold faults within the     *)
(* interval; emergency_early shows the hypothesis is needed.               *)
THEOREM ReloadsExactly == Boot > Interval => (Spec => RestartExactly)
<1> DEFINE Exactly ==
        fpm_state = "NORMAL" /\ times' # times =>
            (fpm_state' = "RELOADING" <=> Enough(times', clock))
<1> SUFFICES ASSUME Boot > Interval PROVE Spec => RestartExactly
  OBVIOUS
<1>1. (IInv => (RestartCondition(clock, last_faults) <=> Enough(times, clock)))'
  BY ConditionIsEnough, PTL
<1>2. IInv /\ IInv' /\ [Next]_vars => [Exactly]_vars
  <2> SUFFICES ASSUME IInv, IInv', [Next]_vars, fpm_state = "NORMAL", times' # times
               PROVE  fpm_state' = "RELOADING" <=> Enough(times', clock)
    OBVIOUS
  <2>1. Fault
    BY DEF Next, Tick, Exec, Over, vars
  <2>2. clock' = clock /\ (fpm_state' = "RELOADING" <=> RestartCondition(clock, last_faults'))
    BY <2>1 DEF Fault
  <2> QED
    BY <1>1, <2>2 DEF RestartCondition, Enough
<1> QED
  BY <1>2, Inductive, PTL DEF Spec, RestartExactly

(* On such a host the promise that emergency_early refutes is kept: no     *)
(* reload before Threshold faults.                                         *)
THEOREM NoReloadBefore == Boot > Interval => (Spec => []RestartOnlyAtThreshold)
<1> SUFFICES ASSUME Boot > Interval PROVE Spec => []RestartOnlyAtThreshold
  OBVIOUS
<1>1. (IInv => (RestartCondition(clock, last_faults) <=> Enough(times, clock)))'
  BY ConditionIsEnough, PTL
<1>2. Init => RestartOnlyAtThreshold
  BY DEF Init, RestartOnlyAtThreshold
<1>3. IInv /\ IInv' /\ RestartOnlyAtThreshold /\ [Next]_vars => RestartOnlyAtThreshold'
  <2> SUFFICES ASSUME IInv, IInv', RestartOnlyAtThreshold, [Next]_vars
               PROVE  RestartOnlyAtThreshold'
    OBVIOUS
  <2>1. CASE Fault
    <3>1. Len(times') = Len(times) + 1 /\ Len(times) \in Nat
      BY <2>1 DEF Fault, IInv, TypeOK
    <3>2. RestartCondition(clock, last_faults') => Len(times') >= Threshold
      BY <1>1, <2>1 DEF Fault, RestartCondition, Enough
    <3> QED
      BY <2>1, <3>1, <3>2, SettingAssumption DEF Fault, RestartOnlyAtThreshold
  <2>2. CASE Exec
    BY <2>2 DEF Exec, RestartOnlyAtThreshold
  <2>3. CASE UNCHANGED <<fpm_state, times>>
    BY <2>3 DEF RestartOnlyAtThreshold
  <2> QED
    BY <2>1, <2>2, <2>3 DEF Next, Tick, Over, vars
<1> QED
  BY <1>2, <1>3, Inductive, PTL DEF Spec

=============================================================================
