-------------------------- MODULE EmergencyRestart --------------------------
(***************************************************************************)
(* The emergency restart of fpm/fpm_children.c: a ring of the times of the *)
(* last faults (children killed by SIGSEGV or SIGBUS) decides when the     *)
(* master reloads itself.  FpmMaster leaves that decision open.            *)
(*                                                                         *)
(* RestartAtInterval and NextSlotShort are the code with a slip in it; no  *)
(* specification uses them.                                                *)
(***************************************************************************)
EXTENDS Integers, Sequences

CONSTANTS
    Threshold,   \* emergency_restart_threshold
    Interval,    \* emergency_restart_interval, seconds
    Boot,        \* the clock when the master starts: seconds since boot
    MaxClock,    \* bound: how long the clock runs
    MaxFaults    \* bound: how many faults one image sees

(* fpm_children_init_main keeps the ring only if both settings are on.     *)
ASSUME SettingAssumption == Threshold \in Nat \ {0} /\ Interval \in Nat \ {0}
ASSUME ClockAssumption   == Boot \in Nat /\ MaxClock \in Nat /\ MaxFaults \in Nat

VARIABLES
    clock,        \* fpm_clock_get, whole seconds
    last_faults,  \* the ring, indexed from 0 as in C
    fault,        \* the slot the next fault overwrites
    fpm_state,    \* "NORMAL" or "RELOADING"
    times         \* history: when the faults of this image happened

vars == <<clock, last_faults, fault, fpm_state, times>>

Slots == 0 .. Threshold - 1

(* fpm_children_init_main, in a new image: the ring is zeroed by memset    *)
Fresh == [i \in Slots |-> 0]

Init ==
    /\ clock = Boot
    /\ last_faults = Fresh
    /\ fault = 0
    /\ fpm_state = "NORMAL"
    /\ times = <<>>

Tick ==
    /\ clock < MaxClock
    /\ clock' = clock + 1
    /\ UNCHANGED <<last_faults, fault, fpm_state, times>>

RestartAtInterval(now, ring) == \A i \in Slots : ~(now - ring[i] >= Interval)
RestartCondition(now, ring)  == \A i \in Slots : ~(now - ring[i] > Interval)

NextSlotShort(f) == IF f + 2 = Threshold THEN 0 ELSE f + 1
NextSlot(f)      == IF f + 1 = Threshold THEN 0 ELSE f + 1

(* The part of fpm_children_bury that follows a fault.  fpm_pctl ignores   *)
(* the request when a reload is already in progress.                       *)
Fault ==
    /\ Len(times) < MaxFaults
    /\ last_faults' = [last_faults EXCEPT ![fault] = clock]
    /\ fault' = NextSlot(fault)
    /\ fpm_state' = IF RestartCondition(clock, last_faults')
                    THEN "RELOADING" ELSE fpm_state
    /\ times' = Append(times, clock)
    /\ UNCHANGED clock

(* The reload replaces the image.                                          *)
Exec ==
    /\ fpm_state = "RELOADING"
    /\ last_faults' = Fresh
    /\ fault' = 0
    /\ fpm_state' = "NORMAL"
    /\ times' = <<>>
    /\ UNCHANGED clock

(* The bounds are spent.                                                   *)
Over == clock = MaxClock /\ Len(times) = MaxFaults /\ fpm_state = "NORMAL"
        /\ UNCHANGED vars

Next == Tick \/ Fault \/ Exec \/ Over

Spec == Init /\ [][Next]_vars

-----------------------------------------------------------------------------
(* The type of every variable.                                             *)
TypeOK ==
    /\ clock \in Nat
    /\ last_faults \in [Slots -> Nat]
    /\ fault \in Slots
    /\ fpm_state \in {"NORMAL", "RELOADING"}
    /\ times \in Seq(Nat)

(* Reading the ring backwards from the slot to be overwritten gives the    *)
(* last Threshold faults, newest first, and 0 where there were none: the   *)
(* wrap-around of fault never skips or keeps a slot too long.  Types       *)
(* included.                                                               *)
RingIsHistory ==
    /\ TypeOK
    /\ \A k \in 1 .. Threshold :
          last_faults[(fault + Threshold - k) % Threshold] =
              IF k <= Len(times) THEN times[Len(times) - k + 1] ELSE 0

(* Threshold faults of this image lie in the last Interval seconds, as     *)
(* whole seconds are counted and the bound included.                       *)
Enough(ts, now) ==
    /\ Len(ts) >= Threshold
    /\ now - ts[Len(ts) - Threshold + 1] <= Interval

(* A fault starts a reload exactly when it is the last of Threshold faults *)
(* of which the first is no more than Interval seconds old, on a host that *)
(* has been up for longer.  At exactly Interval the code reloads, although *)
(* conf/php-fpm.conf.in:20 has "in a less than this interval of time".     *)
RestartExactly ==
    [][fpm_state = "NORMAL" /\ times' # times =>
          (fpm_state' = "RELOADING" <=> Enough(times', clock))]_vars

(* conf/php-fpm.conf.in:17-21: a graceful restart needs "this amount of    *)
(* php processes exited with SIGSEGV or SIGBUS".                           *)
RestartOnlyAtThreshold ==
    fpm_state = "RELOADING" => Len(times) >= Threshold
=============================================================================
