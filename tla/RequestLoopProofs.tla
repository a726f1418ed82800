-------------------------- MODULE RequestLoopProofs --------------------------
(***************************************************************************)
(* Proofs about RequestLoop, for every timeout, every max_requests, kept   *)
(* connections or not, and any length of time.                             *)
(***************************************************************************)
EXTENDS RequestLoop, TLAPS

(* A slot that shows a request in service                                  *)
Serves(s) == s.stage > Accepting /\ s.stage < Finished

(* Such a slot carries an accept time, and on the first request of a       *)
(* connection, r being FALSE, the request is no younger than that: it      *)
(* began at b.                                                             *)
Dated(s, b, r) ==
    Serves(s) => s.accepted > 0 /\ (~r => b # 0 /\ b <= s.accepted)

(* The worker has a connection and has reported it.                        *)
Connected ==
    /\ w \in {"poll", "read", "info", "run", "done"}
    /\ conn
    /\ job # ReadingHeaders

(* How a report takes and leaves the slot                                  *)
Holding ==
    /\ slot.lock = IF jstep = "spin" THEN 0 ELSE 1
    /\ jstep # "spin" => job # 0
    /\ jstep = "staged" => slot.stage = job
    /\ jstep # "staged" => Dated(slot, since, reused)

(* What the worker reports where, and what its slot shows meanwhile        *)
Loop ==
    /\ since <= clock
    /\ MaxRequests # 0 /\ w \notin {"leave", "gone"} => requests < MaxRequests
    /\ w \in {"enter", "leave"} => job \in {0, Finished}
    /\ w = "accept" => job \in {0, Accepting}
    /\ w = "poll" => job \in {0, ReadingHeaders}
    /\ w \in {"read", "done"} => job = 0
    /\ w = "info" => job \in {0, Info}
    /\ w = "run" => job \in {0, IF conn THEN Executing ELSE Finished}
    /\ w \in {"enter", "accept"} => ~conn /\ (job # Finished => ~Serves(slot))
    /\ w \in {"poll", "read", "info"} => conn
    /\ w = "poll" /\ job = ReadingHeaders =>
          since # 0 /\ (jstep # "staged" => ~Serves(slot))
    /\ w \in {"run", "done"} /\ ~conn /\ job = 0 => ~Serves(slot)
    /\ Connected => Serves(slot) /\ Dated(slot, since, reused)

(* What the copy shows, and how old it can be                              *)
Copied ==
    /\ m # "idle" => now <= clock
    /\ m = "copied" => Dated(snap, snapSince, snapReused)

(* A connection that has been traced is the one slow_logged remembers, for *)
(* as long as it lasts.                                                    *)
Remembered ==
    /\ \A t \in traced : t \in 1 .. clock - 1
    /\ slot.accepted \in traced =>
          /\ slow_logged = slot.accepted
          /\ m = "copied" => snap.accepted = slot.accepted
    /\ m = "copied" /\ snap.accepted \in traced => slow_logged = snap.accepted

(* The one request that a worker asked to leave may still begin has begun. *)
Asked ==
    /\ late \in {0, 1}
    /\ late = 1 => in_shutdown /\ w # "accept" /\ (w = "read" => since # 0)
    /\ w = "poll" => since # 0

IInv == TypeOK /\ Holding /\ Loop /\ Copied /\ Remembered /\ Asked

-----------------------------------------------------------------------------
(* The invariant holds initially.                                          *)
LEMMA InitIInv == Init => IInv
<1> SUFFICES ASSUME Init PROVE IInv
  OBVIOUS
<1>1. TypeOK
  <2>1. Zeroed \in SlotType
    BY ClockAssumption DEF SlotType, Zeroed
  <2>2. clock \in 1 .. MaxClock /\ requests \in 0 .. MaxRequests /\ 0 \in 0 .. MaxClock
    BY ClockAssumption, LimitAssumption DEF Init
  <2>3. /\ job \in 0 .. 5 /\ now \in 0 .. MaxClock /\ slow_logged \in 0 .. MaxClock
        /\ since \in 0 .. MaxClock /\ snapSince \in 0 .. MaxClock
    BY <2>2 DEF Init
  <2>4. /\ w \in {"enter", "accept", "poll", "read", "info", "run", "done", "leave", "gone"}
        /\ jstep \in {"spin", "locked", "staged"} /\ m \in {"idle", "began", "copied"}
        /\ conn \in BOOLEAN /\ keep \in BOOLEAN /\ in_shutdown \in BOOLEAN
        /\ is_initialized \in {"no", "worker", "master"} /\ swapped \in BOOLEAN
        /\ reused \in BOOLEAN /\ snapReused \in BOOLEAN /\ late \in Nat
        /\ traced \subseteq 1 .. MaxClock
    BY DEF Init
  <2> QED
    BY <2>1, <2>2, <2>3, <2>4 DEF Init, TypeOK
<1>2. Holding /\ Loop
  BY LimitAssumption DEF Init, Holding, Loop, Connected, Dated, Serves, Zeroed,
     Accepting, Finished
<1>3. Copied /\ Remembered /\ Asked
  BY DEF Init, Copied, Remembered, Asked, Zeroed
<1> QED
  BY <1>1, <1>2, <1>3 DEF IInv

-----------------------------------------------------------------------------
(* The worker's reports.                                                   *)

(* Taking the lock and writing the stage tells the master nothing new.     *)
LEMMA AcquireIInv == IInv /\ w # "gone" /\ (Acquire \/ WriteStage) => IInv'
<1> SUFFICES ASSUME IInv, w # "gone", Acquire \/ WriteStage PROVE IInv'
  OBVIOUS
<1>0. TypeOK /\ Holding /\ Loop /\ Copied /\ Remembered /\ Asked
  BY DEF IInv
<1>1. /\ job # 0 /\ slot'.accepted = slot.accepted /\ slot' \in SlotType
      /\ UNCHANGED <<clock, worker, job, watch, traced>>
      /\ \/ jstep = "spin" /\ jstep' = "locked" /\ slot'.lock = 1 /\ slot'.stage = slot.stage
         \/ jstep = "locked" /\ jstep' = "staged" /\ slot'.lock = slot.lock /\ slot'.stage = job
  BY <1>0 DEF Acquire, WriteStage, TypeOK, SlotType
<1>2. TypeOK'
  BY <1>0, <1>1 DEF TypeOK, worker, signals, history, watch
<1>3. Holding'
  BY <1>0, <1>1 DEF Holding, Dated, Serves, TypeOK, worker, history
<1>4. Connected' <=> Connected
  BY <1>1 DEF Connected, worker
<1>5. Loop'
  BY <1>0, <1>1, <1>4 DEF Loop, Connected, Dated, Serves, worker, history, TypeOK,
     Accepting, ReadingHeaders, Info, Executing, Finished
<1>6. Copied' /\ Remembered' /\ Asked'
  BY <1>0, <1>1 DEF Copied, Remembered, Asked, worker, signals, history, watch, Dated,
     Serves
<1> QED
  BY <1>2, <1>3, <1>5, <1>6 DEF IInv

(* The end of a report: only ReadingHeaders dates the slot, with a time    *)
(* that no connection before has, and only Finished clears the date.       *)
LEMMA WriteRestIInv == IInv /\ w # "gone" /\ WriteRest => IInv'
<1> SUFFICES ASSUME IInv, w # "gone", WriteRest PROVE IInv'
  OBVIOUS
<1>0. TypeOK /\ Holding /\ Loop /\ Copied /\ Remembered /\ Asked
  BY DEF IInv
<1>1. /\ job # 0 /\ jstep = "staged" /\ job' = 0 /\ jstep' = "spin"
      /\ slot'.lock = 0 /\ slot'.stage = job
      /\ slot'.accepted = AcceptedAfter
      /\ since' = IF job = Finished THEN 0 ELSE since
      /\ UNCHANGED <<clock, w, conn, keep, signals, requests, reused, late, watch, traced>>
  BY <1>0 DEF WriteRest, Holding
<1>2. /\ job = ReadingHeaders => slot'.accepted = clock
      /\ job = Finished => slot'.accepted = 0
      /\ job \notin {ReadingHeaders, Finished} => slot'.accepted = slot.accepted
  BY <1>1 DEF AcceptedAfter, ReadingHeaders, Finished
<1>3. TypeOK'
  <2>1. slot.accepted \in 0 .. MaxClock /\ slot.stage \in 0 .. 5 /\ clock \in 0 .. MaxClock
    BY <1>0 DEF TypeOK, SlotType
  <2>2. slot' \in SlotType
    BY <1>0, <1>1, <1>2, <2>1, ClockAssumption DEF WriteRest, SlotType
  <2>3. since' \in 0 .. MaxClock
    BY <1>0, <1>1, ClockAssumption DEF TypeOK
  <2> QED
    BY <1>0, <1>1, <2>2, <2>3 DEF TypeOK, signals, watch
<1>4. Holding'
  BY <1>0, <1>1, <1>2 DEF Holding, Loop, Connected, Dated, Serves, TypeOK, Accepting,
     ReadingHeaders, Info, Executing, Finished
<1>5. Loop'
  BY <1>0, <1>1, <1>2 DEF Loop, Connected, Dated, Serves, TypeOK, Accepting,
     ReadingHeaders, Info, Executing, Finished
<1>6. Copied' /\ Asked'
  BY <1>0, <1>1 DEF Copied, Asked, Loop, signals, watch, Dated, Serves, ReadingHeaders,
     Finished
<1>7. Remembered'
  BY <1>0, <1>1, <1>2 DEF Remembered, watch, TypeOK
<1> QED
  BY <1>3, <1>4, <1>5, <1>6, <1>7 DEF IInv

-----------------------------------------------------------------------------
(* The accept loop.                                                        *)

(* What its steps leave to the reports and to the master                   *)
LEMMA LoopStepIInv ==
    ASSUME IInv, TypeOK', Loop', Asked',
           UNCHANGED <<clock, jstep, slot, watch, traced>>,
           Connected' => Connected,
           job = 0 \/ UNCHANGED job,
           job' # 0 => job' \in 1 .. 5,
           Dated(slot, since', reused') \/ jstep = "staged" \/ UNCHANGED <<since, reused>>
    PROVE  IInv'
<1>0. TypeOK /\ Holding /\ Loop /\ Copied /\ Remembered /\ Asked
  BY DEF IInv
<1>1. Holding'
  BY <1>0 DEF Holding, Dated, TypeOK
<1>2. Copied' /\ Remembered'
  BY <1>0 DEF Copied, Remembered, watch, Dated, Serves
<1> QED
  BY <1>1, <1>2 DEF IInv

(* Before a request is read                                                *)
LEMMA AcceptingIInv ==
    IInv /\ (Enter \/ Accept \/ AcceptAgain \/ AcceptFails \/ PollData \/ PollTimeout)
        => IInv'
<1> SUFFICES ASSUME IInv,
                    Enter \/ Accept \/ AcceptAgain \/ AcceptFails \/ PollData \/ PollTimeout
             PROVE  IInv'
  OBVIOUS
<1>0. TypeOK /\ Holding /\ Loop /\ Asked
  BY DEF IInv
<1>1. /\ job = 0 /\ jstep = "spin" /\ jstep' = "spin"
      /\ UNCHANGED <<clock, slot, watch, traced, keep, signals, requests>>
  BY <1>0 DEF Enter, Accept, AcceptAgain, AcceptFails, PollData, PollTimeout, At, Report,
     Close, report, Holding, TypeOK
<1>2. TypeOK' /\ Asked'
  <2>1. /\ w' \in {"enter", "accept", "poll", "read", "gone"}
        /\ conn' \in BOOLEAN /\ reused' \in BOOLEAN
    BY <1>0, <1>1 DEF Enter, Accept, AcceptAgain, AcceptFails, PollData, PollTimeout,
       Close, TypeOK, history
  <2>2. job' \in {0, Accepting, ReadingHeaders, Finished}
    BY <1>0, <1>1 DEF Enter, Accept, AcceptAgain, AcceptFails, PollData, PollTimeout,
       Close, Report, report
  <2>3. since' \in 0 .. MaxClock
    BY <1>0, <1>1, ClockAssumption DEF Enter, Accept, AcceptAgain, AcceptFails, PollData,
       PollTimeout, TypeOK, Begin, history
  <2>4. Asked'
    BY <1>0, <1>1 DEF Enter, Accept, AcceptAgain, AcceptFails, PollData, PollTimeout,
       TypeOK, At, Begin, history, signals, Asked
  <2>5. late' \in Nat
    BY <2>4 DEF Asked
  <2> QED
    BY <1>0, <1>1, <2>1, <2>2, <2>3, <2>4, <2>5 DEF TypeOK, signals, watch, Accepting,
       ReadingHeaders, Finished
<1>3. Loop'
  BY <1>0, <1>1, ClockAssumption DEF Enter, Accept, AcceptAgain, AcceptFails, PollData,
     PollTimeout, At, Report, Close, Begin, history, report, TypeOK, Loop, Connected,
     Dated, Serves, Accepting, ReadingHeaders, Info, Executing, Finished
<1>4. Connected' => Connected
  BY <1>0, <1>1 DEF Enter, Accept, AcceptAgain, AcceptFails, PollData, PollTimeout, At,
     Report, Close, report, Connected, Loop, ReadingHeaders, Finished
<1>5. Dated(slot, since', reused') \/ UNCHANGED <<since, reused>>
  BY <1>0, <1>1 DEF Enter, Accept, AcceptAgain, AcceptFails, PollData, PollTimeout, At,
     history, Loop, Dated, Finished
<1> QED
  BY <1>1, <1>2, <1>3, <1>4, <1>5, LoopStepIInv DEF TypeOK

(* Reading a request and running its script                                *)
LEMMA RunningIInv ==
    IInv /\ (NextRequest \/ ReadOk \/ ReadFails \/ Execute \/ NoScript \/ StartupFails
             \/ FinishEarly \/ ScriptEnds)
        => IInv'
<1> SUFFICES ASSUME IInv,
                    NextRequest \/ ReadOk \/ ReadFails \/ Execute \/ NoScript
                    \/ StartupFails \/ FinishEarly \/ ScriptEnds
             PROVE  IInv'
  OBVIOUS
<1>0. TypeOK /\ Holding /\ Loop /\ Asked
  BY DEF IInv
<1>1. /\ job = 0 /\ jstep = "spin" /\ jstep' = "spin"
      /\ UNCHANGED <<clock, slot, watch, traced, in_shutdown, swapped, requests, reused>>
      /\ is_initialized' \in {"no", "worker", "master"}
  BY <1>0 DEF NextRequest, ReadOk, ReadFails, Execute, NoScript, StartupFails, FinishEarly,
     ScriptEnds, At, Report, Close, report, history, signals, Holding, TypeOK
<1>2. \/ w = "read" /\ since = 0 /\ since' = clock /\ UNCHANGED <<w, conn, keep, job>>
         /\ late' = IF in_shutdown THEN late + 1 ELSE late
      \/ /\ UNCHANGED <<since, late>> /\ keep' \in BOOLEAN
         /\ \/ w = "read" /\ w' = "info" /\ job' = Info /\ UNCHANGED conn
            \/ w = "read" /\ w' = "enter" /\ job' = Finished /\ conn' = FALSE
            \/ w = "info" /\ w' = "run" /\ job' = Executing /\ UNCHANGED conn
            \/ w = "info" /\ w' = "done" /\ UNCHANGED <<job, conn>>
            \/ w = "info" /\ w' = "leave" /\ UNCHANGED <<job, conn>>
            \/ w = "info" /\ w' = "leave" /\ job' = Finished /\ conn' = FALSE
            \/ w = "run" /\ w' = "run" /\ conn /\ job' = Finished /\ conn' = FALSE
            \/ w = "run" /\ w' = "done" /\ UNCHANGED <<job, conn>>
  <2>1. CASE NextRequest \/ ReadOk \/ ReadFails
    BY <1>0, <2>1, LimitAssumption DEF NextRequest, ReadOk, ReadFails, At, Report, Close,
       Begin, history, report, TypeOK
  <2>2. CASE Execute \/ NoScript \/ StartupFails
    BY <1>0, <2>2 DEF Execute, NoScript, StartupFails, At, Report, Close, report, history,
       TypeOK
  <2>3. CASE FinishEarly \/ ScriptEnds
    BY <1>0, <2>3 DEF FinishEarly, ScriptEnds, At, Report, Close, report, history, TypeOK
  <2> QED
    BY <2>1, <2>2, <2>3
<1>3. /\ w' \in {"read", "info", "enter", "run", "done", "leave"}
      /\ conn' \in BOOLEAN /\ keep' \in BOOLEAN
      /\ job' \in {0, Info, Executing, Finished}
      /\ since' \in 0 .. MaxClock /\ since' <= clock
  <2>1. w' \in {"read", "info", "enter", "run", "done", "leave"}
    BY <1>2
  <2>2. conn' \in BOOLEAN /\ keep' \in BOOLEAN
    BY <1>0, <1>2 DEF TypeOK
  <2>3. job' \in {0, Info, Executing, Finished}
    BY <1>1, <1>2
  <2>4. since' \in 0 .. MaxClock /\ since' <= clock
    BY <1>0, <1>1, <1>2, ClockAssumption DEF TypeOK, Loop
  <2> QED
    BY <2>1, <2>2, <2>3, <2>4
<1>4. TypeOK' /\ Asked'
  <2>1. Asked'
    BY <1>0, <1>1, <1>2 DEF Asked, TypeOK
  <2>2. late' \in Nat
    BY <2>1 DEF Asked
  <2> QED
    BY <1>0, <1>1, <1>3, <2>1, <2>2 DEF TypeOK, watch, Info, Executing, Finished
<1>5. Dated(slot, since', reused')
  BY <1>0, <1>1, <1>2 DEF Loop, Connected, Dated, Holding, ReadingHeaders
<1>6. Connected' => Connected
  <2>1. conn' => conn
    BY <1>0, <1>2 DEF Loop
  <2>2. w \in {"read", "info", "run"} /\ job # ReadingHeaders
    BY <1>1, <1>2 DEF ReadingHeaders
  <2> QED
    BY <2>1, <2>2 DEF Connected
<1>7. Loop'
  <2>1. (w \in {"read", "info"} => conn) /\ w \in {"read", "info", "run"}
    BY <1>0, <1>2 DEF Loop
  <2>2. /\ w' = "run" => job' \in {0, IF conn' THEN Executing ELSE Finished}
        /\ w' \in {"enter", "accept"} => ~conn' /\ job' = Finished
        /\ w' \in {"poll", "read", "info"} => conn'
        /\ w' \in {"run", "done"} /\ ~conn' /\ job' = 0 => w = "run" /\ ~conn
    BY <1>0, <1>1, <1>2, <2>1 DEF Finished, Executing, Info
  <2>3. Connected' => Serves(slot) /\ Dated(slot, since', reused')
    BY <1>0, <1>5, <1>6 DEF Loop
  <2>4. /\ w' \in {"enter", "leave"} => job' \in {0, Finished}
        /\ w' \in {"read", "done"} => job' = 0
        /\ w' = "info" => job' \in {0, Info}
    BY <1>0, <1>1, <1>2 DEF Loop
  <2>5. MaxRequests # 0 => requests' < MaxRequests
    BY <1>0, <1>1, <2>1 DEF Loop
  <2>6. w' \in {"run", "done"} /\ ~conn' /\ job' = 0 => ~Serves(slot)
    BY <1>0, <1>1, <2>2 DEF Loop
  <2> QED
    BY <1>1, <1>3, <2>2, <2>3, <2>4, <2>5, <2>6 DEF Loop
<1> QED
  BY <1>1, <1>3, <1>4, <1>5, <1>6, <1>7, LoopStepIInv DEF TypeOK, Info, Executing, Finished

(* The end of the loop, and of the worker                                  *)
LEMMA LeavingIInv == IInv /\ (Repeat \/ Leave \/ Signalled) => IInv'
<1> SUFFICES ASSUME IInv, Repeat \/ Leave \/ Signalled PROVE IInv'
  OBVIOUS
<1>0. TypeOK /\ Holding /\ Loop /\ Asked
  BY DEF IInv
<1>1. CASE Repeat
  <2>1. /\ job = 0 /\ w = "done" /\ jstep = "spin" /\ jstep' = "spin"
        /\ UNCHANGED <<clock, slot, watch, traced, signals, keep, late>>
    BY <1>0, <1>1 DEF Repeat, At, Report, Close, report, Holding, TypeOK
  <2>2. /\ requests' = IF MaxRequests = 0 THEN 0 ELSE requests + 1
        /\ requests' \in 0 .. MaxRequests
        /\ MaxRequests # 0 /\ w' # "leave" => requests' < MaxRequests \/ w' = "gone"
    BY <1>0, <1>1, <2>1, LimitAssumption DEF Repeat, Loop, Full, TypeOK
  <2>3. /\ \/ conn /\ ~keep /\ conn' = FALSE /\ job' = Finished /\ UNCHANGED <<since, reused>>
           \/ conn /\ keep /\ since' = 0 /\ reused' = TRUE /\ UNCHANGED <<conn, job>>
           \/ ~conn /\ since' = 0 /\ UNCHANGED <<conn, job, reused>>
        /\ w' \in {"leave", "enter", "gone", "read"}
        /\ w' = "enter" => ~(conn /\ keep)
        /\ w' \in {"gone", "read"} => conn /\ keep
        /\ w' = "read" => ~in_shutdown
    BY <1>0, <1>1, <2>1 DEF Repeat, KeptThen, Close, Report, report, TypeOK
  <2>4. TypeOK' /\ Asked'
    <3>1. conn' \in BOOLEAN /\ reused' \in BOOLEAN
      BY <1>0, <2>3 DEF TypeOK
    <3>2. job' \in {0, Finished} /\ since' \in 0 .. MaxClock
      BY <1>0, <2>1, <2>3, ClockAssumption DEF TypeOK
    <3>3. Asked'
      BY <1>0, <2>1, <2>3 DEF Asked, signals
    <3> QED
      BY <1>0, <2>1, <2>2, <2>3, <3>1, <3>2, <3>3 DEF TypeOK, signals, watch, Finished
  <2>5. Loop' /\ (Connected' => Connected)
    BY <1>0, <2>1, <2>2, <2>3, ClockAssumption DEF TypeOK, Loop, Connected, Dated, Serves,
       Accepting, ReadingHeaders, Info, Executing, Finished
  <2>6. Dated(slot, since', reused') \/ UNCHANGED <<since, reused>>
    BY <1>0, <2>1, <2>3 DEF Loop, Connected, Dated, ReadingHeaders
  <2> QED
    BY <2>1, <2>3, <2>4, <2>5, <2>6, LoopStepIInv DEF Finished
<1>2. CASE Leave \/ Signalled
  <2>1. /\ UNCHANGED <<clock, conn, keep, is_initialized, requests, history, job, jstep,
                       slot, watch, traced>>
        /\ w' = "gone" \/ w' = w
        /\ in_shutdown' \in BOOLEAN /\ swapped' \in BOOLEAN
        /\ in_shutdown => in_shutdown'
    BY <1>0, <1>2 DEF Leave, Signalled, SoftQuit, Stop, Crash, SigTerm, signals, report,
       TypeOK
  <2>2. TypeOK' /\ Asked'
    BY <1>0, <2>1 DEF TypeOK, Asked, history, watch
  <2>3. Loop' /\ (Connected' => Connected)
    BY <1>0, <2>1 DEF Loop, Connected, history
  <2> QED
    BY <1>0, <2>1, <2>2, <2>3, LoopStepIInv DEF TypeOK, history
<1> QED
  BY <1>1, <1>2

-----------------------------------------------------------------------------
(* The master.                                                             *)

(* The next worker starts with a slot that shows nothing.                  *)
LEMMA RespawnIInv == IInv /\ Respawn => IInv'
<1> SUFFICES ASSUME IInv, Respawn PROVE IInv'
  OBVIOUS
<1>0. TypeOK
  BY DEF IInv
<1>1. /\ m' = "idle" /\ w' = "enter" /\ conn' = FALSE /\ job' = 0 /\ jstep' = "spin"
      /\ slot' = Zeroed /\ slow_logged' = 0 /\ traced' = {} /\ since' = 0 /\ requests' = 0
      /\ keep' = FALSE /\ in_shutdown' = FALSE /\ swapped' = FALSE
      /\ reused' = FALSE /\ late' = 0
      /\ is_initialized' = IF is_initialized = "worker" THEN "no" ELSE is_initialized
      /\ UNCHANGED <<clock, now, snap, snapSince, snapReused>>
  BY DEF Respawn, Reused
<1>2. Zeroed \in SlotType
  BY ClockAssumption DEF SlotType, Zeroed
<1>3. /\ slow_logged' \in 0 .. MaxClock /\ since' \in 0 .. MaxClock
      /\ requests' \in 0 .. MaxRequests /\ traced' \subseteq 1 .. MaxClock
      /\ job' \in 0 .. 5
  BY <1>1, ClockAssumption, LimitAssumption
<1>4. TypeOK'
  <2>1. /\ conn' \in BOOLEAN /\ keep' \in BOOLEAN /\ in_shutdown' \in BOOLEAN
        /\ swapped' \in BOOLEAN /\ late' \in Nat
        /\ reused' \in BOOLEAN /\ jstep' \in {"spin", "locked", "staged"}
        /\ m' \in {"idle", "began", "copied"}
        /\ w' \in {"enter", "accept", "poll", "read", "info", "run", "done", "leave", "gone"}
    BY <1>1
  <2>2. UNCHANGED <<clock, now, snap, snapSince, snapReused>> /\ slot' \in SlotType
    BY <1>1, <1>2
  <2>3. is_initialized' \in {"no", "worker", "master"}
    BY <1>0, <1>1 DEF TypeOK
  <2> QED
    BY <1>0, <1>3, <2>1, <2>2, <2>3 DEF TypeOK
<1>5. Holding' /\ Loop'
  BY <1>0, <1>1, LimitAssumption DEF Holding, Loop, Connected, Dated, Serves, Zeroed,
     Accepting, TypeOK
<1>6. Copied' /\ Remembered' /\ Asked'
  BY <1>1 DEF Copied, Remembered, Asked
<1> QED
  BY <1>4, <1>5, <1>6 DEF IInv

(* A heartbeat reads the clock and copies an unlocked slot, or skips it.   *)
LEMMA CopyIInv == IInv /\ (Beat \/ Copy \/ Skip) => IInv'
<1> SUFFICES ASSUME IInv, Beat \/ Copy \/ Skip PROVE IInv'
  OBVIOUS
<1>0. TypeOK /\ Holding /\ Loop /\ Copied /\ Remembered /\ Asked
  BY DEF IInv
<1>1. UNCHANGED <<clock, w, conn, keep, signals, requests, history, job, jstep, slot,
                  slow_logged, traced>>
  BY DEF Beat, Copy, Skip, worker, report
<1>2. Holding' /\ Loop' /\ Asked'
  BY <1>0, <1>1 DEF Holding, Loop, Asked, Connected, Dated, history, signals
<1>3. CASE Beat \/ Skip
  <2>1. /\ m' \in {"began", "idle"} /\ (m' # "idle" => now' <= clock)
        /\ now' \in 0 .. MaxClock /\ UNCHANGED <<snap, snapSince, snapReused>>
    BY <1>0, <1>3, ClockAssumption DEF Beat, Skip, TypeOK
  <2>2. TypeOK'
    BY <1>0, <1>1, <2>1 DEF TypeOK, signals, history
  <2>3. Copied' /\ Remembered'
    BY <1>0, <1>1, <2>1 DEF Copied, Remembered
  <2> QED
    BY <1>2, <2>2, <2>3 DEF IInv
<1>4. CASE Copy
  <2>1. /\ m = "began" /\ m' = "copied" /\ snap' = slot /\ slot.lock = 0
        /\ snapSince' = since /\ snapReused' = reused /\ now' = now
    BY <1>4 DEF Copy, Locked
  <2>2. TypeOK'
    BY <1>0, <1>1, <2>1 DEF TypeOK, signals, history
  <2>3. Dated(slot, since, reused)
    BY <1>0, <2>1 DEF Holding
  <2>4. Copied'
    BY <1>0, <1>1, <2>1, <2>3 DEF Copied
  <2>5. Remembered'
    BY <1>0, <1>1, <2>1 DEF Remembered
  <2> QED
    BY <1>2, <2>2, <2>4, <2>5 DEF IInv
<1> QED
  BY <1>3, <1>4

(* The judgement of a copy, made some time ago                             *)
LEMMA JudgeIInv == IInv /\ (Trace \/ Terminate \/ LeaveAlone) => IInv'
<1> SUFFICES ASSUME IInv, Trace \/ Terminate \/ LeaveAlone PROVE IInv'
  OBVIOUS
<1>0. TypeOK /\ Holding /\ Loop /\ Copied /\ Remembered /\ Asked
  BY DEF IInv
<1>1. /\ m = "copied" /\ now <= clock
      /\ m' = "idle" /\ snap' = Zeroed /\ snapSince' = 0 /\ snapReused' = FALSE
      /\ now' = 0
      /\ w' = w \/ w' = "gone"
      /\ in_shutdown' \in BOOLEAN /\ (in_shutdown => in_shutdown')
      /\ UNCHANGED <<clock, conn, keep, is_initialized, swapped, requests, history, job,
                     jstep, slot>>
  BY <1>0 DEF Trace, Terminate, SigTerm, LeaveAlone, Forget, worker, signals, report,
     Copied, TypeOK
<1>2. \/ Trace /\ slow_logged' = snap.accepted /\ traced' = traced \cup {snap.accepted}
      \/ ~Trace /\ slow_logged' = Logged /\ traced' = traced
  BY DEF Trace, Terminate, LeaveAlone
<1>3. ASSUME Trace
      PROVE  /\ snap.accepted \in 1 .. clock - 1 /\ Logged = 0
             /\ SlowlogTimeout # 0
             /\ snap.accepted \notin traced
             /\ slow_logged # snap.accepted
  <2>1. /\ snap.accepted > 0 /\ snap.accepted \in 0 .. MaxClock
        /\ now - snap.accepted >= SlowlogTimeout /\ now \in Nat
        /\ SlowlogTimeout # 0 /\ Logged = 0
    BY <1>0, <1>1, <1>3 DEF Trace, MustTrace, InService, Age, Copied, Dated, Serves,
       TypeOK, SlotType
  <2>2. slow_logged # snap.accepted
    BY <2>1 DEF Logged
  <2> QED
    BY <1>0, <1>1, <2>1, <2>2, TimeoutAssumption DEF Remembered, TypeOK
<1>4. TypeOK'
  <2>1. Zeroed \in SlotType /\ 0 \in 0 .. MaxClock
    BY ClockAssumption DEF SlotType, Zeroed
  <2>2. slow_logged' \in 0 .. MaxClock
    BY <1>0, <1>2, <2>1 DEF Logged, TypeOK, SlotType
  <2>3. traced' \subseteq 1 .. MaxClock
    <3>1. Trace => snap.accepted \in 1 .. MaxClock
      BY <1>0, <1>3, ClockAssumption DEF TypeOK
    <3> QED
      BY <1>0, <1>2, <3>1 DEF TypeOK
  <2>4. /\ w' \in {"enter", "accept", "poll", "read", "info", "run", "done", "leave", "gone"}
        /\ m' \in {"idle", "began", "copied"} /\ snap' \in SlotType
        /\ now' \in 0 .. MaxClock /\ snapSince' \in 0 .. MaxClock
        /\ snapReused' \in BOOLEAN
    BY <1>0, <1>1, <2>1 DEF TypeOK
  <2> QED
    BY <1>0, <1>1, <2>2, <2>3, <2>4 DEF TypeOK, history
<1>5. Holding' /\ Loop' /\ Asked'
  BY <1>0, <1>1 DEF Holding, Loop, Asked, Connected, Dated, history
<1>6. Copied'
  BY <1>1 DEF Copied
<1>7. Remembered'
  <2>1. \A t \in traced' : t \in 1 .. clock - 1
    BY <1>0, <1>2, <1>3 DEF Remembered
  <2>2. slot.accepted \in traced' => slow_logged' = slot.accepted
    BY <1>0, <1>1, <1>2 DEF Remembered, Logged
  <2> QED
    BY <1>1, <2>1, <2>2 DEF Remembered
<1> QED
  BY <1>4, <1>5, <1>6, <1>7 DEF IInv

(* A second passes, and makes nothing older than it is.                    *)
LEMMA TickIInv == IInv /\ Tick => IInv'
<1> SUFFICES ASSUME IInv, Tick PROVE IInv'
  OBVIOUS
<1>0. TypeOK /\ Holding /\ Loop /\ Copied /\ Remembered /\ Asked
  BY DEF IInv
<1>1. /\ clock \in Nat /\ clock' = clock + 1 /\ clock' \in 1 .. MaxClock
      /\ UNCHANGED <<w, conn, keep, signals, requests, history, job, jstep, slot, m, now,
                     snap, slow_logged, snapSince, snapReused, traced>>
  BY <1>0, ClockAssumption DEF Tick, TypeOK, worker, report, watch
<1>2. TypeOK'
  BY <1>0, <1>1 DEF TypeOK, signals, history
<1>3. Holding' /\ Loop' /\ Asked'
  BY <1>0, <1>1 DEF Holding, Loop, Asked, Connected, Dated, TypeOK, signals, history
<1>4. Copied' /\ Remembered'
  BY <1>0, <1>1 DEF Copied, Remembered, TypeOK
<1> QED
  BY <1>2, <1>3, <1>4 DEF IInv

(* One case for each kind of step.                                         *)
LEMMA StepIInv == IInv /\ [Next]_vars => IInv'
<1> SUFFICES ASSUME IInv, [Next]_vars PROVE IInv'
  OBVIOUS
<1>1. CASE Reporting
  BY <1>1, AcquireIInv, WriteRestIInv DEF Reporting
<1>2. CASE Serving \/ Signalled
  BY <1>2, AcceptingIInv, RunningIInv, LeavingIInv DEF Serving
<1>3. CASE Respawn \/ Watching \/ Tick
  BY <1>3, RespawnIInv, CopyIInv, JudgeIInv, TickIInv DEF Watching
<1>4. CASE UNCHANGED vars
  BY <1>4 DEF vars, worker, signals, history, report, watch, IInv, TypeOK, Holding, Loop,
     Copied, Remembered, Asked, Connected, Dated
<1> QED
  BY <1>1, <1>2, <1>3, <1>4 DEF Next

(* The invariant is one of the specification.                              *)
LEMMA Inductive == Spec => []IInv
<1> QED
  BY InitIInv, StepIInv, PTL DEF Spec

-----------------------------------------------------------------------------
(* The results.                                                            *)

(* No copy that shows a request in service lacks its accept time, wherever *)
(* the worker was in its report when it was made or when it died.          *)
THEOREM WholeCopies == Spec => []NoTornCopy
<1>1. IInv => NoTornCopy
  BY DEF IInv, Copied, NoTornCopy, Dated, Serves, InService
<1> QED
  BY <1>1, Inductive, PTL

(* While the first request of a connection is in service at the moment of  *)
(* the copy, the decision to terminate is taken on that request's own age: *)
(* no older one's time, and no torn report's, ever counts against it.      *)
(* Nothing is said of the request the signal finds.                        *)
THEOREM JudgedByOwnAge == Spec => []FirstTimeoutExact
<1>1. ASSUME IInv PROVE FirstTimeoutExact
  <2> SUFFICES ASSUME ~snapReused, m = "copied", MustTerminate
               PROVE  snapSince # 0 /\ now - snapSince >= TerminateTimeout
    BY DEF FirstTimeoutExact, TimeoutIsPerRequest
  <2>1. snapSince # 0 /\ snapSince <= snap.accepted
    BY <1>1 DEF IInv, Copied, Dated, Serves, MustTerminate, InService
  <2>2. now - snap.accepted >= TerminateTimeout
    BY DEF MustTerminate, Age
  <2> QED
    BY <1>1, <2>1, <2>2, TimeoutAssumption DEF IInv, TypeOK, SlotType
<1>2. IInv => FirstTimeoutExact
  BY <1>1
<1> QED
  BY <1>2, Inductive, PTL

(* Between the moment a worker is asked to leave and its end it begins at  *)
(* most one request, for either signal and wherever that finds it.         *)
THEOREM OneMore == Spec => []OneMoreRequest
<1>1. IInv => OneMoreRequest
  BY DEF IInv, Asked, OneMoreRequest
<1> QED
  BY <1>1, Inductive, PTL

(* No connection is traced twice.                                          *)
THEOREM OneTrace == Spec => TracedOnce
<1>1. ASSUME IInv, Trace PROVE snap.accepted \notin traced
  <2>1. m = "copied" /\ Logged = 0 /\ snap.accepted > 0
    BY <1>1 DEF Trace, MustTrace, InService, IInv, Copied, Dated, Serves
  <2> QED
    BY <1>1, <2>1 DEF IInv, Remembered, Logged
<1>2. IInv => [Trace => snap.accepted \notin traced]_vars
  BY <1>1
<1> QED
  BY <1>2, Inductive, PTL DEF TracedOnce

=============================================================================
