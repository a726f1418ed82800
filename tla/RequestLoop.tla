----------------------------- MODULE RequestLoop -----------------------------
(***************************************************************************)
(* One worker and the master that watches it: the accept loop              *)
(* (fcgi_accept_request, cgi/fastcgi.c, and main, cgi/cgi_main.c), the     *)
(* stages it reports in its shared-memory slot (fpm/fpm_request.c) under   *)
(* the slot's spin lock (fpm/fpm_atomic.h), and the heartbeat that reads   *)
(* the slot, times requests out and has slow ones traced.  What a time-out *)
(* sends is SIGTERM, for which a worker has its own handler as soon as its *)
(* first request is read (fcgi_init, cgi/fastcgi.c).                       *)
(*                                                                         *)
(* Some definitions are the code with a slip in it, each beside the one it *)
(* varies, and no specification uses them: LockedNever, AcceptedFromWait,  *)
(* AcceptWaits, KeptReadsOn, ReusedAsLeft, LoggedNever,                    *)
(* MustTerminateUntraced.                                                  *)
(***************************************************************************)
EXTENDS Integers

CONSTANTS
    TerminateTimeout,   \* request_terminate_timeout, 0 is off
    SlowlogTimeout,     \* request_slowlog_timeout, 0 is off
    MaxRequests,        \* max_requests, 0 is no limit
    KeepAlive,          \* may the web server set FCGI_KEEP_CONN?
    MaxClock            \* bound: how long the clock runs

ASSUME TimeoutAssumption == TerminateTimeout \in Nat /\ SlowlogTimeout \in Nat
ASSUME LimitAssumption   == MaxRequests \in Nat /\ KeepAlive \in BOOLEAN
ASSUME ClockAssumption   == MaxClock \in Nat \ {0}

(* enum fpm_request_stage_e; 0 is a slot just zeroed                       *)
Accepting      == 1
ReadingHeaders == 2
Info           == 3
Executing      == 4
Finished       == 5

VARIABLES
    clock,        \* seconds, fpm_clock_get
    w,            \* where the worker is in its loop
    conn,         \* req->fd >= 0
    keep,         \* req->keep
    is_initialized,  \* fcgi_init has run: "no", in this "worker", or already
                     \* in the "master", where it installs no handler
    in_shutdown,  \* set by fcgi_signal_handler and by sig_soft_quit
    swapped,      \* sig_soft_quit has replaced descriptor 0
    requests,     \* requests served (main's local)
    job,          \* the stage being reported, 0 if none
    jstep,        \* progress of that report: "spin", "locked", "staged"
    slot,         \* the slot: lock, request_stage, accepted
    m,            \* the heartbeat: "idle", "began", "copied"
    now,          \* the clock as the heartbeat read it
    snap,         \* slot_c, the master's copy
    slow_logged,  \* child->slow_logged, 0 if none
    since,        \* history: when the request in service began, 0 if none
    reused,       \* history: this connection has been kept for another request
    late,         \* history: requests begun with in_shutdown set
    snapSince,    \* history: since and reused, when the copy was made
    snapReused,
    traced        \* history: accept times of the connections traced

signals == <<is_initialized, in_shutdown, swapped>>
history == <<since, reused, late>>
worker  == <<w, conn, keep, signals, requests, history>>
report  == <<job, jstep>>
watch   == <<m, now, snap, slow_logged, snapSince, snapReused>>
vars    == <<clock, worker, report, slot, watch, traced>>

Zeroed == [lock |-> 0, stage |-> 0, accepted |-> 0]

-----------------------------------------------------------------------------
(* fpm_request_accepting ... fpm_request_finished: take the lock, write    *)
(* the stage, then the rest, and release.  The worker goes on when done.   *)

Report(stage) == job' = stage /\ jstep' = "spin"

LockedNever == FALSE
Locked      == slot.lock # 0

Acquire ==
    /\ job # 0 /\ jstep = "spin"
    /\ ~Locked
    /\ slot' = [slot EXCEPT !.lock = 1]
    /\ jstep' = "locked"
    /\ UNCHANGED <<clock, worker, job, watch, traced>>

WriteStage ==
    /\ job # 0 /\ jstep = "locked"
    /\ slot' = [slot EXCEPT !.stage = job]
    /\ jstep' = "staged"
    /\ UNCHANGED <<clock, worker, job, watch, traced>>

AcceptedFromWait ==
    CASE job = Accepting -> clock
      [] job = Finished -> 0
      [] OTHER -> slot.accepted

AcceptedAfter ==
    CASE job = ReadingHeaders -> clock
      [] job = Finished -> 0
      [] OTHER -> slot.accepted

WriteRest ==
    /\ job # 0 /\ jstep = "staged"
    /\ slot' = [lock     |-> 0,
                stage    |-> slot.stage,
                accepted |-> AcceptedAfter]
    /\ since' = IF job = Finished THEN 0 ELSE since
    /\ job' = 0
    /\ jstep' = "spin"
    /\ UNCHANGED <<clock, w, conn, keep, signals, requests, reused, late, watch, traced>>

-----------------------------------------------------------------------------
(* fcgi_accept_request and the loop of main; each step waits for the       *)
(* report before it.                                                       *)

At(place) == w = place /\ job = 0

(* the inner loop, with no connection                                      *)
Enter ==
    /\ At("enter")
    /\ IF in_shutdown
       THEN w' = "gone" /\ UNCHANGED report
       ELSE w' = "accept" /\ Report(Accepting)
    /\ UNCHANGED <<clock, conn, keep, signals, requests, history, slot, watch, traced>>

(* A request begins.                                                       *)
Begin == since' = clock /\ late' = IF in_shutdown THEN late + 1 ELSE late

(* accept() returns a connection.  After sig_soft_quit descriptor 0 is an  *)
(* unbound socket and it cannot; a SIGTERM that arrives before accept()    *)
(* blocks does not keep it from doing so.                                  *)
Accept ==
    /\ At("accept")
    /\ ~swapped
    /\ w' = "poll"
    /\ conn' = TRUE
    /\ Begin /\ reused' = FALSE
    /\ Report(ReadingHeaders)
    /\ UNCHANGED <<clock, keep, signals, requests, slot, watch, traced>>

(* ECONNABORTED, EINTR (SIGTERM has no SA_RESTART; then AcceptFails) or a  *)
(* client that allowed_clients does not name                               *)
AcceptAgain ==
    /\ At("accept")
    /\ ~swapped
    /\ w' = "enter"
    /\ UNCHANGED <<clock, conn, keep, signals, requests, history, report, slot, watch,
                   traced>>

AcceptWaits ==
    /\ At("accept")
    /\ ~swapped
    /\ w' = "gone"
    /\ UNCHANGED <<clock, conn, keep, signals, requests, history, report, slot, watch,
                   traced>>

(* any other error, EINVAL on the unbound socket among them, and with      *)
(* in_shutdown set EINTR too                                               *)
AcceptFails ==
    /\ At("accept")
    /\ w' = "gone"
    /\ UNCHANGED <<clock, conn, keep, signals, requests, history, report, slot, watch,
                   traced>>

(* fcgi_close with the connection really closed                            *)
Close == conn' = FALSE /\ Report(Finished)

(* poll() of five seconds: data, or not                                    *)
PollData ==
    /\ At("poll")
    /\ w' = "read"
    /\ UNCHANGED <<clock, conn, keep, signals, requests, history, report, slot, watch,
                   traced>>

PollTimeout ==
    /\ At("poll")
    /\ w' = "enter"
    /\ Close
    /\ UNCHANGED <<clock, keep, signals, requests, history, slot, watch, traced>>

(* The first bytes of a further request reach a kept connection.           *)
NextRequest ==
    /\ At("read")
    /\ since = 0
    /\ Begin
    /\ UNCHANGED <<clock, w, conn, keep, signals, requests, reused, report, slot, watch,
                   traced>>

(* fcgi_read_request succeeds, or fails and forces the connection closed.  *)
(* init_request_info asks fcgi_is_fastcgi first, and in a worker's first   *)
(* request that runs fcgi_init: descriptor 0 is no connection, so          *)
(* fcgi_signal_handler replaces the default action of SIGTERM.             *)
ReadOk ==
    /\ At("read")
    /\ since # 0
    /\ keep' \in (IF KeepAlive THEN BOOLEAN ELSE {FALSE})
    /\ is_initialized' = IF is_initialized = "no" THEN "worker" ELSE is_initialized
    /\ w' = "info"
    /\ Report(Info)
    /\ UNCHANGED <<clock, conn, in_shutdown, swapped, requests, history, slot, watch,
                   traced>>

ReadFails ==
    /\ At("read")
    /\ keep' = FALSE
    /\ w' = "enter"
    /\ Close
    /\ UNCHANGED <<clock, signals, requests, history, slot, watch, traced>>

(* The script is found and executed, or the answer is 403 or 404.          *)
Execute ==
    /\ At("info")
    /\ w' = "run"
    /\ Report(Executing)
    /\ UNCHANGED <<clock, conn, keep, signals, requests, history, slot, watch, traced>>

NoScript ==
    /\ At("info")
    /\ w' = "done"
    /\ UNCHANGED <<clock, conn, keep, signals, requests, history, report, slot, watch,
                   traced>>

(* php_request_startup fails: the request is finished and the worker ends. *)
StartupFails ==
    /\ At("info")
    /\ w' = "leave"
    /\ IF keep THEN UNCHANGED <<conn, report>> ELSE Close
    /\ UNCHANGED <<clock, keep, signals, requests, history, slot, watch, traced>>

(* the script calls fastcgi_finish_request() and runs on                   *)
FinishEarly ==
    /\ At("run")
    /\ conn
    /\ ~keep
    /\ Close
    /\ UNCHANGED <<clock, w, keep, signals, requests, history, slot, watch, traced>>

ScriptEnds ==
    /\ At("run")
    /\ w' = "done"
    /\ UNCHANGED <<clock, conn, keep, signals, requests, history, report, slot, watch,
                   traced>>

Full(n)     == MaxRequests # 0 /\ n = MaxRequests

KeptReadsOn == "read"
KeptThen    == IF in_shutdown THEN "gone" ELSE "read"

(* The end of main's loop and fcgi_finish_request: leave if max_requests   *)
(* is reached; close unless the connection is kept; on a kept one leave if *)
(* asked to quit, or read again.  With a limit of 0 requests are not       *)
(* counted.                                                                *)
Repeat ==
    /\ At("done")
    /\ requests' = IF MaxRequests = 0 THEN 0 ELSE requests + 1
    /\ reused' = (reused \/ (conn /\ keep))
    /\ LET full == Full(requests') IN
       /\ IF conn /\ ~keep
          THEN Close /\ UNCHANGED since
          ELSE since' = 0 /\ UNCHANGED <<conn, report>>
       /\ w' = CASE full -> "leave"
                 [] ~full /\ ~(conn /\ keep) -> "enter"
                 [] OTHER -> KeptThen
    /\ UNCHANGED <<clock, keep, signals, late, slot, watch, traced>>

Leave ==
    /\ At("leave")
    /\ w' = "gone"
    /\ UNCHANGED <<clock, conn, keep, signals, requests, history, report, slot, watch,
                   traced>>

(* sig_soft_quit                                                           *)
SoftQuit ==
    /\ w # "gone"
    /\ in_shutdown' = TRUE
    /\ swapped' = TRUE
    /\ UNCHANGED <<clock, w, conn, keep, is_initialized, requests, history, report, slot,
                   watch, traced>>

(* What SIGTERM does: fcgi_signal_handler asks the worker to leave, the    *)
(* default action ends it.                                                 *)
SigTerm ==
    IF w # "gone" /\ is_initialized = "worker"
    THEN in_shutdown' = TRUE /\ UNCHANGED w
    ELSE w' = "gone" /\ UNCHANGED in_shutdown

(* The master stops or reloads, and has come to SIGTERM.                   *)
Stop ==
    /\ w # "gone"
    /\ SigTerm
    /\ UNCHANGED <<clock, conn, keep, is_initialized, swapped, requests, history, report,
                   slot, watch, traced>>

(* SIGKILL, or a fault of PHP's, anywhere                                  *)
Crash ==
    /\ w # "gone"
    /\ w' = "gone"
    /\ UNCHANGED <<clock, conn, keep, signals, requests, history, report, slot, watch,
                   traced>>

-----------------------------------------------------------------------------
(* The master.                                                             *)

ReusedAsLeft == slot
Reused       == Zeroed

(* A dead worker is buried and its slot, zeroed, goes to the next one      *)
(* (fpm_shm_slots_prepare_slot).                                           *)
Respawn ==
    /\ w = "gone"
    /\ m = "idle"
    /\ w' = "enter"
    /\ conn' = FALSE /\ keep' = FALSE
    /\ is_initialized' = IF is_initialized = "worker" THEN "no" ELSE is_initialized
    /\ in_shutdown' = FALSE /\ swapped' = FALSE
    /\ requests' = 0 /\ since' = 0 /\ reused' = FALSE /\ late' = 0
    /\ job' = 0 /\ jstep' = "spin"
    /\ slot' = Reused
    /\ slow_logged' = 0
    /\ traced' = {}
    /\ UNCHANGED <<clock, m, now, snap, snapSince, snapReused>>

(* fpm_pctl_heartbeat reads the clock; fpm_request_check_timed_out copies  *)
(* the slot if one try gets the lock, and judges the copy.                 *)
Beat ==
    /\ m = "idle"
    /\ m' = "began"
    /\ now' = clock
    /\ UNCHANGED <<clock, worker, report, slot, snap, slow_logged, snapSince, snapReused,
                   traced>>

Copy ==
    /\ m = "began"
    /\ ~Locked
    /\ m' = "copied"
    /\ snap' = slot
    /\ snapSince' = since /\ snapReused' = reused
    /\ UNCHANGED <<clock, worker, report, slot, now, slow_logged, traced>>

Skip ==
    /\ m = "began"
    /\ Locked
    /\ m' = "idle"
    /\ now' = 0
    /\ UNCHANGED <<clock, worker, report, slot, snap, slow_logged, snapSince, snapReused,
                   traced>>

InService == snap.stage > Accepting /\ snap.stage < Finished
Age       == now - snap.accepted

(* slow_logged is forgotten when the copy shows another connection         *)
LoggedNever == 0
Logged      == IF slow_logged = snap.accepted THEN slow_logged ELSE 0

MustTrace ==
    /\ InService
    /\ Logged = 0
    /\ SlowlogTimeout # 0
    /\ snap.stage = Executing
    /\ Age >= SlowlogTimeout

MustTerminateUntraced ==
    /\ InService
    /\ ~MustTrace
    /\ Logged = 0
    /\ TerminateTimeout # 0
    /\ Age >= TerminateTimeout

MustTerminate ==
    /\ InService
    /\ ~MustTrace
    /\ TerminateTimeout # 0
    /\ Age >= TerminateTimeout

(* The copy is forgotten; in the code it is a local of the function.       *)
Forget == snap' = Zeroed /\ snapSince' = 0 /\ snapReused' = FALSE /\ now' = 0 /\ m' = "idle"

Trace ==
    /\ m = "copied"
    /\ MustTrace
    /\ slow_logged' = snap.accepted
    /\ traced' = traced \cup {snap.accepted}
    /\ Forget
    /\ UNCHANGED <<clock, worker, report, slot>>

(* The signal finds the worker where it is by now.                         *)
Terminate ==
    /\ m = "copied"
    /\ MustTerminate
    /\ SigTerm
    /\ slow_logged' = Logged
    /\ Forget
    /\ UNCHANGED <<clock, conn, keep, is_initialized, swapped, requests, history, report,
                   slot, traced>>

LeaveAlone ==
    /\ m = "copied"
    /\ ~MustTrace /\ ~MustTerminate
    /\ slow_logged' = Logged
    /\ Forget
    /\ UNCHANGED <<clock, worker, report, slot, traced>>

(* A second passes, wherever worker and master are.                        *)
Tick ==
    /\ clock < MaxClock
    /\ clock' = clock + 1
    /\ UNCHANGED <<worker, report, slot, watch, traced>>

-----------------------------------------------------------------------------
Init ==
    /\ clock = 1
    /\ w = "enter"
    /\ conn = FALSE /\ keep = FALSE
    /\ is_initialized \in {"no", "master"}
    /\ in_shutdown = FALSE /\ swapped = FALSE
    /\ requests = 0 /\ since = 0 /\ reused = FALSE /\ late = 0
    /\ job = 0 /\ jstep = "spin"
    /\ slot = Zeroed
    /\ m = "idle" /\ now = 0 /\ snap = Zeroed /\ snapSince = 0 /\ snapReused = FALSE
    /\ slow_logged = 0
    /\ traced = {}

(* A worker that is gone takes no step, not even of a report it began.     *)
Reporting == w # "gone" /\ (Acquire \/ WriteStage \/ WriteRest)

Serving ==
    \/ Enter \/ Accept \/ AcceptAgain \/ AcceptFails \/ PollData \/ PollTimeout
    \/ NextRequest \/ ReadOk \/ ReadFails \/ Execute \/ NoScript \/ StartupFails
    \/ FinishEarly \/ ScriptEnds \/ Repeat \/ Leave

Watching == Beat \/ Copy \/ Skip \/ Trace \/ Terminate \/ LeaveAlone

Signalled == SoftQuit \/ Stop \/ Crash

Next == Reporting \/ Serving \/ Signalled \/ Respawn \/ Watching \/ Tick

Spec == Init /\ [][Next]_vars

(* The worker's own instructions run, and the event loop goes on beating;  *)
(* clients, scripts and the operator owe nothing.                          *)
Fairness ==
    /\ WF_vars(Reporting) /\ WF_vars(Enter \/ (swapped /\ AcceptFails))
    /\ WF_vars(Beat) /\ WF_vars(Copy \/ Skip) /\ WF_vars(Trace \/ Terminate \/ LeaveAlone)

LiveSpec == Spec /\ Fairness

-----------------------------------------------------------------------------
(* The type of every variable.                                             *)
SlotType == [lock : {0, 1}, stage : 0 .. 5, accepted : 0 .. MaxClock]

TypeOK ==
    /\ clock \in 1 .. MaxClock
    /\ w \in {"enter", "accept", "poll", "read", "info", "run", "done", "leave", "gone"}
    /\ conn \in BOOLEAN /\ keep \in BOOLEAN
    /\ is_initialized \in {"no", "worker", "master"}
    /\ in_shutdown \in BOOLEAN /\ swapped \in BOOLEAN
    /\ late \in Nat
    /\ requests \in 0 .. MaxRequests
    /\ job \in 0 .. 5
    /\ jstep \in {"spin", "locked", "staged"}
    /\ slot \in SlotType /\ snap \in SlotType
    /\ m \in {"idle", "began", "copied"}
    /\ now \in 0 .. MaxClock
    /\ slow_logged \in 0 .. MaxClock
    /\ traced \subseteq 1 .. MaxClock
    /\ since \in 0 .. MaxClock /\ snapSince \in 0 .. MaxClock
    /\ reused \in BOOLEAN /\ snapReused \in BOOLEAN

(* The master never judges a torn slot: a copy that shows a request in     *)
(* service carries the time its connection was accepted, although the      *)
(* worker writes stage and time apart and a worker may die between them.   *)
(* Types included.                                                         *)
NoTornCopy ==
    /\ TypeOK
    /\ m = "copied" /\ InService => snap.accepted > 0

(* A script whose connection is open and whose time is up                  *)
Overdue ==
    /\ At("run") /\ conn
    /\ TerminateTimeout # 0 /\ clock - slot.accepted >= TerminateTimeout

(* Every script that is overdue is told to end: neither a heartbeat that   *)
(* traces it instead nor one that finds the slot locked is followed by     *)
(* such heartbeats for ever.  That the script then ends, as                *)
(* conf/php-fpm.conf.in:103-104 has it, is not promised: it is all that    *)
(* SIGTERM says to a worker whose handler is installed.                    *)
OverdueTold == Overdue ~> (in_shutdown \/ ~Overdue)

(* A worker that has been asked to leave begins at most one more request,  *)
(* wherever SIGTERM or SIGQUIT has found it: between the check of          *)
(* in_shutdown and accept(), waiting on a kept connection, or serving.     *)
OneMoreRequest == late <= 1

(* conf/php-fpm.conf.in:103: the timeout is one "for serving a single      *)
(* request": when the master decides to terminate the worker, the request  *)
(* it was serving at the moment of the copy has lasted that long.          *)
TimeoutIsPerRequest ==
    m = "copied" /\ MustTerminate =>
        snapSince # 0 /\ now - snapSince >= TerminateTimeout

(* If the request in service at the moment of the copy is the first of its *)
(* connection, the decision is exact: the master terminates over it only   *)
(* when it has itself lasted that long, although stage and time are        *)
(* written apart and the clock is read before the copy is made.  It is not *)
(* a promise about the request the signal finds: the worker may have ended *)
(* the one judged and accepted another between the copy and the kill.      *)
FirstTimeoutExact == ~snapReused => TimeoutIsPerRequest

(* A connection makes the master trace its worker at most once, however    *)
(* long it stays slow and whatever connections come in between.            *)
TracedOnce == [][Trace => snap.accepted \notin traced]_vars

(* fpm/fpm_signals.c:146: closing the listening socket makes accept()      *)
(* return at once, so a worker asked to quit while it waits for a client   *)
(* leaves without further signals.                                         *)
IdleQuits == (swapped /\ w = "accept") ~> (w = "gone")

(* No worker spins for ever on its slot's lock: a predecessor that died    *)
(* holding it, and the master's copying, leave it free.                    *)
ReportsEnd == (job # 0) ~> (job = 0 \/ w = "gone")
=============================================================================
