------------------------------ MODULE FpmMaster ------------------------------
(***************************************************************************)
(* The php-fpm master: process control (fpm/fpm_process_ctl.c), the        *)
(* children it forks and buries (fpm/fpm_children.c), its event loop       *)
(* (fpm/fpm_events.c) and the signals that drive it (fpm/fpm_signals.c).   *)
(*                                                                         *)
(* One step of the master is one turn of one of its loops: a character     *)
(* read from the signal socket, one waitpid() of fpm_children_bury, one    *)
(* fork() of fpm_children_make.  Between two turns workers crash, stop,    *)
(* exit or finish booting, and signals arrive.                             *)
(*                                                                         *)
(* Some definitions are the code with a slip in it, each beside the one it *)
(* varies, and no specification uses them: OverrideUnlessLast,             *)
(* NextSignalNoKill, NextSignalRestarts, LastGoneEarly, LastGoneReloading, *)
(* WantedWhileStopping, MadeReapOnce, MadeFirstPool.                       *)
(***************************************************************************)
EXTENDS Integers, Sequences, FiniteSets

CONSTANTS
    Pools,        \* fpm_worker_all_pools
    NoPool,       \* the owner of a process the master has not forked
    Pid,          \* process ids the kernel can give to a worker
    MaxChildren,  \* wp->config->pm->max_children of each pool
    Commands,     \* the operator's signals, as sig_handler's characters
    MaxControl,   \* bound: how many of them arrive
    PipeCap       \* bound: how many characters the socketpair holds

ASSUME PoolAssumption    == Pools # {} /\ NoPool \notin Pools /\ IsFiniteSet(Pid)
ASSUME LimitAssumption   == MaxChildren \in [Pools -> Nat]
ASSUME CommandAssumption == Commands \subseteq {"I", "T", "Q", "1", "2"}
ASSUME BoundAssumption   == MaxControl \in Nat /\ PipeCap \in Nat \ {0}

VARIABLES
    pc,                \* where the master is, see Where
    fpm_state,         \* fpm_process_ctl.c
    fpm_signal_sent,   \* the last signal of the escalation
    timer,             \* pctl_event is armed
    pipe,              \* characters in the socketpair sp[]
    chld,              \* SIGCHLD is pending on the master
    overrun,           \* history: a 'C' was dropped and none is in the pipe
    wp,                \* child->wp of every linked child
    running,           \* wp->running_children
    running_children,  \* fpm_globals.running_children
    cur,               \* the pool fpm_children_make is filling
    todo,              \* pools fpm_run has not filled yet
    gaveUp,            \* history: pools left short by a failed fork
    life,              \* what each worker process is doing
    held,              \* signals a stopped worker has not been given
    control            \* operator signals still to come

master == <<pc, fpm_state, fpm_signal_sent, timer>>
inbox  == <<pipe, chld, overrun>>
pools  == <<wp, running, running_children, gaveUp>>
making == <<cur, todo>>
procs  == <<life, held>>
vars   == <<master, inbox, pools, making, procs, control>>

-----------------------------------------------------------------------------
(* "init" is fpm_init, "create" the fork loop of fpm_run, "loop" the wait  *)
(* of event_loop, "signals" fpm_got_signal, "bury" fpm_children_bury and   *)
(* "refill" the fork loop it runs.  "exited" is exit(0), "failed" exit(1)  *)
(* and "killed" death by a signal not yet handled.                         *)
Busy   == {"create", "loop", "signals", "bury", "refill"}
Ended  == {"exited", "failed", "killed"}
Where  == Busy \cup Ended \cup {"init"}

States == {"NORMAL", "RELOADING", "FINISHING", "TERMINATING"}
Sent   == {"none", "SIGQUIT", "SIGTERM", "SIGKILL"}

(* A worker boots with the master's handlers, is ready once it has its     *)
(* own, and may be stopped for its slow-log trace ("stopped": waitpid has  *)
(* not reported it; "traced": reported, but the trace left it stopped).    *)
(* "dying" has taken a fatal signal; "zombie" and "crashed" (SIGSEGV or    *)
(* SIGBUS) are dead and not waited for.                                    *)
Dead   == {"zombie", "crashed"}
Alive  == {"booting", "ready", "stopped", "traced"}
Lives  == Dead \cup Alive \cup {"none", "dying"}

Listed      == {p \in Pid : wp[p] # NoPool}
Children(w) == {p \in Pid : wp[p] = w}

-----------------------------------------------------------------------------
(* What a signal does to a process.                                        *)

Halted(l) == l \in {"stopped", "traced"}

(* A booting worker still runs sig_handler, which drops what it gets       *)
(* because getpid() is not the master's.  A ready one dies of SIGTERM, or  *)
(* has begun its first request and, by fcgi_init, caught it: whether is    *)
(* left open here.  SIGQUIT, and SIGTERM if caught, only ask it to leave,  *)
(* which it may do at any time (Exit); see module RequestLoop.             *)
LifeAfter(l, sig, caught) ==
    CASE sig = "SIGKILL" /\ l \in Alive              -> "dying"
      [] sig = "SIGTERM" /\ l = "ready" /\ ~caught -> "dying"
      [] OTHER                                     -> l

HeldAfter(l, h, sig) ==
    IF Halted(l) /\ sig # "SIGKILL" THEN h \cup {sig}
    ELSE IF Halted(l) THEN {} ELSE h

(* sig_handler: the write is not retried when the socket is full           *)
Room     == Len(pipe) < PipeCap
HasC(q)  == \E i \in DOMAIN q : q[i] = "C"
Put(c)   == IF Room THEN Append(pipe, c) ELSE pipe

-----------------------------------------------------------------------------
(* Process control: fpm_pctl and what it calls.                            *)

OverrideUnlessLast(new, old) == old # "TERMINATING" /\ new # old

CanOverride(new, old) ==
    \/ old = "NORMAL"
    \/ old = "RELOADING" /\ new = "FINISHING"
    \/ old \in {"RELOADING", "FINISHING"} /\ new = "TERMINATING"

(* fpm_pctl_action_last: exec the binary again, or exit.  Either way the   *)
(* image is gone, and with it the timer and the close-on-exec socketpair.  *)
ActionLast(st) ==
    /\ \/ st = "RELOADING" /\ pc' = "init" /\ fpm_state' = "NORMAL"
       \/ st = "RELOADING" /\ pc' = "failed" /\ fpm_state' = st
       \/ st # "RELOADING" /\ pc' = "exited" /\ fpm_state' = st
    /\ fpm_signal_sent' = "none"
    /\ timer' = FALSE
    /\ pipe' = <<>>
    /\ chld' = FALSE
    /\ overrun' = FALSE
    /\ gaveUp' = {}

NextSignalNoKill(st, sent) ==
    CASE sent = "none" -> IF st = "TERMINATING" THEN "SIGTERM" ELSE "SIGQUIT"
      [] OTHER -> "SIGTERM"

NextSignalRestarts(st, sent) ==
    CASE sent = "SIGQUIT" -> "SIGTERM"
      [] sent = "SIGTERM" -> "SIGKILL"
      [] OTHER -> IF st = "TERMINATING" THEN "SIGTERM" ELSE "SIGQUIT"

NextSignal(st, sent) ==
    CASE sent = "none" -> IF st = "TERMINATING" THEN "SIGTERM" ELSE "SIGQUIT"
      [] sent = "SIGQUIT" -> "SIGTERM"
      [] OTHER -> "SIGKILL"

(* fpm_pctl_kill_all over kids; processes outside kids are gone.           *)
KillAll(sig, kids) ==
    \E caught \in SUBSET kids :
    /\ life' = [p \in Pid |->
          IF p \in kids THEN LifeAfter(life[p], sig, p \in caught) ELSE "none"]
    /\ held' = [p \in Pid |->
          IF p \in kids THEN HeldAfter(life[p], held[p], sig) ELSE {}]

(* The processes outside kids have just been unlinked.                     *)
Forget(kids) ==
    /\ life' = [p \in Pid |-> IF p \in kids THEN life[p] ELSE "none"]
    /\ held' = [p \in Pid |-> IF p \in kids THEN held[p] ELSE {}]

(* fpm_pctl_action_next in state st with n children, those of kids; the    *)
(* socket is left as rest and the master goes on at next.                  *)
ActionNext(st, sent, n, kids, rest, next) ==
    IF n = 0
    THEN ActionLast(st) /\ Forget(kids)
    ELSE LET sig == NextSignal(st, sent) IN
         /\ KillAll(sig, kids)
         /\ pc' = next
         /\ fpm_state' = st
         /\ fpm_signal_sent' = sig
         /\ timer' = TRUE
         /\ pipe' = rest
         /\ UNCHANGED <<chld, overrun, gaveUp>>

(* fpm_pctl(new, FPM_PCTL_ACTION_SET) asked for by a signal                *)
PctlSet(new, rest) ==
    IF new # fpm_state /\ CanOverride(new, fpm_state)
    THEN ActionNext(new, "none", running_children, Listed, rest, "signals")
    ELSE /\ pc' = "signals"
         /\ pipe' = rest
         /\ UNCHANGED <<fpm_state, fpm_signal_sent, timer, chld, overrun,
                        gaveUp, procs>>

(* fpm_pctl_action: pctl_event fired                                       *)
PctlTimeout ==
    /\ pc = "loop"
    /\ timer
    /\ ActionNext(fpm_state, fpm_signal_sent, running_children, Listed,
                  pipe, "loop")
    /\ UNCHANGED <<wp, running, running_children, making, control>>

(* fpm_pctl_heartbeat: of the workers that serve a request, those in slow  *)
(* are stopped for a trace and those in late get SIGTERM.  It re-arms      *)
(* itself, so an idle master never comes to rest.                          *)
Heartbeat ==
    /\ pc = "loop"
    /\ \E slow \in SUBSET {p \in Listed : life[p] = "ready"},
          late \in SUBSET {p \in Listed : life[p] \in {"ready", "stopped", "traced"}} :
       \E caught \in SUBSET late :
          /\ slow \cap late = {}
          /\ life' = [p \in Pid |->
                IF p \in slow THEN "stopped"
                ELSE IF p \in late THEN LifeAfter(life[p], "SIGTERM", p \in caught)
                ELSE life[p]]
          /\ held' = [p \in Pid |->
                IF p \in late THEN HeldAfter(life[p], held[p], "SIGTERM")
                ELSE held[p]]
          /\ chld' = (chld \/ slow # {})
    /\ UNCHANGED <<master, pipe, overrun, pools, making, control>>

-----------------------------------------------------------------------------
(* fpm_got_signal: one turn of its read loop.                              *)

ReadSignal ==
    /\ pc \in {"loop", "signals"}
    /\ pipe # <<>>
    /\ LET c == Head(pipe)  rest == Tail(pipe) IN
       \/ /\ c = "C"
          /\ pc' = "bury"
          /\ pipe' = rest
          /\ overrun' = FALSE
          /\ UNCHANGED <<fpm_state, fpm_signal_sent, timer, chld, gaveUp, procs>>
       \/ c \in {"I", "T"} /\ PctlSet("TERMINATING", rest)
       \/ c = "Q" /\ PctlSet("FINISHING", rest)
       \/ c = "2" /\ PctlSet("RELOADING", rest)
       \/ /\ c = "1"                       \* fpm_stdio_open_error_log
          /\ pc' = "signals"
          /\ pipe' = rest
          /\ UNCHANGED <<fpm_state, fpm_signal_sent, timer, chld, overrun,
                         gaveUp, procs>>
    /\ UNCHANGED <<wp, running, running_children, making, control>>

Drained ==
    /\ pc = "signals"
    /\ pipe = <<>>
    /\ pc' = "loop"
    /\ UNCHANGED <<fpm_state, fpm_signal_sent, timer, inbox, pools, making,
                   procs, control>>

-----------------------------------------------------------------------------
(* fpm_children_bury: one turn of its waitpid loop.                        *)

(* fpm_child_unlink *)
Unlink(p) ==
    /\ wp' = [wp EXCEPT ![p] = NoPool]
    /\ running' = [running EXCEPT ![wp[p]] = @ - 1]
    /\ running_children' = running_children - 1

(* fpm_pctl_child_exited, n children being left *)
LastGoneEarly(n)      == fpm_state # "NORMAL" /\ n <= 1
LastGoneReloading(n)  == fpm_state = "RELOADING" /\ n = 0
LastGone(n)           == fpm_state # "NORMAL" /\ n = 0

(* A dead child is unlinked; its death may be the last one a stop waits    *)
(* for, or the fault that trips the emergency restart (restart stands for  *)
(* restart_condition, which module EmergencyRestart decides); otherwise    *)
(* its pool is refilled.                                                   *)
ReapDead(p) ==
    /\ pc = "bury"
    /\ life[p] \in Dead
    /\ LET n == running_children - 1
           kids == Listed \ {p}
       IN /\ Unlink(p)
          /\ \/ /\ LastGone(n)
                /\ ActionLast(fpm_state)
                /\ Forget(kids)
                /\ UNCHANGED cur
             \/ /\ ~LastGone(n)
                /\ \E restart \in (IF life[p] = "crashed" THEN BOOLEAN ELSE {FALSE}) :
                      IF restart /\ fpm_state = "NORMAL"
                      THEN ActionNext("RELOADING", "none", n, kids, pipe, "refill")
                      ELSE /\ Forget(kids)
                           /\ pc' = "refill"
                           /\ UNCHANGED <<fpm_state, fpm_signal_sent, timer,
                                          inbox, gaveUp>>
                /\ cur' = IF pc' = "refill" THEN wp[p] ELSE NoPool
    /\ UNCHANGED <<todo, control>>

(* WIFSTOPPED: child->tracer, that is fpm_php_trace, dumps and resumes the *)
(* worker.  One of the signals held back may be swallowed by the detach,   *)
(* and a trace that gives up before the detach leaves the worker stopped.  *)
ReapStopped(p) ==
    /\ pc = "bury"
    /\ life[p] = "stopped"
    /\ \/ \E kept \in SUBSET held[p], caught \in BOOLEAN :
             /\ Cardinality(held[p] \ kept) <= 1
             /\ life' = [life EXCEPT ![p] =
                            IF "SIGTERM" \in kept /\ ~caught THEN "dying" ELSE "ready"]
             /\ held' = [held EXCEPT ![p] = {}]
             /\ chld' = TRUE
       \/ /\ life' = [life EXCEPT ![p] = "traced"]
          /\ UNCHANGED <<held, chld>>
    /\ UNCHANGED <<master, pipe, overrun, pools, making, control>>

(* waitpid has nothing more to report *)
NoneToReap ==
    /\ pc = "bury"
    /\ \A p \in Pid : life[p] \notin Dead \cup {"stopped"}
    /\ pc' = "signals"
    /\ UNCHANGED <<fpm_state, fpm_signal_sent, timer, inbox, pools, making,
                   procs, control>>

-----------------------------------------------------------------------------
(* fpm_children_make, from fpm_run ("create") or from the bury loop        *)
(* ("refill"): one turn of its while loop.                                 *)

WantedWhileStopping ==
    /\ pc \in {"create", "refill"}
    /\ running[cur] < MaxChildren[cur]

Wanted ==
    /\ pc \in {"create", "refill"}
    /\ fpm_state = "NORMAL"                  \* fpm_pctl_can_spawn_children
    /\ running[cur] < MaxChildren[cur]

(* fpm_child_link *)
Link(p) ==
    /\ wp' = [wp EXCEPT ![p] = cur]
    /\ running' = [running EXCEPT ![cur] = @ + 1]
    /\ running_children' = running_children + 1

Fork(p) ==
    /\ Wanted
    /\ life[p] = "none"
    /\ life' = [life EXCEPT ![p] = "booting"]
    /\ Link(p)
    /\ UNCHANGED <<master, inbox, gaveUp, making, held, control>>

MadeReapOnce ==
    /\ todo' = todo \ {cur}
    /\ \/ todo' = {} /\ cur' = NoPool /\ pc' = IF pc = "refill" THEN "signals" ELSE "loop"
       \/ cur' \in todo' /\ pc' = pc

MadeFirstPool ==
    /\ cur' = NoPool
    /\ todo' = {}
    /\ pc' = IF pc = "refill" THEN "bury" ELSE "loop"

(* The caller of fpm_children_make goes on: fpm_run with the next pool,    *)
(* then the event loop; fpm_children_bury with the next waitpid.           *)
Made ==
    \/ /\ pc = "refill"
       /\ pc' = "bury"
       /\ cur' = NoPool
       /\ UNCHANGED todo
    \/ /\ pc = "create"
       /\ todo' = todo \ {cur}
       /\ \/ todo' = {} /\ pc' = "loop" /\ cur' = NoPool
          \/ pc' = pc /\ cur' \in todo'

(* fpm_resources_prepare or fork() failed: no second try.                  *)
ForkFails ==
    /\ Wanted
    /\ gaveUp' = gaveUp \cup {cur}
    /\ Made
    /\ UNCHANGED <<fpm_state, fpm_signal_sent, timer, inbox, wp, running,
                   running_children, procs, control>>

Filled ==
    /\ pc \in {"create", "refill"}
    /\ ~Wanted
    /\ gaveUp' = IF fpm_state = "NORMAL" THEN gaveUp \ {cur} ELSE gaveUp
    /\ Made
    /\ UNCHANGED <<fpm_state, fpm_signal_sent, timer, inbox, wp, running,
                   running_children, procs, control>>

-----------------------------------------------------------------------------
(* fpm_init in a new image, the first or one fpm_pctl_exec has started.    *)

Start ==
    /\ pc = "init"
    /\ pc' = "create"
    /\ todo' = Pools
    /\ cur' \in Pools
    /\ UNCHANGED <<fpm_state, fpm_signal_sent, timer, inbox, pools, procs, control>>

StartFails ==
    /\ pc = "init"
    /\ pc' = "failed"
    /\ UNCHANGED <<fpm_state, fpm_signal_sent, timer, inbox, pools, making,
                   procs, control>>

-----------------------------------------------------------------------------
(* The workers.                                                            *)

(* fpm_signals_init_child: from here SIGTERM and SIGQUIT reach the worker. *)
Boot(p) ==
    /\ life[p] = "booting"
    /\ life' = [life EXCEPT ![p] = "ready"]
    /\ UNCHANGED <<master, inbox, pools, making, held, control>>

(* fpm_child_init fails; the accept loop ends on in_shutdown, on           *)
(* max_requests or on an error; or the worker is hit by SIGSEGV or SIGBUS. *)
Exit(p) ==
    /\ life[p] \in {"booting", "ready"}
    /\ \E l \in Dead : life' = [life EXCEPT ![p] = l]
    /\ chld' = TRUE
    /\ UNCHANGED <<master, pipe, overrun, pools, making, held, control>>

Die(p) ==
    /\ life[p] = "dying"
    /\ life' = [life EXCEPT ![p] = "zombie"]
    /\ chld' = TRUE
    /\ UNCHANGED <<master, pipe, overrun, pools, making, held, control>>

-----------------------------------------------------------------------------
(* sig_handler in the master, for SIGCHLD and for the operator's signals.  *)

SigChld ==
    /\ chld
    /\ pc \in Busy
    /\ chld' = FALSE
    /\ pipe' = Put("C")
    /\ overrun' = (overrun \/ (~Room /\ ~HasC(pipe)))
    /\ UNCHANGED <<master, pools, making, procs, control>>

(* Before fpm_signals_init_main every one of them has its default action.  *)
Operator(c) ==
    /\ control > 0
    /\ control' = control - 1
    /\ \/ pc \in Busy /\ pipe' = Put(c) /\ UNCHANGED pc
       \/ pc = "init" /\ pc' = "killed" /\ UNCHANGED pipe
    /\ UNCHANGED <<fpm_state, fpm_signal_sent, timer, chld, overrun, pools,
                   making, procs>>

Done ==
    /\ pc \in Ended
    /\ UNCHANGED vars

-----------------------------------------------------------------------------
Init ==
    /\ pc = "init"
    /\ fpm_state = "NORMAL"
    /\ fpm_signal_sent = "none"
    /\ timer = FALSE
    /\ pipe = <<>>
    /\ chld = FALSE
    /\ overrun = FALSE
    /\ wp = [p \in Pid |-> NoPool]
    /\ running = [w \in Pools |-> 0]
    /\ running_children = 0
    /\ cur = NoPool
    /\ todo = {}
    /\ gaveUp = {}
    /\ life = [p \in Pid |-> "none"]
    /\ held = [p \in Pid |-> {}]
    /\ control = MaxControl

Reap == \/ \E p \in Pid : ReapDead(p) \/ ReapStopped(p)
        \/ NoneToReap

Make == (\E p \in Pid : Fork(p)) \/ ForkFails \/ Filled

(* What the master does next once it is on the processor                   *)
MasterStep == ReadSignal \/ Drained \/ Reap \/ Make \/ SigChld

Next ==
    \/ MasterStep
    \/ PctlTimeout
    \/ Heartbeat
    \/ Start
    \/ StartFails
    \/ \E p \in Pid : Boot(p) \/ Exit(p) \/ Die(p)
    \/ \E c \in Commands : Operator(c)
    \/ Done

Spec == Init /\ [][Next]_vars

(* The kernel runs the master and delivers SIGCHLD; libevent runs an       *)
(* expired timer on its next pass however often the socket wakes it;       *)
(* waitpid finds the oldest report first; a process given a fatal signal   *)
(* dies.  Nothing makes a worker boot, finish its request or exit.         *)
Fairness ==
    /\ WF_vars(MasterStep)
    /\ SF_vars(PctlTimeout)
    /\ \A p \in Pid : SF_vars(ReapDead(p)) /\ SF_vars(ReapStopped(p))
    /\ \A p \in Pid : WF_vars(Die(p))

LiveSpec == Spec /\ Fairness

-----------------------------------------------------------------------------
(* What the socketpair can hold                                            *)
Pipes == {q \in Seq(Commands \cup {"C"}) : Len(q) <= PipeCap}

(* The type of every variable.                                             *)
TypeOK ==
    /\ pc \in Where
    /\ fpm_state \in States
    /\ fpm_signal_sent \in Sent
    /\ timer \in BOOLEAN
    /\ pipe \in Pipes
    /\ chld \in BOOLEAN
    /\ overrun \in BOOLEAN
    /\ wp \in [Pid -> Pools \cup {NoPool}]
    /\ running \in [Pools -> Nat]
    /\ running_children \in Nat
    /\ cur \in Pools \cup {NoPool}
    /\ todo \in SUBSET Pools
    /\ gaveUp \in SUBSET Pools
    /\ life \in [Pid -> Lives]
    /\ held \in [Pid -> SUBSET {"SIGQUIT", "SIGTERM"}]
    /\ control \in 0 .. MaxControl

(* The counters that fpm_children_make and fpm_pctl_action_next trust are  *)
(* the lengths of the lists, and the lists hold exactly the processes      *)
(* forked and not waited for: no child is forgotten, none counted twice.   *)
Bookkeeping ==
    /\ \A w \in Pools : running[w] = Cardinality(Children(w))
    /\ running_children = Cardinality(Listed)
    /\ \A p \in Pid : wp[p] = NoPool <=> life[p] = "none"

(* The master replaces its image or ends only when every worker it forked  *)
(* has been waited for, so no worker outlives it or serves a reloaded      *)
(* master it does not know.                                                *)
NoOrphan == pc \notin Busy => \A p \in Pid : life[p] = "none"

(* A dead or newly stopped worker always has something that will make the  *)
(* master call waitpid, although SIGCHLDs merge, arrive in the middle of   *)
(* fpm_children_bury and pass through a socket that drops what does not    *)
(* fit; the one exception is a socket full of signals of the operator's,   *)
(* which cannot be while it holds more of them than there are.             *)
NoLostReap ==
    (\E p \in Pid : life[p] \in Dead \cup {"stopped"}) =>
        \/ chld \/ HasC(pipe)
        \/ overrun /\ MaxControl >= PipeCap
        \/ pc \in {"bury", "refill"}

(* Whenever a stop or reload is in progress its escalation timer is armed, *)
(* a signal has been sent and a worker is still awaited: no interleaving   *)
(* of exits, faults and operator signals leaves the master waiting for     *)
(* nothing.                                                                *)
EscalationArmed ==
    fpm_state # "NORMAL" /\ pc \in Busy =>
        timer /\ fpm_signal_sent # "none" /\ running_children > 0

(* Once the escalation has reached SIGKILL every remaining child is dying  *)
(* or dead, those included that were booting, stopped or left traced when  *)
(* the earlier signals were sent.                                          *)
KillIsFinal ==
    fpm_signal_sent = "SIGKILL" =>
        \A p \in Listed : life[p] \in Dead \cup {"dying"}

(* A pool is never above its max_children (conf/php-fpm.conf.in:78), and   *)
(* outside the fork loops a master in its normal state has every pool full *)
(* unless its last attempt to fork for that pool failed.                   *)
PoolsFull ==
    /\ \A w \in Pools : Cardinality(Children(w)) <= MaxChildren[w]
    /\ fpm_state = "NORMAL" /\ pc \in {"loop", "signals", "bury"} =>
          \A w \in Pools \ gaveUp : Cardinality(Children(w)) = MaxChildren[w]

(* Within one image the state only moves to one that may override it, and  *)
(* while it stands the escalation never falls back to a weaker signal (a   *)
(* repeated SIGQUIT or SIGUSR2 does not restart the grace period).         *)
Strength(s) == CASE s = "none" -> 0 [] s = "SIGQUIT" -> 1
                 [] s = "SIGTERM" -> 2 [] OTHER -> 3

NeverWeaker ==
    [][{pc, pc'} \subseteq Busy =>
          IF fpm_state' = fpm_state
          THEN Strength(fpm_signal_sent') >= Strength(fpm_signal_sent)
          ELSE CanOverride(fpm_state', fpm_state)]_vars

(* No worker is forked from the moment a stop or reload is decided, also   *)
(* when the death being buried is what decides it.                         *)
NoSpawnWhileStopping ==
    [][(\E p \in Pid : life[p] = "none" /\ life'[p] # "none") =>
          fpm_state = "NORMAL" /\ fpm_state' = "NORMAL"]_vars

(* A stop ends with the exit of the master, whatever its workers do with   *)
(* SIGQUIT and SIGTERM, and a reload replaces the image, unless a stop     *)
(* overtakes it or the exec fails: man/php-fpm.1.in:114-120.               *)
CommandsComplete ==
    /\ (pc \in Busy /\ fpm_state \in {"FINISHING", "TERMINATING"}) ~> (pc = "exited")
    /\ (fpm_state = "RELOADING") ~> (pc \in {"init", "exited", "failed"})

(* Every death is waited for, so no zombie keeps a place in its pool.      *)
EveryDeathReaped ==
    \A p \in Pid : (life[p] \in Dead) ~> (life[p] \notin Dead)

-----------------------------------------------------------------------------
(* The master implements Supervisor: its lists are the crews, and it is    *)
(* starting while it is in fpm_init.                                       *)
Phase == CASE pc \in Busy -> "up" [] pc = "init" -> "starting" [] OTHER -> "down"

Abstract == INSTANCE Supervisor
    WITH goal <- fpm_state, crew <- [w \in Pools |-> Children(w)], up <- Phase

(* Every step of the master is a step its users were promised.             *)
Supervises == Abstract!Spec

=============================================================================
