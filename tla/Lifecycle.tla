------------------------------ MODULE Lifecycle -------------------------------
(***************************************************************************)
(* Masters from start to end, and the files that outlive them: fpm_init    *)
(* with its initialisers in their order and their failures (fpm/fpm.c),    *)
(* the fork of a daemon (fpm/fpm_unix.c), the pid file (fpm/fpm_conf.c),   *)
(* the stack of cleanups (fpm/fpm_cleanup.c) run by a daemon's parent, on  *)
(* an exit, on an exec and in a worker, and the way a worker takes from    *)
(* fork to its accept loop.  The init script (conf/init.d.php-fpm.in)      *)
(* starts, stops, restarts and reloads; masters may overlap.               *)
(*                                                                         *)
(* What a running master does with its workers is in FpmMaster: here it    *)
(* runs until a stop or a reload is through.  One pool, one address.       *)
(*                                                                         *)
(* Some definitions are the code with a slip in it, each beside the one it *)
(* varies, and no specification uses them: AfterPidEarly, UnlinksAlways,   *)
(* RefusedIfBoth.                                                          *)
(***************************************************************************)
EXTENDS Naturals, Sequences, FiniteSets

CONSTANTS
    Pid,          \* process ids of masters and those who start them
    Nobody,       \* no process
    NoFile,       \* the pid file does not exist
    Blank,        \* it is there and empty
    Configs,      \* what the configuration file may say, a set of Config
    MaxCommands,  \* bound: commands of the init script
    MaxKills      \* bound: masters killed

ASSUME PidAssumption == IsFiniteSet(Pid) /\ {Nobody, NoFile, Blank} \cap Pid = {}
ASSUME BoundAssumption == MaxCommands \in Nat /\ MaxKills \in Nat

(* gid of a user: the group his passwd entry names                         *)
User  == [kind : {"unset", "number", "name", "unknown"}, uid : Nat, gid : Nat]
Group == [kind : {"unset", "number", "name", "unknown"}, gid : Nat]

Config == [daemonize : BOOLEAN, chroot : BOOLEAN, user : User, group : Group]

ASSUME ConfigAssumption == Configs # {} /\ Configs \subseteq Config

VARIABLES
    proc,      \* the masters, see Process
    worker,    \* one worker, see Worker
    pid_file,  \* whose number it holds
    path,      \* the socket the Unix socket's file leads to, 0: no file
    script,    \* the init script
    euid,      \* who runs masters, 0 is root
    domain,    \* the address is a Unix or an internet one
    commands,  \* commands given
    kills,     \* masters killed
    overlap,   \* history: a socket was created while another was open
    unclean    \* history: since the pid file was written last, one that had it
               \* or a socket ended otherwise than by fpm_pctl_exit

history == <<overlap, unclean>>
fixed   == <<euid, domain>>
vars    == <<proc, worker, pid_file, path, script, fixed, commands, kills, history>>

Socket == 1 .. (Cardinality(Pid) + 2)

(* fpm_cleanup.h: by whom a cleanup is run                                 *)
Ways   == {"CHILD", "PARENT_EXIT", "PARENT_EXIT_MAIN", "PARENT_EXEC"}
PARENT == Ways \ {"CHILD"}

Cleanup ==
    [php |-> PARENT, conf |-> Ways, pctl |-> Ways, children |-> Ways,
     sockets |-> Ways, pool |-> Ways, event |-> Ways]

(* fpm_init, the pid file last.  A step stands for the initialisers up to  *)
(* the next one that others can see: "start" for php and stdio, "identity" *)
(* for the rest of fpm_unix_init_main and env, "signals" for signals, pctl *)
(* and children, "sockets" for sockets, worker_pool and event.             *)
AfterPidEarly ==
    [start |-> "conf", conf |-> "creat", creat |-> "write", write |-> "unix",
     unix |-> "identity", identity |-> "signals", signals |-> "sockets",
     sockets |-> "running"]
After ==
    [start |-> "conf", conf |-> "unix", unix |-> "identity",
     identity |-> "signals", signals |-> "sockets", sockets |-> "creat",
     creat |-> "write", write |-> "running"]

(* the cleanups they register                                              *)
Registers ==
    [step \in DOMAIN After |->
        CASE step = "start"   -> <<"php">>
          [] step = "conf"    -> <<"conf">>
          [] step = "signals" -> <<"pctl", "children">>
          [] step = "sockets" -> <<"sockets", "pool", "event">>
          [] OTHER            -> <<>>]

(* sigaction() has not been called: a signal kills                         *)
Unprepared == {"start", "conf", "unix", "identity", "signals"}
Leaving    == {"unlink", "cleanup"}

Process ==
    [at : DOMAIN After \cup {"running", "none"} \cup Leaving,
     way : Ways, stack : Seq(DOMAIN Cleanup), conf : Configs,
     sock : Socket \cup {0}, inherits : BOOLEAN,
     told : {"", "USR2", "QUIT"}, served : BOOLEAN]

NoConf == CHOOSE c \in Configs : TRUE

NoProcess ==
    [at |-> "none", way |-> "PARENT_EXIT", stack |-> <<>>, conf |-> NoConf,
     sock |-> 0, inherits |-> FALSE, told |-> "", served |-> FALSE]

Launched == [NoProcess EXCEPT !.at = "start"]

NoWorker ==
    [of |-> Nobody, at |-> "none", uid |-> 0, gid |-> 0, groups |-> "master",
     jail |-> FALSE, env |-> "master", stack |-> <<>>, sock |-> 0, conf |-> NoConf]

IsAt(p, step) == proc[p].at = step
Free          == {p \in Pid : IsAt(p, "none")}

Put(p, r) == proc' = [proc EXCEPT ![p] = r]

-----------------------------------------------------------------------------
(* What the death of a process does, whichever way: the kernel closes its  *)
(* sockets, and the init script learns of the one it has started.          *)

Tell(p, code) ==
    script' = IF script.doing = "launching" /\ script.pid = p
              THEN [script EXCEPT !.doing = IF code = 0 THEN "created" ELSE "idle",
                                  !.pid = Nobody]
              ELSE script

Die(p) ==
    /\ Put(p, NoProcess)
    /\ Tell(p, 1)
    /\ unclean' = (unclean \/ proc[p].served \/ proc[p].sock # 0)

(* an initialiser fails: main returns, and no cleanup is run               *)
Fail(p) ==
    /\ proc[p].at \in DOMAIN After
    /\ Die(p)
    /\ UNCHANGED <<worker, pid_file, path, fixed, commands, kills, overlap>>

-----------------------------------------------------------------------------
(* fpm_init.                                                               *)

Done(p) == [proc[p] EXCEPT !.at = After[@], !.stack = @ \o Registers[proc[p].at]]

(* those that do nothing the others could see                              *)
Initialise(p) ==
    /\ proc[p].at \in {"start", "signals"}
    /\ Put(p, Done(p))
    /\ UNCHANGED <<worker, pid_file, path, script, fixed, commands, kills, history>>

(* fpm_conf_init_main: whatever the file says now                          *)
LoadConf(p) ==
    /\ IsAt(p, "conf")
    /\ \E c \in Configs : Put(p, [Done(p) EXCEPT !.conf = c])
    /\ UNCHANGED <<worker, pid_file, path, script, fixed, commands, kills, history>>

(* fpm_unix_init_main: a daemon goes on in a new process; its parent runs  *)
(* the cleanups registered so far and exits                                *)
Daemonize(p) ==
    /\ IsAt(p, "unix")
    /\ IF proc[p].conf.daemonize
       THEN \E q \in Free :
              proc' = [proc EXCEPT ![q] = Done(p),
                                   ![p].at = "cleanup",
                                   ![p].way = "PARENT_EXIT"]
       ELSE Put(p, Done(p))
    /\ UNCHANGED <<worker, pid_file, path, script, fixed, commands, kills, history>>

(* fpm_unix_conf_wp                                                        *)
Named == {"number", "name"}

set_uid(c) == IF c.user.kind \in Named THEN c.user.uid ELSE 0
set_gid(c) ==
    IF c.group.kind \in Named THEN c.group.gid
    ELSE IF c.user.kind = "name" THEN c.user.gid ELSE 0

RefusedIfBoth(c) == set_uid(c) = 0 /\ set_gid(c) = 0
Refused(c)       == set_uid(c) = 0 \/ set_gid(c) = 0

Identity(p) ==
    LET c == proc[p].conf
    IN  /\ IsAt(p, "identity")
        /\ euid = 0 => /\ c.user.kind # "unknown" /\ c.group.kind # "unknown"
                       /\ ~Refused(c)
        /\ Put(p, Done(p))
        /\ UNCHANGED <<worker, pid_file, path, script, fixed, commands, kills, history>>

(* fpm_sockets_init_main: inherited, or created; on an internet address    *)
(* only if nobody has it                                                   *)
Held == {proc[p].sock : p \in Pid} \cup {worker.sock}

NewSocket == CHOOSE s \in Socket : s \notin Held \cup {path}

GetSocket(p) ==
    /\ IsAt(p, "sockets")
    /\ IF proc[p].inherits
       THEN /\ Put(p, Done(p))
            /\ UNCHANGED <<path, overlap>>
       ELSE /\ domain = "inet" => Held = {0}
            /\ Put(p, [Done(p) EXCEPT !.sock = NewSocket])
            /\ path' = IF domain = "unix" THEN NewSocket ELSE path
            /\ overlap' = (overlap \/ Held # {0})
    /\ UNCHANGED <<worker, pid_file, script, fixed, commands, kills, unclean>>

(* the old file is unlinked, perhaps the new one bound, before it fails    *)
CreateFails(p) ==
    /\ IsAt(p, "sockets") /\ ~proc[p].inherits
    /\ path' \in (IF domain = "unix" THEN {0, NewSocket} ELSE {path})
    /\ overlap' = (overlap \/ (domain = "unix" /\ Held # {0}))
    /\ Put(p, NoProcess)
    /\ Tell(p, 1)
    /\ unclean' = TRUE
    /\ UNCHANGED <<worker, pid_file, fixed, commands, kills>>

(* fpm_conf_write_pid                                                      *)
CreatPid(p) ==
    /\ IsAt(p, "creat")
    /\ pid_file' = Blank
    /\ Put(p, Done(p))
    /\ UNCHANGED <<worker, path, script, fixed, commands, kills, history>>

(* creat() has failed after the unlink()                                   *)
CreatFails(p) ==
    /\ IsAt(p, "creat")
    /\ pid_file' = NoFile
    /\ Die(p)
    /\ UNCHANGED <<worker, path, fixed, commands, kills, overlap>>

WritePid(p) ==
    /\ IsAt(p, "write")
    /\ pid_file' = p
    /\ Put(p, [Done(p) EXCEPT !.served = TRUE])
    /\ unclean' = FALSE
    /\ UNCHANGED <<worker, path, script, fixed, commands, kills, overlap>>

-----------------------------------------------------------------------------
(* The ways out.                                                           *)

(* A stop is through: fpm_pctl_exit.  A reload is: fpm_pctl_exec.  Neither *)
(* happens over a worker (NoOrphan of FpmMaster).                          *)
Leave(p) ==
    /\ IsAt(p, "running")
    /\ proc[p].told # ""
    /\ worker.of # p
    /\ Put(p, IF proc[p].told = "QUIT"
              THEN [proc[p] EXCEPT !.at = "unlink", !.way = "PARENT_EXIT_MAIN"]
              ELSE [proc[p] EXCEPT !.at = "cleanup", !.way = "PARENT_EXEC"])
    /\ UNCHANGED <<worker, pid_file, path, script, fixed, commands, kills, history>>

(* fpm_conf_unlink_pid                                                     *)
UnlinkPid(p) ==
    /\ IsAt(p, "unlink")
    /\ pid_file' = NoFile
    /\ Put(p, [proc[p] EXCEPT !.at = "cleanup"])
    /\ UNCHANGED <<worker, path, script, fixed, commands, kills, history>>

UnlinksAlways(way) == TRUE
Unlinks(way)       == way = "PARENT_EXIT_MAIN"

(* fpm_cleanups_run for one way out, the last entry first; the one of the  *)
(* sockets is seen from outside, and the others run with it                *)
Runs(p, name) ==
    /\ name \in {proc[p].stack[i] : i \in DOMAIN proc[p].stack}
    /\ proc[p].way \in Cleanup[name]

Clean(p) ==
    /\ IsAt(p, "cleanup") /\ proc[p].stack # <<>>
    /\ Put(p, [proc[p] EXCEPT
                !.stack    = <<>>,
                !.inherits = @ \/ (Runs(p, "sockets") /\ proc[p].way = "PARENT_EXEC"),
                !.sock     = IF Runs(p, "sockets") /\ proc[p].way # "PARENT_EXEC"
                             THEN 0 ELSE @])
    /\ path' = IF Runs(p, "sockets") /\ Unlinks(proc[p].way) /\ domain = "unix"
                THEN 0 ELSE path
    /\ UNCHANGED <<worker, pid_file, script, fixed, commands, kills, history>>

Cleaned(p, way) == IsAt(p, "cleanup") /\ proc[p].stack = <<>> /\ proc[p].way = way

Exit(p) ==
    /\ \E way \in {"PARENT_EXIT", "PARENT_EXIT_MAIN"} : Cleaned(p, way)
    /\ Put(p, NoProcess)
    /\ Tell(p, 0)
    /\ UNCHANGED <<worker, pid_file, path, fixed, commands, kills, history>>

(* execvp: the image begins anew, in the same process, with its sockets    *)
Exec(p) ==
    /\ Cleaned(p, "PARENT_EXEC")
    /\ Put(p, [Launched EXCEPT !.sock = proc[p].sock, !.inherits = TRUE,
                               !.served = TRUE])
    /\ UNCHANGED <<worker, pid_file, path, script, fixed, commands, kills, history>>

ExecFails(p) ==
    /\ Cleaned(p, "PARENT_EXEC")
    /\ Die(p)
    /\ UNCHANGED <<worker, pid_file, path, fixed, commands, kills, overlap>>

(* SIGKILL, or a crash, of a running master                                *)
Killed(p) ==
    /\ IsAt(p, "running")
    /\ kills < MaxKills
    /\ kills' = kills + 1
    /\ Die(p)
    /\ UNCHANGED <<worker, pid_file, path, fixed, commands, overlap>>

-----------------------------------------------------------------------------
(* One worker: fpm_child_init, then the cleanups of a child, then main's   *)
(* loop.  What fails ends it.                                              *)

Fork(p) ==
    /\ IsAt(p, "running") /\ proc[p].told = ""
    /\ worker.at = "none"
    /\ worker' = [NoWorker EXCEPT !.of = p, !.at = "stdio", !.uid = euid,
                                  !.gid = euid, !.stack = proc[p].stack,
                                  !.sock = proc[p].sock, !.conf = proc[p].conf]
    /\ UNCHANGED <<proc, pid_file, path, script, fixed, commands, kills, history>>

Works(w) ==
    /\ worker' = w
    /\ UNCHANGED <<proc, pid_file, path, script, fixed, commands, kills, history>>

WorkerAt(step) == worker.at = step

(* fpm_unix_init_child: the kernel lets only root do these; the uid last   *)
Jail ==
    /\ WorkerAt("stdio")
    /\ Works([worker EXCEPT !.at = "setgid", !.jail = euid = 0 /\ worker.conf.chroot])

SetGid ==
    /\ WorkerAt("setgid")
    /\ IF euid = 0 /\ set_gid(worker.conf) # 0
       THEN /\ worker.uid = 0
            /\ Works([worker EXCEPT !.at = "initgroups", !.gid = set_gid(worker.conf)])
       ELSE Works([worker EXCEPT !.at = "initgroups"])

InitGroups ==
    /\ WorkerAt("initgroups")
    /\ IF euid = 0 /\ set_uid(worker.conf) # 0
       THEN /\ worker.uid = 0
            /\ Works([worker EXCEPT !.at = "setuid", !.groups = "pool"])
       ELSE Works([worker EXCEPT !.at = "setuid"])

SetUid ==
    /\ WorkerAt("setuid")
    /\ Works([worker EXCEPT !.at = "env",
                            !.uid = IF euid = 0 /\ set_uid(worker.conf) # 0
                                    THEN set_uid(worker.conf) ELSE @])

(* fpm_signals_init_child, fpm_env_init_child, fpm_php_init_child          *)
ChildEnv ==
    /\ WorkerAt("env")
    /\ Works([worker EXCEPT !.at = "cleanup", !.env = "pool"])

(* Its cleanups close the listening socket; descriptor 0 is a duplicate.   *)
CleanChild ==
    /\ WorkerAt("cleanup")
    /\ Works([worker EXCEPT !.at = "serving", !.stack = <<>>])

WorkerEnds ==
    /\ worker.at # "none"
    /\ Works(NoWorker)

WorkerSteps ==
    \/ Jail \/ SetGid \/ InitGroups \/ SetUid \/ ChildEnv \/ CleanChild \/ WorkerEnds

-----------------------------------------------------------------------------
(* The init script: one command at a time.                                 *)

Stronger(told, signal) == IF told = "QUIT" THEN told ELSE signal

Signal(p, signal) ==
    CASE p \notin Pid \/ p \in Free ->
            UNCHANGED <<proc, unclean>>
      [] p \in Pid \ Free /\ proc[p].at \in Unprepared ->
            /\ Put(p, NoProcess)
            /\ unclean' = (unclean \/ proc[p].served)
      [] OTHER ->
            /\ Put(p, [proc[p] EXCEPT !.told = Stronger(@, signal)])
            /\ UNCHANGED unclean

Command ==
    /\ script.doing = "idle"
    /\ commands < MaxCommands
    /\ commands' = commands + 1
    /\ UNCHANGED <<worker, pid_file, path, fixed, kills, overlap>>

Launch(p) ==
    /\ Put(p, Launched)
    /\ script' = [doing |-> "launching", pid |-> p, again |-> FALSE]

Start ==
    /\ Command
    /\ \E p \in Free : Launch(p)
    /\ UNCHANGED unclean

(* stop, or restart: stop and then start, whatever became of the stop      *)
Stop(again) ==
    /\ Command
    /\ IF pid_file = NoFile
       THEN IF again THEN (\E p \in Free : Launch(p)) /\ UNCHANGED unclean
            ELSE UNCHANGED <<proc, script, unclean>>
       ELSE /\ Signal(pid_file, "QUIT")
            /\ script' = [doing |-> "removed", pid |-> Nobody, again |-> again]

Reload ==
    /\ Command
    /\ pid_file # NoFile
    /\ Signal(pid_file, "USR2")
    /\ UNCHANGED script

(* wait_for_pid: looks once a second, and gives up after 35 times          *)
WaitCreated ==
    /\ script.doing = "created"
    /\ script' = [script EXCEPT !.doing = "idle"]
    /\ UNCHANGED <<proc, worker, pid_file, path, fixed, commands, kills, history>>

WaitRemoved ==
    /\ script.doing = "removed"
    /\ IF script.again THEN \E p \in Free : Launch(p)
       ELSE script' = [script EXCEPT !.doing = "idle"] /\ UNCHANGED proc
    /\ UNCHANGED <<worker, pid_file, path, fixed, commands, kills, history>>

Script ==
    \/ Start \/ Reload \/ WaitCreated \/ WaitRemoved
    \/ \E again \in BOOLEAN : Stop(again)

-----------------------------------------------------------------------------
Init ==
    /\ proc = [p \in Pid |-> NoProcess]
    /\ worker = NoWorker
    /\ pid_file = NoFile /\ path = 0
    /\ script = [doing |-> "idle", pid |-> Nobody, again |-> FALSE]
    /\ euid \in {0, 1} /\ domain \in {"unix", "inet"}
    /\ commands = 0 /\ kills = 0
    /\ overlap = FALSE /\ unclean = FALSE

Master(p) ==
    \/ Fail(p) \/ Initialise(p) \/ LoadConf(p) \/ Daemonize(p) \/ Identity(p)
    \/ GetSocket(p) \/ CreateFails(p) \/ CreatPid(p) \/ CreatFails(p) \/ WritePid(p)
    \/ Leave(p) \/ UnlinkPid(p) \/ Clean(p) \/ Exit(p) \/ Exec(p) \/ ExecFails(p)
    \/ Killed(p) \/ Fork(p)

Next == (\E p \in Pid : Master(p)) \/ WorkerSteps \/ Script

Spec == Init /\ [][Next]_vars

-----------------------------------------------------------------------------
(* The type of every variable.                                             *)
TypeOK ==
    /\ proc \in [Pid -> Process]
    /\ worker.of \in Pid \cup {Nobody}
    /\ worker.sock \in Socket \cup {0}
    /\ pid_file \in Pid \cup {NoFile, Blank}
    /\ path \in Socket \cup {0}
    /\ script \in [doing : {"idle", "launching", "created", "removed"},
                   pid : Pid \cup {Nobody}, again : BOOLEAN]
    /\ overlap \in BOOLEAN /\ unclean \in BOOLEAN

(* Clients reach a master from the moment it listens: the path of its      *)
(* Unix socket leads to its socket over every reload, whether it becomes a *)
(* daemon or not, until a stop is through with its pid file; except where  *)
(* a second master has been started over one that still listened.          *)
Reachable ==
    \A p \in Pid :
        /\ domain = "unix" /\ ~overlap /\ proc[p].sock # 0
        /\ proc[p].at \notin Leaving \/ proc[p].way = "PARENT_EXEC"
        => path = proc[p].sock

(* conf/init.d.php-fpm.in, man/php-fpm.1.in:110: the pid file tells        *)
(* whether a master runs and which.  When nothing is on its way in or out, *)
(* it names the one master that runs, or there is no master, no file, and  *)
(* no socket left over; except after an end other than a stop, or where    *)
(* masters have overlapped.  Types included.                               *)
Resting == \A p \in Pid : proc[p].at \in {"running", "none"}

FilesTell ==
    /\ TypeOK
    /\ Resting /\ ~overlap =>
        /\ \A p \in Pid : IsAt(p, "running") => pid_file = p
        /\ ~unclean /\ Free = Pid => pid_file = NoFile /\ path = 0

(* A worker that serves is what the configuration says: under a master     *)
(* run by root it is neither root nor of root's group, has the pool's      *)
(* groups and is in its jail, whatever the configuration names and whichever *)
(* call fails; and it has the pool's environment.                          *)
WorkerUnprivileged ==
    worker.at = "serving" =>
        /\ worker.env = "pool"
        /\ euid = 0 => /\ worker.uid # 0 /\ worker.gid # 0
                       /\ worker.groups = "pool"
                       /\ worker.jail = worker.conf.chroot
=============================================================================
