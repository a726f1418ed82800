--------------------------- MODULE LifecycleProofs ---------------------------
(***************************************************************************)
(* Proofs about Lifecycle, for every number of processes, every            *)
(* configuration, and any number of commands and kills.                    *)
(***************************************************************************)
EXTENDS Lifecycle, FiniteSetTheorems, SequenceTheorems, TLAPS

Names == DOMAIN Cleanup

(* fpm_sockets_init_main has registered its cleanup.                       *)
Registered(stack) == "sockets" \in {stack[i] : i \in DOMAIN stack}

(* A process whose sockets are its own, and not those its child, the       *)
(* daemon, goes on with                                                    *)
Holder(r) == r.sock # 0 /\ ~(r.at \in Leaving /\ r.way = "PARENT_EXIT")

(* ... and has not given them up                                           *)
Listens(r) == r.sock # 0 /\ (r.at \notin Leaving \/ r.way = "PARENT_EXEC")

(* ... and has not removed its pid file                                    *)
Keeper(r) == Holder(r) /\ ~(r.at = "cleanup" /\ r.way = "PARENT_EXIT_MAIN")

(* What a process has where it is: its sockets from fpm_sockets_init_main  *)
(* on, or from the beginning if it inherits them from the image before,    *)
(* and their cleanup from then on, until it is run.                        *)
Shaped(r) ==
    /\ r.at = "none" => r.sock = 0
    /\ r.at \in Unprepared \cup {"sockets"} =>
          /\ r.inherits <=> r.sock # 0
          /\ r.inherits => r.served
          /\ ~Registered(r.stack)
    /\ r.at \in {"creat", "write", "running", "unlink"} =>
          r.sock # 0 /\ Registered(r.stack)
    /\ r.at = "unlink" => r.way = "PARENT_EXIT_MAIN"
    /\ r.at = "cleanup" =>
          /\ r.way # "CHILD"
          /\ r.way = "PARENT_EXEC" => r.sock # 0
          /\ r.way = "PARENT_EXIT" => ~Registered(r.stack)
          /\ r.way = "PARENT_EXIT_MAIN" =>
                /\ r.sock # 0 <=> r.stack # <<>>
                /\ r.stack # <<>> => Registered(r.stack)

(* fpm_unix_conf_wp has refused the users and groups it must refuse.       *)
Fit(r) ==
    r.at \in {"signals", "sockets", "creat", "write", "running"} /\ euid = 0 =>
        ~Refused(r.conf)

(* Nobody else has sockets.                                                *)
Alone ==
    ~overlap => \A p, q \in Pid : Holder(proc[p]) /\ Holder(proc[q]) => p = q

(* What the files say is so, and if nothing was left behind there is       *)
(* somebody who will remove them.                                          *)
Files ==
    /\ domain = "inet" => path = 0
    /\ ~overlap => \A p \in Pid :
          /\ proc[p].at = "running" => pid_file = p
          /\ Listens(proc[p]) /\ domain = "unix" => path = proc[p].sock
    /\ ~overlap /\ ~unclean =>
          /\ pid_file # NoFile => \E p \in Pid : Keeper(proc[p])
          /\ path # 0 => \E p \in Pid : Holder(proc[p])

(* The worker on its way from root to the pool's user                      *)
WorkerType ==
    [of : Pid \cup {Nobody},
     at : {"none", "stdio", "setgid", "initgroups", "setuid", "env", "cleanup", "serving"},
     uid : Nat, gid : Nat, groups : {"master", "pool"}, jail : BOOLEAN,
     env : {"master", "pool"}, stack : Seq(Names), sock : Socket \cup {0},
     conf : Configs]

Dressed ==
    /\ worker \in WorkerType
    /\ euid = 0 =>
        /\ worker.at # "none" => ~Refused(worker.conf)
        /\ worker.at \notin {"none", "stdio"} => worker.jail = worker.conf.chroot
        /\ worker.at \notin {"none", "stdio", "setgid"} => worker.gid # 0
        /\ worker.at \notin {"none", "stdio", "setgid", "initgroups"} =>
              worker.groups = "pool"
        /\ worker.at \in {"env", "cleanup", "serving"} => worker.uid # 0
    /\ worker.at \in {"cleanup", "serving"} => worker.env = "pool"

Holding ==
    /\ proc \in [Pid -> Process]
    /\ \A p \in Pid : Shaped(proc[p]) /\ Fit(proc[p])
    /\ Alone
    /\ Files

IInv ==
    /\ TypeOK
    /\ euid \in {0, 1} /\ domain \in {"unix", "inet"}
    /\ Holding
    /\ Dressed

-----------------------------------------------------------------------------
(* fpm_init, step by step, and what is registered                          *)
LEMMA Steps ==
    /\ DOMAIN After = {"start", "conf", "unix", "identity", "signals", "sockets",
                       "creat", "write"}
    /\ After["start"] = "conf" /\ After["conf"] = "unix"
    /\ After["unix"] = "identity" /\ After["identity"] = "signals"
    /\ After["signals"] = "sockets" /\ After["sockets"] = "creat"
    /\ After["creat"] = "write" /\ After["write"] = "running"
<1>1. DOMAIN After = {"start", "conf", "unix", "identity", "signals", "sockets",
                      "creat", "write"}
  BY DEF After
<1>2. QED
  BY <1>1 DEF After

(* the names under which cleanups are registered                           *)
LEMMA CleanupNames ==
    Names = {"php", "conf", "pctl", "children", "sockets", "pool", "event"}
BY DEF Names, Cleanup

(* what a step registers, and that the sockets' cleanup is of one step     *)
LEMMA RegistersNames ==
    \A step \in DOMAIN After :
        /\ Registers[step] \in Seq(Names)
        /\ Registered(Registers[step]) <=> step = "sockets"
<1> SUFFICES ASSUME NEW step \in DOMAIN After
             PROVE  /\ Registers[step] \in Seq(Names)
                    /\ Registered(Registers[step]) <=> step = "sockets"
  OBVIOUS
<1> DEFINE R == Registers[step]
<1>1. R = CASE step = "start"   -> <<"php">>
            [] step = "conf"    -> <<"conf">>
            [] step = "signals" -> <<"pctl", "children">>
            [] step = "sockets" -> <<"sockets", "pool", "event">>
            [] OTHER            -> <<>>
  BY DEF Registers
<1>2. CASE step = "start"
  <2>1. R = <<"php">>
    BY <1>1, <1>2
  <2>2. QED
    BY <2>1, <1>2, CleanupNames DEF Registered
<1>3. CASE step = "conf"
  <2>1. R = <<"conf">>
    BY <1>1, <1>3
  <2>2. QED
    BY <2>1, <1>3, CleanupNames DEF Registered
<1>4. CASE step = "signals"
  <2>1. R = <<"pctl", "children">>
    BY <1>1, <1>4
  <2>2. QED
    BY <2>1, <1>4, CleanupNames DEF Registered
<1>5. CASE step = "sockets"
  <2>1. R = <<"sockets", "pool", "event">>
    BY <1>1, <1>5
  <2>2. R[1] = "sockets" /\ 1 \in DOMAIN R
    BY <2>1
  <2>3. R \in Seq(Names)
    BY <2>1, CleanupNames
  <2>4. QED
    BY <2>2, <2>3, <1>5 DEF Registered
<1>6. CASE step \notin {"start", "conf", "signals", "sockets"}
  <2>1. R = <<>>
    BY <1>1, <1>6
  <2>2. QED
    BY <2>1, <1>6 DEF Registered
<1>7. QED
  BY <1>2, <1>3, <1>4, <1>5, <1>6

(* Appending to the stack of cleanups adds what is appended.               *)
LEMMA RegisteredConcat ==
    ASSUME NEW s \in Seq(Names), NEW t \in Seq(Names)
    PROVE  /\ s \o t \in Seq(Names)
           /\ Registered(s \o t) <=> Registered(s) \/ Registered(t)
<1>1. /\ s \o t \in Seq(Names)
      /\ Len(s \o t) = Len(s) + Len(t)
      /\ \A i \in 1 .. Len(s) + Len(t) :
            (s \o t)[i] = IF i <= Len(s) THEN s[i] ELSE t[i - Len(s)]
  BY ConcatProperties
<1>2. /\ DOMAIN s = 1 .. Len(s) /\ Len(s) \in Nat
      /\ DOMAIN t = 1 .. Len(t) /\ Len(t) \in Nat
      /\ DOMAIN (s \o t) = 1 .. Len(s) + Len(t)
  BY <1>1
<1>3. ASSUME Registered(s)
      PROVE  Registered(s \o t)
  <2>1. PICK i \in DOMAIN s : s[i] = "sockets"
    BY <1>3 DEF Registered
  <2>2. i \in DOMAIN (s \o t) /\ (s \o t)[i] = "sockets"
    BY <1>1, <1>2, <2>1
  <2>3. QED
    BY <2>2 DEF Registered
<1>4. ASSUME Registered(t)
      PROVE  Registered(s \o t)
  <2>1. PICK i \in DOMAIN t : t[i] = "sockets"
    BY <1>4 DEF Registered
  <2>2. i + Len(s) \in DOMAIN (s \o t) /\ (s \o t)[i + Len(s)] = "sockets"
    BY <1>1, <1>2, <2>1
  <2>3. QED
    BY <2>2 DEF Registered
<1>5. ASSUME Registered(s \o t)
      PROVE  Registered(s) \/ Registered(t)
  <2>1. PICK i \in DOMAIN (s \o t) : (s \o t)[i] = "sockets"
    BY <1>5 DEF Registered
  <2>2. CASE i <= Len(s)
    <3>1. i \in DOMAIN s /\ s[i] = "sockets"
      BY <1>1, <1>2, <2>1, <2>2
    <3>2. QED
      BY <3>1 DEF Registered
  <2>3. CASE i > Len(s)
    <3>1. i - Len(s) \in DOMAIN t /\ t[i - Len(s)] = "sockets"
      BY <1>1, <1>2, <2>1, <2>3
    <3>2. QED
      BY <3>1 DEF Registered
  <2>4. QED
    BY <1>2, <2>1, <2>2, <2>3
<1>6. QED
  BY <1>1, <1>3, <1>4, <1>5

(* An empty stack has no cleanup.                                          *)
LEMMA NothingRegistered == ~Registered(<<>>) /\ <<>> \in Seq(Names)
BY DEF Registered

(* types of what is not there, or only just                                *)
LEMMA NoProcessType ==
    /\ NoConf \in Configs
    /\ NoProcess \in Process /\ Launched \in Process
    /\ NoWorker \in WorkerType
<1>1. NoConf \in Configs
  BY ConfigAssumption DEF NoConf
<1>2. "none" \in DOMAIN After \cup {"running", "none"} \cup Leaving
      /\ "start" \in DOMAIN After
  BY Steps
<1>3. <<>> \in Seq(DOMAIN Cleanup) /\ <<>> \in Seq(Names)
  OBVIOUS
<1>4. NoProcess \in Process
  BY <1>1, <1>2, <1>3 DEF NoProcess, Process, Ways
<1>5. Launched \in Process
  BY <1>2, <1>4 DEF Launched, Process
<1>6. NoWorker \in WorkerType
  BY <1>1, <1>3 DEF NoWorker, WorkerType
<1>7. QED
  BY <1>1, <1>4, <1>5, <1>6

(* What a step of fpm_init makes of a process                              *)
LEMMA DoneFacts ==
    ASSUME TypeOK, NEW p \in Pid, proc[p].at \in DOMAIN After
    PROVE  LET r == proc[p]
               d == Done(p)
           IN  /\ d \in Process
               /\ d.at = After[r.at]
               /\ d.way = r.way /\ d.conf = r.conf /\ d.sock = r.sock
               /\ d.inherits = r.inherits /\ d.told = r.told
               /\ d.served = r.served
               /\ Registered(d.stack) <=> Registered(r.stack) \/ r.at = "sockets"
<1> DEFINE r == proc[p]
           d == Done(p)
<1>1. r \in Process
  BY DEF TypeOK
<1>2. d = [r EXCEPT !.at = After[r.at], !.stack = r.stack \o Registers[r.at]]
  BY DEF Done
<1>3. r.stack \in Seq(Names)
  BY <1>1 DEF Process, Names
<1>4. /\ r.stack \o Registers[r.at] \in Seq(Names)
      /\ Registered(r.stack \o Registers[r.at]) <=>
            Registered(r.stack) \/ r.at = "sockets"
  BY <1>3, RegistersNames, RegisteredConcat
<1>5. After[r.at] \in DOMAIN After \cup {"running"}
  BY Steps
<1>6. /\ d.stack = r.stack \o Registers[r.at] /\ d.at = After[r.at]
      /\ d.way = r.way /\ d.conf = r.conf /\ d.sock = r.sock
      /\ d.inherits = r.inherits /\ d.told = r.told
      /\ d.served = r.served
  BY <1>1, <1>2 DEF Process
<1>7. d \in Process
  BY <1>1, <1>2, <1>4, <1>5 DEF Process, Names
<1>8. QED
  BY <1>4, <1>6, <1>7


(* There is always a socket to be had that nobody has, not the path either. *)
LEMMA FreshSocket ==
    ASSUME TypeOK, NEW p \in Pid, proc[p].sock = 0
    PROVE  NewSocket \in Socket \ (Held \cup {path})
<1> DEFINE Others == Pid \ {p}
           f == [q \in Others |-> proc[q].sock]
           T == {f[q] : q \in Others}
           U == (T \cup {worker.sock}) \cup {path}
           n == Cardinality(Pid)
<1>1. /\ IsFiniteSet(Others) /\ n \in Nat
      /\ Cardinality(Others) = n - 1
  BY PidAssumption, FS_RemoveElement, FS_CardinalityType
<1>2. f \in Surjection(Others, T)
  BY DEF Surjection
<1>3. IsFiniteSet(T) /\ Cardinality(T) <= n - 1 /\ Cardinality(T) \in Nat
  BY <1>1, <1>2, FS_Surjection, FS_CardinalityType
<1>4. /\ IsFiniteSet(T \cup {worker.sock})
      /\ Cardinality(T \cup {worker.sock}) \in Nat
      /\ Cardinality(T \cup {worker.sock}) <= n
  <2>1. /\ IsFiniteSet(T \cup {worker.sock})
        /\ Cardinality(T \cup {worker.sock}) =
              IF worker.sock \in T THEN Cardinality(T) ELSE Cardinality(T) + 1
    BY <1>3, FS_AddElement
  <2> HIDE DEF T
  <2>2. QED
    BY <1>1, <1>3, <2>1
<1>5. IsFiniteSet(U) /\ Cardinality(U) \in Nat /\ Cardinality(U) <= n + 1
  <2> DEFINE V == T \cup {worker.sock}
  <2> HIDE DEF T, V
  <2>1. /\ IsFiniteSet(V) /\ Cardinality(V) \in Nat /\ Cardinality(V) <= n
    BY <1>4 DEF V
  <2>2. /\ IsFiniteSet(V \cup {path})
        /\ Cardinality(V \cup {path}) =
              IF path \in V THEN Cardinality(V) ELSE Cardinality(V) + 1
    BY <2>1, FS_AddElement
  <2>3. U = V \cup {path}
    BY DEF V
  <2>4. QED
    <3> HIDE DEF U
    <3>1. Cardinality(U) \in Nat /\ Cardinality(U) <= n + 1
      <4> DEFINE v == Cardinality(V)
                 u == Cardinality(U)
      <4>1. v \in Nat /\ v <= n /\ u = IF path \in V THEN v ELSE v + 1
        BY <2>1, <2>2, <2>3
      <4> HIDE DEF u, v
      <4>2. u \in Nat /\ u <= n + 1
        BY <1>1, <4>1
      <4>3. QED
        BY <4>2 DEF u
    <3>2. QED
      BY <2>2, <2>3, <3>1
<1>6. Cardinality(Socket) = n + 2
  BY <1>1, FS_Interval DEF Socket
<1>7. PICK s \in Socket : s \notin U
  <2> SUFFICES ASSUME Socket \subseteq U
               PROVE  FALSE
    OBVIOUS
  <2> HIDE DEF U
  <2>1. Cardinality(Socket) <= Cardinality(U)
    BY <1>5, FS_Subset
  <2>2. QED
    BY <1>1, <1>5, <1>6, <2>1
<1>8. 0 \notin Socket
  BY DEF Socket
<1>9. s \notin Held \cup {path}
  BY <1>7, <1>8 DEF Held
<1>10. QED
  BY <1>9 DEF NewSocket

-----------------------------------------------------------------------------
(* What the processes hold, and the files, as one of them changes: nobody  *)
(* holds more than before.                                                 *)
Gains(old, new) ==
    \/ Holder(new) /\ ~Holder(old)
    \/ Listens(new) /\ ~Listens(old)
    \/ new.at = "running" /\ old.at # "running"
    \/ new.sock \notin {0, old.sock}

Loses(old, new) ==
    \/ Holder(old) /\ ~Holder(new)
    \/ Keeper(old) /\ ~Keeper(new)

(* If one process changes, gains nothing, and loses something only         *)
(* together with a mark that it was unclean, what files and sockets mean   *)
(* stays so.                                                               *)
LEMMA OneChanges ==
    ASSUME TypeOK, Holding,
           NEW p \in Pid, NEW r \in Process, Put(p, r),
           Shaped(r), Fit(r), ~Gains(proc[p], r),
           UNCHANGED <<pid_file, path, fixed, overlap>>,
           ~unclean' => ~unclean /\ ~Loses(proc[p], r)
    PROVE  Holding'
<1>0. Alone /\ Files /\ \A q \in Pid : Shaped(proc[q]) /\ Fit(proc[q])
  BY DEF Holding
<1>1. /\ proc' \in [Pid -> Process]
      /\ \A q \in Pid : proc'[q] = IF q = p THEN r ELSE proc[q]
  BY DEF TypeOK, Put
<1>2. /\ pid_file' = pid_file /\ path' = path /\ euid' = euid
      /\ domain' = domain /\ overlap' = overlap
  BY DEF fixed
<1>3. ASSUME NEW q \in Pid
      PROVE  /\ Holder(proc'[q]) => Holder(proc[q])
             /\ Listens(proc'[q]) => Listens(proc[q]) /\ proc'[q].sock = proc[q].sock
             /\ proc'[q].at = "running" => proc[q].at = "running"
             /\ ~unclean' => /\ Holder(proc[q]) => Holder(proc'[q])
                             /\ Keeper(proc[q]) => Keeper(proc'[q])
  <2>1. CASE q = p
    BY <1>1, <2>1 DEF Gains, Loses, Listens
  <2>2. CASE q # p
    <3>1. proc'[q] = proc[q]
      BY <1>1, <2>2
    <3>2. QED
      BY <3>1 DEF Holder, Listens, Keeper
  <2>3. QED
    BY <2>1, <2>2
<1>4. (\A q \in Pid : Shaped(proc[q]) /\ Fit(proc[q]))'
  <2> SUFFICES ASSUME NEW q \in Pid
               PROVE  (Shaped(proc[q]) /\ Fit(proc[q]))'
    OBVIOUS
  <2>1. CASE q = p
    BY <1>1, <1>2, <2>1 DEF Fit, Shaped
  <2>2. CASE q # p
    BY <1>0, <1>1, <1>2, <2>2 DEF Fit, Shaped
  <2>3. QED
    BY <2>1, <2>2
<1>5. Alone'
  BY <1>0, <1>2, <1>3 DEF Alone
<1>6. Files'
  BY <1>0, <1>2, <1>3 DEF Files
<1>7. QED
  BY <1>1, <1>4, <1>5, <1>6 DEF Holding


(* A process vanishes: whoever held sockets leaves a mark.                 *)
LEMMA OneGoes ==
    ASSUME TypeOK, Holding, NEW p \in Pid, Put(p, NoProcess),
           UNCHANGED <<pid_file, path, fixed, overlap>>,
           ~unclean' => ~unclean /\ ~Holder(proc[p])
    PROVE  Holding'
<1>1. /\ NoProcess \in Process /\ NoProcess.at = "none" /\ NoProcess.sock = 0
  BY NoProcessType DEF NoProcess
<1>2. Shaped(NoProcess) /\ Fit(NoProcess)
  BY <1>1 DEF Shaped, Fit, Unprepared
<1>3. ~Gains(proc[p], NoProcess)
  BY <1>1 DEF Gains, Holder, Listens
<1>4. ~unclean' => ~Loses(proc[p], NoProcess)
  BY DEF Loses, Keeper
<1>5. QED
  BY <1>1, <1>2, <1>3, <1>4, OneChanges

(* A death keeps what files and sockets mean.                              *)
LEMMA DieHolds ==
    ASSUME TypeOK, Holding, NEW p \in Pid, Die(p),
           UNCHANGED <<pid_file, path, fixed, overlap>>
    PROVE  Holding'
BY OneGoes DEF Die, Holder

(* A step of fpm_init that creates and writes nothing                      *)
LEMMA StepHolds ==
    ASSUME TypeOK, Holding, NEW p \in Pid, NEW c \in Configs,
           proc[p].at \in DOMAIN After \ {"creat", "write"},
           proc[p].at = "sockets" => proc[p].inherits,
           proc[p].at # "conf" => c = proc[p].conf,
           proc[p].at = "identity" /\ euid = 0 => ~Refused(c),
           Put(p, [Done(p) EXCEPT !.conf = c]),
           UNCHANGED <<pid_file, path, fixed, overlap, unclean>>
    PROVE  Holding'
<1> DEFINE old == proc[p]
           new == [Done(p) EXCEPT !.conf = c]
<1>1. old \in Process /\ Shaped(old) /\ Fit(old)
  BY DEF Holding
<1>2. /\ new \in Process
      /\ new.at = After[old.at] /\ new.way = old.way /\ new.conf = c
      /\ new.sock = old.sock /\ new.inherits = old.inherits
      /\ new.served = old.served
      /\ Registered(new.stack) <=> Registered(old.stack) \/ old.at = "sockets"
  <2>1. /\ Done(p) \in Process
        /\ Done(p).at = After[old.at] /\ Done(p).way = old.way
        /\ Done(p).sock = old.sock /\ Done(p).inherits = old.inherits
        /\ Done(p).served = old.served
        /\ Registered(Done(p).stack) <=>
              Registered(old.stack) \/ old.at = "sockets"
    BY DoneFacts
  <2>2. QED
    BY <2>1 DEF Process
<1>3. old.at \in {"start", "conf", "unix", "identity", "signals", "sockets"}
  BY Steps
<1> HIDE DEF new
<1>4. Shaped(new)
  BY <1>1, <1>2, <1>3, Steps DEF Shaped, Unprepared
<1>5. Fit(new)
  BY <1>1, <1>2, <1>3, Steps DEF Fit
<1>6. ~Gains(old, new) /\ ~Loses(old, new)
  BY <1>2, <1>3, Steps DEF Gains, Loses, Holder, Listens, Keeper, Leaving
<1>7. QED
  BY <1>2, <1>4, <1>5, <1>6, OneChanges DEF new


(* the steps of fpm_init that take no socket and write no file             *)
LEMMA InitialiseHolds ==
    ASSUME TypeOK, Holding, NEW p \in Pid,
           \/ Initialise(p) \/ LoadConf(p) \/ Identity(p)
           \/ Daemonize(p) /\ ~proc[p].conf.daemonize
           \/ GetSocket(p) /\ proc[p].inherits
    PROVE  Holding'
<1>1. proc[p].at \in DOMAIN After \ {"creat", "write"}
  BY Steps DEF Initialise, LoadConf, Identity, Daemonize, GetSocket, IsAt
<1>2. proc[p].at = "sockets" => proc[p].inherits
  BY DEF Initialise, LoadConf, Identity, Daemonize, GetSocket, IsAt
<1>3. proc[p].at = "identity" /\ euid = 0 => ~Refused(proc[p].conf)
  BY DEF Initialise, LoadConf, Identity, Daemonize, GetSocket, IsAt
<1>4. UNCHANGED <<pid_file, path, fixed, overlap, unclean>>
  BY DEF Initialise, LoadConf, Identity, Daemonize, GetSocket, history
<1>5. proc[p] \in Process /\ Done(p) \in Process /\ Done(p).conf = proc[p].conf
  BY <1>1, DoneFacts DEF Holding
<1>6. Done(p) = [Done(p) EXCEPT !.conf = proc[p].conf] /\ proc[p].conf \in Configs
  <2> DEFINE d == Done(p)
  <2>1. d \in Process /\ d.conf = proc[p].conf
    BY <1>5
  <2> HIDE DEF d
  <2>2. d = [d EXCEPT !.conf = proc[p].conf] /\ proc[p].conf \in Configs
    BY <1>5, <2>1 DEF Process
  <2>3. QED
    BY <2>2 DEF d
<1>7. CASE LoadConf(p)
  <2>1. PICK c \in Configs : Put(p, [Done(p) EXCEPT !.conf = c])
    BY <1>7 DEF LoadConf
  <2>2. proc[p].at = "conf"
    BY <1>7 DEF LoadConf, IsAt
  <2>3. QED
    BY <1>1, <1>4, <2>1, <2>2, StepHolds
<1>8. CASE ~LoadConf(p)
  <2>1. Put(p, Done(p))
    BY <1>8 DEF Initialise, Identity, Daemonize, GetSocket
  <2>2. Put(p, [Done(p) EXCEPT !.conf = proc[p].conf])
    BY <1>6, <2>1
  <2>3. QED
    BY <1>1, <1>2, <1>3, <1>4, <1>6, <2>2, StepHolds
<1>9. QED
  BY <1>7, <1>8

(* A process, however it changes, alone with its sockets and files; the    *)
(* others keep what they have.                                             *)
LEMMA Others ==
    ASSUME TypeOK, Holding, NEW p \in Pid, NEW r \in Process, Put(p, r),
           Shaped(r), Fit(r), UNCHANGED fixed
    PROVE  /\ proc' \in [Pid -> Process]
           /\ proc'[p] = r
           /\ \A q \in Pid \ {p} : proc'[q] = proc[q]
           /\ (\A q \in Pid : Shaped(proc[q]) /\ Fit(proc[q]))'
<1>1. /\ proc' \in [Pid -> Process]
      /\ \A q \in Pid : proc'[q] = IF q = p THEN r ELSE proc[q]
      /\ euid' = euid
  BY DEF TypeOK, Put, fixed
<1>2. (\A q \in Pid : Shaped(proc[q]) /\ Fit(proc[q]))'
  BY <1>1 DEF Fit, Shaped, Holding
<1>3. QED
  BY <1>1, <1>2

(* A running master has sockets; one without a stop under way keeps them.  *)
LEMMA RunningHolds ==
    ASSUME Holding, NEW p \in Pid,
           proc[p].at \in {"creat", "write", "running", "unlink"}
    PROVE  Holder(proc[p]) /\ Keeper(proc[p])
BY DEF Holding, Shaped, Holder, Keeper, Leaving

(* fpm_conf_write_pid: nobody else runs, unless masters have overlapped    *)
LEMMA CreatHolds ==
    ASSUME TypeOK, Holding, NEW p \in Pid, CreatPid(p) \/ WritePid(p)
    PROVE  Holding'
<1> DEFINE old == proc[p]
           new == proc'[p]
           r   == IF CreatPid(p) THEN Done(p) ELSE [Done(p) EXCEPT !.served = TRUE]
<1>1. old \in Process /\ Shaped(old) /\ Fit(old) /\ old.at \in {"creat", "write"}
  BY DEF Holding, CreatPid, WritePid, IsAt
<1>2. /\ Done(p) \in Process
      /\ Done(p).at = After[old.at] /\ Done(p).way = old.way
      /\ Done(p).sock = old.sock /\ Done(p).conf = old.conf
      /\ Registered(Done(p).stack) <=> Registered(old.stack)
  BY <1>1, DoneFacts, Steps
<1>3. /\ r \in Process /\ r.at \in {"write", "running"}
      /\ r.at = "running" <=> WritePid(p)
      /\ r.sock = old.sock /\ r.conf = old.conf /\ r.way = old.way
      /\ Registered(r.stack)
  <2>1. Registered(old.stack)
    BY <1>1 DEF Shaped
  <2>2. CASE CreatPid(p)
    <3>1. r = Done(p) /\ old.at = "creat" /\ ~WritePid(p)
      BY <2>2 DEF CreatPid, WritePid, IsAt
    <3>2. QED
      BY <1>2, <2>1, <3>1, Steps
  <2>3. CASE WritePid(p)
    <3>1. r = [Done(p) EXCEPT !.served = TRUE] /\ old.at = "write"
      BY <2>3 DEF CreatPid, WritePid, IsAt
    <3>2. Done(p).at = "running" /\ Registered(Done(p).stack)
      BY <1>2, <2>1, <3>1, Steps
    <3> DEFINE d == Done(p)
    <3> HIDE DEF r, d
    <3>3. /\ r \in Process /\ r.at = d.at /\ r.sock = d.sock /\ r.conf = d.conf
          /\ r.way = d.way /\ r.stack = d.stack
      <4>1. d \in Process /\ r = [d EXCEPT !.served = TRUE]
        BY <1>2, <3>1 DEF d
      <4>2. QED
        BY <4>1 DEF Process
    <3>4. QED
      BY <1>2, <2>3, <3>2, <3>3 DEF d
  <2>4. QED
    BY <2>2, <2>3
<1>4. /\ Put(p, r) /\ UNCHANGED <<path, overlap, fixed>>
      /\ pid_file' = IF r.at = "running" THEN p ELSE Blank
  BY <1>3 DEF CreatPid, WritePid, history
<1> HIDE DEF r
<1>5. Shaped(r) /\ Fit(r) /\ r.sock # 0
  BY <1>1, <1>3 DEF Shaped, Fit, Unprepared
<1>6. /\ proc' \in [Pid -> Process]
      /\ new = r
      /\ \A q \in Pid \ {p} : proc'[q] = proc[q]
      /\ (\A q \in Pid : Shaped(proc[q]) /\ Fit(proc[q]))'
  BY <1>3, <1>4, <1>5, Others
<1>7. Holder(old) /\ Holder(new) /\ Keeper(new) /\ Listens(old)
  BY <1>1, <1>3, <1>5, <1>6, RunningHolds
     DEF Holder, Keeper, Leaving, Listens
<1>8. Alone'
  <2>1. \A q \in Pid : Holder(proc'[q]) => Holder(proc[q])
    BY <1>6, <1>7
  <2>2. QED
    BY <1>4, <2>1 DEF Alone, Holding
<1>9. Files'
  <2>1. domain' = "inet" => path' = 0
    BY <1>4 DEF Files, Holding, fixed
  <2>2. ASSUME ~overlap', NEW q \in Pid, proc'[q].at = "running"
        PROVE  pid_file' = q
    <3>1. CASE q = p
      BY <1>4, <1>6, <2>2, <3>1
    <3>2. CASE q # p
      <4>1. proc[q].at = "running"
        BY <1>6, <2>2, <3>2
      <4>2. Holder(proc[q])
        BY <4>1, RunningHolds
      <4>3. QED
        BY <1>4, <1>7, <2>2, <3>2, <4>2 DEF Alone, Holding
    <3>3. QED
      BY <3>1, <3>2
  <2>3. ASSUME ~overlap', NEW q \in Pid, Listens(proc'[q]), domain' = "unix"
        PROVE  path' = proc'[q].sock
    <3>1. Listens(proc[q]) /\ proc'[q].sock = proc[q].sock
      BY <1>3, <1>6, <1>7, <2>3
    <3>2. QED
      BY <1>4, <2>3, <3>1 DEF Files, Holding, fixed
  <2>4. QED
    BY <1>7, <2>1, <2>2, <2>3 DEF Files
<1>10. QED
  BY <1>6, <1>8, <1>9 DEF Holding

(* It fails, with the old pid file already gone.                           *)
LEMMA CreatFailsHolds ==
    ASSUME TypeOK, Holding, NEW p \in Pid, CreatFails(p)
    PROVE  Holding'
<1>1. /\ NoProcess \in Process /\ NoProcess.at = "none" /\ NoProcess.sock = 0
  BY NoProcessType DEF NoProcess
<1>2. Shaped(NoProcess) /\ Fit(NoProcess)
  BY <1>1 DEF Shaped, Fit, Unprepared
<1>3. Holder(proc[p]) /\ proc[p].sock # 0
  BY RunningHolds DEF CreatFails, IsAt, Holder
<1>4. /\ Put(p, NoProcess) /\ UNCHANGED <<path, overlap, fixed>>
      /\ unclean' = TRUE
  BY <1>3 DEF CreatFails, Die
<1>5. /\ proc' \in [Pid -> Process]
      /\ proc'[p] = NoProcess
      /\ \A q \in Pid \ {p} : proc'[q] = proc[q]
      /\ (\A q \in Pid : Shaped(proc[q]) /\ Fit(proc[q]))'
  BY <1>1, <1>2, <1>4, Others
<1>6. ~Holder(proc'[p]) /\ ~Listens(proc'[p]) /\ proc'[p].at # "running"
  BY <1>1, <1>5 DEF Holder, Listens
<1>7. Alone'
  BY <1>4, <1>5, <1>6 DEF Alone, Holding
<1>8. Files'
  <2>1. ~overlap' => \A q \in Pid : proc'[q].at # "running"
    <3>1. SUFFICES ASSUME ~overlap', NEW q \in Pid, proc'[q].at = "running"
                   PROVE  FALSE
      OBVIOUS
    <3>2. q # p /\ proc[q].at = "running"
      BY <1>5, <1>6, <3>1
    <3>3. Holder(proc[q])
      BY <3>2, RunningHolds
    <3>4. QED
      BY <1>3, <1>4, <3>1, <3>2, <3>3 DEF Alone, Holding
  <2>2. \A q \in Pid : Listens(proc'[q]) =>
                          Listens(proc[q]) /\ proc'[q].sock = proc[q].sock
    BY <1>5, <1>6
  <2>3. QED
    BY <1>4, <2>1, <2>2 DEF Files, Holding, fixed
<1>9. QED
  BY <1>5, <1>7, <1>8 DEF Holding


(* fpm_sockets_init_main creates: nobody had any, or it is an overlap.     *)
LEMMA CreateHolds ==
    ASSUME TypeOK, Holding, domain \in {"unix", "inet"},
           NEW p \in Pid, GetSocket(p), ~proc[p].inherits
    PROVE  Holding' /\ path' \in Socket \cup {0}
<1> DEFINE old == proc[p]
           r   == [Done(p) EXCEPT !.sock = NewSocket]
<1>1. old \in Process /\ Shaped(old) /\ Fit(old) /\ old.at = "sockets"
  BY DEF Holding, GetSocket, IsAt
<1>2. old.sock = 0
  BY <1>1 DEF Shaped
<1>3. NewSocket \in Socket /\ NewSocket # 0
  BY <1>2, FreshSocket DEF Socket
<1>4. /\ Done(p) \in Process
      /\ Done(p).at = "creat" /\ Done(p).conf = old.conf
      /\ Registered(Done(p).stack)
  BY <1>1, DoneFacts, Steps
<1>5. /\ r \in Process /\ r.at = "creat" /\ r.sock = NewSocket
      /\ r.conf = old.conf /\ Registered(r.stack)
  <2> DEFINE d == Done(p)
  <2>1. d \in Process /\ r = [d EXCEPT !.sock = NewSocket]
    BY <1>4
  <2> HIDE DEF d, r
  <2>2. /\ r \in Process /\ r.at = d.at /\ r.sock = NewSocket
        /\ r.conf = d.conf /\ r.stack = d.stack
    BY <1>3, <2>1 DEF Process
  <2>3. QED
    BY <1>4, <2>2 DEF d
<1>6. /\ Put(p, r) /\ UNCHANGED <<pid_file, fixed, unclean>>
      /\ domain = "inet" => Held = {0}
      /\ path' = IF domain = "unix" THEN NewSocket ELSE path
      /\ overlap' = (overlap \/ Held # {0})
  BY DEF GetSocket
<1> HIDE DEF r
<1>7. Shaped(r) /\ Fit(r)
  BY <1>1, <1>3, <1>5 DEF Shaped, Fit, Unprepared
<1>8. /\ proc' \in [Pid -> Process]
      /\ proc'[p] = r
      /\ \A q \in Pid \ {p} : proc'[q] = proc[q]
      /\ (\A q \in Pid : Shaped(proc[q]) /\ Fit(proc[q]))'
  BY <1>5, <1>6, <1>7, Others
<1>9. Holder(proc'[p])
  BY <1>3, <1>5, <1>8 DEF Holder, Leaving
<1>10. ASSUME ~overlap', NEW q \in Pid, q # p
       PROVE  /\ ~Holder(proc[q]) /\ ~Holder(proc'[q]) /\ ~Listens(proc'[q])
              /\ proc'[q].at # "running"
  <2>1. proc[q].sock = 0
    BY <1>6, <1>10 DEF Held
  <2>2. proc'[q] = proc[q] /\ Shaped(proc[q])
    BY <1>8, <1>10 DEF Holding
  <2>3. QED
    BY <2>1, <2>2 DEF Holder, Listens, Shaped
<1>11. Alone'
  <2>1. ~overlap' => \A q \in Pid : Holder(proc'[q]) => q = p
    BY <1>10
  <2>2. QED
    BY <2>1 DEF Alone
<1>12. Files'
  <2>1. (domain = "inet" => path = 0)'
    BY <1>6 DEF Files, Holding, fixed
  <2>2. ASSUME ~overlap', NEW q \in Pid
        PROVE  /\ proc'[q].at = "running" => pid_file' = q
               /\ Listens(proc'[q]) /\ domain' = "unix" => path' = proc'[q].sock
    <3>1. CASE q = p
      BY <1>5, <1>6, <1>8, <3>1 DEF fixed
    <3>2. CASE q # p
      BY <1>10, <2>2, <3>2
    <3>3. QED
      BY <3>1, <3>2
  <2>3. ASSUME ~overlap', ~unclean', pid_file' # NoFile
        PROVE  FALSE
    <3>1. ~overlap /\ ~unclean /\ pid_file # NoFile
      BY <1>6, <2>3
    <3>2. PICK q \in Pid : Keeper(proc[q])
      BY <3>1 DEF Files, Holding
    <3>3. q = p
      BY <1>10, <2>3, <3>2 DEF Keeper
    <3>4. QED
      BY <1>2, <3>2, <3>3 DEF Keeper, Holder
  <2>4. QED
    BY <1>9, <2>1, <2>2, <2>3 DEF Files
<1>13. path' \in Socket \cup {0}
  BY <1>3, <1>6 DEF TypeOK
<1>14. QED
  BY <1>8, <1>11, <1>12, <1>13 DEF Holding

(* It fails, with the socket's file perhaps unlinked or replaced.          *)
LEMMA CreateFailsHolds ==
    ASSUME TypeOK, Holding, domain \in {"unix", "inet"},
           NEW p \in Pid, CreateFails(p)
    PROVE  Holding' /\ path' \in Socket \cup {0}
<1>1. /\ NoProcess \in Process /\ NoProcess.at = "none" /\ NoProcess.sock = 0
  BY NoProcessType DEF NoProcess
<1>2. Shaped(NoProcess) /\ Fit(NoProcess)
  BY <1>1 DEF Shaped, Fit, Unprepared
<1>3. proc[p].sock = 0
  BY DEF Holding, Shaped, CreateFails, IsAt
<1>4. NewSocket \in Socket
  BY <1>3, FreshSocket
<1>5. /\ Put(p, NoProcess) /\ UNCHANGED <<pid_file, fixed>>
      /\ path' \in (IF domain = "unix" THEN {0, NewSocket} ELSE {path})
      /\ overlap' = (overlap \/ (domain = "unix" /\ Held # {0}))
      /\ unclean' = TRUE
  BY DEF CreateFails
<1>6. /\ proc' \in [Pid -> Process]
      /\ proc'[p] = NoProcess
      /\ \A q \in Pid \ {p} : proc'[q] = proc[q]
      /\ (\A q \in Pid : Shaped(proc[q]) /\ Fit(proc[q]))'
  BY <1>1, <1>2, <1>5, Others
<1>7. ~Holder(proc'[p]) /\ ~Listens(proc'[p]) /\ proc'[p].at # "running"
  BY <1>1, <1>6 DEF Holder, Listens
<1>8. Alone'
  BY <1>5, <1>6, <1>7 DEF Alone, Holding
<1>9. Files'
  <2>1. (domain = "inet" => path = 0)'
    BY <1>5 DEF Files, Holding, fixed
  <2>2. ASSUME ~overlap', NEW q \in Pid
        PROVE  /\ proc'[q].at = "running" => pid_file' = q
               /\ Listens(proc'[q]) /\ domain' = "unix" => path' = proc'[q].sock
    <3>1. CASE q = p
      BY <1>7, <3>1
    <3>2. CASE q # p /\ domain = "unix"
      <4>1. proc[q].sock = 0
        BY <1>5, <2>2, <3>2 DEF Held
      <4>2. proc'[q] = proc[q] /\ Shaped(proc[q])
        BY <1>6, <3>2 DEF Holding
      <4>3. QED
        BY <4>1, <4>2 DEF Listens, Shaped
    <3>3. CASE q # p /\ domain # "unix"
      <4>1. /\ proc'[q] = proc[q] /\ domain' # "unix" /\ ~overlap
            /\ pid_file' = pid_file
        BY <1>5, <1>6, <2>2, <3>3 DEF fixed
      <4>2. QED
        BY <4>1 DEF Files, Holding
    <3>4. QED
      BY <3>1, <3>2, <3>3
  <2>3. QED
    BY <1>5, <2>1, <2>2 DEF Files
<1>10. path' \in Socket \cup {0}
  BY <1>4, <1>5 DEF TypeOK
<1>11. QED
  BY <1>6, <1>8, <1>9, <1>10 DEF Holding

(* A stop removes the pid file, and then the socket's file.                *)
LEMMA UnlinkHolds ==
    ASSUME TypeOK, Holding, NEW p \in Pid, UnlinkPid(p)
    PROVE  Holding'
<1> DEFINE old == proc[p]
           r   == [old EXCEPT !.at = "cleanup"]
<1>1. /\ old \in Process /\ Shaped(old) /\ old.at = "unlink" /\ old.sock # 0
      /\ old.way = "PARENT_EXIT_MAIN" /\ Registered(old.stack)
  BY DEF Holding, Shaped, UnlinkPid, IsAt
<1>2. /\ r \in Process /\ r.at = "cleanup" /\ r.way = old.way
      /\ r.sock = old.sock /\ r.stack = old.stack
  BY <1>1 DEF Process, Leaving
<1>3. /\ Put(p, r) /\ UNCHANGED <<path, overlap, unclean, fixed>>
      /\ pid_file' = NoFile
  BY DEF UnlinkPid, history
<1> HIDE DEF r
<1>4. Shaped(r) /\ Fit(r)
  BY <1>1, <1>2, NothingRegistered DEF Shaped, Fit, Unprepared
<1>5. /\ proc' \in [Pid -> Process]
      /\ proc'[p] = r
      /\ \A q \in Pid \ {p} : proc'[q] = proc[q]
      /\ (\A q \in Pid : Shaped(proc[q]) /\ Fit(proc[q]))'
  BY <1>2, <1>3, <1>4, Others
<1>6. /\ Holder(old) /\ Holder(r) /\ ~Listens(r) /\ r.at # "running"
  BY <1>1, <1>2 DEF Holder, Listens, Leaving
<1>7. Alone'
  BY <1>3, <1>5, <1>6 DEF Alone, Holding
<1>8. Files'
  <2>1. ~overlap' => \A q \in Pid : proc'[q].at # "running"
    <3>1. SUFFICES ASSUME ~overlap', NEW q \in Pid, proc'[q].at = "running"
                   PROVE  FALSE
      OBVIOUS
    <3>2. q # p /\ proc[q].at = "running"
      BY <1>5, <1>6, <3>1
    <3>3. Holder(proc[q])
      BY <3>2, RunningHolds
    <3>4. QED
      BY <1>3, <1>6, <3>1, <3>2, <3>3 DEF Alone, Holding
  <2>2. \A q \in Pid :
            /\ Listens(proc'[q]) => Listens(proc[q]) /\ proc'[q].sock = proc[q].sock
            /\ Holder(proc[q]) => Holder(proc'[q])
    BY <1>5, <1>6
  <2>3. QED
    BY <1>3, <2>1, <2>2 DEF Files, Holding, fixed
<1>9. QED
  BY <1>5, <1>7, <1>8 DEF Holding


(* fpm_cleanups_run: only a stop closes the sockets and unlinks the path.  *)
LEMMA CleanHolds ==
    ASSUME TypeOK, Holding, domain \in {"unix", "inet"}, NEW p \in Pid, Clean(p)
    PROVE  Holding' /\ path' \in Socket \cup {0}
<1> DEFINE old == proc[p]
           r   == [old EXCEPT
                     !.stack    = <<>>,
                     !.inherits = @ \/ (Runs(p, "sockets") /\ old.way = "PARENT_EXEC"),
                     !.sock     = IF Runs(p, "sockets") /\ old.way # "PARENT_EXEC"
                                  THEN 0 ELSE @]
<1>1. /\ old \in Process /\ Shaped(old) /\ old.at = "cleanup" /\ old.stack # <<>>
      /\ old.way \in {"PARENT_EXIT", "PARENT_EXIT_MAIN", "PARENT_EXEC"}
  BY DEF Holding, Shaped, Clean, IsAt, Process, Ways
<1>2. Runs(p, "sockets") <=> Registered(old.stack)
  BY <1>1 DEF Runs, Registered, Cleanup, Ways
<1>3. /\ r \in Process /\ r.at = "cleanup" /\ r.way = old.way
      /\ r.stack = <<>> /\ r.inherits \in BOOLEAN
      /\ r.sock = IF Runs(p, "sockets") /\ old.way # "PARENT_EXEC"
                  THEN 0 ELSE old.sock
  <2> DEFINE i == old.inherits \/ (Runs(p, "sockets") /\ old.way = "PARENT_EXEC")
             s == IF Runs(p, "sockets") /\ old.way # "PARENT_EXEC"
                  THEN 0 ELSE old.sock
  <2>1. i \in BOOLEAN /\ s \in Socket \cup {0} /\ <<>> \in Seq(DOMAIN Cleanup)
    <3>1. i \in BOOLEAN
      OBVIOUS
    <3>2. s \in Socket \cup {0}
      <4>1. old.sock \in Socket \cup {0}
        BY <1>1 DEF Process
      <4>2. QED
        BY <4>1
    <3>3. QED
      BY <3>1, <3>2
  <2>2. r = [old EXCEPT !.stack = <<>>, !.inherits = i, !.sock = s]
    OBVIOUS
  <2> HIDE DEF i, s, r
  <2>3. /\ r \in Process /\ r.at = "cleanup" /\ r.way = old.way
        /\ r.stack = <<>> /\ r.inherits \in BOOLEAN /\ r.sock = s
    BY <1>1, <2>1, <2>2 DEF Process
  <2>4. QED
    BY <2>3 DEF s
<1>4. /\ Put(p, r) /\ UNCHANGED <<pid_file, overlap, unclean, fixed>>
      /\ path' = IF Runs(p, "sockets") /\ Unlinks(old.way) /\ domain = "unix"
                 THEN 0 ELSE path
  BY DEF Clean, history
<1> HIDE DEF r
<1>5. Shaped(r) /\ Fit(r)
  BY <1>1, <1>2, <1>3, NothingRegistered DEF Shaped, Fit, Unprepared
<1>6. CASE old.way # "PARENT_EXIT_MAIN"
  <2>1. path' = path
    BY <1>4, <1>6 DEF Unlinks
  <2>2. r.sock = old.sock
    BY <1>1, <1>2, <1>3, <1>6 DEF Shaped
  <2>3. ~Gains(old, r) /\ ~Loses(old, r)
    BY <1>1, <1>3, <2>2 DEF Gains, Loses, Holder, Listens, Keeper, Leaving
  <2>4. Holding'
    BY <1>3, <1>4, <1>5, <2>1, <2>3, OneChanges
  <2>5. QED
    BY <2>1, <2>4 DEF TypeOK
<1>7. CASE old.way = "PARENT_EXIT_MAIN"
  <2>1. old.sock # 0 /\ Registered(old.stack)
    BY <1>1, <1>7 DEF Shaped
  <2>2. r.sock = 0 /\ path' = 0
    BY <1>2, <1>3, <1>4, <1>7, <2>1 DEF Unlinks, Files, Holding
  <2>3. /\ proc' \in [Pid -> Process]
        /\ proc'[p] = r
        /\ \A q \in Pid \ {p} : proc'[q] = proc[q]
        /\ (\A q \in Pid : Shaped(proc[q]) /\ Fit(proc[q]))'
    BY <1>3, <1>4, <1>5, Others
  <2>4. /\ Holder(old) /\ ~Keeper(old) /\ ~Holder(r) /\ ~Listens(r)
        /\ r.at # "running"
    BY <1>1, <1>3, <1>7, <2>1, <2>2 DEF Holder, Keeper, Listens, Leaving
  <2>5. Alone'
    BY <1>4, <2>3, <2>4 DEF Alone, Holding
  <2>6. Files'
    <3>1. ~overlap' => \A q \in Pid : ~Listens(proc'[q]) /\ proc'[q].at # "running"
      <4>1. SUFFICES ASSUME ~overlap', NEW q \in Pid,
                            Listens(proc'[q]) \/ proc'[q].at = "running"
                     PROVE  FALSE
        OBVIOUS
      <4>2. q # p /\ proc'[q] = proc[q]
        BY <2>3, <2>4, <4>1
      <4>3. Holder(proc[q])
        BY <4>1, <4>2, RunningHolds DEF Listens, Holder, Leaving
      <4>4. QED
        BY <1>4, <2>4, <4>1, <4>2, <4>3 DEF Alone, Holding
    <3>2. \A q \in Pid : Keeper(proc[q]) => Keeper(proc'[q])
      BY <2>3, <2>4
    <3>3. QED
      BY <1>4, <2>2, <3>1, <3>2 DEF Files, Holding, fixed
  <2>7. QED
    BY <2>2, <2>3, <2>5, <2>6 DEF Holding
<1>8. QED
  BY <1>6, <1>7

(* A stop or a reload is through; the sockets are still the master's.      *)
LEMMA LeaveHolds ==
    ASSUME TypeOK, Holding, NEW p \in Pid, Leave(p)
    PROVE  Holding'
<1> DEFINE old == proc[p]
           r   == IF old.told = "QUIT"
                  THEN [old EXCEPT !.at = "unlink", !.way = "PARENT_EXIT_MAIN"]
                  ELSE [old EXCEPT !.at = "cleanup", !.way = "PARENT_EXEC"]
<1>1. /\ old \in Process /\ Shaped(old) /\ old.at = "running" /\ old.sock # 0
      /\ Registered(old.stack)
  BY DEF Holding, Shaped, Leave, IsAt
<1>2. /\ r \in Process /\ r.sock = old.sock /\ r.stack = old.stack
      /\ \/ r.at = "unlink" /\ r.way = "PARENT_EXIT_MAIN"
         \/ r.at = "cleanup" /\ r.way = "PARENT_EXEC"
  <2>1. {"unlink", "cleanup"} \subseteq DOMAIN After \cup {"running", "none"} \cup Leaving
    BY DEF Leaving
  <2>2. QED
    BY <1>1, <2>1 DEF Process, Ways
<1>3. Put(p, r) /\ UNCHANGED <<pid_file, path, overlap, unclean, fixed>>
  BY DEF Leave, history
<1> HIDE DEF r
<1>4. Shaped(r) /\ Fit(r)
  BY <1>1, <1>2, NothingRegistered DEF Shaped, Fit, Unprepared
<1>5. ~Gains(old, r) /\ ~Loses(old, r)
  BY <1>1, <1>2 DEF Gains, Loses, Holder, Listens, Keeper, Leaving
<1>6. QED
  BY <1>2, <1>3, <1>4, <1>5, OneChanges

(* Who exits has closed his sockets, or left them to the daemon.           *)
LEMMA ExitHolds ==
    ASSUME TypeOK, Holding, NEW p \in Pid, Exit(p)
    PROVE  Holding'
<1>1. ~Holder(proc[p])
  BY DEF Holding, Shaped, Exit, Cleaned, IsAt, Holder, Leaving
<1>2. QED
  BY <1>1, OneGoes DEF Exit, history

(* The next image inherits what this one had.                              *)
LEMMA ExecHolds ==
    ASSUME TypeOK, Holding, NEW p \in Pid, Exec(p)
    PROVE  Holding'
<1> DEFINE old == proc[p]
           r   == [Launched EXCEPT !.sock = old.sock, !.inherits = TRUE,
                                   !.served = TRUE]
<1>1. /\ old \in Process /\ old.at = "cleanup" /\ old.way = "PARENT_EXEC"
      /\ old.sock # 0
  BY DEF Holding, Shaped, Exec, Cleaned, IsAt
<1>2. Launched \in Process /\ Launched.at = "start" /\ Launched.stack = <<>>
  BY NoProcessType DEF Launched, NoProcess
<1>3. /\ r \in Process /\ r.at = "start" /\ r.sock = old.sock /\ r.inherits
      /\ r.served /\ r.stack = <<>>
  BY <1>1, <1>2 DEF Process
<1>4. Put(p, r) /\ UNCHANGED <<pid_file, path, overlap, unclean, fixed>>
  BY DEF Exec, history
<1> HIDE DEF r
<1>5. Shaped(r) /\ Fit(r)
  BY <1>1, <1>3, NothingRegistered DEF Shaped, Fit, Unprepared
<1>6. ~Gains(old, r) /\ ~Loses(old, r)
  BY <1>1, <1>3 DEF Gains, Loses, Holder, Listens, Keeper, Leaving
<1>7. QED
  BY <1>3, <1>4, <1>5, <1>6, OneChanges

(* The daemon takes over what its parent inherited.                        *)
LEMMA DaemonHolds ==
    ASSUME TypeOK, Holding, NEW p \in Pid, Daemonize(p), proc[p].conf.daemonize
    PROVE  Holding'
<1>1. PICK q \in Free : proc' = [proc EXCEPT ![q] = Done(p),
                                             ![p].at = "cleanup",
                                             ![p].way = "PARENT_EXIT"]
  BY DEF Daemonize
<1> DEFINE old == proc[p]
           r   == [old EXCEPT !.at = "cleanup", !.way = "PARENT_EXIT"]
           d   == Done(p)
<1>2. /\ old \in Process /\ Shaped(old) /\ old.at = "unix" /\ ~Registered(old.stack)
  BY DEF Holding, Shaped, Daemonize, IsAt, Unprepared
<1>3. q \in Pid /\ q # p /\ proc[q].at = "none" /\ proc[q].sock = 0
  BY <1>2 DEF Free, IsAt, Holding, Shaped
<1>4. /\ d \in Process /\ d.at = "identity" /\ d.sock = old.sock
      /\ d.inherits = old.inherits /\ d.served = old.served
      /\ ~Registered(d.stack)
  BY <1>2, DoneFacts, Steps
<1>5. /\ r \in Process /\ r.at = "cleanup" /\ r.way = "PARENT_EXIT"
      /\ r.stack = old.stack
  BY <1>2 DEF Process, Leaving, Ways
<1>6. /\ proc' \in [Pid -> Process]
      /\ proc'[p] = r /\ proc'[q] = d
      /\ \A o \in Pid \ {p, q} : proc'[o] = proc[o]
  BY <1>1, <1>2, <1>3, <1>4, <1>5 DEF Holding
<1>7. UNCHANGED <<pid_file, path, overlap, unclean, fixed>> /\ euid' = euid
  BY DEF Daemonize, history, fixed
<1> HIDE DEF r, d
<1>8. Shaped(r) /\ Shaped(d)
  BY <1>2, <1>4, <1>5 DEF Shaped, Unprepared
<1>9. (\A o \in Pid : Shaped(proc[o]) /\ Fit(proc[o]))'
  <2> SUFFICES ASSUME NEW o \in Pid
               PROVE  (Shaped(proc[o]) /\ Fit(proc[o]))'
    OBVIOUS
  <2>1. CASE o \in {p, q}
    BY <1>4, <1>5, <1>6, <1>8, <2>1 DEF Shaped, Fit
  <2>2. CASE o \notin {p, q}
    BY <1>6, <1>7, <2>2 DEF Shaped, Fit, Holding
  <2>3. QED
    BY <2>1, <2>2
<1>10. /\ Holder(d) <=> Holder(old)
       /\ Listens(d) <=> Listens(old)
       /\ Keeper(d) <=> Keeper(old)
       /\ ~Holder(r) /\ ~Listens(r) /\ ~Holder(proc[q])
       /\ r.at # "running" /\ d.at # "running" /\ old.at # "running"
  BY <1>2, <1>3, <1>4, <1>5 DEF Holder, Listens, Keeper, Leaving
<1>11. Alone'
  <2> SUFFICES ASSUME ~overlap', NEW a \in Pid, NEW b \in Pid,
                      Holder(proc'[a]), Holder(proc'[b])
               PROVE  a = b
    BY DEF Alone
  <2> DEFINE before(x) == IF x = q THEN p ELSE x
  <2>1. a # p /\ b # p
    BY <1>6, <1>10
  <2>2. Holder(proc[before(a)]) /\ Holder(proc[before(b)])
    BY <1>6, <1>10, <2>1
  <2>3. before(a) = before(b)
    BY <1>7, <2>2, <1>3 DEF Alone, Holding
  <2>4. QED
    BY <2>1, <2>3
<1>12. Files'
  <2>1. \A o \in Pid :
            /\ proc'[o].at = "running" => proc[o].at = "running"
            /\ Listens(proc'[o]) => \E b \in Pid : /\ Listens(proc[b])
                                                   /\ proc'[o].sock = proc[b].sock
            /\ Holder(proc[o]) => \E b \in Pid : Holder(proc'[b])
            /\ Keeper(proc[o]) => \E b \in Pid : Keeper(proc'[b])
    <3> SUFFICES ASSUME NEW o \in Pid
                 PROVE  /\ proc'[o].at = "running" => proc[o].at = "running"
                        /\ Listens(proc'[o]) =>
                              \E b \in Pid : /\ Listens(proc[b])
                                             /\ proc'[o].sock = proc[b].sock
                        /\ Holder(proc[o]) => \E b \in Pid : Holder(proc'[b])
                        /\ Keeper(proc[o]) => \E b \in Pid : Keeper(proc'[b])
      OBVIOUS
    <3>1. CASE o = p
      BY <1>3, <1>6, <1>10, <3>1
    <3>2. CASE o = q
      BY <1>3, <1>4, <1>6, <1>10, <3>2 DEF Keeper
    <3>3. CASE o \notin {p, q}
      BY <1>6, <3>3
    <3>4. QED
      BY <3>1, <3>2, <3>3
  <2>2. QED
    BY <1>7, <2>1 DEF Files, Holding, fixed
<1>13. QED
  BY <1>6, <1>9, <1>11, <1>12 DEF Holding


-----------------------------------------------------------------------------
(* The init script                                                         *)
LEMMA LaunchHolds ==
    ASSUME TypeOK, Holding, NEW p \in Free, Put(p, Launched),
           UNCHANGED <<pid_file, path, fixed, overlap, unclean>>
    PROVE  Holding'
<1>1. p \in Pid /\ proc[p].at = "none" /\ proc[p].sock = 0
  BY DEF Free, IsAt, Holding, Shaped
<1>2. /\ Launched \in Process /\ Launched.at = "start" /\ Launched.sock = 0
      /\ ~Launched.inherits /\ Launched.stack = <<>>
  BY NoProcessType DEF Launched, NoProcess
<1>3. Shaped(Launched) /\ Fit(Launched)
  BY <1>2, NothingRegistered DEF Shaped, Fit, Unprepared
<1>4. ~Gains(proc[p], Launched) /\ ~Loses(proc[p], Launched)
  BY <1>1, <1>2 DEF Gains, Loses, Holder, Listens, Keeper
<1>5. QED
  BY <1>1, <1>2, <1>3, <1>4, OneChanges

(* A signal stops, reloads or kills, if its target lives.                  *)
LEMMA SignalHolds ==
    ASSUME TypeOK, Holding, NEW p, NEW signal \in {"USR2", "QUIT"},
           Signal(p, signal), UNCHANGED <<pid_file, path, fixed, overlap>>
    PROVE  Holding' /\ unclean' \in BOOLEAN
<1>1. CASE p \notin Pid \/ p \in Free
  <2>1. UNCHANGED <<proc, unclean>>
    BY <1>1 DEF Signal
  <2>2. QED
    BY <2>1 DEF Holding, Alone, Files, Fit, fixed, TypeOK
<1>2. CASE p \in Pid \ Free /\ proc[p].at \in Unprepared
  <2>1. Put(p, NoProcess) /\ unclean' = (unclean \/ proc[p].served)
    BY <1>2 DEF Signal
  <2>2. Holder(proc[p]) => proc[p].served
    BY <1>2 DEF Holder, Holding, Shaped
  <2>3. proc[p].served \in BOOLEAN /\ unclean \in BOOLEAN
    BY <1>2 DEF TypeOK, Process
  <2>4. QED
    BY <1>2, <2>1, <2>2, <2>3, OneGoes
<1>3. CASE p \in Pid \ Free /\ proc[p].at \notin Unprepared
  <2> DEFINE old == proc[p]
             r   == [old EXCEPT !.told = Stronger(@, signal)]
  <2>1. Put(p, r) /\ UNCHANGED unclean
    BY <1>3 DEF Signal
  <2>2. old \in Process /\ Shaped(old) /\ Fit(old)
    BY <1>3 DEF Holding
  <2>3. /\ r \in Process /\ r.at = old.at /\ r.way = old.way
        /\ r.stack = old.stack /\ r.conf = old.conf /\ r.sock = old.sock
        /\ r.inherits = old.inherits /\ r.served = old.served
    BY <2>2 DEF Process, Stronger
  <2> HIDE DEF r
  <2>4. Shaped(r)
    BY <2>2, <2>3 DEF Shaped
  <2>5. Fit(r)
    BY <2>2, <2>3 DEF Fit
  <2>6. ~Gains(old, r) /\ ~Loses(old, r)
    BY <2>3 DEF Gains, Loses, Holder, Listens, Keeper
  <2>7. QED
    BY <1>3, <2>1, <2>3, <2>4, <2>5, <2>6, OneChanges DEF TypeOK
<1>4. QED
  BY <1>1, <1>2, <1>3

ScriptType == [doing : {"idle", "launching", "created", "removed"},
               pid : Pid \cup {Nobody}, again : BOOLEAN]

(* every command of the init script, and its waiting                       *)
LEMMA ScriptHolds ==
    ASSUME TypeOK, Holding, Script
    PROVE  /\ Holding' /\ UNCHANGED <<worker, pid_file, path, fixed, overlap>>
           /\ unclean' \in BOOLEAN /\ script' \in ScriptType
<1>1. UNCHANGED <<worker, pid_file, path, fixed, overlap>>
  BY DEF Script, Start, Stop, Reload, Command, WaitCreated, WaitRemoved, history
<1>2. script \in ScriptType /\ unclean \in BOOLEAN
  BY DEF TypeOK, ScriptType
<1>3. ASSUME NEW p \in Free, Launch(p), UNCHANGED unclean
      PROVE  /\ Holding' /\ unclean' \in BOOLEAN /\ script' \in ScriptType
  <2>1. p \in Pid
    BY DEF Free
  <2>2. script' \in ScriptType
    BY <1>3, <2>1 DEF Launch, ScriptType
  <2>3. Holding'
    BY <1>1, <1>3, LaunchHolds DEF Launch
  <2>4. QED
    BY <1>2, <1>3, <2>2, <2>3
<1>4. ASSUME UNCHANGED <<proc, unclean>>
      PROVE  Holding' /\ unclean' \in BOOLEAN
  BY <1>1, <1>2, <1>4 DEF Holding, Alone, Files, Fit, fixed
<1>5. CASE Start
  BY <1>1, <1>3, <1>5 DEF Start
<1>6. CASE Reload
  BY <1>1, <1>2, <1>6, SignalHolds DEF Reload
<1>7. CASE WaitCreated
  BY <1>1, <1>2, <1>4, <1>7 DEF WaitCreated, ScriptType, history
<1>8. CASE WaitRemoved
  <2>1. CASE script.again
    BY <1>1, <1>3, <1>8, <2>1 DEF WaitRemoved, history
  <2>2. CASE ~script.again
    BY <1>1, <1>2, <1>4, <1>8, <2>2 DEF WaitRemoved, ScriptType, history
  <2>3. QED
    BY <2>1, <2>2
<1>9. ASSUME NEW again \in BOOLEAN, Stop(again)
      PROVE  /\ Holding' /\ unclean' \in BOOLEAN /\ script' \in ScriptType
  <2>1. CASE pid_file = NoFile /\ again
    BY <1>3, <1>9, <2>1 DEF Stop
  <2>2. CASE pid_file = NoFile /\ ~again
    BY <1>2, <1>4, <1>9, <2>2 DEF Stop
  <2>3. CASE pid_file # NoFile
    <3>1. /\ Signal(pid_file, "QUIT")
          /\ script' = [doing |-> "removed", pid |-> Nobody, again |-> again]
      BY <1>9, <2>3 DEF Stop
    <3>2. script' \in ScriptType
      BY <3>1 DEF ScriptType
    <3>3. QED
      BY <1>1, <3>1, <3>2, SignalHolds
  <2>4. QED
    BY <2>1, <2>2, <2>3
<1>10. CASE \E again \in BOOLEAN : Stop(again)
  BY <1>1, <1>9, <1>10
<1>11. QED
  BY <1>5, <1>6, <1>7, <1>8, <1>10 DEF Script


-----------------------------------------------------------------------------
(* A master                                                                *)
LEMMA TellType ==
    ASSUME script \in ScriptType, NEW p, NEW code, Tell(p, code)
    PROVE  script' \in ScriptType
BY DEF Tell, ScriptType

(* what else a step of a master leaves as it was, or of its type           *)
LEMMA MasterTypes ==
    ASSUME TypeOK, NEW p \in Pid, Master(p)
    PROVE  /\ script' \in ScriptType
           /\ pid_file' \in Pid \cup {NoFile, Blank}
           /\ overlap' \in BOOLEAN /\ unclean' \in BOOLEAN
           /\ UNCHANGED fixed
           /\ UNCHANGED worker \/ Fork(p)
           /\ \/ path' \in Socket \cup {0}
              \/ GetSocket(p) /\ ~proc[p].inherits
              \/ CreateFails(p) \/ Clean(p)
<1>1. /\ script \in ScriptType /\ pid_file \in Pid \cup {NoFile, Blank}
      /\ path \in Socket \cup {0}
      /\ overlap \in BOOLEAN /\ unclean \in BOOLEAN /\ proc[p] \in Process
  BY DEF TypeOK, ScriptType
<1>2. ASSUME Die(p)
      PROVE  script' \in ScriptType /\ unclean' \in BOOLEAN
  BY <1>1, <1>2, TellType DEF Die, Process
<1>3. script' \in ScriptType
  <2>1. UNCHANGED script \/ \E code \in {0, 1} : Tell(p, code)
    BY DEF Master, Fail, Initialise, LoadConf, Daemonize, Identity, GetSocket,
           CreateFails, CreatPid, CreatFails, WritePid, Leave, UnlinkPid, Clean,
           Exit, Exec, ExecFails, Killed, Fork, Die
  <2>2. QED
    BY <1>1, <2>1, TellType
<1>4. pid_file' \in Pid \cup {NoFile, Blank}
  BY <1>1
     DEF Master, Fail, Initialise, LoadConf, Daemonize, Identity, GetSocket,
         CreateFails, CreatPid, CreatFails, WritePid, Leave, UnlinkPid, Clean,
         Exit, Exec, ExecFails, Killed, Fork
<1>5. overlap' \in BOOLEAN
  BY <1>1
     DEF Master, Fail, Initialise, LoadConf, Daemonize, Identity, GetSocket,
         CreateFails, CreatPid, CreatFails, WritePid, Leave, UnlinkPid, Clean,
         Exit, Exec, ExecFails, Killed, Fork, history
<1>6. unclean' \in BOOLEAN
  <2>1. UNCHANGED unclean \/ unclean' = TRUE \/ unclean' = FALSE \/ Die(p)
    BY DEF Master, Fail, Initialise, LoadConf, Daemonize, Identity, GetSocket,
           CreateFails, CreatPid, CreatFails, WritePid, Leave, UnlinkPid, Clean,
           Exit, Exec, ExecFails, Killed, Fork, history
  <2>2. QED
    BY <1>1, <1>2, <2>1
<1>7. UNCHANGED fixed
  BY DEF Master, Fail, Initialise, LoadConf, Daemonize, Identity, GetSocket,
         CreateFails, CreatPid, CreatFails, WritePid, Leave, UnlinkPid, Clean,
         Exit, Exec, ExecFails, Killed, Fork
<1>8. UNCHANGED worker \/ Fork(p)
  BY DEF Master, Fail, Initialise, LoadConf, Daemonize, Identity, GetSocket,
         CreateFails, CreatPid, CreatFails, WritePid, Leave, UnlinkPid, Clean,
         Exit, Exec, ExecFails, Killed
<1>9. \/ path' \in Socket \cup {0}
      \/ GetSocket(p) /\ ~proc[p].inherits
      \/ CreateFails(p) \/ Clean(p)
  BY <1>1
     DEF Master, Fail, Initialise, LoadConf, Daemonize, Identity, GetSocket,
         CreatPid, CreatFails, WritePid, Leave, UnlinkPid,
         Exit, Exec, ExecFails, Killed, Fork
<1>10. QED
  BY <1>3, <1>4, <1>5, <1>6, <1>7, <1>8, <1>9

(* every step of a master                                                  *)
LEMMA MasterHolds ==
    ASSUME TypeOK, Holding, domain \in {"unix", "inet"}, NEW p \in Pid, Master(p)
    PROVE  Holding' /\ path' \in Socket \cup {0}
<1>1. Holding'
  <2>1. CASE Fail(p)
    BY <2>1, DieHolds DEF Fail
  <2>2. CASE Initialise(p) \/ LoadConf(p) \/ Identity(p)
    BY <2>2, InitialiseHolds
  <2>3. CASE Daemonize(p)
    BY <2>3, InitialiseHolds, DaemonHolds
  <2>4. CASE GetSocket(p)
    BY <2>4, InitialiseHolds, CreateHolds
  <2>5. CASE CreateFails(p)
    BY <2>5, CreateFailsHolds
  <2>6. CASE CreatPid(p) \/ WritePid(p)
    BY <2>6, CreatHolds
  <2>7. CASE CreatFails(p)
    BY <2>7, CreatFailsHolds
  <2>8. CASE Leave(p)
    BY <2>8, LeaveHolds
  <2>9. CASE UnlinkPid(p)
    BY <2>9, UnlinkHolds
  <2>10. CASE Clean(p)
    BY <2>10, CleanHolds
  <2>11. CASE Exit(p)
    BY <2>11, ExitHolds
  <2>12. CASE Exec(p)
    BY <2>12, ExecHolds
  <2>13. CASE ExecFails(p)
    BY <2>13, DieHolds DEF ExecFails
  <2>14. CASE Killed(p)
    BY <2>14, DieHolds DEF Killed
  <2>15. CASE Fork(p)
    BY <2>15 DEF Fork, Holding, Alone, Files, Fit, history, fixed
  <2>16. QED
    BY <2>1, <2>2, <2>3, <2>4, <2>5, <2>6, <2>7, <2>8, <2>9, <2>10, <2>11,
       <2>12, <2>13, <2>14, <2>15 DEF Master
<1>2. path' \in Socket \cup {0}
  BY MasterTypes, CreateHolds, CreateFailsHolds, CleanHolds
<1>3. QED
  BY <1>1, <1>2

-----------------------------------------------------------------------------
(* The worker                                                              *)
LEMMA Ids ==
    ASSUME NEW c \in Configs
    PROVE  /\ set_uid(c) \in Nat /\ set_gid(c) \in Nat
           /\ ~Refused(c) => set_uid(c) # 0 /\ set_gid(c) # 0
           /\ c.chroot \in BOOLEAN
<1>1. /\ c.user \in User /\ c.group \in Group /\ c.chroot \in BOOLEAN
  BY ConfigAssumption DEF Config
<1>2. c.user.uid \in Nat /\ c.user.gid \in Nat /\ c.group.gid \in Nat
  BY <1>1 DEF User, Group
<1>3. QED
  BY <1>1, <1>2 DEF set_uid, set_gid, Refused

(* A new worker is of a master whose configuration has been accepted.      *)
LEMMA ForkDresses ==
    ASSUME TypeOK, Holding, euid \in {0, 1}, NEW p \in Pid, Fork(p)
    PROVE  Dressed'
<1> DEFINE w == [NoWorker EXCEPT !.of = p, !.at = "stdio", !.uid = euid,
                                 !.gid = euid, !.stack = proc[p].stack,
                                 !.sock = proc[p].sock, !.conf = proc[p].conf]
<1>1. worker' = w /\ euid' = euid
  BY DEF Fork, fixed
<1>2. /\ proc[p].stack \in Seq(Names) /\ proc[p].sock \in Socket \cup {0}
      /\ proc[p].conf \in Configs /\ proc[p].at = "running"
  BY DEF TypeOK, Process, Names, Fork, IsAt
<1>3. euid = 0 => ~Refused(proc[p].conf)
  BY <1>2 DEF Holding, Fit
<1>4. NoWorker \in WorkerType
  BY NoProcessType
<1>5. w \in WorkerType /\ w.at = "stdio" /\ w.conf = proc[p].conf
  <2> DEFINE st == proc[p].stack
             so == proc[p].sock
             co == proc[p].conf
             n  == NoWorker
  <2>1. w = [n EXCEPT !.of = p, !.at = "stdio", !.uid = euid, !.gid = euid,
                      !.stack = st, !.sock = so, !.conf = co]
    OBVIOUS
  <2>2. /\ n \in WorkerType /\ euid \in Nat
        /\ st \in Seq(Names) /\ so \in Socket \cup {0} /\ co \in Configs
    BY <1>2, <1>4
  <2> HIDE DEF w, st, so, co, n
  <2>3. w \in WorkerType /\ w.at = "stdio" /\ w.conf = co
    BY <2>1, <2>2 DEF WorkerType
  <2>4. QED
    BY <2>3 DEF co
<1> HIDE DEF w
<1>6. QED
  BY <1>1, <1>3, <1>5 DEF Dressed

(* every step of a worker: what it has taken on it keeps                   *)
LEMMA WorkerDresses ==
    ASSUME Dressed, euid \in {0, 1}, WorkerSteps
    PROVE  Dressed'
<1>1. worker \in WorkerType /\ worker.conf \in Configs
  BY DEF Dressed, WorkerType
<1>2. euid' = euid
  BY DEF WorkerSteps, Jail, SetGid, InitGroups, SetUid, ChildEnv, CleanChild,
         WorkerEnds, Works, fixed
<1>3. /\ set_uid(worker.conf) \in Nat /\ set_gid(worker.conf) \in Nat
      /\ worker.conf.chroot \in BOOLEAN
      /\ euid = 0 /\ worker.at # "none" =>
            set_uid(worker.conf) # 0 /\ set_gid(worker.conf) # 0
  BY <1>1, Ids DEF Dressed
<1>4. CASE Jail
  <2>1. worker' = [worker EXCEPT !.at = "setgid",
                                 !.jail = euid = 0 /\ worker.conf.chroot]
    BY <1>4 DEF Jail, Works
  <2>2. (euid = 0 /\ worker.conf.chroot) \in BOOLEAN
    OBVIOUS
  <2> DEFINE j == euid = 0 /\ worker.conf.chroot
  <2>3. /\ worker' \in WorkerType /\ worker'.at = "setgid"
        /\ worker'.conf = worker.conf
        /\ euid = 0 => worker'.jail = worker.conf.chroot
    <3>1. worker' = [worker EXCEPT !.at = "setgid", !.jail = j] /\ j \in BOOLEAN
      BY <2>1, <2>2
    <3>2. euid = 0 => j = worker.conf.chroot
      BY <1>3
    <3> HIDE DEF j
    <3>3. QED
      BY <1>1, <3>1, <3>2 DEF WorkerType
  <2>4. worker.at = "stdio"
    BY <1>4 DEF Jail, WorkerAt
  <2>5. QED
    BY <1>2, <2>3, <2>4 DEF Dressed
<1>5. CASE SetGid
  <2> DEFINE g == IF euid = 0 THEN set_gid(worker.conf) ELSE worker.gid
  <2>1. /\ worker.at = "setgid" /\ g \in Nat /\ (euid = 0 => g # 0)
    BY <1>1, <1>3, <1>5 DEF SetGid, WorkerAt, WorkerType
  <2>2. worker' = [worker EXCEPT !.at = "initgroups", !.gid = g]
    <3>1. CASE euid = 0
      BY <1>3, <1>5, <2>1, <3>1 DEF SetGid, Works
    <3>2. CASE euid # 0
      <4>1. worker' = [worker EXCEPT !.at = "initgroups"]
        BY <1>5, <3>2 DEF SetGid, Works
      <4>2. g = worker.gid
        BY <3>2
      <4> HIDE DEF g
      <4>3. QED
        BY <1>1, <4>1, <4>2 DEF WorkerType
    <3>3. QED
      BY <3>1, <3>2
  <2> HIDE DEF g
  <2>3. /\ worker' \in WorkerType
        /\ worker'.at = "initgroups" /\ worker'.conf = worker.conf
        /\ worker'.jail = worker.jail /\ worker'.gid = g
    BY <1>1, <2>1, <2>2 DEF WorkerType
  <2>4. QED
    BY <1>2, <2>1, <2>3 DEF Dressed
<1>6. CASE InitGroups
  <2>1. worker.at = "initgroups"
    BY <1>6 DEF InitGroups, WorkerAt
  <2>2. \/ worker' = [worker EXCEPT !.at = "setuid", !.groups = "pool"]
        \/ euid # 0 /\ worker' = [worker EXCEPT !.at = "setuid"]
    BY <1>3, <1>6, <2>1 DEF InitGroups, Works
  <2>3. /\ worker' \in WorkerType
        /\ worker'.at = "setuid" /\ worker'.conf = worker.conf
        /\ worker'.jail = worker.jail /\ worker'.gid = worker.gid
        /\ (euid = 0 => worker'.groups = "pool")
    <3>1. CASE worker' = [worker EXCEPT !.at = "setuid", !.groups = "pool"]
      BY <1>1, <3>1 DEF WorkerType
    <3>2. CASE euid # 0 /\ worker' = [worker EXCEPT !.at = "setuid"]
      BY <1>1, <3>2 DEF WorkerType
    <3>3. QED
      BY <2>2, <3>1, <3>2
  <2>4. QED
    BY <1>2, <2>1, <2>3 DEF Dressed
<1>7. CASE SetUid
  <2> DEFINE u == IF euid = 0 /\ set_uid(worker.conf) # 0
                  THEN set_uid(worker.conf) ELSE worker.uid
  <2>1. worker.at = "setuid" /\ worker' = [worker EXCEPT !.at = "env", !.uid = u]
    BY <1>7 DEF SetUid, WorkerAt, Works
  <2>2. u \in Nat /\ (euid = 0 => u # 0)
    BY <1>1, <1>3, <2>1 DEF WorkerType
  <2> HIDE DEF u
  <2>3. /\ worker' \in WorkerType
        /\ worker'.at = "env" /\ worker'.conf = worker.conf /\ worker'.uid = u
        /\ worker'.jail = worker.jail /\ worker'.gid = worker.gid
        /\ worker'.groups = worker.groups
    BY <1>1, <2>1, <2>2 DEF WorkerType
  <2>4. QED
    BY <1>2, <2>1, <2>2, <2>3 DEF Dressed
<1>8. CASE ChildEnv \/ CleanChild
  <2>1. /\ worker.at \in {"env", "cleanup"} /\ worker' \in WorkerType
        /\ worker'.at \in {"cleanup", "serving"} /\ worker'.conf = worker.conf
        /\ worker'.jail = worker.jail /\ worker'.gid = worker.gid
        /\ worker'.groups = worker.groups /\ worker'.uid = worker.uid
        /\ worker.at = "env" => worker'.env = "pool"
        /\ worker.at = "cleanup" => worker'.env = worker.env
    BY <1>1, <1>8, NothingRegistered
       DEF ChildEnv, CleanChild, WorkerAt, Works, WorkerType
  <2>2. QED
    BY <1>2, <2>1 DEF Dressed
<1>9. CASE WorkerEnds
  <2>1. worker' = NoWorker /\ NoWorker \in WorkerType /\ NoWorker.at = "none"
    BY <1>9, NoProcessType DEF WorkerEnds, Works, NoWorker
  <2>2. QED
    BY <2>1 DEF Dressed
<1>10. QED
  BY <1>4, <1>5, <1>6, <1>7, <1>8, <1>9 DEF WorkerSteps


-----------------------------------------------------------------------------
(* Before the first command nothing is there, and the invariant holds.     *)
LEMMA InitIInv == Init => IInv
<1> SUFFICES ASSUME Init
             PROVE  IInv
  OBVIOUS
<1>1. /\ proc = [p \in Pid |-> NoProcess] /\ worker = NoWorker
      /\ pid_file = NoFile /\ path = 0
      /\ script = [doing |-> "idle", pid |-> Nobody, again |-> FALSE]
      /\ euid \in {0, 1} /\ domain \in {"unix", "inet"}
      /\ overlap = FALSE /\ unclean = FALSE
  BY DEF Init
<1>2. /\ NoProcess \in Process /\ NoProcess.at = "none" /\ NoProcess.sock = 0
      /\ NoWorker \in WorkerType /\ NoWorker.at = "none"
  BY NoProcessType DEF NoProcess, NoWorker
<1>3. /\ proc \in [Pid -> Process]
      /\ \A p \in Pid : proc[p].at = "none" /\ proc[p].sock = 0
  BY <1>1, <1>2
<1>4. \A p \in Pid : Shaped(proc[p]) /\ Fit(proc[p])
  BY <1>3 DEF Shaped, Fit, Unprepared
<1>5. \A p \in Pid : ~Holder(proc[p]) /\ ~Listens(proc[p])
  BY <1>3 DEF Holder, Listens
<1>6. Holding
  BY <1>1, <1>3, <1>4, <1>5 DEF Holding, Alone, Files
<1>7. Dressed
  BY <1>1, <1>2 DEF Dressed
<1>8. worker.of \in Pid \cup {Nobody} /\ worker.sock \in Socket \cup {0}
  BY <1>1, <1>2 DEF WorkerType
<1>9. script \in ScriptType
  BY <1>1 DEF ScriptType
<1>10. TypeOK
  BY <1>1, <1>3, <1>8, <1>9 DEF TypeOK, ScriptType
<1>11. QED
  BY <1>1, <1>6, <1>7, <1>10 DEF IInv

(* Every step keeps the invariant.                                         *)
LEMMA NextIInv == IInv /\ [Next]_vars => IInv'
<1> SUFFICES ASSUME IInv, [Next]_vars
             PROVE  IInv'
  OBVIOUS
<1>1. /\ TypeOK /\ euid \in {0, 1} /\ domain \in {"unix", "inet"}
      /\ Holding /\ Dressed
  BY DEF IInv
<1>2. ASSUME Holding', Dressed', UNCHANGED fixed,
             pid_file' \in Pid \cup {NoFile, Blank}, path' \in Socket \cup {0},
             script' \in ScriptType, overlap' \in BOOLEAN, unclean' \in BOOLEAN
      PROVE  IInv'
  <2>1. worker'.of \in Pid \cup {Nobody} /\ worker'.sock \in Socket \cup {0}
    BY <1>2 DEF Dressed, WorkerType
  <2>2. (proc \in [Pid -> Process])'
    BY <1>2 DEF Holding
  <2>3. TypeOK'
    BY <1>2, <2>1, <2>2 DEF TypeOK, ScriptType
  <2>4. QED
    BY <1>1, <1>2, <2>3 DEF IInv, fixed
<1>3. /\ pid_file \in Pid \cup {NoFile, Blank} /\ path \in Socket \cup {0}
      /\ script \in ScriptType /\ overlap \in BOOLEAN /\ unclean \in BOOLEAN
  BY <1>1 DEF TypeOK, ScriptType
<1>4. ASSUME UNCHANGED <<worker, fixed>>
      PROVE  Dressed'
  BY <1>1, <1>4 DEF Dressed, fixed
<1>5. ASSUME NEW p \in Pid, Master(p)
      PROVE  IInv'
  <2>1. Holding' /\ path' \in Socket \cup {0}
    BY <1>1, <1>5, MasterHolds
  <2>2. /\ script' \in ScriptType
        /\ pid_file' \in Pid \cup {NoFile, Blank}
        /\ overlap' \in BOOLEAN /\ unclean' \in BOOLEAN
        /\ UNCHANGED fixed
        /\ UNCHANGED worker \/ Fork(p)
    BY <1>1, <1>5, MasterTypes
  <2>3. Dressed'
    BY <1>1, <1>4, <2>2, ForkDresses
  <2>4. QED
    BY <1>2, <2>1, <2>2, <2>3
<1>6. CASE WorkerSteps
  <2>1. UNCHANGED <<proc, pid_file, path, script, fixed, history>>
    BY <1>6 DEF WorkerSteps, Jail, SetGid, InitGroups, SetUid, ChildEnv,
                CleanChild, WorkerEnds, Works
  <2>2. Holding'
    BY <1>1, <2>1 DEF Holding, Alone, Files, Fit, history, fixed
  <2>3. Dressed'
    BY <1>1, <1>6, WorkerDresses
  <2>4. QED
    BY <1>2, <1>3, <2>1, <2>2, <2>3 DEF history
<1>7. CASE Script
  <2>1. /\ Holding' /\ UNCHANGED <<worker, pid_file, path, fixed, overlap>>
        /\ unclean' \in BOOLEAN /\ script' \in ScriptType
    BY <1>1, <1>7, ScriptHolds
  <2>2. QED
    BY <1>2, <1>3, <1>4, <2>1
<1>8. CASE UNCHANGED vars
  <2>1. UNCHANGED <<proc, worker, pid_file, path, script, fixed, history>>
    BY <1>8 DEF vars
  <2>2. Holding'
    BY <1>1, <2>1 DEF Holding, Alone, Files, Fit, history, fixed
  <2>3. QED
    BY <1>2, <1>3, <1>4, <2>1, <2>2 DEF history
<1>9. QED
  BY <1>5, <1>6, <1>7, <1>8 DEF Next

(* It is an invariant.                                                     *)
LEMMA Inductive == Spec => []IInv
<1>1. QED
  BY InitIInv, NextIInv, PTL DEF Spec

-----------------------------------------------------------------------------
(* Reachable of Lifecycle: fpm_sockets.c, fpm_cleanup.c and fpm.c never    *)
(* leave a Unix socket's path leading elsewhere than to the socket of the  *)
(* master that listens, over any number of reloads, failures and kills.    *)
THEOREM StaysReachable == Spec => []Reachable
<1>1. IInv => Reachable
  BY DEF IInv, Holding, Files, Listens, Reachable
<1>2. QED
  BY <1>1, Inductive, PTL

(* FilesTell of Lifecycle: where masters have not overlapped, the pid file *)
(* names the one master that runs, and a stop leaves neither it nor the    *)
(* socket's file behind.                                                   *)
THEOREM PidFileTells == Spec => []FilesTell
<1>1. IInv => FilesTell
  <2> SUFFICES ASSUME IInv
               PROVE  FilesTell
    OBVIOUS
  <2>1. TypeOK /\ Files /\ \A p \in Pid : Shaped(proc[p])
    BY DEF IInv, Holding
  <2>2. Free = Pid => \A p \in Pid : ~Holder(proc[p])
    <3>1. Free = Pid => \A p \in Pid : proc[p].at = "none"
      BY DEF Free, IsAt
    <3>2. QED
      BY <2>1, <3>1 DEF Shaped, Holder
  <2>3. QED
    BY <2>1, <2>2 DEF FilesTell, Files, Keeper, IsAt
<1>2. QED
  BY <1>1, Inductive, PTL

(* WorkerUnprivileged of Lifecycle: fpm_unix_conf_wp and                   *)
(* fpm_unix_init_child between them let no worker of root's serve with     *)
(* root's ids, groups or root directory, whatever the configuration says.  *)
THEOREM NoRootServes == Spec => []WorkerUnprivileged
<1>1. IInv => WorkerUnprivileged
  BY DEF IInv, Dressed, WorkerUnprivileged
<1>2. QED
  BY <1>1, Inductive, PTL
=============================================================================
