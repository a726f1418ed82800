------------------------------ MODULE Sockets -------------------------------
(***************************************************************************)
(* The listening sockets of the master (fpm/fpm_sockets.c): the array that *)
(* shares them between pools by reference counts, and how they outlive the *)
(* exec of a reload, as pairs address=descriptor in FPM_SOCKETS that the   *)
(* new image matches against a configuration which may have changed.       *)
(* The kernel's side is what each descriptor is bound to and what each     *)
(* path of a Unix socket leads to.                                         *)
(*                                                                         *)
(* Some definitions are the code with a slip in it, each beside the one it *)
(* varies, and no specification uses them: UnlinkKept, KnownNever,         *)
(* UseUncounted, ImportCounted, UnusedOrShared.                            *)
(***************************************************************************)
EXTENDS Integers, Sequences, SequencesExt, FiniteSetsExt

CONSTANTS
    Pool,        \* pools, in the order the configuration lists them or any
    Unix, Inet,  \* addresses: the keys of the two domains
    Place,       \* what an address leads to: a file, or an interface's port
    place,       \* place[a]; two spellings may lead to one place
    Configs,     \* the configurations the operator may write
    CutBefore,   \* for a path with '=' in it, the part before the sign
    None,        \* no address, no descriptor, no file
    Dead,        \* a file whose socket is closed
    MaxFd        \* bound: descriptors 1 .. MaxFd can be listening sockets

Address == Unix \cup Inet

(* What a listening socket can get.  0 is taken when one is created: by    *)
(* /dev/null, which fpm_stdio_init_main opens, or, when that has found 0   *)
(* closed and closed it again, by the error log, which is opened next.     *)
Fd == 1 .. MaxFd

ASSUME AddressAssumption ==
    /\ Unix \cap Inet = {}
    /\ place \in [Address -> Place]
    /\ \A a \in Inet, u \in Unix : place[a] # place[u]
    /\ CutBefore \in [Address -> Unix \cup {None}]
    /\ \A a \in Inet : CutBefore[a] = None
ASSUME PoolAssumption == IsFiniteSet(Pool)
ASSUME ConfigAssumption ==
    Configs # {} /\ Configs \subseteq [Pool -> Address]
ASSUME FdAssumption ==
    /\ MaxFd \in Nat
    /\ None # Dead /\ {None, Dead} \cap (Nat \cup Address \cup Place) = {}

VARIABLES
    pc,             \* where fpm_sockets_init_main or the master is
    config,         \* listen_address of each pool
    FPM_SOCKETS,    \* [key, sock] records still to be read
    sockets_list,   \* [key, sock, refcount] records
    todo,           \* pools whose socket is not created yet
    i,              \* the index of the last loop
    listening_socket,  \* wp->listening_socket
    bound,          \* kernel: where each descriptor is bound, or None
    file,           \* kernel: the descriptor a Unix place leads to
    zero,           \* kernel: descriptor 0 of the master is "taken", "free",
                    \* or the event base's, "events"
    lost            \* history: descriptors that a failed push or a cut pair
                    \* has left unlisted

image  == <<config, FPM_SOCKETS, todo, i, listening_socket>>
kernel == <<bound, file, zero>>
vars   == <<pc, image, sockets_list, kernel, lost>>

UnixPlace == {place[a] : a \in Unix}
Open      == {fd \in Fd : bound[fd] # None}
Index     == 1 .. Len(sockets_list)
Listed    == {sockets_list[n].sock : n \in Index}

-----------------------------------------------------------------------------
(* The kernel: the sockets of S are closed, the file of address a is       *)
(* unlinked; a file whose socket is closed stays, and leads nowhere.       *)
Closed(S)   == [fd \in Fd |-> IF fd \in S THEN None ELSE bound[fd]]
Orphaned(S, f) == [x \in UnixPlace |-> IF f[x] \in S THEN Dead ELSE f[x]]

UnlinkKept(A, f) == f
Unlink(A, f) ==
    [x \in UnixPlace |->
        IF \E a \in A \cap Unix : place[a] = x THEN None ELSE f[x]]

(* The process ends, in state s: the kernel closes what is open.           *)
End(s, f) ==
    /\ pc' = s
    /\ bound' = Closed(Fd)
    /\ file' = Orphaned(Open, f)
    /\ zero' = "taken"
    /\ sockets_list' = <<>>
    /\ listening_socket' = [p \in Pool |-> None]
    /\ FPM_SOCKETS' = <<>>
    /\ todo' = {}
    /\ i' = 1
    /\ lost' = {}
    /\ UNCHANGED config

-----------------------------------------------------------------------------
(* fpm_sockets_hash_op                                                     *)

(* FPM_GET_USE_SOCKET: the entries with this key                           *)
KnownNever(a) == {}
Known(a)      == {n \in Index : sockets_list[n].key = a}

UseUncounted(n) == UNCHANGED sockets_list
Use(n) == sockets_list' = [sockets_list EXCEPT ![n].refcount = @ + 1]

(* FPM_STORE_SOCKET and FPM_STORE_USE_SOCKET: the array may fail to grow,  *)
(* and nobody looks at the result.                                         *)
Store(a, fd, count) ==
    \/ sockets_list' = Append(sockets_list,
                            [key |-> a, sock |-> fd, refcount |-> count])
    \/ UNCHANGED sockets_list

Lose(fd) ==
    lost' = IF \E n \in DOMAIN sockets_list' : sockets_list'[n].sock = fd
            THEN lost ELSE lost \cup {fd}

-----------------------------------------------------------------------------
(* The master is started, with nothing in its environment.                 *)
Start(c) ==
    /\ pc \in {"exited", "failed", "refused"}
    /\ c \in Configs
    /\ pc' = "import"
    /\ config' = c
    /\ todo' = Pool
    /\ UNCHANGED <<FPM_SOCKETS, i, listening_socket, sockets_list, kernel,
                   lost>>

(* One entry is read back.  It ends at its first '=', so that of a path    *)
(* with that sign only a part is left, and atoi makes 0 of the rest: the   *)
(* socket itself is not found again.                                       *)
Cut(e)  == CutBefore[e.key] # None
Read(e) == IF Cut(e) THEN [key |-> CutBefore[e.key], sock |-> 0] ELSE e

ImportCounted == 1   \* the reference count an inherited socket begins with
ImportCount   == 0

Import ==
    /\ pc = "import"
    /\ IF FPM_SOCKETS = <<>>
       THEN /\ pc' = "create"
            /\ UNCHANGED <<FPM_SOCKETS, sockets_list, lost>>
       ELSE LET e == Read(Head(FPM_SOCKETS))
            IN /\ Store(e.key, e.sock, ImportCount)
               /\ Lose(Head(FPM_SOCKETS).sock)
               /\ FPM_SOCKETS' = Tail(FPM_SOCKETS)
               /\ UNCHANGED pc
    /\ UNCHANGED <<config, todo, i, listening_socket, kernel>>

(* fpm_sockets_get_listening_socket, for the next pool                     *)
Share(p) ==
    /\ pc = "create"
    /\ p \in todo
    /\ Known(config[p]) # {}
    /\ LET n == Min(Known(config[p]))
       IN /\ Use(n)
          /\ listening_socket' =
                [listening_socket EXCEPT ![p] = sockets_list[n].sock]
    /\ todo' = todo \ {p}
    /\ UNCHANGED <<pc, config, FPM_SOCKETS, i, kernel, lost>>

Occupied(a) == a \in Inet /\ \E fd \in Open : bound[fd] = place[a]

(* fpm_sockets_new_listening_socket: a file in the way is unlinked, a port *)
(* in use is an error.                                                     *)
Create(p, fd) ==
    LET a == config[p]
    IN /\ pc = "create"
       /\ p \in todo
       /\ Known(a) = {}
       /\ ~Occupied(a)
       /\ bound[fd] = None
       /\ bound' = [bound EXCEPT ![fd] = place[a]]
       /\ file' = IF a \in Unix THEN [file EXCEPT ![place[a]] = fd] ELSE file
       /\ Store(a, fd, 1)
       /\ Lose(fd)
       /\ listening_socket' = [listening_socket EXCEPT ![p] = fd]
       /\ todo' = todo \ {p}
       /\ UNCHANGED <<pc, config, FPM_SOCKETS, i, zero>>

Refused(p) ==
    /\ pc = "create"
    /\ p \in todo
    /\ Known(config[p]) = {}
    /\ Occupied(config[p])
    /\ End("refused", file)

(* Another system call fails, or the name of an owner is unknown, before   *)
(* unlink, after it, or with the new file already there.                   *)
CreateFails(p) ==
    /\ pc = "create"
    /\ p \in todo
    /\ \/ End("failed", file)
       \/ /\ Known(config[p]) = {}
          /\ config[p] \in Unix
          /\ \E x \in {None, Dead} :
                End("failed", [file EXCEPT ![place[config[p]]] = x])

Created ==
    /\ pc = "create"
    /\ todo = {}
    /\ pc' = "sweep"
    /\ i' = 1
    /\ UNCHANGED <<config, FPM_SOCKETS, todo, listening_socket, sockets_list,
                   kernel, lost>>

(* One turn of the last loop of fpm_sockets_init_main; the last entry is   *)
(* moved to where an unused one is removed.  For a cut pair it is          *)
(* descriptor 0 that close() frees.                                        *)
UnusedOrShared(e) == e.refcount # 1
Unused(e)         == e.refcount = 0

Sweep ==
    /\ pc = "sweep"
    /\ i \in Index
    /\ LET e == sockets_list[i]
       IN IF Unused(e)
          THEN /\ bound' = Closed({e.sock})
               /\ file' = Orphaned({e.sock}, Unlink({e.key}, file))
               /\ zero' = IF e.sock = 0 THEN "free" ELSE zero
               /\ sockets_list' =
                    Front([sockets_list EXCEPT ![i] = Last(sockets_list)])
               /\ UNCHANGED i
          ELSE /\ i' = i + 1
               /\ UNCHANGED <<sockets_list, kernel>>
    /\ UNCHANGED <<pc, config, FPM_SOCKETS, todo, listening_socket, lost>>

(* event_init: the descriptor opened next is the event base's, and gets    *)
(* the lowest number that is free.                                         *)
EventInit == zero' = IF zero = "free" THEN "events" ELSE zero

Swept ==
    /\ pc = "sweep"
    /\ i \notin Index
    /\ pc' = "run"
    /\ EventInit
    /\ UNCHANGED <<image, sockets_list, bound, file, lost>>

-----------------------------------------------------------------------------
(* fpm_sockets_cleanup                                                     *)

(* FPM_CLEANUP_PARENT_EXEC, and the new image; without any entry the       *)
(* variable keeps what is left of its old value, which reads as nothing.   *)
(* A 0 that closes with the event base is taken again before any socket is *)
(* created.                                                                *)
Reload(c) ==
    /\ pc = "run"
    /\ c \in Configs
    /\ pc' = "import"
    /\ config' = c
    /\ FPM_SOCKETS' = [n \in Index |-> [key  |-> sockets_list[n].key,
                                        sock |-> sockets_list[n].sock]]
    /\ sockets_list' = <<>>
    /\ todo' = Pool
    /\ i' = 1
    /\ listening_socket' = [p \in Pool |-> None]
    /\ zero' = "taken"
    /\ UNCHANGED <<bound, file, lost>>

ExecFails == pc = "run" /\ End("failed", file)

(* FPM_CLEANUP_PARENT_EXIT_MAIN                                            *)
Exit ==
    /\ pc = "run"
    /\ End("exited", Unlink({sockets_list[n].key : n \in Index}, file))

(* FPM_CLEANUP_CHILD: fpm_stdio_init_child has made the socket of the pool *)
(* the worker's standard input; then event_base_free closes the event      *)
(* base's descriptor, by its number, and every listed one is closed.       *)
Stdin(p) == IF zero = "events" \/ 0 \in Listed
            THEN None ELSE bound[listening_socket[p]]

-----------------------------------------------------------------------------
Init ==
    /\ pc = "exited"
    /\ config \in Configs
    /\ FPM_SOCKETS = <<>>
    /\ sockets_list = <<>>
    /\ todo = {}
    /\ i = 1
    /\ listening_socket = [p \in Pool |-> None]
    /\ bound = [fd \in Fd |-> None]
    /\ file = [x \in UnixPlace |-> None]
    /\ zero = "taken"
    /\ lost = {}

Next ==
    \/ \E c \in Configs : Start(c) \/ Reload(c)
    \/ Import
    \/ \E p \in Pool : Share(p) \/ Refused(p) \/ CreateFails(p)
    \/ \E p \in Pool, fd \in Fd : Create(p, fd)
    \/ Created \/ Sweep \/ Swept
    \/ ExecFails \/ Exit

Spec == Init /\ [][Next]_vars

-----------------------------------------------------------------------------
(* Every variable has its type, and no descriptor is listed twice, except  *)
(* the 0 of cut pairs.                                                     *)
TypeOK ==
    /\ pc \in {"import", "create", "sweep", "run",
               "exited", "failed", "refused"}
    /\ config \in Configs
    /\ FPM_SOCKETS \in Seq([key : Address, sock : Fd \cup {0}])
    /\ sockets_list \in Seq([key : Address, sock : Fd \cup {0},
                             refcount : 0 .. Cardinality(Pool)])
    /\ todo \subseteq Pool
    /\ i \in 1 .. Len(sockets_list) + 1
    /\ listening_socket \in [Pool -> Fd \cup {0, None}]
    /\ bound \in [Fd -> Place \cup {None}]
    /\ file \in [UnixPlace -> Fd \cup {None, Dead}]
    /\ zero \in {"taken", "free", "events"}
    /\ lost \subseteq Open
    /\ \A m, n \in Index :
          sockets_list[m].sock = sockets_list[n].sock =>
              m = n \/ sockets_list[m].sock = 0

(* The reference count of a socket is the number of pools that listen on   *)
(* it, through every import, share and removal: fpm_sockets_init_main      *)
(* closes what counts nobody and nothing else.  Types included.            *)
Counted ==
    /\ TypeOK
    /\ pc \in {"create", "sweep", "run"} =>
          \A n \in Index :
              sockets_list[n].refcount =
                  Cardinality({p \in Pool :
                                  listening_socket[p] = sockets_list[n].sock})

(* Whatever the operator changed at the last reload, once the master runs  *)
(* a client that connects to a pool's address reaches the pool's socket,   *)
(* and so does the worker in accept() on its standard input, unless the    *)
(* event base has got descriptor 0.  (Not promised of a socket the array   *)
(* has no entry for.)                                                      *)
Served ==
    pc = "run" =>
        \A p \in Pool : listening_socket[p] \notin lost =>
            LET fd == listening_socket[p] IN
            /\ fd \in Open
            /\ bound[fd] = place[config[p]]
            /\ config[p] \in Unix => file[place[config[p]]] = fd
            /\ zero # "events" => Stdin(p) = bound[fd]

(* Any path, as conf/php-fpm.conf.in:39-40 has it, is an address to accept *)
(* requests on, over reloads as well: the workers of each pool have the    *)
(* socket at its address as their standard input.  (With the same          *)
(* reservation.)                                                           *)
WorkersAccept ==
    pc = "run" =>
        \A p \in Pool : listening_socket[p] \notin lost =>
            Stdin(p) = place[config[p]]

(* Every socket that is open is listed, to be used, closed or inherited    *)
(* again, and none is kept that nobody uses: over a reload only those leak *)
(* that a failed push or a path with '=' has cost their entry.             *)
Inherited ==
    /\ pc \in {"create", "sweep", "run"} => Open \subseteq Listed \cup lost
    /\ pc = "run" => Listed \subseteq {listening_socket[p] : p \in Pool}

(* Clients wait in the queue of a socket during a reload: while the master *)
(* lives it closes no socket whose address is still configured.            *)
KeptAlive ==
    [][\A fd \in Open : bound'[fd] = None =>
            \/ pc' \in {"exited", "failed", "refused"}
            \/ \A p \in Pool : place[config'[p]] # bound[fd]]_vars

(* A socket file outlives its socket only when the master fails: neither a *)
(* reload that drops the address nor an exit leaves it behind.             *)
NoDeadFile ==
    [][\A x \in UnixPlace :
            file[x] \in Fd \ lost /\ file'[x] = Dead =>
                pc' \in {"failed", "refused"}]_vars

(* A reload is refused the port of a pool only when the new configuration  *)
(* names in another way a port that the old one had (its socket is closed  *)
(* only after the new one is created), or when a socket has lost its       *)
(* entry: none the master could have matched is in its way.                *)
RefusedIfRespelled ==
    [][pc = "create" /\ pc' = "refused" /\ lost = {} =>
            \E p \in todo, n \in Index :
                /\ sockets_list[n].key # config[p]
                /\ place[sockets_list[n].key] = place[config[p]]]_vars
=============================================================================
