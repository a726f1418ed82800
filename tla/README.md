# A TLA+ model of php-fpm

php-fpm is a FastCGI process manager for PHP: one master process that forks pools of
workers, buries and replaces them, stops and reloads on signals, and watches how long each
request takes. This directory holds TLA+ modules of that program, the TLC configurations
that check them and TLAPS proofs about them. Every definition is translated from the C
source of the repository; `PROJECT.json` maps each one to its lines.

## 1. The system

| Part | Source | State | Operations |
|---|---|---|---|
| Process control | `fpm/fpm_process_ctl.c` | `fpm_state`, `fpm_signal_sent`, `pctl_event` | `fpm_pctl` (set, timeout, last child exited), `fpm_pctl_heartbeat` |
| Children | `fpm/fpm_children.c` | the child lists and counters of each pool, `last_faults`, `fault` | `fpm_children_make`, `fpm_children_bury`, `fpm_child_close` |
| Signals, event loop | `fpm/fpm_signals.c`, `fpm/fpm_events.c` | the socketpair `sp` | `sig_handler`, `fpm_got_signal`, `sig_soft_quit`, `fpm_signals_init_main/_child` |
| Start-up | `fpm/fpm.c` | `fpm_globals` | `fpm_init`, `fpm_run` |
| Shared-memory slots | `fpm/fpm_shm_slots.c`, `fpm/fpm_arrays.h`, `fpm/fpm_atomic.h`, `fpm/fpm_shm.c` | `slots_used`, `slots_free`, `shm_slot_i`, the lock word | prepare, discard, use, look up, acquire, release |
| Request stages | `fpm/fpm_request.c` | `request_stage`, `accepted` in the slot; `slow_logged`, `tracer` of the child | five reports by the worker, `fpm_request_check_timed_out` by the master |
| Accept loop | `cgi/fastcgi.c`, `cgi/cgi_main.c` | `req->fd`, `req->keep`, `in_shutdown`, `requests` | `fcgi_accept_request`, `fcgi_close`, `fcgi_finish_request`, `main`'s loop |
| FastCGI framing | `cgi/fastcgi.c`, the SAPI functions of `cgi/cgi_main.c` | `in_len`, `in_pad`, `out_buf`, `out_hdr`, `keep` | `fcgi_read_request`, `fcgi_read`, `fcgi_write`, `fcgi_flush`, `fastcgi_finish_request` |
| Sockets | `fpm/fpm_sockets.c` | an array of (fd, address, reference count), `FPM_SOCKETS` | get, inherit, clean up |
| Pipes and log | `fpm/fpm_stdio.c`, `fpm/zlog.c` | `fd_stdout`, `fd_stderr`, two events per child | prepare, use, `fpm_stdio_child_said` |
| Trace | `fpm/fpm_php_trace.c`, `fpm/fpm_trace*.c` | the traced pid | stop, attach, dump, detach |
| Cleanups | `fpm/fpm_cleanup.c` | a stack of (type, callback) | add, run |
| Configuration | `fpm/fpm_conf.c`, `fpm/xml_config.c` | the configuration tree, the pid file | parse, load, validate |
| Unix, PHP glue, environment | `fpm/fpm_unix.c`, `fpm/fpm_php.c`, `fpm/fpm_env.c` | identity, jail and environment of a process | straight sequences at start-up and in a new child |
| Init script | `conf/init.d.php-fpm.in` | what it waits for | start, stop, restart, reload |

### How the parts interact

* An operator's signal runs `sig_handler`, which writes one character into a non-blocking
  socket; the event loop reads it in `fpm_got_signal` and calls `fpm_pctl` or
  `fpm_children_bury`. SIGCHLD takes the same way.
* `fpm_children_bury` calls, for every dead child, the list, the slots, the pipes, the
  process control (a stop may end here) and the emergency ring (a reload may begin here),
  and then `fpm_children_make` for the same pool.
* A fork shares the slot of the child with the master. The worker writes its stage into it
  under a spin lock; every 130 ms the master copies it under one try for the same lock and
  stops the worker (for a trace) or sends it SIGTERM. A worker that has read a request has a handler
  of its own for that (`fcgi_signal_handler`): it only asks the accept loop to leave.
* A reload execs the binary again: the image, the timer and the signal socket are gone; the
  listening sockets pass through the environment.
* PHP calls the SAPI functions of `cgi_main.c`, which pack output into the records of
  `fastcgi.c` and take the body out of them; the accept loop decides whether the connection is
  read on for another request.
* The init script knows the master by its pid file alone. Every way out of the program (a
  daemon's parent, an exit, an exec, a worker that begins) runs its part of one stack of cleanups.

### What is hard

Signals that merge, are dropped or arrive between any two instructions; a worker that has
been forked and does not yet have its own handlers; stops that overtake reloads; a death that
both ends a stop and would refill a pool; a lock word in memory that outlives its holder; a
cached index into an array that is compacted; a decision taken on a copy; two streams packed
into one buffer that must leave room for the end; a connection on which the next request begins
where the last one must have ended; files that outlive the process they name. `PROJECT.json`,
"hazards", lists them at their lines with the properties that would notice.

What makes each part correct:

* *Process control*: a command overrides only weaker ones and never restarts the grace
  period; it always ends; it ends when the last child is waited for and not before.
* *Children*: counters equal lists, no child is forgotten or counted twice; every death is
  waited for; pools are full while serving and never grow otherwise.
* *Emergency ring*: it is the recent history and decides exactly at the threshold.
* *Slots*: each child has one slot, which is the one its worker writes; a slot is never in
  two hands; the lock excludes and is always released in the end.
* *Requests*: no torn copy; an overdue script is told to end, and only its own time is counted; a
  slow connection is traced once.
* *Accept loop*: an idle worker asked to quit leaves, a busy one after at most one request more.
* *Sockets*: every pool is served, by the socket clients know, across every reload.
* *Pipes*: a descriptor and its event are one child's; the log has every byte once.
* *Framing*: the answer is whole, in order, in well-formed records and for the request asked;
  the script gets its body; the next request is looked for where it begins.
* *Life cycle*: clients reach whoever listens; the pid file tells who runs; nobody serves as root.

## 2. The modules

### `Supervisor` - what the master promises

An abstract specification with three variables: a goal, a crew of workers per pool, and
whether the master is up. A goal is overridden only by a stronger one, crews grow only while
the goal is to serve, and the master ends or starts anew in the very step in which the last
worker is lost (or commanded with nobody there).

### `FpmMaster` - the master and its workers

One module composes process control, children, event loop and signals, because they call
each other within one step. `pc` says where the master is: in `fpm_init`, in the fork loop
of `fpm_run`, waiting in the event loop, in `fpm_got_signal`, in `fpm_children_bury`, in the
fork loop called from it, or ended. One action is one turn of a loop: a character read, one
`waitpid`, one `fork`. Everything that the turn calls is part of the action: `ReapDead` unlinks
the child, lets the process control conclude (`LastGone`, `ActionLast`), lets a fault
start a reload (`ActionNext`), and goes on to refill.

| Variable | Code |
|---|---|
| `fpm_state`, `fpm_signal_sent`, `timer` | the statics of `fpm_process_ctl.c`; `timer` is `pctl_event` added |
| `pipe`, `chld` | bytes in `sp`; a SIGCHLD the kernel has not delivered (it keeps one) |
| `wp`, `running`, `running_children` | `child->wp` of the linked children, `wp->running_children`, `fpm_globals.running_children` |
| `cur`, `todo` | the pool being filled, the pools `fpm_run` has still to fill |
| `life`, `held` | a worker process: booting, ready, stopped, left traced, dying, dead; signals a stopped process has pending |
| `control` | operator signals still to come (a bound) |
| `overrun`, `gaveUp` | history, for `NoLostReap` and `PoolsFull` |

Choices left open: whether a fork or its resources fail, whether an exec or start-up fails,
when workers boot, exit or crash, whether a SIGTERM ends a worker or is caught by
`fcgi_signal_handler`, which workers are slow or late at a heartbeat, whether a
trace leaves its worker stopped or its detach swallows a signal, and whether a fault trips
the emergency restart, which `EmergencyRestart` decides.

### `EmergencyRestart` - the ring of faults

The part of `fpm_children_bury` that follows a SIGSEGV or SIGBUS, with real times.

### `ShmSlots` - the slots of one pool

`slots_used`, `slots_free`, the index of each child into the first, the slot pointer each worker
has looked up once, the lock words, and failures of `realloc` and of the allocation of chunks. A
failed chunk leaves an item with an unset child pointer; when compaction writes through it
(`wild`) the behaviour is undefined and the model stops. So it does when `mmap` fails:
`fpm_shm_alloc` compares its result with a null pointer, so that a failure is not seen
(`MapFails`).

### `RequestLoop` - one worker and its watcher

The accept loop of `fastcgi.c` and `cgi_main.c` with its five reports, each in three
instructions (lock, stage, rest and unlock), against the heartbeat (read the clock, copy,
judge) and against SIGQUIT, SIGTERM and crashes. The clock ticks at any time: nothing makes a
heartbeat come in every second or get the lock. `since`, `reused` and `late` are history: when the
request now in service began, whether it is a later one of its connection, and how many have begun
since the worker was asked to leave.

What SIGTERM does is `SigTerm`. `fpm_signals_init_child` gives a worker the default action, but its
first request calls `fcgi_is_fastcgi` and with it `fcgi_init`, which installs `fcgi_signal_handler`:
from then on (`is_initialized` is "worker") SIGTERM only sets `in_shutdown`, as `sig_soft_quit` does,
which replaces descriptor 0 besides (`swapped`). If the master has logged a message of
PHP's at start-up, `fcgi_init` has run there without installing anything, and workers inherit that
("master"): they die of SIGTERM. `FpmMaster` leaves open which of the two a worker is.

### `Sockets` - listening sockets across reloads

`sockets_list` with its counts, the `FPM_SOCKETS` pairs an exec leaves behind, and the kernel:
`bound` (where a descriptor listens) and `file` (what the path of a Unix socket leads to).
`fpm_sockets_init_main` is a step per entry read, per pool and per turn of its last loop; the
configuration may change in every way at each reload. An address has a `place`, so that two
spellings of one port can be told apart and still collide; `Read` is what becomes of a pair
when it is parsed. `lost` remembers descriptors whose entry could not be stored.

`zero` is what becomes of the master's descriptor 0. A pair cut at '=' is listed with it, the
sweep closes it, `event_init` is given it (`EventInit`; that the event base opens its descriptor first
and frees it by number is how libevent with epoll does), and a worker that has put its socket over it
closes it with the event base (`Stdin`). No socket is ever created as descriptor 0: after an exec
`fpm_stdio_init_main` finds it closed, opens and closes it again, and the error log, opened
before the sockets, takes it.

### `Stdio` - what workers print

The pipe of each child from fork to burial, its event in libevent, and `fpm_stdio_child_said`
with its variables, one action per half of its loop's turn, so that writers act in between.
Burial calls the same callback (`BuryOpen`) and closes what it has not closed (`ReturnBury`).
An `heir` is a process the worker has started that inherits the pipe. `written` and `logged` are
history. The two pipes of a child take the same way, one after the other; one is modelled.

### `FastCGI` - the protocol

One worker's connection: the records the web server has sent and the code has not read
(`stream`, `off`), what the code believes is left of one (`in_len`, `in_pad`), `out_buf` with
what is packed in it (`out`), and where the worker is (`phase`). Bytes are counted: a record says
which bytes of its stream it carries (`from`, `len`), so that what arrives can be compared with
what was said. One action is one header read, one portion of a body, one branch of
`fcgi_write` (`WriteFits`, `WriteSpills`, `WriteDirect`), one turn of its loop (`DirectChunk`,
`DirectLast`), one flush; each write may fail. The web server keeps to the protocol, knows
CONTENT_LENGTH, pads no empty record, and may go away after any part of any record. `said`,
`taken`, `answer`, `early` are history.

What came to light while translating it, and which the properties except or leave open:

* When the other stream's packet is closed with no more than a header's room left, the new packet
  is opened behind it with nothing in it and flushed: an empty record goes out in the middle of
  a stream, which to the protocol is that stream's end. `OutputIntact` compares bytes.
* A failed write leaves `out_pos` where it was and `keep` reset. Output stops, the log does not:
  a further long message is copied behind what is packed, and can pass `out_buf` and the 16 bytes
  reserved behind it. There (`phase` "undefined") the model stops; `EndFits` holds until a write
  fails.
* `fastcgi_finish_request` on a kept connection sends END_REQUEST while the script goes on; its
  later output and a second END_REQUEST may come after the web server's next request.
  `AnswersMatch` excepts such a connection (`early`).
* When the header of a further STDIN record fails, `fcgi_read` returns 0 and what that call has
  read is lost to the script (`BodyDelivered` speaks of servers that have not gone away).
* A name-value pair that goes on in the next PARAMS record is refused, and FCGI_GET_VALUES is
  answered and its connection closed.

### `Lifecycle` - masters from start to end

Several masters (`proc`), one worker, the pid file and the socket file, and the init script. A
master is at an initialiser of `fpm_init`, running, or on its way out; its `stack` holds the
cleanups registered so far, and `way` says for whom they run. `FpmMaster` is one step here: a
running master told to stop or to reload does so once no worker is left. `After` and `Registers`
are `fpm_init`; `Fail` is any initialiser's failure; `Daemonize` forks; `LoadConf` reads whatever
the file says now. A worker takes the steps of `fpm_unix_init_child` one by one. `Reachable`
and `FilesTell` speak of what is outside: whether a client's connect reaches the master, and
what an operator concludes from the pid file.

What they except:

* `fpm_pctl_exit` removes the pid file before the cleanups close the sockets, and the init
  script's `restart` starts a master as soon as the file is gone (or 35 s have passed): the new
  master may find the port taken, or have the file of its Unix socket unlinked by the old one
  (`overlap`).
* A master that ends otherwise than by `fpm_pctl_exit` (a kill, a failed exec, an initialiser
  failing after a reload) leaves a pid file that names nobody, and `creat` and `write` are
  two steps (`unclean`).
* The parent of a daemon exits with 0 before the sockets are there; what `start` then waits for
  can be a stale file.

### `FpmMasterProofs`, `EmergencyRestartProofs`, `ShmSlotsProofs`, `RequestLoopProofs`, `SocketsProofs`, `StdioProofs`, `FastCGIProofs`, `LifecycleProofs`

Theorems about the modules they are named after, see section 5.

### The instances

`MCMaster`, `MCSlots`, `MCSockets`, `MCStdio`, `MCFastCGI` and `MCLifecycle` name the small instances; `MCFastCGI`
also has TLC evaluate `KnowsLength`, the hypothesis of two theorems. Some definitions, named in each module's
head, are the code with one slip in it (a dropped check, an off-by-one, a missing reset).
No specification uses them. Put in place of the definition beside them, each makes the
property that `PROJECT.json` ("mutants") names fail: the properties do depend on the code.

## 3. The runs

| Run | Instance | Asks |
|---|---|---|
| `master_safety` | 2 pools of 1 sharing 2 pids, up to 3 commands of SIGTERM, SIGQUIT, SIGUSR2 | Every pool filled; no orphan, no lost death, an armed escalation that never weakens, SIGKILL final; the master implements `Supervisor` |
| `master_live` | 1 pool of 2, any one of the 5 signals | A stop and a reload end, every death is waited for |
| `emergency_ring` | threshold 3, interval 2 s, 6 faults, host up for longer than the interval | The ring is the history; a reload exactly at the threshold |
| `emergency_early` | the host has just booted | *violated*: see findings |
| `request` | timeout and slow log 1 s, 3 requests per worker, keep-alive | Copies, decisions to terminate (exact for a connection's first request) and traces; at most one more request when asked to leave; overdue scripts are told to end, idle workers quit, no report spins for ever |
| `request_keepalive` | timeout 2 s, slow log 1 s, 2 requests per worker, keep-alive | *violated*: see findings |
| `slots` | 3 children, 4 slots, failing `realloc` and refused chunks | Master and worker agree on the slot, slots are in one place, locks are free for the next worker |
| `sockets` | 2 pools, 2 paths (one with '=') and a port in 2 spellings, any configuration at each reload | Counts, service, inheritance, nothing closed under clients, no file left, no port refused but over its spelling |
| `sockets_sign` | that of `sockets`, with 3 descriptors | *violated*: see findings |
| `stdio` | 2 children, 2 descriptors, 3 bytes of output, a buffer of 3 | Descriptors, events, every byte of the log; every dead child is buried |
| `fastcgi` | the real sizes; 2 of 6 requests, 3 calls of scripts | Room for the end, whole and framed output, answers to the request asked, bodies delivered, worker and server in step |
| `lifecycle` | 3 process ids, 4 configurations, 3 commands of the init script, one kill | The socket's path, the pid file, the identity of workers |

`RingIsHistory`, `NoTornCopy`, `SlotsPartitioned`, `Counted`, `Framed` and `FilesTell` include the
types of their modules' variables; those of `FpmMaster` and `Stdio` are in no run and proved
(section 5).

Some properties except what the code gives up on purpose or cannot know. `Inherited`, `Served`
and `NoDeadFile` except a socket whose entry could not be stored (nobody looks at the result)
or whose path contains '=': `FPM_SOCKETS` holds `path=descriptor` and is cut at the first '=',
so the new image knows a shorter address with descriptor 0, while the socket itself stays open
and listed nowhere. `EventsOwned` excepts a child whose pipe a process of its own still holds.
`Served` excepts, besides, the standard input of workers once the event base has descriptor 0, which
such a path brings about (section 4).
No configuration of the run names the shortened path: a pool that did would be handed
descriptor 0, and would not be served.

### Bounds

* `MaxControl` (operator signals) and `PipeCap` (socket capacity). Three commands reach every
  chain of overrides (reload, finish, terminate) and every repetition. The socket is larger than
  the commands in all runs, which is the real situation; SIGCHLDs do fill it.
* Two workers are the fewest of which one can be stopped or booting while the other dies;
  two pools the fewest in which a pool can be empty and the master not (liveness has one pool of
  two, where a refill meets a worker of the same pool). As many pids as
  workers, so that pids are reused.
* `MaxClock`, `MaxFaults`: the ring wraps twice and ages past the interval in between.
* `MaxRequests` 2 is the fewest with a second request on a connection, 3 the fewest with two after
  a worker has been asked to leave in its first. Run `request` has timeouts of 1 s and a clock that
  goes to 2: a request can be young or overdue, a connection traced and then timed out at the same
  second, and the clock change between any two instructions of either side; time may stop anywhere,
  heartbeats do not. (Its safety properties are theorems for all timeouts and clocks.)
* `MaxSlots`: one per child and one to lose; three children are the fewest with a hole that
  is neither first nor last. Refused chunks add items up to `2 * MaxSlots`: the first one that
  compaction reaches ends the run, so that more add nothing.
* `MaxFd` 4: two inherited sockets and two new ones, or fewer and some to lose. Three places let a reload
  keep, drop and add one at once, and let the sweep move an entry it has still to look at; the second
  spelling lets an inherited socket be in the way of a new one.
* A buffer of 3 holds two bytes and the NUL, so that three bytes overfill it, exactly fill it or
  leave a rest behind a newline; two descriptors are each reused by the other child.
* `fastcgi` has the code's own sizes (8192, 65535). The lengths are one that leaves the buffer
  open, ones that fill it to the last byte, leave just a header's room or none behind the other
  stream, or pass it, and one that takes the third branch with a full chunk, a last chunk and a rest. Two requests
  are the fewest with a next one on a kept connection; three calls let a write follow a
  switch of streams that follows a write. One request's body comes in two records, the first padded.
* `lifecycle`: a daemon's parent, its child and a second master need three process ids; three commands
  are a start, a reload or restart, and one more. One pool and one address: several are in `Sockets`.
* Processes and children are symmetric; symmetry is used in
  runs without liveness only.

### Fairness

`FpmMaster!Fairness`: the master's own step once it is on the processor (weak); the expired
timer (strong: libevent runs expired timers on every pass of its loop, but signals may wake it
in between without end); the burial of each reported process (strong: `waitpid` finds the
oldest report first); the death of a process given a fatal signal (weak: the kernel). Nothing
makes a worker boot, answer or exit, no heartbeat and no operator is needed.
`RequestLoop!Fairness`: the worker's own instructions, the return of `accept()` once its
descriptor has been replaced, and the master's heartbeats with the steps of each (libevent runs
expired timers on every pass); clients, scripts and the operator owe nothing, and time need not pass.
`Stdio!Fairness`: the callback's own steps, and the burial of a dead child once the master is
back in its loop (that the SIGCHLD arrives is `NoLostReap` of `FpmMaster`). Output is finite: a
worker that always writes would keep the loop, and the master with it, busy.

## 4. Findings

* **Emergency restart after boot** (`emergency_early`). `conf/php-fpm.conf.in:17` says that a
  graceful restart is initiated when "this amount of php processes exited with SIGSEGV or
  SIGBUS". `fpm_children_init_main` zeroes the ring of times, and `fpm_clock_get` counts from the
  host's boot: until the host is up for longer than the interval the empty entries are as recent as
  the interval asks, and the first fault starts the reload.
* **Timeout of kept connections** (`request_keepalive`). `conf/php-fpm.conf.in:103` calls
  `request_terminate_timeout` "the timeout (in seconds) for serving a single request". On a
  connection with FCGI_KEEP_CONN `fcgi_close` does not report the end of a request, and the next
  one is read without a new accept time; the master measures from the connection's accept
  and decides to terminate a worker over a request that has just begun or while it waits for one.
* **A path with '='** (`sockets_sign`). `conf/php-fpm.conf.in:39-40` takes any '/path/to/unix/socket'. The
  pair of one with '=' in it is cut there at a reload and read as descriptor 0; `fpm_sockets_init_main`
  closes 0 as an unused socket, `event_init` gets it, and in each worker `event_base_free` closes it
  after `fpm_stdio_init_child` has made it the listening socket: no worker of any pool can accept.
Where the documentation says more than the code does, and the properties of the runs say what is left:

* *Emergency restart at the interval.* `conf/php-fpm.conf.in:20` wants the faults "in a less than this
  interval of time". `fpm_children_bury` gives up only when a fault is more than the interval old:
  faults exactly the interval apart, in whole seconds, start the reload. `RestartExactly` includes
  that second, as the code does.
* *Timeout of a script that does not end.* `conf/php-fpm.conf.in:103-104`: "after which the worker
  process will be terminated", to be "used when 'max_execution_time' ini option does not stop script
  execution for some reason". What the master sends is SIGTERM, and a worker that has read a request has
  `fcgi_signal_handler` for it, which only sets `in_shutdown`; that is looked at between requests. Every
  heartbeat sends the signal again, and nothing stronger follows: such a script runs on. So
  `OverdueTold` promises the signal and no end, and `OneMoreRequest` what the worker does afterwards.
* *Reload to another spelling.* `man/php-fpm.1.in:120` calls SIGUSR2 a "graceful reload of all workers
  + reload of fpm conf/binary". When the new configuration names the same port as 'port' instead of
  'ip.ad.re.ss:port', or the other way round, the inherited socket is closed only after the new one is
  bound; `bind()` fails and the master, whose workers are gone, exits (`Refused`).
  `RefusedIfRespelled` says that nothing else refuses a reload its port.

## 5. Proofs

Every safety property of the runs that are expected to pass is a theorem. Each component has a module of theorems with the same plan: the inductive
invariant as a conjunction of named parts, that `Init` gives it, a lemma per action or group of
actions that the actions keep it, and then the theorems. The constants are unbounded: what bounds
the runs (pools, children, pids, descriptors, addresses, sizes of buffers, timeouts, the number
of signals, reloads, faults, requests, ticks) is any number in the theorems. The assumptions
are the ASSUMEs of the modules, which the runs evaluate. Two promises that the code breaks
(`RestartOnlyAtThreshold` and `WorkersAccept`, section 4) are proved under a hypothesis that names the way they break: the theorem shows that it
is the only way. Two of `FastCGI` have a hypothesis on the web server, `KnowsLength` (below), which
the run evaluates for its requests.

### `FpmMasterProofs`

| Theorem | Property | Says |
|---|---|---|
| `Typing` | `TypeOK` | types; no counter below zero; the socket within its capacity |
| `Books` | `Bookkeeping` (proved, in no run) | counters are the sizes of the lists, lists are the processes forked and not waited for |
| `NobodyOutlives` | `NoOrphan` | no exit and no exec over a worker |
| `AlwaysArmed` | `EscalationArmed` | a stop in progress has its timer armed and somebody to wait for |
| `NoLateSpawn` | `NoSpawnWhileStopping` (proved, in no run) | forks only in the normal state |
| `KillEndsAll` | `KillIsFinal` | SIGKILL ends every child |
| `Escalates` | `NeverWeaker` | a state gives way to one that may override it; signals only get stronger |
| `Full` | `PoolsFull` | no pool above its limit; full while serving |
| `EveryDeathNoticed` | `NoLostReap` | every death and stop will be waited for |
| `Implements` | `Supervises` | initial states and steps of `FpmMaster` are `Supervisor`'s, or stutter |

`IInv == TypeOK /\ Bookkeeping /\ Control /\ EscalationArmed`. `Bookkeeping` needs `Control` (the
pool being filled is a pool). `NoOrphan` is not inductive: that a master which has left its busy
states has no process follows from its counter being zero (`Control`), and from the counter being
the size of the list. `EscalationArmed` is needed to know, when the timer fires, that somebody is
left to signal. `QuietIInv` serves every step that leaves lists and process control alone;
`ActionNextProcs` and `ActionNextMaster` say once what `fpm_pctl_action_next` does, for its three
callers. Relative to `IInv`:

* `KillIsFinal` is inductive: in the state SIGKILL has been sent in, no worker is booting, ready
  or stopped, so no step but a further round of signals touches one.
* `PoolsFull` needs `Filling`, which says what the two fork loops have still to do.
* `NoLostReap` needs `Noticing` and, in it, `Honest`: behind the last 'C' in the socket there are no more
  characters than the operator has sent. So only a socket the operator alone could fill can be full
  without a 'C' in it, and drop the only SIGCHLD.
* The refinement maps each action; the step in which the last child is waited for maps to the
  end of the master, or to its new beginning, of `Supervisor`.

### `EmergencyRestartProofs`

| Theorem | Property | Hypothesis | Says |
|---|---|---|---|
| `RingHoldsHistory` | `RingIsHistory` | | read backwards, the ring is the history of the faults |
| `ReloadsExactly` | `RestartExactly` | `Boot > Interval` | a fault starts a reload exactly at the threshold, the interval itself included |
| `NoReloadBefore` | `RestartOnlyAtThreshold` | `Boot > Interval` | the promise that run `emergency_early` refutes |

The hypothesis is what the finding is about: the host was up for longer than the interval.
`IInv == TypeOK /\ History /\ Ordered`. `History` names the slot of the k-th last fault where
`RingIsHistory` computes it with a modulus (`BackIsModulus`); `Ordered`, that history follows the
clock, makes the one comparison of the code, with the oldest entry, decide about all of them
(`ConditionIsEnough`).

### `ShmSlotsProofs`

| Theorem | Property | Says |
|---|---|---|
| `Partition` | `SlotsPartitioned` | no slot is in two places, or in none but for a failed push |
| `SameSlot` | `WatchesOwnSlot` | the master judges a child by the slot its worker writes |
| `HeldByTheLiving` | `LockHasHolder` | a running worker never finds its lock left by a predecessor |

The invariant adds `Linked` (until a wild write, array and children point at each other:
compaction keeps that only because it corrects the index of the moved child), `Preparing` (the
child being forked is alone and its lock free) and `OwnSlots` (no two workers write one
slot, which is what keeps a lock's holder alone).

### `RequestLoopProofs`

| Theorem | Property | Says |
|---|---|---|
| `WholeCopies` | `NoTornCopy` | a copy that shows a request in service has its accept time |
| `JudgedByOwnAge` | `FirstTimeoutExact` | while a connection's first request is the one copied, the decision to terminate is on its own age |
| `OneMore` | `OneMoreRequest` | a worker asked to leave begins at most one more request |
| `OneTrace` | `TracedOnce` | no connection is traced twice |

The invariant follows the worker's instructions: `Holding` (what a slot may lack while its lock is held, and
never when it is free), `Loop` (which report is due where), `Copied` (what a copy shows),
`Remembered` (`slow_logged` is the traced connection for as long as that lasts) and `Asked` (no request
has begun late but the one now past the check of `in_shutdown`). That `FirstTimeoutExact` stops at the
first request is the finding of `request_keepalive`; that it speaks of the request copied, and
not of the one the signal finds, is as much as the code gives: between copy and kill the worker may
have gone on to another.

### `SocketsProofs`

| Theorem | Property | Hypotheses | Says |
|---|---|---|---|
| `EntriesCounted` | `Counted` | `Uncut` | a reference count is the number of pools that listen |
| `NothingForgotten` | `Inherited` | `Uncut` | every open socket is listed, unless a push or '=' lost it |
| `PoolsServed` | `Served` | `Uncut`, `PathsDiffer` | address and file lead to the pool's socket; standard input too, unless the event base has descriptor 0 |
| `QueuesKept` | `KeptAlive` | `Uncut`, `PathsDiffer` | no reload closes what is still configured |
| `FilesUnlinked` | `NoDeadFile` | `Uncut` | a dropped address and an exit remove the file |
| `NotInItsOwnWay` | `RefusedIfRespelled` | `Uncut` | a reload is refused a port only over another spelling of it, or by a socket that has lost its entry |
| `AlwaysAccept` | `WorkersAccept` | `NoSigns` | the promise that run `sockets_sign` refutes |

`Uncut`: no pool is configured with what '=' leaves of another configured address (such a pool is handed
descriptor 0). `NoSigns`: no configured address has '=' in it, so that nothing is ever listed with
descriptor 0 (`Whole`). `PathsDiffer`: the file of a Unix socket has one spelling.
They are hypotheses and not assumptions because the code does not check them, and its
promises fail without. The invariant says of the array and of the pairs still to be read that
each is the only one for its address and socket (`Listing`, `Pending`), that no open socket is
outside them (`Remembered`), what pools have been given (`Given`), the counts (`Counting`: a
cardinality, which the sweep relies on), how far the sweep is (`Swiped`), and what ports and files
lead to (`Kernel`).

### `LifecycleProofs`

| Theorem | Property | Says |
|---|---|---|
| `StaysReachable` | `Reachable` | the socket's path leads to the master that listens |
| `PidFileTells` | `FilesTell` | the pid file names the one that runs; a stop leaves no file |
| `NoRootServes` | `WorkerUnprivileged` | no worker serves with root's ids, groups or directory |

`Shaped` says what a process has at each place of `fpm_init` and of its way out, above all which
cleanup is on its stack; `Fit`, that its configuration has passed `fpm_unix_conf_wp`; `Alone`,
that nobody else has sockets; `Files`, what the two files say; `Dressed`, how far a worker's
identity is changed at each step. The last rests on `Fit`: a reload loads whatever the file
says now, and the worker's configuration is the one that was checked.

### `StdioProofs`

| Theorem | Property | Says |
|---|---|---|
| `DescriptorsOwned` | `OwnDescriptor` | a descriptor is its child's until it is closed, once |
| `EventsFollowChildren` | `EventsOwned` | no event outlives child or descriptor, but for pipes an heir holds |
| `EveryByteLogged` | `NothingLost` | what is written is in log, buffer and pipe, each byte once |

`IInv` adds to the first two properties that the callback has a descriptor as long as it reads
(`ReadsOpen`: otherwise end of file would close another child's), and that a child not yet forked
has none (`UnforkedHasNone`: otherwise its event could already be there). `NothingLost` needs
`Words`, and in it `Calling`: a read always has room, since a read of zero bytes is taken for the
end of the pipe, and what was read has been said before the next read. `Whole` is the equation itself.

### `FastCGIProofs`

| Theorem | Property | Says |
|---|---|---|
| `RoomForTheEnd` | `EndFits` | until a write fails, what is packed ends within `out_buf`, aligned unless a packet is open |
| `OneAnswerEach` | `AnswersMatch` | the web server gets answers to its last request only, and nothing after their end |
| `WholeOutput` | `OutputIntact` | each stream arrives from its first byte, once and in order |
| `WellFramed` | `Framed` | records lie end to end between multiples of 8, none longer than its header can say |
| `StaysInStep` | `InStepWithServer` | given `KnowsLength`: a header is looked for only where one begins, and it is the end of the last request or the beginning of the next |
| `WholeBody` | `BodyDelivered` | given `KnowsLength`: the bytes of a body taken are those handed over, and none is left when a request ends on a kept connection |

They hold for every `out_buf` whose size is a multiple of 8 and which, less a header, is no longer than the
largest record (`BufferAssumption`; 8192 and 65535 are such), every portion a script may write and
every request, filed, split or of a kind the code does not know included. Four invariants, each
relative to the ones before:

* `IInv == InBuffer /\ Counts` says what a buffer is on any connection, working or not: an open
  packet begins at a multiple of 8, holds what lies between its header and `out_pos`, and ends
  within `out_buf`; without one `out_pos` is a multiple of 8. That is what makes the padding of
  `close_packet` stop at the end of `out_buf` at the latest (`ClosingOpen`), and `LimitFits` what
  makes the first two branches of `fcgi_write` end there exactly. The third needs that its buffer
  is closed and, after a turn, empty.
* `Typed /\ Order /\ Answers`: at most one unread request is on the connection, it is the last one
  sent, and nothing has been answered to it; while one is served there is no end in the answer.
* `Written /\ Intact`: packed records lie one behind the other (`Laid`), none outgrows the buffer
  (`Small`) or its header (`AllFit`), and those sent and packed, put together, carry each stream up
  to what the call in progress has still to send (`CoversAll`, `UpTo`). `OutputIntact` is
  stated with `Mine`, `Reaches` and `Covers` (the first record begins at the first byte, each at the
  end of the one before, the last ends where the stream does) and not by adding up a sequence, because
  a sum is a recursive definition, of which nothing could be proved.
* `Kept`: while the connection works, the unread stream is what is left of the request served,
  from its p-th record on (`Place`, `Lined`), and behind it one whole request more if it has been asked.
  Where p may be depends on `phase`: within the body, `taken` and the bytes to come are
  CONTENT_LENGTH, and `off` agrees with `in_len` and `in_pad` (`Body`). So `sapi_deactivate`, which reads up
  to CONTENT_LENGTH, stops behind the last byte and its padding (`BodyRead`), with nothing but
  the empty STDIN to come; and while a call has bytes to get there is a record that has them
  (`BodyComes`). This needs what the properties do not say: a record is never left half read
  with `in_len` 0, the next request never mixes with the rest of the last one, and a body in a
  file leaves the empty STDIN where it is until `sapi_deactivate` asks for what was not read.

`KnowsLength` says of each request that some function tells, behind each record of its body,
the bytes still to come: CONTENT_LENGTH before the first (none if the body is in a file), 0 behind the
last, and less by each record's length. That is the sum of the lengths, said without a sum. A web
server that announces another length than it sends is out of step by its own doing.

Lemmas follow the operators, then the branches of `fcgi_write`, then the actions.

### Only model-checked

* All liveness: fairness and ENABLED are beyond the prover.
* The properties of the three runs that are expected to fail; two of them (`RestartOnlyAtThreshold`,
  `WorkersAccept`) are theorems under the hypothesis that names the cause. `TimeoutIsPerRequest` has
  none short of forbidding kept connections, and `FirstTimeoutExact` says what is left of it.

## 6. Not modelled

* The branch of `fpm_children_bury` for an unknown child, and SIGSTOP sent by others: they
  need processes the master has not forked or somebody else's signals.
* The XML walk and the parsers of values (`fpm_conf.c`, `xml_config.c`): they convert data once, at
  start-up; `LoadConf` and `Configs` stand for every outcome. Validation of pools likewise.
* How `fpm_shm.c` cuts mapped segments into chunks: a chunk is a number or is refused.
* The ptrace, pread and mach ways of reading a stopped process and the walk over PHP's frames:
  data of another process. What a trace does to the worker is `ReapStopped` of `FpmMaster`.
* A path with a comma: FPM_SOCKETS is cut there too, into a pair for a relative path that the sweep
  closes. A reload that changes or drops `pid_file`.
* libevent's insides, name resolution, socket options and permissions, resource limits,
  ini entries and environment variables, the choice of a clock.
* Strings a report copies, log messages, process titles; `cgi_main.c` as far as it serves PHP's
  command line, headers and variables.
* More than one worker with its identity: workers do not share what `Lifecycle` says of one.

## 7. Plan

1. (done) `Supervisor`, `FpmMaster`, `EmergencyRestart`, `ShmSlots`, `RequestLoop`, `Sockets`,
   `Stdio`, with their runs and the invariance proofs of `FpmMaster` and `Stdio`.
2. (done) `FastCGI` and `Lifecycle`, with their runs and the proof of `EndFits`.
3. (done) The theorems of section 5: every safety property of the passing runs, and the
   refinement of `Supervisor`.
4. Left: nothing the prover reaches. Liveness stays with TLC; what section 6 lists would be next to
   model.
