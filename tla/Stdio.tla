------------------------------- MODULE Stdio --------------------------------
(***************************************************************************)
(* What workers print, on its way into the master's log (fpm/fpm_stdio.c): *)
(* the pipe of a child from fork to burial, its event, and the callback    *)
(* fpm_stdio_child_said, whose loop reads and prints while the worker and  *)
(* processes the worker has started go on writing.  Standard output and    *)
(* standard error go the same way; one of them is modelled.                *)
(*                                                                         *)
(* A child is used once: a fork after its burial is another child.         *)
(*                                                                         *)
(* Some definitions are the code with a slip in it, each beside the one it *)
(* varies, and no specification uses them: CloseUnmarked, CloseAlone,      *)
(* MustSayLine, AfterNewlineKept.                                          *)
(***************************************************************************)
EXTENDS Integers, Sequences, SequencesExt, FiniteSetsExt

CONSTANTS
    Child,         \* fpm_child_s structures
    None,          \* no child, or the descriptor -1
    MaxFd,         \* bound: descriptors 1 .. MaxFd can be a pipe's read end
    max_buf_size,  \* of fpm_stdio_child_said
    Byte,          \* of "x", "nl" and "nul": what workers write
    MaxBytes       \* bound: how much all of them write

Fd == 1 .. MaxFd

ASSUME NoneAssumption == None \notin Child /\ None \notin Nat
ASSUME SizeAssumption ==
    MaxFd \in Nat /\ MaxBytes \in Nat /\ max_buf_size \in Nat \ {0, 1}
ASSUME ByteAssumption == Byte \subseteq {"x", "nl", "nul"}

VARIABLES
    stage,      \* of the process: "none", "running", "dead"; then "gone"
    heir,       \* a process the worker started still holds its pipe
    pipe,       \* the bytes in the pipe
    fd_stdout,  \* child->fd_stdout
    owner,      \* kernel: whose pipe a descriptor of the master reads
    events,     \* <<fd, child>> pairs registered with libevent
    callback,   \* fpm_stdio_child_said: who called it for whom
    fifo_in, fifo_out, buf, half,  \* its variables, and which "if" is next
    written, logged, left  \* history: all bytes of a child, the log, and
                           \* the children buried while an heir had the pipe

world   == <<stage, heir>>
locals  == <<callback, fifo_in, fifo_out, buf, half>>
history == <<written, logged, left>>
vars    == <<world, pipe, fd_stdout, owner, events, locals, history>>

Idle      == callback.child = None
Writer(c) == stage[c] = "running" \/ heir[c]
Total     == SumFunction([c \in Child |-> Len(written[c])])

(* At EOF the pipe is empty and nobody can write to it any more.           *)
AtEof(c) == pipe[c] = <<>> /\ ~Writer(c)

-----------------------------------------------------------------------------
(* Workers, and what they leave behind                                     *)

(* fpm_stdio_prepare_pipes and fork: the child makes the write end its     *)
(* output (fpm_stdio_child_use_pipes), the master keeps the read end.      *)
(* When a step fails both are closed and nothing has changed.              *)
Fork(c, fd) ==
    /\ Idle
    /\ stage[c] = "none"
    /\ owner[fd] = None
    /\ stage' = [stage EXCEPT ![c] = "running"]
    /\ owner' = [owner EXCEPT ![fd] = c]
    /\ fd_stdout' = [fd_stdout EXCEPT ![c] = fd]
    /\ events' = events \cup {<<fd, c>>}
    /\ UNCHANGED <<heir, pipe, locals, history>>

(* Without a reader a write fails.                                         *)
Write(c, b) ==
    /\ Writer(c)
    /\ fd_stdout[c] # None
    /\ Total < MaxBytes
    /\ pipe' = [pipe EXCEPT ![c] = Append(@, b)]
    /\ written' = [written EXCEPT ![c] = Append(@, b)]
    /\ UNCHANGED <<world, fd_stdout, owner, events, locals, logged, left>>

Beget(c) ==
    /\ stage[c] = "running"
    /\ heir' = [heir EXCEPT ![c] = TRUE]
    /\ UNCHANGED <<stage, pipe, fd_stdout, owner, events, locals, history>>

HeirEnds(c) ==
    /\ heir[c]
    /\ heir' = [heir EXCEPT ![c] = FALSE]
    /\ UNCHANGED <<stage, pipe, fd_stdout, owner, events, locals, history>>

Die(c) ==
    /\ stage[c] = "running"
    /\ stage' = [stage EXCEPT ![c] = "dead"]
    /\ UNCHANGED <<heir, pipe, fd_stdout, owner, events, locals, history>>

-----------------------------------------------------------------------------
(* fpm_stdio_child_said                                                    *)

Call(c, by) ==
    /\ callback' = [child |-> c, by |-> by]
    /\ fifo_in' = TRUE
    /\ fifo_out' = TRUE
    /\ buf' = <<>>
    /\ half' = "in"
    /\ UNCHANGED <<world, pipe, fd_stdout, owner, events, history>>

(* libevent calls it: the pipe has bytes or has come to its end.  (What it *)
(* does with an event whose child has been freed is not modelled.)         *)
Ready(c) ==
    /\ Idle
    /\ <<fd_stdout[c], c>> \in events
    /\ pipe[c] # <<>> \/ ~Writer(c)
    /\ Call(c, "loop")

(* fpm_children_bury, fpm_child_close: the child is dead, and its last     *)
(* words are fetched at once.                                              *)
BuryOpen(c) ==
    /\ Idle
    /\ stage[c] = "dead"
    /\ fd_stdout[c] # None
    /\ Call(c, "bury")

BuryClosed(c) ==
    /\ Idle
    /\ stage[c] = "dead"
    /\ fd_stdout[c] = None
    /\ stage' = [stage EXCEPT ![c] = "gone"]
    /\ UNCHANGED <<heir, pipe, fd_stdout, owner, events, locals, history>>

Room == max_buf_size - 1 - Len(buf)   \* one byte is for the '\0'

CloseUnmarked(c) ==
    /\ owner' = [owner EXCEPT ![fd_stdout[c]] = None]
    /\ UNCHANGED fd_stdout

Close(c) ==
    /\ owner' = [owner EXCEPT ![fd_stdout[c]] = None]
    /\ fd_stdout' = [fd_stdout EXCEPT ![c] = None]

(* close() and event_del()                                                 *)
CloseAlone(c) == Close(c) /\ UNCHANGED events
CloseAtEof(c) == Close(c) /\ events' = events \ {<<fd_stdout[c], c>>}

(* "if (fifo_in)": a read of no bytes is taken for the end of the pipe.    *)
Read ==
    LET c == callback.child
        k == Min({Room, Len(pipe[c])})
    IN /\ ~Idle /\ half = "in" /\ fifo_in
       /\ half' = "out"
       /\ IF k > 0
          THEN /\ buf' = buf \o SubSeq(pipe[c], 1, k)
               /\ pipe' = [pipe EXCEPT ![c] = SubSeq(@, k + 1, Len(@))]
               /\ UNCHANGED <<fifo_in, fd_stdout, owner, events>>
          ELSE /\ fifo_in' = FALSE
               /\ IF Room = 0 \/ AtEof(c)
                  THEN CloseAtEof(c)
                  ELSE UNCHANGED <<fd_stdout, owner, events>>
               /\ UNCHANGED <<buf, pipe>>
       /\ UNCHANGED <<world, callback, fifo_out, history>>

SkipRead ==
    /\ ~Idle /\ half = "in" /\ ~fifo_in /\ fifo_out
    /\ half' = "out"
    /\ UNCHANGED <<world, pipe, fd_stdout, owner, events, callback, fifo_in,
                   fifo_out, buf, history>>

(* buf as a string ends at the first NUL; strchr(buf, '\n') finds only     *)
(* what is before it.                                                      *)
Upto(s, b) == IF \E n \in DOMAIN s : s[n] = b
              THEN SubSeq(s, 1, SelectInSeq(s, LAMBDA x : x = b) - 1)
              ELSE s
String     == Upto(buf, "nul")
Line       == Upto(String, "nl")
HasNewline == Contains(String, "nl")

Full        == Len(buf) = max_buf_size - 1
MustSayLine == HasNewline \/ Full
MustSay     == HasNewline \/ Full \/ ~fifo_in

AfterNewlineKept == SubSeq(buf, Len(Line) + 1, Len(buf))
AfterNewline     == SubSeq(buf, Len(Line) + 2, Len(buf))

(* "if (fifo_out)"; where a message ends that no newline has ended is not  *)
(* kept in the log.                                                        *)
Said ==
    LET c == callback.child
    IN /\ ~Idle /\ half = "out"
       /\ half' = "in"
       /\ fifo_out' = (fifo_out /\ buf # <<>>)
       /\ IF fifo_out /\ buf # <<>> /\ MustSay
          THEN /\ logged' = [logged EXCEPT ![c] = @ \o Line \o
                                (IF HasNewline THEN <<"nl">> ELSE <<>>)]
               /\ buf' = IF HasNewline THEN AfterNewline ELSE <<>>
          ELSE UNCHANGED <<logged, buf>>
       /\ UNCHANGED <<world, pipe, fd_stdout, owner, events, callback,
                      fifo_in, written, left>>

Finished == ~Idle /\ half = "in" /\ ~fifo_in /\ ~fifo_out

Return ==
    /\ Finished
    /\ callback.by = "loop"
    /\ callback' = [child |-> None, by |-> "loop"]
    /\ UNCHANGED <<world, pipe, fd_stdout, owner, events, fifo_in, fifo_out,
                   buf, half, history>>

(* fpm_child_close goes on: a descriptor the callback has not closed is    *)
(* closed now, its event stays, and the child is freed.                    *)
ReturnBury ==
    LET c == callback.child
    IN /\ Finished
       /\ callback.by = "bury"
       /\ callback' = [child |-> None, by |-> "loop"]
       /\ stage' = [stage EXCEPT ![c] = "gone"]
       /\ IF fd_stdout[c] = None
          THEN UNCHANGED <<fd_stdout, owner, pipe, left>>
          ELSE /\ Close(c)
               /\ pipe' = [pipe EXCEPT ![c] = <<>>]
               /\ left' = left \cup {c}
       /\ UNCHANGED <<heir, events, fifo_in, fifo_out, buf, half, written,
                      logged>>

-----------------------------------------------------------------------------
Init ==
    /\ stage = [c \in Child |-> "none"]
    /\ heir = [c \in Child |-> FALSE]
    /\ pipe = [c \in Child |-> <<>>]
    /\ fd_stdout = [c \in Child |-> None]
    /\ owner = [fd \in Fd |-> None]
    /\ events = {}
    /\ callback = [child |-> None, by |-> "loop"]
    /\ fifo_in = FALSE /\ fifo_out = FALSE /\ buf = <<>> /\ half = "in"
    /\ written = [c \in Child |-> <<>>]
    /\ logged = [c \in Child |-> <<>>]
    /\ left = {}

Next ==
    \/ \E c \in Child :
        \/ \E fd \in Fd : Fork(c, fd)
        \/ \E b \in Byte : Write(c, b)
        \/ Beget(c) \/ HeirEnds(c) \/ Die(c)
        \/ Ready(c) \/ BuryOpen(c) \/ BuryClosed(c)
    \/ Read \/ SkipRead \/ Said \/ Return \/ ReturnBury

Spec == Init /\ [][Next]_vars

(* A call of the callback goes on, and the master gets round to its        *)
(* SIGCHLD; nothing makes a worker write or die, or an heir end.           *)
Fairness ==
    /\ WF_vars(Read \/ SkipRead \/ Said \/ Return \/ ReturnBury)
    /\ \A c \in Child : WF_vars(BuryOpen(c) \/ BuryClosed(c))

FairSpec == Spec /\ Fairness

-----------------------------------------------------------------------------
(* Every variable has its type.                                            *)
TypeOK ==
    /\ stage \in [Child -> {"none", "running", "dead", "gone"}]
    /\ heir \in [Child -> BOOLEAN]
    /\ pipe \in [Child -> Seq(Byte)]
    /\ fd_stdout \in [Child -> Fd \cup {None}]
    /\ owner \in [Fd -> Child \cup {None}]
    /\ events \subseteq Fd \X Child
    /\ callback \in [child : Child \cup {None}, by : {"loop", "bury"}]
    /\ fifo_in \in BOOLEAN /\ fifo_out \in BOOLEAN
    /\ buf \in Seq(Byte) /\ Len(buf) < max_buf_size
    /\ half \in {"in", "out"}
    /\ written \in [Child -> Seq(Byte)]
    /\ logged \in [Child -> Seq(Byte)]
    /\ left \subseteq Child

(* While a child lives, its pipe is read by its own descriptor and by      *)
(* nobody else's, and a descriptor that is -1 is closed: none leaks, and   *)
(* none is closed twice, when it may already be another child's pipe.      *)
OwnDescriptor ==
    \A fd \in Fd, c \in Child : fd_stdout[c] = fd <=> owner[fd] = c

(* An event leads to a child that is still there and has that descriptor.  *)
(* The exception are children whose pipe an heir had when they were        *)
(* buried: fpm_child_close closes the descriptor and frees the child       *)
(* without event_del.                                                      *)
EventsOwned ==
    \A e \in events : fd_stdout[e[2]] = e[1] \/ e[2] \in left

(* Nothing a worker prints is lost, repeated or out of order: what is in   *)
(* the log, in the buffer and in the pipe is what was written, whatever    *)
(* the sizes of the reads, and nothing is left over when the child is      *)
(* freed.  (A NUL ends a string, as the code's own FIXME says; and what an *)
(* heir writes last may go unread.)  And while a worker can write it is    *)
(* read: a full buffer is never taken for the end of its pipe.             *)
NothingLost ==
    \A c \in Child :
        /\ "nul" \notin ToSet(written[c]) /\ c \notin left =>
              LET held == IF callback.child = c THEN buf ELSE <<>>
              IN  /\ logged[c] \o held \o pipe[c] = written[c]
                  /\ stage[c] = "gone" => logged[c] = written[c]
        /\ stage[c] = "running" => fd_stdout[c] # None

(* The callback ends whatever is written, when it arrives in full, in      *)
(* parts or while it runs, and so every dead child is buried.  (The output *)
(* is finite here: a worker that always writes keeps the loop going.)      *)
Buried == \A c \in Child : stage[c] = "dead" ~> stage[c] = "gone"
=============================================================================
