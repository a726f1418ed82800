--------------------------- MODULE FpmMasterProofs ---------------------------
(***************************************************************************)
(* Proofs about FpmMaster, for every set of pools, every max_children,     *)
(* every capacity of the signal socket and any number of signals.          *)
(***************************************************************************)
EXTENDS FpmMaster, FiniteSetTheorems, TLAPS

(* What the program counter says about the rest of the master.             *)
Control ==
    /\ pc \notin Busy => running_children = 0
    /\ pc \in {"create", "refill"} => cur \in Pools
    /\ pc \in {"init", "create"} => fpm_state = "NORMAL"
    /\ fpm_state = "NORMAL" => fpm_signal_sent = "none" /\ ~timer

(* The inductive invariant.  EscalationArmed is part of it because the     *)
(* timer, the signal and the awaited workers are what keeps a stop alive   *)
(* from one step to the next.                                              *)
IInv == TypeOK /\ Bookkeeping /\ Control /\ EscalationArmed

-----------------------------------------------------------------------------
(* The lists.                                                              *)

(* The sets whose sizes the counters hold are finite.                      *)
LEMMA FiniteLists ==
    /\ IsFiniteSet(Pid) /\ IsFiniteSet(Listed)
    /\ \A x : IsFiniteSet(Children(x))
    /\ Cardinality(Listed) \in Nat
    /\ \A x : Cardinality(Children(x)) \in Nat
<1>1. IsFiniteSet(Pid) /\ Listed \subseteq Pid
  BY PoolAssumption DEF Listed
<1>2. \A x : Children(x) \subseteq Pid
  BY DEF Children
<1> QED
  BY <1>1, <1>2, FS_Subset, FS_CardinalityType

(* No counted child means no child process.                                *)
LEMMA NobodyLeft ==
    ASSUME Bookkeeping, running_children = 0
    PROVE  Listed = {} /\ \A p \in Pid : life[p] = "none"
<1>1. Listed = {}
  BY FiniteLists, FS_EmptySet DEF Bookkeeping
<1> QED
  BY <1>1 DEF Bookkeeping, Listed

(* The same as a formula that can be stated of the next state.             *)
LEMMA NobodyIsNone ==
    Bookkeeping /\ running_children = 0 => \A q \in Pid : life[q] = "none"
  BY NobodyLeft

(* A step that neither forks nor reaps keeps the books.                    *)
LEMMA SameLists ==
    ASSUME Bookkeeping,
           UNCHANGED <<wp, running, running_children>>,
           \A p \in Pid : life'[p] = "none" <=> life[p] = "none"
    PROVE  Bookkeeping'
<1>1. Listed' = Listed /\ \A w \in Pools : Children(w)' = Children(w)
  BY DEF Listed, Children
<1> QED
  BY <1>1 DEF Bookkeeping

(* fpm_child_link: the counters go up by one and so do the lists.          *)
LEMMA LinkKeepsBooks ==
    ASSUME TypeOK, Bookkeeping, cur \in Pools,
           NEW p \in Pid, life[p] = "none",
           life' = [life EXCEPT ![p] = "booting"],
           wp' = [wp EXCEPT ![p] = cur],
           running' = [running EXCEPT ![cur] = @ + 1],
           running_children' = running_children + 1
    PROVE  Bookkeeping'
<1>1. wp[p] = NoPool
  BY DEF Bookkeeping
<1>2. Listed' = Listed \cup {p} /\ p \notin Listed
  BY <1>1, PoolAssumption DEF TypeOK, Listed
<1>3. running_children' = Cardinality(Listed')
  BY <1>2, FiniteLists, FS_AddElement DEF Bookkeeping
<1>4. ASSUME NEW w \in Pools
      PROVE  running'[w] = Cardinality(Children(w)')
  <2>1. CASE w = cur
    <3>1. Children(w)' = Children(w) \cup {p} /\ p \notin Children(w)
      BY <1>1, <2>1, PoolAssumption DEF TypeOK, Children
    <3>2. Cardinality(Children(w) \cup {p}) = Cardinality(Children(w)) + 1
      BY <3>1, FiniteLists, FS_AddElement
    <3>3. running'[w] = running[w] + 1
      BY <2>1 DEF TypeOK
    <3> QED
      BY <3>1, <3>2, <3>3 DEF Bookkeeping
  <2>2. CASE w # cur
    <3>1. Children(w)' = Children(w)
      BY <1>1, <2>2, PoolAssumption DEF TypeOK, Children
    <3> QED
      BY <2>2, <3>1 DEF Bookkeeping, TypeOK
  <2> QED
    BY <2>1, <2>2
<1>5. \A q \in Pid : wp'[q] = NoPool <=> life'[q] = "none"
  BY PoolAssumption DEF TypeOK, Bookkeeping
<1> QED
  BY <1>3, <1>4, <1>5 DEF Bookkeeping

(* fpm_child_unlink: the counters go down by one and so do the lists.      *)
LEMMA UnlinkKeepsBooks ==
    ASSUME TypeOK, Bookkeeping,
           NEW p \in Pid, life[p] # "none",
           wp' = [wp EXCEPT ![p] = NoPool],
           running' = [running EXCEPT ![wp[p]] = @ - 1],
           running_children' = running_children - 1,
           \A q \in Pid : life'[q] = "none" <=> q \notin Listed \ {p}
    PROVE  /\ Bookkeeping'
           /\ running' \in [Pools -> Nat]
           /\ running_children' \in Nat
           /\ running_children' = Cardinality(Listed \ {p})
<1>1. wp[p] \in Pools /\ p \in Listed
  BY DEF Bookkeeping, TypeOK, Listed
<1>2. Listed' = Listed \ {p}
  BY DEF TypeOK, Listed
<1>3. /\ running_children' = Cardinality(Listed')
      /\ running_children' \in Nat
  BY <1>1, <1>2, FiniteLists, FS_RemoveElement, FS_CardinalityType, FS_Subset
     DEF Bookkeeping
<1>4. ASSUME NEW w \in Pools
      PROVE  running'[w] = Cardinality(Children(w)') /\ running'[w] \in Nat
  <2>1. CASE w = wp[p]
    <3>1. Children(w)' = Children(w) \ {p} /\ p \in Children(w)
      BY <1>1, <2>1, PoolAssumption DEF TypeOK, Children
    <3>2. /\ Cardinality(Children(w) \ {p}) = Cardinality(Children(w)) - 1
          /\ IsFiniteSet(Children(w) \ {p})
      BY <3>1, FiniteLists, FS_RemoveElement
    <3> QED
      BY <1>1, <2>1, <3>1, <3>2, FS_CardinalityType DEF Bookkeeping, TypeOK
  <2>2. CASE w # wp[p]
    <3>1. Children(w)' = Children(w)
      BY <2>2, PoolAssumption DEF TypeOK, Children
    <3> QED
      BY <1>1, <2>2, <3>1 DEF Bookkeeping, TypeOK
  <2> QED
    BY <2>1, <2>2
<1>5. running' \in [Pools -> Nat]
  BY <1>4 DEF TypeOK
<1>6. \A q \in Pid : wp'[q] = NoPool <=> life'[q] = "none"
  BY DEF TypeOK, Bookkeeping, Listed
<1> QED
  BY <1>2, <1>3, <1>4, <1>5, <1>6 DEF Bookkeeping

-----------------------------------------------------------------------------
(* Process control.                                                        *)

(* What a stopped process has pending stays of one type.                   *)
LEMMA SignalTyping ==
    ASSUME NEW l \in Lives, NEW h \in SUBSET {"SIGQUIT", "SIGTERM"},
           NEW sig \in {"SIGQUIT", "SIGTERM", "SIGKILL"}
    PROVE  HeldAfter(l, h, sig) \in SUBSET {"SIGQUIT", "SIGTERM"}
  BY DEF HeldAfter, Halted

(* The socket never holds more than it can.                                *)
LEMMA PipeTyping ==
    /\ <<>> \in Pipes
    /\ \A q \in Pipes : q # <<>> => Tail(q) \in Pipes
    /\ pipe \in Pipes => \A c \in Commands \cup {"C"} : Put(c) \in Pipes
<1>1. <<>> \in Pipes
  BY BoundAssumption DEF Pipes
<1>2. \A q \in Pipes : q # <<>> => Tail(q) \in Pipes
  BY BoundAssumption DEF Pipes
<1>3. ASSUME pipe \in Pipes, NEW c \in Commands \cup {"C"}
      PROVE  Put(c) \in Pipes
  BY <1>3, BoundAssumption DEF Pipes, Put, Room
<1> QED
  BY <1>1, <1>2, <1>3

(* What fpm_pctl_action_next does to the processes: those in kids stay in  *)
(* the lists, the others are gone.                                         *)
LEMMA ActionNextProcs ==
    ASSUME TypeOK,
           NEW st \in States \ {"NORMAL"}, NEW sent \in Sent, NEW n \in Nat,
           NEW kids \in SUBSET Pid, NEW rest \in Pipes,
           NEW next \in Busy \ {"create"},
           ActionNext(st, sent, n, kids, rest, next),
           \A p \in kids : life[p] # "none"
    PROVE  /\ life' \in [Pid -> Lives]
           /\ held' \in [Pid -> SUBSET {"SIGQUIT", "SIGTERM"}]
           /\ \A p \in Pid : life'[p] = "none" <=> p \notin kids
<1>1. CASE n = 0
  <2>1. Forget(kids)
    BY <1>1 DEF ActionNext
  <2> QED
    BY <2>1 DEF Forget, TypeOK, Lives
<1>2. CASE n # 0
  <2> DEFINE sig == NextSignal(st, sent)
  <2>1. PICK caught \in SUBSET kids :
          /\ life' = [p \in Pid |->
                IF p \in kids THEN LifeAfter(life[p], sig, p \in caught) ELSE "none"]
          /\ held' = [p \in Pid |->
                IF p \in kids THEN HeldAfter(life[p], held[p], sig) ELSE {}]
    BY <1>2 DEF ActionNext, KillAll
  <2>2. sig \in {"SIGQUIT", "SIGTERM", "SIGKILL"}
    BY DEF NextSignal
  <2> HIDE DEF sig
  <2>3. \A p \in Pid : /\ life[p] \in Lives
                       /\ held[p] \in SUBSET {"SIGQUIT", "SIGTERM"}
    BY DEF TypeOK
  <2> DEFINE after(p) == LifeAfter(life[p], sig, p \in caught)
  <2>4. \A p \in Pid : after(p) \in Lives /\ (after(p) = "none" <=> life[p] = "none")
    BY <2>2, <2>3 DEF LifeAfter, Lives, Alive, Dead
  <2>5. life' = [p \in Pid |-> IF p \in kids THEN after(p) ELSE "none"]
    BY <2>1
  <2> HIDE DEF after
  <2>6. life' \in [Pid -> Lives]
    BY <2>4, <2>5 DEF Lives
  <2>7. held' \in [Pid -> SUBSET {"SIGQUIT", "SIGTERM"}]
    BY <2>1, <2>2, <2>3, SignalTyping
  <2>8. \A p \in Pid : life'[p] = "none" <=> p \notin kids
    BY <2>4, <2>5
  <2> QED
    BY <2>6, <2>7, <2>8
<1> QED
  BY <1>1, <1>2

(* What it does to the master: it ends or is replaced when no child is     *)
(* left, and otherwise has the next signal sent and the timer armed.       *)
LEMMA ActionNextMaster ==
    ASSUME TypeOK,
           NEW st \in States \ {"NORMAL"}, NEW sent \in Sent, NEW n \in Nat,
           NEW kids \in SUBSET Pid, NEW rest \in Pipes,
           NEW next \in Busy \ {"create"},
           ActionNext(st, sent, n, kids, rest, next)
    PROVE  /\ pc' \in Where
           /\ fpm_state' \in States
           /\ fpm_signal_sent' \in Sent
           /\ timer' \in BOOLEAN
           /\ pipe' \in Pipes
           /\ chld' \in BOOLEAN
           /\ overrun' \in BOOLEAN
           /\ gaveUp' \in SUBSET Pools
           /\ n = 0 => pc' \notin Busy
           /\ n # 0 => pc' = next /\ timer' /\ fpm_signal_sent' # "none"
           /\ pc' \in {"init", "create"} => fpm_state' = "NORMAL"
           /\ fpm_state' = "NORMAL" => fpm_signal_sent' = "none" /\ ~timer'
<1>1. CASE n = 0
  <2>1. ActionLast(st)
    BY <1>1 DEF ActionNext
  <2>2. pipe' \in Pipes
    BY <2>1, PipeTyping DEF ActionLast
  <2> QED
    BY <1>1, <2>1, <2>2 DEF ActionLast, Where, Busy, Ended, States, Sent
<1>2. CASE n # 0
  <2>1. NextSignal(st, sent) \in Sent \ {"none"}
    BY DEF NextSignal, Sent
  <2>2. /\ pc' = next /\ fpm_state' = st /\ timer' = TRUE /\ pipe' = rest
        /\ fpm_signal_sent' = NextSignal(st, sent)
        /\ UNCHANGED <<chld, overrun, gaveUp>>
    BY <1>2 DEF ActionNext
  <2> QED
    BY <1>2, <2>1, <2>2 DEF TypeOK, Where, Busy, States, Sent
<1> QED
  BY <1>1, <1>2

-----------------------------------------------------------------------------
(* The invariant holds initially.                                          *)
LEMMA InitIInv == Init => IInv
<1> SUFFICES ASSUME Init PROVE IInv
  OBVIOUS
<1>1. TypeOK
  <2>1. /\ pipe \in Pipes /\ control \in 0 .. MaxControl
        /\ wp \in [Pid -> Pools \cup {NoPool}] /\ running \in [Pools -> Nat]
    BY BoundAssumption, PipeTyping DEF Init
  <2>2. /\ life \in [Pid -> Lives]
        /\ held \in [Pid -> SUBSET {"SIGQUIT", "SIGTERM"}]
    BY DEF Init, Lives
  <2> QED
    BY <2>1, <2>2 DEF Init, TypeOK, Where, States, Sent
<1>2. Bookkeeping
  <2>1. Listed = {} /\ \A w \in Pools : Children(w) = {}
    BY PoolAssumption DEF Init, Listed, Children
  <2> QED
    BY <2>1, FS_EmptySet DEF Init, Bookkeeping
<1>3. Control /\ EscalationArmed
  BY DEF Init, Control, EscalationArmed, Busy
<1> QED
  BY <1>1, <1>2, <1>3 DEF IInv

(* Each step keeps it; the steps of the master that change its state or    *)
(* its lists come first.                                                   *)
LEMMA TimeoutIInv == IInv /\ PctlTimeout => IInv'
<1> SUFFICES ASSUME IInv, PctlTimeout PROVE IInv'
  OBVIOUS
<1> USE DEF IInv
<1>1. /\ fpm_state \in States \ {"NORMAL"}
      /\ running_children \in Nat /\ running_children # 0
      /\ Listed \in SUBSET Pid
      /\ \A p \in Listed : life[p] # "none"
      /\ "loop" \in Busy \ {"create"}
  BY DEF PctlTimeout, Control, EscalationArmed, TypeOK, Busy, Listed, Bookkeeping
<1>2. /\ ActionNext(fpm_state, fpm_signal_sent, running_children, Listed, pipe, "loop")
      /\ UNCHANGED <<wp, running, running_children, making, control>>
  BY DEF PctlTimeout
<1>3. pipe \in Pipes /\ fpm_signal_sent \in Sent
  BY DEF TypeOK
<1>4. /\ life' \in [Pid -> Lives]
      /\ held' \in [Pid -> SUBSET {"SIGQUIT", "SIGTERM"}]
      /\ \A p \in Pid : life'[p] = "none" <=> p \notin Listed
  BY <1>1, <1>2, <1>3, ActionNextProcs
<1>5. /\ pc' \in Where
      /\ fpm_state' \in States
      /\ fpm_signal_sent' \in Sent
      /\ timer' \in BOOLEAN
      /\ pipe' \in Pipes
      /\ chld' \in BOOLEAN
      /\ overrun' \in BOOLEAN
      /\ gaveUp' \in SUBSET Pools
      /\ running_children = 0 => pc' \notin Busy
      /\ running_children # 0 => pc' = "loop" /\ timer' /\ fpm_signal_sent' # "none"
      /\ pc' \in {"init", "create"} => fpm_state' = "NORMAL"
      /\ fpm_state' = "NORMAL" => fpm_signal_sent' = "none" /\ ~timer'
  BY <1>1, <1>2, <1>3, ActionNextMaster
<1>6. TypeOK'
  BY <1>2, <1>4, <1>5 DEF TypeOK, making
<1>7. Bookkeeping'
  <2>1. \A p \in Pid : life'[p] = "none" <=> life[p] = "none"
    BY <1>4 DEF Bookkeeping, Listed
  <2> QED
    BY <1>2, <2>1, SameLists
<1>8. Control' /\ EscalationArmed'
  BY <1>1, <1>2, <1>5 DEF Control, EscalationArmed, TypeOK, Busy
<1> QED
  BY <1>6, <1>7, <1>8

(* One character: a death to be waited for, a command, or the log reopened.*)
LEMMA ReadSignalIInv == IInv /\ ReadSignal => IInv'
<1> SUFFICES ASSUME IInv, ReadSignal PROVE IInv'
  OBVIOUS
<1> USE DEF IInv
<1> DEFINE rest == Tail(pipe)
<1>1. /\ rest \in Pipes
      /\ pc \in {"loop", "signals"}
      /\ UNCHANGED <<wp, running, running_children, cur, todo, control>>
  BY PipeTyping DEF ReadSignal, TypeOK, making
<1>2. Listed \in SUBSET Pid /\ \A p \in Listed : life[p] # "none"
  BY DEF Listed, Bookkeeping
<1> HIDE DEF rest
<1>3. ASSUME NEW next \in {"signals", "bury"},
             pc' = next, pipe' = rest, overrun' \in BOOLEAN,
             UNCHANGED <<fpm_state, fpm_signal_sent, timer, chld, gaveUp,
                         life, held>>
      PROVE  IInv'
  <2>1. TypeOK'
    BY <1>1, <1>3 DEF TypeOK, Where, Busy
  <2>2. Bookkeeping'
    BY <1>1, <1>3, SameLists
  <2>3. Control' /\ EscalationArmed'
    BY <1>1, <1>3 DEF Control, EscalationArmed, Busy
  <2> QED
    BY <2>1, <2>2, <2>3
<1>4. ASSUME NEW new \in {"TERMINATING", "FINISHING", "RELOADING"},
             PctlSet(new, rest)
      PROVE  IInv'
  <2>1. CASE new # fpm_state /\ CanOverride(new, fpm_state)
    <3>1. ActionNext(new, "none", running_children, Listed, rest, "signals")
      BY <1>4, <2>1 DEF PctlSet
    <3>2. /\ new \in States \ {"NORMAL"} /\ "none" \in Sent
          /\ running_children \in Nat /\ "signals" \in Busy \ {"create"}
      BY DEF States, Sent, Busy, TypeOK
    <3>3. /\ life' \in [Pid -> Lives]
          /\ held' \in [Pid -> SUBSET {"SIGQUIT", "SIGTERM"}]
          /\ \A p \in Pid : life'[p] = "none" <=> p \notin Listed
      BY <1>1, <1>2, <3>1, <3>2, ActionNextProcs
    <3>4. /\ pc' \in Where
          /\ fpm_state' \in States
          /\ fpm_signal_sent' \in Sent
          /\ timer' \in BOOLEAN
          /\ pipe' \in Pipes
          /\ chld' \in BOOLEAN
          /\ overrun' \in BOOLEAN
          /\ gaveUp' \in SUBSET Pools
          /\ running_children = 0 => pc' \notin Busy
          /\ running_children # 0 => pc' = "signals" /\ timer' /\ fpm_signal_sent' # "none"
          /\ pc' \in {"init", "create"} => fpm_state' = "NORMAL"
          /\ fpm_state' = "NORMAL" => fpm_signal_sent' = "none" /\ ~timer'
      BY <1>1, <1>2, <3>1, <3>2, ActionNextMaster
    <3>5. TypeOK'
      BY <1>1, <3>3, <3>4 DEF TypeOK
    <3>6. Bookkeeping'
      <4>1. \A p \in Pid : life'[p] = "none" <=> life[p] = "none"
        BY <3>3 DEF Bookkeeping, Listed
      <4> QED
        BY <1>1, <4>1, SameLists
    <3>7. Control' /\ EscalationArmed'
      BY <1>1, <3>4 DEF Control, EscalationArmed, TypeOK, Busy
    <3> QED
      BY <3>5, <3>6, <3>7
  <2>2. CASE ~(new # fpm_state /\ CanOverride(new, fpm_state))
    BY <1>3, <1>4, <2>2 DEF PctlSet, procs, TypeOK
  <2> QED
    BY <2>1, <2>2
<1>5. CASE Head(pipe) \in {"C", "1"}
  BY <1>3, <1>5 DEF ReadSignal, rest, procs, TypeOK
<1>6. CASE Head(pipe) \notin {"C", "1"}
  BY <1>4, <1>6 DEF ReadSignal, rest
<1> QED
  BY <1>5, <1>6

(* A death, with the stop it may complete or the restart it may trip.      *)
LEMMA ReapDeadIInv ==
    ASSUME IInv, NEW p \in Pid, ReapDead(p)
    PROVE  IInv'
<1> USE DEF IInv
<1> DEFINE n == running_children - 1
           kids == Listed \ {p}
<1>1. /\ pc = "bury" /\ life[p] # "none"
      /\ wp' = [wp EXCEPT ![p] = NoPool]
      /\ running' = [running EXCEPT ![wp[p]] = @ - 1]
      /\ running_children' = n
      /\ UNCHANGED <<todo, control>>
  BY DEF ReapDead, Dead, Unlink
<1>2. /\ kids \in SUBSET Pid
      /\ \A q \in kids : life[q] # "none"
      /\ \A q \in Pid \ kids : q = p \/ life[q] = "none"
  BY DEF Listed, Bookkeeping
<1>3. wp' \in [Pid -> Pools \cup {NoPool}]
  BY <1>1 DEF TypeOK
<1>4. wp[p] \in Pools
  BY <1>1 DEF TypeOK, Bookkeeping
<1>5. running_children \in Nat /\ running_children >= 1
  <2>1. Listed # {}
    BY <1>1 DEF Bookkeeping, Listed
  <2> QED
    BY <2>1, FiniteLists, FS_EmptySet DEF Bookkeeping, TypeOK
<1> HIDE DEF kids
<1>6. n \in Nat
  BY <1>5
<1> HIDE DEF n
<1>7. ASSUME Forget(kids)
      PROVE  /\ life' \in [Pid -> Lives]
             /\ held' \in [Pid -> SUBSET {"SIGQUIT", "SIGTERM"}]
             /\ \A q \in Pid : life'[q] = "none" <=> q \notin kids
  BY <1>2, <1>7 DEF Forget, TypeOK, Lives
<1>8. ASSUME \A q \in Pid : life'[q] = "none" <=> q \notin kids
      PROVE  /\ Bookkeeping'
             /\ running' \in [Pools -> Nat]
             /\ running_children' \in Nat
  BY <1>1, <1>8, UnlinkKeepsBooks DEF kids, n
<1>9. CASE fpm_state # "NORMAL" /\ n = 0
  <2>1. ActionLast(fpm_state) /\ Forget(kids) /\ UNCHANGED cur
    BY <1>9 DEF ReapDead, LastGone, kids, n
  <2>2. /\ pc' \in Where \ Busy /\ fpm_state' \in States /\ fpm_signal_sent' = "none"
        /\ timer' = FALSE /\ pipe' = << >> /\ chld' = FALSE /\ overrun' = FALSE
        /\ gaveUp' = {}
        /\ pc' = "init" => fpm_state' = "NORMAL"
    BY <2>1 DEF ActionLast, Where, Busy, Ended, TypeOK, States
  <2>3. /\ life' \in [Pid -> Lives]
        /\ held' \in [Pid -> SUBSET {"SIGQUIT", "SIGTERM"}]
        /\ Bookkeeping'
        /\ running' \in [Pools -> Nat]
        /\ running_children' \in Nat
    BY <1>7, <1>8, <2>1
  <2>4. TypeOK'
    <3>1. /\ fpm_signal_sent' \in Sent /\ timer' \in BOOLEAN
          /\ chld' \in BOOLEAN /\ overrun' \in BOOLEAN
      BY <2>2 DEF Sent
    <3>2. pipe' \in Pipes
      BY <2>2, PipeTyping
    <3>3. cur' \in Pools \cup {NoPool} /\ gaveUp' \in SUBSET Pools
      BY <2>1, <2>2 DEF TypeOK
    <3>4. todo' \in SUBSET Pools /\ control' \in 0 .. MaxControl
      BY <1>1 DEF TypeOK
    <3> QED
      BY <1>3, <2>2, <2>3, <3>1, <3>2, <3>3, <3>4 DEF TypeOK
  <2>5. Control' /\ EscalationArmed'
    BY <1>1, <1>9, <2>2 DEF Control, EscalationArmed, Busy
  <2> QED
    BY <2>3, <2>4, <2>5
<1>10. CASE ~(fpm_state # "NORMAL" /\ n = 0)
  <2>1. /\ \/ /\ fpm_state = "NORMAL"
              /\ ActionNext("RELOADING", "none", n, kids, pipe, "refill")
           \/ /\ Forget(kids)
              /\ pc' = "refill"
              /\ UNCHANGED <<fpm_state, fpm_signal_sent, timer, pipe, chld,
                             overrun, gaveUp>>
        /\ cur' = IF pc' = "refill" THEN wp[p] ELSE NoPool
    BY <1>10 DEF ReapDead, LastGone, kids, inbox, n
  <2>2. CASE ActionNext("RELOADING", "none", n, kids, pipe, "refill")
    <3>1. /\ "RELOADING" \in States \ {"NORMAL"} /\ "none" \in Sent
          /\ "refill" \in Busy \ {"create"} /\ pipe \in Pipes
      BY DEF States, Sent, Busy, TypeOK
    <3>2. /\ life' \in [Pid -> Lives]
          /\ held' \in [Pid -> SUBSET {"SIGQUIT", "SIGTERM"}]
          /\ \A q \in Pid : life'[q] = "none" <=> q \notin kids
      BY <1>2, <1>6, <2>2, <3>1, ActionNextProcs
    <3>3. /\ pc' \in Where
          /\ fpm_state' \in States
          /\ fpm_signal_sent' \in Sent
          /\ timer' \in BOOLEAN
          /\ pipe' \in Pipes
          /\ chld' \in BOOLEAN
          /\ overrun' \in BOOLEAN
          /\ gaveUp' \in SUBSET Pools
          /\ n = 0 => pc' \notin Busy
          /\ n # 0 => pc' = "refill" /\ timer' /\ fpm_signal_sent' # "none"
          /\ pc' \in {"init", "create"} => fpm_state' = "NORMAL"
          /\ fpm_state' = "NORMAL" => fpm_signal_sent' = "none" /\ ~timer'
      BY <1>2, <1>6, <2>2, <3>1, ActionNextMaster
    <3>4. TypeOK'
      BY <1>1, <1>3, <1>4, <1>8, <2>1, <3>2, <3>3 DEF TypeOK
    <3>5. Control'
      BY <1>1, <1>4, <2>1, <3>3 DEF Control, Busy
    <3>6. EscalationArmed'
      BY <1>1, <1>6, <3>3 DEF EscalationArmed
    <3> QED
      BY <1>8, <3>2, <3>4, <3>5, <3>6
  <2>3. CASE /\ Forget(kids)
             /\ pc' = "refill"
             /\ UNCHANGED <<fpm_state, fpm_signal_sent, timer, pipe, chld,
                            overrun, gaveUp>>
    <3>1. TypeOK'
      BY <1>1, <1>3, <1>4, <1>7, <1>8, <2>1, <2>3 DEF TypeOK, Where, Busy
    <3>2. Control'
      BY <1>1, <1>4, <2>1, <2>3 DEF Control, Busy
    <3>3. EscalationArmed'
      BY <1>1, <1>5, <1>6, <1>10, <2>3 DEF EscalationArmed, Busy, n
    <3> QED
      BY <1>7, <1>8, <2>3, <3>1, <3>2, <3>3
  <2> QED
    BY <2>1, <2>2, <2>3
<1> QED
  BY <1>9, <1>10

(* A step that leaves the lists and the process control alone keeps the    *)
(* invariant, wherever it takes the master.                                *)
LEMMA QuietIInv ==
    ASSUME IInv, TypeOK',
           UNCHANGED <<wp, running, running_children>>,
           UNCHANGED <<fpm_state, fpm_signal_sent, timer>>,
           \A p \in Pid : life'[p] = "none" <=> life[p] = "none",
           pc' \in Busy => pc \in Busy \/ fpm_state = "NORMAL",
           pc' \notin Busy => pc \notin Busy,
           pc' \in {"create", "refill"} => cur' \in Pools,
           pc' \in {"init", "create"} => fpm_state = "NORMAL"
    PROVE  IInv'
<1>1. Bookkeeping'
  BY SameLists DEF IInv
<1>2. Control'
  BY DEF IInv, Control
<1>3. EscalationArmed'
  BY DEF IInv, EscalationArmed
<1> QED
  BY <1>1, <1>2, <1>3 DEF IInv

(* The check of the slow and the late requests.                            *)
LEMMA HeartbeatIInv == IInv /\ Heartbeat => IInv'
<1> SUFFICES ASSUME IInv, Heartbeat PROVE IInv'
  OBVIOUS
<1>1. PICK slow \in SUBSET {p \in Listed : life[p] = "ready"},
           late \in SUBSET {p \in Listed : life[p] \in {"ready", "stopped", "traced"}} :
        /\ \E caught \in SUBSET late :
              life' = [p \in Pid |->
                 IF p \in slow THEN "stopped"
                 ELSE IF p \in late THEN LifeAfter(life[p], "SIGTERM", p \in caught)
                 ELSE life[p]]
        /\ held' = [p \in Pid |->
              IF p \in late THEN HeldAfter(life[p], held[p], "SIGTERM")
              ELSE held[p]]
        /\ chld' = (chld \/ slow # {})
  BY DEF Heartbeat
<1>2. UNCHANGED <<master, pipe, overrun, pools, making, control>>
  BY DEF Heartbeat
<1>3. \A p \in Pid : /\ life[p] \in Lives
                     /\ held[p] \in SUBSET {"SIGQUIT", "SIGTERM"}
  BY DEF IInv, TypeOK
<1>4. PICK caught \in SUBSET late :
        life' = [p \in Pid |->
           IF p \in slow THEN "stopped"
           ELSE IF p \in late THEN LifeAfter(life[p], "SIGTERM", p \in caught)
           ELSE life[p]]
  BY <1>1
<1>5. \A p \in Pid :
         HeldAfter(life[p], held[p], "SIGTERM") \in SUBSET {"SIGQUIT", "SIGTERM"}
  BY <1>3 DEF HeldAfter, Halted
<1>6. life' \in [Pid -> Lives]
  BY <1>3, <1>4 DEF LifeAfter, Lives, Alive, Dead
<1>7. \A p \in Pid : life'[p] = "none" <=> life[p] = "none"
  BY <1>3, <1>4 DEF LifeAfter
<1>8. held' \in [Pid -> SUBSET {"SIGQUIT", "SIGTERM"}]
  BY <1>1, <1>3, <1>5
<1>9. TypeOK'
  BY <1>1, <1>2, <1>6, <1>8 DEF IInv, TypeOK, master, pools, making
<1> QED
  BY <1>2, <1>7, <1>9, QuietIInv DEF master, pools, making, IInv, Control

(* The read loop and the waitpid loop end.                                 *)
LEMMA DrainedIInv == IInv /\ (Drained \/ NoneToReap) => IInv'
<1> SUFFICES ASSUME IInv, Drained \/ NoneToReap PROVE IInv'
  OBVIOUS
<1>1. /\ pc' \in {"loop", "signals"} /\ pc \in Busy
      /\ UNCHANGED <<fpm_state, fpm_signal_sent, timer, pipe, chld, overrun,
                     wp, running, running_children, gaveUp, cur, todo,
                     life, held, control>>
  BY DEF Drained, NoneToReap, Busy, inbox, pools, making, procs
<1>2. TypeOK'
  BY <1>1 DEF IInv, TypeOK, Where, Busy
<1> QED
  BY <1>1, <1>2, QuietIInv DEF Busy

(* A stopped worker is traced and resumed, or left stopped.                *)
LEMMA ReapStoppedIInv ==
    ASSUME IInv, NEW p \in Pid, ReapStopped(p)
    PROVE  IInv'
<1>1. /\ life[p] = "stopped"
      /\ \E l \in {"dying", "ready", "traced"} : life' = [life EXCEPT ![p] = l]
      /\ UNCHANGED <<master, pipe, overrun, pools, making, control>>
  BY DEF ReapStopped
<1>2. /\ held' \in [Pid -> SUBSET {"SIGQUIT", "SIGTERM"}]
      /\ chld' \in BOOLEAN
  BY DEF ReapStopped, IInv, TypeOK
<1>3. life' \in [Pid -> Lives] /\ \A q \in Pid : life'[q] = "none" <=> life[q] = "none"
  BY <1>1 DEF IInv, TypeOK, Lives, Alive
<1>4. TypeOK'
  BY <1>1, <1>2, <1>3 DEF IInv, TypeOK, master, pools, making
<1> QED
  BY <1>1, <1>3, <1>4, QuietIInv DEF master, pools, making, IInv, Control

(* fork() and fpm_child_link                                               *)
LEMMA ForkIInv ==
    ASSUME IInv, NEW p \in Pid, Fork(p)
    PROVE  IInv'
<1>1. /\ pc \in {"create", "refill"} /\ fpm_state = "NORMAL"
      /\ life[p] = "none"
      /\ life' = [life EXCEPT ![p] = "booting"]
      /\ wp' = [wp EXCEPT ![p] = cur]
      /\ running' = [running EXCEPT ![cur] = @ + 1]
      /\ running_children' = running_children + 1
      /\ UNCHANGED <<master, inbox, gaveUp, making, held, control>>
  BY DEF Fork, Wanted, Link
<1>2. cur \in Pools
  BY <1>1 DEF IInv, Control
<1>3. Bookkeeping'
  BY <1>1, <1>2, LinkKeepsBooks DEF IInv
<1>4. TypeOK'
  <2>1. life' \in [Pid -> Lives] /\ wp' \in [Pid -> Pools \cup {NoPool}]
    BY <1>1, <1>2 DEF IInv, TypeOK, Lives, Alive
  <2>2. running' \in [Pools -> Nat] /\ running_children' \in Nat
    BY <1>1, <1>2 DEF IInv, TypeOK
  <2> QED
    BY <1>1, <2>1, <2>2 DEF IInv, TypeOK, master, inbox, making
<1>5. Control' /\ EscalationArmed'
  BY <1>1 DEF IInv, Control, EscalationArmed, master, making, Busy
<1> QED
  BY <1>3, <1>4, <1>5 DEF IInv

(* Where fpm_children_make returns to                                      *)
LEMMA MadeIInv == IInv /\ (ForkFails \/ Filled) => IInv'
<1> SUFFICES ASSUME IInv, ForkFails \/ Filled PROVE IInv'
  OBVIOUS
<1>1. /\ pc \in {"create", "refill"}
      /\ Made
      /\ UNCHANGED <<fpm_state, fpm_signal_sent, timer, pipe, chld, overrun, wp,
                     running, running_children, life, held, control>>
  BY DEF ForkFails, Filled, Wanted, inbox, procs
<1>2. cur \in Pools
  BY <1>1 DEF IInv, Control
<1>3. gaveUp' \in SUBSET Pools
  BY <1>2 DEF IInv, TypeOK, ForkFails, Filled
<1>4. /\ pc' \in {"bury", "loop", "create"}
      /\ pc' = "create" => pc = "create" /\ cur' \in Pools
      /\ todo' \in SUBSET Pools /\ cur' \in Pools \cup {NoPool}
  BY <1>1 DEF Made, IInv, TypeOK
<1>5. TypeOK'
  BY <1>1, <1>3, <1>4 DEF IInv, TypeOK, Where, Busy
<1> QED
  BY <1>1, <1>4, <1>5, QuietIInv DEF Busy, IInv, Control

(* fpm_init ends, well or not.                                             *)
LEMMA StartIInv == IInv /\ (Start \/ StartFails) => IInv'
<1> SUFFICES ASSUME IInv, Start \/ StartFails PROVE IInv'
  OBVIOUS
<1>1. /\ pc = "init"
      /\ UNCHANGED <<fpm_state, fpm_signal_sent, timer, pipe, chld, overrun, wp,
                     running, running_children, gaveUp, life, held,
                     control>>
      /\ \/ pc' = "create" /\ todo' = Pools /\ cur' \in Pools
         \/ pc' = "failed" /\ UNCHANGED <<cur, todo>>
  BY DEF Start, StartFails, inbox, pools, procs, making
<1>2. TypeOK'
  BY <1>1 DEF IInv, TypeOK, Where, Busy, Ended
<1>3. fpm_state = "NORMAL"
  BY <1>1 DEF IInv, Control
<1> QED
  BY <1>1, <1>2, <1>3, QuietIInv DEF Busy

(* A worker boots, exits or dies.                                          *)
LEMMA WorkerIInv ==
    ASSUME IInv, NEW p \in Pid, Boot(p) \/ Exit(p) \/ Die(p)
    PROVE  IInv'
<1>1. /\ life[p] \in {"booting", "ready", "dying"}
      /\ \E l \in {"ready", "zombie", "crashed"} : life' = [life EXCEPT ![p] = l]
      /\ chld' \in BOOLEAN
      /\ UNCHANGED <<master, pipe, overrun, pools, making, held, control>>
  BY DEF Boot, Exit, Die, Dead, inbox, IInv, TypeOK
<1>2. life' \in [Pid -> Lives] /\ \A q \in Pid : life'[q] = "none" <=> life[q] = "none"
  BY <1>1 DEF IInv, TypeOK, Lives, Alive, Dead
<1>3. TypeOK'
  BY <1>1, <1>2 DEF IInv, TypeOK, master, pools, making
<1> QED
  BY <1>1, <1>2, <1>3, QuietIInv DEF master, pools, making, IInv, Control

(* sig_handler writes a character or drops it.                             *)
LEMMA SignalIInv ==
    ASSUME IInv, SigChld \/ \E c \in Commands : Operator(c)
    PROVE  IInv'
<1>1. \A c \in Commands \cup {"C"} : Put(c) \in Pipes
  BY PipeTyping DEF IInv, TypeOK
<1>2. CASE SigChld
  <2>1. pipe' \in Pipes
    BY <1>1, <1>2 DEF SigChld
  <2>2. chld' \in BOOLEAN /\ overrun' \in BOOLEAN
    BY <1>2 DEF SigChld, IInv, TypeOK
  <2>3. UNCHANGED <<master, pools, making, procs, control>>
    BY <1>2 DEF SigChld
  <2>4. TypeOK'
    BY <2>1, <2>2, <2>3 DEF IInv, TypeOK, master, pools, making, procs
  <2> QED
    BY <2>3, <2>4, QuietIInv DEF master, pools, making, procs, IInv, Control
<1>3. ASSUME NEW c \in Commands, Operator(c) PROVE IInv'
  <2>1. /\ \/ pc \in Busy /\ pipe' = Put(c) /\ pc' = pc
           \/ pc = "init" /\ pc' = "killed" /\ pipe' = pipe
        /\ control > 0 /\ control' = control - 1
        /\ UNCHANGED <<fpm_state, fpm_signal_sent, timer, chld, overrun, wp,
                       running, running_children, gaveUp, cur, todo, life,
                       held>>
    BY <1>3 DEF Operator, pools, making, procs
  <2>2. pipe' \in Pipes
    BY <1>1, <2>1 DEF IInv, TypeOK
  <2>3. control' \in 0 .. MaxControl
    BY <2>1, BoundAssumption DEF IInv, TypeOK
  <2>4. pc' \in Where
    BY <2>1 DEF IInv, TypeOK, Where, Ended
  <2>5. TypeOK'
    BY <2>1, <2>2, <2>3, <2>4 DEF IInv, TypeOK
  <2> QED
    BY <2>1, <2>5, QuietIInv DEF IInv, Control, Busy
<1> QED
  BY <1>2, <1>3

(* Every step keeps the invariant: one case for each action.               *)
LEMMA StepIInv == IInv /\ [Next]_vars => IInv'
<1> SUFFICES ASSUME IInv, [Next]_vars PROVE IInv'
  OBVIOUS
<1>1. CASE MasterStep
  <2>1. CASE \E p \in Pid : ReapDead(p) \/ ReapStopped(p)
    BY <2>1, ReapDeadIInv, ReapStoppedIInv
  <2>2. CASE \E p \in Pid : Fork(p)
    BY <2>2, ForkIInv
  <2> QED
    BY <1>1, <2>1, <2>2, ReadSignalIInv, DrainedIInv, MadeIInv, SignalIInv
       DEF MasterStep, Reap, Make
<1>2. CASE PctlTimeout \/ Heartbeat \/ Start \/ StartFails
  BY <1>2, TimeoutIInv, HeartbeatIInv, StartIInv
<1>3. CASE \E p \in Pid : Boot(p) \/ Exit(p) \/ Die(p)
  BY <1>3, WorkerIInv
<1>4. CASE \E c \in Commands : Operator(c)
  BY <1>4, SignalIInv
<1>5. CASE Done \/ UNCHANGED vars
  <2>1. UNCHANGED vars
    BY <1>5 DEF Done
  <2> QED
    BY <2>1 DEF vars, master, inbox, pools, making, procs, IInv, TypeOK,
       Bookkeeping, Listed, Children, Control, EscalationArmed
<1> QED
  BY <1>1, <1>2, <1>3, <1>4, <1>5 DEF Next

-----------------------------------------------------------------------------
(* The results.                                                            *)

(* The invariant is one of the specification.                              *)
LEMMA Inductive == Spec => []IInv
<1> QED
  BY InitIInv, StepIInv, PTL DEF Spec

(* Every variable of the master and of its workers keeps its type: in      *)
(* particular running_children never goes below zero and cur is a pool.    *)
THEOREM Typing == Spec => []TypeOK
<1>1. IInv => TypeOK
  BY DEF IInv
<1> QED
  BY <1>1, Inductive, PTL

(* The counters fpm_children_make and fpm_pctl_action_next decide by are   *)
(* the sizes of the lists, and the lists hold exactly the processes forked *)
(* and not waited for, whatever signals, crashes and reloads interleave.   *)
THEOREM Books == Spec => []Bookkeeping
<1>1. IInv => Bookkeeping
  BY DEF IInv
<1> QED
  BY <1>1, Inductive, PTL

(* The master never exits or execs a new image over a worker that has not  *)
(* been waited for.                                                        *)
THEOREM NobodyOutlives == Spec => []NoOrphan
<1>1. IInv => NoOrphan
  BY NobodyLeft DEF IInv, Control, NoOrphan
<1> QED
  BY <1>1, Inductive, PTL

(* A stop or reload in progress always has its escalation timer armed and  *)
(* a worker to wait for.                                                   *)
THEOREM AlwaysArmed == Spec => []EscalationArmed
<1>1. IInv => EscalationArmed
  BY DEF IInv
<1> QED
  BY <1>1, Inductive, PTL

-----------------------------------------------------------------------------
(* No worker is forked once a stop or reload is decided.                   *)

(* Only fpm_child_link adds a worker to the lists.                         *)
LEMMA OnlyForkLinks ==
    ASSUME IInv, [Next]_vars, ~\E p \in Pid : Fork(p)
    PROVE  \A p \in Pid : wp[p] = NoPool => wp'[p] = NoPool
<1>1. CASE UNCHANGED wp
  BY <1>1
<1>2. ASSUME NEW p \in Pid, ReapDead(p)
      PROVE  \A q \in Pid : wp[q] = NoPool => wp'[q] = NoPool
  BY <1>2 DEF ReapDead, Unlink, IInv, TypeOK
<1>3. UNCHANGED wp \/ \E p \in Pid : ReapDead(p)
  BY DEF Next, MasterStep, Reap, Make, vars, pools, ReadSignal, Drained,
     ReapStopped, NoneToReap, ForkFails, Filled, SigChld, PctlTimeout,
     Heartbeat, Start, StartFails, Boot, Exit, Die, Operator, Done
<1> QED
  BY <1>1, <1>2, <1>3

(* A process comes to life only in fpm_children_make of a master in its    *)
(* normal state, and that step leaves the state alone.                     *)
THEOREM NoLateSpawn == Spec => NoSpawnWhileStopping
<1> DEFINE Quiet == (\E p \in Pid : life[p] = "none" /\ life'[p] # "none") =>
                       fpm_state = "NORMAL" /\ fpm_state' = "NORMAL"
<1>1. ASSUME IInv, IInv', [Next]_vars PROVE Quiet
  <2>1. CASE \E p \in Pid : Fork(p)
    BY <2>1 DEF Fork, Wanted, master
  <2>2. CASE ~\E p \in Pid : Fork(p)
    <3>1. \A p \in Pid : wp[p] = NoPool => wp'[p] = NoPool
      BY <1>1, <2>2, OnlyForkLinks
    <3>2. \A p \in Pid : life[p] = "none" => life'[p] = "none"
      BY <1>1, <3>1 DEF IInv, Bookkeeping
    <3> QED
      BY <3>2
  <2> QED
    BY <2>1, <2>2
<1>2. IInv /\ IInv' /\ [Next]_vars => [Quiet]_vars
  BY <1>1
<1> QED
  BY <1>2, Inductive, PTL DEF Spec, NoSpawnWhileStopping

-----------------------------------------------------------------------------
(* SIGKILL ends every child.                                               *)

Gone == \A p \in Pid : life[p] \in Dead \cup {"dying", "none"}

(* The books let KillIsFinal speak of all processes.                       *)
LEMMA KillIsGone == Bookkeeping => (KillIsFinal <=> (fpm_signal_sent = "SIGKILL" => Gone))
  BY DEF Bookkeeping, KillIsFinal, Gone, Listed

(* A round of fpm_pctl_kill_all with SIGKILL spares nobody.                *)
LEMMA ActionNextKills ==
    ASSUME TypeOK,
           NEW st, NEW sent, NEW n \in Nat,
           NEW kids \in SUBSET Pid, NEW rest, NEW next,
           ActionNext(st, sent, n, kids, rest, next),
           fpm_signal_sent' = "SIGKILL"
    PROVE  Gone'
<1>1. n # 0
  BY DEF ActionNext, ActionLast
<1>2. NextSignal(st, sent) = "SIGKILL"
  BY <1>1 DEF ActionNext
<1>3. KillAll("SIGKILL", kids)
  BY <1>1, <1>2 DEF ActionNext
<1>4. PICK caught \in SUBSET kids :
        life' = [p \in Pid |->
           IF p \in kids THEN LifeAfter(life[p], "SIGKILL", p \in caught) ELSE "none"]
  BY <1>3 DEF KillAll
<1> QED
  BY <1>4 DEF Gone, LifeAfter, TypeOK, Lives, Alive

(* Nobody gone comes back: apart from the rounds of signals no step can    *)
(* revive, boot, stop or fork a worker.                                    *)
LEMMA GoneStays ==
    ASSUME IInv, [Next]_vars, Gone, fpm_signal_sent = "SIGKILL",
           UNCHANGED fpm_signal_sent
    PROVE  Gone'
<1>1. fpm_state # "NORMAL"
  BY DEF IInv, Control
<1>2. \A p \in Pid : life[p] \notin {"booting", "ready", "stopped", "traced"}
  BY DEF Gone, Dead
<1>3. ASSUME NEW st, NEW sent, NEW n \in Nat,
             NEW kids \in SUBSET Pid, NEW rest, NEW next,
             ActionNext(st, sent, n, kids, rest, next)
      PROVE  Gone'
  BY <1>3, ActionNextKills DEF IInv
<1>4. CASE PctlTimeout
  BY <1>3, <1>4 DEF PctlTimeout, Listed, IInv, TypeOK
<1>5. CASE ReadSignal
  <2>1. \A new, rest : PctlSet(new, rest) => Gone' \/ UNCHANGED life
    BY <1>3 DEF PctlSet, procs, Listed, IInv, TypeOK
  <2> QED
    BY <1>5, <2>1 DEF ReadSignal, procs, Gone
<1>6. ASSUME NEW p \in Pid, ReapDead(p) PROVE Gone'
  <2>1. \E kids : Forget(kids)
    BY <1>1, <1>6 DEF ReapDead
  <2> QED
    BY <2>1 DEF Forget, Gone
<1>7. CASE Heartbeat
  <2>1. UNCHANGED life
    <3>1. PICK slow \in SUBSET {p \in Listed : life[p] = "ready"},
               late \in SUBSET {p \in Listed : life[p] \in {"ready", "stopped", "traced"}} :
          \E caught \in SUBSET late :
            /\ life' = [p \in Pid |->
                  IF p \in slow THEN "stopped"
                  ELSE IF p \in late THEN LifeAfter(life[p], "SIGTERM", p \in caught)
                  ELSE life[p]]
            /\ chld' = (chld \/ slow # {})
      BY <1>7 DEF Heartbeat
    <3>2. slow = {} /\ late = {}
      BY <1>2 DEF Listed
    <3> QED
      BY <3>1, <3>2 DEF IInv, TypeOK
  <2> QED
    BY <2>1 DEF Gone
<1>8. ASSUME NEW p \in Pid, Boot(p) \/ Exit(p) \/ Die(p) PROVE Gone'
  <2>1. life' = [life EXCEPT ![p] = "zombie"]
    BY <1>2, <1>8 DEF Boot, Exit, Die
  <2> QED
    BY <2>1 DEF Gone, Dead, IInv, TypeOK
<1>9. ~\E p \in Pid : ReapStopped(p) \/ Fork(p)
  BY <1>1, <1>2 DEF ReapStopped, Fork, Wanted
<1>10. CASE UNCHANGED life
  BY <1>10 DEF Gone
<1>11. \/ PctlTimeout \/ ReadSignal \/ Heartbeat
       \/ \E p \in Pid : ReapDead(p) \/ Boot(p) \/ Exit(p) \/ Die(p)
       \/ UNCHANGED life
  BY <1>9 DEF Next, MasterStep, Reap, Make, vars, procs, Drained, NoneToReap,
     ForkFails, Filled, SigChld, Start, StartFails, Operator, Done
<1> QED
  BY <1>4, <1>5, <1>6, <1>7, <1>8, <1>10, <1>11

(* Once SIGKILL has been sent every child is dying or dead, also those     *)
(* that were booting, stopped or traced during the earlier rounds.         *)
THEOREM KillEndsAll == Spec => []KillIsFinal
<1>1. Init => KillIsFinal
  BY DEF Init, KillIsFinal
<1>2. ASSUME IInv, IInv', KillIsFinal, [Next]_vars PROVE KillIsFinal'
  <2> SUFFICES ASSUME fpm_signal_sent' = "SIGKILL" PROVE Gone'
    BY <1>2, KillIsGone DEF IInv, KillIsFinal, Gone, Bookkeeping, Listed
  <2>1. CASE UNCHANGED fpm_signal_sent
    BY <1>2, <2>1, KillIsGone, GoneStays DEF IInv
  <2>2. CASE ~UNCHANGED fpm_signal_sent
    <3>1. ASSUME NEW st, NEW sent, NEW n \in Nat,
                 NEW kids \in SUBSET Pid, NEW rest, NEW next,
                 ActionNext(st, sent, n, kids, rest, next)
          PROVE  Gone'
      BY <1>2, <3>1, ActionNextKills DEF IInv
    <3>2. \A p : Listed \in SUBSET Pid /\ Listed \ {p} \in SUBSET Pid
      BY DEF Listed
    <3>3. CASE PctlTimeout
      BY <1>2, <3>1, <3>2, <3>3 DEF PctlTimeout, IInv, TypeOK
    <3>4. CASE ReadSignal
      <4>1. \A new, rest : PctlSet(new, rest) => Gone' \/ UNCHANGED fpm_signal_sent
        BY <1>2, <3>1, <3>2 DEF PctlSet, IInv, TypeOK
      <4> QED
        BY <2>2, <3>4, <4>1 DEF ReadSignal
    <3>5. ASSUME NEW p \in Pid, ReapDead(p) PROVE Gone'
      <4>1. running_children - 1 \in Nat
        BY <1>2, <3>5 DEF ReapDead, Unlink, IInv, TypeOK
      <4>2. \/ ActionLast(fpm_state)
            \/ ActionNext("RELOADING", "none", running_children - 1,
                          Listed \ {p}, pipe, "refill")
        BY <2>2, <3>5 DEF ReapDead
      <4> QED
        BY <3>1, <3>2, <4>1, <4>2 DEF ActionLast
    <3>6. PctlTimeout \/ ReadSignal \/ \E p \in Pid : ReapDead(p)
      BY <1>2, <2>2 DEF Next, MasterStep, Reap, Make, vars, master, Drained,
         ReapStopped, NoneToReap, Fork, ForkFails, Filled, SigChld, Heartbeat,
         Start, StartFails, Boot, Exit, Die, Operator, Done
    <3> QED
      BY <3>3, <3>4, <3>5, <3>6
  <2> QED
    BY <2>1, <2>2
<1>3. IInv /\ IInv' /\ KillIsFinal /\ [Next]_vars => KillIsFinal'
  BY <1>2
<1> QED
  BY <1>1, <1>3, Inductive, PTL DEF Spec

-----------------------------------------------------------------------------
(* The escalation.                                                         *)

(* What a round of fpm_pctl_action_next leaves behind when the master is   *)
(* still there: the state it was called with and the next signal.          *)
LEMMA ActionNextStays ==
    ASSUME NEW st, NEW sent, NEW n, NEW kids, NEW rest, NEW next,
           ActionNext(st, sent, n, kids, rest, next), pc' \in Busy
    PROVE  /\ n # 0 /\ pc' = next
           /\ fpm_state' = st /\ fpm_signal_sent' = NextSignal(st, sent)
           /\ KillAll(NextSignal(st, sent), kids)
           /\ pipe' = rest
           /\ UNCHANGED <<chld, overrun, gaveUp>>
  BY DEF ActionNext, ActionLast, Busy

(* The steps that change fpm_state or the signal sent                      *)
LEMMA PctlSteps ==
    ASSUME [Next]_vars, ~UNCHANGED <<fpm_state, fpm_signal_sent>>
    PROVE  PctlTimeout \/ ReadSignal \/ \E p \in Pid : ReapDead(p)
  BY DEF Next, MasterStep, Reap, Make, vars, master, Drained, ReapStopped,
     NoneToReap, Fork, ForkFails, Filled, SigChld, Heartbeat, Start,
     StartFails, Boot, Exit, Die, Operator, Done

(* The state gives way only to one that may override it, and while it      *)
(* stands each round sends a signal at least as strong as the last.        *)
THEOREM Escalates == Spec => NeverWeaker
<1> DEFINE Grows ==
        {pc, pc'} \subseteq Busy =>
          IF fpm_state' = fpm_state
          THEN Strength(fpm_signal_sent') >= Strength(fpm_signal_sent)
          ELSE CanOverride(fpm_state', fpm_state)
<1>1. ASSUME IInv, [Next]_vars PROVE Grows
  <2> SUFFICES ASSUME pc \in Busy, pc' \in Busy
               PROVE  IF fpm_state' = fpm_state
                      THEN Strength(fpm_signal_sent') >= Strength(fpm_signal_sent)
                      ELSE CanOverride(fpm_state', fpm_state)
    OBVIOUS
  <2>1. CASE UNCHANGED <<fpm_state, fpm_signal_sent>>
    BY <2>1 DEF Strength
  <2>2. CASE PctlTimeout
    <3>1. /\ fpm_state' = fpm_state
          /\ fpm_signal_sent' = NextSignal(fpm_state, fpm_signal_sent)
      BY <2>2, ActionNextStays DEF PctlTimeout
    <3>2. fpm_signal_sent \in Sent
      BY <1>1 DEF IInv, TypeOK
    <3> QED
      BY <3>1, <3>2 DEF NextSignal, Strength, Sent
  <2>3. CASE ReadSignal
    <3>1. ASSUME NEW new, NEW rest, PctlSet(new, rest), ~UNCHANGED <<fpm_state, fpm_signal_sent>>
          PROVE  fpm_state' # fpm_state /\ CanOverride(fpm_state', fpm_state)
      <4>1. /\ new # fpm_state /\ CanOverride(new, fpm_state)
            /\ ActionNext(new, "none", running_children, Listed, rest, "signals")
        BY <3>1 DEF PctlSet
      <4> QED
        BY <4>1, ActionNextStays
    <3> QED
      BY <2>1, <2>3, <3>1 DEF ReadSignal
  <2>4. ASSUME NEW p \in Pid, ReapDead(p), ~UNCHANGED <<fpm_state, fpm_signal_sent>>
        PROVE  fpm_state' # fpm_state /\ CanOverride(fpm_state', fpm_state)
    <3>1. ~ActionLast(fpm_state)
      BY DEF ActionLast, Busy
    <3>2. /\ fpm_state = "NORMAL"
          /\ \E n, kids : ActionNext("RELOADING", "none", n, kids, pipe, "refill")
      BY <2>4, <3>1 DEF ReapDead
    <3> QED
      BY <3>2, ActionNextStays DEF CanOverride
  <2> QED
    BY <1>1, <2>1, <2>2, <2>3, <2>4, PctlSteps
<1>2. IInv /\ [Next]_vars => [Grows]_vars
  BY <1>1
<1> QED
  BY <1>2, Inductive, PTL DEF Spec, NeverWeaker

-----------------------------------------------------------------------------
(* Full pools.                                                             *)

(* The fork loops' part of PoolsFull: fpm_run has filled the pools it is   *)
(* through with, and the refill is for the one pool that lost a child.     *)
Filling ==
    /\ \A w \in Pools : running[w] <= MaxChildren[w]
    /\ pc = "create" => cur \in todo
    /\ fpm_state = "NORMAL" =>
        \A w \in Pools \ gaveUp :
            \/ running[w] = MaxChildren[w]
            \/ pc \in Ended \cup {"init"}
            \/ pc = "create" /\ w \in todo
            \/ pc = "refill" /\ w = cur

(* A step that concerns neither lists nor loops keeps it.                  *)
LEMMA SameFilling ==
    ASSUME Filling,
           UNCHANGED <<fpm_state, gaveUp, running, cur, todo>>,
           \/ pc' = pc
           \/ pc \notin {"create", "refill", "init"} \cup Ended /\ pc' # "create"
    PROVE  Filling'
  BY DEF Filling, Ended

(* A round of fpm_pctl_action_next leaves the normal state, or the image.  *)
LEMMA ActionNextFilling ==
    ASSUME Filling, NEW st \in States \ {"NORMAL"}, NEW sent, NEW n, NEW kids,
           NEW rest, NEW next \in Busy \ {"create"},
           ActionNext(st, sent, n, kids, rest, next),
           \A w \in Pools : running'[w] <= MaxChildren[w]
    PROVE  Filling'
<1>1. CASE ActionLast(st)
  BY <1>1 DEF ActionLast, Filling, Ended
<1>2. CASE ~ActionLast(st)
  <2>1. pc' = next /\ fpm_state' = st
    BY <1>2 DEF ActionNext
  <2> QED
    BY <2>1 DEF Filling
<1> QED
  BY <1>1, <1>2

(* The pools are to be filled when the first image starts.                 *)
LEMMA InitFilling == Init => Filling
  BY LimitAssumption DEF Init, Filling, Ended

(* One case for each action; the fork loops come last.                     *)
LEMMA StepFilling ==
    ASSUME IInv, IInv', Filling, [Next]_vars
    PROVE  Filling'
<1>0. TypeOK /\ TypeOK' /\ Control
  BY DEF IInv
<1>1. CASE PctlTimeout
  <2>1. fpm_state \in States \ {"NORMAL"}
    BY <1>0, <1>1 DEF PctlTimeout, Control, TypeOK
  <2>2. running' = running /\ "loop" \in Busy \ {"create"}
    BY <1>1 DEF PctlTimeout, Busy
  <2> QED
    BY <1>1, <2>1, <2>2, ActionNextFilling DEF PctlTimeout, Filling
<1>2. CASE ReadSignal
  <2>1. UNCHANGED <<running, cur, todo>> /\ pc \in {"loop", "signals"}
    BY <1>2 DEF ReadSignal, making
  <2>2. ASSUME NEW new \in {"TERMINATING", "FINISHING", "RELOADING"}, NEW rest,
               PctlSet(new, rest)
        PROVE  Filling'
    <3>1. CASE ActionNext(new, "none", running_children, Listed, rest, "signals")
      <4>1. new \in States \ {"NORMAL"} /\ "signals" \in Busy \ {"create"}
        BY DEF States, Busy
      <4> QED
        BY <2>1, <3>1, <4>1, ActionNextFilling DEF Filling
    <3>2. CASE pc' = "signals" /\ UNCHANGED <<fpm_state, gaveUp>>
      BY <2>1, <3>2, SameFilling DEF Ended
    <3> QED
      BY <2>2, <3>1, <3>2 DEF PctlSet
  <2>3. \/ pc' \in {"bury", "signals"} /\ UNCHANGED <<fpm_state, gaveUp>>
        \/ \E new \in {"TERMINATING", "FINISHING", "RELOADING"} :
             \E rest : PctlSet(new, rest)
    BY <1>2 DEF ReadSignal
  <2> QED
    BY <2>1, <2>2, <2>3, SameFilling DEF Ended
<1>3. ASSUME NEW p \in Pid, ReapDead(p) PROVE Filling'
  <2>1. /\ pc = "bury" /\ todo' = todo
        /\ wp[p] \in Pools
        /\ \A w \in Pools : running'[w] = IF w = wp[p] THEN running[w] - 1 ELSE running[w]
    BY <1>0, <1>3 DEF ReapDead, Unlink, TypeOK, IInv, Bookkeeping, Dead
  <2>2. \A w \in Pools : running'[w] <= MaxChildren[w]
    BY <1>0, <2>1, LimitAssumption DEF Filling, TypeOK
  <2>3. CASE ActionLast(fpm_state)
    BY <2>2, <2>3 DEF ActionLast, Filling, Ended
  <2>4. CASE \E n, kids : ActionNext("RELOADING", "none", n, kids, pipe, "refill")
    <3>1. "RELOADING" \in States \ {"NORMAL"} /\ "refill" \in Busy \ {"create"}
      BY DEF States, Busy
    <3> QED
      BY <2>2, <2>4, <3>1, ActionNextFilling
  <2>5. CASE /\ pc' = "refill" /\ cur' = IF pc' = "refill" THEN wp[p] ELSE NoPool
             /\ UNCHANGED <<fpm_state, gaveUp>>
    BY <2>1, <2>2, <2>5 DEF Filling, Ended
  <2> QED
    BY <1>3, <2>3, <2>4, <2>5 DEF ReapDead
<1>4. ASSUME NEW p \in Pid, Fork(p) PROVE Filling'
  <2>1. /\ cur \in Pools /\ running[cur] < MaxChildren[cur]
        /\ \A w \in Pools : running'[w] = IF w = cur THEN running[w] + 1 ELSE running[w]
        /\ UNCHANGED <<pc, fpm_state, gaveUp, cur, todo>>
        /\ pc \in {"create", "refill"}
    BY <1>0, <1>4 DEF Fork, Wanted, Link, master, making, TypeOK, Control
  <2>2. \A w \in Pools : running'[w] <= MaxChildren[w]
    BY <1>0, <2>1, LimitAssumption DEF Filling, TypeOK
  <2> QED
    BY <2>1, <2>2 DEF Filling
<1>5. CASE ForkFails \/ Filled
  <2>1. /\ pc \in {"create", "refill"} /\ cur \in Pools
        /\ Made /\ UNCHANGED <<fpm_state, running>>
    BY <1>0, <1>5 DEF ForkFails, Filled, Wanted, Control
  <2>2. fpm_state = "NORMAL" =>
          \A w \in Pools \ gaveUp' : w = cur \/ w \notin gaveUp
    BY <1>5 DEF ForkFails, Filled
  <2>3. fpm_state = "NORMAL" /\ cur \notin gaveUp' => running[cur] = MaxChildren[cur]
    BY <1>0, <1>5, <2>1, LimitAssumption DEF ForkFails, Filled, Wanted, Filling, TypeOK
  <2>4. /\ pc' \in {"bury", "loop", "create"}
        /\ pc' = "create" => cur' \in todo'
        /\ pc = "create" => todo' = todo \ {cur} /\ pc' # "bury"
        /\ pc = "refill" => pc' = "bury"
        /\ pc' = "loop" => todo' = {}
    BY <2>1 DEF Made
  <2> QED
    BY <2>1, <2>2, <2>3, <2>4 DEF Filling, Ended
<1>6. CASE Start \/ StartFails
  <2>1. /\ pc' = "create" => cur' \in todo' /\ todo' = Pools
        /\ pc' \in {"create", "failed"} /\ UNCHANGED <<fpm_state, running, gaveUp>>
    BY <1>6 DEF Start, StartFails, pools
  <2> QED
    BY <2>1 DEF Filling, Ended
<1>7. CASE Drained \/ NoneToReap
  BY <1>7, SameFilling DEF Drained, NoneToReap, pools, making, Ended
<1>8. ASSUME NEW c \in Commands, Operator(c) PROVE Filling'
  <2>1. CASE pc' = pc
    BY <1>8, <2>1, SameFilling DEF Operator, pools, making
  <2>2. CASE pc' = "killed"
    BY <1>8, <2>2 DEF Operator, pools, making, Filling, Ended
  <2> QED
    BY <1>8, <2>1, <2>2 DEF Operator
<1>9. CASE UNCHANGED <<pc, fpm_state, gaveUp, running, cur, todo>>
  BY <1>9, SameFilling
<1>10. \/ UNCHANGED <<pc, fpm_state, gaveUp, running, cur, todo>>
       \/ PctlTimeout \/ ReadSignal \/ ForkFails \/ Filled \/ Start \/ StartFails
       \/ Drained \/ NoneToReap
       \/ \E p \in Pid : ReapDead(p) \/ Fork(p)
       \/ \E c \in Commands : Operator(c)
  BY DEF Next, MasterStep, Reap, Make, vars, master, pools, making, ReapStopped,
     SigChld, Heartbeat, Boot, Exit, Die, Done
<1> QED
  BY <1>1, <1>2, <1>3, <1>4, <1>5, <1>6, <1>7, <1>8, <1>9, <1>10

(* Filling is an invariant beside the inductive one.                       *)
LEMMA AlwaysFilling == Spec => []Filling
<1>1. IInv /\ IInv' /\ Filling /\ [Next]_vars => Filling'
  BY StepFilling
<1> QED
  BY InitFilling, <1>1, Inductive, PTL DEF Spec

(* No pool is ever above its max_children, and while the master serves and *)
(* is not forking every pool is full whose last fork did not fail.         *)
THEOREM Full == Spec => []PoolsFull
<1>1. IInv /\ Filling => PoolsFull
  BY DEF IInv, Bookkeeping, Filling, PoolsFull, Ended
<1> QED
  BY <1>1, Inductive, AlwaysFilling, PTL

-----------------------------------------------------------------------------
(* Deaths that are not forgotten.                                          *)

(* Somebody is there for waitpid to report.                                *)
Reapable == \E p \in Pid : life[p] \in Dead \cup {"stopped"}

(* Behind the last 'C' of the socket, or in all of it, there are no more   *)
(* characters than the operator has sent, c signals being still to come.   *)
Honest(q, c) ==
    \A i \in 0 .. Len(q) :
        (\A j \in i + 1 .. Len(q) : q[j] # "C") => Len(q) - i <= MaxControl - c

(* So a socket that is full without a 'C', the only one that drops a       *)
(* SIGCHLD for good, is full of what the operator sent.                    *)
Noticing ==
    /\ Reapable => chld \/ HasC(pipe) \/ overrun \/ pc \in {"bury", "refill"}
    /\ overrun => MaxControl >= PipeCap
    /\ Honest(pipe, control)

(* Reading the first character, or clearing the socket, leaves it honest.  *)
LEMMA TailHonest ==
    ASSUME NEW q \in Pipes, NEW c \in 0 .. MaxControl, Honest(q, c)
    PROVE  /\ Honest(<<>>, c)
           /\ q # <<>> => Honest(Tail(q), c)
           /\ q # <<>> /\ Head(q) # "C" /\ HasC(q) => HasC(Tail(q))
<1>1. Honest(<<>>, c)
  BY BoundAssumption DEF Honest
<1>2. ASSUME q # <<>> PROVE Honest(Tail(q), c)
  <2>1. /\ Len(q) \in Nat \ {0} /\ Len(Tail(q)) = Len(q) - 1
        /\ \A j \in 1 .. Len(q) - 1 : Tail(q)[j] = q[j + 1]
    BY <1>2 DEF Pipes
  <2>2. ASSUME NEW i \in 0 .. Len(q) - 1,
               \A j \in i + 1 .. Len(q) - 1 : Tail(q)[j] # "C"
        PROVE  Len(q) - (i + 1) <= MaxControl - c
    <3>1. ASSUME NEW j \in (i + 1) + 1 .. Len(q) PROVE q[j] # "C"
      <4>1. j - 1 \in i + 1 .. Len(q) - 1 /\ j - 1 \in 1 .. Len(q) - 1 /\ (j - 1) + 1 = j
        BY <2>1
      <4> QED
        BY <2>1, <2>2, <4>1
    <3>2. i + 1 \in 0 .. Len(q)
      BY <2>1
    <3> QED
      BY <3>1, <3>2 DEF Honest
  <2> QED
    BY <2>1, <2>2, BoundAssumption DEF Honest
<1>3. ASSUME q # <<>>, Head(q) # "C", HasC(q) PROVE HasC(Tail(q))
  <2>1. /\ Len(q) \in Nat \ {0} /\ Len(Tail(q)) = Len(q) - 1
        /\ \A j \in 1 .. Len(q) - 1 : Tail(q)[j] = q[j + 1]
        /\ DOMAIN q = 1 .. Len(q) /\ DOMAIN Tail(q) = 1 .. Len(q) - 1
        /\ Head(q) = q[1]
    BY <1>3 DEF Pipes
  <2>2. PICK j \in 1 .. Len(q) : q[j] = "C"
    BY <1>3, <2>1 DEF HasC
  <2>3. j # 1
    BY <1>3, <2>1, <2>2
  <2>4. j - 1 \in 1 .. Len(q) - 1 /\ (j - 1) + 1 = j
    BY <2>1, <2>3
  <2> QED
    BY <2>1, <2>2, <2>4 DEF HasC
<1> QED
  BY <1>1, <1>2, <1>3

(* sig_handler: a 'C' is written unless the socket is full, and a command  *)
(* counts for one more of the operator's.                                  *)
LEMMA PutHonest ==
    ASSUME pipe \in Pipes, control \in 0 .. MaxControl, Honest(pipe, control)
    PROVE  /\ Honest(Put("C"), control)
           /\ Room => HasC(Put("C"))
           /\ ~Room => Put("C") = pipe
           /\ ~Room /\ ~HasC(pipe) => MaxControl >= PipeCap
           /\ \A c \in Commands : /\ control > 0 => Honest(Put(c), control - 1)
                                  /\ HasC(pipe) => HasC(Put(c))
<1>1. pipe \in Seq(Commands \cup {"C"}) /\ Len(pipe) \in Nat /\ DOMAIN pipe = 1 .. Len(pipe)
  BY DEF Pipes
<1>2. ASSUME NEW x \in Commands \cup {"C"}
      PROVE  /\ Len(Append(pipe, x)) = Len(pipe) + 1
             /\ DOMAIN Append(pipe, x) = 1 .. Len(pipe) + 1
             /\ \A j \in 1 .. Len(pipe) : Append(pipe, x)[j] = pipe[j]
             /\ Append(pipe, x)[Len(pipe) + 1] = x
  BY <1>1
<1>3. Honest(Append(pipe, "C"), control)
  <2>1. ASSUME NEW i \in 0 .. Len(pipe) + 1,
               \A j \in i + 1 .. Len(pipe) + 1 : Append(pipe, "C")[j] # "C"
        PROVE  (Len(pipe) + 1) - i <= MaxControl - control
    <3>1. i = Len(pipe) + 1
      BY <1>1, <1>2, <2>1
    <3> QED
      BY <1>1, <3>1, BoundAssumption
  <2> QED
    BY <1>2, <2>1 DEF Honest
<1>4. HasC(Append(pipe, "C"))
  <2>1. Len(pipe) + 1 \in 1 .. Len(pipe) + 1
    BY <1>1
  <2> QED
    BY <1>2, <2>1 DEF HasC
<1>5. ASSUME ~Room, ~HasC(pipe) PROVE MaxControl >= PipeCap
  <2>1. Len(pipe) >= PipeCap
    BY <1>1, <1>5, BoundAssumption DEF Room
  <2>2. \A j \in 0 + 1 .. Len(pipe) : pipe[j] # "C"
    BY <1>1, <1>5 DEF HasC
  <2>3. Len(pipe) - 0 <= MaxControl - control
    BY <1>1, <2>2 DEF Honest
  <2> QED
    BY <1>1, <2>1, <2>3, BoundAssumption
<1>6. ASSUME NEW c \in Commands, control > 0 PROVE Honest(Put(c), control - 1)
  <2>1. c # "C"
    BY CommandAssumption
  <2>2. ASSUME NEW i \in 0 .. Len(pipe) + 1,
               \A j \in i + 1 .. Len(pipe) + 1 : Append(pipe, c)[j] # "C"
        PROVE  (Len(pipe) + 1) - i <= MaxControl - (control - 1)
    <3>1. CASE i = Len(pipe) + 1
      BY <1>1, <1>6, <3>1, BoundAssumption
    <3>2. CASE i # Len(pipe) + 1
      <4>1. i \in 0 .. Len(pipe)
        BY <1>1, <3>2
      <4>2. \A j \in i + 1 .. Len(pipe) : pipe[j] # "C"
        BY <1>1, <1>2, <2>2
      <4>3. Len(pipe) - i <= MaxControl - control
        BY <4>1, <4>2 DEF Honest
      <4> QED
        BY <1>1, <4>1, <4>3, BoundAssumption
    <3> QED
      BY <3>1, <3>2
  <2>3. Honest(Append(pipe, c), control - 1)
    BY <1>2, <2>2 DEF Honest
  <2>4. Honest(pipe, control - 1)
    BY <1>1, BoundAssumption DEF Honest
  <2> QED
    BY <2>3, <2>4 DEF Put
<1>7. ASSUME NEW c \in Commands, HasC(pipe) PROVE HasC(Put(c))
  <2>1. HasC(Append(pipe, c))
    BY <1>1, <1>2, <1>7 DEF HasC
  <2> QED
    BY <1>7, <2>1 DEF Put
<1> QED
  BY <1>3, <1>4, <1>5, <1>6, <1>7 DEF Put

(* A step that makes nobody reapable and takes back no notice keeps it.    *)
LEMMA QuietNoticing ==
    ASSUME TypeOK, Noticing,
           \A p \in Pid : life'[p] \in Dead \cup {"stopped"}
                             => life[p] \in Dead \cup {"stopped"},
           UNCHANGED <<chld, overrun>>,
           HasC(pipe) => HasC(pipe'), Honest(pipe', control'),
           pc \in {"bury", "refill"} => pc' \in {"bury", "refill"}
    PROVE  Noticing'
  BY DEF Noticing, Reapable, TypeOK

(* Signals kill nobody on the spot and stop nobody; and when nobody is     *)
(* left the master ends with an empty socket.                              *)
LEMMA ActionNextNoticing ==
    ASSUME IInv, IInv', Noticing,
           NEW st \in States \ {"NORMAL"}, NEW sent \in Sent, NEW n \in Nat,
           NEW kids \in SUBSET Pid, NEW rest \in Pipes, NEW next,
           ActionNext(st, sent, n, kids, rest, next),
           HasC(pipe) => HasC(rest), Honest(rest, control),
           pc \in {"bury", "refill"} => next \in {"bury", "refill"},
           control' = control
    PROVE  Noticing'
<1>0. TypeOK /\ TypeOK' /\ Control' /\ Bookkeeping'
  BY DEF IInv
<1>1. CASE ActionLast(st)
  <2>1. pc' \notin Busy /\ pipe' = <<>> /\ overrun' = FALSE
    BY <1>1 DEF ActionLast, Busy
  <2>2. \A p \in Pid : life'[p] = "none"
    <3>1. (Bookkeeping /\ running_children = 0 => \A q \in Pid : life[q] = "none")'
      BY NobodyIsNone, PTL
    <3> QED
      BY <1>0, <2>1, <3>1 DEF Control
  <2>3. Honest(pipe', control')
    BY <1>0, <2>1, TailHonest DEF TypeOK, Noticing
  <2> QED
    BY <2>1, <2>2, <2>3 DEF Noticing, Reapable, Dead
<1>2. CASE ~ActionLast(st)
  <2>1. /\ KillAll(NextSignal(st, sent), kids)
        /\ pc' = next /\ pipe' = rest /\ UNCHANGED <<chld, overrun>>
    BY <1>2 DEF ActionNext
  <2>2. \A p \in Pid : life'[p] \in Dead \cup {"stopped"}
                          => life[p] \in Dead \cup {"stopped"}
    BY <2>1 DEF KillAll, LifeAfter, Dead
  <2> QED
    BY <1>0, <2>1, <2>2, QuietNoticing
<1> QED
  BY <1>1, <1>2

(* One case for each action.                                               *)
LEMMA StepNoticing ==
    ASSUME IInv, IInv', Noticing, [Next]_vars
    PROVE  Noticing'
<1>0. TypeOK /\ TypeOK' /\ Control /\ Control' /\ Bookkeeping /\ EscalationArmed
  BY DEF IInv
<1>1. pipe \in Pipes /\ control \in 0 .. MaxControl /\ Honest(pipe, control)
  BY <1>0 DEF TypeOK, Noticing
<1>a. (Bookkeeping /\ running_children = 0 => \A q \in Pid : life[q] = "none")'
  BY NobodyIsNone, PTL
<1>2. CASE PctlTimeout
  <2>1. /\ fpm_state \in States \ {"NORMAL"} /\ fpm_signal_sent \in Sent
        /\ running_children \in Nat /\ Listed \in SUBSET Pid
    BY <1>0, <1>2 DEF PctlTimeout, Control, TypeOK, Listed
  <2> QED
    BY <1>1, <1>2, <2>1, ActionNextNoticing DEF PctlTimeout
<1>3. CASE ReadSignal
  <2>1. /\ pipe # <<>> /\ control' = control /\ pc \in {"loop", "signals"}
        /\ Tail(pipe) \in Pipes /\ Honest(Tail(pipe), control)
        /\ Head(pipe) # "C" /\ HasC(pipe) => HasC(Tail(pipe))
    BY <1>1, <1>3, PipeTyping, TailHonest DEF ReadSignal
  <2>2. CASE Head(pipe) = "C"
    <3>1. /\ pc' = "bury" /\ pipe' = Tail(pipe) /\ overrun' = FALSE
      BY <1>3, <2>2 DEF ReadSignal
    <3> QED
      BY <2>1, <3>1 DEF Noticing
  <2>3. ASSUME Head(pipe) # "C",
               NEW new \in {"TERMINATING", "FINISHING", "RELOADING"},
               PctlSet(new, Tail(pipe))
        PROVE  Noticing'
    <3>1. CASE new # fpm_state /\ CanOverride(new, fpm_state)
      <4>1. ActionNext(new, "none", running_children, Listed, Tail(pipe), "signals")
        BY <2>3, <3>1 DEF PctlSet
      <4>2. /\ new \in States \ {"NORMAL"} /\ "none" \in Sent
            /\ running_children \in Nat /\ Listed \in SUBSET Pid
        BY <1>0 DEF States, Sent, TypeOK, Listed
      <4> QED
        BY <2>1, <2>3, <4>1, <4>2, ActionNextNoticing
    <3>2. CASE ~(new # fpm_state /\ CanOverride(new, fpm_state))
      <4>1. /\ pc' = "signals" /\ pipe' = Tail(pipe)
            /\ UNCHANGED <<chld, overrun, life>>
        BY <2>3, <3>2 DEF PctlSet, procs
      <4> QED
        BY <1>0, <2>1, <2>3, <4>1, QuietNoticing
    <3> QED
      BY <3>1, <3>2
  <2>4. CASE Head(pipe) = "1"
    <3>1. pc' = "signals" /\ pipe' = Tail(pipe) /\ UNCHANGED <<chld, overrun, life>>
      BY <1>3, <2>4 DEF ReadSignal, procs
    <3> QED
      BY <1>0, <2>1, <2>4, <3>1, QuietNoticing
  <2> QED
    BY <1>3, <2>2, <2>3, <2>4 DEF ReadSignal
<1>4. ASSUME NEW p \in Pid, ReapDead(p) PROVE Noticing'
  <2>1. control' = control
    BY <1>4 DEF ReapDead
  <2>2. CASE ActionLast(fpm_state)
    <3>1. pc' \notin Busy /\ pipe' = <<>> /\ overrun' = FALSE
      BY <2>2 DEF ActionLast, Busy
    <3> QED
      BY <1>0, <1>1, <1>a, <2>1, <3>1, TailHonest DEF IInv, Control, Noticing, Reapable, Dead
  <2>3. CASE ActionNext("RELOADING", "none", running_children - 1, Listed \ {p},
                        pipe, "refill")
    <3>1. running_children - 1 \in Nat
      BY <1>0, <1>4 DEF ReapDead, Unlink, TypeOK
    <3>2. "RELOADING" \in States \ {"NORMAL"} /\ "none" \in Sent /\ Listed \ {p} \in SUBSET Pid
      BY DEF States, Sent, Listed
    <3> QED
      BY <1>1, <2>1, <2>3, <3>1, <3>2, ActionNextNoticing
  <2>4. CASE pc' = "refill" /\ UNCHANGED <<pipe, overrun>>
    BY <2>1, <2>4 DEF Noticing
  <2> QED
    BY <1>4, <2>2, <2>3, <2>4 DEF ReapDead, inbox
<1>5. CASE NoneToReap
  <2>1. ~Reapable' /\ UNCHANGED <<pipe, overrun, control>>
    BY <1>5 DEF NoneToReap, Reapable, procs, inbox
  <2> QED
    BY <2>1 DEF Noticing
<1>6. CASE ForkFails \/ Filled
  <2>1. /\ pc \in {"create", "refill"} /\ (pc = "refill" => pc' = "bury")
        /\ UNCHANGED <<pipe, chld, overrun, life, control>>
    BY <1>6 DEF ForkFails, Filled, Wanted, Made, inbox, procs
  <2> QED
    BY <1>0, <1>1, <2>1, QuietNoticing
<1>7. CASE SigChld
  <2>1. /\ pipe' = Put("C") /\ overrun' = (overrun \/ (~Room /\ ~HasC(pipe)))
        /\ UNCHANGED control
    BY <1>7 DEF SigChld
  <2>2. Honest(pipe', control')
    BY <1>1, <2>1, PutHonest
  <2>3. overrun' => MaxControl >= PipeCap
    BY <1>1, <2>1, PutHonest DEF Noticing
  <2>4. HasC(pipe') \/ overrun'
    BY <1>1, <2>1, PutHonest
  <2> QED
    BY <2>2, <2>3, <2>4 DEF Noticing
<1>8. CASE Heartbeat
  <2>1. PICK slow \in SUBSET {p \in Listed : life[p] = "ready"},
             late \in SUBSET {p \in Listed : life[p] \in {"ready", "stopped", "traced"}} :
        \E caught \in SUBSET late :
          /\ life' = [p \in Pid |->
                IF p \in slow THEN "stopped"
                ELSE IF p \in late THEN LifeAfter(life[p], "SIGTERM", p \in caught)
                ELSE life[p]]
          /\ chld' = (chld \/ slow # {})
    BY <1>8 DEF Heartbeat
  <2>2. UNCHANGED <<pc, pipe, overrun, control>>
    BY <1>8 DEF Heartbeat, master
  <2>3. CASE slow # {}
    BY <1>1, <2>1, <2>2, <2>3 DEF Noticing
  <2>4. CASE slow = {}
    <3>1. \A p \in Pid : life'[p] \in Dead \cup {"stopped"}
                            => life[p] \in Dead \cup {"stopped"}
      BY <2>1, <2>4 DEF LifeAfter, Dead
    <3>2. chld' = chld
      BY <1>0, <2>1, <2>4 DEF TypeOK
    <3> QED
      BY <1>0, <1>1, <2>2, <3>1, <3>2, QuietNoticing
  <2> QED
    BY <2>3, <2>4
<1>9. ASSUME NEW p \in Pid, ReapStopped(p) PROVE Noticing'
  BY <1>9 DEF ReapStopped, master, Noticing
<1>10. ASSUME NEW p \in Pid, Exit(p) \/ Die(p) PROVE Noticing'
  BY <1>10 DEF Exit, Die, master, Noticing
<1>11. ASSUME NEW p \in Pid, Fork(p) \/ Boot(p) PROVE Noticing'
  <2>1. /\ UNCHANGED <<pc, pipe, chld, overrun, control>>
        /\ \E l \in {"booting", "ready"} : life' = [life EXCEPT ![p] = l]
    BY <1>11 DEF Fork, Boot, master, inbox
  <2>2. \A q \in Pid : life'[q] \in Dead \cup {"stopped"} => life[q] \in Dead \cup {"stopped"}
    BY <1>0, <2>1 DEF Dead, TypeOK
  <2> QED
    BY <1>0, <1>1, <2>1, <2>2, QuietNoticing
<1>12. ASSUME NEW c \in Commands, Operator(c) PROVE Noticing'
  <2>1. /\ control > 0 /\ control' = control - 1
        /\ UNCHANGED <<chld, overrun, life>>
        /\ \/ pipe' = Put(c) /\ pc' = pc
           \/ pipe' = pipe /\ pc = "init"
    BY <1>12 DEF Operator, procs
  <2>2. Honest(pipe', control') /\ (HasC(pipe) => HasC(pipe'))
    <3>1. Honest(pipe, control - 1)
      BY <1>1, BoundAssumption DEF Honest, Pipes
    <3> QED
      BY <1>1, <2>1, <3>1, PutHonest
  <2> QED
    BY <1>0, <2>1, <2>2, QuietNoticing
<1>13. CASE Start \/ StartFails \/ Drained
  BY <1>0, <1>1, <1>13, QuietNoticing DEF Start, StartFails, Drained, inbox, procs
<1>14. CASE UNCHANGED vars
  BY <1>0, <1>1, <1>14, QuietNoticing DEF vars, master, inbox, procs
<1> QED
  BY <1>2, <1>3, <1>4, <1>5, <1>6, <1>7, <1>8, <1>9, <1>10, <1>11, <1>12, <1>13,
     <1>14 DEF Next, MasterStep, Reap, Make, Done

(* No death and no stop is lost: however SIGCHLDs merge, and whatever they *)
(* interrupt, something will make the master call waitpid, unless the      *)
(* operator alone has filled the socket.                                   *)
THEOREM EveryDeathNoticed == Spec => []NoLostReap
<1>1. Init => Noticing
  <2> SUFFICES ASSUME Init PROVE Noticing
    OBVIOUS
  <2>1. ~Reapable /\ ~overrun
    BY DEF Init, Reapable, Dead
  <2>2. Honest(pipe, control)
    BY BoundAssumption DEF Init, Honest
  <2> QED
    BY <2>1, <2>2 DEF Noticing
<1>2. IInv /\ IInv' /\ Noticing /\ [Next]_vars => Noticing'
  BY StepNoticing
<1>3. Noticing => NoLostReap
  BY DEF Noticing, Reapable, NoLostReap
<1> QED
  BY <1>1, <1>2, <1>3, Inductive, PTL DEF Spec

-----------------------------------------------------------------------------
(* The master implements Supervisor.                                       *)

Crew == [w \in Pools |-> Children(w)]

(* The crews are the children of the lists, pool by pool.                  *)
LEMMA CrewsAreLists ==
    ASSUME TypeOK
    PROVE  /\ Crew = [w \in Pools |-> {}] <=> Listed = {}
           /\ UNION {Crew[w] : w \in Pools} = Listed
<1>1. \A p \in Listed : wp[p] \in Pools /\ p \in Children(wp[p])
  BY DEF TypeOK, Listed, Children
<1>2. \A w \in Pools : Crew[w] = Children(w) /\ Children(w) \subseteq Listed
  BY PoolAssumption DEF Crew, Children, Listed
<1>3. UNION {Crew[w] : w \in Pools} = Listed
  BY <1>1, <1>2
<1>4. ASSUME Listed = {} PROVE Crew = [w \in Pools |-> {}]
  BY <1>2, <1>4 DEF Crew
<1>5. ASSUME Crew = [w \in Pools |-> {}] PROVE Listed = {}
  BY <1>1, <1>2, <1>5
<1> QED
  BY <1>3, <1>4, <1>5

(* A step that leaves the state and the lists alone, and does not take the *)
(* master into or out of its service, is one its users do not see.         *)
LEMMA Unseen ==
    ASSUME UNCHANGED <<fpm_state, wp>>,
           pc' = pc \/ {pc, pc'} \subseteq Busy
    PROVE  UNCHANGED Abstract!vars
<1>1. Phase' = Phase
  BY DEF Phase, Busy
<1>2. \A w : Children(w)' = Children(w)
  BY DEF Children
<1> QED
  BY <1>1, <1>2 DEF Abstract!vars

(* fpm_pctl_action_next in a state that asks for an end settles: the       *)
(* master ends or is replaced at once if nobody is left, and else goes on. *)
LEMMA ActionNextSettles ==
    ASSUME NEW st \in States \ {"NORMAL"}, NEW sent, NEW n, NEW kids, NEW rest,
           NEW next \in Busy,
           ActionNext(st, sent, n, kids, rest, next),
           NEW c, c = Crew', n = 0 <=> c = [w \in Pools |-> {}]
    PROVE  Abstract!Settle(st, c)
<1>1. CASE n = 0
  <2>1. /\ \/ st = "RELOADING" /\ pc' = "init" /\ fpm_state' = "NORMAL"
           \/ pc' = "failed" /\ fpm_state' = st
           \/ pc' = "exited" /\ fpm_state' = st
    BY <1>1 DEF ActionNext, ActionLast
  <2>2. /\ pc' = "init" => Phase' = "starting"
        /\ pc' \in {"failed", "exited"} => Phase' = "down"
    BY DEF Phase, Busy
  <2> QED
    BY <1>1, <2>1, <2>2 DEF Abstract!Settle, Abstract!Nobody, Crew
<1>2. CASE n # 0
  <2>1. pc' = next /\ fpm_state' = st /\ Phase' = "up"
    BY <1>2 DEF ActionNext, Phase, Busy
  <2> QED
    BY <1>2, <2>1 DEF Abstract!Settle, Abstract!Nobody, Crew
<1> QED
  BY <1>1, <1>2

(* The operator's signals                                                  *)
LEMMA CommandStep ==
    ASSUME IInv, NEW new \in {"TERMINATING", "FINISHING", "RELOADING"}, NEW rest,
           pc \in Busy, PctlSet(new, rest), wp' = wp
    PROVE  (\E g \in Abstract!Goals : Abstract!Command(g)) \/ UNCHANGED Abstract!vars
<1>1. CASE new # fpm_state /\ CanOverride(new, fpm_state)
  <2>1. ActionNext(new, "none", running_children, Listed, rest, "signals")
    BY <1>1 DEF PctlSet
  <2>2. running_children = 0 <=> Crew = [w \in Pools |-> {}]
    BY CrewsAreLists, FiniteLists, FS_EmptySet DEF IInv, Bookkeeping
  <2>3. Crew' = Crew
    BY DEF Crew, Children
  <2>4. Abstract!Settle(new, Crew)
    BY <2>1, <2>2, <2>3, ActionNextSettles DEF States, Busy
  <2>5. Phase = "up"
    BY DEF Phase, Busy
  <2>6. Abstract!Overrides(new, fpm_state)
    BY <1>1 DEF CanOverride, Abstract!Overrides
  <2>7. new \in Abstract!Goals
    BY DEF Abstract!Goals
  <2> QED
    BY <2>4, <2>5, <2>6, <2>7 DEF Abstract!Command, Crew
<1>2. CASE ~(new # fpm_state /\ CanOverride(new, fpm_state))
  BY <1>2, Unseen DEF PctlSet, Busy
<1> QED
  BY <1>1, <1>2

(* A death is a loss, and a conclusion if it was the last.                 *)
LEMMA LoseStep ==
    ASSUME IInv, IInv', NEW p \in Pid, ReapDead(p)
    PROVE  \E w \in Pools : Abstract!Lose(w, p)
<1> DEFINE n == running_children - 1
<1>1. /\ pc = "bury" /\ life[p] # "none" /\ p \in Pid
      /\ wp' = [wp EXCEPT ![p] = NoPool] /\ running_children' = n
      /\ wp[p] \in Pools
  BY DEF ReapDead, Dead, Unlink, IInv, TypeOK, Bookkeeping
<1>2. p \in Crew[wp[p]] /\ Crew' = [Crew EXCEPT ![wp[p]] = @ \ {p}]
  <2>1. p \in Children(wp[p])
    BY DEF Children
  <2>2. \A w \in Pools : Children(w)' = IF w = wp[p] THEN Children(w) \ {p} ELSE Children(w)
    BY <1>1, PoolAssumption DEF Children, IInv, TypeOK
  <2> QED
    BY <1>1, <2>1, <2>2 DEF Crew
<1>3. n = 0 <=> Crew' = [w \in Pools |-> {}]
  <2>1. (TypeOK => (Crew = [w \in Pools |-> {}] <=> Listed = {}))'
    BY CrewsAreLists, PTL
  <2>2. (IsFiniteSet(Listed))'
    BY FiniteLists, PTL
  <2> QED
    BY <1>1, <2>1, <2>2, FS_EmptySet DEF IInv, Bookkeeping
<1>4. Phase = "up"
  BY <1>1 DEF Phase, Busy
<1> HIDE DEF n
<1>5. \E g \in {fpm_state} \cup (IF fpm_state = "NORMAL" THEN {"RELOADING"} ELSE {}) :
         Abstract!Settle(g, Crew')
  <2>1. CASE fpm_state # "NORMAL" /\ n = 0
    <3>1. ActionNext(fpm_state, "none", n, Listed \ {p}, pipe, "refill")
      BY <2>1 DEF ReapDead, LastGone, n, ActionNext
    <3> QED
      BY <1>3, <2>1, <3>1, ActionNextSettles DEF Busy, IInv, TypeOK
  <2>2. CASE /\ fpm_state = "NORMAL"
             /\ ActionNext("RELOADING", "none", n, Listed \ {p}, pipe, "refill")
    <3>1. Abstract!Settle("RELOADING", Crew')
      BY <1>3, <2>2, ActionNextSettles DEF Busy, States
    <3> QED
      BY <2>2, <3>1
  <2>3. CASE ~(fpm_state # "NORMAL" /\ n = 0) /\ pc' = "refill" /\ fpm_state' = fpm_state
    <3>1. Phase' = "up"
      BY <2>3 DEF Phase, Busy
    <3> QED
      BY <1>3, <2>3, <3>1 DEF Abstract!Settle, Abstract!Nobody, Crew
  <2> QED
    BY <2>1, <2>2, <2>3 DEF ReapDead, LastGone, n
<1> QED
  BY <1>1, <1>2, <1>4, <1>5, ZenonT(60) DEF Abstract!Lose, Crew

(* A fork hires, and only for a pool with a place.                         *)
LEMMA HireStep ==
    ASSUME IInv, NEW p \in Pid, Fork(p)
    PROVE  \E w \in Pools : Abstract!Hire(w, p)
<1>1. /\ pc \in {"create", "refill"} /\ fpm_state = "NORMAL" /\ cur \in Pools
      /\ wp[p] = NoPool /\ running[cur] < MaxChildren[cur]
      /\ wp' = [wp EXCEPT ![p] = cur] /\ UNCHANGED <<pc, fpm_state>>
  BY DEF Fork, Wanted, Link, master, IInv, Control, Bookkeeping
<1>2. \A w \in Pools : Children(w)' = IF w = cur THEN Children(w) \cup {p} ELSE Children(w)
  BY <1>1, PoolAssumption DEF Children, IInv, TypeOK
<1>3. Crew' = [Crew EXCEPT ![cur] = @ \cup {p}]
  BY <1>1, <1>2 DEF Crew
<1>4. p \notin UNION {Crew[w] : w \in Pools}
  BY <1>1, CrewsAreLists DEF IInv, Listed
<1>5. Cardinality(Crew[cur]) < MaxChildren[cur]
  BY <1>1 DEF IInv, Bookkeeping, Crew
<1>6. Phase = "up" /\ Phase' = "up"
  BY <1>1 DEF Phase, Busy
<1> QED
  <2>1. p \notin Abstract!Hired
    BY <1>4 DEF Abstract!Hired, Crew
  <2>2. Abstract!Hire(cur, p)
    <3>1. Cardinality([w \in Pools |-> Children(w)][cur]) < MaxChildren[cur]
      BY <1>5 DEF Crew
    <3>2. [w \in Pools |-> Children(w)]'
             = [[w \in Pools |-> Children(w)] EXCEPT ![cur] = @ \cup {p}]
      BY <1>3 DEF Crew
    <3>3. \A S : Abstract!Cardinality(S) = Cardinality(S)
      BY DEF Abstract!Cardinality, Cardinality
    <3> QED
      BY <1>1, <1>6, <2>1, <3>1, <3>2, <3>3 DEF Abstract!Hire
  <2> QED
    BY <1>1, <2>2

(* Every step of the master is one of Supervisor or is not seen.           *)
LEMMA StepMaps ==
    ASSUME IInv, IInv', [Next]_vars
    PROVE  [Abstract!Next]_Abstract!vars
<1>1. CASE PctlTimeout
  <2>1. running_children # 0 /\ pc = "loop"
    BY <1>1 DEF PctlTimeout, IInv, EscalationArmed, Control, Busy
  <2>2. UNCHANGED <<fpm_state, wp>> /\ pc' = pc
    BY <1>1, <2>1 DEF PctlTimeout, ActionNext
  <2> QED
    BY <2>2, Unseen
<1>2. CASE ReadSignal
  <2>1. wp' = wp /\ pc \in Busy
    BY <1>2 DEF ReadSignal, Busy
  <2>2. \/ \E new \in {"TERMINATING", "FINISHING", "RELOADING"} : PctlSet(new, Tail(pipe))
        \/ pc' \in Busy /\ UNCHANGED fpm_state
    BY <1>2 DEF ReadSignal, Busy
  <2> QED
    BY <2>1, <2>2, CommandStep, Unseen DEF Abstract!Next
<1>3. ASSUME NEW p \in Pid, ReapDead(p) PROVE [Abstract!Next]_Abstract!vars
  BY <1>3, LoseStep DEF Abstract!Next
<1>4. ASSUME NEW p \in Pid, Fork(p) PROVE [Abstract!Next]_Abstract!vars
  BY <1>4, HireStep DEF Abstract!Next
<1>5. ASSUME pc = "init", pc' \in {"create", "failed", "killed"},
             UNCHANGED <<fpm_state, wp>>
      PROVE  [Abstract!Next]_Abstract!vars
  <2>1. Phase = "starting" /\ Phase' \in {"up", "down"}
    BY <1>5 DEF Phase, Busy
  <2>2. \A w : Children(w)' = Children(w)
    BY <1>5 DEF Children
  <2> QED
    BY <1>5, <2>1, <2>2 DEF Abstract!Next, Abstract!Start
<1>6. CASE Start \/ StartFails
  BY <1>5, <1>6 DEF Start, StartFails, pools
<1>7. ASSUME NEW c \in Commands, Operator(c) PROVE [Abstract!Next]_Abstract!vars
  BY <1>5, <1>7, Unseen DEF Operator, pools
<1>8. CASE Drained \/ NoneToReap \/ ForkFails \/ Filled
  <2>1. UNCHANGED <<fpm_state, wp>> /\ pc \in Busy /\ pc' \in Busy
    BY <1>8 DEF Drained, NoneToReap, ForkFails, Filled, Wanted, Made, pools, Busy
  <2> QED
    BY <2>1, Unseen
<1>9. CASE UNCHANGED <<fpm_state, wp, pc>>
  BY <1>9, Unseen
<1>10. \/ UNCHANGED <<fpm_state, wp, pc>>
       \/ PctlTimeout \/ ReadSignal \/ Start \/ StartFails
       \/ Drained \/ NoneToReap \/ ForkFails \/ Filled
       \/ \E p \in Pid : ReapDead(p) \/ Fork(p)
       \/ \E c \in Commands : Operator(c)
  BY DEF Next, MasterStep, Reap, Make, vars, master, pools, ReapStopped,
     SigChld, Heartbeat, Boot, Exit, Die, Done
<1> QED
  BY <1>1, <1>2, <1>3, <1>4, <1>6, <1>7, <1>8, <1>9, <1>10

(* The master keeps what Supervisor promises: goals are only overridden,   *)
(* workers are hired only while it serves and where there is a place, and  *)
(* it ends, or is replaced, in the very step that loses the last one.      *)
THEOREM Implements == Spec => Supervises
<1>1. Init => Abstract!Init
  <2> SUFFICES ASSUME Init PROVE Abstract!Init
    OBVIOUS
  <2>1. \A w \in Pools : Children(w) = {}
    BY PoolAssumption DEF Init, Children
  <2>2. Phase = "starting"
    BY DEF Init, Phase, Busy
  <2> QED
    BY <2>1, <2>2 DEF Init, Abstract!Init, Abstract!Nobody
<1>2. IInv /\ IInv' /\ [Next]_vars => [Abstract!Next]_Abstract!vars
  BY StepMaps
<1> QED
  BY <1>1, <1>2, Inductive, PTL DEF Spec, Supervises, Abstract!Spec

=============================================================================
