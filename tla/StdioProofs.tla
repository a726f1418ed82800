---------------------------- MODULE StdioProofs -----------------------------
(***************************************************************************)
(* Proofs about Stdio, for any number of children, descriptors and bytes.  *)
(* What the properties about descriptors need beside themselves is that    *)
(* the callback still has a descriptor as long as it reads from it, and    *)
(* that a child has none before its fork.  What the log needs, Words, is   *)
(* said at its place below: above all that the buffer has room whenever    *)
(* the callback reads, or a full buffer would look like the end.           *)
(***************************************************************************)
EXTENDS Stdio, SequenceTheorems, WellFoundedInduction, TLAPS

Types ==
    /\ stage \in [Child -> {"none", "running", "dead", "gone"}]
    /\ fd_stdout \in [Child -> Fd \cup {None}]
    /\ owner \in [Fd -> Child \cup {None}]
    /\ events \subseteq Fd \X Child
    /\ left \subseteq Child
    /\ callback \in [child : Child \cup {None}, by : {"loop", "bury"}]
    /\ fifo_in \in BOOLEAN

(* While the callback reads, its child has a descriptor to read from.      *)
ReadsOpen == ~Idle /\ fifo_in => fd_stdout[callback.child] # None

(* A child that is not forked yet has no descriptor.                       *)
UnforkedHasNone == \A c \in Child : stage[c] = "none" => fd_stdout[c] = None

IInv == Types /\ OwnDescriptor /\ EventsOwned /\ ReadsOpen /\ UnforkedHasNone

(* What an action that changes nothing the invariant mentions keeps        *)
held == <<stage, fd_stdout, owner, events, left, callback, fifo_in>>

(* Whoever keeps his descriptors keeps their owner right.                  *)
LEMMA HeldKeeps ==
    ASSUME IInv, UNCHANGED held
    PROVE  IInv'
  BY DEF IInv, held, Types, OwnDescriptor, EventsOwned, ReadsOpen,
         UnforkedHasNone, Idle

(* None is neither a descriptor nor a child.                               *)
LEMMA NoneIsOutside == None \notin Fd /\ None \notin Child
  BY NoneAssumption, SizeAssumption DEF Fd

(* At the start there is no child and no event.                            *)
LEMMA InitHolds == Init => IInv
  <1> SUFFICES ASSUME Init PROVE IInv
    OBVIOUS
  <1>1. Types
    BY DEF Init, Types
  <1>2. OwnDescriptor
    BY NoneIsOutside DEF Init, OwnDescriptor
  <1>3. EventsOwned /\ ReadsOpen /\ UnforkedHasNone
    BY DEF Init, EventsOwned, ReadsOpen, UnforkedHasNone, Idle
  <1> QED
    BY <1>1, <1>2, <1>3 DEF IInv

(* A descriptor nobody owns goes to a child that had none.                 *)
LEMMA ForkHolds ==
    ASSUME IInv, NEW c \in Child, NEW fd \in Fd, Fork(c, fd)
    PROVE  IInv'
  <1>1. fd_stdout[c] = None /\ fd # None
    BY NoneIsOutside DEF IInv, UnforkedHasNone, Fork
  <1>2. Types'
    BY DEF IInv, Types, Fork, locals, history
  <1>3. OwnDescriptor'
    BY <1>1, NoneIsOutside DEF IInv, Types, OwnDescriptor, Fork
  <1>4. EventsOwned'
    <2> SUFFICES ASSUME NEW e \in events'
                 PROVE  fd_stdout'[e[2]] = e[1] \/ e[2] \in left'
      BY DEF EventsOwned
    <2>1. CASE e = <<fd, c>>
      BY <2>1 DEF IInv, Types, Fork
    <2>2. CASE e \in events
      <3>1. e[1] \in Fd /\ e[2] \in Child
        BY <2>2 DEF IInv, Types
      <3>2. fd_stdout[e[2]] = e[1] \/ e[2] \in left
        BY <2>2 DEF IInv, EventsOwned
      <3>3. e[2] # c \/ e[2] \in left
        BY <1>1, <3>1, <3>2, NoneIsOutside
      <3> QED
        BY <3>1, <3>2, <3>3 DEF IInv, Types, Fork, history
    <2> QED
      BY <2>1, <2>2 DEF Fork
  <1>5. ReadsOpen' /\ UnforkedHasNone'
    BY DEF IInv, Types, ReadsOpen, UnforkedHasNone, Fork, locals, Idle
  <1> QED
    BY <1>2, <1>3, <1>4, <1>5 DEF IInv

(* A process changes its stage and nothing else: no fork, no descriptor.   *)
LEMMA StageHolds ==
    ASSUME IInv, NEW c \in Child, NEW s \in {"dead", "gone"},
           stage' = [stage EXCEPT ![c] = s],
           UNCHANGED <<fd_stdout, owner, events, left, callback, fifo_in>>
    PROVE  IInv'
  BY DEF IInv, Types, OwnDescriptor, EventsOwned, ReadsOpen,
         UnforkedHasNone, Idle

(* The callback is called for a child that has a descriptor.               *)
LEMMA CallHolds ==
    ASSUME IInv, NEW c \in Child, NEW by \in {"loop", "bury"},
           fd_stdout[c] # None, Call(c, by)
    PROVE  IInv'
  BY DEF IInv, Types, OwnDescriptor, EventsOwned, ReadsOpen,
         UnforkedHasNone, Idle, Call, world, history

(* Closing the descriptor of a child that has one keeps every other        *)
(* child's, whose number it cannot be.                                     *)
LEMMA CloseKeepsOwners ==
    ASSUME Types, OwnDescriptor, NEW c \in Child, fd_stdout[c] # None,
           Close(c)
    PROVE  /\ OwnDescriptor'
           /\ fd_stdout' \in [Child -> Fd \cup {None}]
           /\ owner' \in [Fd -> Child \cup {None}]
  BY NoneIsOutside DEF Types, OwnDescriptor, Close

(* fpm_stdio_child_said keeps the invariant.                               *)
LEMMA ReadHolds ==
    ASSUME IInv, Read
    PROVE  IInv'
  <1> DEFINE c == callback.child
  <1>1. c \in Child /\ fd_stdout[c] # None /\ fifo_in
    BY DEF Read, IInv, Types, ReadsOpen, Idle
  <1>2. UNCHANGED <<stage, callback, left>>
    BY DEF Read, world, history
  <1>3. CASE UNCHANGED <<fd_stdout, owner, events>> /\ fifo_in' = fifo_in
    BY <1>2, <1>3, HeldKeeps DEF held
  <1>4. CASE UNCHANGED <<fd_stdout, owner, events>> /\ fifo_in' = FALSE
    BY <1>2, <1>4 DEF IInv, Types, OwnDescriptor, EventsOwned, ReadsOpen,
                      UnforkedHasNone, Idle
  <1>5. CASE CloseAtEof(c) /\ fifo_in' = FALSE
    <2>1. Types' /\ OwnDescriptor'
      BY <1>1, <1>2, <1>5, CloseKeepsOwners DEF IInv, Types, CloseAtEof
    <2>2. EventsOwned'
      <3> SUFFICES ASSUME NEW e \in events'
                   PROVE  fd_stdout'[e[2]] = e[1] \/ e[2] \in left'
        BY DEF EventsOwned
      <3>1. e \in events /\ e # <<fd_stdout[c], c>>
        BY <1>5 DEF CloseAtEof
      <3>2. e[2] \in Child /\ e = <<e[1], e[2]>>
        BY <3>1 DEF IInv, Types
      <3>3. fd_stdout[e[2]] = e[1] \/ e[2] \in left
        BY <3>1 DEF IInv, EventsOwned
      <3>4. CASE e[2] = c
        BY <1>2, <3>1, <3>2, <3>3, <3>4
      <3>5. CASE e[2] # c
        BY <1>1, <1>2, <1>5, <3>2, <3>3, <3>5
        DEF CloseAtEof, Close, IInv, Types
      <3> QED
        BY <3>4, <3>5
    <2>3. ReadsOpen' /\ UnforkedHasNone'
      BY <1>1, <1>2, <1>5
      DEF CloseAtEof, Close, IInv, Types, ReadsOpen, UnforkedHasNone
    <2> QED
      BY <2>1, <2>2, <2>3 DEF IInv
  <1> QED
    BY <1>3, <1>4, <1>5 DEF Read

(* At the burial a descriptor is closed that may still have its event.     *)
LEMMA ReturnBuryHolds ==
    ASSUME IInv, ReturnBury
    PROVE  IInv'
  <1> DEFINE c == callback.child
  <1>1. c \in Child /\ ~fifo_in /\ fifo_in' = fifo_in /\ events' = events
    BY DEF ReturnBury, Finished, Idle, IInv, Types
  <1>2. /\ stage' = [stage EXCEPT ![c] = "gone"]
        /\ callback' = [child |-> None, by |-> "loop"]
    BY DEF ReturnBury
  <1>3. ReadsOpen'
    BY <1>2 DEF ReadsOpen, Idle
  <1>4. CASE fd_stdout[c] = None
    BY <1>1, <1>2, <1>3, <1>4
    DEF ReturnBury, IInv, Types, OwnDescriptor, EventsOwned, UnforkedHasNone
  <1>5. CASE fd_stdout[c] # None
    <2>1. Close(c) /\ left' = left \cup {c}
      BY <1>5 DEF ReturnBury
    <2>2. Types' /\ OwnDescriptor'
      BY <1>1, <1>2, <1>5, <2>1, CloseKeepsOwners DEF IInv, Types
    <2>3. EventsOwned'
      BY <1>1, <2>1 DEF Close, IInv, Types, EventsOwned
    <2>4. UnforkedHasNone'
      BY <1>1, <1>2, <2>1 DEF Close, IInv, Types, UnforkedHasNone
    <2> QED
      BY <1>3, <2>2, <2>3, <2>4 DEF IInv
  <1> QED
    BY <1>4, <1>5

(* Every step keeps it.                                                    *)
LEMMA StepHolds == IInv /\ [Next]_vars => IInv'
  <1> SUFFICES ASSUME IInv, [Next]_vars
               PROVE  IInv'
    OBVIOUS
  <1>1. ASSUME NEW c \in Child, NEW fd \in Fd, Fork(c, fd)
        PROVE  IInv'
    BY <1>1, ForkHolds
  <1>2. ASSUME NEW c \in Child, NEW b \in Byte, Write(c, b)
        PROVE  IInv'
    BY <1>2, HeldKeeps DEF Write, held, world, locals
  <1>3. ASSUME NEW c \in Child, Beget(c) \/ HeirEnds(c)
        PROVE  IInv'
    BY <1>3, HeldKeeps DEF Beget, HeirEnds, held, locals, history
  <1>4. ASSUME NEW c \in Child, Die(c) \/ BuryClosed(c)
        PROVE  IInv'
    BY <1>4, StageHolds DEF Die, BuryClosed, locals, history
  <1>5. ASSUME NEW c \in Child, Ready(c)
        PROVE  IInv'
    <2>1. fd_stdout[c] # None
      BY <1>5, NoneIsOutside DEF Ready, IInv, Types
    <2> QED
      BY <1>5, <2>1, CallHolds DEF Ready
  <1>6. ASSUME NEW c \in Child, BuryOpen(c)
        PROVE  IInv'
    BY <1>6, CallHolds DEF BuryOpen
  <1>7. CASE SkipRead \/ Said
    BY <1>7, HeldKeeps DEF SkipRead, Said, held, world, history
  <1>8. CASE Return
    BY <1>8 DEF Return, Finished, IInv, Types, OwnDescriptor, EventsOwned,
                ReadsOpen, UnforkedHasNone, Idle, world, history
  <1>9. CASE UNCHANGED vars
    BY <1>9, HeldKeeps DEF vars, held, world, locals, history
  <1> QED
    BY <1>1, <1>2, <1>3, <1>4, <1>5, <1>6, <1>7, <1>8, <1>9, ReadHolds,
       ReturnBuryHolds
    DEF Next

(* It is an invariant.                                                     *)
LEMMA Invariance == Spec => []IInv
  BY InitHolds, StepHolds, PTL DEF Spec

(* For any number of children and descriptors a child's descriptor is its  *)
(* own until it is -1, and then it is closed: the callback and             *)
(* fpm_child_close never close one twice, and lose none.                   *)
THEOREM DescriptorsOwned == Spec => []OwnDescriptor
  <1>1. IInv => OwnDescriptor
    BY DEF IInv
  <1> QED
    BY <1>1, Invariance, PTL

(* No event outlives its child or its descriptor, except those of children *)
(* that were buried while another process held their pipe.                 *)
THEOREM EventsFollowChildren == Spec => []EventsOwned
  <1>1. IInv => EventsOwned
    BY DEF IInv
  <1> QED
    BY <1>1, Invariance, PTL

-----------------------------------------------------------------------------
(* What is said: the log, the buffer and the pipe.                         *)

(* A set of natural numbers has a least one: what Min of FiniteSetsExt is. *)
LEMMA MinIs ==
    ASSUME NEW S \in SUBSET Nat, S # {}
    PROVE  Min(S) \in S /\ \A k \in S : Min(S) <= k
  <1> DEFINE R == OpToRel(<, Nat)
  <1>1. IsWellFoundedOn(R, Nat)
    BY NatLessThanWellFounded
  <1>2. R = {x \in Nat \X Nat : x[1] < x[2]}
    BY DEF OpToRel
  <1> HIDE DEF R
  <1>3. PICK m \in S : \A k \in S : <<k, m>> \notin R
    BY <1>1, WFMin
  <1>4. ASSUME NEW k \in S, k < m
        PROVE  FALSE
    <2>1. <<k, m>> \in Nat \X Nat /\ <<k, m>>[1] < <<k, m>>[2]
      BY <1>4
    <2> QED
      BY <1>2, <1>3, <2>1
  <1>5. \A k \in S : m <= k
    BY <1>4
  <1> QED
    BY <1>3, <1>5 DEF Min

(* Upto ends before the first b, or is all there is.                       *)
LEMMA UptoIs ==
    ASSUME NEW T, NEW s \in Seq(T), NEW b
    PROVE  /\ Upto(s, b) \in Seq(T)
           /\ \/ /\ \A n \in 1 .. Len(s) : s[n] # b
                 /\ Upto(s, b) = s
              \/ \E k \in 1 .. Len(s) :
                    /\ s[k] = b /\ Upto(s, b) = SubSeq(s, 1, k - 1)
                    /\ Len(Upto(s, b)) = k - 1
                    /\ \A n \in 1 .. k - 1 : Upto(s, b)[n] = s[n]
  <1>1. DOMAIN s = 1 .. Len(s) /\ Len(s) \in Nat
    OBVIOUS
  <1>2. CASE \A n \in 1 .. Len(s) : s[n] # b
    BY <1>1, <1>2 DEF Upto
  <1>3. CASE \E n \in 1 .. Len(s) : s[n] = b
    <2> DEFINE I == {n \in 1 .. Len(s) : s[n] = b}
    <2>1. I \in SUBSET Nat /\ I # {}
      BY <1>1, <1>3
    <2>2. SelectInSeq(s, LAMBDA x : x = b) = Min(I)
      BY <2>1 DEF SelectInSeq
    <2>3. Upto(s, b) = SubSeq(s, 1, Min(I) - 1)
      BY <1>1, <1>3, <2>2 DEF Upto
    <2>4. Min(I) \in I
      BY <2>1, MinIs
    <2>5. PICK k \in 1 .. Len(s) : k = Min(I) /\ s[k] = b
      BY <2>4
    <2>6. \A n \in 1 .. k - 1 : s[n] \in T
      BY <1>1, <2>5
    <2>7. /\ SubSeq(s, 1, k - 1) \in Seq(T) /\ Len(SubSeq(s, 1, k - 1)) = k - 1
          /\ \A n \in 1 .. k - 1 : SubSeq(s, 1, k - 1)[n] = s[n]
      <3>1. k - 1 \in Nat
        BY <1>1, <2>5
      <3>2. \A n \in 1 .. (k - 1) - 1 + 1 : SubSeq(s, 1, k - 1)[n] = s[1 + n - 1]
        BY <2>6, <3>1, SubSeqProperties
      <3>3. SubSeq(s, 1, k - 1) \in Seq(T) /\ Len(SubSeq(s, 1, k - 1)) = k - 1
        BY <2>6, <3>1, SubSeqProperties
      <3> QED
        BY <3>1, <3>2, <3>3
    <2> HIDE DEF I
    <2> QED
      BY <2>3, <2>5, <2>7
  <1> QED
    BY <1>2, <1>3

(* What has been split is whole when put together.                         *)
LEMMA Split ==
    ASSUME NEW T, NEW s \in Seq(T), NEW k \in 0 .. Len(s)
    PROVE  /\ SubSeq(s, 1, k) \in Seq(T) /\ SubSeq(s, k + 1, Len(s)) \in Seq(T)
           /\ Len(SubSeq(s, 1, k)) = k
           /\ SubSeq(s, 1, k) \o SubSeq(s, k + 1, Len(s)) = s
  <1>1. Len(s) \in Nat /\ \A n \in 1 .. Len(s) : s[n] \in T
    OBVIOUS
  <1>2. SubSeq(s, 1, k) \in Seq(T) /\ Len(SubSeq(s, 1, k)) = k
    BY <1>1, SubSeqProperties
  <1>3. SubSeq(s, k + 1, Len(s)) \in Seq(T)
    <2>1. k + 1 \in Int /\ \A n \in k + 1 .. Len(s) : s[n] \in T
      BY <1>1
    <2> QED
      BY <1>1, <2>1, SubSeqProperties
  <1>4. SubSeq(s, 1, k) \o SubSeq(s, k + 1, Len(s)) = SubSeq(s, 1, Len(s))
    <2>1. 1 \in 1 .. Len(s) + 1 /\ k \in 1 - 1 .. Len(s) /\ Len(s) \in k .. Len(s)
      BY <1>1
    <2> QED
      BY <2>1, ConcatAdjacentSubSeq
  <1> QED
    BY <1>2, <1>3, <1>4, SubSeqFull

(* Sequences of bytes and their concatenation, which may be grouped anew.  *)
LEMMA Joined ==
    \A a, b \in Seq(Byte) :
        /\ a \o b \in Seq(Byte)
        /\ Len(a) \in Nat /\ Len(b) \in Nat /\ Len(a \o b) = Len(a) + Len(b)
        /\ a \o <<>> = a
  BY ConcatProperties, ConcatEmptySeq

(* It is associative.                                                      *)
LEMMA Grouped ==
    \A a, b, s \in Seq(Byte) : (a \o b) \o s = a \o (b \o s)
  BY ConcatAssociative

(* What is in a part is in the whole.                                      *)
LEMMA PartIsIn ==
    \A a, b, t \in Seq(Byte) :
        \A n \in 1 .. Len(b) : b[n] \in ToSet((a \o b) \o t)
  <1> SUFFICES ASSUME NEW a \in Seq(Byte), NEW b \in Seq(Byte),
                      NEW t \in Seq(Byte), NEW n \in 1 .. Len(b)
               PROVE  b[n] \in ToSet((a \o b) \o t)
    OBVIOUS
  <1>1. a \o b \in Seq(Byte) /\ Len(a) \in Nat /\ Len(b) \in Nat /\ Len(t) \in Nat
    OBVIOUS
  <1>2. Len(a) + n \in 1 .. Len(a) + Len(b) /\ ~(Len(a) + n <= Len(a))
    BY <1>1
  <1>3. Len(a \o b) = Len(a) + Len(b) /\ (a \o b)[Len(a) + n] = b[Len(a) + n - Len(a)]
    BY <1>2, ConcatProperties
  <1>4. Len(a) + n - Len(a) = n
    BY <1>1
  <1>5. /\ (a \o b) \o t \in Seq(Byte)
        /\ Len((a \o b) \o t) = Len(a) + Len(b) + Len(t)
        /\ ((a \o b) \o t)[Len(a) + n] = (a \o b)[Len(a) + n]
    <2>1. Len(a) + n \in 1 .. Len(a \o b) + Len(t) /\ Len(a) + n <= Len(a \o b)
      BY <1>1, <1>2, <1>3
    <2> QED
      BY <1>1, <1>3, <2>1, ConcatProperties
  <1>6. Len(a) + n \in DOMAIN ((a \o b) \o t)
    BY <1>1, <1>2, <1>5
  <1> QED
    BY <1>3, <1>4, <1>5, <1>6 DEF ToSet

(* What the callback holds of a child's output                             *)
Held(c) == IF callback.child = c THEN buf ELSE <<>>

Strings ==
    /\ pipe \in [Child -> Seq(Byte)]
    /\ written \in [Child -> Seq(Byte)]
    /\ logged \in [Child -> Seq(Byte)]
    /\ buf \in Seq(Byte)
    /\ heir \in [Child -> BOOLEAN]
    /\ fifo_out \in BOOLEAN
    /\ half \in {"in", "out"}

(* In a call: a read always has room and what has been read is always said *)
(* before the next one, and nothing is held when the call has finished.    *)
Calling ==
    ~Idle =>
        /\ stage[callback.child] \in {"running", "dead"}
        /\ Len(buf) < max_buf_size
        /\ fifo_in => fifo_out
        /\ fifo_in /\ half = "in" => Len(buf) < max_buf_size - 1
        /\ fifo_in /\ half = "out" => buf # <<>>
        /\ ~fifo_out => buf = <<>>

(* Without a descriptor nothing is left in the pipe, a running worker has  *)
(* one, and a buried child has none.                                       *)
Drained ==
    \A c \in Child : /\ fd_stdout[c] = None => pipe[c] = <<>>
                     /\ stage[c] = "running" => fd_stdout[c] # None
                     /\ stage[c] = "gone" => fd_stdout[c] = None

Plain(c) == "nul" \notin ToSet(written[c]) /\ c \notin left

Whole ==
    \A c \in Child : Plain(c) => logged[c] \o Held(c) \o pipe[c] = written[c]

Words == Strings /\ Calling /\ Drained /\ Whole

(* The invariant gives the property.                                       *)
LEMMA WordsKept == Words => NothingLost
  <1> SUFFICES ASSUME Words, NEW c \in Child
               PROVE  /\ Plain(c) =>
                           /\ logged[c] \o Held(c) \o pipe[c] = written[c]
                           /\ stage[c] = "gone" => logged[c] = written[c]
                      /\ stage[c] = "running" => fd_stdout[c] # None
    BY DEF NothingLost, Plain, Held
  <1>1. ASSUME Plain(c), stage[c] = "gone"
        PROVE  logged[c] = written[c]
    <2>1. pipe[c] = <<>>
      BY <1>1 DEF Words, Drained
    <2>2. callback.child # c
      BY <1>1, NoneIsOutside DEF Words, Calling, Idle
    <2>3. logged[c] \o <<>> \o <<>> = written[c]
      BY <1>1, <2>1, <2>2 DEF Words, Whole, Held
    <2>4. logged[c] \in Seq(Byte)
      BY DEF Words, Strings
    <2> QED
      BY <2>3, <2>4, ConcatEmptySeq
  <1> QED
    BY <1>1 DEF Words, Whole, Drained

(* At the start nothing is said.                                           *)
LEMMA InitWords == Init => Words
  <1> SUFFICES ASSUME Init PROVE Words
    OBVIOUS
  <1>1. Strings
    <2>1. <<>> \in Seq(Byte)
      OBVIOUS
    <2>2. pipe \in [Child -> Seq(Byte)]
      BY <2>1 DEF Init
    <2>3. written \in [Child -> Seq(Byte)]
      BY <2>1 DEF Init
    <2>4. logged \in [Child -> Seq(Byte)]
      BY <2>1 DEF Init
    <2> QED
      BY <2>1, <2>2, <2>3, <2>4 DEF Init, Strings
  <1>2. Calling
    BY DEF Init, Calling, Idle
  <1>3. Drained
    BY DEF Init, Drained
  <1>4. ASSUME NEW c \in Child
        PROVE  logged[c] \o Held(c) \o pipe[c] = written[c]
    <2>1. Held(c) = <<>> /\ logged[c] = <<>> /\ pipe[c] = <<>> /\ written[c] = <<>>
      BY <1>4 DEF Init, Held
    <2>2. <<>> \in Seq(Byte)
      OBVIOUS
    <2> QED
      BY <2>1, <2>2, ConcatEmptySeq
  <1> QED
    BY <1>1, <1>2, <1>3, <1>4 DEF Words, Whole

(* The next line of the buffer and what is behind it                       *)
LEMMA LineIs ==
    ASSUME buf \in Seq(Byte)
    PROVE  /\ Line \in Seq(Byte)
           /\ HasNewline =>
                 /\ Line \o <<"nl">> \in Seq(Byte) /\ AfterNewline \in Seq(Byte)
                 /\ Len(AfterNewline) < Len(buf)
           /\ (\A n \in 1 .. Len(buf) : buf[n] # "nul") =>
                 IF HasNewline THEN (Line \o <<"nl">>) \o AfterNewline = buf
                 ELSE Line = buf
           /\ HasNewline => <<"nl">> \in Seq(Byte)
  <1>1. Len(buf) \in Nat /\ \A n \in 1 .. Len(buf) : buf[n] \in Byte
    OBVIOUS
  <1>2. /\ String \in Seq(Byte)
        /\ Len(String) \in Nat /\ Len(String) <= Len(buf)
        /\ \A n \in 1 .. Len(String) : String[n] = buf[n]
        /\ (\A n \in 1 .. Len(buf) : buf[n] # "nul") => String = buf
    <2>1. /\ String \in Seq(Byte)
          /\ \/ /\ \A n \in 1 .. Len(buf) : buf[n] # "nul"
                /\ String = buf
             \/ \E k \in 1 .. Len(buf) :
                   /\ buf[k] = "nul" /\ Len(String) = k - 1
                   /\ \A n \in 1 .. k - 1 : String[n] = buf[n]
      BY UptoIs DEF String
    <2> QED
      BY <1>1, <2>1
  <1>3. CASE ~HasNewline
    <2>1. \A n \in 1 .. Len(String) : String[n] # "nl"
      BY <1>3 DEF HasNewline, Contains
    <2>2. Line = String
      BY <1>2, <2>1, UptoIs DEF Line
    <2> QED
      BY <1>2, <1>3, <2>2
  <1>4. CASE HasNewline
    <2>1. \E n \in 1 .. Len(String) : String[n] = "nl"
      BY <1>4 DEF HasNewline, Contains
    <2>2. PICK k \in 1 .. Len(String) :
             /\ String[k] = "nl" /\ Line = SubSeq(String, 1, k - 1)
             /\ Len(Line) = k - 1 /\ Line \in Seq(Byte)
      BY <1>2, <2>1, UptoIs, SMTT(30) DEF Line
    <2>3. k \in 1 .. Len(buf) /\ buf[k] = "nl" /\ "nl" \in Byte
      BY <1>1, <1>2, <2>2
    <2>4. /\ AfterNewline = SubSeq(buf, k + 1, Len(buf))
          /\ AfterNewline \in Seq(Byte) /\ Len(AfterNewline) < Len(buf)
      <3>1. AfterNewline = SubSeq(buf, k + 1, Len(buf))
        BY <1>1, <2>2, <2>3, SMTT(30) DEF AfterNewline
      <3>2. k + 1 \in Int /\ \A n \in k + 1 .. Len(buf) : buf[n] \in Byte
        BY <1>1, <2>3
      <3>3. /\ SubSeq(buf, k + 1, Len(buf)) \in Seq(Byte)
            /\ Len(SubSeq(buf, k + 1, Len(buf))) =
                  IF k + 1 <= Len(buf) THEN Len(buf) - (k + 1) + 1 ELSE 0
        BY <1>1, <3>2, SubSeqProperties
      <3> QED
        BY <1>1, <2>3, <3>1, <3>3
    <2>5. Line \o <<"nl">> \in Seq(Byte) /\ <<"nl">> \in Seq(Byte)
      BY <2>2, <2>3
    <2>6. ASSUME \A n \in 1 .. Len(buf) : buf[n] # "nul"
          PROVE  (Line \o <<"nl">>) \o AfterNewline = buf
      <3>1. Line = SubSeq(buf, 1, k - 1)
        BY <1>2, <2>2, <2>6
      <3>2. SubSeq(buf, 1, k) = SubSeq(buf, 1, k - 1) \o <<buf[k]>>
        <4>1. 1 \in 1 .. Len(buf) /\ k \in 1 .. Len(buf)
          BY <1>1, <2>3
        <4> QED
          BY <4>1, SubSeqRecursiveSecond
      <3>3. SubSeq(buf, 1, k) \o SubSeq(buf, k + 1, Len(buf)) = buf
        BY <1>1, <2>3, Split
      <3> QED
        BY <2>3, <2>4, <3>1, <3>2, <3>3
    <2> QED
      BY <1>4, <2>4, <2>5, <2>2, <2>6
  <1> QED
    BY <1>3, <1>4

(* A step that says, writes, opens and closes nothing                      *)
LEMMA SameWords ==
    ASSUME Words, heir' \in [Child -> BOOLEAN],
           UNCHANGED <<stage, fd_stdout, pipe, written, logged, left,
                       callback, fifo_in, fifo_out, buf, half>>
    PROVE  Words'
  <1>1. Strings'
    BY DEF Words, Strings
  <1>2. Calling' /\ Drained'
    BY DEF Words, Calling, Drained, Idle
  <1>3. Whole'
    BY DEF Words, Whole, Plain, Held
  <1> QED
    BY <1>1, <1>2, <1>3 DEF Words

(* A worker begins, dies or is freed, outside of a call or during it.      *)
LEMMA StageWords ==
    ASSUME IInv, Words, NEW c \in Child,
           \/ \E fd \in Fd : Fork(c, fd)
           \/ Die(c)
           \/ BuryClosed(c)
    PROVE  Words'
  <1>1. /\ UNCHANGED <<heir, pipe, written, logged, left, callback, fifo_in,
                       fifo_out, buf, half>>
        /\ stage \in [Child -> {"none", "running", "dead", "gone"}]
        /\ fd_stdout \in [Child -> Fd \cup {None}]
    BY DEF Fork, Die, BuryClosed, locals, history, IInv, Types
  <1>2. Strings' /\ Whole'
    BY <1>1 DEF Words, Strings, Whole, Plain, Held
  <1>3. Calling' /\ Drained'
    <2>1. ASSUME NEW fd \in Fd, Fork(c, fd)
          PROVE  Calling' /\ Drained'
      BY <1>1, <2>1, NoneIsOutside DEF Fork, Words, Calling, Drained, Idle
    <2>2. CASE Die(c)
      BY <1>1, <2>2 DEF Die, Words, Calling, Drained, Idle
    <2>3. CASE BuryClosed(c)
      BY <1>1, <2>3 DEF BuryClosed, Words, Calling, Drained, Idle
    <2> QED
      BY <2>1, <2>2, <2>3
  <1> QED
    BY <1>2, <1>3 DEF Words

(* A byte is written to the end of the pipe.                               *)
LEMMA WriteWords ==
    ASSUME IInv, Words, NEW c \in Child, NEW b \in Byte, Write(c, b)
    PROVE  Words'
  <1>1. /\ UNCHANGED <<stage, heir, fd_stdout, logged, left, callback, fifo_in,
                       fifo_out, buf, half>>
        /\ pipe' = [pipe EXCEPT ![c] = Append(@, b)]
        /\ written' = [written EXCEPT ![c] = Append(@, b)]
        /\ fd_stdout[c] # None
    BY DEF Write, world, locals
  <1>2. pipe[c] \in Seq(Byte) /\ written[c] \in Seq(Byte)
    BY DEF Words, Strings
  <1>3. Strings'
    <2>1. Append(pipe[c], b) \in Seq(Byte) /\ Append(written[c], b) \in Seq(Byte)
      BY <1>2
    <2> QED
      BY <1>1, <2>1 DEF Words, Strings
  <1>4. Calling' /\ Drained'
    BY <1>1 DEF Words, Strings, Calling, Drained, Idle
  <1>5. ASSUME NEW d \in Child, Plain(d)'
        PROVE  logged'[d] \o Held(d)' \o pipe'[d] = written'[d]
    <2>1. Held(d)' = Held(d) /\ logged'[d] = logged[d]
      BY <1>1 DEF Held
    <2>2. CASE d # c
      <3>1. pipe'[d] = pipe[d] /\ written'[d] = written[d]
        BY <1>1, <2>2 DEF Words, Strings
      <3>2. Plain(d)
        BY <1>1, <1>5, <3>1 DEF Plain
      <3> QED
        BY <2>1, <3>1, <3>2 DEF Words, Whole
    <2>3. CASE d = c
      <3>1. pipe'[c] = Append(pipe[c], b) /\ written'[c] = Append(written[c], b)
        BY <1>1 DEF Words, Strings
      <3>2. \A n \in DOMAIN written[c] :
                n \in DOMAIN written'[c] /\ written'[c][n] = written[c][n]
        BY <1>2, <3>1
      <3>3. Plain(c)
        <4>1. "nul" \notin ToSet(written'[c]) /\ c \notin left
          BY <1>1, <1>5, <2>3 DEF Plain
        <4>2. \A n \in DOMAIN written'[c] : written'[c][n] # "nul"
          BY <4>1 DEF ToSet
        <4>3. "nul" \notin ToSet(written[c])
          BY <3>2, <4>2 DEF ToSet
        <4> QED
          BY <4>1, <4>3 DEF Plain
      <3>4. PICK l \in Seq(Byte) : l = logged[c] \o Held(c)
        <4>1. logged[c] \in Seq(Byte) /\ Held(c) \in Seq(Byte)
          BY DEF Words, Strings, Held
        <4> QED
          BY <4>1, Joined
      <3>5. l \o pipe[c] = written[c]
        BY <3>3, <3>4 DEF Words, Whole
      <3>6. l \o Append(pipe[c], b) = Append(l \o pipe[c], b)
        BY <1>2
      <3> QED
        BY <2>1, <2>3, <3>1, <3>4, <3>5, <3>6
    <2> QED
      BY <2>2, <2>3
  <1> QED
    BY <1>3, <1>4, <1>5 DEF Words, Whole

(* The callback begins with nothing.                                       *)
LEMMA CallWords ==
    ASSUME IInv, Words, NEW c \in Child, Ready(c) \/ BuryOpen(c)
    PROVE  Words'
  <1>1. /\ UNCHANGED <<stage, heir, pipe, fd_stdout, written, logged, left>>
        /\ callback'.child = c
        /\ fifo_in' = TRUE /\ fifo_out' = TRUE /\ buf' = <<>> /\ half' = "in"
        /\ Idle
    BY DEF Ready, BuryOpen, Call, world, history
  <1>2. stage[c] \in {"running", "dead"}
    <2>1. fd_stdout[c] # None
      BY NoneIsOutside DEF Ready, BuryOpen, IInv, Types
    <2> QED
      BY <2>1 DEF IInv, Types, UnforkedHasNone, Words, Drained
  <1>3. Strings'
    BY <1>1 DEF Words, Strings
  <1>4. Calling'
    BY <1>1, <1>2, SizeAssumption DEF Calling
  <1>5. Drained'
    BY <1>1 DEF Words, Drained
  <1>6. Whole'
    <2>1. \A d \in Child : Held(d) = <<>> /\ Held(d)' = <<>>
      BY <1>1, NoneIsOutside DEF Held, Idle
    <2> QED
      BY <1>1, <2>1 DEF Words, Whole, Plain
  <1> QED
    BY <1>3, <1>4, <1>5, <1>6 DEF Words

(* The callback reads as much as there is and as it has room for; what it  *)
(* takes for the end of the pipe is its end.                               *)
LEMMA ReadWords ==
    ASSUME IInv, Words, Read
    PROVE  Words'
  <1> DEFINE c == callback.child
             k == Min({Room, Len(pipe[c])})
  <1>1. /\ c \in Child /\ stage[c] \in {"running", "dead"}
        /\ fifo_in = TRUE /\ fifo_out = TRUE /\ half = "in" /\ half' = "out"
        /\ UNCHANGED <<stage, heir, callback, fifo_out, written, logged, left>>
    BY DEF Read, world, history, IInv, Types, Idle, Words, Calling, Strings
  <1>2. /\ buf \in Seq(Byte) /\ pipe[c] \in Seq(Byte) /\ logged[c] \in Seq(Byte)
        /\ Len(buf) \in Nat /\ Len(pipe[c]) \in Nat
    BY <1>1 DEF Words, Strings
  <1>3. Room \in Nat /\ Room > 0
    BY <1>1, <1>2, SizeAssumption DEF Words, Calling, Read, Room
  <1>4. k \in 0 .. Len(pipe[c]) /\ k <= Room /\ (k = 0 => pipe[c] = <<>>)
    <2>1. {Room, Len(pipe[c])} \in SUBSET Nat /\ {Room, Len(pipe[c])} # {}
      BY <1>2, <1>3
    <2>2. k \in {Room, Len(pipe[c])} /\ k <= Room /\ k <= Len(pipe[c])
      BY <2>1, MinIs
    <2> HIDE DEF k
    <2> QED
      BY <1>2, <1>3, <2>2
  <1> HIDE DEF k
  <1>5. CASE k > 0
    <2>1. /\ buf' = buf \o SubSeq(pipe[c], 1, k)
          /\ pipe' = [pipe EXCEPT ![c] = SubSeq(@, k + 1, Len(@))]
          /\ UNCHANGED <<fifo_in, fd_stdout>>
      BY <1>5 DEF Read, k
    <2> DEFINE s == SubSeq(pipe[c], 1, k)
               t == SubSeq(pipe[c], k + 1, Len(pipe[c]))
    <2>2. s \in Seq(Byte) /\ t \in Seq(Byte) /\ Len(s) = k /\ s \o t = pipe[c]
      BY <1>2, <1>4, Split
    <2>3. pipe' = [pipe EXCEPT ![c] = t] /\ buf' = buf \o s
      BY <2>1
    <2> HIDE DEF s, t
    <2>4. buf' \in Seq(Byte) /\ Len(buf') = Len(buf) + k
      BY <1>2, <2>2, <2>3, Joined
    <2>5. Strings'
      BY <1>1, <2>2, <2>3, <2>4 DEF Words, Strings
    <2>6. Calling'
      <3>1. Len(buf) + k < max_buf_size /\ buf' # <<>>
        BY <1>2, <1>3, <1>4, <1>5, <2>4, SizeAssumption DEF Room
      <3> QED
        BY <1>1, <2>1, <2>4, <3>1 DEF Calling
    <2>7. Drained'
      <3>1. fd_stdout[c] # None
        BY <1>1 DEF IInv, ReadsOpen, Read
      <3> QED
        BY <1>1, <2>1, <2>3, <3>1 DEF Words, Strings, Drained
    <2>8. ASSUME NEW d \in Child, Plain(d)'
          PROVE  logged'[d] \o Held(d)' \o pipe'[d] = written'[d]
      <3>1. logged[d] \o Held(d) \o pipe[d] = written[d]
        BY <1>1, <2>8 DEF Words, Whole, Plain
      <3>2. CASE d # c
        BY <1>1, <2>3, <3>1, <3>2 DEF Held, Words, Strings
      <3>3. CASE d = c
        <4>1. Held(c) = buf /\ Held(c)' = buf \o s /\ pipe'[c] = t
          BY <1>1, <2>3 DEF Held, Words, Strings
        <4>2. (logged[c] \o (buf \o s)) \o t = (logged[c] \o buf) \o (s \o t)
          <5>1. s \in Seq(Byte) /\ t \in Seq(Byte)
            BY <2>2
          <5>2. buf \in Seq(Byte) /\ logged[c] \in Seq(Byte)
            BY <1>2
          <5>3. logged[c] \o (buf \o s) = (logged[c] \o buf) \o s
            BY <5>1, <5>2, Grouped
          <5>4. logged[c] \o buf \in Seq(Byte)
            BY <5>2, Joined
          <5>5. ((logged[c] \o buf) \o s) \o t = (logged[c] \o buf) \o (s \o t)
            BY <5>1, <5>4, Grouped
          <5> QED
            BY <5>3, <5>5
        <4> QED
          BY <1>1, <2>2, <3>1, <3>3, <4>1, <4>2
      <3> QED
        BY <3>2, <3>3
    <2> QED
      BY <2>5, <2>6, <2>7, <2>8 DEF Words, Whole
  <1>6. CASE ~(k > 0)
    <2>1. /\ fifo_in' = FALSE /\ UNCHANGED <<buf, pipe>>
          /\ (CloseAtEof(c) /\ AtEof(c)) \/ UNCHANGED fd_stdout
      BY <1>3, <1>6 DEF Read, k
    <2>2. pipe[c] = <<>>
      BY <1>4, <1>6
    <2>3. Strings' /\ Whole'
      BY <1>1, <2>1 DEF Words, Strings, Whole, Plain, Held
    <2>4. Calling'
      BY <1>1, <2>1 DEF Words, Calling, Idle
    <2>5. Drained'
      <3>1. CASE UNCHANGED fd_stdout
        BY <1>1, <2>1, <3>1 DEF Words, Drained
      <3>2. CASE CloseAtEof(c) /\ AtEof(c)
        <4>1. stage[c] # "running" /\ fd_stdout' = [fd_stdout EXCEPT ![c] = None]
          BY <3>2 DEF CloseAtEof, Close, AtEof, Writer
        <4> QED
          BY <1>1, <2>1, <2>2, <4>1 DEF Words, Drained, IInv, Types
      <3> QED
        BY <2>1, <3>1, <3>2
    <2> QED
      BY <2>3, <2>4, <2>5 DEF Words
  <1> QED
    BY <1>5, <1>6

(* A line is said, or what fills the buffer, or the rest.                  *)
LEMMA SaidWords ==
    ASSUME IInv, Words, Said
    PROVE  Words'
  <1> DEFINE c == callback.child
  <1>1. /\ c \in Child /\ half = "out" /\ half' = "in" /\ ~Idle
        /\ UNCHANGED <<stage, heir, pipe, fd_stdout, callback, fifo_in, written, left>>
        /\ fifo_out' = (fifo_out /\ buf # <<>>)
    BY DEF Said, world, IInv, Types, Idle
  <1>2. /\ buf \in Seq(Byte) /\ logged[c] \in Seq(Byte) /\ pipe[c] \in Seq(Byte)
        /\ Len(buf) \in Nat /\ Len(buf) < max_buf_size /\ fifo_out \in BOOLEAN
        /\ max_buf_size \in Nat \ {0, 1}
    BY <1>1, SizeAssumption DEF Words, Strings, Calling
  <1>3. Drained'
    BY <1>1 DEF Words, Drained
  <1>4. CASE ~(fifo_out /\ buf # <<>> /\ MustSay)
    <2>1. UNCHANGED <<logged, buf>>
      BY <1>4 DEF Said
    <2>2. Strings' /\ Whole'
      BY <1>1, <2>1 DEF Words, Strings, Whole, Plain, Held
    <2>3. fifo_in => Len(buf) # max_buf_size - 1
      BY <1>1, <1>4 DEF MustSay, Full, Words, Calling
    <2>4. Calling'
      BY <1>1, <1>2, <2>1, <2>3 DEF Words, Calling, Idle
    <2> QED
      BY <1>3, <2>2, <2>4 DEF Words
  <1>5. CASE fifo_out /\ buf # <<>> /\ MustSay
    <2> DEFINE first == IF HasNewline THEN Line \o <<"nl">> ELSE Line
               rest  == IF HasNewline THEN AfterNewline ELSE <<>>
    <2>1. /\ first \in Seq(Byte) /\ rest \in Seq(Byte) /\ Len(rest) < Len(buf)
          /\ (\A n \in 1 .. Len(buf) : buf[n] # "nul") => first \o rest = buf
      <3>1. CASE HasNewline
        BY <1>2, <3>1, LineIs
      <3>2. CASE ~HasNewline
        <4>1. Line \in Seq(Byte) /\ ((\A n \in 1 .. Len(buf) : buf[n] # "nul") => Line = buf)
          BY <1>2, <3>2, LineIs
        <4> QED
          BY <1>2, <1>5, <3>2, <4>1, ConcatEmptySeq
      <3> QED
        BY <3>1, <3>2
    <2>2. logged' = [logged EXCEPT ![c] = @ \o first] /\ buf' = rest
      <3>1. CASE HasNewline
        <4>1. /\ logged' = [logged EXCEPT ![c] = @ \o Line \o <<"nl">>]
              /\ buf' = AfterNewline
          BY <1>5, <3>1 DEF Said
        <4>2. Line \in Seq(Byte) /\ Line \o <<"nl">> \in Seq(Byte)
          BY <1>2, <3>1, LineIs
        <4>3. <<"nl">> \in Seq(Byte)
          BY <1>2, <3>1, LineIs
        <4>4. logged[c] \o Line \o <<"nl">> = logged[c] \o (Line \o <<"nl">>)
          BY <1>2, <4>2, <4>3, Grouped, ZenonT(60)
        <4> QED
          BY <1>1, <3>1, <4>1, <4>4
      <3>2. CASE ~HasNewline
        <4>1. /\ logged' = [logged EXCEPT ![c] = @ \o Line \o <<>>]
              /\ buf' = <<>>
          BY <1>5, <3>2 DEF Said
        <4>2. Line \in Seq(Byte)
          BY <1>2, <3>2, LineIs
        <4>3. logged[c] \o Line \o <<>> = logged[c] \o Line
          BY <1>2, <4>2, Joined
        <4> QED
          BY <1>1, <3>2, <4>1, <4>3
      <3> QED
        BY <3>1, <3>2
    <2> HIDE DEF first, rest
    <2>3. Strings'
      <3>1. logged[c] \o first \in Seq(Byte)
        BY <1>2, <2>1
      <3> QED
        BY <1>1, <1>5, <2>1, <2>2, <3>1 DEF Words, Strings
    <2>4. Calling'
      <3>1. Len(buf') < max_buf_size - 1 /\ Len(buf') < max_buf_size
        BY <1>2, <2>1, <2>2
      <3> QED
        BY <1>1, <1>5, <3>1 DEF Words, Calling, Idle
    <2>5. ASSUME NEW d \in Child, Plain(d)'
          PROVE  logged'[d] \o Held(d)' \o pipe'[d] = written'[d]
      <3>1. Plain(d) /\ logged[d] \o Held(d) \o pipe[d] = written[d]
        BY <1>1, <2>5 DEF Words, Whole, Plain
      <3>2. CASE d # c
        BY <1>1, <2>2, <3>1, <3>2 DEF Held, Words, Strings
      <3>3. CASE d = c
        <4>1. Held(c) = buf /\ Held(c)' = rest /\ logged'[c] = logged[c] \o first
          BY <1>1, <2>2 DEF Held, Words, Strings
        <4>2. \A n \in 1 .. Len(buf) : buf[n] # "nul"
          <5>1. (logged[c] \o buf) \o pipe[c] = written[c]
            BY <3>1, <3>3, <4>1
          <5>2. "nul" \notin ToSet((logged[c] \o buf) \o pipe[c])
            BY <3>1, <3>3, <5>1 DEF Plain
          <5> QED
            BY <1>2, <5>2, PartIsIn
        <4>3. first \o rest = buf
          BY <2>1, <4>2
        <4>4. (logged[c] \o first) \o rest = logged[c] \o (first \o rest)
          BY <1>2, <2>1, Grouped
        <4> QED
          BY <1>1, <3>1, <3>3, <4>1, <4>3, <4>4
      <3> QED
        BY <3>2, <3>3
    <2> QED
      BY <1>3, <2>3, <2>4, <2>5 DEF Words, Whole
  <1> QED
    BY <1>4, <1>5

(* When a call is over nothing is held.                                    *)
LEMMA ReturnWords ==
    ASSUME IInv, Words, Return
    PROVE  Words'
  <1>1. /\ UNCHANGED <<stage, heir, pipe, fd_stdout, fifo_out, buf, half,
                       written, logged, left>>
        /\ callback'.child = None /\ buf = <<>>
    BY DEF Return, Finished, world, history, Words, Calling, Strings
  <1>2. Strings' /\ Calling' /\ Drained'
    BY <1>1 DEF Words, Strings, Calling, Drained, Idle
  <1>3. \A d \in Child : Held(d) = <<>> /\ Held(d)' = <<>>
    BY <1>1, NoneIsOutside DEF Held
  <1> QED
    BY <1>1, <1>2, <1>3 DEF Words, Whole, Plain

(* The child is freed: it has said all, or an heir had its pipe.           *)
LEMMA ReturnBuryWords ==
    ASSUME IInv, Words, ReturnBury
    PROVE  Words'
  <1> DEFINE c == callback.child
  <1>1. /\ UNCHANGED <<heir, fifo_out, buf, half, written, logged>>
        /\ callback'.child = None /\ buf = <<>> /\ c \in Child
        /\ stage' = [stage EXCEPT ![c] = "gone"]
    BY DEF ReturnBury, Finished, Words, Calling, Strings, IInv, Types, Idle
  <1>2. /\ stage \in [Child -> {"none", "running", "dead", "gone"}]
        /\ fd_stdout \in [Child -> Fd \cup {None}]
    BY DEF IInv, Types
  <1>3. \A d \in Child : Held(d) = <<>> /\ Held(d)' = <<>>
    BY <1>1, NoneIsOutside DEF Held
  <1>4. Calling'
    BY <1>1 DEF Calling, Idle
  <1>5. CASE fd_stdout[c] = None
    <2>1. UNCHANGED <<fd_stdout, pipe, left>>
      BY <1>5 DEF ReturnBury
    <2>2. Strings' /\ Drained'
      BY <1>1, <1>2, <1>5, <2>1 DEF Words, Strings, Drained
    <2>3. Whole'
      BY <1>1, <1>3, <2>1 DEF Words, Whole, Plain
    <2> QED
      BY <1>4, <2>2, <2>3 DEF Words
  <1>6. CASE fd_stdout[c] # None
    <2>1. /\ fd_stdout' = [fd_stdout EXCEPT ![c] = None]
          /\ pipe' = [pipe EXCEPT ![c] = <<>>]
          /\ left' = left \cup {c}
      BY <1>6 DEF ReturnBury, Close
    <2>2. <<>> \in Seq(Byte)
      OBVIOUS
    <2>3. Strings'
      BY <1>1, <2>1, <2>2 DEF Words, Strings
    <2>4. Drained'
      BY <1>1, <1>2, <2>1 DEF Words, Strings, Drained
    <2>5. ASSUME NEW d \in Child, Plain(d)'
          PROVE  Plain(d) /\ d # c /\ pipe'[d] = pipe[d]
      BY <1>1, <2>1, <2>5 DEF Words, Strings, Plain
    <2>6. Whole'
      BY <1>1, <1>3, <2>5 DEF Words, Whole
    <2> QED
      BY <1>4, <2>3, <2>4, <2>6 DEF Words
  <1> QED
    BY <1>5, <1>6

(* Every step keeps it.                                                    *)
LEMMA StepWords == IInv /\ Words /\ [Next]_vars => Words'
  <1> SUFFICES ASSUME IInv, Words, [Next]_vars
               PROVE  Words'
    OBVIOUS
  <1>1. ASSUME NEW c \in Child, NEW fd \in Fd, Fork(c, fd)
        PROVE  Words'
    BY <1>1, StageWords
  <1>2. ASSUME NEW c \in Child, NEW b \in Byte, Write(c, b)
        PROVE  Words'
    BY <1>2, WriteWords
  <1>3. ASSUME NEW c \in Child, Beget(c) \/ HeirEnds(c)
        PROVE  Words'
    <2>1. heir' \in [Child -> BOOLEAN]
      BY <1>3 DEF Beget, HeirEnds, Words, Strings
    <2>2. UNCHANGED <<stage, fd_stdout, pipe, written, logged, left,
                      callback, fifo_in, fifo_out, buf, half>>
      BY <1>3 DEF Beget, HeirEnds, locals, history
    <2> QED
      BY <2>1, <2>2, SameWords
  <1>4. ASSUME NEW c \in Child, Die(c) \/ BuryClosed(c)
        PROVE  Words'
    BY <1>4, StageWords
  <1>5. ASSUME NEW c \in Child, Ready(c) \/ BuryOpen(c)
        PROVE  Words'
    BY <1>5, CallWords
  <1>6. CASE SkipRead
    <2>1. /\ UNCHANGED <<stage, heir, pipe, fd_stdout, written, logged, left,
                         callback, fifo_in, fifo_out, buf>>
          /\ half' = "out" /\ ~fifo_in
      BY <1>6 DEF SkipRead, world, history
    <2>2. Strings' /\ Calling' /\ Drained'
      BY <2>1 DEF Words, Strings, Calling, Drained, Idle
    <2>3. Whole'
      BY <2>1 DEF Words, Whole, Plain, Held
    <2> QED
      BY <2>2, <2>3 DEF Words
  <1>7. CASE UNCHANGED vars
    <2>1. UNCHANGED <<stage, heir, fd_stdout, pipe, written, logged, left,
                      callback, fifo_in, fifo_out, buf, half>>
      BY <1>7 DEF vars, world, locals, history
    <2>2. heir' \in [Child -> BOOLEAN]
      BY <2>1 DEF Words, Strings
    <2> QED
      BY <2>1, <2>2, SameWords
  <1> QED
    BY <1>1, <1>2, <1>3, <1>4, <1>5, <1>6, <1>7, ReadWords, SaidWords,
       ReturnWords, ReturnBuryWords
    DEF Next

(* For any number of children, any buffer of two bytes or more and any     *)
(* sizes of reads: fpm_stdio_child_said puts into the log what a worker    *)
(* that writes no NUL has written, every byte once and in its order; when  *)
(* the child is freed all of it is there, unless an heir had the pipe; and *)
(* a running worker always has a reader.                                   *)
THEOREM EveryByteLogged == Spec => []NothingLost
  <1>1. Spec => []Words
    BY InitWords, StepWords, Invariance, PTL DEF Spec
  <1> QED
    BY <1>1, WordsKept, PTL

=============================================================================
