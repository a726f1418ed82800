---------------------------- MODULE SocketsProofs ----------------------------
(***************************************************************************)
(* Proofs about Sockets, for every number of pools, addresses, descriptors *)
(* and reloads.  What goes wrong with an address that contains '=', or has *)
(* two spellings, is kept out by hypotheses of the theorems that need them *)
(* and by no assumption on the constants.                                  *)
(***************************************************************************)
EXTENDS Sockets, FiniteSetTheorems, SequenceTheorems, TLAPS

Configured == {c[p] : c \in Configs, p \in Pool}

(* Nobody configures what '=' leaves of another configured address,        *)
Uncut == \A a \in Configured : CutBefore[a] \notin Configured

(* or an address with '=' in it at all.                                    *)
NoSigns == \A a \in Configured : CutBefore[a] = None

(* A socket's file has one spelling.                                       *)
PathsDiffer == \A a, b \in Unix : place[a] = place[b] => a = b

Over      == {"exited", "failed", "refused"}
Ports     == {place[a] : a \in Inet}
Inherit   == 1 .. Len(FPM_SOCKETS)
Listeners(s) == {p \in Pool : listening_socket[p] = s}

Pair  == [key : Address, sock : Fd]
Entry == [key : Address, sock : Fd \cup {0}, refcount : Nat]

Types ==
    /\ pc \in {"import", "create", "sweep", "run"} \cup Over
    /\ config \in Configs
    /\ FPM_SOCKETS \in Seq(Pair)
    /\ sockets_list \in Seq(Entry)
    /\ todo \subseteq Pool
    /\ i \in 1 .. Len(sockets_list) + 1
    /\ listening_socket \in [Pool -> Fd \cup {None}]
    /\ bound \in [Fd -> Place \cup {None}]
    /\ file \in [UnixPlace -> Fd \cup {None, Dead}]
    /\ lost \subseteq Open

(* An entry of the array, or of the environment, is for the socket at its  *)
(* address, and the only one for it, unless the import has cut it.         *)
Fits(e) == /\ e.sock \in Fd \ lost /\ e.key \in Configured
           /\ bound[e.sock] = place[e.key]

Listing ==
    /\ \A n \in Index :
          LET e == sockets_list[n] IN
          IF e.sock = 0 THEN e.key \notin Configured ELSE Fits(e)
    /\ \A m, n \in Index :
          LET d == sockets_list[m]
              e == sockets_list[n]
          IN  d.sock # 0 /\ (d.sock = e.sock \/ d.key = e.key) => m = n

Pending ==
    /\ FPM_SOCKETS # <<>> => pc = "import"
    /\ \A n \in Inherit : Fits(FPM_SOCKETS[n])
    /\ \A m, n \in Inherit :
          LET d == FPM_SOCKETS[m]
              e == FPM_SOCKETS[n]
          IN  d.sock = e.sock \/ d.key = e.key => m = n
    /\ \A m \in Inherit, n \in Index :
          LET d == FPM_SOCKETS[m]
              e == sockets_list[n]
          IN  d.sock # e.sock /\ d.key # e.key

(* No open socket is forgotten.                                            *)
Remembered ==
    Open \subseteq lost \cup Listed \cup {FPM_SOCKETS[n].sock : n \in Inherit}

(* Who has been given a socket has one at its address, listed or lost, and *)
(* nobody else's entry for that address is unused.                         *)
Given ==
    /\ pc = "import" => todo = Pool
    /\ pc \in {"sweep", "run"} => todo = {}
    /\ pc \in Over => /\ sockets_list = <<>> /\ FPM_SOCKETS = <<>>
                      /\ Open = {} /\ i = 1
                      /\ \A p \in Pool : listening_socket[p] = None
    /\ \A p \in todo : listening_socket[p] = None
    /\ pc \notin Over => \A p \in Pool \ todo :
          /\ listening_socket[p] \in Fd
          /\ bound[listening_socket[p]] = place[config[p]]
          /\ \/ listening_socket[p] \in lost
             \/ \E n \in Index : /\ sockets_list[n].sock = listening_socket[p]
                                 /\ sockets_list[n].key = config[p]
          /\ \A n \in Index :
                sockets_list[n].key = config[p] => sockets_list[n].refcount # 0

Counting ==
    \A n \in Index :
        sockets_list[n].refcount = Cardinality(Listeners(sockets_list[n].sock))

(* The last loop of fpm_sockets_init_main has passed only entries in use.  *)
Swiped ==
    /\ pc = "sweep" => \A n \in 1 .. i - 1 : sockets_list[n].refcount # 0
    /\ pc = "run"   => \A n \in Index : sockets_list[n].refcount # 0

(* The kernel: a file leads to a socket at its place, and each listed path *)
(* to the listed socket; a port is bound once.                             *)
Leads(e) == e.sock # 0 /\ e.key \in Unix => file[place[e.key]] = e.sock

Kernel ==
    /\ \A x \in UnixPlace : file[x] \in Fd => bound[file[x]] = x
    /\ \A fd, gd \in Open : bound[fd] = bound[gd] /\ bound[fd] \in Ports => fd = gd
    /\ PathsDiffer =>
          /\ \A n \in Index : Leads(sockets_list[n])
          /\ \A n \in Inherit : Leads(FPM_SOCKETS[n])

IInv ==
    /\ Types
    /\ Listing
    /\ Pending
    /\ Remembered
    /\ Given
    /\ Counting
    /\ Swiped
    /\ Kernel

-----------------------------------------------------------------------------
(* Arrays: an entry is pushed, read from the front, or removed by moving   *)
(* the last one to its place.                                              *)
LEMMA Pushed ==
    ASSUME NEW T, NEW s \in Seq(T), NEW e \in T
    PROVE  /\ Append(s, e) \in Seq(T)
           /\ Len(Append(s, e)) = Len(s) + 1
           /\ \A n \in 1 .. Len(s) : Append(s, e)[n] = s[n]
           /\ Append(s, e)[Len(s) + 1] = e
OBVIOUS

(* What is left after the first                                            *)
LEMMA Shifted ==
    ASSUME NEW T, NEW s \in Seq(T), s # <<>>
    PROVE  /\ Tail(s) \in Seq(T) /\ Len(s) \in Nat \ {0}
           /\ Len(Tail(s)) = Len(s) - 1
           /\ \A n \in 1 .. Len(s) - 1 : Tail(s)[n] = s[n + 1]
           /\ Head(s) = s[1] /\ s[1] \in T
BY HeadTailProperties

(* What is left after fpm_array_item_remove                                *)
LEMMA Removed ==
    ASSUME NEW T, NEW s \in Seq(T), NEW k \in 1 .. Len(s)
    PROVE  LET r == Front([s EXCEPT ![k] = Last(s)])
           IN  /\ r \in Seq(T) /\ Len(r) = Len(s) - 1 /\ Len(s) \in Nat \ {0}
               /\ \A n \in 1 .. Len(s) - 1 :
                     r[n] = IF n = k THEN s[Len(s)] ELSE s[n]
<1> DEFINE m == [s EXCEPT ![k] = Last(s)]
           r == Front(m)
<1>1. Len(s) \in Nat \ {0} /\ s[Len(s)] \in T
  OBVIOUS
<1>2. m \in Seq(T) /\ Len(m) = Len(s)
  BY <1>1 DEF Last
<1>3. \A n \in 1 .. Len(s) : m[n] = IF n = k THEN s[Len(s)] ELSE s[n]
  BY DEF Last
<1> HIDE DEF m
<1>4. r = SubSeq(m, 1, Len(s) - 1)
  BY <1>2 DEF Front
<1>5. r = [n \in 1 .. Len(s) - 1 |-> m[n]]
  BY <1>1, <1>2, <1>4
<1>6. r \in Seq(T) /\ Len(r) = Len(s) - 1
  BY <1>1, <1>2, <1>4, <1>5
<1>7. \A n \in 1 .. Len(s) - 1 : r[n] = m[n]
  BY <1>5
<1> HIDE DEF r
<1>8. \A n \in 1 .. Len(s) - 1 : r[n] = IF n = k THEN s[Len(s)] ELSE s[n]
  BY <1>1, <1>3, <1>7
<1>9. QED
  BY <1>1, <1>6, <1>8 DEF r, m

(* The values that are none of the others                                  *)
LEMMA Apart ==
    /\ None \notin Fd /\ None \notin Place /\ None # 0 /\ None # Dead
    /\ Dead \notin Fd /\ 0 \notin Fd /\ Fd \subseteq Nat
    /\ \A a \in Address : place[a] \in Place
    /\ \A a \in Unix : place[a] \in UnixPlace /\ a \in Address
    /\ \A a \in Address : place[a] \in UnixPlace => a \in Unix
    /\ Configured \subseteq Address
<1>1. Fd \subseteq Nat /\ 0 \notin Fd
  BY FdAssumption DEF Fd
<1>2. None \notin Place /\ None # 0 /\ None # Dead /\ None \notin Nat /\ Dead \notin Nat
  BY FdAssumption
<1>3. \A a \in Address : place[a] \in Place
  BY AddressAssumption
<1>4. \A a \in Address : place[a] \in UnixPlace => a \in Unix
  BY AddressAssumption DEF UnixPlace, Address
<1>5. \A a \in Unix : place[a] \in UnixPlace /\ a \in Address
  BY DEF UnixPlace, Address
<1>6. Configured \subseteq Address
  BY ConfigAssumption DEF Configured
<1>7. QED
  BY <1>1, <1>2, <1>3, <1>4, <1>5, <1>6

(* A place has a name, and what is bound is open.                          *)
LEMMA OpenIs == Types => \A fd \in Fd : fd \in Open <=> bound[fd] \in Place
BY Apart DEF Types, Open

(* Nobody listens where nothing is listened to.                            *)
LEMMA NoListeners ==
    ASSUME NEW s, \A p \in Pool : listening_socket[p] # s
    PROVE  Listeners(s) = {} /\ Cardinality(Listeners(s)) = 0
BY FS_EmptySet DEF Listeners

(* There are never more of them than pools.                                *)
LEMMA ListenersFinite ==
    ASSUME NEW s
    PROVE  /\ IsFiniteSet(Listeners(s)) /\ Cardinality(Listeners(s)) \in Nat
           /\ Cardinality(Listeners(s)) <= Cardinality(Pool)
           /\ Cardinality(Listeners(s)) = 0 <=> Listeners(s) = {}
<1>1. Listeners(s) \in SUBSET Pool
  BY DEF Listeners
<1>2. QED
  BY <1>1, PoolAssumption, FS_Subset, FS_CardinalityType, FS_EmptySet

-----------------------------------------------------------------------------
(* The state before a start: nothing is open.                              *)
Empty ==
    /\ pc \in Over /\ config \in Configs
    /\ FPM_SOCKETS = <<>> /\ sockets_list = <<>> /\ todo = {} /\ i = 1
    /\ listening_socket = [p \in Pool |-> None]
    /\ bound = [fd \in Fd |-> None] /\ lost = {}
    /\ file \in [UnixPlace -> {None, Dead}]

(* In it the invariant holds.                                              *)
LEMMA EmptyFits == Empty => IInv
<1> SUFFICES ASSUME Empty
             PROVE  IInv
  OBVIOUS
<1> USE DEF Empty
<1>1. Open = {} /\ Index = {} /\ Inherit = {}
  BY DEF Open, Index, Inherit
<1>2. Types
  <2>1. sockets_list \in Seq(Entry) /\ FPM_SOCKETS \in Seq(Pair) /\ Len(sockets_list) = 0
    OBVIOUS
  <2>2. i \in 1 .. Len(sockets_list) + 1
    BY <2>1
  <2>3. /\ bound \in [Fd -> Place \cup {None}]
        /\ listening_socket \in [Pool -> Fd \cup {None}]
        /\ file \in [UnixPlace -> Fd \cup {None, Dead}]
    OBVIOUS
  <2>4. QED
    BY <1>1, <2>1, <2>2, <2>3 DEF Types
<1>3. Listing /\ Pending /\ Remembered /\ Counting
  BY <1>1 DEF Listing, Pending, Remembered, Counting
<1>4. Given
  BY <1>1 DEF Given, Over
<1>5. Swiped
  BY <1>1 DEF Swiped, Over
<1>6. Kernel
  BY <1>1, Apart DEF Kernel
<1>7. QED
  BY <1>2, <1>3, <1>4, <1>5, <1>6 DEF IInv

(* It is where the program begins.                                         *)
LEMMA InitHolds == Init => IInv
BY EmptyFits DEF Init, Empty, Over

(* What the end of a process leaves, if every file leads to an open socket *)
(* or to none                                                              *)
LEMMA EndHolds ==
    ASSUME Types, NEW s \in Over, NEW f \in [UnixPlace -> Fd \cup {None, Dead}],
           \A x \in UnixPlace : f[x] \in Fd => f[x] \in Open, End(s, f)
    PROVE  IInv'
<1>1. /\ pc' \in Over /\ bound' = [fd \in Fd |-> None]
      /\ sockets_list' = <<>> /\ listening_socket' = [p \in Pool |-> None]
      /\ FPM_SOCKETS' = <<>> /\ todo' = {} /\ i' = 1 /\ lost' = {}
      /\ config' \in Configs
  BY DEF End, Closed, Types
<1>2. file' \in [UnixPlace -> {None, Dead}]
  BY DEF End, Orphaned
<1>3. Empty'
  BY <1>1, <1>2 DEF Empty
<1>4. (Empty => IInv)'
  BY EmptyFits, PTL
<1>5. QED
  BY <1>3, <1>4

(* Kernel's first part, as the ends need it                                *)
LEMMA FilesOpen ==
    ASSUME Types, Kernel, NEW x \in UnixPlace, file[x] \in Fd
    PROVE  file[x] \in Open
BY Apart DEF Types, Kernel, Open, UnixPlace, Address

(* A refusal, a failure, a failed exec and an exit end the process.        *)
LEMMA EndsHold ==
    ASSUME IInv,
           \/ \E p \in Pool : Refused(p) \/ CreateFails(p)
           \/ ExecFails \/ Exit
    PROVE  IInv'
<1>0. Types /\ Kernel
  BY DEF IInv
<1>1. file \in [UnixPlace -> Fd \cup {None, Dead}]
  BY <1>0 DEF Types
<1>2. \A x \in UnixPlace : file[x] \in Fd => file[x] \in Open
  BY <1>0, FilesOpen
<1>3. CASE (\E p \in Pool : Refused(p)) \/ ExecFails
  <2>1. \E s \in Over : End(s, file)
    BY <1>3 DEF Refused, ExecFails, Over
  <2>2. QED
    BY <1>0, <1>1, <1>2, <2>1, EndHolds
<1>4. ASSUME NEW p \in Pool, CreateFails(p)
      PROVE  IInv'
  <2>1. CASE End("failed", file)
    BY <1>0, <1>1, <1>2, <2>1, EndHolds DEF Over
  <2>2. CASE config[p] \in Unix /\ \E x \in {None, Dead} :
                End("failed", [file EXCEPT ![place[config[p]]] = x])
    <3>1. PICK x \in {None, Dead} :
              End("failed", [file EXCEPT ![place[config[p]]] = x])
      BY <2>2
    <3> DEFINE f == [file EXCEPT ![place[config[p]]] = x]
    <3>2. /\ f \in [UnixPlace -> Fd \cup {None, Dead}]
          /\ \A y \in UnixPlace : f[y] \in Fd => f[y] \in Open
      BY <1>1, <1>2, Apart
    <3> HIDE DEF f
    <3>3. End("failed", f)
      BY <3>1 DEF f
    <3>4. QED
      BY <1>0, <3>2, <3>3, EndHolds DEF Over
  <2>3. QED
    BY <1>4, <2>1, <2>2 DEF CreateFails
<1>5. CASE Exit
  <2> DEFINE f == Unlink({sockets_list[n].key : n \in Index}, file)
  <2>1. /\ f \in [UnixPlace -> Fd \cup {None, Dead}]
        /\ \A y \in UnixPlace : f[y] \in Fd => f[y] \in Open
    BY <1>1, <1>2, Apart DEF Unlink
  <2> HIDE DEF f
  <2>2. End("exited", f)
    BY <1>5 DEF Exit, f
  <2>3. QED
    BY <1>0, <2>1, <2>2, EndHolds DEF Over
<1>6. QED
  BY <1>3, <1>4, <1>5

(* A start begins with nothing to inherit.                                 *)
LEMMA StartHolds ==
    ASSUME IInv, NEW c \in Configs, Start(c)
    PROVE  IInv'
<1>0. /\ Types /\ Listing /\ Pending /\ Remembered /\ Given /\ Counting
      /\ Swiped /\ Kernel
  BY DEF IInv
<1>1. /\ pc \in Over /\ pc' = "import" /\ config' \in Configs /\ todo' = Pool
      /\ UNCHANGED <<FPM_SOCKETS, i, listening_socket, sockets_list, bound, file,
                     lost>>
  BY DEF Start, Over, kernel
<1>2. Open' = Open /\ Index' = Index /\ Listed' = Listed /\ Inherit' = Inherit
  BY <1>1 DEF Open, Index, Listed, Inherit
<1>3. /\ FPM_SOCKETS = <<>> /\ sockets_list = <<>>
      /\ \A p \in Pool : listening_socket[p] = None
  BY <1>0, <1>1 DEF Given
<1>4. Types'
  BY <1>0, <1>1, <1>2 DEF Types
<1>5. Listing' /\ Pending' /\ Remembered'
  BY <1>0, <1>1, <1>2 DEF Listing, Pending, Remembered, Fits
<1>6. Given'
  BY <1>1, <1>3 DEF Given, Over
<1>7. Counting' /\ Swiped'
  BY <1>0, <1>1, <1>2 DEF Counting, Swiped, Listeners
<1>8. Kernel'
  BY <1>0, <1>1, <1>2 DEF Kernel, Leads
<1>9. QED
  BY <1>4, <1>5, <1>6, <1>7, <1>8 DEF IInv

(* The phases of fpm_sockets_init_main follow on each other.               *)
LEMMA PhaseHolds ==
    ASSUME IInv, (Import /\ FPM_SOCKETS = <<>>) \/ Created \/ Swept
    PROVE  IInv'
<1>0. /\ Types /\ Listing /\ Pending /\ Remembered /\ Given /\ Counting
      /\ Swiped /\ Kernel
  BY DEF IInv
<1>1. /\ UNCHANGED <<config, FPM_SOCKETS, todo, listening_socket, sockets_list,
                     bound, file, lost>>
      /\ \/ pc = "import" /\ pc' = "create" /\ FPM_SOCKETS = <<>> /\ i' = i
         \/ pc = "create" /\ pc' = "sweep" /\ todo = {} /\ i' = 1
         \/ pc = "sweep" /\ pc' = "run" /\ i \notin Index /\ i' = i
  BY DEF Import, Created, Swept, image, kernel
<1>2. Open' = Open /\ Index' = Index /\ Listed' = Listed /\ Inherit' = Inherit
  BY <1>1 DEF Open, Index, Listed, Inherit
<1>3. Len(sockets_list) \in Nat /\ i \in 1 .. Len(sockets_list) + 1
  BY <1>0 DEF Types
<1>4. Types'
  BY <1>0, <1>1, <1>2, <1>3 DEF Types
<1>5. Listing' /\ Pending' /\ Remembered'
  BY <1>0, <1>1, <1>2 DEF Listing, Pending, Remembered, Fits
<1>6. Given'
  <2>1. pc \notin Over /\ pc' \notin Over
    BY <1>1 DEF Over
  <2>2. QED
    BY <1>0, <1>1, <1>2, <2>1 DEF Given
<1>7. Counting'
  BY <1>0, <1>1, <1>2 DEF Counting, Listeners
<1>8. Swiped'
  <2>1. pc = "sweep" /\ i \notin Index => Index = 1 .. i - 1
    BY <1>3 DEF Index
  <2>2. CASE pc' = "sweep"
    <3>1. i' = 1
      BY <1>1, <2>2
    <3>2. QED
      BY <2>2, <3>1 DEF Swiped
  <2>3. CASE pc' # "sweep"
    BY <1>0, <1>1, <1>2, <2>1, <2>3 DEF Swiped
  <2>4. QED
    BY <2>2, <2>3
<1>9. Kernel'
  BY <1>0, <1>1, <1>2 DEF Kernel, Leads
<1>10. QED
  BY <1>4, <1>5, <1>6, <1>7, <1>8, <1>9 DEF IInv

(* An entry in use is a socket, and so is one that a running master has.   *)
LEMMA InUse ==
    ASSUME Types, Listing, Counting, NEW n \in Index,
           sockets_list[n].refcount # 0
    PROVE  Fits(sockets_list[n]) /\ sockets_list[n].sock # 0
<1>1. sockets_list[n].sock # 0
  <2>1. SUFFICES ASSUME sockets_list[n].sock = 0
                 PROVE  FALSE
    OBVIOUS
  <2>2. \A p \in Pool : listening_socket[p] # 0
    BY Apart DEF Types
  <2>3. QED
    BY <2>1, <2>2, NoListeners DEF Counting
<1>2. QED
  BY <1>1 DEF Listing

(* A reload passes on what the array holds.                                *)
LEMMA ReloadHolds ==
    ASSUME IInv, NEW c \in Configs, Reload(c)
    PROVE  IInv'
<1>0. /\ Types /\ Listing /\ Pending /\ Remembered /\ Given /\ Counting
      /\ Swiped /\ Kernel
  BY DEF IInv
<1>1. /\ pc = "run" /\ pc' = "import" /\ config' \in Configs
      /\ FPM_SOCKETS' = [n \in Index |-> [key  |-> sockets_list[n].key,
                                          sock |-> sockets_list[n].sock]]
      /\ sockets_list' = <<>> /\ todo' = Pool /\ i' = 1
      /\ listening_socket' = [p \in Pool |-> None]
      /\ UNCHANGED <<bound, file, lost>>
  BY DEF Reload, kernel
<1>2. \A n \in Index : Fits(sockets_list[n]) /\ sockets_list[n].sock # 0
  BY <1>0, <1>1, InUse DEF Swiped
<1>3. \A n \in Index : /\ sockets_list[n].key \in Address
                       /\ sockets_list[n].sock \in Fd
  <2>1. \A n \in Index : sockets_list[n] \in Entry
    BY <1>0 DEF Types, Index
  <2>2. QED
    BY <1>2, <2>1 DEF Entry, Fits
<1>4. /\ FPM_SOCKETS' \in Seq(Pair) /\ Inherit' = Index
      /\ \A n \in Index : /\ FPM_SOCKETS'[n].key = sockets_list[n].key
                          /\ FPM_SOCKETS'[n].sock = sockets_list[n].sock
  <2>1. Index = 1 .. Len(sockets_list) /\ Len(sockets_list) \in Nat
    BY <1>0 DEF Index, Types
  <2>2. FPM_SOCKETS' \in Seq(Pair) /\ Len(FPM_SOCKETS') = Len(sockets_list)
    BY <1>1, <1>3, <2>1 DEF Pair
  <2>3. QED
    BY <1>1, <2>1, <2>2 DEF Inherit
<1>5. Open' = Open /\ Index' = {} /\ Listed' = {}
  BY <1>1 DEF Open, Index, Listed
<1>6. Types'
  <2>1. sockets_list' \in Seq(Entry) /\ i' \in 1 .. Len(sockets_list') + 1
    BY <1>1
  <2>2. listening_socket' \in [Pool -> Fd \cup {None}]
    BY <1>1
  <2>3. QED
    BY <1>0, <1>1, <1>4, <1>5, <2>1, <2>2 DEF Types
<1>7. Listing' /\ Counting' /\ Swiped'
  BY <1>1, <1>5 DEF Listing, Counting, Swiped
<1>8. Pending'
  <2>1. (\A n \in Inherit : Fits(FPM_SOCKETS[n]))'
    BY <1>1, <1>2, <1>4 DEF Fits
  <2>2. (\A m, n \in Inherit :
            LET d == FPM_SOCKETS[m]
                e == FPM_SOCKETS[n]
            IN  d.sock = e.sock \/ d.key = e.key => m = n)'
    BY <1>0, <1>2, <1>4 DEF Listing
  <2>3. QED
    BY <1>1, <1>5, <2>1, <2>2 DEF Pending
<1>9. Remembered'
  <2>1. FPM_SOCKETS = <<>>
    BY <1>0, <1>1 DEF Pending
  <2>2. Open \subseteq lost \cup Listed
    BY <1>0, <2>1 DEF Remembered, Inherit
  <2>3. QED
    BY <1>1, <1>4, <1>5, <2>2 DEF Remembered, Listed
<1>10. Given'
  BY <1>1, <1>5 DEF Given, Over
<1>11. Kernel'
  BY <1>0, <1>1, <1>4, <1>5 DEF Kernel, Leads
<1>12. QED
  BY <1>6, <1>7, <1>8, <1>9, <1>10, <1>11 DEF IInv

(* What an entry more is                                                   *)
LEMMA Grown ==
    ASSUME Types, NEW z \in Entry, sockets_list' = Append(sockets_list, z)
    PROVE  LET L == Len(sockets_list) + 1
           IN  /\ sockets_list' \in Seq(Entry) /\ Len(sockets_list') = L
               /\ Index' = Index \cup {L} /\ L \notin Index
               /\ \A n \in Index : sockets_list'[n] = sockets_list[n]
               /\ sockets_list'[L] = z
               /\ Listed' = Listed \cup {z.sock}
<1> DEFINE L == Len(sockets_list) + 1
<1>1. sockets_list \in Seq(Entry) /\ Index = 1 .. Len(sockets_list)
  BY DEF Types, Index
<1>2. /\ sockets_list' \in Seq(Entry) /\ Len(sockets_list') = L
      /\ \A n \in Index : sockets_list'[n] = sockets_list[n]
      /\ sockets_list'[L] = z
  BY <1>1, Pushed
<1>3. Index' = Index \cup {L} /\ L \notin Index
  <2>1. Index' = 1 .. Len(sockets_list')
    BY DEF Index
  <2>2. Len(sockets_list) \in Nat
    BY <1>1
  <2>3. QED
    BY <1>1, <1>2, <2>1, <2>2
<1>4. Listed' = Listed \cup {z.sock}
  BY <1>2, <1>3 DEF Listed
<1>5. QED
  BY <1>2, <1>3, <1>4

(* What Import does with the first entry: it comes over, or its socket is  *)
(* lost, perhaps with an entry for something else in its place.            *)
LEMMA ImportStep ==
    ASSUME Types, Pending, Uncut, Import, FPM_SOCKETS # <<>>
    PROVE  LET h == FPM_SOCKETS[1]
           IN  \E z \in Entry :
                  /\ z.refcount = 0
                  /\ \/ /\ z.sock = h.sock /\ z.key = h.key
                        /\ sockets_list' = Append(sockets_list, z)
                        /\ lost' = lost
                     \/ /\ \/ sockets_list' = sockets_list
                           \/ /\ z.sock = 0 /\ z.key \notin Configured
                              /\ sockets_list' = Append(sockets_list, z)
                        /\ lost' = lost \cup {h.sock}
<1> DEFINE h == FPM_SOCKETS[1]
           e == Read(h)
           z == [key |-> e.key, sock |-> e.sock, refcount |-> 0]
           w == [key |-> e.key, sock |-> 0, refcount |-> 0]
<1>1. /\ h = Head(FPM_SOCKETS) /\ h \in Pair /\ 1 \in Inherit
  <2>1. Len(FPM_SOCKETS) \in Nat \ {0} /\ h = Head(FPM_SOCKETS) /\ h \in Pair
    BY Shifted DEF Types
  <2>2. QED
    BY <2>1 DEF Inherit
<1>2. h.sock \in Fd /\ h.key \in Address /\ Fits(h)
  BY <1>1 DEF Pair, Pending
<1>3. /\ Store(e.key, e.sock, 0)
      /\ Lose(h.sock)
  BY <1>1 DEF Import, ImportCount
<1>4. sockets_list' \in {sockets_list, Append(sockets_list, z)}
  BY <1>3 DEF Store
<1>5. /\ e.key \in Address /\ e.sock \in {0, h.sock}
      /\ Cut(h) => e.sock = 0 /\ e.key \notin Configured
      /\ ~Cut(h) => e = h
  <2>1. CASE Cut(h)
    BY <1>2, <2>1, AddressAssumption DEF Read, Cut, Uncut, Fits, Address
  <2>2. CASE ~Cut(h)
    BY <1>2, <2>2 DEF Read
  <2>3. QED
    BY <2>1, <2>2
<1> HIDE DEF e
<1>6. z \in Entry /\ w \in Entry
  BY <1>2, <1>5 DEF Entry
<1>7. \A n \in Index : sockets_list[n].sock # h.sock
  BY <1>1 DEF Pending
<1>8. DOMAIN sockets_list = Index /\ sockets_list \in Seq(Entry)
  BY DEF Types, Index
<1>9. CASE ~Cut(h) /\ sockets_list' = Append(sockets_list, z)
  <2> DEFINE L == Len(sockets_list) + 1
  <2>1. sockets_list'[L] = z /\ L \in DOMAIN sockets_list'
    BY <1>6, <1>8, <1>9
  <2>2. lost' = lost
    BY <1>3, <1>5, <1>9, <2>1 DEF Lose
  <2>3. QED
    BY <1>5, <1>6, <1>9, <2>2
<1>10. CASE Cut(h) \/ sockets_list' = sockets_list
  <2>1. \A n \in DOMAIN sockets_list' : sockets_list'[n].sock # h.sock
    <3>1. CASE sockets_list' = sockets_list
      BY <1>7, <1>8, <3>1
    <3>2. CASE sockets_list' = Append(sockets_list, z) /\ Cut(h)
      <4>1. Index' = Index \cup {Len(sockets_list) + 1}
            /\ (\A n \in Index : sockets_list'[n] = sockets_list[n])
            /\ sockets_list'[Len(sockets_list) + 1] = z
            /\ sockets_list' \in Seq(Entry)
        BY <1>6, <3>2, Grown
      <4>2. DOMAIN sockets_list' = Index'
        BY <4>1 DEF Index
      <4>3. z.sock # h.sock
        BY <1>2, <1>5, <3>2, Apart
      <4>4. QED
        BY <1>7, <4>1, <4>2, <4>3
    <3>3. QED
      BY <1>4, <1>10, <3>1, <3>2
  <2>2. lost' = lost \cup {h.sock}
    BY <1>3, <2>1 DEF Lose
  <2>3. CASE Cut(h)
    BY <1>4, <1>5, <1>6, <2>2, <2>3
  <2>4. CASE ~Cut(h)
    <3>1. sockets_list' = sockets_list
      BY <1>10, <2>4
    <3>2. QED
      BY <1>6, <2>2, <3>1
  <2>5. QED
    BY <2>3, <2>4
<1>11. QED
  BY <1>4, <1>9, <1>10

(* fpm_sockets_init_main reads back one entry of FPM_SOCKETS.              *)
LEMMA ImportHolds ==
    ASSUME IInv, Uncut, Import, FPM_SOCKETS # <<>>
    PROVE  IInv'
<1> DEFINE h == FPM_SOCKETS[1]
           L == Len(sockets_list) + 1
<1>0. /\ Types /\ Listing /\ Pending /\ Remembered /\ Given /\ Counting
      /\ Swiped /\ Kernel
  BY DEF IInv
<1>1. /\ pc = "import" /\ FPM_SOCKETS' = Tail(FPM_SOCKETS)
      /\ UNCHANGED <<pc, config, todo, i, listening_socket, bound, file>>
  BY DEF Import, kernel
<1>2. /\ FPM_SOCKETS' \in Seq(Pair) /\ 1 \in Inherit
      /\ \A n \in Inherit' : /\ n + 1 \in Inherit /\ n + 1 # 1
                             /\ FPM_SOCKETS'[n] = FPM_SOCKETS[n + 1]
      /\ \A n \in Inherit : n = 1 \/ (n - 1 \in Inherit' /\ n = (n - 1) + 1)
      /\ Inherit \subseteq Nat /\ Inherit' \subseteq Nat
      /\ \A n \in Inherit : FPM_SOCKETS[n] \in Pair
  <2>1. FPM_SOCKETS \in Seq(Pair)
    BY <1>0 DEF Types
  <2>2. /\ FPM_SOCKETS' \in Seq(Pair) /\ Len(FPM_SOCKETS) \in Nat \ {0}
        /\ Len(FPM_SOCKETS') = Len(FPM_SOCKETS) - 1
        /\ \A n \in 1 .. Len(FPM_SOCKETS) - 1 : FPM_SOCKETS'[n] = FPM_SOCKETS[n + 1]
    BY <1>1, <2>1, Shifted
  <2>3. Inherit' = 1 .. Len(FPM_SOCKETS) - 1
    BY <2>2 DEF Inherit
  <2>4. QED
    BY <2>1, <2>2, <2>3 DEF Inherit
<1>3. PICK z \in Entry :
          /\ z.refcount = 0
          /\ \/ /\ z.sock = h.sock /\ z.key = h.key
                /\ sockets_list' = Append(sockets_list, z)
                /\ lost' = lost
             \/ /\ \/ sockets_list' = sockets_list
                   \/ /\ z.sock = 0 /\ z.key \notin Configured
                      /\ sockets_list' = Append(sockets_list, z)
                /\ lost' = lost \cup {h.sock}
  BY <1>0, ImportStep
<1>4. /\ h \in Pair /\ h.sock \in Fd /\ Fits(h) /\ h.sock \in Open
      /\ h.key \in Address
  <2>1. h \in Pair /\ Fits(h)
    BY <1>0, <1>2 DEF Pending
  <2>2. QED
    BY <1>0, <2>1, OpenIs, Apart DEF Fits, Pair
<1>5. \/ /\ sockets_list' = sockets_list /\ Index' = Index /\ Listed' = Listed
         /\ lost' = lost \cup {h.sock}
      \/ /\ sockets_list' = Append(sockets_list, z)
         /\ sockets_list' \in Seq(Entry) /\ Len(sockets_list') = L
         /\ Index' = Index \cup {L} /\ L \notin Index
         /\ (\A n \in Index : sockets_list'[n] = sockets_list[n])
         /\ sockets_list'[L] = z
         /\ Listed' = Listed \cup {z.sock}
         /\ \/ z.sock = h.sock /\ z.key = h.key /\ lost' = lost
            \/ z.sock = 0 /\ z.key \notin Configured /\ lost' = lost \cup {h.sock}
  <2>1. CASE sockets_list' = sockets_list /\ lost' = lost \cup {h.sock}
    BY <2>1 DEF Index, Listed
  <2>2. CASE /\ sockets_list' = Append(sockets_list, z)
             /\ \/ z.sock = h.sock /\ z.key = h.key /\ lost' = lost
                \/ z.sock = 0 /\ z.key \notin Configured /\ lost' = lost \cup {h.sock}
    <3>1. /\ sockets_list' \in Seq(Entry) /\ Len(sockets_list') = L
          /\ Index' = Index \cup {L} /\ L \notin Index
          /\ (\A n \in Index : sockets_list'[n] = sockets_list[n])
          /\ sockets_list'[L] = z
          /\ Listed' = Listed \cup {z.sock}
      BY <1>0, <2>2, Grown
    <3>2. QED
      BY <2>2, <3>1
  <2>3. QED
    BY <1>3, <2>1, <2>2
<1>6. /\ Open' = Open /\ lost \subseteq lost' /\ lost' \subseteq lost \cup {h.sock}
      /\ Index \subseteq Index'
      /\ \A n \in Index : sockets_list'[n] = sockets_list[n]
      /\ \A n \in Index' \ Index :
            LET e == sockets_list'[n] IN
            /\ n = L /\ e.refcount = 0
            /\ \/ e.sock = h.sock /\ e.key = h.key /\ lost' = lost
               \/ e.sock = 0 /\ e.key \notin Configured
  BY <1>1, <1>3, <1>5 DEF Open
<1>7. \A n \in Inherit, m \in Index :
          /\ FPM_SOCKETS[n].sock # sockets_list[m].sock
          /\ FPM_SOCKETS[n].key # sockets_list[m].key
          /\ FPM_SOCKETS[n].sock = h.sock \/ FPM_SOCKETS[n].key = h.key => n = 1
  BY <1>0, <1>2 DEF Pending
<1>8. ASSUME NEW e, Fits(e), e.sock # h.sock \/ lost' = lost
      PROVE  e.sock \in Fd \ lost' /\ e.key \in Configured /\ bound'[e.sock] = place[e.key]
  BY <1>1, <1>6, <1>8 DEF Fits
<1>9. Types'
  <2>1. /\ sockets_list' \in Seq(Entry) /\ i' \in 1 .. Len(sockets_list') + 1
    BY <1>0, <1>1, <1>5 DEF Types
  <2>2. lost' \subseteq Open'
    BY <1>0, <1>4, <1>6 DEF Types
  <2>3. QED
    BY <1>0, <1>1, <1>2, <2>1, <2>2 DEF Types
<1>10. Listing'
  <2>1. ASSUME NEW n \in Index'
        PROVE  LET e == sockets_list'[n] IN
               IF e.sock = 0 THEN e.key \notin Configured
               ELSE /\ e.sock \in Fd \ lost' /\ e.key \in Configured
                    /\ bound'[e.sock] = place[e.key]
    <3>1. CASE n \in Index
      <4>1. sockets_list[n].sock # h.sock
        BY <1>2, <1>7, <3>1
      <4>2. QED
        BY <1>0, <1>6, <1>8, <3>1, <4>1 DEF Listing
    <3>2. CASE n \notin Index
      BY <1>4, <1>6, <1>8, <3>2, Apart DEF Fits
    <3>3. QED
      BY <3>1, <3>2
  <2>2. ASSUME NEW m \in Index', NEW n \in Index'
        PROVE  LET d == sockets_list'[m]
                   e == sockets_list'[n]
               IN  d.sock # 0 /\ (d.sock = e.sock \/ d.key = e.key) => m = n
    <3>1. CASE m \in Index /\ n \in Index
      BY <1>0, <1>6, <3>1 DEF Listing
    <3>2. CASE m \in Index /\ n \notin Index
      <4>1. /\ sockets_list[m].sock # h.sock /\ sockets_list[m].key # h.key
            /\ sockets_list[m].sock # 0 => sockets_list[m].key \in Configured
        BY <1>0, <1>2, <1>7, <3>2 DEF Listing, Fits
      <4>2. QED
        BY <1>6, <3>2, <4>1
    <3>3. CASE m \notin Index /\ n \in Index
      BY <1>2, <1>6, <1>7, <3>3
    <3>4. CASE m \notin Index /\ n \notin Index
      BY <1>6, <3>4
    <3>5. QED
      BY <3>1, <3>2, <3>3, <3>4
  <2>3. QED
    BY <2>1, <2>2 DEF Listing, Fits
<1>11. Pending'
  <2>1. (\A n \in Inherit : Fits(FPM_SOCKETS[n]))'
    <3>1. ASSUME NEW n \in Inherit'
          PROVE  /\ FPM_SOCKETS'[n].sock \in Fd \ lost'
                 /\ FPM_SOCKETS'[n].key \in Configured
                 /\ bound'[FPM_SOCKETS'[n].sock] = place[FPM_SOCKETS'[n].key]
      <4>1. /\ n + 1 \in Inherit /\ n + 1 # 1
            /\ FPM_SOCKETS'[n] = FPM_SOCKETS[n + 1]
        BY <1>2
      <4>2. Fits(FPM_SOCKETS[n + 1]) /\ FPM_SOCKETS[n + 1].sock # h.sock
        BY <1>0, <1>2, <4>1 DEF Pending
      <4>3. QED
        BY <1>8, <4>1, <4>2
    <3>2. QED
      BY <3>1 DEF Fits
  <2>2. (\A m, n \in Inherit :
            LET d == FPM_SOCKETS[m]
                e == FPM_SOCKETS[n]
            IN  d.sock = e.sock \/ d.key = e.key => m = n)'
    <3> SUFFICES ASSUME NEW m \in Inherit', NEW n \in Inherit',
                        \/ FPM_SOCKETS'[m].sock = FPM_SOCKETS'[n].sock
                        \/ FPM_SOCKETS'[m].key = FPM_SOCKETS'[n].key
                 PROVE  m = n
      OBVIOUS
    <3>1. m + 1 = n + 1
      BY <1>0, <1>2 DEF Pending
    <3>2. m \in Nat /\ n \in Nat
      BY <1>2
    <3>3. QED
      BY <3>1, <3>2
  <2>3. ASSUME NEW m \in Inherit', NEW n \in Index'
        PROVE  /\ FPM_SOCKETS'[m].sock # sockets_list'[n].sock
               /\ FPM_SOCKETS'[m].key # sockets_list'[n].key
    <3>1. /\ m + 1 \in Inherit /\ m + 1 # 1
          /\ FPM_SOCKETS'[m] = FPM_SOCKETS[m + 1]
      BY <1>2
    <3>2. CASE n \in Index
      BY <1>6, <1>7, <3>1, <3>2
    <3>3. CASE n \notin Index
      <4>1. /\ FPM_SOCKETS[m + 1].sock # h.sock /\ FPM_SOCKETS[m + 1].key # h.key
        BY <1>0, <1>2, <3>1 DEF Pending
      <4>2. FPM_SOCKETS[m + 1].sock # 0 /\ FPM_SOCKETS[m + 1].key \in Configured
        BY <1>0, <3>1, Apart DEF Pending, Fits
      <4>3. QED
        BY <1>6, <3>1, <3>3, <4>1, <4>2
    <3>4. QED
      BY <3>2, <3>3
  <2>4. QED
    BY <1>1, <2>1, <2>2, <2>3 DEF Pending
<1>12. Remembered'
  <2>1. ASSUME NEW n \in Inherit
        PROVE  \/ FPM_SOCKETS[n].sock = h.sock
               \/ FPM_SOCKETS[n].sock \in {FPM_SOCKETS'[m].sock : m \in Inherit'}
    <3>1. CASE n = 1
      BY <3>1
    <3>2. CASE n # 1
      <4>1. n - 1 \in Inherit' /\ FPM_SOCKETS'[n - 1] = FPM_SOCKETS[n]
        BY <1>2, <3>2
      <4>2. QED
        BY <4>1
    <3>3. QED
      BY <3>1, <3>2
  <2>2. h.sock \in lost' \cup Listed'
    BY <1>5
  <2>3. Listed \subseteq Listed'
    BY <1>5
  <2>4. QED
    BY <1>0, <1>6, <2>1, <2>2, <2>3 DEF Remembered
<1>13. \A p \in Pool : listening_socket[p] = None
  BY <1>0, <1>1 DEF Given
<1>14. Given'
  <2>1. todo = Pool
    BY <1>0, <1>1 DEF Given
  <2>2. pc' \notin Over /\ pc' \notin {"sweep", "run"} /\ Pool \ todo' = {}
    BY <1>1, <2>1 DEF Over
  <2>3. QED
    BY <1>1, <1>13, <2>1, <2>2 DEF Given
<1>15. Counting'
  <2>1. ASSUME NEW n \in Index'
        PROVE  sockets_list'[n].refcount =
                  Cardinality({p \in Pool : listening_socket'[p] = sockets_list'[n].sock})
    <3>1. CASE n \in Index
      BY <1>0, <1>1, <1>6, <3>1 DEF Counting, Listeners
    <3>2. CASE n \notin Index
      <4>1. sockets_list'[n].sock # None /\ sockets_list'[n].refcount = 0
        BY <1>4, <1>6, <3>2, Apart
      <4>2. {p \in Pool : listening_socket'[p] = sockets_list'[n].sock} = {}
        BY <1>1, <1>13, <4>1
      <4>3. QED
        BY <4>1, <4>2, FS_EmptySet
    <3>3. QED
      BY <3>1, <3>2
  <2>2. QED
    BY <2>1 DEF Counting, Listeners
<1>16. Swiped'
  BY <1>1 DEF Swiped
<1>17. Kernel'
  <2>1. ASSUME PathsDiffer
        PROVE  /\ \A n \in Index' : Leads(sockets_list[n])'
               /\ \A n \in Inherit' : Leads(FPM_SOCKETS[n])'
    <3>1. /\ \A n \in Index : Leads(sockets_list[n])
          /\ \A n \in Inherit : Leads(FPM_SOCKETS[n])
      BY <1>0, <2>1 DEF Kernel
    <3>2. \A n \in Index' : Leads(sockets_list[n])'
      BY <1>1, <1>2, <1>6, <3>1 DEF Leads
    <3>3. ASSUME NEW n \in Inherit'
          PROVE  Leads(FPM_SOCKETS[n])'
      <4>1. n + 1 \in Inherit /\ FPM_SOCKETS'[n] = FPM_SOCKETS[n + 1]
        BY <1>2
      <4>2. Leads(FPM_SOCKETS[n + 1])
        BY <3>1, <4>1
      <4>3. QED
        BY <1>1, <4>1, <4>2 DEF Leads
    <3>4. QED
      BY <3>2, <3>3
  <2>2. QED
    BY <1>0, <1>1, <1>6, <2>1 DEF Kernel
<1>18. QED
  BY <1>9, <1>10, <1>11, <1>12, <1>14, <1>15, <1>16, <1>17 DEF IInv

(* The entry for a configured address is the only one.                     *)
LEMMA KnownOne ==
    ASSUME Types, Listing, NEW p \in Pool, Known(config[p]) # {}
    PROVE  \E n \in Index :
              /\ Min(Known(config[p])) = n
              /\ sockets_list[n].key = config[p] /\ Fits(sockets_list[n])
              /\ sockets_list[n].sock # 0
              /\ \A m \in Index : sockets_list[m].key = config[p] => m = n
<1>1. config[p] \in Configured
  BY DEF Types, Configured
<1>2. PICK n \in Index : sockets_list[n].key = config[p]
  BY DEF Known
<1>3. sockets_list[n].sock # 0 /\ Fits(sockets_list[n])
  BY <1>1, <1>2 DEF Listing
<1>4. \A m \in Index : sockets_list[m].key = config[p] => m = n
  BY <1>2, <1>3 DEF Listing
<1>5. Known(config[p]) = {n}
  BY <1>2, <1>4 DEF Known
<1>6. n \in Nat
  BY DEF Index
<1>7. Min({n}) = n
  BY <1>6 DEF Min
<1>8. QED
  BY <1>2, <1>3, <1>4, <1>5, <1>7

(* A pool joins those that listen on a socket.                             *)
LEMMA Joins ==
    ASSUME Types, NEW p \in Pool, NEW s \in Fd, listening_socket[p] = None,
           listening_socket' = [listening_socket EXCEPT ![p] = s]
    PROVE  /\ Cardinality(Listeners(s))' = Cardinality(Listeners(s)) + 1
           /\ \A t : t # s /\ t # None =>
                 Cardinality(Listeners(t))' = Cardinality(Listeners(t))
<1>1. \A q \in Pool : listening_socket'[q] = IF q = p THEN s ELSE listening_socket[q]
  BY DEF Types
<1>2. Listeners(s)' = Listeners(s) \cup {p} /\ p \notin Listeners(s)
  <2>1. s # None
    BY Apart
  <2>2. QED
    BY <1>1, <2>1 DEF Listeners
<1>3. Cardinality(Listeners(s))' = Cardinality(Listeners(s)) + 1
  BY <1>2, ListenersFinite, FS_AddElement
<1>4. ASSUME NEW t, t # s /\ t # None
      PROVE  Cardinality(Listeners(t))' = Cardinality(Listeners(t))
  <2>1. Listeners(t)' = Listeners(t)
    BY <1>1, <1>4 DEF Listeners
  <2>2. QED
    BY <2>1
<1>5. QED
  BY <1>3, <1>4

(* fpm_sockets_hash_op finds the pool's address.                           *)
LEMMA ShareHolds ==
    ASSUME IInv, NEW p \in Pool, Share(p)
    PROVE  IInv'
<1>0. /\ Types /\ Listing /\ Pending /\ Remembered /\ Given /\ Counting
      /\ Swiped /\ Kernel
  BY DEF IInv
<1>1. PICK n \in Index :
          /\ Min(Known(config[p])) = n
          /\ sockets_list[n].key = config[p] /\ Fits(sockets_list[n])
          /\ sockets_list[n].sock # 0
          /\ \A m \in Index : sockets_list[m].key = config[p] => m = n
  BY <1>0, KnownOne DEF Share
<1> DEFINE s == sockets_list[n].sock
<1>2. /\ pc = "create" /\ p \in todo /\ todo' = todo \ {p}
      /\ sockets_list' = [sockets_list EXCEPT ![n].refcount = @ + 1]
      /\ listening_socket' = [listening_socket EXCEPT ![p] = s]
      /\ UNCHANGED <<pc, config, FPM_SOCKETS, i, bound, file, lost>>
  BY <1>1 DEF Share, Use, kernel
<1>3. /\ sockets_list' \in Seq(Entry) /\ Len(sockets_list') = Len(sockets_list)
      /\ Index' = Index
      /\ \A m \in Index :
            /\ sockets_list'[m].key = sockets_list[m].key
            /\ sockets_list'[m].sock = sockets_list[m].sock
            /\ sockets_list[m].refcount \in Nat
            /\ sockets_list'[m].refcount =
                  sockets_list[m].refcount + (IF m = n THEN 1 ELSE 0)
  <2>1. sockets_list \in Seq(Entry) /\ Index = 1 .. Len(sockets_list)
    BY <1>0 DEF Types, Index
  <2>2. \A m \in Index : sockets_list[m] \in Entry
    BY <2>1
  <2>3. sockets_list' = [sockets_list EXCEPT ![n] =
                            [sockets_list[n] EXCEPT !.refcount = @ + 1]]
    BY <1>2
  <2> DEFINE x == [sockets_list[n] EXCEPT !.refcount = @ + 1]
  <2>4. /\ x \in Entry /\ x.key = sockets_list[n].key /\ x.sock = sockets_list[n].sock
        /\ x.refcount = sockets_list[n].refcount + 1
    BY <2>2 DEF Entry
  <2> HIDE DEF x
  <2>5. sockets_list' = [sockets_list EXCEPT ![n] = x]
    BY <2>3 DEF x
  <2>6. /\ sockets_list' \in Seq(Entry) /\ Len(sockets_list') = Len(sockets_list)
        /\ \A m \in Index : sockets_list'[m] = IF m = n THEN x ELSE sockets_list[m]
    BY <2>1, <2>4, <2>5
  <2>7. \A m \in Index : sockets_list[m].refcount \in Nat
    BY <2>2 DEF Entry
  <2>8. QED
    BY <2>1, <2>4, <2>6, <2>7 DEF Index
<1>4. /\ s \in Fd /\ bound[s] = place[config[p]] /\ listening_socket[p] = None
      /\ Open' = Open /\ Listed' = Listed /\ Inherit' = Inherit
      /\ \A q \in Pool : listening_socket'[q] = IF q = p THEN s ELSE listening_socket[q]
  <2>1. Listed' = Listed
    BY <1>3 DEF Listed
  <2>2. QED
    BY <1>0, <1>1, <1>2, <2>1 DEF Fits, Given, Open, Inherit, Types
<1>5. Types'
  BY <1>0, <1>2, <1>3, <1>4 DEF Types
<1>6. Listing' /\ Pending' /\ Remembered'
  BY <1>0, <1>2, <1>3, <1>4 DEF Listing, Pending, Remembered, Fits
<1>7. Given'
  <2>1. pc' \notin Over /\ pc' \notin {"import", "sweep", "run"}
    BY <1>2 DEF Over
  <2>2. \A q \in todo' : listening_socket'[q] = None
    BY <1>0, <1>2, <1>4 DEF Given, Types
  <2>3. ASSUME NEW q \in Pool \ todo'
        PROVE  /\ listening_socket'[q] \in Fd
               /\ bound'[listening_socket'[q]] = place[config'[q]]
               /\ \/ listening_socket'[q] \in lost'
                  \/ \E m \in Index' : /\ sockets_list'[m].sock = listening_socket'[q]
                                       /\ sockets_list'[m].key = config'[q]
               /\ \A m \in Index' :
                     sockets_list'[m].key = config'[q] => sockets_list'[m].refcount # 0
    <3>1. CASE q = p
      BY <1>1, <1>2, <1>3, <1>4, <3>1
    <3>2. CASE q # p
      <4>1. q \in Pool \ todo /\ pc \notin Over
        BY <1>2, <3>2 DEF Over
      <4>2. QED
        BY <1>0, <1>2, <1>3, <1>4, <3>2, <4>1 DEF Given
    <3>3. QED
      BY <3>1, <3>2
  <2>4. QED
    BY <2>1, <2>2, <2>3 DEF Given
<1>8. Counting'
  <2>0. PICK u \in Fd : u = s
    BY <1>4
  <2>1. /\ Cardinality(Listeners(u))' = Cardinality(Listeners(u)) + 1
        /\ \A t : t # u /\ t # None =>
              Cardinality(Listeners(t))' = Cardinality(Listeners(t))
    <3>1. listening_socket' = [listening_socket EXCEPT ![p] = u]
      BY <1>2, <2>0
    <3>2. QED
      BY <1>0, <1>4, <3>1, Joins
  <2>2. ASSUME NEW m \in Index
        PROVE  sockets_list'[m].refcount =
                  Cardinality({q \in Pool : listening_socket'[q] = sockets_list'[m].sock})
    <3>1. CASE m = n
      <4>1. /\ sockets_list'[m].sock = u
            /\ sockets_list'[m].refcount = sockets_list[n].refcount + 1
        BY <1>3, <2>0, <3>1
      <4>2. sockets_list[n].refcount = Cardinality(Listeners(u))
        BY <1>0, <2>0 DEF Counting
      <4>3. QED
        BY <2>1, <4>1, <4>2 DEF Listeners
    <3>2. CASE m # n
      <4>1. PICK t : t = sockets_list[m].sock
        OBVIOUS
      <4>2. t # s /\ t # None
        BY <1>0, <1>1, <3>2, <4>1, Apart DEF Listing, Fits
      <4>3. /\ sockets_list'[m].sock = t
            /\ sockets_list'[m].refcount = sockets_list[m].refcount
        BY <1>3, <3>2, <4>1
      <4>4. Cardinality(Listeners(t))' = Cardinality(Listeners(t))
        BY <2>0, <2>1, <4>2
      <4>5. sockets_list[m].refcount = Cardinality(Listeners(t))
        BY <1>0, <4>1 DEF Counting
      <4>6. QED
        BY <4>3, <4>4, <4>5 DEF Listeners
    <3>3. QED
      BY <3>1, <3>2
  <2>3. QED
    BY <1>3, <2>2 DEF Counting, Listeners
<1>9. Swiped'
  BY <1>2 DEF Swiped
<1>10. Kernel'
  BY <1>0, <1>2, <1>3, <1>4 DEF Kernel, Leads
<1>11. QED
  BY <1>5, <1>6, <1>7, <1>8, <1>9, <1>10 DEF IInv

(* fpm_sockets_new_listening_socket, and the push of its entry             *)
LEMMA CreateHolds ==
    ASSUME IInv, NEW p \in Pool, NEW fd \in Fd, Create(p, fd)
    PROVE  IInv'
<1> DEFINE a == config[p]
           z == [key |-> a, sock |-> fd, refcount |-> 1]
           L == Len(sockets_list) + 1
<1>0. /\ Types /\ Listing /\ Pending /\ Remembered /\ Given /\ Counting
      /\ Swiped /\ Kernel
  BY DEF IInv
<1>1. /\ pc = "create" /\ p \in todo /\ Known(a) = {} /\ ~Occupied(a)
      /\ bound[fd] = None
      /\ bound' = [bound EXCEPT ![fd] = place[a]]
      /\ file' = IF a \in Unix THEN [file EXCEPT ![place[a]] = fd] ELSE file
      /\ Store(a, fd, 1) /\ Lose(fd)
      /\ listening_socket' = [listening_socket EXCEPT ![p] = fd]
      /\ todo' = todo \ {p}
      /\ UNCHANGED <<pc, config, FPM_SOCKETS, i>>
  BY DEF Create
<1>2. /\ a \in Address /\ a \in Configured /\ place[a] \in Place /\ place[a] # None
      /\ a \in Unix => place[a] \in UnixPlace
      /\ a \notin Unix => a \in Inet
      /\ place[a] \in Ports => a \in Inet
  <2>1. a \in Address /\ a \in Configured
    BY <1>0, ConfigAssumption DEF Types, Configured
  <2>2. place[a] \in Ports => a \in Inet
    BY <2>1, AddressAssumption DEF Ports, Address
  <2>3. QED
    BY <2>1, <2>2, Apart DEF Address
<1>3. z \in Entry
  BY <1>2 DEF Entry
<1>4. /\ FPM_SOCKETS = <<>> /\ Inherit = {} /\ Inherit' = {}
  BY <1>0, <1>1 DEF Pending, Inherit
<1>5. /\ Open' = Open \cup {fd} /\ fd \notin Open
      /\ \A gd \in Fd : bound'[gd] = IF gd = fd THEN place[a] ELSE bound[gd]
  BY <1>0, <1>1, <1>2 DEF Open, Types
<1>6. \A n \in Index : /\ sockets_list[n].sock # fd /\ sockets_list[n].key # a
                       /\ sockets_list[n].sock # None
                       /\ sockets_list[n] \in Entry
  <2>1. \A n \in Index : sockets_list[n].sock = fd => bound[fd] = place[sockets_list[n].key]
                            /\ sockets_list[n].key \in Configured
    BY <1>0, Apart DEF Listing, Fits
  <2>2. \A n \in Index : sockets_list[n].sock # fd
    BY <1>1, <2>1, Apart
  <2>3. \A n \in Index : sockets_list[n] \in Entry
    BY <1>0 DEF Types, Index
  <2>4. \A n \in Index : sockets_list[n].sock # None
    BY <2>3, Apart DEF Entry
  <2>5. QED
    BY <1>1, <2>2, <2>3, <2>4 DEF Known
<1>7. \/ /\ sockets_list' = sockets_list /\ Index' = Index /\ Listed' = Listed
         /\ lost' = lost \cup {fd}
      \/ /\ sockets_list' = Append(sockets_list, z)
         /\ sockets_list' \in Seq(Entry) /\ Len(sockets_list') = L
         /\ Index' = Index \cup {L} /\ L \notin Index
         /\ (\A n \in Index : sockets_list'[n] = sockets_list[n])
         /\ sockets_list'[L] = z
         /\ Listed' = Listed \cup {fd}
         /\ lost' = lost
  <2>1. CASE sockets_list' = sockets_list
    <3>1. DOMAIN sockets_list' = Index
      BY <1>0, <2>1 DEF Types, Index
    <3>2. lost' = lost \cup {fd}
      BY <1>1, <1>6, <2>1, <3>1 DEF Lose
    <3>3. QED
      BY <2>1, <3>2 DEF Index, Listed
  <2>2. CASE sockets_list' = Append(sockets_list, z)
    <3>1. /\ sockets_list' \in Seq(Entry) /\ Len(sockets_list') = L
          /\ Index' = Index \cup {L} /\ L \notin Index
          /\ (\A n \in Index : sockets_list'[n] = sockets_list[n])
          /\ sockets_list'[L] = z
          /\ Listed' = Listed \cup {fd}
      BY <1>0, <1>3, <2>2, Grown
    <3>2. L \in DOMAIN sockets_list' /\ sockets_list'[L].sock = fd
      BY <1>0, <3>1 DEF Types
    <3>3. lost' = lost
      BY <1>1, <3>2 DEF Lose
    <3>4. QED
      BY <2>2, <3>1, <3>3
  <2>3. QED
    BY <1>1, <2>1, <2>2 DEF Store
<1>8. /\ lost \subseteq lost' /\ lost' \subseteq lost \cup {fd}
      /\ Index \subseteq Index'
      /\ \A n \in Index : sockets_list'[n] = sockets_list[n]
      /\ \A n \in Index' \ Index :
            /\ n = L /\ sockets_list'[n].sock = fd /\ sockets_list'[n].key = a
            /\ sockets_list'[n].refcount = 1 /\ lost' = lost
      /\ fd \in lost' \cup Listed'
      /\ fd \notin lost' => \E n \in Index' : /\ sockets_list'[n].sock = fd
                                              /\ sockets_list'[n].key = a
  BY <1>7
<1>9. \A q \in Pool : /\ listening_socket'[q] = IF q = p THEN fd ELSE listening_socket[q]
                      /\ listening_socket[q] # fd
      /\ listening_socket[p] = None
  <2>1. ASSUME NEW q \in Pool
        PROVE  listening_socket[q] # fd
    <3>1. CASE q \in todo
      BY <1>0, <3>1, Apart DEF Given
    <3>2. CASE q \notin todo
      <4>1. bound[listening_socket[q]] = place[config[q]] /\ config[q] \in Address
        BY <1>0, <1>1, <3>2, ConfigAssumption DEF Given, Over, Types
      <4>2. QED
        BY <1>1, <4>1, Apart
    <3>3. QED
      BY <3>1, <3>2
  <2>2. QED
    BY <1>0, <1>1, <2>1 DEF Given, Types
<1>10. Types'
  <2>1. file' \in [UnixPlace -> Fd \cup {None, Dead}]
    BY <1>0, <1>1, <1>2 DEF Types
  <2>2. /\ sockets_list' \in Seq(Entry) /\ i' \in 1 .. Len(sockets_list') + 1
    BY <1>0, <1>1, <1>7 DEF Types
  <2>3. /\ bound' \in [Fd -> Place \cup {None}]
        /\ listening_socket' \in [Pool -> Fd \cup {None}]
    BY <1>0, <1>1, <1>2 DEF Types
  <2>4. lost' \subseteq Open'
    BY <1>0, <1>5, <1>8 DEF Types
  <2>5. QED
    BY <1>0, <1>1, <2>1, <2>2, <2>3, <2>4 DEF Types
<1>11. Listing'
  <2>1. ASSUME NEW n \in Index'
        PROVE  LET e == sockets_list'[n] IN
               IF e.sock = 0 THEN e.key \notin Configured
               ELSE /\ e.sock \in Fd \ lost' /\ e.key \in Configured
                    /\ bound'[e.sock] = place[e.key]
    <3>1. CASE n \in Index
      BY <1>0, <1>5, <1>6, <1>8, <3>1 DEF Listing, Fits
    <3>2. CASE n \notin Index
      <4>1. fd \notin lost
        BY <1>0, <1>5 DEF Types
      <4>2. QED
        BY <1>2, <1>5, <1>8, <3>2, <4>1, Apart
    <3>3. QED
      BY <3>1, <3>2
  <2>2. ASSUME NEW m \in Index', NEW n \in Index'
        PROVE  LET d == sockets_list'[m]
                   e == sockets_list'[n]
               IN  d.sock # 0 /\ (d.sock = e.sock \/ d.key = e.key) => m = n
    <3>1. CASE m \in Index /\ n \in Index
      BY <1>0, <1>8, <3>1 DEF Listing
    <3>2. CASE m \notin Index \/ n \notin Index
      BY <1>6, <1>8, <3>2
    <3>3. QED
      BY <3>1, <3>2
  <2>3. QED
    BY <2>1, <2>2 DEF Listing, Fits
<1>12. Pending'
  BY <1>1, <1>4 DEF Pending
<1>13. Remembered'
  <2>1. Open \subseteq lost \cup Listed
    BY <1>0, <1>4 DEF Remembered
  <2>2. Listed \subseteq Listed'
    BY <1>7
  <2>3. QED
    BY <1>5, <1>8, <2>1, <2>2 DEF Remembered
<1>14. Given'
  <2>1. pc' \notin Over /\ pc' \notin {"import", "sweep", "run"}
    BY <1>1 DEF Over
  <2>2. \A q \in todo' : listening_socket'[q] = None
    BY <1>0, <1>1, <1>9 DEF Given, Types
  <2>3. ASSUME NEW q \in Pool \ todo'
        PROVE  /\ listening_socket'[q] \in Fd
               /\ bound'[listening_socket'[q]] = place[config'[q]]
               /\ \/ listening_socket'[q] \in lost'
                  \/ \E m \in Index' : /\ sockets_list'[m].sock = listening_socket'[q]
                                       /\ sockets_list'[m].key = config'[q]
               /\ \A m \in Index' :
                     sockets_list'[m].key = config'[q] => sockets_list'[m].refcount # 0
    <3>1. CASE q = p
      <4>1. listening_socket'[q] = fd /\ config'[q] = a
        BY <1>1, <1>9, <3>1
      <4>2. \A m \in Index' :
                sockets_list'[m].key = a => sockets_list'[m].refcount # 0
        BY <1>6, <1>8
      <4>3. QED
        BY <1>5, <1>8, <4>1, <4>2
    <3>2. CASE q # p
      <4>1. q \in Pool \ todo /\ pc \notin Over
        BY <1>1, <3>2 DEF Over
      <4>2. /\ listening_socket'[q] = listening_socket[q] /\ config'[q] = config[q]
            /\ listening_socket[q] # fd
        BY <1>1, <1>9, <3>2
      <4>3. /\ listening_socket[q] \in Fd
            /\ bound[listening_socket[q]] = place[config[q]]
            /\ \/ listening_socket[q] \in lost
               \/ \E m \in Index : /\ sockets_list[m].sock = listening_socket[q]
                                   /\ sockets_list[m].key = config[q]
            /\ \A m \in Index :
                  sockets_list[m].key = config[q] => sockets_list[m].refcount # 0
        BY <1>0, <4>1 DEF Given
      <4>4. \A m \in Index' :
                sockets_list'[m].key = config'[q] => sockets_list'[m].refcount # 0
        BY <1>8, <4>2, <4>3
      <4>5. \/ listening_socket'[q] \in lost'
            \/ \E m \in Index' : /\ sockets_list'[m].sock = listening_socket'[q]
                                 /\ sockets_list'[m].key = config'[q]
        BY <1>8, <4>2, <4>3
      <4>6. QED
        BY <1>5, <4>2, <4>3, <4>4, <4>5
    <3>3. QED
      BY <3>1, <3>2
  <2>4. QED
    BY <2>1, <2>2, <2>3 DEF Given
<1>15. Counting'
  <2>1. /\ Cardinality(Listeners(fd))' = Cardinality(Listeners(fd)) + 1
        /\ \A t : t # fd /\ t # None =>
              Cardinality(Listeners(t))' = Cardinality(Listeners(t))
    BY <1>0, <1>1, <1>9, Joins
  <2>2. Cardinality(Listeners(fd)) = 0
    BY <1>9, NoListeners
  <2>3. ASSUME NEW m \in Index'
        PROVE  sockets_list'[m].refcount =
                  Cardinality({q \in Pool : listening_socket'[q] = sockets_list'[m].sock})
    <3>1. CASE m \in Index
      <4>1. PICK t : t = sockets_list[m].sock
        OBVIOUS
      <4>2. t # fd /\ t # None
        BY <1>6, <3>1, <4>1
      <4>3. /\ sockets_list'[m].sock = t
            /\ sockets_list'[m].refcount = sockets_list[m].refcount
        BY <1>8, <3>1, <4>1
      <4>4. Cardinality(Listeners(t))' = Cardinality(Listeners(t))
        BY <2>1, <4>2
      <4>5. sockets_list[m].refcount = Cardinality(Listeners(t))
        BY <1>0, <3>1, <4>1 DEF Counting
      <4>6. QED
        BY <4>3, <4>4, <4>5 DEF Listeners
    <3>2. CASE m \notin Index
      <4>1. sockets_list'[m].sock = fd /\ sockets_list'[m].refcount = 1
        BY <1>8, <3>2
      <4>2. Cardinality(Listeners(fd))' = 1
        BY <2>1, <2>2
      <4>3. QED
        BY <4>1, <4>2 DEF Listeners
    <3>3. QED
      BY <3>1, <3>2
  <2>4. QED
    BY <2>3 DEF Counting, Listeners
<1>16. Swiped'
  BY <1>1 DEF Swiped
<1>17. Kernel'
  <2>1. ASSUME NEW x \in UnixPlace, file'[x] \in Fd
        PROVE  bound'[file'[x]] = x
    <3>1. CASE a \in Unix /\ x = place[a]
      BY <1>0, <1>1, <1>2, <1>5, <3>1 DEF Types
    <3>2. CASE ~(a \in Unix /\ x = place[a])
      <4>1. file'[x] = file[x]
        BY <1>0, <1>1, <1>2, <3>2 DEF Types
      <4>2. file[x] \in Open /\ bound[file[x]] = x
        BY <1>0, <2>1, <4>1, FilesOpen DEF Kernel
      <4>3. QED
        BY <1>5, <2>1, <4>1, <4>2
    <3>3. QED
      BY <3>1, <3>2
  <2>2. ASSUME NEW gd \in Open', NEW hd \in Open', bound'[gd] = bound'[hd],
               bound'[gd] \in Ports
        PROVE  gd = hd
    <3>1. \A o \in Open : bound[o] # place[a] \/ place[a] \notin Ports
      BY <1>1, <1>2 DEF Occupied
    <3>2. Open \subseteq Fd
      BY DEF Open
    <3>3. QED
      BY <1>0, <1>5, <2>2, <3>1, <3>2 DEF Kernel
  <2>3. ASSUME PathsDiffer, NEW n \in Index', sockets_list'[n].sock # 0,
               sockets_list'[n].key \in Unix
        PROVE  file'[place[sockets_list'[n].key]] = sockets_list'[n].sock
    <3>1. CASE n \in Index
      <4>1. /\ sockets_list'[n] = sockets_list[n] /\ sockets_list[n].key # a
        BY <1>6, <1>8, <3>1
      <4>2. file[place[sockets_list[n].key]] = sockets_list[n].sock
        BY <1>0, <2>3, <3>1, <4>1 DEF Kernel, Leads
      <4>3. a \in Unix => place[sockets_list[n].key] # place[a]
        BY <2>3, <4>1 DEF PathsDiffer
      <4>4. file'[place[sockets_list[n].key]] = file[place[sockets_list[n].key]]
        BY <1>0, <1>1, <2>3, <4>1, <4>3, Apart DEF Types
      <4>5. QED
        BY <4>1, <4>2, <4>4
    <3>2. CASE n \notin Index
      BY <1>0, <1>1, <1>2, <1>8, <2>3, <3>2 DEF Types
    <3>3. QED
      BY <3>1, <3>2
  <2>4. QED
    BY <1>4, <2>1, <2>2, <2>3 DEF Kernel, Leads
<1>18. QED
  BY <1>10, <1>11, <1>12, <1>13, <1>14, <1>15, <1>16, <1>17 DEF IInv

(* One turn of the last loop: the entry is in use, or its socket is closed *)
(* and its file unlinked.                                                  *)
LEMMA SweepHolds ==
    ASSUME IInv, Sweep
    PROVE  IInv'
<1> DEFINE e == sockets_list[i]
           N == Len(sockets_list)
           from(n) == IF n = i THEN N ELSE n
<1>0. /\ Types /\ Listing /\ Pending /\ Remembered /\ Given /\ Counting
      /\ Swiped /\ Kernel
  BY DEF IInv
<1>1. /\ pc = "sweep" /\ i \in Index /\ todo = {} /\ FPM_SOCKETS = <<>> /\ Inherit = {}
      /\ Inherit' = {}
      /\ UNCHANGED <<pc, config, FPM_SOCKETS, todo, listening_socket, lost>>
  BY <1>0 DEF Sweep, Given, Pending, Inherit
<1>2. /\ N \in Nat /\ sockets_list \in Seq(Entry) /\ Index = 1 .. N /\ N \in Index
      /\ \A n \in Index : sockets_list[n] \in Entry
  BY <1>0, <1>1 DEF Types, Index
<1>3. CASE ~Unused(e)
  <2>1. i' = i + 1 /\ UNCHANGED <<sockets_list, bound, file>>
    BY <1>3 DEF Sweep, kernel
  <2>2. Open' = Open /\ Index' = Index /\ Listed' = Listed
    BY <2>1 DEF Open, Index, Listed
  <2>3. Types'
    BY <1>0, <1>1, <1>2, <2>1, <2>2 DEF Types
  <2>4. Listing' /\ Pending' /\ Remembered'
    BY <1>0, <1>1, <2>1, <2>2 DEF Listing, Pending, Remembered, Fits
  <2>5. Given'
    <3>1. pc \notin Over
      BY <1>1 DEF Over
    <3>2. QED
      BY <1>0, <1>1, <2>1, <2>2, <3>1 DEF Given
  <2>6. Counting'
    BY <1>0, <1>1, <2>1, <2>2 DEF Counting, Listeners
  <2>7. Swiped'
    <3>1. \A n \in 1 .. i' - 1 : n = i \/ n \in 1 .. i - 1
      BY <1>1, <1>2, <2>1
    <3>2. QED
      BY <1>0, <1>1, <1>3, <2>1, <3>1 DEF Swiped, Unused
  <2>8. Kernel'
    BY <1>0, <1>1, <2>1, <2>2 DEF Kernel, Leads
  <2>9. QED
    BY <2>3, <2>4, <2>5, <2>6, <2>7, <2>8 DEF IInv
<1>4. CASE Unused(e)
  <2>1. /\ bound' = Closed({e.sock})
        /\ file' = Orphaned({e.sock}, Unlink({e.key}, file))
        /\ sockets_list' = Front([sockets_list EXCEPT ![i] = Last(sockets_list)])
        /\ i' = i /\ e.refcount = 0
    BY <1>4 DEF Sweep, Unused
  <2>2. /\ sockets_list' \in Seq(Entry) /\ Len(sockets_list') = N - 1
        /\ Index' = 1 .. N - 1
        /\ \A n \in Index' : /\ sockets_list'[n] = sockets_list[from(n)]
                             /\ from(n) \in Index \ {i} /\ n \in Nat
        /\ \A n \in Index \ {i} : \E m \in Index' : from(m) = n
        /\ \A m, n \in Index' : from(m) = from(n) => m = n
    <3>1. /\ sockets_list' \in Seq(Entry) /\ Len(sockets_list') = N - 1
          /\ \A n \in 1 .. N - 1 :
                sockets_list'[n] = IF n = i THEN sockets_list[N] ELSE sockets_list[n]
      <4> DEFINE r == Front([sockets_list EXCEPT ![i] = Last(sockets_list)])
      <4>1. i \in 1 .. Len(sockets_list) /\ sockets_list \in Seq(Entry)
        BY <1>1, <1>2
      <4>2. /\ r \in Seq(Entry) /\ Len(r) = N - 1
            /\ \A n \in 1 .. N - 1 :
                  r[n] = IF n = i THEN sockets_list[N] ELSE sockets_list[n]
        BY <4>1, Removed
      <4>3. sockets_list' = r
        BY <2>1
      <4> HIDE DEF r
      <4>4. QED
        BY <4>2, <4>3
    <3>2. Index' = 1 .. N - 1
      BY <3>1 DEF Index
    <3>3. \A n \in Index' : from(n) \in Index \ {i} /\ n \in Nat
      BY <1>1, <1>2, <3>2
    <3>4. ASSUME NEW n \in Index \ {i}
          PROVE  \E m \in Index' : from(m) = n
      <4>1. CASE n = N
        <5>1. i \in Index' /\ from(i) = n
          BY <1>1, <1>2, <3>2, <3>4, <4>1
        <5>2. QED
          BY <5>1
      <4>2. CASE n # N
        <5>1. n \in Index' /\ from(n) = n
          BY <1>2, <3>2, <3>4, <4>2
        <5>2. QED
          BY <5>1
      <4>3. QED
        BY <4>1, <4>2
    <3>5. \A m, n \in Index' : from(m) = from(n) => m = n
      BY <1>2, <3>2
    <3>6. QED
      BY <3>1, <3>2, <3>3, <3>4, <3>5
  <2> HIDE DEF from
  <2>3. \A p \in Pool : listening_socket[p] # e.sock
    <3>1. Listeners(e.sock) = {}
      BY <1>0, <1>1, <2>1, ListenersFinite DEF Counting
    <3>2. QED
      BY <3>1 DEF Listeners
  <2>4. \A fd \in Fd : bound'[fd] = IF fd = e.sock THEN None ELSE bound[fd]
    BY <2>1 DEF Closed
  <2>5. Open' = Open \ {e.sock}
    BY <2>4 DEF Open
  <2>6. \A n \in Index \ {i} :
            /\ sockets_list[n].sock # 0 => Fits(sockets_list[n])
            /\ sockets_list[n].sock # e.sock \/ sockets_list[n].sock = 0
            /\ sockets_list[n].key = e.key => sockets_list[n].sock = 0
    <3>1. ASSUME NEW n \in Index \ {i}, sockets_list[n].sock # 0
          PROVE  /\ Fits(sockets_list[n]) /\ sockets_list[n].sock # e.sock
                 /\ sockets_list[n].key # e.key
      BY <1>0, <1>1, <3>1 DEF Listing
    <3>2. QED
      BY <3>1
  <2>7. e.sock \notin lost
    BY <1>0, <1>1, Apart DEF Listing, Fits, Types, Open
  <2>8. \A x \in UnixPlace : file'[x] \in Fd => file'[x] = file[x] /\ file[x] # e.sock
    BY <2>1, Apart DEF Orphaned, Unlink
  <2>9. Types'
    <3>1. bound' \in [Fd -> Place \cup {None}]
      BY <1>0, <2>1 DEF Closed, Types
    <3>2. file' \in [UnixPlace -> Fd \cup {None, Dead}]
      BY <1>0, <2>1 DEF Orphaned, Unlink, Types
    <3>3. i' \in 1 .. Len(sockets_list') + 1
      BY <1>1, <1>2, <2>1, <2>2
    <3>4. lost' \subseteq Open'
      BY <1>0, <1>1, <2>5, <2>7 DEF Types
    <3>5. QED
      BY <1>0, <1>1, <2>2, <3>1, <3>2, <3>3, <3>4 DEF Types
  <2>10. Listing'
    <3>1. ASSUME NEW n \in Index'
          PROVE  LET d == sockets_list'[n] IN
                 IF d.sock = 0 THEN d.key \notin Configured
                 ELSE /\ d.sock \in Fd \ lost' /\ d.key \in Configured
                      /\ bound'[d.sock] = place[d.key]
      <4>1. sockets_list'[n] = sockets_list[from(n)] /\ from(n) \in Index \ {i}
        BY <2>2
      <4>2. QED
        BY <1>0, <1>1, <2>4, <2>6, <4>1 DEF Listing, Fits
    <3>2. ASSUME NEW m \in Index', NEW n \in Index'
          PROVE  LET d == sockets_list'[m]
                     c == sockets_list'[n]
                 IN  d.sock # 0 /\ (d.sock = c.sock \/ d.key = c.key) => m = n
      <4>1. /\ sockets_list'[m] = sockets_list[from(m)] /\ from(m) \in Index
            /\ sockets_list'[n] = sockets_list[from(n)] /\ from(n) \in Index
            /\ from(m) = from(n) => m = n
        BY <2>2
      <4>2. QED
        BY <1>0, <4>1 DEF Listing
    <3>3. QED
      BY <3>1, <3>2 DEF Listing, Fits
  <2>11. Pending'
    BY <1>1 DEF Pending
  <2>12. Remembered'
    <3>1. Open \subseteq lost \cup Listed
      BY <1>0, <1>1 DEF Remembered
    <3>2. \A n \in Index \ {i} : sockets_list[n].sock \in Listed'
      <4>1. ASSUME NEW n \in Index \ {i}
            PROVE  sockets_list[n].sock \in Listed'
        <5>1. PICK m \in Index' : from(m) = n
          BY <2>2
        <5>2. sockets_list'[m] = sockets_list[n]
          BY <2>2, <5>1
        <5>3. QED
          BY <5>2 DEF Listed
      <4>2. QED
        BY <4>1
    <3>3. Listed \subseteq Listed' \cup {e.sock}
      BY <3>2 DEF Listed
    <3>4. QED
      BY <1>1, <2>5, <3>1, <3>3 DEF Remembered
  <2>13. Given'
    <3>1. pc' \notin Over /\ pc \notin Over /\ pc' # "import" /\ todo' = {}
      BY <1>1 DEF Over
    <3>2. ASSUME NEW q \in Pool
          PROVE  /\ listening_socket'[q] \in Fd
                 /\ bound'[listening_socket'[q]] = place[config'[q]]
                 /\ \/ listening_socket'[q] \in lost'
                    \/ \E m \in Index' : /\ sockets_list'[m].sock = listening_socket'[q]
                                         /\ sockets_list'[m].key = config'[q]
                 /\ \A m \in Index' :
                       sockets_list'[m].key = config'[q] => sockets_list'[m].refcount # 0
      <4>1. /\ listening_socket[q] \in Fd
            /\ bound[listening_socket[q]] = place[config[q]]
            /\ \/ listening_socket[q] \in lost
               \/ \E m \in Index : /\ sockets_list[m].sock = listening_socket[q]
                                   /\ sockets_list[m].key = config[q]
            /\ \A m \in Index :
                  sockets_list[m].key = config[q] => sockets_list[m].refcount # 0
        BY <1>0, <1>1, <3>1 DEF Given
      <4>2. bound'[listening_socket[q]] = bound[listening_socket[q]]
        BY <2>3, <2>4, <4>1
      <4>3. ASSUME NEW m \in Index, sockets_list[m].sock = listening_socket[q],
                   sockets_list[m].key = config[q]
            PROVE  \E n \in Index' : /\ sockets_list'[n].sock = listening_socket[q]
                                     /\ sockets_list'[n].key = config[q]
        <5>1. m # i
          BY <2>3, <4>3
        <5>2. PICK n \in Index' : from(n) = m
          BY <2>2, <5>1
        <5>3. QED
          BY <2>2, <4>3, <5>2
      <4>4. \A m \in Index' :
                sockets_list'[m].key = config[q] => sockets_list'[m].refcount # 0
        BY <2>2, <4>1, SMTT(30)
      <4>5. QED
        BY <1>1, <4>1, <4>2, <4>3, <4>4
    <3>3. QED
      BY <3>1, <3>2 DEF Given
  <2>14. Counting'
    BY <1>0, <1>1, <2>2 DEF Counting, Listeners
  <2>15. Swiped'
    <3>1. ASSUME NEW n \in 1 .. i' - 1
          PROVE  sockets_list'[n].refcount # 0
      <4>1. n \in Index' /\ n # i /\ n \in 1 .. i - 1
        BY <1>1, <1>2, <2>1, <2>2
      <4>2. sockets_list'[n] = sockets_list[n]
        BY <2>2, <4>1 DEF from
      <4>3. QED
        BY <1>0, <1>1, <4>1, <4>2 DEF Swiped
    <3>2. QED
      BY <1>1, <3>1 DEF Swiped
  <2>16. Kernel'
    <3>1. ASSUME NEW x \in UnixPlace, file'[x] \in Fd
          PROVE  bound'[file'[x]] = x
      BY <1>0, <2>4, <2>8, <3>1 DEF Kernel
    <3>2. \A gd, hd \in Open' :
              bound'[gd] = bound'[hd] /\ bound'[gd] \in Ports => gd = hd
      <4>1. \A gd \in Open' : gd \in Open /\ gd \in Fd /\ gd # e.sock
        BY <2>5 DEF Open
      <4>2. QED
        BY <1>0, <2>4, <4>1 DEF Kernel
    <3>3. ASSUME PathsDiffer, NEW n \in Index', sockets_list'[n].sock # 0,
                 sockets_list'[n].key \in Unix
          PROVE  file'[place[sockets_list'[n].key]] = sockets_list'[n].sock
      <4> DEFINE d == sockets_list[from(n)]
      <4>1. sockets_list'[n] = d /\ from(n) \in Index \ {i}
        BY <2>2
      <4>2. Fits(d) /\ d.sock # e.sock /\ d.key # e.key /\ d.sock \in Fd
        BY <2>6, <3>3, <4>1 DEF Fits
      <4>3. file[place[d.key]] = d.sock
        BY <1>0, <3>3, <4>1 DEF Kernel, Leads
      <4>4. e.key \in Unix => place[e.key] # place[d.key]
        BY <3>3, <4>1, <4>2 DEF PathsDiffer
      <4>5. place[d.key] \in UnixPlace
        BY <3>3, <4>1, Apart
      <4> HIDE DEF d, e
      <4>6. Unlink({e.key}, file)[place[d.key]] = file[place[d.key]]
        BY <4>4, <4>5 DEF Unlink
      <4>7. file'[place[d.key]] = d.sock
        BY <2>1, <4>2, <4>3, <4>5, <4>6 DEF Orphaned
      <4>8. QED
        BY <4>1, <4>7
    <3>4. QED
      BY <1>1, <3>1, <3>2, <3>3 DEF Kernel, Leads
  <2>17. QED
    BY <2>9, <2>10, <2>11, <2>12, <2>13, <2>14, <2>15, <2>16 DEF IInv
<1>5. QED
  BY <1>3, <1>4

-----------------------------------------------------------------------------
(* Every step keeps the invariant.                                         *)
LEMMA NextHolds ==
    ASSUME Uncut, IInv, [Next]_vars
    PROVE  IInv'
<1>1. ASSUME NEW c \in Configs, Start(c) \/ Reload(c)
      PROVE  IInv'
  BY <1>1, StartHolds, ReloadHolds
<1>2. ASSUME Import
      PROVE  IInv'
  BY <1>2, PhaseHolds, ImportHolds
<1>3. ASSUME NEW p \in Pool, Share(p)
      PROVE  IInv'
  BY <1>3, ShareHolds
<1>4. ASSUME NEW p \in Pool, Refused(p) \/ CreateFails(p)
      PROVE  IInv'
  BY <1>4, EndsHold
<1>5. ASSUME NEW p \in Pool, NEW fd \in Fd, Create(p, fd)
      PROVE  IInv'
  BY <1>5, CreateHolds
<1>6. ASSUME Created \/ Swept
      PROVE  IInv'
  BY <1>6, PhaseHolds
<1>7. ASSUME Sweep
      PROVE  IInv'
  BY <1>7, SweepHolds
<1>8. ASSUME ExecFails \/ Exit
      PROVE  IInv'
  BY <1>8, EndsHold
<1>9. ASSUME UNCHANGED vars
      PROVE  IInv'
  <2>1. UNCHANGED <<pc, config, FPM_SOCKETS, todo, i, listening_socket,
                    sockets_list, bound, file, lost>>
    BY <1>9 DEF vars, image, kernel
  <2>2. UNCHANGED <<Open, Index, Inherit, Listed>>
    BY <2>1 DEF Open, Index, Inherit, Listed
  <2>3. Types' /\ Listing' /\ Pending' /\ Remembered'
    BY <2>1, <2>2 DEF IInv, Types, Listing, Pending, Remembered, Fits
  <2>4. Given' /\ Counting' /\ Swiped' /\ Kernel'
    BY <2>1, <2>2 DEF IInv, Given, Counting, Listeners, Swiped, Kernel, Leads
  <2>5. QED
    BY <2>3, <2>4 DEF IInv
<1>10. QED
  BY <1>1, <1>2, <1>3, <1>4, <1>5, <1>6, <1>7, <1>8, <1>9 DEF Next

(* Through any number of starts and reloads, if no configured address is   *)
(* what '=' leaves of another.                                             *)
LEMMA Inductive == Uncut => (Spec => []IInv)
<1>1. Uncut /\ IInv /\ [Next]_vars => IInv'
  BY NextHolds
<1> SUFFICES ASSUME Uncut
             PROVE  Spec => []IInv
  OBVIOUS
<1>2. IInv /\ [Next]_vars => IInv'
  BY <1>1
<1>3. QED
  BY <1>2, InitHolds, PTL DEF Spec

-----------------------------------------------------------------------------
Zeroth == zero \in {"taken", "free", "events"}

(* Descriptor 0 is in one of its three states.                             *)
LEMMA ZerothHolds == Spec => []Zeroth
<1>1. Init => Zeroth
  BY DEF Init, Zeroth
<1>2. Zeroth /\ [Next]_vars => Zeroth'
  BY DEF Zeroth, Next, vars, kernel, Start, Reload, Import, Share, Refused,
         CreateFails, Create, Created, Sweep, Swept, EventInit,
         ExecFails, Exit, End
<1>3. QED
  BY <1>1, <1>2, PTL DEF Spec

(* The invariant gives the type invariant: no count is beyond the pools.   *)
LEMMA TypesHold == IInv /\ Zeroth => TypeOK
<1> SUFFICES ASSUME IInv, Zeroth
             PROVE  TypeOK
  OBVIOUS
<1>0. Types /\ Listing /\ Counting
  BY DEF IInv
<1>1. sockets_list \in Seq([key : Address, sock : Fd \cup {0},
                            refcount : 0 .. Cardinality(Pool)])
  <2> DEFINE T == [key : Address, sock : Fd \cup {0}, refcount : 0 .. Cardinality(Pool)]
  <2>1. /\ sockets_list \in Seq(Entry) /\ Len(sockets_list) \in Nat
        /\ Index = 1 .. Len(sockets_list)
    BY <1>0 DEF Types, Index
  <2>2. Cardinality(Pool) \in Nat
    BY PoolAssumption, FS_CardinalityType
  <2>3. ASSUME NEW n \in Index
        PROVE  sockets_list[n] \in T
    <3>1. sockets_list[n] \in Entry
      BY <2>1, <2>3
    <3>2. sockets_list[n].refcount \in 0 .. Cardinality(Pool)
      BY <1>0, <2>2, ListenersFinite DEF Counting
    <3>3. QED
      BY <3>1, <3>2 DEF Entry
  <2> HIDE DEF T
  <2>4. sockets_list \in Seq(T)
    BY <2>1, <2>3
  <2>5. QED
    BY <2>4 DEF T
<1>2. FPM_SOCKETS \in Seq([key : Address, sock : Fd \cup {0}])
  <2> DEFINE T == [key : Address, sock : Fd \cup {0}]
  <2>1. FPM_SOCKETS \in Seq(Pair) /\ Pair \subseteq T
    BY <1>0 DEF Types, Pair
  <2> HIDE DEF T
  <2>2. FPM_SOCKETS \in Seq(T)
    BY <2>1
  <2>3. QED
    BY <2>2 DEF T
<1>3. listening_socket \in [Pool -> Fd \cup {0, None}]
  BY <1>0 DEF Types
<1>4. \A m, n \in Index : sockets_list[m].sock = sockets_list[n].sock =>
                              m = n \/ sockets_list[m].sock = 0
  BY <1>0 DEF Listing
<1>5. /\ pc \in {"import", "create", "sweep", "run",
                 "exited", "failed", "refused"}
      /\ config \in Configs /\ todo \subseteq Pool
      /\ i \in 1 .. Len(sockets_list) + 1
      /\ bound \in [Fd -> Place \cup {None}]
      /\ file \in [UnixPlace -> Fd \cup {None, Dead}]
      /\ zero \in {"taken", "free", "events"}
      /\ lost \subseteq Open
  BY <1>0 DEF Types, Over, Zeroth
<1>6. QED
  BY <1>1, <1>2, <1>3, <1>4, <1>5 DEF TypeOK

(* The reference count of a socket is the number of its pools, over every  *)
(* import, share, creation and removal and every reload: the last loop of  *)
(* fpm_sockets_init_main closes what nobody uses.  Types included.         *)
THEOREM EntriesCounted == Uncut => (Spec => []Counted)
<1>1. IInv /\ Zeroth => Counted
  <2>1. SUFFICES ASSUME IInv, Zeroth
                 PROVE  Counted
    OBVIOUS
  <2>2. TypeOK /\ Counting
    BY <2>1, TypesHold DEF IInv
  <2>3. QED
    BY <2>2 DEF Counted, Counting, Listeners
<1> SUFFICES ASSUME Uncut
             PROVE  Spec => []Counted
  OBVIOUS
<1>2. QED
  BY <1>1, Inductive, ZerothHolds, PTL

(* No open socket is forgotten but by a failed push or a cut pair, and a   *)
(* running master holds none that no pool uses: fpm_sockets_init_main and  *)
(* fpm_sockets_cleanup pass on all there is.                               *)
THEOREM NothingForgotten == Uncut => (Spec => []Inherited)
<1>1. IInv => Inherited
  <2> SUFFICES ASSUME IInv
               PROVE  Inherited
    OBVIOUS
  <2>0. Types /\ Listing /\ Pending /\ Remembered /\ Counting /\ Swiped
    BY DEF IInv
  <2>1. ASSUME pc \in {"create", "sweep", "run"}
        PROVE  Open \subseteq Listed \cup lost
    <3>1. FPM_SOCKETS = <<>> /\ Inherit = {}
      BY <2>0, <2>1 DEF Pending, Inherit
    <3>2. QED
      BY <2>0, <3>1 DEF Remembered
  <2>2. ASSUME pc = "run"
        PROVE  Listed \subseteq {listening_socket[p] : p \in Pool}
    <3>1. \A n \in Index : Listeners(sockets_list[n].sock) # {}
      BY <2>0, <2>2, ListenersFinite DEF Swiped, Counting
    <3>2. QED
      BY <3>1 DEF Listed, Listeners
  <2>3. QED
    BY <2>1, <2>2 DEF Inherited
<1> SUFFICES ASSUME Uncut
             PROVE  Spec => []Inherited
  OBVIOUS
<1>2. QED
  BY <1>1, Inductive, PTL

(* In a running master the address of a pool, its file and, unless the     *)
(* event base has got descriptor 0, the standard input of its workers lead *)
(* to the pool's socket, however often the configuration has changed, if a *)
(* file has one spelling.                                                  *)
THEOREM PoolsServed == Uncut /\ PathsDiffer => (Spec => []Served)
<1>1. IInv /\ PathsDiffer => Served
  <2> SUFFICES ASSUME IInv, PathsDiffer, pc = "run", NEW p \in Pool,
                      listening_socket[p] \notin lost
               PROVE  LET fd == listening_socket[p] IN
                      /\ fd \in Open
                      /\ bound[fd] = place[config[p]]
                      /\ config[p] \in Unix => file[place[config[p]]] = fd
                      /\ zero # "events" => Stdin(p) = bound[fd]
    BY DEF Served
  <2>0. Types /\ Listing /\ Given /\ Counting /\ Swiped /\ Kernel
    BY DEF IInv
  <2>1. pc \notin Over /\ todo = {}
    BY <2>0 DEF Over, Given
  <2>2. /\ listening_socket[p] \in Fd
        /\ bound[listening_socket[p]] = place[config[p]]
        /\ \E n \in Index : /\ sockets_list[n].sock = listening_socket[p]
                            /\ sockets_list[n].key = config[p]
    BY <2>0, <2>1 DEF Given
  <2>3. PICK n \in Index : /\ sockets_list[n].sock = listening_socket[p]
                           /\ sockets_list[n].key = config[p]
    BY <2>2
  <2>4. listening_socket[p] \in Open
    BY <2>0, <2>2, Apart, ConfigAssumption DEF Types, Open
  <2>5. 0 \notin Listed
    BY <2>0, InUse DEF Swiped, Listed
  <2>6. config[p] \in Unix => file[place[config[p]]] = listening_socket[p]
    BY <2>0, <2>2, <2>3, Apart DEF Kernel, Leads
  <2>7. QED
    BY <2>2, <2>4, <2>5, <2>6 DEF Stdin
<1> SUFFICES ASSUME Uncut, PathsDiffer
             PROVE  Spec => []Served
  OBVIOUS
<1>2. IInv => Served
  BY <1>1
<1>3. QED
  BY <1>2, Inductive, PTL

(* No reload closes the socket of a configured address: what the last loop *)
(* of fpm_sockets_init_main closes has no pool, under this name or another *)
(* of the same port.                                                       *)
LEMMA KeepsAlive ==
    ASSUME PathsDiffer, IInv, [Next]_vars, NEW fd \in Open, bound'[fd] = None,
           pc' \notin Over, NEW p \in Pool
    PROVE  place[config'[p]] # bound[fd]
<1>0. /\ Types /\ Listing /\ Given /\ Counting /\ Kernel
      /\ fd \in Fd /\ bound[fd] # None
  BY DEF IInv, Open
<1>1. CASE UNCHANGED bound
  BY <1>0, <1>1
<1>2. ASSUME NEW q \in Pool, NEW gd \in Fd, Create(q, gd)
      PROVE  FALSE
  <2>1. bound' = [bound EXCEPT ![gd] = place[config[q]]] /\ bound[gd] = None
    BY <1>2 DEF Create
  <2>2. QED
    BY <1>0, <2>1 DEF Types
<1>3. CASE Sweep /\ ~UNCHANGED bound
  <2> DEFINE e == sockets_list[i]
  <2>1. /\ pc = "sweep" /\ i \in Index /\ e.refcount = 0
        /\ bound' = Closed({e.sock}) /\ config' = config
    BY <1>3 DEF Sweep, Unused, kernel
  <2>2. e.sock = fd
    BY <1>0, <2>1 DEF Closed
  <2>3. fd # 0 /\ Fits(e) /\ e.key \in Address
    BY <1>0, <2>1, <2>2, Apart DEF Listing, Fits
  <2>4. /\ bound[fd] = place[e.key]
        /\ bound[listening_socket[p]] = place[config[p]] /\ listening_socket[p] \in Fd
        /\ config[p] # e.key
    BY <1>0, <2>1, <2>2, <2>3 DEF Given, Over, Fits
  <2>5. Listeners(fd) = {}
    BY <1>0, <2>1, <2>2, ListenersFinite DEF Counting
  <2>6. SUFFICES ASSUME place[config[p]] = bound[fd]
                 PROVE  FALSE
    BY <2>1
  <2>7. config[p] \in Address
    BY <1>0, ConfigAssumption DEF Types
  <2>8. CASE config[p] \in Unix
    <3>1. e.key \in Unix
      BY <2>3, <2>4, <2>6, <2>8, Apart
    <3>2. QED
      BY <2>4, <2>6, <2>8, <3>1 DEF PathsDiffer
  <2>9. CASE config[p] \in Inet
    <3>1. bound[fd] \in Ports /\ listening_socket[p] \in Open
      BY <1>0, <2>4, <2>6, <2>9 DEF Ports, Open
    <3>2. listening_socket[p] = fd
      BY <1>0, <2>4, <2>6, <3>1 DEF Kernel
    <3>3. QED
      BY <2>5, <3>2 DEF Listeners
  <2>10. QED
    BY <2>7, <2>8, <2>9 DEF Address
<1>4. ASSUME NEW q \in Pool, Refused(q) \/ CreateFails(q)
      PROVE  FALSE
  BY <1>4 DEF Refused, CreateFails, End, Over
<1>5. ASSUME ExecFails \/ Exit
      PROVE  FALSE
  BY <1>5 DEF ExecFails, Exit, End, Over
<1>6. CASE \/ \E c \in Configs : Start(c) \/ Reload(c)
           \/ Import \/ \E q \in Pool : Share(q)
           \/ Created \/ Swept \/ UNCHANGED vars
  <2>1. UNCHANGED bound
    BY <1>6 DEF Start, Reload, Import, Share, Created, Swept, vars, kernel
  <2>2. QED
    BY <1>1, <2>1
<1>7. QED
  BY <1>1, <1>2, <1>3, <1>4, <1>5, <1>6 DEF Next

(* While the master lives, and over every exec of it, the queue of a       *)
(* configured address is never closed, if a file has one spelling.         *)
THEOREM QueuesKept == Uncut /\ PathsDiffer => (Spec => KeptAlive)
<1> SUFFICES ASSUME Uncut, PathsDiffer
             PROVE  Spec => KeptAlive
  OBVIOUS
<1>1. IInv /\ [Next]_vars =>
        [\A fd \in Open : bound'[fd] = None =>
            \/ pc' \in {"exited", "failed", "refused"}
            \/ \A p \in Pool : place[config'[p]] # bound[fd]]_vars
  BY KeepsAlive DEF Over
<1>2. QED
  BY <1>1, Inductive, PTL DEF Spec, KeptAlive

(* A step that leaves a file without its socket is one of those in which   *)
(* the master fails: an exit unlinks all it has listed, the last loop of   *)
(* fpm_sockets_init_main what it closes.                                   *)
LEMMA LeavesNoFile ==
    ASSUME IInv, [Next]_vars, NEW x \in UnixPlace, file[x] \in Fd \ lost,
           file'[x] = Dead
    PROVE  pc' \in {"failed", "refused"}
<1>0. /\ Types /\ Listing /\ Pending /\ Remembered /\ Given /\ Kernel
      /\ file[x] \in Open /\ bound[file[x]] = x /\ file[x] # Dead
  BY FilesOpen, Apart DEF IInv, Kernel
<1>1. \A n \in Index : sockets_list[n].sock = file[x] =>
          /\ sockets_list[n].key \in Unix /\ place[sockets_list[n].key] = x
  <2>1. ASSUME NEW n \in Index, sockets_list[n].sock = file[x]
        PROVE  Fits(sockets_list[n]) /\ sockets_list[n].key \in Address
    BY <1>0, <2>1, Apart DEF Listing, Fits
  <2>2. QED
    BY <1>0, <2>1, Apart DEF Fits
<1>2. ASSUME NEW q \in Pool, NEW gd \in Fd, Create(q, gd)
      PROVE  FALSE
  <2>1. \/ file' = file
        \/ file' = [file EXCEPT ![place[config[q]]] = gd]
    BY <1>2 DEF Create
  <2>2. QED
    BY <1>0, <2>1, Apart DEF Types
<1>3. ASSUME Sweep
      PROVE  FALSE
  <2> DEFINE e == sockets_list[i]
  <2>1. i \in Index
    BY <1>3 DEF Sweep
  <2>2. CASE UNCHANGED file
    BY <1>0, <2>2
  <2>3. CASE file' = Orphaned({e.sock}, Unlink({e.key}, file))
    <3>1. file'[x] = IF Unlink({e.key}, file)[x] \in {e.sock} THEN Dead
                     ELSE Unlink({e.key}, file)[x]
      BY <2>3 DEF Orphaned
    <3>2. Unlink({e.key}, file)[x] = e.sock
      <4>1. Unlink({e.key}, file)[x] \in {None, file[x]}
        BY DEF Unlink
      <4>2. QED
        BY <1>0, <3>1, <4>1, Apart
    <3>3. e.sock # None
      <4>1. i \in 1 .. Len(sockets_list) /\ sockets_list \in Seq(Entry)
        BY <1>0, <2>1 DEF Types, Index
      <4>2. e \in Entry
        BY <4>1
      <4>3. e.sock \in Fd \cup {0}
        BY <4>2 DEF Entry
      <4>4. QED
        BY <4>3, Apart
    <3>4. file[x] = e.sock
      BY <3>2, <3>3 DEF Unlink
    <3>5. Unlink({e.key}, file)[x] = None
      BY <1>1, <2>1, <3>4 DEF Unlink
    <3>6. QED
      BY <3>2, <3>3, <3>5
  <2>4. QED
    BY <1>3, <2>2, <2>3 DEF Sweep, kernel
<1>4. ASSUME Exit
      PROVE  FALSE
  <2> DEFINE A == {sockets_list[n].key : n \in Index}
  <2>1. pc = "run" /\ file' = Orphaned(Open, Unlink(A, file))
    BY <1>4 DEF Exit, End
  <2>2. FPM_SOCKETS = <<>> /\ Inherit = {}
    BY <1>0, <2>1 DEF Pending, Inherit
  <2>3. file[x] \in Listed
    BY <1>0, <2>2 DEF Remembered
  <2>4. PICK n \in Index : sockets_list[n].sock = file[x]
    BY <2>3 DEF Listed
  <2>5. Unlink(A, file)[x] = None
    BY <1>1, <2>4 DEF Unlink
  <2>6. None \notin Open
    BY Apart DEF Open
  <2>7. QED
    BY <2>1, <2>5, <2>6, Apart DEF Orphaned
<1>5. ASSUME NEW q \in Pool, Refused(q) \/ CreateFails(q)
      PROVE  pc' \in {"failed", "refused"}
  BY <1>5 DEF Refused, CreateFails, End
<1>6. ASSUME ExecFails
      PROVE  pc' \in {"failed", "refused"}
  BY <1>6 DEF ExecFails, End
<1>7. ASSUME \/ \E c \in Configs : Start(c) \/ Reload(c)
             \/ Import \/ \E q \in Pool : Share(q)
             \/ Created \/ Swept \/ UNCHANGED vars
      PROVE  FALSE
  <2>1. UNCHANGED file
    BY <1>7 DEF Start, Reload, Import, Share, Created, Swept, vars, kernel
  <2>2. QED
    BY <1>0, <2>1
<1>8. QED
  BY <1>2, <1>3, <1>4, <1>5, <1>6, <1>7 DEF Next

(* No reload that drops an address and no exit leaves its file behind.     *)
THEOREM FilesUnlinked == Uncut => (Spec => NoDeadFile)
<1> SUFFICES ASSUME Uncut
             PROVE  Spec => NoDeadFile
  OBVIOUS
<1>1. IInv /\ [Next]_vars =>
        [\A x \in UnixPlace :
            file[x] \in Fd \ lost /\ file'[x] = Dead =>
                pc' \in {"failed", "refused"}]_vars
  BY LeavesNoFile
<1>2. QED
  BY <1>1, Inductive, PTL DEF Spec, NoDeadFile

(* The entry of the socket that is in the way has another key.             *)
LEMMA InTheWay ==
    ASSUME IInv, pc = "create", lost = {}, NEW p \in todo,
           Known(config[p]) = {}, Occupied(config[p])
    PROVE  \E n \in Index : /\ sockets_list[n].key # config[p]
                            /\ place[sockets_list[n].key] = place[config[p]]
<1>0. Types /\ Listing /\ Pending /\ Remembered
  BY DEF IInv
<1>1. PICK fd \in Open : bound[fd] = place[config[p]]
  BY DEF Occupied
<1>2. FPM_SOCKETS = <<>> /\ Inherit = {}
  BY <1>0 DEF Pending, Inherit
<1>3. PICK n \in Index : sockets_list[n].sock = fd
  BY <1>0, <1>2 DEF Remembered, Listed
<1>4. Fits(sockets_list[n])
  BY <1>0, <1>3, Apart DEF Listing, Open
<1>5. place[sockets_list[n].key] = place[config[p]]
  BY <1>1, <1>3, <1>4, Apart DEF Fits, Open
<1>6. sockets_list[n].key # config[p]
  BY DEF Known
<1>7. QED
  BY <1>5, <1>6

(* What is in the way of a reload is an address spelled in another way.    *)
LEMMA WhoRefuses ==
    ASSUME IInv, Next, pc = "create", pc' = "refused", lost = {}
    PROVE  \E p \in todo, n \in Index :
                /\ sockets_list[n].key # config[p]
                /\ place[sockets_list[n].key] = place[config[p]]
<1>1. ASSUME NEW p \in Pool, Refused(p)
      PROVE  \E q \in todo, n \in Index :
                /\ sockets_list[n].key # config[q]
                /\ place[sockets_list[n].key] = place[config[q]]
  BY <1>1, InTheWay DEF Refused
<1>2. ASSUME NEW p \in Pool, Share(p) \/ CreateFails(p) \/ \E fd \in Fd : Create(p, fd)
      PROVE  FALSE
  BY <1>2 DEF Share, CreateFails, Create, End
<1>3. ASSUME \/ \E c \in Configs : Start(c) \/ Reload(c)
             \/ Import \/ Created \/ Sweep \/ Swept \/ ExecFails \/ Exit
      PROVE  FALSE
  BY <1>3 DEF Start, Reload, Import, Created, Sweep, Swept, ExecFails, Exit
<1>4. QED
  BY <1>1, <1>2, <1>3 DEF Next

(* A reload is refused a port only over another spelling of it.            *)
THEOREM NotInItsOwnWay == Uncut => (Spec => RefusedIfRespelled)
<1> SUFFICES ASSUME Uncut
             PROVE  Spec => RefusedIfRespelled
  OBVIOUS
<1>1. IInv /\ [Next]_vars =>
        [pc = "create" /\ pc' = "refused" /\ lost = {} =>
            \E p \in todo, n \in Index :
                /\ sockets_list[n].key # config[p]
                /\ place[sockets_list[n].key] = place[config[p]]]_vars
  BY WhoRefuses DEF vars
<1>2. QED
  BY <1>1, Inductive, PTL DEF Spec, RefusedIfRespelled

(* While no address with '=' in it is configured, no pair is cut: nothing  *)
(* is listed with descriptor 0, and the last loop of fpm_sockets_init_main *)
(* never closes it.                                                        *)
Whole == /\ zero = "taken"
         /\ \A n \in Index : sockets_list[n].sock # 0

(* An entry that comes over is for a socket still.                         *)
LEMMA ImportWhole ==
    ASSUME NoSigns, IInv, Whole, Import
    PROVE  Whole'
<1>0. Types /\ Pending
  BY DEF IInv
<1>1. zero' = zero
  BY DEF Import, kernel
<1>2. CASE FPM_SOCKETS = <<>>
  <2>1. sockets_list' = sockets_list
    BY <1>2 DEF Import
  <2>2. QED
    BY <1>1, <2>1 DEF Whole, Index
<1>3. CASE FPM_SOCKETS # <<>>
  <2> DEFINE h == Head(FPM_SOCKETS)
             z == [key |-> h.key, sock |-> h.sock, refcount |-> 0]
  <2>1. h = FPM_SOCKETS[1] /\ h \in Pair /\ 1 \in Inherit
    <3>1. Len(FPM_SOCKETS) \in Nat \ {0} /\ h = FPM_SOCKETS[1] /\ h \in Pair
      BY <1>0, <1>3, Shifted DEF Types
    <3>2. QED
      BY <3>1 DEF Inherit
  <2>2. Fits(h) /\ h.sock \in Fd /\ h.key \in Address
    BY <1>0, <2>1 DEF Pending, Pair
  <2>3. Read(h) = h
    BY <2>2 DEF Read, Cut, NoSigns, Fits
  <2>4. Store(h.key, h.sock, 0)
    BY <1>3, <2>3 DEF Import, ImportCount
  <2>5. z \in Entry /\ z.sock # 0
    BY <2>2, Apart DEF Entry
  <2>6. CASE sockets_list' = Append(sockets_list, z)
    BY <1>0, <1>1, <2>5, <2>6, Grown DEF Whole
  <2>7. CASE sockets_list' = sockets_list
    BY <1>1, <2>7 DEF Whole, Index
  <2>8. QED
    BY <2>4, <2>6, <2>7 DEF Store
<1>4. QED
  BY <1>2, <1>3

(* A created socket is never descriptor 0.                                 *)
LEMMA CreateWhole ==
    ASSUME IInv, Whole, NEW p \in Pool, NEW fd \in Fd, Create(p, fd)
    PROVE  Whole'
<1> DEFINE z == [key |-> config[p], sock |-> fd, refcount |-> 1]
<1>0. Types
  BY DEF IInv
<1>1. zero' = zero /\ Store(config[p], fd, 1)
  BY DEF Create
<1>2. z \in Entry /\ z.sock # 0
  BY <1>0, Apart, ConfigAssumption DEF Types, Entry
<1>3. CASE sockets_list' = Append(sockets_list, z)
  BY <1>0, <1>1, <1>2, <1>3, Grown DEF Whole
<1>4. CASE sockets_list' = sockets_list
  BY <1>1, <1>4 DEF Whole, Index
<1>5. QED
  BY <1>1, <1>3, <1>4 DEF Store

(* Sharing a socket changes a count.                                       *)
LEMMA ShareWhole ==
    ASSUME IInv, Whole, NEW p \in Pool, Share(p)
    PROVE  Whole'
<1>0. Types /\ Listing
  BY DEF IInv
<1>1. PICK n \in Index :
          /\ Min(Known(config[p])) = n
          /\ sockets_list[n].key = config[p] /\ Fits(sockets_list[n])
          /\ sockets_list[n].sock # 0
          /\ \A m \in Index : sockets_list[m].key = config[p] => m = n
  BY <1>0, KnownOne DEF Share
<1>2. zero' = zero /\ sockets_list' = [sockets_list EXCEPT ![n].refcount = @ + 1]
  BY <1>1 DEF Share, Use, kernel
<1>3. sockets_list \in Seq(Entry) /\ Index = 1 .. Len(sockets_list)
  BY <1>0 DEF Types, Index
<1>4. Index' = Index /\ \A m \in Index : sockets_list'[m].sock = sockets_list[m].sock
  <2>1. Len(sockets_list') = Len(sockets_list)
    BY <1>2, <1>3
  <2>2. \A m \in Index : sockets_list'[m].sock = sockets_list[m].sock
    BY <1>2, <1>3 DEF Entry
  <2>3. QED
    BY <1>3, <2>1, <2>2 DEF Index
<1>5. QED
  BY <1>2, <1>4 DEF Whole

(* The sweep finds no 0 to close, and moves none.                          *)
LEMMA SweepWhole ==
    ASSUME IInv, Whole, Sweep
    PROVE  Whole'
<1>0. Types
  BY DEF IInv
<1>1. zero' = zero
  BY DEF Sweep, Whole, kernel
<1>2. CASE Unused(sockets_list[i])
  <2> DEFINE r == Front([sockets_list EXCEPT ![i] = Last(sockets_list)])
  <2>1. i \in 1 .. Len(sockets_list) /\ sockets_list \in Seq(Entry)
    BY <1>0 DEF Sweep, Index, Types
  <2>2. /\ Len(r) = Len(sockets_list) - 1 /\ Len(sockets_list) \in Nat \ {0}
        /\ \A n \in 1 .. Len(sockets_list) - 1 :
              r[n] = IF n = i THEN sockets_list[Len(sockets_list)] ELSE sockets_list[n]
    BY <2>1, Removed
  <2>3. sockets_list' = r
    BY <1>2 DEF Sweep
  <2> HIDE DEF r
  <2>4. Index' = 1 .. Len(sockets_list) - 1
    BY <2>2, <2>3 DEF Index
  <2>5. \A n \in Index' : sockets_list'[n].sock # 0
    BY <2>2, <2>3, <2>4 DEF Whole, Index
  <2>6. QED
    BY <1>1, <2>5 DEF Whole
<1>3. CASE ~Unused(sockets_list[i])
  <2>1. sockets_list' = sockets_list
    BY <1>3 DEF Sweep
  <2>2. QED
    BY <1>1, <2>1 DEF Whole, Index
<1>4. QED
  BY <1>2, <1>3

(* The other steps leave the array alone, or empty it.                     *)
LEMMA RestWhole ==
    ASSUME Whole,
           \/ \E c \in Configs : Start(c) \/ Reload(c)
           \/ \E p \in Pool : Refused(p) \/ CreateFails(p)
           \/ Created \/ Swept \/ ExecFails \/ Exit \/ UNCHANGED vars
    PROVE  Whole'
<1>1. zero' = "taken" /\ (sockets_list' = sockets_list \/ sockets_list' = <<>>)
  BY DEF Whole, vars, kernel, Start, Reload, Refused, CreateFails, Created,
         Swept, EventInit, ExecFails, Exit, End
<1>2. CASE sockets_list' = sockets_list
  BY <1>1, <1>2 DEF Whole, Index
<1>3. CASE sockets_list' = <<>>
  BY <1>1, <1>3 DEF Whole, Index
<1>4. QED
  BY <1>1, <1>2, <1>3

(* What run sockets_sign refutes holds while no address with '=' in it is  *)
(* configured: over any reloads each worker has its pool's socket as its   *)
(* standard input, and the event base never descriptor 0.                  *)
THEOREM AlwaysAccept == NoSigns => (Spec => []WorkersAccept)
<1> SUFFICES ASSUME NoSigns
             PROVE  Spec => []WorkersAccept
  OBVIOUS
<1>1. Uncut
  BY Apart, FdAssumption DEF NoSigns, Uncut
<1>2. Spec => []IInv
  BY <1>1, Inductive
<1>3. Init => Whole
  BY DEF Init, Whole, Index
<1>4. IInv /\ Whole /\ [Next]_vars => Whole'
  BY ImportWhole, CreateWhole, ShareWhole, SweepWhole, RestWhole DEF Next
<1>5. IInv /\ Whole => WorkersAccept
  <2> SUFFICES ASSUME IInv, Whole, pc = "run", NEW p \in Pool
               PROVE  Stdin(p) = place[config[p]]
    BY DEF WorkersAccept
  <2>1. pc \notin Over /\ todo = {}
    BY DEF IInv, Over, Given
  <2>2. bound[listening_socket[p]] = place[config[p]]
    BY <2>1 DEF IInv, Given
  <2>3. 0 \notin Listed
    BY DEF Whole, Listed
  <2>4. QED
    BY <2>2, <2>3 DEF Stdin, Whole
<1>6. QED
  BY <1>2, <1>3, <1>4, <1>5, PTL DEF Spec

=============================================================================
