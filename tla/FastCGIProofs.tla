---------------------------- MODULE FastCGIProofs ----------------------------
(***************************************************************************)
(* Theorems about FastCGI, for every size of the buffer, every portion     *)
(* written and every request: whatever a script prints and logs, out_buf   *)
(* has room for the end of the answer (EndFits), the web server gets       *)
(* answers to the request it sent last only (AnswersMatch), it can find    *)
(* every record of them (Framed), and they carry all that was handed over, *)
(* once and in order (OutputIntact).  For every web server that knows how  *)
(* long a body is before it sends it (KnowsLength), the worker stays in    *)
(* step with what it sends (InStepWithServer) and scripts get their bodies *)
(* (BodyDelivered).                                                        *)
(***************************************************************************)
EXTENDS FastCGI, SequenceTheorems, TLAPS

Packed == [type : Types, from : Int, len : Nat, pad : Nat, at : Nat]

(* What a buffer looks like at any time, on a connection that works or     *)
(* not: an open packet begins at a multiple of 8, ends at out_pos and lies *)
(* within out_buf; without one out_pos is a multiple of 8.                 *)
Buffer(b) ==
    /\ b \in [pos : Nat, hdr : BOOLEAN, recs : Seq(Packed)]
    /\ b.hdr => /\ b.recs # <<>>
                /\ Top(b).at % 8 = 0
                /\ Top(b).at + 8 + Top(b).len = b.pos
                /\ b.pos <= BufSize
    /\ ~b.hdr => b.pos % 8 = 0

Room(b) == Buffer(b) /\ b.pos <= BufSize

-----------------------------------------------------------------------------
(* The operators on buffers.                                               *)

(* fcgi_make_header pads to the next multiple of 8.                        *)
LEMMA PadAligns ==
    ASSUME NEW len \in Nat
    PROVE  /\ Pad(len) \in Nat /\ Pad(len) <= 7
           /\ (len + Pad(len)) % 8 = 0
           /\ len % 8 = 0 => Pad(len) = 0
  BY DEF Pad, Header

(* A packet that is padded ends within every multiple of 8 that its bytes  *)
(* end within.                                                             *)
LEMMA Aligned ==
    ASSUME NEW at \in Nat, NEW len \in Nat, NEW pad \in Nat, NEW size \in Nat,
           at % 8 = 0, (len + pad) % 8 = 0, pad <= 7, size % 8 = 0,
           at + 8 + len <= size
    PROVE  (at + 8 + len + pad) % 8 = 0 /\ at + 8 + len + pad <= size
  OBVIOUS

(* What BufferAssumption says of the sizes.                                *)
LEMMA Sizes ==
    /\ BufSize \in Nat /\ BufSize % 8 = 0 /\ BufSize >= 16
    /\ Header = 8 /\ EndSize = 16
    /\ MaxLength \in Nat /\ MaxLength >= 9
  BY BufferAssumption DEF Header, EndSize

(* A buffer with a packet open, wherever it ends.                          *)
Open(b) ==
    /\ b \in [pos : Nat, hdr : BOOLEAN, recs : Seq(Packed)]
    /\ b.hdr /\ b.recs # <<>>
    /\ Top(b).at % 8 = 0
    /\ Top(b).at + 8 + Top(b).len = b.pos

(* close_packet on an open one: the result is a closed buffer, and ends    *)
(* within every multiple of 8 that b ends within.                          *)
LEMMA ClosingOpen ==
    ASSUME NEW b, Open(b), NEW size \in Nat, size % 8 = 0, b.pos <= size
    PROVE  /\ Buffer(close_packet(b)) /\ ~close_packet(b).hdr
           /\ close_packet(b).pos <= size
<1>1. /\ b.pos \in Nat /\ b.hdr = TRUE /\ b.recs \in Seq(Packed) /\ b.recs # <<>>
  BY DEF Open
<1>2. PICK k, t : k = Len(b.recs) /\ t = b.recs[k]
  OBVIOUS
<1>3. k \in DOMAIN b.recs /\ t \in Packed /\ t.at \in Nat /\ t.len \in Nat
  <2>1. k \in DOMAIN b.recs /\ t \in Packed
    BY <1>1, <1>2
  <2> QED BY <2>1 DEF Packed
<1>4. t.at % 8 = 0
  BY <1>2 DEF Open, Top
<1>5. t.at + 8 + t.len = b.pos
  BY <1>2 DEF Open, Top
<1>6. PICK pad : pad = Pad(t.len)
  OBVIOUS
<1>7. pad \in Nat /\ pad <= 7 /\ (t.len + pad) % 8 = 0
  BY <1>3, <1>6, PadAligns
<1>8. PICK c : c = close_packet(b)
  OBVIOUS
<1>9. c = [pos |-> b.pos + pad, hdr |-> FALSE, recs |-> [b.recs EXCEPT ![k].pad = pad]]
  BY <1>1, <1>2, <1>6, <1>8 DEF close_packet, Top
<1>10. [b.recs EXCEPT ![k].pad = pad] \in Seq(Packed)
  <2>1. \A r \in Packed, m \in Nat : [r EXCEPT !.pad = m] \in Packed
    BY DEF Packed
  <2> QED BY <1>1, <1>2, <1>3, <1>7, <2>1
<1>11. (b.pos + pad) % 8 = 0 /\ b.pos + pad <= size
  <2>1. PICK at, len : at = t.at /\ len = t.len
    OBVIOUS
  <2>2. at \in Nat /\ len \in Nat /\ at % 8 = 0 /\ (len + pad) % 8 = 0
    BY <1>3, <1>4, <1>7, <2>1
  <2>3. b.pos = at + 8 + len
    BY <1>5, <2>1
  <2>4. (at + 8 + len + pad) % 8 = 0 /\ at + 8 + len + pad <= size
    BY <1>7, <2>2, <2>3, Aligned
  <2> QED BY <2>3, <2>4
<1>12. c.pos = b.pos + pad /\ c.hdr = FALSE /\ b.pos + pad \in Nat
  BY <1>1, <1>7, <1>9
<1>13. c \in [pos : Nat, hdr : BOOLEAN, recs : Seq(Packed)]
  BY <1>9, <1>10, <1>12
<1> QED BY <1>8, <1>11, <1>12, <1>13 DEF Buffer

(* close_packet: the result is closed, and in the buffer if b was.         *)
LEMMA Closing ==
    ASSUME NEW b, Buffer(b)
    PROVE  /\ Buffer(close_packet(b))
           /\ ~close_packet(b).hdr
           /\ b.pos <= BufSize => close_packet(b).pos <= BufSize
<1>1. CASE b.hdr = FALSE
  BY <1>1 DEF close_packet
<1>2. CASE b.hdr = TRUE
  <2>1. Open(b) /\ b.pos <= BufSize
    BY <1>2 DEF Buffer, Open
  <2> QED BY <2>1, ClosingOpen, Sizes
<1>3. b.hdr \in BOOLEAN
  BY DEF Buffer
<1> QED BY <1>1, <1>2, <1>3

(* open_packet on a closed buffer                                          *)
LEMMA Opening ==
    ASSUME NEW b, Buffer(b), b.hdr = FALSE, NEW type \in Types, NEW from \in Int
    PROVE  /\ Open(open_packet(b, type, from))
           /\ open_packet(b, type, from).pos = b.pos + 8
<1> DEFINE r == [type |-> type, from |-> from, len |-> 0, pad |-> 0, at |-> b.pos]
<1>1. b.pos \in Nat /\ b.recs \in Seq(Packed) /\ b.pos % 8 = 0
  BY DEF Buffer
<1>2. r \in Packed
  BY <1>1 DEF Packed
<1>3. open_packet(b, type, from) =
        [pos |-> b.pos + 8, hdr |-> TRUE, recs |-> Append(b.recs, r)]
  BY DEF open_packet, Header
<1>4. PICK o : o = open_packet(b, type, from)
  OBVIOUS
<1>5. o.pos = b.pos + 8 /\ o.hdr = TRUE /\ o.recs = Append(b.recs, r)
  BY <1>3, <1>4
<1>6. /\ o.recs \in Seq(Packed) /\ o.recs # <<>>
      /\ o.recs[Len(o.recs)] = r
  BY <1>1, <1>2, <1>5, SMTT(30)
<1>7. o \in [pos : Nat, hdr : BOOLEAN, recs : Seq(Packed)]
  BY <1>1, <1>3, <1>4, <1>5, <1>6
<1>8. Top(o).at = b.pos /\ Top(o).len = 0
  BY <1>6 DEF Top
<1> QED BY <1>1, <1>4, <1>5, <1>6, <1>7, <1>8 DEF Open

(* A packet is open after open_packet or was before: fcgi_write fills an   *)
(* open one.                                                               *)
LEMMA Readied ==
    ASSUME NEW b, Buffer(b), NEW type \in Types, NEW from \in Int
    PROVE  /\ Open(Ready(b, type, from))
           /\ Ready(b, type, from).pos = b.pos + (IF b.hdr THEN 0 ELSE 8)
<1>1. b.pos \in Nat /\ b.hdr \in BOOLEAN
  BY DEF Buffer
<1>2. CASE b.hdr = TRUE
  BY <1>1, <1>2 DEF Ready, Buffer, Open
<1>3. CASE b.hdr = FALSE
  BY <1>3, Opening DEF Ready
<1> QED BY <1>1, <1>2, <1>3

(* The buffer after a flush that worked.                                   *)
LEMMA EmptyBuffer == Room(Empty) /\ ~Empty.hdr /\ Empty.pos = 0
  BY Sizes DEF Room, Buffer, Empty

(* How much fits: never less than nothing, and up to the end of out_buf    *)
(* exactly, unless not even a header fits.                                 *)
LEMMA LimitFits ==
    ASSUME NEW b, Buffer(b)
    PROVE  /\ Limit(b) \in Nat
           /\ b.hdr => b.pos + Limit(b) = BufSize
           /\ ~b.hdr /\ Limit(b) > 0 => b.pos + 8 + Limit(b) = BufSize
           /\ ~b.hdr /\ Limit(b) = 0 => b.pos + 8 >= BufSize
  BY Sizes DEF Limit, Buffer

(* Bytes packed: the packet stays open and grows by their number.          *)
LEMMA Longer ==
    ASSUME NEW recs \in Seq(Packed), recs # <<>>, NEW len \in Nat,
           NEW k, k = Len(recs), NEW longer,
           longer = [recs EXCEPT ![k].len = @ + len]
    PROVE  /\ longer \in Seq(Packed) /\ longer # <<>> /\ Len(longer) = k
           /\ longer[k].at = recs[k].at /\ longer[k].len = recs[k].len + len
           /\ recs[k].at \in Nat /\ recs[k].len \in Nat
<1>1. k \in DOMAIN recs /\ recs[k] \in Packed
  OBVIOUS
<1>2. recs[k].at \in Nat /\ recs[k].len \in Nat
  BY <1>1 DEF Packed
<1>3. [recs[k] EXCEPT !.len = @ + len] \in Packed
  <2>1. \A r \in Packed, m \in Nat : [r EXCEPT !.len = m] \in Packed
    BY DEF Packed
  <2>2. recs[k].len + len \in Nat
    BY <1>2
  <2> QED BY <1>1, <2>1, <2>2
<1>4. longer = [recs EXCEPT ![k] = [recs[k] EXCEPT !.len = @ + len]]
  OBVIOUS
<1>5. longer \in Seq(Packed) /\ Len(longer) = k
  BY <1>1, <1>3, <1>4
<1>6. longer[k] = [recs[k] EXCEPT !.len = @ + len]
  BY <1>1, <1>4
<1>7. longer[k].at = recs[k].at /\ longer[k].len = recs[k].len + len
  BY <1>1, <1>6 DEF Packed
<1>8. longer # <<>>
  BY <1>1, <1>5
<1> QED BY <1>2, <1>5, <1>7, <1>8

(* Bytes added to an open packet leave it open, and out_pos behind them.   *)
LEMMA Filling ==
    ASSUME NEW o, Open(o), NEW len \in Nat
    PROVE  Open(Filled(o, len)) /\ Filled(o, len).pos = o.pos + len
<1>1. /\ o.pos \in Nat /\ o.hdr = TRUE
      /\ o.recs \in Seq(Packed) /\ o.recs # <<>>
  BY DEF Open
<1>2. PICK k, longer : k = Len(o.recs) /\ longer = [o.recs EXCEPT ![k].len = @ + len]
  OBVIOUS
<1>3. o.recs[k].at % 8 = 0
  BY <1>2 DEF Open, Top
<1>4. o.recs[k].at + 8 + o.recs[k].len = o.pos
  BY <1>2 DEF Open, Top
<1>5. /\ longer \in Seq(Packed) /\ longer # <<>> /\ Len(longer) = k
      /\ longer[k].at = o.recs[k].at /\ longer[k].len = o.recs[k].len + len
      /\ o.recs[k].at \in Nat /\ o.recs[k].len \in Nat
  BY <1>1, <1>2, Longer
<1>6. PICK f : f = Filled(o, len)
  OBVIOUS
<1>7. f = [pos |-> o.pos + len, hdr |-> TRUE, recs |-> longer]
  BY <1>1, <1>2, <1>6 DEF Filled
<1>8. f.pos = o.pos + len /\ f.hdr = TRUE /\ f.recs = longer
  BY <1>7
<1>9. f \in [pos : Nat, hdr : BOOLEAN, recs : Seq(Packed)]
  BY <1>1, <1>5, <1>7
<1>10. Top(f) = longer[k]
  BY <1>5, <1>8 DEF Top
<1>11. Top(f).at % 8 = 0 /\ Top(f).at + 8 + Top(f).len = f.pos
  <2>1. Top(f).at = o.recs[k].at /\ Top(f).len = o.recs[k].len + len
    BY <1>5, <1>10
  <2>2. o.recs[k].at + 8 + (o.recs[k].len + len) = o.pos + len
    <3>1. PICK a, l, p : a = o.recs[k].at /\ l = o.recs[k].len /\ p = o.pos
      OBVIOUS
    <3>2. a \in Nat /\ l \in Nat /\ p \in Nat /\ a + 8 + l = p
      BY <1>1, <1>4, <1>5, <3>1
    <3>3. a + 8 + (l + len) = p + len
      BY <3>2
    <3> QED BY <3>1, <3>3
  <2> QED BY <1>3, <1>8, <2>1, <2>2
<1> QED BY <1>5, <1>6, <1>8, <1>9, <1>11 DEF Open

(* The same for a buffer that may have to open a packet first.             *)
LEMMA Packing ==
    ASSUME NEW b, Buffer(b), NEW type \in Types, NEW from \in Int, NEW len \in Nat
    PROVE  LET f == Filled(Ready(b, type, from), len)
           IN  Open(f) /\ f.pos = b.pos + (IF b.hdr THEN 0 ELSE 8) + len
<1>1. PICK o : o = Ready(b, type, from)
  OBVIOUS
<1>2. Open(o) /\ o.pos = b.pos + (IF b.hdr THEN 0 ELSE 8)
  BY <1>1, Readied
<1>3. Open(Filled(o, len)) /\ Filled(o, len).pos = o.pos + len
  BY <1>2, Filling
<1> QED BY <1>1, <1>2, <1>3

-----------------------------------------------------------------------------
(* The invariant: out holds a buffer, and on a connection that works it    *)
(* ends within out_buf.  fcgi_write past the buffer has closed it.         *)

Works == open /\ ~gone

InBuffer ==
    /\ Buffer(out)
    /\ Works => out.pos <= BufSize /\ phase # "undefined"
    /\ todo.left > 0 => ~out.hdr

Counts ==
    /\ said \in [Types -> Int]
    /\ todo \in [type : Types, left : Nat]
    /\ open \in BOOLEAN /\ gone \in BOOLEAN

IInv == InBuffer /\ Counts

(* The invariant implies the property.                                     *)
LEMMA IInvImplies == IInv => EndFits
  BY DEF IInv, InBuffer, Buffer, Works, EndFits, Header

(* It holds initially.                                                     *)
LEMMA InitIInv == Init => IInv
<1> SUFFICES ASSUME Init PROVE IInv
  OBVIOUS
<1>1. Buffer(out) /\ out.pos = 0 /\ out.hdr = FALSE
  BY EmptyBuffer DEF Init, Room, Empty
<1>2. todo.left = 0 /\ todo \in [type : Types, left : Nat] /\ open = FALSE /\ gone = FALSE
  BY DEF Init, Idle, Types
<1>3. said \in [Types -> Int]
  BY DEF Init
<1> QED BY <1>1, <1>2, <1>3 DEF IInv, InBuffer, Counts, Works

(* fcgi_write's buffer: a packet of the other stream closed.               *)
LEMMA Switching ==
    ASSUME InBuffer, NEW type \in Types
    PROVE  Buffer(Switched(type)) /\ (Works => Switched(type).pos <= BufSize)
  BY Closing DEF InBuffer, Switched

(* Steps that leave the output alone.                                      *)
LEMMA QuietStep ==
    ASSUME IInv, UNCHANGED <<out, todo>>,
           said' \in [Types -> Int], open' \in BOOLEAN, gone' \in BOOLEAN,
           Works' => Works, phase' = phase \/ phase' # "undefined"
    PROVE  IInv'
  BY DEF IInv, InBuffer, Counts, Buffer, Works, Top

(* Steps that send: after a failure the connection does not work.          *)
LEMMA Going ==
    ASSUME IInv, NEW ok \in BOOLEAN, NEW recs, Goes(ok, recs)
    PROVE  /\ gone' \in BOOLEAN
           /\ ok => Works
           /\ ~ok /\ (open' => open) => ~Works'
           /\ (open' => open) => (Works' => Works)
  BY DEF IInv, Counts, Goes, Works

-----------------------------------------------------------------------------

(* What a script has handed over stays a count.                            *)
LEMMA SaysTyped ==
    ASSUME IInv, NEW type \in Types, NEW len \in Nat, Says(type, len)
    PROVE  said' \in [Types -> Int]
  BY DEF IInv, Counts, Says

(* The first branch of fcgi_write.                                         *)
LEMMA FitsStep ==
    ASSUME IInv, NEW type \in Types, NEW len \in Nat, WriteFits(type, len)
    PROVE  IInv'
<1> DEFINE b == Switched(type)
           f == Filled(Ready(b, type, said[type]), len)
<1>1. Buffer(b) /\ (Works => b.pos <= BufSize) /\ said[type] \in Int
  BY Switching DEF IInv, Counts
<1>2. b.pos \in Nat /\ b.hdr \in BOOLEAN
  BY <1>1 DEF Buffer
<1>3. Open(f) /\ f.pos = b.pos + (IF b.hdr THEN 0 ELSE 8) + len
  BY <1>1, <1>2, Packing
<1>4. /\ Limit(b) \in Nat /\ len < Limit(b)
      /\ b.hdr => b.pos + Limit(b) = BufSize
      /\ ~b.hdr /\ Limit(b) > 0 => b.pos + 8 + Limit(b) = BufSize
  BY <1>1, LimitFits DEF WriteFits
<1>5. f.pos \in Nat /\ f.pos <= BufSize
  BY <1>2, <1>3, <1>4, Sizes
<1>6. /\ out' = f /\ UNCHANGED <<open, gone, todo>> /\ todo.left = 0
      /\ Says(type, len)
      /\ phase = "serving" /\ GoesOn(phase, f.pos)
  BY DEF WriteFits, MayWrite, Calls
<1>7. said' \in [Types -> Int]
  BY <1>6, SaysTyped
<1> HIDE DEF b, f
<1>8. phase' = "serving"
  BY <1>5, <1>6, Sizes DEF GoesOn
<1>9. Buffer(f)
  BY <1>3, <1>5 DEF Open, Buffer
<1> QED BY <1>5, <1>6, <1>7, <1>8, <1>9 DEF IInv, InBuffer, Counts

(* The buffer filled up to its end, or with an empty packet past it        *)
LEMMA Spilling ==
    ASSUME NEW b, Buffer(b), NEW type \in Types, NEW from \in Int
    PROVE  LET full == close_packet(Filled(Ready(b, type, from), Limit(b)))
           IN  Buffer(full) /\ ~full.hdr /\ (b.pos <= BufSize => full.pos <= BufSize + 8)
<1>0. PICK f : f = Filled(Ready(b, type, from), Limit(b))
  OBVIOUS
<1> DEFINE full == close_packet(f)
<1>1. b.pos \in Nat /\ b.hdr \in BOOLEAN
  BY DEF Buffer
<1>2. /\ Limit(b) \in Nat
      /\ b.hdr => b.pos + Limit(b) = BufSize
      /\ ~b.hdr /\ Limit(b) > 0 => b.pos + 8 + Limit(b) = BufSize
  BY LimitFits
<1>3. /\ Open(f) /\ f.pos = b.pos + (IF b.hdr THEN 0 ELSE 8) + Limit(b)
  BY <1>0, <1>1, <1>2, Packing
<1> SUFFICES Buffer(full) /\ ~full.hdr /\ (b.pos <= BufSize => full.pos <= BufSize + 8)
  BY <1>0
<1>4. CASE f.pos <= BufSize
  <2>1. Buffer(full) /\ ~full.hdr /\ full.pos <= BufSize
    BY <1>3, <1>4, ClosingOpen, Sizes
  <2>2. full.pos \in Nat
    BY <2>1 DEF Buffer
  <2> HIDE DEF full
  <2> QED BY <2>1, <2>2, Sizes
<1>5. CASE ~(f.pos <= BufSize)
  <2>1. b.hdr = FALSE /\ f.pos = b.pos + 8
    BY <1>1, <1>2, <1>3, <1>5, Sizes
  <2>2. b.pos % 8 = 0
    BY <2>1 DEF Buffer
  <2>3. PICK size \in Nat : size % 8 = 0 /\ size = b.pos + 8
    BY <1>1, <2>2
  <2>4. Buffer(full) /\ ~full.hdr /\ full.pos <= b.pos + 8
    BY <1>3, <2>1, <2>3, ClosingOpen
  <2>5. full.pos \in Nat
    BY <2>4 DEF Buffer
  <2> HIDE DEF full
  <2> QED BY <1>1, <2>4, <2>5, Sizes
<1> QED BY <1>4, <1>5

(* A new packet in the empty buffer                                        *)
LEMMA Anew ==
    ASSUME NEW type \in Types, NEW from \in Int, NEW len \in Nat, len + 8 <= BufSize
    PROVE  LET f == Filled(open_packet(Empty, type, from), len)
           IN  Buffer(f) /\ f.pos <= BufSize
<1>1. PICK f : f = Filled(open_packet(Empty, type, from), len)
  OBVIOUS
<1>2. Open(open_packet(Empty, type, from)) /\ open_packet(Empty, type, from).pos = 8
  <2>1. Buffer(Empty) /\ Empty.hdr = FALSE /\ Empty.pos = 0
    BY EmptyBuffer DEF Room, Empty
  <2>2. PICK e : e = Empty
    OBVIOUS
  <2>3. Open(open_packet(e, type, from)) /\ open_packet(e, type, from).pos = e.pos + 8
    BY <2>1, <2>2, Opening
  <2> QED BY <2>1, <2>2, <2>3
<1>3. Open(f) /\ f.pos = 8 + len
  BY <1>1, <1>2, Filling
<1>4. f.pos <= BufSize
  BY <1>3, Sizes
<1> QED BY <1>1, <1>3, <1>4 DEF Open, Buffer

(* The second branch of fcgi_write.                                        *)
LEMMA SpillsStep ==
    ASSUME IInv, NEW type \in Types, NEW len \in Nat, NEW ok \in BOOLEAN,
           WriteSpills(type, len, ok)
    PROVE  IInv'
<1>1. PICK b : b = Switched(type)
  OBVIOUS
<1>2. PICK full : full = close_packet(Filled(Ready(b, type, said[type]), Limit(b)))
  OBVIOUS
<1>3. Buffer(b) /\ (Works => b.pos <= BufSize) /\ said[type] \in Int
  BY <1>1, Switching DEF IInv, Counts
<1>4. Buffer(full) /\ ~full.hdr /\ (Works => full.pos <= BufSize + 8)
  BY <1>2, <1>3, Spilling
<1>5. Limit(b) \in Nat
  BY <1>3, LimitFits
<1>6. /\ todo.left = 0 /\ UNCHANGED <<open, todo>>
      /\ len >= Limit(b) /\ len - Limit(b) < BufSize - 8
      /\ Goes(ok, Leaving(full.recs))
      /\ phase = "serving" /\ GoesOn(phase, full.pos)
      /\ Says(type, len)
  BY <1>1, <1>2, Sizes DEF WriteSpills, MayWrite, Calls
<1>7. out' = CASE ok /\ len > Limit(b) ->
                     Filled(open_packet(Empty, type, said[type] + Limit(b)), len - Limit(b))
               [] ok /\ len = Limit(b) -> Empty
               [] ~ok                  -> full
  BY <1>1, <1>2 DEF WriteSpills
<1>8. /\ ~ok => out' = full
      /\ ok /\ len > Limit(b) =>
            out' = Filled(open_packet(Empty, type, said[type] + Limit(b)), len - Limit(b))
      /\ ok /\ len = Limit(b) => out' = Empty
  <2>1. ASSUME ok = FALSE PROVE out' = full
    BY <1>7, <2>1
  <2>2. ASSUME ok = TRUE, len > Limit(b)
        PROVE  out' = Filled(open_packet(Empty, type, said[type] + Limit(b)), len - Limit(b))
    BY <1>5, <1>7, <2>2
  <2>3. ASSUME ok = TRUE, len = Limit(b) PROVE out' = Empty
    BY <1>5, <1>7, <2>3
  <2> QED BY <2>1, <2>2, <2>3
<1>9. said' \in [Types -> Int]
  BY <1>6, SaysTyped
<1>10. gone' \in BOOLEAN /\ (ok => Works) /\ (~ok => ~Works') /\ (Works' => Works)
  BY <1>6, Going
<1>11. Works => phase' = "serving"
  <2>1. full.pos \in Nat
    BY <1>4 DEF Buffer
  <2> QED BY <1>4, <1>6, <2>1, Sizes DEF GoesOn
<1>12. CASE ok
  <2>1. CASE len > Limit(b)
    <3>1. PICK rest \in Nat : rest = len - Limit(b) /\ rest + 8 <= BufSize
      BY <1>5, <1>6, <2>1, Sizes
    <3>2. said[type] + Limit(b) \in Int
      BY <1>3, <1>5
    <3>3. out' = Filled(open_packet(Empty, type, said[type] + Limit(b)), rest)
      BY <1>8, <1>12, <2>1, <3>1
    <3>4. Buffer(out') /\ out'.pos <= BufSize
      BY <3>1, <3>2, <3>3, Anew
    <3> QED BY <1>6, <1>9, <1>10, <1>11, <1>12, <3>4 DEF IInv, InBuffer, Counts
  <2>2. CASE ~(len > Limit(b))
    <3>1. out' = Empty
      BY <1>5, <1>6, <1>8, <1>12, <2>2
    <3>2. Buffer(out') /\ out'.pos <= BufSize
      BY <3>1, EmptyBuffer DEF Room
    <3> QED BY <1>6, <1>9, <1>10, <1>11, <1>12, <3>2 DEF IInv, InBuffer, Counts
  <2> QED BY <2>1, <2>2
<1>13. CASE ~ok
  <2>1. out' = full
    BY <1>8, <1>13
  <2> QED BY <1>4, <1>6, <1>9, <1>10, <1>13, <2>1 DEF IInv, InBuffer, Counts
<1> QED BY <1>12, <1>13

(* The third branch of fcgi_write, before its loop.                        *)
LEMMA DirectStep ==
    ASSUME IInv, NEW type \in Types, NEW len \in Nat, WriteDirect(type, len)
    PROVE  IInv'
<1>1. PICK b : b = Switched(type)
  OBVIOUS
<1>2. Buffer(b) /\ (Works => b.pos <= BufSize)
  BY <1>1, Switching DEF IInv
<1>3. /\ out' = close_packet(b)
      /\ todo' = [type |-> type, left |-> len]
      /\ UNCHANGED <<open, gone, phase>>
      /\ Says(type, len)
  BY <1>1 DEF WriteDirect, conn
<1>4. Buffer(out') /\ ~out'.hdr /\ (Works => out'.pos <= BufSize)
  BY <1>2, <1>3, Closing
<1>5. said' \in [Types -> Int]
  BY <1>3, SaysTyped
<1> QED BY <1>3, <1>4, <1>5 DEF IInv, InBuffer, Counts, Works

(* One turn of fcgi_write's loop past the buffer: at most 7 bytes are kept *)
(* for the next record, and only in its last turn.                         *)
LEMMA DirectionStep ==
    ASSUME IInv, NEW ok \in BOOLEAN, NEW len \in Nat, NEW rest \in Nat,
           rest <= 7, rest = 0 \/ len + rest = todo.left,
           todo.left > 0, phase = "serving", Direction(len, ok, rest)
    PROVE  IInv'
<1>1. PICK type, from : type = todo.type /\ from = said[type] - todo.left
  OBVIOUS
<1>2. PICK top : top = [open_packet(out, type, from) EXCEPT !.hdr = FALSE]
  OBVIOUS
<1>3. /\ type \in Types /\ from \in Int /\ todo.left \in Nat
      /\ Buffer(out) /\ out.hdr = FALSE /\ (Works => out.pos <= BufSize)
  <2>1. type \in Types /\ todo.left \in Nat
    BY <1>1 DEF IInv, Counts
  <2>2. said[type] \in Int
    BY <2>1 DEF IInv, Counts
  <2>3. Buffer(out) /\ out.hdr = FALSE /\ (Works => out.pos <= BufSize)
    BY DEF IInv, InBuffer, Buffer
  <2> QED BY <1>1, <2>1, <2>2, <2>3
<1>4. Buffer(top) /\ ~top.hdr /\ (Works => top.pos <= BufSize + 8)
  <2>1. PICK o : o = open_packet(out, type, from)
    OBVIOUS
  <2>2. Open(o) /\ o.pos = out.pos + 8
    BY <1>3, <2>1, Opening
  <2>3. o \in [pos : Nat, hdr : BOOLEAN, recs : Seq(Packed)]
    BY <2>2 DEF Open
  <2>4. top.pos = o.pos /\ top.hdr = FALSE /\ top \in [pos : Nat, hdr : BOOLEAN, recs : Seq(Packed)]
    BY <1>2, <2>1, <2>3
  <2>5. out.pos \in Nat /\ out.pos % 8 = 0
    BY <1>3 DEF Buffer
  <2>6. (out.pos + 8) % 8 = 0
    BY <2>5
  <2>7. top.pos = out.pos + 8
    BY <2>2, <2>4
  <2> QED BY <1>3, <2>4, <2>5, <2>6, <2>7, Sizes DEF Buffer
<1>5. /\ Goes(ok, Leaving(out.recs) \o <<Direct(type, from, len)>>)
      /\ UNCHANGED <<open, said>>
      /\ GoesOn(phase, top.pos)
      /\ todo' = IF ok /\ todo.left > len + rest
                 THEN [todo EXCEPT !.left = @ - len - rest] ELSE Idle
  BY <1>1, <1>2 DEF Direction
<1>6. /\ ok /\ rest = 0 => out' = Empty
      /\ ok /\ rest > 0 => out' = Filled(open_packet(Empty, type, from + len), rest)
      /\ ~ok => out' \in {Empty, top}
  BY <1>1, <1>2 DEF Direction
<1>7. gone' \in BOOLEAN /\ (ok => Works) /\ (~ok => ~Works') /\ (Works' => Works)
  BY <1>5, Going
<1>8. Works => phase' = "serving"
  <2>1. top.pos \in Nat
    BY <1>4 DEF Buffer
  <2> QED BY <1>4, <1>5, <2>1, Sizes DEF GoesOn
<1>9. /\ todo' \in [type : Types, left : Nat]
      /\ ~(ok /\ rest = 0) => todo'.left = 0
  <2>1. CASE ok /\ todo.left > len + rest
    <3>1. todo.left - len - rest \in Nat
      BY <1>3, <2>1
    <3>2. rest = 0
      BY <1>3, <2>1
    <3> QED BY <1>5, <2>1, <3>1, <3>2 DEF IInv, Counts
  <2>2. CASE ~(ok /\ todo.left > len + rest)
    BY <1>5, <2>2 DEF Idle, Types
  <2> QED BY <2>1, <2>2
<1>10. Buffer(out') /\ (Works' => out'.pos <= BufSize) /\ (~(ok /\ rest > 0) => ~out'.hdr)
  <2>1. Buffer(Empty) /\ Empty.pos <= BufSize /\ ~Empty.hdr
    BY EmptyBuffer DEF Room
  <2>2. CASE ok /\ rest = 0
    BY <1>6, <2>1, <2>2
  <2>3. CASE ok /\ rest > 0
    <3>1. from + len \in Int /\ rest + 8 <= BufSize
      BY <1>3, Sizes
    <3> QED BY <1>3, <1>6, <2>3, <3>1, Anew
  <2>4. CASE ~ok
    BY <1>4, <1>6, <1>7, <2>1, <2>4
  <2> QED BY <2>2, <2>3, <2>4
<1>11. said' \in [Types -> Int] /\ open' \in BOOLEAN
  BY <1>5 DEF IInv, Counts
<1>12. todo'.left > 0 => ~out'.hdr
  BY <1>9, <1>10
<1> QED BY <1>7, <1>8, <1>9, <1>10, <1>11, <1>12 DEF IInv, InBuffer, Counts

(* fcgi_flush, with or without END_REQUEST, and whatever becomes of the    *)
(* connection behind it                                                    *)
LEMMA FlushedStep ==
    ASSUME IInv, NEW close \in BOOLEAN, NEW ok \in BOOLEAN, NEW p,
           p # "undefined", Flushed(close, ok, p), UNCHANGED <<todo, said>>,
           open' \in BOOLEAN, open' => open
    PROVE  IInv'
<1>1. PICK b : b = close_packet(out)
  OBVIOUS
<1>2. Buffer(b) /\ ~b.hdr /\ (Works => b.pos <= BufSize)
  BY <1>1, Closing DEF IInv, InBuffer
<1>3. /\ Goes(ok, Leaving(b.recs) \o EndRecord(close))
      /\ out' = IF ok THEN Empty ELSE b
      /\ GoesOn(p, b.pos + (IF close THEN EndSize ELSE 0))
  BY <1>1 DEF Flushed
<1>4. gone' \in BOOLEAN /\ (ok => Works) /\ (~ok => ~Works') /\ (Works' => Works)
  BY <1>3, Going
<1>5. Works => phase' = p
  <2>1. b.pos \in Nat
    BY <1>2 DEF Buffer
  <2> QED BY <1>2, <1>3, <2>1, Sizes DEF GoesOn
<1>6. Buffer(out') /\ ~out'.hdr /\ (Works' => out'.pos <= BufSize)
  <2>1. Buffer(Empty) /\ Empty.pos <= BufSize /\ ~Empty.hdr
    BY EmptyBuffer DEF Room
  <2> QED BY <1>2, <1>3, <1>4, <2>1
<1>7. said' \in [Types -> Int] /\ todo' \in [type : Types, left : Nat]
  BY DEF IInv, Counts
<1> QED BY <1>4, <1>5, <1>6, <1>7 DEF IInv, InBuffer, Counts

-----------------------------------------------------------------------------
(* Every step preserves the invariant.                                     *)
LEMMA NextIInv == IInv /\ [Next]_vars => IInv'
<1> SUFFICES ASSUME IInv, [Next]_vars PROVE IInv'
  OBVIOUS
<1> USE DEF conn, input, reading, output
<1>0. IInv => said \in [Types -> Int] /\ open \in BOOLEAN /\ gone \in BOOLEAN
  BY DEF IInv, Counts
<1>1. CASE WebServer
  <2>1. ASSUME NEW r \in Requests, Sends(r)
        PROVE  todo' = todo /\ said' \in [Types -> Int]
    BY <1>0, <2>1 DEF Sends
  <2>2. ASSUME NEW r \in Requests, Connect(r) PROVE IInv'
    <3>1. /\ todo' = todo /\ said' \in [Types -> Int]
          /\ phase' = "reading" /\ open' = TRUE /\ gone' = FALSE /\ out' = Empty
      BY <2>1, <2>2 DEF Connect
    <3>2. Buffer(out') /\ out'.pos <= BufSize /\ ~out'.hdr
      BY <3>1, EmptyBuffer DEF Room
    <3>3. todo' \in [type : Types, left : Nat]
      BY <3>1 DEF IInv, Counts
    <3> QED BY <3>1, <3>2, <3>3 DEF IInv, InBuffer, Counts
  <2>3. ASSUME NEW r \in Requests, AskAgain(r) PROVE IInv'
    BY <1>0, <2>1, <2>3, QuietStep DEF AskAgain, Works
  <2>4. ASSUME HangUp PROVE IInv'
    BY <1>0, <2>4, QuietStep DEF HangUp, Works
  <2> QED BY <1>1, <2>2, <2>3, <2>4 DEF WebServer
<1>2. CASE SkipStdin \/ Begin \/ Params \/ Serve \/ Refuse \/ GetValues
  <2>1. CASE SkipStdin
    BY <1>0, <2>1, QuietStep DEF SkipStdin, Works
  <2>2. CASE Begin
    BY <1>0, <2>2, QuietStep DEF Begin, Works
  <2>3. CASE Params
    BY <1>0, <2>3, QuietStep DEF Params, Works
  <2>4. CASE Serve
    BY <1>0, <2>4, QuietStep DEF Serve, Works
  <2>5. CASE Refuse
    BY <1>0, <2>5, QuietStep DEF Refuse, Dropped, Works
  <2>6. CASE GetValues
    BY <1>0, <2>6, QuietStep DEF GetValues, Dropped, Works
  <2> QED BY <1>2, <2>1, <2>2, <2>3, <2>4, <2>5, <2>6
<1>3. CASE Write
  <2>1. ASSUME NEW type \in Types, NEW len \in Lengths[type] PROVE len \in Nat
    BY <2>1, ScriptAssumption
  <2>2. ASSUME NEW type \in Types, NEW len \in Lengths[type], WriteFits(type, len)
        PROVE  IInv'
    BY <2>1, <2>2, FitsStep
  <2>3. ASSUME NEW type \in Types, NEW len \in Lengths[type], NEW ok \in BOOLEAN,
               WriteSpills(type, len, ok)
        PROVE  IInv'
    BY <2>1, <2>3, SpillsStep
  <2>4. ASSUME NEW type \in Types, NEW len \in Lengths[type], WriteDirect(type, len)
        PROVE  IInv'
    BY <2>1, <2>4, DirectStep
  <2>5. ASSUME NEW ok \in BOOLEAN, DirectChunk(ok) PROVE IInv'
    <3>1. /\ MaxLength - 7 \in Nat /\ todo.left > 0 /\ phase = "serving"
          /\ Direction(MaxLength - 7, ok, 0)
      BY <2>5, Sizes DEF DirectChunk, IInv, Counts
    <3> QED BY <3>1, DirectionStep
  <2>6. ASSUME NEW ok \in BOOLEAN, DirectLast(ok) PROVE IInv'
    <3>1. PICK left, rest : left = todo.left /\ rest = RestAligned(left)
      OBVIOUS
    <3>2. /\ left \in Nat /\ left > 0 /\ phase = "serving"
          /\ Direction(left - rest, ok, rest)
      BY <2>6, <3>1, Sizes DEF DirectLast, IInv, Counts
    <3>3. rest \in Nat /\ rest <= 7 /\ left - rest \in Nat /\ (left - rest) + rest = left
      <4>1. rest = left % 8
        BY <3>1 DEF RestAligned, Header
      <4>2. \A i \in Nat : i % 8 \in Nat /\ i % 8 <= 7 /\ i % 8 <= i
        OBVIOUS
      <4> HIDE DEF RestAligned
      <4>3. rest \in Nat /\ rest <= 7 /\ rest <= left
        BY <3>2, <4>1, <4>2
      <4> QED BY <3>2, <4>3
    <3> QED BY <3>1, <3>2, <3>3, DirectionStep
  <2> QED BY <1>3, <2>2, <2>3, <2>4, <2>5, <2>6 DEF Write
<1>4. CASE Read
  <2>1. ASSUME NEW count \in ReadSizes, ReadPost(count) PROVE IInv'
    BY <1>0, <2>1, QuietStep DEF ReadPost, Works
  <2>2. ASSUME NEW count \in ReadSizes, ReadFile(count) PROVE IInv'
    BY <1>0, <2>2, QuietStep DEF ReadFile, Works
  <2>3. CASE ReadHeader
    BY <1>0, <2>3, QuietStep DEF ReadHeader, Works
  <2>4. CASE ReadHeaderFails
    BY <1>0, <2>4, QuietStep DEF ReadHeaderFails, Works
  <2>5. CASE ReadData
    BY <1>0, <2>5, QuietStep DEF ReadData, Works
  <2>6. CASE ReadDataFails
    BY <1>0, <2>6, QuietStep DEF ReadDataFails, Works
  <2> QED BY <1>4, <2>1, <2>2, <2>3, <2>4, <2>5, <2>6 DEF Read
<1>5. ASSUME NEW ok \in BOOLEAN, Flush(ok) PROVE IInv'
  BY <1>0, <1>5, FlushedStep DEF Flush
<1>6. ASSUME NEW ok \in BOOLEAN, FinishEarly(ok) PROVE IInv'
  BY <1>0, <1>6, FlushedStep DEF FinishEarly, Closed, Stays
<1>7. ASSUME NEW ok \in BOOLEAN, Deactivate(ok) PROVE IInv'
  BY <1>0, <1>7, FlushedStep DEF Deactivate
<1>8. ASSUME NEW ok \in BOOLEAN, FinishRequest(ok) PROVE IInv'
  BY <1>0, <1>8, FlushedStep DEF FinishRequest, Closed, Stays
<1>9. CASE ScriptEnds
  BY <1>0, <1>9, QuietStep DEF ScriptEnds, Works
<1>10. CASE FinishedBefore
  BY <1>0, <1>10, QuietStep DEF FinishedBefore, Works
<1>11. CASE UNCHANGED vars
  BY <1>0, <1>11, QuietStep DEF vars, Works
<1> QED BY <1>1, <1>2, <1>3, <1>4, <1>5, <1>6, <1>7, <1>8, <1>9, <1>10, <1>11 DEF Next

(* Whatever is printed and logged, in whatever portions, and whatever the  *)
(* web server sends or fails to take: as long as the connection works what *)
(* is packed ends within out_buf, so that END_REQUEST fits behind it.      *)
THEOREM RoomForTheEnd == Spec => []EndFits
<1>1. Spec => []IInv
  BY InitIInv, NextIInv, PTL DEF Spec
<1> QED BY <1>1, IInvImplies, PTL

-----------------------------------------------------------------------------
(* What the web server sends: the records of a request.                    *)

Piece == [type : {"BEGIN", "PARAMS", "STDIN", "VALUES", "OTHER"},
          len : Nat, pad : Nat, have : Nat, request : Requests, serial : Nat]

(* The records that begin a request the worker answers                     *)
Asks(s) == {i \in DOMAIN s : s[i].type \in {"BEGIN", "VALUES"}}

(* Small sequences, functions as sequences, and concatenation              *)
LEMMA Short ==
    ASSUME NEW T, NEW x \in T, NEW y \in T, NEW z \in T
    PROVE  /\ <<x>> \in Seq(T) /\ Len(<<x>>) = 1 /\ <<x>>[1] = x
           /\ <<x, y, z>> \in Seq(T) /\ Len(<<x, y, z>>) = 3
           /\ <<x, y, z>>[1] = x /\ <<x, y, z>>[2] = y /\ <<x, y, z>>[3] = z
  OBVIOUS

(* A function on 1 .. k is a sequence.                                     *)
LEMMA FunctionIs ==
    ASSUME NEW T, NEW k \in Nat, NEW f \in [1 .. k -> T]
    PROVE  f \in Seq(T) /\ Len(f) = k
  <1>1. f \in Seq(T)
    BY SeqDef
  <1>2. DOMAIN f = 1 .. k /\ DOMAIN f = 1 .. Len(f) /\ Len(f) \in Nat
    BY <1>1
  <1> QED
    BY <1>2

(* A concatenation has the elements of both.                               *)
LEMMA JoinIs ==
    ASSUME NEW T, NEW a \in Seq(T), NEW b \in Seq(T)
    PROVE  /\ a \o b \in Seq(T) /\ Len(a \o b) = Len(a) + Len(b)
           /\ \A i \in 1 .. Len(a) : (a \o b)[i] = a[i]
           /\ \A i \in Len(a) + 1 .. Len(a) + Len(b) : (a \o b)[i] = b[i - Len(a)]
  <1>1. Len(a) \in Nat /\ Len(b) \in Nat
    OBVIOUS
  <1>2. a \o b \in Seq(T) /\ Len(a \o b) = Len(a) + Len(b)
    BY ConcatProperties
  <1>3. \A i \in 1 .. Len(a) + Len(b) :
            (a \o b)[i] = IF i <= Len(a) THEN a[i] ELSE b[i - Len(a)]
    BY ConcatProperties
  <1> QED
    BY <1>1, <1>2, <1>3

(* A request is so many records, and this is the j-th.                    *)
Count(r) == IF r.kind = "request" THEN Len(r.body) + 4 ELSE 1

Nth(r, k, j) ==
    CASE r.kind = "values" -> Record(r, k, "VALUES", Header, 0)
      [] r.kind = "other"  -> Record(r, k, "OTHER", 0, 0)
      [] r.kind = "request" ->
            IF j = 1 THEN Record(r, k, "BEGIN", Header, 0)
            ELSE IF j = 2 THEN Record(r, k, "PARAMS", Header, 0)
            ELSE IF j = 3 THEN Record(r, k, "PARAMS", 0, 0)
            ELSE IF j - 3 \in DOMAIN r.body
            THEN Record(r, k, "STDIN", r.body[j - 3].len, r.body[j - 3].pad)
            ELSE Record(r, k, "STDIN", 0, 0)

(* There is at least one.                                                  *)
LEMMA CountIs ==
    ASSUME NEW r \in Requests
    PROVE  /\ Count(r) \in Nat /\ Count(r) >= 1
           /\ r.kind = "request" => Len(r.body) \in Nat /\ Count(r) = Len(r.body) + 4
  <1>1. r.body \in Seq([len : Nat \ {0}, pad : Nat])
    BY RequestAssumption DEF Request
  <1>2. Len(r.body) \in Nat
    BY <1>1
  <1> QED
    BY <1>2 DEF Count

(* What the web server sends as a record is one, and has been sent whole.  *)
Made(x, r, k, type, len, pad) ==
    /\ x \in Piece /\ x.type = type /\ x.len = len /\ x.pad = pad
    /\ x.have = 8 + len + pad /\ x.request = r /\ x.serial = k
    /\ Size(x) = 8 + len + pad

(* Record makes those.                                                     *)
LEMMA RecordIs ==
    ASSUME NEW r \in Requests, NEW k \in Nat,
           NEW type \in {"BEGIN", "PARAMS", "STDIN", "VALUES", "OTHER"},
           NEW len \in Nat, NEW pad \in Nat
    PROVE  Made(Record(r, k, type, len, pad), r, k, type, len, pad)
  BY DEF Record, Piece, Header, Size, Made

(* What record x is as the j-th of request r, number k.                    *)
Shaped(x, r, k, j) ==
    /\ Made(x, r, k, x.type, x.len, x.pad)
    /\ j = 1 => x.type = First(r)
    /\ j # 1 => x.type \in {"PARAMS", "STDIN"} /\ r.kind = "request"
    /\ r.kind = "request" =>
          /\ j \in 2 .. 3 => x.type = "PARAMS" /\ x.len = IF j = 2 THEN 8 ELSE 0
          /\ j >= 4 => x.type = "STDIN"
          /\ j - 3 \in 1 .. Len(r.body) =>
                x.len = r.body[j - 3].len /\ x.pad = r.body[j - 3].pad
          /\ j = Len(r.body) + 4 => x.len = 0

(* The j-th record of a request                                            *)
LEMMA NthIs ==
    ASSUME NEW r \in Requests, NEW k \in Nat, NEW j \in 1 .. Count(r)
    PROVE  Shaped(Nth(r, k, j), r, k, j)
  <1>1. r.kind \in {"request", "values", "other"} /\ r.body \in Seq([len : Nat \ {0}, pad : Nat])
    BY RequestAssumption DEF Request
  <1>2. Len(r.body) \in Nat /\ DOMAIN r.body = 1 .. Len(r.body)
    BY <1>1
  <1>3. \A i \in 1 .. Len(r.body) : r.body[i].len \in Nat /\ r.body[i].pad \in Nat
    <2>1. \A i \in 1 .. Len(r.body) : r.body[i] \in [len : Nat \ {0}, pad : Nat]
      BY <1>1, <1>2, ElementOfSeq
    <2> QED
      BY <2>1
  <1>x. PICK x : x = Nth(r, k, j)
    OBVIOUS
  <1> SUFFICES Shaped(x, r, k, j)
    BY <1>x
  <1>4. CASE r.kind = "values"
    <2>1. Count(r) = 1 /\ j = 1 /\ First(r) = "VALUES"
      BY <1>4 DEF Count, First
    <2>2. Made(x, r, k, "VALUES", 8, 0)
      BY <1>4, <1>x, RecordIs DEF Nth, Header
    <2>3. x.type = "VALUES"
      BY <2>2 DEF Made
    <2> QED
      BY <1>4, <1>x, <2>1, <2>2, <2>3 DEF Shaped, Made
  <1>5. CASE r.kind = "other"
    <2>1. Count(r) = 1 /\ j = 1 /\ First(r) = "OTHER"
      BY <1>5 DEF Count, First
    <2>2. Made(x, r, k, "OTHER", 0, 0)
      BY <1>5, <1>x, RecordIs DEF Nth, Header
    <2>3. x.type = "OTHER"
      BY <2>2 DEF Made
    <2> QED
      BY <1>5, <1>x, <2>1, <2>2, <2>3 DEF Shaped, Made
  <1>6. CASE r.kind = "request"
    <2>0. PICK l \in Nat : l = Len(r.body)
      BY <1>2
    <2>1. Count(r) = l + 4 /\ First(r) = "BEGIN"
      BY <1>6, <2>0 DEF Count, First
    <2>2. CASE j = 1
      <3>1. Made(x, r, k, "BEGIN", 8, 0)
        <4>1. x = Record(r, k, "BEGIN", 8, 0)
          BY <1>6, <1>x, <2>2 DEF Nth, Header
        <4> QED
          BY <4>1, RecordIs
      <3>2. x.type = "BEGIN"
        BY <3>1 DEF Made
      <3> QED
        BY <1>6, <1>x, <2>0, <2>1, <2>2, <3>1, <3>2 DEF Shaped, Made
    <2>3. CASE j = 2
      <3>1. Made(x, r, k, "PARAMS", 8, 0)
        <4>1. x = Record(r, k, "PARAMS", 8, 0)
          BY <1>6, <1>x, <2>3 DEF Nth, Header
        <4> QED
          BY <4>1, RecordIs
      <3>2. x.type = "PARAMS" /\ x.len = 8
        BY <3>1 DEF Made
      <3> QED
        BY <1>6, <1>x, <2>0, <2>1, <2>3, <3>1, <3>2 DEF Shaped, Made
    <2>4. CASE j = 3
      <3>1. Made(x, r, k, "PARAMS", 0, 0)
        <4>1. x = Record(r, k, "PARAMS", 0, 0)
          BY <1>6, <1>x, <2>4 DEF Nth, Header
        <4> QED
          BY <4>1, RecordIs
      <3>2. x.type = "PARAMS" /\ x.len = 0
        BY <3>1 DEF Made
      <3> QED
        BY <1>6, <1>x, <2>0, <2>1, <2>4, <3>1, <3>2 DEF Shaped, Made
    <2>5. CASE j - 3 \in 1 .. l
      <3>1. r.body[j - 3].len \in Nat /\ r.body[j - 3].pad \in Nat /\ j >= 4 /\ j # l + 4
        BY <1>2, <1>3, <2>0, <2>5
      <3>2. Made(x, r, k, "STDIN", r.body[j - 3].len, r.body[j - 3].pad)
        <4>1. x = Record(r, k, "STDIN", r.body[j - 3].len, r.body[j - 3].pad)
          BY <1>2, <1>6, <1>x, <2>0, <2>5, <3>1 DEF Nth
        <4> QED
          BY <3>1, <4>1, RecordIs
      <3>3. x.type = "STDIN" /\ x.len = r.body[j - 3].len /\ x.pad = r.body[j - 3].pad
        BY <3>2 DEF Made
      <3> QED
        BY <1>6, <1>x, <2>0, <2>1, <3>1, <3>2, <3>3 DEF Shaped, Made
    <2>6. CASE j = l + 4
      <3>1. j >= 4 /\ j - 3 \notin 1 .. l
        BY <2>0, <2>6
      <3>2. Made(x, r, k, "STDIN", 0, 0)
        <4>1. x = Record(r, k, "STDIN", 0, 0)
          BY <1>2, <1>6, <1>x, <2>0, <3>1 DEF Nth
        <4> QED
          BY <4>1, RecordIs
      <3>3. x.type = "STDIN" /\ x.len = 0
        BY <3>2 DEF Made
      <3> QED
        BY <1>6, <1>x, <2>0, <2>1, <2>6, <3>1, <3>2, <3>3 DEF Shaped, Made
    <2>7. j = 1 \/ j = 2 \/ j = 3 \/ j - 3 \in 1 .. l \/ j = l + 4
      BY <2>0, <2>1
    <2> QED
      BY <2>2, <2>3, <2>4, <2>5, <2>6, <2>7
  <1> QED
    BY <1>1, <1>4, <1>5, <1>6

(* They are sent one after the other.                                      *)
LEMMA RecordsInPlace ==
    ASSUME NEW r \in Requests, NEW k \in Nat
    PROVE  /\ Records(r, k) \in Seq(Piece)
           /\ Len(Records(r, k)) = Count(r)
           /\ \A j \in 1 .. Count(r) : Records(r, k)[j] = Nth(r, k, j)
  <1>1. r.kind \in {"request", "values", "other"} /\ r.body \in Seq([len : Nat \ {0}, pad : Nat])
    BY RequestAssumption DEF Request
  <1>2. \A j \in 1 .. Count(r) : Nth(r, k, j) \in Piece
    BY NthIs DEF Shaped, Made
  <1>3. CASE r.kind # "request"
    <2>1. Count(r) = 1 /\ Records(r, k) = <<Nth(r, k, 1)>>
      BY <1>1, <1>3 DEF Count, Records, Nth
    <2> QED
      BY <1>2, <2>1
  <1>4. CASE r.kind = "request"
    <2> DEFINE b == r.body
    <2>0. PICK l \in Nat : l = Len(b) /\ DOMAIN b = 1 .. l
      BY <1>1
    <2> DEFINE first == <<Record(r, k, "BEGIN", Header, 0),
                          Record(r, k, "PARAMS", Header, 0),
                          Record(r, k, "PARAMS", 0, 0)>>
               mid   == [i \in DOMAIN b |->
                            Record(r, k, "STDIN", b[i].len, b[i].pad)]
               last  == <<Record(r, k, "STDIN", 0, 0)>>
    <2>1. Records(r, k) = (first \o mid) \o last
      BY <1>4, <2>0 DEF Records
    <2>2. Count(r) = l + 4
      BY <1>4, <2>0 DEF Count
    <2>3. /\ first \in Seq(Piece) /\ Len(first) = 3
          /\ \A j \in 1 .. 3 : first[j] = Nth(r, k, j)
      <3>1. PICK x, y, z : x = Nth(r, k, 1) /\ y = Nth(r, k, 2) /\ z = Nth(r, k, 3)
        OBVIOUS
      <3>2. first = <<x, y, z>>
        BY <1>4, <3>1 DEF Nth
      <3>3. x \in Piece /\ y \in Piece /\ z \in Piece
        BY <1>2, <2>2, <3>1
      <3>4. /\ first \in Seq(Piece) /\ Len(first) = 3
            /\ first[1] = x /\ first[2] = y /\ first[3] = z
        BY <3>2, <3>3, Short
      <3> HIDE DEF first
      <3> QED
        BY <3>1, <3>4
    <2>4. /\ mid \in Seq(Piece) /\ Len(mid) = l
          /\ \A i \in 1 .. l : mid[i] = Nth(r, k, i + 3)
      <3>1. \A i \in 1 .. l : mid[i] = Nth(r, k, i + 3) /\ i + 3 \in 1 .. Count(r)
        <4> SUFFICES ASSUME NEW i \in 1 .. l
                     PROVE  mid[i] = Nth(r, k, i + 3) /\ i + 3 \in 1 .. Count(r)
          OBVIOUS
        <4>1. i + 3 # 1 /\ i + 3 # 2 /\ i + 3 # 3 /\ i + 3 - 3 = i /\ i \in DOMAIN r.body
          BY <2>0
        <4>2. mid[i] = Record(r, k, "STDIN", r.body[i].len, r.body[i].pad)
          BY <2>0
        <4>3. Nth(r, k, i + 3) = Record(r, k, "STDIN", r.body[i].len, r.body[i].pad)
          BY <1>4, <4>1 DEF Nth
        <4> QED
          BY <2>0, <2>2, <4>2, <4>3
      <3>2. \A i \in 1 .. l : mid[i] \in Piece
        BY <1>2, <3>1
      <3>3. mid \in [1 .. l -> Piece]
        BY <2>0, <3>2
      <3> HIDE DEF mid
      <3> QED
        BY <3>1, <3>3, FunctionIs
    <2>5. last \in Seq(Piece) /\ Len(last) = 1 /\ last[1] = Nth(r, k, l + 4)
      <3>1. PICK x : x = Record(r, k, "STDIN", 0, 0)
        OBVIOUS
      <3>2. l + 4 # 1 /\ l + 4 # 2 /\ l + 4 # 3 /\ l + 4 - 3 \notin DOMAIN r.body
        BY <2>0
      <3>3. x = Nth(r, k, l + 4)
        BY <1>4, <3>1, <3>2 DEF Nth
      <3>4. x \in Piece
        BY <1>2, <2>2, <3>3
      <3> QED
        BY <3>1, <3>3, <3>4, Short
    <2> HIDE DEF first, mid, last
    <2>6. PICK all : all = first \o mid
      OBVIOUS
    <2>7. /\ all \in Seq(Piece) /\ Len(all) = 3 + l
          /\ \A j \in 1 .. 3 + l : all[j] = Nth(r, k, j)
      <3>1. /\ all \in Seq(Piece) /\ Len(all) = 3 + l
            /\ \A j \in 1 .. 3 : all[j] = first[j]
            /\ \A j \in 4 .. 3 + l : all[j] = mid[j - 3]
        <4>1. /\ first \o mid \in Seq(Piece) /\ Len(first \o mid) = Len(first) + Len(mid)
              /\ \A i \in 1 .. Len(first) : (first \o mid)[i] = first[i]
              /\ \A i \in Len(first) + 1 .. Len(first) + Len(mid) :
                    (first \o mid)[i] = mid[i - Len(first)]
          BY <2>3, <2>4, JoinIs
        <4> QED
          BY <2>3, <2>4, <2>6, <4>1, SMTT(30)
      <3>2. \A j \in 4 .. 3 + l : mid[j - 3] = Nth(r, k, j)
        <4>1. \A j \in 4 .. 3 + l : j - 3 \in 1 .. l /\ j - 3 + 3 = j
          OBVIOUS
        <4> QED
          BY <2>4, <4>1
      <3> QED
        BY <2>3, <3>1, <3>2
    <2>8. /\ Records(r, k) \in Seq(Piece) /\ Len(Records(r, k)) = 4 + l
          /\ \A j \in 1 .. 3 + l : Records(r, k)[j] = all[j]
          /\ Records(r, k)[4 + l] = last[1]
      <3>1. Records(r, k) = all \o last
        BY <2>1, <2>6
      <3>2. /\ all \o last \in Seq(Piece) /\ Len(all \o last) = Len(all) + Len(last)
            /\ \A i \in 1 .. Len(all) : (all \o last)[i] = all[i]
            /\ \A i \in Len(all) + 1 .. Len(all) + Len(last) : (all \o last)[i] = last[i - Len(all)]
        BY <2>5, <2>7, JoinIs
      <3>3. 4 + l \in Len(all) + 1 .. Len(all) + Len(last) /\ 4 + l - Len(all) = 1
        BY <2>5, <2>7
      <3> QED
        BY <2>5, <2>7, <3>1, <3>2, <3>3
    <2> QED
      BY <2>2, <2>5, <2>7, <2>8
  <1> QED
    BY <1>3, <1>4

(* A request is sent as records of its own number, and only the first of   *)
(* them begins it.                                                         *)
LEMMA RecordsAre ==
    ASSUME NEW r \in Requests, NEW k \in Nat
    PROVE  /\ Records(r, k) \in Seq(Piece)
           /\ \A i \in DOMAIN Records(r, k) :
                 /\ Records(r, k)[i].serial = k
                 /\ i \in Asks(Records(r, k)) => i = 1
  <1>1. /\ Records(r, k) \in Seq(Piece) /\ DOMAIN Records(r, k) = 1 .. Count(r)
        /\ \A i \in 1 .. Count(r) : Records(r, k)[i] = Nth(r, k, i)
    BY RecordsInPlace
  <1>2. ASSUME NEW i \in 1 .. Count(r)
        PROVE  /\ Nth(r, k, i).serial = k
               /\ i # 1 => Nth(r, k, i).type \notin {"BEGIN", "VALUES"}
    <2>1. Shaped(Nth(r, k, i), r, k, i)
      BY NthIs
    <2> QED
      BY <2>1 DEF Shaped, Made
  <1> QED
    BY <1>1, <1>2 DEF Asks

(* What is sent of it when it is cut short.                                *)
LEMMA CutIs ==
    ASSUME NEW recs \in Seq(Piece), NEW i \in DOMAIN recs, NEW have \in Nat
    PROVE  /\ Cut(recs, i, have) \in Seq(Piece)
           /\ \A j \in DOMAIN Cut(recs, i, have) :
                 /\ j \in DOMAIN recs
                 /\ Cut(recs, i, have)[j].serial = recs[j].serial
                 /\ Cut(recs, i, have)[j].type = recs[j].type
  <1>1. i \in 1 .. Len(recs) /\ Len(recs) \in Nat /\ DOMAIN recs = 1 .. Len(recs)
    OBVIOUS
  <1>2. \A j \in 1 .. i : recs[j] \in Piece
    BY <1>1
  <1>3. CASE have = 0
    <2>1. \A j \in 1 .. i - 1 : recs[j] \in Piece
      BY <1>1, <1>2
    <2>2. /\ SubSeq(recs, 1, i - 1) \in Seq(Piece)
          /\ Len(SubSeq(recs, 1, i - 1)) = IF 1 <= i - 1 THEN i - 1 - 1 + 1 ELSE 0
          /\ \A j \in 1 .. i - 1 - 1 + 1 : SubSeq(recs, 1, i - 1)[j] = recs[1 + j - 1]
      <3>1. 1 \in Int /\ i - 1 \in Int
        BY <1>1
      <3> QED
        BY <2>1, <3>1, SubSeqProperties
    <2>3. Cut(recs, i, have) = SubSeq(recs, 1, i - 1)
      BY <1>3 DEF Cut
    <2>4. \A j \in 1 .. i - 1 : SubSeq(recs, 1, i - 1)[j] = recs[j]
      BY <1>1, <2>2
    <2>5. DOMAIN SubSeq(recs, 1, i - 1) = 1 .. i - 1
      BY <1>1, <2>2
    <2> QED
      BY <1>1, <2>2, <2>3, <2>4, <2>5
  <1>4. CASE have # 0
    <2>1. PICK q : q = SubSeq(recs, 1, i)
      OBVIOUS
    <2>2. q \in Seq(Piece) /\ Len(q) = i /\ \A j \in 1 .. i : q[j] = recs[j]
      <3>1. 1 \in Int /\ i \in Int
        BY <1>1
      <3>2. /\ q \in Seq(Piece)
            /\ Len(q) = IF 1 <= i THEN i - 1 + 1 ELSE 0
            /\ \A j \in 1 .. i - 1 + 1 : q[j] = recs[1 + j - 1]
        BY <1>2, <2>1, <3>1, SubSeqProperties
      <3> QED
        BY <1>1, <3>2
    <2>3. PICK e : e = [q[i] EXCEPT !.have = have]
      OBVIOUS
    <2>4. q[i] \in Piece
      BY <1>1, <2>2
    <2>5. e \in Piece /\ e.serial = q[i].serial /\ e.type = q[i].type
      BY <2>3, <2>4 DEF Piece
    <2>6. Cut(recs, i, have) = [q EXCEPT ![i] = e]
      BY <1>4, <2>1, <2>3 DEF Cut
    <2> QED
      BY <1>1, <2>2, <2>5, <2>6
  <1> QED
    BY <1>3, <1>4

(* So whatever is sent of a request                                        *)
Sending(q, k) ==
    /\ q \in Seq(Piece)
    /\ \A i \in DOMAIN q : q[i].serial = k /\ (i \in Asks(q) => i = 1)

(* is at the end of the stream, and nothing else in it is new.             *)
LEMMA SendsIs ==
    ASSUME NEW r \in Requests, Sends(r), asked \in Nat
    PROVE  /\ asked' = asked + 1 /\ answer' = <<>> /\ UNCHANGED serial
           /\ \E q : Sending(q, asked + 1) /\ stream' = stream \o q
  <1>1. PICK recs : recs = Records(r, asked + 1)
    OBVIOUS
  <1>2. /\ recs \in Seq(Piece)
        /\ \A i \in DOMAIN recs : recs[i].serial = asked + 1 /\ (i \in Asks(recs) => i = 1)
    BY <1>1, RecordsAre
  <1>3. CASE stream' = stream \o recs
    BY <1>2, <1>3 DEF Sends, Sending
  <1>4. ASSUME NEW i \in DOMAIN recs, NEW have \in CutPlaces(recs[i]),
               stream' = stream \o Cut(recs, i, have)
        PROVE  \E q : Sending(q, asked + 1) /\ stream' = stream \o q
    <2>1. have \in Nat
      BY DEF CutPlaces, Header
    <2>2. PICK q : q = Cut(recs, i, have)
      OBVIOUS
    <2>3. /\ q \in Seq(Piece)
          /\ \A j \in DOMAIN q : /\ j \in DOMAIN recs /\ q[j].serial = recs[j].serial
                                 /\ q[j].type = recs[j].type
      BY <1>2, <2>1, <2>2, CutIs, ZenonT(60)
    <2>4. Sending(q, asked + 1)
      BY <1>2, <2>3 DEF Sending, Asks
    <2> QED
      BY <1>4, <2>2, <2>4
  <1>5. stream' = stream \o recs
            \/ \E i \in DOMAIN recs : \E have \in CutPlaces(recs[i]) :
                  stream' = stream \o Cut(recs, i, have)
    BY <1>1 DEF Sends
  <1> QED
    BY <1>3, <1>4, <1>5 DEF Sends

-----------------------------------------------------------------------------
(* What the worker counts: everything is a natural number.  What has been  *)
(* read of a record is no more than has been sent of it, a call of         *)
(* fcgi_read has not got all it wants while it goes on, and a body is      *)
(* never asked for beyond CONTENT_LENGTH.                                  *)

InputOK ==
    /\ stream \in Seq(Piece) /\ off \in Nat
    /\ stream = <<>> => off = 0
    /\ stream # <<>> => off <= Front.have

Numbers ==
    /\ req \in Requests
    /\ serial \in Nat /\ asked \in Nat /\ calls \in Nat
    /\ in_len \in Nat /\ in_pad \in Nat /\ taken \in Nat
    /\ want \in Nat /\ n \in Nat /\ read_post_bytes \in Nat

Flags ==
    /\ phase \in Phases
    /\ open \in BOOLEAN /\ keep \in BOOLEAN /\ gone \in BOOLEAN /\ eof \in BOOLEAN
    /\ early \in BOOLEAN /\ aborted \in BOOLEAN

WantsLeft ==
    /\ want = 0 => n = 0
    /\ want > 0 => n < want /\ phase \in {"serving", "draining"}
    /\ Serving => read_post_bytes + want <= req.content_length
    /\ todo.left > 0 => want = 0

Typed == InputOK /\ Numbers /\ Flags /\ WantsLeft

(* The first record of the stream                                          *)
LEMMA FrontIs ==
    ASSUME stream \in Seq(Piece), stream # <<>>
    PROVE  /\ Front \in Piece
           /\ Front.len \in Nat /\ Front.pad \in Nat /\ Front.have \in Nat
           /\ Front.request \in Requests /\ Front.serial \in Nat
           /\ Tail(stream) \in Seq(Piece)
  <1>1. Front \in Piece /\ Tail(stream) \in Seq(Piece)
    BY DEF Front
  <1> QED
    BY <1>1 DEF Piece

(* It has been read to its end.                                            *)
LEMMA Consumes ==
    ASSUME InputOK, stream # <<>>, Consume
    PROVE  InputOK'
  <1>1. stream' \in Seq(Piece) /\ off' = 0
    BY FrontIs DEF InputOK, Consume
  <1>2. stream' # <<>> => Front' \in Piece
    BY <1>1 DEF Front
  <1> QED
    BY <1>1, <1>2 DEF InputOK, Piece

(* It has been read further.                                               *)
LEMMA MovesOn ==
    ASSUME InputOK, stream # <<>>, stream' = stream, off' \in Nat, off' <= Front.have
    PROVE  InputOK'
  <1>1. Front' = Front
    BY DEF Front
  <1> QED
    BY <1>1 DEF InputOK

(* More is sent behind it.                                                 *)
LEMMA MoreSent ==
    ASSUME InputOK, NEW r \in Requests, Sends(r), asked \in Nat
    PROVE  InputOK'
  <1>1. PICK q : Sending(q, asked + 1) /\ stream' = stream \o q
    BY SendsIs
  <1>2. q \in Seq(Piece) /\ stream \in Seq(Piece) /\ off' = off
    BY <1>1 DEF Sending, InputOK, Sends
  <1>3. stream' \in Seq(Piece)
    BY <1>1, <1>2, JoinIs
  <1>4. CASE stream = <<>>
    <2>1. off' = 0
      BY <1>2, <1>4 DEF InputOK
    <2>2. stream' # <<>> => Front' \in Piece
      BY <1>3 DEF Front
    <2> QED
      BY <1>3, <2>1, <2>2 DEF InputOK, Piece
  <1>5. CASE stream # <<>>
    <2>1. Len(stream) \in Nat /\ 1 \in 1 .. Len(stream)
      BY <1>2, <1>5
    <2>2. stream'[1] = stream[1]
      BY <1>1, <1>2, <2>1, JoinIs
    <2>3. stream' # <<>>
      BY <1>1, <1>2, <2>1
    <2> QED
      BY <1>2, <1>3, <1>5, <2>2, <2>3 DEF InputOK, Front
  <1> QED
    BY <1>4, <1>5

(* The request being served asks for so many bytes.                        *)
LEMMA ContentLength ==
    ASSUME NEW r \in Requests
    PROVE  r.content_length \in Nat /\ r.keep \in BOOLEAN
  BY RequestAssumption DEF Request

(* A call returns.                                                         *)
LEMMA Returns ==
    ASSUME Numbers, WantsLeft, NEW v \in Int, v <= want, Return(v), want > 0,
           UNCHANGED <<phase, req, todo>>
    PROVE  /\ n' \in Nat /\ want' \in Nat /\ read_post_bytes' \in Nat
           /\ WantsLeft'
  <1>1. want \in Nat /\ n \in Nat /\ read_post_bytes \in Nat
    BY DEF Numbers
  <1>2. req.content_length \in Nat
    BY ContentLength DEF Numbers
  <1>3. n' = 0
    BY DEF Return
  <1>4. CASE v > 0
    <2>1. read_post_bytes' = read_post_bytes + v /\ want' = want - v
      BY <1>4 DEF Return
    <2> QED
      BY <1>1, <1>2, <1>3, <1>4, <2>1 DEF WantsLeft, Serving
  <1>5. CASE ~(v > 0)
    <2>1. read_post_bytes' = read_post_bytes /\ want' = 0
      BY <1>5 DEF Return
    <2> QED
      BY <1>1, <1>2, <1>3, <2>1 DEF WantsLeft, Serving
  <1> QED
    BY <1>4, <1>5

(* It holds initially.                                                     *)
LEMMA InitTyped == Init => Typed
  <1> SUFFICES ASSUME Init PROVE Typed
    OBVIOUS
  <1>1. req \in Requests
    BY RequestAssumption DEF Init
  <1>2. InputOK
    BY DEF Init, InputOK
  <1>3. Numbers /\ Flags
    BY <1>1 DEF Init, Numbers, Flags, Phases
  <1>4. WantsLeft
    <2>1. todo.left = 0 /\ want = 0 /\ n = 0 /\ phase = "accept"
      BY DEF Init, Idle
    <2> QED
      BY <2>1 DEF WantsLeft, Serving
  <1> QED
    BY <1>2, <1>3, <1>4 DEF Typed

(* A step that reads nothing and asks for nothing.                         *)
LEMMA OutTyped ==
    ASSUME Typed, calls' \in Nat, phase' \in Phases, open' \in BOOLEAN,
           keep' \in BOOLEAN, gone' \in BOOLEAN, early' \in BOOLEAN,
           aborted' \in BOOLEAN, want = 0 \/ UNCHANGED <<phase, todo>>, Serving' => Serving,
           UNCHANGED <<req, serial, asked, in_pad, taken, want, n,
                       read_post_bytes>>,
           in_len' \in Nat, eof' \in BOOLEAN,
           \/ UNCHANGED <<stream, off>>
           \/ stream' = <<>> /\ off' = 0
    PROVE  Typed'
  <1>1. InputOK'
    <2>1. <<>> \in Seq(Piece)
      OBVIOUS
    <2>2. CASE UNCHANGED <<stream, off>>
      BY <2>2 DEF Typed, InputOK, Front
    <2>3. CASE stream' = <<>> /\ off' = 0
      BY <2>1, <2>3 DEF InputOK
    <2> QED
      BY <2>2, <2>3
  <1>2. Numbers' /\ Flags'
    BY DEF Typed, Numbers, Flags
  <1>3. WantsLeft'
    BY DEF Typed, Numbers, WantsLeft
  <1> QED
    BY <1>1, <1>2, <1>3 DEF Typed

(* What sending does to the flags.                                         *)
LEMMA GoesTyped ==
    ASSUME Typed, NEW ok \in BOOLEAN, NEW recs, Goes(ok, recs)
    PROVE  keep' \in BOOLEAN /\ gone' \in BOOLEAN /\ (ok => open /\ ~gone)
  BY DEF Typed, Flags, Goes, KeepAfter

(* Where the code goes on.                                                 *)
LEMMA GoesOnTyped ==
    ASSUME NEW p \in Phases, NEW pos, GoesOn(p, pos)
    PROVE  phase' \in Phases /\ (phase' = p \/ phase' = "undefined")
  BY DEF GoesOn, Phases

(* The script prints, logs, flushes and finishes.                          *)
LEMMA WriteTyped ==
    ASSUME IInv, Typed, Write
    PROVE  Typed'
  <1> USE DEF Typed, Flags, Numbers
  <1>1. ASSUME NEW type \in Types, NEW len, WriteFits(type, len)
        PROVE  Typed'
    <2>1. /\ phase = "serving" /\ want = 0 /\ calls' \in Nat
          /\ UNCHANGED <<open, keep, req, gone, serial, early, stream, off, eof,
                         in_len, in_pad, taken, asked, want, n, read_post_bytes, aborted>>
          /\ GoesOn(phase, out'.pos)
      BY <1>1 DEF WriteFits, MayWrite, Calls, input, reading
    <2>2. phase' \in Phases /\ (phase' = phase \/ phase' = "undefined")
      BY <2>1, GoesOnTyped
    <2> QED
      BY <2>1, <2>2, OutTyped DEF Serving
  <1>2. ASSUME NEW type \in Types, NEW len, NEW ok \in BOOLEAN,
               WriteSpills(type, len, ok)
        PROVE  Typed'
    <2>1. PICK recs, pos :
            /\ phase = "serving" /\ want = 0 /\ calls' \in Nat
            /\ UNCHANGED <<open, req, serial, early, stream, off, eof,
                           in_len, in_pad, taken, asked, want, n, read_post_bytes>>
            /\ Goes(ok, recs) /\ GoesOn(phase, pos)
            /\ aborted' \in BOOLEAN
      BY <1>2 DEF WriteSpills, MayWrite, Calls, input, reading
    <2>2. phase' \in Phases /\ (phase' = phase \/ phase' = "undefined")
      BY <2>1, GoesOnTyped
    <2>3. keep' \in BOOLEAN /\ gone' \in BOOLEAN
      BY <2>1, GoesTyped
    <2> QED
      BY <2>1, <2>2, <2>3, OutTyped DEF Serving
  <1>3. ASSUME NEW type \in Types, NEW len, WriteDirect(type, len)
        PROVE  Typed'
    BY <1>3, OutTyped DEF WriteDirect, MayWrite, Calls, conn, input, reading, Serving
  <1>4. ASSUME NEW ok \in BOOLEAN, NEW len, NEW rest, Direction(len, ok, rest),
               phase = "serving", todo.left > 0
        PROVE  Typed'
    <2>1. PICK recs, pos :
            /\ UNCHANGED <<open, req, serial, early, stream, off, eof,
                           in_len, in_pad, taken, asked, want, n, read_post_bytes, calls>>
            /\ Goes(ok, recs) /\ GoesOn(phase, pos)
            /\ aborted' \in BOOLEAN
      BY <1>4 DEF Direction, input, reading
    <2>2. phase' \in Phases /\ (phase' = phase \/ phase' = "undefined")
      BY <2>1, GoesOnTyped
    <2>3. keep' \in BOOLEAN /\ gone' \in BOOLEAN
      BY <2>1, GoesTyped
    <2>4. want = 0
      BY <1>4 DEF WantsLeft
    <2> QED
      BY <1>4, <2>1, <2>2, <2>3, <2>4, OutTyped DEF Serving
  <1>5. ASSUME NEW ok \in BOOLEAN, DirectChunk(ok) \/ DirectLast(ok)
        PROVE  Typed'
    <2>1. CASE DirectChunk(ok)
      <3>1. todo.left > 0 /\ phase = "serving"
        BY <2>1, Sizes DEF DirectChunk, IInv, Counts
      <3> QED
        BY <1>4, <2>1, <3>1 DEF DirectChunk
    <2>2. CASE DirectLast(ok)
      <3>1. todo.left > 0 /\ phase = "serving"
        BY <2>2, Sizes DEF DirectLast, IInv, Counts
      <3> QED
        BY <1>4, <2>2, <3>1 DEF DirectLast
    <2> QED
      BY <1>5, <2>1, <2>2
  <1> QED
    BY <1>1, <1>2, <1>3, <1>5 DEF Write

(* Its calls to read.                                                      *)
LEMMA ReadTyped ==
    ASSUME Typed, Read
    PROVE  Typed'
  <1>0. /\ InputOK /\ Numbers /\ Flags /\ WantsLeft
        /\ stream \in Seq(Piece) /\ off \in Nat /\ in_len \in Nat /\ in_pad \in Nat
        /\ want \in Nat /\ n \in Nat /\ taken \in Nat /\ read_post_bytes \in Nat
        /\ req \in Requests
    BY DEF Typed, InputOK, Numbers
  <1>1. ASSUME NEW count \in ReadSizes, ReadPost(count) \/ ReadFile(count)
        PROVE  Typed'
    <2>1. count \in Nat /\ req.content_length \in Nat
      BY <1>0, ScriptAssumption, ContentLength
    <2>2. /\ phase = "serving" /\ want = 0 /\ todo.left = 0
          /\ UNCHANGED <<phase, open, keep, req, gone, serial, early, stream, off, eof,
                         in_len, in_pad, taken, asked, todo, aborted, n>>
          /\ calls' = calls + 1
      BY <1>1 DEF ReadPost, ReadFile, Calls, conn, input, output
    <2>3. InputOK' /\ Flags'
      BY <1>0, <2>2 DEF InputOK, Front, Flags
    <2>4. read_post_bytes <= req.content_length /\ n = 0
      BY <1>0, <2>1, <2>2 DEF WantsLeft, Serving
    <2>5. Unread(count) \in Nat /\ Unread(count) <= req.content_length - read_post_bytes
      BY <1>0, <2>1, <2>4 DEF Unread, Least
    <2>6. CASE ReadPost(count)
      BY <1>0, <2>1, <2>2, <2>3, <2>4, <2>5, <2>6 DEF ReadPost, Typed, Numbers, WantsLeft, Serving
    <2>7. CASE ReadFile(count)
      BY <1>0, <2>1, <2>2, <2>3, <2>4, <2>5, <2>7 DEF ReadFile, Typed, Numbers, WantsLeft, Serving
    <2> QED
      BY <1>1, <2>6, <2>7
  <1>2. CASE ReadHeader
    <2>1. /\ UNCHANGED <<phase, open, req, gone, serial, early, eof, taken, asked,
                         todo, aborted, calls>>
          /\ want > 0 /\ stream # <<>> /\ Front.have >= Header
      BY <1>2 DEF ReadHeader, InCall, HasHdr, InStep, output
    <2>2. Front.len \in Nat /\ Front.pad \in Nat /\ Front.have \in Nat
      BY <1>0, <2>1, FrontIs
    <2>3. CASE Front.type = "STDIN" /\ Front.len = 0
      <3>1. Consume /\ Return(n) /\ in_len' = 0 /\ in_pad' = Front.pad /\ keep' = keep
        BY <1>2, <2>3 DEF ReadHeader
      <3>2. InputOK'
        BY <1>0, <2>1, <3>1, Consumes
      <3>3. n \in Int /\ n <= want
        BY <1>0, <2>1 DEF WantsLeft
      <3>4. n' \in Nat /\ want' \in Nat /\ read_post_bytes' \in Nat /\ WantsLeft'
        BY <1>0, <2>1, <3>1, <3>3, Returns
      <3> QED
        BY <1>0, <2>1, <2>2, <3>1, <3>2, <3>4 DEF Typed, Numbers, Flags
    <2>4. CASE Front.type = "STDIN" /\ Front.len # 0
      <3>1. /\ off' = Header /\ UNCHANGED <<stream, want, n, read_post_bytes, keep>>
            /\ in_len' = Front.len /\ in_pad' = Front.pad
        BY <1>2, <2>4 DEF ReadHeader, reading
      <3>2. InputOK'
        BY <1>0, <2>1, <2>2, <3>1, MovesOn DEF Header
      <3>3. Numbers' /\ Flags' /\ WantsLeft'
        BY <1>0, <2>1, <2>2, <3>1 DEF Numbers, Flags, WantsLeft, Serving
      <3> QED
        BY <3>2, <3>3 DEF Typed
    <2>5. CASE Front.type # "STDIN"
      <3>1. /\ off' = Header /\ keep' = FALSE /\ Return(0)
            /\ UNCHANGED <<stream, in_len, in_pad>>
        BY <1>2, <2>5 DEF ReadHeader
      <3>2. InputOK'
        BY <1>0, <2>1, <2>2, <3>1, MovesOn DEF Header
      <3>3. 0 \in Int /\ 0 <= want
        BY <1>0
      <3>4. n' \in Nat /\ want' \in Nat /\ read_post_bytes' \in Nat /\ WantsLeft'
        BY <1>0, <2>1, <3>1, <3>3, Returns
      <3> QED
        BY <1>0, <2>1, <3>1, <3>2, <3>4 DEF Typed, Numbers, Flags
    <2> QED
      BY <2>3, <2>4, <2>5
  <1>3. CASE ReadHeaderFails
    <2>1. /\ UNCHANGED <<phase, open, req, gone, serial, early, stream, off, eof, in_len,
                         in_pad, taken, asked, todo, aborted, calls>>
          /\ want > 0 /\ keep' = FALSE /\ Return(0)
      BY <1>3 DEF ReadHeaderFails, InCall, input, output
    <2>2. InputOK'
      BY <1>0, <2>1 DEF InputOK, Front
    <2>3. 0 \in Int /\ 0 <= want
      BY <1>0
    <2>4. n' \in Nat /\ want' \in Nat /\ read_post_bytes' \in Nat /\ WantsLeft'
      BY <1>0, <2>1, <2>3, Returns
    <2> QED
      BY <1>0, <2>1, <2>2, <2>4 DEF Typed, Numbers, Flags
  <1>4. CASE ReadData
    <2> DEFINE k == Portion
               pad == IF in_len = k THEN PadToRead ELSE 0
    <2>1. /\ UNCHANGED <<phase, open, req, gone, serial, early, in_pad, eof, asked,
                         todo, aborted, calls>>
          /\ want > 0 /\ in_len > 0 /\ There >= k
          /\ in_len' = in_len - k /\ taken' = taken + k
      BY <1>4 DEF ReadData, InCall, output
    <2>2. k \in Nat /\ k > 0 /\ k <= in_len /\ n + k <= want /\ pad \in Nat
      BY <1>0, <2>1 DEF Portion, Least, WantsLeft, PadToRead
    <2>3. stream # <<>> /\ There = Front.have - off
      BY <2>1, <2>2 DEF There
    <2>4. Front.have \in Nat
      BY <1>0, <2>3, FrontIs
    <2>5. CASE There < k + pad
      <3>1. keep' = FALSE /\ Return(k) /\ off' = off + k /\ stream' = stream
        BY <1>4, <2>5 DEF ReadData
      <3> HIDE DEF k, pad
      <3>2. InputOK'
        <4>1. off' \in Nat /\ off' <= Front.have
          BY <1>0, <2>1, <2>2, <2>3, <2>4, <3>1
        <4> QED
          BY <1>0, <2>3, <3>1, <4>1, MovesOn
      <3>3. k \in Int /\ k <= want
        BY <1>0, <2>2
      <3>4. n' \in Nat /\ want' \in Nat /\ read_post_bytes' \in Nat /\ WantsLeft'
        BY <1>0, <2>1, <3>1, <3>3, Returns
      <3>5. Flags'
        BY <1>0, <2>1, <3>1 DEF Flags
      <3>6. Numbers'
        BY <1>0, <2>1, <2>2, <3>4 DEF Numbers
      <3> QED
        BY <3>2, <3>4, <3>5, <3>6 DEF Typed
    <2>6. CASE ~(There < k + pad)
      <3>1. /\ UNCHANGED keep
            /\ \/ Consume
               \/ off' = off + k + pad /\ UNCHANGED stream
            /\ \/ n + k = want /\ Return(n + k)
               \/ n + k # want /\ n' = n + k /\ UNCHANGED <<want, read_post_bytes>>
        BY <1>4, <2>6 DEF ReadData, InAll
      <3> HIDE DEF k, pad
      <3>2. InputOK'
        <4>1. CASE Consume
          BY <1>0, <2>3, <4>1, Consumes
        <4>2. CASE off' = off + k + pad /\ UNCHANGED stream
          <5>1. off' \in Nat /\ off' <= Front.have
            BY <1>0, <2>2, <2>3, <2>4, <2>6, <4>2
          <5> QED
            BY <1>0, <2>3, <4>2, <5>1, MovesOn
        <4> QED
          BY <3>1, <4>1, <4>2
      <3>3. n' \in Nat /\ want' \in Nat /\ read_post_bytes' \in Nat /\ WantsLeft'
        <4>1. CASE n + k = want /\ Return(n + k)
          <5>1. n + k \in Int /\ n + k <= want
            BY <1>0, <2>2
          <5> QED
            BY <1>0, <2>1, <4>1, <5>1, Returns
        <4>2. CASE n + k # want /\ n' = n + k /\ UNCHANGED <<want, read_post_bytes>>
          BY <1>0, <2>1, <2>2, <4>2 DEF WantsLeft, Serving
        <4> QED
          BY <3>1, <4>1, <4>2
      <3> QED
        BY <1>0, <2>1, <2>2, <3>1, <3>2, <3>3 DEF Typed, Numbers, Flags
    <2> QED
      BY <2>5, <2>6
  <1>5. CASE ReadDataFails
    <2>1. /\ UNCHANGED <<phase, open, req, gone, serial, early, stream, in_pad, eof, asked,
                         todo, aborted, calls>>
          /\ want > 0 /\ in_len > 0
      BY <1>5 DEF ReadDataFails, InCall, output
    <2>2. There \in Nat /\ (stream # <<>> => off + There <= Front.have)
          /\ (stream = <<>> => There = 0)
      <3>1. CASE stream = <<>>
        BY <3>1 DEF There
      <3>2. CASE stream # <<>>
        <4>1. Front.have \in Nat
          BY <1>0, <3>2, FrontIs
        <4>2. off <= Front.have
          BY <1>0, <3>2 DEF InputOK
        <4> QED
          BY <1>0, <3>2, <4>1, <4>2 DEF There
      <3> QED
        BY <3>1, <3>2
    <2>3. CASE /\ There < Portion /\ UNCHANGED keep
               /\ in_len' = in_len - There /\ taken' = taken + There
               /\ off' = off + There /\ Return(InAll(There))
      <3>1. There < in_len /\ n + There <= want /\ InAll(There) = n + There
        BY <1>0, <2>1, <2>2, <2>3 DEF Portion, Least, InAll, WantsLeft
      <3>2. InputOK'
        BY <1>0, <2>1, <2>2, <2>3 DEF InputOK, Front
      <3>3. InAll(There) \in Int /\ InAll(There) <= want
        BY <1>0, <2>2, <3>1
      <3>4. n' \in Nat /\ want' \in Nat /\ read_post_bytes' \in Nat /\ WantsLeft'
        BY <1>0, <2>1, <2>3, <3>3, Returns
      <3> QED
        BY <1>0, <2>1, <2>2, <2>3, <3>1, <3>2, <3>4 DEF Typed, Numbers, Flags
    <2>4. CASE keep' = FALSE /\ Return(-1) /\ UNCHANGED <<in_len, taken, off>>
      <3>1. InputOK'
        BY <1>0, <2>1, <2>4 DEF InputOK, Front
      <3>2. -1 \in Int /\ -1 <= want
        BY <1>0
      <3>3. n' \in Nat /\ want' \in Nat /\ read_post_bytes' \in Nat /\ WantsLeft'
        BY <1>0, <2>1, <2>4, <3>2, Returns
      <3> QED
        BY <1>0, <2>1, <2>4, <3>1, <3>3 DEF Typed, Numbers, Flags
    <2> QED
      BY <1>5, <2>3, <2>4 DEF ReadDataFails
  <1> QED
    BY <1>1, <1>2, <1>3, <1>4, <1>5 DEF Read

(* fcgi_read_request                                                       *)
LEMMA RequestTyped ==
    ASSUME Typed, SkipStdin \/ Begin \/ Params \/ Serve \/ Refuse \/ GetValues
    PROVE  Typed'
  <1>0. /\ InputOK /\ Numbers /\ Flags /\ WantsLeft
        /\ stream \in Seq(Piece)
    BY DEF Typed, InputOK
  <1>1. CASE SkipStdin \/ Begin \/ Params \/ Serve
    <2>1. /\ stream # <<>> /\ Consume /\ phase \in {"reading", "params"}
          /\ UNCHANGED <<open, gone, early, in_len, in_pad, eof, asked, want, n, todo, calls>>
          /\ taken' \in {taken, 0} /\ aborted' \in {aborted, FALSE}
      BY <1>1 DEF SkipStdin, Begin, Params, Serve, HasHdr, HasAll, InStep, conn,
                  reading, output
    <2>2. InputOK'
      BY <1>0, <2>1, Consumes
    <2>3. Front.request \in Requests /\ Front.serial \in Nat
      BY <1>0, <2>1, FrontIs
    <2>4. want = 0
      BY <1>0, <2>1 DEF WantsLeft, Numbers
    <2>5. CASE SkipStdin \/ Params
      <3>1. UNCHANGED <<phase, keep, req, serial, read_post_bytes>>
        BY <2>5 DEF SkipStdin, Params, conn, reading
      <3>2. Numbers' /\ WantsLeft'
        BY <1>0, <2>1, <2>4, <3>1 DEF Numbers, WantsLeft, Serving
      <3>3. Flags'
        BY <1>0, <2>1, <3>1 DEF Flags
      <3> QED
        BY <2>2, <3>2, <3>3 DEF Typed
    <2>6. CASE Begin
      <3>1. /\ phase' = "params" /\ req' = Front.request /\ serial' = Front.serial
            /\ keep' = Front.request.keep /\ UNCHANGED read_post_bytes
        BY <2>6 DEF Begin, reading
      <3>2. keep' \in BOOLEAN
        BY <2>3, <3>1, ContentLength
      <3>3. Numbers' /\ WantsLeft'
        BY <1>0, <2>1, <2>3, <2>4, <3>1 DEF Numbers, WantsLeft, Serving
      <3>4. Flags'
        BY <1>0, <2>1, <3>1, <3>2 DEF Flags, Phases
      <3> QED
        BY <2>2, <3>3, <3>4 DEF Typed
    <2>7. CASE Serve
      <3>1. /\ phase' = "serving" /\ read_post_bytes' = 0
            /\ UNCHANGED <<keep, req, serial>>
        BY <2>7 DEF Serve
      <3>2. req.content_length \in Nat
        BY <1>0, ContentLength DEF Numbers
      <3>3. Numbers' /\ WantsLeft'
        BY <1>0, <2>1, <2>4, <3>1, <3>2 DEF Numbers, WantsLeft, Serving
      <3>4. Flags'
        BY <1>0, <2>1, <3>1 DEF Flags, Phases
      <3> QED
        BY <2>2, <3>3, <3>4 DEF Typed
    <2> QED
      BY <1>1, <2>5, <2>6, <2>7
  <1>2. CASE Refuse \/ GetValues
    <2>1. /\ phase' = "accept" /\ open' = FALSE /\ stream' = <<>> /\ off' = 0 /\ eof' = FALSE
          /\ UNCHANGED <<keep, req, gone, serial, early, in_len, in_pad, taken, asked,
                         want, n, read_post_bytes, todo, aborted, calls>>
      BY <1>2 DEF Refuse, GetValues, Dropped, reading, output
    <2>2. phase \in {"reading", "params"}
      BY <1>2 DEF Refuse, Refused, GetValues
    <2>3. want = 0
      BY <1>0, <2>2 DEF WantsLeft, Numbers
    <2> QED
      BY <1>0, <2>1, <2>3, OutTyped DEF Numbers, Flags, Phases, Serving
  <1> QED
    BY <1>1, <1>2

(* The web server                                                          *)
LEMMA WebServerTyped ==
    ASSUME Typed, WebServer
    PROVE  Typed'
  <1>0. InputOK /\ Numbers /\ Flags /\ WantsLeft
    BY DEF Typed
  <1>1. CASE HangUp
    <2>1. UNCHANGED <<phase, open, keep, req, gone, serial, early, stream, off, in_len,
                      in_pad, taken, asked, want, n, read_post_bytes, todo, aborted, calls>>
          /\ eof' = TRUE
      BY <1>1 DEF HangUp, conn, reading, output
    <2> QED
      BY <1>0, <2>1, OutTyped DEF Numbers, Flags, Serving
  <1>2. ASSUME NEW r \in Requests, Connect(r) \/ AskAgain(r)
        PROVE  Typed'
    <2>1. /\ Sends(r) /\ asked' = asked + 1
          /\ UNCHANGED <<keep, req, serial, in_pad, want, n, read_post_bytes, todo, aborted, calls>>
          /\ taken' \in {taken, 0} /\ eof' \in BOOLEAN
      BY <1>0, <1>2 DEF Connect, AskAgain, Sends, reading
    <2>2. InputOK'
      BY <1>0, <2>1, MoreSent DEF Numbers
    <2>3. CASE Connect(r)
      <3>1. /\ phase = "accept" /\ phase' = "reading" /\ open' = TRUE /\ in_len' = 0
            /\ gone' = FALSE /\ early' = FALSE
        BY <2>3 DEF Connect
      <3>2. want = 0
        BY <1>0, <3>1 DEF WantsLeft, Numbers
      <3>3. Numbers' /\ WantsLeft'
        BY <1>0, <2>1, <3>1, <3>2 DEF Numbers, WantsLeft, Serving
      <3>4. Flags'
        BY <1>0, <2>1, <3>1 DEF Flags, Phases
      <3> QED
        BY <2>2, <3>3, <3>4 DEF Typed
    <2>4. CASE AskAgain(r)
      <3>1. UNCHANGED <<phase, open, gone, early, in_len>>
        BY <2>4 DEF AskAgain
      <3>2. Numbers' /\ WantsLeft'
        BY <1>0, <2>1, <3>1 DEF Numbers, WantsLeft, Serving
      <3>3. Flags'
        BY <1>0, <2>1, <3>1 DEF Flags
      <3> QED
        BY <2>2, <3>2, <3>3 DEF Typed
    <2> QED
      BY <1>2, <2>3, <2>4
  <1> QED
    BY <1>1, <1>2 DEF WebServer

(* The end of a request                                                    *)
LEMMA EndTyped ==
    ASSUME Typed,
           \/ \E ok \in BOOLEAN : Flush(ok) \/ FinishEarly(ok) \/ Deactivate(ok)
                                  \/ FinishRequest(ok)
           \/ ScriptEnds \/ FinishedBefore
    PROVE  Typed'
  <1>0. /\ InputOK /\ Numbers /\ Flags /\ WantsLeft
        /\ want \in Nat /\ n \in Nat /\ read_post_bytes \in Nat /\ in_len \in Nat
        /\ calls \in Nat /\ phase \in Phases
    BY DEF Typed, Numbers, Flags
  <1>1. ASSUME NEW ok \in BOOLEAN, Flush(ok) \/ FinishEarly(ok) \/ Deactivate(ok)
                                   \/ FinishRequest(ok)
        PROVE  Typed'
    <2>1. want = 0
      <3>1. want = 0 \/ phase = "finishing"
        BY <1>1 DEF Flush, FinishEarly, Deactivate, FinishRequest, Calls
      <3> QED
        BY <1>0, <3>1 DEF WantsLeft
    <2>2. /\ calls' \in Nat /\ UNCHANGED <<req, serial, asked, in_pad, taken, want, n,
                                           read_post_bytes, todo>>
          /\ in_len' \in Nat /\ aborted' \in BOOLEAN /\ early' \in BOOLEAN
          /\ open' \in BOOLEAN /\ eof' \in BOOLEAN
          /\ \/ UNCHANGED <<stream, off>>
             \/ stream' = <<>> /\ off' = 0
      <3>1. CASE Flush(ok) \/ Deactivate(ok)
        <4>1. /\ UNCHANGED <<open, req, serial, early, stream, off, eof, in_len, in_pad, taken,
                             asked, want, n, read_post_bytes, todo>>
              /\ calls' \in {calls, calls + 1} /\ aborted' = (aborted \/ ~ok)
          BY <3>1 DEF Flush, Deactivate, Calls, input, reading
        <4>2. calls' \in Nat
          BY <1>0, <4>1
        <4> QED
          BY <1>0, <4>1, <4>2 DEF Flags
      <3>2. CASE FinishEarly(ok) \/ FinishRequest(ok)
        <4>1. keep \in BOOLEAN /\ open \in BOOLEAN /\ eof \in BOOLEAN
              /\ early \in BOOLEAN /\ aborted \in BOOLEAN
          BY <1>0 DEF Flags
        <4>2. Stays(ok) \in BOOLEAN
          BY <4>1 DEF Stays, KeepAfter
        <4>3. /\ open' = Stays(ok)
              /\ \/ UNCHANGED <<stream, off, eof>>
                 \/ stream' = <<>> /\ off' = 0 /\ eof' = FALSE
              /\ early' \in {early, early \/ Stays(ok)} /\ UNCHANGED aborted
              /\ in_len' \in {in_len, 0} /\ calls' \in {calls, calls + 1}
              /\ UNCHANGED <<req, serial, asked, in_pad, taken, want, n,
                             read_post_bytes, todo>>
          BY <3>2 DEF FinishEarly, FinishRequest, Closed, Calls, reading
        <4>4. in_len' \in Nat /\ calls' \in Nat
          BY <1>0, <4>3
        <4> QED
          BY <4>1, <4>2, <4>3, <4>4
      <3> QED
        BY <1>1, <3>1, <3>2
    <2>3. PICK close, p : /\ Flushed(close, ok, p) /\ p \in Phases
                          /\ p \in {"serving", "draining", "finishing"} => Serving
      BY <1>1 DEF Flush, FinishEarly, Deactivate, FinishRequest, Calls, Phases, Serving
    <2>4. PICK recs, pos : Goes(ok, recs) /\ GoesOn(p, pos)
      BY <2>3 DEF Flushed
    <2>5. keep' \in BOOLEAN /\ gone' \in BOOLEAN
      BY <2>4, GoesTyped
    <2>6. phase' \in Phases /\ (phase' = p \/ phase' = "undefined")
      BY <2>3, <2>4, GoesOnTyped
    <2>7. Serving' => Serving
      BY <2>3, <2>6 DEF Serving
    <2> QED
      BY <2>1, <2>2, <2>5, <2>6, <2>7, OutTyped
  <1>2. CASE ScriptEnds
    <2>1. /\ phase = "serving" /\ want = 0 /\ todo.left = 0 /\ phase' = "draining"
          /\ want' = req.content_length - read_post_bytes
          /\ UNCHANGED <<open, keep, req, gone, serial, early, stream, off, eof, in_len,
                         in_pad, taken, asked, n, read_post_bytes, todo, aborted, calls>>
      BY <1>2 DEF ScriptEnds, Unspent, input, output
    <2>2. req.content_length \in Nat /\ read_post_bytes <= req.content_length /\ n = 0
      BY <1>0, <2>1, ContentLength DEF Numbers, WantsLeft, Serving
    <2>3. InputOK'
      BY <1>0, <2>1 DEF InputOK, Front
    <2>4. Numbers' /\ WantsLeft'
      BY <1>0, <2>1, <2>2 DEF Numbers, WantsLeft, Serving
    <2>5. Flags'
      BY <1>0, <2>1 DEF Flags, Phases
    <2> QED
      BY <2>3, <2>4, <2>5 DEF Typed
  <1>3. CASE FinishedBefore
    <2>1. /\ phase = "finishing" /\ phase' = "accept"
          /\ UNCHANGED <<open, keep, req, gone, serial, early, stream, off, eof, in_len,
                         in_pad, taken, asked, want, n, read_post_bytes, todo, aborted, calls>>
      BY <1>3 DEF FinishedBefore, input, reading, output
    <2>2. want = 0
      BY <1>0, <2>1 DEF WantsLeft
    <2> QED
      BY <1>0, <2>1, <2>2, OutTyped DEF Numbers, Flags, Phases, Serving
  <1> QED
    BY <1>1, <1>2, <1>3

(* Every step preserves it.                                                *)
LEMMA NextTyped == IInv /\ Typed /\ [Next]_vars => Typed'
  <1> SUFFICES ASSUME IInv, Typed, [Next]_vars PROVE Typed'
    OBVIOUS
  <1>1. CASE UNCHANGED vars
    BY <1>1, OutTyped DEF vars, conn, input, reading, output, Typed, Numbers,
                          Flags, Serving
  <1> QED
    BY <1>1, WriteTyped, ReadTyped, RequestTyped, WebServerTyped, EndTyped DEF Next

-----------------------------------------------------------------------------
(* Whose answer it is.  The web server asks again only when it has been    *)
(* answered, so that at most one request waits in the stream, the last     *)
(* sent; and until END_REQUEST has gone out it is the one being served.    *)

Reply == [type : Types \cup {"END", "VALUES"}, serial : Nat, from : Int,
          len : Nat, pad : Nat]

Endless(recs) == \A i \in DOMAIN recs : recs[i].type # "END"

Order ==
    /\ answer \in Seq(Reply)
    /\ serial <= asked
    /\ \A i \in Asks(stream) : /\ stream[i].serial = asked /\ serial < asked
                               /\ \A j \in Asks(stream) : i = j
    /\ phase = "accept" => ~open
    /\ ~open => stream = <<>>

Answers ==
    ~early =>
        /\ \A i \in DOMAIN answer :
              /\ answer[i].type # "VALUES" => answer[i].serial = asked
              /\ answer[i].type = "END" => i = Len(answer)
        /\ open /\ (phase = "params" \/ Serving) => serial = asked /\ Endless(answer)
        /\ Asks(stream) # {} => answer = <<>>

(* The stream is read.                                                     *)
Shrinks == \/ stream' = stream
           \/ stream' = <<>>
           \/ stream # <<>> /\ stream' = Tail(stream)

(* Nothing is asked by that.                                               *)
LEMMA ShrinksIs ==
    ASSUME stream \in Seq(Piece), Order, Shrinks, UNCHANGED <<serial, asked>>
    PROVE  /\ stream' \in Seq(Piece)
           /\ \A i \in Asks(stream') : /\ stream'[i].serial = asked /\ serial < asked
                                       /\ \A j \in Asks(stream') : i = j
           /\ Asks(stream') # {} => Asks(stream) # {}
           /\ stream = <<>> => stream' = <<>>
  <1>1. CASE stream' = stream
    BY <1>1 DEF Order
  <1>2. CASE stream' = <<>>
    <2>1. Asks(<<>>) = {} /\ <<>> \in Seq(Piece)
      BY DEF Asks
    <2> QED
      BY <1>2, <2>1
  <1>3. CASE stream # <<>> /\ stream' = Tail(stream)
    <2>1. /\ stream' \in Seq(Piece)
          /\ Len(stream) \in Nat /\ Len(stream') = Len(stream) - 1
          /\ \A i \in 1 .. Len(stream') : stream'[i] = stream[i + 1]
      BY <1>3, HeadTailProperties
    <2>2. DOMAIN stream' = 1 .. Len(stream') /\ DOMAIN stream = 1 .. Len(stream)
      BY <2>1
    <2>3. \A i \in Asks(stream') : /\ i \in Nat /\ i + 1 \in Asks(stream)
                                   /\ stream'[i] = stream[i + 1]
      BY <2>1, <2>2 DEF Asks
    <2>4. \A i \in Asks(stream') : /\ stream'[i].serial = asked /\ serial < asked
                                   /\ \A j \in Asks(stream') : i = j
      <3> SUFFICES ASSUME NEW i \in Asks(stream')
                   PROVE  /\ stream'[i].serial = asked /\ serial < asked
                          /\ \A j \in Asks(stream') : i = j
        OBVIOUS
      <3>1. stream[i + 1].serial = asked /\ serial < asked
            /\ \A j \in Asks(stream) : i + 1 = j
        BY <2>3 DEF Order
      <3>2. ASSUME NEW j \in Asks(stream') PROVE i = j
        <4>1. i + 1 = j + 1 /\ i \in Nat /\ j \in Nat
          BY <2>3, <3>1
        <4> QED
          BY <4>1
      <3> QED
        BY <2>3, <3>1, <3>2
    <2> QED
      BY <1>3, <2>1, <2>3, <2>4
  <1> QED
    BY <1>1, <1>2, <1>3 DEF Shrinks

(* The records of the buffer as they leave                                 *)
LEMMA LeavingIs ==
    ASSUME NEW recs \in Seq(Packed), serial \in Nat
    PROVE  /\ Leaving(recs) \in Seq(Reply) /\ Len(Leaving(recs)) = Len(recs)
           /\ \A i \in 1 .. Len(recs) :
                 /\ Leaving(recs)[i].type = recs[i].type /\ recs[i].type \in Types
                 /\ Leaving(recs)[i].serial = serial
                 /\ Leaving(recs)[i].from = recs[i].from
                 /\ Leaving(recs)[i].len = recs[i].len
                 /\ Leaving(recs)[i].pad = recs[i].pad
  <1>1. \A i \in 1 .. Len(recs) : recs[i] \in Packed
    BY ElementOfSeq
  <1>2. DOMAIN recs = 1 .. Len(recs) /\ Len(recs) \in Nat
    BY LenProperties
  <1>3. Leaving(recs) =
          [i \in 1 .. Len(recs) |->
              [type |-> recs[i].type, serial |-> serial, from |-> recs[i].from,
               len |-> recs[i].len, pad |-> recs[i].pad]]
    BY <1>2 DEF Leaving
  <1>4. \A i \in 1 .. Len(recs) :
            [type |-> recs[i].type, serial |-> serial, from |-> recs[i].from,
             len |-> recs[i].len, pad |-> recs[i].pad] \in Reply
    BY <1>1 DEF Packed, Reply
  <1>5. Leaving(recs) \in [1 .. Len(recs) -> Reply]
    BY <1>3, <1>4
  <1>6. Leaving(recs) \in Seq(Reply) /\ Len(Leaving(recs)) = Len(recs)
    BY <1>2, <1>5, FunctionIs
  <1>7. \A i \in 1 .. Len(recs) : recs[i].type \in Types
    BY <1>1 DEF Packed
  <1> QED
    BY <1>3, <1>6, <1>7

(* Such records, or a reply behind them, are of the request being served.  *)
Ours(recs) ==
    /\ recs \in Seq(Reply)
    /\ \A i \in DOMAIN recs : /\ recs[i].serial = serial
                              /\ recs[i].type = "END" => i = Len(recs)

(* The buffer alone has no END_REQUEST.                                    *)
LEMMA LeavingOurs ==
    ASSUME NEW recs \in Seq(Packed), serial \in Nat
    PROVE  Ours(Leaving(recs)) /\ Endless(Leaving(recs))
  <1>1. DOMAIN Leaving(recs) = 1 .. Len(recs)
    BY LeavingIs
  <1>2. "END" \notin Types
    BY DEF Types
  <1> QED
    BY <1>1, <1>2, LeavingIs DEF Ours, Endless

(* Behind it there may be one more.                                        *)
LEMMA LeavingThen ==
    ASSUME NEW recs \in Seq(Packed), serial \in Nat, NEW x \in Reply,
           x.serial = serial
    PROVE  /\ Ours(Leaving(recs) \o <<x>>)
           /\ x.type # "END" => Endless(Leaving(recs) \o <<x>>)
  <1>1. PICK l : l = Leaving(recs)
    OBVIOUS
  <1>2. Ours(l) /\ Endless(l)
    BY <1>1, LeavingOurs
  <1>3. l \in Seq(Reply) /\ <<x>> \in Seq(Reply) /\ Len(<<x>>) = 1 /\ <<x>>[1] = x
        /\ Len(l) \in Nat /\ DOMAIN l = 1 .. Len(l)
    BY <1>2, Short DEF Ours
  <1>4. /\ l \o <<x>> \in Seq(Reply) /\ Len(l \o <<x>>) = Len(l) + 1
        /\ \A i \in 1 .. Len(l) : (l \o <<x>>)[i] = l[i]
        /\ (l \o <<x>>)[Len(l) + 1] = x
    <2>1. /\ l \o <<x>> \in Seq(Reply) /\ Len(l \o <<x>>) = Len(l) + Len(<<x>>)
          /\ \A i \in 1 .. Len(l) : (l \o <<x>>)[i] = l[i]
          /\ \A i \in Len(l) + 1 .. Len(l) + Len(<<x>>) : (l \o <<x>>)[i] = <<x>>[i - Len(l)]
      BY <1>3, JoinIs
    <2>2. Len(l) + 1 \in Len(l) + 1 .. Len(l) + Len(<<x>>) /\ Len(l) + 1 - Len(l) = 1
      BY <1>3
    <2> QED
      BY <1>3, <2>1, <2>2
  <1>5. DOMAIN (l \o <<x>>) = 1 .. Len(l) + 1
    BY <1>4
  <1>6. \A i \in 1 .. Len(l) + 1 : i \in 1 .. Len(l) \/ i = Len(l) + 1
    BY <1>3
  <1> QED
    BY <1>1, <1>2, <1>3, <1>4, <1>5, <1>6 DEF Ours, Endless

(* Initially there is no answer and no request.                            *)
LEMMA InitAnswers == Init => Order /\ Answers
  <1> SUFFICES ASSUME Init PROVE Order /\ Answers
    OBVIOUS
  <1>1. Asks(<<>>) = {}
    BY DEF Asks
  <1>2. <<>> \in Seq(Reply)
    OBVIOUS
  <1> QED
    BY <1>1, <1>2 DEF Init, Order, Answers, Serving

(* A step that answers nothing                                             *)
LEMMA SilentStep ==
    ASSUME Typed, Order, Answers, Shrinks,
           UNCHANGED <<serial, asked, answer, early>>, open' => open,
           open' /\ (phase' = "params" \/ Serving') => phase = "params" \/ Serving,
           phase' = "accept" => ~open',
           ~open' => stream' = <<>>
    PROVE  Order' /\ Answers'
  <1>1. stream \in Seq(Piece)
    BY DEF Typed, InputOK
  <1>2. Order'
    BY <1>1, ShrinksIs DEF Order
  <1>3. Answers'
    BY <1>1, ShrinksIs DEF Answers, Endless
  <1> QED
    BY <1>2, <1>3

(* A step of the script or of its end, which may send something            *)
LEMMA TalkStep ==
    ASSUME Typed, Order, Answers, Serving, NEW ok \in BOOLEAN, NEW recs,
           Ours(recs), Goes(ok, recs), Shrinks, UNCHANGED <<serial, asked>>,
           early => early', open' => open, phase' # "params",
           phase' = "accept" => ~open',
           ~open' => stream' = <<>>,
           ~early' /\ open' /\ Serving' => Endless(recs)
    PROVE  Order' /\ Answers'
  <1>1. /\ stream \in Seq(Piece) /\ serial \in Nat /\ asked \in Nat
        /\ answer \in Seq(Reply) /\ recs \in Seq(Reply)
    BY DEF Typed, InputOK, Numbers, Order, Ours
  <1>2. CASE ~ok
    <2>1. answer' = answer
      BY <1>2 DEF Goes
    <2>2. Order'
      BY <1>1, <2>1, ShrinksIs DEF Order
    <2>3. Answers'
      BY <1>1, <2>1, ShrinksIs DEF Answers, Endless
    <2> QED
      BY <2>2, <2>3
  <1>3. CASE ok
    <2>1. answer' = answer \o recs /\ open
      BY <1>3 DEF Goes
    <2>2. /\ answer' \in Seq(Reply) /\ Len(answer') = Len(answer) + Len(recs)
          /\ \A i \in 1 .. Len(answer) : answer'[i] = answer[i]
          /\ \A i \in Len(answer) + 1 .. Len(answer) + Len(recs) :
                answer'[i] = recs[i - Len(answer)]
      BY <1>1, <2>1, JoinIs
    <2>3. Order'
      BY <1>1, <2>2, ShrinksIs DEF Order
    <2>4. ASSUME ~early' PROVE Answers'
      <3>1. /\ ~early /\ serial = asked /\ Endless(answer)
            /\ \A i \in DOMAIN answer : answer[i].type # "VALUES" => answer[i].serial = asked
        BY <2>1, <2>4 DEF Answers
      <3>2. Asks(stream') = {}
        <4>1. ~(serial < asked)
          BY <1>1, <3>1
        <4> QED
          BY <1>1, <4>1, ShrinksIs
      <3>3. /\ DOMAIN answer' = 1 .. Len(answer') /\ DOMAIN answer = 1 .. Len(answer)
            /\ DOMAIN recs = 1 .. Len(recs) /\ Len(answer) \in Nat /\ Len(recs) \in Nat
        BY <1>1, <2>2
      <3>4. \A i \in DOMAIN answer' :
               \/ i \in DOMAIN answer /\ answer'[i] = answer[i]
               \/ /\ i \in Nat /\ i - Len(answer) \in DOMAIN recs
                  /\ answer'[i] = recs[i - Len(answer)]
        BY <2>2, <3>3
      <3>5. ASSUME NEW i \in DOMAIN answer'
            PROVE  /\ answer'[i].type # "VALUES" => answer'[i].serial = asked'
                   /\ answer'[i].type = "END" => i = Len(answer')
        <4>1. CASE i \in DOMAIN answer /\ answer'[i] = answer[i]
          BY <3>1, <4>1 DEF Endless
        <4>2. CASE /\ i \in Nat /\ i - Len(answer) \in DOMAIN recs
                   /\ answer'[i] = recs[i - Len(answer)]
          <5>1. /\ answer'[i].serial = serial
                /\ answer'[i].type = "END" => i - Len(answer) = Len(recs)
            BY <4>2 DEF Ours
          <5> QED
            BY <2>2, <3>1, <3>3, <4>2, <5>1
        <4> QED
          BY <3>4, <4>1, <4>2
      <3>6. ASSUME open', Serving' PROVE serial' = asked' /\ Endless(answer)'
        <4>1. Endless(recs)
          BY <2>4, <3>6
        <4> QED
          BY <3>1, <3>4, <4>1 DEF Endless
      <3> QED
        BY <3>2, <3>5, <3>6 DEF Answers
    <2>5. CASE early'
      BY <2>3, <2>5 DEF Answers
    <2> QED
      BY <2>3, <2>4, <2>5
  <1> QED
    BY <1>2, <1>3

(* A step that is sent: the only question is the new one.                  *)
LEMMA AskStep ==
    ASSUME Typed, Order, Answers, NEW r \in Requests, Sends(r), Asks(stream) = {},
           UNCHANGED serial, phase' # "params", phase' # "accept", open',
           \/ phase' = "reading"
           \/ early' \/ ~Serving'
    PROVE  Order' /\ Answers'
  <1>1. stream \in Seq(Piece) /\ serial \in Nat /\ asked \in Nat
    BY DEF Typed, InputOK, Numbers
  <1>2. PICK q : Sending(q, asked + 1) /\ stream' = stream \o q
    BY <1>1, SendsIs
  <1>3. asked' = asked + 1 /\ answer' = <<>>
    BY DEF Sends
  <1>4. q \in Seq(Piece) /\ Len(stream) \in Nat /\ DOMAIN stream = 1 .. Len(stream)
        /\ DOMAIN q = 1 .. Len(q) /\ Len(q) \in Nat
    BY <1>1, <1>2 DEF Sending
  <1>5. /\ stream' \in Seq(Piece) /\ Len(stream') = Len(stream) + Len(q)
        /\ \A i \in 1 .. Len(stream) : stream'[i] = stream[i]
        /\ \A i \in Len(stream) + 1 .. Len(stream) + Len(q) :
              stream'[i] = q[i - Len(stream)]
    BY <1>1, <1>2, <1>4, JoinIs
  <1>6. DOMAIN stream' = 1 .. Len(stream) + Len(q)
    BY <1>5
  <1>7. ASSUME NEW i \in Asks(stream')
        PROVE  i = Len(stream) + 1 /\ stream'[i].serial = asked + 1
    <2>1. i \in DOMAIN stream' /\ stream'[i].type \in {"BEGIN", "VALUES"}
      BY DEF Asks
    <2>2. CASE i \in 1 .. Len(stream)
      <3>1. i \in Asks(stream)
        BY <1>4, <1>5, <2>1, <2>2 DEF Asks
      <3> QED
        BY <3>1
    <2>3. CASE i \in Len(stream) + 1 .. Len(stream) + Len(q)
      <3>1. i - Len(stream) \in DOMAIN q /\ stream'[i] = q[i - Len(stream)]
        BY <1>4, <1>5, <2>3
      <3>2. i - Len(stream) \in Asks(q)
        BY <2>1, <3>1 DEF Asks
      <3>3. i - Len(stream) = 1 /\ stream'[i].serial = asked + 1
        BY <1>2, <3>1, <3>2 DEF Sending
      <3> QED
        BY <1>4, <2>3, <3>3
    <2> QED
      BY <1>4, <1>6, <2>1, <2>2, <2>3
  <1>8. serial < asked' /\ serial <= asked'
    BY <1>1, <1>3 DEF Order
  <1>9. <<>> \in Seq(Reply)
    OBVIOUS
  <1>10. Order'
    BY <1>3, <1>7, <1>8, <1>9 DEF Order
  <1>11. Answers'
    <2>1. phase' = "reading" => ~Serving'
      BY DEF Serving
    <2> QED
      BY <1>3, <2>1 DEF Answers
  <1> QED
    BY <1>10, <1>11

(* The steps of the web server                                             *)
LEMMA WebServerAnswers ==
    ASSUME Typed, Order, Answers, WebServer PROVE Order' /\ Answers'
  <1>1. CASE HangUp
    <2>1. /\ UNCHANGED <<phase, open, serial, early, stream, asked, answer>>
      BY <1>1 DEF HangUp, conn, output
    <2> QED
      BY <2>1, SilentStep DEF Shrinks, Serving, Order
  <1>2. ASSUME NEW r \in Requests, Connect(r) PROVE Order' /\ Answers'
    <2>1. /\ phase = "accept" /\ phase' = "reading" /\ open' = TRUE
          /\ Sends(r) /\ serial' = serial
      BY <1>2 DEF Connect, Sends
    <2>2. stream = <<>>
      BY <2>1 DEF Order
    <2>3. Asks(stream) = {}
      BY <2>2 DEF Asks
    <2> QED
      BY <2>1, <2>3, AskStep
  <1>3. ASSUME NEW r \in Requests, AskAgain(r) PROVE Order' /\ Answers'
    <2>1. /\ UNCHANGED <<phase, open, early, serial>> /\ open /\ Sends(r)
          /\ Serving \/ phase = "reading"
          /\ asked = serial /\ \E i \in DOMAIN answer : answer[i].type = "END"
      BY <1>3 DEF AskAgain, Sends, Answered
    <2>2. Asks(stream) = {}
      <3>1. serial \in Nat /\ ~(serial < serial)
        BY DEF Typed, Numbers
      <3> QED
        BY <2>1, <3>1 DEF Order
    <2>3. Serving => early
      BY <2>1 DEF Answers, Endless
    <2>4. phase' # "params" /\ phase' # "accept" /\ open'
      BY <2>1 DEF Serving
    <2>5. phase' = "reading" \/ early'
      BY <2>1, <2>3
    <2> QED
      BY <2>1, <2>2, <2>4, <2>5, AskStep
  <1> QED
    BY <1>1, <1>2, <1>3 DEF WebServer

(* Begin takes up the request that was asked for.                          *)
LEMMA BeginAnswers ==
    ASSUME Typed, Order, Answers, Begin PROVE Order' /\ Answers'
  <1>1. /\ stream \in Seq(Piece) /\ stream # <<>> /\ stream[1].type = "BEGIN"
        /\ serial' = stream[1].serial /\ stream' = Tail(stream)
        /\ phase' = "params" /\ UNCHANGED <<open, early, asked, answer>>
        /\ phase = "reading"
    BY DEF Begin, HasAll, InStep, Front, Consume, output, Typed, InputOK
  <1>2. 1 \in Asks(stream) /\ DOMAIN stream = 1 .. Len(stream) /\ Len(stream) \in Nat
    BY <1>1 DEF Asks
  <1>3. /\ stream[1].serial = asked
        /\ \A j \in Asks(stream) : 1 = j
    BY <1>2 DEF Order
  <1>4. Asks(stream') = {}
    <2>1. /\ stream' \in Seq(Piece) /\ Len(stream') = Len(stream) - 1
          /\ \A i \in 1 .. Len(stream') : stream'[i] = stream[i + 1]
      BY <1>1, HeadTailProperties
    <2>2. \A i \in Asks(stream') : i \in Nat /\ i >= 1 /\ i + 1 \in Asks(stream)
      BY <1>2, <2>1 DEF Asks
    <2> QED
      BY <1>3, <2>2
  <1>5. asked \in Nat
    BY DEF Typed, Numbers
  <1>6. stream # <<>> /\ (phase' = "accept" => ~open') /\ (~open' => stream' = <<>>)
    BY <1>1 DEF Order
  <1>7. Order'
    BY <1>1, <1>3, <1>4, <1>5, <1>6 DEF Order
  <1>8. ~early => answer = <<>>
    BY <1>2 DEF Answers
  <1>9. Answers'
    BY <1>1, <1>3, <1>4, <1>8 DEF Answers, Endless
  <1> QED
    BY <1>7, <1>9

(* FCGI_GET_VALUES is answered for the one who asked.                      *)
LEMMA ValuesAnswers ==
    ASSUME Typed, Order, Answers, GetValues PROVE Order' /\ Answers'
  <1>1. /\ stream # <<>> /\ stream[1].type = "VALUES" /\ stream \in Seq(Piece)
        /\ answer' \in {answer, Append(answer, Values)}
        /\ phase' = "accept" /\ open' = FALSE /\ stream' = <<>>
        /\ UNCHANGED <<serial, early, asked>>
    BY DEF GetValues, HasAll, InStep, Front, Dropped, Typed, InputOK
  <1>2. 1 \in Asks(stream)
    BY <1>1 DEF Asks
  <1>3. Values \in Reply
    BY DEF Values, Reply, Header
  <1>4. answer' \in Seq(Reply) /\ Asks(<<>>) = {}
    BY <1>1, <1>3 DEF Order, Asks
  <1>5. Order'
    BY <1>1, <1>4 DEF Order
  <1>6. ~early => answer = <<>>
    BY <1>2 DEF Answers
  <1>7. ASSUME ~early PROVE answer' = <<>> \/ answer' = <<Values>>
    BY <1>1, <1>6, <1>7
  <1>8. Values.type = "VALUES"
    BY DEF Values
  <1>9. ASSUME ~early, NEW i \in DOMAIN answer' PROVE answer'[i].type = "VALUES"
    BY <1>7, <1>8, <1>9
  <1>10. Answers'
    BY <1>1, <1>4, <1>9 DEF Answers
  <1> QED
    BY <1>5, <1>10

(* Reading, and everything else between a request and its service          *)
LEMMA ReadAnswers ==
    ASSUME Typed, Order, Answers,
           \/ SkipStdin \/ Params \/ Serve \/ Refuse
           \/ Read \/ ScriptEnds \/ FinishedBefore
    PROVE  Order' /\ Answers'
  <1>1. CASE SkipStdin \/ Params
    <2>1. /\ UNCHANGED <<phase, open, serial, early, asked, answer>>
          /\ stream # <<>> /\ stream' = Tail(stream)
      BY <1>1 DEF SkipStdin, Params, HasHdr, HasAll, InStep, Consume, conn, output
    <2> QED
      BY <2>1, SilentStep DEF Shrinks, Serving, Order
  <1>2. CASE Serve
    <2>1. /\ UNCHANGED <<open, serial, early, asked, answer>>
          /\ stream # <<>> /\ stream' = Tail(stream)
          /\ phase = "params" /\ phase' = "serving"
      BY <1>2 DEF Serve, HasHdr, InStep, Consume
    <2> QED
      BY <2>1, SilentStep DEF Shrinks, Serving, Order
  <1>3. CASE Refuse
    <2>1. /\ UNCHANGED <<serial, early, asked, answer>>
          /\ stream' = <<>> /\ open' = FALSE /\ phase' = "accept"
      BY <1>3 DEF Refuse, Dropped, output
    <2> QED
      BY <2>1, SilentStep DEF Shrinks
  <1>4. CASE Read
    <2>1. UNCHANGED <<phase, open, serial, early, asked, answer>>
      BY <1>4 DEF Read, ReadPost, ReadFile, ReadHeader, ReadHeaderFails, ReadData,
                  ReadDataFails, conn, input, output
    <2>2. Shrinks
      <3>1. CASE ReadHeader
        BY <3>1 DEF ReadHeader, HasHdr, InStep, Consume, Shrinks
      <3>2. CASE ReadData
        <4>1. stream = <<>> => There = 0
          BY DEF There
        <4>2. in_len > 0 /\ There >= Portion /\ InCall
          BY <3>2 DEF ReadData
        <4>3. Portion \in Nat /\ Portion > 0
          BY <4>2 DEF Portion, Least, InCall, Typed, Numbers, WantsLeft
        <4>4. stream # <<>>
          BY <4>1, <4>2, <4>3
        <4> QED
          BY <3>2, <4>4 DEF ReadData, Consume, Shrinks
      <3>3. CASE ~ReadHeader /\ ~ReadData
        BY <1>4, <3>3 DEF Read, ReadPost, ReadFile, ReadHeaderFails, ReadDataFails,
                          input, Shrinks
      <3> QED
        BY <3>1, <3>2, <3>3
    <2>3. ~open => stream' = <<>>
      BY <2>2 DEF Shrinks, Order
    <2> QED
      BY <2>1, <2>2, <2>3, SilentStep DEF Serving, Order
  <1>5. CASE ScriptEnds
    <2>1. /\ UNCHANGED <<open, serial, early, stream, asked, answer>>
          /\ phase = "serving" /\ phase' = "draining"
      BY <1>5 DEF ScriptEnds, input, output
    <2> QED
      BY <2>1, SilentStep DEF Shrinks, Serving, Order
  <1>6. CASE FinishedBefore
    <2>1. /\ UNCHANGED <<open, serial, early, stream, asked, answer>>
          /\ phase' = "accept" /\ ~open
      BY <1>6 DEF FinishedBefore, input, output
    <2> QED
      BY <2>1, SilentStep DEF Shrinks, Order
  <1> QED
    BY <1>1, <1>2, <1>3, <1>4, <1>5, <1>6

(* What a turn of fcgi_write sends                                         *)
LEMMA WriteAnswers ==
    ASSUME IInv, Typed, Order, Answers, Write PROVE Order' /\ Answers'
  <1>0. serial \in Nat /\ Buffer(out) /\ out.recs \in Seq(Packed)
    BY DEF Typed, Numbers, IInv, InBuffer, Buffer
  <1>1. ASSUME NEW type \in Types, NEW len, WriteFits(type, len)
        PROVE  Order' /\ Answers'
    <2>1. /\ UNCHANGED <<open, serial, early, stream, asked, answer>>
          /\ phase = "serving" /\ GoesOn(phase, out'.pos)
      BY <1>1 DEF WriteFits, MayWrite, Calls, input
    <2>2. phase' \in {"serving", "undefined"}
      BY <2>1 DEF GoesOn
    <2> QED
      BY <2>1, <2>2, SilentStep DEF Shrinks, Serving, Order
  <1>2. ASSUME NEW type \in Types, NEW len, WriteDirect(type, len)
        PROVE  Order' /\ Answers'
    <2>1. /\ UNCHANGED <<phase, open, serial, early, stream, asked, answer>>
      BY <1>2 DEF WriteDirect, conn, input
    <2> QED
      BY <2>1, SilentStep DEF Shrinks, Serving, Order
  <1>3. ASSUME NEW type \in Types, NEW len, NEW ok \in BOOLEAN,
               WriteSpills(type, len, ok)
        PROVE  Order' /\ Answers'
    <2>1. PICK full : full = close_packet(Filled(Ready(Switched(type), type, said[type]),
                                                 Limit(Switched(type))))
      OBVIOUS
    <2>2. Buffer(Switched(type)) /\ said[type] \in Int
      BY Switching DEF IInv, Counts
    <2>3. full.recs \in Seq(Packed)
      BY <2>1, <2>2, Spilling DEF Buffer
    <2>4. /\ Goes(ok, Leaving(full.recs)) /\ GoesOn(phase, full.pos)
          /\ UNCHANGED <<open, serial, early, stream, asked>>
          /\ phase = "serving"
      BY <1>3, <2>1 DEF WriteSpills, MayWrite, Calls, input
    <2>5. phase' \in {"serving", "undefined"}
      BY <2>4 DEF GoesOn
    <2>6. Ours(Leaving(full.recs)) /\ Endless(Leaving(full.recs))
      BY <1>0, <2>3, LeavingOurs
    <2> QED
      BY <2>4, <2>5, <2>6, TalkStep DEF Shrinks, Serving, Order
  <1>4. ASSUME NEW ok \in BOOLEAN, NEW len \in Nat, NEW rest, Direction(len, ok, rest),
               phase = "serving"
        PROVE  Order' /\ Answers'
    <2>1. PICK x : x = Direct(todo.type, said[todo.type] - todo.left, len)
      OBVIOUS
    <2>2. PICK p : GoesOn(phase, p)
      BY <1>4 DEF Direction
    <2>3. /\ Goes(ok, Leaving(out.recs) \o <<x>>)
          /\ UNCHANGED <<open, serial, early, stream, asked>>
      BY <1>4, <2>1 DEF Direction, input
    <2>4. phase' \in {"serving", "undefined"}
      BY <1>4, <2>2 DEF GoesOn
    <2>5. x \in Reply /\ x.serial = serial /\ x.type # "END"
      <3>1. /\ todo.type \in Types /\ todo.left \in Nat
            /\ said[todo.type] \in Int
        BY DEF IInv, Counts
      <3>2. PICK t, from : t = todo.type /\ from = said[todo.type] - todo.left
        OBVIOUS
      <3>3. t \in Types /\ from \in Int /\ t # "END"
        BY <3>1, <3>2 DEF Types
      <3>4. x = [type |-> t, serial |-> serial, from |-> from, len |-> len, pad |-> 0]
        BY <2>1, <3>2 DEF Direct
      <3>5. x \in [type : Types \cup {"END", "VALUES"}, serial : Nat, from : Int,
                   len : Nat, pad : Nat]
        BY <1>0, <3>3, <3>4
      <3> QED
        BY <3>3, <3>4, <3>5 DEF Reply
    <2>6. Ours(Leaving(out.recs) \o <<x>>) /\ Endless(Leaving(out.recs) \o <<x>>)
      BY <1>0, <2>5, LeavingThen
    <2> QED
      BY <1>4, <2>3, <2>4, <2>6, TalkStep DEF Shrinks, Serving, Order
  <1>5. ASSUME NEW ok \in BOOLEAN, DirectChunk(ok) PROVE Order' /\ Answers'
    <2>1. MaxLength - 7 \in Nat /\ Direction(MaxLength - 7, ok, 0) /\ phase = "serving"
      BY <1>5, Sizes DEF DirectChunk
    <2> QED
      BY <1>4, <2>1
  <1>6. ASSUME NEW ok \in BOOLEAN, DirectLast(ok) PROVE Order' /\ Answers'
    <2>1. PICK left, rest : left = todo.left /\ rest = RestAligned(left)
      OBVIOUS
    <2>2. left \in Nat /\ Direction(left - rest, ok, rest) /\ phase = "serving"
      BY <1>6, <2>1 DEF DirectLast, IInv, Counts
    <2>3. rest = left % 8
      BY <2>1 DEF RestAligned, Header
    <2>4. \A i \in Nat : i % 8 \in Nat /\ i % 8 <= i
      OBVIOUS
    <2>5. left - rest \in Nat
      BY <2>2, <2>3, <2>4
    <2> QED
      BY <1>4, <2>2, <2>5
  <1> QED
    BY <1>1, <1>2, <1>3, <1>5, <1>6 DEF Write

(* What fcgi_flush sends, with END_REQUEST or without                      *)
LEMMA FlushedAnswers ==
    ASSUME IInv, Typed, Order, Answers, Serving, NEW ok \in BOOLEAN,
           NEW close \in BOOLEAN, NEW p, p # "params", Flushed(close, ok, p),
           p = "accept" => ~open', Shrinks, UNCHANGED <<serial, asked>>,
           early => early', open' => open, ~open' => stream' = <<>>,
           close /\ ~early' /\ open' => p = "reading"
    PROVE  Order' /\ Answers'
  <1>1. PICK b : b = close_packet(out)
    OBVIOUS
  <1>2. serial \in Nat /\ b.recs \in Seq(Packed)
    BY <1>1, Closing DEF Typed, Numbers, IInv, InBuffer, Buffer
  <1>3. /\ Goes(ok, Leaving(b.recs) \o EndRecord(close))
        /\ phase' = p \/ phase' = "undefined"
    BY <1>1 DEF Flushed, GoesOn
  <1>4. PICK l : l = Leaving(b.recs)
    OBVIOUS
  <1>5. Ours(l) /\ Endless(l) /\ l \in Seq(Reply)
    BY <1>2, <1>4, LeavingOurs DEF Ours
  <1>6. phase' # "params" /\ (phase' = "accept" => ~open')
    BY <1>3
  <1>7. CASE close
    <2>1. Goes(ok, l \o <<End>>)
      BY <1>3, <1>4, <1>7 DEF EndRecord
    <2>2. End \in Reply /\ End.serial = serial
      BY <1>2 DEF End, Reply, Header
    <2>3. Ours(l \o <<End>>)
      BY <1>2, <1>4, <2>2, LeavingThen
    <2>4. ~(~early' /\ open' /\ Serving')
      BY <1>3, <1>7 DEF Serving
    <2> QED
      BY <1>6, <2>1, <2>3, <2>4, TalkStep
  <1>8. CASE ~close
    <2>1. Leaving(b.recs) \o EndRecord(close) = l
      BY <1>4, <1>5, <1>8 DEF EndRecord
    <2>2. Goes(ok, l)
      BY <1>3, <2>1
    <2> QED
      BY <1>5, <1>6, <2>2, TalkStep
  <1> QED
    BY <1>7, <1>8

(* Every step preserves both.                                              *)
LEMMA NextAnswers == IInv /\ Typed /\ Order /\ Answers /\ [Next]_vars => Order' /\ Answers'
  <1> SUFFICES ASSUME IInv, Typed, Order, Answers, [Next]_vars PROVE Order' /\ Answers'
    OBVIOUS
  <1>1. CASE UNCHANGED vars
    <2>1. UNCHANGED <<phase, open, serial, early, stream, asked, answer>>
      BY <1>1 DEF vars, conn, input, output
    <2> QED
      BY <2>1, SilentStep DEF Shrinks, Serving, Order
  <1>2. open \in BOOLEAN /\ early \in BOOLEAN
    BY DEF Typed, Flags
  <1>3. ASSUME NEW ok \in BOOLEAN, Flush(ok) PROVE Order' /\ Answers'
    <2>1. /\ UNCHANGED <<open, serial, early, stream, asked>> /\ Serving
          /\ Flushed(FALSE, ok, "serving")
      BY <1>3 DEF Flush, Calls, input, Serving
    <2>2. ~open' => stream' = <<>>
      BY <2>1 DEF Order
    <2> QED
      BY <2>1, <2>2, FlushedAnswers DEF Shrinks
  <1>4. ASSUME NEW ok \in BOOLEAN, Deactivate(ok) PROVE Order' /\ Answers'
    <2>1. /\ UNCHANGED <<open, serial, early, stream, asked>> /\ Serving
          /\ Flushed(FALSE, ok, "finishing")
      BY <1>4 DEF Deactivate, input, Serving
    <2>2. ~open' => stream' = <<>>
      BY <2>1 DEF Order
    <2> QED
      BY <2>1, <2>2, FlushedAnswers DEF Shrinks
  <1>5. ASSUME NEW ok \in BOOLEAN, FinishEarly(ok) PROVE Order' /\ Answers'
    <2>1. /\ UNCHANGED <<serial, asked>> /\ Serving /\ open
          /\ Flushed(TRUE, ok, "serving") /\ Closed(ok)
          /\ early' = (early \/ Stays(ok))
      BY <1>5 DEF FinishEarly, Calls, Serving
    <2>2. open' = Stays(ok) /\ (~open' => stream' = <<>>) /\ Shrinks
      BY <2>1 DEF Closed, Shrinks
    <2>3. open' => early'
      BY <2>1, <2>2
    <2> QED
      BY <2>1, <2>2, <2>3, FlushedAnswers
  <1>6. ASSUME NEW ok \in BOOLEAN, FinishRequest(ok) PROVE Order' /\ Answers'
    <2>1. PICK p : p = IF Stays(ok) THEN "reading" ELSE "accept"
      OBVIOUS
    <2>2. /\ UNCHANGED <<serial, early, asked>> /\ Serving /\ open
          /\ Flushed(TRUE, ok, p) /\ Closed(ok)
      BY <1>6, <2>1 DEF FinishRequest, Serving
    <2>3. open' = Stays(ok) /\ (~open' => stream' = <<>>) /\ Shrinks
      BY <2>2 DEF Closed, Shrinks
    <2>4. /\ p # "params" /\ (p = "accept" => ~open') /\ (open' => p = "reading")
      BY <2>1, <2>3
    <2> QED
      BY <2>2, <2>3, <2>4, FlushedAnswers
  <1> QED
    BY <1>1, <1>3, <1>4, <1>5, <1>6, WebServerAnswers, BeginAnswers, ValuesAnswers,
       ReadAnswers, WriteAnswers DEF Next

(* Whatever the web server gets answers the request it sent last, and      *)
(* nothing follows its END_REQUEST: on a kept connection, after requests   *)
(* cut short or refused, and after writes that failed; as long as no       *)
(* script has called fastcgi_finish_request on that connection.            *)
THEOREM OneAnswerEach == Spec => []AnswersMatch
  <1>1. Init => IInv /\ Typed /\ Order /\ Answers
    BY InitIInv, InitTyped, InitAnswers
  <1>2. IInv /\ Typed /\ Order /\ Answers /\ [Next]_vars
        => (IInv /\ Typed /\ Order /\ Answers)'
    BY NextIInv, NextTyped, NextAnswers
  <1>3. Answers => AnswersMatch
    BY DEF Answers, AnswersMatch
  <1> QED
    BY <1>1, <1>2, <1>3, PTL DEF Spec

-----------------------------------------------------------------------------
(* Covers: which bytes of a stream some records carry.                     *)

(* It depends on the records of that stream only.                          *)
LEMMA CoversAlike ==
    ASSUME NEW s \in Seq(Reply), NEW z \in Seq(Reply), NEW t, NEW k, NEW u,
           Len(z) = Len(s),
           \A i \in 1 .. Len(s) : /\ z[i].type = s[i].type
                                  /\ z[i].serial = s[i].serial
                                  /\ z[i].from = s[i].from
                                  /\ s[i].type = t => z[i].len = s[i].len,
           Covers(s, t, k, u)
    PROVE  Covers(z, t, k, u)
  <1>1. DOMAIN s = 1 .. Len(s) /\ DOMAIN z = 1 .. Len(s)
    OBVIOUS
  <1>2. Mine(z, t, k) = Mine(s, t, k)
    BY <1>1 DEF Mine
  <1>3. PICK mine : mine = Mine(s, t, k)
    OBVIOUS
  <1>4. \A i \in mine : z[i].from = s[i].from /\ z[i].len = s[i].len
    BY <1>1, <1>3 DEF Mine
  <1>5. ASSUME NEW some \in SUBSET mine, NEW at, Reaches(s, some, at)
        PROVE  Reaches(z, some, at)
    BY <1>4, <1>5 DEF Reaches
  <1>6. \A i \in mine : Reaches(s, {j \in mine : j < i}, s[i].from)
    BY <1>3 DEF Covers
  <1>7. \A i \in mine : Reaches(z, {j \in mine : j < i}, z[i].from)
    BY <1>4, <1>5, <1>6
  <1>8. Reaches(z, mine, u)
    BY <1>3, <1>5 DEF Covers
  <1> QED
    BY <1>2, <1>3, <1>7, <1>8 DEF Covers

(* A record of something else changes nothing.                             *)
LEMMA CoversOther ==
    ASSUME NEW s \in Seq(Reply), NEW x \in Reply, NEW t, NEW k, NEW u,
           x.type # t, Covers(s, t, k, u)
    PROVE  Covers(Append(s, x), t, k, u)
  <1>1. PICK z : z = Append(s, x)
    OBVIOUS
  <1>2. /\ DOMAIN s = 1 .. Len(s) /\ DOMAIN z = 1 .. Len(s) + 1 /\ Len(s) \in Nat
        /\ z[Len(s) + 1] = x
        /\ \A i \in 1 .. Len(s) : z[i] = s[i]
    BY <1>1
  <1>3. Mine(z, t, k) = Mine(s, t, k)
    BY <1>2 DEF Mine
  <1>4. PICK mine : mine = Mine(s, t, k)
    OBVIOUS
  <1>5. \A i \in mine : z[i] = s[i]
    BY <1>2, <1>4 DEF Mine
  <1>6. ASSUME NEW some \in SUBSET mine, NEW at, Reaches(s, some, at)
        PROVE  Reaches(z, some, at)
    BY <1>5, <1>6 DEF Reaches
  <1>7. \A i \in mine : Reaches(s, {j \in mine : j < i}, s[i].from)
    BY <1>4 DEF Covers
  <1>8. \A i \in mine : Reaches(z, {j \in mine : j < i}, z[i].from)
    BY <1>5, <1>6, <1>7
  <1>9. Reaches(z, mine, u)
    BY <1>4, <1>6 DEF Covers
  <1> QED
    BY <1>1, <1>3, <1>4, <1>8, <1>9 DEF Covers

(* One that begins where they end carries them on.                         *)
LEMMA CoversMore ==
    ASSUME NEW s \in Seq(Reply), NEW x \in Reply, NEW k, Covers(s, x.type, k, x.from),
           x.serial = k
    PROVE  Covers(Append(s, x), x.type, k, x.from + x.len)
  <1>1. PICK z, t, l : z = Append(s, x) /\ t = x.type /\ l = Len(s) + 1
    OBVIOUS
  <1>2. /\ DOMAIN s = 1 .. Len(s) /\ DOMAIN z = 1 .. l /\ Len(s) \in Nat
        /\ z[l] = x
        /\ \A i \in 1 .. Len(s) : z[i] = s[i]
    BY <1>1
  <1>3. PICK mine : mine = Mine(s, t, k)
    OBVIOUS
  <1>4. Mine(z, t, k) = mine \cup {l}
    BY <1>1, <1>2, <1>3 DEF Mine
  <1>5. \A i \in mine : z[i] = s[i] /\ i \in Nat /\ i < l
    BY <1>1, <1>2, <1>3 DEF Mine
  <1>6. ASSUME NEW some \in SUBSET mine, NEW at, Reaches(s, some, at)
        PROVE  Reaches(z, some, at)
    BY <1>5, <1>6 DEF Reaches
  <1>7. \A i \in mine : Reaches(s, {j \in mine : j < i}, s[i].from)
    BY <1>1, <1>3 DEF Covers
  <1>8. \A i \in mine : {j \in mine \cup {l} : j < i} = {j \in mine : j < i}
    BY <1>1, <1>2, <1>5
  <1>9. {j \in mine \cup {l} : j < l} = mine
    BY <1>1, <1>2, <1>5
  <1>10. \A i \in mine : Reaches(z, {j \in mine \cup {l} : j < i}, z[i].from)
    BY <1>5, <1>6, <1>7, <1>8
  <1>11. Reaches(z, {j \in mine \cup {l} : j < l}, z[l].from)
    BY <1>1, <1>2, <1>3, <1>6, <1>9 DEF Covers
  <1>12. Reaches(z, mine \cup {l}, x.from + x.len)
    BY <1>1, <1>2, <1>5 DEF Reaches
  <1> QED
    BY <1>1, <1>4, <1>10, <1>11, <1>12 DEF Covers

(* So does the last one, when bytes are added to it.                       *)
LEMMA CoversGrown ==
    ASSUME NEW s \in Seq(Reply), NEW z \in Seq(Reply), NEW l, l = Len(s), l > 0,
           Len(z) = l, NEW u \in Int, NEW len \in Nat,
           NEW t, NEW k, s[l].type = t, s[l].serial = k, Covers(s, t, k, u),
           \A i \in 1 .. l : /\ z[i].type = s[i].type /\ z[i].serial = s[i].serial
                             /\ z[i].from = s[i].from
                             /\ i # l => z[i].len = s[i].len,
           z[l].len = s[l].len + len
    PROVE  Covers(z, t, k, u + len)
  <1>1. PICK mine : mine = Mine(s, t, k)
    OBVIOUS
  <1>2. l \in Nat /\ DOMAIN s = 1 .. l /\ DOMAIN z = 1 .. l /\ l \in 1 .. l
    OBVIOUS
  <1>3. s[l] \in Reply
    BY <1>2
  <1>4. z[l].from = s[l].from /\ s[l].from \in Int /\ s[l].len \in Nat
    BY <1>2, <1>3 DEF Reply
  <1>5. \A i \in 1 .. l : i # l => z[i].from = s[i].from /\ z[i].len = s[i].len
    OBVIOUS
  <1>6. Mine(z, t, k) = mine /\ l \in mine /\ \A i \in mine : i \in 1 .. l
    BY <1>1, <1>2, <1>4, <1>5 DEF Mine
  <1>7. ASSUME NEW some \in SUBSET (mine \ {l}), NEW at, Reaches(s, some, at)
        PROVE  Reaches(z, some, at)
    BY <1>5, <1>6, <1>7 DEF Reaches
  <1>8. ASSUME NEW i \in mine PROVE Reaches(z, {j \in mine : j < i}, z[i].from)
    <2>1. Reaches(s, {j \in mine : j < i}, s[i].from)
      BY <1>1, <1>8 DEF Covers
    <2>2. {j \in mine : j < i} \in SUBSET (mine \ {l})
      BY <1>2, <1>6, <1>8
    <2>3. z[i].from = s[i].from
      BY <1>4, <1>5, <1>6, <1>8
    <2> QED
      BY <1>7, <2>1, <2>2, <2>3
  <1>9. u = s[l].from + s[l].len
    <2>1. PICK i \in mine : (\A j \in mine : j <= i) /\ u = s[i].from + s[i].len
      BY <1>1, <1>6 DEF Covers, Reaches
    <2>2. i = l
      BY <1>2, <1>6, <2>1
    <2> QED
      BY <2>1, <2>2
  <1>10. u + len = z[l].from + z[l].len
    BY <1>4, <1>9, z[l].len = s[l].len + len
  <1>11. Reaches(z, mine, u + len)
    BY <1>6, <1>10 DEF Reaches
  <1> QED
    BY <1>1, <1>6, <1>8, <1>11 DEF Covers

(* And where there are none, none of its bytes are.                        *)
LEMMA CoversNone ==
    ASSUME NEW s \in Seq(Reply), NEW t, NEW k, \A i \in DOMAIN s : s[i].serial # k
    PROVE  Covers(s, t, k, 0)
  <1>1. Mine(s, t, k) = {}
    BY DEF Mine
  <1> QED
    BY <1>1 DEF Covers, Reaches

-----------------------------------------------------------------------------
(* What is packed: the records lie one behind the other from a multiple of *)
(* 8 to the next, and up to out_pos.                                       *)

Laid(b) ==
    /\ b.recs \in Seq(Rec)
    /\ \A i \in 1 .. Len(b.recs) :
          /\ b.recs[i].at % 8 = 0
          /\ b.recs[i].at + 8 + b.recs[i].len + b.recs[i].pad =
                IF i = Len(b.recs) THEN b.pos ELSE b.recs[i + 1].at
    /\ b.hdr => Top(b).pad = 0

(* None is longer than the buffer.                                         *)
Small(recs) == \A i \in 1 .. Len(recs) : recs[i].len + 8 <= BufSize

(* With what a has of them, they carry each stream up to where f says.     *)
CoversAll(a, recs, f) ==
    \A t \in Types : Covers(a \o Leaving(recs), t, serial, f[t])

(* A packet that is filled: its last record gets longer.                   *)
LEMMA FillsTop ==
    ASSUME NEW o, Open(o), NEW len \in Nat, NEW k, k = Len(o.recs)
    PROVE  \E g : /\ g = Filled(o, len).recs
                  /\ g \in Seq(Packed) /\ Len(g) = k /\ k \in Nat /\ k > 0
                  /\ \A i \in 1 .. k : i # k => g[i] = o.recs[i]
                  /\ g[k].type = o.recs[k].type /\ g[k].from = o.recs[k].from
                  /\ g[k].len = o.recs[k].len + len
                  /\ g[k].pad = o.recs[k].pad /\ g[k].at = o.recs[k].at
                  /\ o.recs[k] \in Packed
  <1>0. PICK g : g = Filled(o, len).recs
    OBVIOUS
  <1>1. o.hdr = TRUE /\ o.recs \in Seq(Packed) /\ o.recs # <<>>
    BY DEF Open
  <1>2. g = [o.recs EXCEPT ![k].len = @ + len]
    BY <1>0 DEF Filled
  <1>3. g \in Seq(Packed) /\ Len(g) = k
    BY <1>1, <1>2, Longer
  <1>4. k \in 1 .. k /\ k \in Nat /\ k > 0 /\ DOMAIN o.recs = 1 .. k
    BY <1>1
  <1>5. /\ \A i \in 1 .. k : i # k => g[i] = o.recs[i]
        /\ g[k] = [o.recs[k] EXCEPT !.len = @ + len]
    BY <1>2, <1>4
  <1>6. o.recs[k] \in Packed
    BY <1>1, <1>4
  <1>7. /\ g[k].type = o.recs[k].type /\ g[k].from = o.recs[k].from
        /\ g[k].len = o.recs[k].len + len
        /\ g[k].pad = o.recs[k].pad /\ g[k].at = o.recs[k].at
    BY <1>5, <1>6 DEF Packed
  <1> QED
    BY <1>0, <1>3, <1>4, <1>5, <1>6, <1>7

(* One that is closed: its last record is padded.                          *)
LEMMA ClosesTop ==
    ASSUME NEW b, b.hdr, b.recs \in Seq(Packed), b.recs # <<>>,
           NEW c, c = close_packet(b).recs, NEW k, k = Len(b.recs)
    PROVE  /\ close_packet(b).pos = b.pos + Pad(b.recs[k].len)
           /\ c \in Seq(Packed) /\ Len(c) = k /\ k \in Nat /\ k > 0
           /\ \A i \in 1 .. k : i # k => c[i] = b.recs[i]
           /\ c[k].type = b.recs[k].type /\ c[k].from = b.recs[k].from
           /\ c[k].len = b.recs[k].len /\ c[k].at = b.recs[k].at
           /\ c[k].pad = Pad(b.recs[k].len)
           /\ b.recs[k] \in Packed /\ b.recs[k].len \in Nat
  <1>1. k \in 1 .. k /\ k \in Nat /\ k > 0 /\ DOMAIN b.recs = 1 .. k
    OBVIOUS
  <1>2. b.recs[k] \in Packed
    BY <1>1
  <1>3. b.recs[k].len \in Nat
    BY <1>2 DEF Packed
  <1>4. PICK pad : pad = Pad(b.recs[k].len)
    OBVIOUS
  <1>5. c = [b.recs EXCEPT ![k].pad = pad]
    BY <1>4 DEF close_packet, Top
  <1>6. pad \in Nat
    BY <1>3, <1>4, PadAligns
  <1>7. [b.recs[k] EXCEPT !.pad = pad] \in Packed
    <2>1. \A r \in Packed, m \in Nat : [r EXCEPT !.pad = m] \in Packed
      BY DEF Packed
    <2> QED
      BY <1>2, <1>6, <2>1
  <1>8. c = [b.recs EXCEPT ![k] = [b.recs[k] EXCEPT !.pad = pad]]
    BY <1>1, <1>5
  <1>9. c \in Seq(Packed) /\ Len(c) = k
    BY <1>1, <1>7, <1>8
  <1>10. /\ \A i \in 1 .. k : i # k => c[i] = b.recs[i]
         /\ c[k] = [b.recs[k] EXCEPT !.pad = pad]
    BY <1>1, <1>5
  <1>11. close_packet(b).pos = b.pos + pad
    BY <1>4 DEF close_packet, Top
  <1>12. /\ c[k].type = b.recs[k].type /\ c[k].from = b.recs[k].from
         /\ c[k].len = b.recs[k].len /\ c[k].at = b.recs[k].at
         /\ c[k].pad = pad
    BY <1>2, <1>10 DEF Packed
  <1> QED
    BY <1>1, <1>2, <1>3, <1>4, <1>9, <1>10, <1>11, <1>12

(* The same bytes are covered: two buffers whose records differ in padding *)
LEMMA CoversClosed ==
    ASSUME NEW a \in Seq(Reply), NEW b, Buffer(b) \/ Open(b), serial \in Nat,
           NEW f, CoversAll(a, b.recs, f)
    PROVE  CoversAll(a, close_packet(b).recs, f)
  <1>0. b.hdr \in BOOLEAN /\ b.recs \in Seq(Packed)
    BY DEF Buffer, Open
  <1>1. CASE b.hdr = FALSE
    BY <1>1 DEF close_packet
  <1>2. CASE b.hdr = TRUE
    <2>1. PICK c, k : c = close_packet(b).recs /\ k = Len(b.recs)
      OBVIOUS
    <2>2. b.recs # <<>>
      BY <1>2 DEF Buffer, Open
    <2>3. /\ c \in Seq(Packed) /\ Len(c) = k /\ k \in Nat /\ k > 0
          /\ \A i \in 1 .. k : i # k => c[i] = b.recs[i]
          /\ c[k].type = b.recs[k].type /\ c[k].from = b.recs[k].from
          /\ c[k].len = b.recs[k].len
      <3>1. b.hdr /\ b.recs \in Seq(Packed)
        BY <1>0, <1>2
      <3> QED
        BY <2>1, <2>2, <3>1, ClosesTop
    <2>4. \A i \in 1 .. k : /\ c[i].type = b.recs[i].type /\ c[i].from = b.recs[i].from
                            /\ c[i].len = b.recs[i].len
      BY <2>3
    <2>5. PICK lb, lc : lb = Leaving(b.recs) /\ lc = Leaving(c)
      OBVIOUS
    <2>6. /\ lb \in Seq(Reply) /\ Len(lb) = k
          /\ \A i \in 1 .. k : /\ lb[i].type = b.recs[i].type /\ lb[i].serial = serial
                               /\ lb[i].from = b.recs[i].from /\ lb[i].len = b.recs[i].len
      BY <1>0, <2>1, <2>5, LeavingIs
    <2>7. /\ lc \in Seq(Reply) /\ Len(lc) = k
          /\ \A i \in 1 .. k : /\ lc[i].type = c[i].type /\ lc[i].serial = serial
                               /\ lc[i].from = c[i].from /\ lc[i].len = c[i].len
      BY <2>3, <2>5, LeavingIs
    <2>8. PICK s, z : s = a \o lb /\ z = a \o lc
      OBVIOUS
    <2>9. /\ s \in Seq(Reply) /\ Len(s) = Len(a) + k
          /\ \A i \in 1 .. Len(a) : s[i] = a[i]
          /\ \A i \in Len(a) + 1 .. Len(a) + k : s[i] = lb[i - Len(a)]
      BY <2>6, <2>8, JoinIs, ZenonT(60)
    <2>10. /\ z \in Seq(Reply) /\ Len(z) = Len(a) + k
           /\ \A i \in 1 .. Len(a) : z[i] = a[i]
           /\ \A i \in Len(a) + 1 .. Len(a) + k : z[i] = lc[i - Len(a)]
      BY <2>7, <2>8, JoinIs, ZenonT(60)
    <2>11. Len(a) \in Nat
      OBVIOUS
    <2>12. ASSUME NEW i \in 1 .. Len(s)
           PROVE  /\ z[i].type = s[i].type /\ z[i].serial = s[i].serial
                  /\ z[i].from = s[i].from /\ z[i].len = s[i].len
      <3>1. CASE i <= Len(a)
        BY <2>9, <2>10, <2>11, <3>1
      <3>2. CASE ~(i <= Len(a))
        <4>1. i \in Len(a) + 1 .. Len(a) + k /\ i - Len(a) \in 1 .. k
          BY <2>3, <2>9, <2>11, <3>2
        <4> QED
          BY <2>4, <2>6, <2>7, <2>9, <2>10, <4>1
      <3> QED
        BY <3>1, <3>2
    <2>13. \A t \in Types : Covers(s, t, serial, f[t])
      BY <2>5, <2>8 DEF CoversAll
    <2>14. \A t \in Types : Covers(z, t, serial, f[t])
      BY <2>9, <2>10, <2>12, <2>13, CoversAlike
    <2> QED
      BY <2>1, <2>5, <2>8, <2>14 DEF CoversAll
  <1> QED
    BY <1>0, <1>1, <1>2

(* A packet opened where the stream has got to carries nothing yet.        *)
LEMMA CoversOpened ==
    ASSUME NEW a \in Seq(Reply), NEW b, Buffer(b), serial \in Nat,
           NEW f \in [Types -> Int], CoversAll(a, b.recs, f), NEW type \in Types
    PROVE  CoversAll(a, open_packet(b, type, f[type]).recs, f)
  <1>1. PICK r : r = [type |-> type, from |-> f[type], len |-> 0, pad |-> 0, at |-> b.pos]
    OBVIOUS
  <1>2. b.pos \in Nat /\ b.recs \in Seq(Packed) /\ f[type] \in Int
    BY DEF Buffer
  <1>3. PICK g : g = Append(b.recs, r)
    OBVIOUS
  <1>4. open_packet(b, type, f[type]).recs = g
    BY <1>1, <1>3 DEF open_packet
  <1>5. r \in Packed /\ r.type = type /\ r.from = f[type] /\ r.len = 0
    BY <1>1, <1>2 DEF Packed
  <1>6. PICK k : k = Len(b.recs)
    OBVIOUS
  <1>7. /\ g \in Seq(Packed) /\ Len(g) = k + 1 /\ k \in Nat /\ g[k + 1] = r
        /\ \A i \in 1 .. k : g[i] = b.recs[i]
    BY <1>2, <1>3, <1>5, <1>6
  <1>8. PICK lb, lg : lb = Leaving(b.recs) /\ lg = Leaving(g)
    OBVIOUS
  <1>9. /\ lb \in Seq(Reply) /\ Len(lb) = k
        /\ \A i \in 1 .. k : /\ lb[i].type = b.recs[i].type /\ lb[i].serial = serial
                             /\ lb[i].from = b.recs[i].from /\ lb[i].len = b.recs[i].len
    BY <1>2, <1>6, <1>8, LeavingIs
  <1>10. /\ lg \in Seq(Reply) /\ Len(lg) = k + 1
         /\ \A i \in 1 .. k + 1 : /\ lg[i].type = g[i].type /\ lg[i].serial = serial
                                  /\ lg[i].from = g[i].from /\ lg[i].len = g[i].len
    BY <1>7, <1>8, LeavingIs
  <1>11. PICK s, z : s = a \o lb /\ z = a \o lg
    OBVIOUS
  <1>12. /\ s \in Seq(Reply) /\ Len(s) = Len(a) + k
         /\ \A i \in 1 .. Len(a) : s[i] = a[i]
         /\ \A i \in Len(a) + 1 .. Len(a) + k : s[i] = lb[i - Len(a)]
    BY <1>9, <1>11, JoinIs, ZenonT(60)
  <1>13. /\ z \in Seq(Reply) /\ Len(z) = Len(a) + (k + 1)
         /\ \A i \in 1 .. Len(a) : z[i] = a[i]
         /\ \A i \in Len(a) + 1 .. Len(a) + (k + 1) : z[i] = lg[i - Len(a)]
    BY <1>10, <1>11, JoinIs
  <1>14. PICK x : x = [type |-> type, serial |-> serial, from |-> f[type], len |-> 0, pad |-> 0]
    OBVIOUS
  <1>15. x \in Reply /\ x.type = type /\ x.serial = serial /\ x.from = f[type] /\ x.len = 0
    BY <1>2, <1>14 DEF Reply
  <1>16. PICK y : y = Append(s, x)
    OBVIOUS
  <1>17. Len(a) \in Nat /\ Len(s) \in Nat
    OBVIOUS
  <1>18. /\ y \in Seq(Reply) /\ Len(y) = Len(s) + 1 /\ y[Len(s) + 1] = x
         /\ \A i \in 1 .. Len(s) : y[i] = s[i]
    BY <1>12, <1>15, <1>16
  <1>19. ASSUME NEW i \in 1 .. Len(y)
         PROVE  /\ z[i].type = y[i].type /\ z[i].serial = y[i].serial
                /\ z[i].from = y[i].from /\ z[i].len = y[i].len
    <2>1. CASE i <= Len(a)
      <3>1. i \in 1 .. Len(a) /\ i \in 1 .. Len(s)
        BY <1>7, <1>12, <1>17, <1>18, <2>1
      <3>2. z[i] = a[i] /\ y[i] = a[i]
        BY <1>12, <1>13, <1>18, <3>1
      <3> QED
        BY <3>2
    <2>2. CASE i > Len(a) /\ i <= Len(s)
      <3>1. i \in Len(a) + 1 .. Len(a) + k /\ i - Len(a) \in 1 .. k
            /\ i \in Len(a) + 1 .. Len(a) + (k + 1) /\ i - Len(a) \in 1 .. k + 1
            /\ i \in 1 .. Len(s)
        BY <1>7, <1>12, <1>17, <2>2
      <3>2. y[i] = lb[i - Len(a)] /\ z[i] = lg[i - Len(a)]
        BY <1>12, <1>13, <1>18, <3>1
      <3>3. g[i - Len(a)] = b.recs[i - Len(a)]
        BY <1>7, <3>1
      <3>4. /\ lb[i - Len(a)].type = b.recs[i - Len(a)].type
            /\ lb[i - Len(a)].serial = serial
            /\ lb[i - Len(a)].from = b.recs[i - Len(a)].from
            /\ lb[i - Len(a)].len = b.recs[i - Len(a)].len
        BY <1>9, <3>1
      <3>5. /\ lg[i - Len(a)].type = g[i - Len(a)].type
            /\ lg[i - Len(a)].serial = serial
            /\ lg[i - Len(a)].from = g[i - Len(a)].from
            /\ lg[i - Len(a)].len = g[i - Len(a)].len
        BY <1>10, <3>1
      <3> QED
        BY <3>2, <3>3, <3>4, <3>5
    <2>3. CASE i = Len(s) + 1
      <3>1. i \in Len(a) + 1 .. Len(a) + (k + 1) /\ i - Len(a) = k + 1 /\ k + 1 \in 1 .. k + 1
        BY <1>7, <1>12, <1>17, <2>3
      <3>2. y[i] = x /\ z[i] = lg[k + 1]
        BY <1>13, <1>18, <2>3, <3>1
      <3> QED
        BY <1>5, <1>7, <1>10, <1>15, <3>1, <3>2
    <2> QED
      BY <1>17, <1>18, <2>1, <2>2, <2>3
  <1>20. Len(z) = Len(y)
    BY <1>7, <1>12, <1>13, <1>17, <1>18
  <1>21. ASSUME NEW t \in Types PROVE Covers(z, t, serial, f[t])
    <2>1. Covers(s, t, serial, f[t])
      BY <1>8, <1>11 DEF CoversAll
    <2>2. CASE t = type
      <3>1. Covers(y, x.type, serial, x.from + x.len)
        BY <1>12, <1>15, <1>16, <2>1, <2>2, CoversMore
      <3>2. Covers(y, t, serial, f[t])
        BY <1>2, <1>15, <2>2, <3>1
      <3> QED
        BY <1>13, <1>18, <1>19, <1>20, <3>2, CoversAlike
    <2>3. CASE t # type
      <3>1. Covers(y, t, serial, f[t])
        BY <1>12, <1>15, <1>16, <2>1, <2>3, CoversOther
      <3> QED
        BY <1>13, <1>18, <1>19, <1>20, <3>1, CoversAlike
    <2> QED
      BY <2>2, <2>3
  <1> QED
    BY <1>4, <1>8, <1>11, <1>21 DEF CoversAll

(* Bytes filled into an open packet carry its stream on.                   *)
LEMMA CoversFilled ==
    ASSUME NEW a \in Seq(Reply), NEW o, Open(o), serial \in Nat,
           NEW f \in [Types -> Int], CoversAll(a, o.recs, f), NEW type \in Types,
           Top(o).type = type, NEW len \in Nat
    PROVE  CoversAll(a, Filled(o, len).recs, [f EXCEPT ![type] = @ + len])
  <1>1. PICK k : k = Len(o.recs)
    OBVIOUS
  <1>2. o.recs \in Seq(Packed) /\ o.recs[k].type = type
    BY <1>1 DEF Open, Top
  <1>3. PICK g : /\ g = Filled(o, len).recs
                 /\ g \in Seq(Packed) /\ Len(g) = k /\ k \in Nat /\ k > 0
                 /\ \A i \in 1 .. k : i # k => g[i] = o.recs[i]
                 /\ g[k].type = o.recs[k].type /\ g[k].from = o.recs[k].from
                 /\ g[k].len = o.recs[k].len + len
                 /\ g[k].pad = o.recs[k].pad /\ g[k].at = o.recs[k].at
                 /\ o.recs[k] \in Packed
    BY <1>1, FillsTop
  <1>4. PICK lo, lg : lo = Leaving(o.recs) /\ lg = Leaving(g)
    OBVIOUS
  <1>5. /\ lo \in Seq(Reply) /\ Len(lo) = k
        /\ \A i \in 1 .. k : /\ lo[i].type = o.recs[i].type /\ lo[i].serial = serial
                             /\ lo[i].from = o.recs[i].from /\ lo[i].len = o.recs[i].len
    BY <1>1, <1>2, <1>4, LeavingIs
  <1>6. /\ lg \in Seq(Reply) /\ Len(lg) = k
        /\ \A i \in 1 .. k : /\ lg[i].type = g[i].type /\ lg[i].serial = serial
                             /\ lg[i].from = g[i].from /\ lg[i].len = g[i].len
    BY <1>3, <1>4, LeavingIs
  <1>7. PICK s, z : s = a \o lo /\ z = a \o lg
    OBVIOUS
  <1>8. PICK m : m = Len(a)
    OBVIOUS
  <1>9. /\ s \in Seq(Reply) /\ Len(s) = m + k
        /\ \A i \in 1 .. m : s[i] = a[i]
        /\ \A i \in m + 1 .. m + k : s[i] = lo[i - m]
    BY <1>5, <1>7, <1>8, JoinIs
  <1>10. /\ z \in Seq(Reply) /\ Len(z) = m + k
         /\ \A i \in 1 .. m : z[i] = a[i]
         /\ \A i \in m + 1 .. m + k : z[i] = lg[i - m]
    BY <1>6, <1>7, <1>8, JoinIs
  <1>11. PICK l : l = m + k
    OBVIOUS
  <1>12. m \in Nat /\ l \in Nat /\ l > 0 /\ l \in m + 1 .. m + k /\ l - m = k /\ k \in 1 .. k
    BY <1>3, <1>8, <1>11
  <1>13. /\ s[l].type = type /\ s[l].serial = serial
         /\ z[l].type = type /\ z[l].serial = serial /\ z[l].from = s[l].from
         /\ z[l].len = s[l].len + len
    BY <1>2, <1>3, <1>5, <1>6, <1>9, <1>10, <1>12
  <1>14. ASSUME NEW i \in 1 .. l, i # l
         PROVE  /\ z[i].type = s[i].type /\ z[i].serial = s[i].serial
                /\ z[i].from = s[i].from /\ z[i].len = s[i].len
    <2>1. CASE i <= m
      BY <1>9, <1>10, <1>12, <2>1
    <2>2. CASE i > m
      <3>1. i \in m + 1 .. m + k /\ i - m \in 1 .. k /\ i - m # k
        BY <1>3, <1>11, <1>12, <1>14, <2>2
      <3>2. s[i] = lo[i - m] /\ z[i] = lg[i - m] /\ g[i - m] = o.recs[i - m]
        BY <1>3, <1>9, <1>10, <3>1
      <3> QED
        <4>1. PICK j \in 1 .. k : j = i - m
          BY <3>1
        <4>2. s[i] = lo[j] /\ z[i] = lg[j] /\ g[j] = o.recs[j]
          BY <3>2, <4>1
        <4>3. /\ lo[j].type = o.recs[j].type /\ lo[j].serial = serial
              /\ lo[j].from = o.recs[j].from /\ lo[j].len = o.recs[j].len
          BY <1>5
        <4>4. /\ lg[j].type = g[j].type /\ lg[j].serial = serial
              /\ lg[j].from = g[j].from /\ lg[j].len = g[j].len
          BY <1>6
        <4> QED
          BY <4>2, <4>3, <4>4
    <2> QED
      BY <1>12, <2>1, <2>2
  <1>15. ASSUME NEW t \in Types PROVE Covers(z, t, serial, [f EXCEPT ![type] = @ + len][t])
    <2>1. Covers(s, t, serial, f[t]) /\ f[t] \in Int
      BY <1>4, <1>7 DEF CoversAll
    <2>2. CASE t = type
      <3>1. \A i \in 1 .. l : /\ z[i].type = s[i].type /\ z[i].serial = s[i].serial
                              /\ z[i].from = s[i].from
                              /\ i # l => z[i].len = s[i].len
        BY <1>13, <1>14
      <3>2. /\ s[l].type = t /\ s[l].serial = serial /\ z[l].len = s[l].len + len
            /\ l = Len(s) /\ Len(z) = l
        BY <1>9, <1>10, <1>11, <1>13, <2>2
      <3>3. PICK u \in Int : u = f[t] /\ Covers(s, t, serial, u)
        BY <2>1
      <3>4. s \in Seq(Reply) /\ z \in Seq(Reply) /\ l > 0
        BY <1>9, <1>10, <1>12
      <3>5. Covers(z, t, serial, u + len)
        BY <3>1, <3>2, <3>3, <3>4, CoversGrown, ZenonT(60)
      <3> QED
        BY <2>2, <3>3, <3>5
    <2>3. CASE t # type
      <3>1. \A i \in 1 .. Len(s) : /\ z[i].type = s[i].type /\ z[i].serial = s[i].serial
                                   /\ z[i].from = s[i].from
                                   /\ s[i].type = t => z[i].len = s[i].len
        BY <1>9, <1>11, <1>13, <1>14, <2>3
      <3>2. Covers(z, t, serial, f[t])
        BY <1>9, <1>10, <2>1, <3>1, CoversAlike
      <3> QED
        BY <2>3, <3>2
    <2> QED
      BY <2>2, <2>3
  <1> QED
    BY <1>3, <1>4, <1>7, <1>15 DEF CoversAll

(* The empty buffer                                                        *)
LEMMA LaidEmpty == Laid(Empty) /\ Small(Empty.recs) /\ Empty.recs = <<>>
  BY DEF Laid, Small, Empty

(* A packet opened lies behind what is packed.                             *)
LEMMA LaidOpened ==
    ASSUME NEW b, Buffer(b), Laid(b), ~b.hdr, NEW type \in Types, NEW from \in Nat
    PROVE  /\ Laid(open_packet(b, type, from))
           /\ Laid([open_packet(b, type, from) EXCEPT !.hdr = FALSE])
           /\ Small(b.recs) => Small(open_packet(b, type, from).recs)
  <1>1. PICK r : r = [type |-> type, from |-> from, len |-> 0, pad |-> 0, at |-> b.pos]
    OBVIOUS
  <1>2. b.pos \in Nat /\ b.pos % 8 = 0 /\ b.recs \in Seq(Rec)
    BY DEF Buffer, Laid
  <1>3. PICK o, p, g, k : /\ o = open_packet(b, type, from) /\ p = [o EXCEPT !.hdr = FALSE]
                          /\ g = Append(b.recs, r) /\ k = Len(b.recs)
    OBVIOUS
  <1>4. o = [pos |-> b.pos + 8, hdr |-> TRUE, recs |-> g]
    BY <1>1, <1>3 DEF open_packet, Header
  <1>5. /\ o.pos = b.pos + 8 /\ o.recs = g
        /\ p.pos = b.pos + 8 /\ p.recs = g /\ p.hdr = FALSE
    BY <1>3, <1>4
  <1>6. r \in Rec /\ r.at = b.pos /\ r.len = 0 /\ r.pad = 0
    <2>1. 0 \in 0 .. (Header - 1)
      BY DEF Header
    <2> QED
      BY <1>1, <1>2, <2>1 DEF Rec
  <1>7. /\ g \in Seq(Rec) /\ Len(g) = k + 1 /\ k \in Nat /\ g[k + 1] = r
        /\ \A i \in 1 .. k : g[i] = b.recs[i]
    BY <1>2, <1>3, <1>6
  <1>8. ASSUME NEW i \in 1 .. k + 1
        PROVE  /\ g[i].at % 8 = 0
               /\ g[i].at + 8 + g[i].len + g[i].pad =
                     IF i = k + 1 THEN b.pos + 8 ELSE g[i + 1].at
    <2>1. CASE i = k + 1
      BY <1>2, <1>6, <1>7, <2>1
    <2>2. CASE i # k + 1
      <3>1. i \in 1 .. k /\ g[i] = b.recs[i]
        BY <1>7, <2>2
      <3>2. /\ g[i].at % 8 = 0
            /\ g[i].at + 8 + g[i].len + g[i].pad = IF i = k THEN b.pos ELSE b.recs[i + 1].at
        BY <1>3, <3>1 DEF Laid
      <3>3. g[i + 1].at = IF i = k THEN b.pos ELSE b.recs[i + 1].at
        <4>1. CASE i = k
          BY <1>6, <1>7, <4>1
        <4>2. CASE i # k
          <5>1. i + 1 \in 1 .. k
            BY <1>7, <3>1, <4>2
          <5> QED
            BY <1>7, <4>2, <5>1
        <4> QED
          BY <4>1, <4>2
      <3> QED
        BY <2>2, <3>2, <3>3
    <2> QED
      BY <2>1, <2>2
  <1>9. Top(o).pad = 0
    BY <1>5, <1>6, <1>7 DEF Top
  <1>10. Laid(o) /\ Laid(p)
    BY <1>5, <1>7, <1>8, <1>9 DEF Laid
  <1>11. Small(b.recs) => Small(g)
    <2> SUFFICES ASSUME Small(b.recs), NEW i \in 1 .. k + 1
                 PROVE  g[i].len + 8 <= BufSize
      BY <1>7 DEF Small
    <2>1. CASE i = k + 1
      BY <1>6, <1>7, <2>1, Sizes
    <2>2. CASE i # k + 1
      <3>1. i \in 1 .. k /\ g[i] = b.recs[i]
        BY <1>7, <2>2
      <3> QED
        BY <1>3, <3>1 DEF Small
    <2> QED
      BY <2>1, <2>2
  <1> QED
    BY <1>3, <1>5, <1>10, <1>11

(* Bytes filled in go to the end of it.                                    *)
LEMMA LaidFilled ==
    ASSUME NEW o, Open(o), Laid(o), NEW len \in Nat
    PROVE  /\ Laid(Filled(o, len))
           /\ Small(o.recs) /\ (Filled(o, len).pos <= BufSize \/ len = 0)
                => Small(Filled(o, len).recs)
           /\ Top(Filled(o, len)).type = Top(o).type
  <1>1. PICK k : k = Len(o.recs)
    OBVIOUS
  <1>2. PICK g : /\ g = Filled(o, len).recs
                 /\ g \in Seq(Packed) /\ Len(g) = k /\ k \in Nat /\ k > 0
                 /\ \A i \in 1 .. k : i # k => g[i] = o.recs[i]
                 /\ g[k].type = o.recs[k].type /\ g[k].from = o.recs[k].from
                 /\ g[k].len = o.recs[k].len + len
                 /\ g[k].pad = o.recs[k].pad /\ g[k].at = o.recs[k].at
                 /\ o.recs[k] \in Packed
    BY <1>1, FillsTop
  <1>3. PICK w : w = Filled(o, len)
    OBVIOUS
  <1>4. w.pos = o.pos + len /\ w.recs = g
    BY <1>2, <1>3 DEF Filled
  <1>5. /\ o.pos \in Nat /\ o.hdr /\ o.recs \in Seq(Rec) /\ o.recs[k].pad = 0
        /\ o.recs[k].at \in Nat /\ o.recs[k].len \in Nat
        /\ o.recs[k].at + 8 + o.recs[k].len = o.pos
    BY <1>1, <1>2 DEF Open, Laid, Top, Packed
  <1>6. k \in 1 .. k /\ \A i \in 1 .. k : i # k => i + 1 \in 1 .. k
    BY <1>2
  <1>7. g \in Seq(Rec)
    <2>1. \A i \in 1 .. k : o.recs[i] \in Rec
      BY <1>1, <1>5
    <2>2. g[k] \in Packed
      BY <1>2, <1>6
    <2>3. g[k] = [type |-> g[k].type, from |-> g[k].from, len |-> g[k].len,
                  pad |-> g[k].pad, at |-> g[k].at]
      BY <2>2 DEF Packed
    <2>4. o.recs[k] \in Rec
      BY <1>6, <2>1
    <2>5. /\ g[k].type \in Types /\ g[k].from \in Nat /\ g[k].len \in Nat
          /\ g[k].pad \in 0 .. (Header - 1) /\ g[k].at \in Nat
      <3>1. /\ o.recs[k].type \in Types /\ o.recs[k].from \in Nat
            /\ o.recs[k].pad \in 0 .. (Header - 1)
        BY <2>4 DEF Rec
      <3>2. o.recs[k].len + len \in Nat
        BY <1>5
      <3> QED
        BY <1>2, <1>5, <3>1, <3>2
    <2>6. g[k] \in Rec
      BY <2>3, <2>5 DEF Rec
    <2>7. \A i \in 1 .. k : g[i] \in Rec
      BY <1>2, <2>1, <2>6
    <2>8. DOMAIN g = 1 .. k /\ g = [i \in 1 .. k |-> g[i]]
      BY <1>2
    <2>9. g \in [1 .. k -> Rec]
      BY <2>7, <2>8
    <2> QED
      BY <1>2, <2>9, FunctionIs
  <1>8. ASSUME NEW i \in 1 .. k
        PROVE  /\ g[i].at % 8 = 0
               /\ g[i].at + 8 + g[i].len + g[i].pad =
                     IF i = k THEN o.pos + len ELSE g[i + 1].at
    <2>1. /\ o.recs[i].at % 8 = 0
          /\ o.recs[i].at + 8 + o.recs[i].len + o.recs[i].pad =
                IF i = k THEN o.pos ELSE o.recs[i + 1].at
      BY <1>1 DEF Laid
    <2>2. CASE i = k
      <3>1. PICK at, l, pos : at = o.recs[k].at /\ l = o.recs[k].len /\ pos = o.pos
        OBVIOUS
      <3>2. at \in Nat /\ l \in Nat /\ pos \in Nat /\ at + 8 + l = pos
        BY <1>5, <3>1
      <3>3. g[i].at = at /\ g[i].len = l + len /\ g[i].pad = 0
        BY <1>2, <1>5, <2>2, <3>1
      <3> QED
        BY <2>1, <2>2, <3>1, <3>2, <3>3
    <2>3. CASE i # k
      <3>1. g[i] = o.recs[i] /\ g[i + 1].at = o.recs[i + 1].at
        BY <1>2, <1>6, <2>3
      <3> QED
        BY <2>1, <2>3, <3>1
    <2> QED
      BY <2>2, <2>3
  <1>9. Top(w).pad = 0 /\ Top(w).type = Top(o).type
    BY <1>1, <1>2, <1>4, <1>5 DEF Top
  <1>10. Laid(w)
    BY <1>2, <1>4, <1>7, <1>8, <1>9 DEF Laid
  <1>11. Small(o.recs) /\ (w.pos <= BufSize \/ len = 0) => Small(g)
    <2> SUFFICES ASSUME Small(o.recs), w.pos <= BufSize \/ len = 0, NEW i \in 1 .. k
                 PROVE  g[i].len + 8 <= BufSize
      BY <1>2 DEF Small
    <2>1. CASE i = k
      <3>1. PICK at, l, pos : at = o.recs[k].at /\ l = o.recs[k].len /\ pos = o.pos
        OBVIOUS
      <3>2. at \in Nat /\ l \in Nat /\ pos \in Nat /\ at + 8 + l = pos
        BY <1>5, <3>1
      <3>3. l + 8 <= BufSize
        BY <1>1, <2>1, <3>1 DEF Small
      <3>4. (pos + len <= BufSize \/ len = 0) /\ g[i].len = l + len
        BY <1>2, <1>4, <2>1, <3>1
      <3> QED
        BY <3>2, <3>3, <3>4, Sizes
    <2>2. CASE i # k
      BY <1>1, <1>2, <2>2 DEF Small
    <2> QED
      BY <2>1, <2>2
  <1> QED
    BY <1>2, <1>3, <1>4, <1>9, <1>10, <1>11

(* Padding follows the last one.                                           *)
LEMMA LaidClosed ==
    ASSUME NEW b, b.hdr \in BOOLEAN, b.hdr => Open(b), Laid(b)
    PROVE  /\ Laid(close_packet(b))
           /\ Small(b.recs) => Small(close_packet(b).recs)
  <1>1. CASE b.hdr = FALSE
    BY <1>1 DEF close_packet
  <1>2. CASE b.hdr = TRUE
    <2>0. b.hdr
      BY <1>2
    <2>1. PICK k : k = Len(b.recs)
      OBVIOUS
    <2>2. PICK q, c : q = close_packet(b) /\ c = q.recs
      OBVIOUS
    <2>3. b.recs \in Seq(Packed) /\ b.recs # <<>> /\ Open(b)
      BY <2>0 DEF Open
    <2>4. c = close_packet(b).recs
      BY <2>2
    <2>5. /\ q.pos = b.pos + Pad(b.recs[k].len)
          /\ c \in Seq(Packed) /\ Len(c) = k /\ k \in Nat /\ k > 0
          /\ \A i \in 1 .. k : i # k => c[i] = b.recs[i]
          /\ c[k].type = b.recs[k].type /\ c[k].from = b.recs[k].from
          /\ c[k].len = b.recs[k].len /\ c[k].at = b.recs[k].at
          /\ c[k].pad = Pad(b.recs[k].len)
          /\ b.recs[k] \in Packed /\ b.recs[k].len \in Nat
      BY <2>0, <2>1, <2>2, <2>3, <2>4, ClosesTop
    <2>6. q.hdr = FALSE
      BY <2>0, <2>2 DEF close_packet
    <2>7. PICK pad \in Nat : pad = Pad(b.recs[k].len) /\ pad <= 7
      BY <2>5, PadAligns
    <2>8. /\ b.pos \in Nat /\ b.recs \in Seq(Rec) /\ b.recs[k].pad = 0
          /\ b.recs[k].at \in Nat
      BY <2>0, <2>1, <2>3, <2>5 DEF Open, Laid, Top, Packed
    <2>9. k \in 1 .. k /\ \A i \in 1 .. k : i # k => i + 1 \in 1 .. k
      BY <2>5
    <2>10. c \in Seq(Rec)
      <3>1. \A i \in 1 .. k : b.recs[i] \in Rec
        BY <2>1, <2>8
      <3>2. c[k] \in Packed
        BY <2>5, <2>9
      <3>3. c[k] = [type |-> c[k].type, from |-> c[k].from, len |-> c[k].len,
                    pad |-> c[k].pad, at |-> c[k].at]
        BY <3>2 DEF Packed
      <3>4. b.recs[k] \in Rec
        BY <2>9, <3>1
      <3>5. c[k].pad \in 0 .. (Header - 1)
        BY <2>5, <2>7 DEF Header
      <3>6. /\ c[k].type \in Types /\ c[k].from \in Nat /\ c[k].len \in Nat
            /\ c[k].at \in Nat
        BY <2>5, <3>4 DEF Rec
      <3>7. c[k] \in Rec
        BY <3>3, <3>5, <3>6 DEF Rec
      <3>8. \A i \in 1 .. k : c[i] \in Rec
        BY <2>5, <3>1, <3>7
      <3>9. DOMAIN c = 1 .. k /\ c = [i \in 1 .. k |-> c[i]]
        BY <2>5
      <3>10. c \in [1 .. k -> Rec]
        BY <3>8, <3>9
      <3> QED
        BY <2>5, <3>10, FunctionIs
    <2>11. ASSUME NEW i \in 1 .. k
           PROVE  /\ c[i].at % 8 = 0
                  /\ c[i].at + 8 + c[i].len + c[i].pad =
                        IF i = k THEN q.pos ELSE c[i + 1].at
      <3>1. /\ b.recs[i].at % 8 = 0
            /\ b.recs[i].at + 8 + b.recs[i].len + b.recs[i].pad =
                  IF i = k THEN b.pos ELSE b.recs[i + 1].at
        BY <2>1 DEF Laid
      <3>2. CASE i = k
        <4>1. PICK at, l, pos : at = b.recs[k].at /\ l = b.recs[k].len /\ pos = b.pos
          OBVIOUS
        <4>2. at \in Nat /\ l \in Nat /\ pos \in Nat /\ at + 8 + l + 0 = pos
          BY <2>5, <2>8, <3>1, <3>2, <4>1
        <4>3. c[i].at = at /\ c[i].len = l /\ c[i].pad = pad /\ q.pos = pos + pad
          BY <2>5, <2>7, <3>2, <4>1
        <4> QED
          BY <2>7, <3>1, <3>2, <4>1, <4>2, <4>3
      <3>3. CASE i # k
        <4>1. c[i] = b.recs[i] /\ c[i + 1].at = b.recs[i + 1].at
          BY <2>5, <2>9, <3>3
        <4> QED
          BY <3>1, <3>3, <4>1
      <3> QED
        BY <3>2, <3>3
    <2>12. Laid(q)
      BY <2>2, <2>5, <2>6, <2>10, <2>11 DEF Laid
    <2>13. Small(b.recs) => Small(c)
      BY <2>1, <2>5 DEF Small
    <2> QED
      BY <2>2, <2>12, <2>13
  <1> QED
    BY <1>1, <1>2

(* A buffer as fcgi_write finds it: a packet that is open is of that stream *)
Found(b, type) == Buffer(b) /\ Laid(b) /\ (b.hdr => Top(b).type = type)

(* A packet of the stream, opened if need be, lies behind what is packed.  *)
LEMMA Readies ==
    ASSUME NEW b, NEW type \in Types, Found(b, type), NEW from \in Nat
    PROVE  /\ Open(Ready(b, type, from)) /\ Laid(Ready(b, type, from))
           /\ Top(Ready(b, type, from)).type = type
           /\ Small(b.recs) => Small(Ready(b, type, from).recs)
  <1>1. b.hdr \in BOOLEAN /\ Buffer(b) /\ Laid(b) /\ (b.hdr => Top(b).type = type)
    BY DEF Found, Buffer
  <1>2. PICK o : o = Ready(b, type, from)
    OBVIOUS
  <1>3. Open(o)
    BY <1>1, <1>2, Readied
  <1>4. CASE b.hdr = TRUE
    BY <1>1, <1>2, <1>3, <1>4 DEF Ready
  <1>5. CASE b.hdr = FALSE
    <2>1. o = open_packet(b, type, from)
      BY <1>2, <1>5 DEF Ready
    <2>2. Laid(o) /\ (Small(b.recs) => Small(o.recs))
      BY <1>1, <1>5, <2>1, LaidOpened
    <2>3. PICK r : r = [type |-> type, from |-> from, len |-> 0, pad |-> 0,
                        at |-> b.pos]
      OBVIOUS
    <2>4. o.recs = Append(b.recs, r) /\ r.type = type
      BY <2>1, <2>3 DEF open_packet
    <2>5. b.recs \in Seq(Packed) /\ b.pos \in Nat
      BY <1>1 DEF Buffer
    <2>6. r \in Packed
      BY <2>3, <2>5 DEF Packed
    <2>7. o.recs[Len(o.recs)] = r
      BY <2>4, <2>5, <2>6
    <2>8. Top(o).type = type
      BY <2>4, <2>7 DEF Top
    <2> QED
      BY <1>2, <1>3, <2>2, <2>8
  <1> QED
    BY <1>1, <1>4, <1>5

(* Bytes put into it                                                       *)
Put(b, type, f, len) == Filled(Ready(b, type, f[type]), len)

(* leave it laid out,                                                      *)
LEMMA PutLies ==
    ASSUME NEW b, NEW type \in Types, Found(b, type),
           NEW f \in [Types -> Nat], NEW len \in Nat
    PROVE  /\ Open(Put(b, type, f, len)) /\ Laid(Put(b, type, f, len))
           /\ Small(b.recs) /\ (Put(b, type, f, len).pos <= BufSize \/ len = 0)
                => Small(Put(b, type, f, len).recs)
  <1>1. PICK from \in Nat : from = f[type]
    OBVIOUS
  <1>2. PICK o : o = Ready(b, type, from)
    OBVIOUS
  <1>3. Open(o) /\ Laid(o) /\ (Small(b.recs) => Small(o.recs))
    BY <1>1, <1>2, Readies
  <1>4. PICK g : g = Filled(o, len)
    OBVIOUS
  <1>5. Open(g)
    BY <1>3, <1>4, Filling
  <1>6. Laid(g) /\ (Small(o.recs) /\ (g.pos <= BufSize \/ len = 0) => Small(g.recs))
    BY <1>3, <1>4, LaidFilled
  <1>7. g = Put(b, type, f, len)
    BY <1>1, <1>2, <1>4 DEF Put
  <1> QED
    BY <1>3, <1>5, <1>6, <1>7

(* and carry that stream further by their number.                          *)
LEMMA PutCovers ==
    ASSUME NEW b, NEW type \in Types, Found(b, type), serial \in Nat,
           NEW f \in [Types -> Nat], NEW len \in Nat, NEW a \in Seq(Reply),
           CoversAll(a, b.recs, f)
    PROVE  CoversAll(a, Put(b, type, f, len).recs, [f EXCEPT ![type] = @ + len])
  <1>1. /\ f[type] \in Nat /\ f \in [Types -> Int] /\ b.hdr \in BOOLEAN
        /\ Buffer(b) /\ Laid(b) /\ (b.hdr => Top(b).type = type)
    BY DEF Found, Buffer
  <1>2. PICK o : o = Ready(b, type, f[type])
    OBVIOUS
  <1>3. Open(o) /\ Laid(o) /\ Top(o).type = type
    BY <1>1, <1>2, Readies
  <1>4. CoversAll(a, o.recs, f)
    <2>1. CASE b.hdr = TRUE
      BY <1>2, <2>1 DEF Ready
    <2>2. CASE b.hdr = FALSE
      <3>1. o = open_packet(b, type, f[type])
        BY <1>2, <2>2 DEF Ready
      <3> QED
        BY <1>1, <3>1, CoversOpened
    <2> QED
      BY <1>1, <2>1, <2>2
  <1>5. PICK g : g = Filled(o, len)
    OBVIOUS
  <1>6. CoversAll(a, g.recs, [f EXCEPT ![type] = @ + len])
    BY <1>1, <1>3, <1>4, <1>5, CoversFilled
  <1>7. g = Put(b, type, f, len)
    BY <1>2, <1>5 DEF Put
  <1> QED
    BY <1>6, <1>7

(* A packet that is closed carries what it did.                            *)
LEMMA Closes ==
    ASSUME NEW b, Buffer(b), Laid(b), NEW f, NEW a \in Seq(Reply), serial \in Nat
    PROVE  /\ Laid(close_packet(b))
           /\ Small(b.recs) => Small(close_packet(b).recs)
           /\ CoversAll(a, b.recs, f) => CoversAll(a, close_packet(b).recs, f)
  <1>1. b.hdr \in BOOLEAN /\ (b.hdr => Open(b))
    BY DEF Buffer, Open
  <1> QED
    BY <1>1, LaidClosed, CoversClosed

-----------------------------------------------------------------------------
(* What is sent.                                                           *)

(* The web server can read it, and it is of no later request.              *)
AllFit(s) ==
    \A i \in DOMAIN s : /\ s[i].len <= MaxLength
                        /\ (s[i].len + s[i].pad) % 8 = 0
                        /\ s[i].serial <= serial

(* Records packed in a closed buffer are like that.                        *)
LEMMA LeavingFits ==
    ASSUME NEW b, Buffer(b), ~b.hdr, Laid(b), Small(b.recs), serial \in Nat
    PROVE  AllFit(Leaving(b.recs)) /\ Leaving(b.recs) \in Seq(Reply)
  <1>1. PICK k, l : k = Len(b.recs) /\ l = Leaving(b.recs)
    OBVIOUS
  <1>2. b.recs \in Seq(Packed) /\ b.pos \in Nat /\ b.pos % 8 = 0 /\ b.recs \in Seq(Rec)
    BY DEF Buffer, Laid
  <1>3. /\ l \in Seq(Reply) /\ Len(l) = k /\ k \in Nat
        /\ \A i \in 1 .. k : /\ l[i].serial = serial /\ l[i].len = b.recs[i].len
                             /\ l[i].pad = b.recs[i].pad
    BY <1>1, <1>2, LeavingIs
  <1>4. DOMAIN l = 1 .. k
    BY <1>3
  <1>5. ASSUME NEW i \in 1 .. k
        PROVE  l[i].len <= MaxLength /\ (l[i].len + l[i].pad) % 8 = 0
    <2>1. PICK at, len, pad : at = b.recs[i].at /\ len = b.recs[i].len /\ pad = b.recs[i].pad
      OBVIOUS
    <2>2. b.recs[i] \in Packed
      BY <1>1, <1>2
    <2>3. at \in Nat /\ len \in Nat /\ pad \in Nat
      BY <2>1, <2>2 DEF Packed
    <2>4. PICK next \in Nat : next % 8 = 0 /\ at + 8 + len + pad = next
      <3>1. CASE i = k
        BY <1>1, <1>2, <2>1, <3>1 DEF Laid
      <3>2. CASE i # k
        <4>1. i + 1 \in 1 .. k
          BY <1>3, <3>2
        <4>2. b.recs[i + 1] \in Packed
          BY <1>1, <1>2, <4>1
        <4>3. b.recs[i + 1].at \in Nat
          BY <4>2 DEF Packed
        <4>4. b.recs[i + 1].at % 8 = 0 /\ at + 8 + len + pad = b.recs[i + 1].at
          BY <1>1, <2>1, <3>2, <4>1 DEF Laid
        <4> QED
          BY <4>3, <4>4
      <3> QED
        BY <3>1, <3>2
    <2>5. at % 8 = 0 /\ len + 8 <= BufSize
      BY <1>1, <2>1 DEF Laid, Small
    <2>6. (len + pad) % 8 = 0
      BY <2>3, <2>4, <2>5
    <2>7. len <= MaxLength
      BY <2>3, <2>5, Sizes, BufferAssumption DEF Header
    <2> QED
      BY <1>3, <2>1, <2>6, <2>7
  <1>6. serial <= serial
    OBVIOUS
  <1> QED
    BY <1>1, <1>3, <1>4, <1>5, <1>6 DEF AllFit

(* More of the kind                                                        *)
LEMMA MoreFit ==
    ASSUME NEW s \in Seq(Reply), NEW z \in Seq(Reply), AllFit(s), AllFit(z)
    PROVE  AllFit(s \o z) /\ s \o z \in Seq(Reply)
  <1>1. PICK j : j = s \o z
    OBVIOUS
  <1>2. /\ j \in Seq(Reply) /\ Len(j) = Len(s) + Len(z)
        /\ \A i \in 1 .. Len(s) : j[i] = s[i]
        /\ \A i \in Len(s) + 1 .. Len(s) + Len(z) : j[i] = z[i - Len(s)]
    BY <1>1, JoinIs
  <1>3. /\ DOMAIN j = 1 .. Len(j) /\ DOMAIN s = 1 .. Len(s) /\ DOMAIN z = 1 .. Len(z)
        /\ Len(s) \in Nat /\ Len(z) \in Nat
    BY <1>2
  <1>4. \A i \in DOMAIN j : \/ i \in DOMAIN s /\ j[i] = s[i]
                            \/ i - Len(s) \in DOMAIN z /\ j[i] = z[i - Len(s)]
    BY <1>2, <1>3
  <1> QED
    BY <1>1, <1>2, <1>4 DEF AllFit

(* What leaves the buffer has arrived.                                     *)
LEMMA CoversSent ==
    ASSUME NEW a \in Seq(Reply), NEW recs \in Seq(Packed), serial \in Nat,
           NEW f, CoversAll(a, recs, f)
    PROVE  CoversAll(a \o Leaving(recs), <<>>, f)
  <1>1. PICK l, s : l = Leaving(recs) /\ s = a \o l
    OBVIOUS
  <1>2. l \in Seq(Reply)
    BY <1>1, LeavingIs
  <1>3. s \in Seq(Reply)
    BY <1>1, <1>2, ConcatProperties
  <1>4. <<>> \in Seq(Packed)
    OBVIOUS
  <1>5. Leaving(<<>>) \in Seq(Reply) /\ Len(Leaving(<<>>)) = Len(<<>>)
    BY <1>4, LeavingIs
  <1>6. Leaving(<<>>) = <<>>
    BY <1>5
  <1>7. s \o <<>> = s
    BY <1>3
  <1> QED
    BY <1>1, <1>6, <1>7 DEF CoversAll

(* So has a record past it.                                                *)
LEMMA CoversPast ==
    ASSUME NEW a \in Seq(Reply), serial \in Nat, NEW f \in [Types -> Int],
           CoversAll(a, <<>>, f), NEW x \in Reply, x.serial = serial,
           x.type \in Types => x.from = f[x.type]
    PROVE  /\ x.type \in Types => CoversAll(a \o <<x>>, <<>>, [f EXCEPT ![x.type] = @ + x.len])
           /\ x.type \notin Types => CoversAll(a \o <<x>>, <<>>, f)
  <1>1. PICK s : s = Append(a, x)
    OBVIOUS
  <1>2. s = a \o <<x>> /\ s \in Seq(Reply)
    BY <1>1, AppendIsConcat
  <1>3. <<>> \in Seq(Packed)
    OBVIOUS
  <1>4. Leaving(<<>>) \in Seq(Reply) /\ Len(Leaving(<<>>)) = Len(<<>>)
    BY <1>3, LeavingIs
  <1>5. Leaving(<<>>) = <<>>
    BY <1>4
  <1>6. a \o <<>> = a /\ s \o <<>> = s
    BY <1>2
  <1>7. \A t \in Types : Covers(a, t, serial, f[t])
    BY <1>5, <1>6 DEF CoversAll
  <1>8. \A t \in Types : x.type # t => Covers(s, t, serial, f[t])
    BY <1>1, <1>7, CoversOther
  <1>9. x.type \in Types => Covers(s, x.type, serial, f[x.type] + x.len)
    BY <1>1, <1>7, CoversMore
  <1>10. ASSUME x.type \in Types
         PROVE  \A t \in Types : Covers(s, t, serial, [f EXCEPT ![x.type] = @ + x.len][t])
    BY <1>8, <1>9, <1>10
  <1> QED
    BY <1>2, <1>5, <1>6, <1>8, <1>10 DEF CoversAll

-----------------------------------------------------------------------------
(* The invariant for what is sent: the buffer is laid out, nothing is left *)
(* in it when the worker reads a request, what was sent can be read, and   *)
(* on a connection that works it carries all that has been handed over, up *)
(* to what the third branch of fcgi_write has still to send.               *)

UpTo == [t \in Types |-> said[t] - (IF todo.type = t THEN todo.left ELSE 0)]

Written ==
    /\ Laid(out)
    /\ Works => Small(out.recs)
    /\ said \in [Types -> Nat] /\ todo.left <= said[todo.type]
    /\ todo.left > 0 => phase \in {"serving", "undefined"}
    /\ phase \in {"reading", "params"} => out.recs = <<>> /\ ~gone

Telling == Works /\ asked = serial /\ (Serving \/ phase = "reading")

Intact ==
    /\ AllFit(answer)
    /\ phase = "params" => \A i \in DOMAIN answer : answer[i].serial # serial
    /\ Telling => CoversAll(answer, out.recs, UpTo)

(* It implies two of the properties.                                       *)
LEMMA IntactImplies ==
    IInv /\ Typed /\ Written /\ Intact => OutputIntact /\ Framed
  <1> SUFFICES ASSUME IInv, Typed, Written, Intact PROVE OutputIntact /\ Framed
    OBVIOUS
  <1>1. OutputIntact
    <2> SUFFICES ASSUME Telling, NEW t \in Types
                 PROVE  Covers(answer \o Leaving(out.recs), t, serial,
                               said[t] - (IF todo.type = t THEN todo.left ELSE 0))
      BY DEF OutputIntact, Telling, Works
    <2>1. Covers(answer \o Leaving(out.recs), t, serial, UpTo[t])
      BY DEF Intact, CoversAll
    <2> QED
      BY <2>1 DEF UpTo
  <1>2. TypeOK
    <2>1. out.pos \in Nat /\ out.hdr \in BOOLEAN /\ (out.hdr => out.recs # <<>>)
      BY DEF IInv, InBuffer, Buffer
    <2>2. out.recs \in Seq(Rec) /\ said \in [Types -> Nat]
      BY DEF Written, Laid
    <2>3. todo \in [type : Types, left : Nat]
      BY DEF IInv, Counts
    <2>4. /\ phase \in Phases
          /\ open \in BOOLEAN /\ keep \in BOOLEAN /\ gone \in BOOLEAN /\ eof \in BOOLEAN
          /\ early \in BOOLEAN /\ aborted \in BOOLEAN
      BY DEF Typed, Flags
    <2>5. /\ req \in Requests /\ serial \in Nat /\ asked \in Nat /\ calls \in Nat
          /\ off \in Nat /\ in_len \in Nat /\ in_pad \in Nat /\ taken \in Nat
          /\ want \in Nat /\ n \in Nat /\ read_post_bytes \in Nat
      BY DEF Typed, Numbers, InputOK
    <2> QED
      BY <2>1, <2>2, <2>3, <2>4, <2>5 DEF TypeOK
  <1>3. out.recs \in Seq(Rec)
    BY DEF Written, Laid
  <1>4. DOMAIN out.recs = 1 .. Len(out.recs)
    BY <1>3
  <1>5. \A i \in DOMAIN out.recs :
           /\ out.recs[i].at % Header = 0
           /\ out.recs[i].at + Header + out.recs[i].len + out.recs[i].pad =
                 IF i = Len(out.recs) THEN out.pos ELSE out.recs[i + 1].at
    BY <1>4 DEF Written, Laid, Header
  <1>6. \A i \in DOMAIN answer : /\ answer[i].len <= MaxLength
                                 /\ (answer[i].len + answer[i].pad) % Header = 0
    BY DEF Intact, AllFit, Header
  <1> QED
    BY <1>1, <1>2, <1>5, <1>6 DEF Framed

(* It holds initially.                                                     *)
LEMMA InitIntact == Init => Written /\ Intact
  <1> SUFFICES ASSUME Init PROVE Written /\ Intact
    OBVIOUS
  <1>1. out = Empty /\ phase = "accept" /\ open = FALSE /\ answer = <<>>
        /\ said = [t \in Types |-> 0] /\ todo.left = 0 /\ todo.type \in Types
    BY DEF Init, Idle, Types
  <1>2. Written
    BY <1>1, LaidEmpty DEF Written, Works
  <1>3. Intact
    BY <1>1 DEF Intact, AllFit, Telling, Works
  <1> QED
    BY <1>2, <1>3

(* A step that writes nothing                                              *)
LEMMA MuteStep ==
    ASSUME IInv, Typed, Written, Intact, UNCHANGED <<gone, out, todo, said, answer, serial, asked>>,
           open' => open,
           phase' \in {"reading", "params"} => phase \in {"reading", "params"},
           phase' = "params" => phase = "params",
           phase' \in {"serving", "draining", "finishing", "reading"}
               => phase \in {"serving", "draining", "finishing", "reading"},
           todo.left > 0 => phase' \in {"serving", "undefined"}
    PROVE  Written' /\ Intact'
  <1>1. Works' => Works
    BY DEF Works
  <1>2. Written'
    <2>1. Laid(out)'
      BY DEF Written, Laid, Top
    <2>2. Works' => Small(out.recs)'
      BY <1>1 DEF Written, Small
    <2> QED
      BY <2>1, <2>2 DEF Written
  <1>3. UpTo' = UpTo
    BY DEF UpTo
  <1>4. AllFit(answer)'
    BY DEF Intact, AllFit
  <1>5. Telling' => Telling
    BY <1>1 DEF Telling, Serving
  <1>6. CoversAll(answer, out.recs, UpTo) => CoversAll(answer, out.recs, UpTo)'
    <2>1. Leaving(out.recs)' = Leaving(out.recs)
      BY DEF Leaving
    <2> QED
      BY <1>3, <2>1 DEF CoversAll
  <1> QED
    BY <1>2, <1>4, <1>5, <1>6 DEF Intact

(* A step of the script, or of its end: what is in the buffer behind it,   *)
(* and what has been sent, is given as values of this state.               *)
LEMMA SpokenStep ==
    ASSUME IInv, Typed, Written, Intact, UNCHANGED <<serial, asked>>,
           NEW a, a = answer', NEW b, b = out', NEW f \in [Types -> Nat],
           phase' # "params", Serving,
           AllFit(a), Laid(b), Works' => Small(b.recs),
           phase' = "reading" => b.recs = <<>> /\ ~gone',
           said' \in [Types -> Nat], todo'.left <= said'[todo'.type],
           todo'.left > 0 => phase' \in {"serving", "undefined"},
           \A t \in Types :
               f[t] = said'[t] - (IF todo'.type = t THEN todo'.left ELSE 0),
           Works' => Works,
           Works' /\ CoversAll(answer, out.recs, UpTo) => CoversAll(a, b.recs, f)
    PROVE  Written' /\ Intact'
  <1>1. Written'
    BY DEF Written, Laid, Small, Top
  <1>2. AllFit(answer)'
    BY DEF AllFit
  <1>3. ASSUME Telling' PROVE CoversAll(answer, out.recs, UpTo)'
    <2>1. Telling /\ Works'
      BY <1>3 DEF Telling
    <2>2. CoversAll(a, b.recs, f)
      BY <2>1 DEF Intact
    <2>3. \A t \in Types : UpTo'[t] = f[t]
      BY DEF UpTo
    <2>4. Leaving(out.recs)' = Leaving(b.recs)
      BY DEF Leaving
    <2> QED
      BY <2>2, <2>3, <2>4 DEF CoversAll
  <1> QED
    BY <1>1, <1>2, <1>3 DEF Intact

(* The buffer as fcgi_write finds it                                       *)
LEMMA SwitchedIs ==
    ASSUME IInv, Written, NEW type \in Types, serial \in Nat, NEW a \in Seq(Reply), NEW f,
           NEW b, b = Switched(type)
    PROVE  /\ Buffer(b) /\ Laid(b) /\ (b.hdr => Top(b).type = type)
           /\ Works => Small(b.recs) /\ b.pos <= BufSize
           /\ CoversAll(a, out.recs, f) => CoversAll(a, b.recs, f)
  <1>1. Buffer(out) /\ Laid(out) /\ (Works => Small(out.recs)) /\ out.hdr \in BOOLEAN
    BY DEF IInv, InBuffer, Written, Buffer
  <1>2. Buffer(b) /\ (Works => b.pos <= BufSize)
    BY Switching DEF IInv
  <1>3. CASE out.hdr /\ Top(out).type # type
    <2>1. b = close_packet(out)
      BY <1>3 DEF Switched
    <2>2. /\ Laid(b) /\ (Small(out.recs) => Small(b.recs))
          /\ CoversAll(a, out.recs, f) => CoversAll(a, b.recs, f)
      BY <1>1, <2>1, Closes
    <2>3. ~b.hdr
      BY <1>1, <2>1, Closing
    <2> QED
      BY <1>1, <1>2, <2>2, <2>3
  <1>4. CASE ~(out.hdr /\ Top(out).type # type)
    <2>1. b = out
      BY <1>4 DEF Switched
    <2> QED
      BY <1>1, <1>2, <1>4, <2>1
  <1> QED
    BY <1>3, <1>4

(* What a script hands over in a call                                      *)
LEMMA HandedOver ==
    ASSUME IInv, Written, Calls, NEW type \in Types, NEW len \in Nat, Says(type, len)
    PROVE  /\ UpTo = said /\ said \in [Types -> Nat]
           /\ said' = [said EXCEPT ![type] = @ + len] /\ said' \in [Types -> Nat]
           /\ todo.left = 0 /\ phase = "serving" /\ Serving
  <1>1. said \in [Types -> Nat] /\ todo.left = 0 /\ phase = "serving"
    BY DEF Written, Calls
  <1>2. \A t \in Types : UpTo[t] = said[t]
    BY <1>1 DEF UpTo
  <1>3. UpTo = said
    BY <1>1, <1>2 DEF UpTo
  <1>4. said' = [said EXCEPT ![type] = @ + len]
    BY DEF Says
  <1>5. said[type] + len \in Nat
    BY <1>1
  <1>6. said' \in [Types -> Nat]
    BY <1>1, <1>4, <1>5
  <1> QED
    BY <1>1, <1>3, <1>4, <1>6 DEF Serving

(* The first branch of fcgi_write                                          *)
LEMMA FitsIntact ==
    ASSUME IInv, Typed, Order, Written, Intact, NEW type \in Types, NEW len \in Nat,
           WriteFits(type, len)
    PROVE  Written' /\ Intact'
  <1>0. serial \in Nat /\ answer \in Seq(Reply) /\ Calls /\ Says(type, len)
    BY DEF Typed, Numbers, Order, WriteFits, MayWrite
  <1>1. PICK b : b = Switched(type)
    OBVIOUS
  <1>2. /\ Buffer(b) /\ Laid(b) /\ (b.hdr => Top(b).type = type)
        /\ Works => Small(b.recs) /\ b.pos <= BufSize
        /\ CoversAll(answer, out.recs, UpTo) => CoversAll(answer, b.recs, UpTo)
    BY <1>0, <1>1, SwitchedIs
  <1>3. /\ UpTo = said /\ said \in [Types -> Nat]
        /\ said' = [said EXCEPT ![type] = @ + len] /\ said' \in [Types -> Nat]
        /\ todo.left = 0 /\ phase = "serving" /\ Serving
    BY <1>0, HandedOver
  <1>4. PICK g : g = Filled(Ready(b, type, said[type]), len)
    OBVIOUS
  <1>5. /\ out' = g /\ len < Limit(b) /\ GoesOn(phase, g.pos)
        /\ UNCHANGED <<open, gone, serial, asked, todo, answer>>
    BY <1>1, <1>4 DEF WriteFits, input
  <1>6. /\ Laid(g)
        /\ Small(b.recs) /\ (g.pos <= BufSize \/ len = 0) => Small(g.recs)
        /\ CoversAll(answer, b.recs, said) => CoversAll(answer, g.recs, said')
    <2>1. Found(b, type)
      BY <1>2 DEF Found
    <2>2. g = Put(b, type, said, len)
      BY <1>4 DEF Put
    <2>3. /\ Laid(g)
          /\ Small(b.recs) /\ (g.pos <= BufSize \/ len = 0) => Small(g.recs)
      BY <1>3, <2>1, <2>2, PutLies
    <2>4. ASSUME CoversAll(answer, b.recs, said)
          PROVE  CoversAll(answer, g.recs, [said EXCEPT ![type] = @ + len])
      BY <1>0, <1>3, <2>1, <2>2, <2>4, PutCovers
    <2> QED
      BY <1>3, <2>3, <2>4
  <1>7. Works => g.pos <= BufSize
    <2>1. b.pos \in Nat /\ b.hdr \in BOOLEAN /\ said[type] \in Int
      BY <1>2, <1>3 DEF Buffer
    <2>2. g.pos = b.pos + (IF b.hdr THEN 0 ELSE 8) + len
      BY <1>2, <1>4, <2>1, Packing
    <2>3. /\ Limit(b) \in Nat
          /\ b.hdr => b.pos + Limit(b) = BufSize
          /\ ~b.hdr /\ Limit(b) > 0 => b.pos + 8 + Limit(b) = BufSize
      BY <1>2, LimitFits
    <2> QED
      BY <1>5, <2>1, <2>2, <2>3, Sizes
  <1>8. Works' = Works
    BY <1>5 DEF Works
  <1>9. phase' \in {"serving", "undefined"}
    BY <1>3, <1>5 DEF GoesOn
  <1>10. PICK f \in [Types -> Nat] : f = said'
    BY <1>3
  <1>11. todo' = todo /\ todo.left = 0 /\ todo.type \in Types
    BY <1>3, <1>5 DEF IInv, Counts
  <1>12. \A t \in Types : f[t] = said'[t] - (IF todo'.type = t THEN todo'.left ELSE 0)
    BY <1>3, <1>10, <1>11
  <1>13. Works' => Small(g.recs)
    BY <1>2, <1>6, <1>7, <1>8
  <1>14. CoversAll(answer, out.recs, UpTo) => CoversAll(answer, g.recs, f)
    BY <1>2, <1>3, <1>6, <1>10
  <1>15. todo'.left <= said'[todo'.type]
    BY <1>3, <1>11
  <1>16. PICK a : a = answer
    OBVIOUS
  <1>17. a = answer' /\ g = out' /\ UNCHANGED <<serial, asked>> /\ Laid(g)
    BY <1>5, <1>6, <1>16
  <1>18. AllFit(a) /\ phase' # "params" /\ Serving /\ phase' # "reading"
    BY <1>3, <1>9, <1>16 DEF Intact
  <1>19. (phase' = "reading" => g.recs = <<>> /\ ~gone') /\ (Works' => Works)
    BY <1>8, <1>18
  <1>20. said' \in [Types -> Nat] /\ (todo'.left > 0 => phase' \in {"serving", "undefined"})
    BY <1>3, <1>9
  <1>21. Works' /\ CoversAll(answer, out.recs, UpTo) => CoversAll(a, g.recs, f)
    BY <1>14, <1>16
  <1> QED
    BY <1>12, <1>13, <1>15, <1>17, <1>18, <1>19, <1>20, <1>21, SpokenStep

(* A new packet in the empty buffer                                        *)
LEMMA AnewLies ==
    ASSUME NEW type \in Types, NEW f \in [Types -> Nat], NEW len \in Nat, len + 8 <= BufSize,
           NEW g, g = Filled(open_packet(Empty, type, f[type]), len)
    PROVE  /\ Laid(g) /\ Small(g.recs)
           /\ g = Put(Empty, type, f, len) /\ Found(Empty, type)
  <1>1. Buffer(Empty) /\ Empty.hdr = FALSE /\ Laid(Empty) /\ Small(Empty.recs)
    BY EmptyBuffer, LaidEmpty DEF Room, Empty
  <1>2. Found(Empty, type)
    BY <1>1 DEF Found
  <1>3. Ready(Empty, type, f[type]) = open_packet(Empty, type, f[type])
    BY <1>1 DEF Ready
  <1>4. g = Put(Empty, type, f, len)
    BY <1>3 DEF Put
  <1>5. PICK from \in Int : from = f[type]
    OBVIOUS
  <1>6. g.pos <= BufSize
    BY <1>5, Anew
  <1> QED
    BY <1>1, <1>2, <1>4, <1>6, PutLies

(* carries what is put into it.                                            *)
LEMMA AnewCovers ==
    ASSUME NEW type \in Types, NEW f \in [Types -> Nat], NEW len \in Nat, len + 8 <= BufSize,
           NEW g, g = Filled(open_packet(Empty, type, f[type]), len),
           NEW a \in Seq(Reply), serial \in Nat, CoversAll(a, <<>>, f)
    PROVE  CoversAll(a, g.recs, [f EXCEPT ![type] = @ + len])
  <1>1. g = Put(Empty, type, f, len) /\ Found(Empty, type)
    BY AnewLies
  <1>2. CoversAll(a, Empty.recs, f)
    BY LaidEmpty
  <1> QED
    BY <1>1, <1>2, PutCovers

(* The buffer full, as the second branch of fcgi_write sends it            *)
LEMMA FullIs ==
    ASSUME NEW b, NEW type \in Types, Found(b, type), NEW f \in [Types -> Nat],
           NEW g, g = Put(b, type, f, Limit(b)), NEW full, full = close_packet(g)
    PROVE  /\ Limit(b) \in Nat /\ Buffer(full) /\ ~full.hdr /\ Laid(full)
           /\ Small(b.recs) => Small(full.recs)
  <1>1. /\ Buffer(b) /\ Laid(b) /\ b.pos \in Nat /\ b.hdr \in BOOLEAN /\ f[type] \in Int
        /\ f[type] \in Nat
    BY DEF Found, Buffer
  <1>2. /\ Limit(b) \in Nat
        /\ b.hdr => b.pos + Limit(b) = BufSize
        /\ ~b.hdr /\ Limit(b) > 0 => b.pos + 8 + Limit(b) = BufSize
    BY <1>1, LimitFits
  <1>3. g = Filled(Ready(b, type, f[type]), Limit(b))
    BY DEF Put
  <1>4. Open(g) /\ g.pos = b.pos + (IF b.hdr THEN 0 ELSE 8) + Limit(b)
    BY <1>1, <1>2, <1>3, Packing
  <1>5. g.pos <= BufSize \/ Limit(b) = 0
    BY <1>1, <1>2, <1>4, Sizes
  <1>6. Laid(g) /\ (Small(b.recs) => Small(g.recs))
    BY <1>2, <1>5, PutLies
  <1>7. Buffer(full) /\ ~full.hdr
    BY <1>1, <1>3, Spilling
  <1>8. Laid(full) /\ (Small(g.recs) => Small(full.recs))
    <2>1. g.hdr \in BOOLEAN
      BY <1>4 DEF Open
    <2> QED
      BY <1>4, <1>6, <2>1, LaidClosed
  <1> QED
    BY <1>2, <1>6, <1>7, <1>8

(* carries the stream further by what there was room for.                  *)
LEMMA FullCovers ==
    ASSUME NEW b, NEW type \in Types, Found(b, type), NEW f \in [Types -> Nat],
           NEW g, g = Put(b, type, f, Limit(b)), NEW full, full = close_packet(g),
           NEW a \in Seq(Reply), serial \in Nat, CoversAll(a, b.recs, f)
    PROVE  CoversAll(a, full.recs, [f EXCEPT ![type] = @ + Limit(b)])
  <1>1. PICK len \in Nat : len = Limit(b)
    BY FullIs
  <1>2. CoversAll(a, g.recs, [f EXCEPT ![type] = @ + len])
    BY <1>1, PutCovers
  <1>3. Open(g)
    BY <1>1, PutLies
  <1>4. PICK h : h = [f EXCEPT ![type] = @ + len]
    OBVIOUS
  <1>5. CoversAll(a, full.recs, h)
    BY <1>2, <1>3, <1>4, CoversClosed
  <1> QED
    BY <1>1, <1>4, <1>5

(* The second branch                                                       *)
LEMMA SpillsIntact ==
    ASSUME IInv, Typed, Order, Written, Intact, NEW type \in Types, NEW len \in Nat,
           NEW ok \in BOOLEAN, WriteSpills(type, len, ok)
    PROVE  Written' /\ Intact'
  <1>0. serial \in Nat /\ answer \in Seq(Reply) /\ Calls /\ Says(type, len)
    BY DEF Typed, Numbers, Order, WriteSpills, MayWrite
  <1>1. PICK b : b = Switched(type)
    OBVIOUS
  <1>2. /\ Found(b, type) /\ (Works => Small(b.recs))
        /\ CoversAll(answer, out.recs, UpTo) => CoversAll(answer, b.recs, UpTo)
    BY <1>0, <1>1, SwitchedIs DEF Found
  <1>3. /\ UpTo = said /\ said \in [Types -> Nat]
        /\ said' = [said EXCEPT ![type] = @ + len] /\ said' \in [Types -> Nat]
        /\ todo.left = 0 /\ phase = "serving" /\ Serving
    BY <1>0, HandedOver
  <1>4. PICK g, full : g = Put(b, type, said, Limit(b)) /\ full = close_packet(g)
    OBVIOUS
  <1>5. /\ Limit(b) \in Nat /\ Buffer(full) /\ ~full.hdr /\ Laid(full)
        /\ Small(b.recs) => Small(full.recs)
    BY <1>2, <1>3, <1>4, FullIs
  <1>6. PICK limit \in Nat : limit = Limit(b)
    BY <1>5
  <1>7. PICK h \in [Types -> Nat] : h = [said EXCEPT ![type] = @ + limit]
    <2>1. said[type] + limit \in Nat
      BY <1>3
    <2> QED
      BY <1>3, <2>1
  <1>8. CoversAll(answer, b.recs, said) => CoversAll(answer, full.recs, h)
    BY <1>0, <1>2, <1>3, <1>4, <1>6, <1>7, FullCovers
  <1>9. full = close_packet(Filled(Ready(b, type, said[type]), limit))
    BY <1>4, <1>6 DEF Put
  <1>10. /\ UNCHANGED <<open, serial, asked, todo>>
         /\ len >= limit /\ len - limit < BufSize - 8
         /\ Goes(ok, Leaving(full.recs)) /\ GoesOn(phase, full.pos)
    BY <1>1, <1>6, <1>9, Sizes DEF WriteSpills, input
  <1>11. /\ ~ok => out' = full
         /\ ok /\ len > limit =>
               out' = Filled(open_packet(Empty, type, h[type]), len - limit)
         /\ ok /\ len = limit => out' = Empty
    <2>1. out' = CASE ok /\ len > limit ->
                        Filled(open_packet(Empty, type, said[type] + limit), len - limit)
                   [] ok /\ len = limit -> Empty
                   [] ~ok               -> full
      BY <1>1, <1>6, <1>9 DEF WriteSpills
    <2>2. ASSUME ok = FALSE PROVE out' = full
      BY <2>1, <2>2
    <2>3. ASSUME ok = TRUE, len > limit
          PROVE  out' = Filled(open_packet(Empty, type, h[type]), len - limit)
      <3>1. h[type] = said[type] + limit
        BY <1>3, <1>7
      <3> QED
        BY <2>1, <2>3, <3>1
    <2>4. ASSUME ok = TRUE, len = limit PROVE out' = Empty
      BY <2>1, <2>4
    <2> QED
      BY <2>2, <2>3, <2>4
  <1>12. (ok => Works) /\ (~ok => ~Works') /\ (Works' => Works)
    BY <1>10, Going
  <1>13. phase' \in {"serving", "undefined"}
    BY <1>3, <1>10 DEF GoesOn
  <1>14. PICK f \in [Types -> Nat] : f = said'
    BY <1>3
  <1>15. f[todo.type] \in Nat /\ todo'.left = 0 /\ todo' = todo
    BY <1>3, <1>10 DEF IInv, Counts
  <1>16. \A t \in Types : f[t] = said'[t] - (IF todo'.type = t THEN todo'.left ELSE 0)
    BY <1>14, <1>15
  <1>17. /\ todo'.left <= said'[todo'.type] /\ (todo'.left > 0 => phase' \in {"serving", "undefined"})
         /\ UNCHANGED <<serial, asked>> /\ phase' # "params" /\ phase' # "reading"
         /\ said' \in [Types -> Nat] /\ Serving
    BY <1>3, <1>10, <1>13, <1>14, <1>15
  <1>18. PICK a, o : a = answer' /\ o = out'
    OBVIOUS
  <1>19. AllFit(answer)
    BY DEF Intact
  <1>20. CASE ok = FALSE
    <2>1. o = full /\ a = answer
      BY <1>10, <1>11, <1>18, <1>20 DEF Goes
    <2>2. AllFit(a) /\ Laid(o) /\ ~Works'
      BY <1>5, <1>12, <1>19, <1>20, <2>1
    <2> QED
      BY <1>16, <1>17, <1>18, <2>2, SpokenStep
  <1>21. CASE ok = TRUE
    <2>1. a = answer \o Leaving(full.recs) /\ Works
      BY <1>10, <1>12, <1>18, <1>21 DEF Goes
    <2>2. Small(full.recs)
      BY <1>2, <1>5, <2>1
    <2>3. AllFit(Leaving(full.recs)) /\ Leaving(full.recs) \in Seq(Reply)
      BY <1>0, <1>5, <2>2, LeavingFits
    <2>4. AllFit(a) /\ a \in Seq(Reply)
      BY <1>0, <1>19, <2>1, <2>3, MoreFit
    <2>5. CoversAll(answer, out.recs, UpTo) => CoversAll(a, <<>>, h)
      <3>1. full.recs \in Seq(Packed)
        BY <1>5 DEF Buffer
      <3>2. CoversAll(answer, full.recs, h) => CoversAll(a, <<>>, h)
        BY <1>0, <2>1, <3>1, CoversSent
      <3> QED
        BY <1>2, <1>3, <1>8, <3>2
    <2>6. /\ Laid(o) /\ Small(o.recs)
          /\ CoversAll(a, <<>>, h) => CoversAll(a, o.recs, f)
      <3>1. CASE len > limit
        <4>1. PICK rest \in Nat : rest = len - limit /\ rest + 8 <= BufSize
          BY <1>10, <3>1, Sizes
        <4>2. o = Filled(open_packet(Empty, type, h[type]), rest)
          BY <1>11, <1>18, <1>21, <3>1, <4>1
        <4>3. Laid(o) /\ Small(o.recs)
          BY <4>1, <4>2, AnewLies
        <4>4. CoversAll(a, <<>>, h) => CoversAll(a, o.recs, [h EXCEPT ![type] = @ + rest])
          BY <1>0, <2>4, <4>1, <4>2, AnewCovers
        <4>5. [h EXCEPT ![type] = @ + rest] = f
          <5>1. PICK s \in Nat : s = said[type]
            BY <1>3
          <5>2. h[type] + rest = s + len
            BY <1>3, <1>7, <4>1, <5>1
          <5> QED
            BY <1>3, <1>7, <1>14, <5>1, <5>2
        <4> QED
          BY <4>3, <4>4, <4>5
      <3>2. CASE ~(len > limit)
        <4>1. len = limit
          BY <1>10, <3>2
        <4>2. o = Empty
          BY <1>11, <1>18, <1>21, <4>1
        <4>3. h = f
          BY <1>3, <1>7, <1>14, <4>1
        <4> QED
          BY <4>2, <4>3, LaidEmpty
      <3> QED
        BY <3>1, <3>2
    <2>7. CoversAll(answer, out.recs, UpTo) => CoversAll(a, o.recs, f)
      BY <2>5, <2>6
    <2> QED
      BY <1>12, <1>16, <1>17, <1>18, <2>4, <2>6, <2>7, SpokenStep
  <1> QED
    BY <1>20, <1>21

(* The third, before its loop: what is handed over is still to be sent     *)
LEMMA DirectIntact ==
    ASSUME IInv, Typed, Order, Written, Intact, NEW type \in Types, NEW len \in Nat,
           WriteDirect(type, len)
    PROVE  Written' /\ Intact'
  <1>0. serial \in Nat /\ answer \in Seq(Reply) /\ Calls /\ Says(type, len)
    BY DEF Typed, Numbers, Order, WriteDirect, MayWrite
  <1>1. PICK b : b = Switched(type)
    OBVIOUS
  <1>2. /\ Buffer(b) /\ Laid(b) /\ (Works => Small(b.recs))
        /\ CoversAll(answer, out.recs, UpTo) => CoversAll(answer, b.recs, UpTo)
    BY <1>0, <1>1, SwitchedIs
  <1>3. /\ UpTo = said /\ said \in [Types -> Nat]
        /\ said' = [said EXCEPT ![type] = @ + len] /\ said' \in [Types -> Nat]
        /\ todo.left = 0 /\ phase = "serving" /\ Serving
    BY <1>0, HandedOver
  <1>4. PICK o : o = close_packet(b)
    OBVIOUS
  <1>5. /\ Laid(o) /\ (Small(b.recs) => Small(o.recs))
        /\ CoversAll(answer, b.recs, said) => CoversAll(answer, o.recs, said)
    BY <1>0, <1>2, <1>4, Closes
  <1>6. /\ o = out' /\ UNCHANGED <<open, gone, serial, asked, answer, phase>>
        /\ todo' = [type |-> type, left |-> len]
    BY <1>1, <1>4 DEF WriteDirect, conn, input
  <1>7. Works' = Works
    BY <1>6 DEF Works
  <1>8. PICK f \in [Types -> Nat] : f = said
    BY <1>3
  <1>9. \A t \in Types : f[t] = said'[t] - (IF todo'.type = t THEN todo'.left ELSE 0)
    <2>1. ASSUME NEW t \in Types
          PROVE  f[t] = said'[t] - (IF todo'.type = t THEN todo'.left ELSE 0)
      <3>1. f[t] \in Nat /\ said[t] = f[t]
        BY <1>8
      <3>2. CASE t = type
        BY <1>3, <1>6, <3>1, <3>2
      <3>3. CASE t # type
        BY <1>3, <1>6, <3>1, <3>3
      <3> QED
        BY <3>2, <3>3
    <2> QED
      BY <2>1
  <1>10. PICK a : a = answer
    OBVIOUS
  <1>11. a = answer' /\ AllFit(a) /\ (Works' => Small(o.recs)) /\ (Works' => Works)
    BY <1>2, <1>5, <1>6, <1>7, <1>10 DEF Intact
  <1>12. /\ todo'.left <= said'[todo'.type] /\ (todo'.left > 0 => phase' \in {"serving", "undefined"})
         /\ UNCHANGED <<serial, asked>> /\ phase' # "params" /\ phase' # "reading"
         /\ said' \in [Types -> Nat] /\ Serving
    <2>1. said[type] \in Nat /\ said'[type] = said[type] + len
      BY <1>3
    <2>2. len <= said'[type]
      BY <2>1
    <2> QED
      BY <1>3, <1>6, <2>2
  <1>13. CoversAll(answer, out.recs, UpTo) => CoversAll(a, o.recs, f)
    BY <1>2, <1>3, <1>5, <1>8, <1>10
  <1> QED
    BY <1>5, <1>6, <1>9, <1>11, <1>12, <1>13, SpokenStep

(* One more record behind those sent                                       *)
LEMMA OneFits ==
    ASSUME NEW x \in Reply, x.len <= MaxLength, (x.len + x.pad) % 8 = 0, x.serial <= serial
    PROVE  AllFit(<<x>>) /\ <<x>> \in Seq(Reply)
  <1>1. DOMAIN <<x>> = 1 .. 1 /\ <<x>>[1] = x /\ <<x>> \in Seq(Reply)
    BY Short
  <1> QED
    BY <1>1 DEF AllFit

(* A turn of its loop: the header and the bytes past the buffer, and what  *)
(* does not fill eight of them kept for the next record.                   *)
LEMMA DirectionIntact ==
    ASSUME IInv, Typed, Order, Written, Intact, NEW len \in Nat, NEW rest \in Nat,
           NEW ok \in BOOLEAN, phase = "serving", todo.left > 0,
           rest <= 7, len + rest <= todo.left, rest = 0 \/ len + rest = todo.left,
           len <= MaxLength, len % 8 = 0, Direction(len, ok, rest)
    PROVE  Written' /\ Intact'
  <1>0. serial \in Nat /\ answer \in Seq(Reply)
    BY DEF Typed, Numbers, Order
  <1>1. PICK type \in Types, left \in Nat : type = todo.type /\ left = todo.left
    BY DEF IInv, Counts
  <1>2. PICK s \in Nat : s = said[type] /\ left <= s
    BY <1>1 DEF Written
  <1>3. said \in [Types -> Nat]
    BY DEF Written
  <1>4. /\ UpTo \in [Types -> Nat] /\ UpTo[type] = s - left
        /\ \A t \in Types : t # type => UpTo[t] = said[t]
    <2>1. s - left \in Nat
      BY <1>2
    <2>2. \A t \in Types : UpTo[t] = IF t = type THEN s - left ELSE said[t]
      <3>1. ASSUME NEW t \in Types PROVE UpTo[t] = IF t = type THEN s - left ELSE said[t]
        <4>1. said[t] \in Nat
          BY <1>3
        <4> QED
          BY <1>1, <1>2, <4>1 DEF UpTo
      <3> QED
        BY <3>1
    <2>3. UpTo = [t \in Types |-> UpTo[t]]
      BY DEF UpTo
    <2> QED
      BY <1>3, <2>1, <2>2, <2>3
  <1>5. PICK u \in [Types -> Nat] : u = UpTo
    BY <1>4
  <1>6. PICK from \in Nat : from = s - left /\ from = u[type]
    BY <1>2, <1>4, <1>5
  <1>7. PICK top : top = [open_packet(out, type, from) EXCEPT !.hdr = FALSE]
    OBVIOUS
  <1>8. Buffer(out) /\ Laid(out) /\ ~out.hdr /\ (Works => Small(out.recs))
    BY DEF IInv, InBuffer, Buffer, Written
  <1>9. Laid(top)
    BY <1>7, <1>8, LaidOpened
  <1>10. PICK x : x = Direct(type, from, len)
    OBVIOUS
  <1>11. /\ Goes(ok, Leaving(out.recs) \o <<x>>) /\ GoesOn(phase, top.pos)
         /\ UNCHANGED <<open, serial, asked, said>>
         /\ todo' = IF ok /\ todo.left > len + rest
                    THEN [todo EXCEPT !.left = @ - len - rest] ELSE Idle
    BY <1>1, <1>2, <1>6, <1>7, <1>10 DEF Direction, input
  <1>12. /\ ok /\ rest = 0 => out' = Empty
         /\ ok /\ rest > 0 => out' = Filled(open_packet(Empty, type, from + len), rest)
         /\ ~ok => out' \in {Empty, top}
    <2>1. type = todo.type /\ from = said[type] - todo.left
      BY <1>1, <1>2, <1>6
    <2>2. PICK y : y = Filled(open_packet(Empty, type, from + len), rest)
      OBVIOUS
    <2>3. out' \in CASE ok /\ rest = 0 -> {Empty}
                      [] ok /\ rest > 0 -> {y}
                      [] OTHER          -> {Empty, top}
      BY <1>7, <2>1, <2>2 DEF Direction
    <2>4. CASE ok = FALSE
      BY <2>3, <2>4
    <2>5. CASE ok = TRUE /\ rest = 0
      BY <2>3, <2>5
    <2>6. CASE ok = TRUE /\ rest > 0
      BY <2>2, <2>3, <2>6
    <2> QED
      BY <2>4, <2>5, <2>6
  <1>13. (ok => Works) /\ (~ok => ~Works') /\ (Works' => Works)
    BY <1>11, Going
  <1>14. phase' \in {"serving", "undefined"}
    BY <1>11 DEF GoesOn
  <1>15. PICK a, o : a = answer' /\ o = out'
    OBVIOUS
  <1>16. AllFit(answer)
    BY DEF Intact
  <1>17. /\ UNCHANGED <<serial, asked>> /\ phase' # "params" /\ phase' # "reading"
         /\ said' \in [Types -> Nat] /\ Serving
         /\ (todo'.left > 0 => phase' \in {"serving", "undefined"})
    BY <1>3, <1>11, <1>14 DEF Serving
  <1>18. CASE ok = FALSE
    <2>1. a = answer /\ AllFit(a) /\ Laid(o) /\ ~Works'
      BY <1>9, <1>11, <1>12, <1>13, <1>15, <1>16, <1>18, LaidEmpty DEF Goes
    <2>2. todo'.left = 0
      BY <1>11, <1>18 DEF Idle
    <2>3. todo'.type \in Types
      BY <1>11, <1>18 DEF Idle, Types
    <2>4. PICK f \in [Types -> Nat] : f = said
      BY <1>3
    <2>5. \A t \in Types : f[t] = said'[t] - (IF todo'.type = t THEN todo'.left ELSE 0)
      <3>1. said' = f /\ \A t \in Types : f[t] \in Nat
        BY <1>11, <2>4
      <3> QED
        BY <2>2, <3>1
    <2>6. todo'.left <= said'[todo'.type]
      <3>1. said' = f /\ f[todo'.type] \in Nat
        BY <1>11, <2>3, <2>4
      <3> QED
        BY <2>2, <3>1
    <2> QED
      BY <1>15, <1>17, <2>1, <2>5, <2>6, SpokenStep
  <1>19. CASE ok = TRUE
    <2>1. PICK l : l = Leaving(out.recs)
      OBVIOUS
    <2>2. Works /\ answer' = answer \o (l \o <<x>>)
      BY <1>11, <1>13, <1>19, <2>1 DEF Goes
    <2>3. out.recs \in Seq(Packed)
      BY <1>8 DEF Buffer
    <2>4. AllFit(l) /\ l \in Seq(Reply)
      BY <1>0, <1>8, <2>1, <2>2, LeavingFits
    <2>5. /\ x \in Reply /\ x.type = type /\ x.from = from /\ x.len = len /\ x.pad = 0
          /\ x.serial = serial
      BY <1>0, <1>10 DEF Direct, Reply
    <2>6. AllFit(<<x>>) /\ <<x>> \in Seq(Reply)
      <3>1. (x.len + x.pad) % 8 = 0 /\ x.len <= MaxLength /\ x.serial <= serial
        BY <1>0, <2>5
      <3> QED
        BY <2>5, <3>1, OneFits
    <2>7. PICK m \in Seq(Reply) : m = answer \o l
      BY <1>0, <2>4, ConcatProperties
    <2>8. a = m \o <<x>>
      <3>1. (answer \o l) \o <<x>> = answer \o (l \o <<x>>)
        BY <1>0, <2>4, <2>6, ConcatAssociative, SMTT(30)
      <3> QED
        BY <1>15, <2>2, <2>7, <3>1
    <2>9. AllFit(m)
      BY <1>0, <1>16, <2>4, <2>7, MoreFit
    <2>10. AllFit(a) /\ a \in Seq(Reply)
      BY <2>6, <2>8, <2>9, MoreFit
    <2>11. PICK h \in [Types -> Nat] : h = [u EXCEPT ![type] = @ + len]
      <3>1. u[type] + len \in Nat
        OBVIOUS
      <3> QED
        BY <3>1
    <2>12. CoversAll(answer, out.recs, u) => CoversAll(a, <<>>, h)
      <3>1. CoversAll(answer, out.recs, u) => CoversAll(m, <<>>, u)
        BY <1>0, <2>1, <2>3, <2>7, CoversSent
      <3>2. u \in [Types -> Int]
        OBVIOUS
      <3>3. x.type \in Types /\ x.from = u[x.type] /\ x.serial = serial
        BY <1>6, <2>5
      <3>4. CoversAll(m, <<>>, u) => CoversAll(m \o <<x>>, <<>>, [u EXCEPT ![x.type] = @ + x.len])
        BY <1>0, <2>5, <3>2, <3>3, CoversPast
      <3> QED
        BY <2>5, <2>8, <2>11, <3>1, <3>4
    <2>13. h[type] = from + len
      BY <1>6, <2>11
    <2>14. PICK f \in [Types -> Nat] : f = [h EXCEPT ![type] = @ + rest]
      <3>1. h[type] + rest \in Nat
        OBVIOUS
      <3> QED
        BY <3>1
    <2>15. /\ Laid(o) /\ Small(o.recs)
           /\ CoversAll(a, <<>>, h) => CoversAll(a, o.recs, f)
      <3>1. CASE rest > 0
        <4>1. rest + 8 <= BufSize
          BY Sizes
        <4>2. o = Filled(open_packet(Empty, type, h[type]), rest)
          BY <1>12, <1>15, <1>19, <2>13, <3>1
        <4>3. Laid(o) /\ Small(o.recs)
          BY <4>1, <4>2, AnewLies
        <4>4. CoversAll(a, <<>>, h) => CoversAll(a, o.recs, [h EXCEPT ![type] = @ + rest])
          BY <1>0, <2>10, <4>1, <4>2, AnewCovers
        <4> QED
          BY <2>14, <4>3, <4>4
      <3>2. CASE rest = 0
        <4>1. o = Empty
          BY <1>12, <1>15, <1>19, <3>2
        <4>2. f = h
          BY <2>14, <3>2
        <4> QED
          BY <4>1, <4>2, LaidEmpty
      <3> QED
        BY <3>1, <3>2
    <2>16. PICK k \in Nat : /\ k = todo'.left /\ k = left - len - rest
                            /\ todo'.type \in Types /\ (k > 0 => todo'.type = type)
      <3>1. CASE left > len + rest
        <4>1. left - len - rest \in Nat
          BY <3>1
        <4>2. todo' = [todo EXCEPT !.left = @ - len - rest]
          BY <1>1, <1>11, <1>19, <3>1
        <4>3. todo'.left = left - len - rest /\ todo'.type = type
          BY <1>1, <4>2 DEF IInv, Counts
        <4> QED
          BY <4>1, <4>3
      <3>2. CASE ~(left > len + rest)
        <4>1. left - len - rest = 0
          BY <1>1, <3>2
        <4>2. todo' = Idle
          BY <1>1, <1>11, <3>2
        <4> QED
          BY <4>1, <4>2 DEF Idle, Types
      <3> QED
        BY <3>1, <3>2
    <2>17. f[type] = s - k /\ k <= s /\ \A t \in Types : t # type => f[t] = said[t]
      <3>1. f[type] = from + len + rest
        BY <2>11, <2>13, <2>14
      <3>2. f[type] = s - k /\ k <= s
        <4>1. k = left - len - rest
          BY <2>16
        <4>2. from = s - left /\ left <= s
          BY <1>2, <1>6
        <4>3. s - k = from + len + rest
          BY <4>1, <4>2
        <4>4. k <= s
          BY <4>1, <4>2
        <4> QED
          BY <3>1, <4>3, <4>4
      <3>3. ASSUME NEW t \in Types, t # type PROVE f[t] = said[t]
        <4>1. f[t] = h[t] /\ h[t] = u[t]
          BY <2>11, <2>14, <3>3
        <4> QED
          BY <1>4, <1>5, <3>3, <4>1
      <3> QED
        BY <3>2, <3>3
    <2>18. \A t \in Types : f[t] = said'[t] - (IF todo'.type = t THEN todo'.left ELSE 0)
      <3>1. ASSUME NEW t \in Types
            PROVE  f[t] = said'[t] - (IF todo'.type = t THEN todo'.left ELSE 0)
        <4>1. said'[t] = said[t] /\ said[t] \in Nat
          BY <1>3, <1>11
        <4>2. CASE t = type
          BY <1>2, <2>16, <2>17, <4>1, <4>2
        <4>3. CASE t # type
          <5>1. f[t] = said'[t]
            BY <2>17, <4>1, <4>3
          <5>2. todo'.type = t => todo'.left = 0
            BY <2>16, <4>3
          <5> QED
            BY <4>1, <5>1, <5>2
        <4> QED
          BY <4>2, <4>3
      <3> QED
        BY <3>1
    <2>19. todo'.left <= said'[todo'.type]
      <3>1. said'[todo'.type] \in Nat /\ said'[type] = s
        BY <1>2, <1>3, <1>11, <2>16
      <3> QED
        BY <2>16, <2>17, <3>1
    <2>20. CoversAll(answer, out.recs, UpTo) => CoversAll(a, o.recs, f)
      BY <1>5, <2>12, <2>15
    <2> QED
      BY <1>13, <1>15, <1>17, <2>10, <2>15, <2>18, <2>19, <2>20, SpokenStep
  <1> QED
    BY <1>18, <1>19

-----------------------------------------------------------------------------
(* fcgi_flush: what is packed is sent, and END_REQUEST carries nothing.    *)
LEMMA FlushedIntact ==
    ASSUME IInv, Typed, Order, Written, Intact, NEW close \in BOOLEAN, NEW ok \in BOOLEAN,
           NEW p, Flushed(close, ok, p), UNCHANGED <<todo, said, serial, asked>>,
           Serving, todo.left = 0, open' => open,
           p # "params", p = "reading" => ok
    PROVE  Written' /\ Intact'
  <1>0. serial \in Nat /\ answer \in Seq(Reply) /\ said \in [Types -> Nat]
    BY DEF Typed, Numbers, Order, Written
  <1>1. PICK b, l : b = close_packet(out) /\ l = Leaving(b.recs)
    OBVIOUS
  <1>2. /\ Goes(ok, l \o EndRecord(close)) /\ out' = (IF ok THEN Empty ELSE b)
        /\ GoesOn(p, b.pos + (IF close THEN EndSize ELSE 0))
    BY <1>1 DEF Flushed
  <1>3. PICK f \in [Types -> Nat] : f = said
    BY <1>0
  <1>4. \A t \in Types : f[t] \in Nat /\ UpTo[t] = f[t]
    BY <1>3 DEF UpTo
  <1>5. UpTo = f
    BY <1>3, <1>4 DEF UpTo
  <1>6. Buffer(out) /\ Laid(out) /\ (Works => Small(out.recs))
    BY DEF IInv, InBuffer, Written
  <1>7. /\ Buffer(b) /\ ~b.hdr /\ Laid(b) /\ (Small(out.recs) => Small(b.recs))
        /\ CoversAll(answer, out.recs, f) => CoversAll(answer, b.recs, f)
    BY <1>0, <1>1, <1>6, Closing, Closes
  <1>8. (ok => Works) /\ (~ok => ~Works') /\ (Works' => Works)
    BY <1>2, Going
  <1>9. \A t \in Types : f[t] = said'[t] - (IF todo'.type = t THEN todo'.left ELSE 0)
    BY <1>3, <1>4
  <1>10. PICK a, o : a = answer' /\ o = out'
    OBVIOUS
  <1>11. /\ UNCHANGED <<serial, asked>> /\ phase' # "params" /\ said' \in [Types -> Nat]
         /\ (todo'.left > 0 => phase' \in {"serving", "undefined"})
         /\ todo'.left <= said'[todo'.type]
    <2>1. f[todo.type] \in Nat
      BY DEF IInv, Counts
    <2> QED
      BY <1>0, <1>2, <1>3, <2>1 DEF GoesOn
  <1>12. phase' = "reading" => o.recs = <<>> /\ ~gone'
    <2>1. ASSUME phase' = "reading" PROVE ok = TRUE
      BY <1>2, <2>1 DEF GoesOn
    <2>2. ASSUME ok = TRUE PROVE o.recs = <<>> /\ ~gone'
      BY <1>2, <1>8, <1>10, <2>2, LaidEmpty DEF Goes, Works
    <2> QED
      BY <2>1, <2>2
  <1>13. AllFit(answer)
    BY DEF Intact
  <1>14. CASE ok = FALSE
    <2>1. o = b /\ a = answer /\ ~Works'
      BY <1>2, <1>8, <1>10, <1>14 DEF Goes
    <2>2. AllFit(a) /\ Laid(o)
      BY <1>7, <1>13, <2>1
    <2> QED
      BY <1>9, <1>10, <1>11, <1>12, <2>1, <2>2, SpokenStep
  <1>15. CASE ok = TRUE
    <2>1. o = Empty /\ Works /\ answer' = answer \o (l \o EndRecord(close))
      BY <1>2, <1>8, <1>10, <1>15 DEF Goes
    <2>2. AllFit(l) /\ l \in Seq(Reply)
      BY <1>0, <1>1, <1>6, <1>7, <2>1, LeavingFits
    <2>3. PICK m \in Seq(Reply) : m = answer \o l
      BY <1>0, <2>2, ConcatProperties
    <2>4. AllFit(m)
      BY <1>0, <1>13, <2>2, <2>3, MoreFit
    <2>5. CoversAll(answer, out.recs, UpTo) => CoversAll(m, <<>>, f)
      <3>1. b.recs \in Seq(Packed)
        BY <1>7 DEF Buffer
      <3>2. CoversAll(answer, b.recs, f) => CoversAll(m, <<>>, f)
        BY <1>0, <1>1, <2>3, <3>1, CoversSent
      <3> QED
        BY <1>5, <1>7, <3>2
    <2>6. AllFit(a) /\ (CoversAll(m, <<>>, f) => CoversAll(a, <<>>, f))
      <3>1. CASE close = FALSE
        <4>1. l \o EndRecord(close) = l
          BY <2>2, <3>1 DEF EndRecord
        <4>2. a = m
          BY <1>10, <2>1, <2>3, <4>1
        <4> QED
          BY <2>4, <4>2
      <3>2. CASE close = TRUE
        <4>1. PICK x : x = End
          OBVIOUS
        <4>2. /\ x \in Reply /\ x.serial = serial /\ x.type \notin Types
              /\ x.len = 8 /\ x.pad = 0
          BY <1>0, <4>1, Sizes DEF End, Reply, Types
        <4>3. (x.len + x.pad) % 8 = 0 /\ x.len <= MaxLength /\ x.serial <= serial
          BY <1>0, <4>2, Sizes
        <4>4. AllFit(<<x>>) /\ <<x>> \in Seq(Reply)
          BY <4>2, <4>3, OneFits
        <4>5. (answer \o l) \o <<x>> = answer \o (l \o <<x>>)
          BY <1>0, <2>2, <4>4, ConcatAssociative
        <4>6. a = m \o <<x>>
          BY <1>10, <2>1, <2>3, <3>2, <4>1, <4>5 DEF EndRecord
        <4>7. f \in [Types -> Int]
          OBVIOUS
        <4>8. CoversAll(m, <<>>, f) => CoversAll(m \o <<x>>, <<>>, f)
          BY <1>0, <4>2, <4>7, CoversPast
        <4>9. AllFit(m \o <<x>>)
          BY <2>4, <4>4, MoreFit
        <4> QED
          BY <4>6, <4>8, <4>9
      <3> QED
        BY <3>1, <3>2
    <2>7. CoversAll(answer, out.recs, UpTo) => CoversAll(a, o.recs, f)
      BY <2>1, <2>5, <2>6, LaidEmpty
    <2>8. Laid(o) /\ Small(o.recs)
      BY <2>1, LaidEmpty
    <2> QED
      BY <1>8, <1>9, <1>10, <1>11, <1>12, <2>6, <2>7, <2>8, SpokenStep
  <1> QED
    BY <1>14, <1>15

(* Only a call of the script leaves something to send.                     *)
LEMMA NothingLeft ==
    ASSUME IInv, Written, phase \notin {"serving", "undefined"}
    PROVE  todo.left = 0
  <1>1. PICK left \in Nat : left = todo.left
    BY DEF IInv, Counts
  <1>2. ~(left > 0)
    BY <1>1 DEF Written
  <1> QED
    BY <1>1, <1>2

(* The end of a script and of its request                                  *)
LEMMA EndIntact ==
    ASSUME IInv, Typed, Order, Written, Intact,
           \/ \E ok \in BOOLEAN : Flush(ok) \/ FinishEarly(ok) \/ Deactivate(ok) \/ FinishRequest(ok)
           \/ ScriptEnds \/ FinishedBefore
    PROVE  Written' /\ Intact'
  <1>1. phase \in {"draining", "finishing"} => todo.left = 0
    BY NothingLeft
  <1>2. ASSUME NEW ok \in BOOLEAN, Flush(ok) PROVE Written' /\ Intact'
    <2>1. /\ Flushed(FALSE, ok, "serving") /\ UNCHANGED <<todo, said, serial, asked>>
          /\ Serving /\ todo.left = 0 /\ (open' => open)
      BY <1>2 DEF Flush, Calls, Serving, input
    <2> QED
      BY <2>1, FlushedIntact
  <1>3. ASSUME NEW ok \in BOOLEAN, FinishEarly(ok) PROVE Written' /\ Intact'
    <2>1. /\ Flushed(TRUE, ok, "serving") /\ UNCHANGED <<todo, said, serial, asked>>
          /\ Serving /\ todo.left = 0 /\ (open' => open)
      BY <1>3 DEF FinishEarly, Calls, Serving
    <2> QED
      BY <2>1, FlushedIntact
  <1>4. ASSUME NEW ok \in BOOLEAN, Deactivate(ok) PROVE Written' /\ Intact'
    <2>1. /\ Flushed(FALSE, ok, "finishing") /\ UNCHANGED <<todo, said, serial, asked>>
          /\ Serving /\ todo.left = 0 /\ (open' => open)
      BY <1>1, <1>4 DEF Deactivate, Serving, input
    <2> QED
      BY <2>1, FlushedIntact
  <1>5. ASSUME NEW ok \in BOOLEAN, FinishRequest(ok) PROVE Written' /\ Intact'
    <2>1. PICK p : p = IF Stays(ok) THEN "reading" ELSE "accept"
      OBVIOUS
    <2>2. /\ Flushed(TRUE, ok, p) /\ UNCHANGED <<todo, said, serial, asked>>
          /\ Serving /\ todo.left = 0 /\ (open' => open)
      BY <1>1, <1>5, <2>1 DEF FinishRequest, Serving
    <2>3. p # "params" /\ (p = "reading" => ok)
      BY <2>1 DEF Stays, KeepAfter
    <2> QED
      BY <2>2, <2>3, FlushedIntact
  <1>6. CASE ScriptEnds
    <2>1. /\ UNCHANGED <<gone, out, todo, said, answer, serial, asked>> /\ (open' => open)
          /\ phase = "serving" /\ phase' = "draining" /\ todo.left = 0
      BY <1>6 DEF ScriptEnds, input, output
    <2> QED
      BY <2>1, MuteStep
  <1>7. CASE FinishedBefore
    <2>1. /\ UNCHANGED <<gone, out, todo, said, answer, serial, asked>> /\ (open' => open)
          /\ phase = "finishing" /\ phase' = "accept" /\ todo.left = 0
      BY <1>1, <1>7 DEF FinishedBefore, input, output
    <2> QED
      BY <2>1, MuteStep
  <1> QED
    BY <1>2, <1>3, <1>4, <1>5, <1>6, <1>7

-----------------------------------------------------------------------------
(* A request is sent: what was said before is no longer told of.           *)
LEMMA AskIntact ==
    ASSUME IInv, Typed, Order, Written, Intact, NEW r, Sends(r),
           \/ /\ phase = "accept" /\ phase' = "reading" /\ out' = Empty /\ gone' = FALSE
           \/ /\ UNCHANGED <<phase, open, gone, out>>
              /\ Serving \/ phase = "reading"
    PROVE  Written' /\ Intact'
  <1>1. serial \in Nat /\ asked \in Nat /\ serial <= asked /\ said \in [Types -> Nat]
    BY DEF Typed, Numbers, Order, Written
  <1>2. /\ asked' = asked + 1 /\ answer' = <<>> /\ UNCHANGED <<todo, serial>>
        /\ said' = said \/ (~Serving /\ said' = [type \in Types |-> 0])
    BY DEF Sends
  <1>3. said' \in [Types -> Nat]
    BY <1>1, <1>2
  <1>4. PICK type \in Types, left \in Nat : type = todo.type /\ left = todo.left
    BY DEF IInv, Counts
  <1>5. ~Serving => left = 0
    BY <1>4, NothingLeft DEF Serving
  <1>6. todo'.left <= said'[todo'.type]
    <2>1. said'[type] \in Nat
      BY <1>3
    <2>2. CASE said' = said
      BY <1>2, <1>4, <2>2 DEF Written
    <2>3. CASE said' # said
      BY <1>2, <1>4, <1>5, <2>1, <2>3
    <2> QED
      BY <2>2, <2>3
  <1>7. Laid(out)' /\ (Works' => Small(out.recs)')
    <2>1. CASE out' = Empty
      <3>1. PICK o : o = out' /\ o = Empty
        BY <2>1
      <3>2. Laid(o) /\ Small(o.recs)
        BY <3>1, LaidEmpty
      <3> QED
        BY <3>1, <3>2 DEF Laid, Small, Top
    <2>2. CASE UNCHANGED <<open, gone, out>>
      BY <2>2 DEF Written, Laid, Small, Top, Works
    <2> QED
      BY <2>1, <2>2
  <1>8. todo'.left > 0 => phase' \in {"serving", "undefined"}
    <2>1. CASE phase = "accept"
      <3>1. left = 0
        BY <1>4, <2>1, NothingLeft
      <3> QED
        BY <1>2, <1>4, <3>1
    <2>2. CASE phase' = phase
      BY <1>2, <2>2 DEF Written
    <2> QED
      BY <2>1, <2>2
  <1>9. phase' \in {"reading", "params"} => out'.recs = <<>> /\ ~gone'
    BY LaidEmpty DEF Written
  <1>10. Written'
    BY <1>3, <1>6, <1>7, <1>8, <1>9 DEF Written
  <1>11. asked' # serial' /\ phase' # "params"
    BY <1>1, <1>2 DEF Serving
  <1>12. AllFit(answer)'
    BY <1>2 DEF AllFit
  <1> QED
    BY <1>10, <1>11, <1>12 DEF Intact, Telling

(* It sends a request, or hangs up.                                        *)
LEMMA WebServerIntact ==
    ASSUME IInv, Typed, Order, Written, Intact, WebServer PROVE Written' /\ Intact'
  <1>1. CASE HangUp
    <2>1. /\ UNCHANGED <<gone, out, todo, said, answer, serial, asked>> /\ (open' => open)
          /\ phase' = phase
      BY <1>1 DEF HangUp, conn, output
    <2> QED
      BY <2>1, MuteStep DEF Written
  <1>2. ASSUME NEW r \in Requests, Connect(r) PROVE Written' /\ Intact'
    <2>1. phase = "accept" /\ phase' = "reading" /\ out' = Empty /\ gone' = FALSE /\ Sends(r)
      BY <1>2 DEF Connect
    <2> QED
      BY <2>1, AskIntact
  <1>3. ASSUME NEW r \in Requests, AskAgain(r) PROVE Written' /\ Intact'
    <2>1. /\ UNCHANGED <<phase, open, gone, out>> /\ Sends(r)
          /\ Serving \/ phase = "reading"
      BY <1>3 DEF AskAgain
    <2> QED
      BY <2>1, AskIntact
  <1> QED
    BY <1>1, <1>2, <1>3 DEF WebServer

(* Begin: the request is a later one than any answered before.             *)
LEMMA BeginIntact ==
    ASSUME IInv, Typed, Order, Written, Intact, Begin PROVE Written' /\ Intact'
  <1>1. /\ stream \in Seq(Piece) /\ stream # <<>> /\ stream[1].type = "BEGIN"
        /\ serial' = stream[1].serial
        /\ phase' = "params" /\ UNCHANGED <<open, gone, out, todo, said, answer>>
        /\ phase = "reading"
    BY DEF Begin, HasAll, InStep, Front, output, Typed, InputOK
  <1>2. 1 \in Asks(stream)
    BY <1>1 DEF Asks
  <1>3. serial < serial' /\ serial \in Nat /\ serial' \in Nat
    BY <1>1, <1>2 DEF Order, Typed, Numbers
  <1>4. ASSUME NEW i \in DOMAIN answer
        PROVE  answer[i].serial <= serial' /\ answer[i].serial # serial'
    <2>1. PICK k \in Nat : k = answer[i].serial
      <3>1. answer[i] \in Reply
        BY DEF Order
      <3> QED
        BY <3>1 DEF Reply
    <2>2. k <= serial
      BY <2>1 DEF Intact, AllFit
    <2> QED
      BY <1>3, <2>1, <2>2
  <1>5. AllFit(answer)'
    BY <1>1, <1>4 DEF Intact, AllFit
  <1>6. Written'
    BY <1>1 DEF Written, Laid, Small, Top, Works
  <1>7. ~Telling'
    BY <1>1 DEF Telling, Serving
  <1> QED
    BY <1>1, <1>4, <1>5, <1>6, <1>7 DEF Intact

(* Serve: nothing of it has been answered.                                 *)
LEMMA ServeIntact ==
    ASSUME IInv, Typed, Order, Written, Intact, Serve PROVE Written' /\ Intact'
  <1>1. /\ phase = "params" /\ phase' = "serving" /\ said' = [type \in Types |-> 0]
        /\ UNCHANGED <<open, gone, serial, out, todo, answer>>
    BY DEF Serve
  <1>2. PICK type \in Types, left \in Nat : type = todo.type /\ left = todo.left
    BY DEF IInv, Counts
  <1>3. left = 0
    BY <1>1, <1>2, NothingLeft
  <1>4. PICK zero \in [Types -> Nat] : zero = said' /\ \A t \in Types : zero[t] = 0
    BY <1>1
  <1>5. Written'
    <2>1. Laid(out)' /\ (Works' => Small(out.recs)')
      BY <1>1 DEF Written, Laid, Small, Top, Works
    <2>2. said' \in [Types -> Nat] /\ todo'.left <= said'[todo'.type]
      BY <1>1, <1>2, <1>3, <1>4
    <2> QED
      BY <1>1, <2>1, <2>2 DEF Written
  <1>6. \A t \in Types : UpTo'[t] = 0
    BY <1>1, <1>2, <1>3, <1>4 DEF UpTo
  <1>7. PICK s \in Seq(Reply) : s = answer
    BY DEF Order
  <1>8. s \o Leaving(out.recs) = s
    <2>1. out.recs = <<>> /\ <<>> \in Seq(Packed) /\ serial \in Nat
      BY <1>1 DEF Written, Typed, Numbers
    <2>2. Leaving(<<>>) \in Seq(Reply) /\ Len(Leaving(<<>>)) = Len(<<>>)
      BY <2>1, LeavingIs
    <2> QED
      BY <2>1, <2>2
  <1>9. \A t \in Types : Covers(s, t, serial, 0)
    <2>1. \A i \in DOMAIN s : s[i].serial # serial
      BY <1>1, <1>7 DEF Intact
    <2> QED
      BY <2>1, CoversNone
  <1>10. Leaving(out.recs)' = Leaving(out.recs)
    BY <1>1 DEF Leaving
  <1>11. CoversAll(answer, out.recs, UpTo)'
    BY <1>1, <1>6, <1>7, <1>8, <1>9, <1>10 DEF CoversAll
  <1>12. AllFit(answer)'
    BY <1>1 DEF Intact, AllFit
  <1> QED
    BY <1>1, <1>5, <1>11, <1>12 DEF Intact

(* The answer to FCGI_GET_VALUES is a whole record of no request.          *)
LEMMA ValuesIntact ==
    ASSUME IInv, Typed, Order, Written, Intact, GetValues PROVE Written' /\ Intact'
  <1>1. /\ phase = "reading" /\ phase' = "accept" /\ open' = FALSE
        /\ UNCHANGED <<serial, out, todo, said>>
        /\ answer' \in {answer, Append(answer, Values)}
    BY DEF GetValues, Dropped
  <1>2. PICK s \in Seq(Reply) : s = answer
    BY DEF Order
  <1>3. serial \in Nat /\ todo.left = 0 /\ AllFit(s)
    BY <1>1, <1>2, NothingLeft DEF Typed, Numbers, Intact
  <1>4. PICK x : x = Values
    OBVIOUS
  <1>5. x \in Reply /\ x.len = 8 /\ x.pad = 0 /\ x.serial = 0
    BY <1>4, Sizes DEF Values, Reply
  <1>6. (x.len + x.pad) % 8 = 0 /\ x.len <= MaxLength /\ x.serial <= serial
    BY <1>3, <1>5, Sizes
  <1>7. AllFit(<<x>>) /\ <<x>> \in Seq(Reply)
    BY <1>5, <1>6, OneFits
  <1>8. Append(s, x) = s \o <<x>>
    BY <1>5, AppendIsConcat
  <1>9. AllFit(Append(s, x))
    BY <1>3, <1>7, <1>8, MoreFit
  <1>10. PICK a : a = answer' /\ AllFit(a)
    BY <1>1, <1>2, <1>3, <1>4, <1>9
  <1>11. AllFit(answer)'
    BY <1>1, <1>10 DEF AllFit
  <1>12. Laid(out)'
    BY <1>1 DEF Written, Laid, Top
  <1>13. Written'
    BY <1>1, <1>3, <1>12 DEF Written, Works
  <1> QED
    BY <1>1, <1>11, <1>13 DEF Intact, Telling, Works

(* The rest writes nothing.                                                *)
LEMMA ReadIntact ==
    ASSUME IInv, Typed, Written, Intact,
           SkipStdin \/ Params \/ Refuse \/ Read \/ UNCHANGED vars
    PROVE  Written' /\ Intact'
  <1>1. CASE Refuse
    <2>1. /\ UNCHANGED <<gone, out, todo, said, answer, serial, asked>>
          /\ phase' = "accept" /\ open' = FALSE
          /\ phase \in {"reading", "params"}
      BY <1>1 DEF Refuse, Refused, Dropped, output
    <2>2. todo.left = 0
      BY <2>1, NothingLeft
    <2> QED
      BY <2>1, <2>2, MuteStep
  <1>2. CASE SkipStdin \/ Params \/ Read \/ UNCHANGED vars
    <2>1. UNCHANGED <<gone, out, todo, said, answer, serial, asked, phase, open>>
      BY <1>2 DEF SkipStdin, Params, Read, ReadPost, ReadFile, ReadHeader, ReadHeaderFails,
                  ReadData, ReadDataFails, vars, conn, input, output
    <2> QED
      BY <2>1, MuteStep DEF Written
  <1> QED
    BY <1>1, <1>2

(* fcgi_write                                                              *)
LEMMA WriteIntact ==
    ASSUME IInv, Typed, Order, Written, Intact, Write PROVE Written' /\ Intact'
  <1>1. ASSUME NEW type \in Types, NEW len \in Lengths[type],
               \/ WriteFits(type, len)
               \/ \E ok \in BOOLEAN : WriteSpills(type, len, ok)
               \/ WriteDirect(type, len)
        PROVE  Written' /\ Intact'
    <2>1. len \in Nat
      BY ScriptAssumption
    <2> QED
      BY <1>1, <2>1, FitsIntact, SpillsIntact, DirectIntact
  <1>2. PICK left \in Nat : left = todo.left
    BY DEF IInv, Counts
  <1>3. MaxLength \in Nat /\ MaxLength >= 9 /\ MaxLength % 8 = 7
    BY Sizes, BufferAssumption DEF Header
  <1>4. ASSUME NEW ok \in BOOLEAN, DirectChunk(ok) PROVE Written' /\ Intact'
    <2>1. PICK len \in Nat : len = MaxLength - 7 /\ len % 8 = 0 /\ len <= MaxLength
      BY <1>3
    <2>2. phase = "serving" /\ left > MaxLength /\ Direction(len, ok, 0)
      BY <1>2, <1>4, <2>1 DEF DirectChunk, Header
    <2>3. todo.left > 0 /\ len + 0 <= todo.left
      BY <1>2, <1>3, <2>1, <2>2
    <2> QED
      BY <2>1, <2>2, <2>3, DirectionIntact
  <1>5. ASSUME NEW ok \in BOOLEAN, DirectLast(ok) PROVE Written' /\ Intact'
    <2>1. PICK rest \in Nat : rest = left % 8 /\ rest <= 7
      BY <1>2
    <2>2. phase = "serving" /\ left \in 1 .. MaxLength /\ Direction(left - rest, ok, rest)
      BY <1>2, <1>5, <2>1 DEF DirectLast, RestAligned, Header
    <2>3. PICK len \in Nat : len = left - rest /\ len % 8 = 0 /\ len <= MaxLength
      BY <1>3, <2>1, <2>2
    <2>4. len + rest = todo.left /\ todo.left > 0 /\ len + rest <= todo.left
      <3>1. len = left - rest /\ left > 0
        BY <2>2, <2>3
      <3>2. len + rest = left
        BY <3>1
      <3> QED
        BY <1>2, <3>1, <3>2
    <2>5. Direction(len, ok, rest)
      BY <2>2, <2>3
    <2> QED
      BY <2>1, <2>2, <2>3, <2>4, <2>5, DirectionIntact
  <1> QED
    BY <1>1, <1>4, <1>5 DEF Write

(* Every step preserves it.                                                *)
LEMMA NextIntact ==
    IInv /\ Typed /\ Order /\ Written /\ Intact /\ [Next]_vars => Written' /\ Intact'
  <1> SUFFICES ASSUME IInv, Typed, Order, Written, Intact, [Next]_vars
               PROVE  Written' /\ Intact'
    OBVIOUS
  <1> QED
    BY WebServerIntact, BeginIntact, ServeIntact, ValuesIntact, ReadIntact, WriteIntact,
       EndIntact DEF Next

(* So it is an invariant.                                                  *)
LEMMA WrittenIntact == Spec => [](IInv /\ Typed /\ Order /\ Written /\ Intact)
  <1>1. Init => IInv /\ Typed /\ Order /\ Answers /\ Written /\ Intact
    BY InitIInv, InitTyped, InitAnswers, InitIntact
  <1>2. IInv /\ Typed /\ Order /\ Answers /\ Written /\ Intact /\ [Next]_vars
        => (IInv /\ Typed /\ Order /\ Answers /\ Written /\ Intact)'
    BY NextIInv, NextTyped, NextAnswers, NextIntact
  <1> QED
    BY <1>1, <1>2, PTL DEF Spec

(* Nothing a script hands over is lost, repeated or out of order on a      *)
(* connection that works, whichever branch of fcgi_write takes it and      *)
(* however the portions fall: what the web server has and what is packed   *)
(* are each stream up to what the call in progress has still to send.      *)
THEOREM WholeOutput == Spec => []OutputIntact
  BY WrittenIntact, IntactImplies, PTL

(* The web server can find every record: they lie end to end from one      *)
(* multiple of 8 to the next, and none is longer than its header can say.  *)
THEOREM WellFramed == Spec => []Framed
  BY WrittenIntact, IntactImplies, PTL

-----------------------------------------------------------------------------
(* In step.  While the connection works the unread stream is what is left  *)
(* of the request served, whole records up to its empty STDIN, and then one*)
(* whole request more if it has been asked.  It is the CONTENT_LENGTH that *)
(* tells the worker where in it the body ends, so the bytes taken and those*)
(* to come always add up to it.                                            *)

(* The bytes of the body that come behind each of its records              *)
Left(r) == CHOOSE left \in [0 .. Len(r.body) -> 0 .. r.content_length] : Tells(r, left)

(* Behind d others, the records of s are those of request q, number a.     *)
Ahead(s, q, a, d) ==
    /\ Len(s) = d + Count(q)
    /\ \A j \in 1 .. Count(q) : s[d + j] = Nth(q, a, j)

(* s is what is left of request r, number k, from its p-th record on, d of *)
(* them, and then all of the request after it, number a, if one was sent.  *)
Rows(s, r, k, a, p, d) ==
    /\ Len(s) >= d
    /\ \A j \in 1 .. d : s[j] = Nth(r, k, p - 1 + j)
    /\ \/ a = k /\ Len(s) = d
       \/ a > k /\ \E q \in Requests : Ahead(s, q, a, d)

(* As many as the request has from there                                   *)
Lined(s, r, k, a, p) ==
    p \in 1 .. Count(r) + 1 /\ Rows(s, r, k, a, p, Count(r) + 1 - p)

(* Where in its body the request being served is: the bytes taken are those*)
(* the script has, with those to come they are the CONTENT_LENGTH, and off *)
(* agrees with what is left of the record begun.  A body in a file leaves  *)
(* the empty STDIN alone until sapi_deactivate asks for what was not read. *)
Body(p) ==
    /\ req.kind = "request" /\ p >= 4
    /\ IF req.filed
       THEN /\ in_len = 0 /\ off = 0 /\ n = 0 /\ req.body = <<>>
            /\ phase = "serving" => p = 4
            /\ phase = "serving" \/ p = 5 => want = 0
       ELSE /\ p <= Count(req)
            /\ taken = read_post_bytes + n
            /\ phase = "draining" => read_post_bytes + want = req.content_length
            /\ phase = "finishing" => read_post_bytes = req.content_length
            /\ IF in_len = 0
               THEN off = 0 /\ taken + Left(req)[p - 4] = req.content_length
               ELSE /\ p - 3 \in DOMAIN req.body
                    /\ in_len <= req.body[p - 3].len
                    /\ off = Header + req.body[p - 3].len - in_len
                    /\ in_pad = req.body[p - 3].pad
                    /\ taken + in_len + Left(req)[p - 3] = req.content_length

(* The p-th record of the request is the next to be read.                  *)
Place(p) ==
    /\ Lined(stream, req, serial, asked, p)
    /\ phase = "reading" =>
          /\ in_len = 0 /\ off = 0
          /\ p = Count(req) + 1 \/ (p = Count(req) /\ req.kind = "request")
    /\ phase = "params" =>
          /\ in_len = 0 /\ off = 0 /\ p \in 2 .. 3
          /\ req.kind = "request" /\ asked = serial
    /\ Serving => Body(p)

(* The connection works, and there is such a record.                       *)
Live == open /\ ~eof /\ ~gone
Kept == Live => \E p \in 1 .. Count(req) + 1 : Place(p)

(* KnowsLength, record by record                                           *)
LEMMA LeftIs ==
    ASSUME KnowsLength, NEW r \in Requests, r.kind = "request"
    PROVE  /\ Len(r.body) \in Nat /\ DOMAIN r.body = 1 .. Len(r.body)
           /\ r.content_length \in Nat
           /\ \A i \in 1 .. Len(r.body) :
                 /\ r.body[i].len \in Nat /\ r.body[i].len > 0 /\ r.body[i].pad \in Nat
                 /\ Left(r)[i - 1] = r.body[i].len + Left(r)[i]
           /\ \A i \in 0 .. Len(r.body) : Left(r)[i] \in Nat
           /\ Left(r)[Len(r.body)] = 0
           /\ Left(r)[0] = IF r.filed THEN 0 ELSE r.content_length
           /\ r.filed => Len(r.body) = 0
  <1>1. /\ r.content_length \in Nat
        /\ r.body \in Seq([len : Nat \ {0}, pad : Nat])
    BY RequestAssumption DEF Request
  <1>2. Len(r.body) \in Nat /\ DOMAIN r.body = 1 .. Len(r.body)
    BY <1>1
  <1>3. \A i \in 1 .. Len(r.body) : r.body[i] \in [len : Nat \ {0}, pad : Nat]
    BY <1>1, <1>2, ElementOfSeq
  <1>4. \A i \in 1 .. Len(r.body) :
            r.body[i].len \in Nat /\ r.body[i].len > 0 /\ r.body[i].pad \in Nat
    BY <1>3
  <1>5. Left(r) \in [0 .. Len(r.body) -> 0 .. r.content_length] /\ Tells(r, Left(r))
    BY DEF KnowsLength, Left
  <1>6. \A i \in 0 .. Len(r.body) : Left(r)[i] \in Nat
    BY <1>1, <1>5
  <1>7. ASSUME r.filed PROVE Len(r.body) = 0
    <2>1. ASSUME Len(r.body) # 0 PROVE FALSE
      <3>1. 1 \in 1 .. Len(r.body) /\ 1 \in 0 .. Len(r.body)
        BY <1>2, <2>1
      <3>2. Left(r)[1 - 1] = r.body[1].len + Left(r)[1]
        BY <1>2, <1>5, <3>1 DEF Tells
      <3>3. Left(r)[0] = 0
        BY <1>5, <1>7 DEF Tells
      <3> QED
        BY <1>4, <1>6, <3>1, <3>2, <3>3
    <2> QED
      BY <2>1
  <1> QED
    BY <1>1, <1>2, <1>4, <1>5, <1>6, <1>7 DEF Tells

-----------------------------------------------------------------------------
(* The stream, record by record.                                           *)

(* A stream whose first record has been read                               *)
LEMMA TailIs ==
    ASSUME NEW s \in Seq(Piece), s # <<>>
    PROVE  /\ Len(s) \in Nat /\ Len(s) >= 1
           /\ Tail(s) \in Seq(Piece) /\ Len(Tail(s)) = Len(s) - 1
           /\ \A j \in 1 .. Len(s) - 1 : Tail(s)[j] = s[j + 1]
  OBVIOUS

(* The record at the front is the next one of the request, ...             *)
LEMMA LinedFront ==
    ASSUME NEW s \in Seq(Piece), NEW r \in Requests, NEW k \in Nat, NEW a \in Nat,
           NEW p \in Nat, p <= Count(r), Lined(s, r, k, a, p)
    PROVE  s # <<>> /\ s[1] = Nth(r, k, p) /\ Lined(Tail(s), r, k, a, p + 1)
  <1>1. PICK c \in Nat : c = Count(r)
    BY CountIs
  <1>2. PICK d \in Nat, f \in Nat : /\ d = c + 1 - p /\ p >= 1
                                     /\ f = c + 1 - (p + 1) /\ d = f + 1
    BY <1>1 DEF Lined
  <1>3. /\ Len(s) >= d /\ \A j \in 1 .. d : s[j] = Nth(r, k, p - 1 + j)
        /\ (a = k /\ Len(s) = d) \/ (a > k /\ \E q \in Requests : Ahead(s, q, a, d))
    BY <1>1, <1>2 DEF Lined, Rows
  <1>4. s # <<>>
    BY <1>2, <1>3
  <1>5. s[1] = Nth(r, k, p)
    <2>1. 1 \in 1 .. d /\ p - 1 + 1 = p
      BY <1>2
    <2> QED
      BY <1>3, <2>1
  <1>6. PICK t \in Seq(Piece), l \in Nat :
            /\ t = Tail(s) /\ l = Len(s) /\ Len(t) = l - 1
            /\ \A j \in 1 .. l - 1 : t[j] = s[j + 1]
    BY <1>4, TailIs
  <1>7. \A j \in 1 .. f : t[j] = Nth(r, k, p + 1 - 1 + j)
    <2> SUFFICES ASSUME NEW j \in 1 .. f PROVE t[j] = Nth(r, k, p + 1 - 1 + j)
      OBVIOUS
    <2>1. j \in 1 .. l - 1 /\ j + 1 \in 1 .. d /\ p - 1 + (j + 1) = p + 1 - 1 + j
      BY <1>2, <1>3, <1>6
    <2> QED
      BY <1>3, <1>6, <2>1
  <1>8. ASSUME NEW q \in Requests, Ahead(s, q, a, d) PROVE Ahead(t, q, a, f)
    <2>0. PICK e \in Nat : e = Count(q) /\ l = d + e
      BY <1>6, <1>8, CountIs DEF Ahead
    <2>1. \A j \in 1 .. e : t[f + j] = Nth(q, a, j)
      <3> SUFFICES ASSUME NEW j \in 1 .. e PROVE t[f + j] = Nth(q, a, j)
        OBVIOUS
      <3>1. f + j \in 1 .. l - 1 /\ f + j + 1 = d + j
        BY <1>2, <2>0
      <3>2. s[d + j] = Nth(q, a, j)
        BY <1>8, <2>0 DEF Ahead
      <3> QED
        BY <1>6, <3>1, <3>2
    <2> QED
      <3>1. Len(t) = f + e
        BY <1>2, <1>6, <2>0
      <3> QED
        BY <2>0, <2>1, <3>1 DEF Ahead
  <1>9. Lined(t, r, k, a, p + 1)
    <2>1. p + 1 \in 1 .. c + 1 /\ Len(t) >= f
      <3>1. p + 1 \in 1 .. c + 1
        BY <1>1, <1>2
      <3>2. l >= d /\ l - 1 >= f
        BY <1>2, <1>3, <1>6
      <3> QED
        BY <1>6, <3>1, <3>2
    <2>2. (a = k /\ Len(t) = f) \/ (a > k /\ \E q \in Requests : Ahead(t, q, a, f))
      BY <1>2, <1>3, <1>6, <1>8
    <2>3. Rows(t, r, k, a, p + 1, f)
      BY <1>7, <2>1, <2>2 DEF Rows
    <2> QED
      BY <1>1, <1>2, <2>1, <2>3 DEF Lined
  <1> QED
    BY <1>4, <1>5, <1>6, <1>9

(* ... behind the last it is the first of the next request, ...            *)
LEMMA LinedNext ==
    ASSUME NEW s \in Seq(Piece), NEW r \in Requests, NEW k \in Nat, NEW a \in Nat,
           NEW p, p = Count(r) + 1, Lined(s, r, k, a, p), s # <<>>
    PROVE  /\ a > k
           /\ \E q \in Requests : /\ s[1] = Nth(q, a, 1)
                                  /\ Lined(Tail(s), q, a, a, 2)
  <1>0. Count(r) + 1 - p = 0 /\ Count(r) \in Nat
    BY CountIs
  <1>1. (a = k /\ Len(s) = 0) \/ (a > k /\ \E q \in Requests : Ahead(s, q, a, 0))
    BY <1>0 DEF Lined, Rows
  <1>2. PICK q \in Requests : a > k /\ Ahead(s, q, a, 0)
    BY <1>1
  <1>3. PICK c \in Nat : c = Count(q) /\ c >= 1
    BY CountIs
  <1>4. Len(s) = c /\ \A j \in 1 .. c : s[0 + j] = Nth(q, a, j)
    BY <1>2, <1>3 DEF Ahead
  <1>5. PICK t \in Seq(Piece) : /\ t = Tail(s) /\ Len(t) = c - 1
                                /\ \A j \in 1 .. c - 1 : t[j] = s[j + 1]
    BY <1>4, TailIs
  <1>6. \A j \in 1 .. c - 1 : t[j] = Nth(q, a, 2 - 1 + j)
    <2> SUFFICES ASSUME NEW j \in 1 .. c - 1 PROVE t[j] = Nth(q, a, 2 - 1 + j)
      OBVIOUS
    <2>1. j + 1 \in 1 .. c /\ 0 + (j + 1) = j + 1 /\ 2 - 1 + j = j + 1
      BY <1>3
    <2> QED
      BY <1>4, <1>5, <2>1
  <1>7. Lined(t, q, a, a, 2)
    <2>1. c + 1 - 2 = c - 1 /\ 2 \in 1 .. c + 1 /\ c - 1 \in Nat
      BY <1>3
    <2>2. Rows(t, q, a, a, 2, c - 1)
      BY <1>5, <1>6, <2>1 DEF Rows
    <2> QED
      BY <1>3, <2>1, <2>2 DEF Lined
  <1>8. s[1] = Nth(q, a, 1)
    <2>1. 1 \in 1 .. c /\ 0 + 1 = 1
      BY <1>3
    <2> QED
      BY <1>4, <2>1
  <1> QED
    BY <1>2, <1>3, <1>5, <1>7, <1>8

(* ... and a request that is sent comes behind it all.                     *)
LEMMA LinedMore ==
    ASSUME NEW s \in Seq(Piece), NEW r \in Requests, NEW k \in Nat, NEW a \in Nat, a > k,
           NEW p \in Nat, Lined(s, r, k, k, p), NEW q \in Requests
    PROVE  Lined(s \o Records(q, a), r, k, a, p)
  <1>1. PICK c \in Nat, e \in Nat : c = Count(r) /\ e = Count(q)
    BY CountIs
  <1>2. PICK d \in Nat : d = c + 1 - p /\ p \in 1 .. c + 1
    BY <1>1 DEF Lined
  <1>3. Len(s) = d /\ \A j \in 1 .. d : s[j] = Nth(r, k, p - 1 + j)
    BY <1>1, <1>2 DEF Lined, Rows
  <1>4. PICK recs \in Seq(Piece) : /\ recs = Records(q, a) /\ Len(recs) = e
                                   /\ \A j \in 1 .. e : recs[j] = Nth(q, a, j)
    BY <1>1, RecordsInPlace
  <1>5. PICK t : t = s \o recs
    OBVIOUS
  <1>6. /\ Len(t) = d + e
        /\ \A i \in 1 .. d : t[i] = s[i]
        /\ \A i \in d + 1 .. d + e : t[i] = recs[i - d]
    <2>1. /\ Len(s \o recs) = Len(s) + Len(recs)
          /\ \A i \in 1 .. Len(s) : (s \o recs)[i] = s[i]
          /\ \A i \in Len(s) + 1 .. Len(s) + Len(recs) : (s \o recs)[i] = recs[i - Len(s)]
      BY JoinIs
    <2> QED
      BY <1>3, <1>4, <1>5, <2>1
  <1>7. \A j \in 1 .. e : t[d + j] = Nth(q, a, j)
    <2> SUFFICES ASSUME NEW j \in 1 .. e PROVE t[d + j] = Nth(q, a, j)
      OBVIOUS
    <2>1. d + j \in d + 1 .. d + e /\ d + j - d = j
      BY <1>2
    <2>2. t[d + j] = recs[j]
      BY <1>6, <2>1
    <2> QED
      BY <1>4, <2>2
  <1>8. Lined(t, r, k, a, p)
    <2>1. Ahead(t, q, a, d)
      BY <1>1, <1>6, <1>7 DEF Ahead
    <2>2. \A j \in 1 .. d : t[j] = Nth(r, k, p - 1 + j)
      BY <1>3, <1>6
    <2>3. Rows(t, r, k, a, p, d)
      <3>1. Len(t) >= d
        BY <1>6
      <3> QED
        BY <2>1, <2>2, <3>1 DEF Rows
    <2> QED
      BY <1>1, <1>2, <2>3 DEF Lined
  <1> QED
    BY <1>4, <1>5, <1>8

-----------------------------------------------------------------------------
(* Being in place is being so somewhere.                                   *)
LEMMA InPlace ==
    ASSUME NEW p \in Nat, Place(p)
    PROVE  Kept
  BY DEF Place, Lined, Kept

(* The same after a step                                                   *)
LEMMA InPlaceNext ==
    ASSUME NEW p \in Nat, Place(p)'
    PROVE  Kept'
  BY DEF Place, Lined, Kept

(* And the other way round                                                 *)
LEMMA PlaceIs ==
    ASSUME Typed, Kept, Live
    PROVE  \E p \in Nat : Place(p)
  <1>1. Count(req) \in Nat
    BY CountIs DEF Typed, Numbers
  <1> QED
    BY <1>1 DEF Kept

(* A step that leaves the connection alone keeps it.                       *)
LEMMA SamePlace ==
    ASSUME Kept, Live' => Live, phase' \in {phase, "undefined"},
           UNCHANGED <<req, serial, input, reading>>
    PROVE  Kept'
  <1> SUFFICES ASSUME Live', NEW p \in 1 .. Count(req) + 1, Place(p) PROVE Place(p)'
    BY DEF Kept
  <1> QED
    BY DEF Place, Body, Serving, input, reading

(* Initially there is none.                                                *)
LEMMA InitKept == Init => Kept
  BY DEF Init, Kept, Live

-----------------------------------------------------------------------------
(* The web server.                                                         *)
LEMMA ConnectKept ==
    ASSUME Typed, Order, NEW r \in Requests, Connect(r)
    PROVE  Kept'
  <1>0. /\ stream \in Seq(Piece) /\ off = 0 /\ stream = <<>>
        /\ req \in Requests /\ serial \in Nat /\ asked \in Nat /\ serial <= asked
    BY DEF Typed, InputOK, Numbers, Order, Connect
  <1>1. /\ phase' = "reading" /\ in_len' = 0 /\ Sends(r)
        /\ UNCHANGED <<req, serial, off>> /\ asked' = asked + 1
    BY DEF Connect, Sends
  <1> SUFFICES ASSUME Live' PROVE Kept'
    BY DEF Kept
  <1>2. stream' = stream \o Records(r, asked + 1)
    BY <1>1 DEF Sends, Live
  <1>3. PICK p \in Nat : p = Count(req) + 1 /\ Count(req) + 1 - p = 0
    BY <1>0, CountIs
  <1>4. Lined(stream, req, serial, serial, p)
    <2>1. Rows(stream, req, serial, serial, p, 0)
      BY <1>0 DEF Rows
    <2>2. p \in 1 .. Count(req) + 1
      BY <1>0, <1>3, CountIs
    <2> QED
      BY <1>3, <2>1, <2>2 DEF Lined
  <1>5. Lined(stream', req, serial, asked + 1, p)
    <2>1. asked + 1 \in Nat /\ asked + 1 > serial
      BY <1>0
    <2> QED
      BY <1>0, <1>2, <1>4, <2>1, LinedMore
  <1>6. Place(p)'
    BY <1>0, <1>1, <1>3, <1>5 DEF Place, Serving
  <1> QED
    BY <1>6, InPlaceNext

(* AskAgain: the next request comes behind what is left of the last.       *)
LEMMA AskKept ==
    ASSUME Typed, Order, Kept, NEW r \in Requests, AskAgain(r)
    PROVE  Kept'
  <1>0. /\ stream \in Seq(Piece) /\ req \in Requests /\ serial \in Nat /\ asked \in Nat
    BY DEF Typed, InputOK, Numbers
  <1>1. /\ Serving \/ phase = "reading"
        /\ asked = serial /\ asked' = asked + 1 /\ Sends(r) /\ ~eof
        /\ UNCHANGED <<phase, open, gone, req, serial, off, in_len, in_pad, reading>>
        /\ Serving => taken' = taken
    BY DEF AskAgain, Answered, Sends
  <1> SUFFICES ASSUME Live' PROVE Kept'
    BY DEF Kept
  <1>2. stream' = stream \o Records(r, asked + 1)
    BY <1>1 DEF Sends, Live
  <1>3. PICK p \in Nat : Place(p)
    BY <1>1, PlaceIs DEF Live
  <1>4. Lined(stream', req, serial, asked + 1, p)
    <2>1. asked + 1 \in Nat /\ asked + 1 > serial /\ Lined(stream, req, serial, serial, p)
      BY <1>0, <1>1, <1>3 DEF Place
    <2> QED
      BY <1>0, <1>2, <2>1, LinedMore
  <1>5. Place(p)'
    BY <1>1, <1>3, <1>4 DEF Place, Body, Serving, reading
  <1> QED
    BY <1>5, InPlaceNext

(* WebServer, HangUp included                                              *)
LEMMA WebServerKept ==
    ASSUME Typed, Order, Kept, WebServer PROVE Kept'
  BY ConnectKept, AskKept DEF WebServer, HangUp, Kept, Live

-----------------------------------------------------------------------------
(* A request is read.                                                      *)
LEMMA FrontAt ==
    ASSUME Typed, NEW p \in Nat, Lined(stream, req, serial, asked, p), p <= Count(req)
    PROVE  /\ p \in 1 .. Count(req) /\ stream # <<>> /\ Front = Nth(req, serial, p)
           /\ Consume => Lined(stream', req, serial, asked, p + 1) /\ off' = 0
           /\ Shaped(Front, req, serial, p)
  <1>0. /\ stream \in Seq(Piece) /\ req \in Requests /\ serial \in Nat /\ asked \in Nat
    BY DEF Typed, InputOK, Numbers
  <1>1. p \in 1 .. Count(req)
    <2>1. Count(req) \in Nat
      BY <1>0, CountIs
    <2> QED
      BY <2>1 DEF Lined
  <1>2. stream # <<>> /\ stream[1] = Nth(req, serial, p)
        /\ Lined(Tail(stream), req, serial, asked, p + 1)
    BY <1>0, LinedFront
  <1>3. Shaped(Nth(req, serial, p), req, serial, p)
    BY <1>0, <1>1, NthIs
  <1> QED
    BY <1>1, <1>2, <1>3 DEF Front, Consume

(* Between two requests the record at the front is the empty STDIN that    *)
(* the last one ends with, or begins the next.                             *)
LEMMA FrontBetween ==
    ASSUME Typed, NEW p \in Nat, Place(p), phase = "reading", stream # <<>>
    PROVE  \/ /\ p = Count(req)
              /\ Front.serial = serial /\ Front.type = "STDIN" /\ Front.len = 0
           \/ /\ p = Count(req) + 1 /\ asked > serial
              /\ \E q \in Requests :
                    /\ Front.type = First(q) /\ Front.request = q /\ Front.serial = asked
                    /\ Lined(Tail(stream), q, asked, asked, 2)
  <1>0. /\ stream \in Seq(Piece) /\ req \in Requests /\ serial \in Nat /\ asked \in Nat
        /\ Count(req) \in Nat
    BY CountIs DEF Typed, InputOK, Numbers
  <1>1. Lined(stream, req, serial, asked, p)
        /\ (p = Count(req) + 1 \/ (p = Count(req) /\ req.kind = "request"))
    BY DEF Place
  <1>2. CASE p = Count(req) + 1
    <2>1. PICK q \in Requests : /\ asked > serial /\ stream[1] = Nth(q, asked, 1)
                                /\ Lined(Tail(stream), q, asked, asked, 2)
      BY <1>0, <1>1, <1>2, LinedNext
    <2>2. 1 \in 1 .. Count(q)
      BY CountIs
    <2>3. Shaped(Front, q, asked, 1)
      BY <1>0, <2>1, <2>2, NthIs DEF Front
    <2> QED
      BY <1>2, <2>1, <2>3 DEF Shaped, Made
  <1>3. CASE p = Count(req) /\ req.kind = "request"
    <2>1. Shaped(Front, req, serial, p)
      BY <1>0, <1>1, <1>3, FrontAt
    <2>2. Len(req.body) \in Nat /\ p = Len(req.body) + 4 /\ p >= 4
      BY <1>0, <1>3, CountIs
    <2>3. Front.type = "STDIN" /\ Front.len = 0 /\ Front.serial = serial
      BY <1>3, <2>1, <2>2 DEF Shaped, Made
    <2> QED
      BY <1>3, <2>3
  <1> QED
    BY <1>1, <1>2, <1>3

(* What a request begins with is no STDIN.                                 *)
LEMMA FirstIs ==
    ASSUME NEW q \in Requests
    PROVE  First(q) # "STDIN" /\ (First(q) = "BEGIN" => q.kind = "request")
  <1>1. q.kind \in {"request", "values", "other"}
    BY RequestAssumption DEF Request
  <1> QED
    BY <1>1 DEF First

(* The empty STDIN left of the request before is skipped.                  *)
LEMMA SkipKept ==
    ASSUME Typed, Kept, SkipStdin
    PROVE  Kept'
  <1>0. req \in Requests /\ Count(req) \in Nat
    BY CountIs DEF Typed, Numbers
  <1>1. /\ phase = "reading" /\ Consume /\ stream # <<>> /\ Front.type = "STDIN"
        /\ UNCHANGED <<phase, open, req, gone, serial, in_len, eof, asked>>
    BY DEF SkipStdin, HasHdr, InStep, conn
  <1> SUFFICES ASSUME Live' PROVE Kept'
    BY DEF Kept
  <1>2. PICK p \in Nat : Place(p)
    BY <1>1, PlaceIs DEF Live
  <1>3. p = Count(req)
    BY <1>1, <1>2, FrontBetween, FirstIs
  <1>4. Lined(stream', req, serial, asked, p + 1) /\ off' = 0
    <2>1. p <= Count(req)
      BY <1>0, <1>3
    <2> QED
      BY <1>1, <1>2, <2>1, FrontAt DEF Place
  <1>5. Place(p + 1)'
    BY <1>1, <1>2, <1>3, <1>4 DEF Place, Serving
  <1> QED
    BY <1>5, InPlaceNext

(* A request begins with the next one's first record, never in the middle. *)
LEMMA BeginKept ==
    ASSUME Typed, Order, Kept, Begin
    PROVE  Kept'
  <1>1. /\ phase = "reading" /\ phase' = "params" /\ Consume
        /\ stream # <<>> /\ Front.type = "BEGIN"
        /\ req' = Front.request /\ serial' = Front.serial
        /\ UNCHANGED <<open, gone, in_len, eof, asked>>
    BY DEF Begin, HasAll, InStep
  <1> SUFFICES ASSUME Live' PROVE Kept'
    BY DEF Kept
  <1>2. PICK p \in Nat : Place(p)
    BY <1>1, PlaceIs DEF Live
  <1>3. PICK q \in Requests :
            /\ Front.type = First(q) /\ Front.request = q /\ Front.serial = asked
            /\ Lined(Tail(stream), q, asked, asked, 2)
    BY <1>1, <1>2, FrontBetween
  <1>4. q.kind = "request"
    BY <1>1, <1>3, FirstIs
  <1>5. Lined(stream', req', serial', asked', 2)
    BY <1>1, <1>3 DEF Consume
  <1>6. Place(2)'
    BY <1>1, <1>2, <1>3, <1>4, <1>5 DEF Place, Serving, Consume
  <1> QED
    BY <1>6, InPlaceNext

(* In the parameters: the PARAMS record, then the empty one                *)
LEMMA FrontParams ==
    ASSUME Typed, NEW p \in Nat, Place(p), phase = "params", Consume
    PROVE  /\ p \in 2 .. 3 /\ req.kind = "request" /\ asked = serial
           /\ in_len = 0 /\ off' = 0 /\ Lined(stream', req, serial, asked, p + 1)
           /\ Front.type = "PARAMS" /\ Front.len = IF p = 2 THEN 8 ELSE 0
  <1>0. req \in Requests /\ serial \in Nat
    BY DEF Typed, Numbers
  <1>1. /\ p \in 2 .. 3 /\ req.kind = "request" /\ asked = serial /\ in_len = 0
        /\ Lined(stream, req, serial, asked, p)
    BY DEF Place
  <1>2. p <= Count(req)
    <2>1. Count(req) = Len(req.body) + 4 /\ Len(req.body) \in Nat
      BY <1>0, <1>1, CountIs
    <2> QED
      BY <1>1, <2>1
  <1>3. /\ Shaped(Front, req, serial, p)
        /\ Lined(stream', req, serial, asked, p + 1) /\ off' = 0
    BY <1>1, <1>2, FrontAt
  <1>4. Front.type = "PARAMS" /\ Front.len = IF p = 2 THEN 8 ELSE 0
    BY <1>1, <1>3 DEF Shaped
  <1> QED
    BY <1>1, <1>3, <1>4

(* The parameters have been taken.                                         *)
LEMMA ParamsKept ==
    ASSUME Typed, Kept, Params
    PROVE  Kept'
  <1>1. /\ phase = "params" /\ Consume /\ Front.len > 0
        /\ UNCHANGED <<phase, open, req, gone, serial, in_len, eof, asked>>
    BY DEF Params, conn
  <1> SUFFICES ASSUME Live' PROVE Kept'
    BY DEF Kept
  <1>2. PICK p \in Nat : Place(p)
    BY <1>1, PlaceIs DEF Live
  <1>3. /\ p = 2 /\ req.kind = "request" /\ asked = serial
        /\ in_len = 0 /\ off' = 0 /\ Lined(stream', req, serial, asked, 3)
    BY <1>1, <1>2, FrontParams
  <1>4. Place(3)'
    BY <1>1, <1>3 DEF Place, Serving
  <1> QED
    BY <1>4, InPlaceNext

(* The empty PARAMS ends them: the whole body is still to come.            *)
LEMMA ServeKept ==
    ASSUME KnowsLength, Typed, Kept, Serve
    PROVE  Kept'
  <1>0. req \in Requests
    BY DEF Typed, Numbers
  <1>1. /\ phase = "params" /\ phase' = "serving" /\ Consume
        /\ ~(Front.type = "PARAMS" /\ Front.len > 0)
        /\ read_post_bytes' = 0 /\ taken' = 0
        /\ UNCHANGED <<open, req, gone, serial, in_len, eof, asked, want, n>>
    BY DEF Serve
  <1> SUFFICES ASSUME Live' PROVE Kept'
    BY DEF Kept
  <1>2. PICK p \in Nat : Place(p)
    BY <1>1, PlaceIs DEF Live
  <1>3. /\ p = 3 /\ req.kind = "request" /\ asked = serial
        /\ in_len = 0 /\ off' = 0 /\ Lined(stream', req, serial, asked, 4)
    BY <1>1, <1>2, FrontParams
  <1>4. want = 0 /\ n = 0
    BY <1>1 DEF Typed, WantsLeft, Numbers
  <1>5. /\ Len(req.body) \in Nat /\ req.content_length \in Nat
        /\ Left(req)[0] = IF req.filed THEN 0 ELSE req.content_length
        /\ req.filed => Len(req.body) = 0
    BY <1>0, <1>3, LeftIs
  <1>6. req.filed => req.body = <<>>
    <2>1. req.body \in Seq([len : Nat \ {0}, pad : Nat])
      BY <1>0, RequestAssumption DEF Request
    <2> QED
      BY <1>5, <2>1
  <1>7. 4 <= Count(req) /\ 4 - 4 = 0
    BY <1>3, <1>5 DEF Count
  <1>8. Body(4)'
    BY <1>1, <1>3, <1>4, <1>5, <1>6, <1>7 DEF Body
  <1>9. Place(4)'
    BY <1>1, <1>3, <1>8 DEF Place, Serving
  <1> QED
    BY <1>9, InPlaceNext

-----------------------------------------------------------------------------
(* A script prints, flushes and ends.                                      *)
LEMMA WriteKept ==
    ASSUME Kept, Write
    PROVE  Kept'
  <1>1. ASSUME NEW type \in Types, NEW len \in Lengths[type],
               \/ WriteFits(type, len)
               \/ \E ok \in BOOLEAN : WriteSpills(type, len, ok)
               \/ WriteDirect(type, len)
        PROVE  Kept'
    <2>1. CASE WriteFits(type, len)
      BY <2>1, SamePlace DEF WriteFits, GoesOn, Live, input, reading
    <2>2. ASSUME NEW ok \in BOOLEAN, WriteSpills(type, len, ok) PROVE Kept'
      BY <2>2, SamePlace DEF WriteSpills, Goes, GoesOn, Live, input, reading
    <2>3. CASE WriteDirect(type, len)
      BY <2>3, SamePlace DEF WriteDirect, Live, conn, input, reading
    <2> QED
      BY <1>1, <2>1, <2>2, <2>3
  <1>2. ASSUME NEW ok \in BOOLEAN, DirectChunk(ok) \/ DirectLast(ok)
        PROVE  Kept'
    <2>1. PICK len, rest : Direction(len, ok, rest)
      BY <1>2 DEF DirectChunk, DirectLast
    <2>2. UNCHANGED <<open, req, serial, input, reading>> /\ (gone => gone')
      BY <2>1 DEF Direction, Goes
    <2>3. phase' \in {phase, "undefined"}
      BY <2>1 DEF Direction, GoesOn
    <2> QED
      BY <2>2, <2>3, SamePlace DEF Live, input, reading
  <1> QED
    BY <1>1, <1>2 DEF Write

(* sapi_cgibin_flush                                                       *)
LEMMA FlushKept ==
    ASSUME Kept, NEW ok \in BOOLEAN, Flush(ok)
    PROVE  Kept'
  <1>1. phase = "serving"
    BY DEF Flush, Calls
  <1> QED
    BY <1>1, SamePlace DEF Flush, Flushed, Goes, GoesOn, Live, input, reading

(* fastcgi_finish_request: the body stays where it is, or the connection   *)
(* is closed.                                                              *)
LEMMA FinishEarlyKept ==
    ASSUME Kept, NEW ok \in BOOLEAN, FinishEarly(ok)
    PROVE  Kept'
  <1>1. phase = "serving" /\ open
    BY DEF FinishEarly, Calls
  <1>2. CASE Stays(ok)
    BY <1>1, <1>2, SamePlace DEF FinishEarly, Flushed, Closed, Goes, GoesOn, Live, input, reading
  <1>3. CASE ~Stays(ok)
    <2>1. open' = Stays(ok)
      BY DEF FinishEarly, Closed
    <2> QED
      BY <1>3, <2>1 DEF Kept, Live
  <1> QED
    BY <1>2, <1>3

(* sapi_deactivate asks for what the script has not read.                  *)
LEMMA ScriptEndsKept ==
    ASSUME Typed, Kept, ScriptEnds
    PROVE  Kept'
  <1>0. req \in Requests /\ req.content_length \in Nat /\ read_post_bytes \in Nat
    BY ContentLength DEF Typed, Numbers
  <1>1. /\ phase = "serving" /\ phase' = "draining"
        /\ want' = req.content_length - read_post_bytes
        /\ UNCHANGED <<open, gone, eof, req, serial, input, n, read_post_bytes>>
    BY DEF ScriptEnds, Unspent, input
  <1> SUFFICES ASSUME Live' PROVE Kept'
    BY DEF Kept
  <1>2. PICK p \in Nat : Place(p)
    BY <1>1, PlaceIs DEF Live
  <1>3. Place(p)'
    BY <1>0, <1>1, <1>2 DEF Place, Body, Serving, input
  <1> QED
    BY <1>3, InPlaceNext

(* It has got it.                                                          *)
LEMMA DeactivateKept ==
    ASSUME Typed, Kept, NEW ok \in BOOLEAN, Deactivate(ok)
    PROVE  Kept'
  <1>0. read_post_bytes \in Nat
    BY DEF Typed, Numbers
  <1>1. /\ phase = "draining" /\ phase' \in {"finishing", "undefined"} /\ want = 0
        /\ open' = open /\ (gone => gone')
        /\ UNCHANGED <<req, serial, input, reading>>
    BY DEF Deactivate, Flushed, Goes, GoesOn
  <1> SUFFICES ASSUME Live' PROVE Kept'
    BY DEF Kept
  <1>2. PICK p \in Nat : Place(p)
    BY <1>1, PlaceIs DEF Live, input
  <1>3. Place(p)'
    BY <1>0, <1>1, <1>2 DEF Place, Body, Serving, input, reading
  <1> QED
    BY <1>3, InPlaceNext

(* When a request ends its body has been read, up to the empty record.     *)
LEMMA BodyRead ==
    ASSUME KnowsLength, Typed, NEW p \in Nat, Place(p), phase = "finishing"
    PROVE  /\ req.kind = "request" /\ in_len = 0 /\ off = 0
           /\ p = Count(req) \/ p = Count(req) + 1
           /\ ~req.filed => taken = req.content_length
  <1>0. /\ req \in Requests /\ in_len \in Nat /\ taken \in Nat
        /\ n \in Nat /\ want \in Nat /\ read_post_bytes \in Nat
    BY DEF Typed, Numbers
  <1>1. Body(p) /\ req.kind = "request" /\ p >= 4 /\ p \in 1 .. Count(req) + 1
    BY DEF Place, Lined, Serving, Body
  <1>2. PICK l \in Nat : l = Len(req.body) /\ Count(req) = l + 4 /\ DOMAIN req.body = 1 .. l
    BY <1>0, <1>1, LeftIs DEF Count
  <1>3. want = 0 /\ n = 0
    BY <1>0 DEF Typed, WantsLeft
  <1>4. CASE req.filed
    <2>1. l = 0
      BY <1>1, <1>2, <1>4 DEF Body
    <2> QED
      BY <1>1, <1>2, <1>4, <2>1 DEF Body
  <1>5. CASE ~req.filed
    <2>1. /\ p <= l + 4 /\ taken = read_post_bytes + n /\ read_post_bytes = req.content_length
          /\ req.content_length \in Nat
      BY <1>0, <1>1, <1>2, <1>5, ContentLength DEF Body
    <2>2. taken = req.content_length
      BY <1>0, <1>3, <2>1
    <2>3. /\ \A i \in 0 .. l : Left(req)[i] \in Nat
          /\ \A i \in 1 .. l : /\ req.body[i].len \in Nat /\ req.body[i].len > 0
                               /\ Left(req)[i - 1] = req.body[i].len + Left(req)[i]
      BY <1>0, <1>1, <1>2, LeftIs
    <2>4. in_len = 0
      <3> SUFFICES ASSUME in_len # 0 PROVE FALSE
        OBVIOUS
      <3>1. p - 3 \in 1 .. l /\ taken + in_len + Left(req)[p - 3] = req.content_length
        BY <1>1, <1>2, <1>5 DEF Body
      <3>2. Left(req)[p - 3] \in Nat
        BY <2>3, <3>1
      <3> QED
        BY <1>0, <2>1, <2>2, <3>1, <3>2
    <2>5. off = 0 /\ taken + Left(req)[p - 4] = req.content_length
      BY <1>1, <1>5, <2>4 DEF Body
    <2>6. p = l + 4
      <3> SUFFICES ASSUME p # l + 4 PROVE FALSE
        OBVIOUS
      <3>1. PICK i \in 1 .. l : i = p - 3 /\ i - 1 = p - 4
        BY <1>1, <2>1
      <3>2. /\ req.body[i].len \in Nat /\ req.body[i].len > 0 /\ Left(req)[i] \in Nat
            /\ Left(req)[i - 1] = req.body[i].len + Left(req)[i]
        BY <2>3
      <3> QED
        BY <2>1, <2>2, <2>5, <3>1, <3>2
    <2> QED
      BY <1>1, <1>2, <2>2, <2>4, <2>5, <2>6
  <1> QED
    BY <1>4, <1>5

(* A kept connection is then left where the next request begins.           *)
LEMMA FinishRequestKept ==
    ASSUME KnowsLength, Typed, Kept, NEW ok \in BOOLEAN, FinishRequest(ok)
    PROVE  Kept'
  <1>1. phase = "finishing" /\ open /\ in_len' = 0 /\ open' = Stays(ok)
        /\ UNCHANGED <<req, serial, asked>> /\ (gone => gone')
    BY DEF FinishRequest, Closed, Flushed, Goes
  <1> SUFFICES ASSUME Live' PROVE Kept'
    BY DEF Kept
  <1>2. UNCHANGED <<stream, off, eof>> /\ phase' \in {"reading", "undefined"}
    BY <1>1 DEF FinishRequest, Closed, Flushed, GoesOn, Live
  <1>3. PICK p \in Nat : Place(p)
    BY <1>1, <1>2, PlaceIs DEF Live
  <1>4. /\ req.kind = "request" /\ off = 0
        /\ p = Count(req) \/ p = Count(req) + 1
    BY <1>1, <1>3, BodyRead
  <1>5. Place(p)'
    BY <1>1, <1>2, <1>3, <1>4 DEF Place, Serving
  <1> QED
    BY <1>5, InPlaceNext

-----------------------------------------------------------------------------
(* A body is read.                                                         *)
LEMMA ReadPostKept ==
    ASSUME Typed, Kept, NEW count, ReadPost(count)
    PROVE  Kept'
  <1>1. /\ phase = "serving" /\ ~req.filed
        /\ UNCHANGED <<phase, open, req, gone, serial, input, n, read_post_bytes>>
    BY DEF ReadPost, Calls, conn
  <1> SUFFICES ASSUME Live' PROVE Kept'
    BY DEF Kept
  <1>2. PICK p \in Nat : Place(p)
    BY <1>1, PlaceIs DEF Live, input
  <1>3. Place(p)'
    BY <1>1, <1>2 DEF Place, Body, Serving, input
  <1> QED
    BY <1>3, InPlaceNext

(* A body in a file is not on the connection.                              *)
LEMMA ReadFileKept ==
    ASSUME Typed, Kept, NEW count, ReadFile(count)
    PROVE  Kept'
  <1>1. /\ phase = "serving" /\ req.filed
        /\ UNCHANGED <<phase, open, req, gone, serial, input, want, n>>
    BY DEF ReadFile, Calls, conn
  <1> SUFFICES ASSUME Live' PROVE Kept'
    BY DEF Kept
  <1>2. PICK p \in Nat : Place(p)
    BY <1>1, PlaceIs DEF Live, input
  <1>3. Place(p)'
    BY <1>1, <1>2 DEF Place, Body, Serving, input
  <1> QED
    BY <1>3, InPlaceNext

(* As long as a call has bytes to get there is a record of the body.       *)
LEMMA BodyComes ==
    ASSUME KnowsLength, Typed, NEW p \in Nat, Place(p), InCall
    PROVE  /\ phase \in {"serving", "draining"} /\ Serving /\ Body(p)
           /\ p \in 1 .. Count(req) /\ Front.type = "STDIN" /\ Front.len \in Nat
           /\ Consume => Lined(stream', req, serial, asked, p + 1) /\ off' = 0
           /\ IF req.filed
              THEN phase = "draining" /\ p = 4 /\ Front.len = 0
              ELSE /\ p - 3 \in 1 .. Len(req.body) /\ p - 3 \in DOMAIN req.body
                   /\ p + 1 <= Count(req) /\ p >= 4
                   /\ Front.len = req.body[p - 3].len /\ Front.len > 0
                   /\ Front.pad = req.body[p - 3].pad /\ Front.pad \in Nat
                   /\ Front.have = 8 + Front.len + Front.pad
                   /\ Size(Front) = 8 + Front.len + Front.pad
                   /\ Left(req)[p - 3] \in Nat
                   /\ Left(req)[p - 4] = Front.len + Left(req)[p - 3]
  <1>0. /\ req \in Requests /\ serial \in Nat /\ in_len \in Nat /\ taken \in Nat
        /\ n \in Nat /\ want \in Nat /\ read_post_bytes \in Nat
        /\ req.content_length \in Nat
    BY ContentLength DEF Typed, Numbers
  <1>1. phase \in {"serving", "draining"} /\ Serving /\ n < want
        /\ read_post_bytes + want <= req.content_length
    BY <1>0 DEF Typed, WantsLeft, InCall, Serving
  <1>2. /\ Lined(stream, req, serial, asked, p)
        /\ Body(p) /\ req.kind = "request" /\ p >= 4 /\ p \in 1 .. Count(req) + 1
    BY <1>1 DEF Place, Lined, Body
  <1>3. PICK l \in Nat : l = Len(req.body) /\ Count(req) = l + 4 /\ DOMAIN req.body = 1 .. l
    BY <1>0, <1>2, LeftIs DEF Count
  <1>4. ASSUME p <= Count(req)
        PROVE  /\ p \in 1 .. Count(req) /\ Shaped(Front, req, serial, p)
               /\ Front.type = "STDIN" /\ Front.len \in Nat /\ Front.pad \in Nat
               /\ Front.have = 8 + Front.len + Front.pad
               /\ Size(Front) = 8 + Front.len + Front.pad
               /\ Consume => Lined(stream', req, serial, asked, p + 1) /\ off' = 0
    <2>1. /\ p \in 1 .. Count(req) /\ Shaped(Front, req, serial, p)
          /\ Consume => Lined(stream', req, serial, asked, p + 1) /\ off' = 0
      BY <1>2, <1>4, FrontAt
    <2>2. /\ Front.type = "STDIN" /\ Front.len \in Nat /\ Front.pad \in Nat
          /\ Front.have = 8 + Front.len + Front.pad
          /\ Size(Front) = 8 + Front.len + Front.pad
      BY <1>2, <2>1 DEF Shaped, Made, Piece
    <2> QED
      BY <2>1, <2>2
  <1>5. CASE req.filed
    <2>1. l = 0 /\ phase = "draining" /\ p = 4
      BY <1>0, <1>1, <1>2, <1>3, <1>5 DEF Body
    <2>2. Front.len = 0
      BY <1>2, <1>3, <1>4, <2>1 DEF Shaped
    <2> QED
      BY <1>1, <1>2, <1>3, <1>4, <1>5, <2>1, <2>2
  <1>6. CASE ~req.filed
    <2>1. p <= l + 4 /\ taken < req.content_length
      BY <1>0, <1>1, <1>2, <1>3, <1>6 DEF Body
    <2>2. PICK i \in 0 .. l : i = p - 4
      BY <1>2, <2>1
    <2>3. /\ \A j \in 0 .. l : Left(req)[j] \in Nat
          /\ Left(req)[l] = 0
          /\ \A j \in 1 .. l : /\ req.body[j].len \in Nat /\ req.body[j].len > 0
                               /\ Left(req)[j - 1] = req.body[j].len + Left(req)[j]
      BY <1>0, <1>2, <1>3, LeftIs
    <2>4. i # l
      <3> SUFFICES ASSUME i = l PROVE FALSE
        OBVIOUS
      <3>1. p - 3 \notin 1 .. l
        BY <2>2
      <3>2. taken + Left(req)[i] = req.content_length
        BY <1>2, <1>3, <1>6, <2>2, <3>1 DEF Body
      <3> QED
        BY <1>0, <2>1, <2>3, <3>2
    <2>5. PICK j \in 1 .. l : j = p - 3 /\ j - 1 = p - 4
      BY <2>2, <2>4
    <2>6. Front.len = req.body[j].len /\ Front.pad = req.body[j].pad
      <3>1. Shaped(Front, req, serial, p) /\ p - 3 \in 1 .. Len(req.body)
        BY <1>3, <1>4, <2>1, <2>5
      <3>2. Front.len = req.body[p - 3].len /\ Front.pad = req.body[p - 3].pad
        BY <1>2, <3>1 DEF Shaped
      <3> QED
        BY <2>5, <3>2
    <2>7. /\ req.body[j].len > 0 /\ Left(req)[j] \in Nat
          /\ Left(req)[j - 1] = req.body[j].len + Left(req)[j]
      BY <2>3
    <2> QED
      BY <1>1, <1>2, <1>3, <1>4, <1>6, <2>1, <2>5, <2>6, <2>7
  <1> QED
    BY <1>5, <1>6

(* The header of a record of the body is read, or the empty STDIN.         *)
LEMMA ReadHeaderKept ==
    ASSUME KnowsLength, Typed, Kept, ReadHeader
    PROVE  Kept'
  <1>0. /\ req \in Requests /\ in_len \in Nat /\ taken \in Nat
        /\ n \in Nat /\ want \in Nat /\ read_post_bytes \in Nat
    BY DEF Typed, Numbers
  <1>1. /\ InCall /\ in_len = 0
        /\ UNCHANGED <<phase, open, req, gone, serial, eof, taken, asked>>
    BY DEF ReadHeader
  <1> SUFFICES ASSUME Live' PROVE Kept'
    BY DEF Kept
  <1>2. PICK p \in Nat : Place(p)
    BY <1>1, PlaceIs DEF Live
  <1>3. /\ phase \in {"serving", "draining"} /\ Body(p)
        /\ Front.type = "STDIN" /\ Front.len \in Nat
    BY <1>1, <1>2, BodyComes
  <1>4. /\ in_len' = Front.len /\ in_pad' = Front.pad
        /\ IF Front.len = 0 THEN Consume /\ Return(n)
           ELSE off' = Header /\ UNCHANGED <<stream, want, n, read_post_bytes>>
    BY <1>3 DEF ReadHeader, reading
  <1>5. CASE req.filed
    <2>1. /\ p = 4 /\ Front.len = 0 /\ off' = 0
          /\ Lined(stream', req, serial, asked, 5)
      BY <1>1, <1>2, <1>4, <1>5, BodyComes
    <2>2. n = 0 /\ req.body = <<>> /\ req.kind = "request"
      BY <1>3, <1>5 DEF Body
    <2>3. n' = 0 /\ want' = 0
      BY <1>4, <2>1, <2>2 DEF Return
    <2>4. phase = "draining"
      BY <1>1, <1>2, <1>5, BodyComes
    <2>5. Place(5)'
      BY <1>1, <1>4, <1>5, <2>1, <2>2, <2>3, <2>4 DEF Place, Body, Serving
    <2> QED
      BY <2>5, InPlaceNext
  <1>6. CASE ~req.filed
    <2>1. /\ p - 3 \in DOMAIN req.body /\ Front.len = req.body[p - 3].len /\ Front.len > 0
          /\ Front.pad = req.body[p - 3].pad /\ p >= 4
          /\ Left(req)[p - 3] \in Nat
          /\ Left(req)[p - 4] = Front.len + Left(req)[p - 3]
      BY <1>1, <1>2, <1>6, BodyComes
    <2>2. /\ in_len' = Front.len /\ in_pad' = Front.pad /\ off' = 8
          /\ UNCHANGED <<stream, want, n, read_post_bytes>>
      BY <1>3, <1>4, <2>1 DEF Header
    <2>3. taken + Left(req)[p - 4] = req.content_length
      BY <1>1, <1>3, <1>6 DEF Body
    <2>4. taken + in_len' + Left(req)[p - 3] = req.content_length
      <3>1. PICK x \in Nat : x = Left(req)[p - 3]
        BY <2>1
      <3>2. taken + (Front.len + x) = req.content_length
        BY <2>1, <2>3, <3>1
      <3> QED
        BY <1>0, <1>3, <2>2, <3>1, <3>2
    <2>5. Body(p)'
      <3>1. in_len' # 0 /\ in_len' <= req.body[p - 3].len
            /\ off' = Header + req.body[p - 3].len - in_len'
            /\ in_pad' = req.body[p - 3].pad
        BY <1>3, <2>1, <2>2 DEF Header
      <3>2. ~req'.filed
        BY <1>1, <1>6
      <3> QED
        BY <1>1, <1>3, <1>6, <2>1, <2>2, <2>4, <3>1, <3>2 DEF Body
    <2>6. Place(p)'
      BY <1>1, <1>2, <1>3, <2>2, <2>5 DEF Place, Serving
    <2> QED
      BY <2>6, InPlaceNext
  <1> QED
    BY <1>5, <1>6

(* Some of its bytes are, and with the last of them the padding.           *)
LEMMA ReadDataKept ==
    ASSUME KnowsLength, Typed, Kept, ReadData
    PROVE  Kept'
  <1>0. /\ req \in Requests /\ in_len \in Nat /\ in_pad \in Nat /\ taken \in Nat
        /\ n \in Nat /\ want \in Nat /\ read_post_bytes \in Nat /\ off \in Nat
        /\ req.content_length \in Nat
    BY ContentLength DEF Typed, Numbers, InputOK
  <1>1. /\ InCall /\ in_len > 0
        /\ UNCHANGED <<phase, open, req, gone, serial, in_pad, eof, asked>>
    BY DEF ReadData
  <1> SUFFICES ASSUME Live' PROVE Kept'
    BY DEF Kept
  <1>2. PICK p \in Nat : Place(p)
    BY <1>1, PlaceIs DEF Live
  <1>3. phase \in {"serving", "draining"} /\ Body(p) /\ p \in 1 .. Count(req)
        /\ Lined(stream, req, serial, asked, p)
    BY <1>1, <1>2, BodyComes DEF Place
  <1>4. ~req.filed
    BY <1>0, <1>1, <1>3 DEF Body
  <1>5. PICK len \in Nat, pad \in Nat, x \in Nat :
          /\ len = Front.len /\ pad = Front.pad /\ x = Left(req)[p - 3]
          /\ Front.have = 8 + len + pad /\ Size(Front) = 8 + len + pad
          /\ req.body[p - 3].len = len /\ req.body[p - 3].pad = pad
          /\ p - 3 \in DOMAIN req.body /\ p + 1 <= Count(req) /\ p >= 4
          /\ Consume => Lined(stream', req, serial, asked, p + 1) /\ off' = 0
    BY <1>1, <1>2, <1>4, BodyComes
  <1>6. /\ req.kind = "request"
        /\ taken = read_post_bytes + n
        /\ phase = "draining" => read_post_bytes + want = req.content_length
        /\ in_len <= len /\ in_pad = pad
        /\ off = 8 + len - in_len
        /\ taken + in_len + x = req.content_length
    BY <1>0, <1>1, <1>3, <1>4, <1>5 DEF Body, Header
  <1>7. stream # <<>> /\ There = in_len + pad
    <2>1. stream # <<>>
      BY <1>2, <1>3, FrontAt DEF Place
    <2>2. There = (8 + len + pad) - off
      BY <1>5, <2>1 DEF There
    <2> QED
      BY <1>0, <1>6, <2>1, <2>2
  <1>8. PICK k \in Nat : k = Portion /\ k <= in_len /\ n + k <= want
    <2>1. n < want
      BY <1>0, <1>1 DEF InCall, Typed, WantsLeft
    <2> QED
      BY <1>0, <2>1 DEF Portion, Least
  <1>9. PICK z \in Nat : z = (IF in_len = k THEN in_pad ELSE 0)
    BY <1>0
  <1>10. /\ in_len' = in_len - k /\ taken' = taken + k
         /\ IF off + k + z = Size(Front) THEN Consume
            ELSE off' = off + k + z /\ UNCHANGED stream
         /\ IF n + k = want THEN Return(n + k)
            ELSE n' = n + k /\ UNCHANGED <<want, read_post_bytes>>
    <2>1. ~(There < k + z)
      BY <1>0, <1>6, <1>7, <1>8, <1>9
    <2> QED
      BY <1>8, <1>9, <2>1 DEF ReadData, PadToRead, InAll
  <1>11. /\ n' \in Nat /\ read_post_bytes' \in Nat /\ want' \in Nat
         /\ taken' = read_post_bytes' + n'
         /\ phase = "draining" => read_post_bytes' + want' = req.content_length
    <2>1. CASE n + k = want
      <3>1. n + k > 0
        BY <1>0, <1>1, <2>1 DEF InCall
      <3>2. n' = 0 /\ read_post_bytes' = read_post_bytes + (n + k) /\ want' = want - (n + k)
        BY <1>10, <2>1, <3>1 DEF Return
      <3> QED
        BY <1>0, <1>6, <1>8, <1>10, <2>1, <3>2
    <2>2. CASE n + k # want
      BY <1>0, <1>6, <1>8, <1>10, <2>2
    <2> QED
      BY <2>1, <2>2
  <1>12. CASE in_len = k
    <2>1. Consume
      <3>1. off + k + z = 8 + len + pad
        BY <1>0, <1>6, <1>9, <1>12
      <3> QED
        BY <1>5, <1>10, <3>1
    <2>2. in_len' = 0 /\ taken' + x = req.content_length
      BY <1>0, <1>6, <1>8, <1>10, <1>12
    <2>3. p + 1 >= 4 /\ p + 1 - 4 = p - 3
      BY <1>5
    <2>4. Body(p + 1)'
      <3>1. /\ ~req'.filed /\ req' = req /\ req.kind = "request"
            /\ p + 1 <= Count(req) /\ off' = 0
            /\ taken' + Left(req)[p + 1 - 4] = req.content_length
        BY <1>1, <1>4, <1>5, <1>6, <2>1, <2>2, <2>3
      <3> QED
        BY <1>1, <1>3, <1>11, <2>2, <2>3, <3>1 DEF Body
    <2>5. Place(p + 1)'
      BY <1>1, <1>3, <1>5, <2>1, <2>4 DEF Place
    <2> QED
      BY <2>5, InPlaceNext
  <1>13. CASE in_len # k
    <2>1. PICK m \in Nat : m = in_len - k /\ m > 0 /\ m <= len /\ z = 0
      BY <1>0, <1>6, <1>8, <1>9, <1>13
    <2>2. off + k + z = 8 + len - m /\ off + k + z # 8 + len + pad
      BY <1>0, <1>6, <1>8, <2>1
    <2>3. in_len' = m /\ off' = 8 + len - m /\ stream' = stream
      BY <1>5, <1>10, <2>1, <2>2
    <2>4. taken' + in_len' + x = req.content_length
      BY <1>0, <1>6, <1>8, <1>10, <2>1, <2>3
    <2>5. Body(p)'
      <3>1. /\ ~req'.filed /\ req' = req /\ req.kind = "request"
            /\ p <= Count(req) /\ in_len' # 0 /\ in_len' <= req.body[p - 3].len
            /\ off' = Header + req.body[p - 3].len - in_len'
            /\ in_pad' = req.body[p - 3].pad
            /\ taken' + in_len' + Left(req)[p - 3] = req.content_length
        BY <1>1, <1>3, <1>4, <1>5, <1>6, <2>1, <2>3, <2>4 DEF Header
      <3> QED
        BY <1>1, <1>3, <1>5, <1>11, <3>1 DEF Body
    <2>6. Place(p)'
      BY <1>1, <1>3, <2>3, <2>5 DEF Place
    <2> QED
      BY <2>6, InPlaceNext
  <1> QED
    BY <1>12, <1>13

(* The others fail only when the connection does.                          *)
LEMMA FailsKept ==
    ASSUME ReadHeaderFails \/ ReadDataFails
    PROVE  Kept'
  <1>1. ~Live'
    <2>1. CASE ReadHeaderFails
      BY <2>1 DEF ReadHeaderFails, Ends, Live, input
    <2>2. CASE ReadDataFails
      BY <2>2 DEF ReadDataFails, Live
    <2> QED
      BY <2>1, <2>2
  <1> QED
    BY <1>1 DEF Kept

-----------------------------------------------------------------------------
(* Every step keeps the worker in step.                                    *)
LEMMA NextKept ==
    ASSUME KnowsLength, Typed, Order, Kept, [Next]_vars
    PROVE  Kept'
  <1>1. CASE UNCHANGED vars
    BY <1>1, SamePlace DEF vars, conn, Live, input, reading
  <1>2. CASE Refuse \/ GetValues \/ FinishedBefore
    BY <1>2 DEF Refuse, GetValues, Dropped, FinishedBefore, Kept, Live
  <1>3. CASE Read
    BY <1>3, ReadPostKept, ReadFileKept, ReadHeaderKept, ReadDataKept, FailsKept DEF Read
  <1>4. ASSUME NEW ok \in BOOLEAN,
               Flush(ok) \/ FinishEarly(ok) \/ Deactivate(ok) \/ FinishRequest(ok)
        PROVE  Kept'
    BY <1>4, FlushKept, FinishEarlyKept, DeactivateKept, FinishRequestKept
  <1> QED
    BY <1>1, <1>2, <1>3, <1>4, WebServerKept, SkipKept, BeginKept, ParamsKept, ServeKept,
       WriteKept, ScriptEndsKept DEF Next

(* It implies the first property ...                                       *)
LEMMA KeptInStep ==
    ASSUME Typed, Written, Kept
    PROVE  InStepWithServer
  <1>1. phase \in {"reading", "params"} => ~gone
    BY DEF Written
  <1>2. ASSUME Live
        PROVE  /\ phase \in {"reading", "params"} \/ (InCall /\ in_len = 0) => off = 0
               /\ phase = "reading" /\ stream # <<>> =>
                     IF Front.serial = serial
                     THEN Front.type = "STDIN" /\ Front.len = 0
                     ELSE Front.type = First(Front.request)
    <2>1. PICK p \in Nat : Place(p)
      BY <1>2, PlaceIs
    <2>2. ASSUME InCall, in_len = 0 PROVE off = 0
      <3>1. Serving
        BY <2>2 DEF Typed, WantsLeft, InCall, Serving, Numbers
      <3> QED
        BY <2>1, <2>2, <3>1 DEF Place, Body
    <2>3. serial \in Nat /\ asked \in Nat
      BY DEF Typed, Numbers
    <2> QED
      BY <2>1, <2>2, <2>3, FrontBetween DEF Place
  <1> QED
    BY <1>1, <1>2 DEF InStepWithServer, Live

(* ... and the second, ...                                                 *)
LEMMA KeptDelivers ==
    ASSUME KnowsLength, Typed, Kept
    PROVE  BodyDelivered
  <1> SUFFICES ASSUME Serving, Live, ~req.filed
               PROVE  /\ taken = read_post_bytes + n
                      /\ phase = "finishing" /\ keep => taken = req.content_length
    BY DEF BodyDelivered, Live
  <1>1. PICK p \in Nat : Place(p)
    BY PlaceIs
  <1> QED
    BY <1>1, BodyRead DEF Place, Body

(* ... and is an invariant.                                                *)
LEMMA KnownKept ==
    ASSUME KnowsLength
    PROVE  Spec => [](Typed /\ Written /\ Kept)
  <1>1. Typed /\ Order /\ Kept /\ [Next]_vars => Kept'
    BY NextKept
  <1> QED
    BY <1>1, InitKept, WrittenIntact, PTL DEF Spec

(* On a connection that works fcgi_read_request looks for a header only    *)
(* where one begins, and finds there the end of the last request or the    *)
(* beginning of the next: however scripts read their bodies, in whatever   *)
(* portions, fcgi_read takes the padding with the last byte of a record and*)
(* sapi_deactivate what they leave.                                        *)
THEOREM StaysInStep == KnowsLength => (Spec => []InStepWithServer)
  <1> SUFFICES ASSUME KnowsLength PROVE Spec => []InStepWithServer
    OBVIOUS
  <1>1. Typed /\ Written /\ Kept => InStepWithServer
    BY KeptInStep
  <1> QED
    BY <1>1, KnownKept, PTL

(* A script gets every byte of its body that has been taken off the        *)
(* connection, none twice, and none is left when a request ends on a       *)
(* connection that is kept.                                                *)
THEOREM WholeBody == KnowsLength => (Spec => []BodyDelivered)
  <1> SUFFICES ASSUME KnowsLength PROVE Spec => []BodyDelivered
    OBVIOUS
  <1>1. Typed /\ Kept => BodyDelivered
    BY KeptDelivers
  <1> QED
    BY <1>1, KnownKept, PTL

=============================================================================
