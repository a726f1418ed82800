------------------------------ MODULE FastCGI -------------------------------
(***************************************************************************)
(* The FastCGI protocol as one worker speaks it (cgi/fastcgi.c, and the    *)
(* SAPI functions of cgi/cgi_main.c that call it): a connection, kept or   *)
(* not, the records the web server sends on it, how a request and its body *)
(* are read out of them, and how the output of a script is packed into     *)
(* records in req->out_buf and sent.                                       *)
(*                                                                         *)
(* Bytes are counted and not named: a record says which bytes of its       *)
(* stream it carries.  The web server is one that keeps to the protocol;   *)
(* it may go away at any point.  Accepting a connection, its timeouts and  *)
(* a worker that leaves are in RequestLoop.                                *)
(*                                                                         *)
(* Some definitions are the code with a slip in it, each beside the one it *)
(* varies, and no specification uses them: SwitchedNot, LimitPastHeader,   *)
(* RestOfPad, EndAlways, LastPortion, PadForgotten.                        *)
(***************************************************************************)
EXTENDS Integers, Sequences

CONSTANTS
    BufSize,      \* sizeof(req->out_buf), 1024*8
    MaxLength,    \* FCGI_MAX_LENGTH, 0xffff
    Requests,     \* what the web server may send, a set of Request
    Lengths,      \* per stream, how much a script may write in one call
    ReadSizes,    \* how much of its body it may ask for in one call
    MaxRequests,  \* bound: requests sent, on however many connections
    MaxCalls      \* bound: calls all scripts make together

Header  == 8                \* sizeof(fcgi_header), and the alignment
EndSize == 2 * Header       \* sizeof(fcgi_end_request_rec), req->reserved

Types == {"STDOUT", "STDERR"}

(* kind "values" is FCGI_GET_VALUES, "other" a record or a role the code   *)
(* does not know; split: a name-value pair lies across two PARAMS records; *)
(* filed: the body is in REQUEST_BODY_FILE and not on the connection.      *)
Request == [kind : {"request", "values", "other"}, keep : BOOLEAN,
            split : BOOLEAN, filed : BOOLEAN,
            body : Seq([len : Nat \ {0}, pad : Nat]),
            content_length : Nat]

ASSUME RequestAssumption == Requests # {} /\ Requests \subseteq Request
ASSUME BufferAssumption ==
    /\ BufSize \in Nat /\ BufSize % Header = 0 /\ BufSize >= EndSize
    /\ MaxLength \in Nat /\ MaxLength % Header = Header - 1 /\ MaxLength > Header
    /\ BufSize - Header <= MaxLength
ASSUME ScriptAssumption ==
    /\ Lengths \in [Types -> SUBSET (Nat \ {0})]
    /\ ReadSizes \subseteq Nat \ {0}
ASSUME BoundAssumption == MaxRequests \in Nat /\ MaxCalls \in Nat

VARIABLES
    phase,      \* where the worker is, see Phases
    open,       \* req->fd >= 0
    keep,       \* req->keep
    req,        \* the request being read or served
    gone,       \* a write has failed on this connection
    stream,     \* records sent and not yet read; the head may be begun
    off,        \* bytes read of the head of stream
    eof,        \* the web server has closed its side
    in_len,     \* what the code believes is left of a STDIN record,
    in_pad,     \* and the padding behind it
    want,       \* sapi_cgi_read_post: bytes still to get, 0 if not called
    n,          \* fcgi_read: bytes got in this call
    read_post_bytes,  \* SG(read_post_bytes)
    out,        \* out_buf: out_pos, whether out_hdr is set, what is packed
    todo,       \* fcgi_write past the buffer: stream, bytes left (0: not in it)
    aborted,    \* php_handle_aborted_connection has been called
    calls,      \* calls made by scripts so far
    asked,      \* requests sent so far
    serial,     \* history: which of them is being served
    answer,     \* history: what the web server got since it sent the last
    said,       \* history: bytes this script has handed over, per stream
    taken,      \* history: bytes of this body read off the connection
    early       \* history: fastcgi_finish_request on this kept connection

conn    == <<phase, open, keep, req, gone, serial, early>>
input   == <<stream, off, eof, in_len, in_pad, taken, asked>>
reading == <<want, n, read_post_bytes>>
output  == <<out, todo, aborted, answer, said>>
vars    == <<conn, input, reading, output, calls>>

(* "undefined": a write has gone past out_buf and what is reserved behind it *)
Phases == {"accept", "reading", "params", "serving", "draining", "finishing",
           "undefined"}

Serving == phase \in {"serving", "draining", "finishing"}
InCall  == want > 0

-----------------------------------------------------------------------------
(* out_buf.  A packed record is [type, from, len, pad, at]: where its      *)
(* bytes begin in their stream, how many its header says there are, the    *)
(* padding, and where in out_buf the header lies.                          *)

Idle  == [type |-> "STDOUT", left |-> 0]
Empty == [pos |-> 0, hdr |-> FALSE, recs |-> <<>>]

Top(b) == b.recs[Len(b.recs)]

(* fcgi_make_header: ((len + 7) & ~7) - len                                *)
Pad(len) == (Header - (len % Header)) % Header

open_packet(b, type, from) ==
    [pos  |-> b.pos + Header,
     hdr  |-> TRUE,
     recs |-> Append(b.recs, [type |-> type, from |-> from, len |-> 0,
                              pad |-> 0, at |-> b.pos])]

close_packet(b) ==
    IF b.hdr
    THEN [pos  |-> b.pos + Pad(Top(b).len),
          hdr  |-> FALSE,
          recs |-> [b.recs EXCEPT ![Len(b.recs)].pad = Pad(Top(b).len)]]
    ELSE b

Filled(b, len) ==
    [pos  |-> b.pos + len,
     hdr  |-> b.hdr,
     recs |-> [b.recs EXCEPT ![Len(b.recs)].len = @ + len]]

(* the buffer as fcgi_write finds it: a packet of the other stream closed, *)
(* how much fits, and with a packet open                                   *)
SwitchedNot(type) == out
Switched(type)    ==
    IF out.hdr /\ Top(out).type # type THEN close_packet(out) ELSE out

LimitPastHeader(b) == IF BufSize < b.pos THEN 0 ELSE BufSize - b.pos
Limit(b) ==
    LET room == BufSize - b.pos - (IF b.hdr THEN 0 ELSE Header)
    IN  IF ~b.hdr /\ room < 0 THEN 0 ELSE room

Ready(b, type, from) == IF b.hdr THEN b ELSE open_packet(b, type, from)

(* the records as they leave, for the request being served                 *)
Leaving(recs) ==
    [i \in DOMAIN recs |->
        [type |-> recs[i].type, serial |-> serial, from |-> recs[i].from,
         len |-> recs[i].len, pad |-> recs[i].pad]]

Direct(type, from, len) ==
    [type |-> type, serial |-> serial, from |-> from, len |-> len,
     pad |-> 0]

End == [type |-> "END", serial |-> serial, from |-> 0, len |-> Header,
        pad |-> 0]

(* safe_write sends all or fails: the peer has gone, or req->fd is -1      *)
KeepAfter(ok) == keep /\ ok

Goes(ok, recs) ==
    /\ ok => open /\ ~gone
    /\ answer' = IF ok THEN answer \o recs ELSE answer
    /\ keep' = KeepAfter(ok)
    /\ gone' = (gone \/ (open /\ ~ok))

(* the code goes on to p, unless it has written past out_buf and reserved  *)
GoesOn(p, pos) == phase' = IF pos > BufSize + EndSize THEN "undefined" ELSE p

-----------------------------------------------------------------------------
(* The script prints (ub_write, to STDOUT) and logs (to STDERR).  PHP      *)
(* discards output once the connection is aborted; the log goes on.        *)

Calls ==
    /\ phase = "serving" /\ want = 0 /\ todo.left = 0
    /\ calls < MaxCalls
    /\ calls' = calls + 1

MayWrite(type) == Calls /\ (type = "STDOUT" => ~aborted)

Says(type, len) == said' = [said EXCEPT ![type] = @ + len]

(* the three branches of fcgi_write                                        *)
WriteFits(type, len) ==
    LET b == Switched(type)
    IN  /\ MayWrite(type)
        /\ len < Limit(b)
        /\ out' = Filled(Ready(b, type, said[type]), len)
        /\ GoesOn(phase, out'.pos)
        /\ Says(type, len)
        /\ UNCHANGED <<open, keep, req, gone, serial, early, input, reading, todo, aborted, answer>>

WriteSpills(type, len, ok) ==
    LET b     == Switched(type)
        limit == Limit(b)
        full  == close_packet(Filled(Ready(b, type, said[type]), limit))
    IN  /\ MayWrite(type)
        /\ len >= limit /\ len - limit < BufSize - Header
        /\ Goes(ok, Leaving(full.recs))
        /\ out' = CASE ok /\ len > limit ->
                          Filled(open_packet(Empty, type, said[type] + limit), len - limit)
                    [] ok /\ len = limit -> Empty
                    [] ~ok               -> full
        /\ GoesOn(phase, full.pos)
        /\ aborted' = (aborted \/ (~ok /\ type = "STDOUT"))
        /\ Says(type, len)
        /\ UNCHANGED <<open, req, serial, early, input, reading, todo>>

WriteDirect(type, len) ==
    LET b == Switched(type)
    IN  /\ MayWrite(type)
        /\ len - Limit(b) >= BufSize - Header
        /\ out' = close_packet(b)
        /\ todo' = [type |-> type, left |-> len]
        /\ Says(type, len)
        /\ UNCHANGED <<conn, input, reading, aborted, answer>>

(* one turn of its loop, and what follows it: a header through the buffer, *)
(* the bytes past it                                                       *)
Direction(len, ok, rest) ==
    LET type == todo.type
        from == said[type] - todo.left
        top  == [open_packet(out, type, from) EXCEPT !.hdr = FALSE]
    IN  /\ Goes(ok, Leaving(out.recs) \o <<Direct(type, from, len)>>)
        /\ out' \in CASE ok /\ rest = 0 -> {Empty}
                      [] ok /\ rest > 0 -> {Filled(open_packet(Empty, type, from + len), rest)}
                      [] OTHER          -> {Empty, top}
        /\ GoesOn(phase, top.pos)
        /\ todo' = IF ok /\ todo.left > len + rest
                    THEN [todo EXCEPT !.left = @ - len - rest] ELSE Idle
        /\ aborted' = (aborted \/ (~ok /\ type = "STDOUT"))
        /\ UNCHANGED <<open, req, serial, early, input, reading, said, calls>>

DirectChunk(ok) ==
    /\ phase = "serving" /\ todo.left > MaxLength
    /\ Direction(MaxLength - (Header - 1), ok, 0)

RestOfPad(len)   == Pad(len)
RestAligned(len) == len % Header     \* pad ? 8 - pad : 0

DirectLast(ok) ==
    /\ phase = "serving" /\ todo.left \in 1..MaxLength
    /\ LET rest == RestAligned(todo.left)
       IN  Direction(todo.left - rest, ok, rest)

Write ==
    \/ \E type \in Types : \E len \in Lengths[type] :
        \/ WriteFits(type, len)
        \/ \E ok \in BOOLEAN : WriteSpills(type, len, ok)
        \/ WriteDirect(type, len)
    \/ \E ok \in BOOLEAN : DirectChunk(ok) \/ DirectLast(ok)

(* fcgi_flush                                                              *)
EndAlways(close) == <<End>>
EndRecord(close) == IF close THEN <<End>> ELSE <<>>

Flushed(close, ok, p) ==
    LET b == close_packet(out)
    IN  /\ Goes(ok, Leaving(b.recs) \o EndRecord(close))
        /\ out' = IF ok THEN Empty ELSE b
        /\ GoesOn(p, b.pos + (IF close THEN EndSize ELSE 0))

(* sapi_cgibin_flush, called by the script                                 *)
Flush(ok) ==
    /\ Calls
    /\ Flushed(FALSE, ok, "serving")
    /\ aborted' = (aborted \/ ~ok)
    /\ UNCHANGED <<open, req, serial, early, input, reading, todo, said>>

(* fcgi_close with force 0: a connection not kept is drained and closed    *)
Stays(ok) == open /\ KeepAfter(ok)

Closed(ok) ==
    /\ open' = Stays(ok)
    /\ IF Stays(ok) THEN UNCHANGED <<stream, off, eof>>
       ELSE stream' = <<>> /\ off' = 0 /\ eof' = FALSE

(* fastcgi_finish_request: the answer ends, the script goes on             *)
FinishEarly(ok) ==
    /\ Calls /\ open
    /\ Flushed(TRUE, ok, "serving")
    /\ Closed(ok)
    /\ early' = (early \/ Stays(ok))
    /\ UNCHANGED <<req, serial, in_len, in_pad, taken, asked, reading,
                   todo, aborted, said>>

-----------------------------------------------------------------------------
(* The web server.  A request is a BEGIN record, PARAMS up to an empty     *)
(* one, STDIN up to an empty one; `have` bytes of a record have been sent. *)

Record(r, k, type, len, pad) ==
    [type |-> type, len |-> len, pad |-> pad, have |-> Header + len + pad,
     request |-> r, serial |-> k]

Size(rec) == Header + rec.len + rec.pad

Records(r, k) ==
    CASE r.kind = "request" ->
           <<Record(r, k, "BEGIN", Header, 0), Record(r, k, "PARAMS", Header, 0),
             Record(r, k, "PARAMS", 0, 0)>>
           \o [i \in DOMAIN r.body |->
                 Record(r, k, "STDIN", r.body[i].len, r.body[i].pad)]
           \o <<Record(r, k, "STDIN", 0, 0)>>
      [] r.kind = "values" -> <<Record(r, k, "VALUES", Header, 0)>>
      [] r.kind = "other"  -> <<Record(r, k, "OTHER", 0, 0)>>

(* what is sent of a request that is cut short in its i-th record          *)
Cut(recs, i, have) ==
    IF have = 0 THEN SubSeq(recs, 1, i - 1)
    ELSE [SubSeq(recs, 1, i) EXCEPT ![i].have = have]

CutPlaces(rec) == {0, Header - 1, Header, Size(rec) - 1} \cap 0..(Size(rec) - 1)

Sends(r) ==
    /\ asked < MaxRequests
    /\ asked' = asked + 1
    /\ answer' = <<>>
    /\ LET recs == Records(r, asked + 1)
       IN  \/ stream' = stream \o recs /\ eof' = FALSE
           \/ /\ \E i \in DOMAIN recs : \E have \in CutPlaces(recs[i]) :
                    stream' = stream \o Cut(recs, i, have)
              /\ eof' = TRUE
    /\ IF Serving THEN UNCHANGED <<said, taken>>
       ELSE said' = [type \in Types |-> 0] /\ taken' = 0
    /\ UNCHANGED <<keep, req, serial, off, in_pad, reading, todo, aborted,
                   calls>>

(* on a new connection, which fcgi_accept_request goes on to read:         *)
(* fcgi_read_request begins with an empty buffer and no record (it resets  *)
(* keep as well, and nobody looks before Begin sets it)                    *)
Connect(r) ==
    /\ phase = "accept"
    /\ phase' = "reading"
    /\ open' = TRUE
    /\ in_len' = 0
    /\ out' = Empty
    /\ gone' = FALSE /\ early' = FALSE
    /\ Sends(r)

(* or on the one kept, once the last request has been answered             *)
Answered == asked = serial /\ \E i \in DOMAIN answer : answer[i].type = "END"

AskAgain(r) ==
    /\ Serving \/ phase = "reading"
    /\ open /\ ~eof /\ req.keep
    /\ Answered
    /\ Sends(r)
    /\ UNCHANGED <<phase, open, gone, early, in_len, out>>

(* it closes its side; only a worker that reads can tell when              *)
HangUp ==
    /\ open /\ ~eof
    /\ InCall \/ phase \in {"reading", "params"}
    /\ eof' = TRUE
    /\ UNCHANGED <<conn, stream, off, in_len, in_pad, taken, asked, reading,
                   output, calls>>

WebServer == HangUp \/ \E r \in Requests : Connect(r) \/ AskAgain(r)

-----------------------------------------------------------------------------
(* fcgi_read_request, one header a step.  safe_read waits for all it is    *)
(* asked for; it comes back with less at the end of the stream only.       *)

Front == stream[1]

InStep  == stream # <<>> /\ off = 0
HasHdr  == InStep /\ Front.have >= Header
HasAll  == InStep /\ Front.have = Size(Front)
Ends    == eof /\ ~HasHdr

Consume == stream' = Tail(stream) /\ off' = 0

(* an empty STDIN left of the request before                               *)
SkipStdin ==
    /\ phase = "reading" /\ HasHdr
    /\ Front.type = "STDIN" /\ Front.len = 0
    /\ Consume
    /\ UNCHANGED <<conn, reading, in_len, in_pad, taken, eof, asked, output, calls>>

Begin ==
    /\ phase = "reading" /\ HasAll
    /\ Front.type = "BEGIN"
    /\ phase' = "params"
    /\ req' = Front.request
    /\ serial' = Front.serial
    /\ keep' = Front.request.keep
    /\ Consume
    /\ UNCHANGED <<open, gone, early, in_len, in_pad, taken, eof, asked, reading,
                   output, calls>>

(* fcgi_get_params: a pair that goes on in the next record is malformed    *)
GetParams(rec) == ~rec.request.split

Params ==
    /\ phase = "params" /\ HasAll
    /\ Front.type = "PARAMS" /\ Front.len > 0
    /\ GetParams(Front)
    /\ Consume
    /\ UNCHANGED <<conn, in_len, in_pad, taken, eof, asked, reading, output, calls>>

(* any other header ends them, and the request is served: init_request_info *)
(* and php_request_startup                                                 *)
Serve ==
    /\ phase = "params" /\ HasHdr
    /\ ~(Front.type = "PARAMS" /\ Front.len > 0)
    /\ phase' = "serving"
    /\ Consume
    /\ read_post_bytes' = 0 /\ taken' = 0 /\ aborted' = FALSE
    /\ said' = [type \in Types |-> 0]
    /\ UNCHANGED <<open, keep, req, gone, serial, early, in_len, in_pad, eof,
                   asked, want, n, out, todo, answer, calls>>

(* fcgi_read_request fails: fcgi_close with force                          *)
Values == [type |-> "VALUES", serial |-> 0, from |-> 0, len |-> Header,
           pad |-> 0]

Refused ==
    \/ phase = "reading" /\ HasHdr /\ Front.type = "STDIN" /\ Front.len > 0
    \/ phase = "reading" /\ HasHdr /\ Front.type \in {"PARAMS", "OTHER"}
    \/ phase = "reading" /\ HasHdr /\ Front.type \in {"BEGIN", "VALUES"} /\ ~HasAll
    \/ phase = "params" /\ HasHdr /\ Front.type = "PARAMS" /\ Front.len > 0
          /\ (HasAll => ~GetParams(Front))
    \/ phase \in {"reading", "params"} /\ Ends

Dropped ==
    /\ phase' = "accept"
    /\ open' = FALSE
    /\ stream' = <<>> /\ off' = 0 /\ eof' = FALSE

Refuse ==
    /\ Refused
    /\ Dropped
    /\ UNCHANGED <<keep, req, gone, serial, early, in_len, in_pad, taken, asked,
                   reading, output, calls>>

(* FCGI_GET_VALUES is answered, and the connection closed all the same     *)
GetValues ==
    /\ phase = "reading" /\ HasAll /\ Front.type = "VALUES"
    /\ answer' \in {answer, Append(answer, Values)}
    /\ Dropped
    /\ UNCHANGED <<keep, req, gone, serial, early, in_len, in_pad, taken, asked,
                   reading, out, todo, aborted, said, calls>>

-----------------------------------------------------------------------------
(* The body.  sapi_cgi_read_post asks fcgi_read again until it has `want`  *)
(* bytes or gets none; PHP adds what it returns to read_post_bytes.        *)

Least(i, j) == IF i < j THEN i ELSE j

Unread(count) == Least(count, req.content_length - read_post_bytes)

ReadPost(count) ==
    /\ Calls /\ ~req.filed
    /\ want' = Unread(count)
    /\ UNCHANGED <<conn, input, n, read_post_bytes, output>>

(* request_body_fd: the file can be read, or cannot be opened              *)
ReadFile(count) ==
    /\ Calls /\ req.filed
    /\ read_post_bytes' \in {read_post_bytes, read_post_bytes + Unread(count)}
    /\ UNCHANGED <<conn, input, want, n, output>>

(* fcgi_read returns                                                       *)
Return(v) ==
    /\ n' = 0
    /\ IF v > 0
       THEN read_post_bytes' = read_post_bytes + v /\ want' = want - v
       ELSE read_post_bytes' = read_post_bytes /\ want' = 0

ReadHeader ==
    /\ InCall /\ open /\ in_len = 0 /\ HasHdr
    /\ IF Front.type = "STDIN"
       THEN /\ in_len' = Front.len /\ in_pad' = Front.pad
            /\ IF Front.len = 0
               THEN Consume /\ Return(n)
               ELSE off' = Header /\ UNCHANGED <<stream, reading>>
            /\ UNCHANGED keep
       ELSE /\ off' = Header
            /\ keep' = FALSE
            /\ Return(0)
            /\ UNCHANGED <<stream, in_len, in_pad>>
    /\ UNCHANGED <<phase, open, req, gone, serial, early, eof, taken, asked,
                   output, calls>>

(* what has been read in this call already is not returned                 *)
ReadHeaderFails ==
    /\ InCall /\ in_len = 0
    /\ ~open \/ Ends \/ gone
    /\ keep' = FALSE
    /\ Return(0)
    /\ UNCHANGED <<phase, open, req, gone, serial, early, input, output, calls>>

Portion == Least(in_len, want - n)
There   == IF stream = <<>> THEN 0 ELSE Front.have - off

LastPortion(k) == k
InAll(k)       == n + k

PadForgotten == 0
PadToRead    == in_pad

ReadData ==
    LET k    == Portion
        pad  == IF in_len = k THEN PadToRead ELSE 0
        over == off + k + pad
    IN  /\ InCall /\ open /\ in_len > 0
        /\ There >= k
        /\ in_len' = in_len - k
        /\ taken' = taken + k
        /\ IF There < k + pad
           THEN keep' = FALSE /\ Return(k) /\ off' = off + k /\ UNCHANGED stream
           ELSE /\ UNCHANGED keep
                /\ IF over = Size(Front) THEN Consume
                   ELSE off' = over /\ UNCHANGED stream
                /\ IF n + k = want THEN Return(InAll(k))
                   ELSE n' = n + k /\ UNCHANGED <<want, read_post_bytes>>
        /\ UNCHANGED <<phase, open, req, gone, serial, early, in_pad, eof, asked,
                       output, calls>>

(* less than a portion, nothing, or an error                               *)
ReadDataFails ==
    /\ InCall /\ in_len > 0
    /\ \/ /\ eof /\ open /\ There < Portion
          /\ in_len' = in_len - There
          /\ taken' = taken + There
          /\ off' = off + There
          /\ Return(InAll(There))
          /\ UNCHANGED keep
       \/ /\ eof \/ gone \/ ~open
          /\ keep' = FALSE
          /\ Return(-1)
          /\ UNCHANGED <<in_len, taken, off>>
    /\ UNCHANGED <<phase, open, req, gone, serial, early, stream, in_pad, eof,
                   asked, output, calls>>

Read ==
    \/ \E count \in ReadSizes : ReadPost(count) \/ ReadFile(count)
    \/ ReadHeader \/ ReadHeaderFails \/ ReadData \/ ReadDataFails

-----------------------------------------------------------------------------
(* The end of a request: php_request_shutdown reads what is left of the    *)
(* body (sapi_deactivate, with request_body_fd -2, so never from the file) *)
(* and flushes; then fcgi_finish_request.                                  *)

Unspent == req.content_length - read_post_bytes

ScriptEnds ==
    /\ phase = "serving" /\ want = 0 /\ todo.left = 0
    /\ phase' = "draining"
    /\ want' = Unspent
    /\ UNCHANGED <<open, keep, req, gone, serial, early, input, n,
                   read_post_bytes, output, calls>>

Deactivate(ok) ==
    /\ phase = "draining" /\ want = 0
    /\ Flushed(FALSE, ok, "finishing")
    /\ aborted' = (aborted \/ ~ok)
    /\ UNCHANGED <<open, req, serial, early, input, reading, todo, said, calls>>

FinishRequest(ok) ==
    /\ phase = "finishing" /\ open
    /\ Closed(ok)
    /\ Flushed(TRUE, ok, IF Stays(ok) THEN "reading" ELSE "accept")
    /\ in_len' = 0
    /\ UNCHANGED <<req, serial, early, in_pad, taken, asked, reading, todo,
                   aborted, said, calls>>

FinishedBefore ==
    /\ phase = "finishing" /\ ~open
    /\ phase' = "accept"
    /\ UNCHANGED <<open, keep, req, gone, serial, early, input, reading, output, calls>>

Init ==
    /\ phase = "accept" /\ open = FALSE /\ keep = FALSE /\ gone = FALSE
    /\ req = (CHOOSE r \in Requests : TRUE) /\ serial = 0 /\ early = FALSE
    /\ stream = <<>> /\ off = 0 /\ eof = FALSE
    /\ in_len = 0 /\ in_pad = 0 /\ taken = 0 /\ asked = 0
    /\ want = 0 /\ n = 0 /\ read_post_bytes = 0
    /\ out = Empty /\ todo = Idle
    /\ aborted = FALSE /\ answer = <<>>
    /\ said = [type \in Types |-> 0]
    /\ calls = 0

Next ==
    \/ WebServer
    \/ SkipStdin \/ Begin \/ Params \/ Serve \/ Refuse \/ GetValues
    \/ Write \/ Read
    \/ \E ok \in BOOLEAN : Flush(ok) \/ FinishEarly(ok) \/ Deactivate(ok) \/ FinishRequest(ok)
    \/ ScriptEnds \/ FinishedBefore

Spec == Init /\ [][Next]_vars

-----------------------------------------------------------------------------
Rec == [type : Types, from : Nat, len : Nat, pad : 0..(Header - 1), at : Nat]

(* Types.  All the code counts with is a natural number: nothing left of a *)
(* record, of a body or of a call is ever less than zero.                  *)
TypeOK ==
    /\ phase \in Phases
    /\ open \in BOOLEAN /\ keep \in BOOLEAN /\ gone \in BOOLEAN /\ eof \in BOOLEAN
    /\ early \in BOOLEAN /\ aborted \in BOOLEAN
    /\ req \in Requests /\ serial \in Nat /\ asked \in Nat /\ calls \in Nat
    /\ off \in Nat /\ in_len \in Nat /\ in_pad \in Nat /\ taken \in Nat
    /\ want \in Nat /\ n \in Nat /\ read_post_bytes \in Nat
    /\ out.pos \in Nat /\ out.hdr \in BOOLEAN /\ out.recs \in Seq(Rec)
    /\ out.hdr => out.recs # <<>>
    /\ todo \in [type : Types, left : Nat]
    /\ said \in [Types -> Nat]

(* Room for the end: as long as the connection works, what is packed ends  *)
(* within out_buf, on a multiple of 8 unless a packet is open, so that     *)
(* fcgi_flush finds its END_REQUEST record in the bytes reserved behind    *)
(* out_buf, whatever was printed and logged in whatever portions           *)
(* (fcgi_write's limits, fcgi_make_header's padding).                      *)
EndFits ==
    open /\ ~gone =>
        /\ phase # "undefined"
        /\ out.pos <= BufSize
        /\ ~out.hdr => out.pos % Header = 0

(* The records packed lie one behind the other and out_pos is behind the   *)
(* last; headers lie at multiples of 8, in the buffer and in what has been *)
(* sent, and never announce more than a header can say.  Types included.   *)
Framed ==
    /\ TypeOK
    /\ open /\ ~gone =>
        /\ \A i \in DOMAIN out.recs :
              LET r == out.recs[i]
              IN  /\ r.at % Header = 0
                  /\ r.at + Header + r.len + r.pad =
                        IF i = Len(out.recs) THEN out.pos ELSE out.recs[i + 1].at
        /\ \A i \in DOMAIN answer :
              /\ answer[i].len <= MaxLength
              /\ (answer[i].len + answer[i].pad) % Header = 0

(* What the web server has got of each stream, and behind it what is       *)
(* packed, is what the script has handed over: all of it, once, in order,  *)
(* whichever branch of fcgi_write took it, and whole when END_REQUEST      *)
(* comes.                                                                  *)
Mine(recs, type, k) == {i \in DOMAIN recs : recs[i].type = type /\ recs[i].serial = k}

(* the last of some records ends at that byte                              *)
Reaches(recs, some, at) ==
    \/ some = {} /\ at = 0
    \/ \E i \in some : /\ \A j \in some : j <= i
                       /\ at = recs[i].from + recs[i].len

Covers(recs, type, k, upto) ==
    LET mine == Mine(recs, type, k)
    IN  /\ \A i \in mine : Reaches(recs, {j \in mine : j < i}, recs[i].from)
        /\ Reaches(recs, mine, upto)

OutputIntact ==
    open /\ ~gone /\ asked = serial /\ (Serving \/ phase = "reading") =>
        \A t \in Types :
            Covers(answer \o Leaving(out.recs), t, serial,
                   said[t] - (IF todo.type = t THEN todo.left ELSE 0))

(* What the web server gets answers the request it sent last, with one     *)
(* END_REQUEST, at the end; except on a kept connection on which a script  *)
(* has called fastcgi_finish_request, see the README.                      *)
AnswersMatch ==
    ~early =>
        \A i \in DOMAIN answer :
            /\ answer[i].type # "VALUES" => answer[i].serial = asked
            /\ answer[i].type = "END" => i = Len(answer)

(* What the web server is taken to do, for the two properties below: it    *)
(* knows how long a body is before it sends it, so that at the end of      *)
(* every record CONTENT_LENGTH tells what is left; a body in a file it     *)
(* does not send.                                                          *)
Tells(r, left) ==
    /\ left[0] = IF r.filed THEN 0 ELSE r.content_length
    /\ left[Len(r.body)] = 0
    /\ \A i \in DOMAIN r.body : left[i - 1] = r.body[i].len + left[i]

KnowsLength ==
    \A r \in Requests : r.kind = "request" =>
        \E left \in [0 .. Len(r.body) -> 0 .. r.content_length] : Tells(r, left)

(* The worker looks for a header only where one begins: on a kept          *)
(* connection it never takes a body, padding or the rest of the request    *)
(* before for the next request; and it looks for none on a connection on   *)
(* which a write has failed.                                               *)
First(r) == CASE r.kind = "request" -> "BEGIN"
              [] r.kind = "values"  -> "VALUES"
              [] r.kind = "other"   -> "OTHER"

InStepWithServer ==
    /\ open /\ ~eof /\ ~gone =>
        /\ phase \in {"reading", "params"} \/ (InCall /\ in_len = 0) => off = 0
        /\ phase = "reading" /\ stream # <<>> =>
              IF Front.serial = serial
              THEN Front.type = "STDIN" /\ Front.len = 0
              ELSE Front.type = First(Front.request)
    /\ phase \in {"reading", "params"} => ~gone

(* The script gets its body, every byte of it that has been read, and all  *)
(* of it has been read when the request ends, unless the web server went.  *)
BodyDelivered ==
    Serving /\ open /\ ~eof /\ ~gone /\ ~req.filed =>
        /\ taken = read_post_bytes + n
        /\ phase = "finishing" /\ keep => taken = req.content_length

=============================================================================
