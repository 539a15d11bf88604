----------------------------- MODULE Connection -----------------------------
(***************************************************************************)
(* One connection of CivetWeb: a worker reads requests from a client that  *)
(* may send several ahead, in pieces of any size, stop in the middle or    *)
(* hang up; hands them to a handler that may read all, some or nothing of  *)
(* the body; and decides whether the connection can be kept for the next   *)
(* request, which then must be found at the right place of the buffer.     *)
(*                                                                         *)
(* What the client sends is a sequence of units.  A header is two: "head"  *)
(* and "end" (the empty line); the line of a chunk's size, the line break  *)
(* after a chunk and the empty line after the last are one each.  Units of *)
(* a body are any, those of a header included.  A unit knows, for the      *)
(* properties only, the request it belongs to and its place in the body.   *)
(***************************************************************************)
EXTENDS Integers, Sequences

CONSTANTS
  Streams,     \* what a client may send: sequences of units
  BufSize,     \* max_request_size
  ReadSizes,   \* what callbacks ask mg_read for
  DiscardSize  \* MG_BUF_LEN, in discard_unread_request_data

VARIABLES
  out,         \* what the client has still to send
  sock,        \* what has arrived and was not received
  eof,         \* the client has closed its side
  stop,        \* stop_flag # 0
  pc,          \* where the worker is
  buf,         \* conn->buf, of length data_len
  requestLen,  \* conn->request_len
  contentLen,  \* conn->content_len
  consumed,    \* conn->consumed_content
  isChunked,   \* conn->is_chunked: 0 no, 1 yes, 2 error, 3 last chunk, 4 done
  mustClose,   \* conn->must_close
  handled,     \* conn->handled_requests
  back,        \* who called mg_read: "callback" or "discard"
  want,        \* what is left of its len
  ret,         \* what it returned
  body         \* what the callback has got of this request's body

clientVars == <<out, sock, eof, stop>>
lenVars == <<requestLen, contentLen>>
readVars == <<back, want, ret>>
vars == <<clientVars, pc, buf, lenVars, consumed, isChunked, mustClose,
          handled, readVars, body>>
-----------------------------------------------------------------------------
(* What a client sends, for the proofs: it may stop anywhere, but what it sends are *)
(* whole requests, in order.  The units of the framing have no place in a body.     *)

EndUnits == [k : {"end"}, r : Nat, b : {0}, n : Nat,
             framing : {"none", "length", "chunked", "bad"}, keep : BOOLEAN]
Units == [k : STRING, r : Nat, b : Nat, n : Nat] \cup EndUnits

\* Unit i, if it is sent, is of the framing of request r.
Framing(s, i, kinds, r) ==
  i \in DOMAIN s => s[i].k \in kinds /\ s[i].r = r /\ s[i].b = 0

\* Behind unit i come n units of the body of its request, of which c came before.
Content(s, i, n, c) ==
  \A j \in 1 .. n : i + j \in DOMAIN s => s[i + j].r = s[i].r /\ s[i + j].b = c + j

\* How many came before the chunk with its size at i.
Before(s, i) == IF s[i - 1].k = "end" /\ s[i - 1].b = 0 THEN 0 ELSE s[i - 2].b

Follows(s, i, r) ==
  /\ s[i].k = "head" => Framing(s, i + 1, {"end"}, r)
  /\ s[i].k = "end" =>
       /\ s[i] \in EndUnits
       /\ s[i].framing = "none" => Framing(s, i + 1, {"head"}, r + 1)
       /\ s[i].framing = "length" =>
            Content(s, i, s[i].n, 0) /\ Framing(s, i + s[i].n + 1, {"head"}, r + 1)
       /\ s[i].framing = "chunked" => Framing(s, i + 1, {"size", "last"}, r)
  /\ s[i].k = "size" =>
       /\ s[i].n > 0 /\ Content(s, i, s[i].n, Before(s, i))
       /\ Framing(s, i + s[i].n + 1, {"crlf"}, r)
       /\ Framing(s, i + s[i].n + 2, {"size", "last"}, r)
  /\ s[i].k = "last" =>
       /\ Framing(s, i + 1, {"crlf", "field"}, r)
       /\ i + 1 \in DOMAIN s /\ s[i + 1].k = "crlf" => Framing(s, i + 2, {"head"}, r + 1)

Sound(s) ==
  /\ s \in Seq(Units) /\ Framing(s, 1, {"head"}, 1)
  /\ \A i, j \in DOMAIN s : i <= j => s[i].r <= s[j].r
  /\ \A i \in DOMAIN s : s[i].b = 0 => Follows(s, i, s[i].r)

ConnectionAssumption ==
  /\ \A s \in Streams : Sound(s)
  /\ BufSize \in Nat /\ ReadSizes \subseteq Nat /\ DiscardSize \in Nat
-----------------------------------------------------------------------------

\* reset_per_request_attributes
Fresh == /\ requestLen' = 0 /\ contentLen' = -1 /\ consumed' = 0
         /\ isChunked' = 0 /\ mustClose' = FALSE
         /\ ret' = 1 /\ body' = << >>

\* init_connection, and get_message for the first request.
Init ==
  /\ out \in Streams /\ sock = << >> /\ eof = FALSE /\ stop = FALSE
  /\ pc = "message" /\ buf = << >>
  /\ requestLen = 0 /\ contentLen = -1 /\ consumed = 0
  /\ isChunked = 0 /\ mustClose = FALSE /\ handled = 0
  /\ back = "callback" /\ want = 0 /\ ret = 1 /\ body = << >>
-----------------------------------------------------------------------------
(* The client and the application *)

Send == /\ out # << >> /\ ~eof
        /\ \E n \in 1 .. Len(out) :
             /\ sock' = sock \o SubSeq(out, 1, n)
             /\ out' = SubSeq(out, n + 1, Len(out))
        /\ UNCHANGED <<eof, stop, pc, buf, lenVars, consumed, isChunked,
                       mustClose, handled, readVars, body>>

HangUp == /\ ~eof /\ eof' = TRUE
          /\ UNCHANGED <<out, sock, stop, pc, buf, lenVars, consumed, isChunked,
                         mustClose, handled, readVars, body>>

Stop == /\ ~stop /\ stop' = TRUE
        /\ UNCHANGED <<out, sock, eof, pc, buf, lenVars, consumed, isChunked,
                       mustClose, handled, readVars, body>>
-----------------------------------------------------------------------------
(* get_message and get_request *)

\* get_http_header_len: through the first end of a header, zero if there is none.
HeaderLen(b) == LET ends == {i \in DOMAIN b : b[i].k = "end"}
                IN IF ends = {} THEN 0
                   ELSE CHOOSE i \in ends : \A j \in ends : i <= j

\* read_message receives once more, as much as has arrived or fits.
Receive ==
  /\ pc = "message" /\ HeaderLen(buf) = 0 /\ ~stop
  /\ \E n \in 1 .. Len(sock) :
       /\ Len(buf) + n <= BufSize
       /\ n = Len(sock) \/ Len(buf) + n = BufSize
       /\ buf' = buf \o SubSeq(sock, 1, n)
       /\ sock' = SubSeq(sock, n + 1, Len(sock))
  /\ UNCHANGED <<out, eof, stop, pc, lenVars, consumed, isChunked, mustClose,
                 handled, readVars, body>>

\* Mutated: a silent client is waited for.
NoMessagePatient ==
  /\ pc = "message" /\ HeaderLen(buf) = 0
  /\ stop \/ Len(buf) >= BufSize \/ (sock = << >> /\ eof)
  /\ requestLen' = IF Len(buf) >= BufSize THEN -2 ELSE -1
  /\ mustClose' = TRUE /\ pc' = "loop"
  /\ UNCHANGED <<clientVars, buf, contentLen, consumed, isChunked, handled,
                 readVars, body>>

\* No request: the buffer is full, the client has closed or is silent for too
\* long, or the server stops.  An error is answered if anything was received.
NoMessage ==
  /\ pc = "message" /\ HeaderLen(buf) = 0
  /\ stop \/ Len(buf) >= BufSize \/ sock = << >>
  /\ requestLen' = IF Len(buf) >= BufSize THEN -2 ELSE -1
  /\ mustClose' = TRUE /\ pc' = "loop"
  /\ UNCHANGED <<clientVars, buf, contentLen, consumed, isChunked, handled,
                 readVars, body>>

\* The header of the first request in the buffer: what it says of the body is
\* in its end.
GetRequest ==
  /\ pc = "message" /\ HeaderLen(buf) # 0
  /\ requestLen' = HeaderLen(buf)
  /\ LET header == buf[HeaderLen(buf)]
         good == /\ HeaderLen(buf) = 2 /\ buf[1].k = "head"
                 /\ header.framing # "bad"
     IN /\ IF good
           THEN /\ pc' = "handle" /\ UNCHANGED mustClose
                /\ isChunked' = IF header.framing = "chunked" THEN 1 ELSE 0
                /\ contentLen' = IF header.framing = "length" THEN header.n ELSE 0
           ELSE /\ pc' = "loop" /\ mustClose' = TRUE
                /\ UNCHANGED <<isChunked, contentLen>>
  /\ UNCHANGED <<clientVars, buf, consumed, handled, readVars, body>>
-----------------------------------------------------------------------------
(* handle_request, as far as it concerns the connection *)

\* A callback, or something that does not read the body and may want the
\* connection closed.
HandleRequest ==
  /\ pc = "handle"
  /\ \/ pc' = "callback" /\ UNCHANGED mustClose
     \/ pc' = "loop" /\ mustClose' \in BOOLEAN
  /\ UNCHANGED <<clientVars, buf, lenVars, consumed, isChunked, handled,
                 readVars, body>>

\* A callback reads on as long as it gets something.
CallMgRead ==
  /\ pc = "callback" /\ ret > 0
  /\ \E n \in ReadSizes : want' = n
  /\ back' = "callback" /\ ret' = 0 /\ pc' = "read"
  /\ UNCHANGED <<clientVars, buf, lenVars, consumed, isChunked, mustClose,
                 handled, body>>

\* It returns: what it has not read is discarded, unless the connection is to be
\* closed anyway.
CallbackReturns ==
  /\ pc = "callback"
  /\ \E close \in BOOLEAN :
       /\ mustClose' = close
       /\ pc' = IF close THEN "loop" ELSE "discard"
  /\ ret' = 1
  /\ UNCHANGED <<clientVars, buf, lenVars, consumed, isChunked, handled, back,
                 want, body>>

\* discard_unread_request_data
Discard ==
  /\ pc = "discard"
  /\ IF ret > 0 THEN /\ pc' = "read" /\ back' = "discard"
                     /\ want' = DiscardSize /\ ret' = 0
                ELSE pc' = "loop" /\ UNCHANGED readVars
  /\ UNCHANGED <<clientVars, buf, lenVars, consumed, isChunked, mustClose,
                 handled, body>>
-----------------------------------------------------------------------------
(* mg_read *)

Least(a, b) == IF a < b THEN a ELSE b

\* Mutated: the length asked for, whatever is left of the content.
Unbounded(n, len) == n

\* Not more than is left of the content.
Bounded(n, len) ==
  IF consumed < len THEN Least(n, len - consumed) ELSE 0

\* mg_read_inner for a content of length len: first what is in the buffer behind
\* the request, then what arrives before the timeout.  A server that stops
\* receives no more.
Buffered == IF Len(buf) - requestLen - consumed > 0
            THEN SubSeq(buf, requestLen + consumed + 1, Len(buf)) ELSE << >>

Inner(n, len) ==
  LET m == Bounded(n, len)
      b == SubSeq(Buffered, 1, Least(m, Len(Buffered)))
      s == IF stop THEN << >> ELSE SubSeq(sock, 1, Least(m - Len(b), Len(sock)))
  IN [units |-> b \o s, received |-> Len(s)]

Take(r) == /\ consumed' = consumed + Len(r.units)
           /\ sock' = SubSeq(sock, r.received + 1, Len(sock))

Keep(units) == body' = IF back = "callback" THEN body \o units ELSE body

ReturnRead(n) == ret' = n /\ want' = 0 /\ pc' = back

\* Without chunks.  Nothing at all, where something is expected, is an
\* error if the client has hung up or the server begins to stop, and zero after a
\* timeout.
ReadPlain ==
  /\ pc = "read" /\ isChunked = 0
  /\ LET r == Inner(want, contentLen)
         none == r.units = << >> /\ Bounded(want, contentLen) > 0
     IN /\ Take(r) /\ Keep(r.units)
        /\ \/ (none /\ eof => stop) /\ ReturnRead(Len(r.units))
           \/ none /\ (stop \/ eof) /\ ReturnRead(-1)
  /\ UNCHANGED <<out, eof, stop, buf, lenVars, isChunked, mustClose, handled,
                 back>>

\* With chunks, from the head of the loop: done, no more data, or an error.
ReadEnds ==
  /\ pc = "read" /\ isChunked # 0 /\ (want = 0 \/ isChunked > 1)
  /\ ReturnRead(IF isChunked >= 3 /\ want > 0 THEN 0
                ELSE IF isChunked = 2 THEN -1 ELSE ret)
  /\ UNCHANGED <<clientVars, buf, lenVars, consumed, isChunked, mustClose,
                 handled, back, body>>

\* Data of the current chunk and, behind the last of them, the line break: the
\* content grows by the break.
ReadChunk ==
  /\ pc = "read" /\ isChunked = 1 /\ want > 0 /\ consumed # contentLen
  /\ LET r == Inner(want, contentLen)
         n == Len(r.units)
         complete == consumed + n = contentLen
         rest == SubSeq(sock, r.received + 1, Len(sock))
         next == IF Len(Buffered) > n THEN SubSeq(Buffered, n + 1, n + 1)
                 ELSE IF stop THEN << >> ELSE SubSeq(rest, 1, Least(1, Len(rest)))
         broken == n = 0 \/ (complete /\ (next = << >> \/ next[1].k # "crlf"))
         extra == IF complete THEN next ELSE << >>
     IN /\ consumed' = consumed + n + Len(extra)
        /\ sock' = IF Len(Buffered) > n THEN rest
                   ELSE SubSeq(rest, Len(extra) + 1, Len(rest))
        /\ contentLen' = IF complete THEN contentLen + 1 ELSE contentLen
        /\ Keep(r.units)
        /\ IF broken THEN isChunked' = 2 /\ ReturnRead(-1)
           ELSE /\ want' = want - n /\ ret' = ret + n
                /\ UNCHANGED <<isChunked, pc>>
  /\ UNCHANGED <<out, eof, stop, buf, requestLen, mustClose, handled, back>>

\* The line of a chunk's size: the content grows by the line, and by the chunk.
\* Behind the last chunk the empty line is tried; anything else there leaves the
\* request without an end.
ReadSize ==
  /\ pc = "read" /\ isChunked = 1 /\ want > 0 /\ consumed = contentLen
  /\ LET r == Inner(1, contentLen + 1)
         size == r.units # << >> /\ r.units[1].k = "size"
         last == r.units # << >> /\ r.units[1].k = "last"
     IN /\ Take(r)
        /\ contentLen' = contentLen + 1 + (IF size THEN r.units[1].n ELSE 0)
        /\ CASE size -> UNCHANGED <<isChunked, want, ret, pc>>
             [] last -> isChunked' = 3 /\ pc' = "trailer" /\ UNCHANGED <<want, ret>>
             [] OTHER -> isChunked' = 2 /\ ReturnRead(-1)
  /\ UNCHANGED <<out, eof, stop, buf, requestLen, mustClose, handled, back, body>>

ReadTrailer ==
  /\ pc = "trailer"
  /\ LET r == Inner(1, contentLen + 1)
     IN /\ Take(r)
        /\ contentLen' = contentLen + 1
        /\ isChunked' = IF r.units # << >> /\ r.units[1].k = "crlf" THEN 4 ELSE 3
  /\ ReturnRead(ret)
  /\ UNCHANGED <<out, eof, stop, buf, requestLen, mustClose, handled, back, body>>

MgRead == ReadPlain \/ ReadEnds \/ ReadChunk \/ ReadSize \/ ReadTrailer
-----------------------------------------------------------------------------
(* The end of the loop in process_new_connection *)

\* Mutated: a chunked request is complete with its last chunk.
DiscardableLast == \/ isChunked >= 3
                   \/ isChunked = 0 /\ \/ consumed = contentLen
                                       \/ requestLen + contentLen <= Len(buf)

\* The whole request was read, or is in the buffer.
Discardable == \/ isChunked = 4
               \/ isChunked = 0 /\ \/ consumed = contentLen
                                   \/ requestLen + contentLen <= Len(buf)

\* should_keep_alive: the server's needs, then the client's wish.
ShouldKeepAlive == ~mustClose /\ buf[requestLen].keep

\* The stop is only looked at here; the buffer moves up by what belongs to this
\* request.
NextRequest ==
  /\ pc = "loop"
  /\ ~stop /\ contentLen >= 0 /\ requestLen > 0 /\ ShouldKeepAlive /\ Discardable
  /\ buf' = SubSeq(buf, Least(requestLen + contentLen, Len(buf)) + 1, Len(buf))
  /\ handled' = handled + 1
  /\ pc' = "message" /\ Fresh
  /\ UNCHANGED <<clientVars, back, want>>

\* close_connection
Close ==
  /\ pc = "loop"
  /\ \/ stop \/ contentLen < 0 \/ requestLen <= 0
     \/ (requestLen > 0 /\ ~(ShouldKeepAlive /\ Discardable))
  /\ pc' = "closed"
  /\ UNCHANGED <<clientVars, buf, lenVars, consumed, isChunked, mustClose,
                 handled, readVars, body>>
-----------------------------------------------------------------------------
Worker == \/ Receive \/ NoMessage \/ GetRequest \/ HandleRequest \/ CallMgRead
          \/ CallbackReturns \/ Discard \/ MgRead \/ NextRequest \/ Close

Next == pc # "closed" /\ (Send \/ HangUp \/ Stop \/ Worker)

\* The worker runs: its waits have timeouts.
Spec == Init /\ [][Next]_vars /\ WF_vars(Worker)
-----------------------------------------------------------------------------
Places == {"message", "handle", "callback", "discard", "read", "trailer",
           "loop", "closed"}

TypeOK ==
  /\ pc \in Places /\ isChunked \in 0 .. 4 /\ mustClose \in BOOLEAN
  /\ Len(buf) <= BufSize /\ requestLen \in -2 .. Len(buf)
  /\ contentLen \in Nat \cup {-1} /\ consumed \in Nat /\ handled \in Nat
  /\ pc \in {"callback", "discard", "read", "trailer"} => contentLen >= consumed

(***************************************************************************)
(* The worker stays in step with the client: what it takes for the n-th    *)
(* request of a connection is the n-th request the client has sent, never  *)
(* a part of a body, whatever the callbacks have read of the bodies before *)
(* and however the units arrived.                                          *)
(***************************************************************************)
InStep ==
  pc = "handle" => \A i \in 1 .. 2 : buf[i].r = handled + 1 /\ buf[i].b = 0

(***************************************************************************)
(* What a callback gets from mg_read is the body of its own request from   *)
(* the beginning: without the framing of the chunks, nothing twice, nothing *)
(* left out, nothing of the next request.                                  *)
(***************************************************************************)
BodyIsTheClients ==
  \A i \in DOMAIN body : body[i].r = handled + 1 /\ body[i].b = i

(***************************************************************************)
(* A connection is only kept when its request was used up: everything that *)
(* is in the buffer then, has arrived or is still to be sent belongs to a  *)
(* later request.  A body cut by a timeout, a handler that does not read,  *)
(* or chunks without their end close it.                                   *)
(***************************************************************************)
KeptIsComplete ==
  NextRequest => \A i \in DOMAIN (buf' \o sock \o out) :
                   (buf' \o sock \o out)[i].r > handled + 1

\* Every connection is closed in the end, however slow the client is.
ConnectionEnds == <>(pc = "closed")
=============================================================================
