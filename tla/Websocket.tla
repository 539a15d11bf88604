------------------------------ MODULE Websocket ------------------------------
(***************************************************************************)
(* A websocket between a server and the client of civetweb.c, from the     *)
(* handshake to the close: at each end a thread in read_websocket, and a   *)
(* thread of the application that sends messages and may close.            *)
(*                                                                         *)
(* A frame is a sequence of units, of a kind k and a value v, as long as   *)
(* its bytes would be.  Lengths have digits to the base Base; lengths from *)
(* Inline (126 in the code) on have two of them, if these are enough, or   *)
(* eight.                                                                  *)
(***************************************************************************)
EXTENDS Integers, Sequences, SequencesExt, FiniteSetsExt

CONSTANTS
  Sends,      \* for each end, the messages [op, n] its application sends, n units long
  Inline, Base,
  Room,       \* what is free of conn->buf behind the request
  Mem,        \* how much data read_websocket has room for without allocating
  ReadSizes,  \* what a recv may return at once
  PingPong,   \* enable_websocket_ping_pong
  MaxPing,    \* MG_MAX_UNANSWERED_PING
  MaxSlow,    \* bounds the timeouts of an end
  Cuts        \* for each end, whose write may be cut, and after how many units; once

VARIABLES
  wire,    \* what an end has sent and the other has not received
  open,    \* an end has not closed its socket
  reader,  \* the thread in read_websocket
  app,     \* the thread of the application
  lock,    \* the mutex of the connection: who holds it
  sent,    \* history: the messages the application has sent
  got,     \* history: the messages given to the callback
  torn     \* history: 0, or one more than the whole messages an end had sent when a write was cut

Ends == {"server", "client"}
Other(e) == IF e = "server" THEN "client" ELSE "server"

Close == 8
Ping == 9
Pong == 10

Unit(k, v, x) == [k |-> k, v |-> v, x |-> x]
Response == Unit("response", 0, 0)
-----------------------------------------------------------------------------
(* mg_websocket_write_exec *)

\* n without its last digits, for every number of them.
Shifts(n) == LET s[k \in 0 .. 8] == IF k = 0 THEN n ELSE s[k - 1] \div Base IN s

Digits(n, count) == [i \in 1 .. count |-> Unit("ext", Shifts(n)[count - i] % Base, 0)]

\* The client's application masks what it sends; read_websocket masks nothing.
Masks(e, who) == e = "client" /\ who = "app"

Header(e, who, op, n) ==
  LET masked == IF Masks(e, who) THEN 1 ELSE 0
      lengthField ==
        CASE n < Inline -> <<Unit("len", n, masked)>>
          [] n >= Inline /\ Shifts(n)[2] = 0 -> <<Unit("len", Inline, masked)>> \o Digits(n, 2)
          [] OTHER -> <<Unit("len", Inline + 1, masked)>> \o Digits(n, 8)
  IN <<Unit("op", op, 0)>> \o lengthField
     \o IF masked = 1 THEN [j \in 1 .. 4 |-> Unit("mask", j, 0)] ELSE << >>

\* A byte of data is masked with the byte x of the key, or not (0).
Masked(e, who, data) ==
  IF Masks(e, who) THEN [i \in DOMAIN data |-> [data[i] EXCEPT !.x = ((i - 1) % 4) + 1]] ELSE data

Data(id, n) == [i \in 1 .. n |-> Unit("data", 10 * id + i, 0)]

\* Mutated: whoever holds it.
MayLockAlways(e) == TRUE

MayLock(e) == lock[e] = ""

\* The header; the connection stays locked until the data is sent, too.
SendHeader(e, who, op, n) ==
  /\ MayLock(e)
  /\ wire' = [wire EXCEPT ![e] = @ \o Header(e, who, op, n)]
  /\ lock' = [lock EXCEPT ![e] = who]
  /\ UNCHANGED torn

SendData(e, who, data) ==
  /\ wire' = [wire EXCEPT ![e] = @ \o Masked(e, who, data)]
  /\ lock' = [lock EXCEPT ![e] = ""]
  /\ UNCHANGED torn

\* push_all: of a header, or of the data behind one, only n units could be sent before the
\* time was up or there was an error.  The connection is unlocked in any case: the next frame
\* follows what there is of this one.  (When the other end has closed, nobody reads it.)
SendFails(e, who, units, n) ==
  /\ lock[e] \in {"", who} /\ n \in 0 .. Len(units) - 1
  /\ lock' = [lock EXCEPT ![e] = ""]
  /\ IF open[Other(e)] /\ (n > 0 \/ lock[e] = who)
     THEN /\ torn[e] = 0 /\ <<who, n>> \in Cuts[e]
          /\ wire' = [wire EXCEPT ![e] = @ \o SubSeq(units, 1, n)]
          /\ torn' = [torn EXCEPT ![e] = IF who = "app" /\ lock[e] = who THEN Len(sent[e]) ELSE Len(sent[e]) + 1]
     ELSE UNCHANGED <<wire, torn>>
-----------------------------------------------------------------------------
(* read_websocket *)

Free == [pc |-> "idle", buf |-> << >>, op |-> 0, need |-> 0, data |-> << >>, mask |-> << >>,
         pings |-> 0, slow |-> 0, mustClose |-> FALSE, stop |-> FALSE]

\* [header, length] of the frame that buf begins with; header 0 if it is cut.
Value(units) ==
  LET v[i \in 0 .. Len(units)] == IF i = 0 THEN 0 ELSE Base * v[i - 1] + units[i].v
  IN v[Len(units)]
MaskLen(buf) == IF buf[2].x = 1 THEN 4 ELSE 0
Frame(buf) ==
  LET len == buf[2].v
      m == MaskLen(buf)
      body == Len(buf)
  IN IF body < 2 THEN [header |-> 0, length |-> 0]
     ELSE IF len < Inline /\ body >= m THEN [header |-> 2 + m, length |-> len]
     ELSE IF len = Inline /\ body >= 4 + m
          THEN [header |-> 4 + m, length |-> Value(SubSeq(buf, 3, 4))]
     ELSE IF body >= 10 + m THEN [header |-> 10 + m, length |-> Value(SubSeq(buf, 3, 10))]
     ELSE [header |-> 0, length |-> 0]

Complete(buf) == Frame(buf).header \in 1 .. Len(buf)

Unmask(data, mask) ==
  [i \in DOMAIN data |->
    IF mask = << >> THEN data[i]
    ELSE LET key == mask[((i - 1) % 4) + 1]
         IN IF key.k = "mask" /\ data[i].x = key.v THEN [data[i] EXCEPT !.x = 0]
            ELSE [data[i] EXCEPT !.x = -1]]

Set(e, r) == reader' = [reader EXCEPT ![e] = r]

\* What happens with a frame, of which r holds the opcode and the data.
Deliver(e, r) ==
  LET op == r.op
      data == Unmask(r.data, r.mask)
      clear == [r EXCEPT !.data = << >>, !.mask = << >>, !.need = 0, !.op = 0]
  IN CASE PingPong /\ op = Pong -> Set(e, [clear EXCEPT !.pc = "loop", !.pings = 0])
                                   /\ UNCHANGED got
       [] PingPong /\ op = Ping -> Set(e, [clear EXCEPT !.pc = "pong", !.data = data])
                                   /\ UNCHANGED got
       [] OTHER -> /\ \E goOn \in BOOLEAN :
                        Set(e, [clear EXCEPT !.pc = IF goOn /\ op # Close THEN "loop" ELSE "left"])
                   /\ got' = [got EXCEPT ![e] = Append(@, [op |-> op, data |-> data])]

GoesOn(e) == ~reader[e].stop /\ ~reader[e].mustClose

Leave(e) ==
  /\ reader[e].pc = "loop" /\ ~GoesOn(e)
  /\ Set(e, [reader[e] EXCEPT !.pc = "left"])
  /\ UNCHANGED <<wire, open, app, lock, sent, got, torn>>

\* A frame whose header is there: all of it, or the rest has to be read first.
TakeFrame(e) ==
  LET r == reader[e]
      f == Frame(r.buf)
      m == MaskLen(r.buf)
      start == [r EXCEPT !.op = r.buf[1].v, !.mask = SubSeq(r.buf, f.header - m + 1, f.header)]
      whole == f.header + f.length
  IN /\ r.pc = "loop" /\ GoesOn(e) /\ Complete(r.buf)
     /\ IF whole > Len(r.buf)
        THEN Set(e, [start EXCEPT !.pc = "rest", !.need = f.length, !.buf = << >>,
                                  !.data = SubSeq(r.buf, f.header + 1, Len(r.buf))])
             /\ UNCHANGED got
        ELSE Deliver(e, [start EXCEPT !.data = SubSeq(r.buf, f.header + 1, whole),
                                      !.buf = SubSeq(r.buf, whole + 1, Len(r.buf))])
     /\ UNCHANGED <<wire, open, app, lock, sent, torn>>

\* There is no memory for the data.
NoMemory(e) ==
  LET r == reader[e]
  IN /\ r.pc = "loop" /\ GoesOn(e) /\ Complete(r.buf) /\ Frame(r.buf).length > Mem
     /\ Set(e, [r EXCEPT !.pc = "left"])
     /\ UNCHANGED <<wire, open, app, lock, sent, got, torn>>

\* pull_inner, for want bytes: some of them, an error (-2) or a timeout.
Pieces(e, want) == {Min({want, Len(wire[Other(e)]), size}) : size \in ReadSizes}
Receive(e, n) == wire' = [wire EXCEPT ![Other(e)] = SubSeq(@, n + 1, Len(@))]
Received(e, n) == SubSeq(wire[Other(e)], 1, n)
PullFails(e, want) ==
  reader[e].stop \/ (wire[Other(e)] = << >> /\ ~open[Other(e)]) \/ (wire[Other(e)] # << >> /\ want = 0)
Silent(e) == ~reader[e].stop /\ wire[Other(e)] = << >> /\ open[Other(e)]

Reading(e) == reader[e].pc = "loop" /\ GoesOn(e) /\ ~Complete(reader[e].buf)

Pull(e) ==
  LET r == reader[e]
      want == Room - Len(r.buf)
  IN /\ Reading(e) /\ ~r.stop /\ wire[Other(e)] # << >> /\ want > 0
     /\ \E n \in Pieces(e, want) :
          /\ Set(e, [r EXCEPT !.buf = @ \o Received(e, n), !.pings = 0])
          /\ Receive(e, n)
     /\ UNCHANGED <<open, app, lock, sent, got, torn>>

PullRest(e) ==
  LET r == reader[e]
      want == r.need - Len(r.data)
  IN /\ r.pc = "rest" /\ ~r.stop /\ wire[Other(e)] # << >>
     /\ \E n \in Pieces(e, want) :
          /\ LET more == [r EXCEPT !.data = @ \o Received(e, n)]
             IN IF n = want THEN Deliver(e, more) ELSE Set(e, more) /\ UNCHANGED got
          /\ Receive(e, n)
     /\ UNCHANGED <<open, app, lock, sent, torn>>

PullFailed(e) ==
  LET r == reader[e]
  IN /\ \/ Reading(e) /\ PullFails(e, Room - Len(r.buf))
        \/ r.pc = "rest" /\ PullFails(e, r.need - Len(r.data))
     /\ Set(e, [r EXCEPT !.pc = "left"])
     /\ UNCHANGED <<wire, open, app, lock, sent, got, torn>>

\* Nothing has come: ask whether somebody is there, a few times.
TimedOut(e) ==
  LET r == reader[e]
  IN /\ Reading(e) /\ Silent(e) /\ r.slow < MaxSlow[e]
     /\ Set(e, [r EXCEPT !.slow = @ + 1,
                         !.pc = IF r.pings > MaxPing THEN "left" ELSE IF PingPong THEN "ping" ELSE "loop"])
     /\ UNCHANGED <<wire, open, app, lock, sent, got, torn>>

SendPing(e) ==
  LET r == reader[e]
  IN /\ r.pc = "ping"
     /\ \/ /\ MayLock(e)
           /\ wire' = [wire EXCEPT ![e] = @ \o Header(e, "reader", Ping, 0)]
           /\ Set(e, [r EXCEPT !.pc = "loop", !.pings = @ + 1])
           /\ UNCHANGED <<lock, torn>>
        \/ \E n \in 0 .. 1 : SendFails(e, "reader", Header(e, "reader", Ping, 0), n)
           /\ Set(e, [r EXCEPT !.pc = "left"])
     /\ UNCHANGED <<open, app, sent, got>>

\* (If any of the data is sent, mg_write does not return -1, and that is enough.)
SendPong(e) ==
  LET r == reader[e]
      header == Header(e, "reader", Pong, Len(r.data))
  IN /\ \/ /\ r.pc = "pong" /\ SendHeader(e, "reader", Pong, Len(r.data))
           /\ Set(e, [r EXCEPT !.pc = "pongData"])
        \/ /\ r.pc = "pongData" /\ SendData(e, "reader", r.data)
           /\ Set(e, [r EXCEPT !.pc = "loop", !.data = << >>])
        \/ /\ r.pc = "pong"
           /\ \E n \in 0 .. Len(header) - 1 : SendFails(e, "reader", header, n)
           /\ Set(e, [r EXCEPT !.pc = "left"])
        \/ /\ r.pc = "pongData"
           /\ \E n \in 0 .. Len(r.data) - 1 :
                /\ SendFails(e, "reader", r.data, n)
                /\ Set(e, [r EXCEPT !.pc = IF n > 0 THEN "loop" ELSE "left", !.data = << >>])
     /\ UNCHANGED <<open, app, sent, got>>
-----------------------------------------------------------------------------
(* The ends *)

\* handle_websocket_request: the connect handler accepts, or not.
Accept ==
  /\ reader["server"].pc = "idle"
  /\ \/ /\ wire' = [wire EXCEPT !["server"] = Append(@, Response)]
        /\ Set("server", [reader["server"] EXCEPT !.pc = "loop"])
        /\ UNCHANGED app
     \/ /\ Set("server", [reader["server"] EXCEPT !.pc = "left"])
        /\ app' = [app EXCEPT !["server"] = "gone"]
        /\ UNCHANGED wire
  /\ UNCHANGED <<open, lock, sent, got, torn>>

\* get_response, which may have read more than the response.
Connect ==
  LET r == reader["client"]
      came == wire["server"]
  IN /\ r.pc = "idle"
     /\ \/ \E n \in Pieces("client", Room + 1) :
             /\ came # << >>
             /\ Set("client", [r EXCEPT !.pc = "loop", !.buf = SubSeq(came, 2, n)])
             /\ Receive("client", n)
             /\ UNCHANGED <<open, app>>
        \/ /\ came = << >> /\ ~open["server"]
           /\ Set("client", [r EXCEPT !.pc = "done"])
           /\ open' = [open EXCEPT !["client"] = FALSE]
           /\ app' = [app EXCEPT !["client"] = "gone"]
           /\ UNCHANGED wire
     /\ UNCHANGED <<lock, sent, got, torn>>

\* The server's worker closes the connection; the client's thread only ends.
AfterLoop(e) ==
  /\ reader[e].pc = "left"
  /\ IF e = "server"
     THEN /\ lock[e] = ""
          /\ Set(e, [reader[e] EXCEPT !.pc = "done", !.mustClose = TRUE])
          /\ open' = [open EXCEPT ![e] = FALSE]
     ELSE Set(e, [reader[e] EXCEPT !.pc = "done", !.stop = TRUE]) /\ UNCHANGED open
  /\ UNCHANGED <<wire, app, lock, sent, got, torn>>

Reader(e) ==
  \/ Leave(e) \/ TakeFrame(e) \/ NoMemory(e) \/ Pull(e) \/ PullRest(e) \/ PullFailed(e) \/ TimedOut(e)
  \/ SendPing(e) \/ SendPong(e) \/ AfterLoop(e)
  \/ e = "server" /\ Accept
  \/ e = "client" /\ Connect

Connected(e) == reader[e].pc # "idle"

\* mg_websocket_write, mg_websocket_client_write.  When one fails the application gives up, or
\* goes on: with the same message, if its header was not sent, or the next one.
AppSend(e) ==
  LET id == Len(sent[e]) + 1
      message == Sends[e][id]
      header == Header(e, "app", message.op, message.n)
      data == Masked(e, "app", Last(sent[e]).data)
      ready == app[e] = "idle" /\ Connected(e) /\ open[e] /\ id <= Len(Sends[e])
  IN /\ \/ /\ ready /\ SendHeader(e, "app", message.op, message.n)
           /\ app' = [app EXCEPT ![e] = "data"]
           /\ sent' = [sent EXCEPT ![e] = Append(@, [op |-> message.op, data |-> Data(id, message.n)])]
        \/ /\ app[e] = "data" /\ SendData(e, "app", Last(sent[e]).data)
           /\ app' = [app EXCEPT ![e] = "idle"]
           /\ UNCHANGED sent
        \/ /\ \/ ready /\ \E n \in 0 .. Len(header) - 1 : SendFails(e, "app", header, n)
              \/ app[e] = "data" /\ \E n \in 0 .. Len(data) - 1 : SendFails(e, "app", data, n)
           /\ \E a \in {"idle", "gone"} : app' = [app EXCEPT ![e] = a]
           /\ UNCHANGED sent
     /\ UNCHANGED <<open, reader, got>>

\* mg_close_connection: the server's is closed by its worker, the client's here,
\* after its thread has ended.  (The server's application stops using a connection
\* once the close handler was called.)
AppClose(e) ==
  LET r == reader[e]
  IN /\ \/ /\ app[e] = "idle" /\ Connected(e)
           /\ e = "server" => r.pc \notin {"left", "done"}
           /\ Set(e, [r EXCEPT !.mustClose = TRUE, !.stop = @ \/ e = "client"])
           /\ app' = [app EXCEPT ![e] = IF e = "client" THEN "join" ELSE "gone"]
           /\ UNCHANGED open
        \/ /\ app[e] = "join" /\ r.pc = "done" /\ lock[e] = ""
           /\ open' = [open EXCEPT ![e] = FALSE]
           /\ app' = [app EXCEPT ![e] = "gone"]
           /\ UNCHANGED reader
     /\ UNCHANGED <<wire, lock, sent, got, torn>>

Init ==
  /\ wire = [e \in Ends |-> << >>]
  /\ open = [e \in Ends |-> TRUE]
  /\ reader = [e \in Ends |-> Free]
  /\ app = [e \in Ends |-> "idle"]
  /\ lock = [e \in Ends |-> ""]
  /\ sent = [e \in Ends |-> << >>]
  /\ got = [e \in Ends |-> << >>]
  /\ torn = [e \in Ends |-> 0]

Next == \E e \in Ends : Reader(e) \/ AppSend(e) \/ AppClose(e)

\* What an application does in any case: it goes on with a call it is in.
App(e) == (app[e] = "data" /\ AppSend(e)) \/ (app[e] = "join" /\ AppClose(e))

vars == <<wire, open, reader, app, lock, sent, got, torn>>
Spec == Init /\ [][Next]_vars
        /\ \A e \in Ends : WF_vars(Reader(e)) /\ WF_vars(App(e))
-----------------------------------------------------------------------------
\* An application sends messages whose lengths have at most eight digits, and leaves pings
\* and pongs to the library, if the library has to do with them.
WebsocketAssumption ==
  /\ Inline \in Nat \ {0} /\ Base \in Nat \ {0} /\ Room \in Nat /\ Mem \in Nat
  /\ ReadSizes \subseteq Nat \ {0} /\ MaxPing \in Nat /\ PingPong \in BOOLEAN
  /\ \A e \in Ends : MaxSlow[e] \in Nat /\ Sends[e] \in Seq([op : Nat, n : Nat])
  /\ \A e \in Ends : \A i \in DOMAIN Sends[e] :
       Shifts(Sends[e][i].n)[8] = 0 /\ (PingPong => Sends[e][i].op \notin {Ping, Pong})

\* Each thread is somewhere, and no buffer holds more than there is room for.
TypeOK ==
  /\ lock \in [Ends -> {"", "app", "reader"}]
  /\ app \in [Ends -> {"idle", "data", "join", "gone"}]
  /\ \A e \in Ends :
       /\ reader[e].pc \in {"idle", "loop", "rest", "ping", "pong", "pongData", "left", "done"}
       /\ Len(reader[e].buf) <= Room
       /\ reader[e].pc = "rest" => Len(reader[e].data) < reader[e].need
       /\ reader[e].pings <= MaxPing + 1

\* mg_websocket_write_exec, read_websocket: the callback is given the messages that
\* the other end's application has sent, in their order, and all of each.  (They are
\* sent in two writes by two threads, and received in whatever pieces come.)  When a write
\* of the other end was cut, they are so up to that write: what comes later is read out of step.
Whole(e) == torn[e] = 0
Before(e) == IF Whole(e) THEN sent[e] ELSE SubSeq(sent[e], 1, torn[e] - 1)
MessagesAreWhole ==
  \A e \in Ends : \/ IsPrefix(got[e], Before(Other(e)))
                  \/ ~Whole(Other(e)) /\ IsPrefix(Before(Other(e)), got[e])

\* read_websocket: when one end has closed, the other end's loop ends.
ClosedBy == \E e \in Ends : ~open[Other(e)]
LoopsLeft == \A e \in Ends : ~open[Other(e)] => reader[e].pc = "done"
=============================================================================
