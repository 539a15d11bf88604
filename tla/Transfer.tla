------------------------------ MODULE Transfer ------------------------------
(***************************************************************************)
(* How civetweb.c moves bytes between a connection and its socket: the     *)
(* loops around send, recv and poll, with their timeouts, the stop flag    *)
(* and the speed limit.  One thread makes some calls while the client      *)
(* reads, sends and goes away.  What the thread computes takes no time:    *)
(* the clock ticks while it waits, and between its calls.                  *)
(***************************************************************************)
EXTENDS Integers, Sequences, SequencesExt, FiniteSetsExt

CONSTANTS
  Scenarios,   \* [calls: a sequence of [f |-> "write", "chunk" or "read", n |-> a length],
               \*  throttle: bytes per second, 0 for no limit, incoming: what the client sends]
  Space,       \* what the socket takes while nobody reads
  Timeout,     \* REQUEST_TIMEOUT, in ticks
  Quantum,     \* SOCKET_TIMEOUT_QUANTUM
  Second,      \* the ticks of a second
  MaxClock     \* bound: the clock stops here

VARIABLES
  calls, throttle,      \* what is left to do, and the limit
  io,                   \* the locals of the call
  lastTime, lastBytes,  \* last_throttle_time, last_throttle_bytes
  space, inbox,         \* bytes the client has not read, and bytes it has sent
  incoming, came,       \* how many it will still send, and how many it has sent
  peer,                 \* "open", "closed" by the client, or "reset"
  stopAt, clock,          \* the time of the stop, or 0 before it
  pushed, pulled, results,   \* history: what left, what was read, what was returned
  seen                  \* history: when the last byte moved, or the call began

job == <<calls, throttle>>
speed == <<lastTime, lastBytes>>
kernel == <<space, inbox, incoming, came, peer>>
time == <<stopAt, clock>>
moved == <<pushed, pulled>>
vars == <<job, io, speed, kernel, time, moved, results, seen>>

Stopped == stopAt > 0
Now == clock \div Second

None == [pc |-> "idle"]

Init ==
  /\ \E s \in Scenarios : calls = s.calls /\ throttle = s.throttle /\ incoming = s.incoming
  /\ io = None /\ lastTime = 0 /\ lastBytes = 0
  /\ space = 0 /\ inbox = << >> /\ came = 0 /\ peer = "open"
  /\ stopAt = 0 /\ clock = 1
  /\ pushed = << >> /\ pulled = << >> /\ results = << >> /\ seen = 1
-----------------------------------------------------------------------------
(* mg_write, mg_send_chunk *)

Parts(c) == IF c.f = "chunk" THEN <<1, c.n, 1>> ELSE <<c.n>>
Call == Head(calls)
Length == Parts(Call)[io.part]

\* Mutated: what was sent in this second is not counted.
QuotaEach(used, len) == Min({throttle, len})

Quota(used, len) == Min({throttle - used, len})

\* The part of a call that is next; a second begins with nothing sent.
MgWrite(part) ==
  LET len == Parts(Call)[part]
      used == IF lastTime = Now THEN lastBytes ELSE 0
  IN /\ io' = [pc |-> "push", part |-> part, total |-> 0, first |-> TRUE, done |-> 0,
               start |-> clock, until |-> clock,
               allowed |-> IF throttle > 0 THEN Quota(used, len) ELSE len]
     /\ IF throttle > 0 THEN lastTime' = Now /\ lastBytes' = used
        ELSE UNCHANGED speed

Start ==
  /\ io = None /\ calls # << >>
  /\ seen' = clock
  /\ IF Call.f = "read"
     THEN /\ io' = [pc |-> "pull", part |-> 1, done |-> 0, start |-> clock]
          /\ UNCHANGED speed
     ELSE MgWrite(1)
  /\ UNCHANGED <<job, kernel, time, moved, results>>

Goto(pc) == [io EXCEPT !.pc = pc]
Return(n) == [pc |-> "return", part |-> io.part, ret |-> n]

\* The loop of a limited mg_write.
Loop(total) ==
  IF total < Length /\ ~Stopped
  THEN [io EXCEPT !.pc = "push", !.total = total, !.first = FALSE, !.done = 0,
                  !.allowed = Min({throttle, Length - total})]
  ELSE Return(total)

\* push_all has returned n.
Pushed ==
  /\ io.pc = "pushed"
  /\ CASE throttle = 0 -> io' = Return(io.done) /\ UNCHANGED lastBytes
       [] throttle > 0 /\ io.first /\ io.done = io.allowed ->
            io' = Loop(io.done) /\ lastBytes' = lastBytes + io.done
       [] throttle > 0 /\ io.first /\ io.done # io.allowed ->
            io' = Return(io.done) /\ UNCHANGED lastBytes
       [] throttle > 0 /\ ~io.first /\ io.done = io.allowed ->
            io' = [io EXCEPT !.pc = "sleep", !.until = clock + Second] /\ UNCHANGED lastBytes
       [] OTHER -> io' = Return(io.total) /\ UNCHANGED lastBytes
  /\ UNCHANGED <<job, lastTime, kernel, time, moved, results, seen>>

Wake ==
  /\ io.pc = "sleep" /\ clock = io.until
  /\ lastBytes' = io.allowed /\ lastTime' = Now
  /\ io' = Loop(io.total + io.done)
  /\ seen' = clock
  /\ UNCHANGED <<job, kernel, time, moved, results>>

\* A chunk that was not sent in full is given up.
Returns ==
  LET whole == Call.f = "chunk" /\ io.ret = Length
  IN /\ io.pc = "return"
     /\ IF whole /\ io.part < 3
        THEN MgWrite(io.part + 1) /\ seen' = clock /\ UNCHANGED <<calls, results>>
        ELSE /\ io' = None /\ calls' = Tail(calls)
             /\ results' = Append(results,
                  [call |-> Call, stopped |-> Stopped,
                   ret |-> CASE Call.f # "chunk" -> io.ret [] whole -> Call.n + 2 [] OTHER -> -1])
             /\ UNCHANGED <<speed, seen>>
     /\ UNCHANGED <<throttle, kernel, time, pushed, pulled>>
-----------------------------------------------------------------------------
(* push_all, push_inner, mg_poll *)

Push ==
  /\ io.pc = "push"
  /\ io' = IF io.done < io.allowed /\ ~Stopped
           THEN [io EXCEPT !.pc = "send", !.start = clock]
           ELSE Goto("pushed")
  /\ UNCHANGED <<job, speed, kernel, time, moved, results, seen>>

PushFails == [io EXCEPT !.pc = "pushed", !.done = IF @ = 0 THEN -1 ELSE @]

\* Mutated: the rest begins where the part began.
OffsetOfPart == io.total

Offset == io.total + io.done

Bytes(n) ==
  [i \in 1 .. n |-> [call |-> Len(results) + 1, part |-> io.part, i |-> Offset + i, at |-> Now]]

Send ==
  /\ io.pc = "send"
  /\ \/ peer = "reset" /\ io' = PushFails /\ UNCHANGED <<space, pushed, seen>>
     \/ /\ peer # "reset" /\ space = Space
        /\ io' = IF Stopped THEN PushFails
                 ELSE [io EXCEPT !.pc = "poll", !.until = clock + Quantum]
        /\ UNCHANGED <<space, pushed, seen>>
     \/ /\ peer # "reset"
        /\ \E n \in 1 .. Min({Space - space, io.allowed - io.done}) :
             /\ pushed' = pushed \o Bytes(n) /\ space' = space + n /\ seen' = clock
             /\ io' = IF Stopped THEN PushFails ELSE [io EXCEPT !.pc = "push", !.done = @ + n]
  /\ UNCHANGED <<job, speed, inbox, incoming, came, peer, time, pulled, results>>

Writable == space < Space \/ peer = "reset"

Poll ==
  /\ io.pc = "poll" /\ (Writable \/ clock = io.until)
  /\ io' = IF Stopped \/ (~Writable /\ clock - io.start > Timeout) THEN PushFails
           ELSE Goto("send")
  /\ UNCHANGED <<job, speed, kernel, time, moved, results, seen>>
-----------------------------------------------------------------------------
(* pull_all, pull_inner, mg_poll *)

\* Mutated: the whole timeout is one wait.
WaitAll(ms) == ms

Wait(ms) == Min({Quantum, ms})

PullFails == Return(IF io.done = 0 THEN -1 ELSE io.done)

Pull ==
  /\ io.pc = "pull"
  /\ io' = IF io.done < Length /\ ~Stopped
           THEN [pc |-> "wait", part |-> 1, done |-> io.done, start |-> io.start,
                 ms |-> Timeout, until |-> clock + Wait(Timeout)]
           ELSE Return(io.done)
  /\ UNCHANGED <<job, speed, kernel, time, moved, results, seen>>

Readable == inbox # << >> \/ peer # "open"

Recv ==
  /\ io.pc = "wait" /\ Readable
  /\ \/ /\ Stopped \/ inbox = << >>
        /\ io' = PullFails /\ UNCHANGED <<inbox, pulled, seen>>
     \/ /\ ~Stopped
        /\ \E n \in 1 .. Min({Len(inbox), Length - io.done}) :
             /\ pulled' = pulled \o SubSeq(inbox, 1, n)
             /\ inbox' = SubSeq(inbox, n + 1, Len(inbox))
             /\ io' = [io EXCEPT !.pc = "pull", !.done = @ + n]
        /\ seen' = clock
  /\ UNCHANGED <<job, speed, space, incoming, came, peer, time, pushed, results>>

\* A timeout counts from the beginning of the call, a wait from its own.
NothingCame ==
  LET left == io.ms - Wait(io.ms)
  IN /\ io.pc = "wait" /\ ~Readable /\ clock = io.until
     /\ io' = IF Stopped THEN PullFails
              ELSE IF left > 0 THEN [io EXCEPT !.ms = left, !.until = clock + Wait(left)]
              ELSE IF clock - io.start <= Timeout THEN Goto("pull")
              ELSE Return(io.done)
     /\ UNCHANGED <<job, speed, kernel, time, moved, results, seen>>
-----------------------------------------------------------------------------
(* The client, mg_stop, and the clock *)

ClientReads == space > 0 /\ space' = 0 /\ UNCHANGED <<inbox, incoming, came, peer>>

ClientSends ==
  /\ incoming > 0 /\ peer = "open"
  /\ incoming' = incoming - 1 /\ came' = came + 1 /\ inbox' = Append(inbox, came + 1)
  /\ UNCHANGED <<space, peer>>

ClientGoes == /\ \/ peer = "open" /\ peer' = "closed"
                 \/ peer # "reset" /\ peer' = "reset"
              /\ UNCHANGED <<space, inbox, incoming, came>>

Client ==
  /\ ClientReads \/ ClientSends \/ ClientGoes
  /\ UNCHANGED <<job, io, speed, time, moved, results, seen>>

MgStop ==
  /\ stopAt = 0 /\ stopAt' = clock
  /\ UNCHANGED <<job, io, speed, kernel, clock, moved, results, seen>>

Waiting == \/ io.pc \in {"poll", "wait", "sleep"} /\ clock < io.until
           \/ io.pc = "idle" /\ calls # << >>

Tick ==
  /\ clock < MaxClock /\ Waiting
  /\ io.pc = "poll" => ~Writable
  /\ io.pc = "wait" => ~Readable
  /\ clock' = clock + 1
  /\ UNCHANGED <<job, io, speed, kernel, stopAt, moved, results, seen>>

Writes == Pushed \/ Wake \/ Push \/ Send \/ Poll
Reads == Pull \/ Recv \/ NothingCame
Worker == Start \/ Writes \/ Reads \/ Returns
Next == Worker \/ Client \/ MgStop \/ Tick
-----------------------------------------------------------------------------
Of(k) == SelectSeq(pushed, LAMBDA b : b.call = k)
Wanted(c) ==
  FlattenSeq([p \in DOMAIN Parts(c) |-> [i \in 1 .. Parts(c)[p] |-> <<p, i>>]])

\* push_all and mg_write: what leaves for a call is a beginning of what it was given,
\* each byte once and in its order.  A call that returns its length has sent all of it;
\* without a limit and a stop, what it returns is what it has sent, and an error means
\* nothing.  What is read is what the client sent, and nothing is lost before a stop.
TransfersAreHonest ==
  /\ \A k \in 1 .. Len(results) + 1 :
       Of(k) # << >> =>
         LET c == IF k <= Len(results) THEN results[k].call ELSE Call
         IN IsPrefix([j \in DOMAIN Of(k) |-> <<Of(k)[j].part, Of(k)[j].i>>], Wanted(c))
  /\ \A k \in DOMAIN results :
       LET r == results[k]
           n == Len(Of(k))
       IN r.call.f # "read" =>
            /\ r.ret > 0 => r.ret <= n
            /\ r.ret = Len(Wanted(r.call)) => n = Len(Wanted(r.call))
            /\ r.call.f = "write" /\ throttle = 0 /\ ~r.stopped =>
                 r.ret = n \/ (n = 0 /\ r.ret = -1)
  /\ pulled \o inbox = [i \in 1 .. came |-> i]

\* push_inner, pull_all: a write ends when nothing could be sent for the timeout, a read
\* when nothing came for twice as long, and each within one wait, or a second of rest,
\* of a stop.
CallsEndInTime ==
  io.pc # "idle" =>
    /\ clock - seen <= IF Call.f = "read" THEN 2 * Timeout ELSE Max({Timeout + Quantum, Second})
    /\ Stopped => clock - Max({stopAt, seen}) <= Max({Quantum, Second})

\* mg_write: in n seconds a client gets no more than n + 1 times the limit.
SpeedIsLimited ==
  throttle > 0 =>
    \A i, j \in DOMAIN pushed :
      i <= j => j - i + 1 <= throttle * (pushed[j].at - pushed[i].at + 2)

\* Nothing waits in the kernel beyond its room, and no second gets more than the limit.
TypeOK ==
  /\ space \in 0 .. Space /\ lastBytes \in 0 .. throttle
  /\ io.pc = "push" => io.allowed \in 0 .. Length
  /\ Len(pulled) <= came
=============================================================================
