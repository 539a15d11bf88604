--------------------------------- MODULE Cgi ---------------------------------
(***************************************************************************)
(* CGI requests: handle_cgi_request with the processes it starts, their    *)
(* pipes, and the timer that aborts a process (timer.inl, of a build with  *)
(* USE_TIMERS).                                                            *)
(*                                                                         *)
(* A program is a sequence of what it does: "read" takes a unit of its     *)
(* input, "h", "e", "b" write a unit of a header, the empty line and a     *)
(* unit of the body to its output, "err" writes to its error output,       *)
(* "fail" exits with an error, "hang" never ends; SIGABRT leaves a program *)
(* only "die" to do.                                                       *)
(***************************************************************************)
EXTENDS Integers, Sequences, FiniteSets

CONSTANTS
  Workers,
  Programs,   \* for each worker, what it may be asked to start
  Bodies,     \* for each worker, how long the body of its request may be
  PipeSize, BufLen,
  MaxTimers   \* MAX_TIMERS

VARIABLES
  cgi,     \* for each worker, its place in handle_cgi_request and its locals
  child,   \* the process it has started; wrote is history
  pipe,    \* what is in the pipes in, out and err
  proc,    \* the process_control_data: the references, or Freed
  timers,  \* the list of the timers, each of a worker's process
  timer,   \* the timer thread
  halt     \* stop_flag

Freed == -1
Aborted == 134   \* the status of a process that SIGABRT has ended
None == 0
Abort == {"look", "kill", "wait", "dec"}   \* abort_cgi_process

Set(w, r) == cgi' = [cgi EXCEPT ![w] = r]
Goto(w, pc) == Set(w, [cgi[w] EXCEPT !.pc = pc])
Fail(w, pc) == Set(w, [cgi[w] EXCEPT !.pc = pc, !.reply = Append(@, "500")])

Ended(w) == child[w].state \in {"zombie", "reaped"}
-----------------------------------------------------------------------------
(* timer.inl *)

\* timer_add: with one timeout for all, the list is sorted by appending.
\* Its result is not looked at: the second reference is counted in any case.
TimerAdd(w) == timers' = IF Len(timers) < MaxTimers THEN Append(timers, w) ELSE timers

\* timer_thread_run: the first timer is due.
Fire ==
  /\ timer.worker = None /\ timers # << >> /\ ~halt
  /\ timer' = [worker |-> Head(timers), pc |-> "look"]
  /\ timers' = Tail(timers)
  /\ UNCHANGED <<cgi, child, pipe, proc, halt>>

\* When the server stops, the thread ends; the timers are dropped.
TimersExit ==
  /\ timer.worker = None /\ halt /\ timers # << >>
  /\ timers' = << >>
  /\ UNCHANGED <<cgi, child, pipe, proc, timer, halt>>
-----------------------------------------------------------------------------
(* abort_cgi_process, called by the worker and by the timer thread *)

\* waitpid(WNOHANG): an ended process is reaped; one that ended well is taken for one
\* that runs.
Look(c) == CASE c.state = "running" -> "kill"
             [] c.state = "zombie" -> IF c.status = 0 THEN "kill" ELSE "dec"
             [] OTHER -> "dec"

\* Mutated: one look, and no waiting.
WaitedOnce(c) == TRUE

\* waitpid: blocked while the process runs.
Waited(c) == c.state # "running"

Reap(c) == IF c.state = "zombie" THEN [c EXCEPT !.state = "reaped"] ELSE c

\* A step of the thread that is at pc with the process of w.
AbortStep(w, pc, goto) ==
  LET c == child[w]
  IN CASE pc = "look" -> /\ goto = Look(c)
                         /\ child' = [child EXCEPT ![w] = Reap(c)]
                         /\ UNCHANGED proc
       [] pc = "kill" -> /\ goto = "wait"
                         /\ child' = IF c.state = "running"
                                     THEN [child EXCEPT ![w].todo = <<"die">>]
                                     ELSE child
                         /\ UNCHANGED proc
       [] pc = "wait" -> /\ goto = "dec" /\ Waited(c)
                         /\ child' = [child EXCEPT ![w] = Reap(c)]
                         /\ UNCHANGED proc
       [] pc = "dec" -> /\ goto = "end"
                        /\ proc' = [proc EXCEPT ![w] = IF @ = 1 THEN Freed ELSE @ - 1]
                        /\ UNCHANGED child

AbortByTimer ==
  /\ timer.worker # None
  /\ \E goto \in Abort \cup {"end"} :
       /\ AbortStep(timer.worker, timer.pc, goto)
       /\ timer' = IF goto = "end" THEN [worker |-> None, pc |-> "end"] ELSE [timer EXCEPT !.pc = goto]
  /\ UNCHANGED <<cgi, pipe, timers, halt>>

AbortByWorker(w) ==
  /\ cgi[w].pc \in Abort
  /\ \E goto \in Abort \cup {"end"} :
       /\ AbortStep(w, cgi[w].pc, goto)
       /\ Goto(w, IF goto = "end" THEN "done" ELSE goto)
  /\ UNCHANGED <<pipe, timers, timer, halt>>
-----------------------------------------------------------------------------
(* handle_cgi_request *)

\* prepare_cgi_environment: without memory for it, the request ends without an answer.
PrepareEnvironment(w) ==
  /\ cgi[w].pc = "prepare"
  /\ Goto(w, "done") \/ Set(w, [cgi[w] EXCEPT !.pc = "spawn", !.blk = TRUE])
  /\ UNCHANGED <<child, pipe, proc, timers, timer, halt>>

\* Pipes, memory and fork can fail.  Otherwise the process runs, and has its timer.
Spawn(w) ==
  /\ cgi[w].pc = "spawn"
  /\ \/ /\ Fail(w, "done")
        /\ UNCHANGED <<child, proc, timers>>
     \/ /\ \E p \in Programs[w] : child' = [child EXCEPT ![w] = [state |-> "running", todo |-> p, status |-> 0, wrote |-> 0]]
        /\ proc' = [proc EXCEPT ![w] = 2]
        /\ TimerAdd(w)
        /\ Set(w, [cgi[w] EXCEPT !.pc = "open", !.timed = Len(timers) < MaxTimers])
  /\ UNCHANGED <<pipe, timer, halt>>

OpenPipes(w) ==
  /\ cgi[w].pc = "open"
  /\ Fail(w, "look") \/ Goto(w, "body")
  /\ UNCHANGED <<child, pipe, proc, timers, timer, halt>>

\* forward_body_data, and the memory for the answer: the body ends, or a read of it is
\* timed out or finds the server stopped, and what has come is taken for all of it; or
\* the client has hung up, or there is no memory; or a unit is read.
ReadBody(w) ==
  /\ cgi[w].pc = "body"
  /\ Goto(w, "headers") \/ Fail(w, "look") \/ (cgi[w].left > 0 /\ Goto(w, "push"))
  /\ UNCHANGED <<child, pipe, proc, timers, timer, halt>>

\* push_all: a write blocks while the pipe is full, and fails once the process has ended.
PushBody(w) ==
  /\ cgi[w].pc = "push"
  /\ \/ /\ halt \/ Ended(w)
        /\ Fail(w, "look") /\ UNCHANGED pipe
     \/ /\ ~Ended(w) /\ pipe[w].in < PipeSize
        /\ Set(w, [cgi[w] EXCEPT !.pc = "body", !.left = @ - 1])
        /\ pipe' = [pipe EXCEPT ![w].in = @ + 1]
  /\ UNCHANGED <<child, proc, timers, timer, halt>>

\* read blocks while there is nothing and the process might still write.
Readable(w) == pipe[w].out # << >> \/ Ended(w)

\* The units of the body among those that were read.
Count(units) == Cardinality({i \in DOMAIN units : units[i] = "b"})
BodyOf(units) == [i \in 1 .. Count(units) |-> "b"]

\* read_message: until the empty line; it may also come too late.
ReadHeaders(w) ==
  LET r == cgi[w]
      in == pipe[w].out
  IN /\ r.pc = "headers"
     /\ IF \E i \in DOMAIN r.buf : r.buf[i] = "e"
        THEN /\ Set(w, [r EXCEPT !.pc = "forward", !.reply = (@ \o <<"200">>) \o BodyOf(r.buf)])
             /\ UNCHANGED pipe
        ELSE IF halt \/ Len(r.buf) = BufLen \/ (in = << >> /\ Ended(w))
        THEN Goto(w, "stderr") /\ UNCHANGED pipe
        ELSE /\ in # << >>
             /\ \E n \in 1 .. Len(in) :
                  /\ n <= BufLen - Len(r.buf)
                  /\ pipe' = [pipe EXCEPT ![w].out = SubSeq(@, n + 1, Len(@))]
                  /\ \/ Set(w, [r EXCEPT !.buf = @ \o SubSeq(in, 1, n)])
                     \/ /\ "e" \notin {in[i] : i \in 1 .. n}
                        /\ Set(w, [r EXCEPT !.pc = "stderr"])
     /\ UNCHANGED <<child, proc, timers, timer, halt>>

\* No header: read the error output until it ends or the buffer is full.
ReadError(w) ==
  /\ cgi[w].pc = "stderr"
  /\ IF halt \/ (pipe[w].err = 0 /\ Ended(w)) \/ cgi[w].errors = BufLen
     THEN Fail(w, "look") /\ UNCHANGED pipe
     ELSE /\ pipe[w].err > 0
          /\ Set(w, [cgi[w] EXCEPT !.errors = @ + 1])
          /\ pipe' = [pipe EXCEPT ![w].err = @ - 1]
  /\ UNCHANGED <<child, proc, timers, timer, halt>>

\* send_file_data: until the output ends, or the client does not take it.
Forward(w) ==
  LET r == cgi[w]
      out == pipe[w].out
  IN /\ r.pc = "forward" /\ Readable(w)
     /\ IF out = << >>
        THEN Goto(w, "look") /\ UNCHANGED pipe
        ELSE \/ /\ Set(w, [r EXCEPT !.reply = @ \o BodyOf(out)])
                /\ pipe' = [pipe EXCEPT ![w].out = << >>]
             \/ /\ Set(w, [r EXCEPT !.pc = "look", !.cut = TRUE])
                /\ UNCHANGED pipe
     /\ UNCHANGED <<child, proc, timers, timer, halt>>

Worker(w) == \/ PrepareEnvironment(w) \/ Spawn(w) \/ OpenPipes(w) \/ ReadBody(w) \/ PushBody(w)
             \/ ReadHeaders(w) \/ ReadError(w) \/ Forward(w) \/ AbortByWorker(w)
-----------------------------------------------------------------------------
(* The process *)

InputEnds(w) == cgi[w].pc \notin {"open", "body", "push"}

Run(w) ==
  LET c == child[w]
      step == Head(c.todo)
      Written(to) == /\ Len(pipe[w].out) < PipeSize
                     /\ pipe' = [pipe EXCEPT ![w].out = Append(@, to)]
      next == [child EXCEPT ![w].todo = Tail(c.todo),
                            ![w].wrote = IF step = "b" THEN @ + 1 ELSE @]
  IN /\ c.state = "running"
     /\ IF c.todo = << >> \/ step \in {"fail", "die"}
        THEN /\ child' = [child EXCEPT ![w].state = "zombie",
                                       ![w].status = IF c.todo = << >> THEN 0
                                                     ELSE IF step = "die" THEN Aborted ELSE 1]
             /\ UNCHANGED pipe
        ELSE /\ step # "hang"
             /\ child' = next
             /\ CASE step = "read" -> IF pipe[w].in > 0 THEN pipe' = [pipe EXCEPT ![w].in = @ - 1]
                                      ELSE InputEnds(w) /\ UNCHANGED pipe
                  [] step = "err" -> /\ pipe[w].err < PipeSize
                                     /\ pipe' = [pipe EXCEPT ![w].err = @ + 1]
                  [] OTHER -> Written(step)
     /\ UNCHANGED <<cgi, proc, timers, timer, halt>>

MgStop == ~halt /\ halt' = TRUE /\ UNCHANGED <<cgi, child, pipe, proc, timers, timer>>

Init ==
  /\ \E body \in [Workers -> UNION {Bodies[w] : w \in Workers}] :
       /\ \A w \in Workers : body[w] \in Bodies[w]
       /\ cgi = [w \in Workers |-> [pc |-> "prepare", blk |-> FALSE, left |-> body[w], buf |-> << >>,
                                    errors |-> 0, reply |-> << >>, cut |-> FALSE, timed |-> FALSE]]
  /\ child = [w \in Workers |-> [state |-> "none", todo |-> << >>, status |-> 0, wrote |-> 0]]
  /\ pipe = [w \in Workers |-> [in |-> 0, out |-> << >>, err |-> 0]]
  /\ proc = [w \in Workers |-> 0]
  /\ timers = << >>
  /\ timer = [worker |-> None, pc |-> "end"]
  /\ halt = FALSE

Next == \/ \E w \in Workers : Worker(w) \/ Run(w)
        \/ Fire \/ TimersExit \/ AbortByTimer \/ MgStop

vars == <<cgi, child, pipe, proc, timers, timer, halt>>
Spec == /\ Init /\ [][Next]_vars
        /\ \A w \in Workers : WF_vars(Worker(w)) /\ WF_vars(Run(w))
        /\ WF_vars(Fire) /\ WF_vars(AbortByTimer)
-----------------------------------------------------------------------------
\* What a program may do, and how long bodies may be.
Units == {"read", "h", "e", "b", "err", "fail", "hang", "die"}
CgiAssumption ==
  /\ None \notin Workers /\ PipeSize \in Nat /\ BufLen \in Nat /\ MaxTimers \in Nat
  /\ \A w \in Workers : Programs[w] \subseteq Seq(Units) /\ Bodies[w] \subseteq Nat

\* Places, pipes and the list of timers have their bounds.
TypeOK ==
  /\ \A w \in Workers :
       /\ cgi[w].pc \in Abort \cup {"prepare", "spawn", "open", "body", "push", "headers", "stderr",
                                    "forward", "done"}
       /\ child[w].state \in {"none", "running", "zombie", "reaped"}
       /\ pipe[w].in <= PipeSize /\ Len(pipe[w].out) <= PipeSize /\ pipe[w].err <= PipeSize
       /\ proc[w] \in Freed .. 2
  /\ Len(timers) <= MaxTimers

Listed(w) == \E i \in DOMAIN timers : timers[i] = w
UsedBy(w) == (IF cgi[w].pc \in Abort THEN 1 ELSE 0)
             + (IF timer.worker = w THEN 1 ELSE 0) + (IF Listed(w) THEN 1 ELSE 0)

\* handle_cgi_request, abort_cgi_process: a request does not end before its process;
\* the data they share are not freed before the last one that uses them, and are
\* freed then, if there was a timer and it was not dropped; and the client has got
\* one header, and all that the program wrote of its body unless the client took no more,
\* or nothing if the request got no environment.
GivenBack ==
  \A w \in Workers :
    /\ cgi[w].pc = "done" => child[w].state \in {"none", "reaped"}
    /\ UsedBy(w) > 0 => proc[w] >= UsedBy(w)
    /\ cgi[w].pc = "done" /\ child[w].state # "none" /\ cgi[w].timed /\ ~halt /\ UsedBy(w) = 0
         => proc[w] = Freed
    /\ cgi[w].pc = "done" /\ ~cgi[w].blk => cgi[w].reply = << >> /\ child[w].state = "none"
    /\ cgi[w].pc = "done" /\ cgi[w].blk =>
         /\ 1 \in DOMAIN cgi[w].reply
         /\ \A i \in DOMAIN cgi[w].reply : i = 1 <=> cgi[w].reply[i] \in {"200", "500"}
         /\ cgi[w].reply[1] = "200" /\ ~cgi[w].cut
              => Len(cgi[w].reply) = 1 + child[w].wrote

\* handle_cgi_request: a request ends, whatever its program does, if it has a timer
\* and the server is not stopped.
RequestEnds(w) == cgi[w].pc = "done" \/ halt \/ (cgi[w].pc \notin {"prepare", "spawn"} /\ ~cgi[w].timed)
=============================================================================
