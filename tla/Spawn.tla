-------------------------------- MODULE Spawn --------------------------------
(***************************************************************************)
(* The descriptors of CGI requests: spawn_process and the pipes that       *)
(* handle_cgi_request makes for it, while other workers start programs of  *)
(* their own.  fork copies all that is open; exec closes what is marked.   *)
(* A program "reads" its input to the end and exits, "ends" when it likes, *)
(* or "hangs"; the timer (USE_TIMERS) aborts it.                           *)
(***************************************************************************)
EXTENDS Naturals, FiniteSets

CONSTANTS Workers, Programs

VARIABLES
  place,    \* for each worker, where it is in handle_cgi_request
  holds,    \* for the server and each worker's process, the ends of pipes it holds
  marked,   \* those of them that are marked FD_CLOEXEC
  task,     \* for each worker, what its process does
  at        \* history: where the workers were when the process was forked

Server == 0   \* no worker
Ends == Workers \X {"in", "out", "err"} \X {"r", "w"}
ChildSide(w) == {<<w, "in", "r">>, <<w, "out", "w">>, <<w, "err", "w">>}
ParentSide(w) == {<<w, "in", "w">>, <<w, "out", "r">>, <<w, "err", "r">>}
Own(w) == ChildSide(w) \cup ParentSide(w)

Alive(w) == task[w] \notin {"none", "ended"}
Move(w, to) == place' = [place EXCEPT ![w] = to]
Open(s) == holds' = [holds EXCEPT ![Server] = @ \cup s]
Close(s) == holds' = [holds EXCEPT ![Server] = @ \ s]
-----------------------------------------------------------------------------
(* handle_cgi_request *)

\* Three times pipe(2), which can fail.
Pipes(w) ==
  /\ place[w] = "pipes"
  /\ \/ Move(w, "fork") /\ Open(Own(w))
     \/ \E made \in {{}, {"in"}, {"in", "out"}} :
          Move(w, "close all") /\ Open({e \in Own(w) : e[2] \in made})
  /\ UNCHANGED <<marked, task, at>>

\* fork can fail as well.
Fork(w) ==
  /\ place[w] = "fork"
  /\ \/ Move(w, "close all") /\ UNCHANGED <<holds, marked, task, at>>
     \/ /\ Move(w, "mark")
        /\ holds' = [holds EXCEPT ![w] = holds[Server]]
        /\ marked' = [marked EXCEPT ![w] = marked[Server]]
        /\ task' = [task EXCEPT ![w] = "dup"]
        /\ at' = [at EXCEPT ![w] = place]

\* Mutated: the parent's ends are left as they are.
MarkNone(w) ==
  /\ place[w] = "mark"
  /\ Move(w, "close")
  /\ UNCHANGED <<holds, marked, task, at>>

\* set_close_on_exec: the process that was just forked has its copies all the same.
Mark(w) ==
  /\ place[w] = "mark"
  /\ Move(w, "close")
  /\ marked' = [marked EXCEPT ![Server] = @ \cup ParentSide(w)]
  /\ UNCHANGED <<holds, task, at>>

CloseChildSide(w) ==
  /\ place[w] = "close"
  /\ Close(ChildSide(w))
  /\ Move(w, "body") \/ Move(w, "abort")
  /\ UNCHANGED <<marked, task, at>>

\* The body is forwarded; the process gets the end of its input.
CloseInput(w) ==
  /\ place[w] = "body"
  /\ \/ Close({<<w, "in", "w">>}) /\ Move(w, "read")
     \/ Move(w, "abort") /\ UNCHANGED holds
  /\ UNCHANGED <<marked, task, at>>

Holders(e) == {p \in DOMAIN holds : e \in holds[p]}

\* read_message, pull_all and send_file_data read until the end, or the client does not take it.
ReadOutput(w) ==
  /\ place[w] = "read" /\ Holders(<<w, "out", "w">>) = {}
  /\ Move(w, "abort")
  /\ UNCHANGED <<holds, marked, task, at>>

Dropped(w) ==
  /\ place[w] = "read"
  /\ Move(w, "abort")
  /\ UNCHANGED <<holds, marked, task, at>>

Killed(w) ==
  /\ task' = [task EXCEPT ![w] = "ended"]
  /\ holds' = [holds EXCEPT ![w] = {}]
  /\ marked' = [marked EXCEPT ![w] = {}]

\* abort_cgi_process
AbortProcess(w) ==
  /\ place[w] = "abort"
  /\ Killed(w) /\ Move(w, "close all")
  /\ UNCHANGED at

\* Mutated: the end that the body was written to is forgotten.
LeftExceptInput(w) == Own(w) \ {<<w, "in", "w">>}

Left(w) == Own(w)

CloseAll(w) ==
  /\ place[w] = "close all"
  /\ Close(Left(w)) /\ Move(w, "done")
  /\ marked' = [marked EXCEPT ![Server] = @ \ Own(w)]
  /\ UNCHANGED <<task, at>>

Worker(w) == \/ Pipes(w) \/ Fork(w) \/ Mark(w) \/ CloseChildSide(w) \/ CloseInput(w)
             \/ ReadOutput(w) \/ AbortProcess(w) \/ CloseAll(w)
-----------------------------------------------------------------------------
(* The process: spawn_process after fork *)

Exits(w) == Killed(w) /\ UNCHANGED <<place, at>>

\* chdir, dup2 three times and close six times: its own pipes are 0, 1 and 2 now.
Dup(w) ==
  /\ task[w] = "dup"
  /\ \/ Exits(w)
     \/ /\ task' = [task EXCEPT ![w] = "exec"]
        /\ holds' = [holds EXCEPT ![w] = (@ \ Own(w)) \cup ChildSide(w)]
        /\ UNCHANGED <<place, marked, at>>

Exec(w) ==
  /\ task[w] = "exec"
  /\ \/ Exits(w)
     \/ /\ \E p \in Programs : task' = [task EXCEPT ![w] = p]
        /\ holds' = [holds EXCEPT ![w] = @ \ marked[w]]
        /\ UNCHANGED <<place, marked, at>>

RunProgram(w) ==
  /\ \/ task[w] = "ends"
     \/ task[w] = "reads" /\ Holders(<<w, "in", "w">>) = {}
  /\ Exits(w)

\* Mutated: no timer is set.
DueNever(w) == FALSE

Due(w) == Alive(w) /\ place[w] \notin {"fork", "mark", "close all", "done"}

TimerAborts(w) == Due(w) /\ Exits(w)

Process(w) == Dup(w) \/ Exec(w) \/ RunProgram(w)
-----------------------------------------------------------------------------
Init ==
  /\ place = [w \in Workers |-> "pipes"]
  /\ holds = [p \in Workers \cup {Server} |-> {}]
  /\ marked = [p \in Workers \cup {Server} |-> {}]
  /\ task = [w \in Workers |-> "none"]
  /\ at = [w \in Workers |-> [v \in Workers |-> "pipes"]]

Next == \E w \in Workers : Worker(w) \/ Dropped(w) \/ Process(w) \/ TimerAborts(w)

vars == <<place, holds, marked, task, at>>
Fairness ==
  \A w \in Workers : WF_vars(Worker(w)) /\ WF_vars(Process(w)) /\ WF_vars(TimerAborts(w))
Spec == Init /\ [][Next]_vars /\ Fairness
-----------------------------------------------------------------------------
\* The server is no worker, and a program has none of the names of its process's states.
SpawnAssumption ==
  /\ Server \notin Workers
  /\ Programs \cap {"none", "dup", "exec", "ended"} = {}

\* Places, tasks and ends are what the actions set.
TypeOK ==
  /\ \A w \in Workers :
       /\ place[w] \in {"pipes", "fork", "mark", "close", "body", "read", "abort", "close all", "done"}
       /\ task[w] \in Programs \cup {"none", "dup", "exec", "ended"}
  /\ \A p \in DOMAIN holds : holds[p] \subseteq Ends /\ marked[p] \subseteq Ends

\* handle_cgi_request: a request closes what it has opened, whichever step fails.
DescriptorsGivenBack ==
  /\ \A w \in Workers : place[w] \in {"pipes", "done"} => holds[Server] \cap Own(w) = {}
  /\ \A w \in Workers : place[w] = "done" => ~Alive(w)

\* spawn_process: a program holds an end of another request's pipes only if it was forked
\* before that request has marked its ends or closed them.  Where no two requests meet there,
\* each program sees the end of its input, and each request the end of its output.
StrangersAreEarly ==
  \A w, v \in Workers :
    w # v /\ task[w] \in Programs =>
      /\ holds[w] \cap ParentSide(v) # {} => at[w][v] \in {"fork", "mark", "close all"}
      /\ holds[w] \cap ChildSide(v) # {} => at[w][v] \in {"fork", "mark", "close", "close all"}

\* spawn_process and handle_cgi_request, together.
GivenBack == DescriptorsGivenBack /\ StrangersAreEarly

\* handle_cgi_request: with the timer every request ends, those too whose programs wait
\* for each other's input to end, each of them holding the other's.
RequestEnds(w) == place[w] = "done"
RequestsEnd == \A w \in Workers : <>RequestEnds(w)
=============================================================================
