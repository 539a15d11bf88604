------------------------------- MODULE Server -------------------------------
(***************************************************************************)
(* The threads of a CivetWeb server: the thread of the application, which  *)
(* starts it (mg_start2) and stops it (mg_stop), the master, which accepts *)
(* connections and queues their sockets (produce_socket), and the workers, *)
(* which take them from the queue (consume_socket) and serve them.         *)
(*                                                                         *)
(* A region between the lock and the unlock of ctx->thread_mutex is one    *)
(* step, except that pthread_cond_wait ends it: a thread that waits has    *)
(* released the mutex, and one that was woken takes the region again from  *)
(* the head of its loop.  A waiting thread may also wake for no reason.    *)
(* stop_flag is an atomic that is read outside the mutex: every such read  *)
(* is a step of its own.                                                   *)
(***************************************************************************)
EXTENDS Naturals, FiniteSets

CONSTANTS Workers,   \* num_threads: workers 1 .. Workers
          Size,      \* sq_size, the option connection_queue
          MaxConns,  \* connections that arrive: a bound of the model
          MayFail    \* the steps of the start that may fail

ASSUME WorkersAssumption == Workers \in Nat \ {0}
ASSUME SizeAssumption == Size \in Nat \ {0}
ASSUME ConnsAssumption == MaxConns \in Nat
ASSUME FailAssumption ==
  MayFail \subseteq {"context", "options", "ports", "limits", "thread", "buffer",
                       "master"}

VARIABLES
  app,      \* where the thread of the application is
  stop,     \* ctx->stop_flag
  mt,       \* whether ctx->masterthreadid is set
  ports,    \* whether the listening sockets are open
  started,  \* workers that mg_start2 has created
  mpc,      \* where the master is
  mhold,    \* the socket accept_new_connection passes to produce_socket
  wpc,      \* where each worker is
  hold,     \* conn->client of each worker, 0 when it has none
  squeue,   \* ctx->squeue
  sqHead,   \* ctx->sq_head
  sqTail,   \* ctx->sq_tail
  arrived,  \* connections of clients, numbered in the order they arrive
  accepted, \* of those, the ones accept() has returned
  fate      \* what became of each accepted connection

appVars == <<app, mt, started>>
queueVars == <<squeue, sqHead, sqTail>>
masterVars == <<mpc, mhold, ports>>
workerVars == <<wpc, hold>>
connVars == <<arrived, accepted, fate>>
vars == <<appVars, stop, queueVars, masterVars, workerVars, connVars>>

W == 1 .. Workers
Conns == 1 .. MaxConns

AppPlaces == {"context", "options", "numbers", "security", "ports", "limits",
              "workers", "master", "running", "stopping", "freed", "null",
              "ignored"}
MasterPlaces == {"none", "poll", "put", "wait", "wake", "join", "gone"}
WorkerPlaces == {"none", "init", "consume", "wait", "check", "serve", "gone"}
Fates == {"none", "served", "refused", "lost"}

Filled == sqHead - sqTail

\* Mutated: one socket more than there are slots.
FullLate == Filled > Size

Full == Filled >= Size

Empty == sqHead = sqTail

\* Mutated: a worker waits when the server stops, instead of until it does.
IdleInverted == Empty /\ stop # 0

\* The condition on which consume_socket waits.
Idle == Empty /\ stop = 0

Init ==
  /\ app = "context" /\ stop = 0 /\ mt = FALSE /\ ports = FALSE
  /\ started = 0
  /\ mpc = "none" /\ mhold = 0
  /\ wpc = [w \in W |-> "none"] /\ hold = [w \in W |-> 0]
  /\ squeue = [i \in 0 .. Size - 1 |-> 0] /\ sqHead = 0 /\ sqTail = 0
  /\ arrived = 0 /\ accepted = 0 /\ fate = [c \in Conns |-> "none"]
-----------------------------------------------------------------------------
(* The application starts the server. *)

\* A phase of the start after which a failure frees the context and mg_start
\* returns NULL.
Phase(from, to, cause) ==
  /\ app = from
  /\ app' \in {to} \cup (IF cause \in MayFail THEN {"null"} ELSE {})
  /\ UNCHANGED <<mt, started, stop, queueVars, masterVars, workerVars, connVars>>

\* The library has to be initialised; then the context, its two mutexes and its
\* two condition variables.
CreateContext == Phase("context", "options", "context")

\* Names and values of the options, and the defaults.
ReadOptions == Phase("options", "numbers", "options")

\* max_request_size, the queue and the number of workers.
CheckNumbers == Phase("numbers", "security", "options")

\* set_gpass_option and init_ssl_ctx.
InitSecurity == Phase("security", "ports", "options")

\* set_ports_option: a port that cannot be bound is reported, and the sockets
\* bound before it are closed again.
OpenPorts ==
  /\ app = "ports"
  /\ \/ app' = "limits" /\ ports' = TRUE
     \/ "ports" \in MayFail /\ app' = "null" /\ UNCHANGED ports
  /\ UNCHANGED <<mt, started, stop, queueVars, mpc, mhold, workerVars, connVars>>

\* set_uid_option, set_acl_option and the arrays of the workers.  A failure
\* frees the context, but not the listening sockets: they stay open.
SetLimits == Phase("limits", "workers", "limits")

\* The loop that starts the workers: a first thread that cannot be created
\* ends the start, a later one only ends the loop.
StartWorker ==
  /\ app = "workers"
  /\ \/ /\ started' = started + 1
        /\ wpc' = [wpc EXCEPT ![started + 1] = "init"]
        /\ app' = IF started + 1 = Workers THEN "master" ELSE app
     \/ /\ "thread" \in MayFail
        /\ app' = IF started = 0 THEN "null" ELSE "master"
        /\ UNCHANGED <<started, wpc>>
  /\ UNCHANGED <<mt, stop, queueVars, masterVars, hold, connVars>>

\* The result of starting the master is not looked at: without a master,
\* mg_start returns a context that accepts nothing.
StartMaster ==
  /\ app = "master" /\ app' = "running"
  /\ \/ mt' = TRUE /\ mpc' = "poll"
     \/ "master" \in MayFail /\ UNCHANGED <<mt, mpc>>
  /\ UNCHANGED <<started, stop, queueVars, mhold, ports, workerVars, connVars>>
-----------------------------------------------------------------------------
(* The application stops it. *)

\* mg_stop does nothing for a context without a master.
MgStop ==
  /\ app = "running"
  /\ IF mt THEN app' = "stopping" /\ mt' = FALSE /\ stop' = 1
           ELSE app' = "ignored" /\ UNCHANGED <<mt, stop>>
  /\ UNCHANGED <<started, queueVars, masterVars, workerVars, connVars>>

\* mg_stop sleeps until stop_flag is two, joins the master and calls
\* free_context: what the queue still holds is freed without being closed.
FreeContext ==
  /\ app = "stopping" /\ stop = 2
  /\ app' = "freed"
  /\ fate' = [c \in Conns |->
                IF c <= accepted /\ fate[c] = "none" THEN "lost" ELSE fate[c]]
  /\ UNCHANGED <<mt, started, stop, queueVars, masterVars, workerVars, arrived,
                 accepted>>
-----------------------------------------------------------------------------
(* The clients and the master. *)

Arrive == /\ ports /\ arrived < MaxConns
          /\ arrived' = arrived + 1
          /\ UNCHANGED <<appVars, stop, queueVars, masterVars, workerVars,
                         accepted, fate>>

\* accept_new_connection: check_acl may refuse the client; otherwise the
\* socket is passed to produce_socket.
AcceptNewConnection ==
  /\ mpc = "poll" /\ stop = 0 /\ accepted < arrived
  /\ accepted' = accepted + 1
  /\ \/ mhold' = accepted + 1 /\ mpc' = "put" /\ UNCHANGED fate
     \/ fate' = [fate EXCEPT ![accepted + 1] = "refused"]
        /\ UNCHANGED <<mhold, mpc>>
  /\ UNCHANGED <<appVars, stop, queueVars, ports, workerVars, arrived>>

\* Mutated: a worker is only woken for the first socket in the queue.
SignalFirst(places) ==
  IF Empty /\ \E w \in W : places[w] = "wait"
  THEN {[places EXCEPT ![w] = "consume"] : w \in {v \in W : places[v] = "wait"}}
  ELSE {places}

\* Mutated: no worker is woken.
SignalNobody(places) == {places}

\* pthread_cond_signal(&sq_full): one waiting worker, if there is one.
SignalFull(places) ==
  IF \E w \in W : places[w] = "wait"
  THEN {[places EXCEPT ![w] = "consume"] : w \in {v \in W : places[v] = "wait"}}
  ELSE {places}

\* produce_socket, from the lock to the wait or the unlock.
WaitForRoom == /\ mpc = "put" /\ stop = 0 /\ Full
               /\ mpc' = "wait"
               /\ UNCHANGED <<appVars, stop, queueVars, mhold, ports, workerVars,
                              connVars>>

\* A full queue is left as it is, when the wait ended because of the stop: the
\* socket is neither queued nor closed.
ProduceSocket ==
  /\ mpc = "put" /\ ~(stop = 0 /\ Full)
  /\ IF Full
     THEN fate' = [fate EXCEPT ![mhold] = "lost"] /\ UNCHANGED queueVars
     ELSE /\ squeue' = [squeue EXCEPT ![sqHead % Size] = mhold]
          /\ sqHead' = sqHead + 1
          /\ UNCHANGED <<sqTail, fate>>
  /\ mhold' = 0 /\ mpc' = "poll"
  /\ wpc' \in SignalFull(wpc)
  /\ UNCHANGED <<appVars, stop, ports, hold, arrived, accepted>>

\* The accept loop sees the stop flag and closes the listening sockets.
LeaveLoop == /\ mpc = "poll" /\ stop # 0
             /\ mpc' = "wake" /\ ports' = FALSE
             /\ UNCHANGED <<appVars, stop, queueVars, mhold, workerVars, connVars>>

\* Mutated: a signal instead of the broadcast.
WakeOneWorker ==
  /\ mpc = "wake" /\ mpc' = "join"
  /\ wpc' \in SignalFull(wpc)
  /\ UNCHANGED <<appVars, stop, queueVars, mhold, ports, hold, connVars>>

\* pthread_cond_broadcast(&sq_full).
WakeWorkers ==
  /\ mpc = "wake" /\ mpc' = "join"
  /\ wpc' = [w \in W |-> IF wpc[w] = "wait" THEN "consume" ELSE wpc[w]]
  /\ UNCHANGED <<appVars, stop, queueVars, mhold, ports, hold, connVars>>

\* Mutated: the workers are not joined.
JoinNobody == /\ mpc = "join"
              /\ mpc' = "gone" /\ stop' = 2
              /\ UNCHANGED <<appVars, queueVars, mhold, ports, workerVars,
                             connVars>>

\* The master joins the workers that were created; its last act is the two.
JoinWorkers == /\ mpc = "join" /\ \A w \in 1 .. started : wpc[w] = "gone"
               /\ mpc' = "gone" /\ stop' = 2
               /\ UNCHANGED <<appVars, queueVars, mhold, ports, workerVars,
                              connVars>>
-----------------------------------------------------------------------------
(* The workers. *)

\* worker_thread_run up to its loop: a worker whose buffer or mutex cannot be
\* had returns at once.
WorkerInit(w) ==
  /\ wpc[w] = "init"
  /\ \E p \in {"consume"} \cup (IF "buffer" \in MayFail THEN {"gone"} ELSE {}) :
       wpc' = [wpc EXCEPT ![w] = p]
  /\ UNCHANGED <<appVars, stop, queueVars, masterVars, hold, connVars>>

\* consume_socket, from the lock to the wait.
GoIdle(w) == /\ wpc[w] = "consume" /\ Idle
             /\ wpc' = [wpc EXCEPT ![w] = "wait"]
             /\ UNCHANGED <<appVars, stop, queueVars, masterVars, hold, connVars>>

\* Mutated: the tail wraps a step too late.
WrapLate(tail) == IF tail > Size + 1 THEN Size ELSE 0

\* Once the tail is past the size, both pointers move back by it.
Wrap(tail) == IF tail > Size THEN Size ELSE 0

\* pthread_cond_signal(&sq_empty): only the master can be waiting.
SignalEmpty == IF mpc = "wait" THEN "put" ELSE mpc

\* consume_socket, from the lock to the unlock: it signals sq_empty whether or
\* not it has taken a socket.
ConsumeSocket(w) ==
  /\ wpc[w] = "consume" /\ ~Idle
  /\ IF sqHead > sqTail
     THEN /\ hold' = [hold EXCEPT ![w] = squeue[sqTail % Size]]
          /\ sqHead' = sqHead - Wrap(sqTail + 1)
          /\ sqTail' = sqTail + 1 - Wrap(sqTail + 1)
     ELSE UNCHANGED <<hold, sqHead, sqTail>>
  /\ wpc' = [wpc EXCEPT ![w] = "check"]
  /\ mpc' = SignalEmpty
  /\ UNCHANGED <<appVars, stop, squeue, mhold, ports, connVars>>

\* The value consume_socket returns is the stop flag at that time, after the
\* unlock.  A worker that reads a stop leaves, and whatever socket it has taken
\* is not closed.
CheckStop(w) ==
  /\ wpc[w] = "check"
  /\ IF stop = 0
     THEN wpc' = [wpc EXCEPT ![w] = "serve"] /\ UNCHANGED <<hold, fate>>
     ELSE /\ wpc' = [wpc EXCEPT ![w] = "gone"]
          /\ hold' = [hold EXCEPT ![w] = 0]
          /\ fate' = [c \in Conns |-> IF c = hold[w] THEN "lost" ELSE fate[c]]
  /\ UNCHANGED <<appVars, stop, queueVars, masterVars, arrived, accepted>>

\* process_new_connection and close_connection: the requests of a connection
\* are another module's; request_timeout_ms makes them end.
Serve(w) ==
  /\ wpc[w] = "serve"
  /\ fate' = [c \in Conns |-> IF c = hold[w] THEN "served" ELSE fate[c]]
  /\ hold' = [hold EXCEPT ![w] = 0]
  /\ wpc' = [wpc EXCEPT ![w] = "consume"]
  /\ UNCHANGED <<appVars, stop, queueVars, masterVars, arrived, accepted>>

\* Spurious wakeups of pthread_cond_wait.
Spurious ==
  /\ \/ /\ mpc = "wait" /\ mpc' = "put" /\ UNCHANGED wpc
     \/ /\ \E w \in W : wpc[w] = "wait" /\ wpc' = [wpc EXCEPT ![w] = "consume"]
        /\ UNCHANGED mpc
  /\ UNCHANGED <<appVars, stop, queueVars, mhold, ports, hold, connVars>>
-----------------------------------------------------------------------------
Start == CreateContext \/ ReadOptions \/ CheckNumbers \/ InitSecurity
         \/ OpenPorts \/ SetLimits \/ StartWorker \/ StartMaster

Master == AcceptNewConnection \/ WaitForRoom \/ ProduceSocket \/ LeaveLoop
          \/ WakeWorkers \/ JoinWorkers

Worker(w) == WorkerInit(w) \/ GoIdle(w) \/ ConsumeSocket(w) \/ CheckStop(w)
             \/ Serve(w)

Next == Start \/ MgStop \/ FreeContext \/ Arrive \/ Master \/ Spurious
        \/ \E w \in W : Worker(w)

\* The threads run; nobody has to connect, to stop the server, or to wake for
\* no reason.
Spec == /\ Init /\ [][Next]_vars
        /\ WF_vars(Start) /\ WF_vars(FreeContext) /\ WF_vars(Master)
        /\ \A w \in W : WF_vars(Worker(w))
-----------------------------------------------------------------------------
TypeOK ==
  /\ app \in AppPlaces /\ stop \in 0 .. 2 /\ mt \in BOOLEAN /\ ports \in BOOLEAN
  /\ started \in 0 .. Workers
  /\ mpc \in MasterPlaces /\ mhold \in 0 .. MaxConns
  /\ wpc \in [W -> WorkerPlaces] /\ hold \in [W -> 0 .. MaxConns]
  /\ squeue \in [0 .. Size - 1 -> 0 .. MaxConns]
  /\ sqTail \in 0 .. Size /\ sqHead \in sqTail .. sqTail + Size
  /\ arrived \in 0 .. MaxConns /\ accepted \in 0 .. arrived
  /\ fate \in [Conns -> Fates]

Queued == {squeue[i % Size] : i \in sqTail .. sqHead - 1}

(***************************************************************************)
(* process_new_connection is only entered with a socket: consume_socket    *)
(* returns true with nothing taken from the queue never, although it reads *)
(* the stop flag again after the unlock.                                   *)
(***************************************************************************)
ServesItsOwn ==
  \A w \in W : wpc[w] = "serve" => /\ hold[w] \in 1 .. accepted
                                   /\ fate[hold[w]] = "none"

(***************************************************************************)
(* While a worker waits on sq_full, every queued socket has a worker that  *)
(* is awake to take it: one signal for each socket is enough, and none is  *)
(* sent while nobody hears it.                                             *)
(***************************************************************************)
WorkConserving ==
  (\E w \in W : wpc[w] = "wait")
    => Filled <= Cardinality({w \in W : wpc[w] = "consume"})

(***************************************************************************)
(* When mg_stop has freed the context no thread of the server is left that *)
(* could use it, and the listening sockets are closed.  When mg_start has  *)
(* returned NULL no thread is left either; but the sockets are still open  *)
(* if it failed after set_ports_option (SetLimits).                        *)
(***************************************************************************)
FreedIsQuiet ==
  /\ app = "freed" => /\ mpc = "gone" /\ ~ports
                      /\ \A w \in W : wpc[w] \in {"none", "gone"}
  /\ app = "null" => mpc = "none" /\ \A w \in W : wpc[w] = "none"

-----------------------------------------------------------------------------
(* Server implements Dispatch. *)

phase == IF app = "freed" THEN "over"
         ELSE IF stop = 0 THEN "open" ELSE "closing"

state == [c \in Conns |->
            IF c > accepted THEN "absent"
            ELSE CASE fate[c] \in {"served", "refused"} -> fate[c]
                   [] fate[c] = "lost" -> "dropped"
                   [] fate[c] = "none" ->
                        IF \E w \in W : hold[w] = c THEN "busy" ELSE "pending"]

Abstract == INSTANCE Dispatch WITH Connections <- Conns, Capacity <- Size + 1,
                                   Servers <- Workers

(***************************************************************************)
(* Accepted connections are taken in the order of their acceptance, each   *)
(* by one worker, at most sq_size + 1 wait, and none is lost while nobody  *)
(* has called mg_stop.                                                     *)
(***************************************************************************)
ImplementsDispatch == Abstract!Spec

(***************************************************************************)
(* As long as the server is not stopped and a worker is left, an accepted  *)
(* connection is served: every wait of the master and of the workers is    *)
(* ended by a signal.                                                      *)
(***************************************************************************)
EveryoneServed ==
  \A c \in Conns :
    (c <= accepted /\ fate[c] = "none")
      ~> (fate[c] = "served" \/ stop # 0 \/ \A w \in 1 .. started : wpc[w] = "gone")

\* The master waits on sq_empty and nobody is left to signal it.
Stranded == mpc = "wait" /\ stop # 0 /\ \A w \in 1 .. started : wpc[w] = "gone"

(***************************************************************************)
(* mg_stop returns, unless the last worker to leave had taken its socket   *)
(* from the queue before the master filled the queue again and waited: it  *)
(* reads the stop flag after the unlock and leaves without a signal.       *)
(***************************************************************************)
StopEnds == app = "stopping" ~> (app = "freed" \/ Stranded)

(***************************************************************************)
(* "Call consume_socket() even when ctx->stop_flag > 0, to let it signal   *)
(* sq_empty condvar to wake up the master waiting in produce_socket()"     *)
(* (civetweb.c:18862): mg_stop returns.  Violated.                         *)
(***************************************************************************)
ShutdownEnds == app = "stopping" ~> app = "freed"
=============================================================================
