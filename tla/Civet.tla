-------------------------------- MODULE Civet --------------------------------
(***************************************************************************)
(* Parts of CivetWeb whose calls have to end: the list of handlers, a      *)
(* connection, CGI requests, the client, the programs of CGI, and a        *)
(* websocket.  They do not share their state: each behaviour is one of one *)
(* part.                                                                   *)
(***************************************************************************)
EXTENDS Integers, Sequences, FiniteSets

CONSTANTS
  PartsRun,   \* which of the parts to run
  \* Handlers
  HandlerUris, RequestUris, Calls, Requests, Setters, Cells, MaxStray, MaxLost, MaxSets, UIntMax,
  Matches(_, _, _),
  \* Connection
  Streams, BufSize, ReadSizes, DiscardSize,
  \* Cgi
  Workers, Programs, Bodies, PipeSize, BufLen, MaxTimers,
  \* Client
  Connects, MaxTries, MaxGets, MaxMessages,
  \* Spawn
  Starters, Kinds,
  \* Websocket
  Sends, Inline, Base, Room, Mem, PullSizes, PingPong, MaxPing, MaxSlow, Cuts

VARIABLES
  part,
  list, info, req, setter, sets, stray,
  out, sock, eof, stop, pc, buf, requestLen, contentLen, consumed,
  isChunked, mustClose, handled, back, want, ret, body,
  cgi, child, pipe, proc, timers, timer, halt,
  user, taken, link, thread, misuse,
  station, holds, marked, program, forked,
  wire, open, reader, app, lock, sent, sgot, torn

handlersVars == <<list, info, req, setter, sets, stray>>
connectionVars == <<out, sock, eof, stop, pc, buf, requestLen, contentLen, consumed,
                    isChunked, mustClose, handled, back, want, ret, body>>
cgiVars == <<cgi, child, pipe, proc, timers, timer, halt>>
clientVars == <<user, taken, link, thread, misuse>>
spawnVars == <<station, holds, marked, program, forked>>
socketVars == <<wire, open, reader, app, lock, sent, sgot, torn>>
vars == <<part, handlersVars, connectionVars, cgiVars, clientVars, spawnVars, socketVars>>
-----------------------------------------------------------------------------

H == INSTANCE Handlers
K == INSTANCE Connection
G == INSTANCE Cgi
C == INSTANCE Client WITH Calls <- Connects, held <- taken
S == INSTANCE Spawn WITH place <- station, task <- program, at <- forked,
                         Workers <- Starters, Programs <- Kinds
W == INSTANCE Websocket WITH got <- sgot, ReadSizes <- PullSizes

\* What is supposed of the constants is explained in the modules.
ASSUME PartsAssumption ==
  /\ H!HandlersAssumption /\ K!ConnectionAssumption /\ G!CgiAssumption
  /\ C!ClientAssumption /\ S!SpawnAssumption /\ W!WebsocketAssumption

Idle == 0

Init ==
  /\ part \in PartsRun
  /\ IF part = "handlers" THEN H!Init
     ELSE /\ list = Idle /\ info = Idle /\ req = Idle /\ setter = Idle /\ sets = Idle
          /\ stray = Idle
  /\ IF part = "connection" THEN K!Init
     ELSE /\ out = Idle /\ sock = Idle /\ eof = Idle /\ stop = Idle /\ pc = Idle
          /\ buf = Idle /\ requestLen = Idle /\ contentLen = Idle /\ consumed = Idle
          /\ isChunked = Idle /\ mustClose = Idle /\ handled = Idle /\ back = Idle
          /\ want = Idle /\ ret = Idle /\ body = Idle
  /\ IF part = "cgi" THEN G!Init
     ELSE /\ cgi = Idle /\ child = Idle /\ pipe = Idle /\ proc = Idle
          /\ timers = Idle /\ timer = Idle /\ halt = Idle
  /\ IF part = "client" THEN C!Init
     ELSE /\ user = Idle /\ taken = Idle /\ link = Idle /\ thread = Idle
          /\ misuse = Idle
  /\ IF part = "spawn" THEN S!Init
     ELSE /\ station = Idle /\ holds = Idle /\ marked = Idle /\ program = Idle
          /\ forked = Idle
  /\ IF part = "websocket" THEN W!Init
     ELSE /\ wire = Idle /\ open = Idle /\ reader = Idle /\ app = Idle /\ lock = Idle
          /\ sent = Idle /\ sgot = Idle /\ torn = Idle

Next ==
  \/ /\ part = "handlers" /\ H!Next
     /\ UNCHANGED <<part, connectionVars, cgiVars, clientVars, spawnVars, socketVars>>
  \/ /\ part = "connection" /\ K!Next
     /\ UNCHANGED <<part, handlersVars, cgiVars, clientVars, spawnVars, socketVars>>
  \/ /\ part = "cgi" /\ G!Next
     /\ UNCHANGED <<part, handlersVars, connectionVars, clientVars, spawnVars, socketVars>>
  \/ /\ part = "client" /\ C!Next
     /\ UNCHANGED <<part, handlersVars, connectionVars, cgiVars, spawnVars, socketVars>>
  \/ /\ part = "spawn" /\ S!Next
     /\ UNCHANGED <<part, handlersVars, connectionVars, cgiVars, clientVars, socketVars>>
  \/ /\ part = "websocket" /\ W!Next
     /\ UNCHANGED <<part, handlersVars, connectionVars, cgiVars, clientVars, spawnVars>>

\* The fairness of the parts' own specifications.
Fairness ==
  /\ \A r \in Requests : WF_handlersVars(part = "handlers" /\ H!HandleRequest(r))
  /\ \A s \in Setters : WF_handlersVars(part = "handlers" /\ H!SetHandler(s))
  /\ WF_connectionVars(part = "connection" /\ K!Worker)
  /\ \A w \in Workers : WF_cgiVars(part = "cgi" /\ G!Worker(w)) /\ WF_cgiVars(part = "cgi" /\ G!Run(w))
  /\ WF_clientVars(part = "client" /\ C!Thread) /\ WF_clientVars(part = "client" /\ C!Join)
  /\ WF_clientVars(part = "client" /\ C!CloseSocket) /\ WF_clientVars(part = "client" /\ C!Free)
  /\ \A w \in Starters : /\ WF_spawnVars(part = "spawn" /\ S!Worker(w))
                        /\ WF_spawnVars(part = "spawn" /\ S!Process(w))
                        /\ WF_spawnVars(part = "spawn" /\ S!TimerAborts(w))
  /\ \A e \in W!Ends : /\ WF_socketVars(part = "websocket" /\ W!Reader(e))
                         /\ WF_socketVars(part = "websocket" /\ W!App(e))
  /\ WF_cgiVars(part = "cgi" /\ G!Fire) /\ WF_cgiVars(part = "cgi" /\ G!AbortByTimer)

Spec == Init /\ [][Next]_vars /\ Fairness
-----------------------------------------------------------------------------
(* The properties are stated and explained in the modules. *)

\* The variables of the part that runs have their types, and counters, lengths and
\* places their bounds.
TypeOK == /\ part = "handlers" => H!TypeOK
          /\ part = "connection" => K!TypeOK
          /\ part = "cgi" => G!TypeOK
          /\ part = "client" => C!TypeOK
          /\ part = "spawn" => S!TypeOK
          /\ part = "websocket" => W!TypeOK

\* Handlers: no two entries are for the same type and URI, and a handler is not
\* replaced or removed under a request that uses it, as long as no reference was
\* given back twice.
HandlersStay == part = "handlers" => H!HandlersStay

\* Handlers, violated: it never is (include/civetweb.h:498).
WaitsUntilUnused == part = "handlers" => H!WaitsUntilUnused

\* Connection: the n-th request the worker sees is the n-th the client has sent, a
\* callback gets the body of that request, and nothing else, and a connection that is
\* kept has nothing left of its request.
InStep ==
  [][part = "connection" => K!InStep' /\ K!BodyIsTheClients' /\ K!KeptIsComplete]_vars

\* Websocket: the callback is given the messages that the other end has sent, whole and in
\* their order, up to a write of that end that was cut.
MessagesAreWhole == part = "websocket" => W!MessagesAreWhole

\* Cgi: no request leaves its process, a process's data are freed once, and the client
\* gets one header and all of what the program wrote, or nothing if the program's environment
\* could not be prepared.
\* Client: what an attempt to connect has taken is given back when it fails, or when the
\* connection is closed, and what it returns is a connection or the reason why not.
\* Spawn: a request closes the pipes it has opened, and a program holds those of another
\* only if it was forked early.
GivenBack ==
  /\ part = "cgi" => G!GivenBack
  /\ part = "client" => C!GivenBack
  /\ part = "spawn" => S!GivenBack
=============================================================================
