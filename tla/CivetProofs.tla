----------------------------- MODULE CivetProofs -----------------------------
(***************************************************************************)
(* Proofs about the parts of Civet: the programs of CGI and the ends of    *)
(* their pipes (Spawn), what a connection of a client has taken (Client),  *)
(* the list of handlers and the requests that use it (Handlers), the       *)
(* processes of CGI requests with their timers (Cgi), and the requests a   *)
(* worker reads from the stream of a client (Connection).  Each part has   *)
(* an inductive invariant, lemmas about its steps, and a theorem; that of  *)
(* the websocket is in WebsocketProofs, and the last theorems are about    *)
(* the parts together.                                                     *)
(***************************************************************************)
EXTENDS Civet, FiniteSetTheorems, NaturalsInduction, WellFoundedInduction, SequenceTheorems, TLAPS
-----------------------------------------------------------------------------
(* Spawn: the pipes of the programs *)

Places == {"pipes", "fork", "mark", "close", "body", "read", "abort", "close all", "done"}
Tasks == Kinds \cup {"none", "dup", "exec", "ended"}

SpawnTypes ==
    /\ station \in [Starters -> Places] /\ program \in [Starters -> Tasks]
    /\ holds \in [Starters \cup {S!Server} -> SUBSET S!Ends]
    /\ marked \in [Starters \cup {S!Server} -> SUBSET S!Ends]
    /\ forked \in [Starters -> [Starters -> Places]]

\* The server: what it holds of the pipes of a request, and whether the process runs,
\* follow from the place of the request.
ServerEnds ==
    \A v \in Starters :
      /\ station[v] \in {"pipes", "done"} => holds[S!Server] \cap S!Own(v) = {}
      /\ station[v] \in {"close", "body", "read", "abort"} =>
           holds[S!Server] \cap S!ParentSide(v) \subseteq marked[S!Server]
      /\ station[v] \in {"body", "read", "abort"} => holds[S!Server] \cap S!ChildSide(v) = {}
      /\ station[v] \in {"pipes", "fork", "close all", "done"} => ~S!Alive(v)

\* The processes: what one holds of the pipes of another request follows from where that
\* request was when it was forked; until exec it may hold what is marked, too.
Stranger(w, v) ==
    /\ holds[w] \cap S!ParentSide(v) # {} =>
         \/ forked[w][v] \in {"fork", "mark", "close all"}
         \/ program[w] \in {"dup", "exec"} /\ holds[w] \cap S!ParentSide(v) \subseteq marked[w]
    /\ holds[w] \cap S!ChildSide(v) # {} => forked[w][v] \in {"fork", "mark", "close", "close all"}

StrangerEnds == \A w, v \in Starters : w # v /\ S!Alive(w) => Stranger(w, v)

SpawnInv == SpawnTypes /\ ServerEnds /\ StrangerEnds

\* The pipes of two requests have no end in common.
LEMMA OwnEnds ==
    /\ \A w \in Starters : /\ S!ChildSide(w) \subseteq S!Ends /\ S!ParentSide(w) \subseteq S!Ends
                          /\ S!Own(w) = S!ChildSide(w) \cup S!ParentSide(w)
    /\ \A w, v \in Starters : w # v => S!Own(w) \cap S!Own(v) = {}
BY DEF S!Ends, S!Own, S!ChildSide, S!ParentSide

\* No request has begun: the invariant holds.
LEMMA SpawnBegins ==
    ASSUME S!SpawnAssumption, S!Init
    PROVE  SpawnInv
BY DEF S!Init, SpawnInv, SpawnTypes, ServerEnds, StrangerEnds, Stranger, S!Alive, Places, Tasks, S!SpawnAssumption

\* fork: the process inherits all that the server holds at that moment.
LEMMA ForkKeeps ==
    ASSUME S!SpawnAssumption, SpawnInv, NEW w \in Starters, S!Fork(w)
    PROVE  SpawnInv'
<1> USE OwnEnds DEF SpawnInv, SpawnTypes, S!SpawnAssumption, S!Move
<1>1. CASE S!Move(w, "close all") /\ UNCHANGED <<holds, marked, program, forked>>
  BY <1>1 DEF S!Fork, ServerEnds, StrangerEnds, Stranger, S!Alive, Places
<1>2. CASE /\ station' = [station EXCEPT ![w] = "mark"]
           /\ holds' = [holds EXCEPT ![w] = holds[S!Server]]
           /\ marked' = [marked EXCEPT ![w] = marked[S!Server]]
           /\ program' = [program EXCEPT ![w] = "dup"] /\ forked' = [forked EXCEPT ![w] = station]
  <2>1. SpawnTypes'
    BY <1>2 DEF Places, Tasks
  <2>2. ServerEnds'
    BY <1>2 DEF ServerEnds, S!Alive
  <2>3. StrangerEnds'
    <3> SUFFICES ASSUME NEW u \in Starters, NEW v \in Starters, u # v, S!Alive(u)'
                 PROVE  Stranger(u, v)'
      BY DEF StrangerEnds
    <3>1. CASE u = w
      <4>1. holds'[u] = holds[S!Server] /\ marked'[u] = marked[S!Server] /\ forked'[u] = station /\ program'[u] = "dup"
        BY <1>2, <3>1
      <4>2. station[v] \in Places
        OBVIOUS
      <4>3. holds[S!Server] \cap S!ParentSide(v) # {} =>
              \/ station[v] \in {"fork", "mark", "close all"}
              \/ holds[S!Server] \cap S!ParentSide(v) \subseteq marked[S!Server]
        BY <4>2 DEF ServerEnds, Places
      <4>4. holds[S!Server] \cap S!ChildSide(v) # {} => station[v] \in {"fork", "mark", "close", "close all"}
        BY <4>2 DEF ServerEnds, Places
      <4> QED BY <4>1, <4>3, <4>4 DEF Stranger
    <3>2. CASE u # w
      <4>1. UNCHANGED <<holds[u], marked[u], forked[u], program[u]>>
        BY <1>2, <3>2
      <4>2. Stranger(u, v)
        BY <4>1 DEF StrangerEnds, S!Alive
      <4> QED BY <4>1, <4>2 DEF Stranger
    <3> QED BY <3>1, <3>2
  <2> QED BY <2>1, <2>2, <2>3
<1> QED BY <1>1, <1>2 DEF S!Fork

\* The steps of the worker that handles a request.
LEMMA WorkerKeeps ==
    ASSUME S!SpawnAssumption, SpawnInv, NEW w \in Starters, S!Worker(w) \/ S!Dropped(w)
    PROVE  SpawnInv'
<1> USE OwnEnds DEF SpawnInv, SpawnTypes, S!SpawnAssumption, S!Move
<1>1. CASE S!Pipes(w)
  <2>1. PICK made \in SUBSET S!Own(w), to \in {"fork", "close all"} :
           station' = [station EXCEPT ![w] = to] /\ holds' = [holds EXCEPT ![S!Server] = @ \cup made]
    <3>1. S!Own(w) \in SUBSET S!Own(w) /\ \A m : {e \in S!Own(w) : e[2] \in m} \in SUBSET S!Own(w)
      OBVIOUS
    <3> QED BY <1>1, <3>1 DEF S!Pipes, S!Open
  <2>2. UNCHANGED <<marked, program, forked>> /\ station[w] = "pipes"
    BY <1>1 DEF S!Pipes
  <2>3. made \subseteq S!Ends
    OBVIOUS
  <2>7. holds[S!Server] \cup made \in SUBSET S!Ends
    BY <2>3
  <2>8. holds' \in [Starters \cup {S!Server} -> SUBSET S!Ends]
    BY <2>1, <2>7
  <2>9. station' \in [Starters -> Places]
    BY <2>1 DEF Places
  <2>4. SpawnTypes'
    BY <2>2, <2>8, <2>9
  <2>5. ServerEnds'
    <3> SUFFICES ASSUME NEW v \in Starters
                 PROVE  /\ station'[v] \in {"pipes", "done"} => holds'[S!Server] \cap S!Own(v) = {}
                        /\ station'[v] \in {"close", "body", "read", "abort"} =>
                             holds'[S!Server] \cap S!ParentSide(v) \subseteq marked'[S!Server]
                        /\ station'[v] \in {"body", "read", "abort"} => holds'[S!Server] \cap S!ChildSide(v) = {}
                        /\ station'[v] \in {"pipes", "fork", "close all", "done"} => ~S!Alive(v)'
      BY DEF ServerEnds
    <3>1. holds'[S!Server] = holds[S!Server] \cup made
      BY <2>1
    <3>2. CASE v = w
      BY <2>1, <2>2, <3>2 DEF ServerEnds, S!Alive
    <3>3. CASE v # w
      <4>1. made \cap S!Own(v) = {} /\ made \cap S!ParentSide(v) = {} /\ made \cap S!ChildSide(v) = {}
        BY <3>3
      <4>2. UNCHANGED <<station[v], program[v], marked>>
        BY <2>1, <2>2, <3>3
      <4>3. /\ holds'[S!Server] \cap S!Own(v) = holds[S!Server] \cap S!Own(v)
            /\ holds'[S!Server] \cap S!ParentSide(v) = holds[S!Server] \cap S!ParentSide(v)
            /\ holds'[S!Server] \cap S!ChildSide(v) = holds[S!Server] \cap S!ChildSide(v)
        BY <3>1, <4>1
      <4> QED BY <4>2, <4>3 DEF ServerEnds, S!Alive
    <3> QED BY <3>2, <3>3
  <2>6. StrangerEnds'
    BY <2>1, <2>2, ZenonT(60) DEF StrangerEnds, Stranger, S!Alive
  <2> QED BY <2>4, <2>5, <2>6
<1>2. CASE S!Mark(w)
  BY <1>2 DEF S!Mark, ServerEnds, StrangerEnds, Stranger, S!Alive, Places
<1>3. CASE S!CloseChildSide(w)
  BY <1>3, ZenonT(60) DEF S!CloseChildSide, S!Close, ServerEnds, StrangerEnds, Stranger, S!Alive, Places
<1>4. CASE S!CloseInput(w)
  <2>1. PICK gone \in SUBSET S!Ends, to \in {"read", "abort"} :
           station' = [station EXCEPT ![w] = to] /\ holds' = [holds EXCEPT ![S!Server] = @ \ gone]
    <3>1. {<<w, "in", "w">>} \in SUBSET S!Ends
      BY DEF S!Ends
    <3>2. holds = [holds EXCEPT ![S!Server] = @ \ {}]
      OBVIOUS
    <3> QED BY <1>4, <3>1, <3>2 DEF S!CloseInput, S!Close
  <2>2. UNCHANGED <<marked, program, forked>> /\ station[w] = "body"
    BY <1>4 DEF S!CloseInput
  <2>3. SpawnTypes'
    BY <2>1, <2>2 DEF Places
  <2>4. ServerEnds'
    BY <2>1, <2>2 DEF ServerEnds, S!Alive
  <2>5. StrangerEnds'
    BY <2>1, <2>2, ZenonT(60) DEF StrangerEnds, Stranger, S!Alive
  <2> QED BY <2>3, <2>4, <2>5
<1>5. CASE S!ReadOutput(w) \/ S!Dropped(w)
  BY <1>5, ZenonT(60) DEF S!ReadOutput, S!Dropped, ServerEnds, StrangerEnds, Stranger, S!Alive, Places
<1>6. CASE S!AbortProcess(w)
  BY <1>6, ZenonT(60) DEF S!AbortProcess, S!Killed, ServerEnds, StrangerEnds, Stranger, S!Alive, Places, Tasks
<1>7. CASE S!CloseAll(w)
  BY <1>7 DEF S!CloseAll, S!Close, S!Left, ServerEnds, StrangerEnds, Stranger, S!Alive, Places
<1> QED BY ForkKeeps, <1>1, <1>2, <1>3, <1>4, <1>5, <1>6, <1>7 DEF S!Worker

\* The steps of a process that was forked, and the timer that ends it.
LEMMA ProcessKeeps ==
    ASSUME S!SpawnAssumption, SpawnInv, NEW w \in Starters, S!Process(w) \/ S!TimerAborts(w)
    PROVE  SpawnInv'
<1> USE OwnEnds DEF SpawnInv, SpawnTypes, S!SpawnAssumption
<1>1. CASE S!Exits(w)
  BY <1>1, ZenonT(60) DEF S!Exits, S!Killed, ServerEnds, StrangerEnds, Stranger, S!Alive, Tasks
<1>2. CASE /\ program[w] = "dup" /\ program' = [program EXCEPT ![w] = "exec"]
           /\ holds' = [holds EXCEPT ![w] = (@ \ S!Own(w)) \cup S!ChildSide(w)]
           /\ UNCHANGED <<station, marked, forked>>
  <2>4. (holds[w] \ S!Own(w)) \cup S!ChildSide(w) \in SUBSET S!Ends
    OBVIOUS
  <2>5. holds' \in [Starters \cup {S!Server} -> SUBSET S!Ends]
    BY <1>2, <2>4
  <2>6. program' \in [Starters -> Tasks]
    BY <1>2 DEF Tasks
  <2>1. SpawnTypes'
    BY <1>2, <2>5, <2>6
  <2>2. ServerEnds'
    BY <1>2 DEF ServerEnds, S!Alive
  <2>3. StrangerEnds'
    <3> SUFFICES ASSUME NEW u \in Starters, NEW v \in Starters, u # v, S!Alive(u)'
                 PROVE  Stranger(u, v)'
      BY DEF StrangerEnds
    <3>1. Stranger(u, v)
      BY <1>2 DEF StrangerEnds, S!Alive
    <3>2. CASE u = w
      BY <1>2, <3>1, <3>2 DEF Stranger
    <3>3. CASE u # w
      BY <1>2, <3>1, <3>3 DEF Stranger
    <3> QED BY <3>2, <3>3
  <2> QED BY <2>1, <2>2, <2>3
<1>3. ASSUME NEW p \in Kinds, program[w] = "exec", program' = [program EXCEPT ![w] = p],
             holds' = [holds EXCEPT ![w] = @ \ marked[w]], UNCHANGED <<station, marked, forked>>
      PROVE  SpawnInv'
  <2>4. holds[w] \ marked[w] \in SUBSET S!Ends
    OBVIOUS
  <2>5. holds' \in [Starters \cup {S!Server} -> SUBSET S!Ends]
    BY <1>3, <2>4
  <2>6. program' \in [Starters -> Tasks]
    BY <1>3 DEF Tasks
  <2>1. SpawnTypes'
    BY <1>3, <2>5, <2>6
  <2>2. ServerEnds'
    BY <1>3 DEF ServerEnds, S!Alive
  <2>3. StrangerEnds'
    <3> SUFFICES ASSUME NEW u \in Starters, NEW v \in Starters, u # v, S!Alive(u)'
                 PROVE  Stranger(u, v)'
      BY DEF StrangerEnds
    <3>1. Stranger(u, v)
      BY <1>3 DEF StrangerEnds, S!Alive
    <3>2. CASE u = w
      BY <1>3, <3>1, <3>2 DEF Stranger
    <3>3. CASE u # w
      BY <1>3, <3>1, <3>3 DEF Stranger
    <3> QED BY <3>2, <3>3
  <2> QED BY <2>1, <2>2, <2>3
<1> QED BY <1>1, <1>2, <1>3 DEF S!Process, S!Dup, S!Exec, S!RunProgram, S!TimerAborts

\* The invariant says what is to be shown of the pipes.
LEMMA SpawnInvIs ==
    ASSUME S!SpawnAssumption, SpawnInv
    PROVE  S!TypeOK /\ S!GivenBack
BY ZenonT(60) DEF S!SpawnAssumption, SpawnInv, SpawnTypes, ServerEnds, StrangerEnds, S!TypeOK, S!GivenBack, S!DescriptorsGivenBack,
       S!StrangersAreEarly, Stranger, S!Alive, Places, Tasks

\* Every step of a request and of its program keeps the invariant.
LEMMA SpawnSteps ==
    ASSUME S!SpawnAssumption, SpawnInv, [S!Next]_(S!vars)
    PROVE  SpawnInv'
<1>1. CASE UNCHANGED S!vars
  BY <1>1 DEF S!vars, SpawnInv, SpawnTypes, ServerEnds, StrangerEnds, Stranger, S!Alive
<1> QED BY <1>1, WorkerKeeps, ProcessKeeps DEF S!Next

\* spawn_process, handle_cgi_request: whichever steps fail, and however many requests start
\* their programs at the same time, a request closes what it has opened and ends its process,
\* and a program holds an end of another request's pipes only if it was forked before that
\* request had marked its ends or closed them.
THEOREM SpawnSafe ==
    ASSUME S!SpawnAssumption
    PROVE  S!Spec => [](S!TypeOK /\ S!GivenBack)
<1>1. S!Init => SpawnInv
  BY SpawnBegins
<1>2. SpawnInv /\ [S!Next]_(S!vars) => SpawnInv'
  BY SpawnSteps
<1>3. SpawnInv => S!TypeOK /\ S!GivenBack
  BY SpawnInvIs
<1> QED BY <1>1, <1>2, <1>3, PTL DEF S!Spec
-----------------------------------------------------------------------------
(* Client: what is taken and given back *)

ThreadSteps == {"none", "reading", "closing", "stopping", "freeing", "ended"}
Reasons == {"", "protocol", "memory", "host", "socket", "connect", "timeout", "context", "mutex",
            "certificate", "handshake", "request", "response", "reply", "unexpected"}

Returns == {"none", "connection", "closed", "null"}
Users == [call : Connects, at : C!Steps, tries : Nat, gets : Nat, text : Reasons,
          ret : Returns]

Threads == [at : ThreadSteps, messages : Nat, closes : Nat]
Links == [type : {"http", "websocket"}, stop : 0 .. 2, mustClose : BOOLEAN,
          timeout : {"none", "given"}]

ClientTypes ==
    /\ user \in Users
    /\ user.tries < MaxTries /\ user.gets <= MaxGets
    /\ thread \in Threads /\ link \in Links

\* The steps in which the connection is opened, and those after it is given back.
Opening == {"arguments", "socket", "nonblocking", "connecting", "polling", "connected",
            "mutex", "certificate", "ca", "session", "handshake"}
Over == {"failed", "done"}

\* Each resource is held from the step that takes it to the one that gives it back; those
\* of a websocket's thread are given back by the thread, and by the user after it.
HeldAt ==
    /\ taken \subseteq {"connection", "socket", "context", "mutex", "session", "data", "ids"}
    /\ "connection" \in taken <=> user.at \notin {"arguments"} \cup Over
    /\ "socket" \in taken <=> user.at \notin {"arguments", "socket", "freeing"} \cup Over
    /\ "context" \in taken <=>
         user.call.tls /\ user.at \notin {"arguments", "socket", "nonblocking", "connecting", "polling",
                                          "connected"} \cup Over
    /\ user.at \notin Over => ("mutex" \in taken <=> user.at \notin Opening \/ user.at \in
                                            {"certificate", "ca", "session", "handshake"})
    /\ "session" \in taken <=>
         user.call.tls /\ user.at \notin (Opening \ {"handshake"}) \cup {"freeing"} \cup Over
    /\ "data" \in taken <=> user.at \in {"thread ids", "thread"} \/ thread.at \notin {"none", "ended"}
    /\ "ids" \in taken <=> user.at = "thread" \/ (link.type = "websocket" /\ user.at # "done")
    /\ user.at \in Over /\ "mutex" \in taken => user.call.tls /\ (user.at = "done" => user.ret = "null")

\* Which steps belong to which call, and where the thread can be then.
StepsOfCall ==
    /\ user.at \in {"certificate", "ca", "session", "handshake"} => user.call.tls
    /\ user.at \in {"request", "response"} => user.call.f \in {"download", "websocket"}
    /\ user.at \in {"thread data", "thread ids", "thread", "joining"} => user.call.f = "websocket"
    /\ user.at = "getting" => user.call.f = "get"
    /\ thread.at # "none" => user.call.f = "websocket" /\ link.type = "websocket"
    /\ thread.at \notin {"none", "ended"} => user.at \in {"returned", "joining"}
    /\ user.at = "joining" => thread.at # "none"
    /\ user.at \in Opening \cup {"open", "request", "response", "thread data", "thread ids", "thread",
                                "close failed"} => thread.at = "none"
    /\ user.at = "returned" /\ user.call.f = "websocket" => thread.at # "none"
    /\ link.type = "websocket" => user.call.f = "websocket"
    /\ link.type = "websocket" =>
         user.at \in {"returned", "joining", "close failed", "closing", "freeing", "done"}
    /\ thread.at \in {"stopping", "freeing", "ended"} => thread.closes = 1
    /\ thread.at \in {"none", "reading", "closing"} => thread.closes = 0

\* What the user has been given, or told of a failure, and which timeout holds.
Told ==
    /\ user.at \in {"returned", "joining", "getting"} => user.ret = "connection"
    /\ user.at \in Opening \cup {"open", "request", "response", "thread data", "thread ids", "thread"} =>
         user.text = "" /\ user.ret = "none"
    /\ user.at = "returned" /\ user.call.f # "get" => user.text = ""
    /\ user.at \in {"close failed", "failed"} => user.ret = "none"
    /\ user.at \in {"closing", "freeing"} => user.ret \in {"none", "connection"}
    /\ user.at \in {"close failed", "closing", "freeing"} /\ user.ret = "none" /\ user.text = "" =>
         user.call.f = "websocket"
    /\ user.at = "freeing" => link.mustClose
    /\ user.at = "failed" /\ user.text = "" => user.call.tls /\ user.call.ca
    /\ user.at = "done" /\ user.ret = "null" /\ user.text = "" =>
         IF user.call.f = "websocket" THEN link.mustClose ELSE user.call.tls /\ user.call.ca
    /\ user.at # "getting" => link.timeout = "none"

ClientInv == ClientTypes /\ HeldAt /\ StepsOfCall /\ Told /\ ~misuse

\* The user goes to a step; the call is the one it was.
UserMoves(at, text, given) ==
    user'.at = at /\ user'.text = text /\ user'.ret = given /\ user'.call = user.call

\* The names that the steps use.
LEMMA Names ==
    /\ "arguments" \in C!Steps /\ "socket" \in C!Steps /\ "nonblocking" \in C!Steps /\ "connecting" \in C!Steps
    /\ "polling" \in C!Steps /\ "connected" \in C!Steps /\ "mutex" \in C!Steps /\ "certificate" \in C!Steps
    /\ "ca" \in C!Steps /\ "session" \in C!Steps /\ "handshake" \in C!Steps /\ "open" \in C!Steps
    /\ "request" \in C!Steps /\ "response" \in C!Steps /\ "getting" \in C!Steps /\ "thread data" \in C!Steps
    /\ "thread ids" \in C!Steps /\ "thread" \in C!Steps /\ "returned" \in C!Steps /\ "close failed" \in C!Steps
    /\ "joining" \in C!Steps /\ "closing" \in C!Steps /\ "freeing" \in C!Steps /\ "failed" \in C!Steps
    /\ "done" \in C!Steps
    /\ "" \in Reasons /\ "protocol" \in Reasons /\ "memory" \in Reasons /\ "host" \in Reasons
    /\ "socket" \in Reasons /\ "connect" \in Reasons /\ "timeout" \in Reasons /\ "context" \in Reasons
    /\ "mutex" \in Reasons /\ "certificate" \in Reasons /\ "handshake" \in Reasons
    /\ "request" \in Reasons /\ "response" \in Reasons /\ "reply" \in Reasons /\ "unexpected" \in Reasons
    /\ "none" \in Returns /\ "connection" \in Returns /\ "closed" \in Returns /\ "null" \in Returns
BY DEF C!Steps, Reasons, Returns

\* The user has called, and nothing is taken yet.
LEMMA ClientBegins ==
    ASSUME C!ClientAssumption, C!Init
    PROVE  ClientInv
<1> USE DEF C!Init, C!NoThread, C!ClientAssumption
<1>1. PICK c \in Connects : user = [call |-> c, at |-> "arguments", tries |-> 0, gets |-> 0,
                                 text |-> "", ret |-> "none"]
  OBVIOUS
<1>2. user \in Users /\ user.tries = 0 /\ user.gets = 0
  BY <1>1, Names DEF Users
<1>3. thread \in Threads
  BY DEF Threads, ThreadSteps
<1>4. link \in Links
  <2>1. link = [type |-> "http", stop |-> 0, mustClose |-> FALSE, timeout |-> "none"]
    OBVIOUS
  <2> HIDE DEF C!Init, C!ClientAssumption
  <2> QED BY <2>1 DEF Links
<1>5. ClientTypes
  <2>1. 0 < MaxTries /\ 0 <= MaxGets
    <3>1. MaxTries \in Nat \ {0} /\ MaxGets \in Nat
      OBVIOUS
    <3> HIDE DEF C!Init, C!ClientAssumption
    <3> QED BY <3>1
  <2> HIDE DEF C!Init, C!ClientAssumption
  <2> QED BY <1>2, <1>3, <1>4, <2>1 DEF ClientTypes
<1>6. HeldAt /\ StepsOfCall /\ Told
  BY <1>1 DEF HeldAt, StepsOfCall, Told, Opening, Over
<1> QED BY <1>5, <1>6 DEF ClientInv

\* What the user is at, and has been given.
LEMMA UserFields ==
    ASSUME user \in Users
    PROVE  /\ user.at \in C!Steps /\ user.text \in Reasons /\ user.ret \in Returns
           /\ user.call \in Connects /\ user.tries \in Nat /\ user.gets \in Nat
           /\ user.tries + 1 \in Nat /\ user.gets + 1 \in Nat
BY DEF Users

\* Each step leaves the state of its type, and the counts within their bounds.
LEMMA ClientTypesKeep ==
    ASSUME C!ClientAssumption, ClientTypes, C!Next
    PROVE  ClientTypes'
<1>0. user \in Users /\ link \in Links /\ thread \in Threads
  BY DEF ClientTypes
<1>1. user' \in Users
  <2> USE DEF C!At, C!Goto, C!Call, Users
  <2>1. CASE C!Alloc
    BY <1>0, <2>1, Names DEF C!Alloc, C!Fails
  <2>w. user.call.wrong \in Reasons
    BY <1>0 DEF Users, C!ClientAssumption, Reasons
  <2>2. CASE C!Socket
    BY <1>0, <2>2, Names, <2>w DEF C!Socket, C!Fails
  <2>3. CASE C!ConnectSocket
    BY <1>0, <2>3, Names DEF C!ConnectSocket, C!Fails
  <2>4. CASE C!Context
    BY <1>0, <2>4, Names DEF C!Context, C!Fails
  <2>5. CASE C!Mutex
    BY <1>0, <2>5, Names DEF C!Mutex, C!Fails
  <2>6. CASE C!Certificates
    BY <1>0, <2>6, Names DEF C!Certificates, C!Fails
  <2>7. CASE C!Session
    BY <1>0, <2>7, Names DEF C!Session, C!Fails
  <2>8. CASE C!Handshake
    BY <1>0, <2>8, Names, UserFields DEF C!Handshake, C!Fails
  <2>9. CASE C!Open
    BY <1>0, <2>9, Names DEF C!Open
  <2>10. CASE C!Request
    BY <1>0, <2>10, Names DEF C!Request
  <2>11. CASE C!Response
    BY <1>0, <2>11, Names DEF C!Response
  <2>12. CASE C!GetResponse
    BY <1>0, <2>12, Names, UserFields DEF C!GetResponse
  <2>13. CASE C!GotResponse
    BY <1>0, <2>13, Names DEF C!GotResponse
  <2>14. CASE C!ThreadData
    BY <1>0, <2>14, Names DEF C!ThreadData
  <2>15. CASE C!StartThread
    BY <1>0, <2>15, Names DEF C!StartThread
  <2>16. CASE C!CloseConnection
    BY <1>0, <2>16, Names DEF C!CloseConnection
  <2>17. CASE C!Join
    BY <1>0, <2>17, Names DEF C!Join
  <2>18. CASE C!CloseSocket
    BY <1>0, <2>18, Names DEF C!CloseSocket
  <2>19. CASE C!Free
    BY <1>0, <2>19, Names DEF C!Free
  <2>20. CASE C!Failed
    BY <1>0, <2>20, Names DEF C!Failed
  <2>21. CASE C!Thread
    BY <1>0, <2>21 DEF C!Thread, C!Reads, C!Closes, C!Stops, C!Frees
  <2> QED BY <2>1, <2>2, <2>3, <2>4, <2>5, <2>6, <2>7, <2>8, <2>9, <2>10, <2>11, <2>12, <2>13, <2>14, <2>15, <2>16, <2>17, <2>18, <2>19, <2>20, <2>21 DEF C!Next, C!User
<1>2. user'.tries < MaxTries /\ user'.gets <= MaxGets
  <2>0. user.tries < MaxTries /\ user.gets <= MaxGets
    BY DEF ClientTypes
  <2>1. CASE C!Handshake
    BY <1>0, <2>0, <2>1 DEF Users, C!Handshake, C!Fails, C!Goto, C!Call, C!At
  <2>2. CASE C!GetResponse
    <3>1. user'.gets = user.gets + 1 /\ user'.tries = user.tries /\ user.gets < MaxGets /\ user.gets \in Nat
      <4>1. user' = [user EXCEPT !.gets = user.gets + 1, !.at = "getting", !.text = ""]
        BY <2>2 DEF C!GetResponse
      <4>2. user.gets < MaxGets
        BY <2>2 DEF C!GetResponse
      <4>3. user'.gets = user.gets + 1 /\ user'.tries = user.tries
        BY <1>0, <4>1 DEF Users
      <4>4. user.gets \in Nat
        BY <1>0, UserFields
      <4> QED BY <4>2, <4>3, <4>4
    <3>2. MaxGets \in Nat
      BY DEF C!ClientAssumption
    <3>3. user'.gets <= MaxGets
      BY <3>1, <3>2
    <3> QED BY <2>0, <3>1, <3>3
  <2>3. CASE ~C!Handshake /\ ~C!GetResponse
    <3>1. user'.tries = user.tries /\ user'.gets = user.gets
      <4> USE <1>0 DEF Users, C!Goto, C!Fails, C!At, C!Call
      <4>1. CASE C!Alloc
        BY <4>1 DEF C!Alloc
      <4>2. CASE C!Socket
        BY <4>2 DEF C!Socket
      <4>3. CASE C!ConnectSocket
        BY <4>3 DEF C!ConnectSocket
      <4>4. CASE C!Context
        BY <4>4 DEF C!Context
      <4>5. CASE C!Mutex
        BY <4>5 DEF C!Mutex
      <4>6. CASE C!Certificates
        BY <4>6 DEF C!Certificates
      <4>7. CASE C!Session
        BY <4>7 DEF C!Session
      <4>8. CASE C!Open
        BY <4>8 DEF C!Open
      <4>9. CASE C!Request
        BY <4>9 DEF C!Request
      <4>10. CASE C!Response
        BY <4>10 DEF C!Response
      <4>11. CASE C!GotResponse
        BY <4>11 DEF C!GotResponse
      <4>12. CASE C!ThreadData
        BY <4>12 DEF C!ThreadData
      <4>13. CASE C!StartThread
        BY <4>13 DEF C!StartThread
      <4>14. CASE C!CloseConnection
        BY <4>14 DEF C!CloseConnection
      <4>15. CASE C!Join
        BY <4>15 DEF C!Join
      <4>16. CASE C!CloseSocket
        BY <4>16 DEF C!CloseSocket
      <4>17. CASE C!Free
        BY <4>17 DEF C!Free
      <4>18. CASE C!Failed
        BY <4>18 DEF C!Failed
      <4>19. CASE C!Thread
        BY <4>19 DEF C!Thread, C!Reads, C!Closes, C!Stops, C!Frees
      <4> QED BY <2>3, <4>1, <4>2, <4>3, <4>4, <4>5, <4>6, <4>7, <4>8, <4>9, <4>10, <4>11, <4>12, <4>13, <4>14, <4>15, <4>16, <4>17, <4>18, <4>19 DEF C!Next, C!User
    <3> QED BY <2>0, <3>1
  <2> QED BY <2>1, <2>2, <2>3
<1>3. link' \in Links
  <2>1. CASE C!GetResponse
    BY <1>0, <2>1 DEF C!GetResponse, Links
  <2>2. CASE C!GotResponse
    BY <1>0, <2>2 DEF C!GotResponse, Links, C!Restored
  <2>3. CASE C!StartThread
    BY <1>0, <2>3 DEF C!StartThread, Links
  <2>4. CASE C!CloseConnection
    <3>1. link' = link \/ link' = [link EXCEPT !.stop = 1, !.mustClose = TRUE]
      BY <2>4 DEF C!CloseConnection
    <3>2. [link EXCEPT !.stop = 1, !.mustClose = TRUE] \in Links
      <4>1. 1 \in 0 .. 2
        OBVIOUS
      <4> DEFINE L == 0 .. 2
      <4>2. link \in [type : {"http", "websocket"}, stop : L, mustClose : BOOLEAN,
                      timeout : {"none", "given"}]
        BY <1>0 DEF Links
      <4>3. 1 \in L
        BY <4>1
      <4> HIDE DEF L
      <4>4. [link EXCEPT !.stop = 1, !.mustClose = TRUE]
              \in [type : {"http", "websocket"}, stop : L, mustClose : BOOLEAN,
                  timeout : {"none", "given"}]
        BY <4>2, <4>3
      <4> USE DEF L
      <4> QED BY <4>4 DEF Links
    <3> QED BY <1>0, <3>1, <3>2
  <2>5. CASE C!CloseSocket
    BY <1>0, <2>5 DEF C!CloseSocket, Links
  <2>6. CASE C!Stops
    BY <1>0, <2>6 DEF C!Stops, Links
  <2>7. CASE C!Alloc \/ C!Socket \/ C!ConnectSocket \/ C!Context \/ C!Mutex \/ C!Certificates \/ C!Session \/ C!Handshake \/ C!Open \/ C!Request
               \/ C!Response \/ C!ThreadData \/ C!Join \/ C!Free \/ C!Failed \/ C!Reads \/ C!Closes \/ C!Frees
    BY <1>0, <2>7 DEF C!Alloc, C!Socket, C!ConnectSocket, C!Context, C!Mutex, C!Certificates, C!Session, C!Handshake, C!Open, C!Request, C!Response, C!ThreadData, C!Join, C!Free, C!Failed, C!Reads, C!Closes, C!Frees
  <2> QED BY <2>1, <2>2, <2>3, <2>4, <2>5, <2>6, <2>7 DEF C!Next, C!User, C!Thread
<1>4. thread' \in Threads
  <2>0. thread.closes + 1 \in Nat /\ thread.messages + 1 \in Nat
    BY <1>0 DEF Threads
  <2>1. CASE C!StartThread
    BY <1>0, <2>1, <2>0 DEF C!StartThread, Threads, ThreadSteps
  <2>2. CASE C!Reads
    BY <1>0, <2>2, <2>0 DEF C!Reads, Threads, ThreadSteps
  <2>3. CASE C!Closes
    BY <1>0, <2>3, <2>0 DEF C!Closes, Threads, ThreadSteps
  <2>4. CASE C!Stops
    BY <1>0, <2>4, <2>0 DEF C!Stops, Threads, ThreadSteps
  <2>5. CASE C!Frees
    BY <1>0, <2>5, <2>0 DEF C!Frees, Threads, ThreadSteps
  <2>6. CASE C!Alloc \/ C!Socket \/ C!ConnectSocket \/ C!Context \/ C!Mutex \/ C!Certificates \/ C!Session \/ C!Handshake \/ C!Open \/ C!Request
               \/ C!Response \/ C!GetResponse \/ C!GotResponse \/ C!ThreadData \/ C!CloseConnection \/ C!Join \/ C!CloseSocket \/ C!Free \/ C!Failed
    BY <1>0, <2>6 DEF C!Alloc, C!Socket, C!ConnectSocket, C!Context, C!Mutex, C!Certificates, C!Session, C!Handshake, C!Open, C!Request, C!Response, C!GetResponse, C!GotResponse, C!ThreadData, C!CloseConnection, C!Join, C!CloseSocket, C!Free, C!Failed
  <2> QED BY <2>1, <2>2, <2>3, <2>4, <2>5, <2>6 DEF C!Next, C!User, C!Thread
<1> QED BY <1>1, <1>2, <1>3, <1>4 DEF ClientTypes

\* Each step takes or gives back what belongs to the place it leads to.
LEMMA ClientHoldings ==
    ASSUME C!ClientAssumption, ClientInv, C!Next
    PROVE  HeldAt' /\ StepsOfCall' /\ Told' /\ ~misuse'
<1>0. HeldAt /\ StepsOfCall /\ Told /\ ~misuse /\ user \in Users /\ link \in Links /\ thread \in Threads
  BY DEF ClientInv, ClientTypes
<1>c. user.call.f \in {"connect", "get", "download", "websocket"}
  BY <1>0 DEF Users, C!ClientAssumption
<1>1. CASE C!Alloc
  <2>1. /\ user.at = "arguments"
        /\ UNCHANGED <<link, thread>>
        /\ \/ /\ UserMoves("failed", "protocol", user.ret)
              /\ UNCHANGED <<taken, misuse>>
           \/ /\ UserMoves("failed", "memory", user.ret)
              /\ UNCHANGED <<taken, misuse>>
           \/ /\ UserMoves("socket", user.text, user.ret)
              /\ C!Keeps({"connection"})
    BY <1>0, <1>c, <1>1 DEF C!Alloc, C!Fails, C!At, C!Goto, C!Call, UserMoves, Users
  <2>2. HeldAt'
    BY <1>0, <2>1 DEF HeldAt, StepsOfCall, Told, Opening, Over, UserMoves, C!Keeps
  <2>3. StepsOfCall'
    BY <1>0, <2>1 DEF HeldAt, StepsOfCall, Told, Opening, Over, UserMoves, C!Keeps
  <2>4. Told'
    BY <1>0, <2>1 DEF HeldAt, StepsOfCall, Told, Opening, Over, UserMoves, C!Keeps
  <2>5. ~misuse'
    BY <1>0, <2>1 DEF HeldAt, StepsOfCall, Told, Opening, Over, UserMoves, C!Keeps
  <2> QED BY <2>2, <2>3, <2>4, <2>5
<1>2. CASE C!Socket
  <2>1. /\ user.at = "socket"
        /\ UNCHANGED <<link, thread>>
        /\ \/ /\ user.call.wrong # ""
              /\ UserMoves("failed", user.call.wrong, user.ret)
              /\ C!Drops({"connection"})
           \/ /\ UserMoves("failed", "socket", user.ret)
              /\ C!Drops({"connection"})
           \/ /\ UserMoves("nonblocking", user.text, user.ret)
              /\ C!Keeps({"socket"})
    BY <1>0, <1>c, <1>2 DEF C!Socket, C!Fails, C!At, C!Goto, C!Call, UserMoves, Users
  <2>2. HeldAt'
    BY <1>0, <2>1 DEF HeldAt, StepsOfCall, Told, Opening, Over, UserMoves, C!Keeps, C!Drops
  <2>3. StepsOfCall'
    BY <1>0, <2>1 DEF HeldAt, StepsOfCall, Told, Opening, Over, UserMoves, C!Keeps, C!Drops
  <2>4. Told'
    BY <1>0, <2>1 DEF HeldAt, StepsOfCall, Told, Opening, Over, UserMoves, C!Keeps, C!Drops
  <2>5. ~misuse'
    BY <1>0, <2>1 DEF HeldAt, StepsOfCall, Told, Opening, Over, UserMoves, C!Keeps, C!Drops
  <2> QED BY <2>2, <2>3, <2>4, <2>5
<1>3. CASE C!ConnectSocket
  <2>1. /\ UNCHANGED <<link, thread>>
        /\ user.at \in {"nonblocking", "connecting", "polling"}
        /\ \/ /\ UserMoves("connecting", user.text, user.ret)
              /\ UNCHANGED <<taken, misuse>>
           \/ /\ UserMoves("connected", user.text, user.ret)
              /\ UNCHANGED <<taken, misuse>>
           \/ /\ UserMoves("polling", user.text, user.ret)
              /\ UNCHANGED <<taken, misuse>>
           \/ /\ UserMoves("failed", "timeout", user.ret)
              /\ C!Drops(C!Closed)
           \/ /\ UserMoves("failed", "connect", user.ret)
              /\ C!Drops(C!Closed)
    BY <1>0, <1>c, <1>3 DEF C!ConnectSocket, C!Fails, C!At, C!Goto, C!Call, UserMoves, Users
  <2>2. HeldAt'
    BY <1>0, <2>1 DEF HeldAt, StepsOfCall, Told, Opening, Over, UserMoves, C!Drops, C!Closed
  <2>3. StepsOfCall'
    BY <1>0, <2>1 DEF HeldAt, StepsOfCall, Told, Opening, Over, UserMoves, C!Drops, C!Closed
  <2>4. Told'
    BY <1>0, <2>1 DEF HeldAt, StepsOfCall, Told, Opening, Over, UserMoves, C!Drops, C!Closed
  <2>5. ~misuse'
    BY <1>0, <2>1 DEF HeldAt, StepsOfCall, Told, Opening, Over, UserMoves, C!Drops, C!Closed
  <2> QED BY <2>2, <2>3, <2>4, <2>5
<1>4. CASE C!Context
  <2>1. /\ user.at = "connected"
        /\ UNCHANGED <<link, thread>>
        /\ \/ /\ user.call.tls
              /\ UserMoves("failed", "context", user.ret)
              /\ C!Drops(C!Closed)
           \/ /\ user.call.tls
              /\ UserMoves("mutex", user.text, user.ret)
              /\ C!Keeps({"context"})
           \/ /\ ~user.call.tls
              /\ UserMoves("mutex", user.text, user.ret)
              /\ UNCHANGED <<taken, misuse>>
    BY <1>0, <1>c, <1>4 DEF C!Context, C!Fails, C!At, C!Goto, C!Call, UserMoves, Users
  <2>2. HeldAt'
    BY <1>0, <2>1 DEF HeldAt, StepsOfCall, Told, Opening, Over, UserMoves, C!Keeps, C!Drops, C!Closed
  <2>3. StepsOfCall'
    BY <1>0, <2>1 DEF HeldAt, StepsOfCall, Told, Opening, Over, UserMoves, C!Keeps, C!Drops, C!Closed
  <2>4. Told'
    BY <1>0, <2>1 DEF HeldAt, StepsOfCall, Told, Opening, Over, UserMoves, C!Keeps, C!Drops, C!Closed
  <2>5. ~misuse'
    BY <1>0, <2>1 DEF HeldAt, StepsOfCall, Told, Opening, Over, UserMoves, C!Keeps, C!Drops, C!Closed
  <2> QED BY <2>2, <2>3, <2>4, <2>5
<1>5. CASE C!Mutex
  <2>1. /\ user.at = "mutex"
        /\ UNCHANGED <<link, thread>>
        /\ \/ /\ UserMoves("failed", "mutex", user.ret)
              /\ C!Drops(C!Closed \cup C!Secured)
           \/ /\ user.call.tls
              /\ UserMoves("certificate", user.text, user.ret)
              /\ C!Keeps({"mutex"})
           \/ /\ ~user.call.tls
              /\ UserMoves("open", user.text, user.ret)
              /\ C!Keeps({"mutex"})
    BY <1>0, <1>c, <1>5 DEF C!Mutex, C!Fails, C!At, C!Goto, C!Call, UserMoves, Users
  <2>2. HeldAt'
    BY <1>0, <2>1 DEF HeldAt, StepsOfCall, Told, Opening, Over, UserMoves, C!Keeps, C!Drops, C!Closed, C!Secured, C!Call
  <2>3. StepsOfCall'
    BY <1>0, <2>1 DEF HeldAt, StepsOfCall, Told, Opening, Over, UserMoves, C!Keeps, C!Drops, C!Closed, C!Secured, C!Call
  <2>4. Told'
    BY <1>0, <2>1 DEF HeldAt, StepsOfCall, Told, Opening, Over, UserMoves, C!Keeps, C!Drops, C!Closed, C!Secured, C!Call
  <2>5. ~misuse'
    BY <1>0, <2>1 DEF HeldAt, StepsOfCall, Told, Opening, Over, UserMoves, C!Keeps, C!Drops, C!Closed, C!Secured, C!Call
  <2> QED BY <2>2, <2>3, <2>4, <2>5
<1>6. CASE C!Certificates
  <2>1. /\ user.at \in {"certificate", "ca"}
        /\ UNCHANGED <<link, thread>>
        /\ \/ /\ UserMoves("ca", user.text, user.ret)
              /\ UNCHANGED <<taken, misuse>>
           \/ /\ UserMoves("session", user.text, user.ret)
              /\ UNCHANGED <<taken, misuse>>
           \/ /\ UserMoves("failed", "certificate", user.ret)
              /\ C!Drops(C!Closed \cup C!Secured)
           \/ /\ user.call.ca
              /\ UserMoves("failed", user.text, user.ret)
              /\ C!Drops(C!Closed \cup C!Secured)
    BY <1>0, <1>c, <1>6 DEF C!Certificates, C!Fails, C!At, C!Goto, C!Call, UserMoves, Users
  <2>2. HeldAt'
    BY <1>0, <2>1 DEF HeldAt, StepsOfCall, Told, Opening, Over, UserMoves, C!Drops, C!Closed, C!Secured, C!Call
  <2>3. StepsOfCall'
    BY <1>0, <2>1 DEF HeldAt, StepsOfCall, Told, Opening, Over, UserMoves, C!Drops, C!Closed, C!Secured, C!Call
  <2>4. Told'
    BY <1>0, <2>1 DEF HeldAt, StepsOfCall, Told, Opening, Over, UserMoves, C!Drops, C!Closed, C!Secured, C!Call
  <2>5. ~misuse'
    BY <1>0, <2>1 DEF HeldAt, StepsOfCall, Told, Opening, Over, UserMoves, C!Drops, C!Closed, C!Secured, C!Call
  <2> QED BY <2>2, <2>3, <2>4, <2>5
<1>7. CASE C!Session
  <2>1. /\ user.at = "session"
        /\ UNCHANGED <<link, thread>>
        /\ \/ /\ UserMoves("failed", "handshake", user.ret)
              /\ C!Drops(C!Closed \cup C!Secured)
           \/ /\ UserMoves("handshake", user.text, user.ret)
              /\ C!Keeps({"session"})
    BY <1>0, <1>c, <1>7 DEF C!Session, C!Fails, C!At, C!Goto, C!Call, UserMoves, Users
  <2>2. HeldAt'
    BY <1>0, <2>1 DEF HeldAt, StepsOfCall, Told, Opening, Over, UserMoves, C!Keeps, C!Drops, C!Closed, C!Secured, C!Call
  <2>3. StepsOfCall'
    BY <1>0, <2>1 DEF HeldAt, StepsOfCall, Told, Opening, Over, UserMoves, C!Keeps, C!Drops, C!Closed, C!Secured, C!Call
  <2>4. Told'
    BY <1>0, <2>1 DEF HeldAt, StepsOfCall, Told, Opening, Over, UserMoves, C!Keeps, C!Drops, C!Closed, C!Secured, C!Call
  <2>5. ~misuse'
    BY <1>0, <2>1 DEF HeldAt, StepsOfCall, Told, Opening, Over, UserMoves, C!Keeps, C!Drops, C!Closed, C!Secured, C!Call
  <2> QED BY <2>2, <2>3, <2>4, <2>5
<1>8. CASE C!Handshake
  <2>1. /\ user.at = "handshake"
        /\ UNCHANGED <<link, thread>>
        /\ \/ /\ UserMoves("open", user.text, user.ret)
              /\ UNCHANGED <<taken, misuse>>
           \/ /\ UserMoves("handshake", user.text, user.ret)
              /\ UNCHANGED <<taken, misuse>>
           \/ /\ UserMoves("failed", "handshake", user.ret)
              /\ C!Drops(C!Closed \cup C!Secured \cup {"session"})
    BY <1>0, <1>c, <1>8 DEF C!Handshake, C!Fails, C!At, C!Goto, C!Call, UserMoves, Users
  <2>2. HeldAt'
    BY <1>0, <2>1 DEF HeldAt, StepsOfCall, Told, Opening, Over, UserMoves, C!Drops, C!Closed, C!Secured, C!Call
  <2>3. StepsOfCall'
    BY <1>0, <2>1 DEF HeldAt, StepsOfCall, Told, Opening, Over, UserMoves, C!Drops, C!Closed, C!Secured, C!Call
  <2>4. Told'
    BY <1>0, <2>1 DEF HeldAt, StepsOfCall, Told, Opening, Over, UserMoves, C!Drops, C!Closed, C!Secured, C!Call
  <2>5. ~misuse'
    BY <1>0, <2>1 DEF HeldAt, StepsOfCall, Told, Opening, Over, UserMoves, C!Drops, C!Closed, C!Secured, C!Call
  <2> QED BY <2>2, <2>3, <2>4, <2>5
<1>9. CASE C!Open
  <2>1. /\ user.at = "open"
        /\ UNCHANGED <<link, thread>>
        /\ UNCHANGED <<taken, misuse>>
        /\ \/ /\ user.call.f \in {"connect", "get"}
              /\ UserMoves("returned", user.text, "connection")
           \/ /\ user.call.f \in {"download", "websocket"}
              /\ UserMoves("request", user.text, user.ret)
    BY <1>0, <1>c, <1>9 DEF C!Open, C!At, C!Goto, C!Call, UserMoves, Users
  <2>2. HeldAt'
    BY <1>0, <2>1 DEF HeldAt, StepsOfCall, Told, Opening, Over, UserMoves
  <2>3. StepsOfCall'
    BY <1>0, <2>1 DEF HeldAt, StepsOfCall, Told, Opening, Over, UserMoves
  <2>4. Told'
    BY <1>0, <2>1 DEF HeldAt, StepsOfCall, Told, Opening, Over, UserMoves
  <2>5. ~misuse'
    BY <1>0, <2>1 DEF HeldAt, StepsOfCall, Told, Opening, Over, UserMoves
  <2> QED BY <2>2, <2>3, <2>4, <2>5
<1>10. CASE C!Request
  <2>1. /\ user.at = "request"
        /\ UNCHANGED <<link, thread>>
        /\ taken' = taken
        /\ misuse' = (misuse \/ "connection" \notin taken)
        /\ \/ UserMoves("response", user.text, user.ret)
           \/ UserMoves("close failed", "request", user.ret)
    BY <1>0, <1>c, <1>10 DEF C!Request, C!At, C!Goto, C!Call, UserMoves, Users
  <2>2. HeldAt'
    BY <1>0, <2>1 DEF HeldAt, StepsOfCall, Told, Opening, Over, UserMoves
  <2>3. StepsOfCall'
    BY <1>0, <2>1 DEF HeldAt, StepsOfCall, Told, Opening, Over, UserMoves
  <2>4. Told'
    BY <1>0, <2>1 DEF HeldAt, StepsOfCall, Told, Opening, Over, UserMoves
  <2>5. ~misuse'
    BY <1>0, <2>1 DEF HeldAt, StepsOfCall, Told, Opening, Over, UserMoves
  <2> QED BY <2>2, <2>3, <2>4, <2>5
<1>11. CASE C!Response
  <2>1. /\ user.at = "response"
        /\ UNCHANGED <<link, thread>>
        /\ UNCHANGED <<taken, misuse>>
        /\ \/ UserMoves("close failed", "response", user.ret)
           \/ /\ user.call.f = "download"
              /\ UserMoves("returned", user.text, "connection")
           \/ /\ user.call.f = "websocket"
              /\ UserMoves("close failed", "reply", user.ret)
           \/ /\ user.call.f = "websocket"
              /\ UserMoves("thread data", user.text, user.ret)
    BY <1>0, <1>c, <1>11 DEF C!Response, C!At, C!Goto, C!Call, UserMoves, Users
  <2>2. HeldAt'
    BY <1>0, <2>1 DEF HeldAt, StepsOfCall, Told, Opening, Over, UserMoves
  <2>3. StepsOfCall'
    BY <1>0, <2>1 DEF HeldAt, StepsOfCall, Told, Opening, Over, UserMoves
  <2>4. Told'
    BY <1>0, <2>1 DEF HeldAt, StepsOfCall, Told, Opening, Over, UserMoves
  <2>5. ~misuse'
    BY <1>0, <2>1 DEF HeldAt, StepsOfCall, Told, Opening, Over, UserMoves
  <2> QED BY <2>2, <2>3, <2>4, <2>5
<1>12. CASE C!GetResponse
  <2>1. /\ user.at = "returned"
        /\ user.call.f = "get"
        /\ UNCHANGED <<taken, misuse>>
        /\ thread' = thread
        /\ link'.type = link.type
        /\ link'.stop = link.stop
        /\ link'.mustClose = link.mustClose
        /\ link'.timeout = "given"
        /\ UserMoves("getting", "", user.ret)
    BY <1>0, <1>c, <1>12 DEF C!GetResponse, C!At, C!Goto, C!Call, UserMoves, Users, Links
  <2>2. HeldAt'
    BY <1>0, <2>1 DEF HeldAt, StepsOfCall, Told, Opening, Over, UserMoves
  <2>3. StepsOfCall'
    BY <1>0, <2>1 DEF HeldAt, StepsOfCall, Told, Opening, Over, UserMoves
  <2>4. Told'
    BY <1>0, <2>1 DEF HeldAt, StepsOfCall, Told, Opening, Over, UserMoves
  <2>5. ~misuse'
    BY <1>0, <2>1 DEF HeldAt, StepsOfCall, Told, Opening, Over, UserMoves
  <2> QED BY <2>2, <2>3, <2>4, <2>5
<1>13. CASE C!GotResponse
  <2>1. /\ user.at = "getting"
        /\ UNCHANGED <<taken, misuse>>
        /\ thread' = thread
        /\ link'.type = link.type
        /\ link'.stop = link.stop
        /\ link'.mustClose = link.mustClose
        /\ link'.timeout = "none"
        /\ \/ UserMoves("returned", "", user.ret)
           \/ UserMoves("returned", "response", user.ret)
    BY <1>0, <1>c, <1>13 DEF C!GotResponse, C!Restored, C!At, C!Goto, C!Call, UserMoves, Users, Links
  <2>2. HeldAt'
    BY <1>0, <2>1 DEF HeldAt, StepsOfCall, Told, Opening, Over, UserMoves
  <2>3. StepsOfCall'
    BY <1>0, <2>1 DEF HeldAt, StepsOfCall, Told, Opening, Over, UserMoves
  <2>4. Told'
    BY <1>0, <2>1 DEF HeldAt, StepsOfCall, Told, Opening, Over, UserMoves
  <2>5. ~misuse'
    BY <1>0, <2>1 DEF HeldAt, StepsOfCall, Told, Opening, Over, UserMoves
  <2> QED BY <2>2, <2>3, <2>4, <2>5
<1>14. CASE C!ThreadData
  <2>1. /\ user.at \in {"thread data", "thread ids"}
        /\ UNCHANGED <<link, thread>>
        /\ \/ /\ user.at = "thread data"
              /\ UserMoves("close failed", user.text, user.ret)
              /\ UNCHANGED <<taken, misuse>>
           \/ /\ user.at = "thread data"
              /\ UserMoves("thread ids", user.text, user.ret)
              /\ C!Keeps({"data"})
           \/ /\ user.at = "thread ids"
              /\ UserMoves("close failed", user.text, user.ret)
              /\ C!Drops({"data"})
           \/ /\ user.at = "thread ids"
              /\ UserMoves("thread", user.text, user.ret)
              /\ C!Keeps({"ids"})
    BY <1>0, <1>c, <1>14 DEF C!ThreadData, C!At, C!Goto, C!Call, UserMoves, Users
  <2>2. HeldAt'
    BY <1>0, <2>1 DEF HeldAt, StepsOfCall, Told, Opening, Over, UserMoves, C!Keeps, C!Drops
  <2>3. StepsOfCall'
    BY <1>0, <2>1 DEF HeldAt, StepsOfCall, Told, Opening, Over, UserMoves, C!Keeps, C!Drops
  <2>4. Told'
    BY <1>0, <2>1 DEF HeldAt, StepsOfCall, Told, Opening, Over, UserMoves, C!Keeps, C!Drops
  <2>5. ~misuse'
    BY <1>0, <2>1 DEF HeldAt, StepsOfCall, Told, Opening, Over, UserMoves, C!Keeps, C!Drops
  <2> QED BY <2>2, <2>3, <2>4, <2>5
<1>15. CASE C!StartThread
  <2>1. /\ user.at = "thread"
        /\ link'.type = "websocket"
        /\ link'.mustClose = link.mustClose
        /\ link'.timeout = link.timeout
        /\ \/ /\ UserMoves("returned", user.text, "connection")
              /\ thread'.at = "reading"
              /\ thread'.closes = thread.closes
              /\ UNCHANGED <<taken, misuse>>
           \/ /\ UserMoves("close failed", user.text, user.ret)
              /\ C!Drops({"data"})
              /\ thread' = thread
    BY <1>0, <1>c, <1>15, ZenonT(60) DEF C!StartThread, C!At, C!Goto, C!Call, UserMoves, Users, Links, Threads
  <2>2. HeldAt'
    BY <1>0, <2>1 DEF HeldAt, StepsOfCall, Told, Opening, Over, UserMoves, C!Drops
  <2>3. StepsOfCall'
    BY <1>0, <2>1 DEF HeldAt, StepsOfCall, Told, Opening, Over, UserMoves, C!Drops
  <2>4. Told'
    BY <1>0, <2>1 DEF HeldAt, StepsOfCall, Told, Opening, Over, UserMoves, C!Drops
  <2>5. ~misuse'
    BY <1>0, <2>1 DEF HeldAt, StepsOfCall, Told, Opening, Over, UserMoves, C!Drops
  <2> QED BY <2>2, <2>3, <2>4, <2>5
<1>16. CASE C!CloseConnection
  <2>1. /\ user.at = "close failed" \/ (user.at = "returned" /\ user.ret = "connection")
        /\ taken' = taken
        /\ thread' = thread
        /\ misuse' = (misuse \/ "connection" \notin taken)
        /\ link'.type = link.type
        /\ link'.timeout = link.timeout
        /\ link.type = "websocket" => link'.mustClose = TRUE
        /\ \/ /\ link.type = "websocket"
              /\ thread.at # "none"
              /\ UserMoves("joining", user.text, user.ret)
           \/ /\ link.type # "websocket" \/ thread.at = "none"
              /\ UserMoves("closing", user.text, user.ret)
    BY <1>0, <1>c, <1>16 DEF C!CloseConnection, C!At, C!Goto, C!Call, UserMoves, Users, Links
  <2>2. HeldAt'
    BY <1>0, <2>1 DEF HeldAt, StepsOfCall, Told, Opening, Over, UserMoves
  <2>3. StepsOfCall'
    BY <1>0, <2>1 DEF HeldAt, StepsOfCall, Told, Opening, Over, UserMoves
  <2>4. Told'
    BY <1>0, <2>1 DEF HeldAt, StepsOfCall, Told, Opening, Over, UserMoves
  <2>5. ~misuse'
    BY <1>0, <2>1 DEF HeldAt, StepsOfCall, Told, Opening, Over, UserMoves
  <2> QED BY <2>2, <2>3, <2>4, <2>5
<1>17. CASE C!Join
  <2>1. /\ user.at = "joining"
        /\ thread.at = "ended"
        /\ UNCHANGED <<link, thread>>
        /\ UNCHANGED <<taken, misuse>>
        /\ UserMoves("closing", user.text, user.ret)
    BY <1>0, <1>c, <1>17 DEF C!Join, C!Joins, C!At, C!Goto, C!Call, UserMoves, Users
  <2>2. HeldAt'
    BY <1>0, <2>1 DEF HeldAt, StepsOfCall, Told, Opening, Over, UserMoves
  <2>3. StepsOfCall'
    BY <1>0, <2>1 DEF HeldAt, StepsOfCall, Told, Opening, Over, UserMoves
  <2>4. Told'
    BY <1>0, <2>1 DEF HeldAt, StepsOfCall, Told, Opening, Over, UserMoves
  <2>5. ~misuse'
    BY <1>0, <2>1 DEF HeldAt, StepsOfCall, Told, Opening, Over, UserMoves
  <2> QED BY <2>2, <2>3, <2>4, <2>5
<1>18. CASE C!CloseSocket
  <2>1. /\ user.at = "closing"
        /\ thread' = thread
        /\ C!Drops({"socket"} \cup (taken \cap {"session"}))
        /\ link'.type = link.type
        /\ link'.mustClose = TRUE
        /\ link'.timeout = link.timeout
        /\ UserMoves("freeing", user.text, user.ret)
    BY <1>0, <1>c, <1>18 DEF C!CloseSocket, C!At, C!Goto, C!Call, UserMoves, Users, Links
  <2>2. HeldAt'
    BY <1>0, <2>1 DEF HeldAt, StepsOfCall, Told, Opening, Over, UserMoves, C!Drops
  <2>3. StepsOfCall'
    BY <1>0, <2>1 DEF HeldAt, StepsOfCall, Told, Opening, Over, UserMoves, C!Drops
  <2>4. Told'
    BY <1>0, <2>1 DEF HeldAt, StepsOfCall, Told, Opening, Over, UserMoves, C!Drops
  <2>5. ~misuse'
    BY <1>0, <2>1 DEF HeldAt, StepsOfCall, Told, Opening, Over, UserMoves, C!Drops
  <2> QED BY <2>2, <2>3, <2>4, <2>5
<1>19. CASE C!Free
  <2>1. /\ user.at = "freeing"
        /\ UNCHANGED <<link, thread>>
        /\ C!Drops(C!Freed \cup {"mutex", "connection"})
        /\ \/ /\ user.ret = "connection"
              /\ UserMoves("done", user.text, "closed")
           \/ /\ user.ret # "connection"
              /\ UserMoves("done", user.text, "null")
    BY <1>0, <1>c, <1>19 DEF C!Free, C!At, C!Goto, C!Call, UserMoves, Users
  <2>2. HeldAt'
    BY <1>0, <2>1 DEF HeldAt, StepsOfCall, Told, Opening, Over, UserMoves, C!Drops, C!Freed, C!Call
  <2>3. StepsOfCall'
    BY <1>0, <2>1 DEF HeldAt, StepsOfCall, Told, Opening, Over, UserMoves, C!Drops, C!Freed, C!Call
  <2>4. Told'
    BY <1>0, <2>1 DEF HeldAt, StepsOfCall, Told, Opening, Over, UserMoves, C!Drops, C!Freed, C!Call
  <2>5. ~misuse'
    BY <1>0, <2>1, ZenonT(60) DEF HeldAt, StepsOfCall, Told, Opening, Over, UserMoves, C!Drops, C!Freed, C!Call
  <2> QED BY <2>2, <2>3, <2>4, <2>5
<1>20. CASE C!Failed
  <2>1. /\ user.at = "failed"
        /\ UNCHANGED <<link, thread>>
        /\ UNCHANGED <<taken, misuse>>
        /\ \/ /\ user.call.f = "websocket"
              /\ user.text = ""
              /\ UserMoves("done", "unexpected", "null")
           \/ /\ user.call.f # "websocket" \/ user.text # ""
              /\ UserMoves("done", user.text, "null")
    BY <1>0, <1>c, <1>20 DEF C!Failed, C!At, C!Goto, C!Call, UserMoves, Users
  <2>2. HeldAt'
    BY <1>0, <2>1 DEF HeldAt, StepsOfCall, Told, Opening, Over, UserMoves
  <2>3. StepsOfCall'
    BY <1>0, <2>1 DEF HeldAt, StepsOfCall, Told, Opening, Over, UserMoves
  <2>4. Told'
    BY <1>0, <2>1 DEF HeldAt, StepsOfCall, Told, Opening, Over, UserMoves
  <2>5. ~misuse'
    BY <1>0, <2>1 DEF HeldAt, StepsOfCall, Told, Opening, Over, UserMoves
  <2> QED BY <2>2, <2>3, <2>4, <2>5
<1>21. CASE C!Reads
  <2>1. /\ user' = user
        /\ thread.at = "reading"
        /\ taken' = taken
        /\ link' = link
        /\ C!Uses
        /\ \/ /\ thread'.at = "reading"
              /\ thread'.closes = thread.closes
           \/ /\ thread'.at = "closing"
              /\ thread'.closes = thread.closes
    BY <1>0, <1>c, <1>21 DEF C!Reads, C!At, C!Goto, C!Call, UserMoves, Users, Threads
  <2>2. HeldAt'
    BY <1>0, <2>1 DEF HeldAt, StepsOfCall, Told, Opening, Over, UserMoves, C!Uses
  <2>3. StepsOfCall'
    BY <1>0, <2>1 DEF HeldAt, StepsOfCall, Told, Opening, Over, UserMoves, C!Uses
  <2>4. Told'
    BY <1>0, <2>1 DEF HeldAt, StepsOfCall, Told, Opening, Over, UserMoves, C!Uses
  <2>5. ~misuse'
    BY <1>0, <2>1 DEF HeldAt, StepsOfCall, Told, Opening, Over, UserMoves, C!Uses
  <2> QED BY <2>2, <2>3, <2>4, <2>5
<1>22. CASE C!Closes
  <2>1. /\ user' = user
        /\ thread.at = "closing"
        /\ taken' = taken
        /\ link' = link
        /\ C!Uses
        /\ thread'.at = "stopping"
        /\ thread'.closes = 1
    <3>1. thread.closes = 0 /\ thread'.closes = thread.closes + 1
      <4>1. thread.closes = 0
        BY <1>0, <1>22 DEF C!Closes, StepsOfCall
      <4>2. thread'.closes = thread.closes + 1
        BY <1>0, <1>22 DEF C!Closes, Threads
      <4> QED BY <4>1, <4>2
    <3> QED BY <1>0, <1>22, <3>1 DEF C!Closes, Threads
  <2>2. HeldAt'
    BY <1>0, <2>1 DEF HeldAt, StepsOfCall, Told, Opening, Over, UserMoves, C!Uses
  <2>3. StepsOfCall'
    BY <1>0, <2>1 DEF HeldAt, StepsOfCall, Told, Opening, Over, UserMoves, C!Uses
  <2>4. Told'
    BY <1>0, <2>1 DEF HeldAt, StepsOfCall, Told, Opening, Over, UserMoves, C!Uses
  <2>5. ~misuse'
    BY <1>0, <2>1 DEF HeldAt, StepsOfCall, Told, Opening, Over, UserMoves, C!Uses
  <2> QED BY <2>2, <2>3, <2>4, <2>5
<1>23. CASE C!Stops
  <2>1. /\ user' = user
        /\ thread.at = "stopping"
        /\ taken' = taken
        /\ misuse' = (misuse \/ "connection" \notin taken)
        /\ link'.type = link.type
        /\ link'.mustClose = link.mustClose
        /\ link'.timeout = link.timeout
        /\ thread'.at = "freeing"
        /\ thread'.closes = thread.closes
    BY <1>0, <1>c, <1>23 DEF C!Stops, C!At, C!Goto, C!Call, UserMoves, Users, Links, Threads
  <2>2. HeldAt'
    BY <1>0, <2>1 DEF HeldAt, StepsOfCall, Told, Opening, Over, UserMoves
  <2>3. StepsOfCall'
    BY <1>0, <2>1 DEF HeldAt, StepsOfCall, Told, Opening, Over, UserMoves
  <2>4. Told'
    BY <1>0, <2>1 DEF HeldAt, StepsOfCall, Told, Opening, Over, UserMoves
  <2>5. ~misuse'
    BY <1>0, <2>1 DEF HeldAt, StepsOfCall, Told, Opening, Over, UserMoves
  <2> QED BY <2>2, <2>3, <2>4, <2>5
<1>24. CASE C!Frees
  <2>1. /\ user' = user
        /\ thread.at = "freeing"
        /\ link' = link
        /\ C!Drops({"data"})
        /\ thread'.at = "ended"
        /\ thread'.closes = thread.closes
    BY <1>0, <1>c, <1>24 DEF C!Frees, C!At, C!Goto, C!Call, UserMoves, Users, Threads
  <2>2. HeldAt'
    BY <1>0, <2>1 DEF HeldAt, StepsOfCall, Told, Opening, Over, UserMoves, C!Drops
  <2>3. StepsOfCall'
    BY <1>0, <2>1 DEF HeldAt, StepsOfCall, Told, Opening, Over, UserMoves, C!Drops
  <2>4. Told'
    BY <1>0, <2>1 DEF HeldAt, StepsOfCall, Told, Opening, Over, UserMoves, C!Drops
  <2>5. ~misuse'
    BY <1>0, <2>1 DEF HeldAt, StepsOfCall, Told, Opening, Over, UserMoves, C!Drops
  <2> QED BY <2>2, <2>3, <2>4, <2>5
<1> QED BY <1>1, <1>2, <1>3, <1>4, <1>5, <1>6, <1>7, <1>8, <1>9, <1>10, <1>11, <1>12, <1>13, <1>14, <1>15, <1>16, <1>17, <1>18, <1>19, <1>20, <1>21, <1>22, <1>23, <1>24 DEF C!Next, C!User, C!Thread

\* The invariant says what is to be shown of a connection.
LEMMA ClientInvIs ==
    ASSUME C!ClientAssumption, ClientInv
    PROVE  C!TypeOK /\ C!GivenBack
<1> USE DEF ClientInv, ClientTypes
<1>1. C!TypeOK
  <2>1. user.at \in C!Steps /\ thread.at \in ThreadSteps /\ link.stop \in 0 .. 2
    BY DEF Users, Threads, Links
  <2>2. thread.closes <= 1
    <3>1. thread.closes = 0 \/ thread.closes = 1
      BY <2>1 DEF StepsOfCall, ThreadSteps
    <3> QED BY <3>1
  <2>3. taken \subseteq {"connection", "socket", "context", "mutex", "session", "data", "ids"}
    BY DEF HeldAt
  <2> QED BY <2>1, <2>2, <2>3 DEF C!TypeOK, ThreadSteps
<1>2. C!NothingIsLeft
  <2>1. thread.at \in ThreadSteps
    BY DEF Threads
  <2>2. ASSUME user.at = "done"
        PROVE  /\ taken \subseteq (IF user.call.tls /\ user.ret = "null" THEN {"mutex"} ELSE {})
               /\ thread.at \in {"none", "ended"}
               /\ thread.at = "ended" <=> thread.closes = 1
    <3>1. taken \subseteq (IF user.call.tls /\ user.ret = "null" THEN {"mutex"} ELSE {})
      BY <2>1, <2>2 DEF HeldAt, StepsOfCall, Opening, Over
    <3>2. thread.at \in {"none", "ended"} /\ (thread.at = "ended" <=> thread.closes = 1)
      BY <2>2 DEF StepsOfCall
    <3> QED BY <3>1, <3>2
  <2> QED BY <2>2 DEF C!NothingIsLeft, ClientInv, C!At, C!Call
<1>3. C!ConnectionsAreWhole
  BY DEF C!At, C!Call, C!ConnectionsAreWhole, HeldAt, StepsOfCall, Told, Opening, Over
<1> QED BY <1>1, <1>2, <1>3 DEF C!GivenBack

\* Every step of the user, of the connection and of its thread keeps the invariant.
LEMMA ClientSteps ==
    ASSUME C!ClientAssumption, ClientInv, [C!Next]_(C!vars)
    PROVE  ClientInv'
<1>1. ASSUME ClientInv, UNCHANGED C!vars PROVE ClientInv'
  <2>1. ClientTypes'
    BY <1>1 DEF C!vars, ClientInv, ClientTypes
  <2>2. HeldAt' /\ StepsOfCall' /\ Told' /\ ~misuse'
    <3>1. HeldAt'
      BY <1>1 DEF C!vars, ClientInv, HeldAt
    <3>2. StepsOfCall'
      BY <1>1 DEF C!vars, ClientInv, StepsOfCall
    <3>3. Told'
      BY <1>1 DEF C!vars, ClientInv, Told
    <3>4. ~misuse'
      BY <1>1 DEF C!vars, ClientInv
    <3> QED BY <3>1, <3>2, <3>3, <3>4
  <2> QED BY <2>1, <2>2 DEF ClientInv
<1>2. ASSUME ClientInv, C!Next PROVE ClientInv'
  BY <1>2, ClientTypesKeep, ClientHoldings DEF ClientInv
<1> QED BY <1>1, <1>2

\* mg_connect_client, mg_connect_websocket_client, mg_download, mg_get_response and
\* mg_close_connection: wherever an attempt fails, and whatever the websocket's thread does
\* meanwhile, what was taken is given back, once, and is not used afterwards; a connection
\* that is returned has all it needs, and an attempt that failed has said why.
THEOREM ClientSafe ==
    ASSUME C!ClientAssumption
    PROVE  C!Spec => [](C!TypeOK /\ C!GivenBack)
<1>1. C!Init => ClientInv
  BY ClientBegins
<1>2. ClientInv /\ [C!Next]_(C!vars) => ClientInv'
  BY ClientSteps
<1>3. ClientInv => C!TypeOK /\ C!GivenBack
  BY ClientInvIs
<1> QED BY <1>1, <1>2, <1>3, PTL DEF C!Spec
-----------------------------------------------------------------------------
(* Handlers: the list and its counts *)

\* The cardinality that the parts count with is that of the theorems about finite sets.
LEMMA SameCardinality ==
    ASSUME NEW t
    PROVE  /\ G!Cardinality(t) = Cardinality(t) /\ H!Cardinality(t) = Cardinality(t)
           /\ H!IsFiniteSet(t) <=> IsFiniteSet(t)
BY DEF G!Cardinality, H!Cardinality, Cardinality, H!IsFiniteSet, IsFiniteSet

\* A count below the largest unsigned int goes up without overflow.
LEMMA CountUp ==
    ASSUME NEW m \in Nat, NEW n \in 0 .. m - 1
    PROVE  (n + 1) % (m + 1) = n + 1
OBVIOUS

\* A count above zero goes down without overflow.
LEMMA CountDown ==
    ASSUME NEW m \in Nat, NEW n \in 1 .. m
    PROVE  (n + m) % (m + 1) = n - 1
OBVIOUS

\* A count stays an unsigned int.
LEMMA CountMod ==
    ASSUME NEW m \in Nat, NEW n \in Nat
    PROVE  n % (m + 1) \in 0 .. m
OBVIOUS

NatOrder == OpToRel(<, Nat)

\* A set of natural numbers that is not empty has a smallest one.
LEMMA SmallestIn ==
    ASSUME NEW T, T \subseteq Nat, T # {}
    PROVE  \E n \in T : \A m \in T : n <= m
<1>1. IsWellFoundedOn(NatOrder, Nat)
  BY NatLessThanWellFounded DEF NatOrder
<1>0. NatOrder = {ss \in Nat \X Nat : ss[1] < ss[2]}
  BY DEF NatOrder, OpToRel
<1>2. PICK n \in T : \A m \in T : <<m, n>> \notin NatOrder
  BY <1>1, WFMin
<1>3. ASSUME NEW m \in T
      PROVE  n <= m
  <2>1. ~(m < n)
    BY <1>0, <1>2
  <2>2. m \in Nat /\ n \in Nat
    BY <1>2
  <2> QED BY <2>1, <2>2
<1> QED BY <1>2, <1>3

Infos == [type : H!Types, uri : HandlerUris, ver : 0 .. MaxSets, refcount : 0 .. UIntMax,
          removing : BOOLEAN, lost : 0 .. MaxLost]
Reqs == [pc : H!ReqPlaces, uri : RequestUris \cup {H!Idle.uri}, callback : BOOLEAN,
         entry : Cells \cup {0}, ver : 0 .. MaxSets, held : BOOLEAN]
Searches == [pc : {"search"}, type : H!Types, uri : HandlerUris, delete : BOOLEAN, ver : 0 .. MaxSets]
Rests == [pc : {"idle"}]

HandlersTypes ==
    /\ list \in Seq(Cells) /\ info \in [Cells -> Infos] /\ req \in [Requests -> Reqs]
    /\ setter \in [Setters -> Searches \cup Rests]
    /\ sets \in 0 .. MaxSets /\ stray \in 0 .. MaxStray

\* The list holds each cell once, and each type and URI once.
Same(d, e) == info[d].type = info[e].type /\ info[d].uri = info[e].uri
ListedOnce ==
    /\ \A i, j \in DOMAIN list : list[i] = list[j] => i = j
    /\ \A d, e \in H!Registered : Same(d, e) => d = e

\* A request holds a reference only while it is about to call the handler or has called it.
Holds(r) ==
    /\ req[r].held => req[r].callback /\ req[r].pc \in {"auth", "authcall", "callback", "release", "refused"}
    /\ req[r].callback => req[r].entry # 0
    /\ req[r].callback => req[r].held \/ req[r].pc = "interpret"
    /\ req[r].pc \in {"callback", "release"} => req[r].callback

\* As long as no reference was given back twice: what is held is in the list, unchanged,
\* and the count of an entry is the number of requests that hold it and of the references
\* to it that are lost.
Holders(e) == {r \in Requests : req[r].held /\ req[r].entry = e}
Held(r) ==
    req[r].held => /\ req[r].entry \in H!Registered /\ info[req[r].entry].type = H!REQUEST
                   /\ info[req[r].entry].ver = req[r].ver
Count(e) == Cardinality(Holders(e)) + info[e].lost
Counted(e) == info[e].type = H!REQUEST => info[e].refcount = Count(e)
HeldStays == (\A r \in Requests : Held(r)) /\ (\A e \in H!Registered : Counted(e))

HandlersInv ==
    /\ HandlersTypes /\ ListedOnce /\ (\A r \in Requests : Holds(r))
    /\ stray = 0 => HeldStays

\* What is in the list are entries.
LEMMA RegisteredAreCells ==
    ASSUME HandlersTypes
    PROVE  H!Registered \subseteq Cells
BY ElementOfSeq DEF HandlersTypes, H!Registered

\* What a search of the list finds is in the list and of the type that was sought.
LEMMA FoundIsRegistered ==
    ASSUME HandlersTypes, NEW type, NEW uri, H!Find(type, uri) # 0
    PROVE  H!Find(type, uri) \in H!Registered /\ info[H!Find(type, uri)].type = type
<1> DEFINE steps == {k \in 0 .. 2 : H!Candidates(type, uri, k) # {}}
           k == CHOOSE k \in steps : \A m \in steps : k <= m
           is == H!Candidates(type, uri, k)
           i == CHOOSE i \in is : \A j \in is : i <= j
<1>1. steps # {} /\ H!Find(type, uri) = list[i]
  BY DEF H!Find
<1>2. k \in steps
  <2>1. steps \subseteq Nat
    OBVIOUS
  <2> HIDE DEF steps
  <2> QED BY <1>1, <2>1, SmallestIn
<1>3. i \in is
  <2>1. is # {}
    BY <1>2
  <2>2. is \subseteq Nat
    <3>1. is \subseteq DOMAIN list
      BY DEF H!Candidates
    <3>2. DOMAIN list \subseteq Nat
      BY LenProperties, SMTT(30) DEF HandlersTypes
    <3> QED BY <3>1, <3>2
  <2> HIDE DEF is
  <2> QED BY <2>1, <2>2, SmallestIn
<1>4. i \in DOMAIN list /\ info[list[i]].type = type
  BY <1>3 DEF H!Candidates
<1> QED BY <1>1, <1>4 DEF H!Registered
-----------------------------------------------------------------------------
\* What a step does to a request, and to an entry.
Moves(r, spot, callback, entry, ver, held) ==
    /\ req'[r].pc = spot /\ req'[r].callback = callback /\ req'[r].entry = entry
    /\ req'[r].ver = ver /\ req'[r].held = held
    /\ \A q \in Requests : q # r => req'[q] = req[q]
Becomes(e, type, uri, ver, num, lost) ==
    /\ info'[e].type = type /\ info'[e].uri = uri /\ info'[e].ver = ver /\ info'[e].refcount = num
    /\ info'[e].lost = lost
    /\ \A d \in Cells : d # e => info'[d] = info[d]

MovesPc(r, spot) == Moves(r, spot, req[r].callback, req[r].entry, req[r].ver, req[r].held)
Ends(r) == Moves(r, "idle", FALSE, 0, 0, FALSE)
Counts(e, num) == Becomes(e, info[e].type, info[e].uri, info[e].ver, num, info[e].lost)

\* A request goes to a place, and nothing else of it changes.
LEMMA GoMoves ==
    ASSUME HandlersTypes, NEW r \in Requests, NEW spot \in H!ReqPlaces, H!Go(r, spot)
    PROVE  MovesPc(r, spot) /\ req' \in [Requests -> Reqs]
<1>1. req' = [req EXCEPT ![r].pc = spot] /\ req \in [Requests -> Reqs] /\ req[r] \in Reqs
  BY DEF H!Go, HandlersTypes
<1>2. [req[r] EXCEPT !.pc = spot] \in Reqs
  BY <1>1 DEF Reqs
<1>3. req'[r] = [req[r] EXCEPT !.pc = spot] /\ req' \in [Requests -> Reqs]
  BY <1>1, <1>2
<1> QED BY <1>1, <1>3 DEF MovesPc, Moves, Reqs

\* The request that rests, and the entry that is free, are of their types.
LEMMA IdleIsReq ==
    ASSUME H!HandlersAssumption
    PROVE  H!Idle \in Reqs /\ H!NoInfo \in Infos
<1>1. 0 \in 0 .. MaxSets /\ 0 \in 0 .. UIntMax /\ 0 \in 0 .. MaxLost
  BY DEF H!HandlersAssumption
<1>2. (CHOOSE u \in HandlerUris : TRUE) \in HandlerUris
  BY DEF H!HandlersAssumption
<1>3. H!NoInfo \in Infos
  BY <1>1, <1>2 DEF H!NoInfo, Infos, H!Types
<1>4. H!Idle.uri \in RequestUris \cup {H!Idle.uri} /\ "idle" \in H!ReqPlaces
  BY DEF H!ReqPlaces
<1>5. H!Idle \in Reqs
  <2> DEFINE U == RequestUris \cup {H!Idle.uri}
  <2>1. H!Idle.uri = CHOOSE u \in RequestUris : TRUE
    BY DEF H!Idle
  <2>2. (CHOOSE u \in RequestUris : TRUE) \in U
    BY <2>1
  <2> HIDE DEF U
  <2>3. [pc |-> "idle", uri |-> CHOOSE u \in RequestUris : TRUE,
         callback |-> FALSE, entry |-> 0, ver |-> 0, held |-> FALSE]
          \in [pc : H!ReqPlaces, uri : U, callback : BOOLEAN,
               entry : Cells \cup {0}, ver : 0 .. MaxSets, held : BOOLEAN]
    BY <1>1, <1>4, <2>2
  <2> USE DEF U
  <2> QED BY <2>3 DEF H!Idle, Reqs
<1> QED BY <1>3, <1>5

\* A request ends: it holds nothing.
LEMMA EndEnds ==
    ASSUME H!HandlersAssumption, HandlersTypes, NEW r \in Requests, H!End(r)
    PROVE  Ends(r) /\ req' \in [Requests -> Reqs]
<1>1. req' = [req EXCEPT ![r] = H!Idle]
  BY DEF H!End
<1>2. H!Idle.pc = "idle" /\ H!Idle.callback = FALSE /\ H!Idle.entry = 0 /\ H!Idle.ver = 0 /\ H!Idle.held = FALSE
  BY DEF H!Idle
<1> QED BY <1>1, <1>2, IdleIsReq DEF HandlersTypes, Ends, Moves

\* The kinds of steps of a request: it takes a reference, gives one back, loses it, or none
\* of these.
Others(r) == \A q \in Requests : q # r => req'[q] = req[q]
Takes(r) ==
    /\ stray' = stray /\ Others(r) /\ ~req[r].held /\ req'[r].held
    /\ req'[r].entry \in H!Registered /\ info[req'[r].entry].type = H!REQUEST
    /\ info[req'[r].entry].ver = req'[r].ver
    /\ Counts(req'[r].entry, (info[req'[r].entry].refcount + 1) % (UIntMax + 1))
Passes(r) ==
    /\ stray' = stray /\ info' = info /\ Others(r) /\ req'[r].held = req[r].held
    /\ req[r].held => req'[r].entry = req[r].entry /\ req'[r].ver = req[r].ver
GivesBack(r) ==
    /\ req[r].entry \in Cells /\ Others(r) /\ req'[r].held = FALSE
    /\ Counts(req[r].entry, (info[req[r].entry].refcount + UIntMax) % (UIntMax + 1))
    /\ stray' = IF req[r].held THEN stray ELSE stray + 1
Loses(r) ==
    /\ stray' = stray /\ Others(r) /\ req[r].held /\ req'[r].held = FALSE
    /\ Becomes(req[r].entry, info[req[r].entry].type, info[req[r].entry].uri, info[req[r].entry].ver,
               info[req[r].entry].refcount, info[req[r].entry].lost + 1)

\* The parts of a request.
LEMMA ReqFields ==
    ASSUME HandlersTypes, NEW r \in Requests
    PROVE  /\ req[r] \in Reqs /\ req[r].entry \in Cells \cup {0} /\ req[r].held \in BOOLEAN
           /\ req[r].callback \in BOOLEAN /\ req[r].pc \in H!ReqPlaces /\ req[r].ver \in 0 .. MaxSets
BY DEF HandlersTypes, Reqs

\* The parts of an entry.
LEMMA EntryFields ==
    ASSUME HandlersTypes, NEW e \in Cells
    PROVE  /\ info[e] \in Infos /\ info[e].type \in H!Types /\ info[e].uri \in HandlerUris
           /\ info[e].ver \in 0 .. MaxSets /\ info[e].refcount \in 0 .. UIntMax /\ info[e].removing \in BOOLEAN
           /\ info[e].lost \in 0 .. MaxLost
BY DEF HandlersTypes, Infos

\* The count of one entry is set.
LEMMA CountTyped ==
    ASSUME HandlersTypes, NEW e \in Cells, NEW n \in 0 .. UIntMax,
           info' = [info EXCEPT ![e].refcount = n]
    PROVE  info' \in [Cells -> Infos] /\ Counts(e, n)
<1>1. info[e] \in Infos
  BY EntryFields
<1>2. [info[e] EXCEPT !.refcount = n] \in Infos
  BY <1>1 DEF Infos
<1>3. info \in [Cells -> Infos]
  BY DEF HandlersTypes
<1>4. info' \in [Cells -> Infos] /\ info'[e] = [info[e] EXCEPT !.refcount = n]
  BY <1>2, <1>3
<1>5. Counts(e, n)
  BY <1>1, <1>3, <1>4 DEF Counts, Becomes, Infos
<1> QED BY <1>4, <1>5

\* The effect of one step of a request, whatever the other requests hold.
RequestEffect(r) ==
    /\ req' \in [Requests -> Reqs] /\ info' \in [Cells -> Infos] /\ stray' \in 0 .. MaxStray
    /\ UNCHANGED <<list, setter, sets>> /\ Holds(r)'
    /\ Takes(r) \/ Passes(r) \/ GivesBack(r) \/ Loses(r)

\* get_request_handler: nothing is found, or an entry is found and counted.
LEMMA GetEffect ==
    ASSUME H!HandlersAssumption, HandlersTypes, NEW r \in Requests, Holds(r), H!GetRequestHandler(r)
    PROVE  RequestEffect(r)
<1> PICK u \in RequestUris :
       LET e == H!Find(H!REQUEST, u)
       IN IF H!Usable(e)
          THEN /\ H!Acquire(r, e)
               /\ req' = [req EXCEPT ![r] = [H!Idle EXCEPT
                     !.pc = "auth", !.uri = u, !.callback = TRUE, !.entry = e,
                     !.ver = info[e].ver, !.held = TRUE]]
          ELSE /\ UNCHANGED info
               /\ req' = [req EXCEPT ![r] = [H!Idle EXCEPT
                     !.pc = "interpret", !.uri = u]]
  BY DEF H!GetRequestHandler
<1> DEFINE e == H!Find(H!REQUEST, u)
<1>1. req[r].pc = "idle" /\ UNCHANGED <<list, setter, sets, stray>>
  BY DEF H!GetRequestHandler
<1>2. ~req[r].held /\ stray' \in 0 .. MaxStray
  BY <1>1 DEF Holds, HandlersTypes
<1>3. H!Idle \in Reqs /\ req \in [Requests -> Reqs]
  BY IdleIsReq DEF HandlersTypes
<1>4. CASE H!Usable(e)
  <2>1. e \in H!Registered /\ info[e].type = H!REQUEST /\ e \in Cells /\ e # 0
    BY <1>4, FoundIsRegistered, RegisteredAreCells DEF H!Usable
  <2>2. info[e].ver \in 0 .. MaxSets /\ info[e].refcount \in 0 .. UIntMax
    BY <2>1, EntryFields
  <2> DEFINE I == [H!Idle EXCEPT !.pc = "auth", !.uri = u, !.callback = TRUE, !.entry = e,
                               !.ver = info[e].ver, !.held = TRUE]
             n == (info[e].refcount + 1) % (UIntMax + 1)
  <2>3. H!Acquire(r, e) /\ req' = [req EXCEPT ![r] = I]
    BY <1>4
  <2> HIDE DEF e
  <2>4. "auth" \in H!ReqPlaces
    BY DEF H!ReqPlaces
  <2>5. I \in Reqs
    BY <1>3, <2>1, <2>2, <2>4 DEF Reqs
  <2>6. /\ I.pc = "auth" /\ I.callback = TRUE /\ I.entry = e /\ I.ver = info[e].ver /\ I.held = TRUE
    BY <1>3 DEF Reqs
  <2> HIDE DEF I
  <2>7. req' \in [Requests -> Reqs] /\ req'[r] = I /\ Others(r)
    BY <1>3, <2>3, <2>5 DEF Others
  <2>8. n \in 0 .. UIntMax
    <3>1. UIntMax \in Nat
      BY DEF H!HandlersAssumption
    <3> QED BY <2>2, <3>1, CountMod
  <2>9. info' = [info EXCEPT ![e].refcount = n]
    BY <2>3 DEF H!Acquire
  <2>10. info' \in [Cells -> Infos] /\ Counts(e, n)
    BY <2>1, <2>8, <2>9, CountTyped
  <2>11. Holds(r)'
    BY <2>1, <2>6, <2>7 DEF Holds
  <2>12. Takes(r)
    BY <1>1, <1>2, <2>1, <2>6, <2>7, <2>10 DEF Takes
  <2> QED BY <1>1, <1>2, <2>7, <2>10, <2>11, <2>12 DEF RequestEffect
<1>5. CASE ~H!Usable(e)
  <2> DEFINE I == [H!Idle EXCEPT !.pc = "interpret", !.uri = u]
  <2>1. UNCHANGED info /\ req' = [req EXCEPT ![r] = I]
    BY <1>5
  <2>2. "interpret" \in H!ReqPlaces /\ H!Idle.callback = FALSE /\ H!Idle.held = FALSE
    BY DEF H!ReqPlaces, H!Idle
  <2>3. I \in Reqs /\ I.pc = "interpret" /\ I.callback = FALSE /\ I.held = FALSE
    BY <1>3, <2>2 DEF Reqs
  <2> HIDE DEF I
  <2>4. req' \in [Requests -> Reqs] /\ req'[r] = I /\ Others(r)
    BY <1>3, <2>1, <2>3 DEF Others
  <2>5. Holds(r)'
    BY <2>3, <2>4 DEF Holds
  <2>6. Passes(r)
    <3>1. req[r].held = FALSE
      BY <1>2, ReqFields
    <3> QED BY <1>1, <2>1, <2>3, <2>4, <3>1 DEF Passes
  <2>7. info' \in [Cells -> Infos]
    BY <2>1 DEF HandlersTypes
  <2> QED BY <1>1, <1>2, <2>4, <2>5, <2>6, <2>7 DEF RequestEffect
<1> QED BY <1>4, <1>5

\* A step that takes no reference and gives none back.
LEMMA PassEffect ==
    ASSUME HandlersTypes, NEW r \in Requests, Holds(r),
           UNCHANGED <<list, info, setter, sets, stray>>, req' \in [Requests -> Reqs],
           \/ \E spot \in H!ReqPlaces :
                /\ MovesPc(r, spot)
                /\ req[r].pc # "interpret"
                /\ req[r].held => spot \in {"auth", "authcall", "callback", "release", "refused"}
                /\ spot \in {"callback", "release"} => req[r].callback
           \/ Ends(r) /\ ~req[r].held
           \/ ~req[r].held /\ Moves(r, "auth", FALSE, req[r].entry, req[r].ver, req[r].held)
    PROVE  RequestEffect(r)
<1>1. info' \in [Cells -> Infos] /\ stray' \in 0 .. MaxStray
  BY DEF HandlersTypes
<1>2. req[r].held \in BOOLEAN
  BY ReqFields
<1>3. CASE \E spot \in H!ReqPlaces :
                /\ MovesPc(r, spot)
                /\ req[r].pc # "interpret"
                /\ req[r].held => spot \in {"auth", "authcall", "callback", "release", "refused"}
                /\ spot \in {"callback", "release"} => req[r].callback
  <2>1. Holds(r)'
    BY <1>2, <1>3 DEF MovesPc, Moves, Holds
  <2>2. Passes(r)
    BY <1>3 DEF MovesPc, Moves, Passes, Others
  <2> QED BY <1>1, <2>1, <2>2 DEF RequestEffect
<1>4. CASE Ends(r) /\ ~req[r].held
  <2>1. Holds(r)'
    BY <1>2, <1>4 DEF Ends, Moves, Holds
  <2>2. Passes(r)
    BY <1>2, <1>4 DEF Ends, Moves, Passes, Others
  <2> QED BY <1>1, <2>1, <2>2 DEF RequestEffect
<1>5. CASE ~req[r].held /\ Moves(r, "auth", FALSE, req[r].entry, req[r].ver, req[r].held)
  <2>1. Holds(r)'
    BY <1>2, <1>5 DEF Moves, Holds
  <2>2. Passes(r)
    BY <1>2, <1>5 DEF Moves, Passes, Others
  <2> QED BY <1>1, <2>1, <2>2 DEF RequestEffect
<1> QED BY <1>3, <1>4, <1>5

\* A request that is let through: where it goes.
LEMMA GrantedMoves ==
    ASSUME HandlersTypes, NEW r \in Requests, Holds(r), H!Granted(r), req[r].pc # "interpret"
    PROVE  /\ req' \in [Requests -> Reqs]
           /\ \E spot \in H!ReqPlaces :
                /\ MovesPc(r, spot)
                /\ req[r].pc # "interpret"
                /\ req[r].held => spot \in {"auth", "authcall", "callback", "release", "refused"}
                /\ spot \in {"callback", "release"} => req[r].callback
<1>1. "callback" \in H!ReqPlaces /\ "file" \in H!ReqPlaces
  BY DEF H!ReqPlaces
<1>2. CASE req[r].callback
  <2>1. H!Go(r, "callback")
    BY <1>2 DEF H!Granted
  <2> QED BY <1>1, <1>2, <2>1, GoMoves
<1>3. CASE ~req[r].callback
  <2>1. H!Go(r, "file") /\ ~req[r].held
    BY <1>3 DEF H!Granted, Holds
  <2> QED BY <1>1, <1>3, <2>1, GoMoves
<1> QED BY <1>2, <1>3

\* handler_info_release: the count goes down, and the request holds the entry no more.
LEMMA ReleaseEffect ==
    ASSUME H!HandlersAssumption, HandlersTypes, NEW r \in Requests, Holds(r),
           UNCHANGED <<list, setter, sets>>, H!ReleaseHandlerRef(r),
           req' \in [Requests -> Reqs], Others(r), req'[r].held = FALSE, Holds(r)'
    PROVE  RequestEffect(r)
<1>0. req[r].entry \in Cells \cup {0} /\ req[r].held \in BOOLEAN
  BY ReqFields
<1>1. CASE req[r].entry = 0
  <2>1. UNCHANGED <<info, stray>>
    BY <1>1 DEF H!ReleaseHandlerRef
  <2>2. req[r].held = FALSE
    BY <1>0, <1>1 DEF Holds
  <2>3. info' \in [Cells -> Infos] /\ stray' \in 0 .. MaxStray
    BY <2>1 DEF HandlersTypes
  <2> QED BY <2>1, <2>2, <2>3 DEF Passes, RequestEffect
<1>2. CASE req[r].entry # 0
  <2> DEFINE e == req[r].entry
             n == (info[e].refcount + UIntMax) % (UIntMax + 1)
  <2>1. e \in Cells
    BY <1>0, <1>2
  <2>2. info' = [info EXCEPT ![e].refcount = n]
    BY <1>2 DEF H!ReleaseHandlerRef
  <2>3. stray' = (IF req[r].held THEN stray ELSE stray + 1) /\ stray' <= MaxStray
    BY <1>2 DEF H!ReleaseHandlerRef
  <2>4. n \in 0 .. UIntMax
    <3>1. info[e].refcount \in 0 .. UIntMax /\ UIntMax \in Nat
      BY <2>1, EntryFields DEF H!HandlersAssumption
    <3>2. info[e].refcount + UIntMax \in Nat
      BY <3>1
    <3> QED BY <3>1, <3>2, CountMod
  <2>5. stray' \in 0 .. MaxStray
    <3>1. stray \in 0 .. MaxStray /\ MaxStray \in Nat
      BY DEF HandlersTypes, H!HandlersAssumption
    <3> QED BY <2>3, <3>1
  <2>6. info' \in [Cells -> Infos] /\ Counts(e, n)
    BY <2>1, <2>2, <2>4, CountTyped
  <2>7. GivesBack(r)
    BY <2>1, <2>3, <2>6 DEF GivesBack
  <2> QED BY <2>5, <2>6, <2>7 DEF RequestEffect
<1> QED BY <1>1, <1>2

\* HTTP1_only: the request ends, and its reference is counted for ever.
LEMMA LossEffect ==
    ASSUME H!HandlersAssumption, HandlersTypes, NEW r \in Requests, Holds(r),
           req[r].pc = "callback", req[r].callback,
           UNCHANGED <<list, setter, sets, stray>>, H!MustUseHttp1(r)
    PROVE  RequestEffect(r)
<1> DEFINE e == req[r].entry
           I == [info[e] EXCEPT !.lost = @ + 1]
<1>1. req[r].held /\ e \in Cells
  BY ReqFields DEF Holds
<1>2. /\ info' = [info EXCEPT ![e].lost = @ + 1] /\ info[e].lost < MaxLost /\ H!End(r)
      /\ info \in [Cells -> Infos]
  BY DEF H!MustUseHttp1, HandlersTypes
<1>3. info[e].lost + 1 \in 0 .. MaxLost /\ info[e] \in Infos
  <2>1. MaxLost \in Nat
    BY DEF H!HandlersAssumption
  <2>2. info[e].lost \in 0 .. MaxLost /\ info[e] \in Infos
    BY <1>1, EntryFields
  <2> QED BY <1>2, <2>1, <2>2
<1>4. /\ I \in Infos /\ I.type = info[e].type /\ I.uri = info[e].uri /\ I.ver = info[e].ver
      /\ I.refcount = info[e].refcount /\ I.lost = info[e].lost + 1
  BY <1>3 DEF Infos
<1>5. info' = [info EXCEPT ![e] = I]
  BY <1>2
<1> HIDE DEF I
<1>6. /\ info' \in [Cells -> Infos] /\ info'[e] = I
      /\ \A d \in Cells : d # e => info'[d] = info[d]
  BY <1>1, <1>2, <1>4, <1>5
<1>7. Becomes(e, info[e].type, info[e].uri, info[e].ver, info[e].refcount, info[e].lost + 1)
  BY <1>4, <1>6 DEF Becomes
<1>8. Ends(r) /\ req' \in [Requests -> Reqs]
  BY <1>2, EndEnds
<1>9. Others(r) /\ req'[r].held = FALSE /\ Holds(r)'
  BY <1>8 DEF Ends, Moves, Others, Holds
<1>10. Loses(r)
  BY <1>1, <1>7, <1>9 DEF Loses
<1>11. stray' \in 0 .. MaxStray
  BY DEF HandlersTypes
<1> QED BY <1>6, <1>8, <1>9, <1>10, <1>11 DEF RequestEffect

\* Every step of handle_request has one of the four effects.
LEMMA HandleEffect ==
    ASSUME H!HandlersAssumption, HandlersTypes, NEW r \in Requests, Holds(r), H!HandleRequest(r)
    PROVE  RequestEffect(r)
<1>0. /\ "auth" \in H!ReqPlaces /\ "authcall" \in H!ReqPlaces /\ "refused" \in H!ReqPlaces
      /\ "release" \in H!ReqPlaces /\ "interpret" \in H!ReqPlaces /\ req[r] \in Reqs
      /\ req \in [Requests -> Reqs] /\ req[r].held \in BOOLEAN
  BY ReqFields DEF H!ReqPlaces, HandlersTypes
<1>1. CASE H!InterpretUri(r)
  <2>1. /\ req[r].pc = "interpret" /\ req' = [req EXCEPT ![r].pc = "auth", ![r].callback = FALSE]
        /\ UNCHANGED <<list, info, setter, sets, stray>>
    BY <1>1 DEF H!InterpretUri
  <2>2. ~req[r].held
    BY <2>1 DEF Holds
  <2> DEFINE I == [req[r] EXCEPT !.pc = "auth", !.callback = FALSE]
  <2>3. /\ I \in Reqs /\ I.pc = "auth" /\ I.callback = FALSE /\ I.entry = req[r].entry
        /\ I.ver = req[r].ver /\ I.held = req[r].held
    BY <1>0 DEF Reqs
  <2>4. req' = [req EXCEPT ![r] = I]
    BY <2>1, <1>0 DEF Reqs
  <2> HIDE DEF I
  <2>5. req' \in [Requests -> Reqs] /\ Moves(r, "auth", FALSE, req[r].entry, req[r].ver, req[r].held)
    BY <1>0, <2>3, <2>4 DEF Moves
  <2> QED BY <2>1, <2>2, <2>5, PassEffect
<1>2. CASE H!CheckAuthorization(r)
  <2>1. req[r].pc = "auth" /\ UNCHANGED <<list, info, setter, sets, stray>>
    BY <1>2 DEF H!CheckAuthorization
  <2>2. H!Go(r, "authcall") \/ H!Granted(r) \/ H!Go(r, "refused") \/ (~req[r].callback /\ H!End(r))
    BY <1>2 DEF H!CheckAuthorization
  <2>3. CASE H!Go(r, "authcall")
    BY <1>0, <2>1, <2>3, GoMoves, PassEffect
  <2>4. CASE H!Granted(r)
    BY <2>1, <2>4, GrantedMoves, PassEffect
  <2>5. CASE H!Go(r, "refused")
    BY <1>0, <2>1, <2>5, GoMoves, PassEffect
  <2>6. CASE ~req[r].callback /\ H!End(r)
    <3>1. ~req[r].held
      BY <2>6 DEF Holds
    <3> QED BY <2>1, <2>6, <3>1, EndEnds, PassEffect
  <2> QED BY <2>2, <2>3, <2>4, <2>5, <2>6
<1>3. CASE H!AuthHandler(r)
  <2>1. UNCHANGED <<list, info, setter, sets, stray>> /\ req[r].pc = "authcall"
    BY <1>3 DEF H!AuthHandler
  <2>2. H!Granted(r) \/ H!Go(r, "refused")
    BY <1>3 DEF H!AuthHandler
  <2>3. CASE H!Granted(r)
    BY <2>1, <2>3, GrantedMoves, PassEffect
  <2>4. CASE H!Go(r, "refused")
    BY <1>0, <2>1, <2>4, GoMoves, PassEffect
  <2> QED BY <2>2, <2>3, <2>4
<1>4. CASE H!CallbackHandler(r)
  <2>1. req[r].pc = "callback" /\ UNCHANGED <<list, setter, sets, stray>>
    BY <1>4 DEF H!CallbackHandler
  <2>2. req[r].callback
    BY <2>1 DEF Holds
  <2>3. CASE H!Go(r, "release") /\ UNCHANGED info
    BY <1>0, <2>1, <2>2, <2>3, GoMoves, PassEffect
  <2>4. CASE H!MustUseHttp1(r)
    BY <2>1, <2>2, <2>4, LossEffect
  <2> QED BY <1>4, <2>3, <2>4 DEF H!CallbackHandler
<1>5. CASE H!Release(r)
  <2>1. H!ReleaseHandlerRef(r) /\ UNCHANGED <<list, setter, sets>> /\ req[r].pc = "release"
    BY <1>5 DEF H!Release
  <2>2. CASE H!End(r)
    <3>1. Ends(r) /\ req' \in [Requests -> Reqs]
      BY <2>2, EndEnds
    <3>2. Others(r) /\ req'[r].held = FALSE /\ Holds(r)'
      BY <3>1 DEF Ends, Moves, Others, Holds
    <3> QED BY <2>1, <3>1, <3>2, ReleaseEffect
  <2>3. CASE req' = [req EXCEPT ![r].pc = "interpret", ![r].held = FALSE, ![r].ver = 0]
    <3> DEFINE I == [req[r] EXCEPT !.pc = "interpret", !.held = FALSE, !.ver = 0]
    <3>1. 0 \in 0 .. MaxSets
      BY DEF H!HandlersAssumption
    <3>2. /\ I \in Reqs /\ I.pc = "interpret" /\ I.callback = req[r].callback
          /\ I.entry = req[r].entry /\ I.held = FALSE
      BY <1>0, <3>1 DEF Reqs
    <3>3. req' = [req EXCEPT ![r] = I]
      BY <1>0, <2>3 DEF Reqs
    <3> HIDE DEF I
    <3>4. req' \in [Requests -> Reqs] /\ Others(r) /\ req'[r] = I
      BY <1>0, <3>2, <3>3 DEF Others
    <3>5. Holds(r)'
      BY <3>2, <3>4 DEF Holds
    <3> QED BY <2>1, <3>2, <3>4, <3>5, ReleaseEffect
  <2> QED BY <1>5, <2>2, <2>3 DEF H!Release
<1>6. CASE H!Refuse(r)
  <2>1. H!ReleaseHandlerRef(r) /\ UNCHANGED <<list, setter, sets>> /\ H!End(r)
    BY <1>6 DEF H!Refuse
  <2>2. Ends(r) /\ req' \in [Requests -> Reqs]
    BY <2>1, EndEnds
  <2>3. Others(r) /\ req'[r].held = FALSE /\ Holds(r)'
    BY <2>2 DEF Ends, Moves, Others, Holds
  <2> QED BY <2>1, <2>2, <2>3, ReleaseEffect
<1>7. CASE H!ServeFile(r)
  <2>1. req[r].pc = "file" /\ H!End(r) /\ UNCHANGED <<list, info, setter, sets, stray>>
    BY <1>7 DEF H!ServeFile
  <2>2. ~req[r].held
    BY <2>1 DEF Holds
  <2> QED BY <2>1, <2>2, EndEnds, PassEffect
<1> QED BY <1>1, <1>2, <1>3, <1>4, <1>5, <1>6, <1>7 DEF H!HandleRequest
-----------------------------------------------------------------------------
\* The requests that hold an entry are finite.
LEMMA HoldersAre ==
    ASSUME H!HandlersAssumption, NEW e
    PROVE  /\ IsFiniteSet(Holders(e)) /\ Cardinality(Holders(e)) \in Nat
           /\ Cardinality(Holders(e)) <= Cardinality(Requests)
           /\ Cardinality(Holders(e)) = 0 <=> Holders(e) = {}
<1>1. IsFiniteSet(Requests)
  BY SameCardinality DEF H!HandlersAssumption
<1>2. Holders(e) \subseteq Requests
  BY DEF Holders
<1>3. IsFiniteSet(Holders(e)) /\ Cardinality(Holders(e)) <= Cardinality(Requests)
  BY <1>1, <1>2, FS_Subset
<1>4. Cardinality(Holders(e)) \in Nat
  BY <1>3, FS_CardinalityType
<1>5. Cardinality(Holders(e)) = 0 <=> Holders(e) = {}
  BY <1>3, FS_EmptySet
<1> QED BY <1>3, <1>4, <1>5

\* What an unsigned int counts is enough for the requests and for the lost references.
LEMMA CountsAre ==
    ASSUME H!HandlersAssumption, HandlersTypes, NEW e \in Cells
    PROVE  /\ Count(e) \in 0 .. UIntMax /\ UIntMax \in Nat
           /\ info[e].lost \in 0 .. MaxLost /\ MaxLost \in Nat
           /\ Cardinality(Requests) \in Nat /\ Cardinality(Requests) + MaxLost <= UIntMax
<1>1. IsFiniteSet(Requests) /\ Cardinality(Requests) + MaxLost <= UIntMax
  BY SameCardinality DEF H!HandlersAssumption
<1>2. UIntMax \in Nat /\ MaxLost \in Nat
  BY DEF H!HandlersAssumption
<1>3. Cardinality(Requests) \in Nat
  BY <1>1, FS_CardinalityType
<1>4. info[e].lost \in 0 .. MaxLost
  BY EntryFields
<1>5. Cardinality(Holders(e)) \in Nat /\ Cardinality(Holders(e)) <= Cardinality(Requests)
  BY HoldersAre
<1> QED BY <1>1, <1>2, <1>3, <1>4, <1>5 DEF Count

\* Every request holds at most one entry: whoever holds none leaves room for one more.
LEMMA RoomForOne ==
    ASSUME H!HandlersAssumption, HandlersTypes, NEW e \in Cells, NEW r \in Requests, ~req[r].held
    PROVE  Count(e) \in 0 .. UIntMax - 1
<1>1. IsFiniteSet(Requests)
  BY SameCardinality DEF H!HandlersAssumption
<1>2. Holders(e) \subseteq Requests \ {r}
  BY DEF Holders
<1>3. IsFiniteSet(Requests \ {r}) /\ Cardinality(Requests \ {r}) = Cardinality(Requests) - 1
  BY <1>1, FS_RemoveElement
<1>4. IsFiniteSet(Holders(e)) /\ Cardinality(Holders(e)) <= Cardinality(Requests \ {r})
  BY <1>2, <1>3, FS_Subset
<1>5. Cardinality(Holders(e)) \in Nat
  BY HoldersAre
<1> QED BY <1>3, <1>4, <1>5, CountsAre DEF Count

\* The count is that of the holders when a request takes a reference,
LEMMA TakenIsCounted ==
    ASSUME H!HandlersAssumption, HandlersInv, NEW r \in Requests, RequestEffect(r), Takes(r), stray = 0
    PROVE  HeldStays'
<1> DEFINE f == req'[r].entry
<1>1. HeldStays /\ f \in H!Registered /\ H!Registered' = H!Registered /\ H!Registered \subseteq Cells
  BY RegisteredAreCells DEF HandlersInv, Takes, RequestEffect, H!Registered
<1>2. info[f].refcount = Count(f) /\ info[f].type = H!REQUEST
  BY <1>1 DEF HeldStays, Counted, Takes
<1>3. Count(f) \in 0 .. UIntMax - 1 /\ UIntMax \in Nat
  <2>1. f \in Cells /\ HandlersTypes /\ ~req[r].held
    BY <1>1 DEF HandlersInv, Takes
  <2> QED BY <2>1, RoomForOne, CountsAre
<1>4. (info[f].refcount + 1) % (UIntMax + 1) = Count(f) + 1
  BY <1>2, <1>3, CountUp
<1>5. Counts(f, Count(f) + 1)
  BY <1>4 DEF Takes
<1>6. /\ \A e \in Cells : info'[e].type = info[e].type /\ info'[e].ver = info[e].ver
      /\ info'[f].refcount = Count(f) + 1 /\ \A e \in Cells : info'[e].lost = info[e].lost
      /\ \A e \in Cells : e # f => info'[e].refcount = info[e].refcount
  BY <1>1, <1>5 DEF Counts, Becomes
<1>7. ~req[r].held /\ req'[r].held /\ Others(r) /\ info[f].ver = req'[r].ver
  BY DEF Takes
<1>8. \A q \in Requests : Held(q)'
  BY <1>1, <1>2, <1>6, <1>7 DEF HeldStays, Held, Others
<1>9. ASSUME NEW e \in H!Registered' PROVE Counted(e)'
  <2>1. CASE e = f
    <3>1. Holders(e)' = Holders(e) \cup {r}
      BY <1>7, <2>1 DEF Holders, Others
    <3>2. r \notin Holders(e) /\ IsFiniteSet(Holders(e))
      BY <1>7, HoldersAre DEF Holders
    <3>3. Cardinality(Holders(e) \cup {r}) = Cardinality(Holders(e)) + 1
      BY <3>2, FS_AddElement
    <3>4. info'[e].lost = info[e].lost /\ info[e].lost \in Nat
      BY <1>1, <1>6, <2>1, CountsAre DEF HandlersInv
    <3>5. Cardinality(Holders(e)) \in Nat
      BY HoldersAre
    <3> QED BY <1>6, <2>1, <3>1, <3>3, <3>4, <3>5 DEF Counted, Count
  <2>2. CASE e # f
    <3>1. Holders(e)' = Holders(e)
      BY <1>7, <2>2 DEF Holders, Others
    <3>2. e \in H!Registered /\ e \in Cells
      BY <1>1
    <3> QED BY <1>1, <1>6, <2>2, <3>1, <3>2 DEF HeldStays, Counted, Count
  <2> QED BY <2>1, <2>2
<1> QED BY <1>8, <1>9 DEF HeldStays

\* when it gives one back,
LEMMA GivenIsCounted ==
    ASSUME H!HandlersAssumption, HandlersInv, NEW r \in Requests, RequestEffect(r), GivesBack(r),
           stray = 0, req[r].held
    PROVE  HeldStays'
<1> DEFINE f == req[r].entry
<1>1. HeldStays /\ H!Registered' = H!Registered /\ H!Registered \subseteq Cells
  BY RegisteredAreCells DEF HandlersInv, RequestEffect, H!Registered
<1>2. f \in H!Registered /\ info[f].type = H!REQUEST
  BY <1>1 DEF HeldStays, Held
<1>3. info[f].refcount = Count(f)
  BY <1>1, <1>2 DEF HeldStays, Counted
<1>4. r \in Holders(f)
  BY DEF Holders
<1>5. Count(f) \in 1 .. UIntMax /\ UIntMax \in Nat
  <2>1. f \in Cells /\ HandlersTypes
    BY <1>1, <1>2 DEF HandlersInv
  <2>2. Cardinality(Holders(f)) \in Nat /\ Cardinality(Holders(f)) # 0
    BY <1>4, HoldersAre
  <2> QED BY <2>1, <2>2, CountsAre DEF Count
<1>6. (info[f].refcount + UIntMax) % (UIntMax + 1) = Count(f) - 1
  BY <1>3, <1>5, CountDown
<1>7. Counts(f, Count(f) - 1) /\ Others(r) /\ ~req'[r].held
  BY <1>6 DEF GivesBack
<1>8. /\ \A e \in Cells : info'[e].type = info[e].type /\ info'[e].ver = info[e].ver
      /\ info'[f].refcount = Count(f) - 1 /\ \A e \in Cells : info'[e].lost = info[e].lost
      /\ \A e \in Cells : e # f => info'[e].refcount = info[e].refcount
  BY <1>1, <1>2, <1>7 DEF Counts, Becomes
<1>9. \A q \in Requests : Held(q)'
  BY <1>1, <1>7, <1>8 DEF HeldStays, Held, Others
<1>10. ASSUME NEW e \in H!Registered' PROVE Counted(e)'
  <2>1. CASE e = f
    <3>1. Holders(e)' = Holders(e) \ {r}
      BY <1>7, <2>1 DEF Holders, Others
    <3>2. Cardinality(Holders(e) \ {r}) = Cardinality(Holders(e)) - 1
      BY <1>4, <2>1, HoldersAre, FS_RemoveElement
    <3>3. info'[e].lost = info[e].lost /\ info[e].lost \in Nat
      BY <1>1, <1>8, <2>1, CountsAre DEF HandlersInv
    <3>4. Cardinality(Holders(e)) \in Nat
      BY HoldersAre
    <3> QED BY <1>8, <2>1, <3>1, <3>2, <3>3, <3>4 DEF Counted, Count
  <2>2. CASE e # f
    <3>1. Holders(e)' = Holders(e)
      BY <1>7, <2>2 DEF Holders, Others
    <3>2. e \in H!Registered /\ e \in Cells
      BY <1>1
    <3> QED BY <1>1, <1>8, <2>2, <3>1, <3>2 DEF HeldStays, Counted, Count
  <2> QED BY <2>1, <2>2
<1> QED BY <1>9, <1>10 DEF HeldStays

\* when it loses one,
LEMMA LostIsCounted ==
    ASSUME H!HandlersAssumption, HandlersInv, NEW r \in Requests, RequestEffect(r), Loses(r), stray = 0
    PROVE  HeldStays'
<1> DEFINE f == req[r].entry
<1>1. HeldStays /\ H!Registered' = H!Registered /\ H!Registered \subseteq Cells
  BY RegisteredAreCells DEF HandlersInv, RequestEffect, H!Registered
<1>2. req[r].held /\ ~req'[r].held /\ Others(r)
  BY DEF Loses
<1>3. f \in H!Registered /\ f \in Cells /\ r \in Holders(f)
  BY <1>1, <1>2 DEF HeldStays, Held, Holders
<1>4. /\ \A e \in Cells : /\ info'[e].type = info[e].type /\ info'[e].ver = info[e].ver
                          /\ info'[e].refcount = info[e].refcount
      /\ info'[f].lost = info[f].lost + 1
      /\ \A e \in Cells : e # f => info'[e].lost = info[e].lost
  BY <1>3 DEF Loses, Becomes
<1>5. \A q \in Requests : Held(q)'
  BY <1>1, <1>2, <1>4 DEF HeldStays, Held, Others
<1>6. ASSUME NEW e \in H!Registered' PROVE Counted(e)'
  <2>0. e \in H!Registered /\ e \in Cells /\ Counted(e)
    BY <1>1 DEF HeldStays
  <2>1. CASE e = f
    <3>1. Holders(e)' = Holders(e) \ {r}
      BY <1>2, <2>1 DEF Holders, Others
    <3>2. Cardinality(Holders(e) \ {r}) = Cardinality(Holders(e)) - 1
      BY <1>3, <2>1, HoldersAre, FS_RemoveElement
    <3>3. info[e].lost \in Nat /\ Cardinality(Holders(e)) \in Nat
      BY <2>0, CountsAre, HoldersAre DEF HandlersInv
    <3>4. Count(e)' = Count(e)
      BY <1>4, <2>1, <3>1, <3>2, <3>3 DEF Count
    <3> QED BY <1>4, <2>0, <3>4 DEF Counted
  <2>2. CASE e # f
    <3>1. Holders(e)' = Holders(e)
      BY <1>2, <2>2 DEF Holders, Others
    <3> QED BY <1>4, <2>0, <2>2, <3>1 DEF Counted, Count
  <2> QED BY <2>1, <2>2
<1> QED BY <1>5, <1>6 DEF HeldStays

\* and when it does none of these.
LEMMA PassedIsCounted ==
    ASSUME H!HandlersAssumption, HandlersInv, NEW r \in Requests, RequestEffect(r), Passes(r), stray = 0
    PROVE  HeldStays'
<1>1. HeldStays /\ H!Registered' = H!Registered /\ info' = info /\ Others(r)
  BY DEF HandlersInv, RequestEffect, H!Registered, Passes
<1>2. req'[r].held = req[r].held /\ (req[r].held => req'[r].entry = req[r].entry /\ req'[r].ver = req[r].ver)
  BY DEF Passes
<1>3. \A q \in Requests : Held(q)'
  BY <1>1, <1>2 DEF HeldStays, Held, Others
<1>4. \A e : Holders(e)' = Holders(e)
  BY <1>1, <1>2 DEF Holders, Others
<1>5. \A e \in H!Registered' : Counted(e)'
  BY <1>1, <1>4 DEF HeldStays, Counted, Count
<1> QED BY <1>3, <1>5 DEF HeldStays

\* A step of a request preserves the invariant.
LEMMA RequestKeeps ==
    ASSUME H!HandlersAssumption, HandlersInv, NEW r \in Requests, RequestEffect(r)
    PROVE  HandlersInv'
<1>1. HandlersTypes'
  BY DEF RequestEffect, HandlersInv, HandlersTypes
<1>2. H!Registered' = H!Registered /\ H!Registered \subseteq Cells
  BY RegisteredAreCells DEF RequestEffect, H!Registered, HandlersInv
<1>3. \A e \in Cells : info'[e].type = info[e].type /\ info'[e].uri = info[e].uri
  <2>1. CASE Takes(r)
    BY <2>1 DEF Takes, Counts, Becomes
  <2>2. CASE Passes(r)
    BY <2>2 DEF Passes
  <2>3. CASE GivesBack(r)
    BY <2>3 DEF GivesBack, Counts, Becomes
  <2>4. CASE Loses(r)
    BY <2>4 DEF Loses, Becomes
  <2> QED BY <2>1, <2>2, <2>3, <2>4 DEF RequestEffect
<1>4. ListedOnce'
  <2>1. list' = list
    BY DEF RequestEffect
  <2> QED BY <1>2, <1>3, <2>1 DEF HandlersInv, ListedOnce, Same
<1>5. \A q \in Requests : Holds(q)'
  <2>1. Others(r) /\ Holds(r)'
    BY DEF RequestEffect, Takes, Passes, GivesBack, Loses
  <2> QED BY <2>1 DEF HandlersInv, Holds, Others
<1>6. ASSUME stray' = 0 PROVE HeldStays'
  <2>0. stray \in 0 .. MaxStray /\ MaxStray \in Nat
    BY DEF HandlersInv, HandlersTypes, H!HandlersAssumption
  <2>1. CASE Takes(r)
    BY <1>6, <2>1, TakenIsCounted DEF Takes
  <2>2. CASE Passes(r)
    BY <1>6, <2>2, PassedIsCounted DEF Passes
  <2>3. CASE GivesBack(r)
    <3>1. stray' = IF req[r].held THEN stray ELSE stray + 1
      BY <2>3 DEF GivesBack
    <3>2. req[r].held /\ stray = 0
      BY <1>6, <2>0, <3>1
    <3> QED BY <2>3, <3>2, GivenIsCounted
  <2>4. CASE Loses(r)
    BY <1>6, <2>4, LostIsCounted DEF Loses
  <2> QED BY <2>1, <2>2, <2>3, <2>4 DEF RequestEffect
<1> QED BY <1>1, <1>4, <1>5, <1>6 DEF HandlersInv
-----------------------------------------------------------------------------
\* The entry of a place is unlinked: the others stay, in their order.
LEMMA UnlinkedIs ==
    ASSUME HandlersTypes, ListedOnce, NEW i \in DOMAIN list, list' = H!Unlinked(i)
    PROVE  /\ list' \in Seq(Cells) /\ H!Registered' = H!Registered \ {list[i]}
           /\ \A j, k \in DOMAIN list' : list'[j] = list'[k] => j = k
<1>1. Len(list) \in Nat /\ DOMAIN list = 1 .. Len(list) /\ \A k \in DOMAIN list : list[k] \in Cells
  BY ElementOfSeq, LenProperties DEF HandlersTypes
<1> DEFINE at(k) == IF k < i THEN k ELSE k + 1
<1>2. list' = [k \in 1 .. Len(list) - 1 |-> list[at(k)]]
  BY DEF H!Unlinked
<1>3. i \in Nat /\ Len(list) - 1 \in Nat
  BY <1>1
<1>4. \A k \in 1 .. Len(list) - 1 : at(k) \in DOMAIN list /\ at(k) # i
  BY <1>1, <1>3
<1>5. list' \in Seq(Cells)
  BY <1>1, <1>2, <1>3, <1>4, IsASeq
<1>6. DOMAIN list' = 1 .. Len(list) - 1 /\ \A k \in 1 .. Len(list) - 1 : list'[k] = list[at(k)]
  BY <1>2
<1>7. ASSUME NEW j \in DOMAIN list', NEW k \in DOMAIN list', list'[j] = list'[k]
      PROVE  j = k
  <2>1. at(j) = at(k)
    BY <1>4, <1>6, <1>7 DEF ListedOnce
  <2>2. j \in Nat /\ k \in Nat
    BY <1>3, <1>6
  <2> QED BY <1>3, <2>1, <2>2
<1>8. H!Registered' = {list'[k] : k \in DOMAIN list'}
  BY DEF H!Registered
<1>9. ASSUME NEW e \in H!Registered' PROVE e \in H!Registered \ {list[i]}
  <2>1. PICK k \in DOMAIN list' : e = list'[k]
    BY <1>8, <1>9
  <2>2. e = list[at(k)] /\ at(k) \in DOMAIN list /\ at(k) # i
    BY <1>4, <1>6, <2>1
  <2>3. e # list[i]
    BY <2>2 DEF ListedOnce
  <2> QED BY <2>2, <2>3 DEF H!Registered
<1>10. ASSUME NEW e \in H!Registered \ {list[i]} PROVE e \in H!Registered'
  <2>1. PICK m \in DOMAIN list : e = list[m]
    BY <1>10 DEF H!Registered
  <2>2. m # i /\ m \in 1 .. Len(list)
    BY <1>1, <1>10, <2>1
  <2>3. \E k \in 1 .. Len(list) - 1 : at(k) = m
    <3>1. CASE m < i
      <4>1. m \in 1 .. Len(list) - 1 /\ at(m) = m
        BY <1>1, <1>3, <2>2, <3>1
      <4> QED BY <4>1
    <3>2. CASE ~(m < i)
      <4>1. m - 1 \in 1 .. Len(list) - 1 /\ at(m - 1) = m
        BY <1>1, <1>3, <2>2, <3>2
      <4> QED BY <4>1
    <3> QED BY <3>1, <3>2
  <2>4. PICK k \in 1 .. Len(list) - 1 : at(k) = m
    BY <2>3
  <2>5. k \in DOMAIN list' /\ list'[k] = e
    BY <1>6, <2>1, <2>4
  <2> QED BY <1>8, <2>5
<1> QED BY <1>5, <1>7, <1>9, <1>10

\* A new entry is appended.
LEMMA AppendedIs ==
    ASSUME HandlersTypes, ListedOnce, NEW e \in Cells \ H!Registered, list' = Append(list, e)
    PROVE  /\ list' \in Seq(Cells) /\ H!Registered' = H!Registered \cup {e}
           /\ \A j, k \in DOMAIN list' : list'[j] = list'[k] => j = k
<1>1. Len(list) \in Nat /\ DOMAIN list = 1 .. Len(list)
  BY LenProperties DEF HandlersTypes
<1>2. /\ list' \in Seq(Cells) /\ Len(list') = Len(list) + 1
      /\ \A k \in 1 .. Len(list) : list'[k] = list[k]
      /\ list'[Len(list) + 1] = e
  BY AppendProperties DEF HandlersTypes
<1>3. DOMAIN list' = 1 .. Len(list) + 1
  BY <1>2, LenProperties
<1>4. \A k \in DOMAIN list : list[k] # e
  BY DEF H!Registered
<1>5. H!Registered' = H!Registered \cup {e}
  <2>1. H!Registered' = {list'[k] : k \in 1 .. Len(list) + 1}
    BY <1>3 DEF H!Registered
  <2>2. H!Registered = {list[k] : k \in 1 .. Len(list)}
    BY <1>1 DEF H!Registered
  <2>3. 1 .. Len(list) + 1 = (1 .. Len(list)) \cup {Len(list) + 1}
    BY <1>1
  <2> QED BY <1>2, <2>1, <2>2, <2>3
<1>6. ASSUME NEW j \in DOMAIN list', NEW k \in DOMAIN list', list'[j] = list'[k]
      PROVE  j = k
  <2>1. j \in 1 .. Len(list) + 1 /\ k \in 1 .. Len(list) + 1
    BY <1>3
  <2>2. CASE j = Len(list) + 1
    BY <1>1, <1>2, <1>4, <1>6, <2>1, <2>2
  <2>3. CASE j # Len(list) + 1
    <3>1. j \in 1 .. Len(list) /\ list'[j] = list[j] /\ j \in DOMAIN list
      BY <1>1, <1>2, <2>1, <2>3
    <3>2. k # Len(list) + 1
      BY <1>2, <1>4, <1>6, <3>1
    <3>3. k \in DOMAIN list /\ list'[k] = list[k]
      BY <1>1, <1>2, <2>1, <3>2
    <3> QED BY <1>6, <3>1, <3>3 DEF ListedOnce
  <2> QED BY <2>2, <2>3
<1> QED BY <1>2, <1>5, <1>6

\* A change of the list keeps what is held, if the entries that requests hold stay as they
\* are and the new ones count none.
LEMMA UnheldChanges ==
    ASSUME HeldStays, UNCHANGED req,
           \A e \in H!Registered : Holders(e) # {} =>
               /\ e \in H!Registered' /\ info'[e].type = info[e].type /\ info'[e].ver = info[e].ver,
           \A e \in H!Registered' :
               \/ /\ e \in H!Registered /\ info'[e].type = info[e].type
                  /\ info'[e].refcount = info[e].refcount /\ info'[e].lost = info[e].lost
               \/ Holders(e) = {} /\ info'[e].refcount = 0 /\ info'[e].lost = 0
    PROVE  HeldStays'
<1>1. \A e : Holders(e)' = Holders(e)
  BY DEF Holders
<1>2. ASSUME NEW r \in Requests PROVE Held(r)'
  <2>1. CASE req[r].held
    <3>1. r \in Holders(req[r].entry) /\ Held(r)
      BY <2>1 DEF Holders, HeldStays
    <3> QED BY <2>1, <3>1 DEF Held
  <2>2. CASE ~req[r].held
    BY <2>2 DEF Held
  <2> QED BY <2>1, <2>2
<1>3. ASSUME NEW e \in H!Registered' PROVE Counted(e)'
  <2>1. CASE /\ e \in H!Registered /\ info'[e].type = info[e].type
             /\ info'[e].refcount = info[e].refcount /\ info'[e].lost = info[e].lost
    BY <1>1, <2>1 DEF Counted, Count, HeldStays
  <2>2. CASE Holders(e) = {} /\ info'[e].refcount = 0 /\ info'[e].lost = 0
    <3>1. Cardinality(Holders(e)') = 0
      BY <1>1, <2>2, FS_EmptySet
    <3> QED BY <2>2, <3>1 DEF Counted, Count
  <2> QED BY <2>1, <2>2
<1> QED BY <1>2, <1>3 DEF HeldStays

\* An entry that a call need not wait for is held by nobody.
LEMMA UnusedIsUnheld ==
    ASSUME H!HandlersAssumption, HandlersTypes, HeldStays, NEW s \in Setters, NEW e \in H!Existing(setter[s]),
           ~H!MustWait(setter[s], e)
    PROVE  Holders(e) = {}
<1>1. e \in H!Registered /\ info[e].type = setter[s].type /\ e \in Cells
  BY RegisteredAreCells DEF H!Existing
<1>2. CASE info[e].type = H!REQUEST
  <2>1. info[e].refcount = 0
    BY <1>1, <1>2 DEF H!MustWait
  <2>2. Count(e) = 0
    BY <1>1, <1>2, <2>1 DEF HeldStays, Counted
  <2>3. info[e].lost \in Nat /\ Cardinality(Holders(e)) \in Nat
    BY <1>1, CountsAre, HoldersAre
  <2>4. Cardinality(Holders(e)) = 0
    BY <2>2, <2>3 DEF Count
  <2> QED BY <2>4, HoldersAre
<1>3. CASE info[e].type # H!REQUEST
  BY <1>3 DEF HeldStays, Held, Holders
<1> QED BY <1>2, <1>3

\* The parts of a call that searches.
LEMMA SetterFields ==
    ASSUME HandlersTypes, NEW s \in Setters, setter[s].pc = "search"
    PROVE  /\ setter[s].type \in H!Types /\ setter[s].uri \in HandlerUris
           /\ setter[s].ver \in 0 .. MaxSets
<1>1. setter[s] \in Searches \cup Rests
  BY DEF HandlersTypes
<1>2. setter[s] \notin Rests
  BY DEF Rests
<1> QED BY <1>1, <1>2 DEF Searches

\* A call of the application begins: it has its type, its URI and its version.
LEMMA CallKeeps ==
    ASSUME H!HandlersAssumption, HandlersInv, NEW s \in Setters, H!Call(s)
    PROVE  HandlersInv'
<1>1. PICK c \in Calls :
       setter' = [setter EXCEPT ![s] =
                    [pc |-> "search", type |-> c.type, uri |-> c.uri,
                     delete |-> c.delete, ver |-> sets + 1]]
  BY DEF H!Call
<1>2. sets < MaxSets /\ sets' = sets + 1 /\ UNCHANGED <<list, info, req, stray>>
  BY DEF H!Call
<1>3. sets + 1 \in 0 .. MaxSets
  BY <1>2 DEF HandlersInv, HandlersTypes, H!HandlersAssumption
<1>4. c.type \in H!Types /\ c.uri \in HandlerUris /\ c.delete \in BOOLEAN
  BY DEF H!HandlersAssumption
<1>5. [pc |-> "search", type |-> c.type, uri |-> c.uri, delete |-> c.delete, ver |-> sets + 1] \in Searches
  BY <1>3, <1>4 DEF Searches
<1>6. setter' \in [Setters -> Searches \cup Rests]
  BY <1>1, <1>5 DEF HandlersInv, HandlersTypes
<1>7. HandlersTypes'
  BY <1>2, <1>3, <1>6 DEF HandlersInv, HandlersTypes
<1>8. ListedOnce' /\ \A r \in Requests : Holds(r)'
  BY <1>2 DEF HandlersInv, ListedOnce, Holds, H!Registered, Same
<1>9. stray = 0 => HeldStays'
  <2>1. H!Registered' = H!Registered
    BY <1>2 DEF H!Registered
  <2> QED BY <1>2, <2>1, UnheldChanges DEF HandlersInv
<1> QED BY <1>2, <1>7, <1>8, <1>9 DEF HandlersInv

\* The parts of the invariant a call of the application can disturb.
LEMMA SetterKeeps ==
    ASSUME HandlersInv, UNCHANGED <<req, sets, stray>>, setter' \in [Setters -> Searches \cup Rests],
           list' \in Seq(Cells), info' \in [Cells -> Infos], ListedOnce', stray = 0 => HeldStays'
    PROVE  HandlersInv'
<1>1. HandlersTypes'
  BY DEF HandlersInv, HandlersTypes
<1>2. \A r \in Requests : Holds(r)'
  BY DEF HandlersInv, Holds
<1> QED BY <1>1, <1>2 DEF HandlersInv

\* A call of the application ends.
LEMMA DoneRests ==
    ASSUME HandlersTypes, NEW s \in Setters, H!Done(s)
    PROVE  setter' \in [Setters -> Searches \cup Rests]
<1>1. [pc |-> "idle"] \in Rests
  BY DEF Rests
<1> QED BY <1>1 DEF HandlersTypes, H!Done

\* mg_set_handler_type: it waits, updates, removes or appends, and each keeps the invariant.
LEMMA SetHandlerKeeps ==
    ASSUME H!HandlersAssumption, HandlersInv, NEW s \in Setters, H!SetHandler(s)
    PROVE  HandlersInv'
<1>0. /\ setter[s].pc = "search" /\ UNCHANGED <<req, sets, stray>>
      /\ HandlersTypes /\ ListedOnce /\ (stray = 0 => HeldStays) /\ H!Registered \subseteq Cells
  BY RegisteredAreCells DEF H!SetHandler, HandlersInv
<1>a. list \in Seq(Cells) /\ info \in [Cells -> Infos] /\ setter \in [Setters -> Searches \cup Rests]
  BY <1>0 DEF HandlersTypes
<1>1. CASE H!WaitForUse(s)
  <2>1. PICK e \in H!Existing(setter[s]) :
          info' = [info EXCEPT ![e].removing = TRUE] /\ UNCHANGED <<list, setter>>
    BY <1>1 DEF H!WaitForUse
  <2>2. e \in Cells
    BY <1>0 DEF H!Existing
  <2>3. info[e] \in Infos
    BY <1>0, <2>2, EntryFields
  <2> DEFINE I == [info[e] EXCEPT !.removing = TRUE]
  <2>4. /\ I \in Infos /\ I.type = info[e].type /\ I.uri = info[e].uri /\ I.ver = info[e].ver
        /\ I.refcount = info[e].refcount /\ I.lost = info[e].lost
    BY <2>3 DEF Infos
  <2>5. info' = [info EXCEPT ![e] = I]
    BY <2>1
  <2> HIDE DEF I
  <2>6. info' \in [Cells -> Infos]
    BY <1>a, <2>4, <2>5
  <2>7. \A d \in Cells : /\ info'[d].type = info[d].type /\ info'[d].uri = info[d].uri
                         /\ info'[d].ver = info[d].ver /\ info'[d].refcount = info[d].refcount
                         /\ info'[d].lost = info[d].lost
    BY <1>a, <2>2, <2>4, <2>5
  <2>8. H!Registered' = H!Registered
    BY <2>1 DEF H!Registered
  <2>9. ListedOnce'
    BY <1>0, <2>1, <2>7, <2>8 DEF ListedOnce, Same
  <2>10. stray = 0 => HeldStays'
    BY <1>0, <2>7, <2>8, UnheldChanges
  <2> QED BY <1>0, <1>a, <2>1, <2>6, <2>9, <2>10, SetterKeeps
<1>2. CASE H!Update(s)
  <2>1. PICK e \in H!Existing(setter[s]) :
          /\ ~H!MustWait(setter[s], e) /\ info' = [info EXCEPT ![e].ver = setter[s].ver]
          /\ H!Done(s) /\ UNCHANGED list
    BY <1>2 DEF H!Update
  <2>2. e \in Cells /\ e \in H!Registered
    BY <1>0 DEF H!Existing
  <2>3. info[e] \in Infos /\ setter[s].ver \in 0 .. MaxSets
    BY <1>0, <2>2, EntryFields, SetterFields
  <2> DEFINE I == [info[e] EXCEPT !.ver = setter[s].ver]
  <2>4. /\ I \in Infos /\ I.type = info[e].type /\ I.uri = info[e].uri
        /\ I.refcount = info[e].refcount /\ I.lost = info[e].lost
    BY <2>3 DEF Infos
  <2>5. info' = [info EXCEPT ![e] = I]
    BY <2>1
  <2> HIDE DEF I
  <2>6. info' \in [Cells -> Infos]
    BY <1>a, <2>4, <2>5
  <2>7. \A d \in Cells : /\ info'[d].type = info[d].type /\ info'[d].uri = info[d].uri
                         /\ info'[d].refcount = info[d].refcount /\ info'[d].lost = info[d].lost
                         /\ d # e => info'[d].ver = info[d].ver
    BY <1>a, <2>2, <2>4, <2>5
  <2>8. H!Registered' = H!Registered
    BY <2>1 DEF H!Registered
  <2>9. ListedOnce'
    BY <1>0, <2>1, <2>7, <2>8 DEF ListedOnce, Same
  <2>10. ASSUME stray = 0 PROVE HeldStays'
    <3>1. Holders(e) = {}
      BY <1>0, <2>1, <2>10, UnusedIsUnheld
    <3> QED BY <1>0, <2>7, <2>8, <2>10, <3>1, UnheldChanges
  <2>11. setter' \in [Setters -> Searches \cup Rests]
    BY <1>0, <2>1, DoneRests
  <2> QED BY <1>0, <1>a, <2>1, <2>6, <2>9, <2>10, <2>11, SetterKeeps
<1>3. CASE H!Remove(s)
  <2>1. PICK i \in DOMAIN list :
          /\ list[i] \in H!Existing(setter[s]) /\ ~H!MustWait(setter[s], list[i])
          /\ list' = H!Unlinked(i) /\ info' = [info EXCEPT ![list[i]] = H!NoInfo] /\ H!Done(s)
    BY <1>3 DEF H!Remove
  <2> DEFINE e == list[i]
  <2>2. e \in Cells /\ e \in H!Registered
    BY <1>0, <2>1 DEF H!Existing
  <2>3. info' \in [Cells -> Infos] /\ \A d \in Cells : d # e => info'[d] = info[d]
    BY <1>a, <2>1, <2>2, IdleIsReq
  <2>4. /\ list' \in Seq(Cells) /\ H!Registered' = H!Registered \ {e}
        /\ \A j, k \in DOMAIN list' : list'[j] = list'[k] => j = k
    BY <1>0, <2>1, UnlinkedIs
  <2>5. \A c, d \in H!Registered' : Same(c, d)' => c = d
    BY <1>0, <2>3, <2>4 DEF ListedOnce, Same
  <2>6. ListedOnce'
    BY <2>4, <2>5 DEF ListedOnce
  <2>7. ASSUME stray = 0 PROVE HeldStays'
    <3>1. Holders(e) = {}
      BY <1>0, <2>1, <2>7, UnusedIsUnheld
    <3> HIDE DEF e
    <3> QED BY <1>0, <2>3, <2>4, <2>7, <3>1, UnheldChanges
  <2>8. setter' \in [Setters -> Searches \cup Rests]
    BY <1>0, <2>1, DoneRests
  <2> QED BY <1>0, <2>3, <2>4, <2>6, <2>7, <2>8, SetterKeeps
<1>4. CASE H!Append1(s)
  <2>0. H!Existing(setter[s]) = {} /\ H!Done(s)
    BY <1>4 DEF H!Append1
  <2>8. setter' \in [Setters -> Searches \cup Rests]
    BY <1>0, <2>0, DoneRests
  <2>1. CASE UNCHANGED <<list, info>>
    <3>1. ListedOnce'
      BY <1>0, <2>1 DEF ListedOnce, Same, H!Registered
    <3>2. stray = 0 => HeldStays'
      <4>1. H!Registered' = H!Registered
        BY <2>1 DEF H!Registered
      <4> QED BY <1>0, <2>1, <4>1, UnheldChanges
    <3> QED BY <1>0, <1>a, <2>1, <2>8, <3>1, <3>2, SetterKeeps
  <2>2. ASSUME NEW e \in Cells \ H!Registered,
               info' = [info EXCEPT ![e] = [type |-> setter[s].type,
                          uri |-> setter[s].uri, ver |-> setter[s].ver,
                          refcount |-> 0, removing |-> FALSE, lost |-> 0]],
               list' = Append(list, e)
        PROVE  HandlersInv'
    <3> DEFINE I == [type |-> setter[s].type, uri |-> setter[s].uri, ver |-> setter[s].ver,
                     refcount |-> 0, removing |-> FALSE, lost |-> 0]
    <3>1. I \in Infos /\ I.type = setter[s].type /\ I.uri = setter[s].uri /\ I.refcount = 0 /\ I.lost = 0
      <4>1. 0 \in 0 .. UIntMax /\ 0 \in 0 .. MaxLost
        BY DEF H!HandlersAssumption
      <4> QED BY <1>0, <4>1, SetterFields DEF Infos
    <3>2. info' = [info EXCEPT ![e] = I]
      BY <2>2
    <3> HIDE DEF I
    <3>3. info' \in [Cells -> Infos] /\ info'[e] = I /\ \A d \in Cells : d # e => info'[d] = info[d]
      BY <1>a, <3>1, <3>2
    <3>4. /\ list' \in Seq(Cells) /\ H!Registered' = H!Registered \cup {e}
          /\ \A j, k \in DOMAIN list' : list'[j] = list'[k] => j = k
      BY <1>0, <2>2, AppendedIs
    <3>5. \A d \in H!Registered : info'[d] = info[d] /\ ~(info[d].type = I.type /\ info[d].uri = I.uri)
      BY <1>0, <2>0, <3>1, <3>3 DEF H!Existing
    <3>6. \A c, d \in H!Registered' : Same(c, d)' => c = d
      BY <1>0, <3>3, <3>4, <3>5 DEF ListedOnce, Same
    <3>7. ListedOnce'
      BY <3>4, <3>6 DEF ListedOnce
    <3>8. ASSUME stray = 0 PROVE HeldStays'
      <4>1. HeldStays
        BY <1>0, <3>8
      <4>2. Holders(e) = {}
        BY <4>1, <2>2 DEF Holders, HeldStays, Held
      <4>3. info'[e].refcount = 0 /\ info'[e].lost = 0
        BY <3>1, <3>3
      <4> QED BY <1>0, <3>4, <3>5, <4>1, <4>2, <4>3, UnheldChanges
    <3> QED BY <1>0, <2>8, <3>3, <3>4, <3>7, <3>8, SetterKeeps
  <2> QED BY <1>4, <2>1, <2>2 DEF H!Append1
<1> QED BY <1>1, <1>2, <1>3, <1>4 DEF H!SetHandler

\* The list is empty to begin with.
LEMMA HandlersBegin ==
    ASSUME H!HandlersAssumption, H!Init
    PROVE  HandlersInv
<1> USE DEF H!Init
<1>1. HandlersTypes
  <2>1. info \in [Cells -> Infos] /\ req \in [Requests -> Reqs]
    BY IdleIsReq
  <2>2. [pc |-> "idle"] \in Rests
    BY DEF Rests
  <2>3. setter \in [Setters -> Searches \cup Rests]
    BY <2>2
  <2>4. list \in Seq(Cells)
    BY EmptySeq
  <2>5. sets \in 0 .. MaxSets /\ stray \in 0 .. MaxStray
    BY DEF H!HandlersAssumption
  <2> QED BY <2>1, <2>3, <2>4, <2>5 DEF HandlersTypes
<1>2. DOMAIN list = {} /\ H!Registered = {}
  BY DEF H!Registered
<1>3. ListedOnce
  BY <1>2 DEF ListedOnce
<1>4. \A r \in Requests : ~req[r].held /\ Holds(r)
  BY DEF H!Idle, Holds
<1>5. HeldStays
  BY <1>2, <1>4 DEF HeldStays, Held
<1> QED BY <1>1, <1>3, <1>4, <1>5 DEF HandlersInv

\* The invariant says what is to be shown of the handlers.
LEMMA HandlersInvIs ==
    ASSUME H!HandlersAssumption, HandlersInv
    PROVE  H!TypeOK /\ H!HandlersStay
<1>1. HandlersTypes /\ ListedOnce /\ H!Registered \subseteq Cells
  BY RegisteredAreCells DEF HandlersInv
<1>2. H!TypeOK
  <2>1. \A e \in Cells : /\ info[e].type \in H!Types /\ info[e].uri \in HandlerUris
                         /\ info[e].ver \in 0 .. MaxSets /\ info[e].refcount \in 0 .. UIntMax
                         /\ info[e].lost \in 0 .. MaxLost
    BY <1>1, EntryFields
  <2>2. \A r \in Requests : /\ req[r].pc \in H!ReqPlaces
                            /\ req[r].entry \in Cells \cup {0}
                            /\ req[r].callback => req[r].entry # 0
                            /\ req[r].pc = "callback" => req[r].callback
    BY <1>1, ReqFields DEF HandlersInv, Holds
  <2> QED BY <1>1, <2>1, <2>2 DEF H!TypeOK, HandlersTypes
<1>4. H!OneEntryEach
  BY <1>1 DEF H!OneEntryEach, ListedOnce, Same
<1>5. H!UnusedUnlessStray
  BY DEF H!UnusedUnlessStray, H!WaitsUntilUnused, HandlersInv, HeldStays, Held
<1> QED BY <1>2, <1>4, <1>5 DEF H!HandlersStay

\* Every step of the application and of a request keeps the invariant.
LEMMA HandlersSteps ==
    ASSUME H!HandlersAssumption, HandlersInv, [H!Next]_(H!vars)
    PROVE  HandlersInv'
<1>1. ASSUME HandlersInv, UNCHANGED H!vars PROVE HandlersInv'
  <2>1. HandlersTypes' /\ ListedOnce'
    BY <1>1 DEF H!vars, HandlersInv, HandlersTypes, ListedOnce, H!Registered, Same
  <2>2. \A r \in Requests : Holds(r)'
    BY <1>1 DEF H!vars, HandlersInv, Holds
  <2>3. stray' = 0 => HeldStays'
    <3>1. H!Registered' = H!Registered /\ UNCHANGED <<list, info, req, stray>>
      BY <1>1 DEF H!vars, H!Registered
    <3> QED BY <1>1, <3>1, UnheldChanges DEF HandlersInv
  <2> QED BY <2>1, <2>2, <2>3 DEF HandlersInv
<1>2. ASSUME HandlersInv, NEW s \in Setters, H!Call(s) \/ H!SetHandler(s) PROVE HandlersInv'
  BY <1>2, CallKeeps, SetHandlerKeeps
<1>3. ASSUME HandlersInv, NEW r \in Requests, H!GetRequestHandler(r) \/ H!HandleRequest(r)
      PROVE HandlersInv'
  <2>1. HandlersTypes /\ Holds(r)
    BY <1>3 DEF HandlersInv
  <2>2. RequestEffect(r)
    BY <1>3, <2>1, GetEffect, HandleEffect
  <2> QED BY <1>3, <2>2, RequestKeeps
<1> QED BY <1>1, <1>2, <1>3 DEF H!Next

\* mg_set_handler_type, get_request_handler, handle_request: no two entries of the list are for
\* the same type and URI; and as long as no reference was given back twice, the entry whose
\* callback a request is about to call, or is calling, is in the list and is the one it found,
\* whatever the threads of the application set and remove meanwhile.
THEOREM HandlersSafe ==
    ASSUME H!HandlersAssumption
    PROVE  H!Spec => [](H!TypeOK /\ H!HandlersStay)
<1>1. H!Init => HandlersInv
  BY HandlersBegin
<1>2. HandlersInv /\ [H!Next]_(H!vars) => HandlersInv'
  BY HandlersSteps
<1>3. HandlersInv => H!TypeOK /\ H!HandlersStay
  BY HandlersInvIs
<1> QED BY <1>1, <1>2, <1>3, PTL DEF H!Spec
-----------------------------------------------------------------------------
(* Cgi: processes, replies, bodies and timers *)

Pcs == G!Abort \cup {"prepare", "spawn", "open", "body", "push", "headers", "stderr", "forward", "done"}
States == {"none", "running", "zombie", "reaped"}
Lines == {"200", "500", "b"}
Recs == [pc : Pcs, blk : BOOLEAN, left : Nat, buf : Seq(G!Units), errors : Nat, reply : Seq(Lines),
         cut : BOOLEAN, timed : BOOLEAN]
Children == [state : States, todo : Seq(G!Units), status : {0, 1, G!Aborted}, wrote : Nat]
Pipes == [in : Nat, out : Seq(G!Units), err : Nat]

CgiTypes ==
    /\ cgi \in [Workers -> Recs] /\ child \in [Workers -> Children] /\ pipe \in [Workers -> Pipes]
    /\ proc \in [Workers -> G!Freed .. 2] /\ timers \in Seq(Workers) /\ halt \in BOOLEAN
    /\ timer.worker \in Workers \cup {G!None} /\ (timer.worker # G!None => timer.pc \in G!Abort)
    /\ DOMAIN timer = {"worker", "pc"}

TimersFit ==
    /\ Len(timers) <= MaxTimers
    /\ \A i, j \in DOMAIN timers : timers[i] = timers[j] => i = j

PipesFit(p) == p.in <= PipeSize /\ Len(p.out) <= PipeSize /\ p.err <= PipeSize

\* A request has a process from Spawn on, which has been reaped when the request is done.
ProcessIs(at, c) ==
    /\ at \in {"prepare", "spawn"} => c.state = "none"
    /\ c.state = "none" => at \in {"prepare", "spawn", "done"} /\ c.wrote = 0
    /\ at = "dec" => c.state = "reaped"
    /\ at = "done" => c.state \in {"none", "reaped"}

\* One header comes first, after it only the body; without an environment there is neither
\* a process nor an answer.
Starts(reply, line) ==
    /\ 1 \in DOMAIN reply /\ reply[1] = line
    /\ \A i \in DOMAIN reply : i # 1 => reply[i] = "b"
ReplyIs(at, reply, blk) ==
    /\ at \in {"prepare", "spawn", "open", "body", "push", "headers", "stderr"} => reply = << >>
    /\ at = "forward" => Starts(reply, "200")
    /\ at \in G!Abort => Starts(reply, "200") \/ Starts(reply, "500")
    /\ at = "done" => IF blk THEN Starts(reply, "200") \/ Starts(reply, "500") ELSE reply = << >>
    /\ at # "done" => (blk <=> at # "prepare")
BlockIs(r, c) == ~r.blk => c.state = "none"

\* What the program has written of its body is in the buffer, in the pipe, or sent.
BodyIs(r, written, c) ==
    /\ r.pc \in {"prepare", "spawn", "open", "body", "push", "headers"} =>
         G!Count(r.buf) + G!Count(written) = c.wrote
    /\ r.pc = "push" => r.left > 0
    /\ r.pc = "forward" => Len(r.reply) + G!Count(written) = c.wrote + 1
    /\ r.pc \in G!Abort \cup {"done"} /\ r.blk /\ r.reply[1] = "200" /\ ~r.cut =>
         Len(r.reply) = c.wrote + 1 /\ c.state \in {"zombie", "reaped"}

\* The references to the process's data are those of the request and of its timer, and
\* one more if there is no timer or it was dropped.
Timing(w) == G!Listed(w) \/ timer.worker = w
Uses(at) == at \notin {"prepare", "spawn", "done"}
RefsAre(w) ==
    /\ ~(G!Listed(w) /\ timer.worker = w)
    /\ Timing(w) => child[w].state # "none" /\ proc[w] = (IF Uses(cgi[w].pc) THEN 2 ELSE 1)
    /\ ~Timing(w) /\ child[w].state # "none" /\ Uses(cgi[w].pc) =>
         proc[w] \in {1, 2} /\ (cgi[w].timed /\ ~halt => proc[w] = 1)
    /\ ~Timing(w) /\ child[w].state # "none" /\ ~Uses(cgi[w].pc) =>
         proc[w] \in {G!Freed, 1} /\ (cgi[w].timed /\ ~halt => proc[w] = G!Freed)

CgiPart(w) ==
    /\ PipesFit(pipe[w]) /\ ProcessIs(cgi[w].pc, child[w])
    /\ ReplyIs(cgi[w].pc, cgi[w].reply, cgi[w].blk) /\ BlockIs(cgi[w], child[w])
    /\ BodyIs(cgi[w], pipe[w].out, child[w])
    /\ RefsAre(w)
CgiInv == CgiTypes /\ TimersFit /\ \A w \in Workers : CgiPart(w)
-----------------------------------------------------------------------------
\* How many units of the body are in a sequence,
LEMMA CountIs ==
    ASSUME NEW s \in Seq(G!Units)
    PROVE  /\ G!Count(s) \in Nat /\ G!Count(s) = Cardinality({i \in 1 .. Len(s) : s[i] = "b"})
           /\ IsFiniteSet({i \in 1 .. Len(s) : s[i] = "b"})
<1> DEFINE bodies == {i \in 1 .. Len(s) : s[i] = "b"}
<1>1. Len(s) \in Nat /\ DOMAIN s = 1 .. Len(s)
  BY LenProperties
<1>2. IsFiniteSet(1 .. Len(s)) /\ bodies \subseteq 1 .. Len(s)
  BY <1>1, FS_Interval
<1>3. IsFiniteSet(bodies)
  BY <1>2, FS_Subset
<1>4. G!Count(s) = Cardinality(bodies)
  BY <1>1, SameCardinality DEF G!Count
<1> QED BY <1>3, <1>4, FS_CardinalityType

\* in none,
LEMMA CountEmpty ==
    ASSUME NEW s \in Seq(G!Units), Len(s) = 0
    PROVE  G!Count(s) = 0
<1>1. {i \in 1 .. Len(s) : s[i] = "b"} = {}
  OBVIOUS
<1> QED BY <1>1, CountIs, FS_EmptySet

\* in two that are joined,
LEMMA CountConcat ==
    ASSUME NEW s \in Seq(G!Units), NEW t \in Seq(G!Units)
    PROVE  s \o t \in Seq(G!Units) /\ G!Count(s \o t) = G!Count(s) + G!Count(t)
<1> DEFINE inS == {i \in 1 .. Len(s) : s[i] = "b"}
           inT == {i \in 1 .. Len(t) : t[i] = "b"}
           moved == {i \in Len(s) + 1 .. Len(s) + Len(t) : t[i - Len(s)] = "b"}
           inBoth == {i \in 1 .. Len(s \o t) : (s \o t)[i] = "b"}
           shift == [i \in inT |-> i + Len(s)]
<1>1. Len(s) \in Nat /\ Len(t) \in Nat
  BY LenProperties
<1>2. /\ s \o t \in Seq(G!Units) /\ Len(s \o t) = Len(s) + Len(t)
      /\ \A i \in 1 .. Len(s) + Len(t) : (s \o t)[i] = IF i <= Len(s) THEN s[i] ELSE t[i - Len(s)]
  BY ConcatProperties
<1>3. inBoth = inS \cup moved /\ inS \cap moved = {}
  <2>1. \A i \in 1 .. Len(s) : i \in 1 .. Len(s) + Len(t) /\ (s \o t)[i] = s[i]
    BY <1>1, <1>2
  <2>2. \A i \in Len(s) + 1 .. Len(s) + Len(t) : i \in 1 .. Len(s) + Len(t) /\ (s \o t)[i] = t[i - Len(s)]
    BY <1>1, <1>2
  <2>3. \A i \in 1 .. Len(s) + Len(t) : i \in 1 .. Len(s) \/ i \in Len(s) + 1 .. Len(s) + Len(t)
    BY <1>1
  <2>4. \A i : ~(i \in 1 .. Len(s) /\ i \in Len(s) + 1 .. Len(s) + Len(t))
    BY <1>1
  <2>5. inS \cap moved = {}
    BY <2>4
  <2> QED BY <1>2, <2>1, <2>2, <2>3, <2>5
<1>4. shift \in Bijection(inT, moved)
  <2>1. \A i \in inT : i + Len(s) \in moved
    <3> TAKE i \in inT
    <3>1. i \in 1 .. Len(t) /\ t[i] = "b" /\ (i + Len(s)) - Len(s) = i
      BY <1>1
    <3>2. i + Len(s) \in Len(s) + 1 .. Len(s) + Len(t)
      BY <1>1, <3>1
    <3> QED BY <3>1, <3>2
  <2>2. \A i, j \in inT : i + Len(s) = j + Len(s) => i = j
    BY <1>1
  <2>3. \A k \in moved : \E i \in inT : i + Len(s) = k
    <3> TAKE k \in moved
    <3>1. k - Len(s) \in 1 .. Len(t) /\ (k - Len(s)) + Len(s) = k
      BY <1>1
    <3> QED BY <3>1
  <2> HIDE DEF inT, moved
  <2> QED BY <2>1, <2>2, <2>3 DEF Bijection, Injection, Surjection, IsInjective
<1>5. IsFiniteSet(inS) /\ IsFiniteSet(inT) /\ G!Count(s) = Cardinality(inS) /\ G!Count(t) = Cardinality(inT)
  BY CountIs
<1>6. G!Count(s \o t) = Cardinality(inBoth)
  BY <1>2, CountIs
<1> HIDE DEF inS, inT, moved, inBoth, shift
<1>7. IsFiniteSet(moved) /\ Cardinality(moved) = Cardinality(inT)
  BY <1>4, <1>5, FS_Bijection DEF ExistsBijection
<1>8. Cardinality(inBoth) = Cardinality(inS) + Cardinality(moved) - Cardinality(inS \cap moved)
  BY <1>3, <1>5, <1>7, FS_Union
<1>9. Cardinality(inS \cap moved) = 0 /\ Cardinality(inS) \in Nat /\ Cardinality(moved) \in Nat
  BY <1>3, <1>5, <1>7, FS_EmptySet, FS_CardinalityType
<1> QED BY <1>2, <1>5, <1>6, <1>7, <1>8, <1>9

\* and in one with another unit.
LEMMA CountAppend ==
    ASSUME NEW s \in Seq(G!Units), NEW u \in G!Units
    PROVE  /\ Append(s, u) \in Seq(G!Units) /\ Len(Append(s, u)) = Len(s) + 1
           /\ G!Count(Append(s, u)) = G!Count(s) + (IF u = "b" THEN 1 ELSE 0)
<1>1. Append(s, u) \in Seq(G!Units) /\ Len(Append(s, u)) = Len(s) + 1
  BY AppendProperties
<1>2. Append(s, u) = s \o <<u>> /\ <<u>> \in Seq(G!Units)
  BY AppendIsConcat
<1>3. G!Count(<<u>>) = IF u = "b" THEN 1 ELSE 0
  <2>1. G!Count(<<u>>) = Cardinality({i \in 1 .. 1 : u = "b"})
    <3>1. Len(<<u>>) = 1 /\ <<u>>[1] = u
      OBVIOUS
    <3>2. {i \in 1 .. Len(<<u>>) : <<u>>[i] = "b"} = {i \in 1 .. 1 : u = "b"}
      BY <3>1
    <3> QED BY <1>2, <3>2, CountIs
  <2>2. CASE u = "b"
    <3>1. {i \in 1 .. 1 : u = "b"} = {1}
      BY <2>2
    <3> QED BY <2>1, <2>2, <3>1, FS_Singleton
  <2>3. CASE u # "b"
    <3>1. {i \in 1 .. 1 : u = "b"} = {}
      BY <2>3
    <3> QED BY <2>1, <2>3, <3>1, FS_EmptySet
  <2> QED BY <2>2, <2>3
<1> QED BY <1>1, <1>2, <1>3, CountConcat

\* What is read from a pipe, and what is left in it.
LEMMA CountSplit ==
    ASSUME NEW s \in Seq(G!Units), NEW n \in 1 .. Len(s)
    PROVE  /\ SubSeq(s, 1, n) \in Seq(G!Units) /\ SubSeq(s, n + 1, Len(s)) \in Seq(G!Units)
           /\ Len(SubSeq(s, n + 1, Len(s))) <= Len(s)
           /\ G!Count(SubSeq(s, 1, n)) + G!Count(SubSeq(s, n + 1, Len(s))) = G!Count(s)
<1>1. Len(s) \in Nat /\ \A i \in 1 .. Len(s) : s[i] \in G!Units
  BY LenProperties, ElementOfSeq
<1>2. SubSeq(s, 1, n) \in Seq(G!Units)
  BY <1>1, SubSeqProperties
<1>3. SubSeq(s, n + 1, Len(s)) \in Seq(G!Units) /\ Len(SubSeq(s, n + 1, Len(s))) <= Len(s)
  BY <1>1, SubSeqProperties
<1>4. SubSeq(s, 1, n) \o SubSeq(s, n + 1, Len(s)) = s
  <2>1. SubSeq(s, 1, n) \o SubSeq(s, n + 1, Len(s)) = SubSeq(s, 1, Len(s))
    BY <1>1, ConcatAdjacentSubSeq
  <2> QED BY <2>1, SubSeqFull
<1> QED BY <1>2, <1>3, <1>4, CountConcat

\* The body that is sent of a sequence: as many units as it has.
LEMMA BodySent ==
    ASSUME NEW s \in Seq(G!Units), NEW reply \in Seq(Lines)
    PROVE  /\ reply \o G!BodyOf(s) \in Seq(Lines)
           /\ Len(reply \o G!BodyOf(s)) = Len(reply) + G!Count(s)
           /\ \A line : Starts(reply, line) => Starts(reply \o G!BodyOf(s), line)
<1>1. Len(reply) \in Nat /\ DOMAIN reply = 1 .. Len(reply) /\ G!Count(s) \in Nat
  BY LenProperties, CountIs
<1>2. G!BodyOf(s) \in Seq(Lines) /\ Len(G!BodyOf(s)) = G!Count(s) /\ \A i \in 1 .. G!Count(s) : G!BodyOf(s)[i] = "b"
  BY <1>1, IsASeq DEF G!BodyOf, Lines
<1>3. /\ reply \o G!BodyOf(s) \in Seq(Lines) /\ Len(reply \o G!BodyOf(s)) = Len(reply) + G!Count(s)
      /\ \A i \in 1 .. Len(reply) + G!Count(s) :
           (reply \o G!BodyOf(s))[i] = IF i <= Len(reply) THEN reply[i] ELSE G!BodyOf(s)[i - Len(reply)]
  BY <1>2, ConcatProperties
<1>4. DOMAIN (reply \o G!BodyOf(s)) = 1 .. Len(reply) + G!Count(s)
  BY <1>3, LenProperties
<1>5. ASSUME NEW line, Starts(reply, line) PROVE Starts(reply \o G!BodyOf(s), line)
  <2> DEFINE r == reply \o G!BodyOf(s)
  <2>1. 1 \in 1 .. Len(reply) /\ 1 \in 1 .. Len(reply) + G!Count(s)
    BY <1>1, <1>5 DEF Starts
  <2>2. r[1] = line /\ 1 \in DOMAIN r
    BY <1>3, <1>4, <1>5, <2>1 DEF Starts
  <2>3. ASSUME NEW i \in DOMAIN r, i # 1 PROVE r[i] = "b"
    <3>1. i \in 1 .. Len(reply) + G!Count(s)
      BY <1>4
    <3>2. CASE i <= Len(reply)
      BY <1>1, <1>3, <1>5, <2>3, <3>1, <3>2 DEF Starts
    <3>3. CASE ~(i <= Len(reply))
      <4>1. i - Len(reply) \in 1 .. G!Count(s)
        BY <1>1, <3>1, <3>3
      <4> QED BY <1>2, <1>3, <3>1, <3>3, <4>1
    <3> QED BY <3>2, <3>3
  <2> QED BY <2>2, <2>3 DEF Starts
<1> QED BY <1>3, <1>5

-----------------------------------------------------------------------------
\* The state of another request stays.
LEMMA RestStays ==
    ASSUME NEW v \in Workers, CgiPart(v), UNCHANGED <<cgi[v], child[v], pipe[v], proc[v]>>,
           G!Listed(v)' <=> G!Listed(v), (timer.worker = v)' <=> timer.worker = v, halt => halt'
    PROVE  CgiPart(v)'
<1>1. RefsAre(v)'
  BY DEF CgiPart, RefsAre, Timing
<1> QED BY <1>1 DEF CgiPart

\* A step of a request that has a process, which takes from the pipes or writes to them.
LEMMA PipeStep ==
    ASSUME CgiInv, NEW w \in Workers, NEW r \in Recs, NEW p \in Pipes,
           cgi' = [cgi EXCEPT ![w] = r], pipe' = [pipe EXCEPT ![w] = p],
           UNCHANGED <<child, proc, timers, timer, halt>>,
           cgi[w].pc \in {"open", "body", "push", "headers", "stderr", "forward"},
           r.pc \in {"body", "push", "headers", "stderr", "forward", "look"}, r.timed = cgi[w].timed /\ r.blk = cgi[w].blk,
           PipesFit(p), ReplyIs(r.pc, r.reply, r.blk), BodyIs(r, p.out, child[w])
    PROVE  CgiInv'
<1>1. cgi'[w] = r /\ pipe'[w] = p /\ \A v \in Workers : v # w => UNCHANGED <<cgi[v], pipe[v]>>
  BY DEF CgiInv, CgiTypes
<1>2. cgi' \in [Workers -> Recs] /\ pipe' \in [Workers -> Pipes]
  BY DEF CgiInv, CgiTypes
<1>3. CgiTypes' /\ TimersFit'
  BY <1>2 DEF CgiInv, CgiTypes, TimersFit
<1>4. CgiPart(w) /\ Uses(cgi[w].pc) /\ Uses(r.pc)
  BY DEF CgiInv, Uses
<1>5. RefsAre(w)'
  BY <1>1, <1>4 DEF CgiPart, RefsAre, Timing, G!Listed
<1>6. ProcessIs(r.pc, child[w]) /\ BlockIs(r, child[w])
  BY <1>4 DEF CgiPart, ProcessIs, BlockIs
<1>7. CgiPart(w)'
  BY <1>1, <1>5, <1>6 DEF CgiPart
<1>8. ASSUME NEW v \in Workers, v # w PROVE CgiPart(v)'
  BY <1>1, <1>8, RestStays DEF CgiInv, G!Listed
<1> QED BY <1>3, <1>7, <1>8 DEF CgiInv

\* The answer of a request that failed.
LEMMA FailIs ==
    ASSUME CgiInv, NEW w \in Workers, NEW at \in Pcs, G!Fail(w, at),
           cgi[w].pc \in {"spawn", "open", "body", "push", "headers", "stderr"}
    PROVE  \E r \in Recs : /\ cgi' = [cgi EXCEPT ![w] = r] /\ r.pc = at /\ r.timed = cgi[w].timed /\ r.blk = cgi[w].blk
                           /\ r.reply = <<"500">> /\ Starts(r.reply, "500") /\ r.reply[1] # "200"
<1> DEFINE r == [cgi[w] EXCEPT !.pc = at, !.reply = Append(@, "500")]
<1>1. cgi[w] \in Recs /\ cgi[w].reply = << >>
  BY DEF CgiInv, CgiTypes, CgiPart, ReplyIs
<1>2. Append(cgi[w].reply, "500") = <<"500">> /\ <<"500">> \in Seq(Lines)
  BY <1>1 DEF Lines
<1>3. r \in Recs /\ r.pc = at /\ r.timed = cgi[w].timed /\ r.blk = cgi[w].blk /\ r.reply = <<"500">>
  BY <1>1, <1>2 DEF Recs
<1>4. Starts(<<"500">>, "500") /\ <<"500">>[1] # "200"
  BY DEF Starts
<1>5. cgi' = [cgi EXCEPT ![w] = r]
  BY DEF G!Fail, G!Set
<1> HIDE DEF r
<1> QED BY <1>3, <1>4, <1>5

\* A step that fails after the process was started: the abort begins.
LEMMA FailStep ==
    ASSUME CgiInv, NEW w \in Workers, cgi[w].pc \in {"open", "body", "push", "stderr"}, G!Fail(w, "look"),
           UNCHANGED <<child, pipe, proc, timers, timer, halt>>
    PROVE  CgiInv'
<1>1. cgi[w].pc \in {"spawn", "open", "body", "push", "headers", "stderr"} /\ "look" \in Pcs
  BY DEF Pcs, G!Abort
<1>2. PICK r \in Recs : /\ cgi' = [cgi EXCEPT ![w] = r] /\ r.pc = "look" /\ r.timed = cgi[w].timed /\ r.blk = cgi[w].blk
                        /\ Starts(r.reply, "500") /\ r.reply[1] # "200"
  BY <1>1, FailIs
<1>3. ReplyIs(r.pc, r.reply, r.blk) /\ BodyIs(r, pipe[w].out, child[w])
  <2>1. cgi[w].blk
    BY DEF CgiInv, CgiPart, ReplyIs
  <2> QED BY <1>2, <2>1 DEF ReplyIs, BodyIs, G!Abort
<1>4. pipe[w] \in Pipes /\ PipesFit(pipe[w]) /\ pipe' = [pipe EXCEPT ![w] = pipe[w]]
  BY DEF CgiInv, CgiTypes, CgiPart
<1> QED BY <1>2, <1>3, <1>4, PipeStep

\* The worker's steps that change neither its process nor the timers.
LEMMA OpenPipesKeeps ==
    ASSUME CgiInv, NEW w \in Workers, G!OpenPipes(w)
    PROVE  CgiInv'
<1>1. cgi[w] \in Recs /\ pipe[w] \in Pipes /\ CgiPart(w) /\ cgi[w].pc = "open"
  BY DEF CgiInv, CgiTypes, G!OpenPipes
<1>2. CASE G!Goto(w, "body")
  <2> DEFINE r == [cgi[w] EXCEPT !.pc = "body"]
  <2>1. r \in Recs /\ r.pc = "body" /\ r.timed = cgi[w].timed /\ r.blk = cgi[w].blk /\ r.buf = cgi[w].buf /\ r.reply = cgi[w].reply
    BY <1>1 DEF Recs, Pcs
  <2>2. cgi' = [cgi EXCEPT ![w] = r] /\ pipe' = [pipe EXCEPT ![w] = pipe[w]]
    BY <1>2 DEF G!Goto, G!Set, G!OpenPipes, CgiInv, CgiTypes
  <2> HIDE DEF r
  <2>3. ReplyIs(r.pc, r.reply, r.blk) /\ BodyIs(r, pipe[w].out, child[w])
    BY <1>1, <2>1 DEF CgiPart, ReplyIs, BodyIs, G!Abort
  <2> QED BY <1>1, <2>1, <2>2, <2>3, PipeStep DEF G!OpenPipes, CgiPart
<1> QED BY <1>1, <1>2, FailStep DEF G!OpenPipes

\* forward_body_data: the body of the request is read, to its end or not,
LEMMA ReadBodyKeeps ==
    ASSUME CgiInv, NEW w \in Workers, G!ReadBody(w)
    PROVE  CgiInv'
<1>1. /\ cgi[w] \in Recs /\ pipe[w] \in Pipes /\ CgiPart(w) /\ cgi[w].pc = "body"
      /\ UNCHANGED <<child, pipe, proc, timers, timer, halt>>
  BY DEF CgiInv, CgiTypes, G!ReadBody
<1>2. ASSUME NEW at \in {"headers", "push"}, G!Goto(w, at), at = "push" => cgi[w].left > 0
      PROVE  CgiInv'
  <2> DEFINE r == [cgi[w] EXCEPT !.pc = at]
  <2>1. /\ r \in Recs /\ r.pc = at /\ r.timed = cgi[w].timed /\ r.blk = cgi[w].blk
        /\ r.buf = cgi[w].buf /\ r.reply = cgi[w].reply /\ r.left = cgi[w].left
    BY <1>1 DEF Recs, Pcs
  <2>2. cgi' = [cgi EXCEPT ![w] = r] /\ pipe' = [pipe EXCEPT ![w] = pipe[w]]
    BY <1>1, <1>2 DEF G!Goto, G!Set, CgiInv, CgiTypes
  <2> HIDE DEF r
  <2>3. ReplyIs(r.pc, r.reply, r.blk) /\ BodyIs(r, pipe[w].out, child[w])
    BY <1>1, <1>2, <2>1 DEF CgiPart, ReplyIs, BodyIs, G!Abort
  <2> QED BY <1>1, <2>1, <2>2, <2>3, PipeStep DEF CgiPart
<1>3. G!Goto(w, "headers") \/ G!Fail(w, "look") \/ (cgi[w].left > 0 /\ G!Goto(w, "push"))
  BY DEF G!ReadBody
<1> QED BY <1>1, <1>2, <1>3, FailStep

\* and goes to the process's input.
LEMMA PushBodyKeeps ==
    ASSUME G!CgiAssumption, CgiInv, NEW w \in Workers, G!PushBody(w)
    PROVE  CgiInv'
<1>1. cgi[w] \in Recs /\ pipe[w] \in Pipes /\ CgiPart(w) /\ cgi[w].pc = "push" /\ cgi[w].left > 0
  BY DEF CgiInv, CgiTypes, G!PushBody, CgiPart, BodyIs
<1>3. CASE /\ ~G!Ended(w) /\ pipe[w].in < PipeSize
           /\ G!Set(w, [cgi[w] EXCEPT !.pc = "body", !.left = @ - 1])
           /\ pipe' = [pipe EXCEPT ![w].in = @ + 1]
  <2> DEFINE r == [cgi[w] EXCEPT !.pc = "body", !.left = @ - 1]
             p == [pipe[w] EXCEPT !.in = @ + 1]
  <2>1. cgi[w].left - 1 \in Nat
    BY <1>1, <1>3 DEF Recs
  <2>2. /\ r \in Recs /\ r.pc = "body" /\ r.timed = cgi[w].timed /\ r.blk = cgi[w].blk
        /\ r.buf = cgi[w].buf /\ r.reply = cgi[w].reply
    BY <1>1, <2>1 DEF Recs, Pcs
  <2>3. p \in Pipes /\ p.in = pipe[w].in + 1 /\ p.out = pipe[w].out /\ p.err = pipe[w].err
    BY <1>1 DEF Pipes
  <2>4. PipesFit(p)
    <3>1. pipe[w].in \in Nat /\ PipeSize \in Nat
      BY <1>1 DEF G!CgiAssumption, Pipes
    <3> QED BY <1>1, <1>3, <2>3, <3>1 DEF CgiPart, PipesFit
  <2>5. cgi' = [cgi EXCEPT ![w] = r] /\ pipe' = [pipe EXCEPT ![w] = p]
    BY <1>3 DEF G!Set
  <2> HIDE DEF r, p
  <2>6. ReplyIs(r.pc, r.reply, r.blk) /\ BodyIs(r, p.out, child[w])
    BY <1>1, <2>2, <2>3 DEF CgiPart, ReplyIs, BodyIs, G!Abort
  <2> QED BY <1>1, <2>2, <2>3, <2>4, <2>5, <2>6, PipeStep DEF G!PushBody, CgiPart
<1> QED BY <1>1, <1>3, FailStep DEF G!PushBody

\* The error output is read when there was no header.
LEMMA ReadErrorKeeps ==
    ASSUME G!CgiAssumption, CgiInv, NEW w \in Workers, G!ReadError(w)
    PROVE  CgiInv'
<1>1. cgi[w] \in Recs /\ pipe[w] \in Pipes /\ CgiPart(w) /\ cgi[w].pc = "stderr"
  BY DEF CgiInv, CgiTypes, G!ReadError
<1>2. CASE /\ pipe[w].err > 0
           /\ G!Set(w, [cgi[w] EXCEPT !.errors = @ + 1])
           /\ pipe' = [pipe EXCEPT ![w].err = @ - 1]
  <2> DEFINE r == [cgi[w] EXCEPT !.errors = @ + 1]
             p == [pipe[w] EXCEPT !.err = @ - 1]
  <2>1. cgi[w].errors + 1 \in Nat /\ pipe[w].err - 1 \in Nat /\ pipe[w].err - 1 <= pipe[w].err
    BY <1>1, <1>2 DEF Recs, Pipes
  <2>2. r \in Recs /\ r.pc = "stderr" /\ r.timed = cgi[w].timed /\ r.blk = cgi[w].blk /\ r.reply = cgi[w].reply
    BY <1>1, <2>1 DEF Recs
  <2>3. p \in Pipes /\ p.in = pipe[w].in /\ p.out = pipe[w].out /\ p.err = pipe[w].err - 1
    BY <1>1, <2>1 DEF Pipes
  <2>4. PipesFit(p)
    <3>1. pipe[w].err \in Nat /\ PipeSize \in Nat
      BY <1>1 DEF G!CgiAssumption, Pipes
    <3> QED BY <1>1, <2>3, <3>1 DEF CgiPart, PipesFit
  <2>5. cgi' = [cgi EXCEPT ![w] = r] /\ pipe' = [pipe EXCEPT ![w] = p]
    BY <1>2 DEF G!Set
  <2> HIDE DEF r, p
  <2>6. ReplyIs(r.pc, r.reply, r.blk) /\ BodyIs(r, p.out, child[w])
    BY <1>1, <2>2, <2>3 DEF CgiPart, ReplyIs, BodyIs, G!Abort
  <2> QED BY <1>1, <2>2, <2>3, <2>4, <2>5, <2>6, PipeStep DEF G!ReadError
<1> QED BY <1>1, <1>2, FailStep DEF G!ReadError

\* read_message: what is read goes from the pipe to the buffer, and from it to the client.
LEMMA ReadHeadersKeeps ==
    ASSUME G!CgiAssumption, CgiInv, NEW w \in Workers, G!ReadHeaders(w)
    PROVE  CgiInv'
<1>1. cgi[w] \in Recs /\ pipe[w] \in Pipes /\ CgiPart(w) /\ cgi[w].pc = "headers"
  BY DEF CgiInv, CgiTypes, G!ReadHeaders
<1>2. cgi[w].buf \in Seq(G!Units) /\ pipe[w].out \in Seq(G!Units) /\ cgi[w].reply = << >> /\ cgi[w].blk
  BY <1>1 DEF Recs, Pipes, CgiPart, ReplyIs
<1>3. G!Count(cgi[w].buf) + G!Count(pipe[w].out) = child[w].wrote
  BY <1>1 DEF CgiPart, BodyIs
<1>4. child[w] \in Children /\ child[w].wrote \in Nat
  BY DEF CgiInv, CgiTypes, Children
<1>5. CASE /\ G!Set(w, [cgi[w] EXCEPT !.pc = "forward", !.reply = (@ \o <<"200">>) \o G!BodyOf(cgi[w].buf)])
           /\ UNCHANGED pipe
  <2> DEFINE reply == <<"200">> \o G!BodyOf(cgi[w].buf)
             r == [cgi[w] EXCEPT !.pc = "forward", !.reply = reply]
  <2>1. <<"200">> \in Seq(Lines) /\ Starts(<<"200">>, "200") /\ Len(<<"200">>) = 1
    BY DEF Lines, Starts
  <2>2. reply \in Seq(Lines) /\ Len(reply) = 1 + G!Count(cgi[w].buf) /\ Starts(reply, "200")
    BY <1>2, <2>1, BodySent
  <2>3. (cgi[w].reply \o <<"200">>) \o G!BodyOf(cgi[w].buf) = reply
    BY <1>2
  <2> HIDE DEF reply
  <2>4. r \in Recs /\ r.pc = "forward" /\ r.timed = cgi[w].timed /\ r.blk = cgi[w].blk /\ r.reply = reply
    BY <1>1, <2>2 DEF Recs, Pcs
  <2>5. cgi' = [cgi EXCEPT ![w] = r]
    BY <1>5, <2>3 DEF G!Set
  <2>6. pipe' = [pipe EXCEPT ![w] = pipe[w]]
    BY <1>5 DEF CgiInv, CgiTypes
  <2> HIDE DEF r
  <2>7. ReplyIs(r.pc, r.reply, r.blk)
    BY <1>2, <2>2, <2>4 DEF ReplyIs, G!Abort
  <2>8. G!Count(cgi[w].buf) \in Nat /\ G!Count(pipe[w].out) \in Nat
    BY <1>2, CountIs
  <2>9. BodyIs(r, pipe[w].out, child[w])
    BY <1>3, <1>4, <2>2, <2>4, <2>8 DEF BodyIs, G!Abort
  <2> QED BY <1>1, <2>4, <2>5, <2>6, <2>7, <2>9, PipeStep DEF G!ReadHeaders, CgiPart
<1>6. ASSUME NEW p \in Pipes, pipe' = [pipe EXCEPT ![w] = p], PipesFit(p),
             cgi' = [cgi EXCEPT ![w] = [cgi[w] EXCEPT !.pc = "stderr"]]
      PROVE  CgiInv'
  <2> DEFINE r == [cgi[w] EXCEPT !.pc = "stderr"]
  <2>1. r \in Recs /\ r.pc = "stderr" /\ r.timed = cgi[w].timed /\ r.blk = cgi[w].blk /\ r.reply = << >>
    BY <1>1, <1>2 DEF Recs, Pcs
  <2>2. cgi' = [cgi EXCEPT ![w] = r]
    BY <1>6
  <2> HIDE DEF r
  <2>3. ReplyIs(r.pc, r.reply, r.blk) /\ BodyIs(r, p.out, child[w])
    BY <1>2, <2>1 DEF ReplyIs, BodyIs, G!Abort
  <2> QED BY <1>1, <1>6, <2>1, <2>2, <2>3, PipeStep DEF G!ReadHeaders
<1>7. CASE G!Goto(w, "stderr") /\ UNCHANGED pipe
  <2>1. pipe' = [pipe EXCEPT ![w] = pipe[w]]
    BY <1>7 DEF CgiInv, CgiTypes
  <2> QED BY <1>1, <1>6, <1>7, <2>1 DEF G!Goto, G!Set, CgiPart
<1>8. ASSUME NEW n \in 1 .. Len(pipe[w].out),
             pipe' = [pipe EXCEPT ![w].out = SubSeq(@, n + 1, Len(@))],
             \/ G!Set(w, [cgi[w] EXCEPT !.buf = @ \o SubSeq(pipe[w].out, 1, n)])
             \/ G!Set(w, [cgi[w] EXCEPT !.pc = "stderr"])
      PROVE  CgiInv'
  <2> DEFINE first == SubSeq(pipe[w].out, 1, n)
             rest == SubSeq(pipe[w].out, n + 1, Len(pipe[w].out))
             p == [pipe[w] EXCEPT !.out = rest]
  <2>1. /\ first \in Seq(G!Units) /\ rest \in Seq(G!Units) /\ Len(rest) <= Len(pipe[w].out)
        /\ G!Count(first) + G!Count(rest) = G!Count(pipe[w].out)
    BY <1>2, CountSplit
  <2>2. pipe' = [pipe EXCEPT ![w] = p]
    BY <1>8
  <2> HIDE DEF first, rest
  <2>3. p \in Pipes /\ p.in = pipe[w].in /\ p.out = rest /\ p.err = pipe[w].err
    BY <1>1, <2>1 DEF Pipes
  <2> HIDE DEF p
  <2>4. PipesFit(p)
    <3>1. Len(rest) \in Nat /\ Len(pipe[w].out) \in Nat /\ PipeSize \in Nat
      BY <1>2, <2>1 DEF G!CgiAssumption
    <3> QED BY <1>1, <2>1, <2>3, <3>1 DEF CgiPart, PipesFit
  <2>5. CASE G!Set(w, [cgi[w] EXCEPT !.pc = "stderr"])
    BY <1>6, <2>2, <2>3, <2>4, <2>5 DEF G!Set
  <2>6. CASE G!Set(w, [cgi[w] EXCEPT !.buf = @ \o first])
    <3> DEFINE r == [cgi[w] EXCEPT !.buf = @ \o first]
    <3>1. cgi[w].buf \o first \in Seq(G!Units) /\ G!Count(cgi[w].buf \o first) = G!Count(cgi[w].buf) + G!Count(first)
      BY <1>2, <2>1, CountConcat
    <3>2. r \in Recs /\ r.pc = "headers" /\ r.timed = cgi[w].timed /\ r.blk = cgi[w].blk /\ r.reply = << >> /\ r.buf = cgi[w].buf \o first
      BY <1>1, <1>2, <3>1 DEF Recs
    <3>3. cgi' = [cgi EXCEPT ![w] = r]
      BY <2>6 DEF G!Set
    <3> HIDE DEF r
    <3>4. ReplyIs(r.pc, r.reply, r.blk)
      BY <1>2, <3>2 DEF ReplyIs, G!Abort
    <3>5. G!Count(cgi[w].buf) \in Nat /\ G!Count(first) \in Nat /\ G!Count(rest) \in Nat
      BY <1>2, <2>1, CountIs
    <3>6. BodyIs(r, p.out, child[w])
      BY <1>3, <2>1, <2>3, <3>1, <3>2, <3>5 DEF BodyIs, G!Abort
    <3> QED BY <1>1, <2>2, <2>3, <2>4, <3>2, <3>3, <3>4, <3>6, PipeStep DEF G!ReadHeaders
  <2> QED BY <1>8, <2>5, <2>6 DEF first
<1> QED BY <1>1, <1>5, <1>7, <1>8 DEF G!ReadHeaders

\* send_file_data: what is in the pipe goes to the client.
LEMMA ForwardKeeps ==
    ASSUME G!CgiAssumption, CgiInv, NEW w \in Workers, G!Forward(w)
    PROVE  CgiInv'
<1>1. cgi[w] \in Recs /\ pipe[w] \in Pipes /\ CgiPart(w) /\ cgi[w].pc = "forward" /\ G!Readable(w)
  BY DEF CgiInv, CgiTypes, G!Forward
<1>2. cgi[w].reply \in Seq(Lines) /\ pipe[w].out \in Seq(G!Units) /\ Starts(cgi[w].reply, "200") /\ cgi[w].blk
  BY <1>1 DEF Recs, Pipes, CgiPart, ReplyIs
<1>3. Len(cgi[w].reply) + G!Count(pipe[w].out) = child[w].wrote + 1 /\ G!Count(pipe[w].out) \in Nat
  BY <1>1, <1>2, CountIs DEF CgiPart, BodyIs
<1>4. G!Count(<< >>) = 0 /\ << >> \in Seq(G!Units) /\ Len(<< >>) = 0
  <2>1. << >> \in Seq(G!Units) /\ Len(<< >>) = 0
    BY EmptySeq
  <2> QED BY <2>1, CountEmpty
<1>5. Len(cgi[w].reply) \in Nat
  BY <1>2
<1>6. CASE pipe[w].out = << >> /\ G!Goto(w, "look") /\ UNCHANGED pipe
  <2> DEFINE r == [cgi[w] EXCEPT !.pc = "look"]
  <2>1. r \in Recs /\ r.pc = "look" /\ r.timed = cgi[w].timed /\ r.blk = cgi[w].blk /\ r.reply = cgi[w].reply
    BY <1>1 DEF Recs, Pcs, G!Abort
  <2>2. cgi' = [cgi EXCEPT ![w] = r]
    BY <1>6 DEF G!Goto, G!Set
  <2>3. pipe' = [pipe EXCEPT ![w] = pipe[w]]
    BY <1>6 DEF CgiInv, CgiTypes
  <2> HIDE DEF r
  <2>4. ReplyIs(r.pc, r.reply, r.blk)
    BY <1>2, <2>1 DEF ReplyIs, G!Abort
  <2>5. child[w].state \in {"zombie", "reaped"} /\ Len(cgi[w].reply) = child[w].wrote + 1
    BY <1>1, <1>3, <1>4, <1>5, <1>6 DEF G!Readable, G!Ended
  <2>6. BodyIs(r, pipe[w].out, child[w])
    BY <2>1, <2>5 DEF BodyIs, G!Abort
  <2> QED BY <1>1, <2>1, <2>2, <2>3, <2>4, <2>6, PipeStep DEF G!Forward, CgiPart
<1>7. CASE /\ G!Set(w, [cgi[w] EXCEPT !.reply = @ \o G!BodyOf(pipe[w].out)])
           /\ pipe' = [pipe EXCEPT ![w].out = << >>]
  <2> DEFINE reply == cgi[w].reply \o G!BodyOf(pipe[w].out)
             r == [cgi[w] EXCEPT !.reply = reply]
             p == [pipe[w] EXCEPT !.out = << >>]
  <2>1. reply \in Seq(Lines) /\ Len(reply) = Len(cgi[w].reply) + G!Count(pipe[w].out) /\ Starts(reply, "200")
    BY <1>2, BodySent
  <2>2. cgi' = [cgi EXCEPT ![w] = r] /\ pipe' = [pipe EXCEPT ![w] = p]
    BY <1>7 DEF G!Set
  <2> HIDE DEF reply
  <2>3. r \in Recs /\ r.pc = "forward" /\ r.timed = cgi[w].timed /\ r.blk = cgi[w].blk /\ r.reply = reply
    BY <1>1, <2>1 DEF Recs
  <2>4. p \in Pipes /\ p.in = pipe[w].in /\ p.out = << >> /\ p.err = pipe[w].err
    BY <1>1, <1>4 DEF Pipes
  <2> HIDE DEF r, p
  <2>5. PipesFit(p)
    <3>1. PipeSize \in Nat
      BY DEF G!CgiAssumption
    <3> QED BY <1>1, <1>4, <2>4, <3>1 DEF CgiPart, PipesFit
  <2>6. ReplyIs(r.pc, r.reply, r.blk)
    BY <1>2, <2>1, <2>3 DEF ReplyIs, G!Abort
  <2>7. BodyIs(r, p.out, child[w])
    BY <1>3, <1>4, <1>5, <2>1, <2>3, <2>4 DEF BodyIs, G!Abort
  <2> QED BY <1>1, <2>2, <2>3, <2>4, <2>5, <2>6, <2>7, PipeStep DEF G!Forward
<1>8. CASE G!Set(w, [cgi[w] EXCEPT !.pc = "look", !.cut = TRUE]) /\ UNCHANGED pipe
  <2> DEFINE r == [cgi[w] EXCEPT !.pc = "look", !.cut = TRUE]
  <2>1. r \in Recs /\ r.pc = "look" /\ r.timed = cgi[w].timed /\ r.blk = cgi[w].blk /\ r.reply = cgi[w].reply /\ r.cut
    BY <1>1 DEF Recs, Pcs, G!Abort
  <2>2. cgi' = [cgi EXCEPT ![w] = r]
    BY <1>8 DEF G!Set
  <2>3. pipe' = [pipe EXCEPT ![w] = pipe[w]]
    BY <1>8 DEF CgiInv, CgiTypes
  <2> HIDE DEF r
  <2>4. ReplyIs(r.pc, r.reply, r.blk)
    BY <1>2, <2>1 DEF ReplyIs, G!Abort
  <2>5. BodyIs(r, pipe[w].out, child[w])
    BY <2>1 DEF BodyIs, G!Abort
  <2> QED BY <1>1, <2>1, <2>2, <2>3, <2>4, <2>5, PipeStep DEF G!Forward, CgiPart
<1> QED BY <1>6, <1>7, <1>8 DEF G!Forward

\* A step of abort_cgi_process: what it does to the process and to its data.
LEMMA AbortStepIs ==
    ASSUME CgiInv, NEW w \in Workers, NEW at \in G!Abort, NEW goto \in G!Abort \cup {"end"},
           G!AbortStep(w, at, goto), child[w].state # "none"
    PROVE  /\ \E c \in Children :
                /\ child' = [child EXCEPT ![w] = c] /\ c.wrote = child[w].wrote
                /\ c.state # "none" /\ (child[w].state \in {"zombie", "reaped"} => c.state \in {"zombie", "reaped"})
                /\ (child[w].state = "reaped" \/ goto = "dec" => c.state = "reaped")
                /\ (at = "dec" => c = child[w])
           /\ proc' = IF at = "dec" THEN [proc EXCEPT ![w] = IF @ = 1 THEN G!Freed ELSE @ - 1] ELSE proc
           /\ goto = "end" <=> at = "dec"
<1>1. child[w] \in Children /\ child \in [Workers -> Children]
  BY DEF CgiInv, CgiTypes
<1>2. child[w].state \in {"running", "zombie", "reaped"}
  BY <1>1 DEF Children, States
<1>3. G!Reap(child[w]) \in Children /\ G!Reap(child[w]).wrote = child[w].wrote
  BY <1>1 DEF G!Reap, Children, States
<1>4. G!Reap(child[w]).state = IF child[w].state = "running" THEN "running" ELSE "reaped"
  BY <1>1, <1>2 DEF G!Reap, Children
<1>5. CASE at \in {"look", "wait"}
  <2>1. child' = [child EXCEPT ![w] = G!Reap(child[w])] /\ UNCHANGED proc
    BY <1>5 DEF G!AbortStep
  <2>2. goto \in {"kill", "dec"} /\ (goto = "dec" => child[w].state # "running")
    BY <1>2, <1>5 DEF G!AbortStep, G!Look, G!Waited
  <2> QED BY <1>2, <1>3, <1>4, <1>5, <2>1, <2>2
<1>6. CASE at = "kill"
  <2>1. goto = "wait" /\ UNCHANGED proc
    BY <1>6 DEF G!AbortStep
  <2>2. CASE child[w].state = "running"
    <3> DEFINE c == [child[w] EXCEPT !.todo = <<"die">>]
    <3>1. <<"die">> \in Seq(G!Units)
      BY DEF G!Units
    <3>2. c \in Children /\ c.state = "running" /\ c.wrote = child[w].wrote
      BY <1>1, <2>2, <3>1 DEF Children
    <3>3. child' = [child EXCEPT ![w] = c]
      BY <1>6, <2>2 DEF G!AbortStep
    <3> HIDE DEF c
    <3> QED BY <1>6, <2>1, <2>2, <3>2, <3>3
  <2>3. CASE child[w].state # "running"
    <3>1. child' = child /\ child = [child EXCEPT ![w] = child[w]]
      BY <1>1, <1>6, <2>3 DEF G!AbortStep
    <3> QED BY <1>1, <1>2, <1>6, <2>1, <2>3, <3>1
  <2> QED BY <2>2, <2>3
<1>7. CASE at = "dec"
  <2>1. goto = "end" /\ proc' = [proc EXCEPT ![w] = IF @ = 1 THEN G!Freed ELSE @ - 1] /\ UNCHANGED child
    BY <1>7 DEF G!AbortStep
  <2>2. child' = [child EXCEPT ![w] = child[w]]
    BY <1>1, <2>1
  <2> QED BY <1>1, <1>2, <1>7, <2>1, <2>2
<1> QED BY <1>5, <1>6, <1>7 DEF G!Abort

\* abort_cgi_process, called by the worker.
LEMMA AbortByWorkerKeeps ==
    ASSUME CgiInv, NEW w \in Workers, G!AbortByWorker(w)
    PROVE  CgiInv'
<1> DEFINE at == cgi[w].pc
<1>1. at \in G!Abort /\ UNCHANGED <<pipe, timers, timer, halt>>
  BY DEF G!AbortByWorker
<1>2. PICK goto \in G!Abort \cup {"end"} :
        G!AbortStep(w, at, goto) /\ G!Goto(w, IF goto = "end" THEN "done" ELSE goto)
  BY DEF G!AbortByWorker
<1> DEFINE to == IF goto = "end" THEN "done" ELSE goto
           r == [cgi[w] EXCEPT !.pc = to]
<1>3. cgi[w] \in Recs /\ CgiPart(w) /\ Uses(at) /\ proc \in [Workers -> G!Freed .. 2]
  BY <1>1 DEF CgiInv, CgiTypes, Uses, G!Abort
<1>4. child[w].state # "none"
  BY <1>3 DEF CgiPart, ProcessIs, Uses
<1>5. PICK c \in Children :
        /\ child' = [child EXCEPT ![w] = c] /\ c.wrote = child[w].wrote
        /\ c.state # "none" /\ (child[w].state \in {"zombie", "reaped"} => c.state \in {"zombie", "reaped"})
        /\ (child[w].state = "reaped" \/ goto = "dec" => c.state = "reaped")
        /\ (at = "dec" => c = child[w])
  BY <1>1, <1>2, <1>4, AbortStepIs
<1>6. /\ proc' = IF at = "dec" THEN [proc EXCEPT ![w] = IF @ = 1 THEN G!Freed ELSE @ - 1] ELSE proc
      /\ goto = "end" <=> at = "dec"
  BY <1>1, <1>2, <1>4, AbortStepIs
<1>7. to \in G!Abort \cup {"done"} /\ (to = "done" <=> at = "dec") /\ (to = "dec" => c.state = "reaped")
  BY <1>5, <1>6 DEF G!Abort
<1>8. /\ r \in Recs /\ r.pc = to /\ r.timed = cgi[w].timed /\ r.blk = cgi[w].blk /\ r.reply = cgi[w].reply /\ r.cut = cgi[w].cut
      /\ r.buf = cgi[w].buf
  BY <1>3, <1>7 DEF Recs, Pcs
<1>9. cgi' = [cgi EXCEPT ![w] = r]
  BY <1>2 DEF G!Goto, G!Set
<1> HIDE DEF r, to
<1>10. cgi'[w] = r /\ child'[w] = c /\ \A v \in Workers : v # w => UNCHANGED <<cgi[v], child[v], proc[v]>>
  BY <1>3, <1>5, <1>6, <1>9 DEF CgiInv, CgiTypes
<1>11. /\ at = "dec" => proc[w] \in {1, 2}
       /\ proc'[w] = IF at = "dec" THEN IF proc[w] = 1 THEN G!Freed ELSE proc[w] - 1 ELSE proc[w]
  BY <1>3, <1>4, <1>6 DEF CgiPart, RefsAre
<1>12. CgiTypes'
  <2>1. cgi' \in [Workers -> Recs] /\ child' \in [Workers -> Children]
    BY <1>5, <1>8, <1>9 DEF CgiInv, CgiTypes
  <2>2. proc' \in [Workers -> G!Freed .. 2]
    <3>1. (IF proc[w] = 1 THEN G!Freed ELSE proc[w] - 1) \in G!Freed .. 2 \/ at # "dec"
      BY <1>11 DEF G!Freed
    <3> QED BY <1>3, <1>6, <3>1
  <2> QED BY <1>1, <2>1, <2>2 DEF CgiInv, CgiTypes
<1>13. RefsAre(w)'
  <2>1. Uses(r.pc) <=> at # "dec"
    BY <1>7, <1>8 DEF Uses, G!Abort
  <2>2. RefsAre(w)
    BY <1>3 DEF CgiPart
  <2> QED BY <1>1, <1>3, <1>4, <1>5, <1>8, <1>10, <1>11, <2>1, <2>2 DEF RefsAre, Timing, G!Listed, G!Freed
<1>14. ProcessIs(r.pc, c)
  <2>1. r.pc \notin {"prepare", "spawn"} /\ (r.pc = "done" => child[w].state = "reaped")
    BY <1>3, <1>7, <1>8 DEF CgiPart, ProcessIs, G!Abort
  <2> QED BY <1>5, <1>7, <1>8, <2>1 DEF ProcessIs
<1>15. ReplyIs(r.pc, r.reply, r.blk)
  BY <1>1, <1>3, <1>7, <1>8 DEF CgiPart, ReplyIs, G!Abort
<1>16. BodyIs(r, pipe[w].out, c)
  BY <1>1, <1>3, <1>5, <1>7, <1>8 DEF CgiPart, BodyIs, G!Abort
<1>19. BlockIs(r, c)
  BY <1>3, <1>4, <1>8 DEF CgiPart, BlockIs
<1>17. CgiPart(w)'
  BY <1>1, <1>3, <1>10, <1>13, <1>14, <1>15, <1>16, <1>19 DEF CgiPart
<1>18. ASSUME NEW v \in Workers, v # w PROVE CgiPart(v)'
  BY <1>1, <1>10, <1>18, RestStays DEF CgiInv, G!Listed
<1> QED BY <1>1, <1>12, <1>17, <1>18 DEF CgiInv, TimersFit

\* abort_cgi_process, called by the timer thread.
LEMMA AbortByTimerKeeps ==
    ASSUME G!CgiAssumption, CgiInv, G!AbortByTimer
    PROVE  CgiInv'
<1>0. PICK w \in Workers, at \in G!Abort : w = timer.worker /\ at = timer.pc
  BY DEF G!AbortByTimer, CgiInv, CgiTypes
<1>1. w \in Workers /\ at \in G!Abort /\ w # G!None /\ UNCHANGED <<cgi, pipe, timers, halt>>
  BY <1>0 DEF G!AbortByTimer
<1>2. PICK goto \in G!Abort \cup {"end"} :
        /\ G!AbortStep(w, at, goto)
        /\ timer' = IF goto = "end" THEN [worker |-> G!None, pc |-> "end"] ELSE [timer EXCEPT !.pc = goto]
  BY <1>0 DEF G!AbortByTimer
<1>3. CgiPart(w) /\ proc \in [Workers -> G!Freed .. 2] /\ Timing(w) /\ DOMAIN timer = {"worker", "pc"}
  BY <1>0, <1>1 DEF CgiInv, CgiTypes, Timing
<1>4. child[w].state # "none" /\ ~G!Listed(w) /\ proc[w] = (IF Uses(cgi[w].pc) THEN 2 ELSE 1)
  BY <1>0, <1>3 DEF CgiPart, RefsAre
<1>5. PICK c \in Children :
        /\ child' = [child EXCEPT ![w] = c] /\ c.wrote = child[w].wrote
        /\ c.state # "none" /\ (child[w].state \in {"zombie", "reaped"} => c.state \in {"zombie", "reaped"})
        /\ (child[w].state = "reaped" \/ goto = "dec" => c.state = "reaped")
        /\ (at = "dec" => c = child[w])
  BY <1>1, <1>2, <1>4, AbortStepIs
<1>6. /\ proc' = IF at = "dec" THEN [proc EXCEPT ![w] = IF @ = 1 THEN G!Freed ELSE @ - 1] ELSE proc
      /\ goto = "end" <=> at = "dec"
  BY <1>1, <1>2, <1>4, AbortStepIs
<1>7. /\ timer'.worker = (IF at = "dec" THEN G!None ELSE w) /\ (at # "dec" => timer'.pc \in G!Abort)
      /\ DOMAIN timer' = {"worker", "pc"}
  BY <1>0, <1>2, <1>3, <1>6
<1>8. G!None \notin Workers
  BY DEF G!CgiAssumption
<1>9. child'[w] = c /\ \A v \in Workers : v # w => UNCHANGED <<child[v], proc[v]>>
  BY <1>1, <1>3, <1>5, <1>6 DEF CgiInv, CgiTypes
<1>10. proc'[w] = IF at = "dec" THEN IF proc[w] = 1 THEN G!Freed ELSE proc[w] - 1 ELSE proc[w]
  BY <1>1, <1>3, <1>6
<1>11. CgiTypes'
  <2>1. child' \in [Workers -> Children]
    BY <1>1, <1>5 DEF CgiInv, CgiTypes
  <2>2. proc' \in [Workers -> G!Freed .. 2]
    <3>1. (IF proc[w] = 1 THEN G!Freed ELSE proc[w] - 1) \in G!Freed .. 2
      BY <1>4 DEF G!Freed
    <3> QED BY <1>1, <1>3, <1>6, <3>1
  <2>3. timer'.worker \in Workers \cup {G!None} /\ (timer'.worker # G!None => timer'.pc \in G!Abort)
    BY <1>1, <1>7
  <2> QED BY <1>1, <1>7, <2>1, <2>2, <2>3 DEF CgiInv, CgiTypes
<1>12. RefsAre(w)'
  <2>1. RefsAre(w) /\ (timer'.worker = w <=> at # "dec")
    BY <1>1, <1>3, <1>7, <1>8 DEF CgiPart
  <2> QED BY <1>0, <1>1, <1>3, <1>4, <1>5, <1>9, <1>10, <2>1 DEF RefsAre, Timing, G!Listed, G!Freed
<1>13. ProcessIs(cgi[w].pc, c)
  <2>1. ProcessIs(cgi[w].pc, child[w])
    BY <1>3 DEF CgiPart
  <2> QED BY <1>4, <1>5, <2>1 DEF ProcessIs
<1>14. BodyIs(cgi[w], pipe[w].out, c)
  BY <1>3, <1>5 DEF CgiPart, BodyIs
<1>17. BlockIs(cgi[w], c)
  BY <1>3, <1>4 DEF CgiPart, BlockIs
<1>15. CgiPart(w)'
  BY <1>1, <1>3, <1>9, <1>12, <1>13, <1>14, <1>17 DEF CgiPart
<1>16. ASSUME NEW v \in Workers, v # w PROVE CgiPart(v)'
  <2>1. (timer.worker = v)' <=> timer.worker = v
    BY <1>0, <1>7, <1>8, <1>16
  <2> QED BY <1>1, <1>9, <1>16, <2>1, RestStays DEF CgiInv, G!Listed
<1> QED BY <1>1, <1>11, <1>15, <1>16 DEF CgiInv, TimersFit

\* The timer thread, and the stop of the server.
LEMMA FireKeeps ==
    ASSUME G!CgiAssumption, CgiInv, G!Fire
    PROVE  CgiInv'
<1>1. timers \in Seq(Workers) /\ timers # << >> /\ timer.worker = G!None /\ G!None \notin Workers /\ ~halt
  BY DEF G!Fire, CgiInv, CgiTypes, G!CgiAssumption
<1>0. PICK w \in Workers : w = Head(timers)
  BY <1>1, HeadTailProperties
<1>2. /\ UNCHANGED <<cgi, child, pipe, proc, halt>> /\ timers' = Tail(timers)
      /\ timer' = [worker |-> w, pc |-> "look"]
  BY <1>0 DEF G!Fire
<1>3. /\ w \in Workers /\ w = timers[1] /\ Tail(timers) \in Seq(Workers) /\ Len(Tail(timers)) = Len(timers) - 1
      /\ Len(timers) \in Nat /\ Len(timers) >= 1
      /\ \A i \in 1 .. Len(Tail(timers)) : Tail(timers)[i] = timers[i + 1]
  BY <1>0, <1>1, HeadTailProperties, EmptySeq, LenProperties
<1>4. DOMAIN timers = 1 .. Len(timers) /\ DOMAIN Tail(timers) = 1 .. Len(timers) - 1
  BY <1>1, <1>3, LenProperties
<1>5. \A i \in DOMAIN Tail(timers) : Tail(timers)[i] = timers[i + 1] /\ i + 1 \in DOMAIN timers
  BY <1>3, <1>4
<1>6. \A i, j \in DOMAIN timers : timers[i] = timers[j] => i = j
  BY DEF CgiInv, TimersFit
<1>7. TimersFit'
  <2>1. Len(Tail(timers)) <= MaxTimers
    BY <1>3 DEF CgiInv, TimersFit, G!CgiAssumption
  <2>2. ASSUME NEW i \in DOMAIN Tail(timers), NEW j \in DOMAIN Tail(timers), Tail(timers)[i] = Tail(timers)[j]
        PROVE  i = j
    <3>1. i + 1 = j + 1
      BY <1>5, <1>6, <2>2
    <3> QED BY <1>3, <1>4, <3>1
  <2> QED BY <1>2, <2>1, <2>2 DEF TimersFit
<1>8. ~G!Listed(w)'
  <2> SUFFICES ASSUME NEW i \in DOMAIN Tail(timers), Tail(timers)[i] = w PROVE FALSE
    BY <1>2 DEF G!Listed
  <2>1. 1 \in DOMAIN timers /\ i + 1 \in DOMAIN timers /\ timers[i + 1] = timers[1]
    BY <1>3, <1>4, <1>5
  <2>2. i + 1 = 1
    BY <1>6, <2>1
  <2> QED BY <1>3, <1>4, <2>2
<1>9. ASSUME NEW v \in Workers, v # w PROVE G!Listed(v)' <=> G!Listed(v)
  <2>1. ASSUME NEW i \in DOMAIN timers, timers[i] = v
        PROVE  \E j \in DOMAIN Tail(timers) : Tail(timers)[j] = v
    <3>1. i # 1 /\ i \in 1 .. Len(timers)
      BY <1>3, <1>4, <1>9, <2>1
    <3>2. i - 1 \in DOMAIN Tail(timers) /\ (i - 1) + 1 = i
      BY <1>3, <1>4, <3>1
    <3> QED BY <1>5, <2>1, <3>2
  <2>2. (\E j \in DOMAIN Tail(timers) : Tail(timers)[j] = v) => \E i \in DOMAIN timers : timers[i] = v
    BY <1>5
  <2> QED BY <1>2, <2>1, <2>2 DEF G!Listed
<1>10. CgiTypes'
  <2>1. "look" \in G!Abort
    BY DEF G!Abort
  <2> QED BY <1>2, <1>3, <2>1 DEF CgiInv, CgiTypes
<1>11. CgiPart(w)'
  <2>1. G!Listed(w)
    BY <1>3, <1>4 DEF G!Listed
  <2>2. timer'.worker = w
    BY <1>2
  <2>3. CgiPart(w)
    BY <1>3 DEF CgiInv
  <2>4. RefsAre(w)'
    BY <1>2, <1>8, <2>1, <2>2, <2>3 DEF CgiPart, RefsAre, Timing
  <2> QED BY <1>2, <2>3, <2>4 DEF CgiPart
<1>12. ASSUME NEW v \in Workers, v # w PROVE CgiPart(v)'
  <2>1. timer'.worker # v /\ timer.worker # v
    BY <1>1, <1>2, <1>12
  <2> QED BY <1>2, <1>9, <1>12, <2>1, RestStays DEF CgiInv
<1> QED BY <1>7, <1>10, <1>11, <1>12 DEF CgiInv

\* The timer thread ends, and the timers are dropped.
LEMMA TimersExitKeeps ==
    ASSUME G!CgiAssumption, CgiInv, G!TimersExit
    PROVE  CgiInv'
<1>1. timers' = << >> /\ halt /\ UNCHANGED <<cgi, child, pipe, proc, timer, halt>>
  BY DEF G!TimersExit
<1>2. \A w \in Workers : ~G!Listed(w)' /\ timer'.worker # w
  BY <1>1 DEF G!TimersExit, G!Listed, G!CgiAssumption
<1>3. CgiTypes' /\ TimersFit'
  BY <1>1 DEF CgiInv, CgiTypes, TimersFit, G!CgiAssumption
<1>4. ASSUME NEW w \in Workers PROVE CgiPart(w)'
  <2>1. CgiPart(w)
    BY DEF CgiInv
  <2>2. RefsAre(w)'
    BY <1>1, <1>2, <2>1 DEF CgiPart, RefsAre, Timing
  <2> QED BY <1>1, <2>1, <2>2 DEF CgiPart
<1> QED BY <1>3, <1>4 DEF CgiInv

\* The server is told to stop.
LEMMA MgStopKeeps ==
    ASSUME CgiInv, G!MgStop
    PROVE  CgiInv'
<1>1. halt' = TRUE /\ UNCHANGED <<cgi, child, pipe, proc, timers, timer>>
  BY DEF G!MgStop
<1>2. CgiTypes' /\ TimersFit'
  BY <1>1 DEF CgiInv, CgiTypes, TimersFit
<1> QED BY <1>1, <1>2, RestStays DEF CgiInv, G!Listed

\* The environment of the program is made or not,
LEMMA PrepareStep ==
    ASSUME CgiInv, NEW w \in Workers, cgi[w].pc = "prepare", NEW r \in Recs, cgi' = [cgi EXCEPT ![w] = r],
           r.pc \in {"spawn", "done"}, r.pc = "spawn" => r.blk, r.pc = "done" => ~r.blk,
           r.reply = << >>, r.buf = cgi[w].buf, UNCHANGED <<child, pipe, proc, timers, timer, halt>>
    PROVE  CgiInv'
<1>1. /\ cgi[w] \in Recs /\ CgiPart(w) /\ cgi[w].pc = "prepare"
      /\ UNCHANGED <<child, pipe, proc, timers, timer, halt>>
  BY DEF CgiInv, CgiTypes
<1>3. child[w].state = "none" /\ child[w].wrote = 0 /\ ~Timing(w) /\ cgi[w].reply = << >>
  BY <1>1 DEF CgiPart, ProcessIs, RefsAre, ReplyIs
<1>a. cgi' = [cgi EXCEPT ![w] = r] /\ cgi \in [Workers -> Recs]
  BY DEF CgiInv, CgiTypes
<1>d. G!Count(cgi[w].buf) + G!Count(pipe[w].out) = child[w].wrote
  <2>1. BodyIs(cgi[w], pipe[w].out, child[w]) /\ cgi[w].pc = "prepare"
    BY <1>1 DEF CgiPart
  <2> QED BY <2>1, Zenon DEF BodyIs
<1>6. cgi' \in [Workers -> Recs] /\ cgi'[w] = r /\ \A v \in Workers : v # w => UNCHANGED cgi[v]
  BY <1>a
<1>7. CgiTypes' /\ TimersFit'
  BY <1>1, <1>6 DEF CgiInv, CgiTypes, TimersFit
<1>e. ProcessIs(r.pc, child[w]) /\ BlockIs(r, child[w])
  BY <1>3 DEF ProcessIs, BlockIs
<1>f. ReplyIs(r.pc, r.reply, r.blk)
  BY DEF ReplyIs, G!Abort
<1>8. BodyIs(r, pipe[w].out, child[w])
  BY <1>d DEF BodyIs, G!Abort
<1>9. RefsAre(w)'
  BY <1>1, <1>3 DEF RefsAre, Timing, G!Listed
<1>10. CgiPart(w)'
  BY <1>1, <1>6, <1>8, <1>9, <1>e, <1>f DEF CgiPart
<1>11. ASSUME NEW v \in Workers, v # w PROVE CgiPart(v)'
  BY <1>1, <1>6, <1>11, RestStays DEF CgiInv, G!Listed
<1> QED BY <1>7, <1>10, <1>11 DEF CgiInv

\* and without it the request ends.
LEMMA PrepareKeeps ==
    ASSUME CgiInv, NEW w \in Workers, G!PrepareEnvironment(w)
    PROVE  CgiInv'
<1>1. /\ cgi[w] \in Recs /\ CgiPart(w) /\ cgi[w].pc = "prepare"
      /\ UNCHANGED <<child, pipe, proc, timers, timer, halt>>
  BY DEF CgiInv, CgiTypes, G!PrepareEnvironment
<1>4. cgi[w].blk = FALSE /\ cgi[w].reply = << >>
  BY <1>1 DEF Recs, CgiPart, ReplyIs
<1>2. CASE G!Goto(w, "done")
  <2> DEFINE r == [cgi[w] EXCEPT !.pc = "done"]
  <2>1. /\ r \in Recs /\ r.pc = "done" /\ ~r.blk /\ r.reply = << >> /\ r.buf = cgi[w].buf
    BY <1>1, <1>4 DEF Recs, Pcs
  <2>2. cgi' = [cgi EXCEPT ![w] = r]
    BY <1>2 DEF G!Goto, G!Set
  <2> HIDE DEF r
  <2> QED BY <1>1, <2>1, <2>2, PrepareStep
<1>3. CASE G!Set(w, [cgi[w] EXCEPT !.pc = "spawn", !.blk = TRUE])
  <2> DEFINE r == [cgi[w] EXCEPT !.pc = "spawn", !.blk = TRUE]
  <2>1. /\ r \in Recs /\ r.pc = "spawn" /\ r.blk /\ r.reply = << >> /\ r.buf = cgi[w].buf
    BY <1>1, <1>4 DEF Recs, Pcs
  <2>2. cgi' = [cgi EXCEPT ![w] = r]
    BY <1>3 DEF G!Set
  <2> HIDE DEF r
  <2> QED BY <1>1, <2>1, <2>2, PrepareStep
<1> QED BY <1>2, <1>3 DEF G!PrepareEnvironment

\* The worker starts a process, and its timer.
LEMMA SpawnKeeps ==
    ASSUME G!CgiAssumption, CgiInv, NEW w \in Workers, G!Spawn(w)
    PROVE  CgiInv'
<1>1. cgi[w] \in Recs /\ CgiPart(w) /\ cgi[w].pc = "spawn" /\ UNCHANGED <<pipe, timer, halt>>
  BY DEF CgiInv, CgiTypes, G!Spawn
<1>2. child[w].state = "none" /\ child[w].wrote = 0 /\ ~Timing(w) /\ cgi[w].reply = << >> /\ cgi[w].blk
  BY <1>1 DEF CgiPart, ProcessIs, RefsAre, ReplyIs
<1>3. CASE G!Fail(w, "done") /\ UNCHANGED <<child, proc, timers>>
  <2>1. cgi[w].pc \in {"spawn", "open", "body", "push", "headers", "stderr"} /\ "done" \in Pcs
    BY <1>1 DEF Pcs
  <2>2. PICK r \in Recs : /\ cgi' = [cgi EXCEPT ![w] = r] /\ r.pc = "done" /\ r.timed = cgi[w].timed /\ r.blk = cgi[w].blk
                          /\ Starts(r.reply, "500") /\ r.reply[1] # "200"
    BY <1>3, <2>1, FailIs
  <2>3. cgi' \in [Workers -> Recs] /\ cgi'[w] = r /\ \A v \in Workers : v # w => UNCHANGED cgi[v]
    BY <2>2 DEF CgiInv, CgiTypes
  <2>4. CgiTypes' /\ TimersFit'
    BY <1>1, <1>3, <2>3 DEF CgiInv, CgiTypes, TimersFit
  <2>5. /\ ProcessIs(r.pc, child[w]) /\ ReplyIs(r.pc, r.reply, r.blk) /\ BlockIs(r, child[w])
        /\ BodyIs(r, pipe[w].out, child[w])
    BY <1>2, <2>2 DEF ProcessIs, ReplyIs, BlockIs, BodyIs, G!Abort
  <2>6. RefsAre(w)'
    BY <1>1, <1>2, <1>3 DEF RefsAre, Timing, G!Listed
  <2>7. CgiPart(w)'
    BY <1>1, <1>3, <2>3, <2>5, <2>6 DEF CgiPart
  <2>8. ASSUME NEW v \in Workers, v # w PROVE CgiPart(v)'
    BY <1>1, <1>3, <2>3, <2>8, RestStays DEF CgiInv, G!Listed
  <2> QED BY <2>4, <2>7, <2>8 DEF CgiInv
<1>4. CASE /\ \E p \in Programs[w] : child' = [child EXCEPT ![w] = [state |-> "running", todo |-> p, status |-> 0, wrote |-> 0]]
           /\ proc' = [proc EXCEPT ![w] = 2]
           /\ G!TimerAdd(w)
           /\ G!Set(w, [cgi[w] EXCEPT !.pc = "open", !.timed = Len(timers) < MaxTimers])
  <2>1. PICK p \in Programs[w] : child' = [child EXCEPT ![w] = [state |-> "running", todo |-> p, status |-> 0, wrote |-> 0]]
    BY <1>4
  <2>0. PICK fits \in BOOLEAN : fits <=> Len(timers) < MaxTimers
    OBVIOUS
  <2> DEFINE c == [state |-> "running", todo |-> p, status |-> 0, wrote |-> 0]
             r == [cgi[w] EXCEPT !.pc = "open", !.timed = fits]
  <2>2. c \in Children /\ c.state = "running" /\ c.wrote = 0
    BY DEF G!CgiAssumption, Children, States
  <2>3. /\ r \in Recs /\ r.pc = "open" /\ r.timed = fits /\ r.blk /\ r.reply = << >> /\ r.buf = cgi[w].buf
    BY <1>1, <1>2 DEF Recs, Pcs
  <2>4. cgi' = [cgi EXCEPT ![w] = r] /\ child' = [child EXCEPT ![w] = c]
    <3>1. fits = (Len(timers) < MaxTimers)
      BY <2>0
    <3> QED BY <1>4, <2>1, <3>1 DEF G!Set
  <2> HIDE DEF r, c
  <2>5. /\ cgi'[w] = r /\ child'[w] = c /\ proc'[w] = 2
        /\ \A v \in Workers : v # w => UNCHANGED <<cgi[v], child[v], proc[v]>>
    BY <1>4, <2>4 DEF CgiInv, CgiTypes
  <2>6. /\ cgi' \in [Workers -> Recs] /\ child' \in [Workers -> Children]
        /\ proc' \in [Workers -> G!Freed .. 2]
    BY <1>4, <2>2, <2>3, <2>4 DEF CgiInv, CgiTypes, G!Freed
  <2>7. timers \in Seq(Workers) /\ Len(timers) \in Nat /\ DOMAIN timers = 1 .. Len(timers) /\ ~G!Listed(w)
    BY <1>2, LenProperties DEF CgiInv, CgiTypes, Timing
  <2>8. /\ timers' \in Seq(Workers) /\ TimersFit' /\ (G!Listed(w)' <=> fits)
        /\ \A v \in Workers : v # w => (G!Listed(v)' <=> G!Listed(v))
    <3>1. CASE fits
      <4>1. timers' = Append(timers, w)
        BY <1>4, <2>0, <3>1 DEF G!TimerAdd
      <4>2. /\ timers' \in Seq(Workers) /\ Len(timers') = Len(timers) + 1 /\ timers'[Len(timers) + 1] = w
            /\ \A i \in 1 .. Len(timers) : timers'[i] = timers[i]
        BY <2>7, <4>1, AppendProperties
      <4>3. DOMAIN timers' = 1 .. Len(timers) + 1
        BY <4>2, LenProperties
      <4>4. \A i \in DOMAIN timers' : \/ i \in DOMAIN timers /\ timers'[i] = timers[i]
                                      \/ i = Len(timers) + 1 /\ timers'[i] = w
        BY <2>7, <4>2, <4>3
      <4>5. \A i \in DOMAIN timers : i \in DOMAIN timers' /\ timers'[i] = timers[i] /\ timers[i] # w
        BY <2>7, <4>2, <4>3 DEF G!Listed
      <4>6. Len(timers) + 1 \in DOMAIN timers'
        BY <2>7, <4>3
      <4>7. \A i, j \in DOMAIN timers' : timers'[i] = timers'[j] => i = j
        BY <4>4, <4>5 DEF CgiInv, TimersFit
      <4>8. Len(timers') <= MaxTimers
        BY <2>0, <2>7, <3>1, <4>2 DEF G!CgiAssumption
      <4>9. G!Listed(w)'
        BY <4>2, <4>6 DEF G!Listed
      <4>10. \A v \in Workers : v # w => (G!Listed(v)' <=> G!Listed(v))
        BY <4>4, <4>5 DEF G!Listed
      <4> QED BY <3>1, <4>2, <4>7, <4>8, <4>9, <4>10 DEF TimersFit
    <3>2. CASE ~fits
      <4>1. timers' = timers
        BY <1>4, <2>0, <3>2 DEF G!TimerAdd
      <4> QED BY <2>7, <3>2, <4>1 DEF CgiInv, TimersFit, G!Listed
    <3> QED BY <3>1, <3>2
  <2>9. CgiTypes'
    BY <1>1, <2>6, <2>8 DEF CgiInv, CgiTypes
  <2>10. RefsAre(w)'
    <3>1. timer'.worker # w /\ ~(r.pc \in {"prepare", "spawn", "done"})
      BY <1>1, <1>2, <2>3 DEF Timing
    <3> QED BY <2>2, <2>3, <2>5, <2>8, <3>1 DEF RefsAre, Timing, Uses
  <2>11. ProcessIs(r.pc, c) /\ ReplyIs(r.pc, r.reply, r.blk) /\ BlockIs(r, c)
    BY <2>2, <2>3 DEF ProcessIs, ReplyIs, BlockIs, G!Abort
  <2>12. BodyIs(r, pipe[w].out, c)
    <3>1. G!Count(cgi[w].buf) + G!Count(pipe[w].out) = 0
      BY <1>1, <1>2 DEF CgiPart, BodyIs
    <3> QED BY <2>2, <2>3, <3>1 DEF BodyIs, G!Abort
  <2>13. CgiPart(w)'
    BY <1>1, <2>5, <2>10, <2>11, <2>12 DEF CgiPart
  <2>14. ASSUME NEW v \in Workers, v # w PROVE CgiPart(v)'
    BY <1>1, <2>5, <2>8, <2>14, RestStays DEF CgiInv
  <2> QED BY <2>8, <2>9, <2>13, <2>14 DEF CgiInv
<1> QED BY <1>1, <1>3, <1>4 DEF G!Spawn

\* A step of the process.
LEMMA RunStep ==
    ASSUME CgiInv, NEW w \in Workers, NEW c \in Children, NEW p \in Pipes,
           child' = [child EXCEPT ![w] = c], pipe' = [pipe EXCEPT ![w] = p],
           UNCHANGED <<cgi, proc, timers, timer, halt>>,
           child[w].state = "running", c.state \in {"running", "zombie"}, PipesFit(p),
           G!Count(p.out) + child[w].wrote = G!Count(pipe[w].out) + c.wrote
    PROVE  CgiInv'
<1>1. child'[w] = c /\ pipe'[w] = p /\ \A v \in Workers : v # w => UNCHANGED <<child[v], pipe[v]>>
  BY DEF CgiInv, CgiTypes
<1>2. CgiTypes' /\ TimersFit'
  BY DEF CgiInv, CgiTypes, TimersFit
<1>3. CgiPart(w) /\ cgi[w] \in Recs /\ child[w] \in Children /\ pipe[w] \in Pipes
  BY DEF CgiInv, CgiTypes
<1>4. /\ G!Count(p.out) \in Nat /\ G!Count(pipe[w].out) \in Nat /\ G!Count(cgi[w].buf) \in Nat
      /\ child[w].wrote \in Nat /\ c.wrote \in Nat /\ Len(cgi[w].reply) \in Nat
  <2>1. /\ p.out \in Seq(G!Units) /\ pipe[w].out \in Seq(G!Units) /\ cgi[w].buf \in Seq(G!Units)
        /\ cgi[w].reply \in Seq(Lines)
    BY <1>3 DEF Recs, Pipes
  <2>2. child[w].wrote \in Nat /\ c.wrote \in Nat
    BY <1>3 DEF Children
  <2>3. Len(cgi[w].reply) \in Nat
    BY <2>1
  <2>4. G!Count(p.out) \in Nat /\ G!Count(pipe[w].out) \in Nat /\ G!Count(cgi[w].buf) \in Nat
    BY <2>1, CountIs
  <2> QED BY <2>2, <2>3, <2>4
<1>5. cgi[w].pc \notin {"prepare", "spawn", "done", "dec"}
  BY <1>3 DEF CgiPart, ProcessIs
<1>6. RefsAre(w)'
  BY <1>1, <1>3 DEF CgiPart, RefsAre, Timing, G!Listed
<1>7. BodyIs(cgi[w], p.out, c)
  <2>1. /\ cgi[w].pc \in {"prepare", "spawn", "open", "body", "push", "headers"} =>
             G!Count(cgi[w].buf) + G!Count(pipe[w].out) = child[w].wrote
        /\ cgi[w].pc = "push" => cgi[w].left > 0
        /\ cgi[w].pc = "forward" => Len(cgi[w].reply) + G!Count(pipe[w].out) = child[w].wrote + 1
        /\ ~(cgi[w].pc \in G!Abort \cup {"done"} /\ cgi[w].blk /\ cgi[w].reply[1] = "200" /\ ~cgi[w].cut)
    BY <1>3 DEF CgiPart, BodyIs
  <2>2. ASSUME NEW n \in Nat
        PROVE  /\ n + G!Count(pipe[w].out) = child[w].wrote => n + G!Count(p.out) = c.wrote
               /\ n + G!Count(pipe[w].out) = child[w].wrote + 1 => n + G!Count(p.out) = c.wrote + 1
    <3>1. \A a, b, x, y \in Nat : a + x = b + y =>
            (n + b = x => n + a = y) /\ (n + b = x + 1 => n + a = y + 1)
      OBVIOUS
    <3> DEFINE a == G!Count(p.out)
               b == G!Count(pipe[w].out)
               x == child[w].wrote
               y == c.wrote
    <3>2. a \in Nat /\ b \in Nat /\ x \in Nat /\ y \in Nat /\ a + x = b + y
      BY <1>4
    <3> HIDE DEF a, b, x, y
    <3>3. (n + b = x => n + a = y) /\ (n + b = x + 1 => n + a = y + 1)
      BY <3>1, <3>2
    <3> QED BY <3>3 DEF a, b, x, y
  <2> QED BY <1>4, <2>1, <2>2 DEF BodyIs
<1>8. ProcessIs(cgi[w].pc, c) /\ BlockIs(cgi[w], c)
  BY <1>3, <1>5 DEF CgiPart, ProcessIs, BlockIs
<1>9. CgiPart(w)'
  BY <1>1, <1>3, <1>6, <1>7, <1>8 DEF CgiPart
<1>10. ASSUME NEW v \in Workers, v # w PROVE CgiPart(v)'
  BY <1>1, <1>10, RestStays DEF CgiInv, G!Listed
<1> QED BY <1>2, <1>9, <1>10 DEF CgiInv

\* The program reads, writes, or ends.
LEMMA RunKeeps ==
    ASSUME G!CgiAssumption, CgiInv, NEW w \in Workers, G!Run(w)
    PROVE  CgiInv'
<1> DEFINE now == child[w]
           step == Head(now.todo)
<1>1. /\ child[w] \in Children /\ pipe[w] \in Pipes /\ PipesFit(pipe[w]) /\ child[w].state = "running"
      /\ UNCHANGED <<cgi, proc, timers, timer, halt>>
  BY DEF CgiInv, CgiTypes, CgiPart, G!Run
<1>2. /\ pipe[w].out \in Seq(G!Units) /\ pipe[w].in \in Nat /\ pipe[w].err \in Nat /\ PipeSize \in Nat
      /\ G!Count(pipe[w].out) \in Nat /\ child[w].wrote \in Nat /\ child[w].todo \in Seq(G!Units)
  <2>1. /\ pipe[w].out \in Seq(G!Units) /\ pipe[w].in \in Nat /\ pipe[w].err \in Nat
        /\ child[w].wrote \in Nat /\ child[w].todo \in Seq(G!Units)
    BY <1>1 DEF Pipes, Children
  <2> QED BY <2>1, CountIs DEF G!CgiAssumption
<1>3. CASE \E status \in {0, 1, G!Aborted} :
             child' = [child EXCEPT ![w].state = "zombie", ![w].status = status] /\ UNCHANGED pipe
  <2>1. PICK status \in {0, 1, G!Aborted} :
          child' = [child EXCEPT ![w].state = "zombie", ![w].status = status] /\ UNCHANGED pipe
    BY <1>3
  <2> DEFINE c == [child[w] EXCEPT !.state = "zombie", !.status = status]
  <2>2. c \in Children /\ c.state = "zombie" /\ c.wrote = child[w].wrote
    BY <1>1 DEF Children, States
  <2>3. child' = [child EXCEPT ![w] = c]
    BY <2>1 DEF CgiInv, CgiTypes
  <2>4. pipe' = [pipe EXCEPT ![w] = pipe[w]]
    BY <2>1 DEF CgiInv, CgiTypes
  <2> HIDE DEF c
  <2> QED BY <1>1, <1>2, <2>2, <2>3, <2>4, RunStep
<1>4. CASE /\ child[w].todo # << >>
           /\ child' = [child EXCEPT ![w].todo = Tail(now.todo),
                                     ![w].wrote = IF step = "b" THEN @ + 1 ELSE @]
           /\ \E p \in Pipes :
                /\ pipe' = [pipe EXCEPT ![w] = p] /\ PipesFit(p)
                /\ G!Count(p.out) = G!Count(pipe[w].out) + (IF step = "b" THEN 1 ELSE 0)
  <2>1. PICK p \in Pipes :
          /\ pipe' = [pipe EXCEPT ![w] = p] /\ PipesFit(p)
          /\ G!Count(p.out) = G!Count(pipe[w].out) + (IF step = "b" THEN 1 ELSE 0)
    BY <1>4
  <2> DEFINE wrote == IF step = "b" THEN child[w].wrote + 1 ELSE child[w].wrote
             c == [child[w] EXCEPT !.todo = Tail(now.todo), !.wrote = wrote]
  <2>2. Tail(now.todo) \in Seq(G!Units) /\ wrote \in Nat
    BY <1>2, <1>4, HeadTailProperties
  <2>3. child' = [child EXCEPT ![w] = c]
    BY <1>4 DEF CgiInv, CgiTypes
  <2>4. wrote = child[w].wrote + (IF step = "b" THEN 1 ELSE 0)
    BY <1>2
  <2> HIDE DEF wrote, step
  <2>5. c \in Children /\ c.state = "running" /\ c.wrote = wrote
    BY <1>1, <2>2 DEF Children
  <2> HIDE DEF c
  <2>6. G!Count(p.out) + child[w].wrote = G!Count(pipe[w].out) + c.wrote
    <3>1. /\ G!Count(pipe[w].out) \in Nat /\ child[w].wrote \in Nat
          /\ G!Count(p.out) = G!Count(pipe[w].out) + (IF step = "b" THEN 1 ELSE 0)
          /\ c.wrote = child[w].wrote + (IF step = "b" THEN 1 ELSE 0)
      BY <1>2, <2>1, <2>4, <2>5
    <3>2. CASE step = "b"
      BY <3>1, <3>2
    <3>3. CASE step # "b"
      BY <3>1, <3>3
    <3> QED BY <3>2, <3>3
  <2> QED BY <1>1, <2>1, <2>3, <2>5, <2>6, RunStep
<1>5. ASSUME child[w].todo # << >>, step \notin {"fail", "die"}, step # "hang",
             CASE step = "read" -> IF pipe[w].in > 0 THEN pipe' = [pipe EXCEPT ![w].in = @ - 1]
                                   ELSE G!InputEnds(w) /\ UNCHANGED pipe
               [] step = "err" -> /\ pipe[w].err < PipeSize
                                  /\ pipe' = [pipe EXCEPT ![w].err = @ + 1]
               [] OTHER -> /\ Len(pipe[w].out) < PipeSize
                           /\ pipe' = [pipe EXCEPT ![w].out = Append(@, step)]
      PROVE  \E p \in Pipes :
               /\ pipe' = [pipe EXCEPT ![w] = p] /\ PipesFit(p)
               /\ G!Count(p.out) = G!Count(pipe[w].out) + (IF step = "b" THEN 1 ELSE 0)
  <2>1. step \in G!Units
    BY <1>2, <1>5, HeadTailProperties
  <2> HIDE DEF step
  <2>2. CASE step = "read" /\ pipe[w].in > 0
    <3> DEFINE p == [pipe[w] EXCEPT !.in = @ - 1]
    <3>1. p \in Pipes /\ p.in = pipe[w].in - 1 /\ p.out = pipe[w].out /\ p.err = pipe[w].err
      BY <1>1, <1>2, <2>2 DEF Pipes
    <3>2. pipe' = [pipe EXCEPT ![w] = p]
      BY <1>5, <2>2
    <3> HIDE DEF p
    <3>3. PipesFit(p)
      BY <1>1, <1>2, <3>1 DEF PipesFit
    <3>4. G!Count(p.out) = G!Count(pipe[w].out) + 0
      BY <1>2, <3>1
    <3> QED BY <2>2, <3>1, <3>2, <3>3, <3>4
  <2>3. CASE step = "read" /\ ~(pipe[w].in > 0)
    <3>1. pipe' = [pipe EXCEPT ![w] = pipe[w]]
      BY <1>5, <2>3 DEF CgiInv, CgiTypes
    <3>2. G!Count(pipe[w].out) = G!Count(pipe[w].out) + (IF step = "b" THEN 1 ELSE 0)
      BY <1>2, <2>3
    <3> QED BY <1>1, <3>1, <3>2
  <2>4. CASE step = "err"
    <3> DEFINE p == [pipe[w] EXCEPT !.err = @ + 1]
    <3>1. p \in Pipes /\ p.in = pipe[w].in /\ p.out = pipe[w].out /\ p.err = pipe[w].err + 1
      BY <1>1, <1>2, <2>4 DEF Pipes
    <3>2. pipe' = [pipe EXCEPT ![w] = p] /\ pipe[w].err < PipeSize
      BY <1>5, <2>4
    <3> HIDE DEF p
    <3>3. PipesFit(p)
      BY <1>1, <1>2, <3>1, <3>2 DEF PipesFit
    <3>4. G!Count(p.out) = G!Count(pipe[w].out) + 0
      BY <1>2, <3>1
    <3> QED BY <2>4, <3>1, <3>2, <3>3, <3>4
  <2>5. CASE step \notin {"read", "err"}
    <3> DEFINE written == Append(pipe[w].out, step)
               p == [pipe[w] EXCEPT !.out = written]
    <3>1. /\ written \in Seq(G!Units) /\ Len(written) = Len(pipe[w].out) + 1
          /\ G!Count(written) = G!Count(pipe[w].out) + (IF step = "b" THEN 1 ELSE 0)
      BY <1>2, <2>1, CountAppend
    <3>2. pipe' = [pipe EXCEPT ![w] = p] /\ Len(pipe[w].out) < PipeSize
      BY <1>5, <2>5
    <3> HIDE DEF written
    <3>3. p \in Pipes /\ p.in = pipe[w].in /\ p.out = written /\ p.err = pipe[w].err
      BY <1>1, <3>1 DEF Pipes
    <3> HIDE DEF p
    <3>4. PipesFit(p)
      <4>1. Len(pipe[w].out) \in Nat
        BY <1>2
      <4> QED BY <1>1, <1>2, <3>1, <3>2, <3>3, <4>1 DEF PipesFit
    <3> QED BY <3>1, <3>2, <3>3, <3>4
  <2> QED BY <2>2, <2>3, <2>4, <2>5
<1>6. CASE child[w].todo = << >> \/ step \in {"fail", "die"}
  <2> DEFINE status == IF child[w].todo = << >> THEN 0 ELSE IF step = "die" THEN G!Aborted ELSE 1
  <2>1. status \in {0, 1, G!Aborted}
    OBVIOUS
  <2>2. child' = [child EXCEPT ![w].state = "zombie", ![w].status = status] /\ UNCHANGED pipe
    BY <1>6 DEF G!Run
  <2> QED BY <1>3, <2>1, <2>2
<1>7. CASE ~(child[w].todo = << >> \/ step \in {"fail", "die"})
  <2>1. /\ step # "hang"
        /\ child' = [child EXCEPT ![w].todo = Tail(now.todo),
                                  ![w].wrote = IF step = "b" THEN @ + 1 ELSE @]
    BY <1>7 DEF G!Run
  <2>2. (CASE step = "read" -> IF pipe[w].in > 0 THEN pipe' = [pipe EXCEPT ![w].in = @ - 1]
                               ELSE G!InputEnds(w) /\ UNCHANGED pipe
           [] step = "err" -> /\ pipe[w].err < PipeSize
                              /\ pipe' = [pipe EXCEPT ![w].err = @ + 1]
           [] OTHER -> /\ Len(pipe[w].out) < PipeSize
                       /\ pipe' = [pipe EXCEPT ![w].out = Append(@, step)])
    BY <1>7 DEF G!Run
  <2> QED BY <1>4, <1>5, <1>7, <2>1, <2>2
<1> QED BY <1>6, <1>7

\* No process has been started yet.
LEMMA CgiBegins ==
    ASSUME G!CgiAssumption, G!Init
    PROVE  CgiInv
<1>1. PICK lengths \in [Workers -> UNION {Bodies[w] : w \in Workers}] :
        /\ \A w \in Workers : lengths[w] \in Bodies[w]
        /\ cgi = [w \in Workers |-> [pc |-> "prepare", blk |-> FALSE, left |-> lengths[w], buf |-> << >>,
                                     errors |-> 0, reply |-> << >>, cut |-> FALSE, timed |-> FALSE]]
  BY DEF G!Init
<1>2. /\ child = [w \in Workers |-> [state |-> "none", todo |-> << >>, status |-> 0, wrote |-> 0]]
      /\ pipe = [w \in Workers |-> [in |-> 0, out |-> << >>, err |-> 0]]
      /\ proc = [w \in Workers |-> 0] /\ timers = << >> /\ timer = [worker |-> G!None, pc |-> "end"]
      /\ halt = FALSE
  BY DEF G!Init
<1>3. << >> \in Seq(G!Units) /\ << >> \in Seq(Lines) /\ << >> \in Seq(Workers) /\ Len(<< >>) = 0
  BY EmptySeq
<1>4. G!Count(<< >>) = 0
  BY <1>3, CountEmpty
<1>5. /\ \A w \in Workers : lengths[w] \in Nat
      /\ PipeSize \in Nat /\ MaxTimers \in Nat /\ G!None \notin Workers
  BY <1>1 DEF G!CgiAssumption
<1>6. cgi \in [Workers -> Recs]
  BY <1>1, <1>3, <1>5 DEF Recs, Pcs
<1>7. child \in [Workers -> Children] /\ pipe \in [Workers -> Pipes]
  BY <1>2, <1>3 DEF Children, Pipes, States
<1>8. CgiTypes /\ TimersFit
  <2>1. 0 \in G!Freed .. 2
    BY DEF G!Freed
  <2>2. proc \in [Workers -> G!Freed .. 2]
    BY <1>2, <2>1
  <2>3. timer.worker = G!None /\ DOMAIN timer = {"worker", "pc"} /\ halt \in BOOLEAN
    BY <1>2
  <2>4. CgiTypes
    BY <1>2, <1>3, <1>6, <1>7, <2>2, <2>3 DEF CgiTypes
  <2>5. Len(timers) <= MaxTimers /\ DOMAIN timers = {}
    BY <1>2, <1>3, <1>5
  <2> QED BY <2>4, <2>5 DEF TimersFit
<1>9. ASSUME NEW w \in Workers PROVE CgiPart(w)
  <2>1. /\ cgi[w].pc = "prepare" /\ cgi[w].blk = FALSE /\ cgi[w].reply = << >> /\ cgi[w].buf = << >>
        /\ child[w].state = "none" /\ child[w].wrote = 0
        /\ pipe[w].in = 0 /\ pipe[w].out = << >> /\ pipe[w].err = 0
    BY <1>1, <1>2
  <2>2. ~Timing(w) /\ ~G!Listed(w)
    BY <1>2, <1>5 DEF Timing, G!Listed
  <2> QED BY <1>3, <1>4, <1>5, <2>1, <2>2
          DEF CgiPart, PipesFit, ProcessIs, ReplyIs, BlockIs, BodyIs, RefsAre, G!Abort
<1> QED BY <1>8, <1>9 DEF CgiInv

\* The invariant says what is to be shown of the processes.
LEMMA CgiInvIs ==
    ASSUME G!CgiAssumption, CgiInv
    PROVE  G!TypeOK /\ G!GivenBack
<1>1. ASSUME NEW w \in Workers
      PROVE  /\ cgi[w] \in Recs /\ child[w] \in Children /\ pipe[w] \in Pipes /\ proc[w] \in G!Freed .. 2
             /\ CgiPart(w)
  BY DEF CgiInv, CgiTypes
<1>2. G!TypeOK
  <2>1. ASSUME NEW w \in Workers
        PROVE  cgi[w].pc \in Pcs /\ child[w].state \in States /\ PipesFit(pipe[w]) /\ proc[w] \in G!Freed .. 2
    BY <1>1 DEF Recs, Children, CgiPart
  <2> QED BY <2>1 DEF G!TypeOK, CgiInv, TimersFit, Pcs, States, PipesFit
<1>3. ASSUME NEW w \in Workers
      PROVE  /\ cgi[w].pc = "done" => child[w].state \in {"none", "reaped"}
             /\ G!UsedBy(w) > 0 => proc[w] >= G!UsedBy(w)
             /\ cgi[w].pc = "done" /\ child[w].state # "none" /\ cgi[w].timed /\ ~halt /\ G!UsedBy(w) = 0
                  => proc[w] = G!Freed
  <2>1. ProcessIs(cgi[w].pc, child[w]) /\ RefsAre(w)
    BY <1>1 DEF CgiPart
  <2>2. cgi[w].pc \in G!Abort => child[w].state # "none" /\ Uses(cgi[w].pc)
    BY <2>1 DEF ProcessIs, Uses, G!Abort
  <2>3. G!UsedBy(w) = (IF cgi[w].pc \in G!Abort THEN 1 ELSE 0) + (IF Timing(w) THEN 1 ELSE 0)
    BY <2>1 DEF G!UsedBy, RefsAre, Timing
  <2>4. Timing(w) => proc[w] = (IF Uses(cgi[w].pc) THEN 2 ELSE 1)
    BY <2>1 DEF RefsAre
  <2>5. ~Timing(w) /\ cgi[w].pc \in G!Abort => proc[w] \in {1, 2}
    BY <2>1, <2>2 DEF RefsAre
  <2>6. G!UsedBy(w) > 0 => proc[w] >= G!UsedBy(w)
    BY <2>2, <2>3, <2>4, <2>5
  <2>7. cgi[w].pc = "done" /\ child[w].state # "none" /\ cgi[w].timed /\ ~halt /\ G!UsedBy(w) = 0
          => proc[w] = G!Freed
    <3>1. cgi[w].pc = "done" => ~Uses(cgi[w].pc) /\ cgi[w].pc \notin G!Abort
      BY DEF Uses, G!Abort
    <3>2. G!UsedBy(w) = 0 => ~Timing(w)
      BY <2>3
    <3> QED BY <2>1, <3>1, <3>2 DEF RefsAre
  <2> QED BY <2>1, <2>6, <2>7 DEF ProcessIs
<1>5. ASSUME NEW w \in Workers, cgi[w].pc = "done", ~cgi[w].blk
      PROVE  cgi[w].reply = << >> /\ child[w].state = "none"
  BY <1>1, <1>5 DEF CgiPart, ReplyIs, BlockIs
<1>4. ASSUME NEW w \in Workers, cgi[w].pc = "done", cgi[w].blk
      PROVE  /\ 1 \in DOMAIN cgi[w].reply
             /\ \A i \in DOMAIN cgi[w].reply : i = 1 <=> cgi[w].reply[i] \in {"200", "500"}
             /\ cgi[w].reply[1] = "200" /\ ~cgi[w].cut => Len(cgi[w].reply) = 1 + child[w].wrote
  <2>1. Starts(cgi[w].reply, "200") \/ Starts(cgi[w].reply, "500")
    BY <1>1, <1>4 DEF CgiPart, ReplyIs
  <2>2. /\ 1 \in DOMAIN cgi[w].reply
        /\ \A i \in DOMAIN cgi[w].reply : i = 1 <=> cgi[w].reply[i] \in {"200", "500"}
    BY <2>1 DEF Starts
  <2>3. cgi[w].reply[1] = "200" /\ ~cgi[w].cut => Len(cgi[w].reply) = child[w].wrote + 1
    BY <1>1, <1>4 DEF CgiPart, BodyIs
  <2>4. child[w].wrote \in Nat
    BY <1>1 DEF Children
  <2> QED BY <2>2, <2>3, <2>4
<1> QED BY <1>2, <1>3, <1>4, <1>5 DEF G!GivenBack

\* Every step of a worker, a program and the timer thread keeps the invariant.
LEMMA CgiSteps ==
    ASSUME G!CgiAssumption, CgiInv, [G!Next]_(G!vars)
    PROVE  CgiInv'
<1>1. CASE UNCHANGED G!vars
  <2>1. UNCHANGED <<cgi, child, pipe, proc, timers, timer, halt>>
    BY <1>1 DEF G!vars
  <2>2. CgiTypes' /\ TimersFit'
    BY <2>1 DEF CgiInv, CgiTypes, TimersFit
  <2> QED BY <2>1, <2>2, RestStays DEF CgiInv, G!Listed
<1> QED BY <1>1, PrepareKeeps, SpawnKeeps, OpenPipesKeeps, ReadBodyKeeps, PushBodyKeeps, ReadHeadersKeeps, ReadErrorKeeps,
           ForwardKeeps, AbortByWorkerKeeps, RunKeeps, FireKeeps, TimersExitKeeps,
           AbortByTimerKeeps, MgStopKeeps DEF G!Next, G!Worker

\* handle_cgi_request, abort_cgi_process, timer_add: with a timer or without, and whether the
\* timer thread, the worker or the program itself ends the process, a request ends after its
\* process; the data they share are not freed before the last of those that use them; and the
\* client gets one header, and all that the program wrote of its body if it took it, or
\* nothing if the environment of the program could not be prepared.
THEOREM CgiSafe ==
    ASSUME G!CgiAssumption
    PROVE  G!Spec => [](G!TypeOK /\ G!GivenBack)
<1>1. G!Init => CgiInv
  BY CgiBegins
<1>2. CgiInv /\ [G!Next]_(G!vars) => CgiInv'
  BY CgiSteps
<1>3. CgiInv => G!TypeOK /\ G!GivenBack
  BY CgiInvIs
<1> QED BY <1>1, <1>2, <1>3, PTL DEF G!Spec
-----------------------------------------------------------------------------
(* Connection: the place in the stream of the client *)

ConnTypes ==
    /\ out \in Seq(K!Units) /\ sock \in Seq(K!Units) /\ buf \in Seq(K!Units) /\ body \in Seq(K!Units)
    /\ pc \in K!Places /\ back \in {"callback", "discard"} /\ want \in Nat /\ ret \in Int
    /\ isChunked \in 0 .. 4 /\ mustClose \in BOOLEAN
    /\ Len(buf) <= BufSize /\ requestLen \in -2 .. Len(buf)
    /\ contentLen \in Nat \cup {-1} /\ consumed \in Nat /\ handled \in Nat

Within(t, s, p) == \A j \in DOMAIN t : p + j \in DOMAIN s /\ t[j] = s[p + j]

\* The stream s, of which q units came before those in the buffer.
Received(s) == Len(s) - Len(out) - Len(sock)
Passed == requestLen + consumed
Lies(s, q) ==
    /\ Within(buf, s, q) /\ Within(sock, s, Received(s)) /\ Within(out, s, Len(s) - Len(out))
    /\ Received(s) = q + (IF Passed > Len(buf) THEN Passed ELSE Len(buf))

Getting == pc \in {"handle", "callback"} \/ (pc \in {"read", "trailer"} /\ back = "callback")

\* Without chunks: the body and the next request lie behind the header.
PlainIs(s, h) ==
    /\ K!Content(s, h, contentLen, 0) /\ K!Framing(s, h + contentLen + 1, {"head"}, handled + 2)
    /\ Getting => Len(body) = consumed

ChunksAre(s, p) ==
    /\ contentLen = consumed =>
         /\ K!Framing(s, p + 1, {"size", "last"}, handled + 1)
         /\ Getting /\ p + 1 \in DOMAIN s /\ s[p + 1].k = "size" => K!Before(s, p + 1) = Len(body)
    /\ contentLen > consumed =>
         /\ K!Framing(s, p + contentLen - consumed + 1, {"crlf"}, handled + 1)
         /\ K!Framing(s, p + contentLen - consumed + 2, {"size", "last"}, handled + 1)
         /\ Getting => \A j \in 1 .. contentLen - consumed : p + j \in DOMAIN s =>
              s[p + j].r = handled + 1 /\ s[p + j].b = Len(body) + j
         
LastIs(s, p) ==
    /\ contentLen = consumed
    /\ K!Framing(s, p + 1, {"crlf", "field"}, handled + 1)
    /\ p + 1 \in DOMAIN s /\ s[p + 1].k = "crlf" => K!Framing(s, p + 2, {"head"}, handled + 2)

ContentIs(s, q) ==
    LET h == q + requestLen IN
    /\ isChunked = 0 => PlainIs(s, h)
    /\ isChunked = 1 => ChunksAre(s, h + consumed)
    /\ isChunked = 3 /\ pc = "trailer" => LastIs(s, h + consumed)
    /\ isChunked = 4 => contentLen = consumed /\ K!Framing(s, h + consumed + 1, {"head"}, handled + 2)

ReadPlaces == {"handle", "callback", "discard", "read", "trailer"}
RequestIs(s, q) ==
    /\ pc = "message" => /\ requestLen = 0 /\ contentLen = -1 /\ consumed = 0 /\ isChunked = 0 /\ body = << >>
                         /\ K!Framing(s, q + 1, {"head"}, handled + 1)
    /\ pc \in ReadPlaces => requestLen = 2 /\ contentLen >= 0
    /\ requestLen > 0 => requestLen = 2 /\ 2 <= Len(buf) /\ \A i \in 1 .. 2 : buf[i].r = handled + 1 /\ buf[i].b = 0
    /\ requestLen > 0 /\ contentLen >= 0 => contentLen >= consumed /\ ContentIs(s, q)
    /\ contentLen < 0 => consumed = 0
    /\ pc = "handle" => consumed = 0 /\ body = << >>
    /\ pc = "trailer" => isChunked = 3
    

ConnectionAt(s, q) == Lies(s, q) /\ RequestIs(s, q)

ConnInv ==
    /\ ConnTypes /\ K!BodyIsTheClients
    /\ \E s \in Streams : \E q \in 0 .. Len(s) : ConnectionAt(s, q)

\* The parts of a unit that are numbers.
LEMMA UnitIs == \A u \in K!Units : u.r \in Nat /\ u.b \in Nat /\ u.n \in Nat
BY DEF K!Units, K!EndUnits

\* A part of a sequence of units.
LEMMA PartIs ==
    ASSUME NEW t \in Seq(K!Units), NEW m \in 1 .. Len(t) + 1, NEW n \in m - 1 .. Len(t)
    PROVE  /\ SubSeq(t, m, n) \in Seq(K!Units) /\ Len(SubSeq(t, m, n)) = n - m + 1
           /\ \A j \in 1 .. n - m + 1 : SubSeq(t, m, n)[j] = t[m + j - 1]
<1>1. m \in Int /\ n \in Int /\ n <= Len(t) /\ 1 <= m /\ n - m + 1 \in Nat /\ Len(t) \in Nat
  OBVIOUS
<1>2. CASE m <= n
  BY <1>1, <1>2, SubSeqProperties, SMTT(30)
<1>3. CASE m > n
  BY <1>1, <1>3, SubSeqProperties
<1> QED BY <1>1, <1>2, <1>3

\* One unit of it.
LEMMA UnitAt ==
    ASSUME NEW t \in Seq(K!Units), NEW n \in Nat, n < Len(t)
    PROVE  /\ Len(SubSeq(t, n + 1, n + 1)) = 1 /\ SubSeq(t, n + 1, n + 1) # << >>
           /\ SubSeq(t, n + 1, n + 1)[1] = t[n + 1]
<1> DEFINE m == n + 1
<1>1. m \in 1 .. Len(t) + 1 /\ m \in m - 1 .. Len(t) /\ m - m + 1 = 1 /\ 1 \in 1 .. 1 /\ m + 1 - 1 = m
  OBVIOUS
<1> HIDE DEF m
<1>2. Len(SubSeq(t, m, m)) = m - m + 1 /\ \A j \in 1 .. m - m + 1 : SubSeq(t, m, m)[j] = t[m + j - 1]
  BY <1>1, PartIs
<1>3. Len(SubSeq(t, m, m)) = 1
  BY <1>1, <1>2, Zenon
<1>4. SubSeq(t, m, m)[1] = t[m]
  <2>1. SubSeq(t, m, m)[1] = t[m + 1 - 1]
    BY <1>1, <1>2, Zenon
  <2> QED BY <1>1, <2>1, Zenon
<1>5. SubSeq(t, m, m) # << >>
  <2>1. Len(<< >>) = 0 /\ 1 # 0
    OBVIOUS
  <2> QED BY <1>3, <2>1, Zenon
<1> QED BY <1>3, <1>4, <1>5 DEF m

\* Two sequences that are joined.
LEMMA JoinIs ==
    ASSUME NEW t \in Seq(K!Units), NEW u \in Seq(K!Units)
    PROVE  /\ t \o u \in Seq(K!Units) /\ Len(t \o u) = Len(t) + Len(u)
           /\ \A j \in 1 .. Len(t) : (t \o u)[j] = t[j]
           /\ \A j \in Len(t) + 1 .. Len(t) + Len(u) : (t \o u)[j] = u[j - Len(t)]
OBVIOUS

\* A part of what lies in the stream lies there,
LEMMA WithinPart ==
    ASSUME NEW s \in Seq(K!Units), NEW p \in Int, NEW t \in Seq(K!Units), Within(t, s, p),
           NEW m \in 1 .. Len(t) + 1, NEW n \in m - 1 .. Len(t)
    PROVE  Within(SubSeq(t, m, n), s, p + m - 1)
<1>0. DOMAIN SubSeq(t, m, n) = 1 .. n - m + 1
  BY PartIs
<1>1. SUFFICES ASSUME NEW j \in 1 .. n - m + 1
               PROVE  /\ p + m - 1 + j \in DOMAIN s
                      /\ SubSeq(t, m, n)[j] = s[p + m - 1 + j]
  BY <1>0 DEF Within
<1>2. SubSeq(t, m, n)[j] = t[m + j - 1] /\ m + j - 1 \in DOMAIN t
  BY PartIs, SMTT(30)
<1>3. p + (m + j - 1) = p + m - 1 + j
  OBVIOUS
<1> QED BY <1>2, <1>3 DEF Within

\* and two parts, one behind the other.
LEMMA WithinJoin ==
    ASSUME NEW s \in Seq(K!Units), NEW p \in Int, NEW t \in Seq(K!Units), NEW u \in Seq(K!Units),
           Within(t, s, p), Within(u, s, p + Len(t))
    PROVE  Within(t \o u, s, p)
<1>1. SUFFICES ASSUME NEW j \in 1 .. Len(t) + Len(u)
               PROVE  p + j \in DOMAIN s /\ (t \o u)[j] = s[p + j]
  BY JoinIs DEF Within
<1>2. CASE j <= Len(t)
  BY <1>2, JoinIs DEF Within
<1>3. CASE j > Len(t)
  <2>1. j - Len(t) \in DOMAIN u /\ (t \o u)[j] = u[j - Len(t)] /\ p + Len(t) + (j - Len(t)) = p + j
    BY <1>3, JoinIs
  <2> QED BY <2>1 DEF Within
<1> QED BY <1>2, <1>3

\* What the buffer holds behind what the worker has read lies where the worker reads on.
LEMMA BufferedIs ==
    ASSUME ConnTypes, NEW s \in Seq(K!Units), NEW q \in Nat, Lies(s, q),
           requestLen = 2
    PROVE  /\ K!Buffered \in Seq(K!Units) /\ Within(K!Buffered, s, q + 2 + consumed)
           /\ Received(s) = q + 2 + consumed + Len(K!Buffered)
<1> DEFINE m == 2 + consumed + 1
<1>1. consumed \in Nat /\ buf \in Seq(K!Units) /\ Len(buf) \in Nat /\ requestLen + consumed = 2 + consumed
  BY DEF ConnTypes
<1>2. CASE Len(buf) - requestLen - consumed > 0
  <2>1. K!Buffered = SubSeq(buf, m, Len(buf)) /\ m \in 1 .. Len(buf) + 1 /\ Len(buf) \in m - 1 .. Len(buf)
    BY <1>1, <1>2 DEF K!Buffered
  <2>2. K!Buffered \in Seq(K!Units) /\ Len(K!Buffered) = Len(buf) - 2 - consumed
    BY <2>1, <1>1, PartIs
  <2>3. Within(K!Buffered, s, q + m - 1)
    BY <2>1, <1>1, WithinPart DEF Lies
  <2>4. q + m - 1 = q + 2 + consumed
    BY <1>1
  <2>5. Received(s) = q + Len(buf)
    BY <1>1, <1>2 DEF Lies, Passed
  <2> QED BY <2>2, <2>3, <2>4, <2>5, <1>1
<1>3. CASE ~(Len(buf) - requestLen - consumed > 0)
  <2>1. K!Buffered = << >>
    BY <1>3 DEF K!Buffered
  <2>2. K!Buffered \in Seq(K!Units) /\ Len(K!Buffered) = 0 /\ Within(K!Buffered, s, q + 2 + consumed)
    BY <2>1 DEF Within
  <2>3. Received(s) = q + 2 + consumed
    BY <1>1, <1>3 DEF Lies, Passed
  <2> QED BY <2>2, <2>3, <1>1
<1> QED BY <1>2, <1>3

\* mg_read_inner: what is read lies there, first what is in the buffer, then what arrives.
LEMMA InnerIs ==
    ASSUME ConnTypes, NEW s \in Seq(K!Units), NEW q \in Nat, Lies(s, q),
           requestLen = 2, NEW n \in Nat, NEW len \in Nat, NEW r, r = K!Inner(n, len)
    PROVE  /\ r.units \in Seq(K!Units) /\ Within(r.units, s, q + 2 + consumed)
           /\ Len(r.units) <= n /\ (Len(r.units) > 0 => consumed + Len(r.units) <= len)
           /\ r.received \in 0 .. Len(sock)
           /\ r.received = IF Len(K!Buffered) > Len(r.units) THEN 0 ELSE Len(r.units) - Len(K!Buffered)
<1> DEFINE m == K!Bounded(n, len)
           k == K!Least(m, Len(K!Buffered))
           b == SubSeq(K!Buffered, 1, k)
           d == K!Least(m - Len(b), Len(sock))
           u == IF stop THEN << >> ELSE SubSeq(sock, 1, d)
           p == q + 2 + consumed
<1>1. r.units = b \o u /\ r.received = Len(u)
  BY DEF K!Inner
<1>2. consumed \in Nat /\ sock \in Seq(K!Units) /\ Len(sock) \in Nat /\ p \in Nat
  BY DEF ConnTypes
<1>3. m \in Nat /\ m <= n /\ (m > 0 => consumed + m <= len)
  BY <1>2 DEF K!Bounded, K!Least
<1>4. K!Buffered \in Seq(K!Units) /\ Within(K!Buffered, s, p) /\ Received(s) = p + Len(K!Buffered) /\ Len(K!Buffered) \in Nat
  BY BufferedIs
<1> HIDE DEF m, p
<1>5. k \in 0 .. Len(K!Buffered) /\ k <= m /\ (k = Len(K!Buffered) \/ k = m)
  BY <1>3, <1>4 DEF K!Least
<1>6. b \in Seq(K!Units) /\ Len(b) = k /\ Within(b, s, p)
  <2>1. 1 \in 1 .. Len(K!Buffered) + 1 /\ k \in 1 - 1 .. Len(K!Buffered) /\ p + 1 - 1 = p /\ k - 1 + 1 = k
    BY <1>2, <1>4, <1>5
  <2> HIDE DEF k
  <2>2. b \in Seq(K!Units) /\ Len(b) = k
    BY <1>4, <2>1, PartIs
  <2>3. Within(b, s, p + 1 - 1)
    BY <1>4, <1>2, <2>1, WithinPart
  <2> QED BY <2>1, <2>2, <2>3
<1> HIDE DEF k, b
<1>7. d \in 0 .. Len(sock) /\ d <= m - k /\ (d = m - k \/ d = Len(sock))
  BY <1>2, <1>3, <1>5, <1>6 DEF K!Least
<1>8. /\ u \in Seq(K!Units) /\ Len(u) \in 0 .. Len(sock) /\ Len(u) <= m - k
      /\ Within(u, s, Received(s))
  <2>1. CASE stop
    BY <2>1, <1>2, <1>3, <1>5 DEF Within
  <2>2. CASE ~stop
    <3>1. 1 \in 1 .. Len(sock) + 1 /\ d \in 1 - 1 .. Len(sock) /\ d - 1 + 1 = d
      BY <1>2, <1>7
    <3>2. Received(s) \in Int /\ Received(s) + 1 - 1 = Received(s) /\ Within(sock, s, Received(s))
      BY <1>4, <1>2 DEF Lies
    <3> HIDE DEF d
    <3>3. SubSeq(sock, 1, d) \in Seq(K!Units) /\ Len(SubSeq(sock, 1, d)) = d
      BY <1>2, <3>1, PartIs
    <3>4. Within(SubSeq(sock, 1, d), s, Received(s) + 1 - 1)
      BY <1>2, <3>1, <3>2, WithinPart
    <3> QED BY <2>2, <3>2, <3>3, <3>4, <1>7
  <2> QED BY <2>1, <2>2
<1> HIDE DEF u, d
<1>9. CASE k = Len(K!Buffered)
  <2>0. Within(u, s, p + Len(b)) /\ p \in Int
    BY <1>2, <1>4, <1>6, <1>8, <1>9
  <2>1. Within(b \o u, s, p)
    BY <2>0, <1>6, <1>8, WithinJoin
  <2>2. Len(b \o u) = k + Len(u) /\ b \o u \in Seq(K!Units)
    BY <1>6, <1>8, JoinIs
  <2> QED BY <1>1, <1>2, <1>3, <1>4, <1>5, <1>8, <1>9, <2>1, <2>2 DEF p
<1>10. CASE k # Len(K!Buffered)
  <2>1. Len(u) = 0 /\ k = m /\ k < Len(K!Buffered)
    BY <1>2, <1>5, <1>8, <1>10
  <2>2. u = << >>
    BY <2>1, <1>8
  <2>3. b \o u = b
    BY <2>2, <1>6
  <2> QED BY <1>1, <1>2, <1>3, <1>4, <1>5, <1>6, <2>1, <2>3 DEF p
<1> QED BY <1>9, <1>10

\* The worker passes k units, d of which had just arrived: the rest lies behind them.
ReadsPast(k, d) ==
    /\ d = IF Len(K!Buffered) > k THEN 0 ELSE k - Len(K!Buffered)
    /\ sock' = SubSeq(sock, d + 1, Len(sock)) /\ consumed' = consumed + k
    /\ UNCHANGED <<out, buf, requestLen>>

\* What is left behind the units that were passed lies where the worker reads on.
LEMMA PassedLies ==
    ASSUME ConnTypes, NEW s \in Seq(K!Units), NEW q \in Nat, Lies(s, q),
           requestLen = 2, NEW k \in Nat, NEW d \in 0 .. Len(sock), ReadsPast(k, d)
    PROVE  Lies(s, q)' /\ sock' \in Seq(K!Units)
<1>1. /\ consumed \in Nat /\ sock \in Seq(K!Units) /\ Len(sock) \in Nat /\ Len(buf) \in Nat
      /\ out \in Seq(K!Units) /\ Len(out) \in Nat /\ Len(s) \in Nat /\ buf \in Seq(K!Units)
  BY DEF ConnTypes
<1>2. K!Buffered \in Seq(K!Units) /\ Len(K!Buffered) \in Nat /\ Received(s) = q + 2 + consumed + Len(K!Buffered)
  BY BufferedIs
<1>3. d + 1 \in 1 .. Len(sock) + 1 /\ Len(sock) \in (d + 1) - 1 .. Len(sock) /\ Len(sock) - (d + 1) + 1 = Len(sock) - d
  BY <1>1, SMTT(30)
<1>4. sock' \in Seq(K!Units) /\ Len(sock') = Len(sock) - d
  BY <1>1, <1>3, PartIs DEF ReadsPast
<1>5. out' = out /\ buf' = buf /\ requestLen' = 2 /\ consumed' = consumed + k
  BY DEF ReadsPast
<1>6. Received(s)' = Received(s) + d
  BY <1>1, <1>4, <1>5 DEF Received
<1>7. Received(s)' \in Int /\ Received(s) + (d + 1) - 1 = Received(s)'
  BY <1>1, <1>2, <1>6
<1>8. Within(sock', s, Received(s)')
  <2>1. Within(sock, s, Received(s)) /\ Received(s) \in Int
    BY <1>1, <1>2 DEF Lies
  <2>2. Within(SubSeq(sock, d + 1, Len(sock)), s, Received(s) + (d + 1) - 1)
    BY <1>1, <1>3, <2>1, WithinPart
  <2> QED BY <2>2, <1>7 DEF ReadsPast
<1>9. Len(K!Buffered) = IF Len(buf) - 2 - consumed > 0 THEN Len(buf) - 2 - consumed ELSE 0
  <2>1. CASE Len(buf) - requestLen - consumed > 0
    <3>1. K!Buffered = SubSeq(buf, 2 + consumed + 1, Len(buf))
      BY <2>1 DEF K!Buffered
    <3>2. 2 + consumed + 1 \in 1 .. Len(buf) + 1 /\ Len(buf) \in (2 + consumed + 1) - 1 .. Len(buf)
      BY <1>1, <2>1
    <3>3. Len(K!Buffered) = Len(buf) - (2 + consumed + 1) + 1
      BY <1>1, <3>1, <3>2, PartIs
    <3> QED BY <3>3, <2>1, <1>1
  <2>2. CASE ~(Len(buf) - requestLen - consumed > 0)
    BY <2>2, <1>1 DEF K!Buffered
  <2> QED BY <2>1, <2>2
<1>10. Received(s)' = q + (IF Passed' > Len(buf') THEN Passed' ELSE Len(buf'))
  <2>1. Passed' = 2 + consumed + k /\ Len(buf') = Len(buf)
    BY <1>1, <1>5 DEF Passed
  <2>2. d = IF Len(K!Buffered) > k THEN 0 ELSE k - Len(K!Buffered)
    BY DEF ReadsPast
  <2> DEFINE n == Len(buf)
             m == Len(K!Buffered)
  <2>3. n \in Nat /\ m \in Nat /\ Received(s)' = q + 2 + consumed + m + d
    BY <1>1, <1>2, <1>6
  <2>4. m = IF n - 2 - consumed > 0 THEN n - 2 - consumed ELSE 0
    BY <1>9
  <2>5. d = IF m > k THEN 0 ELSE k - m
    BY <2>2
  <2> HIDE DEF n, m
  <2>6. q + 2 + consumed + m + d = q + (IF 2 + consumed + k > n THEN 2 + consumed + k ELSE n)
    <3>1. CASE m > k
      BY <3>1, <2>3, <2>4, <2>5, <1>1
    <3>2. CASE m <= k
      BY <3>2, <2>3, <2>4, <2>5, <1>1
    <3> QED BY <3>1, <3>2, <2>3
  <2> QED BY <2>1, <2>3, <2>6 DEF n
<1>11. Within(buf', s, q) /\ Within(out', s, Len(s) - Len(out'))
  BY <1>5 DEF Lies
<1> QED BY <1>4, <1>8, <1>10, <1>11 DEF Lies

\* A step that leaves the buffer and what is still to be read as they are, and one that
\* finds, or not, the header of a request in the buffer.
LEMMA LiesStays ==
    ASSUME NEW s, NEW q, Lies(s, q), UNCHANGED <<out, sock, buf, requestLen, consumed>>
    PROVE  Lies(s, q)'
<1>1. out' = out /\ sock' = sock /\ buf' = buf /\ Passed' = Passed /\ Received(s)' = Received(s)
  BY DEF Passed, Received
<1> QED BY <1>1 DEF Lies

\* (The length of the header is known, or there is none.)
LEMMA LiesFound ==
    ASSUME NEW s, NEW q, Lies(s, q), UNCHANGED <<out, sock, buf>>,
           consumed = 0, consumed' = 0, Len(buf) \in Nat, requestLen \in Int, requestLen' \in Int,
           requestLen <= Len(buf), requestLen' <= Len(buf)
    PROVE  Lies(s, q)'
<1>1. out' = out /\ sock' = sock /\ buf' = buf /\ Received(s)' = Received(s)
  BY DEF Received
<1>2. Received(s) = q + (IF Passed > Len(buf) THEN Passed ELSE Len(buf))
  BY DEF Lies
<1>3. Received(s) = q + (IF Passed' > Len(buf) THEN Passed' ELSE Len(buf))
  BY <1>2 DEF Passed
<1> QED BY <1>1, <1>3 DEF Lies

\* The request stays as it is, and what a callback has got of it.
LEMMA RequestStays ==
    ASSUME NEW s, NEW q, RequestIs(s, q),
           UNCHANGED <<buf, requestLen, contentLen, consumed, isChunked, handled, body>>,
           Getting' => Getting,
           \/ pc' \in {"callback", "discard", "read"} /\ pc \in ReadPlaces
           \/ pc' \in {"loop", "closed"} \/ pc' = pc
    PROVE  RequestIs(s, q)'
<1>1. /\ buf' = buf /\ requestLen' = requestLen /\ contentLen' = contentLen /\ consumed' = consumed
      /\ isChunked' = isChunked /\ handled' = handled /\ body' = body
  OBVIOUS
<1>2. pc' = "trailer" => pc = "trailer"
  OBVIOUS
<1>3. ContentIs(s, q) => ContentIs(s, q)'
  BY <1>1, <1>2 DEF ContentIs, PlainIs, ChunksAre, LastIs
<1>4. pc' \in {"message", "handle", "trailer"} => pc' = pc
  OBVIOUS
<1>5. pc' \in ReadPlaces => pc \in ReadPlaces
  BY DEF ReadPlaces
<1> QED BY <1>1, <1>3, <1>4, <1>5 DEF RequestIs

\* What the variables tell of a request that is read.
LEMMA ReadingIs ==
    ASSUME K!ConnectionAssumption, ConnTypes, NEW s \in Streams, NEW q \in 0 .. Len(s), ConnectionAt(s, q),
           requestLen > 0, contentLen >= 0
    PROVE  /\ K!Sound(s) /\ s \in Seq(K!Units) /\ Len(s) \in Nat /\ q \in Nat /\ requestLen = 2
           /\ contentLen \in Nat /\ consumed \in Nat /\ contentLen >= consumed /\ ContentIs(s, q)
           /\ Lies(s, q) /\ handled \in Nat
           /\ q + 2 \in DOMAIN s /\ s[q + 2].r = handled + 1 /\ s[q + 2].b = 0
<1>1. K!Sound(s) /\ s \in Seq(K!Units) /\ Len(s) \in Nat /\ q \in Nat
  BY DEF K!ConnectionAssumption, K!Sound
<1>2. /\ requestLen = 2 /\ 2 <= Len(buf) /\ \A i \in 1 .. 2 : buf[i].r = handled + 1 /\ buf[i].b = 0
      /\ contentLen >= consumed /\ ContentIs(s, q) /\ Lies(s, q)
  BY DEF ConnectionAt, RequestIs
<1>3. contentLen \in Nat /\ consumed \in Nat /\ handled \in Nat /\ buf \in Seq(K!Units) /\ 2 \in DOMAIN buf
  BY <1>2 DEF ConnTypes
<1>4. q + 2 \in DOMAIN s /\ buf[2] = s[q + 2]
  BY <1>2, <1>3 DEF Lies, Within
<1> QED BY <1>1, <1>2, <1>3, <1>4

\* A callback gets more of the body.
LEMMA BodyGrows ==
    ASSUME ConnTypes, K!BodyIsTheClients, NEW u \in Seq(K!Units), K!Keep(u), handled' = handled,
           back = "callback" =>
             \A j \in 1 .. Len(u) : u[j].r = handled + 1 /\ u[j].b = Len(body) + j
    PROVE  /\ K!BodyIsTheClients' /\ body' \in Seq(K!Units)
           /\ back = "callback" => Len(body') = Len(body) + Len(u)
<1>1. body \in Seq(K!Units) /\ Len(body) \in Nat /\ Len(u) \in Nat
  BY DEF ConnTypes
<1>2. CASE back = "callback"
  <2>1. body' = body \o u
    BY <1>2 DEF K!Keep
  <2>2. body' \in Seq(K!Units) /\ Len(body') = Len(body) + Len(u)
    BY <1>1, <2>1, JoinIs
  <2>3. ASSUME NEW i \in 1 .. Len(body) + Len(u) PROVE body'[i].r = handled + 1 /\ body'[i].b = i
    <3>1. CASE i <= Len(body)
      <4>1. i \in DOMAIN body /\ body'[i] = body[i]
        BY <1>1, <2>1, <3>1, JoinIs
      <4> QED BY <4>1 DEF K!BodyIsTheClients
    <3>2. CASE i > Len(body)
      <4>1. i - Len(body) \in 1 .. Len(u) /\ body'[i] = u[i - Len(body)] /\ Len(body) + (i - Len(body)) = i
        BY <1>1, <2>1, <3>2, JoinIs
      <4> QED BY <4>1, <1>2
    <3> QED BY <3>1, <3>2
  <2>4. DOMAIN body' = 1 .. Len(body) + Len(u)
    BY <2>2
  <2> QED BY <2>2, <2>3, <2>4 DEF K!BodyIsTheClients
<1>3. CASE back # "callback"
  <2>1. body' = body
    BY <1>3 DEF K!Keep
  <2> QED BY <1>1, <1>3, <2>1 DEF K!BodyIsTheClients
<1> QED BY <1>2, <1>3

\* Send: what the client sends has arrived.
LEMMA SendKeeps ==
    ASSUME K!ConnectionAssumption, ConnTypes, K!BodyIsTheClients, NEW s \in Streams, NEW q \in 0 .. Len(s),
           ConnectionAt(s, q), K!Send
    PROVE  ConnTypes' /\ K!BodyIsTheClients' /\ ConnectionAt(s, q)'
<1>1. s \in Seq(K!Units) /\ Len(s) \in Nat
  BY DEF K!ConnectionAssumption, K!Sound
<1>2. PICK n \in 1 .. Len(out) : sock' = sock \o SubSeq(out, 1, n) /\ out' = SubSeq(out, n + 1, Len(out))
  BY DEF K!Send
<1>3. /\ eof' = eof /\ stop' = stop /\ pc' = pc /\ buf' = buf /\ requestLen' = requestLen /\ contentLen' = contentLen
      /\ consumed' = consumed /\ isChunked' = isChunked /\ mustClose' = mustClose /\ handled' = handled
      /\ back' = back /\ want' = want /\ ret' = ret /\ body' = body
  BY DEF K!Send, K!lenVars, K!readVars
<1>4. out \in Seq(K!Units) /\ sock \in Seq(K!Units) /\ Len(out) \in Nat /\ Len(sock) \in Nat
  BY DEF ConnTypes
<1>5. SubSeq(out, 1, n) \in Seq(K!Units) /\ Len(SubSeq(out, 1, n)) = n
  <2>1. 1 \in 1 .. Len(out) + 1 /\ n \in 1 - 1 .. Len(out) /\ n - 1 + 1 = n
    BY <1>4, SMTT(30)
  <2> QED BY <2>1, <1>4, PartIs
<1>6. out' \in Seq(K!Units) /\ Len(out') = Len(out) - n
  <2>1. n + 1 \in 1 .. Len(out) + 1 /\ Len(out) \in (n + 1) - 1 .. Len(out) /\ Len(out) - (n + 1) + 1 = Len(out) - n
    BY <1>4
  <2> QED BY <2>1, <1>2, <1>4, PartIs
<1>7. sock' \in Seq(K!Units) /\ Len(sock') = Len(sock) + n
  BY <1>2, <1>4, <1>5, JoinIs
<1>8. Received(s)' = Received(s)
  BY <1>1, <1>4, <1>6, <1>7 DEF Received
<1>9. Within(sock', s, Received(s))
  <2>1. Within(sock, s, Received(s)) /\ Within(out, s, Len(s) - Len(out)) /\ Received(s) \in Int
        /\ Len(s) - Len(out) = Received(s) + Len(sock) /\ Len(s) - Len(out) \in Int
    BY <1>1, <1>4 DEF ConnectionAt, Lies, Received
  <2>2. Within(SubSeq(out, 1, n), s, Len(s) - Len(out) + 1 - 1)
    <3>1. 1 \in 1 .. Len(out) + 1 /\ n \in 1 - 1 .. Len(out)
      BY <1>4
    <3> QED BY <1>1, <1>4, <2>1, <3>1, WithinPart
  <2>3. Len(s) - Len(out) + 1 - 1 = Received(s) + Len(sock)
    BY <2>1, <1>4
  <2> QED BY <1>1, <1>2, <1>4, <1>5, <2>1, <2>2, <2>3, WithinJoin
<1>10. Within(out', s, Len(s) - Len(out'))
  <2>1. Within(out, s, Len(s) - Len(out)) /\ Len(s) - Len(out) \in Int
    BY <1>1, <1>4 DEF ConnectionAt, Lies
  <2>2. n + 1 \in 1 .. Len(out) + 1 /\ Len(out) \in (n + 1) - 1 .. Len(out)
    BY <1>4
  <2>3. Within(out', s, Len(s) - Len(out) + (n + 1) - 1)
    BY <1>1, <1>2, <1>4, <2>1, <2>2, WithinPart
  <2>4. Len(s) - Len(out) + (n + 1) - 1 = Len(s) - Len(out')
    BY <1>1, <1>4, <1>6
  <2> QED BY <2>3, <2>4
<1>11. Passed' = Passed
  BY <1>3 DEF Passed
<1>12. Lies(s, q)'
  BY <1>3, <1>8, <1>9, <1>10, <1>11 DEF Lies, ConnectionAt
<1>13. RequestIs(s, q)'
  <2>1. Getting' => Getting
    BY <1>3 DEF Getting
  <2> QED BY <1>3, <2>1, RequestStays DEF ConnectionAt
<1>14. ConnTypes' /\ K!BodyIsTheClients'
  BY <1>3, <1>6, <1>7 DEF ConnTypes, K!BodyIsTheClients
<1> QED BY <1>12, <1>13, <1>14 DEF ConnectionAt

\* A step that leaves the client's stream, the buffer and the lengths as they are.
LEMMA StaysKeeps ==
    ASSUME K!ConnectionAssumption, ConnTypes, K!BodyIsTheClients, NEW s \in Streams, NEW q \in 0 .. Len(s),
           ConnectionAt(s, q), K!HangUp \/ K!Stop \/ K!HandleRequest \/ K!CallMgRead \/ K!CallbackReturns \/ K!Discard \/ K!ReadEnds \/ K!Close
    PROVE  ConnTypes' /\ K!BodyIsTheClients' /\ ConnectionAt(s, q)'
<1>1. /\ out' = out /\ sock' = sock /\ buf' = buf /\ requestLen' = requestLen /\ contentLen' = contentLen
      /\ consumed' = consumed /\ isChunked' = isChunked /\ handled' = handled /\ body' = body
  BY DEF K!HangUp, K!Stop, K!HandleRequest, K!CallMgRead, K!CallbackReturns, K!Discard, K!ReadEnds, K!Close, K!clientVars, K!lenVars, K!readVars
<1>2. /\ \/ pc' \in {"callback", "discard", "read"} /\ pc \in ReadPlaces
         \/ pc' \in {"loop", "closed"} \/ pc' = pc
      /\ Getting' => Getting
      /\ pc' \in K!Places /\ back' \in {"callback", "discard"} /\ want' \in Nat /\ ret' \in Int /\ mustClose' \in BOOLEAN
  <2>0. pc \in K!Places /\ back \in {"callback", "discard"} /\ want \in Nat /\ ret \in Int /\ mustClose \in BOOLEAN
        /\ ReadSizes \subseteq Nat /\ DiscardSize \in Nat
    BY DEF ConnTypes, K!ConnectionAssumption
  <2>1. CASE K!HangUp \/ K!Stop
    BY <2>0, <2>1 DEF K!HangUp, K!Stop, K!readVars, Getting
  <2>2. CASE K!HandleRequest
    BY <2>0, <2>2 DEF K!HandleRequest, K!readVars, Getting, ReadPlaces, K!Places
  <2>3. CASE K!CallMgRead
    BY <2>0, <2>3 DEF K!CallMgRead, Getting, ReadPlaces, K!Places
  <2>4. CASE K!CallbackReturns
    BY <2>0, <2>4 DEF K!CallbackReturns, Getting, ReadPlaces, K!Places
  <2>5. CASE K!Discard
    BY <2>0, <2>5 DEF K!Discard, K!readVars, Getting, ReadPlaces, K!Places
  <2>6. CASE K!ReadEnds
    BY <2>0, <2>6 DEF K!ReadEnds, K!ReturnRead, Getting, ReadPlaces, K!Places
  <2>7. CASE K!Close
    BY <2>0, <2>7 DEF K!Close, K!readVars, Getting, ReadPlaces, K!Places
  <2> QED BY <2>1, <2>2, <2>3, <2>4, <2>5, <2>6, <2>7
<1>3. Lies(s, q)'
  <2>1. Lies(s, q) /\ UNCHANGED <<out, sock, buf, requestLen, consumed>>
    BY <1>1 DEF ConnectionAt
  <2> QED BY <2>1, LiesStays
<1>4. RequestIs(s, q)'
  BY <1>1, <1>2, RequestStays DEF ConnectionAt
<1>5. ConnTypes' /\ K!BodyIsTheClients'
  BY <1>1, <1>2 DEF ConnTypes, K!BodyIsTheClients
<1> QED BY <1>3, <1>4, <1>5 DEF ConnectionAt

\* read_message: more of the stream is in the buffer.
LEMMA ReceiveKeeps ==
    ASSUME K!ConnectionAssumption, ConnTypes, K!BodyIsTheClients, NEW s \in Streams, NEW q \in 0 .. Len(s),
           ConnectionAt(s, q), K!Receive
    PROVE  ConnTypes' /\ K!BodyIsTheClients' /\ ConnectionAt(s, q)'
<1>1. s \in Seq(K!Units) /\ Len(s) \in Nat /\ q \in Nat
  BY DEF K!ConnectionAssumption, K!Sound
<1>2. PICK n \in 1 .. Len(sock) : /\ Len(buf) + n <= BufSize
                                  /\ buf' = buf \o SubSeq(sock, 1, n)
                                  /\ sock' = SubSeq(sock, n + 1, Len(sock))
  BY DEF K!Receive
<1>3. /\ out' = out /\ pc' = pc /\ pc = "message" /\ requestLen' = requestLen /\ contentLen' = contentLen
      /\ consumed' = consumed /\ isChunked' = isChunked /\ mustClose' = mustClose /\ handled' = handled
      /\ back' = back /\ want' = want /\ ret' = ret /\ body' = body
  BY DEF K!Receive, K!lenVars, K!readVars
<1>4. out \in Seq(K!Units) /\ sock \in Seq(K!Units) /\ Len(out) \in Nat /\ Len(sock) \in Nat /\ buf \in Seq(K!Units) /\ Len(buf) \in Nat
  BY DEF ConnTypes
<1>5. requestLen = 0 /\ consumed = 0 /\ Passed = 0 /\ Passed' = 0 /\ Received(s) = q + Len(buf)
  <2>1. requestLen = 0 /\ consumed = 0
    BY <1>3 DEF ConnectionAt, RequestIs
  <2> QED BY <2>1, <1>3, <1>4 DEF Passed, ConnectionAt, Lies
<1>6. SubSeq(sock, 1, n) \in Seq(K!Units) /\ Len(SubSeq(sock, 1, n)) = n
  <2>1. 1 \in 1 .. Len(sock) + 1 /\ n \in 1 - 1 .. Len(sock) /\ n - 1 + 1 = n
    BY <1>4, SMTT(30)
  <2> QED BY <2>1, <1>4, PartIs
<1>7. sock' \in Seq(K!Units) /\ Len(sock') = Len(sock) - n
  <2>1. n + 1 \in 1 .. Len(sock) + 1 /\ Len(sock) \in (n + 1) - 1 .. Len(sock) /\ Len(sock) - (n + 1) + 1 = Len(sock) - n
    BY <1>4
  <2> QED BY <2>1, <1>2, <1>4, PartIs
<1>8. buf' \in Seq(K!Units) /\ Len(buf') = Len(buf) + n
  BY <1>2, <1>4, <1>6, JoinIs
<1>9. Received(s)' = Received(s) + n
  BY <1>1, <1>3, <1>4, <1>7 DEF Received
<1>10. Within(sock, s, Received(s)) /\ Within(buf, s, q) /\ Received(s) \in Int
  BY <1>1, <1>4, <1>5 DEF ConnectionAt, Lies
<1>11. Within(sock', s, Received(s)')
  <2>1. n + 1 \in 1 .. Len(sock) + 1 /\ Len(sock) \in (n + 1) - 1 .. Len(sock)
    BY <1>4
  <2>2. Within(sock', s, Received(s) + (n + 1) - 1)
    BY <1>1, <1>2, <1>4, <1>10, <2>1, WithinPart
  <2>3. Received(s) + (n + 1) - 1 = Received(s)'
    BY <1>9, <1>10
  <2> QED BY <2>2, <2>3
<1>12. Within(buf', s, q)
  <2>1. 1 \in 1 .. Len(sock) + 1 /\ n \in 1 - 1 .. Len(sock) /\ q \in Int
    BY <1>1, <1>4
  <2>2. Within(SubSeq(sock, 1, n), s, Received(s) + 1 - 1)
    BY <1>1, <1>4, <1>10, <2>1, WithinPart
  <2>3. Received(s) + 1 - 1 = q + Len(buf)
    BY <1>5, <1>10
  <2> QED BY <1>1, <1>2, <1>4, <1>6, <1>10, <2>1, <2>2, <2>3, WithinJoin
<1>13. Received(s)' = q + (IF Passed' > Len(buf') THEN Passed' ELSE Len(buf'))
  BY <1>1, <1>4, <1>5, <1>8, <1>9
<1>14. Lies(s, q)'
  BY <1>3, <1>11, <1>12, <1>13 DEF Lies, ConnectionAt
<1>15. RequestIs(s, q)'
  BY <1>3, <1>5 DEF RequestIs, ConnectionAt, ReadPlaces
<1>16. ConnTypes'
  <2>1. Len(buf') <= BufSize /\ requestLen' \in -2 .. Len(buf')
    BY <1>2, <1>3, <1>4, <1>5, <1>8
  <2> QED BY <1>3, <1>7, <1>8, <2>1 DEF ConnTypes
<1>17. K!BodyIsTheClients'
  BY <1>3 DEF K!BodyIsTheClients
<1> QED BY <1>14, <1>15, <1>16, <1>17 DEF ConnectionAt

\* No request is found, and the connection ends.
LEMMA NoMessageKeeps ==
    ASSUME K!ConnectionAssumption, ConnTypes, K!BodyIsTheClients, NEW s \in Streams, NEW q \in 0 .. Len(s),
           ConnectionAt(s, q), K!NoMessage
    PROVE  ConnTypes' /\ K!BodyIsTheClients' /\ ConnectionAt(s, q)'
<1>1. /\ out' = out /\ sock' = sock /\ buf' = buf /\ contentLen' = contentLen /\ consumed' = consumed
      /\ isChunked' = isChunked /\ handled' = handled /\ body' = body
      /\ back' = back /\ want' = want /\ ret' = ret
      /\ pc = "message" /\ pc' = "loop" /\ mustClose' = TRUE /\ requestLen' \in {-2, -1}
  BY DEF K!NoMessage, K!clientVars, K!readVars
<1>2. buf \in Seq(K!Units) /\ Len(buf) \in Nat /\ requestLen' \in -2 .. Len(buf) /\ requestLen' \in Int
      /\ requestLen' <= Len(buf) /\ ~(requestLen' > 0)
  BY <1>1 DEF ConnTypes
<1>3. requestLen = 0 /\ consumed = 0 /\ contentLen = -1
  BY <1>1 DEF ConnectionAt, RequestIs
<1>4. Lies(s, q)'
  BY <1>1, <1>2, <1>3, LiesFound DEF ConnectionAt
<1>5. RequestIs(s, q)'
  BY <1>1, <1>2, <1>3 DEF RequestIs, ReadPlaces
<1>6. ConnTypes' /\ K!BodyIsTheClients'
  BY <1>1, <1>2 DEF ConnTypes, K!BodyIsTheClients, K!Places
<1> QED BY <1>4, <1>5, <1>6 DEF ConnectionAt

\* The buffer of a request that begins: its header is two units.
LEMMA HeaderIs ==
    ASSUME K!ConnectionAssumption, ConnTypes, NEW s \in Streams, NEW q \in 0 .. Len(s),
           ConnectionAt(s, q), pc = "message", K!HeaderLen(buf) # 0
    PROVE  /\ K!HeaderLen(buf) = 2 /\ 2 <= Len(buf) /\ q + 2 \in DOMAIN s /\ buf[2] = s[q + 2]
           /\ \A i \in 1 .. 2 : buf[i].r = handled + 1 /\ buf[i].b = 0
           /\ s[q + 2].k = "end" /\ s[q + 2].r = handled + 1 /\ s[q + 2].b = 0
           /\ s[q + 2] \in K!EndUnits /\ K!Follows(s, q + 2, handled + 1)
<1> DEFINE ends == {i \in DOMAIN buf : buf[i].k = "end"}
<1>1. K!Sound(s) /\ s \in Seq(K!Units) /\ Len(s) \in Nat /\ q \in Nat /\ buf \in Seq(K!Units) /\ Len(buf) \in Nat
  BY DEF K!ConnectionAssumption, K!Sound, ConnTypes
<1>2. /\ K!Framing(s, q + 1, {"head"}, handled + 1)
      /\ \A j \in DOMAIN buf : q + j \in DOMAIN s /\ buf[j] = s[q + j]
  BY DEF ConnectionAt, RequestIs, Lies, Within
<1>3. ends # {}
  BY DEF K!HeaderLen
<1>4. PICK i \in DOMAIN buf : buf[i].k = "end"
  BY <1>3
<1>5. 1 \in DOMAIN buf /\ i \in 1 .. Len(buf)
  BY <1>1, <1>4
<1>6. /\ q + 1 \in DOMAIN s /\ buf[1] = s[q + 1]
      /\ s[q + 1].k = "head" /\ s[q + 1].r = handled + 1 /\ s[q + 1].b = 0
  BY <1>2, <1>5 DEF K!Framing
<1>7. i # 1
  BY <1>4, <1>6
<1>8. 2 \in DOMAIN buf /\ 2 <= Len(buf)
  BY <1>1, <1>5, <1>7
<1>9. q + 2 \in DOMAIN s /\ buf[2] = s[q + 2]
  BY <1>2, <1>8
<1>10. K!Follows(s, q + 1, handled + 1)
  BY <1>1, <1>6 DEF K!Sound
<1>11. s[q + 2].k = "end" /\ s[q + 2].r = handled + 1 /\ s[q + 2].b = 0
  <2>1. K!Framing(s, q + 1 + 1, {"end"}, handled + 1) /\ q + 1 + 1 = q + 2
    BY <1>1, <1>6, <1>10 DEF K!Follows
  <2> QED BY <1>9, <2>1 DEF K!Framing
<1>12. s[q + 2] \in K!EndUnits /\ K!Follows(s, q + 2, handled + 1)
  <2>1. K!Follows(s, q + 2, handled + 1)
    BY <1>1, <1>9, <1>11 DEF K!Sound
  <2> QED BY <2>1, <1>11 DEF K!Follows
<1>13. K!HeaderLen(buf) = 2
  <2>1. 2 \in ends /\ \A j \in ends : 2 <= j
    <3>1. 2 \in ends
      BY <1>8, <1>9, <1>11
    <3>2. ASSUME NEW j \in ends PROVE 2 <= j
      <4>1. j \in 1 .. Len(buf) /\ buf[j].k = "end"
        BY <1>1
      <4>2. j # 1
        BY <4>1, <1>6
      <4> QED BY <4>1, <4>2, <1>1
    <3> QED BY <3>1, <3>2
  <2>2. K!HeaderLen(buf) = CHOOSE j \in ends : \A l \in ends : j <= l
    BY <1>3 DEF K!HeaderLen
  <2>3. \A j \in ends : (\A l \in ends : j <= l) => j = 2
    <3>1. SUFFICES ASSUME NEW j \in ends, \A l \in ends : j <= l PROVE j = 2
      OBVIOUS
    <3>2. j <= 2 /\ 2 <= j
      BY <2>1, <3>1
    <3>3. j \in 1 .. Len(buf)
      BY <1>1
    <3> QED BY <3>2, <3>3, <1>1
  <2> HIDE DEF ends
  <2> QED BY <2>1, <2>2, <2>3
<1> QED BY <1>6, <1>5, <1>8, <1>9, <1>11, <1>12, <1>13

\* get_request: what the header says of the body is what follows it.
LEMMA GetRequestKeeps ==
    ASSUME K!ConnectionAssumption, ConnTypes, K!BodyIsTheClients, NEW s \in Streams, NEW q \in 0 .. Len(s),
           ConnectionAt(s, q), K!GetRequest
    PROVE  ConnTypes' /\ K!BodyIsTheClients' /\ ConnectionAt(s, q)'
<1>1. /\ out' = out /\ sock' = sock /\ buf' = buf /\ consumed' = consumed /\ handled' = handled
      /\ back' = back /\ want' = want /\ ret' = ret /\ body' = body
      /\ pc = "message" /\ K!HeaderLen(buf) # 0 /\ requestLen' = K!HeaderLen(buf)
  BY DEF K!GetRequest, K!clientVars, K!readVars
<1> DEFINE e == s[q + 2]
<1>2. /\ K!HeaderLen(buf) = 2 /\ 2 <= Len(buf) /\ q + 2 \in DOMAIN s /\ buf[2] = e
      /\ \A i \in 1 .. 2 : buf[i].r = handled + 1 /\ buf[i].b = 0
      /\ e.k = "end" /\ e.r = handled + 1 /\ e.b = 0
      /\ e \in K!EndUnits /\ K!Follows(s, q + 2, handled + 1)
  BY <1>1, HeaderIs
<1>3. /\ requestLen = 0 /\ consumed = 0 /\ contentLen = -1 /\ isChunked = 0 /\ body = << >>
      /\ mustClose \in BOOLEAN /\ handled \in Nat /\ buf \in Seq(K!Units) /\ Len(buf) \in Nat /\ q \in Nat
  BY <1>1 DEF ConnectionAt, RequestIs, ConnTypes
<1>4. Lies(s, q)'
  <2>1. /\ Lies(s, q) /\ UNCHANGED <<out, sock, buf>> /\ consumed' = 0 /\ consumed = 0
        /\ Len(buf) \in Nat /\ requestLen \in Int /\ requestLen' \in Int
        /\ requestLen <= Len(buf) /\ requestLen' <= Len(buf)
    BY <1>1, <1>2, <1>3 DEF ConnectionAt
  <2> QED BY <2>1, LiesFound
<1>5. e.n \in Nat /\ e.framing \in {"none", "length", "chunked", "bad"}
  BY <1>2 DEF K!EndUnits
<1>9. ASSUME pc' = "handle", mustClose' = mustClose, contentLen' \in Nat, isChunked' \in 0 .. 4, ContentIs(s, q)'
      PROVE  ConnTypes' /\ K!BodyIsTheClients' /\ ConnectionAt(s, q)'
  <2>1. RequestIs(s, q)'
    BY <1>1, <1>2, <1>3, <1>9 DEF RequestIs, ReadPlaces
  <2>2. ConnTypes'
    BY <1>1, <1>2, <1>3, <1>9 DEF ConnTypes, K!Places
  <2>3. K!BodyIsTheClients'
    BY <1>1 DEF K!BodyIsTheClients
  <2> QED BY <1>4, <2>1, <2>2, <2>3 DEF ConnectionAt
<1>6. CASE pc' = "handle" /\ e.framing # "bad"
  <2>1. /\ mustClose' = mustClose /\ isChunked' = (IF e.framing = "chunked" THEN 1 ELSE 0)
        /\ contentLen' = (IF e.framing = "length" THEN e.n ELSE 0)
    BY <1>2, <1>6 DEF K!GetRequest
  <2>2. contentLen' \in Nat /\ isChunked' \in {0, 1} /\ contentLen' >= 0
    BY <2>1, <1>5
  <2>3. CASE e.framing \in {"none", "length"}
    <3>1. K!Content(s, q + 2, contentLen', 0) /\ K!Framing(s, q + 2 + contentLen' + 1, {"head"}, handled + 1 + 1)
      <4>1. CASE e.framing = "none"
        <5>1. contentLen' = 0 /\ K!Framing(s, q + 2 + 1, {"head"}, handled + 1 + 1)
          BY <4>1, <2>1, <1>2 DEF K!Follows
        <5>2. K!Content(s, q + 2, 0, 0) /\ q + 2 + 0 + 1 = q + 2 + 1
          BY <1>3 DEF K!Content
        <5> QED BY <5>1, <5>2
      <4>2. CASE e.framing = "length"
        BY <4>2, <2>1, <1>2 DEF K!Follows
      <4> QED BY <4>1, <4>2, <2>3
    <3>2. handled + 1 + 1 = handled + 2 /\ isChunked' = 0
      BY <2>1, <2>3, <1>3
    <3>3. PlainIs(s, q + 2)'
      BY <1>1, <1>3, <3>1, <3>2 DEF PlainIs
    <3>4. ContentIs(s, q)'
      BY <1>1, <1>2, <3>2, <3>3 DEF ContentIs
    <3>7. ContentIs(s, q)' /\ isChunked' \in 0 .. 4
      BY <3>4, <2>2
    <3> QED BY <1>6, <2>1, <2>2, <3>7, <1>9
  <2>4. CASE e.framing = "chunked"
    <3>1. isChunked' = 1 /\ contentLen' = 0 /\ consumed' = 0
      BY <2>1, <2>4, <1>1, <1>3
    <3>2. K!Framing(s, q + 2 + 0 + 1, {"size", "last"}, handled + 1)
      <4>1. q + 2 + 0 + 1 = q + 2 + 1
        BY <1>3
      <4> QED BY <1>2, <2>4, <4>1 DEF K!Follows
    <3>3. K!Before(s, q + 2 + 0 + 1) = 0
      <4>1. q + 2 + 0 + 1 - 1 = q + 2
        BY <1>3
      <4> QED BY <1>2, <4>1 DEF K!Before
    <3>4. Len(body') = 0
      BY <1>1, <1>3
    <3>5. ChunksAre(s, q + 2 + 0)'
      BY <1>1, <3>1, <3>2, <3>3, <3>4 DEF ChunksAre
    <3>6. ContentIs(s, q)'
      BY <1>1, <1>2, <3>1, <3>5 DEF ContentIs
    <3>7. ContentIs(s, q)' /\ isChunked' \in 0 .. 4
      BY <3>6, <2>2
    <3> QED BY <1>6, <2>1, <2>2, <3>7, <1>9
  <2> QED BY <2>3, <2>4, <1>5, <1>6
<1>7. CASE pc' = "loop" /\ mustClose' = TRUE /\ isChunked' = isChunked /\ contentLen' = contentLen
  BY <1>1, <1>2, <1>3, <1>4, <1>7 DEF RequestIs, ReadPlaces, ConnTypes, K!BodyIsTheClients, K!Places, ConnectionAt
<1>8. CASE ~(pc' = "handle" /\ e.framing # "bad")
  BY <1>2, <1>7, <1>8 DEF K!GetRequest
<1> QED BY <1>6, <1>8

\* The next request begins where this one ends.
LEMMA NextRequestKeeps ==
    ASSUME K!ConnectionAssumption, ConnTypes, K!BodyIsTheClients, NEW s \in Streams, NEW q \in 0 .. Len(s),
           ConnectionAt(s, q), K!NextRequest
    PROVE  /\ ConnTypes' /\ K!BodyIsTheClients' /\ \E p \in 0 .. Len(s) : ConnectionAt(s, p)'
           /\ K!KeptIsComplete
<1>1. requestLen > 0 /\ contentLen >= 0 /\ K!Discardable /\ pc = "loop"
  BY DEF K!NextRequest
<1>2. /\ K!Sound(s) /\ s \in Seq(K!Units) /\ Len(s) \in Nat /\ q \in Nat /\ requestLen = 2
      /\ contentLen \in Nat /\ consumed \in Nat /\ contentLen >= consumed /\ ContentIs(s, q)
      /\ Lies(s, q) /\ handled \in Nat
  BY <1>1, ReadingIs
<1>0. PICK l \in Nat, n \in Nat, p \in Nat, m \in Nat :
        l = 2 + contentLen /\ n = Len(buf) /\ p = q + l /\ m = K!Least(l, n)
  <2>1. 2 + contentLen \in Nat /\ Len(buf) \in Nat /\ q + (2 + contentLen) \in Nat
    BY <1>2 DEF ConnTypes
  <2>2. K!Least(2 + contentLen, Len(buf)) \in Nat
    BY <2>1 DEF K!Least
  <2> QED BY <2>1, <2>2
<1>3. /\ out' = out /\ sock' = sock /\ back' = back /\ want' = want
      /\ handled' = handled + 1 /\ pc' = "message" /\ requestLen' = 0 /\ contentLen' = -1 /\ consumed' = 0
      /\ isChunked' = 0 /\ mustClose' = FALSE /\ ret' = 1 /\ body' = << >>
  BY DEF K!NextRequest, K!Fresh, K!clientVars
<1>4. buf' = SubSeq(buf, m + 1, n)
  BY <1>2, <1>0 DEF K!NextRequest
<1>5. /\ out \in Seq(K!Units) /\ sock \in Seq(K!Units) /\ Len(out) \in Nat /\ Len(sock) \in Nat
      /\ buf \in Seq(K!Units) /\ n \in Nat /\ n <= BufSize
  BY <1>0 DEF ConnTypes
<1>6. consumed = contentLen \/ l <= n
  BY <1>0, <1>1, <1>2 DEF K!Discardable, ContentIs
<1>7. K!Framing(s, p + 1, {"head"}, handled + 2)
  <2>1. CASE isChunked = 4
    BY <2>1, <1>2, <1>0 DEF ContentIs
  <2>2. CASE isChunked = 0
    <3>1. PlainIs(s, q + 2) /\ q + 2 + contentLen + 1 = p + 1
      BY <2>2, <1>2, <1>0 DEF ContentIs
    <3> QED BY <3>1 DEF PlainIs
  <2> QED BY <1>1, <2>1, <2>2 DEF K!Discardable
<1>8. Received(s) = q + (IF 2 + consumed > n THEN 2 + consumed ELSE n)
  BY <1>0, <1>2 DEF Lies, Passed
<1>9. m \in 0 .. n /\ (m = l \/ (m = n /\ n < l)) /\ l \in Nat
  <2>0. l \in Nat /\ n \in Nat
    BY <1>0
  <2>1. m = IF l < n THEN l ELSE n
    BY <1>0 DEF K!Least
  <2>2. CASE l < n
    <3>1. m = l
      BY <2>1, <2>2
    <3> QED BY <3>1, <2>0, <2>2
  <2>3. CASE ~(l < n)
    <3>1. m = n /\ (n = l \/ n < l)
      BY <2>1, <2>3, <2>0
    <3> QED BY <3>1, <2>0
  <2> QED BY <2>2, <2>3
<1>10. buf' \in Seq(K!Units) /\ Len(buf') = n - m
  <2>1. m + 1 \in 1 .. n + 1 /\ n \in (m + 1) - 1 .. n /\ n - (m + 1) + 1 = n - m
    BY <1>5, <1>9
  <2> QED BY <2>1, <1>0, <1>4, <1>5, PartIs
<1>11. Received(s) = p + Len(buf') /\ Received(s) <= Len(s)
  <2>1. Received(s) <= Len(s)
    BY <1>2, <1>5 DEF Received
  <2>2. CASE m = l
    <3>1. l <= n /\ 2 + consumed <= l /\ ~(2 + consumed > n)
      BY <2>2, <1>0, <1>2, <1>9
    <3>2. Received(s) = q + n /\ p = q + l /\ Len(buf') = n - l
      BY <2>2, <3>1, <1>0, <1>8, <1>10
    <3> QED BY <2>1, <3>2, <1>0, <1>2
  <2>3. CASE m = n /\ n < l
    BY <2>1, <2>3, <1>0, <1>2, <1>5, <1>6, <1>8, <1>9, <1>10
  <2> QED BY <2>1, <2>2, <2>3, <1>9
<1>12. p \in 0 .. Len(s) /\ p \in Int
  BY <1>2, <1>5, <1>9, <1>10, <1>11
<1>13. Within(buf', s, p)
  <2>1. m + 1 \in 1 .. n + 1 /\ n \in (m + 1) - 1 .. n
    BY <1>5, <1>9
  <2>2. Within(buf, s, q) /\ q \in Int
    BY <1>2 DEF Lies
  <2>3. Within(buf', s, q + (m + 1) - 1)
    BY <2>1, <2>2, <1>0, <1>2, <1>4, <1>5, WithinPart
  <2>4. CASE m = l
    <3>1. q + (m + 1) - 1 = p
      BY <2>4, <1>0, <1>2, <1>9
    <3> QED BY <2>3, <3>1
  <2>5. CASE m = n /\ n < l
    <3>1. Len(buf') = 0
      BY <2>5, <1>5, <1>10
    <3> QED BY <3>1, <1>10 DEF Within
  <2> QED BY <2>4, <2>5, <1>9
<1>14. Within(sock, s, Received(s)) /\ Within(out, s, Len(s) - Len(out)) /\ Len(s) - Len(out) = Received(s) + Len(sock)
  BY <1>2, <1>5 DEF Lies, Received
<1>15. Lies(s, p)'
  <2>1. Received(s)' = Received(s) /\ Passed' = 0
    BY <1>3 DEF Received, Passed
  <2>2. Received(s)' = p + (IF Passed' > Len(buf') THEN Passed' ELSE Len(buf'))
    BY <2>1, <1>10, <1>11
  <2>3. out' = out /\ sock' = sock
    BY <1>3
  <2> QED BY <2>1, <2>2, <2>3, <1>13, <1>14 DEF Lies
<1>16. RequestIs(s, p)'
  <2>1. K!Framing(s, p + 1, {"head"}, handled' + 1)
    <3>1. handled' + 1 = handled + 2
      BY <1>2, <1>3
    <3> QED BY <3>1, <1>7
  <2> QED BY <2>1, <1>3 DEF RequestIs, ReadPlaces
<1>17. ConnTypes' /\ K!BodyIsTheClients'
  <2>1. Len(buf') <= BufSize /\ requestLen' \in -2 .. Len(buf')
    <3>1. BufSize \in Nat
      BY DEF K!ConnectionAssumption
    <3> QED BY <3>1, <1>0, <1>3, <1>5, <1>9, <1>10, SMTT(30)
  <2>2. body' \in Seq(K!Units) /\ DOMAIN body' = {}
    BY <1>3
  <2>3. ConnTypes'
    <3>1. back \in {"callback", "discard"} /\ want \in Nat /\ handled' \in Nat
      BY <1>2, <1>3 DEF ConnTypes
    <3>2. out' \in Seq(K!Units) /\ sock' \in Seq(K!Units) /\ ret' \in Int /\ back' \in {"callback", "discard"} /\ want' \in Nat
      BY <3>1, <1>3, <1>5
    <3>3. pc' \in K!Places /\ mustClose' \in BOOLEAN
      BY <1>3 DEF K!Places
    <3>4. isChunked' \in 0 .. 4 /\ consumed' \in Nat
      BY <1>3
    <3>5. contentLen' \in Nat \cup {-1}
      BY <1>3
    <3> QED BY <2>1, <2>2, <3>1, <3>2, <3>3, <3>4, <3>5, <1>10 DEF ConnTypes
  <2> QED BY <2>2, <2>3 DEF K!BodyIsTheClients
<1>18. K!KeptIsComplete
  <2> DEFINE t == buf' \o sock
             u == t \o out
  <2>1. t \in Seq(K!Units) /\ Len(t) = Len(buf') + Len(sock) /\ Within(t, s, p)
    BY <1>2, <1>5, <1>10, <1>11, <1>12, <1>13, <1>14, JoinIs, WithinJoin
  <2> HIDE DEF t
  <2>2. p + Len(t) = Len(s) - Len(out)
    BY <1>2, <1>5, <1>10, <1>11, <1>12, <1>14, <2>1
  <2>3. u \in Seq(K!Units) /\ Within(u, s, p)
    BY <1>2, <1>5, <1>12, <1>14, <2>1, <2>2, JoinIs, WithinJoin
  <2> HIDE DEF u
  <2>4. ASSUME NEW i \in DOMAIN u PROVE u[i].r > handled + 1
    <3>1. i \in Nat /\ i >= 1 /\ p + i \in DOMAIN s /\ u[i] = s[p + i]
      BY <2>3, <2>4 DEF Within
    <3>2. p + 1 \in DOMAIN s /\ p + 1 <= p + i
      BY <3>1, <1>2, <1>12
    <3>3. s[p + 1].r = handled + 2
      BY <3>2, <1>7 DEF K!Framing
    <3>4. s[p + 1].r <= s[p + i].r
      BY <3>1, <3>2, <1>2 DEF K!Sound
    <3>5. s[p + i].r \in Nat
      BY <3>1, <1>2, UnitIs
    <3> QED BY <3>1, <3>3, <3>4, <3>5, <1>2
  <2>5. \A i \in DOMAIN (buf' \o sock \o out) : (buf' \o sock \o out)[i].r > handled + 1
    BY <2>4 DEF u, t
  <2> HIDE DEF K!NextRequest
  <2> QED BY <2>5 DEF K!KeptIsComplete
<1> QED BY <1>12, <1>15, <1>16, <1>17, <1>18 DEF ConnectionAt

\* A step of mg_read: what it passes, and what it leaves to be read.
LEMMA ReadOn ==
    ASSUME ConnTypes, NEW s \in Seq(K!Units), NEW q \in Nat, ConnectionAt(s, q), requestLen = 2, contentLen \in Nat,
           NEW k \in Nat, NEW d \in 0 .. Len(sock), ReadsPast(k, d), handled' = handled, mustClose' = mustClose, back' = back,
           pc' \in {"read", "callback", "discard", "trailer"}, pc' = "trailer" => isChunked' = 3,
           want' \in Nat, ret' \in Int, isChunked' \in 0 .. 4, body' \in Seq(K!Units),
           contentLen' \in Nat, contentLen' >= consumed + k, ContentIs(s, q)'
    PROVE  ConnTypes' /\ ConnectionAt(s, q)'
<1>1. /\ out' = out /\ buf' = buf /\ requestLen' = 2 /\ consumed' = consumed + k
      /\ consumed' \in Nat /\ sock' \in Seq(K!Units) /\ Lies(s, q)'
  <2>1. out' = out /\ buf' = buf /\ requestLen' = 2 /\ consumed' = consumed + k
    BY DEF ReadsPast
  <2>2. consumed \in Nat
    BY DEF ConnTypes
  <2>3. sock' \in Seq(K!Units) /\ Lies(s, q)'
    BY PassedLies DEF ConnectionAt
  <2> QED BY <2>1, <2>2, <2>3
<1>2. ConnTypes'
  <2>1. out' \in Seq(K!Units) /\ buf' \in Seq(K!Units) /\ Len(buf') <= BufSize /\ mustClose' \in BOOLEAN /\ handled' \in Nat
        /\ back' \in {"callback", "discard"} /\ requestLen' \in -2 .. Len(buf')
    BY <1>1 DEF ConnTypes
  <2>2. pc' \in K!Places
    BY DEF K!Places
  <2> QED BY <1>1, <2>1, <2>2 DEF ConnTypes
<1>3. RequestIs(s, q)'
  <2>1. 2 <= Len(buf') /\ \A i \in 1 .. 2 : buf'[i].r = handled' + 1 /\ buf'[i].b = 0
    BY <1>1 DEF ConnectionAt, RequestIs
  <2>2. contentLen' >= consumed' /\ contentLen' >= 0 /\ ~(contentLen' < 0)
    BY <1>1
  <2>3. pc' # "message" /\ pc' # "handle"
    OBVIOUS
  <2> QED BY <1>1, <2>1, <2>2, <2>3 DEF RequestIs
<1> QED BY <1>1, <1>2, <1>3 DEF ConnectionAt

\* mg_read without chunks.
LEMMA ReadPlainKeeps ==
    ASSUME K!ConnectionAssumption, ConnTypes, K!BodyIsTheClients, NEW s \in Streams, NEW q \in 0 .. Len(s),
           ConnectionAt(s, q), K!ReadPlain
    PROVE  ConnTypes' /\ K!BodyIsTheClients' /\ ConnectionAt(s, q)'
<1>1. pc = "read" /\ isChunked = 0 /\ requestLen = 2 /\ contentLen >= 0 /\ want \in Nat
  BY DEF K!ReadPlain, ConnectionAt, RequestIs, ReadPlaces, ConnTypes
<1>2. /\ s \in Seq(K!Units) /\ Len(s) \in Nat /\ q \in Nat
      /\ contentLen \in Nat /\ consumed \in Nat /\ contentLen >= consumed /\ ContentIs(s, q)
      /\ Lies(s, q) /\ handled \in Nat /\ s[q + 2].r = handled + 1
  BY <1>1, ReadingIs
<1>3. PICK r : r = K!Inner(want, contentLen)
  OBVIOUS
<1>16. /\ r.units \in Seq(K!Units) /\ Within(r.units, s, q + 2 + consumed)
       /\ (Len(r.units) > 0 => consumed + Len(r.units) <= contentLen) /\ r.received \in 0 .. Len(sock)
       /\ r.received = IF Len(K!Buffered) > Len(r.units) THEN 0 ELSE Len(r.units) - Len(K!Buffered)
  <2>1. requestLen = 2 /\ want \in Nat /\ contentLen \in Nat /\ s \in Seq(K!Units) /\ q \in Nat /\ Lies(s, q)
    BY <1>1, <1>2
  <2> QED BY <1>3, <2>1, InnerIs
<1>4. PICK k \in Nat : k = Len(r.units)
  BY <1>16
<1>5. /\ r.units \in Seq(K!Units) /\ Within(r.units, s, q + 2 + consumed)
      /\ (k > 0 => consumed + k <= contentLen) /\ r.received \in 0 .. Len(sock)
      /\ r.received = IF Len(K!Buffered) > k THEN 0 ELSE k - Len(K!Buffered)
  BY <1>4, <1>16
<1>6. /\ K!Take(r) /\ K!Keep(r.units) /\ isChunked' = 0 /\ contentLen' = contentLen /\ handled' = handled
      /\ mustClose' = mustClose /\ back' = back /\ out' = out /\ buf' = buf /\ requestLen' = requestLen
      /\ pc' = back /\ want' = 0 /\ (ret' = k \/ ret' = -1)
  BY <1>1, <1>3, <1>4 DEF K!ReadPlain, K!lenVars, K!ReturnRead
<1>7. ReadsPast(k, r.received)
  BY <1>4, <1>5, <1>6 DEF ReadsPast, K!Take
<1>8. PlainIs(s, q + 2)
  BY <1>1, <1>2 DEF ContentIs
<1>9. ASSUME back = "callback" PROVE Len(body) = consumed
  BY <1>1, <1>8, <1>9 DEF PlainIs, Getting
<1>10. ASSUME back = "callback", NEW j \in 1 .. Len(r.units)
       PROVE  r.units[j].r = handled + 1 /\ r.units[j].b = Len(body) + j
  <2>1. j \in Nat /\ 1 <= j /\ j <= k /\ q + 2 + consumed + j = q + 2 + (consumed + j)
    BY <1>2, <1>4
  <2>2. r.units[j] = s[q + 2 + consumed + j] /\ q + 2 + consumed + j \in DOMAIN s
    BY <1>5 DEF Within
  <2>3. consumed + j \in 1 .. contentLen /\ 0 + (consumed + j) = consumed + j
    BY <2>1, <1>2, <1>5, SMTT(30)
  <2>4. K!Content(s, q + 2, contentLen, 0)
    BY <1>8 DEF PlainIs
  <2>5. s[q + 2 + (consumed + j)].r = s[q + 2].r /\ s[q + 2 + (consumed + j)].b = 0 + (consumed + j)
    BY <2>1, <2>2, <2>3, <2>4 DEF K!Content
  <2> QED BY <2>1, <2>2, <2>3, <2>5, <1>2, <1>9, <1>10
<1>11. K!BodyIsTheClients' /\ body' \in Seq(K!Units) /\ (back = "callback" => Len(body') = Len(body) + k)
  BY <1>4, <1>5, <1>6, <1>10, BodyGrows
<1>12. consumed' = consumed + k
  BY <1>7 DEF ReadsPast
<1>13. contentLen >= consumed + k
  BY <1>2, <1>5
<1>14. ContentIs(s, q)'
  <2>1. Getting' => back = "callback"
    BY <1>6 DEF Getting, ConnTypes
  <2>2. PlainIs(s, q + 2)'
    BY <2>1, <1>6, <1>8, <1>9, <1>11, <1>12 DEF PlainIs
  <2> QED BY <2>2, <1>1, <1>6 DEF ContentIs
<1>15. pc' \in {"read", "callback", "discard", "trailer"} /\ pc' # "trailer" /\ want' \in Nat /\ ret' \in Int /\ isChunked' \in 0 .. 4
  BY <1>6 DEF ConnTypes
<1> QED BY <1>1, <1>2, <1>5, <1>6, <1>7, <1>11, <1>13, <1>14, <1>15, ReadOn

\* The unit that is tried for the line of a size, or for the end of a trailer.
LEMMA OneUnit ==
    ASSUME ConnTypes, NEW s \in Seq(K!Units), NEW q \in Nat, Lies(s, q),
           requestLen = 2, contentLen \in Nat, consumed = contentLen, NEW r, r = K!Inner(1, contentLen + 1), K!Take(r),
           UNCHANGED <<out, buf, requestLen>>
    PROVE  /\ \/ Len(r.units) = 0 /\ r.units = << >>
              \/ /\ Len(r.units) = 1 /\ r.units # << >>
                 /\ q + 2 + consumed + 1 \in DOMAIN s /\ r.units[1] = s[q + 2 + consumed + 1]
           /\ r.received \in 0 .. Len(sock) /\ ReadsPast(Len(r.units), r.received)
<1>1. 1 \in Nat /\ contentLen + 1 \in Nat
  OBVIOUS
<1>2. /\ r.units \in Seq(K!Units) /\ Within(r.units, s, q + 2 + consumed)
      /\ Len(r.units) <= 1 /\ r.received \in 0 .. Len(sock)
      /\ r.received = IF Len(K!Buffered) > Len(r.units) THEN 0 ELSE Len(r.units) - Len(K!Buffered)
  BY <1>1, InnerIs, ZenonT(60)
<1>3. Len(r.units) = 0 \/ Len(r.units) = 1
  <2>1. PICK k \in Nat : k = Len(r.units)
    BY <1>2
  <2>2. k <= 1
    BY <2>1, <1>2
  <2>3. k = 0 \/ k = 1
    BY <2>2
  <2> QED BY <2>1, <2>3
<1>4. ReadsPast(Len(r.units), r.received)
  BY <1>2 DEF ReadsPast, K!Take
<1>5. ASSUME Len(r.units) = 1
      PROVE  r.units # << >> /\ q + 2 + consumed + 1 \in DOMAIN s /\ r.units[1] = s[q + 2 + consumed + 1]
  <2>1. 1 \in DOMAIN r.units
    BY <1>2, <1>5
  <2> QED BY <2>1, <1>2 DEF Within
<1>6. Len(r.units) = 0 => r.units = << >>
  BY <1>2
<1> QED BY <1>2, <1>3, <1>4, <1>5, <1>6

\* The line of a chunk's size.
LEMMA ReadSizeKeeps ==
    ASSUME K!ConnectionAssumption, ConnTypes, K!BodyIsTheClients, NEW s \in Streams, NEW q \in 0 .. Len(s),
           ConnectionAt(s, q), K!ReadSize
    PROVE  ConnTypes' /\ K!BodyIsTheClients' /\ ConnectionAt(s, q)'
<1>1. pc = "read" /\ isChunked = 1 /\ requestLen = 2 /\ contentLen >= 0 /\ want \in Nat /\ ret \in Int /\ contentLen = consumed
      /\ body \in Seq(K!Units)
  BY DEF K!ReadSize, ConnectionAt, RequestIs, ReadPlaces, ConnTypes
<1>2. /\ K!Sound(s) /\ s \in Seq(K!Units) /\ Len(s) \in Nat /\ q \in Nat
      /\ contentLen \in Nat /\ consumed \in Nat /\ ContentIs(s, q) /\ Lies(s, q) /\ handled \in Nat
  BY <1>1, ReadingIs
<1>3. PICK r : r = K!Inner(1, contentLen + 1)
  OBVIOUS
<1> DEFINE size == r.units # << >> /\ r.units[1].k = "size"
           last == r.units # << >> /\ r.units[1].k = "last"
<1>4. /\ K!Take(r) /\ handled' = handled /\ mustClose' = mustClose /\ back' = back /\ body' = body
      /\ out' = out /\ buf' = buf /\ requestLen' = requestLen
      /\ contentLen' = contentLen + 1 + (IF size THEN r.units[1].n ELSE 0)
  BY <1>3 DEF K!ReadSize
<1>5. /\ size => isChunked' = 1 /\ want' = want /\ ret' = ret /\ pc' = "read"
      /\ ~size /\ last => isChunked' = 3 /\ pc' = "trailer" /\ want' = want /\ ret' = ret
      /\ ~size /\ ~last => isChunked' = 2 /\ ret' = -1 /\ want' = 0 /\ pc' = back
  <2>1. size => ~last
    OBVIOUS
  <2>2. CASE size
    BY <2>1, <2>2, <1>1, <1>3 DEF K!ReadSize
  <2>3. CASE ~size /\ last
    BY <2>3, <1>3 DEF K!ReadSize
  <2>4. CASE ~size /\ ~last
    BY <2>4, <1>3 DEF K!ReadSize, K!ReturnRead
  <2> QED BY <2>1, <2>2, <2>3, <2>4
<1>6. PICK p \in Nat : p = q + 2 + consumed
  BY <1>2
<1>7. /\ \/ Len(r.units) = 0 /\ r.units = << >>
         \/ Len(r.units) = 1 /\ r.units # << >> /\ p + 1 \in DOMAIN s /\ r.units[1] = s[p + 1]
      /\ r.received \in 0 .. Len(sock) /\ ReadsPast(Len(r.units), r.received)
  BY <1>1, <1>2, <1>3, <1>4, <1>6, OneUnit
<1>8. Len(r.units) \in Nat /\ consumed' = consumed + Len(r.units) /\ contentLen + 1 >= consumed + Len(r.units)
  <2>1. consumed' = consumed + Len(r.units)
    BY <1>7 DEF ReadsPast
  <2>2. Len(r.units) = 0 \/ Len(r.units) = 1
    BY <1>7
  <2>3. PICK k \in 0 .. 1 : k = Len(r.units)
    BY <2>2
  <2>4. contentLen + 1 >= consumed + k
    <3>1. k \in Nat /\ k <= 1
      OBVIOUS
    <3>2. contentLen = consumed /\ consumed \in Nat
      BY <1>1, <1>2
    <3> QED BY <3>1, <3>2
  <2> QED BY <2>1, <2>3, <2>4
<1>9. /\ K!Framing(s, p + 1, {"size", "last"}, handled + 1)
      /\ Getting /\ p + 1 \in DOMAIN s /\ s[p + 1].k = "size" => K!Before(s, p + 1) = Len(body)
  <2>1. ChunksAre(s, q + 2 + consumed)
    BY <1>1, <1>2 DEF ContentIs
  <2> QED BY <2>1, <1>1, <1>6 DEF ChunksAre
<1>10. K!BodyIsTheClients' /\ body' \in Seq(K!Units)
  BY <1>1, <1>4 DEF K!BodyIsTheClients
<1>11. ASSUME r.units # << >>
       PROVE  /\ Len(r.units) = 1 /\ p + 1 \in DOMAIN s /\ r.units[1] = s[p + 1]
              /\ s[p + 1].b = 0 /\ s[p + 1].r = handled + 1 /\ K!Follows(s, p + 1, handled + 1)
              /\ s[p + 1].n \in Nat
  <2>1. Len(r.units) = 1 /\ p + 1 \in DOMAIN s /\ r.units[1] = s[p + 1]
    BY <1>7, <1>11
  <2>2. s[p + 1].b = 0 /\ s[p + 1].r = handled + 1
    BY <2>1, <1>9 DEF K!Framing
  <2>3. K!Follows(s, p + 1, handled + 1)
    BY <2>1, <2>2, <1>2 DEF K!Sound
  <2>4. s[p + 1] \in K!Units
    BY <2>1, <1>2
  <2> QED BY <2>1, <2>2, <2>3, <2>4, UnitIs
<1>12. CASE size
  <2>1. PICK n \in Nat : n = s[p + 1].n
    BY <1>11, <1>12
  <2>2. contentLen' = contentLen + 1 + n /\ contentLen' \in Nat /\ consumed' = consumed + 1
    <3>1. Len(r.units) = 1 /\ r.units[1].n = n
      BY <2>1, <1>11, <1>12
    <3>2. contentLen' = contentLen + 1 + n
      BY <3>1, <1>4, <1>12
    <3> QED BY <3>1, <3>2, <1>2, <1>8
  <2>3. /\ n > 0 /\ K!Content(s, p + 1, n, K!Before(s, p + 1))
        /\ K!Framing(s, p + 1 + n + 1, {"crlf"}, handled + 1)
        /\ K!Framing(s, p + 1 + n + 2, {"size", "last"}, handled + 1)
        /\ s[p + 1].r = handled + 1
    BY <2>1, <1>11, <1>12 DEF K!Follows
  <2>4. contentLen' - consumed' = n /\ contentLen' > consumed' /\ contentLen' # consumed'
    <3>1. n > 0
      BY <2>3
    <3>2. contentLen' = consumed + 1 + n /\ consumed' = consumed + 1
      BY <2>2, <1>1
    <3> QED BY <3>1, <3>2, <1>2
  <2>5. Getting' => Getting /\ K!Before(s, p + 1) = Len(body)
    <3>1. Getting' => Getting
      BY <1>1, <1>4, <1>5, <1>12 DEF Getting
    <3>2. p + 1 \in DOMAIN s /\ s[p + 1].k = "size"
      BY <1>11, <1>12
    <3> QED BY <3>1, <3>2, <1>9
  <2>6. ASSUME Getting', NEW j \in 1 .. n, p + 1 + j \in DOMAIN s
        PROVE  s[p + 1 + j].r = handled + 1 /\ s[p + 1 + j].b = Len(body) + j
    BY <2>3, <2>5, <2>6 DEF K!Content
  <2>7. ChunksAre(s, p + 1)'
    BY <2>3, <2>4, <2>6, <1>4 DEF ChunksAre
  <2>8. ContentIs(s, q)'
    <3>1. q + 2 + consumed' = p + 1
      BY <2>2, <1>2, <1>6
    <3> QED BY <2>7, <3>1, <1>1, <1>4, <1>5, <1>12 DEF ContentIs
  <2>9. contentLen' >= consumed + Len(r.units) /\ isChunked' \in 0 .. 4 /\ want' \in Nat /\ ret' \in Int /\ pc' = "read"
    <3>1. isChunked' \in 0 .. 4 /\ want' \in Nat /\ ret' \in Int /\ pc' = "read"
      BY <1>1, <1>5, <1>12
    <3>2. Len(r.units) = 1
      BY <1>11, <1>12
    <3>3. contentLen' = consumed + 1 + n
      BY <2>2, <1>1
    <3>4. consumed + 1 + n >= consumed + 1
      BY <1>2
    <3> QED BY <3>1, <3>2, <3>3, <3>4
  <2> QED BY <1>1, <1>2, <1>4, <1>7, <1>8, <1>10, <2>2, <2>8, <2>9, ReadOn
<1>13. CASE ~size /\ last
  <2>1. contentLen' = contentLen + 1 /\ contentLen' \in Nat /\ consumed' = consumed + 1
    <3>1. ~size /\ Len(r.units) = 1
      BY <1>11, <1>13
    <3>2. contentLen' = contentLen + 1 + 0
      BY <3>1, <1>4
    <3> QED BY <3>1, <3>2, <1>2, <1>8
  <2>2. /\ K!Framing(s, p + 1 + 1, {"crlf", "field"}, handled + 1)
        /\ p + 1 + 1 \in DOMAIN s /\ s[p + 1 + 1].k = "crlf" => K!Framing(s, p + 1 + 2, {"head"}, handled + 1 + 1)
    BY <1>11, <1>13 DEF K!Follows
  <2>3. LastIs(s, p + 1)'
    <3>1. handled + 1 + 1 = handled + 2 /\ contentLen' = consumed'
      BY <2>1, <1>1, <1>2
    <3> QED BY <2>2, <3>1, <1>4 DEF LastIs
  <2>4. ContentIs(s, q)'
    <3>1. q + 2 + consumed' = p + 1
      BY <2>1, <1>2, <1>6
    <3> QED BY <2>3, <3>1, <1>1, <1>4, <1>5, <1>13 DEF ContentIs
  <2>5. contentLen' >= consumed + Len(r.units) /\ isChunked' = 3 /\ isChunked' \in 0 .. 4 /\ want' \in Nat /\ ret' \in Int /\ pc' = "trailer"
    BY <2>1, <1>1, <1>2, <1>5, <1>8, <1>13
  <2> QED BY <1>1, <1>2, <1>4, <1>7, <1>8, <1>10, <2>1, <2>4, <2>5, ReadOn
<1>14. CASE ~size /\ ~last
  <2>1. contentLen' = contentLen + 1 /\ contentLen' \in Nat
    BY <1>2, <1>4, <1>14
  <2>2. isChunked' = 2 /\ isChunked' \in 0 .. 4 /\ want' \in Nat /\ ret' \in Int /\ pc' \in {"callback", "discard"} /\ pc' # "trailer"
        /\ pc' \in {"read", "callback", "discard", "trailer"}
    BY <1>5, <1>14 DEF ConnTypes
  <2>3. ContentIs(s, q)'
    BY <2>2 DEF ContentIs
  <2>4. contentLen' >= consumed + Len(r.units)
    BY <2>1, <1>8
  <2> QED BY <1>1, <1>2, <1>4, <1>7, <1>8, <1>10, <2>1, <2>2, <2>3, <2>4, ReadOn
<1> QED BY <1>12, <1>13, <1>14

\* The unit behind the last chunk.
LEMMA ReadTrailerKeeps ==
    ASSUME K!ConnectionAssumption, ConnTypes, K!BodyIsTheClients, NEW s \in Streams, NEW q \in 0 .. Len(s),
           ConnectionAt(s, q), K!ReadTrailer
    PROVE  ConnTypes' /\ K!BodyIsTheClients' /\ ConnectionAt(s, q)'
<1>1. pc = "trailer" /\ isChunked = 3 /\ requestLen = 2 /\ contentLen >= 0 /\ ret \in Int /\ body \in Seq(K!Units)
  BY DEF K!ReadTrailer, ConnectionAt, RequestIs, ReadPlaces, ConnTypes
<1>2. /\ K!Sound(s) /\ s \in Seq(K!Units) /\ Len(s) \in Nat /\ q \in Nat
      /\ contentLen \in Nat /\ consumed \in Nat /\ ContentIs(s, q) /\ Lies(s, q) /\ handled \in Nat
  BY <1>1, ReadingIs
<1>3. PICK r : r = K!Inner(1, contentLen + 1)
  OBVIOUS
<1>4. /\ K!Take(r) /\ handled' = handled /\ mustClose' = mustClose /\ back' = back /\ body' = body
      /\ out' = out /\ buf' = buf /\ requestLen' = requestLen /\ contentLen' = contentLen + 1
      /\ isChunked' = (IF r.units # << >> /\ r.units[1].k = "crlf" THEN 4 ELSE 3)
      /\ ret' = ret /\ want' = 0 /\ pc' = back
  BY <1>3 DEF K!ReadTrailer, K!ReturnRead
<1>5. PICK p \in Nat : p = q + 2 + consumed
  BY <1>2
<1>6. /\ contentLen = consumed
      /\ p + 1 \in DOMAIN s /\ s[p + 1].k = "crlf" => K!Framing(s, p + 2, {"head"}, handled + 2)
  BY <1>1, <1>2, <1>5 DEF ContentIs, LastIs
<1>7. /\ \/ Len(r.units) = 0 /\ r.units = << >>
         \/ Len(r.units) = 1 /\ r.units # << >> /\ p + 1 \in DOMAIN s /\ r.units[1] = s[p + 1]
      /\ r.received \in 0 .. Len(sock) /\ ReadsPast(Len(r.units), r.received)
  BY <1>1, <1>2, <1>3, <1>4, <1>5, <1>6, OneUnit
<1>8. Len(r.units) \in Nat /\ consumed' = consumed + Len(r.units) /\ contentLen' >= consumed + Len(r.units) /\ contentLen' \in Nat
  <2>1. consumed' = consumed + Len(r.units)
    BY <1>7 DEF ReadsPast
  <2>2. Len(r.units) = 0 \/ Len(r.units) = 1
    BY <1>7
  <2>3. contentLen' = contentLen + 1
    BY <1>4
  <2>4. PICK k \in 0 .. 1 : k = Len(r.units)
    BY <2>2
  <2>5. contentLen' \in Nat /\ contentLen' >= consumed + k
    <3>1. k \in Nat /\ k <= 1
      OBVIOUS
    <3>2. contentLen = consumed /\ consumed \in Nat
      BY <1>2, <1>6
    <3> QED BY <2>3, <3>1, <3>2
  <2> QED BY <2>1, <2>4, <2>5
<1>9. K!BodyIsTheClients' /\ body' \in Seq(K!Units)
  BY <1>1, <1>4 DEF K!BodyIsTheClients
<1>10. pc' \in {"read", "callback", "discard", "trailer"} /\ pc' # "trailer" /\ isChunked' \in 0 .. 4 /\ isChunked' \in {3, 4}
       /\ want' \in Nat /\ ret' \in Int
  BY <1>1, <1>4 DEF ConnTypes
<1>11. ASSUME isChunked' = 4
       PROVE  contentLen' = consumed' /\ K!Framing(s, q + 2 + consumed' + 1, {"head"}, handled' + 2)
  <2>1. r.units # << >> /\ r.units[1].k = "crlf"
    BY <1>4, <1>11
  <2>2. consumed' = consumed + 1 /\ K!Framing(s, p + 2, {"head"}, handled + 2)
    BY <2>1, <1>6, <1>7, <1>8
  <2>3. q + 2 + consumed' + 1 = p + 2
    BY <2>2, <1>2, <1>5
  <2> QED BY <2>2, <2>3, <1>4, <1>6
<1>12. ContentIs(s, q)'
  BY <1>1, <1>4, <1>10, <1>11 DEF ContentIs
<1> QED BY <1>1, <1>2, <1>4, <1>7, <1>8, <1>9, <1>10, <1>12, ReadOn

\* What is left of what is left.
LEMMA RestOfRest ==
    ASSUME NEW t \in Seq(K!Units), NEW d \in 0 .. Len(t), NEW e \in 0 .. Len(t) - d
    PROVE  SubSeq(SubSeq(t, d + 1, Len(t)), e + 1, Len(t) - d) = SubSeq(t, d + e + 1, Len(t))
<1> DEFINE u == SubSeq(t, d + 1, Len(t))
           v == SubSeq(u, e + 1, Len(t) - d)
           w == SubSeq(t, d + e + 1, Len(t))
<1>1. Len(t) \in Nat /\ d + 1 \in 1 .. Len(t) + 1 /\ Len(t) \in (d + 1) - 1 .. Len(t) /\ Len(t) - (d + 1) + 1 = Len(t) - d
  BY SMTT(30)
<1>2. u \in Seq(K!Units) /\ Len(u) = Len(t) - d /\ \A j \in 1 .. Len(t) - d : u[j] = t[(d + 1) + j - 1]
  BY <1>1, PartIs
<1> HIDE DEF u
<1>3. e + 1 \in 1 .. Len(u) + 1 /\ Len(t) - d \in (e + 1) - 1 .. Len(u) /\ (Len(t) - d) - (e + 1) + 1 = Len(t) - d - e
  BY <1>1, <1>2, SMTT(30)
<1>4. v \in Seq(K!Units) /\ Len(v) = Len(t) - d - e /\ \A j \in 1 .. Len(t) - d - e : v[j] = u[(e + 1) + j - 1]
  BY <1>2, <1>3, PartIs, SMTT(30)
<1>5. d + e + 1 \in 1 .. Len(t) + 1 /\ Len(t) \in (d + e + 1) - 1 .. Len(t) /\ Len(t) - (d + e + 1) + 1 = Len(t) - d - e
  BY <1>1
<1>6. w \in Seq(K!Units) /\ Len(w) = Len(t) - d - e /\ \A j \in 1 .. Len(t) - d - e : w[j] = t[(d + e + 1) + j - 1]
  BY <1>5, PartIs
<1> HIDE DEF v, w
<1>7. ASSUME NEW j \in 1 .. Len(v) PROVE v[j] = w[j]
  <2>1. (e + 1) + j - 1 \in 1 .. Len(t) - d /\ (d + 1) + ((e + 1) + j - 1) - 1 = (d + e + 1) + j - 1
    BY <1>1, <1>4, <1>7
  <2> QED BY <2>1, <1>2, <1>4, <1>6, <1>7
<1>8. v = w
  BY <1>4, <1>6, <1>7, SeqEqual
<1> QED BY <1>8 DEF u, v, w

\* The unit behind a chunk: it is in the buffer, or has arrived.
Rest(d) == SubSeq(sock, d + 1, Len(sock))
NextUnit(n, d) ==
    IF Len(K!Buffered) > n THEN SubSeq(K!Buffered, n + 1, n + 1)
    ELSE IF stop THEN << >> ELSE SubSeq(Rest(d), 1, K!Least(1, Len(Rest(d))))

\* One, if there is one.
LEMMA LeastOfOne == ASSUME NEW l \in Nat, l > 0 PROVE K!Least(1, l) = 1
BY DEF K!Least

\* It is the next of the stream.
LEMMA NextUnitIs ==
    ASSUME ConnTypes, NEW s \in Seq(K!Units), NEW q \in Nat, Lies(s, q), requestLen = 2,
           NEW n \in Nat, NEW d \in 0 .. Len(sock), d = IF Len(K!Buffered) > n THEN 0 ELSE n - Len(K!Buffered),
           NEW p \in Nat, p = q + 2 + consumed
    PROVE  \/ NextUnit(n, d) = << >> /\ Len(NextUnit(n, d)) = 0
           \/ /\ NextUnit(n, d) # << >> /\ Len(NextUnit(n, d)) = 1
              /\ p + n + 1 \in DOMAIN s /\ NextUnit(n, d)[1] = s[p + n + 1]
              /\ Len(K!Buffered) > n \/ d < Len(sock)
<1>1. /\ K!Buffered \in Seq(K!Units) /\ Len(K!Buffered) \in Nat /\ Within(K!Buffered, s, p) /\ Received(s) = p + Len(K!Buffered)
      /\ sock \in Seq(K!Units) /\ Len(sock) \in Nat
  BY BufferedIs DEF ConnTypes
<1>2. CASE Len(K!Buffered) > n
  <2>1. Len(SubSeq(K!Buffered, n + 1, n + 1)) = 1 /\ SubSeq(K!Buffered, n + 1, n + 1) # << >>
        /\ SubSeq(K!Buffered, n + 1, n + 1)[1] = K!Buffered[n + 1]
    <3>1. K!Buffered \in Seq(K!Units) /\ n < Len(K!Buffered)
      BY <1>1, <1>2
    <3> QED BY <3>1, UnitAt
  <2>2. NextUnit(n, d) = SubSeq(K!Buffered, n + 1, n + 1)
    BY <1>2 DEF NextUnit
  <2>4. Len(NextUnit(n, d)) = 1 /\ NextUnit(n, d)[1] = K!Buffered[n + 1] /\ NextUnit(n, d) # << >>
    BY <2>1, <2>2, Zenon
  <2>5. p + (n + 1) \in DOMAIN s /\ K!Buffered[n + 1] = s[p + (n + 1)] /\ p + (n + 1) = p + n + 1
    BY <1>1, <1>2 DEF Within
  <2> QED BY <1>2, <2>4, <2>5
<1>3. CASE ~(Len(K!Buffered) > n)
  <2>1. d = n - Len(K!Buffered)
    BY <1>3
  <2>2. Rest(d) \in Seq(K!Units) /\ Len(Rest(d)) = Len(sock) - d /\ \A j \in 1 .. Len(sock) - d : Rest(d)[j] = sock[(d + 1) + j - 1]
    <3>1. d + 1 \in 1 .. Len(sock) + 1 /\ Len(sock) \in (d + 1) - 1 .. Len(sock) /\ Len(sock) - (d + 1) + 1 = Len(sock) - d
      BY <1>1, SMTT(30)
    <3>2. sock \in Seq(K!Units)
      BY <1>1
    <3>3. /\ SubSeq(sock, d + 1, Len(sock)) \in Seq(K!Units) /\ Len(SubSeq(sock, d + 1, Len(sock))) = Len(sock) - d
          /\ \A j \in 1 .. Len(sock) - d : SubSeq(sock, d + 1, Len(sock))[j] = sock[(d + 1) + j - 1]
      <4>1. /\ SubSeq(sock, d + 1, Len(sock)) \in Seq(K!Units)
            /\ Len(SubSeq(sock, d + 1, Len(sock))) = Len(sock) - (d + 1) + 1
            /\ \A j \in 1 .. Len(sock) - (d + 1) + 1 : SubSeq(sock, d + 1, Len(sock))[j] = sock[(d + 1) + j - 1]
        BY <3>1, <3>2, PartIs
      <4> QED BY <3>1, <4>1, ZenonT(60)
    <3> QED BY <3>3 DEF Rest
  <2>3. CASE stop \/ d = Len(sock)
    <3>1. NextUnit(n, d) = << >>
      <4>1. CASE stop
        BY <4>1, <1>3 DEF NextUnit
      <4>2. CASE ~stop /\ d = Len(sock)
        <5>1. Len(Rest(d)) = 0 /\ K!Least(1, Len(Rest(d))) = 0
          <6>1. Len(Rest(d)) = 0
            <7>1. Len(sock) - Len(sock) = 0
              BY <1>1
            <7> QED BY <4>2, <2>2, <7>1
          <6>2. K!Least(1, 0) = 0
            BY DEF K!Least
          <6> QED BY <6>1, <6>2
        <5>2. SubSeq(Rest(d), 1, 0) = << >>
          BY SubSeqEmpty
        <5> QED BY <4>2, <5>1, <5>2, <1>3 DEF NextUnit
      <4> QED BY <4>1, <4>2, <2>3
    <3> QED BY <3>1
  <2>4. CASE ~stop /\ d < Len(sock)
    <3>0. PICK l \in Nat : l = Len(Rest(d)) /\ l = Len(sock) - d
      <4>1. Len(sock) - d \in Nat
        BY <2>4, <1>1
      <4> QED BY <4>1, <2>2
    <3>9. l > 0
      BY <3>0, <2>4, <1>1
    <3>1. K!Least(1, Len(Rest(d))) = 1
      BY <3>0, <3>9, LeastOfOne
    <3>2. NextUnit(n, d) = SubSeq(Rest(d), 1, 1)
      BY <3>1, <2>4, <1>3 DEF NextUnit
    <3>3. 1 \in 1 .. Len(Rest(d)) + 1 /\ 1 \in 1 - 1 .. Len(Rest(d)) /\ 1 - 1 + 1 = 1 /\ 1 + 1 - 1 = 1 /\ 1 \in 1 .. 1
          /\ 1 \in 1 .. Len(sock) - d
      <4>1. 1 \in 1 .. l + 1 /\ 1 \in 1 - 1 .. l /\ 1 - 1 + 1 = 1 /\ 1 + 1 - 1 = 1 /\ 1 \in 1 .. 1 /\ 1 \in 1 .. l
        BY <3>9
      <4> QED BY <4>1, <3>0
    <3>4. SubSeq(Rest(d), 1, 1) \in Seq(K!Units) /\ Len(SubSeq(Rest(d), 1, 1)) = 1 - 1 + 1
          /\ \A j \in 1 .. 1 - 1 + 1 : SubSeq(Rest(d), 1, 1)[j] = Rest(d)[1 + j - 1]
      BY <2>2, <3>3, PartIs
    <3>5. Len(NextUnit(n, d)) = 1 /\ NextUnit(n, d)[1] = Rest(d)[1] /\ NextUnit(n, d) # << >>
      BY <3>2, <3>3, <3>4
    <3>6. Rest(d)[1] = sock[d + 1]
      <4>1. (d + 1) + 1 - 1 = d + 1
        OBVIOUS
      <4> QED BY <4>1, <3>3, <2>2
    <3>7. d + 1 \in DOMAIN sock /\ Received(s) + (d + 1) = p + n + 1
      BY <2>1, <2>4, <1>1
    <3>8. Within(sock, s, Received(s))
      BY DEF Lies
    <3>10. p + n + 1 \in DOMAIN s /\ sock[d + 1] = s[p + n + 1]
      BY <3>7, <3>8 DEF Within
    <3> QED BY <2>4, <3>5, <3>6, <3>10
  <2> QED BY <2>3, <2>4, <1>1
<1> QED BY <1>2, <1>3

\* The worker passes the units of a chunk, and what is behind them.
LEMMA PassesMore ==
    ASSUME ConnTypes, K!Buffered \in Seq(K!Units),
           NEW n \in Nat, NEW d \in 0 .. Len(sock), d = IF Len(K!Buffered) > n THEN 0 ELSE n - Len(K!Buffered),
           NEW e \in 0 .. 1, e = 1 => Len(K!Buffered) > n \/ d < Len(sock),
           sock' = IF Len(K!Buffered) > n THEN Rest(d) ELSE SubSeq(Rest(d), e + 1, Len(Rest(d))),
           consumed' = consumed + n + e, UNCHANGED <<out, buf, requestLen>>
    PROVE  \E k \in 0 .. Len(sock) : ReadsPast(n + e, k)
<1>1. Len(K!Buffered) \in Nat /\ sock \in Seq(K!Units) /\ Len(sock) \in Nat /\ consumed \in Nat
  BY DEF ConnTypes
<1>2. consumed + n + e = consumed + (n + e)
  BY <1>1
<1>3. CASE Len(K!Buffered) > n
  <2>1. d = 0 /\ 0 = (IF Len(K!Buffered) > n + e THEN 0 ELSE n + e - Len(K!Buffered))
    BY <1>1, <1>3
  <2>2. sock' = SubSeq(sock, 0 + 1, Len(sock))
    BY <1>3, <2>1 DEF Rest
  <2>3. ReadsPast(n + e, 0)
    BY <2>1, <2>2, <1>2, SMTT(30) DEF ReadsPast
  <2> QED BY <2>3, <1>1
<1>4. CASE ~(Len(K!Buffered) > n)
  <2>1. d = n - Len(K!Buffered) /\ e \in 0 .. Len(sock) - d
    BY <1>1, <1>4
  <2>2. d + e = (IF Len(K!Buffered) > n + e THEN 0 ELSE n + e - Len(K!Buffered)) /\ d + e \in 0 .. Len(sock)
    BY <1>1, <1>4, <2>1
  <2>3. Len(Rest(d)) = Len(sock) - d
    <3>1. d + 1 \in 1 .. Len(sock) + 1 /\ Len(sock) \in (d + 1) - 1 .. Len(sock) /\ Len(sock) - (d + 1) + 1 = Len(sock) - d
      BY <1>1
    <3> QED BY <3>1, <1>1, PartIs DEF Rest
  <2>4. sock' = SubSeq(sock, d + e + 1, Len(sock))
    BY <1>1, <1>4, <2>1, <2>3, RestOfRest DEF Rest
  <2>5. ReadsPast(n + e, d + e)
    <3>1. consumed' = consumed + (n + e) /\ UNCHANGED <<out, buf, requestLen>>
      BY <1>2
    <3>2. PICK x, k : x = n + e /\ k = d + e
      OBVIOUS
    <3>3. k = IF Len(K!Buffered) > x THEN 0 ELSE x - Len(K!Buffered)
      BY <3>2, <2>2
    <3>4. sock' = SubSeq(sock, k + 1, Len(sock)) /\ consumed' = consumed + x
      BY <3>1, <3>2, <2>4
    <3>5. ReadsPast(x, k)
      BY <3>1, <3>3, <3>4 DEF ReadsPast
    <3> QED BY <3>2, <3>5
  <2> QED BY <2>2, <2>5
<1> QED BY <1>3, <1>4

\* Data of a chunk and, behind the last of them, the line break.
LEMMA ReadChunkKeeps ==
    ASSUME K!ConnectionAssumption, ConnTypes, K!BodyIsTheClients, NEW s \in Streams, NEW q \in 0 .. Len(s),
           ConnectionAt(s, q), K!ReadChunk
    PROVE  ConnTypes' /\ K!BodyIsTheClients' /\ ConnectionAt(s, q)'
<1>1. pc = "read" /\ isChunked = 1 /\ requestLen = 2 /\ contentLen >= 0 /\ want \in Nat /\ ret \in Int /\ contentLen # consumed
      /\ body \in Seq(K!Units) /\ Len(body) \in Nat /\ back \in {"callback", "discard"}
  BY DEF K!ReadChunk, ConnectionAt, RequestIs, ReadPlaces, ConnTypes
<1>2. /\ s \in Seq(K!Units) /\ Len(s) \in Nat /\ q \in Nat
      /\ contentLen \in Nat /\ consumed \in Nat /\ contentLen >= consumed /\ ContentIs(s, q) /\ Lies(s, q) /\ handled \in Nat
  BY <1>1, ReadingIs
<1>3. PICK r : r = K!Inner(want, contentLen)
  OBVIOUS
<1>4. /\ r.units \in Seq(K!Units) /\ Within(r.units, s, q + 2 + consumed)
      /\ Len(r.units) <= want /\ (Len(r.units) > 0 => consumed + Len(r.units) <= contentLen)
      /\ r.received \in 0 .. Len(sock)
      /\ r.received = IF Len(K!Buffered) > Len(r.units) THEN 0 ELSE Len(r.units) - Len(K!Buffered)
  <2>1. requestLen = 2 /\ want \in Nat /\ contentLen \in Nat /\ s \in Seq(K!Units) /\ q \in Nat /\ Lies(s, q)
    BY <1>1, <1>2
  <2> QED BY <1>3, <2>1, InnerIs
<1>5. PICK p \in Nat, n \in Nat, m \in Nat, d \in 0 .. Len(sock) :
        p = q + 2 + consumed /\ n = Len(r.units) /\ m = contentLen - consumed /\ d = r.received
  <2>1. Len(r.units) \in Nat /\ r.received \in 0 .. Len(sock)
    BY <1>4
  <2>2. q + 2 + consumed \in Nat /\ contentLen - consumed \in Nat
    BY <1>2
  <2> QED BY <2>1, <2>2
<1>6. n <= want /\ n <= m /\ m > 0 /\ contentLen = consumed + m
  <2>1. m > 0 /\ contentLen = consumed + m /\ n <= want
    BY <1>1, <1>2, <1>4, <1>5
  <2>2. n > 0 => consumed + n <= contentLen
    BY <1>4, <1>5
  <2>3. n <= m
    BY <2>1, <2>2, <1>2, <1>5
  <2> QED BY <2>1, <2>3
<1>7. d = IF Len(K!Buffered) > n THEN 0 ELSE n - Len(K!Buffered)
  BY <1>4, <1>5
<1>8. PICK next : next = NextUnit(n, d)
  OBVIOUS
<1>9. PICK extra : extra = IF consumed + n = contentLen THEN next ELSE << >>
  OBVIOUS
<1>10. PICK broken \in BOOLEAN :
        broken = (n = 0 \/ (consumed + n = contentLen /\ (next = << >> \/ next[1].k # "crlf")))
  OBVIOUS
<1>11. /\ consumed' = consumed + n + Len(extra)
       /\ sock' = (IF Len(K!Buffered) > n THEN Rest(d) ELSE SubSeq(Rest(d), Len(extra) + 1, Len(Rest(d))))
       /\ contentLen' = (IF consumed + n = contentLen THEN contentLen + 1 ELSE contentLen)
       /\ K!Keep(r.units)
       /\ IF broken THEN isChunked' = 2 /\ K!ReturnRead(-1)
          ELSE want' = want - n /\ ret' = ret + n /\ isChunked' = isChunked /\ pc' = pc
  BY <1>3, <1>5, <1>8, <1>9, <1>10 DEF K!ReadChunk, NextUnit, Rest
<1>12. out' = out /\ buf' = buf /\ requestLen' = requestLen /\ mustClose' = mustClose /\ handled' = handled /\ back' = back
  BY DEF K!ReadChunk
<1>13. \/ next = << >> /\ Len(next) = 0
       \/ /\ next # << >> /\ Len(next) = 1 /\ p + n + 1 \in DOMAIN s /\ next[1] = s[p + n + 1]
          /\ Len(K!Buffered) > n \/ d < Len(sock)
  <2>1. p = q + 2 + consumed /\ s \in Seq(K!Units) /\ q \in Nat /\ Lies(s, q) /\ requestLen = 2
    BY <1>1, <1>2, <1>5
  <2>2. d = IF Len(K!Buffered) > n THEN 0 ELSE n - Len(K!Buffered)
    BY <1>7
  <2>3. \/ NextUnit(n, d) = << >> /\ Len(NextUnit(n, d)) = 0
        \/ /\ NextUnit(n, d) # << >> /\ Len(NextUnit(n, d)) = 1
           /\ p + n + 1 \in DOMAIN s /\ NextUnit(n, d)[1] = s[p + n + 1]
           /\ Len(K!Buffered) > n \/ d < Len(sock)
    BY <2>1, <2>2, NextUnitIs, SMTT(30)
  <2> QED BY <2>3, <1>8
<1>14. PICK e \in 0 .. 1 : e = Len(extra) /\ (e = 1 => extra = next /\ consumed + n = contentLen)
                           /\ (e = 1 => Len(K!Buffered) > n \/ d < Len(sock))
  BY <1>9, <1>13
<1>15. PICK k \in 0 .. Len(sock) : ReadsPast(n + e, k)
  <2>1. K!Buffered \in Seq(K!Units)
    BY <1>1, <1>2, BufferedIs
  <2>2. sock' = (IF Len(K!Buffered) > n THEN Rest(d) ELSE SubSeq(Rest(d), e + 1, Len(Rest(d))))
    BY <1>11, <1>14
  <2>3. consumed' = consumed + n + e /\ UNCHANGED <<out, buf, requestLen>>
    BY <1>11, <1>12, <1>14
  <2> QED BY <2>1, <2>2, <2>3, <1>7, <1>14, PassesMore
<1>16. /\ K!Framing(s, p + m + 1, {"crlf"}, handled + 1)
       /\ K!Framing(s, p + m + 2, {"size", "last"}, handled + 1)
       /\ back = "callback" => \A j \in 1 .. m : p + j \in DOMAIN s =>
            s[p + j].r = handled + 1 /\ s[p + j].b = Len(body) + j
  <2>1. ChunksAre(s, p)
    BY <1>1, <1>2, <1>5 DEF ContentIs
  <2>2. contentLen > consumed /\ contentLen - consumed = m
    BY <1>2, <1>5, <1>6
  <2>3. p + contentLen - consumed + 1 = p + m + 1 /\ p + contentLen - consumed + 2 = p + m + 2
    BY <1>2, <1>5
  <2>4. back = "callback" => Getting
    BY <1>1 DEF Getting
  <2> QED BY <2>1, <2>2, <2>3, <2>4 DEF ChunksAre
<1>17. ASSUME back = "callback", NEW j \in 1 .. Len(r.units)
       PROVE  r.units[j].r = handled + 1 /\ r.units[j].b = Len(body) + j
  <2>1. j \in 1 .. m
    BY <1>5, <1>6
  <2>2. p + j \in DOMAIN s /\ r.units[j] = s[p + j]
    BY <1>4, <1>5 DEF Within
  <2> QED BY <2>1, <2>2, <1>16, <1>17
<1>18. K!BodyIsTheClients' /\ body' \in Seq(K!Units) /\ (back = "callback" => Len(body') = Len(body) + n)
  BY <1>4, <1>5, <1>11, <1>12, <1>17, BodyGrows
<1>19. contentLen' \in Nat /\ contentLen' >= consumed + (n + e)
  <2>1. CASE n = m
    <3>1. contentLen' = consumed + m + 1
      BY <2>1, <1>2, <1>6, <1>11
    <3> QED BY <2>1, <3>1, <1>2
  <2>2. CASE n # m
    <3>1. consumed + n # contentLen
      BY <2>2, <1>2, <1>6
    <3>2. contentLen' = consumed + m /\ e = 0
      BY <3>1, <1>6, <1>11, <1>14
    <3> QED BY <3>2, <1>2, <1>6
  <2> QED BY <2>1, <2>2
<1>20. CASE broken
  <2>1. isChunked' = 2 /\ ret' = -1 /\ want' = 0 /\ pc' = back
    BY <1>11, <1>20 DEF K!ReturnRead
  <2>2. isChunked' \in 0 .. 4 /\ want' \in Nat /\ ret' \in Int
        /\ pc' \in {"read", "callback", "discard", "trailer"} /\ pc' # "trailer"
    BY <2>1, <1>1
  <2>3. ContentIs(s, q)'
    BY <2>1 DEF ContentIs
  <2> QED BY <2>2, <2>3, <1>1, <1>2, <1>12, <1>15, <1>18, <1>19, ReadOn
<1>21. CASE ~broken
  <2>1. isChunked' = 1 /\ pc' = "read" /\ want' = want - n /\ ret' = ret + n
    BY <1>1, <1>11, <1>21
  <2>2. isChunked' \in 0 .. 4 /\ want' \in Nat /\ ret' \in Int
        /\ pc' \in {"read", "callback", "discard", "trailer"} /\ pc' # "trailer"
    BY <2>1, <1>1, <1>6
  <2>3. consumed' = consumed + (n + e) /\ (Getting' => back = "callback")
    BY <2>1, <1>12, <1>15 DEF ReadsPast, Getting
  <2>4. ContentIs(s, q)'
    <3>1. CASE n = m
      <4>1. /\ consumed + n = contentLen /\ next # << >> /\ next[1].k = "crlf" /\ n > 0
        BY <3>1, <1>2, <1>6, <1>10, <1>21
      <4>2. e = 1 /\ p + n + 1 \in DOMAIN s /\ s[p + n + 1].k = "crlf"
        BY <4>1, <1>9, <1>13, <1>14
      <4>3. contentLen' = contentLen + 1 /\ contentLen' = consumed' /\ q + 2 + consumed' = p + n + 1
        <5>1. contentLen' = contentLen + 1 /\ consumed' = consumed + (n + 1) /\ contentLen = consumed + n /\ p = q + 2 + consumed
          BY <3>1, <4>1, <4>2, <2>3, <1>5, <1>6, <1>11
        <5> QED BY <5>1, <1>2
      <4>4. K!Framing(s, p + n + 1 + 1, {"size", "last"}, handled + 1)
        <5>1. p + m + 2 = p + n + 1 + 1
          BY <3>1
        <5> QED BY <5>1, <1>16
      <4>5. ASSUME back = "callback" PROVE K!Before(s, p + n + 1 + 1) = Len(body')
        <5>1. p + n + 1 + 1 - 1 = p + n + 1 /\ p + n + 1 + 1 - 2 = p + n /\ n \in 1 .. m
          BY <3>1, <4>1
        <5>2. K!Before(s, p + n + 1 + 1) = s[p + n].b
          BY <5>1, <4>2 DEF K!Before
        <5>3. n \in DOMAIN r.units
          BY <1>4, <1>5, <4>1
        <5>4. p + n \in DOMAIN s
          BY <5>3, <1>4, <1>5 DEF Within
        <5> QED BY <5>1, <5>2, <5>4, <4>5, <1>16, <1>18
      <4>6. ChunksAre(s, p + n + 1)'
        <5>1. ~(contentLen' > consumed')
          BY <4>3, <1>19
        <5>2. K!Framing(s, p + n + 1 + 1, {"size", "last"}, handled' + 1)
          BY <4>4, <1>12
        <5>3. Getting' => K!Before(s, p + n + 1 + 1) = Len(body')
          BY <4>5, <2>3
        <5> QED BY <5>1, <5>2, <5>3 DEF ChunksAre
      <4>7. q + 2 + consumed' = p + n + 1 /\ isChunked' = 1 /\ requestLen' = 2
        BY <4>3, <2>1, <1>1, <1>12
      <4>8. ChunksAre(s, q + requestLen + consumed)'
        BY <4>6, <4>7
      <4> QED BY <4>7, <4>8 DEF ContentIs
    <3>2. CASE n # m
      <4>1. contentLen' = contentLen /\ e = 0 /\ consumed' = consumed + n
        <5>1. consumed + n # contentLen
          BY <3>2, <1>2, <1>6
        <5> QED BY <5>1, <2>3, <1>11, <1>14
      <4>2. contentLen' - consumed' = m - n /\ contentLen' > consumed' /\ contentLen' # consumed' /\ q + 2 + consumed' = p + n
        <5>1. contentLen' = consumed + m /\ consumed' = consumed + n /\ p = q + 2 + consumed /\ n < m
          BY <3>2, <4>1, <1>5, <1>6
        <5> QED BY <5>1, <1>2
      <4>3. p + n + contentLen' - consumed' + 1 = p + m + 1 /\ p + n + contentLen' - consumed' + 2 = p + m + 2
        BY <4>1, <1>2, <1>6
      <4>4. ASSUME back = "callback", NEW j \in 1 .. m - n, p + n + j \in DOMAIN s
            PROVE  s[p + n + j].r = handled + 1 /\ s[p + n + j].b = Len(body') + j
        <5>1. n + j \in 1 .. m /\ p + (n + j) = p + n + j /\ Len(body) + (n + j) = (Len(body) + n) + j
          BY <1>1, <1>6, <4>4
        <5> QED BY <5>1, <4>4, <1>16, <1>18
      <4>5. ChunksAre(s, p + n)'
        BY <4>2, <4>3, <4>4, <2>3, <1>12, <1>16 DEF ChunksAre
      <4> QED BY <4>2, <4>5, <2>1, <1>1, <1>12 DEF ContentIs
    <3> QED BY <3>1, <3>2
  <2> QED BY <2>2, <2>4, <1>1, <1>2, <1>12, <1>15, <1>18, <1>19, ReadOn
<1> QED BY <1>20, <1>21

\* A client begins, and nothing has arrived.
LEMMA ConnectionBegins ==
    ASSUME K!ConnectionAssumption, K!Init
    PROVE  ConnInv
<1>1. PICK s \in Streams : out = s
  BY DEF K!Init
<1>2. /\ sock = << >> /\ buf = << >> /\ body = << >> /\ pc = "message" /\ requestLen = 0 /\ contentLen = -1
      /\ consumed = 0 /\ isChunked = 0 /\ mustClose = FALSE /\ handled = 0 /\ back = "callback" /\ want = 0 /\ ret = 1
  BY DEF K!Init
<1>3. s \in Seq(K!Units) /\ Len(s) \in Nat /\ K!Framing(s, 1, {"head"}, 1) /\ BufSize \in Nat
  BY DEF K!ConnectionAssumption, K!Sound
<1>4. << >> \in Seq(K!Units) /\ Len(<< >>) = 0 /\ DOMAIN << >> = {}
  OBVIOUS
<1>5. ConnTypes /\ K!BodyIsTheClients
  <2>1. out \in Seq(K!Units) /\ sock \in Seq(K!Units) /\ buf \in Seq(K!Units) /\ body \in Seq(K!Units) /\ Len(buf) <= BufSize
        /\ requestLen \in -2 .. Len(buf)
    BY <1>1, <1>2, <1>3, <1>4
  <2>2. pc \in K!Places /\ back \in {"callback", "discard"} /\ want \in Nat /\ ret \in Int /\ isChunked \in 0 .. 4
    BY <1>2 DEF K!Places
  <2>3. mustClose \in BOOLEAN /\ contentLen \in Nat \cup {-1} /\ consumed \in Nat /\ handled \in Nat
    BY <1>2
  <2> QED BY <2>1, <2>2, <2>3, <1>2, <1>4 DEF ConnTypes, K!BodyIsTheClients
<1>6. Lies(s, 0)
  <2>1. Received(s) = 0 /\ Passed = 0 /\ Len(s) - Len(out) = 0 /\ Len(buf) = 0
    <3>1. Len(out) = Len(s) /\ Len(sock) = 0 /\ Len(buf) = 0 /\ Passed = 0 + 0
      BY <1>1, <1>2, <1>4 DEF Passed
    <3>2. Len(s) - Len(s) = 0 /\ 0 - 0 = 0 /\ 0 + 0 = 0
      BY <1>3
    <3> QED BY <3>1, <3>2 DEF Received
  <2>2. Within(buf, s, 0) /\ Within(sock, s, 0)
    BY <1>2, <1>4 DEF Within
  <2>3. Within(out, s, 0)
    <3>1. ASSUME NEW j \in DOMAIN out PROVE 0 + j \in DOMAIN s /\ out[j] = s[0 + j]
      <4>1. j \in DOMAIN s /\ 0 + j = j
        BY <1>1, <1>3
      <4> QED BY <4>1, <1>1
    <3> QED BY <3>1 DEF Within
  <2> QED BY <2>1, <2>2, <2>3 DEF Lies
<1>7. RequestIs(s, 0)
  <2>1. K!Framing(s, 0 + 1, {"head"}, handled + 1)
    BY <1>2, <1>3
  <2> QED BY <2>1, <1>2 DEF RequestIs, ReadPlaces
<1>8. 0 \in 0 .. Len(s)
  BY <1>3
<1> QED BY <1>5, <1>6, <1>7, <1>8 DEF ConnInv, ConnectionAt

\* A step keeps the place in the stream, or moves it to the next request.
LEMMA ConnectionSteps ==
    ASSUME K!ConnectionAssumption, ConnInv, [K!Next]_(K!vars)
    PROVE  ConnInv' /\ K!KeptIsComplete
<1>1. ConnTypes /\ K!BodyIsTheClients
  BY DEF ConnInv
<1>0. PICK s \in Streams : \E q \in 0 .. Len(s) : ConnectionAt(s, q)
  BY DEF ConnInv
<1>2. PICK q \in 0 .. Len(s) : ConnectionAt(s, q)
  BY <1>0
<1>3. CASE K!NextRequest
  BY <1>1, <1>2, <1>3, NextRequestKeeps DEF ConnInv
<1>4. CASE ~K!NextRequest
  <2>1. ConnTypes' /\ K!BodyIsTheClients' /\ ConnectionAt(s, q)'
    <3>1. CASE K!Send
      BY <1>1, <1>2, <3>1, SendKeeps
    <3>2. CASE K!HangUp \/ K!Stop \/ K!HandleRequest \/ K!CallMgRead \/ K!CallbackReturns \/ K!Discard \/ K!ReadEnds \/ K!Close
      BY <1>1, <1>2, <3>2, StaysKeeps
    <3>3. CASE K!Receive
      BY <1>1, <1>2, <3>3, ReceiveKeeps
    <3>4. CASE K!NoMessage
      BY <1>1, <1>2, <3>4, NoMessageKeeps
    <3>5. CASE K!GetRequest
      BY <1>1, <1>2, <3>5, GetRequestKeeps
    <3>6. CASE K!ReadPlain
      BY <1>1, <1>2, <3>6, ReadPlainKeeps
    <3>7. CASE K!ReadChunk
      BY <1>1, <1>2, <3>7, ReadChunkKeeps
    <3>8. CASE K!ReadSize
      BY <1>1, <1>2, <3>8, ReadSizeKeeps
    <3>9. CASE K!ReadTrailer
      BY <1>1, <1>2, <3>9, ReadTrailerKeeps
    <3>10. CASE UNCHANGED K!vars
      <4>1. /\ out' = out /\ sock' = sock /\ buf' = buf /\ requestLen' = requestLen /\ contentLen' = contentLen
            /\ consumed' = consumed /\ isChunked' = isChunked /\ handled' = handled /\ body' = body
            /\ pc' = pc /\ back' = back /\ want' = want /\ ret' = ret /\ mustClose' = mustClose
        BY <3>10 DEF K!vars, K!clientVars, K!lenVars, K!readVars
      <4>2. ConnTypes' /\ K!BodyIsTheClients'
        BY <1>1, <4>1 DEF ConnTypes, K!BodyIsTheClients
      <4>3. Lies(s, q)'
        BY <1>2, <4>1, LiesStays DEF ConnectionAt
      <4>4. RequestIs(s, q)'
        <5>1. Getting' => Getting
          BY <4>1 DEF Getting
        <5> QED BY <1>2, <4>1, <5>1, RequestStays DEF ConnectionAt
      <4> QED BY <4>2, <4>3, <4>4 DEF ConnectionAt
    <3> QED BY <1>4, <3>1, <3>2, <3>3, <3>4, <3>5, <3>6, <3>7, <3>8, <3>9, <3>10 DEF K!Next, K!Worker, K!MgRead
  <2>2. ConnInv'
    BY <2>1 DEF ConnInv
  <2> QED BY <2>2, <1>4 DEF K!KeptIsComplete
<1> QED BY <1>3, <1>4

\* The invariant says what is to be shown of a connection.
LEMMA ConnInvIs ==
    ASSUME K!ConnectionAssumption, ConnInv
    PROVE  K!TypeOK /\ K!InStep /\ K!BodyIsTheClients
<1>0. PICK s \in Streams : \E q \in 0 .. Len(s) : ConnectionAt(s, q)
  BY DEF ConnInv
<1>1. PICK q \in 0 .. Len(s) : ConnectionAt(s, q)
  BY <1>0
<1>2. ASSUME pc = "handle", NEW i \in 1 .. 2 PROVE buf[i].r = handled + 1 /\ buf[i].b = 0
  <2>1. requestLen = 2
    BY <1>1, <1>2 DEF ConnectionAt, RequestIs, ReadPlaces
  <2> QED BY <1>1, <2>1, <1>2 DEF ConnectionAt, RequestIs
<1>3. K!TypeOK
  <2>1. ASSUME pc \in {"callback", "discard", "read", "trailer"} PROVE contentLen >= consumed
    <3>1. requestLen = 2 /\ contentLen >= 0
      BY <1>1, <2>1 DEF ConnectionAt, RequestIs, ReadPlaces
    <3> QED BY <1>1, <3>1 DEF ConnectionAt, RequestIs
  <2> QED BY <2>1 DEF ConnInv, ConnTypes, K!TypeOK
<1> QED BY <1>2, <1>3 DEF K!InStep, ConnInv

\* process_new_connection, get_request, mg_read, should_keep_alive, discard_unread_request_data:
\* however the units of the client's stream arrive, wherever it stops, and whatever the callbacks
\* read of the bodies, the n-th request that is handled is the n-th the client has sent, its
\* callback gets the body of that request from the beginning, and when the connection is kept
\* what is left, in the buffer, on the way and at the client, are later requests only.
THEOREM ConnectionSafe ==
    ASSUME K!ConnectionAssumption
    PROVE  K!Spec => [](K!TypeOK /\ K!InStep /\ K!BodyIsTheClients) /\ [][K!KeptIsComplete]_(K!vars)
<1>1. K!Init => ConnInv
  BY ConnectionBegins
<1>2. ConnInv /\ [K!Next]_(K!vars) => ConnInv' /\ [K!KeptIsComplete]_(K!vars)
  BY ConnectionSteps
<1>3. ConnInv => K!TypeOK /\ K!InStep /\ K!BodyIsTheClients
  BY ConnInvIs
<1> QED BY <1>1, <1>2, <1>3, PTL DEF K!Spec
-----------------------------------------------------------------------------
(* Websocket: its proofs are in WebsocketProofs, about the definitions that W and P name alike. *)

P == INSTANCE WebsocketProofs WITH got <- sgot, ReadSizes <- PullSizes

\* What is supposed of the constants is the same,
LEMMA SocketSupposes ==
    ASSUME W!WebsocketAssumption
    PROVE  P!WebsocketAssumption
BY DEF W!WebsocketAssumption, P!WebsocketAssumption, W!Ends, P!Ends, W!Shifts, P!Shifts,
       W!Ping, P!Ping, W!Pong, P!Pong

\* and so is the beginning,
LEMMA SocketBegins ==
    ASSUME W!Init
    PROVE  P!Init
BY DEF W!Init, P!Init, W!Ends, P!Ends, W!Free, P!Free

\* a step,
LEMMA SocketMoves ==
    ASSUME W!Next
    PROVE  P!Next
BY DEF W!Ends, P!Ends, W!Other, P!Other, W!Close, P!Close, W!Ping, P!Ping, W!Pong, P!Pong,
       W!Unit, P!Unit, W!Response, P!Response, W!Shifts, P!Shifts, W!Digits, P!Digits,
       W!Masks, P!Masks, W!Header, P!Header, W!Masked, P!Masked, W!Data, P!Data, W!MayLock,
       P!MayLock, W!SendHeader, P!SendHeader, W!SendData, P!SendData, W!SendFails,
       P!SendFails, W!Value, P!Value, W!MaskLen, P!MaskLen, W!Frame, P!Frame, W!Complete,
       P!Complete, W!Unmask, P!Unmask, W!Set, P!Set, W!Deliver, P!Deliver, W!GoesOn,
       P!GoesOn, W!Leave, P!Leave, W!TakeFrame, P!TakeFrame, W!NoMemory, P!NoMemory,
       W!Pieces, P!Pieces, W!Receive, P!Receive, W!Received, P!Received, W!PullFails,
       P!PullFails, W!Silent, P!Silent, W!Reading, P!Reading, W!Pull, P!Pull, W!PullRest,
       P!PullRest, W!PullFailed, P!PullFailed, W!TimedOut, P!TimedOut, W!SendPing,
       P!SendPing, W!SendPong, P!SendPong, W!Accept, P!Accept, W!Connect, P!Connect,
       W!AfterLoop, P!AfterLoop, W!Reader, P!Reader, W!Connected, P!Connected, W!AppSend,
       P!AppSend, W!AppClose, P!AppClose, W!Min, P!Min, W!Last, P!Last, W!Next, P!Next

\* and what is to be shown.
Uncut == \A e \in W!Ends : W!Whole(e)
LEMMA SocketMeans ==
    /\ P!TypeOK => W!TypeOK
    /\ Uncut => \A e \in P!Ends : P!Whole(e)
    /\ P!MessagesAreWhole => W!MessagesAreWhole
<1>1. P!TypeOK => W!TypeOK
  BY DEF W!TypeOK, P!TypeOK, W!Ends, P!Ends
<1>2. Uncut => \A e \in P!Ends : P!Whole(e)
  BY DEF Uncut, W!Whole, P!Whole, W!Ends, P!Ends
<1>3. P!MessagesAreWhole => W!MessagesAreWhole
  BY DEF W!MessagesAreWhole, P!MessagesAreWhole, W!Before, P!Before, W!Whole, P!Whole, W!Ends, P!Ends, W!Other,
         P!Other, W!IsPrefix, P!IsPrefix
<1> QED BY <1>1, <1>2, <1>3

\* The invariant of the websocket holds at the beginning,
LEMMA WebsocketBegins ==
    ASSUME W!WebsocketAssumption, W!Init
    PROVE  P!SocketHolds
BY SocketSupposes, SocketBegins, P!SocketBegins

\* is preserved by every step,
LEMMA WebsocketSteps ==
    ASSUME W!WebsocketAssumption, P!SocketHolds, [W!Next]_(W!vars)
    PROVE  P!SocketHolds'
<1>1. ASSUME W!Next PROVE P!SocketHolds'
  BY <1>1, SocketSupposes, SocketMoves, P!SocketGoesOn
<1>2. ASSUME UNCHANGED W!vars PROVE P!SocketHolds'
  <2>1. UNCHANGED P!vars
    BY <1>2 DEF W!vars, P!vars
  <2> QED BY <2>1, P!SocketRests
<1> QED BY <1>1, <1>2

\* and says what is to be shown.
LEMMA WebsocketInvIs ==
    ASSUME P!SocketHolds
    PROVE  W!TypeOK /\ (Uncut => W!MessagesAreWhole)
BY P!SocketPromises, SocketMeans

-----------------------------------------------------------------------------
(* The parts together *)

PartsInv ==
    /\ part = "handlers" => HandlersInv
    /\ part = "connection" => ConnInv
    /\ part = "cgi" => CgiInv
    /\ part = "client" => ClientInv
    /\ part = "spawn" => SpawnInv
    /\ part = "websocket" => P!SocketHolds

\* The part that runs begins in its invariant.
LEMMA PartsBegin ==
    ASSUME Init
    PROVE  PartsInv
<1>1. ASSUME part = "handlers" PROVE HandlersInv
  BY <1>1, PartsAssumption, HandlersBegin DEF Init
<1>2. ASSUME part = "connection" PROVE ConnInv
  BY <1>2, PartsAssumption, ConnectionBegins DEF Init
<1>3. ASSUME part = "cgi" PROVE CgiInv
  BY <1>3, PartsAssumption, CgiBegins DEF Init
<1>4. ASSUME part = "client" PROVE ClientInv
  BY <1>4, PartsAssumption, ClientBegins DEF Init
<1>5. ASSUME part = "spawn" PROVE SpawnInv
  BY <1>5, PartsAssumption, SpawnBegins DEF Init
<1>6. ASSUME part = "websocket" PROVE P!SocketHolds
  BY <1>6, PartsAssumption, WebsocketBegins DEF Init
<1> QED BY <1>1, <1>2, <1>3, <1>4, <1>5, <1>6 DEF PartsInv

\* A step is one of the part that runs.
LEMMA PartsStep ==
    ASSUME PartsInv, [Next]_vars
    PROVE  PartsInv' /\ (part = "connection" => K!KeptIsComplete)
<1>1. part' = part
  BY DEF Next, vars
<1>2. ASSUME part = "handlers" PROVE HandlersInv'
  <2>1. [H!Next]_(H!vars)
    BY <1>2 DEF Next, vars, handlersVars, H!vars
  <2> QED BY <1>2, <2>1, PartsAssumption, HandlersSteps DEF PartsInv
<1>3. ASSUME part = "connection" PROVE ConnInv' /\ K!KeptIsComplete
  <2>1. [K!Next]_(K!vars)
    BY <1>3 DEF Next, vars, connectionVars, K!vars, K!clientVars, K!lenVars, K!readVars
  <2> QED BY <1>3, <2>1, PartsAssumption, ConnectionSteps DEF PartsInv
<1>4. ASSUME part = "cgi" PROVE CgiInv'
  <2>1. [G!Next]_(G!vars)
    BY <1>4 DEF Next, vars, cgiVars, G!vars
  <2> QED BY <1>4, <2>1, PartsAssumption, CgiSteps DEF PartsInv
<1>5. ASSUME part = "client" PROVE ClientInv'
  <2>1. [C!Next]_(C!vars)
    BY <1>5 DEF Next, vars, clientVars, C!vars
  <2> QED BY <1>5, <2>1, PartsAssumption, ClientSteps DEF PartsInv
<1>6. ASSUME part = "spawn" PROVE SpawnInv'
  <2>1. [S!Next]_(S!vars)
    BY <1>6 DEF Next, vars, spawnVars, S!vars
  <2> QED BY <1>6, <2>1, PartsAssumption, SpawnSteps DEF PartsInv
<1>7. ASSUME part = "websocket" PROVE P!SocketHolds'
  <2>1. [W!Next]_(W!vars)
    BY <1>7 DEF Next, vars, socketVars, W!vars
  <2> QED BY <1>7, <2>1, PartsAssumption, WebsocketSteps DEF PartsInv
<1> QED BY <1>1, <1>2, <1>3, <1>4, <1>5, <1>6, <1>7 DEF PartsInv

\* The invariant says what is to be shown of the parts.
LEMMA PartsInvIs ==
    ASSUME PartsInv
    PROVE  /\ TypeOK /\ HandlersStay /\ GivenBack /\ ((part = "websocket" => Uncut) => MessagesAreWhole)
           /\ part = "connection" => K!InStep /\ K!BodyIsTheClients
BY PartsAssumption, HandlersInvIs, ConnInvIs, CgiInvIs, ClientInvIs, SpawnInvIs, WebsocketInvIs
   DEF PartsInv, TypeOK, HandlersStay, GivenBack, MessagesAreWhole

\* The part that runs is in its invariant.
THEOREM PartsInvariantHolds == Spec => []PartsInv
<1>1. Init => PartsInv
  BY PartsBegin
<1>2. PartsInv /\ [Next]_vars => PartsInv'
  BY PartsStep
<1> QED BY <1>1, <1>2, PTL DEF Spec

\* Everything has its type, and counts, lengths and places are within their bounds.
THEOREM TypeCorrect == Spec => []TypeOK
<1>1. PartsInv => TypeOK
  BY PartsInvIs
<1> QED BY <1>1, PartsInvariantHolds, PTL

\* The list of handlers has one entry for a type and a URI, and the entry whose callback a
\* request is about to call, or is calling, stays as it was found, as long as no reference was
\* given back twice.
THEOREM HandlersAreStable == Spec => []HandlersStay
<1>1. PartsInv => HandlersStay
  BY PartsInvIs
<1> QED BY <1>1, PartsInvariantHolds, PTL

\* A CGI request ends after its process, whose data are freed once, and the client gets all
\* that the program wrote, or nothing if there was no room for its environment; a client gives
\* back what it has taken, wherever it fails; and the program of a request holds no other pipes
\* but those that were open when it was forked.
THEOREM EverythingGivenBack == Spec => []GivenBack
<1>1. PartsInv => GivenBack
  BY PartsInvIs
<1> QED BY <1>1, PartsInvariantHolds, PTL

\* A websocket's callbacks are given what the other end has sent, whole and in order, as long
\* as no write was cut.
THEOREM MessagesArrive == Spec => []((part = "websocket" => Uncut) => MessagesAreWhole)
<1>1. PartsInv => ((part = "websocket" => Uncut) => MessagesAreWhole)
  BY PartsInvIs
<1> QED BY <1>1, PartsInvariantHolds, PTL

\* The n-th request that a worker handles is the n-th that the client has sent, its callback
\* gets the body of that request, and a connection that is kept has nothing left of it.
THEOREM ConnectionsStayInStep == Spec => InStep
<1> DEFINE B == part = "connection" => K!InStep /\ K!BodyIsTheClients
           A == part = "connection" => K!InStep' /\ K!BodyIsTheClients' /\ K!KeptIsComplete
<1>1. PartsInv => B
  BY PartsInvIs
<1>2. PartsInv /\ B' /\ [Next]_vars => [A]_vars
  <2>1. SUFFICES ASSUME PartsInv, B', Next PROVE A
    BY DEF A
  <2>2. part' = part
    BY <2>1 DEF Next
  <2>3. part = "connection" => K!InStep' /\ K!BodyIsTheClients'
    BY <2>1, <2>2
  <2>4. part = "connection" => K!KeptIsComplete
    BY <2>1, PartsStep
  <2> QED BY <2>3, <2>4
<1>3. Spec => [][Next]_vars
  BY DEF Spec
<1>4. Spec => [][A]_vars
  <2> HIDE DEF A, B
  <2> QED BY <1>1, <1>2, <1>3, PartsInvariantHolds, PTL
<1> QED BY <1>4 DEF InStep, A
=============================================================================
