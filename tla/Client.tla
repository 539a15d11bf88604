------------------------------- MODULE Client -------------------------------
(***************************************************************************)
(* The client of civetweb.c: a connection is opened step by step, each of  *)
(* which may fail and then has to give back what the steps before it took; *)
(* a download or a websocket goes on from there; a websocket has a thread  *)
(* of its own that reads until it is closed.  The user calls one function, *)
(* and mg_close_connection if it gave a connection.                        *)
(***************************************************************************)
EXTENDS Naturals, Sequences, FiniteSets

CONSTANTS
  Calls,       \* [f |-> "connect", "get", "download" or "websocket", tls, cert, ca |-> BOOLEAN,
               \*  wrong |-> "" or what is wrong with the arguments]
  MaxTries,    \* how often a handshake is tried: sslize
  MaxGets,     \* bound: the responses the user asks for on one connection
  MaxMessages  \* bound: the messages a websocket is sent

VARIABLES
  user,    \* [call, at: the step, tries, gets, text: what was written to ebuf, ret]
  held,    \* what the process has: the connection with its context, the socket, ...
  link,    \* [type: of the context, stop: its stop_flag, mustClose, timeout: REQUEST_TIMEOUT]
  thread,  \* [at, messages, closes]: websocket_client_thread
  misuse   \* something was used, or given back, that the process does not have

vars == <<user, held, link, thread, misuse>>

NoThread == [at |-> "none", messages |-> 0, closes |-> 0]

Init ==
  /\ \E c \in Calls : user = [call |-> c, at |-> "arguments", tries |-> 0, gets |-> 0,
                              text |-> "", ret |-> "none"]
  /\ held = {} /\ thread = NoThread /\ misuse = FALSE
  /\ link = [type |-> "http", stop |-> 0, mustClose |-> FALSE, timeout |-> "none"]

Call == user.call
At(step) == user.at = step
Goto(step) == [user EXCEPT !.at = step]
Keeps(resources) == held' = held \cup resources /\ UNCHANGED misuse
Drops(resources) == held' = held \ resources /\ misuse' = (misuse \/ ~resources \subseteq held)
Fails(text) == user' = [user EXCEPT !.at = "failed", !.text = IF text = "" THEN @ ELSE text]
-----------------------------------------------------------------------------
(* mg_connect_client2, mg_connect_client_impl, connect_socket *)

Alloc ==
  /\ At("arguments")
  /\ \/ Call.wrong = "protocol" /\ Fails("protocol") /\ UNCHANGED <<held, misuse>>
     \/ Call.wrong # "protocol" /\ Fails("memory") /\ UNCHANGED <<held, misuse>>
     \/ Call.wrong # "protocol" /\ user' = Goto("socket") /\ Keeps({"connection"})
  /\ UNCHANGED <<link, thread>>

\* The host, the port and the TLS library are looked at before anything is opened.
Socket ==
  /\ At("socket")
  /\ IF Call.wrong # "" THEN Fails(Call.wrong) /\ Drops({"connection"})
     ELSE \/ Fails("socket") /\ Drops({"connection"})
          \/ user' = Goto("nonblocking") /\ Keeps({"socket"})
  /\ UNCHANGED <<link, thread>>

\* Mutated: the socket stays open.
ClosedNever == {"connection"}

Closed == {"socket", "connection"}

\* set_non_blocking_mode, connect, mg_poll and getsockopt.
ConnectSocket ==
  /\ user.at \in {"nonblocking", "connecting", "polling"}
  /\ \/ /\ user' = Goto(CASE At("nonblocking") -> "connecting" [] OTHER -> "connected")
        /\ UNCHANGED <<held, misuse>>
     \/ At("connecting") /\ user' = Goto("polling") /\ UNCHANGED <<held, misuse>>
     \/ Fails(IF At("polling") THEN "timeout" ELSE "connect") /\ Drops(Closed)
  /\ UNCHANGED <<link, thread>>

Context ==
  /\ At("connected")
  /\ IF Call.tls
     THEN \/ Fails("context") /\ Drops(Closed)
          \/ user' = Goto("mutex") /\ Keeps({"context"})
     ELSE user' = Goto("mutex") /\ UNCHANGED <<held, misuse>>
  /\ UNCHANGED <<link, thread>>

\* Mutated: the TLS context is forgotten.
SecuredNever == {}

Secured == IF Call.tls THEN {"context"} ELSE {}

Mutex ==
  /\ At("mutex")
  /\ \/ Fails("mutex") /\ Drops(Closed \cup Secured)
     \/ user' = Goto(IF Call.tls THEN "certificate" ELSE "open") /\ Keeps({"mutex"})
  /\ UNCHANGED <<link, thread>>

\* The mutex is not destroyed; the failure of the CA file is not told.
Certificates ==
  /\ user.at \in {"certificate", "ca"}
  /\ \/ user' = Goto(IF At("certificate") THEN "ca" ELSE "session") /\ UNCHANGED <<held, misuse>>
     \/ /\ IF At("certificate") THEN Call.cert ELSE Call.ca
        /\ Fails(IF At("certificate") THEN "certificate" ELSE "")
        /\ Drops(Closed \cup Secured)
  /\ UNCHANGED <<link, thread>>

\* sslize
Session ==
  /\ At("session")
  /\ \/ Fails("handshake") /\ Drops(Closed \cup Secured)
     \/ user' = Goto("handshake") /\ Keeps({"session"})
  /\ UNCHANGED <<link, thread>>

Handshake ==
  /\ At("handshake")
  /\ \/ user' = Goto("open") /\ UNCHANGED <<held, misuse>>
     \/ /\ user.tries + 1 < MaxTries
        /\ user' = [user EXCEPT !.tries = @ + 1] /\ UNCHANGED <<held, misuse>>
     \/ Fails("handshake") /\ Drops(Closed \cup Secured \cup {"session"})
  /\ UNCHANGED <<link, thread>>
-----------------------------------------------------------------------------
(* mg_download, mg_get_response, mg_connect_websocket_client_impl *)

Open ==
  /\ At("open")
  /\ user' = CASE Call.f = "connect" -> [user EXCEPT !.at = "returned", !.ret = "connection"]
               [] Call.f = "get" -> [user EXCEPT !.at = "returned", !.ret = "connection"]
               [] OTHER -> Goto("request")
  /\ UNCHANGED <<held, link, thread, misuse>>

Request ==
  /\ At("request")
  /\ \/ user' = Goto("response")
     \/ user' = [user EXCEPT !.at = "close failed", !.text = "request"]
  /\ misuse' = (misuse \/ "connection" \notin held)
  /\ UNCHANGED <<held, link, thread>>

\* get_response: 101 is the answer a websocket waits for.
Response ==
  /\ At("response")
  /\ \/ user' = [user EXCEPT !.at = "close failed", !.text = "response"]
     \/ Call.f = "download" /\ user' = [user EXCEPT !.at = "returned", !.ret = "connection"]
     \/ Call.f = "websocket" /\ user' = [user EXCEPT !.at = "close failed", !.text = "reply"]
     \/ Call.f = "websocket" /\ user' = Goto("thread data")
  /\ UNCHANGED <<held, link, thread, misuse>>

\* Mutated: the timeout of the call stays, a pointer to the function's locals.
RestoredNever(old) == "given"

Restored(old) == old

\* mg_get_response, with a timeout or without: the one of the context is put back.
GetResponse ==
  /\ At("returned") /\ Call.f = "get" /\ user.gets < MaxGets
  /\ user' = [user EXCEPT !.gets = @ + 1, !.at = "getting", !.text = ""]
  /\ link' = [link EXCEPT !.timeout = "given"]
  /\ UNCHANGED <<held, thread, misuse>>

GotResponse ==
  /\ At("getting")
  /\ \E text \in {"", "response"} : user' = [user EXCEPT !.at = "returned", !.text = text]
  /\ link' = [link EXCEPT !.timeout = Restored("none")]
  /\ UNCHANGED <<held, thread, misuse>>

\* Nothing is said of a lack of memory.
ThreadData ==
  /\ user.at \in {"thread data", "thread ids"}
  /\ IF At("thread data")
     THEN \/ user' = Goto("close failed") /\ UNCHANGED <<held, misuse>>
          \/ user' = Goto("thread ids") /\ Keeps({"data"})
     ELSE \/ user' = Goto("close failed") /\ Drops({"data"})
          \/ user' = Goto("thread") /\ Keeps({"ids"})
  /\ UNCHANGED <<link, thread>>

\* The context is the websocket's before the thread runs, or does not.
StartThread ==
  /\ At("thread")
  /\ link' = [link EXCEPT !.type = "websocket"]
  /\ \/ /\ user' = [user EXCEPT !.at = "returned", !.ret = "connection"]
        /\ thread' = [thread EXCEPT !.at = "reading"]
        /\ UNCHANGED <<held, misuse>>
     \/ user' = Goto("close failed") /\ Drops({"data"}) /\ UNCHANGED thread
-----------------------------------------------------------------------------
(* mg_close_connection, called by the user or after a failure *)

CloseConnection ==
  /\ At("close failed") \/ (At("returned") /\ user.ret = "connection")
  /\ user' = [user EXCEPT !.at = IF link.type = "websocket" /\ thread.at # "none"
                                 THEN "joining" ELSE "closing"]
  /\ link' = IF link.type = "websocket" THEN [link EXCEPT !.stop = 1, !.mustClose = TRUE] ELSE link
  /\ misuse' = (misuse \/ "connection" \notin held)
  /\ UNCHANGED <<held, thread>>

\* Mutated: the thread is not waited for.
JoinsNever == TRUE

Joins == thread.at = "ended"

Join ==
  /\ At("joining") /\ Joins
  /\ user' = Goto("closing")
  /\ UNCHANGED <<held, link, thread, misuse>>

\* close_connection
CloseSocket ==
  /\ At("closing")
  /\ Drops({"socket"} \cup (held \cap {"session"}))
  /\ link' = [link EXCEPT !.mustClose = TRUE]
  /\ user' = Goto("freeing")
  /\ UNCHANGED thread

\* Mutated: the array of thread identifiers stays.
FreedAsHttp == held \cap {"context"}

Freed == IF link.type = "websocket" THEN (held \cap {"context"}) \cup {"ids"}
         ELSE held \cap {"context"}

Free ==
  /\ At("freeing")
  /\ Drops(Freed \cup {"mutex", "connection"})
  /\ user' = [user EXCEPT !.at = "done", !.ret = IF @ = "connection" THEN "closed" ELSE "null"]
  /\ UNCHANGED <<link, thread>>

\* mg_connect_websocket_client_impl names an error if the connection named none.
Failed ==
  /\ At("failed")
  /\ user' = [user EXCEPT !.at = "done", !.ret = "null",
                !.text = IF Call.f = "websocket" /\ @ = "" THEN "unexpected" ELSE @]
  /\ UNCHANGED <<held, link, thread, misuse>>

User ==
  \/ Alloc \/ Socket \/ ConnectSocket \/ Context \/ Mutex \/ Certificates \/ Session \/ Handshake
  \/ Open \/ Request \/ Response \/ GetResponse \/ GotResponse \/ ThreadData \/ StartThread
  \/ CloseConnection \/ Join \/ CloseSocket \/ Free \/ Failed
-----------------------------------------------------------------------------
(* websocket_client_thread *)

Uses == misuse' = (misuse \/ ~{"connection", "socket", "data"} \subseteq held)

\* A message is handed to the callback; it, the end of the connection or a close frame
\* ends the loop, as the flags do.
Reads ==
  /\ thread.at = "reading" /\ Uses
  /\ \/ /\ link.stop = 0 /\ ~link.mustClose /\ thread.messages < MaxMessages
        /\ thread' = [thread EXCEPT !.messages = @ + 1]
     \/ thread' = [thread EXCEPT !.at = "closing"]
  /\ UNCHANGED <<user, held, link>>

Closes ==
  /\ thread.at = "closing" /\ Uses
  /\ thread' = [thread EXCEPT !.at = "stopping", !.closes = @ + 1]
  /\ UNCHANGED <<user, held, link>>

Stops ==
  /\ thread.at = "stopping"
  /\ link' = [link EXCEPT !.stop = 2]
  /\ misuse' = (misuse \/ "connection" \notin held)
  /\ thread' = [thread EXCEPT !.at = "freeing"]
  /\ UNCHANGED <<user, held>>

Frees ==
  /\ thread.at = "freeing" /\ Drops({"data"})
  /\ thread' = [thread EXCEPT !.at = "ended"]
  /\ UNCHANGED <<user, link>>

Thread == Reads \/ Closes \/ Stops \/ Frees

Next == User \/ Thread
Spec == Init /\ [][Next]_vars /\ WF_vars(Thread) /\ WF_vars(Join) /\ WF_vars(CloseSocket) /\ WF_vars(Free)
-----------------------------------------------------------------------------
Steps == {"arguments", "socket", "nonblocking", "connecting", "polling", "connected", "mutex",
          "certificate", "ca", "session", "handshake", "open", "request", "response",
          "getting", "thread data", "thread ids", "thread", "returned", "close failed",
          "joining", "closing", "freeing", "failed", "done"}

ClientAssumption ==
  /\ MaxTries \in Nat \ {0} /\ MaxGets \in Nat
  /\ Calls \subseteq [f : {"connect", "get", "download", "websocket"}, tls : BOOLEAN,
                      cert : BOOLEAN, ca : BOOLEAN, wrong : {"", "protocol", "host"}]

\* The steps and the threads are where they can be.
TypeOK ==
  /\ user.at \in Steps /\ user.tries < MaxTries /\ user.gets <= MaxGets
  /\ held \subseteq {"connection", "socket", "context", "mutex", "session", "data", "ids"}
  /\ thread.at \in {"none", "reading", "closing", "stopping", "freeing", "ended"}
  /\ thread.closes <= 1 /\ link.stop \in 0 .. 2

\* Wherever an attempt fails, and when a connection is closed, everything is given back
\* that was taken, once, and nothing is used after that; only the mutex of a TLS
\* connection that failed is not destroyed.
NothingIsLeft ==
  /\ ~misuse
  /\ At("done") => /\ held \subseteq (IF Call.tls /\ user.ret = "null" THEN {"mutex"} ELSE {})
                   /\ thread.at \in {"none", "ended"}
                   /\ thread.at = "ended" <=> thread.closes = 1

\* A connection is only given if nothing went wrong, and is whole then; an attempt that
\* fails says why, but for the CA file and the lack of memory for the thread; the timeout
\* of a call for a response does not outlive it.
ConnectionsAreWhole ==
  /\ At("returned") =>
       /\ {"connection", "socket", "mutex"} \subseteq held
       /\ Call.tls => {"context", "session"} \subseteq held
       /\ Call.f # "get" => user.text = ""
       /\ Call.f = "websocket" => thread.at # "none"
       /\ link.timeout = "none"
  /\ At("done") /\ user.ret = "null" /\ user.text = "" =>
       IF Call.f = "websocket" THEN link.mustClose ELSE Call.tls /\ Call.ca

\* connect_socket, sslize and mg_close_connection, together.
GivenBack == NothingIsLeft /\ ConnectionsAreWhole

\* mg_close_connection returns, though the thread may be in a callback.
ClosesEnd == At("joining") ~> At("done")
=============================================================================
