------------------------------- MODULE MCCivet -------------------------------
(***************************************************************************)
(* Small instances of the parts of Civet, and one part more: a form.       *)
(***************************************************************************)
EXTENDS Civet, SequencesExt

VARIABLES
  form, left, slow, turn, place, fbuf, from, next, allRead, storage,
  count, fstore, got, stored, result

formsVars == <<form, left, slow, turn, place, fbuf, from, next, allRead, storage,
               count, fstore, got, stored, result>>
-----------------------------------------------------------------------------
(* Handlers: a request for /a/b, and calls that concern it *)

Uri == <<"/", "a">>
Below == <<"/", "a", "/", "b">>
MCHandlerUris == {Uri, Below}
MCRequestUris == {Below}
MCCalls == {[type |-> "auth", uri |-> Uri, delete |-> FALSE],
            [type |-> "request", uri |-> Uri, delete |-> FALSE],
            [type |-> "request", uri |-> Uri, delete |-> TRUE]}
MCMatches(step, h, u) ==
  CASE step = 0 -> h = u
    [] step = 1 -> IsPrefix(Append(h, "/"), u)
    [] step = 2 -> IsPrefix(h, u)
-----------------------------------------------------------------------------
(* Connection: requests with and without chunks, whose bodies look like headers *)

Unit(k, r, b, n) == [k |-> k, r |-> r, b |-> b, n |-> n]
Framed(r, framing, n, keep) ==
  <<Unit("head", r, 0, 0),
    [k |-> "end", r |-> r, b |-> 0, n |-> n, framing |-> framing, keep |-> keep]>>
Part(r, from0, ks) == [i \in DOMAIN ks |-> Unit(ks[i], r, from0 + i, 0)]
Plain(r, ks) == Framed(r, "length", Len(ks), TRUE) \o Part(r, 0, ks)
Chunk(r, from0, ks) == <<Unit("size", r, 0, Len(ks))>> \o Part(r, from0, ks) \o <<Unit("crlf", r, 0, 0)>>
Chunked(r, a, b) == Framed(r, "chunked", 0, TRUE) \o Chunk(r, 0, a) \o Chunk(r, Len(a), b)
                    \o <<Unit("last", r, 0, 0), Unit("crlf", r, 0, 0)>>
Get(r) == Framed(r, "none", 0, TRUE)
Final(r) == Framed(r, "none", 0, FALSE)
Trailed(r, ks) == Framed(r, "chunked", 0, TRUE) \o Chunk(r, 0, ks)
                  \o <<Unit("last", r, 0, 0), Unit("field", r, 0, 0), Unit("crlf", r, 0, 0)>>

MCStreams ==
  {Get(1) \o Plain(2, <<"head", "end", "x">>) \o Final(3),
   Plain(1, <<"head", "end">>) \o Chunked(2, <<"head", "end">>, <<"last">>) \o Final(3),
   Chunked(1, <<"head", "end">>, <<"crlf">>) \o Get(2) \o Framed(3, "bad", 0, TRUE),
   Trailed(1, <<"end">>) \o Get(2)}
-----------------------------------------------------------------------------
(* Forms: values that look like a boundary, and escapes that may be cut *)

Boundary == <<"b", "c">>
Field(v) == <<"crlf", "--">> \o Boundary \o <<"crlf", "head", "empty">> \o v
Multipart(vs) ==
  [kind |-> "multipart", values |-> vs,
   units |-> Tail(FlattenSeq([i \in DOMAIN vs |-> Field(vs[i])])
                  \o <<"crlf", "--">> \o Boundary \o <<"--", "crlf">>)]
Pairs(kind, vs) ==
  [kind |-> kind, values |-> vs,
   units |-> FlattenSeq([i \in DOMAIN vs |->
               (IF i = 1 THEN << >> ELSE <<"&">>) \o <<"key", "=">> \o vs[i]])]
Esc == <<"%", "4", "1">>

M == INSTANCE Forms WITH
  Bodies <- {Multipart(<< <<"a", "crlf", "--", "b", "crlf", "--", "b", "b", "c">>, << >> >>),
             Multipart(<< <<"a", "empty", "crlf", "crlf", "--", "--">>, <<"a">> >>),
             Pairs("urlencoded", << <<"a">> \o Esc \o <<"b">> \o Esc \o Esc \o Esc, Esc >>),
             Pairs("urlencoded", << << >>, Esc \o Esc \o Esc \o Esc >>),
             Pairs("query", << <<"a">>, Esc, <<"b">> >>)},
  Cap <- 12, MaxSlow <- 2
-----------------------------------------------------------------------------
(* Websocket: messages with each form of the length, and one that closes *)

MCSends == [server |-> <<[op |-> 1, n |-> 4]>>, client |-> <<[op |-> 1, n |-> 3], [op |-> 8, n |-> 1]>>]
MCMaxSlow == [server |-> 0, client |-> 1]
MCCuts == [server |-> {<<"app", 0>>}, client |-> {<<"reader", 1>>}]
-----------------------------------------------------------------------------
(* Cgi: programs that fail in several ways, and one that holds the only timer *)

MCPrograms == << {<<"read", "h", "e", "b", "b">>, <<"err", "err", "h", "e">>,
                  <<"h", "b", "hang">>, <<"h", "e", "fail">>},
                 {<<"hang">>} >>
MCBodies == << {2}, {0} >>
-----------------------------------------------------------------------------
(* Client: the four calls that connect, with certificates and addresses that are wrong *)

MCConnects == [f : {"connect", "get", "download", "websocket"}, tls : BOOLEAN, cert : BOOLEAN,
               ca : BOOLEAN, wrong : {"", "protocol", "host"}]
-----------------------------------------------------------------------------
Begin ==
  /\ Init
  /\ IF part = "forms" THEN M!Init
     ELSE /\ form = Idle /\ left = Idle /\ slow = Idle /\ turn = Idle /\ place = Idle
          /\ fbuf = Idle /\ from = Idle /\ next = Idle /\ allRead = Idle
          /\ storage = Idle /\ count = Idle /\ fstore = Idle /\ got = Idle
          /\ stored = Idle /\ result = Idle

Step ==
  \/ Next /\ UNCHANGED formsVars
  \/ part = "forms" /\ M!Next /\ UNCHANGED vars

WholeSpec ==
  /\ Begin /\ [][Step]_<<vars, formsVars>> /\ Fairness
  /\ WF_formsVars(part = "forms" /\ M!Step)
-----------------------------------------------------------------------------
(* The properties are stated and explained in the modules. *)

\* Forms: the buffer and the places in it have their bounds, field_get is given a beginning of the value, and all of it if nothing is
\* late; a file that field_store is told of holds the value.
FieldsAreTheClients ==
  part = "forms" => M!TypeOK /\ M!GotIsTheValue /\ M!NothingMissing /\ M!StoredIsTheValue

Pending == CASE part = "handlers" -> H!Removing(1)
             [] part = "connection" -> TRUE
             [] part = "forms" -> TRUE
             [] part = "websocket" -> W!ClosedBy
             [] part = "cgi" -> TRUE
             [] part = "client" -> user.at = "joining"
             [] part = "spawn" -> TRUE
             [] OTHER -> FALSE

Ended == CASE part = "handlers" -> H!Removed(1)
           [] part = "connection" -> pc = "closed"
           [] part = "forms" -> place = "done"
           [] part = "websocket" -> W!LoopsLeft
           [] part = "cgi" -> G!RequestEnds(1)
           [] part = "client" -> user.at = "done"
           [] part = "spawn" -> S!RequestEnds(1)
           [] OTHER -> TRUE

\* Handlers: a removal ends, however many requests keep coming.  (Of one thread; they
\* are alike.)  Connection: it is closed.  Forms: the function returns.  Websocket: when
\* an end has closed, the other one leaves its loop.  Cgi: a request ends.
\* Client: mg_close_connection returns.  Spawn: a request ends, with the timer.
CallsEnd == Pending ~> Ended
=============================================================================
