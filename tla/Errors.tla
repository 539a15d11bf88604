-------------------------------- MODULE Errors --------------------------------
(***************************************************************************)
(* How civetweb.c answers with an error (mg_send_http_error_impl): by the  *)
(* application's callback, by a page of the server's owner, or by a text,  *)
(* over the head of a response.inl that may have been begun; and with a    *)
(* success whose body the application sends (mg_send_http_ok).             *)
(***************************************************************************)
EXTENDS Integers, Sequences, SequencesExt, FiniteSetsExt, TLC, Chars

CONSTANTS
  Questions,   \* statuses, callbacks, pages, and how far the response has come
  MaxExt       \* of the extension of an error page

VARIABLES question, answer
-----------------------------------------------------------------------------
(* mg_get_response_code_text; the text of a known code stands for itself *)

Known == (100 .. 102) \cup (200 .. 208) \cup {226} \cup (300 .. 305) \cup {307, 308}
         \cup (400 .. 424) \cup {426, 428, 429, 431, 440, 451} \cup (500 .. 511)

Class(code) ==
  IF code \in 100 .. 599
  THEN <<"Information", "Success", "Redirection", "Client Error", "Server Error">>[code \div 100]
  ELSE ""
CodeText(code) == IF code \in Known THEN ToString(code) ELSE Class(code)
-----------------------------------------------------------------------------
(* response.inl; a connection is [status, state, headers, out, close, nested, ext] *)

\* Mutated: a response that was begun is begun again.
StartAgain(c, status) ==
  IF status \in 100 .. 999 THEN [c EXCEPT !.status = status, !.state = 1, !.headers = << >>] ELSE c

\* mg_response_header_start
Start(c, status) ==
  IF status \in 100 .. 999 /\ c.state = 0
  THEN [c EXCEPT !.status = status, !.state = 1, !.headers = << >>] ELSE c
AddHeaders(c, names) == IF c.state = 1 THEN [c EXCEPT !.headers = @ \o names] ELSE c
StatusLine(c) == <<IF c.status \in 100 .. 999 THEN c.status ELSE 500, CodeText(c.status)>>
\* mg_response_header_send
SendHead(c) ==
  IF c.state # 1 THEN c
  ELSE [c EXCEPT !.state = 10, !.out = Append(@, [line |-> StatusLine(c), headers |-> c.headers])]

Body(text) == [line |-> << >>, headers |-> <<text>>]
\* mg_write and mg_printf, whatever was sent before
SendText(c, text) == [c EXCEPT !.state = 10, !.out = Append(@, Body(text))]

\* Mutated: an error may be kept.
NoCacheNever(q) == <<"max-age">>

\* send_no_cache_header
NoCache(q) == <<"no-store", "Expires">> \o (IF q.http1 THEN <<"Pragma">> ELSE << >>)

\* send_static_cache_header; the two options are a text or null, and a number
StaticCache(q) ==
  IF q.control THEN <<"control">> ELSE IF q.maxAge <= 0 THEN NoCache(q) ELSE <<"max-age">>
\* send_additional_header
Additional(q) == (IF q.strict >= 0 THEN <<"strict">> ELSE << >>) \o q.added

\* Mutated: a length is told besides.
FramingBoth(q) == <<"length">> \o (IF q.length < 0 /\ q.http1 THEN <<"chunked">> ELSE << >>)

\* mg_send_http_ok
Framing(q) ==
  IF q.length >= 0 THEN <<"length">> ELSE IF q.http1 THEN <<"chunked">> ELSE << >>
SendHttpOk(c, q) ==
  SendHead(AddHeaders(Start(c, 200),
                      NoCache(q) \o Additional(q) \o <<IF q.mime THEN "mime" ELSE "html">> \o Framing(q)))
-----------------------------------------------------------------------------
(* The page for an error: the first that is there, of the names and extensions *)

RECURSIVE Exts(_)
Exts(list) ==
  IF "." \notin ToSet(list) THEN << >>
  ELSE LET ext == Drop(list, Span(list, {"."}) + 1)
           n == Min({Span(ext, {","}), MaxExt})
       IN <<Take(ext, n)>> \o Exts(Drop(ext, n))

\* Mutated: the general page is looked for first.
ScopesReversed(status) == <<"", ToString(status \div 100) \o "xx", ToString(status)>>

Scopes(status) == <<ToString(status), ToString(status \div 100) \o "xx", "">>
PageNames(q, status) ==
  FlattenSeq([i \in 1 .. 3 |-> LET exts == Exts(q.exts)
                               IN [j \in DOMAIN exts |-> <<Scopes(status)[i], exts[j]>>]])
IsPage(q, name) == name \in DOMAIN q.pages
PagesFor(q, status) ==
  IF q.prefix THEN SelectSeq(PageNames(q, status), LAMBDA name : IsPage(q, name)) ELSE << >>

HasBodyAlways(status) == TRUE   \* Mutated

HasBody(status) == status > 199 /\ status \notin {204, 304}

DefaultPage(c, q, status) ==
  LET head == SendHead(AddHeaders(Start([c EXCEPT !.close = TRUE], status),
                         NoCache(q) \o Additional(q) \o (IF HasBody(status) THEN <<"text">> ELSE << >>)))
  IN IF HasBody(status) THEN SendText(SendText(head, "Error"), "message") ELSE head

\* handle_file_based_request: a file is sent with the status 200; a script sends its own
\* head; a file that cannot be opened is an error again.
ErrorPage(c, q, name) ==
  CASE q.pages[name] = "static" ->
         SendText(SendHead(AddHeaders(Start([c EXCEPT !.status = 200], 200), StaticCache(q) \o Additional(q))), "page")
    [] q.pages[name] = "script" ->
         SendText([c EXCEPT !.out = Append(@, [line |-> <<c.status, "script">>, headers |-> << >>])], "page")
    [] q.pages[name] = "locked" -> DefaultPage([c EXCEPT !.status = 500], q, 500)

\* Mutated: the mark stays.
LeaveMarked(c) == c

Nest(c) == [c EXCEPT !.nested = TRUE]
Leave(c) == [c EXCEPT !.nested = FALSE]

\* The callback may send an answer, another error, or nothing; it says whether the
\* error is answered.
Call(c, q) ==
  CASE q.callback \in {"answers", "writes"} -> SendText(SendHead(Start(c, 200)), "answer")
    [] q.callback \in {"again", "adds"} -> DefaultPage([c EXCEPT !.status = q.next], q, q.next)
    [] OTHER -> c

Unanswered(c, q, status) ==
  LET pages == PagesFor(q, status)
  IN IF c.nested \/ pages = << >> THEN DefaultPage(c, q, status)
     ELSE Leave(ErrorPage(Nest(c), q, pages[1]))

SendHttpError(c0, q) ==
  LET c == [c0 EXCEPT !.status = q.status]
  IN IF c.nested \/ q.callback = "none" THEN Unanswered(c, q, q.status)
     ELSE LET called == Leave(Call(Nest(c), q))
          IN IF q.callback \in {"answers", "again", "silent"} THEN called ELSE Unanswered(called, q, q.status)

\* A response of which nothing, a part of the head, or all of the head was sent.
Begun(q) ==
  LET none == [status |-> 0, state |-> 0, headers |-> << >>, out |-> << >>, close |-> FALSE, nested |-> FALSE]
      part == AddHeaders(Start(none, 201), <<"handler">>)
  IN <<none, part, SendHead(part)>>[q.begun + 1]

Init == question \in Questions /\ answer = << >>
Next == /\ answer = << >>
        /\ answer' = <<IF question.f = "error" THEN SendHttpError(Begun(question), question)
                       ELSE SendHttpOk(Begun(question), question)>>
        /\ UNCHANGED question
-----------------------------------------------------------------------------
Heads(out) == {i \in DOMAIN out : out[i].line # << >>}
Page(q) == SelectSeq(PageNames(q, q.status), LAMBDA name : IsPage(q, name))[1]
Owners(q) == q.prefix /\ PagesFor(q, q.status) # << >>
Sent(q) == answer[1].out

\* A request has one head, and it comes first, whatever the application had begun and
\* however often the error met another, as long as the status is one and no script
\* answers after a head; no error handler is left marked.
OneHeadEach ==
  answer # << >> =>
    LET q == question
    IN /\ ~answer[1].nested
       /\ q.f = "error" /\ q.status \in 100 .. 999 /\ q.callback \notin {"silent"}
          /\ ~(Owners(q) /\ q.pages[Page(q)] = "script")
             => Heads(Sent(q)) = {1}
       /\ q.f = "ok" => Heads(Sent(q)) = {1} /\ Len(Sent(q)) = 1

\* Without a callback that answers, an error has the page that names it best, or its own
\* status and a text if it may have one, and then the connection is closed and nothing is
\* kept; a status the client must not see a body with has none.
ErrorsAreAnswered ==
  answer # << >> /\ question.f = "error" /\ question.callback \in {"none", "leaves"} =>
    LET q == question
    IN IF Owners(q)
       THEN /\ \A name \in DOMAIN q.pages :
                 name[1] = ToString(q.status) /\ name[2] \in ToSet(Exts(q.exts)) => Page(q)[1] = name[1]
            /\ q.pages[Page(q)] = "static" => Last(Sent(q)) = Body("page")
            /\ q.begun = 0 /\ q.pages[Page(q)] = "script" => Sent(q)[1].line[1] = q.status
       ELSE /\ answer[1].close
            /\ q.begun < 2 /\ q.status \in 100 .. 999 =>
                 /\ Sent(q)[1].line[1] = q.status
                 /\ "no-store" \in ToSet(Sent(q)[1].headers)
            /\ q.status \in (100 .. 199) \cup {204, 304} => Len(Sent(q)) = Min({Len(Sent(q)), 1})

\* A success says how long its body is in one way, unless it is the end of the stream.
FramedOnce ==
  answer # << >> /\ question.f = "ok" /\ question.begun = 0 =>
    LET names == ToSet(Sent(question)[1].headers)
    IN Cardinality(names \cap {"length", "chunked"}) = (IF question.length < 0 /\ ~question.http1 THEN 0 ELSE 1)
=============================================================================
