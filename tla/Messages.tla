------------------------------ MODULE Messages ------------------------------
(***************************************************************************)
(* How civetweb.c takes the head of a message apart: where it ends, the    *)
(* words of its first line, its headers, and what they say of the body.  A *)
(* method, a number, the name of a header or of an encoding may be one     *)
(* character.  A behaviour is one message, and its properties compare what *)
(* was read with the parts that the sender has put together.               *)
(***************************************************************************)
EXTENDS Integers, Sequences, SequencesExt, FiniteSetsExt, Chars

CONSTANTS
  Questions,   \* the messages: see Text
  MaxHeaders   \* MG_MAX_HEADERS

VARIABLES question, answer  \* the message, and << >> or <<what was read>>

Nul == "nul"
Blank == {" ", "\t"}
Ends == {"\r", "\n"}
IsSpace == Blank \cup Ends
Control == {"\t", Nul} \cup Ends
NotGraph == IsSpace \cup {Nul, "non-ASCII"}
-----------------------------------------------------------------------------
(* get_http_header_len *)

EmptyLine == <<"\r", "\n", "\r", "\n">>

\* Mutated: the carriage return is enough.
EndsHalfway(b, i) == Starts(Drop(b, i - 1), Take(EmptyLine, 3))

EndsStandard(b, i) == Starts(Drop(b, i - 1), EmptyLine)

EndsPlain(b, i) == Starts(Drop(b, i - 1), <<"\n", "\n">>)

\* The length of the head, 0 if b does not hold all of it, -1 for what is not printable.
HeaderLen(b) ==
  LET odd(i) == b[i] \in {"\t", Nul}
      places == {i \in DOMAIN b : odd(i) \/ EndsPlain(b, i) \/ EndsStandard(b, i)}
      i == Min(places)
  IN IF places = {} THEN 0
     ELSE IF odd(i) THEN -1
     ELSE IF EndsPlain(b, i) THEN i + 1 ELSE i + 3
-----------------------------------------------------------------------------
(* skip_to_end_of_word_and_terminate, parse_http_headers: a text ends with Nul *)

\* <<the word, what is left>>, or << >>
Word(s, eol) ==
  LET n == Span(s, NotGraph)
      rest == Drop(s, n + Leading(Drop(s, n), IsSpace))
  IN IF (eol /\ s[n + 1] \in Ends) \/ (~eol /\ s[n + 1] = " " /\ rest[1] \notin NotGraph)
     THEN <<Take(s, n), rest>> ELSE << >>

Bad == << << >> >>

LastLine(value, end, rest) == value[end + 1] = Nul \/ rest[1] \in Ends

\* At most k headers <<name, value>>, or Bad.
RECURSIVE Headers(_, _)
Headers(s, k) ==
  LET n == Span(s, NotGraph \cup {":"})
      colon == n + Leading(Drop(s, n), {" "})
      value == Drop(s, colon + 1 + Leading(Drop(s, colon + 1), Blank))
      end == Span(value, {Nul} \cup Ends)
      cr == value[end + 1] = "\r"
      rest == Drop(value, IF cr THEN end + 2 ELSE end + 1)
      others == Headers(rest, k - 1)
  IN IF k = 0 \/ n = 0 THEN << >>
     ELSE IF s[colon + 1] # ":" \/ (cr /\ value[end + 2] # "\n") THEN Bad
     ELSE IF LastLine(value, end, rest) THEN <<<<Take(s, n), Take(value, end)>>>>
     ELSE IF others = Bad THEN Bad ELSE << <<Take(s, n), Take(value, end)>> >> \o others
-----------------------------------------------------------------------------
(* parse_http_request, parse_http_response *)

Methods == {"GET", "POST", "PUT", "DELETE", "HEAD", "OPTIONS", "CONNECT", "PATCH", "PROPFIND",
            "MKCOL", "LOCK", "UNLOCK", "PROPPATCH", "REPORT"}

RequestLines(text) ==
  LET method == Word(text, FALSE)
      uri == Word(method[2], FALSE)
      version == Word(uri[2], TRUE)
  IN IF \/ method = << >> \/ uri = << >> \/ version = << >>
        \/ ~Starts(version[1], <<"HTTP/">>) \/ method[1] \notin {<<m>> : m \in Methods}
     THEN << >>
     ELSE <<[method |-> method[1][1], uri |-> uri[1], version |-> Tail(version[1]),
             headers |-> Headers(version[2], MaxHeaders)]>>

Digits == {"0", "1", "2", "3", "4", "5", "6", "7", "8", "9"}

ResponseLines(text) ==
  LET version == Word(Tail(text), FALSE)
      status == Word(version[2], FALSE)
      code == status[1]
      line == status[2]
      n == Span(line, Control \cup {"non-ASCII"})
  IN IF \/ text[1] # "HTTP/" \/ text[2] \in NotGraph \/ version = << >> \/ status = << >>
        \/ Len(code) # 3 \/ ToSet(code) \ Digits # {} \/ code[1] = "0"
        \/ line[n + 1] \notin Ends
     THEN << >>
     ELSE <<[version |-> version[1], code |-> code, text |-> Take(line, n),
             headers |-> Headers(Drop(line, n + Leading(Drop(line, n), IsSpace)), MaxHeaders)]>>

Fails(n) == [len |-> n]

Lines(f, text) == IF f = "request" THEN RequestLines(text) ELSE ResponseLines(text)

\* What is made of a head of n characters.
Whole(lines, n) ==
  IF lines = << >> \/ lines[1].headers = Bad THEN Fails(-1) ELSE [len |-> n, lines |-> lines[1]]

Message(f, b, n, skip) ==
  IF b = << >> THEN Fails(0)
  ELSE IF b[1] \in Control THEN Fails(-1)
  ELSE IF n <= 0 THEN Fails(n)
  ELSE Whole(Lines(f, Append(Take(b, n - 1), Nul)), n + skip)

\* Spaces before the message are skipped, then it has to be there to its end.
Parsed(f, buf) ==
  LET skip == Leading(buf, IsSpace)
      b == Drop(buf, skip)
  IN Message(f, b, HeaderLen(b), skip)
-----------------------------------------------------------------------------
(* get_header, get_request, get_response *)

Fold == [C |-> "c", Chunked |-> "chunked"]
Lower(s) == [i \in DOMAIN s |-> IF s[i] \in DOMAIN Fold THEN Fold[s[i]] ELSE s[i]]

\* <<the value of the first header of this name>>, or << >>
GetHeader(headers, name) ==
  LET found == SelectSeq(headers, LAMBDA h : Lower(h[1]) = name)
  IN IF found = << >> THEN << >> ELSE <<found[1][2]>>

TransferEncoding == <<"t", "-", "e">>
ContentLength == <<"c", "-", "l">>
Numbers == [n0 |-> 0, n5 |-> 5, n7 |-> 7]
Refused == [kind |-> "refused", n |-> 0]
Length(n) == [kind |-> "length", n |-> n]
UntilClose == [kind |-> "until close", n |-> -1]

\* strtoll: what follows the number is not looked at.
Declared(value) ==
  IF value # << >> /\ value[1] \in DOMAIN Numbers THEN Length(Numbers[value[1]])
  ELSE IF Len(value) > 1 /\ value[1] = "-" /\ value[2] = "n0" THEN Length(0)
  ELSE Refused

\* Mutated: any encoding is that of chunks.
EncodingAny(te) == [kind |-> "chunked", n |-> 0]

Encoding(te) == IF Lower(te) = <<"chunked">> THEN [kind |-> "chunked", n |-> 0] ELSE Refused

Framed(headers, noLength) ==
  LET te == GetHeader(headers, TransferEncoding)
      cl == GetHeader(headers, ContentLength)
  IN IF te # << >> /\ Lower(te[1]) # <<"identity">> THEN Encoding(te[1])
     ELSE IF cl # << >> THEN Declared(cl[1])
     ELSE noLength

RequestFraming(m) == Framed(m.headers, Length(0))

NotModified == <<"3", "0", "4">>
NoBody(code) == code[1] = "1" \/ code \in {<<"2", "0", "4">>, NotModified}

\* The body of a response may end with the connection.
ResponseFraming(m) ==
  LET framed == Framed(m.headers, IF NoBody(m.code) THEN Length(0) ELSE UntilClose)
  IN IF framed.kind = "length" /\ m.code = NotModified THEN Length(0) ELSE framed
-----------------------------------------------------------------------------
(* The messages: [f, lead, first, headers, eol, body, flaw, encoding, length], *)
(* where the sender writes a header as <<name, before the colon, behind it,    *)
(* value>>; flaw tells whether it keeps to the rules, and encoding and length  *)
(* what it says of the body, "" for nothing.                                   *)

Written(q) ==
  FlattenSeq([i \in DOMAIN q.first |-> IF i = 1 THEN q.first[i] ELSE <<" ">> \o q.first[i]]) \o q.eol
  \o FlattenSeq([i \in DOMAIN q.headers |->
       q.headers[i][1] \o q.headers[i][2] \o <<":">> \o q.headers[i][3] \o q.headers[i][4] \o q.eol])
  \o q.eol
HeadText(q) == q.lead \o Written(q)
Text(q) == HeadText(q) \o q.body

Read(q) == Parsed(q.f, Text(q))

Framing(q, m) == IF q.f = "request" THEN RequestFraming(m) ELSE ResponseFraming(m)

Reply(q) ==
  LET r == Read(q)
  IN [lens |-> [k \in 1 .. Len(Text(q)) |-> HeaderLen(Take(Text(q), k))], parsed |-> r,
      framing |-> IF r.len > 0 THEN Framing(q, r.lines) ELSE Refused]

Init == question \in Questions /\ answer = << >>
Next == answer = << >> /\ answer' = <<Reply(question)>> /\ UNCHANGED question
-----------------------------------------------------------------------------
Expected(q) ==
  CASE q.encoding \in {"chunked", "Chunked"} -> [kind |-> "chunked", n |-> 0]
    [] q.encoding = "gzip" -> Refused
    [] q.encoding \in {"", "identity"} ->
         IF q.length # "" THEN IF q.length \in DOMAIN Numbers THEN Length(Numbers[q.length]) ELSE Refused
         ELSE IF q.f = "request" \/ NoBody(q.first[2]) THEN Length(0) ELSE UntilClose

\* However a message is cut when it arrives, its head is recognized when all of it is
\* there, and not before; then the words of the first line and the headers are the
\* sender's, without the spaces around the colons, the body begins where the head
\* ends, and its length is the one that the sender has declared.  A message
\* that breaks a rule is refused.  (An empty line before a message, a status without
\* a text, or a header that goes on in a second line, are not recognized as such.)
MessagesAreRead ==
  answer # << >> =>
    LET q == question
        r == answer[1].parsed
        n == Len(HeadText(q))
        headers == [i \in DOMAIN q.headers |-> <<q.headers[i][1], q.headers[i][4]>>]
    IN IF q.flaw THEN r.len = -1
       ELSE /\ answer[1].lens = [k \in 1 .. Len(Text(q)) |-> IF k < n THEN 0 ELSE n]
            /\ r.len = n
            /\ r.lines.headers = Take(headers, Min({MaxHeaders, Len(headers)}))
            /\ IF q.f = "request"
               THEN <<r.lines.method>> = q.first[1] /\ r.lines.uri = q.first[2]
                    /\ <<"HTTP/">> \o r.lines.version = q.first[3]
               ELSE /\ <<"HTTP/">> \o r.lines.version = q.first[1] /\ r.lines.code = q.first[2]
                    /\ r.lines.text = q.first[3]
            /\ Len(headers) <= MaxHeaders => answer[1].framing = Expected(q)
=============================================================================
