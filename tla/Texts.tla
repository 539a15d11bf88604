-------------------------------- MODULE Texts --------------------------------
(***************************************************************************)
(* The functions of civetweb.c that take texts apart: URIs, patterns,      *)
(* lists of options, forms, cookies.  A text is a sequence of characters.  *)
(* A behaviour is one call; the properties compare its result with what    *)
(* the text means.                                                         *)
(***************************************************************************)
EXTENDS Integers, Sequences, SequencesExt, FiniteSetsExt, Chars

CONSTANTS
  Questions,  \* [f, ...]: the calls
  Escapes,    \* what mg_url_encode writes for a character: <<hex, hex>> after the %
  Server      \* [port, domain]: where the request came in

VARIABLES question, answer  \* the call, and << >> or <<its result>>

Run(s, c) == Leading(s, {c})
-----------------------------------------------------------------------------
(* remove_dot_segments *)

\* The output without its last segment and the slash before it.
Parent(out) == Take(out, Max({1} \cup {i \in DOMAIN out : out[i] = "/"}) - 1)

RECURSIVE Resolve(_, _)
Resolve(in, out) ==
  CASE in = << >> \/ in = <<".">> \/ in = <<".", ".">> -> out
    [] Starts(in, <<".", ".", "/">>) -> Resolve(Drop(in, 3), out)
    [] Starts(in, <<".", "/">>) -> Resolve(Drop(in, 2), out)
    [] Starts(in, <<"/", ".", "/">>) -> Resolve(Drop(in, 2), out)
    [] in = <<"/", ".">> -> Resolve(<<"/">>, out)
    [] Starts(in, <<"/", ".", ".", "/">>) -> Resolve(Drop(in, 3), Parent(out))
    [] in = <<"/", ".", ".">> -> Resolve(<<"/">>, Parent(out))
    [] OTHER -> LET n == 1 + Span(Tail(in), {"/"})
                IN Resolve(Drop(in, n), out \o Take(in, n))

\* Mutated: a slash before the dots stays.
WithoutSlashKept(out) == out

WithoutSlash(out) == IF out # << >> /\ Last(out) = "/" THEN Front(out) ELSE out

\* The second pass: no dots at the end of a segment, no empty segments.
RECURSIVE Tidy(_, _)
Tidy(in, out) ==
  IF in = << >> THEN out
  ELSE LET dots == Run(in, ".")
           rest == Drop(in, dots)
       IN CASE dots > 0 /\ rest = << >> -> out
            [] dots > 0 /\ rest # << >> /\ Head(rest) = "/" ->
                 Tidy(rest, WithoutSlash(out))
            [] dots > 0 /\ rest # << >> /\ Head(rest) # "/" -> Tidy(rest, out \o Take(in, dots))
            [] Head(in) = "/" -> Tidy(Drop(in, Run(in, "/")), Append(out, "/"))
            [] OTHER -> Tidy(Tail(in), Append(out, Head(in)))

RemoveDotSegments(u) ==
  Tidy(Resolve([i \in DOMAIN u |-> IF u[i] = "\\" THEN "/" ELSE u[i]], << >>), << >>)
-----------------------------------------------------------------------------
(* get_uri_type, get_rel_url_at_current_server: a protocol, and a number, is *)
(* one character of the text; the port of any other text is no number.       *)

Protocols == [http |-> 80, https |-> 443, ws |-> 80, wss |-> 443]
Ports == [n80 |-> 80, n443 |-> 443, n0 |-> 0, n99999 |-> 99999]

Invalid == -1

\* strtoul from the colon on: the number, if it ends where the path begins.
PortOf(rest) ==
  LET end == Span(rest, {"/"})
      colon == Span(rest, {":"})
  IN IF end = colon + 2 /\ rest[end] \in DOMAIN Ports /\ Ports[rest[end]] \in 1 .. 65535
     THEN Ports[rest[end]]
     ELSE Invalid

\* 0 for an invalid URI, 1 for *, 2 relative, 3 absolute, 4 with a port.
UriType(u) ==
  CASE u = <<"*">> -> 1
    [] u # <<"*">> /\ \E i \in DOMAIN u : u[i] = " " -> 0
    [] OTHER ->
         IF u[1] = "/" THEN 2
         ELSE IF u[1] \notin DOMAIN Protocols \/ ~Contains(u, "/") THEN 0
         ELSE IF ~Contains(u, ":") THEN 3
         ELSE IF PortOf(Tail(u)) = Invalid THEN 0 ELSE 4

\* Mutated: the dot is not looked for.
SameDomainAnyEnd(host) ==
  LET n == Len(host) - Len(Server.domain)
  IN \/ host = Server.domain
     \/ n >= 2 /\ Drop(host, n) = Server.domain

\* The domain itself, or one below it.
SameDomain(host) ==
  LET n == Len(host) - Len(Server.domain)
  IN \/ host = Server.domain
     \/ n >= 2 /\ host[n] = "." /\ Drop(host, n) = Server.domain

\* <<the path>>, or << >> for a URI that is not of this server.
RelUrl(u) ==
  LET rest == Tail(u)
      end == Span(rest, {"/"})
      colon == Span(rest, {":"})
      port == IF colon > end \/ colon = Len(rest) THEN Protocols[u[1]] ELSE PortOf(rest)
      host == Take(rest, Min({end, colon}))
  IN IF u[1] \in DOMAIN Protocols /\ end < Len(rest)
     THEN IF port = Server.port /\ SameDomain(host) THEN <<Drop(rest, end)>> ELSE << >>
     ELSE << >>
-----------------------------------------------------------------------------
(* match_prefix: how much of s the pattern p takes, or -1 *)

\* What a star may take: up to the next slash, or everything.
Stars(p) == IF Starts(p, <<"*", "*">>) THEN 2 ELSE 1
Reach(p, s) == IF Stars(p) = 2 THEN Len(s) ELSE Span(s, {"/"})

\* Mutated: it never takes nothing.
TriesSome(reach) == [k \in 1 .. reach |-> reach + 1 - k]

\* The lengths a star tries: all, the longest first.
Tries(reach) == [k \in 1 .. reach + 1 |-> reach + 1 - k]

Shift(n, res) == IF res = -1 THEN -1 ELSE n + res

RECURSIVE MatchPrefix(_, _)
MatchPrefix(p, s) ==
  LET bar == Span(p, {"|"})
      left == MatchPrefix(Take(p, bar), s)
      stars == Stars(p)
      reach == Reach(p, s)
      rest(n) == MatchPrefix(Drop(p, stars), Drop(s, n))
      fits == SelectSeq(Tries(reach), LAMBDA n : rest(n) # -1)
  IN IF bar < Len(p) THEN IF left > 0 THEN left ELSE MatchPrefix(Drop(p, bar + 1), s)
     ELSE IF p = << >> THEN 0
     ELSE CASE p[1] = "$" -> IF s = << >> THEN 0 ELSE -1
            [] p[1] = "*" -> IF stars = Len(p) THEN reach
                             ELSE IF fits = << >> THEN -1 ELSE fits[1] + rest(fits[1])
            [] OTHER -> IF s # << >> /\ p[1] \in {"?", s[1]}
                        THEN Shift(1, MatchPrefix(Tail(p), Tail(s)))
                        ELSE -1
-----------------------------------------------------------------------------
(* next_option, header_has_option *)

Blank == {" ", "\t"}
RECURSIVE Trim(_)
Trim(s) == IF s # << >> /\ s[1] \in Blank THEN Trim(Tail(s))
           ELSE IF s # << >> /\ Last(s) \in Blank THEN Trim(Front(s))
           ELSE s

\* <<what is left of the list, the name of the next entry>>, or << >>
RECURSIVE NextOption(_)
NextOption(l) ==
  LET comma == Span(l, {","})
      entry == Trim(Take(l, comma))
  IN IF l = << >> THEN << >>
     ELSE IF entry = << >> THEN NextOption(Drop(l, comma + 1))
     ELSE <<Drop(l, comma + 1), Take(entry, Span(entry, {"="}))>>

RECURSIVE HeaderHasOption(_, _)
HeaderHasOption(l, option) ==
  LET next == NextOption(l)
  IN next # << >> /\ (Starts(option, next[2]) \/ HeaderHasOption(next[1], option))
-----------------------------------------------------------------------------
(* handle_websocket_request: the subprotocol *)

RECURSIVE Unindent(_)
Unindent(s) == IF s # << >> /\ Head(s) \in Blank THEN Unindent(Tail(s)) ELSE s

\* <<the first name of the list that is supported>>, or << >>
RECURSIVE FirstSupported(_, _)
FirstSupported(l, supported) ==
  LET comma == Span(l, {","})
  IN IF Take(l, comma) \in supported THEN <<Take(l, comma)>>
     ELSE IF comma < Len(l) THEN FirstSupported(Unindent(Drop(l, comma + 1)), supported)
     ELSE << >>

\* From all headers; or, if nothing is said of what is supported, the last of the first.
SelectProtocol(headers, supported) ==
  LET found == SelectSeq([i \in DOMAIN headers |-> FirstSupported(headers[i], supported)],
                         LAMBDA f : f # << >>)
      l == headers[1]
  IN IF supported # {} THEN IF found = << >> THEN << >> ELSE found[1]
     ELSE <<Unindent(Drop(l, Max({0} \cup {i \in DOMAIN l : l[i] = ","})))>>
-----------------------------------------------------------------------------
(* mg_url_encode, mg_url_decode *)

\* <<text, whether it is all>>: dst has room for n characters and the 0.
RECURSIVE Encoded(_, _)
Encoded(src, n) ==
  LET c == Head(src)
      code == IF c \in DOMAIN Escapes THEN <<"%">> \o Escapes[c] ELSE <<c>>
      rest == Encoded(Tail(src), n - Len(code))
  IN IF src = << >> THEN <<src, TRUE>>
     ELSE IF n < 1 \/ n < Len(code) THEN << << >>, FALSE>>
     ELSE <<code \o rest[1], rest[2]>>

\* Mutated: only if something follows it.
FitsBefore(src) == Len(src) > 3

\* Whether an escape can begin here.
Fits(src) == Len(src) > 2

RECURSIVE Decoded(_, _)
Decoded(src, n) ==
  LET escape == Fits(src) /\ src[1] = "%"
                /\ \E c \in DOMAIN Escapes : Escapes[c] = SubSeq(src, 2, 3)
      byte == IF escape THEN CHOOSE c \in DOMAIN Escapes : Escapes[c] = SubSeq(src, 2, 3)
              ELSE IF src[1] = "+" THEN " " ELSE src[1]
      rest == Decoded(Drop(src, IF escape THEN 3 ELSE 1), n - 1)
  IN IF src = << >> THEN <<src, TRUE>>
     ELSE IF n < 1 THEN << << >>, FALSE>>
     ELSE << <<byte>> \o rest[1], rest[2]>>

UrlDecode(src) == Decoded(src, Len(src))[1]
-----------------------------------------------------------------------------
(* mg_get_var2, mg_split_form_urlencoded, mg_get_cookie *)

Missing == "missing"
TooSmall == "too small"

\* The value of the k-th variable with this name, in a buffer of size n.
GetVar2(data, name, k, n) ==
  LET here(p) == /\ p + Len(name) < Len(data)
                 /\ p = 0 \/ data[p] = "&"
                 /\ Starts(Drop(data, p), Append(name, "="))
      places == SetToSortSeq({p \in 0 .. Len(data) : here(p)}, LAMBDA a, b : a < b)
      value == Drop(data, places[k + 1] + Len(name) + 1)
      dst == Decoded(Take(value, Span(value, {"&"})), n - 1)
  IN IF k >= Len(places) THEN Missing ELSE IF dst[2] THEN dst[1] ELSE TooSmall

\* The pairs <<name, value>>, with << >> for no value, at most max of them.
RECURSIVE SplitForm(_, _)
SplitForm(data, max) ==
  LET s == Drop(data, Leading(data, Blank))
      key == Span(s, {"&", "="})
      end == Span(s, {"&"})
      field == <<UrlDecode(Take(s, key)),
                 IF key < end THEN <<UrlDecode(SubSeq(s, key + 2, end))>> ELSE << >> >>
  IN IF max = 0 \/ s = << >> THEN << >>
     ELSE <<field>> \o (IF end < Len(s) THEN SplitForm(Drop(s, end + 1), max - 1) ELSE << >>)

\* What mg_split_form_urlencoded says without a list to fill.
CountForm(data) == IF data = << >> THEN 0 ELSE 1 + Quantify(DOMAIN data, LAMBDA i : data[i] = "&")

\* A value up to the next space, without the semicolon and the quotes.
CookieValue(s) ==
  LET p == Span(s, {" "})
      cut == IF p > 0 /\ s[p] = ";" THEN p - 1 ELSE p
  IN IF cut > 1 /\ s[1] = "\"" /\ s[cut] = "\"" THEN SubSeq(s, 2, cut - 1) ELSE Take(s, cut)

RECURSIVE GetCookie(_, _, _, _)
GetCookie(header, from, name, n) ==
  LET found == {p \in from .. Len(header) - Len(name) : Starts(Drop(header, p), name)}
      p == Min(found)
      after == p + Len(name)
      value == CookieValue(Drop(header, after + 1))
  IN IF found = {} THEN Missing
     ELSE IF after < Len(header) /\ header[after + 1] = "=" /\ (p = 0 \/ header[p] = " ")
          THEN IF Len(value) < n THEN value ELSE TooSmall
          ELSE GetCookie(header, after, name, n)
-----------------------------------------------------------------------------
(* The calls: texts that a client, or this server, has put together *)

Joined(texts, sep) ==
  FlattenSeq([i \in DOMAIN texts |-> IF i = 1 THEN texts[i] ELSE sep \o texts[i]])
Encode(s) == Encoded(s, 3 * Len(s))[1]
FormText(pairs) ==
  Joined([i \in DOMAIN pairs |-> Append(Encode(pairs[i][1]), "=") \o Encode(pairs[i][2])], <<"&">>)
CookieText(pairs) ==
  Joined([i \in DOMAIN pairs |-> Append(pairs[i][1], "=") \o pairs[i][2]], <<";", " ">>)

Reply(q) ==
  CASE q.f = "path" -> RemoveDotSegments(q.uri)
    [] q.f = "uri" -> <<UriType(q.uri), RelUrl(q.uri)>>
    [] q.f = "match" -> MatchPrefix(q.pattern, q.text)
    [] q.f = "option" -> HeaderHasOption(q.list, q.option)
    [] q.f = "protocol" ->
         SelectProtocol([i \in DOMAIN q.offers |-> Joined(q.offers[i], <<",", " ">>)], q.supported)
    [] q.f = "encode" -> Encoded(q.text, q.n)
    [] q.f = "var" -> GetVar2(FormText(q.pairs), q.name, q.k, q.n)
    [] q.f = "split" -> <<CountForm(FormText(q.pairs)), SplitForm(FormText(q.pairs), q.n)>>
    [] q.f = "cookie" -> GetCookie(CookieText(q.pairs), 0, q.name, q.n)

Init == question \in Questions /\ answer = << >>
Next == answer = << >> /\ answer' = <<Reply(question)>> /\ UNCHANGED question
-----------------------------------------------------------------------------
(* What the texts mean *)

RECURSIVE SplitAt(_, _)
SplitAt(s, c) == LET n == Span(s, {c})
                 IN IF n = Len(s) THEN <<s>> ELSE <<Take(s, n)>> \o SplitAt(Drop(s, n + 1), c)

\* The segments of a path, with . and .. resolved on the stack of those before.
RECURSIVE Stack(_, _)
Stack(stack, segments) ==
  LET c == Head(segments)
      final == Len(segments) = 1
      below == IF c = <<".", ".">> /\ stack # << >> THEN Front(stack) ELSE stack
  IN IF segments = << >> THEN stack
     ELSE IF c \in {<<".">>, <<".", ".">>}
          THEN Stack(IF final THEN Append(below, << >>) ELSE below, Tail(segments))
          ELSE Stack(Append(stack, c), Tail(segments))

RECURSIVE NoDots(_)
NoDots(s) == IF s # << >> /\ Last(s) = "." THEN NoDots(Front(s)) ELSE s

CleanPath(uri) ==
  LET slashed == [i \in DOMAIN uri |-> IF uri[i] = "\\" THEN "/" ELSE uri[i]]
      stack == Stack(<< >>, Tail(SplitAt(slashed, "/")))
      bare == [i \in DOMAIN stack |-> NoDots(stack[i])]
      kept == SelectSeq(Front(bare), LAMBDA s : s # << >>)
  IN <<"/">> \o Joined(Append(kept, Last(bare)), <<"/">>)

\* The lengths a pattern without | can take of s.
RECURSIVE Lengths(_, _)
Lengths(p, s) ==
  LET after(n) == {n + k : k \in Lengths(Drop(p, Stars(p)), Drop(s, n))}
  IN IF p = << >> \/ (p[1] = "$" /\ s = << >>) THEN {0}
     ELSE IF p[1] = "*" THEN UNION {after(n) : n \in 0 .. Reach(p, s)}
     ELSE IF s # << >> /\ p[1] \in {"?", s[1]} \ {"$"}
          THEN {1 + k : k \in Lengths(Tail(p), Tail(s))}
          ELSE {}

\* The path of a request is its URI's with every . and
\* .. followed, within the root, and without the empty segments and final dots that
\* the file system would ignore; an absolute URI stands for its path, if its port is
\* the request's and its host the domain or below it.  (remove_dot_segments works
\* in one buffer and in two passes, of which the second may undo the first.)
PathsAreClean ==
  answer # << >> =>
    LET r == answer[1]
    IN /\ question.f = "path" =>
            r = CleanPath(question.uri) /\ RemoveDotSegments(r) = r
       /\ question.f = "uri" =>
            LET q == question.parts
                port == IF q.port = "" THEN Protocols[q.proto] ELSE Ports[q.port]
                below == \E n \in 2 .. Len(q.host) :
                           Drop(q.host, n - 1) = <<".">> \o Server.domain
            IN IF port \in 1 .. 65535
               THEN /\ r[1] = IF q.port = "" THEN 3 ELSE 4
                    /\ r[2] = IF port = Server.port /\ (q.host = Server.domain \/ below)
                              THEN <<q.path>> ELSE << >>
               ELSE r = <<0, << >> >>

\* Patterns and lists: a pattern takes the most it can, of the first alternative
\* that takes anything, whatever order its stars are tried in; a list has an option
\* if an entry is a beginning of it; the subprotocol of a websocket is the first that
\* the client names and the server supports.
TextsMatch ==
  answer # << >> =>
    /\ question.f = "match" =>
         LET lengths == [i \in DOMAIN SplitAt(question.pattern, "|") |->
                           Lengths(SplitAt(question.pattern, "|")[i], question.text)]
             taken == SelectSeq(lengths, LAMBDA l : \E n \in l : n > 0)
         IN answer[1] = IF taken # << >> THEN Max(taken[1])
                        ELSE IF Last(lengths) = {} THEN -1 ELSE 0
    /\ question.f = "option" =>
         answer[1] = \E i \in DOMAIN SplitAt(question.list, ",") :
                       LET entry == Trim(SplitAt(question.list, ",")[i])
                       IN entry # << >> /\ Starts(question.option, SplitAt(entry, "=")[1])
    /\ question.f = "protocol" =>
         LET offered == SelectSeq(FlattenSeq(question.offers), LAMBDA p : p \in question.supported)
         IN answer[1] = IF question.supported = {} THEN <<Last(question.offers[1])>>
                        ELSE Take(offered, Min({1, Len(offered)}))

Plain(s) == IF Len(s) > 1 /\ s[1] = "\"" /\ Last(s) = "\"" THEN Tail(Front(s)) ELSE s
Named(pairs, name) == SelectSeq(pairs, LAMBDA p : p[1] = name)

\* Forms and cookies: what has been encoded is decoded; the variables and the cookies
\* of a name are the client's, in its order, or said to be missing or too long, and
\* both ways to take a form apart agree.
ValuesSurvive ==
  answer # << >> =>
    LET r == answer[1]
        q == question
    IN /\ q.f = "encode" =>
            /\ Len(r[1]) <= q.n /\ Starts(q.text, UrlDecode(r[1]))
            /\ r[2] <=> UrlDecode(r[1]) = q.text
       /\ q.f = "var" =>
            LET values == Named(q.pairs, q.name)
            IN r = IF q.k >= Len(values) THEN Missing
                   ELSE IF Len(values[q.k + 1][2]) < q.n THEN values[q.k + 1][2] ELSE TooSmall
       /\ q.f = "split" =>
            /\ r[1] = Len(q.pairs)
            /\ r[2] = [i \in 1 .. Min({q.n, Len(q.pairs)}) |-> <<q.pairs[i][1], <<q.pairs[i][2]>> >>]
       /\ q.f = "cookie" =>
            LET values == Named(q.pairs, q.name)
            IN r = IF values = << >> THEN Missing
                   ELSE IF Len(Plain(values[1][2])) < q.n THEN Plain(values[1][2]) ELSE TooSmall
=============================================================================
