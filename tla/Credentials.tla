---------------------------- MODULE Credentials ----------------------------
(***************************************************************************)
(* The credentials of a request: parse_auth_header with skip_quoted,       *)
(* read_auth_file and check_password, and base64.  A hash is the text it   *)
(* was made of; "resp" stands for the one the client has computed.         *)
(***************************************************************************)
EXTENDS Integers, Sequences, SequencesExt, FiniteSetsExt, Chars

CONSTANTS
  Questions,  \* [f |-> "digest", "header" or "base64", ...]
  FileOf,     \* the lines of the password files
  Depth       \* INITIAL_DEPTH, smaller here

VARIABLES question, answer

NULL == <<"NULL">>
-----------------------------------------------------------------------------
(* skip_quoted: [word, rest] *)

\* Mutated: a quoted delimiter ends the word all the same.
JoinedNever(word, rest, quote) == FALSE

\* A delimiter after the quoting character belongs to the word.
Joined(word, rest, quote) == word # << >> /\ Last(word) = quote

RECURSIVE Word(_, _, _, _)
Word(word, rest, delimiters, quote) ==
  IF ~Joined(word, rest, quote) \/ rest = << >> THEN
    [word |-> IF Joined(word, rest, quote) THEN Front(word) ELSE word, rest |-> rest]
  ELSE LET n == Span(Tail(rest), delimiters)
       IN Word(Front(word) \o Take(rest, n + 1), Drop(rest, n + 1), delimiters, quote)

SkipQuoted(s, delimiters, quote) ==
  LET n == Span(s, delimiters)
      w == IF n = 0 THEN [word |-> << >>, rest |-> s]
           ELSE Word(Take(s, n), Drop(s, n), delimiters, quote)
  IN [w EXCEPT !.rest = IF @ = << >> THEN @ ELSE Drop(@, 1 + Leading(Tail(@), {" "}))]
-----------------------------------------------------------------------------
(* parse_auth_header *)

Known == {"username", "cnonce", "response", "uri", "qop", "nc", "nonce"}
Nothing == [k \in Known |-> NULL]

Value(s) ==
  IF Starts(s, <<"\"">>)
  THEN LET v == SkipQuoted(Tail(s), {"\""}, "\\")
       IN [v EXCEPT !.rest = IF Starts(@, <<",">>) THEN Tail(@) ELSE @]
  ELSE SkipQuoted(s, {",", " "}, "none")

RECURSIVE Fields(_, _)
Fields(s, ah) ==
  LET name == SkipQuoted(Drop(s, Leading(s, {" ", "\t"})), {"="}, "none")
      value == Value(name.rest)
  IN IF name.word = << >> THEN ah
     ELSE Fields(value.rest, [k \in Known |-> IF name.word = <<k>> THEN value.word ELSE ah[k]])

\* A nonce is one number; which ones are those of this run is told by Passwords.
ParseAuthHeader(header) ==
  LET ah == IF header = NULL \/ ~Starts(header, <<"Digest", " ">>) THEN Nothing
            ELSE Fields(Drop(header, 2), Nothing)
  IN [ok |-> ah.nonce = <<"n7">> /\ ah.username # NULL, ah |-> ah]
-----------------------------------------------------------------------------
(* read_auth_file, check_password *)

Text(parts) == FlattenSeq(parts)

\* mg_md5: the list of texts ends at the first one that is missing.
Md5(parts) ==
  LET missing == {i \in DOMAIN parts : parts[i] = NULL}
  IN Text(IF missing = {} THEN parts ELSE Take(parts, Min(missing) - 1))

Ha1(user, domain, pass) == Md5(<<user, <<":">>, domain, <<":">>, pass>>)
Response(ha1, nonce, nc, cnonce, qop, ha2) ==
  Md5(<<ha1, <<":">>, nonce, <<":">>, nc, <<":">>, cnonce, <<":">>, qop, <<":">>, ha2>>)

Missing(ah) == \E k \in {"nonce", "nc", "cnonce", "qop", "response"} : ah[k] = NULL

CheckPassword(method, ha1, ah, told) ==
  /\ ~Missing(ah)
  /\ ah.response = <<"resp">>
  /\ told = Response(ha1, ah.nonce, ah.nc, ah.cnonce, ah.qop, Md5(<<method, <<":">>, ah.uri>>))

\* Mutated: a file that is included decides even if it refuses.
DecidesAlways(line, included) == TRUE

\* Whether no more lines are read after this one: an included file only ends it with success.
Decides(line, included) == line.kind = "user" \/ included

\* A line: [kind |-> "include", file], [kind |-> "user", user, domain, ha1], or another kind.
RECURSIVE ReadAuthFile(_, _, _, _)
ReadAuthFile(lines, q, ah, depth) ==
  LET line == Head(lines)
      mine == line.kind = "user" /\ line.user = ah.username /\ line.domain = q.domain
      included == line.kind = "include" /\ line.file \in DOMAIN FileOf
                  /\ ReadAuthFile(FileOf[line.file], q, ah, depth - 1)
      granted == IF line.kind = "user" THEN CheckPassword(q.method, line.ha1, ah, q.told) ELSE included
  IN /\ depth > 0 /\ lines # << >>
     /\ IF (mine \/ line.kind = "include") /\ Decides(line, included) THEN granted
        ELSE ReadAuthFile(Tail(lines), q, ah, depth)

Authorize(q) ==
  LET parsed == ParseAuthHeader(q.header)
  IN parsed.ok /\ ReadAuthFile(q.lines, q, parsed.ah, Depth)
-----------------------------------------------------------------------------
(* base64_encode, b64reverse, base64_decode: letters are the numbers 0 to 63, 64 is "=" *)

\* Mutated: the second letter has the first four bits of the second byte for its last ones.
SecondShifted(a, b) == ((a % 4) * 16) + ((b \div 8) % 16)

Second(a, b) == ((a % 4) * 16) + (b \div 16)

Base64Encode(src) ==
  LET at(i) == IF i > Len(src) THEN 0 ELSE src[i]
      group(i) == LET a == at(i) b == at(i + 1) c == at(i + 2)
                  IN <<a \div 4, Second(a, b),
                       IF i + 1 <= Len(src) THEN ((b % 16) * 4) + (c \div 64) ELSE 64,
                       IF i + 2 <= Len(src) THEN c % 64 ELSE 64>>
  IN FlattenSeq([k \in 1 .. (Len(src) + 2) \div 3 |-> group(3 * k - 2)])

\* Every group gives one to three bytes; an error ends it: 65 is a letter of no value.
Base64Decode(src) ==
  LET at(i) == IF i > Len(src) THEN 65 ELSE src[i]
      bad(i) == CASE at(i) >= 64 -> i
                  [] at(i + 1) >= 64 -> i + 1
                  [] at(i + 2) = 65 -> i + 2
                  [] at(i + 3) = 65 -> i + 3
                  [] OTHER -> 0
      starts == {3 * k + k - 3 : k \in 1 .. (Len(src) + 3) \div 4}
      first == Min({i \in starts : bad(i) # 0} \cup {Len(src) + 1})
      bytes(i) == <<(at(i) * 4) + (at(i + 1) \div 16)>>
                  \o (IF at(i + 2) = 64 THEN << >>
                      ELSE <<((at(i + 1) * 16) + (at(i + 2) \div 4)) % 256>>
                           \o (IF at(i + 3) = 64 THEN << >> ELSE <<((at(i + 2) * 64) + at(i + 3)) % 256>>))
  IN [bytes |-> FlattenSeq([k \in 1 .. (first + 2) \div 4 |-> bytes(4 * k - 3)]),
      end |-> IF first > Len(src) THEN -1 ELSE bad(first) - 1]

Answer(q) ==
  CASE q.f = "digest" -> Authorize(q)
    [] q.f = "header" -> ParseAuthHeader(q.header).ah
    [] q.f = "base64" -> Base64Decode(IF q.encoded THEN q.src ELSE Base64Encode(q.src))

Init == question \in Questions /\ answer = << >>
Next == answer = << >> /\ answer' = <<Answer(question)>> /\ UNCHANGED question
-----------------------------------------------------------------------------
RECURSIVE Lines(_, _)
Lines(lines, depth) ==
  IF depth = 0 THEN {}
  ELSE Range(lines) \cup UNION {Lines(FileOf[l.file], depth - 1) :
         l \in {l \in Range(lines) : l.kind = "include" /\ l.file \in DOMAIN FileOf}}

\* A user is let in by a line with the name, the domain and the password, in the file or
\* in one it includes, and by the only line there is; the values of a header are those the
\* client has quoted; and what is encoded in base64 is decoded to the same bytes.
CredentialsAreRead ==
  answer # << >> =>
    LET q == question
        own(l) == l.kind = "user" /\ l.user = q.user /\ l.domain = q.domain
        right(l) == own(l) /\ l.ha1 = Ha1(q.user, q.domain, q.pass)
        all == {l \in Lines(q.lines, Depth) : own(l)}
    IN CASE q.f = "digest" ->
              /\ answer[1] => q.sound /\ \E l \in all : right(l)
              /\ q.sound /\ (\A l \in all : right(l)) /\ all # {} => answer[1]
         [] q.f = "header" -> \A k \in DOMAIN q.values : answer[1][k] = q.values[k]
         [] q.f = "base64" -> ~q.encoded => answer[1] = [bytes |-> q.src, end |-> -1]
=============================================================================
