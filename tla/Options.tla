------------------------------- MODULE Options -------------------------------
(***************************************************************************)
(* The options of civetweb.c that are lists: the ports to listen on, with  *)
(* the sockets that are opened for them one after the other, the addresses *)
(* that may connect, and the speed that requests are answered with.  A     *)
(* number, or the name of a host, is one character; there are no blanks    *)
(* within an entry.  A behaviour is one list.                              *)
(***************************************************************************)
EXTENDS Integers, Sequences, SequencesExt, FiniteSetsExt, Chars

CONSTANTS
  Questions,      \* the lists: see Written
  Numbers,        \* the number that a character stands for
  Hosts,          \* the names that mg_inet_pton can resolve
  Matches(_, _)   \* match_prefix(pattern, uri) > 0

VARIABLES question, answer  \* the list, and << >> or <<what was made of it>>

Blank == {" ", "\t"}

\* <<the text from the next entry on, the length of the entry, what is behind it>>,
\* or << >>: next_option.
RECURSIVE NextOption(_)
NextOption(list) ==
  LET ptr == Drop(list, Leading(list, Blank))
      comma == Span(ptr, {","})
      len == comma - Leading(Reverse(Take(ptr, comma)), Blank)
      rest == Drop(ptr, comma + 1)
  IN IF list = << >> THEN << >>
     ELSE IF len = 0 THEN NextOption(rest) ELSE <<ptr, len, rest>>

IsNumber(s, i) == i <= Len(s) /\ s[i] \in DOMAIN Numbers
Number(s, i) == Numbers[s[i]]
Has(s, i, c) == i <= Len(s) /\ s[i] = c

\* %u.%u.%u.%u
IsDotted(s) == /\ \A i \in {1, 3, 5, 7} : IsNumber(s, i)
               /\ \A i \in {2, 4, 6} : Has(s, i, ".")
Octets(s) == [i \in 1 .. 4 |-> Number(s, 2 * i - 1)]
-----------------------------------------------------------------------------
(* parse_port_string *)

IsValidPort(port) == port <= 65535
Everywhere == <<0, 0, 0, 0>>

\* What was read of an entry that begins s: nothing if used is 0.
Spec4(addr, port, used) == [addr |-> addr, port |-> port, used |-> used]

\* By the forms that the entry may have; a colon is looked for in all of the text.
PortSpec(s, len) ==
  LET host == Span(s, {":"})
      after == host + 2
  IN CASE IsDotted(s) /\ Has(s, 8, ":") /\ IsNumber(s, 9) -> Spec4(Octets(s), Number(s, 9), 9)
       [] Has(s, 1, "+") /\ IsNumber(s, 2) -> Spec4(Everywhere, Number(s, 2), 2)
       [] IsNumber(s, 1) /\ IsValidPort(Number(s, 1))
          /\ ~(IsDotted(s) /\ Has(s, 8, ":") /\ IsNumber(s, 9)) -> Spec4(Everywhere, Number(s, 1), 1)
       [] OTHER -> IF host < len /\ Take(s, host) \in Hosts /\ IsNumber(s, after)
                   THEN Spec4(Take(s, host), Number(s, after), after)
                   ELSE Spec4(Everywhere, 0, 0)

\* Mutated: anything may follow the port.
SuffixAny(c) == TRUE

Suffix(c) == c \in {"", "s", "r"}

\* <<the socket>>, or << >>
ParsePort(s, len) ==
  LET spec == PortSpec(s, len)
      c == IF spec.used < len THEN s[spec.used + 1] ELSE ""
  IN IF spec.used > 0 /\ IsValidPort(spec.port) /\ len \in {spec.used, spec.used + 1} /\ Suffix(c)
     THEN <<[addr |-> spec.addr, port |-> spec.port, ssl |-> c = "s", redir |-> c = "r"]>>
     ELSE << >>

\* is_ssl_port_used
IsSslPortUsed(list) ==
  \E i \in DOMAIN list : i > 1 /\ list[i - 1] \in DOMAIN Numbers /\ list[i] \in {"s", "r"}
-----------------------------------------------------------------------------
(* set_ports_option: fails names the call that fails for each entry, "" for none *)

\* Mutated: a socket that cannot listen stays open.
ClosesUnlessListen(call) == call \in {"bind", "backlog", "getsockname", "realloc"}

Closes(call) == call \in {"bind", "backlog", "listen", "getsockname", "realloc"}

\* The port of a socket that was bound to port 0.
Chosen == -1
Bound(so) == IF so.port = 0 THEN [so EXCEPT !.port = Chosen] ELSE so

\* The lists are those of the context, and open the sockets that the process has.
RECURSIVE Listen(_, _, _, _)
Listen(list, ssl, fails, st) ==
  LET vec == NextOption(list)
      so == ParsePort(vec[1], vec[2])
      n == st.total + 1
      failed == [st EXCEPT !.total = n]
      call == fails[n]
      next == IF so = << >> \/ (so[1].ssl /\ ~ssl) \/ call = "socket" THEN failed
              ELSE IF call # "" THEN [failed EXCEPT !.open = IF Closes(call) THEN @ ELSE @ \cup {n}]
              ELSE [failed EXCEPT !.open = @ \cup {n}, !.ok = @ + 1, !.at = Append(@, n),
                                  !.listening = Append(@, Bound(so[1]))]
  IN IF vec = << >> THEN st ELSE Listen(vec[3], ssl, fails, next)

\* All of them, or none: close_all_listening_sockets.
SetPorts(list, ssl, fails) ==
  LET st == Listen(list, ssl, fails,
                   [total |-> 0, ok |-> 0, open |-> {}, at |-> << >>, listening |-> << >>])
  IN IF st.ok = st.total THEN [n |-> st.ok, open |-> st.open, listening |-> st.listening]
     ELSE [n |-> 0, open |-> st.open \ ToSet(st.at), listening |-> << >>]
-----------------------------------------------------------------------------
(* parse_match_net, check_acl, set_throttle *)

Pow2 == <<1, 2, 4, 8, 16, 32, 64, 128, 256>>

\* The bits of an octet that a mask of this length leaves.
Masked(ip, slash) ==
  [i \in 1 .. 4 |->
     LET bits == Max({0, Min({8, slash - 8 * (i - 1)})})
     IN ip[i] - (ip[i] % Pow2[9 - bits])]

\* 1 or 0, or -1 for what is not a network.
MatchNet(s, len, ip) ==
  LET long == IsDotted(s) /\ Has(s, 8, "/") /\ IsNumber(s, 9)
      slash == IF long THEN Number(s, 9) ELSE 32
      n == IF long THEN 9 ELSE IF IsDotted(s) THEN 7 ELSE 0
  IN IF n > 0 /\ n = len /\ (\A i \in 1 .. 4 : Octets(s)[i] < 256) /\ slash < 33
     THEN IF Masked(ip, slash) = Octets(s) THEN 1 ELSE 0
     ELSE -1

\* Mutated: the first entry that matches decides.
LatestFirst(before, flag) == IF before = "" THEN flag ELSE before

Latest(before, flag) == flag

\* -1 for a list that is malformed, or whether the address is allowed.
RECURSIVE Acl(_, _, _)
Acl(list, ip, allowed) ==
  LET vec == NextOption(list)
      flag == vec[1][1]
      matched == IF flag \in {"+", "-"} THEN MatchNet(Drop(vec[1], 1), vec[2] - 1, ip) ELSE -1
  IN IF vec = << >> THEN IF allowed = "+" THEN 1 ELSE 0
     ELSE IF matched = -1 THEN -1
     ELSE Acl(vec[3], ip, IF matched = 1 THEN Latest(allowed, flag) ELSE allowed)

CheckAcl(list, ip) == IF list = <<"NULL">> THEN 1 ELSE Acl(list, ip, "")

Multiplier(c) == CASE c \in {"k", "K"} -> 1024 [] c \in {"m", "M"} -> 1048576 [] OTHER -> 1

\* The last entry that holds: for everyone, for a network, or for a pattern of URIs.
RECURSIVE Throttle(_, _, _, _)
Throttle(list, ip, uri, throttle) ==
  LET vec == NextOption(list)
      s == vec[1]
      eq == Span(Take(s, vec[2]), {"="})
      mult == IF eq + 3 <= Len(s) THEN s[eq + 3] ELSE ","
      net == MatchNet(s, eq, ip)
      valid == eq < vec[2] /\ IsNumber(s, eq + 2) /\ mult \in {"k", "K", "m", "M", ","}
      holds == Take(s, eq) = <<"*">> \/ net = 1 \/ (net = -1 /\ Matches(Take(s, eq), uri))
  IN IF vec = << >> THEN throttle
     ELSE Throttle(vec[3], ip, uri,
                   IF valid /\ holds THEN Number(s, eq + 2) * Multiplier(mult) ELSE throttle)
-----------------------------------------------------------------------------
(* The lists: [f, entries, ...], where an entry is a sequence of texts *)

Written(entries, sep) ==
  FlattenSeq([i \in DOMAIN entries |-> IF i = 1 THEN FlattenSeq(entries[i]) ELSE sep \o FlattenSeq(entries[i])])

Reply(q) ==
  CASE q.f = "ports" -> <<SetPorts(Written(q.entries, q.sep), q.ssl, q.fails),
                          IsSslPortUsed(Written(q.entries, q.sep))>>
    [] q.f = "acl" -> CheckAcl(Written(q.entries, q.sep), q.ip)
    [] q.f = "throttle" -> Throttle(Written(q.entries, q.sep), q.ip, q.uri, 0)

Init == question \in Questions /\ answer = << >>
Next == answer = << >> /\ answer' = <<Reply(question)>> /\ UNCHANGED question
-----------------------------------------------------------------------------
Dots(ip) == <<ip[1], ".", ip[2], ".", ip[3], ".", ip[4]>>
Meant(ip) == [i \in 1 .. 4 |-> Numbers[ip[i]]]
In(ip, net, bits) == \A i \in 1 .. 4 : \A b \in 0 .. 7 :
  8 * (i - 1) + b < bits => (ip[i] \div Pow2[8 - b]) % 2 = (net[i] \div Pow2[8 - b]) % 2

\* The sockets are those of the list, in its order, if every entry is sound and every
\* call succeeds; otherwise there is none, and no socket is left open.  (An entry is
\* <<the address, a colon or not, the port, the suffix>>; TLS is known to be needed
\* before the list is parsed.)
PortsAreSet ==
  answer # << >> /\ question.f = "ports" =>
    LET q == question
        r == answer[1]
        addr(e) == IF e[1] \in {<< >>, <<"+">>} THEN Everywhere
                   ELSE IF Len(e[1]) = 7 THEN Octets(e[1]) ELSE e[1]
        port(e) == Numbers[e[3][1]]
        sound(i) == LET e == q.entries[i]
                    IN /\ q.fails[i] = "" /\ port(e) <= 65535 /\ e[4] \in {<< >>, <<"s">>, <<"r">>}
                       /\ e[1] \in Hosts \/ addr(e) # e[1] \/ Len(e[1]) = 7
                       /\ e[4] = <<"s">> => q.ssl
    IN /\ IF \A i \in DOMAIN q.entries : sound(i)
          THEN r[1] = [n |-> Len(q.entries), open |-> DOMAIN q.entries,
                       listening |-> [i \in DOMAIN q.entries |->
                         LET e == q.entries[i]
                         IN [addr |-> addr(e), port |-> IF port(e) = 0 THEN Chosen ELSE port(e),
                             ssl |-> e[4] = <<"s">>, redir |-> e[4] = <<"r">>]]]
          ELSE r[1] = [n |-> 0, open |-> {}, listening |-> << >>]
       /\ r[2] = \E i \in DOMAIN q.entries : q.entries[i][4] \in {<<"s">>, <<"r">>}

\* An address is allowed if the last network of the list that it is in says so, or if
\* there is no list; the speed is that of the last entry for everyone, for a network
\* the client is in, or for a URI.  Networks are compared bit by bit.  (An entry is
\* <<flag, network, slash, bits>>, or <<subject, =, number, unit>>.)
RulesHold ==
  answer # << >> /\ question.f \in {"acl", "throttle"} =>
    LET q == question
        is(e, i) == e[i] # << >>
        net(e) == IF q.f = "acl" THEN Meant([i \in 1 .. 4 |-> e[2][2 * i - 1]]) ELSE Octets(e[1])
        bits(e) == IF q.f = "acl" THEN IF is(e, 4) THEN Numbers[e[4][1]] ELSE 32
                   ELSE IF Len(e[1]) = 9 THEN Number(e[1], 9) ELSE 32
        holds(e) == IF q.f = "acl" THEN In(q.ip, net(e), bits(e))
                    ELSE \/ e[1] = <<"*">>
                         \/ IF IsDotted(e[1]) THEN In(q.ip, net(e), bits(e)) ELSE Matches(e[1], q.uri)
        lasts == SelectSeq(q.entries, holds)
    IN IF q.f = "acl"
       THEN answer[1] = IF q.entries = <<<<<<"NULL">>>>>> \/ (lasts # << >> /\ Last(lasts)[1] = <<"+">>) THEN 1 ELSE 0
       ELSE answer[1] = IF lasts = << >> THEN 0
                        ELSE Numbers[Last(lasts)[3][1]] * (IF is(Last(lasts), 4) THEN Multiplier(Last(lasts)[4][1]) ELSE 1)
=============================================================================
