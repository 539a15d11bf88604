------------------------------ MODULE MCContent ------------------------------
(***************************************************************************)
(* Small instances of the parts of CivetWeb that read, store, send and     *)
(* tell something: the files of the document root, the page of the log,    *)
(* the bytes of a connection, the library, HTTP/2, password files and the  *)
(* logs; and questions for the parts that answer one question: texts,      *)
(* heads of messages, options, pages, the way of a URI, texts about the    *)
(* server, HPACK's codes, credentials, the stand-alone program, the        *)
(* environment of a program, and errors.  They do not share their state:   *)
(* each behaviour is one of one part.                                      *)
(***************************************************************************)
EXTENDS Integers, Sequences, SequencesExt, FiniteSets, TLC, Chars

VARIABLES
  part,
  fs, node, worker,
  main, file, ver, writer, page, save,
  calls, throttle, io, lastTime, lastBytes, space, inbox, incoming,
  came, peer, stopAt, clock, pushed, pulled, results, seen,
  lib, server, cert, machine, lost, crashed, last, steps,
  phase, theirs, table, fields, state, reply, heap, sentBy, asked,
  disk, content, caller, changes, request, run, now, issued,
  versions, overlap, died,
  log, timeOf, logger, line, drains, full,
  question, answer

filesVars == <<fs, node, worker>>
viewerVars == <<main, file, ver, writer, page, save>>
transferVars == <<calls, throttle, io, lastTime, lastBytes, space, inbox, incoming,
                  came, peer, stopAt, clock, pushed, pulled, results, seen>>
libraryVars == <<lib, server, cert, machine, lost, crashed, last, steps>>
http2Vars == <<phase, theirs, table, fields, state, reply, heap, sentBy, asked>>
passwordsVars == <<disk, content, caller, changes, request, run, now, issued, versions,
                   overlap, died>>
logsVars == <<log, timeOf, logger, line, drains, full>>
questionVars == <<question, answer>>
vars == <<part, filesVars, viewerVars, transferVars, libraryVars, http2Vars,
          passwordsVars, logsVars, questionVars>>
-----------------------------------------------------------------------------
(* Files: a file f with its zipped g, a directory d with its index i *)

Request(m, p) == [method |-> m, path |-> p, slash |-> FALSE, n |-> 0, range |-> << >>,
                  gzip |-> FALSE, expect |-> ""]
F == INSTANCE Files WITH
  Workers <- {1, 2}, Nodes <- 1 .. 6, GzipLimit <- 1,
  Parent <- [f |-> "", g |-> "", d |-> "", i |-> "d"],
  GzOf <- [f |-> "g"], IndexOf <- [d |-> "i"],
  Trees <- {[f |-> 1, g |-> 2, d |-> 3, i |-> 4], [f |-> 0, g |-> 2, d |-> 0, i |-> 0]},
  Requests <-
    {Request("GET", "f"), [Request("GET", "f") EXCEPT !.gzip = TRUE], Request("GET", "d"),
     Request("DELETE", "f"), Request("DELETE", "d"), Request("MKCOL", "d"), Request("MKCOL", "i"),
     [Request("HEAD", "d") EXCEPT !.slash = TRUE], [Request("PUT", "d") EXCEPT !.slash = TRUE],
     [Request("PUT", "f") EXCEPT !.n = 2], [Request("STORE", "i") EXCEPT !.n = 2],
     [Request("PUT", "f") EXCEPT !.n = 1, !.range = <<1, 1>>],
     [Request("PUT", "i") EXCEPT !.n = 1, !.expect = "100-continue"],
     [Request("PUT", "i") EXCEPT !.n = 1, !.expect = "other"]}
    \cup {[Request("GET", "f") EXCEPT !.range = r] : r \in {<<1, 1>>, <<0, 2>>, <<3>>}}
-----------------------------------------------------------------------------
(* Viewer: two pages, and a log that is written three times *)

V == INSTANCE Viewer WITH Pages <- {1, 2}, Widths <- << <<1, 2>>, <<2, 1, 2>>, <<1, 1>> >>
-----------------------------------------------------------------------------
(* Transfer: writes with and without a limit, a chunk, and a read *)

ACall(f, n) == [f |-> f, n |-> n]
Scenario(cs, limit, n) == [calls |-> cs, throttle |-> limit, incoming |-> n]

I == INSTANCE Transfer WITH
  Scenarios <- {Scenario(<<ACall("write", 3), ACall("chunk", 1)>>, 0, 0),
                Scenario(<<ACall("write", 4)>>, 2, 0),
                Scenario(<<ACall("write", 2), ACall("write", 2), ACall("write", 1)>>, 2, 0),
                Scenario(<<ACall("read", 2)>>, 0, 2)},
  Space <- 2, Timeout <- 3, Quantum <- 1, Second <- 2, MaxClock <- 8
-----------------------------------------------------------------------------
(* Library: servers with and without TLS, and domains, on machines without the library *)

Tls == [name |-> <<"a">>, tls |-> TRUE, external |-> 0, domain |-> 0, init |-> 0, initDomain |-> 0,
        pem |-> TRUE, short |-> FALSE, verify |-> "no"]

L == INSTANCE Library WITH
  calls <- steps,
  Configs <- {Tls, [Tls EXCEPT !.tls = FALSE], [Tls EXCEPT !.short = TRUE, !.verify = "yes"],
              [Tls EXCEPT !.name = <<"A">>], [Tls EXCEPT !.name = <<"b">>, !.verify = "yes"],
              [Tls EXCEPT !.external = 1], [Tls EXCEPT !.init = 1, !.name = <<"c">>, !.pem = FALSE]},
  Installed <- {{}, {"crypto"}, {"ssl", "crypto"}},
  ServerNames <- {<< >>, <<"B">>, <<"d">>},
  Fold <- LAMBDA s : [i \in DOMAIN s |-> CASE s[i] = "A" -> "a" [] s[i] = "B" -> "b" [] OTHER -> s[i]],
  MaxCalls <- 4, MaxVersion <- 2
-----------------------------------------------------------------------------
(* Http2: requests whose headers are kept in tables of two and of three *)

Kept(n, v, k) == [name |-> n, value |-> v, keep |-> k]
HeaderField(kind, idx, n, v) == [kind |-> kind, idx |-> idx, name |-> n, value |-> v]
AFrame(type, flags) == [type |-> type, stream |-> 0, flags |-> flags]

Z == INSTANCE Http2 WITH
  Lists <- {<<Kept(":path", "/a", FALSE), Kept("x", "1", TRUE)>>,
            <<Kept(":method", "GET", FALSE), Kept("cookie", "c", TRUE)>>,
            <<Kept("x", "1", TRUE), Kept("x", "2", TRUE), Kept("x", "2", TRUE)>>,
            <<Kept("accept-encoding", "gzip, deflate", FALSE)>>},
  Blocks <- {<<HeaderField("literal", 0, "x", "1"), HeaderField("indexed", 70, "", "")>>,
             <<HeaderField("indexed", 15, "", "")>>},
  Others <- {AFrame("settings", 0), AFrame("settings", 1)},
  Adds <- {<<"connection", "c">>, <<"date", "d">>, <<"x", "long">>},
  TheirSize <- 2, DynTableSize <- 3, MaxHeaders <- 2, MaxFrames <- 3, MaxCalls <- 3
-----------------------------------------------------------------------------
(* Passwords: two calls that change a user's record, and a challenge of each run *)

D == INSTANCE Passwords WITH
  node <- content,
  Callers <- {1, 2}, Users <- {"a"}, Passes <- {"r"}, First <- <<<<"", "i">>, <<"a", "p">>, <<"b", "q">>>>,
  MaxChanges <- 2, MaxNonces <- 1, MaxTime <- 1
-----------------------------------------------------------------------------
(* Logs: a line that fills a block, an error that fills more, and a disk that is full soon *)

J == INSTANCE Logs WITH
  disk <- log, clock <- timeOf, task <- logger,
  Workers <- {1, 2}, Requests <- 1, Lines <- [access |-> {2}, error |-> {3}], Block <- 2,
  Room <- 3, MaxDrains <- 1
-----------------------------------------------------------------------------
(* Texts: all short texts of a few characters *)

Absolute(q) ==
  <<q.proto>> \o q.host \o (IF q.port = "" THEN << >> ELSE <<":", q.port>>) \o q.path
Uris ==
  [proto : {"http", "https"}, host : SeqOf({"a", "b", "."}, 4) \ {<< >>},
   port : {"", "n80", "n443", "n0", "n99999"}, path : {<<"/">>, <<"/", "a", "/">>}]
  \cup [proto : {"ws"}, host : {<<"a">>}, port : {"n80"}, path : {<<"/", ":", "n80">>}]
PairLists(names, values) == UNION {[1 .. n -> names \X values] : n \in 0 .. 2}
FormValues == {<< >>, <<"a">>, <<"%">>, <<"&">>, <<"+">>, <<" ">>, <<"a", "%">>, <<"=", "=">>, <<"%", "2">>}
CookieValues == SeqOf({"a", "\""}, 3) \cup {<<"=">>}
Names == {<<"a">>, <<"b", "a">>, <<"a", "b">>}

T == INSTANCE Texts WITH
  Questions <-
    {[f |-> "path", uri |-> <<"/">> \o u] : u \in SeqOf({"a", ".", "/", "\\"}, 5)}
    \cup {[f |-> "uri", parts |-> q, uri |-> Absolute(q)] : q \in Uris}
    \cup [f : {"match"}, pattern : SeqOf({"a", "*", "?", "/", "|", "$"}, 4), text : SeqOf({"a", "/"}, 3)]
    \cup [f : {"option"}, list : SeqOf({"g", "z", ",", " ", "="}, 4), option : {<<"g", "z">>}]
    \cup [f : {"protocol"}, offers : UNION {[1 .. n -> SeqOf(Names, 2) \ {<< >>}] : n \in 1 .. 2},
          supported : SUBSET Names]
    \cup [f : {"encode"}, text : SeqOf({"a", "%", "=", "2"}, 3), n : 0 .. 9]
    \cup [f : {"var"}, pairs : PairLists({<<"a">>, <<"b", "a">>}, FormValues), name : {<<"a">>}, k : 0 .. 1, n : {2, 3}]
    \cup [f : {"split"}, pairs : PairLists({<<"a">>, <<" ">>}, FormValues), n : {1, 3}]
    \cup [f : {"cookie"}, pairs : PairLists(Names, CookieValues), name : {<<"a">>}, n : {2, 4}],
  Escapes <- "%" :> <<"2", "5">> @@ "&" :> <<"2", "6">> @@ "=" :> <<"3", "d">>
             @@ "+" :> <<"2", "b">> @@ " " :> <<"2", "0">>,
  Server <- [port |-> 80, domain |-> <<"a">>]
-----------------------------------------------------------------------------
(* Messages: sound ones with every framing, and some that are not *)

Others == << <<<<"c">>, << >>, <<" ", " ">>, <<"a", ":", " ", "b", " ">>>>,
             <<<<"h">>, <<" ">>, << >>, << >>>>, <<<<"i">>, << >>, <<" ">>, <<"non-ASCII">>>> >>
Message(f, first, n, te, cl, lead, eol, after, flaw) ==
  [f |-> f, first |-> first, lead |-> lead, eol |-> eol, body |-> after, flaw |-> flaw,
   encoding |-> te, length |-> cl,
   headers |-> Take(Others, n)
               \o (IF cl = "" THEN << >> ELSE << <<<<"C", "-", "l">>, << >>, <<" ">>, <<cl>>>> >>)
               \o (IF te = "" THEN << >> ELSE << <<<<"t", "-", "e">>, << >>, <<" ">>, <<te>>>> >>)]
Ask(m) == <<<<m>>, <<"/", "a">>, <<"HTTP/", "1">>>>
Tell(code) == <<<<"HTTP/", "1">>, code, <<"O", " ", "K">>>>
Encodings == {"", "identity", "chunked", "Chunked", "gzip"}
Crlf == <<"\r", "\n">>
Lf == <<"\n">>
GetBare == Message("request", Ask("GET"), 0, "", "", << >>, Crlf, << >>, TRUE)

X == INSTANCE Messages WITH
  MaxHeaders <- 3,
  Questions <-
    {Message("request", Ask("PUT"), n, te, cl, lead, eol, after, FALSE) :
       n \in 0 .. 3, te \in Encodings, cl \in {"", "n0", "n5", "-"},
       lead \in {<< >>, Crlf, <<" ">>}, eol \in {Crlf, Lf}, after \in {<< >>, Crlf \o Crlf}}
    \cup {Message("response", Tell(code), n, te, cl, << >>, eol, after, FALSE) :
       code \in {<<"2", "0", "0">>, <<"1", "0", "0">>, <<"2", "0", "4">>, <<"3", "0", "4">>},
       n \in {1, 3}, te \in Encodings, cl \in {""}, eol \in {Crlf, Lf}, after \in {Lf \o Lf, <<"nul">>}}
    \cup {Message("response", Tell(<<"2", "0", "0">>), n, te, cl, << >>, eol, << >>, FALSE) :
       n \in {0, 3}, te \in Encodings, cl \in {"", "n5", "-"}, eol \in {Crlf, Lf}}
    \cup {[GetBare EXCEPT !.first = first] :
       first \in {Ask("BREW"), Ask("G") \o Ask("T"), <<<<"GET">>, <<"/">>>>, <<<<"GET">>, <<"/">>, <<"1">>>>}}
    \cup {[GetBare EXCEPT !.f = "response", !.first = first] :
       first \in {Ask("GET"), Tell(<<"9", "9">>), Tell(<<"0", "9", "9">>), Tell(<<"2", "x", "0">>), << <<"HTTP/", "1">> >>}}
    \cup {[GetBare EXCEPT !.headers = <<h>>] :
       h \in {<<<<"a", " ", "b">>, << >>, << >>, <<"x">>>>, <<<<"a">>, << >>, << >>, <<"x", "\r", "y">>>>,
              <<<<"a">>, << >>, <<"\t">>, <<"x">>>>, <<<<"a">>, << >>, << >>, <<"nul">>>>}}
-----------------------------------------------------------------------------
(* Options: lists of ports with an entry or a call that fails, and of networks *)

Dotted == <<"n10", ".", "n1", ".", "n0", ".", "n7">>
Net(a, b) == <<a, ".", b, ".", "n0", ".", "n0">>
PortEntries ==
  {<<a, IF a \in {<< >>, <<"+">>} THEN << >> ELSE <<":">>, <<p>>, s>> :
     a \in {<< >>, <<"+">>, Dotted, <<"localhost">>, <<"nobody">>},
     p \in {"n0", "n80", "n99999"}, s \in {<< >>, <<"s">>, <<"r">>, <<"x">>}}
GoodPort == <<<< >>, << >>, <<"n80">>, <<"r">>>>
Failing(n, c) == [i \in 1 .. 3 |-> IF i = n THEN c ELSE ""]
Limits ==
  {<<x, <<"=">>, <<"n7">>, u>> :
     x \in {<<"*">>, <<"/", "a">>, <<"/", "b">>, Net("n10", "n0") \o <<"/", "n8">>, Dotted},
     u \in {<< >>, <<"k">>, <<"M">>}}

O == INSTANCE Options WITH
  Numbers <- [n0 |-> 0, n1 |-> 1, n7 |-> 7, n8 |-> 8, n10 |-> 10, n12 |-> 12, n64 |-> 64,
              n80 |-> 80, n99999 |-> 99999],
  Hosts <- {<<"localhost">>},
  Matches <- LAMBDA p, u : IsPrefix(p, u),
  Questions <-
    [f : {"ports"}, entries : {<<e>> : e \in PortEntries} \cup {<<GoodPort, e>> : e \in PortEntries}
                              \cup {<<e, GoodPort>> : e \in PortEntries},
     sep : {<<",">>, <<" ", ",", ",", "\t">>}, ssl : BOOLEAN, fails : {Failing(0, "")}]
    \cup [f : {"ports"}, entries : {<<GoodPort, e, GoodPort>> : e \in PortEntries},
          sep : {<<",">>}, ssl : {TRUE},
          fails : {Failing(n, c) : n \in {1, 3}, c \in {"socket", "bind", "listen", "realloc"}}]
    \cup [f : {"acl"}, sep : {<<",">>, <<",", " ">>},
          entries : {<<<<<<"NULL">>>>>>} \cup UNION {[1 .. n ->
            {<<<<g>>, x[1], x[2], x[3]>> : g \in {"+", "-"},
               x \in {<<Dotted, << >>, << >>>>, <<Net("n10", "n0"), <<"/">>, <<"n8">>>>,
                      <<Net("n10", "n64"), <<"/">>, <<"n10">>>>, <<Net("n0", "n0"), <<"/">>, <<"n0">>>>}}] : n \in 0 .. 2},
          ip : {<<10, 1, 0, 7>>, <<10, 80, 0, 1>>, <<12, 0, 0, 0>>}]
    \cup [f : {"throttle"}, sep : {<<",">>}, entries : UNION {[1 .. n -> Limits] : n \in 0 .. 2},
          ip : {<<10, 1, 0, 7>>, <<12, 0, 0, 0>>}, uri : {<<"/", "a">>, <<"/", "c">>}]
-----------------------------------------------------------------------------
(* Pages: all short texts, pages that include others and themselves, and directories *)

Mark(rest) == <<"<", "#">> \o rest \o <<">">>
Entry(n, d, k, g) == [name |-> n, dir |-> d, size |-> k, time |-> 7 - k, hidden |-> FALSE, gone |-> g]
Everything ==
  <<Entry(<<".">>, TRUE, 0, FALSE), Entry(<<"a", "%", "2", "5">>, FALSE, 2, FALSE),
    Entry(<<"b">>, TRUE, 1, FALSE), [Entry(<<"%">>, FALSE, 3, FALSE) EXCEPT !.hidden = TRUE],
    Entry(<<"a", "&">>, TRUE, 3, FALSE), Entry(<<"<", "a">>, FALSE, 1, TRUE), Entry(<<"<">>, FALSE, 3, FALSE)>>

P == INSTANCE Pages WITH
  FileText <- <<"w", "p">> :> <<"y">> @@ <<"w", "d", "raw">> :> <<"<", "#", "z", ">">>
              @@ <<"w", "d", "s">> :> Mark(<<"include", "file", "s">>) \o <<"y", "<">>
              @@ <<"w", "d", "t">> :> <<"1">> \o Mark(<<"include", "virtual", "p">>) \o <<"2">>
                                      \o Mark(<<"include", "bare", "t">>),
  IsSsi <- LAMBDA path : Last(path) # "raw",
  Output <- LAMBDA c : <<c, c>>,
  DocumentRoot <- <<"w">>, PathLen <- 3, BufLen <- 7, ArrSize <- 1,
  Encode <- T!Encode, Decode <- T!UrlDecode,
  Questions <-
    [f : {"ssi"}, path : {<<"w", "d", "q">>},
     text : SeqOf({"x", "<", ">", "#"}, 6)
            \cup {a \o Mark(<<c, k, n>>) \o b : a \in {<< >>, <<"x">>, <<"<">>}, c \in {"include", "exec", "x"},
                    k \in {"virtual", "file", "bare", "x"}, n \in {"p", "t", "s", "raw", "no"}, b \in {<< >>, <<"x">>}}
            \cup {Mark(<<"include", "abspath">> \o p) : p \in {<<"w", "p">>, <<"w", "d", "t">>, <<"w", "d", "e", "t">>}}
            \cup {[i \in 1 .. n |-> "x"] \o Mark(<<"exec", "x">>) : n \in 5 .. 8}]
    \cup [f : {"list"}, dir : {Everything, Reverse(Everything)}, memory : 0 .. 12,
          query : {<< >>, <<"n">>, <<"n", "d">>, <<"s">>, <<"s", "d">>, <<"d", "a">>, <<"x">>}]
-----------------------------------------------------------------------------
(* Requests: a small tree with scripts and templates, and seven configurations *)

Under(p) == <<"/", "w">> \o p
RequestConfig ==
  [root |-> Under(<< >>), websocketRoot |-> << >>, rewrite |-> << >>, decode |-> TRUE,
   cgi |-> {<<"*", "*", "c", "$">>}, ssi |-> <<"*", "*", "s", "$">>,
   hide |-> <<"*", "*", "h", "$">>, index |-> <<<<"i">>, <<"c">>, <<"s">>>>,
   subResources |-> FALSE, listing |-> TRUE, cors |-> TRUE, passwords |-> << >>,
   putPasswords |-> <<"p">>, checkDomain |-> TRUE, domain |-> <<"a">>,
   protect |-> <<<<<<"/", "d">>, <<"p">>>>, <<<<"/", "f">>, <<"r">>>>>>]
RequestConfigs ==
  {RequestConfig, [RequestConfig EXCEPT !.subResources = TRUE], [RequestConfig EXCEPT !.root = << >>],
   [RequestConfig EXCEPT !.websocketRoot = Under(<<"/", "d">>)], [RequestConfig EXCEPT !.passwords = <<"p">>],
   [RequestConfig EXCEPT !.putPasswords = << >>, !.decode = FALSE, !.listing = FALSE],
   [RequestConfig EXCEPT !.rewrite = << <<<<"/", "x">>, Under(<<"/", "e">>)>> >>, !.protect = << >>,
                         !.checkDomain = FALSE]}
Segments == {<< >>} \cup {<<"/", a>> : a \in {"d", "e", "f", "c", "s", "h", "g", "x", "+"}}
UrisAsked ==
  ({a \o b \o z : a \in Segments, b \in Segments, z \in {<< >>, <<"/">>}} \ {<< >>})
  \cup {<<"/", "%", "2", "b", "/">>, <<"/", "%", "2", "b">>, <<"/", "d", "/", ".", ".", "/", "e", "/">>,
        <<"/", "e", "/", "x", "/", "f", "x", "x">>}
AGet(q) ==
  [f |-> "request", method |-> "GET", uri |-> <<"/">>, query |-> << >>, ws |-> FALSE,
   redirects |-> FALSE, port |-> << >>, gzip |-> FALSE, preflight |-> FALSE, unchanged |-> TRUE,
   knows |-> {<<"p">>}, begin |-> 0, config |-> q]
HostNames == {<< >>, <<<< >>>>, <<<<"a">>>>, <<<<"A", "b">>>>, <<<<"a", "b", ":", "1">>>>,
              <<<<"[", ":", "]", ":", "1">>>>, <<<<"[", "a">>>>, <<<<"c">>>>}

Q == INSTANCE Requests WITH
  MatchPrefix <- T!MatchPrefix, Decode <- T!UrlDecode, RemoveDotSegments <- T!RemoveDotSegments,
  Fold <- LAMBDA s : [i \in DOMAIN s |-> IF s[i] = "A" THEN "a" ELSE s[i]],
  PathMax <- 11, BufLen <- 9,
  Tree <- [p \in {Under(<< >>), Under(<<"/", "+">>), Under(<<"/", "d">>), Under(<<"/", "e">>),
                  Under(<<"/", "e", "/", "d">>)} |-> "dir"]
       @@ [p \in {Under(<<"/", n>>) : n \in {"f", "c", "s", "h"}}
                 \cup {Under(<<"/", "g", ".gz">>), Under(<<"/", "d", "/", "i">>),
                       Under(<<"/", "e", "/", "c">>), Under(<<"/", "e", "/", "f">>),
                       Under(<<"/", "e", "/", "d", "/", "s">>), <<"p">>} |-> "file"],
  Questions <-
    {[AGet(c) EXCEPT !.method = m, !.uri = u, !.gzip = TRUE, !.preflight = p, !.knows = k, !.unchanged = FALSE] :
       m \in {"GET", "PUT", "OPTIONS"}, u \in UrisAsked, p \in {FALSE}, k \in {{}, {<<"p">>}}, c \in RequestConfigs}
    \cup {[AGet(c) EXCEPT !.uri = u, !.ws = w, !.query = s] :
       u \in UrisAsked, w \in BOOLEAN, s \in {<< >>, <<<<"q">>>>}, c \in RequestConfigs}
    \cup {[AGet(c) EXCEPT !.method = m, !.preflight = p, !.begin = b] :
       m \in {"PATCH", "OPTIONS", "POST", "PROPFIND"}, p \in BOOLEAN, b \in {0, 1, -1}, c \in RequestConfigs}
    \cup {[AGet(c) EXCEPT !.redirects = TRUE, !.uri = u, !.ws = w, !.port = n, !.query = s] :
       u \in Segments \ {<< >>}, w \in BOOLEAN, n \in {<< >>, <<443>>, <<1>>}, s \in {<< >>, <<<<"q", "q", "q">>>>},
       c \in RequestConfigs}
    \cup [f : {"domain"}, ssl : BOOLEAN, domains : {<<<<"a", "b">>, <<"a">>, <<"[", ":", "]">>>>},
          first : 1 .. 3, hosts : SeqOf(HostNames, 2)]
-----------------------------------------------------------------------------
(* Infos: buffers of every length, and a value that fills more than a block *)

Values == {<<"v">>, [i \in 1 .. 14 |-> "v"]}

N == INSTANCE Infos WITH
  BlockMax <- 30,
  Questions <-
    [f : {"system"}, len : 0 .. 90, value : Values]
    \cup [f : {"context"}, len : 0 .. 100, value : {<<"v">>}, ctx : BOOLEAN, used : {1, 2}, maxUsed : {1},
          active : {0, 2}, maxActive : {1}, total : {1}]
    \cup [f : {"connection"}, len : {0, 1, 2, 4, 5, 6, 7} \cup {8 * i : i \in 1 .. 12}, value : Values,
          valid : BOOLEAN, state : 0 .. 9, user : BOOLEAN, query : BOOLEAN]
-----------------------------------------------------------------------------
(* Hpack: every byte, texts with short and long codes, and long texts; numbers around *)
(* the ends of their prefixes *)

SampleBytes == {48, 65, 97, 122, 32, 38, 33, 43, 60, 92, 195, 255, 10, 1}
Repeated(n, b) == [i \in 1 .. n |-> b]
CodedTexts ==
  {<<b>> : b \in 1 .. 255} \cup {<<a, b>> : a \in SampleBytes, b \in SampleBytes}
  \cup [1 .. 3 -> {48, 65, 92}] \cup {Repeated(12, 48), Repeated(4, 92), Repeated(54, 92)}
CodeQuestions ==
  [f : {"text"}, text : CodedTexts, lower : BOOLEAN, dirt : {0, 1}]
  \cup [f : {"plain"}, text : {[i \in 1 .. n |-> 65 + (i % 20)] : n \in {0, 1, 2, 20}}]
  \cup [f : {"number"}, n : (0 .. 300) \cup {16383, 16384, 16510, 16511, 100000}, bits : {4, 5, 6, 7}]
  \cup [f : {"long"}, n : {1025, 3000}]
-----------------------------------------------------------------------------
(* Credentials: users, files that include others and themselves, and headers *)

D0 == INSTANCE Credentials WITH
  Questions <- {}, FileOf <- << >>, Depth <- 0, question <- 0, answer <- 0

InQuotes(v) ==
  <<"\"">> \o FlattenSeq([i \in DOMAIN v |-> IF v[i] = "\"" THEN <<"\\", "\"">> ELSE <<v[i]>>]) \o <<"\"">>
HeaderPairs(vs, sep) ==
  FlattenSeq([i \in DOMAIN vs |-> (IF i = 1 THEN << >> ELSE sep) \o <<vs[i][1], "=">>
                                  \o (IF vs[i][3] THEN InQuotes(vs[i][2]) ELSE vs[i][2])])
UserA == <<"a">>
QuotedUser == <<"a", "\"", "b">>
Realm == <<"d">>
PassP == <<"p">>
UserLine(u, d, p) == [kind |-> "user", user |-> u, domain |-> d, ha1 |-> D0!Ha1(u, d, p)]
IncludeLine(f) == [kind |-> "include", file |-> f]
PasswordLines ==
  {UserLine(UserA, Realm, PassP), UserLine(UserA, Realm, <<"q">>), UserLine(UserA, <<"e">>, PassP),
   UserLine(QuotedUser, Realm, PassP), IncludeLine("f"), IncludeLine("g"), IncludeLine("h"),
   [kind |-> "comment"]}
PasswordFiles ==
  [f |-> <<UserLine(UserA, Realm, PassP)>>, g |-> <<IncludeLine("g"), UserLine(UserA, Realm, <<"q">>)>>]
DigestPairs(u, skip) ==
  SelectSeq(<< <<"username", u, TRUE>>, <<"realm", Realm, TRUE>>, <<"nonce", <<"n7">>, TRUE>>,
               <<"uri", <<"/">>, TRUE>>, <<"qop", <<"auth">>, FALSE>>, <<"nc", <<"1">>, FALSE>>,
               <<"cnonce", <<"c">>, TRUE>>, <<"response", <<"resp">>, TRUE>> >>, LAMBDA x : x[1] # skip)
ToldResponse(u, p, uri) ==
  D0!Response(D0!Ha1(u, Realm, p), <<"n7">>, <<"1">>, <<"c">>, <<"auth">>,
              D0!Md5(<<<<"GET">>, <<":">>, uri>>))
DigestQuestion(lines, u, p, skip, scheme, method) ==
  [f |-> "digest", lines |-> lines, domain |-> Realm, method |-> method, user |-> u, pass |-> p,
   header |-> <<scheme, " ">> \o HeaderPairs(DigestPairs(u, skip), <<",", " ">>),
   told |-> ToldResponse(u, p, IF skip = "uri" THEN D0!NULL ELSE <<"/">>),
   sound |-> skip \in {"", "uri"} /\ scheme = "Digest" /\ method = <<"GET">>]
CredentialQuestions ==
  {DigestQuestion(lines, u, p, s, "Digest", <<"GET">>) :
     lines \in SeqOf(PasswordLines, 2), u \in {UserA, QuotedUser}, p \in {PassP, <<"q">>}, s \in {"", "cnonce"}}
  \cup {DigestQuestion(<<UserLine(UserA, Realm, PassP)>>, UserA, PassP, s, x, m) :
     s \in D0!Known \cup {""}, x \in {"Digest", "Basic"}, m \in {<<"GET">>, <<"PUT">>}}
  \cup {[f |-> "header", values |-> "username" :> u @@ "cnonce" :> c,
         header |-> <<"Digest", " ">> \o HeaderPairs(<< <<"username", u, TRUE>>, <<"cnonce", c, b>> >>, sep)] :
     u \in SeqOf({"a", "\"", ",", "="}, 3), c \in SeqOf({"a", "="}, 2) \ {<< >>},
     sep \in {<<",">>, <<" ">>, <<",", " ">>, <<" ", ",">>}, b \in BOOLEAN}
  \cup [f : {"base64"}, encoded : {FALSE}, src : SeqOf({0, 1, 77, 128, 255}, 4)]
  \cup [f : {"base64"}, encoded : {TRUE}, src : SeqOf({0, 63, 64, 65}, 5)]
-----------------------------------------------------------------------------
(* Standalone: files of up to two settings and what else the command line says, from *)
(* three directories; and URLs *)

Setting(n, v) == [name |-> n, value |-> v, legal |-> v \notin {<<"n7", "x">>, <<"No">>}]
OptionTypes ==
  [num_threads |-> "number", listening_ports |-> "list", document_root |-> "directory",
   ssl_certificate |-> "file", decode_url |-> "boolean", ssl_verify_peer |-> "optional",
   cgi_pattern |-> "pattern", ssl_ca_path |-> "directory", authentication_domain |-> "string"]
StandaloneTree ==
  [p \in {<<"/", "w">>, <<"/", "b">>, <<"/", "b", "/", "d">>, <<"/", "w", "/", "d">>} |-> "dir"]
  @@ [p \in {<<"/", "b", "/", "f">>, <<"/", "w", "/", "f">>} |-> "file"]
DomainFiles == <<"e">> :> <<"authentication_domain", " ", "b">> @@ <<"h">> :> <<"add_domain", " ", "e", "\n">>
SomeSettings ==
  {Setting("num_threads", <<"n7">>), Setting("num_threads", <<"n7", "x">>), Setting("listening_ports", <<"n80">>),
   Setting("listening_ports", <<"n7", " ", "s">>), Setting("document_root", <<"d">>),
   Setting("document_root", <<".", ".", "/", "w", "/", "f">>), Setting("ssl_certificate", <<"x">>),
   Setting("decode_url", <<"no">>), Setting("decode_url", <<"No">>), Setting("cgi_pattern", << >>),
   Setting("ssl_ca_path", <<"d">>), Setting("authentication_domain", <<"a">>)}
LineOf(s, k) ==
  (IF k = 1 THEN <<" ">> ELSE << >>) \o <<s.name>>
  \o (IF s.value = << >> THEN << >> ELSE IF k = 0 THEN <<" ">> ELSE <<" ", "\t">>) \o s.value
  \o <<<<"\n">>, <<" ", "\r", "\n">>, << >>>>[k + 1]
FileOfSettings(ss, k, lastLine) == FlattenSeq([i \in DOMAIN ss |-> LineOf(ss[i], IF i = Len(ss) THEN lastLine ELSE k)])
StartQuestion(exe, home, name, args, text, told, bare) ==
  [f |-> "start", argv |-> <<exe>> \o args, home |-> home, file |-> name, text |-> text, told |-> told,
   starts |-> TRUE, garbage |-> "?", bare |-> bare]
Argument(s) == <<<<"-", s.name>>, s.value>>
Executables ==
  {<<<<"civetweb">>, <<"/", "w">>, <<"conf">>>>, <<<<"d", "/", "civetweb">>, <<"/", "w", "/", "d">>, <<"d", "/", "conf">>>>,
   <<<<".", ".", "/", "b", "/", "civetweb">>, <<"/", "b">>, <<".", ".", "/", "b", "/", "conf">>>>}
SystemFile == <<"/", "etc", "/", "conf">>
Flagged ==
  {<< >>, <<<<"-", "psn_", "x">>>>, <<<<"-", "I">>>>, <<<<"-", "A">>>>,
   <<<<"-", "A">>, <<"f">>, <<"r">>, <<"u">>, <<"p">>>>, <<<<"-", "R">>, <<"f">>, <<"r">>, <<"u">>>>, <<<<"-", "h">>>>,
   <<<<"-", "add_domain">>, <<"e">>>>, <<<<"-", "add_domain">>, <<"h">>>>,
   <<<<"-", "add_domain">>, <<"e">>, <<"-", "add_domain">>, <<"e">>>>,
   <<<<"-", "title">>, <<"e">>>>, <<<<"-", "hide_tray">>, <<"yes">>>>}
UrlQuestion(x, p, h, t, r) ==
  [f |-> "url", url |-> IF x = "" THEN p \o <<":", "/", "/">> \o h \o t \o r ELSE <<x>> \o h,
   sound |-> x = "" /\ t \in {<< >>, <<":", "n7">>} /\ h[1] \notin {"/", ":"},
   ssl |-> p = <<"https">>, host |-> h, resource |-> IF r = << >> THEN r ELSE Tail(r),
   number |-> IF t # << >> THEN 7 ELSE IF p = <<"https">> THEN 443 ELSE 80]
StandaloneQuestions ==
  {StartQuestion(<<"/", "b", "/", "civetweb">>, <<"/", "b">>, <<"/", "b", "/", "conf">>, Argument(a),
                 pre \o FileOfSettings(ss, k, l), ss \o <<a>>, ss # << >> /\ l = 2 /\ Last(ss).value = << >>) :
     ss \in SeqOf(SomeSettings, 2), k \in {0, 1}, l \in 0 .. 2,
     a \in {Setting("num_threads", <<"n1">>), Setting("listening_ports", <<"n7">>), Setting("document_root", <<"f">>)},
     pre \in {<< >>, <<"bom", " ", "#", "x", "\n", "\n">>}}
  \cup {StartQuestion(p[1], p[2], name, (IF n THEN <<name>> ELSE << >>) \o args, FileOfSettings(ss, 0, 0),
                      IF n \/ name \in {p[3], SystemFile} THEN ss ELSE << >>, FALSE) :
     p \in Executables, name \in {<<"conf">>, <<"x">>, SystemFile}, n \in BOOLEAN,
     ss \in SeqOf({Setting("listening_ports", <<"n80">>), Setting("document_root", <<"f">>)}, 1), args \in Flagged}
  \cup {UrlQuestion(x, p, h, t, r) :
     x \in {"", "ftp"}, p \in {<<"http">>, <<"https">>},
     h \in (SeqOf({"a", "?", "."}, 2) \ {<< >>}) \cup {<<":">>, <<"/", "a">>},
     t \in {<< >>, <<":", "n7">>, <<":">>, <<":", "n7", "x">>, <<":", "n0">>, <<":", "n99999">>},
     r \in {<< >>} \cup {<<"/">> \o y : y \in SeqOf({"a", ":", "/"}, 2)}}
-----------------------------------------------------------------------------
(* Environment: scripts, index scripts and paths behind them; allocations that fail *)

HttpHeader(n, v) == [name |-> n, value |-> v]
NullText == <<"null">>
Scripts ==
  {[uri |-> <<"/", "c">>, info |-> NullText, prog |-> <<"w", "/", "c">>],
   [uri |-> <<"/", "c">>, info |-> NullText, prog |-> <<"c">>],
   [uri |-> <<"/", "d", "/">>, info |-> NullText, prog |-> <<"w", "/", "d", "/", "i">>],
   [uri |-> <<"/", "d", "/">>, info |-> NullText, prog |-> <<"i">>],
   [uri |-> <<"/", "c", "/", "x">>, info |-> <<"/", "x">>, prog |-> <<"w", "/", "c">>]}
HeaderLists ==
  {<< >>, <<HttpHeader(<<"c", "-", "t">>, <<"v">>)>>,
   <<HttpHeader(<<"a", "-", "b", "c">>, <<"v">>), HttpHeader(<<"a", "-", "b">>, << >>)>>}
EnvironmentQuestions ==
  {s @@ [headers |-> h, query |-> q, status |-> n, user |-> u, added |-> a, fails |-> f] :
     s \in Scripts, h \in HeaderLists, q \in {NullText, <<"q">>}, n \in {0, 404}, u \in BOOLEAN,
     a \in {<< >>, <<<<"x=", "y">>, <<"z=">>>>}, f \in {{}, {1}, {2}, {3}, {5}, {6, 7}}}
-----------------------------------------------------------------------------
(* Errors: statuses of every class and none, pages of three scopes, and callbacks *)

ErrorPages ==
  {<< >>, <<"404", <<"h">>>> :> "static",
   <<"404", <<"h">>>> :> "static" @@ <<"4xx", <<"p">>>> :> "script",
   <<"4xx", <<"h">>>> :> "locked" @@ <<"4xx", <<"p">>>> :> "script", <<"", <<"h">>>> :> "locked",
   <<"", <<"p">>>> :> "script" @@ <<"4xx", <<"h">>>> :> "static" @@ <<"5xx", <<"q">>>> :> "static"}
ErrorQuestions ==
  [f : {"error"}, http1 : {TRUE}, control : {FALSE}, maxAge : {1}, strict : {-1}, added : {<< >>},
   status : {7, 100, 204, 304, 404, 409, 500, 600, 1000}, next : {404, 500}, begun : 0 .. 2,
   callback : {"none", "leaves", "silent", "answers", "writes", "again", "adds"}, prefix : {TRUE},
   exts : {<<"i", ".", "h", ",", "i", ".", "p">>, <<"i", ".", "p", ",", "x", ",", "i", ".", "h">>,
           <<"i", ".", "q", "r", "s">>},
   pages : ErrorPages]
  \cup [f : {"error"}, http1 : BOOLEAN, control : BOOLEAN, maxAge : {0, 1}, strict : {0}, added : {<<"added">>},
        status : {404, 500}, next : {500}, begun : {0}, callback : {"none"}, prefix : BOOLEAN,
        exts : {<<"i", ".", "h">>}, pages : ErrorPages]
  \cup [f : {"ok"}, http1 : BOOLEAN, strict : {-1, 0}, added : {<< >>, <<"added">>}, mime : BOOLEAN,
        length : {-1, 0, 1}, begun : 0 .. 2]

Y == INSTANCE Hpack WITH Questions <- CodeQuestions
R == INSTANCE Credentials WITH Questions <- CredentialQuestions, FileOf <- PasswordFiles, Depth <- 3
A == INSTANCE Standalone WITH
  Questions <- StandaloneQuestions, TypeOf <- OptionTypes, LineSize <- 16, MaxOptions <- 4,
  Numbers <- [n0 |-> 0, n1 |-> 1, n7 |-> 7, n80 |-> 80, n99999 |-> 99999],
  Tree <- StandaloneTree, Cwd <- <<"/", "w">>, Others <- DomainFiles
E == INSTANCE Environment WITH
  Questions <- EnvironmentQuestions, BlockSize <- 9, MaxVars <- 14, MaxName <- 5,
  Upper <- [a |-> "A", b |-> "B", c |-> "C", t |-> "T"]
B == INSTANCE Errors WITH Questions <- ErrorQuestions, MaxExt <- 2
-----------------------------------------------------------------------------
Idle == 0

Init ==
  /\ \/ part = "texts" /\ T!Init
     \/ part = "messages" /\ X!Init
     \/ part = "options" /\ O!Init
     \/ part = "pages" /\ P!Init
     \/ part = "requests" /\ Q!Init
     \/ part = "infos" /\ N!Init
     \/ part = "codes" /\ Y!Init
     \/ part = "credentials" /\ R!Init
     \/ part = "standalone" /\ A!Init
     \/ part = "environment" /\ E!Init
     \/ part = "errors" /\ B!Init
     \/ /\ part \in {"files", "viewer", "transfer", "library",
                  "http2", "passwords", "logs"}
        /\ question = Idle /\ answer = Idle
  /\ IF part = "files" THEN F!Init ELSE fs = Idle /\ node = Idle /\ worker = Idle
  /\ IF part = "viewer" THEN V!Init
     ELSE /\ main = Idle /\ file = Idle /\ ver = Idle /\ writer = Idle /\ page = Idle
          /\ save = Idle
  /\ IF part = "transfer" THEN I!Init
     ELSE /\ calls = Idle /\ throttle = Idle /\ io = Idle /\ lastTime = Idle
          /\ lastBytes = Idle /\ space = Idle /\ inbox = Idle /\ incoming = Idle
          /\ came = Idle /\ peer = Idle /\ stopAt = Idle /\ clock = Idle
          /\ pushed = Idle /\ pulled = Idle /\ results = Idle /\ seen = Idle
  /\ IF part = "library" THEN L!Init
     ELSE /\ lib = Idle /\ server = Idle /\ cert = Idle /\ machine = Idle
          /\ lost = Idle /\ crashed = Idle /\ last = Idle /\ steps = Idle
  /\ IF part = "http2" THEN Z!Init
     ELSE /\ phase = Idle /\ theirs = Idle /\ table = Idle /\ fields = Idle
          /\ state = Idle /\ reply = Idle /\ heap = Idle /\ sentBy = Idle
          /\ asked = Idle
  /\ IF part = "passwords" THEN D!Init
     ELSE /\ disk = Idle /\ content = Idle /\ caller = Idle /\ changes = Idle
          /\ request = Idle /\ run = Idle /\ now = Idle /\ issued = Idle
          /\ versions = Idle /\ overlap = Idle /\ died = Idle
  /\ IF part = "logs" THEN J!Init
     ELSE /\ log = Idle /\ timeOf = Idle /\ logger = Idle /\ line = Idle
          /\ drains = Idle /\ full = Idle

Next ==
  \/ /\ part = "files" /\ F!Next
     /\ UNCHANGED <<part, viewerVars, transferVars, libraryVars, http2Vars,
                    passwordsVars, logsVars, questionVars>>
  \/ /\ part = "viewer" /\ V!Next
     /\ UNCHANGED <<part, filesVars, transferVars, libraryVars, http2Vars,
                    passwordsVars, logsVars, questionVars>>
  \/ /\ part = "transfer" /\ I!Next
     /\ UNCHANGED <<part, filesVars, viewerVars, libraryVars, http2Vars, passwordsVars,
                    logsVars, questionVars>>
  \/ /\ part = "library" /\ L!Next
     /\ UNCHANGED <<part, filesVars, viewerVars, transferVars, http2Vars,
                    passwordsVars, logsVars, questionVars>>
  \/ /\ part = "http2" /\ Z!Next
     /\ UNCHANGED <<part, filesVars, viewerVars, transferVars, libraryVars,
                    passwordsVars, logsVars, questionVars>>
  \/ /\ part = "passwords" /\ D!Next
     /\ UNCHANGED <<part, filesVars, viewerVars, transferVars, libraryVars, http2Vars,
                    logsVars, questionVars>>
  \/ /\ part = "logs" /\ J!Next
     /\ UNCHANGED <<part, filesVars, viewerVars, transferVars, libraryVars, http2Vars,
                    passwordsVars, questionVars>>
  \/ /\ \/ part = "texts" /\ T!Next
        \/ part = "messages" /\ X!Next
        \/ part = "options" /\ O!Next
        \/ part = "pages" /\ P!Next
        \/ part = "requests" /\ Q!Next
        \/ part = "infos" /\ N!Next
        \/ part = "codes" /\ Y!Next
        \/ part = "credentials" /\ R!Next
        \/ part = "standalone" /\ A!Next
        \/ part = "environment" /\ E!Next
        \/ part = "errors" /\ B!Next
     /\ UNCHANGED <<part, filesVars, viewerVars, transferVars, libraryVars, http2Vars,
                    passwordsVars, logsVars>>

Spec == Init /\ [][Next]_vars
-----------------------------------------------------------------------------
(* The properties are stated and explained in the modules. *)

\* Files: one header for each request, a put that is answered with success has stored
\* its body, and a get sends as much as it says.
FilesAreWhole ==
  [][part = "files" => F!AnsweredOnce' /\ F!PutIsWhole /\ F!GetIsWhole]_vars

\* Transfer: what is sent and read is what was given, once and in order, calls end when
\* their time is over or the server stops, and a limit on the speed holds.
TransfersAreHonest ==
  part = "transfer" => I!TransfersAreHonest /\ I!CallsEndInTime /\ I!SpeedIsLimited

\* Texts: paths are resolved, patterns match, and values are the client's.  Messages:
\* what is read is what the sender put together.  Options: all ports are opened or none,
\* and rules hold as they are written.  Pages: tags are replaced, listings complete.
\* Infos: a text about the server is an object that fits into its buffer.  Hpack: codes
\* and numbers are read as they were written.  Credentials: a user has the password of the
\* line that is for him.  Standalone: settings are the user's, the command line's last.
AnswersAreRight ==
  /\ part = "texts" => T!PathsAreClean /\ T!TextsMatch /\ T!ValuesSurvive
  /\ part = "messages" => X!MessagesAreRead
  /\ part = "options" => O!PortsAreSet /\ O!RulesHold
  /\ part = "pages" => P!TagsAreReplaced /\ P!ListingIsWhole
  /\ part = "infos" => N!InfosAreObjects
  /\ part = "codes" => Y!CodesAreRead
  /\ part = "credentials" => R!CredentialsAreRead
  /\ part = "standalone" => A!ProgramsDoAsTold

\* Requests: the URI is answered by the function it stands for, to those who may have
\* it, for the domain it names.  Http2: a request has the headers its client means,
\* and the client reads the response of the handler.  Environment: a program finds what it
\* is told through its pointers.  Errors: a request has one head, and an error its page.
RequestsAreServed ==
  /\ part = "requests" =>
       Q!ScriptsAreRun /\ Q!PasswordsAreAsked /\ Q!RedirectsLead /\ Q!DomainsAreServed
  /\ part = "http2" => Z!HeadersAreTheClients /\ Z!ResponsesAreRead /\ Z!RepliesAreOrdered
  /\ part = "environment" => E!EnvironmentIsWhole /\ E!ProgramsAreTold
  /\ part = "errors" => B!OneHeadEach /\ B!ErrorsAreAnswered /\ B!FramedOnce

\* Viewer: a page served alone shows the fields of one version.  Passwords: calls that do
\* not overlap keep every record, and a request reads one version.  Logs: a line is
\* logged once and in one piece, and what is lost is told.  Library: what servers take of
\* the library is counted and given back, and a handshake that goes on is with the domain
\* the client has named, and with its certificate.  Http2: the strings of headers are
\* freed.  Variables have their types.
StoresAreWhole ==
  /\ part = "viewer" => V!TypeOK /\ V!LonePagesAreWhole
  /\ part = "files" => F!TypeOK
  /\ part = "transfer" => I!TypeOK
  /\ part = "passwords" => /\ D!PasswordsAreKept /\ D!RecordsSurvive
                           /\ D!RequestsReadOneVersion /\ D!NoncesAreOfThisRun
  /\ part = "logs" => J!TypeOK /\ J!LinesAreLogged /\ J!LossesAreTold /\ J!DatesAreOfTheRequest
  /\ part = "library" => L!LibraryIsCounted /\ L!ServersAreFreed /\ L!HandshakesAreTrusted
  /\ part = "http2" => Z!StringsAreFreed
=============================================================================
