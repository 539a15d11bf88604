------------------------------ MODULE Requests ------------------------------
(***************************************************************************)
(* What handle_request of civetweb.c decides for a request that no handler *)
(* is registered for: which file the URI means, who may have it and which  *)
(* function answers.  Texts are sequences of characters, short words are   *)
(* single ones.  A behaviour is one request, or the domains that a worker  *)
(* finds for some.                                                         *)
(***************************************************************************)
EXTENDS Integers, Sequences, SequencesExt, FiniteSetsExt, Chars

CONSTANTS
  Questions,  \* requests: [f |-> "request", ...], and [f |-> "domain", ...]
  Tree,       \* paths, each with "file" or "dir"
  PathMax,    \* UTF8_PATH_MAX
  BufLen,     \* MG_BUF_LEN
  MatchPrefix(_, _), Decode(_), RemoveDotSegments(_), Fold(_)   \* on texts

VARIABLES question, answer   \* the question, and << >> or <<its answer>>

None == << >>
Config == question.config   \* the options of the domain
-----------------------------------------------------------------------------
(* interpret_uri *)

Put(q) == q.method \in {"PUT", "DELETE", "MKCOL", "PATCH"}

IsScript(path) == \E p \in Config.cgi : MatchPrefix(p, path) > 0
IsTemplate(path) == MatchPrefix(Config.ssi, path) > 0
IsHidden(path) == MatchPrefix(Config.hide, path) > 0 \/ Last(path) = ".htpasswd"

WithoutSlashes(path) == Take(path, Max({0} \cup {i \in DOMAIN path : path[i] # "/"}))

Stat(path) ==
  LET p == WithoutSlashes(path)
  IN IF p \notin DOMAIN Tree \/ (p # path /\ Tree[p] = "file") THEN "none" ELSE Tree[p]

\* <<the index file of a directory>>, or << >>
Index(path, room) ==
  LET dir == WithoutSlashes(path) \o <<"/">>
      found == SelectSeq(Config.index,
                 LAMBDA i : Len(i) + 1 <= room - Len(dir) /\ Stat(dir \o i) # "none")
  IN IF found = << >> THEN << >> ELSE <<dir \o found[1]>>

FileName(root, uri) ==
  LET rules == SelectSeq(Config.rewrite, LAMBDA r : MatchPrefix(r[1], uri) > 0)
  IN IF Len(root \o uri) >= PathMax - 1 \/ rules = << >> THEN root \o uri
     ELSE rules[1][2] \o Drop(uri, MatchPrefix(rules[1][1], uri))

Nothing(q) ==
  [path |-> << >>, stat |-> "none", found |-> FALSE, script |-> FALSE, template |-> FALSE,
   gzipped |-> FALSE, info |-> None, put |-> Put(q), ws |-> q.ws]

Cleanup(q) == [Nothing(q) EXCEPT !.put = FALSE, !.ws = FALSE]

\* Mutated: an index file is not looked at.
IndexAsFile(found, index) == [found EXCEPT !.path = index, !.stat = Stat(index), !.script = FALSE]

Substituted(found, index) ==
  [found EXCEPT !.path = index, !.stat = Stat(index),
     !.script = IsScript(index) \/ (IsTemplate(index) /\ @),
     !.template = (~IsScript(index) /\ IsTemplate(index)) \/ @]

Existing(q, path, slash) ==
  LET index == Index(path, PathMax)
      found == [Nothing(q) EXCEPT !.path = path, !.stat = Stat(path), !.found = TRUE,
                  !.script = IsScript(path) /\ ~Put(q),
                  !.template = IsTemplate(path) /\ ~Put(q)]
  IN IF Stat(path) # "dir" \/ ~slash THEN found
     ELSE IF index = << >> THEN [found EXCEPT !.path = WithoutSlashes(path)]
     ELSE Substituted(found, index[1])

\* Mutated: the first slash whose front is a script ends the search.
NearestFirst(hits) == Min(hits)

Nearest(hits) == Max(hits)

\* Scripts, and index files that are, get the rest of the path.
SubResource(q, path) ==
  LET index(front) == IF Config.subResources THEN Index(front, Len(path) + PathMax) ELSE << >>
      script(front) == front # << >> /\ IsScript(front) /\ Stat(front) # "none"
      hits == {i \in DOMAIN path : path[i] = "/" /\ LET front == Take(path, i - 1)
                                                    IN script(front) \/ index(front) # << >>}
      at == Nearest(hits)
      front == Take(path, at - 1)
      rest == Drop(path, at - 1)
      run(p) == [Nothing(q) EXCEPT !.path = p, !.info = rest, !.script = TRUE, !.found = TRUE]
  IN CASE hits = {} -> [Nothing(q) EXCEPT !.path = path]
       [] hits # {} /\ script(front) -> run(front)
       [] hits # {} /\ ~script(front) /\ ~IsScript(index(front)[1]) ->
            [Nothing(q) EXCEPT !.path = front]
       [] OTHER -> IF Len(index(front)[1]) + Len(rest) + 2 >= PathMax THEN Cleanup(q)
                   ELSE run(index(front)[1])

InterpretUri(q, uri) ==
  LET root == IF q.ws /\ Config.websocketRoot # None THEN Config.websocketRoot ELSE Config.root
      path == FileName(root, uri)
      zipped == path \o <<".gz">>
  IN CASE root = None -> Nothing(q)
       [] root # None /\ Len(path) >= PathMax - 1 -> Cleanup(q)
       [] root # None /\ Len(path) < PathMax - 1 ->
            IF Stat(path) # "none" THEN Existing(q, path, uri # << >> /\ Last(uri) = "/")
            ELSE IF q.gzip /\ Len(zipped) >= PathMax THEN Cleanup(q)
            ELSE IF q.gzip /\ Stat(zipped) # "none"
            THEN [Nothing(q) EXCEPT !.path = path, !.stat = Stat(zipped), !.found = TRUE,
                                    !.gzipped = TRUE]
            ELSE SubResource(q, path)
-----------------------------------------------------------------------------
(* check_authorization, open_auth_file, is_authorized_for_put: a request   *)
(* knows some password files                                               *)

Opens(file) == Stat(file) = "file"

\* Where a slash ends the directory of a path; there is none before the first character.
Directory(path) == Take(path, Max({1} \cup {i \in DOMAIN path : path[i] = "/"}) - 1)

AuthFile(path) ==
  CASE Config.passwords # None -> Config.passwords
    [] Config.passwords = None /\ Stat(path) = "dir" -> path \o <<"/", ".htpasswd">>
    [] OTHER -> Directory(path) \o <<"/", ".htpasswd">>

\* Mutated: a rule holds for the URI itself.
ProtectsExactly(rule, uri) == rule[1] = uri

Protects(rule, uri) == Starts(uri, rule[1])

\* A file that cannot be opened protects nothing.
CheckAuthorization(q, uri, path) ==
  LET rules == SelectSeq(Config.protect, LAMBDA r : Protects(r, uri))
      file == IF rules # << >> /\ Opens(rules[1][2]) THEN rules[1][2] ELSE AuthFile(path)
  IN Opens(file) => file \in q.knows

IsAuthorizedForPut(q) ==
  Config.putPasswords # None /\ Opens(Config.putPasswords) /\ Config.putPasswords \in q.knows
-----------------------------------------------------------------------------
(* mg_construct_local_link, redirect_to_https_port, mg_send_http_redirect *)

Error(code) == [kind |-> "error", code |-> code]
By(kind, path, info) == [kind |-> kind, path |-> path, info |-> info]

DefaultPort(proto) == IF proto \in {"https", "wss"} THEN 443 ELSE 80

\* <<the link>>, or << >>
LocalLink(proto, port, uri) ==
  LET host == IF Config.checkDomain /\ Config.domain # None THEN Config.domain ELSE <<"address">>
      link == <<proto, "://">> \o host
              \o (IF port = DefaultPort(proto) THEN << >> ELSE <<":", port>>) \o uri
  IN IF Len(link) < BufLen THEN <<link>> ELSE << >>

SendHttpRedirect(target, code) ==
  IF code \in {0, 301, 302, 303, 307, 308}
  THEN [kind |-> "redirect", code |-> IF code = 0 THEN 307 ELSE code,
        target |-> IF target = << >> THEN <<"/">> ELSE target]
  ELSE Error(-2)

RedirectToHttps(q, port) ==
  LET link == LocalLink(IF q.ws THEN "wss" ELSE "https", port, q.uri)
      query == IF q.query = None THEN << >> ELSE <<"?">> \o q.query[1]
  IN IF link = << >> \/ (q.query # None /\ Len(link[1]) + Len(q.query[1]) + 2 >= BufLen)
     THEN Error(500) ELSE SendHttpRedirect(link[1] \o query, 308)
-----------------------------------------------------------------------------
(* handle_request, handle_file_based_request *)

Cached(q, path) == IF q.unchanged THEN By("unchanged", path, None) ELSE By("static", path, None)

FileBased(q, r) ==
  CASE IsScript(r.path) -> By("cgi", r.path, r.info)
    [] ~IsScript(r.path) /\ IsTemplate(r.path) -> By("ssi", r.path, None)
    [] OTHER -> Cached(q, r.path)

Preflight(q) == q.method = "OPTIONS" /\ Config.cors /\ q.preflight

\* Mutated: hidden files are listed, not sent.
HidesNothing(path) == FALSE

Hides(path) == IsHidden(path)

\* What is at the place of the last character of the URI as it came: decoding and
\* cleaning may have made it shorter, and anything be there.
AtEnd(q, uri) ==
  CASE Len(q.uri) <= Len(uri) -> {uri[Len(q.uri)]}
    [] Len(q.uri) = Len(uri) + 1 -> {"nul"}
    [] OTHER -> {"/", "nul"}

Modify(q, path) == IF q.method = "PATCH" THEN Error(405) ELSE By(q.method, path, None)

\* The answers to a request for a file that was found.
Found(q, r, uri, raw) ==
  LET redirect == SendHttpRedirect(raw \o <<"/">> \o (IF q.query = None THEN << >>
                                                      ELSE <<"?">> \o q.query[1]), 301)
      listing == IF Config.listing THEN By("listing", r.path, None) ELSE Error(403)
      rest == CASE q.method = "PROPFIND" -> By("propfind", r.path, None)
                [] q.method = "OPTIONS" -> [kind |-> "options", code |-> 200]
                [] q.method \notin {"GET", "HEAD", "PROPFIND", "OPTIONS"} -> Error(405)
                [] OTHER -> IF r.stat = "dir" THEN listing
                            ELSE IF r.template THEN FileBased(q, r) ELSE Cached(q, r.path)
  IN {IF r.stat = "dir" /\ end # "/" THEN redirect ELSE rest : end \in AtEnd(q, uri)}

Authorized(q, r, uri) ==
  CASE r.put /\ ~r.script /\ Config.root = None -> Error(405)
    [] r.put /\ ~r.script /\ Config.root # None /\ ~IsAuthorizedForPut(q) -> Error(401)
    [] ~(r.put /\ ~r.script) /\ ~CheckAuthorization(q, uri, r.path) -> Error(401)
    [] OTHER -> None

Served(q, r, uri, raw) ==
  CASE r.ws -> {IF r.script THEN By("websocket", r.path, None) ELSE Error(404)}
    [] ~r.ws /\ Config.root = None -> {Error(404)}
    [] ~r.ws /\ Config.root # None /\ r.script -> {FileBased(q, r)}
    [] ~r.ws /\ Config.root # None /\ ~r.script /\ r.put -> {Modify(q, r.path)}
    [] OTHER -> IF ~r.found \/ Hides(r.path) THEN {Error(404)} ELSE Found(q, r, uri, raw)

HandleRequest(q) ==
  LET raw == IF Config.decode THEN Decode(q.uri) ELSE q.uri
      uri == RemoveDotSegments(raw)
      r == InterpretUri(q, uri)
  IN CASE q.redirects -> {IF q.port = None THEN Error(503) ELSE RedirectToHttps(q, q.port[1])}
       [] ~q.redirects /\ q.begin # 0 -> {[kind |-> "callback", code |-> q.begin]}
       [] ~q.redirects /\ q.begin = 0 ->
            IF Preflight(q) THEN {[kind |-> "preflight", code |-> 200]}
            ELSE IF Authorized(q, r, uri) # None THEN {Authorized(q, r, uri)}
            ELSE Served(q, r, uri, raw)
-----------------------------------------------------------------------------
(* get_host_from_request_info, switch_domain_context: hosts is the headers *)
(* of the requests that a worker reads, one after the other                *)

\* <<the host>>, or << >>
Host(header) ==
  LET ends == {i \in DOMAIN header : header[i] = "]"}
  IN CASE header = << >> \/ header[1] # "[" -> <<Take(header, Span(header, {":"}))>>
       [] header # << >> /\ header[1] = "[" /\ ends # {} -> <<Take(header, Min(ends))>>
       [] OTHER -> << >>

Same(a, b) == Len(a) = Len(b) /\ Fold(a) = Fold(b)

\* Mutated: a domain is found by the beginning of its name.
NamedFrom(domains, host) == {i \in DOMAIN domains : Starts(Fold(domains[i]), Fold(host))}

Named(domains, host) == {i \in DOMAIN domains : Same(domains[i], host)}

\* The first domain is the default.  A worker begins with it and keeps what it has found.
SwitchDomain(q, domain, header) ==
  LET host == IF header = << >> THEN << >> ELSE Host(header[1])
      named == IF host = << >> THEN {} ELSE Named(q.domains, host[1])
  IN CASE q.ssl -> IF host # << >> /\ domain # 1 /\ ~Same(q.domains[domain], host[1])
                   THEN 0 ELSE domain
       [] ~q.ssl /\ named # {} -> Min(named)
       [] OTHER -> domain

SwitchDomains(q) ==
  LET domain[k \in 0 .. Len(q.hosts)] ==
        IF k = 0 THEN q.first
        ELSE IF domain[k - 1] = 0 THEN 0 ELSE SwitchDomain(q, domain[k - 1], q.hosts[k])
  IN [k \in 1 .. Len(q.hosts) |-> domain[k]]
-----------------------------------------------------------------------------
Init == question \in Questions /\ answer = << >>
Next ==
  /\ answer = << >> /\ UNCHANGED question
  /\ IF question.f = "domain" THEN answer' = <<SwitchDomains(question)>>
     ELSE \E a \in HandleRequest(question) : answer' = <<a>>
-----------------------------------------------------------------------------
Asked(f) == question.f = f /\ answer # << >>
A == answer[1]

IsRead(q) == ~Put(q) /\ ~q.ws /\ ~q.redirects
Plain(q) == RemoveDotSegments(q.uri) = q.uri /\ Decode(q.uri) = q.uri
Sends == {"static", "unchanged", "ssi", "cgi", "listing", "propfind", "PUT", "DELETE", "MKCOL"}

\* handle_request: a script or a template is never sent as it is, nor a hidden file; a
\* script that is run is there, the last one on the path, and gets the rest of it.
ScriptsAreRun ==
  Asked("request") =>
    /\ A.kind \in {"static", "unchanged"} =>
         /\ ~IsHidden(A.path)
         /\ Stat(A.path) = "file" => ~IsScript(A.path) /\ ~IsTemplate(A.path)
    /\ A.kind = "cgi" /\ Config.rewrite = << >> =>
         LET path == Config.root \o RemoveDotSegments(IF Config.decode THEN Decode(question.uri)
                                                      ELSE question.uri)
         IN /\ IsScript(A.path) /\ Stat(A.path) # "none"
            /\ Starts(A.path, Take(path, Len(path) - Len(A.info)))
            /\ A.info # None =>
                 /\ IsSuffix(A.info, path)
                 /\ \A n \in Len(path) - Len(A.info) + 1 .. Len(path) - 1 :
                      path[n + 1] = "/" =>
                        /\ Stat(Take(path, n)) = "none" \/ ~IsScript(Take(path, n))
                        /\ Config.subResources => Index(Take(path, n), PathMax) = << >>

\* check_authorization: who changes a file knows the password for it; what is below a
\* protected URI goes to those who know its password, if the file of passwords is there.
PasswordsAreAsked ==
  Asked("request") /\ A.kind \in Sends =>
    /\ A.kind \in {"PUT", "DELETE", "MKCOL"} => IsAuthorizedForPut(question)
    /\ A.kind \notin {"PUT", "DELETE", "MKCOL"} =>
         \A i \in DOMAIN Config.protect :
           LET uri == Config.protect[i][1]
           IN Plain(question) /\ IsPrefix(uri, question.uri) /\ Opens(Config.protect[i][2]) =>
                \E j \in 1 .. i : Config.protect[j][2] \in question.knows

\* Steps 1.2 and 12: a redirect leads to where the request was meant to go, and who
\* follows it is not redirected again, as long as the URI is a plain one.
RedirectsLead ==
  Asked("request") /\ A.kind = "redirect" =>
    LET query == IF question.query = None THEN << >> ELSE <<"?">> \o question.query[1]
    IN /\ IsSuffix(question.uri \o query, A.target) \/ ~question.redirects
       /\ ~question.redirects /\ Plain(question) =>
            /\ A.target = question.uri \o <<"/">> \o query
            /\ \A a \in HandleRequest([question EXCEPT !.uri = question.uri \o <<"/">>]) :
                 a.kind # "redirect"

\* switch_domain_context: a request that names a domain gets it, and none is answered
\* for another domain than the one its connection was secured for.
DomainsAreServed ==
  Asked("domain") =>
    \A k \in DOMAIN A :
      LET host == IF question.hosts[k] = << >> THEN << >> ELSE Host(question.hosts[k][1])
          named == {i \in DOMAIN question.domains :
                      host # << >> /\ Fold(question.domains[i]) = Fold(host[1])}
      IN /\ ~question.ssl /\ named # {} => A[k] \in named
         /\ question.ssl => A[k] \in {0, question.first}
         /\ question.ssl /\ A[k] > 1 /\ host # << >> => A[k] \in named
=============================================================================
