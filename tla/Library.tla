------------------------------ MODULE Library ------------------------------
(***************************************************************************)
(* The life of the library and of a server's TLS contexts in civetweb.c:   *)
(* mg_init_library and mg_exit_library count their callers, the TLS        *)
(* libraries are loaded on demand, mg_start2 and mg_start_domain2 set up a *)
(* context for each domain, and a handshake chooses among them and may     *)
(* read the certificate again.  The calls of the API are made one after    *)
(* the other; within one, anything may fail.                               *)
(***************************************************************************)
EXTENDS Integers, Sequences, SequencesExt, FiniteSetsExt

CONSTANTS
  Installed,   \* sets of TLS libraries, "crypto" and "ssl", one of which the machine has
  Configs,     \* [name, tls: an SSL port, external, domain, init, initDomain: what the callbacks
               \*  return, pem, short: ssl_short_trust, verify: "no", "yes" or "optional"]
  ServerNames, \* what clients ask for, << >> for nothing
  Fold(_),     \* tolower(3)
  MaxCalls, MaxVersion   \* bounds: calls of the API, and changes of the certificate

VARIABLES
  lib,     \* [called: mg_init_library_called, parts, users: cryptolib_users, inited:
           \*  mg_openssl_initialized, loaded: the libraries with a handle]
  server,  \* << >>, or <<the contexts of the domains>>, the first of which is the server's
  cert,    \* [version, good]: the certificate file
  machine, \* what of Installed is there
  lost,    \* memory nobody can give back: sets of [kind, of: the call]
  crashed, \* a TLS function was called that was never loaded
  last,    \* history: the last call, its result and what led to it
  calls

vars == <<lib, server, cert, machine, lost, crashed, last, calls>>

Parts == {"lock", "key", "attributes"}

Init ==
  /\ lib = [called |-> 0, parts |-> {}, users |-> 0, inited |-> FALSE, loaded |-> {}]
  /\ server = << >> /\ machine \in Installed /\ cert = [version |-> 1, good |-> TRUE]
  /\ lost = {} /\ crashed = FALSE /\ last = [f |-> "none"] /\ calls = 0
-----------------------------------------------------------------------------
(* initialize_openssl, load_tls_dll: [lib, ok] *)

\* load_tls_dll: all functions are found in a library that is installed.
Loads(l, name) == name \in l.loaded \cup machine

\* Mutated: the first user is taken for a second one.
SecondUserAlways(l) == l.users >= 0

\* Another user has done the rest, or has failed to.
SecondUser(l) == l.users > 0

InitializeOpenssl(l) ==
  LET crypto == [l EXCEPT !.loaded = @ \cup {"crypto"}]
      counted == [crypto EXCEPT !.users = @ + 1]
  IN IF ~Loads(l, "crypto") THEN [lib |-> l, ok |-> FALSE]
     ELSE IF SecondUser(l) THEN [lib |-> counted, ok |-> TRUE]
     ELSE IF ~Loads(l, "ssl") THEN [lib |-> counted, ok |-> FALSE]
     ELSE [lib |-> [counted EXCEPT !.loaded = @ \cup {"ssl"}], ok |-> TRUE]

\* mg_init_library: [lib, features]; the first caller makes the parts, or none of them.
InitLibrary(l, tls, fail) ==
  LET ready == IF l.called = 0 THEN [l EXCEPT !.parts = Parts] ELSE l
      open == IF tls /\ ~ready.inited THEN InitializeOpenssl(ready) ELSE [lib |-> ready, ok |-> TRUE]
      counted == [open.lib EXCEPT !.called = @ + 1, !.inited = @ \/ (tls /\ open.ok)]
  IN IF l.called = 0 /\ fail THEN [lib |-> l, ok |-> FALSE]
     ELSE [lib |-> counted, ok |-> open.ok]

\* Mutated: the last caller does not forget that TLS was initialized.
ForgottenNever(l) == l.inited

Forgotten(l) == FALSE

\* mg_exit_library, uninitialize_openssl
ExitLibrary(l) ==
  CASE l.called = 0 -> l
    [] l.called = 1 -> [l EXCEPT !.called = 0, !.parts = {}, !.inited = Forgotten(l),
                                 !.users = IF l.inited THEN @ - 1 ELSE @]
    [] OTHER -> [l EXCEPT !.called = @ - 1]
-----------------------------------------------------------------------------
(* init_ssl_ctx, init_ssl_ctx_impl, ssl_use_pem_file *)

\* The context of a domain: tls is "none", "own" or "external", verify what it asks of
\* the client, loaded the version of its certificate, seen that of ssl_cert_last_mtime.
NoTls(c) == [config |-> c, tls |-> "none", verify |-> "no", loaded |-> 0, seen |-> 0]

UsePemFile(dom) == IF cert.good THEN [dom EXCEPT !.loaded = cert.version] ELSE dom

\* Mutated: a certificate is welcome where it is needed.
VerifyOptional(c) == IF c.verify = "no" THEN "no" ELSE "optional"

Verify(c) == c.verify

\* What follows SSL_CTX_new; fail names the call that fails.
InitSslCtxImpl(c, fail) ==
  LET own == [NoTls(c) EXCEPT !.tls = "own"]
      pem == IF c.pem THEN UsePemFile(own) ELSE own
      set == [pem EXCEPT !.verify = Verify(c)]
  IN CASE fail = "new" -> [dom |-> NoTls(c), ok |-> FALSE]
       [] fail # "new" /\ c.init # 0 -> [dom |-> own, ok |-> c.init > 0]
       [] fail # "new" /\ c.init = 0 /\ c.initDomain # 0 -> [dom |-> own, ok |-> c.initDomain > 0]
       [] OTHER -> IF c.pem /\ ~cert.good THEN [dom |-> pem, ok |-> FALSE]
                   ELSE IF fail = "ca" /\ c.verify # "no" THEN [dom |-> pem, ok |-> FALSE]
                   ELSE [dom |-> set, ok |-> TRUE]

\* [lib, dom, ok, crash]
InitSslCtx(l, c, fail) ==
  LET external == IF c.external # 0 THEN c.external ELSE c.domain
      open == InitializeOpenssl(l)
      impl == InitSslCtxImpl(c, fail)
      none == [lib |-> l, dom |-> NoTls(c), ok |-> FALSE, crash |-> FALSE]
  IN IF ~c.tls THEN [none EXCEPT !.ok = TRUE]
     ELSE IF external < 0 THEN none
     ELSE IF external > 0
     THEN [none EXCEPT !.lib = open.lib, !.ok = open.ok, !.dom = [NoTls(c) EXCEPT !.tls = "external"]]
     ELSE IF ~c.pem /\ c.init = 0 /\ c.initDomain = 0 THEN none
     ELSE IF ~open.ok THEN [none EXCEPT !.lib = open.lib]
     ELSE [lib |-> open.lib, dom |-> impl.dom, ok |-> impl.ok, crash |-> "ssl" \notin open.lib.loaded]

\* free_context: the first domain is given back whole; the others are not looked at.
Lost(domains, by) ==
  [kind : {"domain", "options"}, of : {by}]
  \cup (IF \E i \in DOMAIN domains : domains[i].tls = "own" THEN {[kind |-> "context", of |-> by]} ELSE {})
-----------------------------------------------------------------------------
Called(f) == calls < MaxCalls /\ calls' = calls + 1 /\ ~crashed

MgInitLibrary(tls, fail) ==
  /\ Called("init") /\ lib.called < 2
  /\ LET r == InitLibrary(lib, tls, fail)
     IN lib' = r.lib /\ last' = [f |-> "init", ok |-> r.ok]
  /\ UNCHANGED <<server, cert, machine, lost, crashed>>

\* Not while a server runs.
MgExitLibrary ==
  /\ Called("exit") /\ server = << >>
  /\ lib' = ExitLibrary(lib) /\ last' = [f |-> "exit", ok |-> lib.called > 0]
  /\ UNCHANGED <<server, cert, machine, lost, crashed>>

\* mg_start2, legacy_init: whatever fails, the context is freed.
MgStart(c, fail) ==
  /\ Called("start") /\ server = << >>
  /\ LET ready == IF lib.called = 0 THEN InitLibrary(lib, c.tls, fail = "library").lib ELSE lib
         r == InitSslCtx(ready, c, fail)
     IN IF ready.called = 0 \/ fail = "before"
        THEN /\ lib' = ready /\ last' = [f |-> "start", ok |-> FALSE]
             /\ UNCHANGED <<server, crashed>>
        ELSE /\ lib' = r.lib /\ crashed' = r.crash
             /\ IF r.ok /\ fail # "after" /\ ~r.crash
                THEN server' = <<r.dom>> /\ last' = [f |-> "start", ok |-> TRUE]
                ELSE last' = [f |-> "start", ok |-> FALSE] /\ UNCHANGED server
  /\ UNCHANGED <<cert, machine, lost>>

\* Mutated: a name is compared as it is written.
TakenExactly(domains, c) == \E i \in DOMAIN domains : domains[i].config.name = c.name

Taken(domains, c) == \E i \in DOMAIN domains : Fold(domains[i].config.name) = Fold(c.name)

\* mg_start_domain2: what fails is freed without what belongs to it.
MgStartDomain(c, fail) ==
  /\ Called("domain") /\ server # << >>
  /\ LET r == InitSslCtx(lib, c, fail)
         result(code) == last' = [f |-> "domain", ok |-> code > 0, code |-> code]
         leaks(kinds) == lost' = lost \cup {[kind |-> k, of |-> "domain"] : k \in kinds}
     IN IF fail = "before" THEN result(-2) /\ leaks({"options"}) /\ UNCHANGED <<lib, server, crashed>>
        ELSE /\ lib' = r.lib /\ crashed' = r.crash
             /\ IF r.ok /\ ~r.crash /\ ~Taken(server, c)
                THEN /\ server' = Append(server, r.dom) /\ result(Len(server))
                     /\ UNCHANGED lost
                ELSE /\ result(IF r.ok THEN -5 ELSE -3) /\ UNCHANGED server
                     /\ leaks({"options"} \cup (IF r.dom.tls = "own" THEN {"context"} ELSE {}))
  /\ UNCHANGED <<cert, machine>>

MgStop ==
  /\ Called("stop") /\ server # << >>
  /\ server' = << >>
  /\ lost' = lost \cup (IF Len(server) > 1 THEN Lost(Tail(server), "stop") ELSE {})
  /\ last' = [f |-> "stop", ok |-> TRUE]
  /\ UNCHANGED <<lib, cert, machine, crashed>>
-----------------------------------------------------------------------------
(* The handshake of a client: sslize, refresh_trust, ssl_servername_callback *)

ChangeCertificate ==
  /\ server # << >> /\ cert.version < MaxVersion
  /\ \E g \in BOOLEAN : cert' = [version |-> cert.version + 1, good |-> g]
  /\ UNCHANGED <<lib, server, machine, lost, crashed, last, calls>>

\* Mutated: the time of the file is kept, not compared.
ChangedAlways(dom) == dom.seen = 0

Changed(dom) == dom.seen # cert.version

\* The context as it is after the attempt, and whether the handshake goes on.
RefreshTrust(dom, caFails) ==
  LET seen == [dom EXCEPT !.seen = cert.version]
  IN IF ~dom.config.pem THEN [dom |-> dom, ok |-> FALSE]
     ELSE IF ~Changed(dom) THEN [dom |-> dom, ok |-> TRUE]
     ELSE IF caFails /\ dom.config.verify # "no" THEN [dom |-> seen, ok |-> FALSE]
     ELSE [dom |-> UsePemFile(seen), ok |-> cert.good]

\* The domain a name stands for, the server's own if there is none.
Servername(domains, name) ==
  LET same == {i \in DOMAIN domains : name # << >> /\ Fold(domains[i].config.name) = Fold(name)}
  IN IF same = {} THEN 1 ELSE Min(same)

\* It is the server's certificate that is refreshed: the name is not known before.
Handshake(name, caFails) ==
  /\ server # << >> /\ server[1].tls # "none"
  /\ LET first == server[1]
         r == IF first.config.short THEN RefreshTrust(first, caFails)
              ELSE [dom |-> first, ok |-> TRUE]
         now == [server EXCEPT ![1] = r.dom]
     IN /\ server' = now
        /\ last' = [f |-> "handshake", ok |-> r.ok, name |-> name, chosen |-> Servername(now, name),
                    fresh |-> r.dom.loaded = cert.version,
                    refused |-> first.seen = cert.version /\ first.loaded # cert.version]
  /\ UNCHANGED <<lib, cert, machine, lost, crashed, calls>>

Fails == {"none", "before", "new", "ca", "after", "library"}
Next ==
  \/ \E tls, fail \in BOOLEAN : MgInitLibrary(tls, fail)
  \/ MgExitLibrary \/ MgStop \/ ChangeCertificate
  \/ \E c \in Configs, fail \in Fails : MgStart(c, fail) \/ MgStartDomain(c, fail)
  \/ \E name \in ServerNames, caFails \in BOOLEAN : Handshake(name, caFails)
Spec == Init /\ [][Next]_vars
-----------------------------------------------------------------------------
\* A machine with one TLS library only is told that TLS is ready when it tries again.
Whole == machine \in {{}, {"crypto", "ssl"}}

\* The library's own resources are there while it is in use, and only then, and TLS is
\* known to be initialized only if both libraries are loaded, and counted.
LibraryIsCounted ==
  /\ lib.parts = IF lib.called > 0 THEN Parts ELSE {}
  /\ lib.users >= 0
  /\ lib.inited => lib.called > 0 /\ lib.users > 0 /\ (Whole => lib.loaded = {"crypto", "ssl"})

\* A machine with both TLS libraries, or with none, never makes the library call what it
\* has not loaded, and a server without further domains gives back all of its memory.
ServersAreFreed ==
  /\ Whole => ~crashed
  /\ \A m \in lost : m.kind \in {"options", "context"} => m.of \in {"domain", "stop"}
  /\ \A i, j \in DOMAIN server : i # j => Fold(server[i].config.name) # Fold(server[j].config.name)

\* A handshake that goes on is one with the domain the client has named, whose context
\* asks for a certificate where the domain's options do (unless a callback has made it),
\* and with short trust it uses the certificate in the file, unless a handshake was
\* refused for that very file before.
HandshakesAreTrusted ==
  last.f = "handshake" /\ last.ok =>
    LET dom == server[last.chosen]
    IN /\ \/ Fold(dom.config.name) = Fold(last.name)
          \/ last.chosen = 1 /\ \A i \in DOMAIN server : last.name = << >>
                                  \/ Fold(server[i].config.name) # Fold(last.name)
       /\ dom.tls = "own" /\ dom.config.init = 0 /\ dom.config.initDomain = 0 =>
            dom.verify = dom.config.verify
       /\ server[1].config.short => last.fresh \/ last.refused
=============================================================================
