----------------------------- MODULE Environment -----------------------------
(***************************************************************************)
(* The environment of a CGI program (addenv and prepare_cgi_environment):  *)
(* one block of texts, each with its nul, and an array of pointers into    *)
(* the block, which moves when it grows.  The name of a variable, with its *)
(* "=", is one character.                                                  *)
(***************************************************************************)
EXTENDS Integers, Sequences, SequencesExt, FiniteSetsExt, TLC, Chars

CONSTANTS
  Questions,    \* requests for a program, and the allocations that fail
  BlockSize,    \* CGI_ENVIRONMENT_SIZE
  MaxVars,      \* MAX_CGI_ENVIR_VARS
  MaxName,      \* of a variable that stands for a header
  Upper         \* what toupper makes of a character

VARIABLES question, answer

Root == <<"w">>
NoText == <<"null">>
-----------------------------------------------------------------------------
(* addenv: a block is [n, buf: its texts, size], a pointer is [n, at] *)

\* Mutated: the pointers stay where they are.
StaleGrown(env) == [env EXCEPT !.n = @ + 1, !.size = @ + BlockSize, !.tries = @ + 1]

\* Each text begins where the one before has ended.
Retarget(env) ==
  FoldLeft(LAMBDA found, v :
             LET at == IF found = << >> THEN 0
                       ELSE Last(found).at + Span(Drop(env.buf, Last(found).at), {"nul"}) + 1
             IN Append(found, [n |-> env.n + 1, at |-> at]),
           << >>, env.var)
Grown(env) ==
  [env EXCEPT !.n = @ + 1, !.size = @ + BlockSize, !.tries = @ + 1, !.var = Retarget(env)]

\* Mutated: the block is filled to its end.
FitsExactly(env, n) == Len(env.buf) + n + 1 <= env.size

\* There is room for the text, its nul, and one more nul.
Fits(env, n) == Len(env.buf) + n + 2 <= env.size /\ env.size - Len(env.buf) > 2

RECURSIVE Room(_, _)
Room(env, n) == IF Fits(env, n) \/ env.tries + 1 \in env.fails THEN env ELSE Room(Grown(env), n)

\* Mutated: all places of the array are taken, the one for its end too.
AddToTheLast(env, text) ==
  LET e == Room(env, Len(text))
  IN IF Len(env.var) = MaxVars \/ ~Fits(e, Len(text)) THEN env
     ELSE [e EXCEPT !.buf = @ \o Append(text, "nul"), !.var = Append(@, [n |-> e.n, at |-> Len(e.buf)])]

AddEnv(env, text) ==
  LET e == Room(env, Len(text))
  IN IF MaxVars - Len(env.var) < 2 THEN env
     ELSE IF ~Fits(e, Len(text)) THEN [e EXCEPT !.tries = @ + 1]
     ELSE [e EXCEPT !.buf = @ \o Append(text, "nul"), !.var = Append(@, [n |-> e.n, at |-> Len(e.buf)])]
-----------------------------------------------------------------------------
(* prepare_cgi_environment *)

Assign(name, value) == <<name \o "=">> \o value
If(cond, text) == IF cond THEN <<text>> ELSE << >>

\* Mutated: the index file is not named.
ScriptUri(q) ==
  IF q.info = NoText THEN q.uri ELSE Take(q.uri, Len(q.uri) - Len(q.info))

\* A URI that ends with a slash stands for the index file of a directory.
ScriptName(q) ==
  IF q.info # NoText THEN Take(q.uri, Len(q.uri) - Len(q.info))
  ELSE IF Last(q.uri) # "/" THEN q.uri
  ELSE q.uri \o Drop(q.prog, Max({i \in DOMAIN q.prog : q.prog[i] = "/"}))
HasScriptName(q) == q.info # NoText \/ Last(q.uri) # "/" \/ "/" \in ToSet(q.prog)

HeaderName(h) == <<"HTTP_">> \o [i \in DOMAIN h.name |-> IF h.name[i] = "-" THEN "_" ELSE Upper[h.name[i]]]

\* Mutated: the name is cut.
HeadersCut(q) ==
  [i \in DOMAIN q.headers |->
     Take(HeaderName(q.headers[i]), Min({MaxName - 1, Len(q.headers[i].name) + 1}))
     \o <<"=">> \o q.headers[i].value]

Headers(q) ==
  LET named == SelectSeq(q.headers, LAMBDA h : Len(h.name) + 1 < MaxName)
  IN [i \in DOMAIN named |-> HeaderName(named[i]) \o <<"=">> \o named[i].value]

\* The value of the first header of the name, as mg_get_header finds it.
HasHeader(q, name) == \E i \in DOMAIN q.headers : Tail(HeaderName(q.headers[i])) = name
Header(q, name) ==
  q.headers[Min({i \in DOMAIN q.headers : Tail(HeaderName(q.headers[i])) = name})].value

\* Variables whose values are of the server or of its own environment are in one.
Variables(q) ==
  <<Assign("SERVER", <<"a">>), Assign("DOCUMENT_ROOT", Root),
    Assign("REQUEST_URI", q.uri), Assign("LOCAL_URI", q.uri)>>
  \o (IF HasScriptName(q) THEN <<Assign("SCRIPT_NAME", ScriptName(q))>> ELSE << >>)
  \o <<Assign("SCRIPT_FILENAME", q.prog),
       Assign("PATH_TRANSLATED", Root \o (IF q.info = NoText THEN << >> ELSE q.info))>>
  \o (IF HasHeader(q, <<"C", "_", "T">>)
      THEN <<Assign("CONTENT_TYPE", Header(q, <<"C", "_", "T">>))>> ELSE << >>)
  \o (IF q.query = NoText THEN << >> ELSE <<Assign("QUERY_STRING", q.query)>>)
  \o (IF q.info = NoText THEN << >> ELSE <<Assign("PATH_INFO", q.info)>>)
  \o If(q.status > 0, Assign("STATUS", <<"5">>))
  \o (IF q.user THEN <<Assign("REMOTE_USER", <<"u">>), Assign("AUTH_TYPE", <<"Digest">>)>> ELSE << >>)
  \o Headers(q) \o q.added

\* The block and the array are the first two allocations.
PrepareCgiEnvironment(q) ==
  IF q.fails \cap {1, 2} # {} THEN << >>
  ELSE LET env == FoldLeft(AddEnv, [n |-> 1, buf |-> << >>, size |-> BlockSize, var |-> << >>,
                                    tries |-> 2, fails |-> q.fails], Variables(q))
       IN <<[env EXCEPT !.buf = Append(@, "nul")]>>

\* Mutated: the first slash.
SplitFirst(prog) ==
  LET k == Min({i \in DOMAIN prog : prog[i] = "/"} \cup {Len(prog) + 1})
  IN IF k > Len(prog) THEN [dir |-> <<".">>, p |-> prog]
     ELSE [dir |-> Take(prog, k - 1), p |-> Drop(prog, k)]

\* handle_cgi_request: the directory the program runs in, and its name there.
Split(prog) ==
  IF "/" \notin ToSet(prog) THEN [dir |-> <<".">>, p |-> prog]
  ELSE LET k == Max({i \in DOMAIN prog : prog[i] = "/"})
       IN [dir |-> Take(prog, k - 1), p |-> Drop(prog, k)]

Init == question \in Questions /\ answer = << >>
Next == /\ answer = << >>
        /\ answer' = <<[env |-> PrepareCgiEnvironment(question), at |-> Split(question.prog)]>>
        /\ UNCHANGED question
-----------------------------------------------------------------------------
Env == answer[1].env[1]
Pointed(v) == Take(Drop(Env.buf, v.at), Span(Drop(Env.buf, v.at), {"nul"}))
Told == [i \in DOMAIN Env.var |-> Pointed(Env.var[i])]
Of(name) == {i \in DOMAIN Told : Told[i][1] = name}
Says(name, value) == Of(name) # {} => Tail(Told[Min(Of(name))]) = value

\* What the program finds through its pointers is what stands in the block, text by text
\* up to the empty one, and the block and the array have room for their ends.
EnvironmentIsWhole ==
  answer # << >> /\ answer[1].env # << >> =>
    /\ \A i \in DOMAIN Env.var : Env.var[i].n = Env.n
    /\ Env.buf = FlattenSeq([i \in DOMAIN Told |-> Append(Told[i], "nul")]) \o <<"nul">>
    /\ Len(Env.buf) <= Env.size /\ Len(Env.var) < MaxVars

\* The program is told by which URI it was asked for, split in its own name and the rest,
\* and where it stands; with memory and places enough it is told every header that has a
\* name short enough, and last what the server's owner has added.
ProgramsAreTold ==
  answer # << >> /\ answer[1].env # << >> =>
    LET q == question
        whole == q.fails = {} /\ Len(Env.var) < MaxVars - 1
    IN /\ q.info # NoText /\ Of("SCRIPT_NAME=") # {} /\ Of("PATH_INFO=") # {} =>
             Tail(Told[Min(Of("SCRIPT_NAME="))]) \o Tail(Told[Min(Of("PATH_INFO="))]) = q.uri
       /\ q.info = NoText /\ Of("SCRIPT_NAME=") # {} =>
             LET name == Tail(Told[Min(Of("SCRIPT_NAME="))])
             IN Last(name) # "/" /\ answer[1].at.p = Drop(name, Max({i \in DOMAIN name : name[i] = "/"}))
       /\ IF answer[1].at.dir = <<".">> THEN answer[1].at.p = q.prog
          ELSE answer[1].at.dir \o <<"/">> \o answer[1].at.p = q.prog
       /\ \A i \in DOMAIN q.headers :
            whole /\ Len(q.headers[i].name) < MaxName - 1 =>
              \E j \in DOMAIN Told : Told[j] = HeaderName(q.headers[i]) \o <<"=">> \o q.headers[i].value
       /\ \A j \in DOMAIN Told : Told[j][1] = "HTTP_" =>
            \E i \in DOMAIN q.headers : Told[j] = HeaderName(q.headers[i]) \o <<"=">> \o q.headers[i].value
       /\ whole => IsSuffix(q.added, Told)
=============================================================================
