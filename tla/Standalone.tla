----------------------------- MODULE Standalone -----------------------------
(***************************************************************************)
(* The server as a program of its own (main.c, for Linux): what its        *)
(* command line and its configuration files set, and the URL of its client *)
(* mode.  An option's name, a number and a directory's name are characters.*)
(***************************************************************************)
EXTENDS Integers, Sequences, SequencesExt, FiniteSetsExt, TLC, Chars

CONSTANTS
  Questions,   \* [f |-> "start", "line" or "url", ...]
  TypeOf,      \* the type of each of the server's options
  LineSize,    \* MAX_CONF_FILE_LINE_SIZE, smaller here
  MaxOptions,  \* MAX_OPTIONS, smaller here
  Numbers,     \* the number that a character stands for
  Tree,        \* the directories and files there are: "dir" or "file"
  Cwd,         \* the working directory
  Others       \* the files beside the configuration file, and their texts

VARIABLES question, answer

Space == {" ", "\t", "\n", "\r"}
NUL == "nul"
ConfigFile == <<"conf">>
ConfigFile2 == <<"/", "etc", "/", "conf">>
-----------------------------------------------------------------------------
(* set_option: a setting is [name, value], in the order the options were first set *)

\* init_server_name, and an empty array of options
Unset == [options |-> << >>, title |-> <<"base">>, icon |-> << >>, website |-> <<"home">>,
          hide |-> FALSE, domains |-> << >>, end |-> ""]

\* Mutated: what is set is not looked at.
LegalAlways(type, value) == TRUE

Legal(type, value) ==
  CASE type = "number" -> Len(value) = 1 /\ value[1] \in DOMAIN Numbers
    [] type = "boolean" -> value \in {<<"yes">>, <<"no">>}
    [] type = "optional" -> value \in {<<"yes">>, <<"no">>, <<"optional">>}
    [] OTHER -> TRUE

\* Mutated: a list that is set again is replaced.
SeparatorNone(type) == ""

Separator(type) ==
  CASE type = "list" -> "," [] type = "multiline" -> "\n" [] type = "pattern" -> "|" [] OTHER -> ""

Combined(type, old, value) ==
  IF Separator(type) = "" THEN value ELSE old \o <<Separator(type)>> \o value

ServerOption(set, name, value) ==
  LET at == {i \in DOMAIN set.options : set.options[i].name = name}
      type == TypeOf[name[1]]
  IN IF at # {} THEN [set EXCEPT !.options[Min(at)].value = Combined(type, @, value)]
     ELSE IF Len(set.options) = MaxOptions THEN [set EXCEPT !.end = "too many options"]
     ELSE [set EXCEPT !.options = Append(@, [name |-> name, value |-> value])]

\* An option that is not known and a value that is not legal are ignored, with a message.
SetOption(set, name, value) ==
  CASE name = <<"title">> -> [set EXCEPT !.title = value]
    [] name = <<"icon">> -> [set EXCEPT !.icon = value]
    [] name = <<"website">> -> [set EXCEPT !.website = value]
    [] name = <<"hide_tray">> -> [set EXCEPT !.hide = IF value = <<"yes">> THEN TRUE
                                                      ELSE IF value = <<"no">> THEN FALSE ELSE @]
    [] name = <<"add_domain">> -> [set EXCEPT !.domains = Append(@, value)]
    [] OTHER ->
         IF Len(name) = 1 /\ name[1] \in DOMAIN TypeOf /\ Legal(TypeOf[name[1]], value)
         THEN ServerOption(set, name, value)
         ELSE set
-----------------------------------------------------------------------------
(* read_config_file: the buffer keeps what the line before has left in it *)

\* The text that begins after the first n characters of the buffer.
Str(buf, n) == Take(Drop(buf, n), Span(Drop(buf, n), {NUL}))

\* fgets
Fill(buf, line) == line \o <<NUL>> \o Drop(buf, Len(line) + 1)

\* The spaces at the end are overwritten one by one.
Trimmed(p) ==
  LET s == Str(p, 0)
      n == Len(s) - Leading(Reverse(s), Space)
  IN Take(p, n) \o [k \in 1 .. Len(s) - n |-> NUL] \o Drop(p, Len(s))

\* Mutated: one space is skipped before the value.
ValueAtOnce(p, j) == Str(p, j + 1)

Value(p, j) == Str(p, j + 1 + Leading(Drop(p, j + 1), Space))

\* One line of the file: [set, buf]
ReadLine(set, buf, first) ==
  LET bom == IF first /\ buf[1] = "bom" THEN 1 ELSE 0
      p0 == Drop(buf, bom)
      i == Leading(p0, Space)
      p == Trimmed(p0)
      j == i + Span(Drop(p, i), Space \cup {NUL})
      q == [p EXCEPT ![j + 1] = NUL]
  IN IF p0[i + 1] \in {"#", NUL} THEN [set |-> set, buf |-> buf]
     ELSE [set |-> SetOption(set, Str(q, i), Value(q, j)), buf |-> Take(buf, bom) \o q]

RECURSIVE ReadLines(_, _, _, _)
ReadLines(text, set, buf, first) ==
  IF text = << >> THEN set
  ELSE LET n == Min({LineSize - 1, Len(text), Span(text, {"\n"}) + 1})
           r == ReadLine(set, Fill(buf, Take(text, n)), first)
       IN ReadLines(Drop(text, n), r.set, r.buf, FALSE)

ReadConfigFile(text, set, garbage) ==
  ReadLines(text, set, [i \in 1 .. LineSize |-> garbage], TRUE)
-----------------------------------------------------------------------------
(* process_command_line_arguments: argv is << program, argument, ... >> *)

Named(argv) == Len(argv) > 1 /\ argv[2] # << >> /\ argv[2][1] # "-"

\* What comes before the last "/", and whether there is one.
Slashes(path) == {i \in DOMAIN path : path[i] = "/"}
Directory(path) == Take(path, Max(Slashes(path)) - 1)

ConfigFileName(argv, files) ==
  LET name == IF Named(argv) THEN argv[2]
              ELSE IF Slashes(argv[1]) = {} THEN ConfigFile
              ELSE Directory(argv[1]) \o <<"/">> \o ConfigFile
  IN IF name \notin DOMAIN files /\ ConfigFile2 \in DOMAIN files THEN ConfigFile2 ELSE name

RECURSIVE Flags(_, _)
Flags(set, args) ==
  IF args = << >> THEN set
  ELSE IF ~Starts(args[1], <<"-">>) \/ Len(args) = 1 THEN [set EXCEPT !.end = "usage"]
  ELSE Flags(SetOption(set, Tail(args[1]), args[2]), Drop(args, 2))

ProcessCommandLineArguments(set, argv, files, garbage) ==
  LET name == ConfigFileName(argv, files)
      read == IF name \in DOMAIN files THEN ReadConfigFile(files[name], set, garbage) ELSE set
  IN IF name \notin DOMAIN files /\ Named(argv) THEN [set EXCEPT !.end = "no configuration"]
     ELSE IF Len(argv) > 1 /\ Starts(argv[2], <<"-", "psn_">>) THEN read
     ELSE Flags(read, Drop(argv, IF Named(argv) THEN 2 ELSE 1))
-----------------------------------------------------------------------------
(* sanitize_options *)

Option(set, name) ==
  LET found == SelectSeq(set.options, LAMBDA o : o.name = name)
  IN IF found = << >> THEN <<"NULL">> ELSE found[1].value

\* realpath: the path as far as it exists, and the first component that does not.
Component(path, dir, i) == Take(Drop(path, i - 1), Span(Drop(path, i - 1), {"/"}))
RealPath(path) ==
  LET whole == IF path[1] = "/" THEN path ELSE Cwd \o <<"/">> \o path
      starts == SetToSortSeq({i + 1 : i \in Slashes(whole)}, <)
      Step(r, i) ==
        LET c == Component(whole, r.dir, i)
            to == r.dir \o <<"/">> \o c
        IN IF r.failed \/ c \in {<< >>, <<".">>} THEN r
           ELSE IF c = <<".", ".">> THEN [r EXCEPT !.dir = IF @ = << >> THEN @ ELSE Directory(@)]
           ELSE [dir |-> to, failed |-> to \notin DOMAIN Tree]
      end == FoldLeft(Step, [dir |-> << >>, failed |-> FALSE], starts).dir
  IN IF end = << >> THEN <<"/">> ELSE end

\* Mutated: a path is taken from the working directory, wherever the program is.
HereAlways(exe) == Cwd

\* The directory the options' paths are relative to.
Here(exe) == IF Slashes(exe) = {} THEN Cwd ELSE Directory(exe)

SetAbsolutePath(set, name, exe) ==
  LET value == Option(set, name)
  IN IF value = <<"NULL">> \/ Starts(value, <<"/">>) THEN set
     ELSE SetOption(set, name, RealPath(Here(exe) \o <<"/">> \o value))

PathOptions ==
  <<<<"document_root">>, <<"put_delete_auth_file">>, <<"cgi_interpreter">>, <<"access_log_file">>,
    <<"error_log_file">>, <<"global_auth_file">>, <<"ssl_certificate">>>>
Verified ==
  [document_root |-> "dir", cgi_interpreter |-> "file", ssl_certificate |-> "file",
   ssl_ca_path |-> "dir", ssl_ca_file |-> "file"]

\* verify_existence; a path that is not absolute is looked up in the working directory.
Exists(path) == IF RealPath(path) \in DOMAIN Tree THEN Tree[RealPath(path)] ELSE "none"

SanitizeOptions(set, exe) ==
  LET paths == FoldLeft(LAMBDA r, name : SetAbsolutePath(r, name, exe), set, PathOptions)
      bad == {o \in DOMAIN Verified : LET v == Option(paths, <<o>>)
                                      IN v # <<"NULL">> /\ Exists(v) # Verified[o]}
  IN IF paths.end = "" /\ bad # {} THEN [paths EXCEPT !.end = "invalid options"] ELSE paths
-----------------------------------------------------------------------------
(* start_civetweb: how the program ends, or what it runs with *)

Files(q) == Others @@ (q.file :> q.text)

Ends(set, end) == [set EXCEPT !.end = end]

Begun(set) == SetOption([set EXCEPT !.options = << >>], <<"document_root">>, <<".">>)

\* The domains that the files add: a file may add more of them.  Two domains have two names.
RECURSIVE AddDomains(_, _, _, _)
Added(set, d, name, i, q, names) ==
  IF d.end # "" THEN d
  ELSE IF name \in names THEN Ends(d, "domain refused")
  ELSE AddDomains([d EXCEPT !.options = set.options], i + 1, q, names \cup {name})

Domain(set, d, i, q, names) ==
  Added(set, d, Option(d, <<"authentication_domain">>), i, q, names)

AddDomains(set, i, q, names) ==
  IF set.end # "" \/ i > Len(set.domains) THEN set
  ELSE IF set.domains[i] \notin DOMAIN Files(q) THEN Ends(set, "no configuration")
  ELSE Domain(set, SanitizeOptions(ReadConfigFile(Files(q)[set.domains[i]], Begun(set), q.garbage),
                                   q.argv[1]), i, q, names)

Sanitized(read, exe) == IF read.end = "" THEN SanitizeOptions(read, exe) ELSE read

Started(set, q) ==
  IF set.end # "" THEN set
  ELSE IF ~q.starts THEN Ends(set, "not started")
  ELSE AddDomains(set, 1, q, {Option(set, <<"authentication_domain">>)})

Serve(q) ==
  Started(Sanitized(ProcessCommandLineArguments(Begun(Unset), q.argv, Files(q), q.garbage),
                    q.argv[1]), q)

StartCivetweb(q) ==
  LET mode == IF Len(q.argv) > 1 THEN q.argv[2] ELSE << >>
      Exact(n, end) == Ends(Unset, IF Len(q.argv) = n THEN end ELSE "usage")
  IN CASE mode = <<"-", "I">> -> Ends(Unset, "information")
       [] mode = <<"-", "A">> -> Exact(6, "password set")
       [] mode = <<"-", "R">> -> Exact(5, "user removed")
       [] mode = <<"-", "C">> -> Exact(3, "client")
       [] mode \in {<<"-", "L">>, <<"-", "E">>} -> Ends(Unset, "not enabled")
       [] mode \in {<<"-", "h">>, <<"-", "H">>, <<"-", "-", "help">>} /\ Len(q.argv) = 2 ->
            Ends(Unset, "usage")
       [] OTHER -> Serve(q)
-----------------------------------------------------------------------------
(* run_client *)

Refused(why) == [end |-> why]

\* Mutated: the number of the port may be followed by anything.
PortEndsAnywhere(rest) == TRUE

PortEnds(rest) == rest = << >> \/ rest[1] = "/"

RunClient(url) ==
  LET ssl == Starts(url, <<"https", ":", "/", "/">>)
      text == Drop(url, 4)
      n == Span(text, {"/", ":"})
      host == Take(text, n)
      rest == Drop(text, n)
      After(s) == IF s = << >> THEN << >> ELSE Tail(s)
      Go(port, resource) ==
        [end |-> "", ssl |-> ssl, host |-> host, port |-> port, resource |-> resource]
      at == IF Starts(rest, <<":">>) THEN Tail(rest) ELSE << >>
      digits == IF at # << >> /\ at[1] \in DOMAIN Numbers THEN 1 ELSE 0
  IN IF ~ssl /\ ~Starts(url, <<"http", ":", "/", "/">>) THEN Refused("not http")
     ELSE IF text = << >> \/ text[1] \in Space \cup {"non-ASCII", "/", ":"} THEN Refused("host")
     ELSE IF ~Starts(rest, <<":">>) THEN Go(IF ssl THEN 443 ELSE 80, After(rest))
     ELSE IF digits = 0 \/ ~PortEnds(Drop(at, digits)) \/ Numbers[at[1]] \notin 1 .. 65535
          THEN Refused("port")
     ELSE Go(Numbers[at[1]], After(Drop(at, 1)))
-----------------------------------------------------------------------------
Answer(q) ==
  CASE q.f = "start" -> StartCivetweb(q)
    [] q.f = "url" -> RunClient(q.url)

Init == question \in Questions /\ answer = << >>
Next == answer = << >> /\ answer' = <<Answer(question)>> /\ UNCHANGED question
-----------------------------------------------------------------------------
(* What the person who started the program has asked for *)

\* Of an option that is set once the last legal value counts, of a list every one does; the
\* first setting of all is the program's own.
Meant(q, o) ==
  LET of == SelectSeq(<<[name |-> "document_root", value |-> <<".">>, legal |-> TRUE]>> \o q.told, LAMBDA s : s.name = o /\ s.legal)
  IN IF of = << >> THEN <<"NULL">>
     ELSE IF TypeOf[o] \in {"list", "multiline", "pattern"}
     THEN Tail(FlattenSeq([i \in DOMAIN of |->
            <<CASE TypeOf[o] = "list" -> "," [] TypeOf[o] = "pattern" -> "|" [] OTHER -> "\n">>
            \o of[i].value]))
     ELSE Last(of).value

\* The server runs with what the file and the command line say, in this order, whatever the
\* file's spaces, comments and line ends; paths are absolute ones, taken from where the
\* program is, and the ones that are needed are there and of their kind.  A name without a
\* value is not asked about where the file ends with it: what is left of the line before it
\* is its value then.
SettingsAreTheUsers ==
  question.f = "start" /\ answer # << >> /\ answer[1].end = "" /\ ~question.bare =>
    \A o \in DOMAIN TypeOf :
      LET v == Option(answer[1], <<o>>)
          meant == Meant(question, o)
      IN /\ v = IF <<o>> \notin Range(PathOptions) \/ meant = <<"NULL">> \/ Starts(meant, <<"/">>)
                THEN meant
                ELSE RealPath(question.home \o <<"/">> \o meant)
         /\ o \in DOMAIN Verified /\ v # <<"NULL">> => Tree[RealPath(v)] = Verified[o]

\* A URL's parts are the ones it was put together from; what is not a URL is refused.
UrlsAreRead ==
  question.f = "url" /\ answer # << >> =>
    IF question.sound
    THEN answer[1] = [end |-> "", ssl |-> question.ssl, host |-> question.host,
                   port |-> question.number, resource |-> question.resource]
    ELSE answer[1].end # ""

ProgramsDoAsTold == SettingsAreTheUsers /\ UrlsAreRead
=============================================================================
