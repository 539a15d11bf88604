------------------------------- MODULE Infos -------------------------------
(***************************************************************************)
(* The texts about itself that civetweb.c writes into a buffer of the      *)
(* caller: mg_get_system_info, mg_get_context_info and                     *)
(* mg_get_connection_info.  A text is a JSON object that is put together   *)
(* in blocks, and a buffer that is too small holds an object with fewer    *)
(* members.  A name, a value, a brace, a comma or the end of a line is one *)
(* character here.                                                         *)
(***************************************************************************)
EXTENDS Integers, Sequences, SequencesExt, FiniteSetsExt, TLC

CONSTANTS
  Questions,   \* [f |-> "system", "context" or "connection", len: of the buffer, ...]
  BlockMax     \* what fits into a block

VARIABLES question, answer

Eol == "n"
EoObj == <<Eol, "}", Eol>>
-----------------------------------------------------------------------------
(* mg_str_append; a buffer is [text, end, open: nothing was left out yet] *)

\* Mutated: a block that fits is written after one that did not.
AppendAny(b, block) == IF b.end - Len(b.text) > Len(block) THEN [b EXCEPT !.text = @ \o block] ELSE b

AppendBlock(b, block) ==
  IF ~b.open THEN b
  ELSE IF b.end - Len(b.text) > Len(block) THEN [b EXCEPT !.text = @ \o block]
  ELSE [b EXCEPT !.open = FALSE]

\* Mutated: the room for the end of the object is not set aside.
EndAtOnce(len) == len

End(len) == IF len > Len(EoObj) THEN len - Len(EoObj) ELSE len

\* mg_snprintf cuts off what does not fit into the block.
Block(s) == IF Len(s) < BlockMax THEN s ELSE SubSeq(s, 1, BlockMax - 1)

\* [text, length]: the length does not depend on the buffer.
Written(blocks, len) ==
  LET all == <<<<"{">>>> \o [i \in DOMAIN blocks |-> Block(blocks[i])]
      b == FoldLeft(AppendBlock, [text |-> << >>, end |-> End(len), open |-> len > 0], all)
  IN [text |-> IF len > Len(EoObj) THEN b.text \o EoObj ELSE b.text,
      length |-> Len(FlattenSeq(all)) + Len(EoObj)]
-----------------------------------------------------------------------------
Later(block) == <<",", Eol>> \o block

\* The members of an object, one a line.
Lines(members) ==
  FlattenSeq([i \in DOMAIN members |->
    members[i] \o (IF i < Len(members) THEN <<",", Eol>> ELSE <<Eol>>)])
Object(name, members) == <<name, "{", Eol>> \o Lines(members) \o <<"}">>
Member(name, value) == <<name>> \o value

\* mg_get_system_info
Features(q) == Later(Member("features", <<"1">>)) \o Later(Member("feature_list", q.value))

\* The date of the build, the compiler and the sizes of the types.
Build(q) == [i \in 1 .. 3 |-> Later(Member(<<"build", "compiler", "data_model">>[i], q.value))]

SystemBlocks(q) ==
  << <<Eol>> \o Member("version", q.value), Later(Member("os", q.value)), Features(q) >> \o Build(q)

\* Mutated: the largest number is the one of a while ago.
AtLeastOld(max, now) == max

\* The counters are read one after the other, while they change.
AtLeast(max, now) == IF now > max THEN now ELSE max

\* mg_get_context_info, of a build with USE_SERVER_STATS
Memory(q) ==
  <<Eol>> \o Object("memory", <<Member("blocks", <<"1">>), Member("used", <<ToString(q.used)>>),
                                Member("maxUsed", <<ToString(AtLeast(q.maxUsed, q.used))>>)>>)
Connections(q) ==
  Later(Object("connections", <<Member("active", <<ToString(q.active)>>),
                                Member("maxActive", <<ToString(AtLeast(q.maxActive, q.active))>>),
                                Member("total", <<ToString(AtLeast(q.total, q.active))>>)>>))
Queue(q) ==
  Later(Object("queue", <<Member("length", <<"1">>), Member("filled", <<"1">>),
                          Member("maxFilled", <<"1">>), Member("full", <<"false">>)>>))
ContextBlocks(q) ==
  <<Memory(q)>>
  \o IF ~q.ctx THEN << >>
     ELSE << Connections(q), Queue(q),
             Later(Object("requests", <<Member("total", <<"1">>)>>)),
             Later(Object("data", <<Member("read", <<"1">>), Member("written", <<"1">>)>>)),
             Later(Object("time", <<Member("uptime", <<"1">>), Member("start", <<"1">>),
                                    Member("now", <<"1">>)>>)) >>

\* Mutated: every block begins with a comma.
SeparatedAlways(before, block) == Later(block)

\* A comma, if anything came before.
Separated(before, block) == IF before = << >> THEN <<Eol>> \o block ELSE Later(block)

\* mg_get_connection_info; the states of a connection are those of USE_SERVER_STATS.
Remote(q) ==
  <<"connection", "{", Eol>>
  \o Lines(<<Object("remote", <<Member("protocol", <<"http">>), Member("addr", q.value),
                                Member("port", <<"1">>)>>), Member("handled", <<"1">>)>>) \o <<"}">>
RequestInfo(q) ==
  Object("request_info", <<Member("method", <<"GET">>), Member("uri", q.value),
                           Member("query", IF q.query THEN q.value ELSE <<"null">>)>>)
Time(q) == Object("time", <<Member("uptime", <<"1">>), Member("start", <<"1">>), Member("closed", <<"1">>)>>)
\* The comma after the name is in the format.
User(q) == <<"user", "{", Eol>> \o Member("name", q.value) \o <<",", Eol, "}">>
Data(q) == Object("data", <<Member("read", <<"1">>), Member("written", <<"1">>)>>)
State(q) == Member("state", <<"text">>)

ConnectionBlocks(q) ==
  LET members == (IF q.state \in 3 .. 8 THEN <<Remote(q)>> ELSE << >>)
                 \o (IF q.state \in 4 .. 5 THEN <<RequestInfo(q)>> ELSE << >>)
                 \o (IF q.state \in 2 .. 8 THEN <<Time(q)>> ELSE << >>)
                 \o (IF q.user /\ q.state < 9 THEN <<User(q)>> ELSE << >>)
                 \o (IF q.state >= 3 THEN <<Data(q)>> ELSE << >>) \o <<State(q)>>
  IN [i \in DOMAIN members |-> Separated(SubSeq(members, 1, i - 1), members[i])]

NoInfo == [text |-> << >>, length |-> 0]

Reply(q) ==
  CASE q.f = "system" -> Written(SystemBlocks(q), q.len)
    [] q.f = "context" -> Written(ContextBlocks(q), q.len)
    [] q.f = "connection" -> IF q.valid THEN Written(ConnectionBlocks(q), q.len) ELSE NoInfo

Init == question \in Questions /\ answer = << >>
Next == answer = << >> /\ answer' = <<Reply(question)>> /\ UNCHANGED question
-----------------------------------------------------------------------------
Tokens(s) == SelectSeq(s, LAMBDA c : c # Eol)

\* What a reader makes of an object: depth by depth, a comma comes between two members
\* and nowhere else.
IsObject(s) ==
  LET depth == [i \in DOMAIN s |-> Cardinality({j \in 1 .. i : s[j] = "{"})
                                   - Cardinality({j \in 1 .. i - 1 : s[j] = "}"})]
  IN /\ s # << >> /\ s[1] = "{" /\ Last(s) = "}" /\ depth[Len(s)] = 1
     /\ \A i \in 2 .. Len(s) : depth[i] >= 1
     /\ \A i \in DOMAIN s : s[i] = "," => /\ i \in 2 .. Len(s) - 1
                                          /\ s[i - 1] \notin {"{", ","} /\ s[i + 1] \notin {"}", ","}
     /\ \A i \in 1 .. Len(s) - 1 : s[i] = "}" => s[i + 1] \in {"}", ","}

Number(s, name) ==
  CHOOSE n \in 0 .. 9 : ToString(n) = s[Min({i \in DOMAIN s : s[i] = name}) + 1]

\* The text never leaves its buffer and says how long it is without one; from five
\* characters on it is an object, if no value is cut off within its block and no user is
\* named; a text that is not cut has that length; and no number is above its maximum.
InfosAreObjects ==
  answer # << >> =>
    LET q == question
        s == Tokens(answer[1].text)
    IN /\ q.len > 0 => Len(answer[1].text) < q.len
       /\ answer[1].length = Reply([q EXCEPT !.len = 0]).length
       /\ answer[1].length < q.len => Len(answer[1].text) = answer[1].length
       /\ q.len > Len(EoObj) + 1 /\ Len(q.value) = 1 /\ answer[1] # NoInfo
            => (q.f = "connection" /\ q.user) \/ IsObject(s)
       /\ q.f = "context" =>
            /\ "maxUsed" \in ToSet(s) => Number(s, "used") <= Number(s, "maxUsed")
            /\ "active" \in ToSet(s) => /\ Number(s, "active") <= Number(s, "maxActive")
                                        /\ Number(s, "active") <= Number(s, "total")
=============================================================================
