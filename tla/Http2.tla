------------------------------- MODULE Http2 -------------------------------
(***************************************************************************)
(* A connection with HTTP/2: the frames of a client, whose header blocks   *)
(* refer to tables that both ends keep, and the calls with which a handler *)
(* answers a request: mod_http2.inl and the buffered headers of            *)
(* response.inl.  Names of headers are in lower case.                      *)
(***************************************************************************)
EXTENDS Integers, Sequences, SequencesExt, FiniteSetsExt, TLC

CONSTANTS
  Lists,         \* requests: sequences of [name, value, keep: the client lets it be indexed]
  Blocks,        \* header blocks that no client with these tables can send
  Others,        \* frames: [type, stream, flags]
  Adds,          \* headers that a handler adds: <<name, value>>
  TheirSize,     \* the headers in the client's table, at least two
  DynTableSize,  \* HTTP2_DYN_TABLE_SIZE
  MaxHeaders,    \* MG_MAX_HEADERS
  MaxFrames, MaxCalls   \* bounds: the frames of the client, the calls of the handlers

VARIABLES
  phase,    \* "primer", "frames", "request", "clean" or "closed"
  theirs,   \* what the client has put in its table, the newest header first
  table,    \* dyn_table
  fields,   \* request_info.http_headers
  state,    \* [request: request_state, status, calls, stream]
  reply,    \* response_info.http_headers
  heap,     \* how many strings of headers are allocated: mem_h_count, mem_d_count
  sentBy,   \* [client, server: the frames each has sent]
  asked     \* what the client means by the last header block

vars == <<phase, theirs, table, fields, state, reply, heap, sentBy, asked>>

Init ==
  /\ phase = "primer" /\ theirs = << >> /\ table = << >> /\ fields = << >> /\ reply = << >>
  /\ state = [request |-> 0, status |-> 0, calls |-> 0, stream |-> 0]
  /\ heap = 0 /\ asked = << >> /\ sentBy = [client |-> << >>, server |-> << >>]

AtMost(s, n) == SubSeq(s, 1, Min({n, Len(s)}))

Frame(type, stream, flags) == [type |-> type, stream |-> stream, flags |-> flags]
Sends(frames) == sentBy' = [sentBy EXCEPT !.server = @ \o frames]
Receives(frame, frames) ==
  sentBy' = [client |-> Append(sentBy.client, frame), server |-> sentBy.server \o frames]
-----------------------------------------------------------------------------
(* hpack_predefined: the headers that both ends know from the beginning *)

None == ""
HpackPredefined ==
  <<<<":authority", None>>, <<":method", "GET">>, <<":method", "POST">>, <<":path", "/">>,
    <<":path", "/index.html">>, <<":scheme", "http">>, <<":scheme", "https">>>>
  \o [i \in 1 .. 7 |-> <<":status", <<"200", "204", "206", "304", "400", "404", "500">>[i]>>]
  \o LET names == <<
           "accept-charset", "accept-encoding", "accept-language", "accept-ranges", "accept",
           "access-control-allow-origin", "age", "allow", "authorization", "cache-control",
           "content-encoding", "content-disposition", "content-language", "content-length",
           "content-location", "content-range", "content-type", "cookie", "date", "etag",
           "expect", "expires", "from", "host", "if-match", "if-modified-since",
           "if-none-match", "if-range", "if-unmodified-since", "last-modified", "link",
           "location", "max-forwards", "proxy-authenticate", "proxy-authorization", "range",
           "referer", "refresh", "retry-after", "server", "set-cookie",
           "strict-transport-security", "transfer-encoding", "user-agent", "vary", "via",
           "www-authenticate">>
     IN [i \in DOMAIN names |-> <<names[i], None>>]

\* RFC 7541, Appendix A: the same but for one value.
Static == [HpackPredefined EXCEPT ![16] = <<"accept-encoding", "gzip, deflate">>]
-----------------------------------------------------------------------------
(* The client (RFC 7541): what it has sent before it refers to *)

Table(t) == AtMost([i \in DOMAIN t |-> t[i].header], TheirSize)
Known(t) == Static \o Table(t)

Entry(kind, idx, h) == [kind |-> kind, idx |-> idx, name |-> h[1], value |-> h[2]]
EntryFor(h, t) ==
  LET pair == <<h.name, h.value>>
      known == Known(t)
      whole == {i \in DOMAIN known : known[i] = pair}
      named == {i \in DOMAIN known : known[i][1] = h.name}
  IN IF whole # {} THEN Entry("indexed", Min(whole), pair)
     ELSE Entry(IF h.keep THEN "indexing" ELSE "literal", IF named = {} THEN 0 ELSE Min(named), pair)

\* What the client would mean by the entry if 62 were the oldest header of the table.
AsOldest(e, t) ==
  LET old == t[Len(t) - (e.idx - 62)].oldest
  IN IF e.idx <= 61 THEN <<e.name, e.value>>
     ELSE <<old[1], IF e.kind = "indexed" THEN old[2] ELSE e.value>>

Sent(hs, t) ==
  FoldLeft(LAMBDA s, h :
             LET e == EntryFor(h, s.t)
                 old == AsOldest(e, s.t)
             IN [entries |-> Append(s.entries, e @@ [oldest |-> old]),
                 t |-> IF e.kind # "indexing" THEN s.t
                       ELSE <<[header |-> <<h.name, h.value>>, oldest |-> old]>> \o s.t],
           [entries |-> << >>, t |-> t], hs)
-----------------------------------------------------------------------------
(* The header block at the server *)

\* Mutated: the header is stored, the key and the value of the table are not copied.
CopiedNever == 0

\* The strings that a new header of the table takes.
Copied == 2

\* Mutated: the table is left as it is.
PurgeNever(s, n) == s

\* purge_dynamic_header_table: n is a number of headers here, of octets to the client.
Purge(s, n) ==
  [s EXCEPT !.table = AtMost(@, n), !.heap = @ - 2 * (Len(s.table) - Len(AtMost(s.table, n)))]

\* The place in the table that an index stands for: here 62 is the first that came, to a client
\* of RFC 7541 the last.
Place(idx) == idx - 61

Key(s, e) ==
  CASE e.idx = 0 -> e.name
    [] e.idx \in 1 .. 61 -> HpackPredefined[e.idx][1]
    [] OTHER -> s.table[Place(e.idx)][1]

Val(s, e) ==
  CASE e.kind # "indexed" -> e.value
    [] e.kind = "indexed" /\ e.idx <= 61 -> HpackPredefined[e.idx][2]
    [] OTHER -> s.table[Place(e.idx)][2]

Refused(s, e) ==
  \/ e.idx > 61 + Len(s.table)
  \/ e.kind = "indexed" /\ (e.idx = 0 \/ (e.idx <= 61 /\ HpackPredefined[e.idx][2] = None))
  \/ e.kind = "indexing" /\ Len(s.table) >= DynTableSize

Field(s, e) ==
  LET header == <<Key(s, e), Val(s, e)>>
      indexed == IF e.kind = "indexing"
                 THEN [s EXCEPT !.table = Append(@, header), !.heap = @ + Copied]
                 ELSE s
  IN IF Len(s.fields) < MaxHeaders
     THEN [indexed EXCEPT !.fields = Append(@, header), !.heap = @ + 2]
     ELSE indexed

ReadHeaders(entries) ==
  FoldLeft(LAMBDA s, e :
             CASE ~s.ok -> s
               [] s.ok /\ e.kind = "size" -> Purge(s, e.idx)
               [] s.ok /\ e.kind # "size" /\ Refused(s, e) -> [s EXCEPT !.ok = FALSE]
               [] OTHER -> Field(s, e),
           [ok |-> TRUE, fields |-> << >>, table |-> table, heap |-> heap], entries)
-----------------------------------------------------------------------------
(* handle_http2: one frame *)

\* process_new_http2_connection, is_valid_http2_primer: the settings, or an error.
Primer ==
  /\ phase = "primer"
  /\ \/ phase' = "frames" /\ Sends(<<Frame("settings", 0, 0)>>)
     \/ phase' = "closed" /\ Sends(<<Frame("error", state.stream, 0)>>)
  /\ UNCHANGED <<theirs, table, fields, state, reply, heap, asked>>

Block(frame, entries) ==
  LET s == ReadHeaders(entries)
  IN /\ Receives(frame, << >>)
     /\ fields' = s.fields /\ table' = s.table /\ heap' = s.heap
     /\ phase' = IF s.ok THEN "request" ELSE "clean"
     /\ state' = IF s.ok THEN [state EXCEPT !.request = 0, !.stream = frame.stream] ELSE state
     /\ UNCHANGED reply

\* A client may first reduce its table to nothing and then let it grow again.
Headers ==
  /\ phase = "frames" /\ Len(sentBy.client) < MaxFrames
  /\ \E hs \in Lists, clear \in BOOLEAN :
       LET block == Sent(hs, IF clear THEN << >> ELSE theirs)
           sizes == IF clear THEN <<Entry("size", 0, <<"", "">>), Entry("size", 4096, <<"", "">>)>>
                    ELSE << >>
       IN /\ Block(Frame("headers", 2 * Len(sentBy.client) + 1, 5), sizes \o block.entries)
          /\ theirs' = block.t /\ asked' = block.entries

BadHeaders ==
  /\ phase = "frames" /\ Len(sentBy.client) < MaxFrames
  /\ \E b \in Blocks : Block(Frame("headers", 2 * Len(sentBy.client) + 1, 5), b) /\ asked' = b
  /\ UNCHANGED theirs

Ignored == {"data", "priority", "rst_stream", "push_promise", "goaway", "window_update", "continuation"}

\* Mutated: settings are confirmed even if they confirm others.
AnswerAlways(f) ==
  CASE f.type = "settings" /\ f.stream # 0 -> <<Frame("rst_stream", f.stream, 0)>>
    [] f.type = "settings" /\ f.stream = 0 -> <<Frame("settings", 0, 1)>>
    [] f.type = "ping" /\ f.flags = 0 -> <<[f EXCEPT !.flags = 1]>>
    [] OTHER -> << >>

\* http2_reset_stream, http2_settings_acknowledge
Answer(f) ==
  CASE f.type = "settings" /\ f.stream # 0 -> <<Frame("rst_stream", f.stream, 0)>>
    [] f.type = "settings" /\ f.stream = 0 /\ f.flags = 0 -> <<Frame("settings", 0, 1)>>
    [] f.type = "ping" /\ f.flags = 0 -> <<[f EXCEPT !.flags = 1]>>
    [] OTHER -> << >>

Other ==
  /\ phase = "frames" /\ Len(sentBy.client) < MaxFrames
  /\ \E f \in Others : f.type \in Ignored \cup {"settings", "ping"} /\ Receives(f, Answer(f))
  /\ UNCHANGED <<phase, theirs, table, fields, state, reply, heap, asked>>

\* A frame that is cut off, too large or of another type, or the end of the connection.
BadFrame ==
  /\ phase = "frames" /\ phase' = "clean"
  /\ UNCHANGED <<theirs, table, fields, state, reply, heap, sentBy, asked>>

Clean ==
  /\ phase = "clean" /\ phase' = "closed"
  /\ fields' = << >> /\ reply' = << >> /\ table' = << >>
  /\ heap' = heap - 2 * (Len(fields) + Len(reply) + Len(table))
  /\ UNCHANGED <<theirs, state, sentBy, asked>>
-----------------------------------------------------------------------------
(* The handler of a request *)

Calling == phase = "request" /\ state.calls < MaxCalls
Called(request, status) ==
  state' = [state EXCEPT !.request = request, !.status = status, !.calls = @ + 1]

ResponseHeaderStart ==
  /\ Calling
  /\ \E status \in {200, 201} :
       IF state.request # 0
       THEN Called(state.request, state.status) /\ UNCHANGED <<reply, heap>>
       ELSE Called(1, status) /\ reply' = << >> /\ heap' = heap - 2 * Len(reply)
  /\ UNCHANGED <<phase, theirs, table, fields, sentBy, asked>>

\* The headers that are stored when hs are added one after the other.
Added(hs) == IF state.request # 1 THEN << >> ELSE AtMost(hs, MaxHeaders - Len(reply))

\* mg_response_header_add, mg_response_header_add_lines
ResponseHeaderAdd ==
  /\ Calling
  /\ \E hs \in {<<h>> : h \in Adds} \cup {<<h, g>> : h \in Adds, g \in Adds} :
       reply' = reply \o Added(hs) /\ heap' = heap + 2 * Len(Added(hs))
  /\ Called(state.request, state.status)
  /\ UNCHANGED <<phase, theirs, table, fields, sentBy, asked>>

\* A text of 127 bytes or more of code is left out: hpack_encode.
Text(t) == IF t = "long" THEN << >> ELSE <<[text |-> t]>>
Name(i) == <<[name |-> i]>>
Indexed(i) == <<[index |-> i]>>

Statuses == LET known == HpackPredefined IN {i \in 8 .. 14 : known[i][2] = ToString(state.status)}
Predef(name) == LET known == HpackPredefined IN {j \in 15 .. 61 : known[j][1] = name}

\* Mutated: connection, which HTTP/2 does not have, is sent.
FilteredNever(hs) == hs

Filtered(hs) == SelectSeq(hs, LAMBDA h : h[1] # "connection")

\* http2_send_response_headers
ResponseBlock ==
  (IF Statuses # {} THEN Indexed(Min(Statuses)) ELSE Name(8) \o Text(ToString(state.status)))
  \o FlattenSeq([i \in DOMAIN Filtered(reply) |->
       LET h == Filtered(reply)[i]
       IN (IF Predef(h[1]) # {} THEN Name(Min(Predef(h[1]))) ELSE Name(0) \o Text(h[1])) \o Text(h[2])])
  \o (IF \E i \in DOMAIN Filtered(reply) : Filtered(reply)[i][1] = "date" THEN << >>
      ELSE Name(33) \o Text("now"))

ResponseHeaderSend ==
  /\ Calling
  /\ IF state.request # 1
     THEN Called(state.request, state.status) /\ UNCHANGED sentBy
     ELSE /\ Called(2, state.status)
          /\ Sends(<<Frame("headers", state.stream, 4) @@ [block |-> ResponseBlock]>>)
  /\ UNCHANGED <<phase, theirs, table, fields, reply, heap, asked>>

\* mg_write
Write ==
  /\ Calling /\ Called(10, state.status)
  /\ Sends(<<Frame("data", state.stream, 0)>>)
  /\ UNCHANGED <<phase, theirs, table, fields, reply, heap, asked>>

\* Mutated: the headers of the response are kept for the next one.
KeptAtEnd == reply

LeftAtEnd == << >>

\* The end of handle_request, at once if the URI needs HTTP/1: HTTP1_only.
Return ==
  /\ phase = "request" /\ phase' = "frames"
  /\ \/ Sends(<<Frame("data", state.stream, 1)>>)
     \/ /\ state.request = 0
        /\ Sends(<<Frame("rst_stream", state.stream, 0), Frame("data", state.stream, 1)>>)
  /\ reply' = LeftAtEnd /\ fields' = << >> /\ heap' = heap - 2 * (Len(fields) + Len(reply))
  /\ UNCHANGED <<theirs, table, state, asked>>

Next ==
  \/ Primer \/ Headers \/ BadHeaders \/ Other \/ BadFrame \/ Clean
  \/ ResponseHeaderStart \/ ResponseHeaderAdd \/ ResponseHeaderSend \/ Write \/ Return
-----------------------------------------------------------------------------
\* The handler gets the headers, as many as there is room for, that a client means which numbers
\* the headers of its table from the oldest to the newest, as the code does.  They are those of
\* a client of RFC 7541, except for the ones it finds in its table if that has had two or more.
HeadersAreTheClients ==
  phase = "request" =>
    /\ Len(fields) = Min({Len(asked), MaxHeaders})
    /\ \A i \in DOMAIN fields :
         /\ fields[i] = asked[i].oldest
         /\ asked[i].idx <= 61 \/ Len(theirs) <= 1 => fields[i] = <<asked[i].name, asked[i].value>>

\* Every string of a header belongs to a list, and none is left when the connection ends.
StringsAreFreed ==
  /\ heap = 2 * (Len(table) + Len(fields) + Len(reply))
  /\ phase = "closed" => heap = 0

\* What a client of RFC 7541 reads.
Read(block) ==
  FoldLeft(LAMBDA s, x :
             CASE "index" \in DOMAIN x -> [s EXCEPT !.hs = Append(@, Static[x.index])]
               [] "name" \in DOMAIN x -> [s EXCEPT !.name = IF x.name = 0 THEN << >> ELSE <<Static[x.name][1]>>]
               [] OTHER -> IF s.name = << >> THEN [s EXCEPT !.name = <<x.text>>]
                           ELSE [name |-> << >>, hs |-> Append(s.hs, <<s.name[1], x.text>>)],
           [name |-> << >>, hs |-> << >>], block).hs

\* The client reads the headers the handler has added, unless one is too long to be sent.
ResponsesAreRead ==
  LET heads == {i \in DOMAIN sentBy.server : sentBy.server[i].type = "headers"}
      own == SelectSeq(reply, LAMBDA h : h[1] # "connection")
      dated == \E i \in DOMAIN own : own[i][1] = "date"
  IN phase = "request" /\ state.request = 2 /\ (\A i \in DOMAIN own : own[i][2] # "long") =>
       Read(sentBy.server[Max(heads)].block) =
         <<<<":status", ToString(state.status)>>>> \o own
         \o (IF dated THEN << >> ELSE <<<<"date", "now">>>>)

\* Every frame that wants an answer has one, in order; a stream's headers come once and
\* before its data, and it ends once, with a last frame, when the handler has returned.
RepliesAreOrdered ==
  LET on(s) == SelectSeq(sentBy.server, LAMBDA f : f.stream = s /\ f.type # "error" /\ s # 0)
      wanting == SelectSeq(sentBy.client, LAMBDA f : f.stream = 0 /\ f.type \in {"settings", "ping"} /\ f.flags = 0)
      given == SelectSeq(sentBy.server, LAMBDA f : f.stream = 0 /\ f.flags = 1)
      ended(s) == \E i \in DOMAIN on(s) : on(s)[i].type = "data" /\ on(s)[i].flags = 1
  IN /\ given = [i \in DOMAIN wanting |-> [wanting[i] EXCEPT !.flags = 1]]
     /\ \A s \in {f.stream : f \in Range(sentBy.server)} : \A i \in DOMAIN on(s) :
          /\ on(s)[i].type = "headers" => i = 1
          /\ on(s)[i].type = "data" /\ on(s)[i].flags = 1 => i = Len(on(s))
     /\ phase = "frames" =>
          \A f \in Range(sentBy.client) : f.type = "headers" => ended(f.stream)
=============================================================================
