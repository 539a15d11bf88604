-------------------------------- MODULE Pages --------------------------------
(***************************************************************************)
(* The pages that civetweb.c makes: server side includes, and the listing  *)
(* of a directory.  In a text the five characters <!--# are the two < and  *)
(* #, and a command, the kind of a reference and a segment of a path are   *)
(* one each.  A behaviour is one page.                                     *)
(***************************************************************************)
EXTENDS Integers, Sequences, SequencesExt, FiniteSetsExt, Chars

CONSTANTS
  Questions,     \* the pages: [f |-> "ssi", path, text] or [f |-> "list", dir, query, memory]
  FileText,      \* the other files: the text of each path
  IsSsi(_),      \* match_prefix(SSI_EXTENSIONS, path) > 0
  Output(_),     \* what a command writes
  DocumentRoot,  \* a path
  PathLen,       \* how many segments a path can have
  BufLen,        \* MG_BUF_LEN
  ArrSize,       \* the first half of the room for entries
  Encode(_), Decode(_)   \* mg_url_encode, and mg_url_decode

VARIABLES question, answer   \* the page, and << >> or <<what was sent>>
-----------------------------------------------------------------------------
(* do_ssi_include, do_ssi_exec, send_ssi_file *)

\* <<the file that a tag names>>, or << >>: a path that is too long is none.
Included(path, tag) ==
  LET kind == IF tag = << >> THEN "" ELSE tag[1]
      file == CASE kind = "virtual" -> DocumentRoot \o Tail(tag)
                [] kind = "abspath" -> Tail(tag)
                [] kind \in {"file", "bare"} -> Front(path) \o Tail(tag)
                [] OTHER -> << >>
  IN IF Len(tag) > 1 /\ file # << >> /\ Len(file) <= PathLen /\ file \in DOMAIN FileText
     THEN <<file>> ELSE << >>


\* Mutated: a full buffer is forgotten.
FullDropped(buf) == IF Len(buf) = BufLen THEN <<<< >>, << >>>> ELSE << << >>, buf>>

\* <<what is written, what stays in the buffer>>
Full(buf) == IF Len(buf) = BufLen THEN <<buf, << >>>> ELSE << << >>, buf>>

\* What is sent for the rest of a text, with its buffer; a tag that does not fit
\* ends the text.
RECURSIVE SendSsi(_, _, _, _, _, _)
SendSsi(path, text, level, buf, inTag, inSsi) ==
  LET c == text[1]
      more == Append(buf, c)
      go(b, tag, ssi) == SendSsi(path, Tail(text), level, b, tag, ssi)
      file == Included(path, SubSeq(buf, 4, Len(buf)))
      include == IF file = << >> THEN << >>
                 ELSE IF ~IsSsi(file[1]) THEN FileText[file[1]]
                 ELSE IF level + 2 > 10 THEN << >>
                 ELSE SendSsi(file[1], FileText[file[1]], level + 2, << >>, FALSE, FALSE)
      command == CASE Len(buf) > 2 /\ buf[3] = "include" -> include
                   [] Len(buf) > 3 /\ buf[3] = "exec" -> Output(buf[4])
                   [] OTHER -> << >>
  IN CASE text = << >> -> buf
       [] text # << >> /\ inTag /\ c = ">" -> (IF inSsi THEN command ELSE more) \o go(<< >>, FALSE, FALSE)
       [] text # << >> /\ inTag /\ c # ">" ->
            IF Len(more) + 2 > BufLen THEN << >> ELSE go(more, TRUE, inSsi \/ more = <<"<", "#">>)
       [] text # << >> /\ ~inTag /\ c = "<" -> buf \o go(<<c>>, TRUE, FALSE)
       [] OTHER -> Full(more)[1] \o go(Full(more)[2], FALSE, FALSE)
-----------------------------------------------------------------------------
(* scan_directory, dir_scan_callback, compare_dir_entries *)

\* An entry of a directory is [name, dir, size, time, hidden, gone]: one that is gone
\* cannot be looked up any more.
Looked(e) ==
  [name |-> e.name, dir |-> e.dir /\ ~e.gone, size |-> IF e.gone THEN 0 ELSE e.size,
   time |-> IF e.gone THEN 0 ELSE e.time]

\* Mutated: the room is enlarged when it is exceeded.
NoRoomLate(st) == st.room = 0 \/ Len(st.entries) > st.arr

NoRoom(st) == st.room = 0 \/ Len(st.entries) >= st.arr

\* The room is enlarged, then the name copied: allocations that may fail, after
\* the given number of them.
RECURSIVE Scan(_, _)
Scan(entries, st) ==
  LET e == Head(entries)
      needed == IF NoRoom(st) THEN 2 ELSE 1
      grown == IF NoRoom(st) /\ st.memory > 0 THEN [st EXCEPT !.room = 2 * st.arr, !.arr = 2 * st.arr] ELSE st
  IN IF entries = << >> THEN st
     ELSE IF e.hidden \/ e.name \in {<<".">>, <<".", ".">>} THEN Scan(Tail(entries), st)
     ELSE IF st.memory < needed THEN grown
     ELSE Scan(Tail(entries),
               [grown EXCEPT !.entries = Append(@, Looked(e)), !.memory = @ - needed])

Sign(a, b) == IF a = b THEN 0 ELSE IF a > b THEN 1 ELSE -1

\* strcmp
Code == [c \in {"&", "%", ".", "<", "a", "b"} |->
           CASE c = "%" -> 37 [] c = "&" -> 38 [] c = "." -> 46 [] c = "<" -> 60 [] c = "a" -> 97 [] c = "b" -> 98]
Compare(s, t) ==
  LET places == {i \in 1 .. Min({Len(s), Len(t)}) : s[i] # t[i]}
      i == Min(places)
  IN IF places = {} THEN Sign(Len(s), Len(t)) ELSE Sign(Code[s[i]], Code[t[i]])

\* Mutated: directories are turned round with the rest.
DirsTurn(a, b, down) == IF a.dir = b.dir THEN 0 ELSE IF a.dir = ~down THEN -1 ELSE 1

\* Directories come first.
Dirs(a, b, down) == IF a.dir = b.dir THEN 0 ELSE IF a.dir THEN -1 ELSE 1

CompareDirEntries(a, b, query) ==
  LET key == IF query = << >> THEN "n" ELSE query[1]
      down == Len(query) > 1 /\ query[2] = "d"
      result == CASE key = "n" -> Compare(a.name, b.name)
                  [] key = "s" -> Sign(a.size, b.size)
                  [] key = "d" -> Sign(a.time, b.time)
                  [] OTHER -> 0
  IN IF a.dir # b.dir THEN Dirs(a, b, down) ELSE IF down THEN -result ELSE result
-----------------------------------------------------------------------------
(* print_dir_entry, handle_directory_request *)

HtmlEscape(s) ==
  FlattenSeq([i \in DOMAIN s |->
    CASE s[i] = "&" -> <<"&", "a", "m", "p", ";">> [] s[i] = "<" -> <<"&", "l", "t", ";">>
      [] s[i] = ">" -> <<"&", "g", "t", ";">> [] OTHER -> <<s[i]>>])

\* The row of an entry: where its link leads, and what it shows.
Row(e) == [href |-> Encode(e.name), text |-> HtmlEscape(e.name), dir |-> e.dir,
           size |-> e.size, time |-> e.time]

Orders(n) == {p \in [1 .. n -> 1 .. n] : \A i, j \in 1 .. n : p[i] = p[j] => i = j}

\* The rows, in any order that qsort may leave them in, and the direction of the
\* links that sort them.
Listings(q) ==
  LET st == Scan(q.dir, [entries |-> << >>, room |-> 0, arr |-> ArrSize, memory |-> q.memory])
      n == Len(st.entries)
      rows(p) == [i \in 1 .. n |-> st.entries[p[i]]]
      sorted(p) == \A i \in 1 .. n - 1 : CompareDirEntries(rows(p)[i], rows(p)[i + 1], q.query) <= 0
  IN {[entries |-> rows(p), rows |-> [i \in 1 .. n |-> Row(rows(p)[i])], room |-> st.room,
       turn |-> IF Len(q.query) > 1 /\ q.query[2] = "d" THEN "a" ELSE "d"] :
      p \in {o \in Orders(n) : sorted(o)}}

Replies(q) ==
  IF q.f = "ssi" THEN {SendSsi(q.path, q.text, 0, << >>, FALSE, FALSE)} ELSE Listings(q)

Init == question \in Questions /\ answer = << >>
Next == answer = << >> /\ (\E r \in Replies(question) : answer' = <<r>>) /\ UNCHANGED question
-----------------------------------------------------------------------------
\* A text up to its first tag, the tag, and the rest.
RECURSIVE Expanded(_, _, _)
Expanded(path, text, depth) ==
  LET open == Span(text, {"<"})
      tag == Drop(text, open)
      n == Span(tag, {">"})
      rest == Expanded(path, Drop(tag, n + 1), depth)
      file == Included(path, SubSeq(tag, 4, n))
      isSsi == n > 1 /\ Starts(tag, <<"<", "#">>)
      included == IF file = << >> THEN << >>
                  ELSE IF ~IsSsi(file[1]) THEN FileText[file[1]]
                  ELSE IF depth = 5 THEN << >> ELSE Expanded(file[1], FileText[file[1]], depth + 1)
  IN IF open = Len(text) THEN text
     ELSE IF n > 1 /\ n > BufLen - 2 THEN Take(text, open)
     ELSE IF n = Len(tag) THEN text
     ELSE Take(text, open)
          \o (CASE ~isSsi -> Take(tag, n + 1)
                [] isSsi /\ n > 2 /\ tag[3] = "include" -> included
                [] isSsi /\ n > 3 /\ tag[3] = "exec" -> Output(tag[4])
                [] OTHER -> << >>)
          \o rest

\* A page is its text, however it falls into the buffer, with each tag replaced by
\* the page of the file it names or by the output of its command, and by nothing if
\* there is no such file; a page that includes itself ends after six.  (A tag that is
\* too long ends its file.)
TagsAreReplaced ==
  answer # << >> /\ question.f = "ssi" => answer[1] = Expanded(question.path, question.text, 0)

\* A listing has each entry that is not hidden once, as many as there was memory for,
\* within the room for them: directories first, then by the key, upwards or
\* downwards; each link leads to its file, and a second look at the same column turns the order.
\* The order does not depend on which of two entries qsort compares with the other.
ListingIsWhole ==
  answer # << >> /\ question.f = "list" =>
    LET q == question
        r == answer[1]
        shown == SelectSeq(q.dir, LAMBDA e : ~e.hidden /\ e.name \notin {<<".">>, <<".", ".">>})
        n == Len(r.entries)
        key(e) == IF q.query # << >> /\ q.query[1] = "s" THEN e.size ELSE e.time
        ordered(a, b) == IF q.query = << >> \/ q.query[1] = "n" THEN Compare(a.name, b.name) ELSE Sign(key(a), key(b))
    IN /\ ToSet(r.entries) = {Looked(shown[i]) : i \in 1 .. n}
       /\ n = Len(shown) \/ q.memory < 2 * Len(shown)
       /\ r.room >= n
       /\ \A i \in 1 .. n : Decode(r.rows[i].href) = r.entries[i].name
                            /\ Len(r.rows[i].href) <= 3 * Len(r.entries[i].name)
                            /\ Len(r.rows[i].text) <= 5 * Len(r.entries[i].name)
       /\ \A i \in 1 .. n - 1 :
            LET a == r.entries[i]
                b == r.entries[i + 1]
            IN /\ b.dir => a.dir
               /\ a.dir = b.dir /\ q.query # <<"x">> =>
                    IF r.turn = "a" THEN ordered(a, b) >= 0 ELSE ordered(a, b) <= 0
       /\ \A a, b, c \in ToSet(r.entries) :
            /\ CompareDirEntries(a, b, q.query) = -CompareDirEntries(b, a, q.query)
            /\ CompareDirEntries(a, b, q.query) <= 0 /\ CompareDirEntries(b, c, q.query) <= 0
               => CompareDirEntries(a, c, q.query) <= 0
=============================================================================
