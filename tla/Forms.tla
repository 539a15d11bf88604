-------------------------------- MODULE Forms --------------------------------
(***************************************************************************)
(* mg_handle_form_request: the fields of an HTML form, found in a query    *)
(* string, a url-encoded body or a multipart body that is larger than the  *)
(* buffer and arrives in pieces, and given to the callbacks of the         *)
(* application, which let each be skipped, read or stored in a file.       *)
(*                                                                         *)
(* A form is a sequence of units: "=", "&", "%" and a digit as such; CRLF, *)
(* Dash (two of them), Empty (the empty line after a part's header) and    *)
(* the pieces of the boundary are a unit each; anything else is data.  The *)
(* forms are well-formed: what varies is where the buffer cuts them.       *)
(***************************************************************************)
EXTENDS Integers, Sequences, SequencesExt

CONSTANTS
  Bodies,    \* [kind, units, values]: what is sent, and the fields it stands for
  Boundary,  \* the units of the boundary
  Cap,       \* MG_BUF_LEN - 1: what the buffer holds
  MaxSlow    \* bound: how often mg_read returns less than it could

VARIABLES
  form,      \* the request
  left,      \* what mg_read has still to return
  slow,      \* history: how often mg_read has returned less than it could
  turn,      \* history: changes with every step, so that a loop is a loop
  place,     \* where the function is
  fbuf,      \* buf, of length buf_fill
  from,      \* hend or val: the index of the unit before the value
  next,      \* the index of the boundary or of "&", zero if not found
  allRead,   \* all_data_read
  storage,   \* field_storage
  count,     \* field_count
  fstore,    \* the file that is being written
  got,       \* for each field, what field_get was given
  stored,    \* the files of which field_store was told, with their fields
  result     \* what the function returned

vars == <<form, left, slow, turn, place, fbuf, from, next, allRead, storage, count,
          fstore, got, stored, result>>

CRLF == "crlf"
Dash == "--"
Empty == "empty"
Delimiter == <<CRLF, Dash>> \o Boundary
SKIP == "skip"
GET == "get"
STORE == "store"
ABORT == "abort"
NoFile == [open |-> FALSE, data |-> << >>]
NoResult == -2

Init == /\ form \in Bodies /\ left = form.units /\ slow = 0 /\ turn = 0
        /\ place = CASE form.kind = "multipart" -> "part"
                     [] form.kind = "urlencoded" -> "pair"
                     [] form.kind = "query" -> "query"
        /\ fbuf = << >> /\ from = 0 /\ next = 0 /\ allRead = FALSE
        /\ storage = SKIP /\ count = 0 /\ fstore = NoFile
        /\ got = << >> /\ stored = << >> /\ result = NoResult
-----------------------------------------------------------------------------
Least(a, b) == IF a < b THEN a ELSE b

\* The index of the first unit u from a place on, or zero.
Find(s, u, i) == SelectInSubSeq(s, i, Len(s), LAMBDA x : x = u)

\* mg_read returns all that was asked for, unless it times out; at the end and
\* after a timeout it returns nothing.
Pieces(room) == {n \in 0 .. Least(room, Len(left)) :
                   n < Least(room, Len(left)) => slow < MaxSlow}
MgRead(n, room) == /\ left' = SubSeq(left, n + 1, Len(left))
                   /\ slow' = IF n < Least(room, Len(left)) THEN slow + 1 ELSE slow

\* The function returns.
Return(n) == /\ result' = n /\ place' = "done"
Go(p) == place' = p /\ UNCHANGED result

\* url_encoded_field_found
FieldFound(s) == /\ storage' = s /\ count' = count + 1
                 /\ got' = Append(got, << >>)
                 /\ fstore' = IF s = STORE THEN [open |-> TRUE, data |-> << >>]
                              ELSE NoFile

\* unencoded_field_get and url_encoded_field_get, with what the callback returns;
\* or fwrite, which may fail: then the file is closed and removed.
Deliver(units, decoded) ==
  \/ /\ storage = GET
     /\ got' = [got EXCEPT ![count] = @ \o decoded]
     /\ storage' \in {GET, SKIP} /\ UNCHANGED fstore
  \/ /\ storage = STORE /\ fstore.open
     /\ fstore' \in {[fstore EXCEPT !.data = @ \o units], NoFile}
     /\ UNCHANGED <<got, storage>>
  \/ /\ storage \in {SKIP, ABORT} \/ (storage = STORE /\ ~fstore.open)
     /\ UNCHANGED <<got, storage, fstore>>

\* The file is closed, and field_store is told; or closing fails.
CloseFile(data) ==
  /\ fstore' = NoFile
  /\ IF fstore.open THEN stored' \in {stored, Append(stored, [field |-> count, data |-> data])}
                    ELSE UNCHANGED stored
-----------------------------------------------------------------------------
(* A multipart body *)

\* search_boundary: zero if the whole of it is not there.
Search(s, i) ==
  SelectInSubSeq([k \in DOMAIN s |-> k], i, Len(s) - Len(Delimiter) + 1,
    LAMBDA k : SubSeq(s, k, k + Len(Delimiter) - 1) = Delimiter)

\* The first part may have something before it.
Trim(b) == IF count = 0 /\ Find(b, Dash, 1) # 0
           THEN SubSeq(b, Find(b, Dash, 1), Len(b)) ELSE b

\* The head of a part must be in the buffer as a whole, with the boundary before
\* it; an extra Dash ends the body.
PartHead ==
  /\ place = "part"
  /\ \E n \in Pieces(Cap - Len(fbuf)), s \in {SKIP, GET, STORE, ABORT} :
       LET read == fbuf \o SubSeq(left, 1, n)
           b == Trim(read)
           m == Len(Boundary) + 1
           head == Find(b, Empty, m + 2)
       IN /\ MgRead(n, Cap - Len(fbuf)) /\ fbuf' = b
          /\ allRead' = IF n = 0 THEN read = << >> ELSE allRead
          /\ IF \/ (n = 0 /\ allRead) \/ read = << >>
                \/ ~IsPrefix(<<Dash>> \o Boundary, b)
             THEN Return(-1) /\ UNCHANGED <<from, next, storage, count, got, fstore>>
             ELSE IF Len(b) > m /\ b[m + 1] = CRLF
             THEN IF Len(b) < m + 2 \/ head = 0
                  THEN Return(-1) /\ UNCHANGED <<from, next, storage, count, got, fstore>>
                  ELSE /\ FieldFound(s) /\ from' = head
                       /\ next' = Search(b, head + 1)
                       /\ Go(IF next' = 0 THEN "more" ELSE "last")
             ELSE /\ Return(IF SubSeq(b, m + 1, Len(b)) = <<Dash, CRLF>> THEN count ELSE -1)
                  /\ UNCHANGED <<from, next, storage, count, got, fstore>>
  /\ UNCHANGED <<form, stored>>

\* No boundary: what cannot be the beginning of one is data.
Data == Len(fbuf) - from - Len(Delimiter)

\* Too little for a boundary ends the function, and leaves the file as it is.
More ==
  /\ place = "more"
  /\ IF Len(fbuf) - from < Len(Delimiter)
     THEN /\ Return(-1)
          /\ UNCHANGED <<left, slow, fbuf, from, next, allRead, storage, got, fstore>>
     ELSE LET units == SubSeq(fbuf, from + 1, from + Data)
              kept == SubSeq(fbuf, from + Data + 1, Len(fbuf))
          IN \/ /\ Deliver(units, units)
                /\ \E n \in Pieces(Cap - Len(kept)) :
                     /\ n > 0 \/ ~allRead
                     /\ MgRead(n, Cap - Len(kept))
                     /\ fbuf' = kept \o SubSeq(left, 1, n)
                     /\ next' = Search(fbuf', 1)
                     /\ allRead' = (allRead \/ (next' = 0 /\ n = 0))
                /\ from' = 0
                /\ Go(IF next' = 0 THEN "more" ELSE "last")
             \* nothing more comes, or the client is gone
             \/ /\ (left = << >> /\ allRead) \/ left # << >>
                /\ fstore' = NoFile /\ Return(-1)
                /\ UNCHANGED <<left, slow, fbuf, from, next, allRead, storage, got>>
             \* the callback aborts: that ends this loop only
             \/ /\ storage = GET
                /\ got' = [got EXCEPT ![count] = @ \o units]
                /\ next' = 0 /\ Go("last")
                /\ UNCHANGED <<left, slow, fbuf, from, allRead, storage, fstore>>
  /\ UNCHANGED <<form, count, stored>>

\* What is before the boundary; then the boundary, without its line break, is the
\* beginning of the next part.
LastOfPart ==
  /\ place = "last"
  /\ LET units == IF next = 0 THEN << >> ELSE SubSeq(fbuf, from + 1, next - 1)
     IN \/ /\ storage # STORE /\ Deliver(units, units) /\ UNCHANGED stored
        \/ /\ storage = STORE /\ CloseFile(fstore.data \o units)
           /\ UNCHANGED <<got, storage>>
  /\ fbuf' = IF next = 0 THEN << >> ELSE SubSeq(fbuf, next + 1, Len(fbuf))
  /\ \/ storage # ABORT /\ Go("part")
     \/ storage \in {ABORT, GET, STORE} /\ Return(count)
  /\ UNCHANGED <<form, left, slow, from, next, allRead, count>>
-----------------------------------------------------------------------------
(* A url-encoded body *)

\* mg_url_decode: an escape of two digits is a unit.
Digits == {"4", "1", "2"}
Decode(s) ==
  LET d[i \in 1 .. Len(s) + 1] ==
        IF i > Len(s) THEN << >>
        ELSE IF /\ i + 2 <= Len(s) /\ s[i] = "%"
                /\ s[i + 1] \in Digits /\ s[i + 2] \in Digits
             THEN <<"%" \o s[i + 1] \o s[i + 2]>> \o d[i + 3]
             ELSE <<s[i]>> \o d[i + 1]
  IN d[1]

\* Mutated: escapes are cut.
WholeAll(s) == Len(s)

\* url_encoded_field_get leaves an escape that is cut for the next time.
Whole(s) == IF Len(s) >= 2 /\ s[Len(s) - 1] = "%" THEN Len(s) - 2
            ELSE IF Len(s) >= 1 /\ s[Len(s)] = "%" THEN Len(s) - 1
            ELSE Len(s)

\* The next key: it must be in the buffer with its "=".
PairHead ==
  /\ place = "pair"
  /\ \E n \in (IF Len(fbuf) < Cap THEN Pieces(Cap - Len(fbuf)) ELSE {0}),
        s \in {SKIP, GET, STORE, ABORT} :
       LET b == fbuf \o SubSeq(left, 1, n)
           eq == Find(b, "=", 1)
           full == Len(fbuf) >= Cap
       IN /\ MgRead(n, Cap - Len(fbuf)) /\ fbuf' = b
          /\ allRead' = IF n = 0 /\ ~full THEN b = << >> ELSE allRead
          /\ IF n = 0 /\ ~full /\ allRead
             THEN Return(-1) /\ UNCHANGED <<from, storage, count, got, fstore>>
             ELSE IF b = << >> \/ eq = 0
             THEN Return(count) /\ UNCHANGED <<from, storage, count, got, fstore>>
             ELSE /\ FieldFound(s) /\ from' = eq
                  /\ IF s = ABORT THEN Return(count + 1) ELSE Go("value")
  /\ UNCHANGED <<form, next, stored>>

\* A piece of the value: all of it if its end is in the buffer.
Value ==
  /\ place = "value"
  /\ LET amp == Find(fbuf, "&", from + 1)
         units == SubSeq(fbuf, from + 1, (IF amp # 0 THEN amp ELSE Len(fbuf) + 1) - 1)
         len == IF storage = GET THEN Whole(units) ELSE Len(units)
         piece == SubSeq(units, 1, len)
         kept == SubSeq(fbuf, from + len + 1, Len(fbuf))
     IN \/ /\ amp # 0 \/ allRead
           /\ Deliver(piece, Decode(piece))
           /\ next' = IF amp # 0 THEN amp + 1 ELSE from + len + 1
           /\ Go("pairend")
           /\ UNCHANGED <<left, slow, fbuf, from, allRead>>
        \/ /\ amp = 0 /\ ~allRead
           /\ Deliver(piece, Decode(piece))
           /\ \E n \in Pieces(Cap - Len(kept)) :
                /\ MgRead(n, Cap - Len(kept))
                /\ fbuf' = kept \o SubSeq(left, 1, n)
                /\ allRead' = IF n = 0 THEN kept = << >> ELSE allRead
           /\ from' = 0 /\ next' = 1
           /\ Go(IF fbuf' = << >> THEN "pairend" ELSE "value")
        \/ /\ amp = 0 /\ ~allRead /\ left # << >>  \* the client is gone
           /\ fstore' = NoFile /\ Return(-1)
           /\ UNCHANGED <<left, slow, fbuf, from, next, allRead, storage, got>>
  /\ UNCHANGED <<form, count, stored>>

PairEnd ==
  /\ place = "pairend"
  /\ CloseFile(fstore.data)
  /\ IF allRead /\ fbuf = << >>
     THEN Return(count) /\ UNCHANGED fbuf
     ELSE \/ /\ fbuf' = SubSeq(fbuf, next, Len(fbuf)) /\ Go("pair")
          \/ /\ fstore.open /\ Return(count) /\ UNCHANGED fbuf
  /\ UNCHANGED <<form, left, slow, from, next, allRead, storage, count, got>>
-----------------------------------------------------------------------------
(* A query string: all of it is there. *)

Query ==
  /\ place = "query"
  /\ LET eq == Find(left, "=", 1)
         amp == Find(left, "&", eq + 1)
         value == SubSeq(left, eq + 1, (IF amp # 0 THEN amp ELSE Len(left) + 1) - 1)
         piece == SubSeq(value, 1, Whole(value))
     IN IF eq = 0
        THEN Return(count) /\ UNCHANGED <<left, storage, count, got, stored>>
        ELSE \E s \in {SKIP, GET, STORE, ABORT} :
               /\ storage' = s /\ count' = count + 1
               /\ got' = Append(got, IF s = GET THEN Decode(piece) ELSE << >>)
               /\ stored' \in {stored} \cup
                    (IF s = STORE THEN {Append(stored, [field |-> count + 1, data |-> value])}
                                  ELSE {})
               /\ left' = IF amp # 0 THEN SubSeq(left, amp + 1, Len(left)) ELSE << >>
               /\ \/ s # ABORT /\ Go("query")
                  \/ s # SKIP /\ Return(count + 1)
  /\ UNCHANGED <<form, slow, fbuf, from, next, allRead, fstore>>
-----------------------------------------------------------------------------
Step == /\ PartHead \/ More \/ LastOfPart \/ PairHead \/ Value \/ PairEnd \/ Query
        /\ turn' = 1 - turn

Next == Step

Spec == Init /\ [][Next]_vars /\ WF_vars(Step)
-----------------------------------------------------------------------------
TypeOK == /\ Len(fbuf) <= Cap
          /\ place \in {"more", "last", "value"} =>
               from \in 0 .. Len(fbuf)
          /\ place = "last" => next \in 0 .. Len(fbuf)
          /\ count = Len(got) /\ result \in {NoResult, -1} \cup Nat

Values == IF form.kind = "multipart" THEN form.values ELSE [i \in DOMAIN form.values |-> Decode(form.values[i])]

(***************************************************************************)
(* What field_get is given of a field is a beginning of what the client    *)
(* has sent as its value, wherever the buffer or a timeout has cut an      *)
(* escape, a boundary or what only looks like one.                         *)
(***************************************************************************)
GotIsTheValue ==
  /\ count <= Len(form.values)
  /\ \A i \in DOMAIN got : IsPrefix(got[i], Values[i])

(***************************************************************************)
(* If nothing was late, it is all of it: a field that was read to its end  *)
(* has its whole value, the last one too.  (A timeout is taken             *)
(* for the end of a url-encoded body, which is then answered as complete;  *)
(* and a callback that aborts before the end of a part is called again for *)
(* nothing, and if it then goes on, so does the function, without what is  *)
(* in the buffer: next = 0.)                                               *)
(***************************************************************************)
NothingMissing ==
  /\ slow = 0 /\ place \in {"part", "pair"} /\ next # 0 /\ storage = GET
       => got[count] = Values[count]
  /\ slow = 0 /\ place = "done" /\ result = Len(form.values) /\ storage = GET /\ next # 0
       => got[count] = Values[count]

(***************************************************************************)
(* A file of which the application is told holds the field's value as it   *)
(* was sent; one that could not be written is never told of.               *)
(***************************************************************************)
StoredIsTheValue ==
  \A i \in DOMAIN stored :
    slow = 0 \/ form.kind = "multipart" => stored[i].data = form.values[stored[i].field]

\* The function returns, however the reads are cut, if the client is not late
\* again and again.
FormEnds == <>(place = "done")
=============================================================================
