-------------------------------- MODULE Files --------------------------------
(***************************************************************************)
(* CivetWeb as a file server: workers that read, replace, store and delete *)
(* files of one document root, each in several calls of the file system,   *)
(* with nothing that keeps them apart; and the state of the response, which *)
(* decides whether an answer is still sent.                                *)
(*                                                                         *)
(* The options: a document root, a password file for put and delete (the   *)
(* requests are authorized ones), directory listings, no error pages.  A   *)
(* name is a path of the tree, a file a sequence of units <<w, i>>: the    *)
(* i-th of the body that worker w has stored, or Hole.                     *)
(***************************************************************************)
EXTENDS Integers, Sequences, FiniteSets

CONSTANTS
  Workers, Requests,
  Parent,      \* each path's directory; the root is not a path
  GzOf,        \* the path of its zipped file, for paths that may have one
  IndexOf,     \* the path of its index file, for directories that may have one
  Trees,       \* the files there are before: each path's node
  Nodes,       \* the nodes there may be: numbers above zero
  GzipLimit    \* MG_FILE_COMPRESSION_SIZE_LIMIT

VARIABLES
  fs,          \* the node of each path, or Gone
  node,        \* each node: [dir, data]
  worker       \* each worker: its place, its request, its locals and its answer

vars == <<fs, node, worker>>

Paths == DOMAIN Parent
Root == ""
Gone == 0
Hole == <<0, 0>>
Old == << <<0, 1>>, <<0, 2>> >>

\* state is conn->request_state, heads the status of each header sent, body what
\* follows it.  clean is history: no conflicting request has overlapped.
Idle == [pc |-> "idle", req |-> CHOOSE q \in Requests : TRUE, slash |-> FALSE,
         path |-> CHOOSE p \in Paths : TRUE, gz |-> FALSE, status |-> 0, fd |-> Gone,
         off |-> 0, len |-> 0, cl |-> 0, todo |-> << >>, pend |-> << >>, cut |-> FALSE,
         state |-> 0, heads |-> << >>, body |-> << >>, mustClose |-> FALSE,
         clean |-> TRUE]

Init == /\ fs \in Trees
        /\ node = [i \in Nodes |-> [dir |-> \E p \in Paths : fs[p] = i /\ \E c \in Paths : Parent[c] = p,
                                    data |-> Old]]
        /\ worker = [w \in Workers |-> Idle]
-----------------------------------------------------------------------------
(* The response *)

\* mg_response_header_start to mg_response_header_send: refused once anything
\* was sent.
Header(c, status) ==
  IF c.state # 0 THEN c
  ELSE [c EXCEPT !.state = 3, !.status = status, !.heads = Append(@, status)]

\* mg_write marks the connection.
Written(c) == [c EXCEPT !.state = 10]

\* mg_send_http_error: it has a body unless its status forbids one.
HttpError(c, status) ==
  LET sent == Header([c EXCEPT !.status = status, !.mustClose = TRUE], status)
  IN IF status \in {204, 304} THEN sent ELSE Written(sent)

Done(c) == [c EXCEPT !.pc = "done", !.fd = Gone]
-----------------------------------------------------------------------------
(* The file system *)

Found(p) == fs[p] # Gone
IsDir(p) == Found(p) /\ node[fs[p]].dir
Size(p) == IF IsDir(p) THEN 0 ELSE Len(node[fs[p]].data)
Children(p) == {c \in Paths : Parent[c] = p}
HasParent(p) == Parent[p] # Root => IsDir(Parent[p])
FreeNodes == {i \in Nodes : /\ \A p \in Paths : fs[p] # i
                            /\ \A w \in Workers : worker[w].fd # i}
NewNode == CHOOSE i \in FreeNodes : \A j \in FreeNodes : i <= j

MakeNode(p, dir) == /\ fs' = [fs EXCEPT ![p] = NewNode]
                    /\ node' = [node EXCEPT ![NewNode] = [dir |-> dir, data |-> << >>]]
Unlink(p) == /\ fs' = [fs EXCEPT ![p] = Gone] /\ UNCHANGED node
Same == UNCHANGED <<fs, node>>

To(w, c) == worker' = [worker EXCEPT ![w] = c]
-----------------------------------------------------------------------------
(* A request *)

Changes == {"PUT", "DELETE", "MKCOL", "STORE"}

\* What a request may meet of others.
Touches(q) ==
  {q.path} \cup {IndexOf[p] : p \in {q.path} \cap DOMAIN IndexOf}
           \cup {GzOf[p] : p \in {q.path} \cap DOMAIN GzOf}
           \cup (IF q.method = "DELETE" THEN Children(q.path) ELSE {})

Busy(w) == worker[w].pc \notin {"idle", "done"}
Conflict(q, r) == r.method \in Changes /\ Touches(q) \cap Touches(r) # {}

Begin(w) ==
  /\ worker[w].pc = "idle"
  /\ \E q \in Requests :
       LET others == {v \in Workers \ {w} : Busy(v)}
       IN worker' = [v \in Workers |->
            IF v = w
            THEN [Idle EXCEPT !.req = q, !.path = q.path, !.slash = q.slash,
                    !.pc = IF q.method = "STORE" THEN "putdir" ELSE "interpret",
                    !.clean = ~\E o \in others : Conflict(q, worker[o].req),
                    !.todo = [i \in 1 .. q.n |-> <<w, i>>]]
            ELSE IF v \in others /\ Conflict(worker[v].req, q)
                 THEN [worker[v] EXCEPT !.clean = FALSE] ELSE worker[v]]
  /\ Same

\* interpret_uri: a directory that has an index file stands for it, whatever the
\* method; the zipped file for one that is not there.  Then handle_request, from
\* 11. on: its own methods, and a file or a directory that is there.
Interpret(w) ==
  /\ worker[w].pc = "interpret"
  /\ LET c == worker[w]
         q == c.req
         index == /\ IsDir(q.path) /\ q.slash /\ q.path \in DOMAIN IndexOf
                  /\ Found(IndexOf[q.path])
         path == IF index THEN IndexOf[q.path] ELSE q.path
         zipped == /\ ~Found(q.path) /\ q.gzip /\ q.path \in DOMAIN GzOf
                   /\ Found(GzOf[q.path])
         at == [c EXCEPT !.path = path, !.slash = q.slash /\ ~index, !.gz = zipped]
     IN \/ /\ q.method = "PUT"
           /\ To(w, [at EXCEPT !.pc = "put"])
        \/ /\ q.method = "DELETE"
           /\ To(w, [at EXCEPT !.pc = "delete"])
        \/ /\ q.method = "MKCOL"
           /\ To(w, [at EXCEPT !.pc = "mkcol"])
        \/ /\ q.method \in {"GET", "HEAD"}
           /\ CASE ~Found(path) /\ ~zipped -> To(w, Done(HttpError(at, 404)))
                [] IsDir(path) /\ ~q.slash ->
                     To(w, Done(Header(at, 301)))
                [] IsDir(path) /\ q.slash ->
                     To(w, Done(Written(Header([at EXCEPT !.mustClose = TRUE], 200))))
                [] OTHER -> \/ To(w, Done(Header(at, 304)))
                            \/ To(w, [at EXCEPT !.pc = "static",
                                        !.cl = Size(IF zipped THEN GzOf[path] ELSE path)])
  /\ Same
-----------------------------------------------------------------------------
(* handle_static_file_request *)

\* The zipped file may be taken instead.
ChooseFile(w) ==
  /\ worker[w].pc = "static"
  /\ LET c == worker[w]
         better == /\ ~c.gz /\ c.req.gzip /\ c.req.range = << >> /\ c.cl >= GzipLimit
                   /\ c.path \in DOMAIN GzOf /\ Found(GzOf[c.path])
                   /\ ~IsDir(GzOf[c.path])
     IN To(w, IF better
              THEN [c EXCEPT !.pc = "open", !.path = GzOf[c.path],
                             !.cl = Size(GzOf[c.path])]
              ELSE [c EXCEPT !.pc = "open",
                             !.path = IF c.gz THEN GzOf[c.path] ELSE c.path])
  /\ Same

Least(a, b) == IF a < b THEN a ELSE b

\* Mutated: the last byte of a range is left out.
RangeLengthOpen(range, cl) ==
  IF Len(range) = 2 THEN Least(range[2], cl) - range[1] ELSE cl - range[1]

\* The length of a range, of one that has an end and of one that has none.
RangeLength(range, cl) ==
  IF Len(range) = 2 THEN Least(range[2], cl) - range[1] + 1 ELSE cl - range[1]

\* mg_fopen looks at the file again, and forgets that it is a zipped one.  cl is
\* still the size that was found before.
OpenFile(w) ==
  /\ worker[w].pc = "open"
  /\ LET c == worker[w]
         range == c.req.range
         cl == IF range = << >> THEN c.cl ELSE RangeLength(range, c.cl)
         first == IF range = << >> THEN 0 ELSE range[1]
         sent == Header([c EXCEPT !.cl = cl], IF range = << >> THEN 200 ELSE 206)
     IN To(w, IF ~Found(c.path) THEN Done(HttpError(c, 500))
              ELSE IF c.req.method = "HEAD" THEN Done(sent)
              ELSE [sent EXCEPT !.pc = "send", !.fd = fs[c.path], !.len = cl,
                                !.off = Least(first, Size(c.path))])
  /\ Same

\* send_file_data: piece by piece, until nothing is left to send or to read.
SendFileData(w) ==
  /\ worker[w].pc = "send"
  /\ LET c == worker[w]
         data == IF node[c.fd].dir THEN << >> ELSE node[c.fd].data
     IN To(w, IF c.len > 0 /\ c.off < Len(data)
              THEN Written([c EXCEPT !.off = @ + 1, !.len = @ - 1,
                                     !.body = Append(@, data[c.off + 1])])
              ELSE Done(c))
  /\ Same
-----------------------------------------------------------------------------
(* put_file, put_dir and mg_store_body *)

\* mg_store_body returns to its callback, which has to answer.
Return(c, status) == IF c.req.method = "STORE" THEN Done(c)
                     ELSE Done(Header(c, status))
Fail(c, status) == IF c.req.method = "STORE" THEN Done(c)
                   ELSE Done(HttpError(c, status))

\* A file that is there may be one that the server cannot write.
PutFile(w) ==
  /\ worker[w].pc = "put"
  /\ LET c == worker[w]
     IN \/ To(w, IF ~Found(c.path) THEN [c EXCEPT !.pc = "putdir", !.status = 201]
                 ELSE IF IsDir(c.path) THEN Return(c, 200)
                 ELSE [c EXCEPT !.pc = "create", !.status = 200])
        \/ Found(c.path) /\ ~IsDir(c.path) /\ To(w, Fail([c EXCEPT !.status = 200], 403))
  /\ Same

\* The directory that is to be there: the parent, or the path itself if it ends
\* with a slash.  (A path that is too long for it can only come from the application:
\* that of a request has the same room.)
Wanted(c) == IF c.slash THEN c.path ELSE Parent[c.path]
AfterDir(c) == IF c.slash THEN Return(c, 201) ELSE [c EXCEPT !.pc = "create"]

LookForDir(w) ==
  /\ worker[w].pc = "putdir"
  /\ LET c == worker[w]
     IN \/ To(w, IF Wanted(c) = Root \/ Found(Wanted(c)) THEN AfterDir(c)
                 ELSE [c EXCEPT !.pc = "mkdir"])
        \/ c.req.method = "STORE" /\ To(w, Fail(c, 414))
  /\ Same

\* It may be there by now: then mkdir fails.
MakeDir(w) ==
  /\ worker[w].pc = "mkdir"
  /\ LET c == worker[w]
     IN IF Found(Wanted(c)) \/ ~HasParent(Wanted(c))
        THEN To(w, Fail(c, 500)) /\ Same
        ELSE To(w, AfterDir(c)) /\ MakeNode(Wanted(c), TRUE)

\* fopen(path, "w") empties a file that is there.  Then forward_body_data: another
\* expectation than 100-continue is refused now; the status is set again.
CreateFile(w) ==
  /\ worker[w].pc = "create"
  /\ LET c == worker[w]
         open == [c EXCEPT !.pc = "write",
                           !.fd = IF Found(c.path) THEN fs[c.path] ELSE NewNode,
                           !.off = IF c.req.range = << >> \/ c.req.method = "STORE"
                                   THEN 0 ELSE c.req.range[1]]
         expected ==
           CASE c.req.method = "STORE" -> open
             [] c.req.expect = "other" -> Done(HttpError(open, 417))
             [] c.req.expect = "100-continue" -> Written([open EXCEPT !.status = 100])
             [] OTHER -> [open EXCEPT !.status = 200]
     IN \/ /\ IsDir(c.path) \/ ~HasParent(c.path)
           /\ To(w, Fail(c, 500)) /\ Same
        \/ /\ Found(c.path) /\ ~IsDir(c.path)
           /\ node' = [node EXCEPT ![fs[c.path]].data = << >>]
           /\ To(w, expected) /\ UNCHANGED fs
        \/ /\ ~Found(c.path) /\ HasParent(c.path)
           /\ MakeNode(c.path, FALSE) /\ To(w, expected)

\* What the file holds after units were written from a place on.
Overwrite(data, off, units) ==
  [i \in 1 .. (IF units # << >> /\ off + Len(units) > Len(data)
               THEN off + Len(units) ELSE Len(data)) |->
     IF i > off /\ i <= off + Len(units) THEN units[i - off]
     ELSE IF i <= Len(data) THEN data[i] ELSE Hole]

Flushed(c, units) == [node EXCEPT ![c.fd].data = Overwrite(@, c.off, units)]

\* A piece of the body is read and written; stdio may keep it for now.
StorePiece(w) ==
  /\ worker[w].pc = "write" /\ worker[w].todo # << >>
  /\ LET c == worker[w]
         units == Append(c.pend, Head(c.todo))
         read == [c EXCEPT !.todo = Tail(@)]
     IN \/ /\ To(w, [read EXCEPT !.pend = units]) /\ UNCHANGED node
        \/ /\ To(w, [read EXCEPT !.pend = << >>, !.off = @ + Len(units)])
           /\ node' = Flushed(c, units)
  /\ UNCHANGED fs

\* fclose, when mg_read has returned nothing: the end of the body, but also a
\* timeout or a stop of the server.  mg_store_body takes an error for the end.
StoreEnd(w) ==
  /\ worker[w].pc = "write"
  /\ LET c == [worker[w] EXCEPT !.cut = worker[w].todo # << >>]
     IN To(w, Return(c, c.status)) /\ node' = Flushed(c, c.pend)
  /\ UNCHANGED fs

\* Mutated: a failure is not answered.
FailureSilent(c) == Done(c)

FailureAnswer(c) == Fail(c, 500)

\* The client is gone, or the disk is full: what was stored stays.
StoreFails(w) ==
  /\ worker[w].pc = "write" /\ worker[w].req.method = "PUT" /\ worker[w].todo # << >>
  /\ \E kept \in 0 .. Len(worker[w].pend) :
       node' = Flushed(worker[w], SubSeq(worker[w].pend, 1, kept))
  /\ To(w, FailureAnswer(worker[w])) /\ UNCHANGED fs

\* fclose may be the first to notice a full disk.
CloseFails(w) ==
  /\ worker[w].pc = "write" /\ worker[w].req.method = "PUT"
  /\ \E kept \in 0 .. Len(worker[w].pend) - 1 :
       node' = Flushed(worker[w], SubSeq(worker[w].pend, 1, kept))
  /\ To(w, Return(worker[w], 507)) /\ UNCHANGED fs

\* mg_store_body removes what it could not write.
StoreBroken(w) ==
  /\ worker[w].pc = "write" /\ worker[w].req.method = "STORE"
  /\ To(w, [worker[w] EXCEPT !.pc = "remove"]) /\ Same

RemoveBadFile(w) ==
  /\ worker[w].pc = "remove" /\ To(w, Done(worker[w]))
  /\ IF Found(worker[w].path) /\ ~IsDir(worker[w].path)
     THEN Unlink(worker[w].path) ELSE Same
-----------------------------------------------------------------------------
(* delete_file, remove_directory and mkcol *)

DeleteFile(w) ==
  /\ worker[w].pc = "delete"
  /\ LET c == worker[w]
     IN To(w, IF ~Found(c.path) THEN Done(HttpError(c, 404))
              ELSE [c EXCEPT !.pc = IF IsDir(c.path) THEN "empty" ELSE "unlink"])
  /\ Same

\* remove may find it gone.
Remove(w) ==
  /\ worker[w].pc = "unlink"
  /\ LET c == worker[w]
     IN IF Found(c.path) /\ ~(IsDir(c.path) /\ \E k \in Children(c.path) : Found(k))
        THEN To(w, Done(Header(c, 204))) /\ Unlink(c.path)
        ELSE To(w, Done(HttpError(c, 423))) /\ Same

\* An entry of the directory: that it could be removed counts as a failure, and
\* is remembered in status.
EmptyDir(w) ==
  /\ worker[w].pc = "empty"
  /\ \E k \in Children(worker[w].path) :
       /\ Found(k) /\ ~IsDir(k) /\ Unlink(k)
       /\ To(w, [worker[w] EXCEPT !.status = 500])

\* rmdir, whose result is not looked at: something may have been put there.
RemoveDir(w) ==
  /\ worker[w].pc = "empty"
  /\ LET c == worker[w]
         answer == Done(HttpError(c, IF c.status = 500 THEN 500 ELSE 204))
     IN /\ To(w, answer)
        /\ IF IsDir(c.path) /\ \A k \in Children(c.path) : ~Found(k)
           THEN Unlink(c.path) ELSE Same

\* mkcol: its look at the path first is part of mkdir here, with the same answer.
MkCol(w) ==
  /\ worker[w].pc = "mkcol"
  /\ LET c == worker[w]
     IN IF Found(c.path) THEN To(w, Done(HttpError(c, 405))) /\ Same
        ELSE IF c.req.n > 0 THEN To(w, Done(HttpError(c, 415))) /\ Same
        ELSE IF ~HasParent(c.path) THEN To(w, Done(HttpError(c, 409))) /\ Same
        ELSE To(w, Done(Header(c, 201))) /\ MakeNode(c.path, TRUE)
-----------------------------------------------------------------------------
Next == \E w \in Workers :
  \/ Begin(w) \/ Interpret(w) \/ ChooseFile(w) \/ OpenFile(w) \/ SendFileData(w)
  \/ PutFile(w) \/ LookForDir(w) \/ MakeDir(w) \/ CreateFile(w) \/ StorePiece(w)
  \/ StoreEnd(w) \/ StoreFails(w) \/ CloseFails(w) \/ StoreBroken(w)
  \/ RemoveBadFile(w) \/ DeleteFile(w) \/ Remove(w) \/ EmptyDir(w) \/ RemoveDir(w) \/ MkCol(w)

Spec == Init /\ [][Next]_vars
-----------------------------------------------------------------------------
TypeOK ==
  /\ \A p \in Paths : fs[p] \in Nodes \cup {Gone}
  /\ \A p, q \in Paths : fs[p] = fs[q] /\ p # q => fs[p] = Gone
  /\ \A w \in Workers : worker[w].state \in {0, 3, 10} /\ worker[w].off \in Nat

(***************************************************************************)
(* A request that has ended was answered with one header, on every way     *)
(* through the failures: a second one is refused because of what was sent  *)
(* before.  For the same reason a put that was told to continue gets no    *)
(* answer at all.  (mg_store_body leaves the answer to its caller.)        *)
(***************************************************************************)
AnsweredOnce ==
  \A w \in Workers :
    LET c == worker[w]
        continued == /\ c.req.method = "PUT" /\ c.req.expect = "100-continue"
    IN /\ Len(c.heads) <= 1
       /\ c.pc = "done" /\ c.heads = << >> => c.req.method = "STORE" \/ continued

\* Request w ends in this step, without a conflict, with one of these answers.
Ends(w, heads) ==
  /\ worker[w].pc # "done" /\ worker'[w].pc = "done" /\ worker[w].clean
  /\ worker'[w].heads # << >> /\ worker'[w].heads[1] \in heads

(***************************************************************************)
(* A put that is answered with success has stored its body and nothing     *)
(* else, whatever other requests do with other files and directories, if   *)
(* no conflicting one overlaps and the body was not cut.  (Cut by a        *)
(* timeout, it is answered with success as well: mg_read does not tell a   *)
(* timeout from the end.)  A part, by Content-Range, is stored at its      *)
(* place, but nothing is left of what was before it.                       *)
(***************************************************************************)
PutIsWhole ==
  \A w \in Workers :
    LET c == worker[w]
        body == [i \in 1 .. c.req.n |-> <<w, i>>]
        first == IF c.req.range = << >> \/ body = << >> THEN 0 ELSE c.req.range[1]
    IN Ends(w, {200}) /\ c.pc = "write" /\ ~worker'[w].cut =>
         /\ fs'[c.path] = c.fd
         /\ node'[c.fd].data = [i \in 1 .. first |-> Hole] \o body

(***************************************************************************)
(* A file is answered with as much as Content-Length says: all of the file *)
(* that was asked for or of its zipped one, or exactly the range.  (Not a  *)
(* range that ends at the size of the file or behind it, or begins there:  *)
(* the length is then one too many, or negative.)                             *)
(***************************************************************************)
GetIsWhole ==
  \A w \in Workers :
    LET c == worker[w]
        data == node[c.fd].data
        range == c.req.range
        first == IF range = << >> THEN 0 ELSE range[1]
        last == IF Len(range) = 2 THEN range[2] ELSE Len(data) - 1
    IN /\ Ends(w, {200, 206}) /\ c.pc = "send"
       /\ range # << >> => first <= last /\ last < Len(data)
       => /\ Len(c.body) = c.cl
          /\ c.body = SubSeq(data, first + 1, last + 1)
=============================================================================
