------------------------------- MODULE Viewer -------------------------------
(***************************************************************************)
(* The log viewer: civetwebapp.c serves the log that AlienInvasion writes  *)
(* anew after every attack.  The file is truncated, filled and completed   *)
(* in three steps, pages read it meanwhile with stdio, and all the pages   *)
(* split their lines with the one state of strtok.                         *)
(*                                                                         *)
(* The file is a sequence of units: <<v, f, i>> is the i-th piece of field *)
(* f of version v, Comma stands between the fields, Newline at the end.    *)
(***************************************************************************)
EXTENDS Naturals, Sequences, SequencesExt

CONSTANTS Pages,      \* requests for the page; each worker serves one at a time
          Widths      \* for each version, the number of pieces of its fields

VARIABLES
  main,     \* where main() of civetwebapp is
  file,     \* the contents of alien_log.txt, None before there is one
  ver,      \* the version being written, or written last
  writer,   \* where the writer is
  page,     \* each page: its place in handler() and its locals
  save      \* what strtok keeps between its calls: whose line, from where

vars == <<main, file, ver, writer, page, save>>

Versions == DOMAIN Widths
Comma == <<0, 0, 0>>
Newline == <<0, 0, 1>>
None == << <<0, 0, 2>> >>
Nothing == [owner |-> 0, next |-> 0]

Field(v, f) == [i \in 1 .. Widths[v][f] |-> <<v, f, i>>]
Fields(v) == [f \in DOMAIN Widths[v] |-> Field(v, f)]
Log(v) == LET pieces == [f \in DOMAIN Widths[v] |->
                IF f = 1 THEN Field(v, f) ELSE <<Comma>> \o Field(v, f)]
          IN FlattenSeq(pieces)

\* alone is history: no other page was served since this one was opened; shown is
\* only kept as long as that holds.
NoPage == [pc |-> "idle", off |-> 0, line |-> << >>, eof |-> FALSE,
           tok |-> Nothing, shown |-> << >>, alone |-> TRUE]

Init == /\ main = "init" /\ file = None /\ ver = 0 /\ writer = "idle"
        /\ page = [p \in Pages |-> NoPage] /\ save = Nothing
-----------------------------------------------------------------------------
(* AlienInvasion *)

\* FileWriter truncates.
Open == /\ writer = "idle" /\ ver + 1 \in Versions
        /\ file' = << >> /\ ver' = ver + 1 /\ writer' = "write"
        /\ UNCHANGED <<main, page, save>>

\* Mutated: every field is written by itself.
FlushEach ==
  /\ writer = "write"
  /\ file' = SubSeq(Log(ver), 1, Len(file) + 1)
  /\ writer' = IF Len(file') = Len(Log(ver)) THEN "close" ELSE "write"
  /\ UNCHANGED <<main, ver, page, save>>

\* The fields are buffered: flush writes all of them at once.
Flush == /\ writer = "write"
         /\ file' = Log(ver) /\ writer' = "close"
         /\ UNCHANGED <<main, ver, page, save>>

Close == /\ writer = "close"
         /\ file' = Append(file, Newline) /\ writer' = "idle"
         /\ UNCHANGED <<main, ver, page, save>>

Writer == Open \/ Flush \/ Close
-----------------------------------------------------------------------------
(* civetwebapp *)

\* The server runs before it knows the page; a server that did not start has
\* no pages.
Main == /\ \/ main = "init" /\ main' \in {"started", "failed"}
           \/ main = "started" /\ main' = "registered"
        /\ UNCHANGED <<file, ver, writer, page, save>>

Busy(p) == page[p].pc \notin {"idle", "done"}

\* The request arrives: handler() opens the file, or finds none.
Request(p) ==
  /\ page[p].pc = "idle" /\ main \in {"started", "registered"}
  /\ LET others == {q \in Pages \ {p} : Busy(q)}
         here == [page EXCEPT ![p].alone = others = {},
                   ![p].pc = IF main = "registered" /\ file # None
                             THEN "read" ELSE "done"]
     IN page' = [q \in Pages |->
          IF q \in others /\ Busy(q) THEN [here[q] EXCEPT !.alone = FALSE, !.shown = << >>]
          ELSE here[q]]
  /\ UNCHANGED <<main, file, ver, writer, save>>

\* What the file has behind the place reached, which may be beyond its end.
Rest(p) == SubSeq(file, page[p].off + 1, Len(file))

\* One read of stdio inside fgets: a line ends with its newline or with the file.
\* The end of the file is kept.
Read(p) ==
  /\ page[p].pc = "read" /\ ~page[p].eof
  /\ LET line == page[p].line \o Rest(p)
         got == [page[p] EXCEPT !.line = line, !.off = @ + Len(Rest(p))]
     IN page' = [page EXCEPT ![p] =
          IF Rest(p) = << >>
          THEN [got EXCEPT !.eof = TRUE, !.pc = IF line = << >> THEN "done" ELSE "first"]
          ELSE IF Last(line) = Newline THEN [got EXCEPT !.pc = "first"] ELSE got]
  /\ UNCHANGED <<main, file, ver, writer, save>>

\* No line is left.
ReadNone(p) ==
  /\ page[p].pc = "read" /\ page[p].eof
  /\ page' = [page EXCEPT ![p].pc = "done"]
  /\ UNCHANGED <<main, file, ver, writer, save>>

\* The token of a line from a place on: commas before it are skipped.
Start(line, i) == SelectInSubSeq(line, i, Len(line), LAMBDA u : u # Comma)
Stop(line, i) == LET c == SelectInSubSeq(line, i, Len(line), LAMBDA u : u = Comma)
                 IN IF c = 0 THEN Len(line) + 1 ELSE c
NextToken(line, i) ==
  IF i > Len(line) \/ Start(line, i) = 0 THEN << >>
  ELSE SubSeq(line, Start(line, i), Stop(line, Start(line, i)) - 1)
After(line, i) == IF i > Len(line) \/ Start(line, i) = 0 THEN Len(line) + 1
                  ELSE Stop(line, Start(line, i)) + 1

\* The end of the loop over the tokens: the next line is read.
Shown(p, token) ==
  IF token = << >> THEN [page[p] EXCEPT !.pc = "read", !.line = << >>]
  ELSE [page[p] EXCEPT !.pc = "next",
          !.shown = IF page[p].alone THEN Append(@, token) ELSE << >>]

\* strtok(line, ","), and the printf of its token.
First(p) ==
  /\ page[p].pc = "first"
  /\ save' = [owner |-> p, next |-> After(page[p].line, 1)]
  /\ page' = [page EXCEPT ![p] = Shown(p, NextToken(page[p].line, 1))]
  /\ UNCHANGED <<main, file, ver, writer>>

\* strtok(NULL, ","): it looks where the last call of any page has stopped ...
Look(p) ==
  /\ page[p].pc = "next"
  /\ page' = [page EXCEPT ![p].tok = save, ![p].pc = "store"]
  /\ UNCHANGED <<main, file, ver, writer, save>>

\* ... and keeps where it stops itself.  The line may be another page's, or one
\* that is no longer in use: then anything is found.
Store(p) ==
  /\ page[p].pc = "store"
  /\ LET at == page[p].tok
         line == page[at.owner].line
     IN IF line # << >>
        THEN /\ save' = [at EXCEPT !.next = After(line, at.next)]
             /\ page' = [page EXCEPT ![p] = Shown(p, NextToken(line, at.next))]
        ELSE /\ save' = at
             /\ \E token \in {<< >>, None} :
                  page' = [page EXCEPT ![p] = Shown(p, token)]
  /\ UNCHANGED <<main, file, ver, writer>>

Handler(p) == \/ Read(p) \/ ReadNone(p) \/ First(p) \/ Look(p) \/ Store(p)

Next == \/ Writer \/ Main
        \/ \E p \in Pages : Request(p) \/ Handler(p)

Spec == Init /\ [][Next]_vars
-----------------------------------------------------------------------------
TypeOK ==
  /\ ver \in Versions \cup {0} /\ writer \in {"idle", "write", "close"}
  /\ main \in {"init", "started", "registered", "failed"}
  /\ \A p \in Pages : page[p].pc \in {"idle", "read", "first", "next", "store", "done"}
  /\ save = Nothing \/ save.owner \in Pages

(***************************************************************************)
(* A page that was served alone is whole, whenever the log was rewritten   *)
(* meanwhile: it shows nothing, or first all the fields of one version, in *)
(* order.  Only the last of them may go on with the end of a later and     *)
(* longer version, and what follows then is of later versions.             *)
(***************************************************************************)
LonePagesAreWhole ==
  \A p \in Pages :
    LET shown == page[p].shown
    IN page[p].pc = "done" /\ page[p].alone /\ shown # << >> =>
         \E v \in Versions :
           LET n == Len(Fields(v))
           IN /\ Len(shown) >= n
              /\ SubSeq(shown, 1, n - 1) = SubSeq(Fields(v), 1, n - 1)
              /\ IsPrefix(Fields(v)[n], shown[n])
              /\ \A i \in n + 1 .. Len(shown) : \A u \in ToSet(shown[i]) :
                   u = Newline \/ u[1] > v
=============================================================================
