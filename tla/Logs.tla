--------------------------------- MODULE Logs ---------------------------------
(***************************************************************************)
(* The access log and the error log of civetweb.c: handle_request_stat_log *)
(* ends with log_access, and what goes wrong is told by                    *)
(* mg_cry_internal_impl.  Every call opens the file for itself, so only    *)
(* the end of the file, which the operating system keeps, orders what the  *)
(* workers write; the time of a line comes from the one struct of          *)
(* localtime.  A line is a sequence of pieces, and a block of stdio holds  *)
(* Block of them.                                                          *)
(***************************************************************************)
EXTENDS Naturals, Sequences, SequencesExt, FiniteSets

CONSTANTS
  Workers,
  Requests,     \* bound: how many requests each of them handles
  Lines,        \* for each log, the numbers of pieces a line may have
  Block,
  Room,         \* what the disk holds
  MaxDrains     \* bound: how often somebody makes room on it

VARIABLES
  disk,     \* the pieces of the two files, and the room that is left
  clock,    \* the struct of localtime, two fields of it
  task,     \* each worker: where it is, its log, the pieces it has not written, ...
  line,     \* each line, [log, n, sent: let through and opened, told: an error followed]
  drains,
  full      \* a write has met the end of the disk

vars == <<disk, clock, task, line, drains, full>>

Quiet == [at |-> "ready", log |-> "access", out |-> << >>, open |-> FALSE,
          date |-> << >>, mixed |-> FALSE, ok |-> TRUE, n |-> 0, m |-> 0]

Init ==
  /\ disk = [access |-> << >>, error |-> << >>, left |-> Room] /\ clock = <<0, 0>>
  /\ task = [w \in Workers |-> Quiet]
  /\ line = [w \in Workers |-> << >>] /\ drains = 0 /\ full = FALSE

At(w, step) == task[w].at = step
Ready(w) == [Quiet EXCEPT !.n = task[w].n, !.m = task[w].m]
\* The time of a worker's connection has its number in both fields.
Time(w) == <<w, w>>
-----------------------------------------------------------------------------
\* Mutated: mg_fopen opens the log for writing.
OpenedEmpty(f) == << >>

Opened(f) == f

\* mg_fopen for append; it may fail, and then fp is NULL.
Open(w) ==
  /\ At(w, "ready") /\ task[w].n < Requests
  /\ \E opened \in BOOLEAN :
       /\ task' = [task EXCEPT ![w] = [Ready(w) EXCEPT !.at = "time", !.open = opened, !.n = @ + 1]]
       /\ disk' = IF opened THEN [disk EXCEPT !.access = Opened(@)] ELSE disk
  /\ UNCHANGED <<clock, line, drains, full>>

\* localtime writes one field of its struct, and then the other.
LocalTime(w) ==
  /\ task[w].at \in {"time", "time 2"}
  /\ clock' = IF At(w, "time") THEN [clock EXCEPT ![1] = Time(w)[1]] ELSE [clock EXCEPT ![2] = Time(w)[2]]
  /\ task' = [v \in Workers |->
                IF v = w THEN [task[w] EXCEPT !.at = IF @ = "time" THEN "time 2" ELSE "format"]
                ELSE IF task[v].at \in {"time 2", "format", "format 2"} THEN [task[v] EXCEPT !.mixed = TRUE]
                ELSE task[v]]
  /\ UNCHANGED <<disk, line, drains, full>>

\* strftime reads them.
Format(w) ==
  /\ task[w].at \in {"format", "format 2"}
  /\ task' = [task EXCEPT ![w].at = IF @ = "format" THEN "format 2" ELSE "callback",
                          ![w].date = Append(@, clock[Len(@) + 1])]
  /\ UNCHANGED <<disk, clock, line, drains, full>>

\* Mutated: the callback's answer is taken for its opposite.
LetsTaken(taken) == taken

Lets(taken) == ~taken

\* The callback log_access may have done all there is to do.
Callback(w) ==
  /\ At(w, "callback")
  /\ \E taken \in BOOLEAN, k \in Lines.access :
       LET sent == task[w].open /\ Lets(taken)
           id == Len(line[w]) + 1
       IN /\ task' = [task EXCEPT ![w] = IF sent THEN [Ready(w) EXCEPT !.at = "write",
                                                                !.out = [i \in 1 .. k |-> <<w, id, i>>]]
                                        ELSE Ready(w)]
          /\ line' = [line EXCEPT ![w] = Append(@, [log |-> "access", n |-> k, told |-> FALSE,
                                                    sent |-> task[w].open /\ ~taken])]
  /\ UNCHANGED <<disk, clock, drains, full>>

\* Mutated: nothing is gathered.
BlockOne == 1

\* fprintf gathers the line, block by block; fflush writes the rest.  A write that does
\* not fit writes what does, and the call fails.
BlockSize == Block
Fitting(w) ==
  LET n == IF Len(task[w].out) < BlockSize THEN Len(task[w].out) ELSE BlockSize
  IN IF n < disk.left THEN n ELSE disk.left
Put(w) ==
  /\ disk' = [disk EXCEPT ![task[w].log] = @ \o SubSeq(task[w].out, 1, Fitting(w)),
                          !.left = @ - Fitting(w)]
  /\ full' = (full \/ (Fitting(w) < Len(task[w].out) /\ Fitting(w) < BlockSize))
Unwritten(w) == SubSeq(task[w].out, Fitting(w) + 1, Len(task[w].out))

Write(w) ==
  /\ At(w, "write") /\ Put(w)
  /\ LET short == Fitting(w) < Len(task[w].out) /\ Fitting(w) < BlockSize
     IN task' = [task EXCEPT
                   ![w].at = IF short \/ Unwritten(w) = << >> THEN "close" ELSE "write",
                   ![w].ok = ~short,
                   \* the block that did not fit stays in the buffer
                   ![w].out = IF short THEN SubSeq(@, Fitting(w) + 1, IF Len(@) < BlockSize THEN Len(@) ELSE BlockSize)
                              ELSE Unwritten(w)]
  /\ UNCHANGED <<clock, line, drains>>

\* Mutated: an error is not noticed.
WentWellAlways(ok) == TRUE

WentWell(ok) == ok

\* fclose tries again to write what is left; only for the access log an error is told.
Close(w) ==
  /\ At(w, "close") /\ Put(w)
  /\ LET ok == WentWell(task[w].ok /\ Unwritten(w) = << >>)
     IN /\ task' = [task EXCEPT ![w] = IF task[w].log = "access" /\ ~ok
                                      THEN [Ready(w) EXCEPT !.at = "cry"] ELSE Ready(w)]
        /\ line' = IF task[w].log = "access" /\ ~ok
                   THEN [line EXCEPT ![w][Len(line[w])].told = TRUE] ELSE line
  /\ UNCHANGED <<clock, drains>>

\* mg_cry_internal_impl, here and for any other error of a request: log_message may have
\* done all, and the file may not open; time() has no struct.
Cry(w) ==
  /\ At(w, "cry") \/ (At(w, "ready") /\ task[w].n < Requests /\ task[w].m < Requests)
  /\ \E sent \in BOOLEAN, k \in Lines.error :
       LET id == Len(line[w]) + 1
           now == [Ready(w) EXCEPT !.m = @ + 1]
       IN /\ task' = [task EXCEPT ![w] = IF sent THEN [now EXCEPT !.at = "write", !.log = "error",
                                                          !.out = [i \in 1 .. k |-> <<w, id, i>>]]
                                        ELSE now]
          /\ line' = [line EXCEPT ![w] = Append(@, [log |-> "error", n |-> k, told |-> FALSE, sent |-> sent])]
  /\ UNCHANGED <<disk, clock, drains, full>>

\* External: somebody makes room on the disk.
Drain ==
  /\ full /\ drains < MaxDrains /\ drains' = drains + 1
  /\ disk' = [disk EXCEPT !.left = Room]
  /\ UNCHANGED <<clock, task, line, full>>

Next ==
  \/ \E w \in Workers : Open(w) \/ LocalTime(w) \/ Format(w) \/ Callback(w) \/ Write(w) \/ Close(w) \/ Cry(w)
  \/ Drain
-----------------------------------------------------------------------------
TypeOK ==
  /\ disk.left \in 0 .. Room /\ drains \in 0 .. MaxDrains /\ full \in BOOLEAN
  /\ \A w \in Workers : task[w].n \in 0 .. Requests /\ Len(task[w].date) <= 2

Places(file, w, k) == {i \in DOMAIN file : file[i][1] = w /\ file[i][2] = k}
\* The worker is not writing the line any more.
Over(w, k) == k < Len(line[w]) \/ task[w].at \in {"ready", "cry"}
Whole(w, k) ==
  \E i \in DOMAIN disk[line[w][k].log] :
    IsPrefix([j \in 1 .. line[w][k].n |-> <<w, k, j>>],
                          SubSeq(disk[line[w][k].log], i, Len(disk[line[w][k].log])))

\* A line that is let through is in its file once, and one that is not is not; as long as
\* the disk has room it is whole, and one that a block holds is in one piece, whatever
\* the other workers write.
LinesAreLogged ==
  \A w \in Workers : \A k \in DOMAIN line[w] :
    LET l == line[w][k]
        places == Places(disk[l.log], w, k)
    IN /\ Cardinality(places) <= l.n /\ (~l.sent => places = {})
       /\ l.sent /\ Over(w, k) /\ ~full =>
            Cardinality(places) = l.n /\ (l.n <= Block => Whole(w, k))

\* A line that should be in the access log and is not there whole is told to the error log.
LossesAreTold ==
  \A w \in Workers : \A k \in DOMAIN line[w] :
    LET l == line[w][k]
    IN l.log = "access" /\ l.sent /\ Over(w, k) /\ Cardinality(Places(disk.access, w, k)) < l.n => l.told

\* The time of a line is its connection's, unless another worker has asked for its own
\* between the two calls; then each field is of one of them.
DatesAreOfTheRequest ==
  \A w \in Workers : At(w, "callback") =>
    /\ task[w].date # Time(w) => task[w].mixed
    /\ \A i \in 1 .. 2 : \E v \in Workers : task[w].date[i] = Time(v)[i]
=============================================================================
