----------------------------- MODULE Passwords -----------------------------
(***************************************************************************)
(* A password file and the nonces of digest authentication: calls of       *)
(* modify_passwords_file, which writes a new file and puts it in the place *)
(* of the old one, requests that are challenged and answer, restarts of    *)
(* the server and a crash.  No lock is held for the file, and all calls    *)
(* use the same temporary name.                                            *)
(***************************************************************************)
EXTENDS Naturals, Sequences, SequencesExt, FiniteSets

CONSTANTS
  Callers, Users, Passes,   \* the threads that change passwords, and what they put in
  First,                    \* the lines the file begins with: <<user, password>>, of no user
                            \* if sscanf does not find one: a comment, or a file to include
  MaxChanges, MaxNonces, MaxTime   \* bounds: calls, challenges of a run, seconds

VARIABLES
  disk,     \* [file, tmp: the node that has the name, or 0]
  node,     \* the contents of each node
  caller,   \* [at, user, pass, fp, fp2: nodes, out: what is still in the buffer]
  changes,  \* how many calls there were
  request,  \* [at, fp, of: the challenge, nonce: presented, saw: the records that were read, granted]
  run,      \* [start: start_time, mask: auth_nonce_mask, count: nonce_count]
  now,      \* the seconds
  issued,   \* the nonces this run has sent
  versions, \* the sets of records the calls have meant, or could write, one after the other
  overlap,  \* calls have overlapped
  died      \* the process has died

vars == <<disk, node, caller, changes, request, run, now, issued, versions, overlap, died>>

Resting == [at |-> "no", user |-> "", pass |-> "", fp |-> 0, fp2 |-> 0, out |-> << >>]
NoRequest == [at |-> "no", fp |-> 0, of |-> [run |-> 0, nonce |-> << >>], nonce |-> << >>, saw |-> << >>, granted |-> FALSE]

\* The lines that have a user.
Lines(n) == SelectSeq(n, LAMBDA l : l[1] # "")
Records(n) == Range(Lines(n))

Init ==
  /\ disk = [file |-> IF First = << >> THEN 0 ELSE 1, tmp |-> 0] /\ node = <<First>>
  /\ caller = [c \in Callers |-> Resting] /\ changes = 0 /\ request = NoRequest
  /\ run = [start |-> 0, mask |-> 1, count |-> 0] /\ now = 0 /\ issued = {}
  /\ versions = <<Records(First)>> /\ overlap = FALSE /\ died = FALSE

At(c, step) == caller[c].at = step
Goto(c, step) == caller' = [caller EXCEPT ![c].at = step]
Done(c) == caller' = [caller EXCEPT ![c] = Resting]
Server == <<request, run, now, issued>>
-----------------------------------------------------------------------------
(* modify_passwords_file: an empty password removes the record *)

\* Mutated: a record that is changed stays beside the new one.
ChangedTwice(lines, user, pass) ==
  Lines(lines) \o (IF pass = "" THEN << >> ELSE <<<<user, pass>>>>)

\* The records of the user change in their places; a new one comes last.  Lines that sscanf
\* does not split in two are left out.
Changed(lines, user, pass) ==
  LET records == Lines(lines)
      new == IF pass = "" THEN << >> ELSE <<<<user, pass>>>>
  IN FlattenSeq([i \in DOMAIN records |-> IF records[i][1] = user THEN new ELSE <<records[i]>>])
     \o (IF \E i \in DOMAIN records : records[i][1] = user THEN << >> ELSE new)

Begin(c) ==
  /\ At(c, "no") /\ changes < MaxChanges /\ changes' = changes + 1
  /\ \E u \in Users, p \in Passes \cup {""} :
       /\ caller' = [caller EXCEPT ![c] = [Resting EXCEPT !.at = "create", !.user = u, !.pass = p]]
       /\ versions' = Append(versions, {r \in Last(versions) : r[1] # u}
                                       \cup (IF p = "" THEN {} ELSE {<<u, p>>}))
  /\ overlap' = (overlap \/ \E d \in Callers : ~At(d, "no"))
  /\ UNCHANGED <<disk, node, died, Server>>

\* fopen with "a+"
Create(c) ==
  /\ At(c, "create") /\ Goto(c, "read")
  /\ IF disk.file = 0
     THEN disk' = [disk EXCEPT !.file = Len(node) + 1] /\ node' = Append(node, << >>)
     ELSE UNCHANGED <<disk, node>>
  /\ UNCHANGED <<changes, Server, versions, overlap, died>>

OpenFile(c) ==
  /\ At(c, "read")
  /\ caller' = [caller EXCEPT ![c] = IF disk.file = 0 THEN Resting
                                     ELSE [@ EXCEPT !.at = "temporary", !.fp = disk.file]]
  /\ UNCHANGED <<disk, node, changes, Server, versions, overlap, died>>

\* Mutated: the temporary file is the file itself.
TemporaryFile(d) == d.file

Temporary(d) == d.tmp

\* fopen with "w+"
OpenTemporary(c) ==
  /\ At(c, "temporary")
  /\ LET old == Temporary(disk)
         n == IF old = 0 THEN Len(node) + 1 ELSE old
     IN /\ caller' = [caller EXCEPT ![c].at = "copy", ![c].fp2 = n]
        /\ disk' = IF old = 0 THEN [disk EXCEPT !.tmp = n] ELSE disk
        /\ node' = IF old = 0 THEN Append(node, << >>) ELSE [node EXCEPT ![n] = << >>]
  /\ UNCHANGED <<changes, Server, versions, overlap, died>>

Copy(c) ==
  /\ At(c, "copy")
  /\ caller' = [caller EXCEPT ![c].at = "close",
                              ![c].out = Changed(node[caller[c].fp], caller[c].user, caller[c].pass)]
  /\ UNCHANGED <<disk, node, changes, Server, versions, overlap, died>>

\* What of the buffer can be written: all of it; or, when the disk is full, some lines, and
\* perhaps a part of the next one.
Cut == "cut"
Written(out) ==
  {out} \cup UNION {{SubSeq(out, 1, k), Append(SubSeq(out, 1, k), <<out[k + 1][1], Cut>>)} : k \in 0 .. Len(out) - 1}

\* It is written over what the node begins with; nobody asks how much it was.
Close(c) ==
  /\ At(c, "close") /\ Goto(c, "remove")
  /\ \E w \in Written(caller[c].out) :
       /\ node' = [node EXCEPT ![caller[c].fp2] = w \o SubSeq(@, Len(w) + 1, Len(@))]
       /\ versions' = IF w = caller[c].out THEN versions
                      ELSE [versions EXCEPT ![Len(versions)] = Records(w)]
  /\ UNCHANGED <<disk, changes, Server, overlap, died>>

RemoveFile(c) ==
  /\ At(c, "remove") /\ Goto(c, "rename") /\ disk' = [disk EXCEPT !.file = 0]
  /\ UNCHANGED <<node, changes, Server, versions, overlap, died>>

Rename(c) ==
  /\ At(c, "rename") /\ Done(c)
  /\ disk' = IF disk.tmp = 0 THEN disk ELSE [file |-> disk.tmp, tmp |-> 0]
  /\ UNCHANGED <<node, changes, Server, versions, overlap, died>>

\* The process dies; what is in buffers is lost.
Crash ==
  /\ \E c \in Callers : ~At(c, "no")
  /\ caller' = [c \in Callers |-> Resting] /\ request' = NoRequest
  /\ changes' = MaxChanges /\ died' = TRUE
  /\ UNCHANGED <<disk, node, run, now, issued, versions, overlap>>
-----------------------------------------------------------------------------
(* Requests: send_authorization_request, check_authorization, parse_auth_header *)

Files == <<disk, node, caller, changes, versions, overlap, died>>

\* Mutated: the nonce is not told from those of another run.
NonceBare(mask, n) == <<1, n>>

Nonce(mask, n) == <<mask, n>>

\* A nonce is counted from the start of the server, and masked.
Challenge ==
  /\ request.at = "no" /\ run.count < MaxNonces
  /\ issued' = issued \cup {[run |-> run.mask, nonce |-> Nonce(run.mask, run.start + run.count)]}
  /\ run' = [run EXCEPT !.count = @ + 1]
  /\ UNCHANGED <<Files, request, now>>

\* Mutated: the next nonce is taken before it is given out.
InRangeNext(n) == n \in run.start .. run.start + run.count

\* What another mask makes of a number is out of every range.
InRange(n) == n \in run.start .. run.start + run.count - 1
Valid(nonce) == nonce[1] = Nonce(run.mask, 0)[1] /\ InRange(nonce[2])

\* A client answers a challenge it has had, or one it has not had yet.
Open ==
  /\ request.at = "no"
  /\ \E i \in issued, k \in {0, 1} :
       request' = [NoRequest EXCEPT !.at = "read", !.fp = disk.file, !.of = i,
                                    !.nonce = <<i.nonce[1], i.nonce[2] + k>>]
  /\ UNCHANGED <<Files, run, now, issued>>

\* Without a file nobody is asked for a password.
Read ==
  /\ request.at = "read"
  /\ request' = [request EXCEPT !.at = "read it",
                   !.saw = IF request.fp = 0 THEN << >> ELSE node[request.fp],
                   !.granted = request.fp = 0 \/ Valid(request.nonce)]
  /\ UNCHANGED <<Files, run, now, issued>>

Reply ==
  /\ request.at = "read it" /\ request' = NoRequest
  /\ UNCHANGED <<Files, run, now, issued>>

Tick ==
  /\ now < MaxTime /\ now' = now + 1
  /\ UNCHANGED <<Files, request, run, issued>>

\* Another start, perhaps in the same second; its mask is a new random number.
Restart ==
  /\ request.at = "no" /\ run.mask < 2
  /\ run' = [start |-> now, mask |-> run.mask + 1, count |-> 0]
  /\ UNCHANGED <<Files, request, now, issued>>

Modify(c) ==
  Begin(c) \/ Create(c) \/ OpenFile(c) \/ OpenTemporary(c) \/ Copy(c) \/ Close(c) \/ RemoveFile(c) \/ Rename(c)

Next == (\E c \in Callers : Modify(c)) \/ Crash \/ Challenge \/ Open \/ Read \/ Reply \/ Tick \/ Restart
-----------------------------------------------------------------------------
Calling == \E c \in Callers : ~At(c, "no")
Before == versions[Len(versions) - 1]

\* The file has the records of a version, and none of them twice.
Holds(n, version) == Records(node[n]) = version /\ Len(Lines(node[n])) = Cardinality(version)

\* As long as calls do not overlap, the file has every record as the calls have left it,
\* and while one goes on the old ones or the new ones, or there is no file.  (A call of which
\* a full disk has cut the copy has left what was written of it, and nobody is told.)
PasswordsAreKept ==
  ~overlap /\ ~died =>
    /\ ~Calling => versions = <<{}>> \/ (disk.file # 0 /\ Holds(disk.file, Last(versions)))
    /\ Calling => IF disk.file = 0 THEN Before = {} \/ Holds(disk.tmp, Last(versions))
                  ELSE Holds(disk.file, Before) \/ Holds(disk.file, Last(versions))

\* A call that is cut off by the end of the process has left all records in one of the
\* two files: the old ones or the new ones, as far as they could be written.
RecordsSurvive ==
  ~overlap /\ died =>
    \/ Before = {}
    \/ IF disk.file # 0 THEN Holds(disk.file, Before) \/ Holds(disk.file, Last(versions))
       ELSE Holds(disk.tmp, Last(versions))

\* A request reads one version of the file, whole, whatever is written meanwhile.
RequestsReadOneVersion ==
  request.at = "read it" /\ ~overlap /\ ~died /\ request.fp # 0 =>
    Records(request.saw) \in Range(versions) \cup {{}}

\* Where there is a file, a nonce counts only if this run has given it to the client.
NoncesAreOfThisRun ==
  request.at = "read it" /\ request.granted /\ request.fp # 0 =>
    request.of.run = run.mask /\ [run |-> run.mask, nonce |-> request.nonce] \in issued
=============================================================================
