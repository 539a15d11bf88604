------------------------------ MODULE Handlers ------------------------------
(***************************************************************************)
(* The registry of request and authorization handlers of a CivetWeb        *)
(* context, and the control flow of handle_request around them: the        *)
(* application sets and removes handlers (mg_set_handler_type) while the   *)
(* workers look them up, call them and release them.                       *)
(*                                                                         *)
(* A region between mg_lock_context and mg_unlock_context is one step.  An *)
(* entry of the registry is a cell of memory: a removed entry may be       *)
(* allocated again, and a worker that still holds a pointer to it then     *)
(* meets the new one.                                                      *)
(***************************************************************************)
EXTENDS Naturals, Sequences, FiniteSets

CONSTANTS
  HandlerUris,      \* URIs that handlers are registered for
  RequestUris,      \* URIs of requests
  Requests,         \* the workers that handle them
  Setters,          \* the threads of the application
  Cells,            \* memory for entries, as natural numbers above zero
  Calls,            \* the calls the application makes: [type, uri, delete]
  MaxSets,          \* calls of mg_set_..._handler: a bound of the model
  MaxStray,         \* second releases: a bound of the model
  MaxLost,          \* references to an entry that are lost: a bound of the model
  UIntMax,          \* the largest unsigned int
  Matches(_, _, _)  \* whether, at a step of the search, a handler's URI
                    \* matches that of a request

VARIABLES
  list,    \* dd.handlers: the cells in the order of the list
  info,    \* struct mg_handler_info of each cell
  req,     \* each worker: its place in handle_request and its locals
  setter,  \* each thread of the application: its call
  sets,    \* calls so far; the version of what they register
  stray    \* references that were given back a second time

vars == <<list, info, req, setter, sets, stray>>

REQUEST == "request"
AUTH == "auth"
Types == {REQUEST, AUTH}

\* lost is history: how many of the references nobody is left to give back.
NoInfo == [type |-> REQUEST, uri |-> CHOOSE u \in HandlerUris : TRUE, ver |-> 0,
           refcount |-> 0, removing |-> FALSE, lost |-> 0]

\* held is history: it says whether the worker's reference is still counted.
Idle == [pc |-> "idle", uri |-> CHOOSE u \in RequestUris : TRUE,
         callback |-> FALSE, entry |-> 0, ver |-> 0, held |-> FALSE]

Registered == {list[i] : i \in DOMAIN list}

Init == /\ list = << >> /\ info = [e \in Cells |-> NoInfo]
        /\ req = [r \in Requests |-> Idle]
        /\ setter = [s \in Setters |-> [pc |-> "idle"]]
        /\ sets = 0 /\ stray = 0
-----------------------------------------------------------------------------
(* mg_set_handler_type *)

Call(s) ==
  /\ setter[s].pc = "idle" /\ sets < MaxSets
  /\ sets' = sets + 1
  /\ \E c \in Calls :
       setter' = [setter EXCEPT ![s] =
                    [pc |-> "search", type |-> c.type, uri |-> c.uri,
                     delete |-> c.delete, ver |-> sets + 1]]
  /\ UNCHANGED <<list, info, req, stray>>

\* Mutated: entries that are being removed are not looked at.
ExistingUsable(c) ==
  {e \in Registered : /\ info[e].type = c.type /\ info[e].uri = c.uri
                      /\ ~info[e].removing}

Existing(c) ==
  {e \in Registered : info[e].type = c.type /\ info[e].uri = c.uri}

Done(s) == setter' = [setter EXCEPT ![s] = [pc |-> "idle"]]

\* Mutated: a call that changes an entry does not look at its count.
WaitToRemove(c, e) == c.delete /\ c.type = REQUEST /\ info[e].refcount # 0

\* Only request handlers are counted: an authorization handler is changed at
\* once.
MustWait(c, e) == c.type = REQUEST /\ info[e].refcount # 0

\* A pass that finds the entry in use: it unlocks, sleeps and searches again;
\* a remover leaves its mark.
WaitForUse(s) ==
  \E e \in Existing(setter[s]) :
    /\ MustWait(setter[s], e) /\ setter[s].delete /\ ~info[e].removing
    /\ info' = [info EXCEPT ![e].removing = TRUE]
    /\ UNCHANGED <<list, setter>>

Update(s) ==
  \E e \in Existing(setter[s]) :
    /\ ~MustWait(setter[s], e) /\ ~setter[s].delete
    /\ info' = [info EXCEPT ![e].ver = setter[s].ver]
    /\ Done(s) /\ UNCHANGED list

\* The list without its i-th entry.
Unlinked(i) == [k \in 1 .. Len(list) - 1 |-> list[IF k < i THEN k ELSE k + 1]]

Remove(s) ==
  \E i \in DOMAIN list :
    /\ list[i] \in Existing(setter[s])
    /\ ~MustWait(setter[s], list[i]) /\ setter[s].delete
    /\ list' = Unlinked(i)
    /\ info' = [info EXCEPT ![list[i]] = NoInfo]
    /\ Done(s)

\* Nothing found: nothing to remove, or a new entry at the end of the list.
Append1(s) ==
  /\ Existing(setter[s]) = {}
  /\ IF setter[s].delete
     THEN UNCHANGED <<list, info>>
     ELSE \E e \in Cells \ Registered :
            /\ info' = [info EXCEPT ![e] = [type |-> setter[s].type,
                          uri |-> setter[s].uri, ver |-> setter[s].ver,
                          refcount |-> 0, removing |-> FALSE, lost |-> 0]]
            /\ list' = Append(list, e)
  /\ Done(s)

SetHandler(s) ==
  /\ setter[s].pc = "search"
  /\ WaitForUse(s) \/ Update(s) \/ Remove(s) \/ Append1(s)
  /\ UNCHANGED <<req, sets, stray>>
-----------------------------------------------------------------------------
(* get_request_handler: an exact match, then a partial one, then a pattern; at *)
(* each step the first entry of the list.                                      *)

Candidates(type, uri, step) ==
  {i \in DOMAIN list : /\ info[list[i]].type = type
                       /\ Matches(step, info[list[i]].uri, uri)}

Find(type, uri) ==
  LET steps == {k \in 0 .. 2 : Candidates(type, uri, k) # {}}
  IN IF steps = {} THEN 0
     ELSE LET k == CHOOSE k \in steps : \A m \in steps : k <= m
              is == Candidates(type, uri, k)
          IN list[CHOOSE i \in is : \A j \in is : i <= j]

\* An entry that is being removed is treated as if nothing was found.
Usable(e) == e # 0 /\ ~info[e].removing

Acquire(r, e) == info' = [info EXCEPT ![e].refcount = (@ + 1) % (UIntMax + 1)]

GetRequestHandler(r) ==
  /\ req[r].pc = "idle"
  /\ \E u \in RequestUris :
       LET e == Find(REQUEST, u)
       IN IF Usable(e)
          THEN /\ Acquire(r, e)
               /\ req' = [req EXCEPT ![r] = [Idle EXCEPT
                     !.pc = "auth", !.uri = u, !.callback = TRUE, !.entry = e,
                     !.ver = info[e].ver, !.held = TRUE]]
          ELSE /\ UNCHANGED info
               /\ req' = [req EXCEPT ![r] = [Idle EXCEPT
                     !.pc = "interpret", !.uri = u]]
  /\ UNCHANGED <<list, setter, sets, stray>>

Go(r, pc) == req' = [req EXCEPT ![r].pc = pc]
End(r) == req' = [req EXCEPT ![r] = Idle]

\* no_callback_resource: the URI is that of a file; handler_info keeps its value.
InterpretUri(r) ==
  /\ req[r].pc = "interpret"
  /\ req' = [req EXCEPT ![r].pc = "auth", ![r].callback = FALSE]
  /\ UNCHANGED <<list, info, setter, sets, stray>>

\* Mutated: it is the entry that decides, not whether the URI is a callback's.
GrantedByEntry(r) == Go(r, IF req[r].entry # 0 THEN "callback" ELSE "file")

Granted(r) == Go(r, IF req[r].callback THEN "callback" ELSE "file")

\* 6.: an authorization handler, else the permission to put, else that of the
\* path.  A refused put or delete of a file returns without a release.
CheckAuthorization(r) ==
  /\ req[r].pc = "auth"
  /\ IF Find(AUTH, req[r].uri) # 0 THEN Go(r, "authcall")
     ELSE \/ Granted(r)
          \/ Go(r, "refused")
          \/ ~req[r].callback /\ End(r)
  /\ UNCHANGED <<list, info, setter, sets, stray>>

\* The authorization handler runs without the lock.
AuthHandler(r) == /\ req[r].pc = "authcall"
                  /\ Granted(r) \/ Go(r, "refused")
                  /\ UNCHANGED <<list, info, setter, sets, stray>>

\* HTTP1_only: a request by HTTP/2 is sent away without a release.
MustUseHttp1(r) == /\ info[req[r].entry].lost < MaxLost
                   /\ info' = [info EXCEPT ![req[r].entry].lost = @ + 1]
                   /\ End(r)

CallbackHandler(r) == /\ req[r].pc = "callback"
                      /\ \/ Go(r, "release") /\ UNCHANGED info
                         \/ MustUseHttp1(r)
                      /\ UNCHANGED <<list, setter, sets, stray>>

\* release_handler_ref: refcount is unsigned, and handler_info may be NULL.
ReleaseHandlerRef(r) ==
  IF req[r].entry = 0 THEN UNCHANGED <<info, stray>>
  ELSE /\ info' = [info EXCEPT ![req[r].entry].refcount =
                     (@ + UIntMax) % (UIntMax + 1)]
       /\ stray' = IF req[r].held THEN stray ELSE stray + 1
       /\ stray' <= MaxStray

\* After the callback: its request ends, or it has declined it, and the request
\* is looked up as a file.
Release(r) ==
  /\ req[r].pc = "release"
  /\ ReleaseHandlerRef(r)
  /\ \/ End(r)
     \/ req' = [req EXCEPT ![r].pc = "interpret", ![r].held = FALSE,
                                ![r].ver = 0]
  /\ UNCHANGED <<list, setter, sets>>

\* After a refusal: also that of the file of a request the callback declined.
Refuse(r) == /\ req[r].pc = "refused"
             /\ ReleaseHandlerRef(r) /\ End(r)
             /\ UNCHANGED <<list, setter, sets>>

ServeFile(r) == /\ req[r].pc = "file" /\ End(r)
                /\ UNCHANGED <<list, info, setter, sets, stray>>
-----------------------------------------------------------------------------
HandleRequest(r) ==
  \/ InterpretUri(r) \/ CheckAuthorization(r) \/ AuthHandler(r)
  \/ CallbackHandler(r) \/ Release(r) \/ Refuse(r) \/ ServeFile(r)

Next == \/ \E s \in Setters : Call(s) \/ SetHandler(s)
        \/ \E r \in Requests : GetRequestHandler(r) \/ HandleRequest(r)

\* A request that has begun ends, and a call of the application searches again;
\* nobody has to send requests or to set handlers.
Spec == /\ Init /\ [][Next]_vars
        /\ \A r \in Requests : WF_vars(HandleRequest(r))
        /\ \A s \in Setters : WF_vars(SetHandler(s))
-----------------------------------------------------------------------------
ReqPlaces == {"idle", "interpret", "auth", "authcall", "callback", "release",
              "refused", "file"}

\* There are fewer worker threads, and lost references, than an unsigned int counts.
HandlersAssumption ==
  /\ HandlerUris # {} /\ Cells \subseteq Nat \ {0}
  /\ {UIntMax, MaxSets, MaxStray, MaxLost} \subseteq Nat
  /\ Calls \subseteq [type : Types, uri : HandlerUris, delete : BOOLEAN]
  /\ IsFiniteSet(Requests) /\ Cardinality(Requests) + MaxLost <= UIntMax

TypeOK ==
  /\ Registered \subseteq Cells /\ sets \in 0 .. MaxSets /\ stray \in 0 .. MaxStray
  /\ \A e \in Cells : /\ info[e].type \in Types /\ info[e].uri \in HandlerUris
                      /\ info[e].ver \in 0 .. MaxSets
                      /\ info[e].refcount \in 0 .. UIntMax /\ info[e].lost \in 0 .. MaxLost
  /\ \A r \in Requests : /\ req[r].pc \in ReqPlaces
                         /\ req[r].entry \in Cells \cup {0}
                         /\ req[r].callback => req[r].entry # 0
                         /\ req[r].pc = "callback" => req[r].callback

(***************************************************************************)
(* No two entries of the list are for the same type and URI, although      *)
(* several threads set and remove handlers and wait outside the lock: a    *)
(* call that has waited searches again.                                    *)
(***************************************************************************)
OneEntryEach ==
  /\ \A i, j \in DOMAIN list : list[i] = list[j] => i = j
  /\ \A d, e \in Registered :
       info[d].type = info[e].type /\ info[d].uri = info[e].uri => d = e

(***************************************************************************)
(* "This function waits until a removing/updating handler becomes unused"  *)
(* (include/civetweb.h:498): the entry whose callback a request is about   *)
(* to call, or is calling, is still registered and is the one it found.    *)
(* Violated: see UnusedUnlessStray.                                        *)
(***************************************************************************)
WaitsUntilUnused ==
  \A r \in Requests :
    req[r].held => /\ req[r].entry \in Registered
                   /\ info[req[r].entry].ver = req[r].ver

(***************************************************************************)
(* The same, as long as no request that its callback had declined was then *)
(* refused as a file: that one gives its reference back again, in place of *)
(* a request which still uses the handler.                                 *)
(***************************************************************************)
UnusedUnlessStray == stray = 0 => WaitsUntilUnused

\* What mg_set_handler_type and the requests keep true of the list together.
HandlersStay == OneEntryEach /\ UnusedUnlessStray

(***************************************************************************)
(* A call that removes a handler ends, however many requests use it and    *)
(* keep coming: they find nothing once it is marked.  (An update leaves no *)
(* mark and may starve.)  Not so if one of them came by HTTP/2: its        *)
(* reference to that handler is lost, and the call waits for ever.  Nor    *)
(* after a stray release: the count may then pass below zero.              *)
(***************************************************************************)
Removing(s) == setter[s].pc = "search" /\ setter[s].delete
Removed(s) == \/ setter[s].pc = "idle" \/ stray # 0
              \/ \E e \in Existing(setter[s]) : info[e].lost > 0
RemovalEnds == \A s \in Setters : Removing(s) ~> Removed(s)
=============================================================================
