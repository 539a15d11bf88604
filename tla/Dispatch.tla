------------------------------ MODULE Dispatch ------------------------------
(***************************************************************************)
(* What CivetWeb promises of the connections it accepts, with no word of   *)
(* its queue, condition variables or threads: every accepted connection is *)
(* served once, by one worker, in the order of acceptance; none is dropped *)
(* before somebody asks the server to stop; and when the server is over    *)
(* nothing is in progress.  Server implements it.                          *)
(***************************************************************************)
EXTENDS Naturals, FiniteSets

CONSTANTS Connections, \* a set of natural numbers: the order of acceptance
          Capacity,    \* accepted connections that may wait for a worker
          Servers      \* connections that may be in service at a time

VARIABLES phase, \* "open", "closing" or "over"
          state  \* of each connection

absVars == <<phase, state>>

In(s) == {c \in Connections : state[c] = s}

Init == phase = "open" /\ state = [c \in Connections |-> "absent"]

Move(c, from, to) == state[c] = from /\ state' = [state EXCEPT ![c] = to]

Accept(c) == /\ phase # "over"
             /\ Cardinality(In("pending")) < Capacity
             /\ \A d \in Connections : d < c => state[d] # "absent"
             /\ Move(c, "absent", "pending") /\ UNCHANGED phase

Refuse(c) == /\ phase = "open"
             /\ Move(c, "absent", "refused") /\ UNCHANGED phase

Take(c) == /\ phase # "over"
           /\ Cardinality(In("busy")) < Servers
           /\ \A d \in In("pending") : d >= c
           /\ Move(c, "pending", "busy") /\ UNCHANGED phase

Finish(c) == Move(c, "busy", "served") /\ UNCHANGED phase

Drop(c) == /\ phase = "closing"
           /\ \/ Move(c, "pending", "dropped")
              \/ Move(c, "busy", "dropped")
           /\ UNCHANGED phase

Close == phase = "open" /\ phase' = "closing" /\ UNCHANGED state

\* Connections that still wait when the server is over are dropped with it.
End == /\ phase = "closing" /\ In("busy") = {}
       /\ phase' = "over"
       /\ state' = [c \in Connections |->
                      IF state[c] = "pending" THEN "dropped" ELSE state[c]]

Next == \/ Close \/ End
        \/ \E c \in Connections : \/ Accept(c) \/ Refuse(c) \/ Take(c)
                                  \/ Finish(c) \/ Drop(c)

Spec == Init /\ [][Next]_absVars
=============================================================================
