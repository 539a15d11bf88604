----------------------------- MODULE TradeQueue ------------------------------
(***************************************************************************)
(* What the countries and the trade manager share: the entries             *)
(* (Hermes/Trade/Entry.java) and the one ArrayBlockingQueue they are kept  *)
(* in.                                                                     *)
(*                                                                         *)
(* An entry is an object.  Its owner, offer and need never change, so they *)
(* are a record, told apart from the owner's other entries by the number   *)
(* of the batch it was created in and by what it offers.  What does change *)
(* is kept outside: "deal" holds given_amount and taken_amount of the      *)
(* entries that have them, "success" those whose success_m is set.         *)
(* (no_match_m is never set: nothing calls SetNoMatchToTrue.)              *)
(*                                                                         *)
(* The queue is java.util.concurrent's, modelled from how it is used here: *)
(* each operation is atomic; the iterator of a for loop is weakly          *)
(* consistent.                                                             *)
(***************************************************************************)
EXTENDS Planner, SequencesExt

CONSTANTS
    Countries,   \* the countries that share the queue
    Capacity,    \* capacity of the queue (100 in AlienInvasion)
    None         \* no entry: null

VARIABLES
    queue,       \* queue_m: a sequence of entries
    scan,        \* what the manager's iterator will return, in order
    deal,        \* the amounts of the entries that have been matched
    success      \* the entries whose success_m is true

queueVars == <<queue, scan, deal, success>>

Entry == [owner : Countries, batch : Nat, surplus : BOOLEAN,
          offer : Tradable, offered : Nat, need : Asked, needed : Nat \ {0}]

ASSUME TradeQueueAssumption ==
    /\ Capacity \in Nat \ {0}
    /\ None \notin Entry

\* given and taken are the fields of the code; partner is the entry on the
\* other side of the trade, which the code does not keep.
Deal == [given : Nat, taken : Nat, partner : Entry]

TradeQueueTypeOK ==
    /\ queue \in Seq(Entry) /\ Len(queue) <= Capacity
    /\ scan \in Seq(Entry)
    /\ DOMAIN deal \subseteq Entry /\ deal \in [DOMAIN deal -> Deal]
    /\ success \subseteq Entry

TradeQueueInit ==
    /\ queue = <<>>
    /\ scan = <<>>
    /\ deal = <<>>
    /\ success = {}

-----------------------------------------------------------------------------
(* Operations of the queue.  The iterator has already fetched the entry it *)
(* returns next, scan[1], which therefore survives a removal; when that    *)
(* entry was the last of the queue the iterator has ended and does not see *)
(* what is added later.                                                    *)

Append1(e) ==
    /\ queue' = Append(queue, e)
    /\ scan'  = IF Len(scan) > 1 THEN Append(scan, e) ELSE scan

\* add throws IllegalStateException on a full queue, put waits for room.
HasRoom == Len(queue) < Capacity

\* remove(e): the first occurrence, if there is one.
Remove1(e) ==
    /\ queue' = RemoveFirst(queue, e)
    /\ scan'  = IF scan = <<>> THEN scan
                ELSE <<Head(scan)>> \o RemoveFirst(Tail(scan), e)

Clear ==
    /\ queue' = <<>>
    /\ scan'  = IF scan = <<>> THEN scan ELSE <<Head(scan)>>

-----------------------------------------------------------------------------
(* Entry.GetGiven and GetTaken: -1 when the amount was never set.          *)

Given(e) == IF e \in DOMAIN deal THEN deal[e].given ELSE -1
Taken(e) == IF e \in DOMAIN deal THEN deal[e].taken ELSE -1

\* SetGiven and SetTaken of two entries that trade with each other: e gets
\* "given" and pays "taken".  An amount that is already set stays.
Match(e, given, taken, f) ==
    LET new(x) == IF x = e THEN [given |-> given, taken |-> taken, partner |-> f]
                           ELSE [given |-> taken, taken |-> given, partner |-> e]
    IN  deal' = [x \in DOMAIN deal \cup {e, f} |->
                    IF x \in DOMAIN deal THEN deal[x] ELSE new(x)]
=============================================================================
