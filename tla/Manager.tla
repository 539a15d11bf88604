------------------------------- MODULE Manager -------------------------------
(***************************************************************************)
(* The trade manager (Hermes/Trade/Manager.java): one thread that takes    *)
(* entries from the head of the queue, looks for the best match among the  *)
(* others, and settles the trade or puts the entry back at the tail.       *)
(*                                                                         *)
(*   check -> take -> inspect -> scan -> decide -> mark1 -> mark2          *)
(*     ^                 |                  |                  |           *)
(*     +-----------------+------- put <-----+                remove        *)
(*     +----------------------------------------------------------         *)
(*                                                                         *)
(* Each step is one access to the queue or to an entry that the countries  *)
(* use too; everything between two accesses belongs to the step before.    *)
(***************************************************************************)
EXTENDS TradeQueue

CONSTANT IdleLimit   \* empty polls after which the manager gives up (100)

ASSUME ManagerAssumption == IdleLimit \in Nat \ {0}

VARIABLES
    mpc,        \* where the manager's thread is
    current,    \* the entry it took from the queue
    best,       \* bestOffer
    idle,       \* count_m
    shutdown    \* shutdown_m

managerVars == <<mpc, current, best, idle, shutdown>>

ManagerTypeOK ==
    /\ mpc \in {"off", "check", "take", "inspect", "scan", "decide",
                "put", "mark1", "mark2", "remove", "done"}
    /\ current \in Entry \cup {None}
    /\ best \in Entry \cup {None}
    /\ idle \in 0..IdleLimit
    /\ shutdown \in BOOLEAN

ManagerInit ==
    /\ mpc = "off"
    /\ current = None
    /\ best = None
    /\ idle = 0
    /\ shutdown = FALSE

Goto(label) == mpc' = label

-----------------------------------------------------------------------------
\* The loop condition.
Stop ==
    /\ mpc = "check" /\ shutdown
    /\ Goto("done")
    /\ UNCHANGED <<current, best, idle, shutdown, queueVars>>

\* Mutated: the count is never compared with the limit.
IdleForever ==
    /\ mpc = "check" /\ ~shutdown
    /\ queue = <<>>
    /\ idle' = idle + 1
    /\ Goto("check")
    /\ UNCHANGED <<current, best, shutdown, queueVars>>

\* The queue is empty: sleep, count, and give up after IdleLimit times.
Idle ==
    /\ mpc = "check" /\ ~shutdown
    /\ queue = <<>>
    /\ idle' = idle + 1
    /\ Goto(IF idle + 1 = IdleLimit THEN "done" ELSE "check")
    /\ UNCHANGED <<current, best, shutdown, queueVars>>

\* The queue is not empty: reset the count and go for its head.
Proceed ==
    /\ mpc = "check" /\ ~shutdown
    /\ queue # <<>>
    /\ idle' = 0
    /\ Goto("take")
    /\ UNCHANGED <<current, best, shutdown, queueVars>>

\* Mutated: the head is looked at and not taken.
TakeByPeeking ==
    /\ mpc = "take"
    /\ queue # <<>>
    /\ current' = Head(queue)
    /\ queue' = queue
    /\ Goto("inspect")
    /\ UNCHANGED <<scan, deal, success, best, idle, shutdown>>

\* take() blocks while the queue is empty, whatever isEmpty() said before.
Take ==
    /\ mpc = "take"
    /\ queue # <<>>
    /\ current' = Head(queue)
    /\ queue' = Tail(queue)
    /\ Goto("inspect")
    /\ UNCHANGED <<scan, deal, success, best, idle, shutdown>>

\* An entry that was handled before is dropped; a surplus goes back to the
\* tail, to wait until somebody's need finds it; for a need, the iterator is
\* created and the search starts.
Inspect ==
    /\ mpc = "inspect"
    /\ IF current \in success
       THEN Goto("check") /\ current' = None /\ UNCHANGED scan
       ELSE IF current.surplus
       THEN Goto("put") /\ UNCHANGED <<current, scan>>
       ELSE Goto("scan") /\ scan' = queue /\ UNCHANGED current
    /\ UNCHANGED <<queue, deal, success, best, idle, shutdown>>

-----------------------------------------------------------------------------
(* One turn of the for loop, for e = Head(scan).                           *)

\* e is another country's and wants what current offers for what it needs.
Matches(e) ==
    /\ e.owner # current.owner
    /\ e.offer = current.need
    /\ e.need = current.offer

Suffices(e) == e.offered >= current.needed

\* "This is perfect case scenario": e has enough and asks no more than is offered.
Perfect(e) == Matches(e) /\ Suffices(e) /\ e.needed <= current.offered

\* Mutated: whether the two want each other's goods is not asked.
BetterUnmatched(e) == Suffices(e) \/ best = None \/ e.offered > best.offered

\* An offer that suffices always replaces the best one, another one only a
\* smaller one: the sufficient offer seen before may be lost.
Better(e) ==
    /\ Matches(e)
    /\ Suffices(e) \/ best = None \/ e.offered > best.offered

ScanPerfect ==
    /\ mpc = "scan" /\ scan # <<>>
    /\ Perfect(Head(scan))
    /\ best' = Head(scan)
    /\ Match(current, Head(scan).offered, current.offered, Head(scan))
    /\ scan' = <<>>
    /\ Goto("mark1")
    /\ UNCHANGED <<queue, success, current, idle, shutdown>>

ScanNext ==
    /\ mpc = "scan" /\ scan # <<>>
    /\ ~Perfect(Head(scan))
    /\ best' = IF Better(Head(scan)) THEN Head(scan) ELSE best
    /\ scan' = Tail(scan)
    /\ UNCHANGED <<queue, deal, success, mpc, current, idle, shutdown>>

ScanEnd ==
    /\ mpc = "scan" /\ scan = <<>>
    /\ Goto("decide")
    /\ UNCHANGED <<current, best, idle, shutdown, queueVars>>

-----------------------------------------------------------------------------
(* After a scan without a perfect match.                                   *)

\* Mutated: the comparison is the other way round.
UndercutsReversed == best.needed > current.offered

\* "We just take what the country is offering and give what it needs".
Undercuts == best.needed < current.offered

\* Otherwise current pays all it offered and receives its worth at the
\* other's price.  The code computes floor(offer * (offered / needed)) in
\* doubles: where that is a whole number but the ratio has no finite binary
\* form, the product may come out just below it.  (Ten binary places tell
\* the finite ratios for amounts below 1024.)
Inexact == \A i \in 0..9 : (best.offered * 2^i) % best.needed # 0

Worth ==
    LET n == current.offered * best.offered
    IN  {n \div best.needed} \cup
        (IF n % best.needed = 0 /\ n > 0 /\ Inexact
         THEN {n \div best.needed - 1} ELSE {})

\* Mutated: the entry is not put back.
NoMatchDropped ==
    /\ mpc = "decide" /\ best = None
    /\ Goto("check")
    /\ current' = None
    /\ UNCHANGED <<best, idle, shutdown, queueVars>>

NoMatch ==
    /\ mpc = "decide" /\ best = None
    /\ Goto("put")
    /\ UNCHANGED <<current, best, idle, shutdown, queueVars>>

SettleUndercut ==
    /\ mpc = "decide" /\ best # None
    /\ Undercuts
    /\ Match(current, best.offered, best.needed, best)
    /\ Goto("mark1")
    /\ UNCHANGED <<queue, scan, success, current, best, idle, shutdown>>

SettlePriced ==
    /\ mpc = "decide" /\ best # None
    /\ ~Undercuts
    /\ \E final \in Worth :
          /\ final >= 1
          /\ Match(current, final, current.offered, best)
    /\ Goto("mark1")
    /\ UNCHANGED <<queue, scan, success, current, best, idle, shutdown>>

TooLittle ==
    /\ mpc = "decide" /\ best # None
    /\ ~Undercuts
    /\ \E final \in Worth : final < 1
    /\ best' = None
    /\ Goto("put")
    /\ UNCHANGED <<current, idle, shutdown, queueVars>>

-----------------------------------------------------------------------------
MarkCurrent ==
    /\ mpc = "mark1"
    /\ success' = success \cup {current}
    /\ Goto("mark2")
    /\ UNCHANGED <<queue, scan, deal, current, best, idle, shutdown>>

\* Mutated: the two entries are not removed.
MarkBestAndGo ==
    /\ mpc = "mark2"
    /\ success' = success \cup {best}
    /\ current' = None /\ best' = None
    /\ Goto("check")
    /\ UNCHANGED <<queue, scan, deal, idle, shutdown>>

MarkBest ==
    /\ mpc = "mark2"
    /\ success' = success \cup {best}
    /\ Goto("remove")
    /\ UNCHANGED <<queue, scan, deal, current, best, idle, shutdown>>

\* Mutated: only current, which is not there, is removed.
RemoveCurrent ==
    /\ mpc = "remove"
    /\ queue' = RemoveFirst(queue, current)
    /\ current' = None /\ best' = None
    /\ Goto("check")
    /\ UNCHANGED <<scan, deal, success, idle, shutdown>>

\* remove(current) finds nothing, it was taken; remove(best).
RemoveBoth ==
    /\ mpc = "remove"
    /\ queue' = RemoveFirst(RemoveFirst(queue, current), best)
    /\ current' = None /\ best' = None
    /\ Goto("check")
    /\ UNCHANGED <<scan, deal, success, idle, shutdown>>

\* put() blocks while the queue is full.
PutBack ==
    /\ mpc = "put"
    /\ HasRoom
    /\ Append1(current)
    /\ current' = None
    /\ Goto("check")
    /\ UNCHANGED <<deal, success, best, idle, shutdown>>

ManagerNext ==
    \/ Stop \/ Idle \/ Proceed \/ Take \/ Inspect
    \/ ScanPerfect \/ ScanNext \/ ScanEnd
    \/ NoMatch \/ SettleUndercut \/ SettlePriced \/ TooLittle
    \/ MarkCurrent \/ MarkBest \/ RemoveBoth \/ PutBack
=============================================================================
