------------------------------- MODULE Hermes --------------------------------
(***************************************************************************)
(* The whole trading system: the countries, the manager and the thread     *)
(* that drives them (AlienInvasion.BeginInvasion and Run_Sequence).  The   *)
(* driver starts the manager; in every round it clears the queue, runs all *)
(* countries, waits for their threads and attacks one of them; at the end  *)
(* it shuts the manager down and waits for its thread.                     *)
(*                                                                         *)
(*   start -> clear -> spawn -> signal -> join -> attack -> shutdown       *)
(*              ^                                   |          -> close    *)
(*              +-----------------------------------+          -> over     *)
(*                                                                         *)
(* What an attack does is abstracted to what this level can tell apart: by *)
(* how much it reduces the country attacked and whether it ends the        *)
(* invasion.                                                               *)
(***************************************************************************)
EXTENDS Manager, Country

CONSTANTS
    Damages,   \* the percentages an attack may take
    Rounds     \* bound: the invasion ends with this attack at the latest

\* countries_m is a list: the countries that main adds to it one by one.
ASSUME HermesAssumption ==
    /\ Countries # {} /\ IsFiniteSet(Countries)
    /\ Damages \subseteq 0..100
    /\ Rounds \in Nat \ {0}

VARIABLES
    main,     \* where the driver's thread is
    alive,    \* countries_m
    next,     \* the country to attack
    round     \* count

mainVars == <<main, alive, next, round>>

vars == <<queueVars, managerVars, countryVars, mainVars>>

HermesTypeOK ==
    /\ main \in {"start", "clear", "spawn", "signal", "join", "attack",
                 "shutdown", "close", "over"}
    /\ alive \subseteq Countries
    /\ next \in Countries
    /\ round \in 0..Rounds

Init ==
    /\ TradeQueueInit /\ ManagerInit /\ CountryInit
    /\ main = "start"
    /\ alive = Countries
    /\ next \in Countries
    /\ round = 0

To(label) == main' = label

-----------------------------------------------------------------------------
StartManager ==
    /\ main = "start" /\ To("clear")
    /\ mpc' = "check"
    /\ UNCHANGED <<queueVars, current, best, idle, shutdown, countryVars,
                   alive, next, round>>

\* "Sanitize the queue_m".
ClearQueue ==
    /\ main = "clear" /\ To("spawn")
    /\ Clear
    /\ round' = round + 1
    /\ UNCHANGED <<deal, success, managerVars, countryVars, alive, next>>

\* A new thread for every country still in the list.
Spawn ==
    /\ main = "spawn" /\ To("signal")
    /\ pc' = [c \in Countries |-> IF c \in alive THEN "waiting" ELSE pc[c]]
    /\ UNCHANGED <<queueVars, managerVars, begin, res, left, nodes, batch, trades,
                   todo, timer, passed, applied, abandoned, alive, next, round>>

Signal ==
    /\ main = "signal" /\ To("join")
    /\ begin' = TRUE
    /\ UNCHANGED <<queueVars, managerVars, pc, res, left, nodes, batch, trades, todo,
                   timer, passed, applied, abandoned, alive, next, round>>

\* The driver first polls the queue for up to 30 times 100 ms, which changes
\* nothing, then joins the threads.
Join ==
    /\ main = "join" /\ To("attack")
    /\ \A c \in alive : Ended(c)
    /\ begin' = FALSE
    /\ UNCHANGED <<queueVars, managerVars, pc, res, left, nodes, batch, trades, todo,
                   timer, passed, applied, abandoned, alive, next, round>>

\* ExecuteAttack on next.
Losses(r) == AttackLosses(r, Damages)

\* Then BeginInvasion goes on: the aliens are beaten, or the country has
\* nobody left and another one is chosen, or the same one is attacked again.
Attack ==
    /\ main = "attack"
    /\ \E r \in Losses(res[next]) : res' = [res EXCEPT ![next] = r]
    /\ \/ /\ To("shutdown")                                      \* aliens beaten
          /\ UNCHANGED <<alive, next>>
       \/ /\ res'[next].population >= 1
          /\ round < Rounds /\ To("clear")
          /\ UNCHANGED <<alive, next>>
       \/ /\ res'[next].population < 1
          /\ alive' = alive \ {next}
          /\ \/ /\ \E c \in alive' : /\ res'[c].population > 0
                                     /\ next' = c
                /\ round < Rounds /\ To("clear")
             \/ /\ \A c \in alive' : res'[c].population <= 0
                /\ To("shutdown") /\ UNCHANGED next
    /\ UNCHANGED <<queueVars, managerVars, begin, pc, left, nodes, batch, trades,
                   todo, timer, passed, applied, abandoned, round>>

Shutdown ==
    /\ main = "shutdown" /\ To("close")
    /\ shutdown' = TRUE
    /\ UNCHANGED <<queueVars, mpc, current, best, idle, countryVars, alive, next, round>>

JoinManager ==
    /\ main = "close" /\ To("over")
    /\ mpc = "done"
    /\ UNCHANGED <<queueVars, managerVars, countryVars, alive, next, round>>

MainNext ==
    \/ StartManager \/ ClearQueue \/ Spawn \/ Signal \/ Join
    \/ Attack \/ Shutdown \/ JoinManager

ManagerStep == ManagerNext /\ UNCHANGED <<countryVars, mainVars>>

CountryStep(c) == CountryNext(c) /\ UNCHANGED <<managerVars, mainVars>>

Next == MainNext \/ ManagerStep \/ \E c \in Countries : CountryStep(c)

Spec == Init /\ [][Next]_vars

\* Every thread that can go on does: the JVM schedules all threads, sleeps end,
\* and the blocking calls of the queue return once their condition holds
\* (the manager is the only thread that blocks on the queue).
Fairness ==
    /\ WF_vars(MainNext)
    /\ WF_vars(ManagerStep)
    /\ \A c \in Countries : WF_vars(CountryStep(c))

FairSpec == Spec /\ Fairness

-----------------------------------------------------------------------------
(* The types of all variables: among them that entries are for positive    *)
(* needs of resources a country can take in, that the queue never exceeds  *)
(* its capacity, and that the counters stay within their limits.           *)
TypeOK ==
    /\ TradeQueueTypeOK /\ ManagerTypeOK /\ CountryTypeOK /\ HermesTypeOK

(* "make sure this one hasn't been handled, which shouldn't happen"        *)
(* (Manager.java:80): the manager never takes an entry from the queue that *)
(* already has its success flag, although the flag is set before the entry *)
(* is removed and the scan never looks at it.                              *)
TakenIsFresh == mpc = "inspect" => current \notin success

(* The manager settles a trade between two entries that are both still     *)
(* open: the best offer it remembers from its scan is neither the entry in *)
(* its hand nor one that was settled in the meantime, so no SetGiven or    *)
(* SetTaken is lost to the "only if not set" rule of Entry.                *)
OffersAreOpen ==
    mpc \in {"scan", "decide"} =>
        /\ current \notin DOMAIN deal
        /\ best # None => best # current /\ best \notin DOMAIN deal

(* Every settled trade is a trade: two entries of different countries for  *)
(* each other's goods, each paying what the other receives, and nobody     *)
(* paying more than it offered.                                            *)
DealsBalance ==
    \A e \in DOMAIN deal :
        LET f == deal[e].partner
        IN  /\ f \in DOMAIN deal /\ deal[f].partner = e
            /\ f.owner # e.owner
            /\ f.need = e.offer /\ f.offer = e.need
            /\ deal[e].taken = deal[f].given
            /\ deal[e].taken <= e.offered

(* A trade never takes more than the country has, however long the entry   *)
(* waited and whatever was done with the result.                           *)
NoDebt == \A c \in Countries : res[c] \in Holdings

(* While its owner is waiting, an entry is never lost: it is in the queue, *)
(* in the manager's hand, or settled.  (The manager takes entries out and  *)
(* puts them back; every path of Manager.run must do so.)                  *)
Waiting(c) == trades[c] \ (IF pc[c] \in {"posting", "quit", "gather"} THEN todo[c] ELSE {})

Kept == ToSet(queue) \cup {current} \cup success
        \cup (IF mpc \in {"mark1", "mark2"} THEN {best} ELSE {})

NothingLost ==
    \A c \in Countries :
        pc[c] \in {"posting", "poll", "sleep", "watch"} => Waiting(c) \subseteq Kept

(* An entry is in one place: once in the queue or in the manager's hand.   *)
(* (remove() takes out one occurrence only.)                               *)
OnePlace ==
    /\ IsInjective(queue)
    /\ current \notin ToSet(queue)

-----------------------------------------------------------------------------
\* What the settled trades that are not carried out yet will move, of a kind, and
\* what the countries hold of it.
Moves(k) == [e \in DOMAIN deal |->
                (IF e.need = k THEN deal[e].given ELSE 0)
                - (IF e.offer = k THEN deal[e].taken ELSE 0)]

Unsettled(k) == SumFunctionOnSet(Moves(k), DOMAIN deal \ applied)

Held(k) == SumFunction([c \in Countries |-> res[c][k]])

(* Trading moves goods and makes none: what the countries hold of a kind,  *)
(* together with what settled trades will still move, changes only by      *)
(* transforms and attacks.  Trades whose owner has given them up are       *)
(* settled and never carried out; they stay in the sum for good.           *)
TradeMakesNothing ==
    [][ ~Attack /\ (\A c \in Countries : ~Transform(c)) =>
            \A k \in Kinds : Held(k)' + Unsettled(k)' = Held(k) + Unsettled(k) ]_vars

(* A round always ends: whatever the manager does, or if it has given up,  *)
(* every country's thread ends and the driver goes on to the attack        *)
(* (AlienInvasion.java:242-248).                                           *)
RoundsEnd == main = "join" ~> main = "attack"

(* Every trade the manager declares a success is sooner or later carried   *)
(* out by its owner or given up by it.                                     *)
TradesAreClosed ==
    ~(success \subseteq applied \cup abandoned) ~> success \subseteq applied \cup abandoned

-----------------------------------------------------------------------------
(* Violated.  "Trade Failed for ..." (Country.java:559): a country reports *)
(* a need's trade as failed only if the trade did not take place.          *)
FailedTradesFailed == \A e \in abandoned : ~e.surplus => e \notin success

(* Violated.  "shutdown the manager and the associated thread"             *)
(* (AlienInvasion.java:147): after Shutdown the driver's join returns.     *)
ShutdownEnds == main = "close" ~> main = "over"

-----------------------------------------------------------------------------
(***************************************************************************)
(* The inductive invariant behind the safety properties of Hermes.  The    *)
(* properties speak of the entries in one place; to carry them through a   *)
(* step one has to know, of every place an entry can be in, whether it may *)
(* have been matched already, and of a country about to add entries that   *)
(* nobody has seen them before.                                            *)
(***************************************************************************)

\* The manager has an entry in its hand.
Busy == mpc \in {"inspect", "scan", "decide", "put", "mark1", "mark2", "remove"}

\* The manager has matched two entries and has not finished with them.
Settling == mpc \in {"mark1", "mark2", "remove"}

\* The manager has matched nothing with the entry in its hand yet.
Open == mpc \in {"inspect", "scan", "decide", "put"}

\* The country has entries of its own to look after.
Trading(c) == pc[c] \in {"posting", "poll", "sleep", "watch", "gather", "quit"}

\* Every entry anybody but its owner can have seen.
Filed == ToSet(queue) \cup ToSet(scan) \cup ({current, best} \ {None}) \cup DOMAIN deal

-----------------------------------------------------------------------------
(* What the manager holds in each of its states, and that only the entry   *)
(* it is just settling may be matched and still in the queue.              *)
ManagerInv ==
    /\ current # None <=> Busy
    /\ current \notin ToSet(queue)
    /\ Open => current \notin DOMAIN deal
    /\ best # None => mpc \in {"scan", "decide"} \/ Settling
    /\ Settling => best # None /\ {current, best} \subseteq DOMAIN deal
    /\ mpc \in {"scan", "decide"} /\ best # None => Matches(best) /\ best \notin DOMAIN deal
    /\ mpc # "scan" => scan = <<>>
    /\ ToSet(scan) \cap DOMAIN deal = {}
    /\ success \subseteq DOMAIN deal
    /\ \A e \in ToSet(queue) \cap DOMAIN deal : Settling /\ e = best
    /\ mpc # "done" => idle < IdleLimit

(* Entries are numbered: those a country has still to add are new.         *)
FiledInv ==
    /\ IsInjective(queue)
    /\ \A e \in Filed : e.batch <= batch[e.owner]
    /\ \A c \in Countries : pc[c] = "posting" => todo[c] \cap Filed = {}

(* What a country has open goes with where it is; and it has what it       *)
(* offers.                                                                 *)
CountryInv(c) ==
    /\ todo[c] \subseteq trades[c]
    /\ \A e \in trades[c] : /\ e.owner = c /\ e.batch = batch[c]
                            /\ e.offered <= res[c][e.offer]
    /\ trades[c] # {} <=> Trading(c)
    /\ pc[c] = "posting" => todo[c] # {}
    /\ todo[c] # {} => pc[c] \in {"posting", "gather", "quit"}
    /\ pc[c] = "gather" => \/ passed[c] \in trades[c] \cap success
                           \/ todo[c] \cap success # {}
    /\ pc[c] \notin {"off", "dead", "waiting"} => left[c] >= 1

(* The driver touches the countries only when none of them runs, and the   *)
(* manager before it runs.                                                 *)
MainInv ==
    /\ main = "start" => mpc = "off"
    /\ main \in {"start", "clear"} => round < Rounds
    /\ \A c \in Countries \ alive : Ended(c)
    /\ main \notin {"signal", "join"} => \A c \in Countries : Ended(c)

IInv ==
    /\ TypeOK
    /\ ManagerInv
    /\ FiledInv
    /\ \A c \in Countries : CountryInv(c)
    /\ MainInv
    /\ DealsBalance
    /\ NoDebt

-----------------------------------------------------------------------------
(* For NothingLost: the manager lets go of an entry it has settled only    *)
(* when the entry says so.                                                 *)
Marked ==
    /\ mpc = "mark2" => current \in success
    /\ mpc = "remove" => {current, best} \subseteq success

LossInv == NothingLost /\ Marked

(* For TradeMakesNothing: only settled trades are used, and none twice.    *)
UsedInv ==
    /\ IsFiniteSet(DOMAIN deal)
    /\ applied \subseteq DOMAIN deal
    /\ \A c \in Countries : trades[c] \cap applied = {}

\* What the proofs show to be preserved by every step.
WholeInv == IInv /\ LossInv /\ UsedInv
==============================================================================
