------------------------------- MODULE Country -------------------------------
(***************************************************************************)
(* The countries (Hermes/Country.java), one thread each: run() waits for   *)
(* BEGIN, then computes a number of schedules.  A schedule is a chain of   *)
(* calls of GenerateNode, each of which builds something, trades for a     *)
(* need, trades a surplus, or ends the chain.                              *)
(*                                                                         *)
(*   waiting -> node -> posting -> poll <-> sleep            (a need)      *)
(*                         |                                               *)
(*                         +----> watch -> gather -> node    (surpluses)   *)
(*                                  +----> quit                            *)
(*                                                                         *)
(* A country writes only its own holdings, so its computations are part of *)
(* the step before the next access to the queue or to an entry.            *)
(***************************************************************************)
EXTENDS TradeQueue

CONSTANTS
    Schedules,   \* schedules_m: chains computed in one run()
    Depth,       \* depth_m, bound on the nodes of a chain
    Frontier,    \* frontier_m, the other bound on them
    Patience,    \* sleeps of 10 ms before a trade is given up (20)
    Initial      \* the holdings to start with: a set of functions of the countries

ASSUME CountryAssumption ==
    /\ Schedules \in Nat \ {0}
    /\ Depth \in Nat \ {0} /\ Frontier \in Nat \ {0}
    /\ Patience \in Nat
    /\ Initial \subseteq [Countries -> Holdings]

VARIABLES
    begin,      \* Country.BEGIN
    pc,         \* where the thread of each country is
    res,        \* holdings of each country
    left,       \* schedules still to compute, the current one included
    nodes,      \* i: nodes generated in the current schedule
    batch,      \* number of the last batch of entries created
    trades,     \* the entries of the current trade
    todo,       \* those of them the current loop has not come to yet
    timer,      \* timer of the wait loops
    passed,     \* the entry whose result will be used
    applied,    \* history: the entries whose result was used
    abandoned   \* history: the entries given up without using their result

countryVars == <<begin, pc, res, left, nodes, batch, trades, todo, timer,
                 passed, applied, abandoned>>

CountryTypeOK ==
    /\ begin \in BOOLEAN
    /\ pc \in [Countries -> {"off", "waiting", "node", "posting", "poll",
                             "sleep", "watch", "gather", "quit", "dead"}]
    /\ res \in [Countries -> [Kinds -> Int]]
    /\ left \in [Countries -> 0..Schedules]
    /\ nodes \in [Countries -> 0..Smaller(Depth, Frontier)]
    /\ batch \in [Countries -> Nat]
    /\ trades \in [Countries -> SUBSET Entry]
    /\ todo \in [Countries -> SUBSET Entry]
    /\ timer \in [Countries -> 0..Patience]
    /\ passed \in [Countries -> Entry \cup {None}]
    /\ applied \subseteq Entry
    /\ abandoned \subseteq Entry

\* Country.schedule fills the holdings in from a file.
CountryInit ==
    /\ begin = FALSE
    /\ pc = [c \in Countries |-> "off"]
    /\ res \in Initial
    /\ left = [c \in Countries |-> 0]
    /\ nodes = [c \in Countries |-> 0]
    /\ batch = [c \in Countries |-> 0]
    /\ trades = [c \in Countries |-> {}]
    /\ todo = [c \in Countries |-> {}]
    /\ timer = [c \in Countries |-> 0]
    /\ passed = [c \in Countries |-> None]
    /\ applied = {}
    /\ abandoned = {}

\* No thread is running for c: it has not been started, or it has ended.
Ended(c) == pc[c] \in {"off", "dead"}

Step(c, from, to) == pc[c] = from /\ pc' = [pc EXCEPT ![c] = to]

-----------------------------------------------------------------------------
(* run()                                                                   *)

Start(c) ==
    /\ Step(c, "waiting", "node")
    /\ begin
    /\ left' = [left EXCEPT ![c] = Schedules]
    /\ nodes' = [nodes EXCEPT ![c] = 0]
    /\ UNCHANGED <<begin, res, batch, trades, todo, timer, passed, applied,
                   abandoned, queueVars>>

\* GenerateNode returns, and so do all its callers: the schedule is complete.
EndSchedule(c) ==
    /\ pc' = [pc EXCEPT ![c] = IF left[c] = 1 THEN "off" ELSE "node"]
    /\ left' = [left EXCEPT ![c] = @ - 1]
    /\ nodes' = [nodes EXCEPT ![c] = 0]

-----------------------------------------------------------------------------
(* GenerateNode, up to the first access to the queue.                      *)

AtBound(c) == nodes[c] + 1 > Frontier \/ nodes[c] + 1 > Depth

ReachBound(c) ==
    /\ pc[c] = "node" /\ AtBound(c)
    /\ EndSchedule(c)
    /\ UNCHANGED <<begin, res, batch, trades, todo, timer, passed, applied,
                   abandoned, queueVars>>

\* A new node: i is incremented.
NewNode(c) ==
    /\ pc[c] = "node" /\ ~AtBound(c)
    /\ nodes' = [nodes EXCEPT ![c] = @ + 1]

\* The three transform branches; each ends in a recursive call.
Transform(c) ==
    /\ NewNode(c)
    /\ \/ /\ Smelts(res[c])
          /\ res' = [res EXCEPT ![c] = AlloyRun(@, AlloysPlanned(@))]
       \/ /\ BuildsHouses(res[c])
          /\ res' = [res EXCEPT ![c] = HousingRun(@, HousesPlanned(@))]
       \/ /\ BuildsElectronics(res[c])
          /\ res' = [res EXCEPT ![c] = ElectronicsRun(@, ElectronicsPlanned(@))]
    /\ UNCHANGED <<begin, pc, left, batch, trades, todo, timer, passed,
                   applied, abandoned, queueVars>>

\* The entries of a batch: one for a need, ...
NeedEntry(c) ==
    LET r == res[c]
    IN  [owner |-> c, batch |-> batch[c] + 1, surplus |-> FALSE,
         offer |-> Offer(r), offered |-> Offered(r),
         need |-> Need(r), needed |-> Needed(r)]

\* ... or one for every surplus, each for the same amount of what the country
\* has least of.  The test that should leave out that very resource compares
\* strings with == (Country.java:605): it is never true.
SurplusEntries(c) ==
    LET r == res[c]
    IN  {[owner |-> c, batch |-> batch[c] + 1, surplus |-> TRUE,
          offer |-> k, offered |-> Surplus(r)[k],
          need |-> LowestResource(r), needed |-> Surplus(r)[k]] : k \in Spare(r)}

Post(c, entries) ==
    /\ NewNode(c)
    /\ pc' = [pc EXCEPT ![c] = "posting"]
    /\ batch' = [batch EXCEPT ![c] = @ + 1]
    /\ trades' = [trades EXCEPT ![c] = entries]
    /\ todo' = [todo EXCEPT ![c] = entries]
    /\ timer' = [timer EXCEPT ![c] = 0]
    /\ UNCHANGED <<begin, res, left, passed, applied, abandoned, queueVars>>

PostNeed(c)    == Asks(res[c]) /\ Post(c, {NeedEntry(c)})
PostSurplus(c) == Rests(res[c]) /\ Spare(res[c]) # {} /\ Post(c, SurplusEntries(c))

\* Neither needs nor surpluses.
BeOptimal(c) ==
    /\ pc[c] = "node" /\ ~AtBound(c)
    /\ Rests(res[c]) /\ Spare(res[c]) = {}
    /\ EndSchedule(c)
    /\ UNCHANGED <<begin, res, batch, trades, todo, timer, passed, applied,
                   abandoned, queueVars>>

-----------------------------------------------------------------------------
(* Posting: queue_m.add of one entry after another, in the order of the    *)
(* resources offered.                                                      *)

NextOf(S) == CHOOSE e \in S : \A f \in S : Position[e.offer] <= Position[f.offer]

Add(c) ==
    /\ pc[c] = "posting"
    /\ HasRoom
    /\ LET e == NextOf(todo[c])
       IN  /\ Append1(e)
           /\ todo' = [todo EXCEPT ![c] = @ \ {e}]
           /\ pc' = [pc EXCEPT ![c] =
                        IF todo[c] # {e} THEN "posting"
                        ELSE IF e.surplus THEN "watch" ELSE "poll"]
    /\ UNCHANGED <<deal, success, begin, res, left, nodes, batch, trades,
                   timer, passed, applied, abandoned>>

\* add throws IllegalStateException: nobody catches it and the thread dies,
\* leaving the entries it has already added in the queue.
AddFails(c) ==
    /\ Step(c, "posting", "dead")
    /\ ~HasRoom
    /\ abandoned' = abandoned \cup (trades[c] \ todo[c])
    /\ trades' = [trades EXCEPT ![c] = {}]
    /\ todo' = [todo EXCEPT ![c] = {}]
    /\ UNCHANGED <<begin, res, left, nodes, batch, timer, passed, applied, queueVars>>

-----------------------------------------------------------------------------
(* AssignNewValues: what was needed comes in, what was offered goes out.   *)
(* A bought good of the kinds the code has no plus for goes out as well.   *)

\* Mutated: all that was offered goes out, not what was taken.
AssignedInFull(r, e) ==
    [k \in Kinds |-> r[k] + (IF k = e.need THEN Given(e) ELSE 0)
                          - (IF k = e.offer THEN e.offered ELSE 0)]

Assigned(r, e) ==
    LET bought == IF e.need \in {"electronics", "housing"} THEN -Given(e) ELSE Given(e)
    IN  [k \in Kinds |-> r[k] + (IF k = e.need THEN bought ELSE 0)
                              - (IF k = e.offer THEN Taken(e) ELSE 0)]

Use(c, e) ==
    /\ res' = [res EXCEPT ![c] = Assigned(@, e)]
    /\ applied' = applied \cup {e}
    /\ abandoned' = abandoned \cup (trades[c] \ {e})
    /\ trades' = [trades EXCEPT ![c] = {}]

(* The wait for a need: while (success == false) { sleep; ... }            *)

TradeFor(c) == CHOOSE e \in trades[c] : TRUE

Poll(c) ==
    /\ Step(c, "poll", "sleep")
    /\ TradeFor(c) \notin success
    /\ UNCHANGED <<begin, res, left, nodes, batch, trades, todo, timer, passed,
                   applied, abandoned, queueVars>>

Collect(c) ==
    /\ Step(c, "poll", "node")
    /\ TradeFor(c) \in success
    /\ Use(c, TradeFor(c))
    /\ UNCHANGED <<begin, left, nodes, batch, todo, timer, passed, queueVars>>

\* Mutated: the timer is not advanced.
WakeUpUntimed(c) ==
    /\ Step(c, "sleep", "poll")
    /\ timer[c] # Patience
    /\ UNCHANGED <<begin, res, left, nodes, batch, trades, todo, timer, passed,
                   applied, abandoned, queueVars>>

WakeUp(c) ==
    /\ Step(c, "sleep", "poll")
    /\ timer[c] # Patience
    /\ timer' = [timer EXCEPT ![c] = @ + 1]
    /\ UNCHANGED <<begin, res, left, nodes, batch, trades, todo, passed,
                   applied, abandoned, queueVars>>

\* "We are dead in the water": success is not looked at again.
GiveUp(c) ==
    /\ pc[c] = "sleep"
    /\ timer[c] = Patience
    /\ Remove1(TradeFor(c))
    /\ abandoned' = abandoned \cup trades[c]
    /\ trades' = [trades EXCEPT ![c] = {}]
    /\ EndSchedule(c)
    /\ UNCHANGED <<deal, success, begin, res, batch, todo, timer, passed, applied>>

-----------------------------------------------------------------------------
(* The wait for a surplus: while (found == false) { sleep; ... }           *)

Watch(c) ==
    /\ pc[c] = "watch"
    /\ timer[c] # Patience
    /\ timer' = [timer EXCEPT ![c] = @ + 1]
    /\ IF trades[c] \cap success = {}
       THEN UNCHANGED <<pc, todo>>
       ELSE /\ pc' = [pc EXCEPT ![c] = "gather"]
            /\ todo' = [todo EXCEPT ![c] = trades[c]]
    /\ UNCHANGED <<begin, res, left, nodes, batch, trades, passed, applied,
                   abandoned, queueVars>>

\* "Remove the entries cause we're quitting".
Tire(c) ==
    /\ Step(c, "watch", "quit")
    /\ timer[c] = Patience
    /\ todo' = [todo EXCEPT ![c] = trades[c]]
    /\ UNCHANGED <<begin, res, left, nodes, batch, trades, timer, passed,
                   applied, abandoned, queueVars>>

Withdraw(c) ==
    /\ pc[c] = "quit" /\ todo[c] # {}
    /\ Remove1(NextOf(todo[c]))
    /\ todo' = [todo EXCEPT ![c] = @ \ {NextOf(todo[c])}]
    /\ abandoned' = abandoned \cup {NextOf(todo[c])}
    /\ UNCHANGED <<deal, success, begin, pc, res, left, nodes, batch, trades,
                   timer, passed, applied>>

Quit(c) ==
    /\ pc[c] = "quit" /\ todo[c] = {}
    /\ trades' = [trades EXCEPT ![c] = {}]
    /\ EndSchedule(c)
    /\ UNCHANGED <<begin, res, batch, todo, timer, passed, applied, abandoned,
                   queueVars>>

\* Mutated: the loop over the entries does not advance.
GatherOnTheSpot(c) ==
    /\ pc[c] = "gather" /\ todo[c] # {}
    /\ LET e == NextOf(todo[c])
       IN  /\ Remove1(e)
           /\ passed' = [passed EXCEPT ![c] = IF e \in success THEN e ELSE @]
    /\ UNCHANGED <<deal, success, begin, pc, res, left, nodes, batch, trades,
                   todo, timer, applied, abandoned>>

\* The last successful entry is kept, and every entry is removed.
Gather(c) ==
    /\ pc[c] = "gather" /\ todo[c] # {}
    /\ LET e == NextOf(todo[c])
       IN  /\ Remove1(e)
           /\ passed' = [passed EXCEPT ![c] = IF e \in success THEN e ELSE @]
           /\ todo' = [todo EXCEPT ![c] = @ \ {e}]
    /\ UNCHANGED <<deal, success, begin, pc, res, left, nodes, batch, trades,
                   timer, applied, abandoned>>

CollectPassed(c) ==
    /\ Step(c, "gather", "node")
    /\ todo[c] = {}
    /\ Use(c, passed[c])
    /\ passed' = [passed EXCEPT ![c] = None]
    /\ UNCHANGED <<begin, left, nodes, batch, todo, timer, queueVars>>

CountryNext(c) ==
    \/ Start(c) \/ ReachBound(c) \/ Transform(c)
    \/ PostNeed(c) \/ PostSurplus(c) \/ BeOptimal(c)
    \/ Add(c) \/ AddFails(c)
    \/ Poll(c) \/ Collect(c) \/ WakeUp(c) \/ GiveUp(c)
    \/ Watch(c) \/ Tire(c) \/ Withdraw(c) \/ Quit(c)
    \/ Gather(c) \/ CollectPassed(c)
=============================================================================
