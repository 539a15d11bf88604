----------------------------- MODULE HermesProofs ------------------------------
(***************************************************************************)
(* The safety properties of Hermes, for any number of countries, any       *)
(* capacity of the queue, any patience, any bound and any holdings to      *)
(* start with: the steps of the manager's thread and of a country's        *)
(* preserve the inductive invariant, then those of the driver, and what    *)
(* follows from it.                                                        *)
(***************************************************************************)
EXTENDS Hermes, PlannerProofs


-----------------------------------------------------------------------------
\* What a step of the manager leaves alone, or only lets grow or shrink.
ManagerFrame ==
    /\ UNCHANGED <<countryVars, mainVars>>
    /\ success \subseteq success'
    /\ Filed' \subseteq Filed
    /\ IsInjective(queue')

(* The manager leaves to the countries and to the driver what is theirs.   *)
LEMMA ManagerFrameKeeps ==
    ASSUME IInv, ManagerFrame, mpc # "off"
    PROVE  /\ CountryTypeOK' /\ HermesTypeOK' /\ FiledInv'
           /\ \A c \in Countries : CountryInv(c)'
           /\ MainInv' /\ NoDebt'
<1>1. CountryTypeOK'
    BY DEF IInv, TypeOK, ManagerFrame, countryVars, CountryTypeOK
<1>2. HermesTypeOK'
    BY DEF IInv, TypeOK, ManagerFrame, mainVars, HermesTypeOK
<1>3. FiledInv'
    BY DEF IInv, ManagerFrame, countryVars, FiledInv
<1>4. ASSUME NEW c \in Countries PROVE CountryInv(c)'
    <2>1. CountryInv(c)
        BY DEF IInv
    <2> QED BY <2>1 DEF ManagerFrame, countryVars, CountryInv, Trading
<1>5. MainInv'
    BY DEF IInv, ManagerFrame, countryVars, mainVars, MainInv, Ended
<1>6. NoDebt'
    BY DEF IInv, ManagerFrame, countryVars, NoDebt
<1> QED BY <1>1, <1>2, <1>3, <1>4, <1>5, <1>6

\* A step that settles nothing leaves the books in balance.
LEMMA SameDealsBalance ==
    ASSUME DealsBalance, deal' = deal
    PROVE  DealsBalance'
BY DEF DealsBalance

\* What the parts of the invariant say of the shared state.
LEMMA SharedState ==
    ASSUME IInv
    PROVE  /\ queue \in Seq(Entry) /\ scan \in Seq(Entry) /\ Len(queue) <= Capacity
           /\ DOMAIN deal \subseteq Entry /\ deal \in [DOMAIN deal -> Deal]
           /\ success \subseteq DOMAIN deal
           /\ IsInjective(queue)
           /\ ManagerTypeOK /\ ManagerInv /\ FiledInv /\ DealsBalance
           /\ None \notin Entry
           /\ Capacity \in Nat \ {0} /\ IdleLimit \in Nat \ {0}
BY TradeQueueAssumption, ManagerAssumption
   DEF IInv, TypeOK, TradeQueueTypeOK, ManagerInv, FiledInv

\* A step that touches neither the queue nor the entries.
LEMMA QuietStep ==
    ASSUME IInv, mpc # "off",
           UNCHANGED <<queueVars, countryVars, mainVars>>,
           ManagerTypeOK', ManagerInv',
           ({current, best} \ {None})' \subseteq {current, best} \ {None}
    PROVE  IInv'
<1>1. UNCHANGED <<queue, scan, deal, success>>
    BY DEF queueVars
<1>2. TradeQueueTypeOK'
    BY <1>1 DEF IInv, TypeOK, TradeQueueTypeOK
<1>3. ManagerFrame
    BY <1>1, SharedState DEF ManagerFrame, Filed
<1>4. DealsBalance'
    BY <1>1, SharedState, SameDealsBalance
<1> QED BY <1>2, <1>3, <1>4, ManagerFrameKeeps DEF IInv, TypeOK

(* shutdown_m is seen.                                                     *)
LEMMA StopKeeps ==
    ASSUME IInv, Stop, UNCHANGED <<countryVars, mainVars>>
    PROVE  IInv'
<1>1. ManagerTypeOK' /\ ManagerInv'
    BY SharedState DEF Stop, Goto, queueVars, ManagerTypeOK,
        ManagerInv, Busy, Settling, Open, Matches
<1> QED BY <1>1, QuietStep DEF Stop, queueVars

(* The queue is empty.                                                     *)
LEMMA IdleKeeps ==
    ASSUME IInv, Idle, UNCHANGED <<countryVars, mainVars>>
    PROVE  IInv'
<1>1. ManagerTypeOK' /\ ManagerInv'
    BY SharedState DEF Idle, Goto, queueVars, ManagerTypeOK,
        ManagerInv, Busy, Settling, Open, Matches
<1> QED BY <1>1, QuietStep DEF Idle, queueVars

(* The queue is not empty.                                                 *)
LEMMA ProceedKeeps ==
    ASSUME IInv, Proceed, UNCHANGED <<countryVars, mainVars>>
    PROVE  IInv'
<1>1. ManagerTypeOK' /\ ManagerInv'
    BY SharedState DEF Proceed, Goto, queueVars, ManagerTypeOK,
        ManagerInv, Busy, Settling, Open, Matches
<1> QED BY <1>1, QuietStep DEF Proceed, queueVars

(* The iterator has ended.                                                 *)
LEMMA ScanEndKeeps ==
    ASSUME IInv, ScanEnd, UNCHANGED <<countryVars, mainVars>>
    PROVE  IInv'
<1>1. ManagerTypeOK' /\ ManagerInv'
    BY SharedState DEF ScanEnd, Goto, queueVars, ManagerTypeOK,
        ManagerInv, Busy, Settling, Open, Matches
<1> QED BY <1>1, QuietStep DEF ScanEnd, queueVars

(* There is no best offer.                                                 *)
LEMMA NoMatchKeeps ==
    ASSUME IInv, NoMatch, UNCHANGED <<countryVars, mainVars>>
    PROVE  IInv'
<1>1. ManagerTypeOK' /\ ManagerInv'
    BY SharedState DEF NoMatch, Goto, queueVars, ManagerTypeOK,
        ManagerInv, Busy, Settling, Open, Matches
<1> QED BY <1>1, QuietStep DEF NoMatch, queueVars

(* The price is below one.                                                 *)
LEMMA TooLittleKeeps ==
    ASSUME IInv, TooLittle, UNCHANGED <<countryVars, mainVars>>
    PROVE  IInv'
<1>1. ManagerTypeOK' /\ ManagerInv'
    BY SharedState DEF TooLittle, Goto, queueVars, ManagerTypeOK,
        ManagerInv, Busy, Settling, Open, Matches
<1> QED BY <1>1, QuietStep DEF TooLittle, queueVars

(* take(): an entry moves from the queue into the manager's hand.          *)
LEMMA TakeKeeps ==
    ASSUME IInv, Take, UNCHANGED <<countryVars, mainVars>>
    PROVE  IInv'
<1>1. /\ queue' = Tail(queue) /\ current' = Head(queue) /\ queue # <<>>
      /\ mpc = "take" /\ mpc' = "inspect"
      /\ UNCHANGED <<scan, deal, success, best, idle, shutdown>>
    BY DEF Take, Goto
<1>2. /\ queue' \in Seq(Entry) /\ current' \in Entry /\ Len(queue') <= Capacity
      /\ current' \in ToSet(queue) /\ ToSet(queue') \subseteq ToSet(queue)
      /\ IsInjective(queue') /\ current' \notin ToSet(queue')
    BY <1>1, SharedState, TailToSet
<1>3. TradeQueueTypeOK'
    BY <1>1, <1>2, SharedState DEF TradeQueueTypeOK
<1>4. ManagerTypeOK'
    BY <1>1, <1>2, SharedState DEF ManagerTypeOK
<1>5. ManagerInv'
    BY <1>1, <1>2, SharedState DEF ManagerInv, Busy, Settling, Open
<1>6. ManagerFrame
    BY <1>1, <1>2, SharedState DEF ManagerFrame, Filed
<1>7. DealsBalance'
    BY <1>1, SharedState, SameDealsBalance
<1> QED BY <1>1, <1>3, <1>4, <1>5, <1>6, <1>7, ManagerFrameKeeps DEF IInv, TypeOK

(* The entry is open and not a success: it is put back, or a scan starts.  *)
LEMMA InspectKeeps ==
    ASSUME IInv, Inspect, UNCHANGED <<countryVars, mainVars>>
    PROVE  IInv'
<1>1. /\ mpc = "inspect" /\ mpc' \in {"put", "scan"} /\ current' = current
      /\ scan' \in {scan, queue} /\ (mpc' = "put" => scan' = scan)
      /\ UNCHANGED <<queue, deal, success, best, idle, shutdown>>
    BY SharedState DEF Inspect, Goto, ManagerInv, Open
<1>2. TradeQueueTypeOK'
    BY <1>1, SharedState DEF TradeQueueTypeOK
<1>3. ManagerTypeOK'
    BY <1>1, SharedState DEF ManagerTypeOK
<1>4. ManagerInv'
    BY <1>1, SharedState DEF ManagerInv, Busy, Settling, Open
<1>5. ManagerFrame
    BY <1>1, SharedState DEF ManagerFrame, Filed
<1>6. DealsBalance'
    BY <1>1, SharedState, SameDealsBalance
<1> QED BY <1>1, <1>2, <1>3, <1>4, <1>5, <1>6, ManagerFrameKeeps DEF IInv, TypeOK

(* The best offer stays a match that is still open.                        *)
LEMMA ScanNextKeeps ==
    ASSUME IInv, ScanNext, UNCHANGED <<countryVars, mainVars>>
    PROVE  IInv'
<1>1. /\ mpc = "scan" /\ scan # <<>> /\ scan' = Tail(scan)
      /\ best' = best \/ (best' = Head(scan) /\ Matches(best)')
      /\ UNCHANGED <<queue, deal, success, mpc, current, idle, shutdown>>
    BY DEF ScanNext, Better, Matches
<1>2. /\ scan' \in Seq(Entry) /\ Head(scan) \in Entry
      /\ Head(scan) \in ToSet(scan) /\ ToSet(scan') \subseteq ToSet(scan)
    BY <1>1, SharedState, TailToSet
<1>3. TradeQueueTypeOK'
    BY <1>1, <1>2, SharedState DEF TradeQueueTypeOK
<1>4. ManagerTypeOK'
    BY <1>1, <1>2, SharedState DEF ManagerTypeOK
<1>5. ManagerInv'
    BY <1>1, <1>2, SharedState DEF ManagerInv, Busy, Settling, Open, Matches
<1>6. ManagerFrame
    BY <1>1, <1>2, SharedState DEF ManagerFrame, Filed
<1>7. DealsBalance'
    BY <1>1, SharedState, SameDealsBalance
<1> QED BY <1>1, <1>3, <1>4, <1>5, <1>6, <1>7, ManagerFrameKeeps DEF IInv, TypeOK

-----------------------------------------------------------------------------
(* Settling a trade.                                                       *)

\* Matching two open entries, each of which pays no more than it offered and
\* receives what the other pays, keeps the books in balance.
LEMMA MatchBalances ==
    ASSUME DealsBalance, DOMAIN deal \subseteq Entry, deal \in [DOMAIN deal -> Deal],
           NEW f \in Entry, current \in Entry,
           current \notin DOMAIN deal, f \notin DOMAIN deal, Matches(f),
           NEW g \in Nat, NEW t \in Nat, g <= f.offered, t <= current.offered,
           Match(current, g, t, f)
    PROVE  /\ DOMAIN deal' = DOMAIN deal \cup {current, f}
           /\ DOMAIN deal' \subseteq Entry /\ deal' \in [DOMAIN deal' -> Deal]
           /\ DealsBalance'
<1>1. current # f
    BY DEF Matches
<1>2. /\ DOMAIN deal' = DOMAIN deal \cup {current, f}
      /\ \A x \in DOMAIN deal : deal'[x] = deal[x]
      /\ deal'[current] = [given |-> g, taken |-> t, partner |-> f]
      /\ deal'[f] = [given |-> t, taken |-> g, partner |-> current]
      /\ deal' = [x \in DOMAIN deal' |-> deal'[x]]
    BY <1>1 DEF Match
<1>3. \A x \in DOMAIN deal : deal[x] \in Deal
    OBVIOUS
<1>4. deal'[current] \in Deal /\ deal'[f] \in Deal
    BY <1>2 DEF Deal
<1>5. deal' \in [DOMAIN deal' -> Deal]
    BY <1>2, <1>3, <1>4
<1>6. ASSUME NEW e \in DOMAIN deal'
      PROVE  /\ deal'[e].partner \in DOMAIN deal'
             /\ deal'[deal'[e].partner].partner = e
             /\ deal'[e].partner.owner # e.owner
             /\ deal'[e].partner.need = e.offer /\ deal'[e].partner.offer = e.need
             /\ deal'[e].taken = deal'[deal'[e].partner].given
             /\ deal'[e].taken <= e.offered
    <2>1. CASE e \in DOMAIN deal
        BY <1>2, <2>1 DEF DealsBalance
    <2>2. CASE e = current
        BY <1>2, <2>2 DEF Matches
    <2>3. CASE e = f
        BY <1>2, <2>3 DEF Matches
    <2> QED BY <1>2, <2>1, <2>2, <2>3
<1>7. DealsBalance'
    BY <1>6 DEF DealsBalance
<1> QED BY <1>2, <1>5, <1>7

(* Whichever way a trade is settled, both sides can pay it.                *)
LEMMA SettlingKeeps ==
    ASSUME IInv, mpc \in {"scan", "decide"}, mpc' = "mark1",
           NEW f \in Entry, f \in ToSet(scan) \cup {best}, Matches(f),
           NEW g \in Nat, NEW t \in Nat, g <= f.offered, t <= current.offered,
           Match(current, g, t, f), best' = f, scan' = <<>>,
           UNCHANGED <<queue, success, current, idle, shutdown, countryVars, mainVars>>
    PROVE  IInv'
<1>1. current \in Entry /\ current \notin DOMAIN deal /\ f \notin DOMAIN deal
    BY SharedState, ToSetElements DEF ManagerInv, Busy, Open, ManagerTypeOK
<1>2. /\ DOMAIN deal' = DOMAIN deal \cup {current, f}
      /\ DOMAIN deal' \subseteq Entry /\ deal' \in [DOMAIN deal' -> Deal]
      /\ DealsBalance'
    BY <1>1, SharedState, MatchBalances
<1>3. TradeQueueTypeOK'
    BY <1>2, SharedState DEF TradeQueueTypeOK, IInv, TypeOK
<1>4. ManagerTypeOK'
    BY SharedState DEF ManagerTypeOK
<1>5. ManagerInv'
    BY <1>1, <1>2, SharedState, EmptyToSet DEF ManagerInv, Busy, Settling, Open
<1>6. ManagerFrame
    BY <1>1, <1>2, SharedState, EmptyToSet DEF ManagerFrame, Filed
<1> QED BY <1>2, <1>3, <1>4, <1>5, <1>6, ManagerFrameKeeps DEF IInv, TypeOK

\* The price of an offer is at most the offer: n * p \div q <= p for n <= q.
LEMMA PriceIsCovered ==
    ASSUME NEW n \in Nat, NEW p \in Nat, NEW q \in Nat \ {0}, n <= q
    PROVE  (n * p) \div q <= p /\ (n * p) \div q \in Int
<1>1. n * p <= q * p
    OBVIOUS
<1> DEFINE d == (n * p) \div q
           x == n * p
<1>2. x \in Nat /\ q * d <= x
    <2>1. x \in Nat
        OBVIOUS
    <2> HIDE DEF x
    <2>2. q * (x \div q) <= x
        BY <2>1
    <2> QED BY <2>1, <2>2 DEF x
<1>3. d \in Int
    <2> HIDE DEF x
    <2> QED BY <1>2
<1> HIDE DEF d
<1>4. q * d <= q * p
    BY <1>1, <1>2, <1>3 DEF x
<1>5. CASE d > p
    <2>1. q * d >= q * (p + 1)
        BY <1>3, <1>5
    <2> QED BY <1>4, <2>1, <1>3
<1> QED BY <1>3, <1>5 DEF d

(* A perfect match is settled.                                             *)
LEMMA ScanPerfectKeeps ==
    ASSUME IInv, ScanPerfect, UNCHANGED <<countryVars, mainVars>>
    PROVE  IInv'
<1>1. Head(scan) \in Entry /\ Head(scan) \in ToSet(scan) /\ current \in Entry
    BY SharedState, TailToSet DEF ScanPerfect, ManagerInv, Busy, ManagerTypeOK
<1>2. Head(scan).offered \in Nat /\ current.offered \in Nat
    BY <1>1 DEF Entry
<1> QED BY <1>1, <1>2, SettlingKeeps DEF ScanPerfect, Perfect, Goto

(* A match that needs less than is offered is settled.                     *)
LEMMA SettleUndercutKeeps ==
    ASSUME IInv, SettleUndercut, UNCHANGED <<countryVars, mainVars>>
    PROVE  IInv'
<1>1. best \in Entry /\ current \in Entry /\ Matches(best) /\ scan = <<>>
    BY SharedState DEF SettleUndercut, ManagerInv, Busy, ManagerTypeOK
<1>2. best.offered \in Nat /\ best.needed \in Nat /\ current.offered \in Nat
    BY <1>1 DEF Entry
<1> QED BY <1>1, <1>2, SettlingKeeps DEF SettleUndercut, Undercuts, Goto

(* A match is settled at its price.                                        *)
LEMMA SettlePricedKeeps ==
    ASSUME IInv, SettlePriced, UNCHANGED <<countryVars, mainVars>>
    PROVE  IInv'
<1>1. best \in Entry /\ current \in Entry /\ Matches(best) /\ scan = <<>>
    BY SharedState DEF SettlePriced, ManagerInv, Busy, ManagerTypeOK
<1>2. best.offered \in Nat /\ best.needed \in Nat \ {0} /\ current.offered \in Nat
      /\ current.offered <= best.needed
    BY <1>1 DEF Entry, SettlePriced, Undercuts
<1>3. PICK final \in Worth : final >= 1 /\ Match(current, final, current.offered, best)
    BY DEF SettlePriced
<1> DEFINE price == (current.offered * best.offered) \div best.needed
<1>4. price <= best.offered /\ price \in Int
    BY <1>2, PriceIsCovered
<1>5. final = price \/ final = price - 1
    BY <1>3 DEF Worth
<1> HIDE DEF price
<1>6. final \in Nat /\ final <= best.offered
    BY <1>2, <1>3, <1>4, <1>5
<1> QED BY <1>1, <1>2, <1>3, <1>6, SettlingKeeps DEF SettlePriced, Goto

-----------------------------------------------------------------------------
(* Finishing with it.                                                      *)

(* The first success flag is set.                                          *)
LEMMA MarkCurrentKeeps ==
    ASSUME IInv, MarkCurrent, UNCHANGED <<countryVars, mainVars>>
    PROVE  IInv'
<1>1. /\ mpc = "mark1" /\ mpc' = "mark2" /\ success' = success \cup {current}
      /\ UNCHANGED <<queue, scan, deal, current, best, idle, shutdown>>
      /\ current \in DOMAIN deal
    BY SharedState DEF MarkCurrent, Goto, ManagerInv, Settling
<1>2. TradeQueueTypeOK'
    BY <1>1, SharedState DEF TradeQueueTypeOK
<1>3. ManagerTypeOK'
    BY <1>1, SharedState DEF ManagerTypeOK
<1>4. ManagerInv'
    BY <1>1, SharedState DEF ManagerInv, Busy, Settling, Open
<1>5. ManagerFrame
    BY <1>1, SharedState DEF ManagerFrame, Filed
<1>6. DealsBalance'
    BY <1>1, SharedState, SameDealsBalance
<1> QED BY <1>1, <1>2, <1>3, <1>4, <1>5, <1>6, ManagerFrameKeeps DEF IInv, TypeOK

(* The second success flag is set.                                         *)
LEMMA MarkBestKeeps ==
    ASSUME IInv, MarkBest, UNCHANGED <<countryVars, mainVars>>
    PROVE  IInv'
<1>1. /\ mpc = "mark2" /\ mpc' = "remove" /\ success' = success \cup {best}
      /\ UNCHANGED <<queue, scan, deal, current, best, idle, shutdown>>
      /\ best \in DOMAIN deal
    BY SharedState DEF MarkBest, Goto, ManagerInv, Settling
<1>2. TradeQueueTypeOK'
    BY <1>1, SharedState DEF TradeQueueTypeOK
<1>3. ManagerTypeOK'
    BY <1>1, SharedState DEF ManagerTypeOK
<1>4. ManagerInv'
    BY <1>1, SharedState DEF ManagerInv, Busy, Settling, Open
<1>5. ManagerFrame
    BY <1>1, SharedState DEF ManagerFrame, Filed
<1>6. DealsBalance'
    BY <1>1, SharedState, SameDealsBalance
<1> QED BY <1>1, <1>2, <1>3, <1>4, <1>5, <1>6, ManagerFrameKeeps DEF IInv, TypeOK

(* The settled entries leave the queue.                                    *)
LEMMA RemoveBothKeeps ==
    ASSUME IInv, RemoveBoth, UNCHANGED <<countryVars, mainVars>>
    PROVE  IInv'
<1>1. /\ mpc = "remove" /\ mpc' = "check" /\ current' = None /\ best' = None
      /\ queue' = RemoveFirst(RemoveFirst(queue, current), best)
      /\ UNCHANGED <<scan, deal, success, idle, shutdown>>
    BY DEF RemoveBoth, Goto
<1> DEFINE q == RemoveFirst(queue, current)
<1>2. /\ q \in Seq(Entry) /\ Len(q) <= Capacity /\ IsInjective(q)
      /\ ToSet(q) \subseteq ToSet(queue)
    BY SharedState, RemoveFirstToSet
<1> HIDE DEF q
<1>3. /\ queue' \in Seq(Entry) /\ Len(queue') <= Capacity /\ IsInjective(queue')
      /\ ToSet(queue') \subseteq ToSet(queue) /\ best \notin ToSet(queue')
    BY <1>1, <1>2, SharedState, RemoveFirstToSet DEF q
<1>4. TradeQueueTypeOK'
    BY <1>1, <1>3, SharedState DEF TradeQueueTypeOK
<1>5. ManagerTypeOK'
    BY <1>1, SharedState DEF ManagerTypeOK
<1>6. ManagerInv'
    BY <1>1, <1>3, SharedState, ToSetElements DEF ManagerInv, Busy, Settling, Open
<1>7. ManagerFrame
    BY <1>1, <1>3, SharedState DEF ManagerFrame, Filed
<1>8. DealsBalance'
    BY <1>1, SharedState, SameDealsBalance
<1> QED BY <1>1, <1>4, <1>5, <1>6, <1>7, <1>8, ManagerFrameKeeps DEF IInv, TypeOK

(* put(): the entry goes back to the tail.                                 *)
LEMMA PutBackKeeps ==
    ASSUME IInv, PutBack, UNCHANGED <<countryVars, mainVars>>
    PROVE  IInv'
<1>1. /\ mpc = "put" /\ mpc' = "check" /\ current' = None
      /\ queue' = Append(queue, current) /\ Len(queue) < Capacity
      /\ UNCHANGED <<deal, success, best, idle, shutdown>>
      /\ scan = <<>> /\ scan' = scan
      /\ current \in Entry /\ current \notin DOMAIN deal /\ current \notin ToSet(queue)
    BY SharedState DEF PutBack, Goto, Append1, HasRoom, ManagerInv, Busy, Open, ManagerTypeOK
<1>2. /\ queue' \in Seq(Entry) /\ Len(queue') <= Capacity /\ IsInjective(queue')
      /\ ToSet(queue') = ToSet(queue) \cup {current}
    BY <1>1, SharedState, AppendToSet
<1>3. TradeQueueTypeOK'
    BY <1>1, <1>2, SharedState DEF TradeQueueTypeOK
<1>4. ManagerTypeOK'
    BY <1>1, SharedState DEF ManagerTypeOK
<1>5. ManagerInv'
    BY <1>1, <1>2, SharedState, ToSetElements DEF ManagerInv, Busy, Settling, Open
<1>6. ManagerFrame
    BY <1>1, <1>2, SharedState DEF ManagerFrame, Filed
<1>7. DealsBalance'
    BY <1>1, SharedState, SameDealsBalance
<1> QED BY <1>1, <1>3, <1>4, <1>5, <1>6, <1>7, ManagerFrameKeeps DEF IInv, TypeOK

(* Every step of the manager preserves the invariant.                      *)
LEMMA ManagerKeeps ==
    ASSUME IInv, ManagerStep
    PROVE  IInv'
BY StopKeeps, IdleKeeps, ProceedKeeps, TakeKeeps, InspectKeeps, ScanPerfectKeeps,
   ScanNextKeeps, ScanEndKeeps, NoMatchKeeps, SettleUndercutKeeps, SettlePricedKeeps,
   TooLittleKeeps, MarkCurrentKeeps, MarkBestKeeps, RemoveBothKeeps, PutBackKeeps
   DEF ManagerStep, ManagerNext
-----------------------------------------------------------------------------
(***************************************************************************)
(* A country.                                                              *)
(***************************************************************************)

\* A step after which the queue and the iterator hold no entry they did not
\* hold before, and the queue still none twice.
QueueKept ==
    /\ queue' \in Seq(Entry) /\ Len(queue') <= Capacity /\ IsInjective(queue')
    /\ scan' \in Seq(Entry)
    /\ ToSet(queue') \subseteq ToSet(queue) /\ ToSet(scan') \subseteq ToSet(scan)
    /\ scan = <<>> => scan' = <<>>

(* A step that leaves the queue and the iterator alone keeps the queue in  *)
(* order.                                                                  *)
LEMMA SameQueueKept ==
    ASSUME IInv, UNCHANGED <<queue, scan>>
    PROVE  QueueKept
BY DEF IInv, TypeOK, TradeQueueTypeOK, FiledInv, QueueKept

(* So does queue_m.remove, ...                                             *)
LEMMA RemovalKeepsQueue ==
    ASSUME IInv, NEW e \in Entry, Remove1(e)
    PROVE  QueueKept
<1>1. queue \in Seq(Entry) /\ Len(queue) <= Capacity /\ IsInjective(queue) /\ scan \in Seq(Entry)
      /\ Len(queue) \in Nat /\ Capacity \in Nat
    BY TradeQueueAssumption DEF IInv, TypeOK, TradeQueueTypeOK, FiledInv
<1>2. /\ queue' \in Seq(Entry) /\ Len(queue') <= Len(queue) /\ IsInjective(queue')
      /\ ToSet(queue') \subseteq ToSet(queue) /\ Len(queue') \in Nat
    BY <1>1, RemoveFirstToSet DEF Remove1
<1>3. /\ scan' \in Seq(Entry) /\ ToSet(scan') \subseteq ToSet(scan)
      /\ scan = <<>> => scan' = <<>>
    <2>1. CASE scan = <<>>
        BY <1>1, <2>1 DEF Remove1
    <2>2. CASE scan # <<>>
        <3> DEFINE t == RemoveFirst(Tail(scan), e)
        <3>1. /\ Head(scan) \in Entry /\ Tail(scan) \in Seq(Entry)
              /\ ToSet(scan) = {Head(scan)} \cup ToSet(Tail(scan))
            BY <1>1, <2>2, TailToSet
        <3>2. t \in Seq(Entry) /\ ToSet(t) \subseteq ToSet(Tail(scan))
            BY <3>1, RemoveFirstToSet
        <3>3. scan' = <<Head(scan)>> \o t
            BY <2>2 DEF Remove1
        <3> HIDE DEF t
        <3> QED BY <2>2, <3>1, <3>2, <3>3, ConsToSet
    <2> QED BY <2>1, <2>2
<1> QED BY <1>1, <1>2, <1>3 DEF QueueKept

(* ... and queue_m.clear.                                                  *)
LEMMA ClearKeepsQueue ==
    ASSUME IInv, Clear
    PROVE  QueueKept
<1>1. scan \in Seq(Entry) /\ Capacity \in Nat
    BY TradeQueueAssumption DEF IInv, TypeOK, TradeQueueTypeOK
<1>2. /\ queue' = <<>> /\ queue' \in Seq(Entry) /\ Len(queue') <= Capacity /\ IsInjective(queue')
      /\ ToSet(queue') \subseteq ToSet(queue)
    BY <1>1, EmptyToSet DEF Clear
<1>3. /\ scan' \in Seq(Entry) /\ ToSet(scan') \subseteq ToSet(scan)
      /\ scan = <<>> => scan' = <<>>
    <2>1. CASE scan = <<>>
        BY <1>1, <2>1 DEF Clear
    <2>2. CASE scan # <<>>
        <3>1. Head(scan) \in Entry /\ ToSet(scan) = {Head(scan)} \cup ToSet(Tail(scan))
            BY <1>1, <2>2, TailToSet
        <3>2. scan' = <<Head(scan)>> /\ scan' \in Seq(Entry) /\ ToSet(scan') = {Head(scan)}
            BY <2>2, <3>1 DEF Clear, ToSet
        <3> QED BY <2>2, <3>1, <3>2
    <2> QED BY <2>1, <2>2
<1> QED BY <1>2, <1>3 DEF QueueKept

-----------------------------------------------------------------------------
\* What a step of country c must establish of the shared state ...
QueueGoesOn(c) ==
    /\ TradeQueueTypeOK' /\ ManagerInv' /\ IsInjective(queue')
    /\ Filed' \subseteq Filed \cup trades[c]

\* ... what it leaves alone ...
Elsewhere(c) ==
    /\ UNCHANGED <<deal, success, managerVars, mainVars>>
    /\ \A d \in Countries \ {c} :
          /\ pc'[d] = pc[d] /\ res'[d] = res[d] /\ left'[d] = left[d]
          /\ batch'[d] = batch[d] /\ trades'[d] = trades[d] /\ todo'[d] = todo[d]
          /\ passed'[d] = passed[d]

\* ... and what it must establish of its own.
GoesOn(c) ==
    /\ CountryTypeOK' /\ CountryInv(c)' /\ res'[c] \in Holdings
    /\ batch'[c] >= batch[c]
    /\ pc'[c] = "posting" => todo'[c] \cap Filed' = {}

(* A step of country c that at most takes entries out of the queue         *)
(* disturbs nobody else's entries.                                         *)
LEMMA KeptGoesOn ==
    ASSUME IInv, NEW c \in Countries, QueueKept, Elsewhere(c)
    PROVE  QueueGoesOn(c) /\ Filed' \subseteq Filed
<1>1. /\ UNCHANGED <<deal, success, mpc, current, best, idle, shutdown>>
    BY DEF Elsewhere, managerVars
<1>2. TradeQueueTypeOK'
    BY <1>1 DEF IInv, TypeOK, TradeQueueTypeOK, QueueKept
<1>3. ManagerInv'
    BY <1>1 DEF IInv, ManagerInv, Busy, Settling, Open, Matches, QueueKept
<1>4. Filed' \subseteq Filed
    BY <1>1 DEF Filed, QueueKept
<1> QED BY <1>2, <1>3, <1>4 DEF QueueGoesOn, QueueKept

(* What a step of country c has to establish about c itself for IInv to    *)
(* hold on.                                                                *)
LEMMA CountryGoesOn ==
    ASSUME IInv, NEW c \in Countries, ~Ended(c),
           Elsewhere(c), QueueGoesOn(c), GoesOn(c)
    PROVE  IInv'
<1>1. /\ UNCHANGED <<deal, success, mpc, current, best, idle, shutdown, main, alive, next, round>>
    BY DEF Elsewhere, managerVars, mainVars
<1>2. TypeOK'
    BY <1>1 DEF IInv, TypeOK, GoesOn, QueueGoesOn, ManagerTypeOK, HermesTypeOK
<1>3. ASSUME NEW d \in Countries \ {c} PROVE CountryInv(d)'
    <2>1. CountryInv(d)
        BY DEF IInv
    <2> QED BY <1>1, <2>1 DEF CountryInv, Trading, Elsewhere
<1>4. FiledInv'
    <2> USE DEF IInv, QueueGoesOn, FiledInv
    <2>1. ASSUME NEW e \in Filed' PROVE e.batch <= batch'[e.owner]
        <3>1. batch[c] \in Nat /\ batch'[c] \in Nat /\ batch[c] <= batch'[c]
            BY DEF TypeOK, CountryTypeOK, GoesOn
        <3>2. e \in Entry
            BY <1>2 DEF Filed, TypeOK, TradeQueueTypeOK, ManagerTypeOK, ToSet
        <3>3. e.batch \in Nat /\ e.owner \in Countries
            BY <3>2 DEF Entry
        <3>4. CASE e \in Filed
            BY <3>1, <3>3, <3>4 DEF Elsewhere
        <3>5. CASE e \in trades[c]
            BY <3>1, <3>5 DEF CountryInv
        <3> QED BY <3>4, <3>5
    <2>2. ASSUME NEW d \in Countries, pc'[d] = "posting" PROVE todo'[d] \cap Filed' = {}
        <3>1. CASE d = c
            BY <2>2, <3>1 DEF GoesOn
        <3>2. CASE d # c
            <4>1. todo'[d] = todo[d] /\ todo[d] \cap Filed = {}
                BY <2>2, <3>2 DEF Elsewhere
            <4>2. \A e \in todo[d] : e.owner = d
                BY DEF CountryInv
            <4>3. \A e \in trades[c] : e.owner = c
                BY DEF CountryInv
            <4> QED BY <3>2, <4>1, <4>2, <4>3
        <3> QED BY <3>1, <3>2
    <2> QED BY <2>1, <2>2
<1>5. MainInv'
    <2>1. c \in alive /\ main \in {"signal", "join"}
        BY DEF IInv, MainInv
    <2> QED BY <1>1, <2>1 DEF IInv, MainInv, Ended, Elsewhere
<1>6. NoDebt'
    BY DEF IInv, NoDebt, GoesOn, Elsewhere
<1>7. DealsBalance'
    BY <1>1 DEF IInv, DealsBalance
<1> QED BY <1>2, <1>3, <1>4, <1>5, <1>6, <1>7 DEF IInv, GoesOn, QueueGoesOn

\* What the invariant says of country c.
LEMMA CountryState ==
    ASSUME IInv, NEW c \in Countries
    PROVE  /\ CountryTypeOK /\ CountryInv(c) /\ res[c] \in Holdings
           /\ res[c] \in [Kinds -> Int] /\ left[c] \in 0..Schedules
           /\ nodes[c] \in 0..Smaller(Depth, Frontier) /\ batch[c] \in Nat
           /\ trades[c] \subseteq Entry /\ todo[c] \subseteq Entry
           /\ timer[c] \in 0..Patience /\ passed[c] \in Entry \cup {None}
           /\ Schedules \in Nat \ {0} /\ Depth \in Nat \ {0} /\ Frontier \in Nat \ {0}
           /\ Patience \in Nat
           /\ success \subseteq DOMAIN deal /\ DealsBalance
           /\ DOMAIN deal \subseteq Entry /\ deal \in [DOMAIN deal -> Deal]
<1>1. CountryTypeOK /\ CountryInv(c) /\ res[c] \in Holdings /\ DealsBalance
    BY DEF IInv, TypeOK, NoDebt
<1>2. /\ Schedules \in Nat \ {0} /\ Depth \in Nat \ {0} /\ Frontier \in Nat \ {0}
      /\ Patience \in Nat
    BY CountryAssumption
<1>3. success \subseteq DOMAIN deal /\ DOMAIN deal \subseteq Entry /\ deal \in [DOMAIN deal -> Deal]
    BY DEF IInv, TypeOK, TradeQueueTypeOK, ManagerInv
<1> QED BY <1>1, <1>2, <1>3 DEF CountryTypeOK

\* Steps that do not add to the queue: it suffices to look at the country.
LEMMA QuietCountryStep ==
    ASSUME IInv, NEW c \in Countries, ~Ended(c), QueueKept, Elsewhere(c),
           CountryTypeOK', CountryInv(c)', res'[c] \in Holdings,
           batch'[c] >= batch[c], pc'[c] # "posting"
    PROVE  IInv'
BY KeptGoesOn, CountryGoesOn DEF GoesOn

(* run() begins its schedules.                                             *)
LEMMA StartKeeps ==
    ASSUME IInv, NEW c \in Countries, Start(c), UNCHANGED <<managerVars, mainVars>>
    PROVE  IInv'
<1> USE CountryState DEF Start, Step, queueVars
<1>1. ~Ended(c)
    BY DEF Ended
<1>2. QueueKept
    BY SameQueueKept
<1>3. Elsewhere(c)
    BY DEF Elsewhere, CountryTypeOK
<1>4. CountryTypeOK'
    BY DEF CountryTypeOK, Smaller
<1>5. CountryInv(c)' /\ res'[c] \in Holdings /\ batch'[c] >= batch[c] /\ pc'[c] # "posting"
    BY DEF CountryTypeOK, CountryInv, Trading
<1> QED BY <1>1, <1>2, <1>3, <1>4, <1>5, QuietCountryStep

(* GetSuccess() is still false.                                            *)
LEMMA PollKeeps ==
    ASSUME IInv, NEW c \in Countries, Poll(c), UNCHANGED <<managerVars, mainVars>>
    PROVE  IInv'
<1> USE CountryState DEF Poll, Step, queueVars
<1>1. ~Ended(c)
    BY DEF Ended
<1>2. QueueKept
    BY SameQueueKept
<1>3. Elsewhere(c)
    BY DEF Elsewhere, CountryTypeOK
<1>4. CountryTypeOK'
    BY DEF CountryTypeOK
<1>5. CountryInv(c)' /\ res'[c] \in Holdings /\ batch'[c] >= batch[c] /\ pc'[c] # "posting"
    BY DEF CountryTypeOK, CountryInv, Trading
<1> QED BY <1>1, <1>2, <1>3, <1>4, <1>5, QuietCountryStep

(* The sleep ends and the timer advances.                                  *)
LEMMA WakeUpKeeps ==
    ASSUME IInv, NEW c \in Countries, WakeUp(c), UNCHANGED <<managerVars, mainVars>>
    PROVE  IInv'
<1> USE CountryState DEF WakeUp, Step, queueVars
<1>1. ~Ended(c)
    BY DEF Ended
<1>2. QueueKept
    BY SameQueueKept
<1>3. Elsewhere(c)
    BY DEF Elsewhere, CountryTypeOK
<1>4. CountryTypeOK'
    <2>1. timer' \in [Countries -> 0..Patience]
        <3>1. timer[c] + 1 \in 0..Patience
            OBVIOUS
        <3> QED BY <3>1 DEF CountryTypeOK
    <2> QED BY <2>1 DEF CountryTypeOK
<1>5. CountryInv(c)' /\ res'[c] \in Holdings /\ batch'[c] >= batch[c] /\ pc'[c] # "posting"
    <2>1. pc[c] = "sleep" /\ pc'[c] = "poll"
        BY DEF CountryTypeOK
    <2>2. UNCHANGED <<res, todo, trades, passed, batch, left, success>>
        OBVIOUS
    <2>3. res'[c] \in Holdings /\ batch'[c] >= batch[c]
        BY <2>2 DEF CountryTypeOK
    <2>4. CountryInv(c)'
        BY <2>1, <2>2 DEF CountryInv, Trading
    <2> QED BY <2>1, <2>3, <2>4
<1> QED BY <1>1, <1>2, <1>3, <1>4, <1>5, QuietCountryStep

(* One round of the wait for a surplus.                                    *)
LEMMA WatchKeeps ==
    ASSUME IInv, NEW c \in Countries, Watch(c), UNCHANGED <<managerVars, mainVars>>
    PROVE  IInv'
<1> USE CountryState DEF Watch, queueVars
<1>1. ~Ended(c)
    BY DEF Ended
<1>2. QueueKept
    BY SameQueueKept
<1>3. Elsewhere(c)
    BY DEF Elsewhere, CountryTypeOK
<1>4. CountryTypeOK'
    <2>1. timer' \in [Countries -> 0..Patience]
        <3>1. timer[c] + 1 \in 0..Patience
            OBVIOUS
        <3> QED BY <3>1 DEF CountryTypeOK
    <2> QED BY <2>1 DEF CountryTypeOK
<1>5. CountryInv(c)'
    BY DEF CountryTypeOK, CountryInv, Trading
<1>6. res'[c] \in Holdings /\ batch'[c] >= batch[c] /\ pc'[c] # "posting"
    BY DEF CountryTypeOK
<1> QED BY <1>1, <1>2, <1>3, <1>4, <1>5, <1>6, QuietCountryStep

(* The wait for a surplus is given up.                                     *)
LEMMA TireKeeps ==
    ASSUME IInv, NEW c \in Countries, Tire(c), UNCHANGED <<managerVars, mainVars>>
    PROVE  IInv'
<1> USE CountryState DEF Tire, Step, queueVars
<1>1. ~Ended(c)
    BY DEF Ended
<1>2. QueueKept
    BY SameQueueKept
<1>3. Elsewhere(c)
    BY DEF Elsewhere, CountryTypeOK
<1>4. CountryTypeOK'
    BY DEF CountryTypeOK
<1>5. /\ pc[c] = "watch" /\ pc'[c] = "quit" /\ todo'[c] = trades[c]
      /\ UNCHANGED <<res, batch, trades, left, passed, success>>
    BY DEF CountryTypeOK
<1>6. CountryInv(c)'
    BY <1>5 DEF CountryInv, Trading
<1>7. res'[c] \in Holdings /\ batch'[c] >= batch[c] /\ pc'[c] # "posting"
    BY <1>5
<1> QED BY <1>1, <1>2, <1>3, <1>4, <1>6, <1>7, QuietCountryStep

-----------------------------------------------------------------------------
(* Ends of a schedule, and the transforms.                                 *)

(* GenerateNode returns to run().                                          *)
LEMMA EndOfSchedule ==
    ASSUME IInv, NEW c \in Countries, EndSchedule(c), ~Ended(c), pc[c] # "waiting"
    PROVE  /\ pc' \in [Countries -> {"off", "waiting", "node", "posting", "poll",
                                     "sleep", "watch", "gather", "quit", "dead"}]
           /\ left' \in [Countries -> 0..Schedules]
           /\ nodes' \in [Countries -> 0..Smaller(Depth, Frontier)]
           /\ pc'[c] \in {"off", "node"} /\ (pc'[c] = "node" => left'[c] >= 1)
           /\ \A d \in Countries \ {c} : pc'[d] = pc[d] /\ left'[d] = left[d]
<1>1. left[c] \in 1..Schedules
    BY CountryState DEF CountryInv, CountryTypeOK, Ended
<1>2. 0 \in 0..Smaller(Depth, Frontier)
    BY CountryState DEF Smaller
<1> QED BY <1>1, <1>2, CountryState DEF EndSchedule, CountryTypeOK

(* The depth or the frontier is reached.                                   *)
LEMMA ReachBoundKeeps ==
    ASSUME IInv, NEW c \in Countries, ReachBound(c), UNCHANGED <<managerVars, mainVars>>
    PROVE  IInv'
<1> USE CountryState DEF ReachBound, queueVars
<1>1. ~Ended(c) /\ pc[c] # "waiting"
    BY DEF Ended
<1>2. QueueKept
    BY SameQueueKept
<1>3. Elsewhere(c)
    BY <1>1, EndOfSchedule DEF Elsewhere
<1>4. CountryTypeOK'
    BY <1>1, EndOfSchedule DEF CountryTypeOK
<1>5. CountryInv(c)' /\ res'[c] \in Holdings /\ batch'[c] >= batch[c] /\ pc'[c] # "posting"
    BY <1>1, EndOfSchedule DEF CountryInv, Trading
<1> QED BY <1>1, <1>2, <1>3, <1>4, <1>5, QuietCountryStep

(* There is nothing to need or to spare.                                   *)
LEMMA BeOptimalKeeps ==
    ASSUME IInv, NEW c \in Countries, BeOptimal(c), UNCHANGED <<managerVars, mainVars>>
    PROVE  IInv'
<1> USE CountryState DEF BeOptimal, queueVars
<1>1. ~Ended(c) /\ pc[c] # "waiting"
    BY DEF Ended
<1>2. QueueKept
    BY SameQueueKept
<1>3. Elsewhere(c)
    BY <1>1, EndOfSchedule DEF Elsewhere
<1>4. CountryTypeOK'
    BY <1>1, EndOfSchedule DEF CountryTypeOK
<1>5. CountryInv(c)' /\ res'[c] \in Holdings /\ batch'[c] >= batch[c] /\ pc'[c] # "posting"
    BY <1>1, EndOfSchedule DEF CountryInv, Trading
<1> QED BY <1>1, <1>2, <1>3, <1>4, <1>5, QuietCountryStep

(* All entries have been withdrawn.                                        *)
LEMMA QuitKeeps ==
    ASSUME IInv, NEW c \in Countries, Quit(c), UNCHANGED <<managerVars, mainVars>>
    PROVE  IInv'
<1> USE CountryState DEF Quit, queueVars
<1>1. ~Ended(c) /\ pc[c] # "waiting"
    BY DEF Ended
<1>2. QueueKept
    BY SameQueueKept
<1>3. Elsewhere(c)
    BY <1>1, EndOfSchedule DEF Elsewhere, CountryTypeOK
<1>4. CountryTypeOK'
    BY <1>1, EndOfSchedule DEF CountryTypeOK
<1>5. CountryInv(c)' /\ res'[c] \in Holdings /\ batch'[c] >= batch[c] /\ pc'[c] # "posting"
    BY <1>1, EndOfSchedule DEF CountryInv, Trading, CountryTypeOK
<1> QED BY <1>1, <1>2, <1>3, <1>4, <1>5, QuietCountryStep

\* A country with a trade has an entry in it.
LEMMA TradeForIsTrade ==
    ASSUME IInv, NEW c \in Countries, Trading(c)
    PROVE  TradeFor(c) \in trades[c]
BY CountryState DEF CountryInv, TradeFor

(* A need's entry is removed and given up.                                 *)
LEMMA GiveUpKeeps ==
    ASSUME IInv, NEW c \in Countries, GiveUp(c), UNCHANGED <<managerVars, mainVars>>
    PROVE  IInv'
<1> USE CountryState DEF GiveUp
<1>1. ~Ended(c) /\ pc[c] # "waiting" /\ Trading(c)
    BY DEF Ended, Trading
<1>2. QueueKept
    BY <1>1, TradeForIsTrade, RemovalKeepsQueue
<1>3. Elsewhere(c)
    BY <1>1, EndOfSchedule DEF Elsewhere, CountryTypeOK
<1>4. CountryTypeOK'
    BY <1>1, EndOfSchedule DEF CountryTypeOK
<1>5. res' = res /\ batch' = batch /\ todo' = todo /\ trades'[c] = {}
    BY DEF CountryTypeOK
<1>6. CountryInv(c)'
    BY <1>1, <1>5, EndOfSchedule DEF CountryInv, Trading
<1>7. res'[c] \in Holdings /\ batch'[c] >= batch[c] /\ pc'[c] # "posting"
    BY <1>1, <1>5, EndOfSchedule
<1> QED BY <1>1, <1>2, <1>3, <1>4, <1>6, <1>7, QuietCountryStep

\* A new node stays within the bounds of the chain.
LEMMA NodeIsBounded ==
    ASSUME IInv, NEW c \in Countries, NewNode(c)
    PROVE  nodes' \in [Countries -> 0..Smaller(Depth, Frontier)]
BY CountryState DEF NewNode, AtBound, CountryTypeOK, Smaller

(* A loop of transforms is carried through.                                *)
LEMMA TransformKeeps ==
    ASSUME IInv, NEW c \in Countries, Transform(c), UNCHANGED <<managerVars, mainVars>>
    PROVE  IInv'
<1> USE CountryState
<1>1. ~Ended(c) /\ pc[c] = "node"
    BY DEF Ended, Transform, NewNode
<1>2. QueueKept
    BY SameQueueKept DEF Transform, queueVars
<1>3. PICK r \in Holdings : res' = [res EXCEPT ![c] = r]
    <2>1. /\ Smelts(res[c]) => AlloyRun(res[c], AlloysPlanned(res[c])) \in Holdings
          /\ BuildsHouses(res[c]) => HousingRun(res[c], HousesPlanned(res[c])) \in Holdings
          /\ BuildsElectronics(res[c]) =>
                ElectronicsRun(res[c], ElectronicsPlanned(res[c])) \in Holdings
        BY PlannedIsNat, RunsKeepHoldings
    <2> QED BY <2>1 DEF Transform, CountryTypeOK
<1>4. r \in [Kinds -> Int]
    BY DEF Holdings
<1>5. /\ nodes' \in [Countries -> 0..Smaller(Depth, Frontier)]
      /\ UNCHANGED <<begin, pc, left, batch, trades, todo, timer, passed, applied,
                     abandoned, deal, success>>
    BY NodeIsBounded DEF Transform, queueVars
<1>6. Elsewhere(c)
    BY <1>3, <1>5 DEF Elsewhere, CountryTypeOK
<1>7. CountryTypeOK'
    BY <1>3, <1>4, <1>5 DEF CountryTypeOK
<1>8. CountryInv(c)'
    BY <1>1, <1>5 DEF CountryInv, Trading
<1>9. res'[c] \in Holdings /\ batch'[c] >= batch[c] /\ pc'[c] # "posting"
    BY <1>1, <1>3, <1>5 DEF CountryTypeOK
<1> QED BY <1>1, <1>2, <1>6, <1>7, <1>8, <1>9, QuietCountryStep

-----------------------------------------------------------------------------
(* Posting.                                                                *)

\* New entries of a country that can be posted as the next batch.
Fresh(c, entries) ==
    /\ entries \subseteq Entry /\ entries # {}
    /\ \A e \in entries : /\ e.owner = c /\ e.batch = batch[c] + 1
                           /\ e.offered <= res[c][e.offer]

(* New entries, numbered higher than all others, are nowhere yet.          *)
LEMMA PostKeeps ==
    ASSUME IInv, NEW c \in Countries, NEW entries, Fresh(c, entries), Post(c, entries),
           UNCHANGED <<managerVars, mainVars>>
    PROVE  IInv'
<1> USE CountryState
<1>1. /\ pc[c] = "node" /\ ~Ended(c) /\ pc'[c] = "posting"
      /\ pc' = [pc EXCEPT ![c] = "posting"]
      /\ batch' = [batch EXCEPT ![c] = @ + 1]
      /\ trades' = [trades EXCEPT ![c] = entries] /\ todo' = [todo EXCEPT ![c] = entries]
      /\ timer' = [timer EXCEPT ![c] = 0]
      /\ UNCHANGED <<begin, res, left, passed, applied, abandoned, queue, scan, deal, success>>
      /\ batch'[c] = batch[c] + 1 /\ trades'[c] = entries /\ todo'[c] = entries
    BY DEF Ended, Post, NewNode, queueVars, CountryTypeOK
<1>2. QueueKept
    BY <1>1, SameQueueKept
<1>3. Elsewhere(c)
    BY <1>1 DEF Elsewhere, CountryTypeOK
<1>4. CountryTypeOK'
    <2>1. nodes' \in [Countries -> 0..Smaller(Depth, Frontier)]
        BY NodeIsBounded DEF Post
    <2>2. entries \subseteq Entry /\ 0 \in 0..Patience
        BY DEF Fresh
    <2> QED BY <1>1, <2>1, <2>2 DEF CountryTypeOK
<1>5. CountryInv(c)'
    BY <1>1 DEF CountryInv, Trading, Fresh
<1>6. todo'[c] \cap Filed' = {}
    <2>1. Filed' \subseteq Filed
        BY <1>2, <1>3, KeptGoesOn
    <2>2. \A e \in Filed : e.batch <= batch[e.owner]
        BY DEF IInv, FiledInv
    <2>3. \A e \in todo'[c] : e.owner = c /\ e.batch = batch[c] + 1
        BY <1>1 DEF Fresh
    <2> QED BY <2>1, <2>2, <2>3
<1>7. GoesOn(c)
    BY <1>1, <1>4, <1>5, <1>6 DEF GoesOn
<1> QED BY <1>1, <1>2, <1>3, <1>7, KeptGoesOn, CountryGoesOn

(* The entry for a need has what IInv asks of it: AskingIsSound.           *)
LEMMA PostNeedKeeps ==
    ASSUME IInv, NEW c \in Countries, PostNeed(c), UNCHANGED <<managerVars, mainVars>>
    PROVE  IInv'
<1>1. res[c] \in Holdings /\ Asks(res[c]) /\ Post(c, {NeedEntry(c)}) /\ batch[c] \in Nat
    BY CountryState DEF PostNeed
<1>2. /\ Need(res[c]) \in Asked /\ Needed(res[c]) \in Nat \ {0}
      /\ Offer(res[c]) \in Tradable /\ Offered(res[c]) \in 0..res[c][Offer(res[c])]
    BY <1>1, AskingIsSound
<1>3. res[c][Offer(res[c])] \in Nat
    BY <1>1, <1>2, HoldingsAreNat DEF Tradable
<1>4. NeedEntry(c) \in Entry
    BY <1>1, <1>2, <1>3 DEF NeedEntry, Entry
<1>5. /\ NeedEntry(c).owner = c /\ NeedEntry(c).batch = batch[c] + 1
      /\ NeedEntry(c).offered <= res[c][NeedEntry(c).offer]
    BY <1>2, <1>3 DEF NeedEntry
<1>6. Fresh(c, {NeedEntry(c)})
    BY <1>4, <1>5 DEF Fresh
<1> QED BY <1>1, <1>6, PostKeeps

(* So have the entries for the surpluses: RestingIsSound.                  *)
LEMMA PostSurplusKeeps ==
    ASSUME IInv, NEW c \in Countries, PostSurplus(c), UNCHANGED <<managerVars, mainVars>>
    PROVE  IInv'
<1>1. /\ res[c] \in Holdings /\ Rests(res[c]) /\ Spare(res[c]) # {}
      /\ Post(c, SurplusEntries(c)) /\ batch[c] \in Nat
    BY CountryState DEF PostSurplus
<1>2. LowestResource(res[c]) \in Asked
    BY <1>1, RestingIsSound
<1>3. ASSUME NEW e \in SurplusEntries(c)
      PROVE  /\ e \in Entry /\ e.owner = c /\ e.batch = batch[c] + 1
             /\ e.offered <= res[c][e.offer]
    <2>1. PICK k \in Spare(res[c]) :
            e = [owner |-> c, batch |-> batch[c] + 1, surplus |-> TRUE,
                 offer |-> k, offered |-> Surplus(res[c])[k],
                 need |-> LowestResource(res[c]), needed |-> Surplus(res[c])[k]]
        BY DEF SurplusEntries
    <2>2. k \in Tradable /\ k \in Spare(res[c])
        BY <1>1, SpareIsTradable
    <2>3. Surplus(res[c])[k] \in 0..res[c][k] /\ res[c][k] \in Nat
        BY <1>1, <2>2, SurplusIsHeld, HoldingsAreNat DEF Tradable
    <2>4. Surplus(res[c])[k] \in Nat \ {0}
        BY <2>2, <2>3 DEF Spare
    <2> QED BY <1>1, <1>2, <2>1, <2>2, <2>3, <2>4 DEF Entry
<1>4. SurplusEntries(c) # {}
    BY <1>1 DEF SurplusEntries
<1>5. Fresh(c, SurplusEntries(c))
    BY <1>3, <1>4 DEF Fresh
<1> QED BY <1>1, <1>5, PostKeeps

\* The next of a number of entries is one of them.
LEMMA NextIsIn ==
    ASSUME NEW S \in SUBSET Entry, S # {}
    PROVE  NextOf(S) \in S
<1> DEFINE offers == {e.offer : e \in S}
<1>1. offers \in SUBSET Kinds /\ offers # {}
    BY DEF Entry, Tradable
<1> HIDE DEF offers
<1>2. First(offers) \in offers /\ \A j \in offers : Position[First(offers)] <= Position[j]
    BY <1>1, FirstIsIn
<1>3. \E e \in S : \A f \in S : Position[e.offer] <= Position[f.offer]
    BY <1>2 DEF offers
<1> QED BY <1>3 DEF NextOf

(* queue_m.add puts a new entry into the queue, once.                      *)
LEMMA AddKeeps ==
    ASSUME IInv, NEW c \in Countries, Add(c), UNCHANGED <<managerVars, mainVars>>
    PROVE  IInv'
<1> DEFINE e == NextOf(todo[c])
<1> USE CountryState
<1>1. /\ e \in todo[c] /\ e \in trades[c] /\ e \in Entry /\ e.owner = c
      /\ pc[c] = "posting" /\ e \notin Filed
    <2>1. pc[c] = "posting" /\ todo[c] # {}
        BY DEF Add, CountryInv
    <2>2. e \in todo[c]
        BY <2>1, NextIsIn
    <2>3. todo[c] \cap Filed = {}
        BY <2>1 DEF IInv, FiledInv
    <2> QED BY <2>1, <2>2, <2>3 DEF CountryInv
<1>2. /\ Append1(e) /\ Len(queue) < Capacity
      /\ todo' = [todo EXCEPT ![c] = @ \ {e}]
      /\ pc' = [pc EXCEPT ![c] = IF todo[c] # {e} THEN "posting"
                                 ELSE IF e.surplus THEN "watch" ELSE "poll"]
      /\ UNCHANGED <<deal, success, begin, res, left, nodes, batch, trades, timer,
                     passed, applied, abandoned>>
    BY DEF Add, HasRoom
<1> HIDE DEF e
<1>3. /\ queue \in Seq(Entry) /\ scan \in Seq(Entry) /\ IsInjective(queue)
      /\ e \notin ToSet(queue) /\ e \notin DOMAIN deal /\ e # current /\ e # best
      /\ ManagerInv /\ Capacity \in Nat /\ Len(queue) \in Nat /\ e # None
    BY <1>1, TradeQueueAssumption DEF IInv, TypeOK, TradeQueueTypeOK, FiledInv, Filed
<1>4. /\ queue' \in Seq(Entry) /\ Len(queue') <= Capacity /\ IsInjective(queue')
      /\ ToSet(queue') = ToSet(queue) \cup {e}
    BY <1>1, <1>2, <1>3, AppendToSet DEF Append1
<1>5. /\ scan' \in Seq(Entry) /\ ToSet(scan') \subseteq ToSet(scan) \cup {e}
      /\ scan = <<>> => scan' = <<>>
    <2>1. CASE Len(scan) > 1
        <3>1. scan' = Append(scan, e) /\ scan # <<>>
            BY <1>2, <1>3, <2>1 DEF Append1
        <3> QED BY <1>1, <1>3, <3>1, AppendToSet
    <2>2. CASE ~(Len(scan) > 1)
        <3>1. scan' = scan
            BY <1>2, <2>2 DEF Append1
        <3> QED BY <1>3, <3>1
    <2> QED BY <2>1, <2>2
<1>6. UNCHANGED <<mpc, current, best, idle, shutdown>>
    BY DEF managerVars
<1>7. QueueGoesOn(c)
    <2>1. TradeQueueTypeOK'
        BY <1>2, <1>4, <1>5 DEF IInv, TypeOK, TradeQueueTypeOK
    <2>2. ManagerInv'
        BY <1>2, <1>3, <1>4, <1>5, <1>6 DEF ManagerInv, Busy, Settling, Open, Matches
    <2>3. Filed' \subseteq Filed \cup {e}
        BY <1>2, <1>4, <1>5, <1>6 DEF Filed
    <2> QED BY <1>1, <1>4, <2>1, <2>2, <2>3 DEF QueueGoesOn
<1>8. Elsewhere(c)
    BY <1>2 DEF Elsewhere, CountryTypeOK
<1>9. CountryTypeOK'
    BY <1>2 DEF CountryTypeOK
<1>10. /\ todo'[c] = todo[c] \ {e} /\ pc'[c] \in {"posting", "watch", "poll"}
       /\ (pc'[c] = "posting" <=> todo[c] # {e})
    BY <1>2 DEF CountryTypeOK
<1>11. CountryInv(c)'
    BY <1>1, <1>2, <1>10 DEF CountryInv, Trading
<1>12. GoesOn(c)
    <2>1. Filed' \subseteq Filed \cup {e}
        BY <1>2, <1>4, <1>5, <1>6 DEF Filed
    <2>2. todo[c] \cap Filed = {}
        BY <1>1 DEF IInv, FiledInv
    <2> QED BY <1>2, <1>9, <1>10, <1>11, <2>1, <2>2 DEF GoesOn
<1>13. ~Ended(c)
    BY <1>1 DEF Ended
<1> QED BY <1>7, <1>8, <1>12, <1>13, CountryGoesOn

(* queue_m.add throws.                                                     *)
LEMMA AddFailsKeeps ==
    ASSUME IInv, NEW c \in Countries, AddFails(c), UNCHANGED <<managerVars, mainVars>>
    PROVE  IInv'
<1> USE CountryState DEF AddFails, Step, queueVars
<1>1. ~Ended(c)
    BY DEF Ended
<1>2. QueueKept
    BY SameQueueKept
<1>3. Elsewhere(c)
    BY DEF Elsewhere, CountryTypeOK
<1>4. CountryTypeOK'
    BY DEF CountryTypeOK
<1>5. /\ pc'[c] = "dead" /\ trades'[c] = {} /\ todo'[c] = {}
      /\ UNCHANGED <<res, batch, left>>
    BY DEF CountryTypeOK
<1>6. CountryInv(c)'
    BY <1>5 DEF CountryInv, Trading
<1> QED BY <1>1, <1>2, <1>3, <1>4, <1>5, <1>6, QuietCountryStep

-----------------------------------------------------------------------------
(* Using and withdrawing.                                                  *)

(* A settled trade takes no more than was offered, which the country still *)
(* has.                                                                    *)
LEMMA UseKeepsHoldings ==
    ASSUME IInv, NEW c \in Countries, NEW e \in trades[c] \cap success
    PROVE  Assigned(res[c], e) \in Holdings
<1> USE CountryState
<1>1. /\ e \in Entry /\ e \in DOMAIN deal /\ deal[e] \in Deal
      /\ e.offered <= res[c][e.offer]
    BY DEF CountryInv
<1>2. deal[e].taken <= e.offered
    BY <1>1 DEF DealsBalance
<1>3. /\ Given(e) \in Nat /\ Taken(e) \in Nat /\ e.need \in Asked /\ e.offer \in Kinds
      /\ e.offered \in Nat
    BY <1>1 DEF Given, Taken, Deal, Entry, Tradable
<1>4. Taken(e) <= res[c][e.offer]
    BY <1>1, <1>2, <1>3, HoldingsAreNat DEF Taken
<1>5. Assigned(res[c], e) = [k \in Kinds |-> res[c][k] + (IF k = e.need THEN Given(e) ELSE 0)
                                                      - (IF k = e.offer THEN Taken(e) ELSE 0)]
    BY <1>3 DEF Assigned, Asked
<1>6. ASSUME NEW k \in Kinds
      PROVE  res[c][k] + (IF k = e.need THEN Given(e) ELSE 0)
                       - (IF k = e.offer THEN Taken(e) ELSE 0) \in Nat
    <2>1. res[c][k] \in Nat
        BY HoldingsAreNat
    <2> QED BY <1>3, <1>4, <2>1
<1> QED BY <1>5, <1>6 DEF Holdings

(* The result of a need's trade is used.                                   *)
LEMMA CollectKeeps ==
    ASSUME IInv, NEW c \in Countries, Collect(c), UNCHANGED <<managerVars, mainVars>>
    PROVE  IInv'
<1> USE CountryState
<1> DEFINE e == TradeFor(c)
<1>1. pc[c] = "poll" /\ ~Ended(c) /\ e \in trades[c] \cap success
    BY TradeForIsTrade DEF Collect, Step, Ended, Trading
<1>2. /\ pc' = [pc EXCEPT ![c] = "node"] /\ res' = [res EXCEPT ![c] = Assigned(@, e)]
      /\ applied' = applied \cup {e}
      /\ abandoned' = abandoned \cup (trades[c] \ {e})
      /\ trades' = [trades EXCEPT ![c] = {}]
      /\ UNCHANGED <<begin, left, nodes, batch, todo, timer, passed, queue, scan, deal, success>>
    BY DEF Collect, Step, Use, queueVars
<1> HIDE DEF e
<1> DEFINE r == Assigned(res[c], e)
<1>3. r \in Holdings /\ r \in [Kinds -> Int]
    BY <1>1, UseKeepsHoldings DEF Holdings
<1> HIDE DEF r
<1>4. res' = [res EXCEPT ![c] = r]
    BY <1>2 DEF r
<1>5. QueueKept
    BY <1>2, SameQueueKept
<1>6. Elsewhere(c)
    BY <1>2 DEF Elsewhere, CountryTypeOK
<1>7. CountryTypeOK'
    BY <1>1, <1>2, <1>3, <1>4 DEF CountryTypeOK
<1>8. /\ pc'[c] = "node" /\ trades'[c] = {} /\ todo'[c] = todo[c] /\ left'[c] = left[c]
      /\ res'[c] = r /\ batch'[c] = batch[c]
    BY <1>2, <1>4 DEF CountryTypeOK
<1>9. CountryInv(c)'
    BY <1>1, <1>8 DEF CountryInv, Trading
<1> QED BY <1>1, <1>3, <1>5, <1>6, <1>7, <1>8, <1>9, QuietCountryStep

(* The result of a surplus trade is used.                                  *)
LEMMA CollectPassedKeeps ==
    ASSUME IInv, NEW c \in Countries, CollectPassed(c), UNCHANGED <<managerVars, mainVars>>
    PROVE  IInv'
<1> USE CountryState
<1> DEFINE e == passed[c]
<1>1. pc[c] = "gather" /\ ~Ended(c) /\ todo[c] = {} /\ e \in trades[c] \cap success
    BY DEF CollectPassed, Step, Ended, CountryInv
<1>2. /\ pc' = [pc EXCEPT ![c] = "node"] /\ res' = [res EXCEPT ![c] = Assigned(@, e)]
      /\ applied' = applied \cup {e}
      /\ abandoned' = abandoned \cup (trades[c] \ {e})
      /\ trades' = [trades EXCEPT ![c] = {}]
      /\ passed' = [passed EXCEPT ![c] = None]
      /\ UNCHANGED <<begin, left, nodes, batch, todo, timer, queue, scan, deal, success>>
    BY DEF CollectPassed, Step, Use, queueVars
<1> HIDE DEF e
<1> DEFINE r == Assigned(res[c], e)
<1>3. r \in Holdings /\ r \in [Kinds -> Int]
    BY <1>1, UseKeepsHoldings DEF Holdings
<1> HIDE DEF r
<1>4. res' = [res EXCEPT ![c] = r]
    BY <1>2 DEF r
<1>5. QueueKept
    BY <1>2, SameQueueKept
<1>6. Elsewhere(c)
    BY <1>2 DEF Elsewhere, CountryTypeOK
<1>7. CountryTypeOK'
    BY <1>1, <1>2, <1>3, <1>4 DEF CountryTypeOK
<1>8. /\ pc'[c] = "node" /\ trades'[c] = {} /\ todo'[c] = todo[c] /\ left'[c] = left[c]
      /\ res'[c] = r /\ batch'[c] = batch[c]
    BY <1>2, <1>4 DEF CountryTypeOK
<1>9. CountryInv(c)'
    BY <1>1, <1>8 DEF CountryInv, Trading
<1> QED BY <1>1, <1>3, <1>5, <1>6, <1>7, <1>8, <1>9, QuietCountryStep

(* An entry is removed after the wait was given up.                        *)
LEMMA WithdrawKeeps ==
    ASSUME IInv, NEW c \in Countries, Withdraw(c), UNCHANGED <<managerVars, mainVars>>
    PROVE  IInv'
<1> USE CountryState
<1> DEFINE e == NextOf(todo[c])
<1>1. pc[c] = "quit" /\ ~Ended(c) /\ e \in todo[c] /\ e \in Entry
    BY NextIsIn DEF Withdraw, Ended
<1>2. /\ Remove1(e) /\ todo' = [todo EXCEPT ![c] = @ \ {e}]
      /\ abandoned' = abandoned \cup {e}
      /\ UNCHANGED <<deal, success, begin, pc, res, left, nodes, batch, trades, timer,
                     passed, applied>>
    BY DEF Withdraw
<1> HIDE DEF e
<1>3. QueueKept
    BY <1>1, <1>2, RemovalKeepsQueue
<1>4. Elsewhere(c)
    BY <1>2 DEF Elsewhere, CountryTypeOK
<1>5. CountryTypeOK'
    BY <1>1, <1>2 DEF CountryTypeOK
<1>6. todo'[c] = todo[c] \ {e}
    BY <1>2 DEF CountryTypeOK
<1>7. CountryInv(c)'
    BY <1>1, <1>2, <1>6 DEF CountryInv, Trading
<1> QED BY <1>1, <1>2, <1>3, <1>4, <1>5, <1>7, QuietCountryStep

(* An entry is removed after a success was seen.                           *)
LEMMA GatherKeeps ==
    ASSUME IInv, NEW c \in Countries, Gather(c), UNCHANGED <<managerVars, mainVars>>
    PROVE  IInv'
<1> USE CountryState
<1> DEFINE e == NextOf(todo[c])
<1>1. pc[c] = "gather" /\ ~Ended(c) /\ e \in todo[c] /\ e \in Entry
    BY NextIsIn DEF Gather, Ended
<1>2. /\ Remove1(e) /\ todo' = [todo EXCEPT ![c] = @ \ {e}]
      /\ passed' = [passed EXCEPT ![c] = IF e \in success THEN e ELSE @]
      /\ UNCHANGED <<deal, success, begin, pc, res, left, nodes, batch, trades, timer,
                     applied, abandoned>>
    BY DEF Gather
<1> HIDE DEF e
<1>3. QueueKept
    BY <1>1, <1>2, RemovalKeepsQueue
<1>4. Elsewhere(c)
    BY <1>2 DEF Elsewhere, CountryTypeOK
<1>5. CountryTypeOK'
    BY <1>1, <1>2 DEF CountryTypeOK
<1>6. /\ todo'[c] = todo[c] \ {e}
      /\ passed'[c] = IF e \in success THEN e ELSE passed[c]
    BY <1>2 DEF CountryTypeOK
<1>7. CountryInv(c)'
    BY <1>1, <1>2, <1>6 DEF CountryInv, Trading
<1> QED BY <1>1, <1>2, <1>3, <1>4, <1>5, <1>7, QuietCountryStep

(* Every step of a country preserves the invariant.                        *)
LEMMA CountryKeeps ==
    ASSUME IInv, NEW c \in Countries, CountryStep(c)
    PROVE  IInv'
BY StartKeeps, ReachBoundKeeps, TransformKeeps, PostNeedKeeps, PostSurplusKeeps,
   BeOptimalKeeps, AddKeeps, AddFailsKeeps, PollKeeps, CollectKeeps, WakeUpKeeps,
   GiveUpKeeps, WatchKeeps, TireKeeps, WithdrawKeeps, QuitKeeps, GatherKeeps,
   CollectPassedKeeps
   DEF CountryStep, CountryNext
-----------------------------------------------------------------------------
(* The driver, and the whole system *)

\* The empty sequence is the function on no entries.
LEMMA EmptyFunction ==
    ASSUME NEW S
    PROVE  DOMAIN <<>> = {} /\ <<>> \in [{} -> S]
<1>1. <<>> \in Seq(S) /\ Len(<<>>) = 0
    OBVIOUS
<1>2. <<>> \in [1..Len(<<>>) -> S]
    BY <1>1, LenProperties
<1>3. 1..0 = {}
    OBVIOUS
<1> QED BY <1>1, <1>2, <1>3

(* Amounts that are natural numbers are integers.                          *)
LEMMA HoldingsAreInt ==
    ASSUME NEW f \in [Countries -> Holdings]
    PROVE  f \in [Countries -> [Kinds -> Int]]
<1>1. \A r \in Holdings : r \in [Kinds -> Int]
    BY DEF Holdings
<1> QED BY <1>1

(* The invariant holds to begin with.                                      *)
LEMMA InitKeeps ==
    ASSUME Init
    PROVE  IInv
<1> USE DEF Init
<1>1. TypeOK
    <2>1. TradeQueueTypeOK
        <3>1. queue \in Seq(Entry) /\ scan \in Seq(Entry) /\ Len(queue) = 0
            BY DEF TradeQueueInit
        <3>2. DOMAIN deal = {} /\ deal \in [{} -> Deal]
            BY EmptyFunction DEF TradeQueueInit
        <3> QED BY <3>1, <3>2, TradeQueueAssumption DEF TradeQueueInit, TradeQueueTypeOK
    <2>2. ManagerTypeOK
        <3>1. idle \in 0..IdleLimit
            BY ManagerAssumption DEF ManagerInit
        <3> QED BY <3>1 DEF ManagerInit, ManagerTypeOK
    <2>3. CountryTypeOK
        <3>1. res \in [Countries -> [Kinds -> Int]]
            BY CountryAssumption, HoldingsAreInt DEF CountryInit
        <3>2. 0 \in 0..Schedules /\ 0 \in 0..Smaller(Depth, Frontier) /\ 0 \in 0..Patience
            BY CountryAssumption DEF Smaller
        <3> QED BY <3>1, <3>2 DEF CountryInit, CountryTypeOK
    <2>4. HermesTypeOK
        BY HermesAssumption DEF HermesTypeOK
    <2> QED BY <2>1, <2>2, <2>3, <2>4 DEF TypeOK
<1>2. ManagerInv
    BY EmptyToSet, EmptyFunction, ManagerAssumption
       DEF TradeQueueInit, ManagerInit, ManagerInv, Busy, Settling, Open
<1>3. FiledInv
    <2>1. Filed = {}
        BY EmptyToSet, EmptyFunction DEF TradeQueueInit, ManagerInit, Filed
    <2> QED BY <2>1, EmptyToSet DEF TradeQueueInit, CountryInit, FiledInv
<1>4. \A c \in Countries : CountryInv(c)
    BY DEF CountryInit, CountryInv, Trading
<1>5. MainInv
    BY HermesAssumption DEF ManagerInit, CountryInit, MainInv, Ended
<1>6. DealsBalance
    BY EmptyFunction DEF TradeQueueInit, DealsBalance
<1>7. NoDebt
    BY CountryAssumption DEF CountryInit, NoDebt
<1> QED BY <1>1, <1>2, <1>3, <1>4, <1>5, <1>6, <1>7 DEF IInv

-----------------------------------------------------------------------------
(* The driver.                                                             *)

(* The manager's thread starts.                                            *)
LEMMA StartManagerKeeps ==
    ASSUME IInv, StartManager
    PROVE  IInv'
<1> USE DEF StartManager, To, queueVars, countryVars
<1>1. mpc = "off" /\ round < Rounds /\ ManagerInv
    BY DEF IInv, MainInv
<1>2. TypeOK'
    BY DEF IInv, TypeOK, TradeQueueTypeOK, ManagerTypeOK, CountryTypeOK, HermesTypeOK
<1>3. ManagerInv'
    BY <1>1 DEF ManagerInv, Busy, Settling, Open
<1>4. FiledInv' /\ DealsBalance' /\ NoDebt'
    BY DEF IInv, FiledInv, Filed, DealsBalance, NoDebt
<1>5. \A c \in Countries : CountryInv(c)'
    BY DEF IInv, CountryInv, Trading
<1>6. MainInv'
    BY <1>1 DEF IInv, MainInv, Ended
<1> QED BY <1>2, <1>3, <1>4, <1>5, <1>6 DEF IInv

(* clear() at the start of a round: no country has entries then.           *)
LEMMA ClearQueueKeeps ==
    ASSUME IInv, ClearQueue
    PROVE  IInv'
<1> USE DEF ClearQueue, To, managerVars, countryVars
<1>1. round < Rounds /\ round \in 0..Rounds /\ Rounds \in Nat
    BY HermesAssumption DEF IInv, MainInv, TypeOK, HermesTypeOK
<1>2. QueueKept
    BY ClearKeepsQueue
<1>3. TypeOK'
    BY <1>1, <1>2 DEF IInv, TypeOK, TradeQueueTypeOK, ManagerTypeOK, CountryTypeOK,
                      HermesTypeOK, QueueKept
<1>4. ManagerInv'
    BY <1>2 DEF IInv, ManagerInv, Busy, Settling, Open, Matches, QueueKept
<1>5. Filed' \subseteq Filed
    BY <1>2 DEF Filed, QueueKept
<1>6. FiledInv' /\ DealsBalance' /\ NoDebt'
    BY <1>2, <1>5 DEF IInv, FiledInv, QueueKept, DealsBalance, NoDebt
<1>7. \A c \in Countries : CountryInv(c)'
    BY DEF IInv, CountryInv, Trading
<1>8. MainInv'
    BY DEF IInv, MainInv, Ended
<1> QED BY <1>3, <1>4, <1>6, <1>7, <1>8 DEF IInv

(* New threads for the countries that are left.                            *)
LEMMA SpawnKeeps ==
    ASSUME IInv, Spawn
    PROVE  IInv'
<1> USE DEF Spawn, To, queueVars, managerVars
<1>1. \A c \in Countries : Ended(c)
    BY DEF IInv, MainInv
<1>2. TypeOK'
    BY DEF IInv, TypeOK, TradeQueueTypeOK, ManagerTypeOK, CountryTypeOK, HermesTypeOK
<1>3. ManagerInv'
    BY DEF IInv, ManagerInv, Busy, Settling, Open, Matches
<1>4. FiledInv'
    BY <1>1 DEF IInv, FiledInv, Filed, Ended
<1>5. DealsBalance' /\ NoDebt'
    BY DEF IInv, DealsBalance, NoDebt
<1>6. \A c \in Countries : CountryInv(c)'
    BY <1>1 DEF IInv, CountryInv, Trading, Ended
<1>7. MainInv'
    BY <1>1 DEF IInv, MainInv, Ended
<1> QED BY <1>2, <1>3, <1>4, <1>5, <1>6, <1>7 DEF IInv

\* Steps that change nothing but the driver's place, the start signal and the
\* request to shut down.
LEMMA SignallingKeeps ==
    ASSUME IInv,
           begin' \in BOOLEAN, shutdown' \in BOOLEAN,
           main' \in {"join", "attack", "close", "over"},
           main' # "join" => \A c \in Countries : Ended(c),
           UNCHANGED <<queueVars, mpc, current, best, idle, pc, res, left, nodes, batch,
                       trades, todo, timer, passed, applied, abandoned, alive, next, round>>
    PROVE  IInv'
<1> USE DEF queueVars
<1>1. TypeOK'
    BY DEF IInv, TypeOK, TradeQueueTypeOK, ManagerTypeOK, CountryTypeOK, HermesTypeOK
<1>2. ManagerInv'
    BY DEF IInv, ManagerInv, Busy, Settling, Open, Matches
<1>3. FiledInv' /\ DealsBalance' /\ NoDebt'
    BY DEF IInv, FiledInv, Filed, DealsBalance, NoDebt
<1>4. \A c \in Countries : CountryInv(c)'
    BY DEF IInv, CountryInv, Trading
<1>5. MainInv'
    BY DEF IInv, MainInv, Ended
<1> QED BY <1>1, <1>2, <1>3, <1>4, <1>5 DEF IInv

(* BEGIN is set.                                                           *)
LEMMA SignalKeeps ==
    ASSUME IInv, Signal
    PROVE  IInv'
BY SignallingKeeps DEF Signal, To, managerVars, IInv, TypeOK, ManagerTypeOK

(* All threads of the countries have ended.                                *)
LEMMA JoinKeeps ==
    ASSUME IInv, Join
    PROVE  IInv'
<1>1. \A c \in Countries : Ended(c)
    BY DEF Join, IInv, MainInv
<1> QED BY <1>1, SignallingKeeps DEF Join, To, managerVars, IInv, TypeOK, ManagerTypeOK

(* The manager is told to stop.                                            *)
LEMMA ShutdownKeeps ==
    ASSUME IInv, Shutdown
    PROVE  IInv'
BY SignallingKeeps DEF Shutdown, To, countryVars, IInv, TypeOK, CountryTypeOK, MainInv

(* The manager's thread has ended.                                         *)
LEMMA JoinManagerKeeps ==
    ASSUME IInv, JoinManager
    PROVE  IInv'
BY SignallingKeeps
   DEF JoinManager, To, managerVars, countryVars, IInv, TypeOK, ManagerTypeOK,
       CountryTypeOK, MainInv

\* An attack leaves the holdings holdings.
LEMMA LossesKeepHoldings ==
    ASSUME NEW r \in Holdings, NEW q \in Losses(r)
    PROVE  q \in Holdings
<1>1. \A p \in Damages : p \in 0..100
    BY HermesAssumption
<1>2. CASE q = r
    BY <1>2
<1>3. CASE \E p \in Damages : q \in ReduceUrban(r, p)
    BY <1>1, <1>3, ReductionsKeepHoldings
<1>4. CASE \E p \in Damages \ {0} : \E s \in ReduceSupplies(r, p) : q \in ReduceUrban(s, 1)
    <2>1. PICK p \in Damages \ {0} : \E s \in ReduceSupplies(r, p) : q \in ReduceUrban(s, 1)
        BY <1>4
    <2>2. PICK s \in ReduceSupplies(r, p) : q \in ReduceUrban(s, 1)
        BY <2>1
    <2>3. s \in Holdings
        BY <1>1, <2>2, ReductionsKeepHoldings
    <2> QED BY <2>2, <2>3, ReductionsKeepHoldings
<1> DEFINE supplied == UNION {ReduceSupplies(r, p) : p \in Damages \ {0}}
           urban == UNION {ReduceUrban(r, p) : p \in Damages}
           both == UNION {ReduceUrban(s, 1) : s \in supplied}
<1>5. q \in urban => \E p \in Damages : q \in ReduceUrban(r, p)
    OBVIOUS
<1>6. \A s \in supplied : \E p \in Damages \ {0} : s \in ReduceSupplies(r, p)
    OBVIOUS
<1>7. q \in {r} \cup urban \cup both
    BY DEF Losses, AttackLosses
<1>8. q \in both => \E s \in supplied : q \in ReduceUrban(s, 1)
    <2> HIDE DEF supplied
    <2> QED OBVIOUS
<1> HIDE DEF supplied, urban, both
<1> QED BY <1>2, <1>3, <1>4, <1>5, <1>6, <1>7, <1>8

(* An attack takes from a country no more than it has, while no country    *)
(* runs.                                                                   *)
LEMMA AttackKeeps ==
    ASSUME IInv, Attack
    PROVE  IInv'
<1> USE DEF queueVars, managerVars
<1>1. /\ \A c \in Countries : Ended(c)
      /\ next \in Countries /\ res[next] \in Holdings
    BY DEF IInv, MainInv, Attack, TypeOK, HermesTypeOK, NoDebt
<1>2. PICK r \in Losses(res[next]) : res' = [res EXCEPT ![next] = r]
    BY DEF Attack
<1>3. r \in Holdings /\ r \in [Kinds -> Int]
    BY <1>1, LossesKeepHoldings DEF Holdings
<1>4. /\ UNCHANGED <<queue, scan, deal, success, mpc, current, best, idle, shutdown, begin,
                     pc, left, nodes, batch, trades, todo, timer, passed, applied,
                     abandoned, round>>
      /\ main' \in {"clear", "shutdown"} /\ (main' = "clear" => round < Rounds)
      /\ alive' \in {alive, alive \ {next}} /\ next' \in Countries
    BY <1>1 DEF Attack, To, IInv, TypeOK, HermesTypeOK
<1>5. TypeOK'
    <2>1. res' \in [Countries -> [Kinds -> Int]]
        BY <1>2, <1>3 DEF IInv, TypeOK, CountryTypeOK
    <2> QED BY <1>4, <2>1 DEF IInv, TypeOK, TradeQueueTypeOK, ManagerTypeOK, CountryTypeOK,
                              HermesTypeOK
<1>6. ManagerInv'
    BY <1>4 DEF IInv, ManagerInv, Busy, Settling, Open, Matches
<1>7. FiledInv' /\ DealsBalance'
    BY <1>4 DEF IInv, FiledInv, Filed, DealsBalance
<1>8. NoDebt'
    BY <1>2, <1>3 DEF IInv, TypeOK, CountryTypeOK, NoDebt
<1>9. \A c \in Countries : CountryInv(c)'
    BY <1>1, <1>4 DEF IInv, CountryInv, Trading, Ended
<1>10. MainInv'
    BY <1>1, <1>4 DEF IInv, MainInv, Ended
<1> QED BY <1>5, <1>6, <1>7, <1>8, <1>9, <1>10 DEF IInv

(* Every step of the driver preserves the invariant.                       *)
LEMMA MainKeeps ==
    ASSUME IInv, MainNext
    PROVE  IInv'
BY StartManagerKeeps, ClearQueueKeeps, SpawnKeeps, SignalKeeps, JoinKeeps, AttackKeeps,
   ShutdownKeeps, JoinManagerKeeps
   DEF MainNext

-----------------------------------------------------------------------------
(* Nothing happens.                                                        *)
LEMMA StutterKeeps ==
    ASSUME IInv, UNCHANGED vars
    PROVE  IInv'
<1> USE DEF vars, queueVars, managerVars, countryVars, mainVars
<1>1. TypeOK'
    BY DEF IInv, TypeOK, TradeQueueTypeOK, ManagerTypeOK, CountryTypeOK, HermesTypeOK
<1>2. ManagerInv'
    BY DEF IInv, ManagerInv, Busy, Settling, Open, Matches
<1>3. FiledInv' /\ DealsBalance' /\ NoDebt'
    BY DEF IInv, FiledInv, Filed, DealsBalance, NoDebt
<1>4. \A c \in Countries : CountryInv(c)'
    BY DEF IInv, CountryInv, Trading
<1>5. MainInv'
    BY DEF IInv, MainInv, Ended
<1> QED BY <1>1, <1>2, <1>3, <1>4, <1>5 DEF IInv

(* The inductive invariant holds throughout.                               *)
THEOREM InvariantHolds == Spec => []IInv
<1>1. Init => IInv
    BY InitKeeps
<1>2. IInv /\ [Next]_vars => IInv'
    <2> SUFFICES ASSUME IInv, [Next]_vars PROVE IInv'
        OBVIOUS
    <2>1. CASE MainNext
        BY <2>1, MainKeeps
    <2>2. CASE ManagerStep
        BY <2>2, ManagerKeeps
    <2>3. CASE \E c \in Countries : CountryStep(c)
        BY <2>3, CountryKeeps
    <2>4. CASE UNCHANGED vars
        BY <2>4, StutterKeeps
    <2> QED BY <2>1, <2>2, <2>3, <2>4 DEF Next
<1> QED BY <1>1, <1>2, PTL DEF Spec

(* Type correctness: among others, the queue never exceeds its capacity    *)
(* and every entry asks for a positive amount of something that            *)
(* AssignNewValues adds to its owner's holdings.                           *)
THEOREM TypeCorrect == Spec => []TypeOK
<1>1. IInv => TypeOK
    BY DEF IInv
<1> QED BY <1>1, InvariantHolds, PTL

(* Manager.java:80, "make sure this one hasn't been handled, which         *)
(* shouldn't happen": it does not.                                         *)
THEOREM HandledIsNeverTaken == Spec => []TakenIsFresh
<1>1. IInv => TakenIsFresh
    BY DEF IInv, ManagerInv, Open, TakenIsFresh
<1> QED BY <1>1, InvariantHolds, PTL

(* Manager.run never settles an entry twice, nor one with itself.          *)
THEOREM SettledOnce == Spec => []OffersAreOpen
<1>1. IInv => OffersAreOpen
    BY DEF IInv, ManagerInv, Open, Matches, OffersAreOpen
<1> QED BY <1>1, InvariantHolds, PTL

(* Every settled trade has two sides that agree on it, and nobody pays     *)
(* more than it offered.                                                   *)
THEOREM TradesBalance == Spec => []DealsBalance
<1>1. IInv => DealsBalance
    BY DEF IInv
<1> QED BY <1>1, InvariantHolds, PTL

(* No trade, transform or attack takes more from a country than it has.    *)
THEOREM NobodyInDebt == Spec => []NoDebt
<1>1. IInv => NoDebt
    BY DEF IInv
<1> QED BY <1>1, InvariantHolds, PTL

(* The queue never holds an entry twice, nor the one the manager works on. *)
THEOREM EntriesAreInOnePlace == Spec => []OnePlace
<1>1. IInv => OnePlace
    BY DEF IInv, ManagerInv, FiledInv, OnePlace
<1> QED BY <1>1, InvariantHolds, PTL

-----------------------------------------------------------------------------
(***************************************************************************)
(* No entry is lost while its owner waits for it, for all values of the    *)
(* constants.                                                              *)
(***************************************************************************)

(* What a country waits for is an entry of its own.                        *)
LEMMA WaitingIsOwn ==
    ASSUME IInv, NEW c \in Countries, NEW e \in Waiting(c)
    PROVE  e \in Entry /\ e.owner = c /\ e # None
BY CountryState, TradeQueueAssumption DEF Waiting, CountryInv

\* The manager drops nothing.
LEMMA ManagerKeepsAll ==
    ASSUME IInv, Marked, ManagerNext
    PROVE  Marked' /\ Kept \ {None} \subseteq Kept' /\ success \subseteq success'
<1> USE SharedState DEF Marked, Kept, Goto
<1>1. CASE Stop
    BY <1>1 DEF Stop, queueVars
<1>2. CASE Idle
    BY <1>2 DEF Idle, queueVars
<1>3. CASE Proceed
    BY <1>3 DEF Proceed, queueVars
<1>4. CASE Take
    <2>1. ToSet(queue) = {Head(queue)} \cup ToSet(Tail(queue)) /\ current = None
        BY <1>4, TailToSet DEF Take, ManagerInv, Busy
    <2> QED BY <1>4, <2>1 DEF Take
<1>5. CASE Inspect
    <2>1. current \notin success
        BY <1>5 DEF Inspect, ManagerInv, Open
    <2> QED BY <1>5, <2>1 DEF Inspect
<1>6. CASE ScanPerfect
    BY <1>6 DEF ScanPerfect
<1>7. CASE ScanNext
    BY <1>7 DEF ScanNext
<1>8. CASE ScanEnd
    BY <1>8 DEF ScanEnd, queueVars
<1>9. CASE NoMatch
    BY <1>9 DEF NoMatch, queueVars
<1>10. CASE SettleUndercut
    BY <1>10 DEF SettleUndercut
<1>11. CASE SettlePriced
    BY <1>11 DEF SettlePriced
<1>12. CASE TooLittle
    BY <1>12 DEF TooLittle, queueVars
<1>13. CASE MarkCurrent
    BY <1>13 DEF MarkCurrent
<1>14. CASE MarkBest
    BY <1>14 DEF MarkBest
<1>15. CASE RemoveBoth
    <2> DEFINE q == RemoveFirst(queue, current)
    <2>1. q \in Seq(Entry) /\ IsInjective(q) /\ ToSet(q) = ToSet(queue) \ {current}
        BY RemoveFirstToSet
    <2>2. ToSet(RemoveFirst(q, best)) = ToSet(q) \ {best}
        <3> HIDE DEF q
        <3> QED BY <2>1, RemoveFirstToSet
    <2> QED BY <1>15, <2>1, <2>2 DEF RemoveBoth
<1>16. CASE PutBack
    <2>1. ToSet(queue') = ToSet(queue) \cup {current}
        BY <1>16, AppendToSet DEF PutBack, Append1, ManagerInv, Busy, ManagerTypeOK
    <2> QED BY <1>16, <2>1 DEF PutBack
<1> QED BY <1>1, <1>2, <1>3, <1>4, <1>5, <1>6, <1>7, <1>8, <1>9, <1>10, <1>11, <1>12,
           <1>13, <1>14, <1>15, <1>16 DEF ManagerNext

(* No step of the manager loses an entry.                                  *)
LEMMA ManagerLosesNothing ==
    ASSUME IInv, LossInv, ManagerStep
    PROVE  LossInv'
<1>1. Marked' /\ Kept \ {None} \subseteq Kept'
    BY ManagerKeepsAll DEF LossInv, ManagerStep
<1>2. UNCHANGED <<pc, trades, todo>>
    BY DEF ManagerStep, countryVars
<1>3. NothingLost'
    BY <1>1, <1>2, WaitingIsOwn DEF LossInv, NothingLost, Waiting
<1> QED BY <1>1, <1>3 DEF LossInv

\* A country takes only entries of its own out of the queue.
LEMMA OthersLoseNothing ==
    ASSUME IInv, LossInv, NEW c \in Countries, Elsewhere(c),
           \A e \in ToSet(queue) \ ToSet(queue') : e.owner = c,
           pc'[c] \in {"posting", "poll", "sleep", "watch"} => Waiting(c)' \subseteq Kept'
    PROVE  LossInv'
<1>1. UNCHANGED <<success, mpc, current, best>>
    BY DEF Elsewhere, managerVars
<1>2. Marked'
    BY <1>1 DEF LossInv, Marked
<1>3. ASSUME NEW d \in Countries, pc'[d] \in {"posting", "poll", "sleep", "watch"},
             NEW e \in Waiting(d)'
      PROVE  e \in Kept'
    <2>1. CASE d = c
        BY <1>3, <2>1
    <2>2. CASE d # c
        <3>1. pc[d] = pc'[d] /\ e \in Waiting(d)
            BY <2>2 DEF Waiting, Elsewhere
        <3>2. e \in Kept /\ e.owner # c
            BY <1>3, <2>2, <3>1, WaitingIsOwn DEF LossInv, NothingLost
        <3> QED BY <1>1, <3>2 DEF Kept
    <2> QED BY <2>1, <2>2
<1> QED BY <1>2, <1>3 DEF LossInv, NothingLost

\* A country's step leaves the others alone.
LEMMA CountryElsewhere ==
    ASSUME IInv, NEW c \in Countries, CountryStep(c)
    PROVE  Elsewhere(c)
<1> USE CountryState DEF CountryStep, Elsewhere, CountryTypeOK
<1>1. CASE Start(c)
    BY <1>1 DEF Start, Step, queueVars
<1>2. CASE ReachBound(c)
    BY <1>2 DEF ReachBound, EndSchedule, queueVars
<1>3. CASE Transform(c)
    BY <1>3 DEF Transform, NewNode, queueVars
<1>4. CASE PostNeed(c)
    BY <1>4 DEF PostNeed, Post, NewNode, queueVars
<1>5. CASE PostSurplus(c)
    BY <1>5 DEF PostSurplus, Post, NewNode, queueVars
<1>6. CASE BeOptimal(c)
    BY <1>6 DEF BeOptimal, EndSchedule, queueVars
<1>7. CASE Add(c)
    BY <1>7 DEF Add
<1>8. CASE AddFails(c)
    BY <1>8 DEF AddFails, Step, queueVars
<1>9. CASE Poll(c)
    BY <1>9 DEF Poll, Step, queueVars
<1>10. CASE Collect(c)
    BY <1>10 DEF Collect, Step, Use, queueVars
<1>11. CASE WakeUp(c)
    BY <1>11 DEF WakeUp, Step, queueVars
<1>12. CASE GiveUp(c)
    BY <1>12 DEF GiveUp, EndSchedule
<1>13. CASE Watch(c)
    BY <1>13 DEF Watch, queueVars
<1>14. CASE Tire(c)
    BY <1>14 DEF Tire, Step, queueVars
<1>15. CASE Withdraw(c)
    BY <1>15 DEF Withdraw
<1>16. CASE Quit(c)
    BY <1>16 DEF Quit, EndSchedule, queueVars
<1>17. CASE Gather(c)
    BY <1>17 DEF Gather
<1>18. CASE CollectPassed(c)
    BY <1>18 DEF CollectPassed, Step, Use, queueVars
<1> QED BY <1>1, <1>2, <1>3, <1>4, <1>5, <1>6, <1>7, <1>8, <1>9, <1>10,
           <1>11, <1>12, <1>13, <1>14, <1>15, <1>16, <1>17, <1>18 DEF CountryStep, CountryNext

\* Steps of a country that leave the queue alone and after which it is not
\* waiting, or waiting for the same entries as before.
LEMMA QuietLosesNothing ==
    ASSUME IInv, LossInv, NEW c \in Countries, CountryStep(c), queue' = queue,
           pc'[c] \in {"posting", "poll", "sleep", "watch"} =>
                \/ Waiting(c)' = {}
                \/ pc[c] \in {"posting", "poll", "sleep", "watch"} /\ Waiting(c)' = Waiting(c)
    PROVE  LossInv'
<1>1. Elsewhere(c)
    BY CountryElsewhere
<1>2. Kept' = Kept
    BY <1>1 DEF Elsewhere, managerVars, Kept
<1> QED BY <1>1, <1>2, OthersLoseNothing DEF LossInv, NothingLost

(* No step of a country loses an entry, its own or another's.              *)
LEMMA CountryLosesNothing ==
    ASSUME IInv, LossInv, NEW c \in Countries, CountryStep(c)
    PROVE  LossInv'
<1> USE CountryState DEF CountryTypeOK
<1>1. CASE Start(c) \/ AddFails(c) \/ Collect(c) \/ Tire(c) \/ CollectPassed(c)
    <2>1. pc'[c] \in {"node", "dead", "quit"} /\ queue' = queue
        BY <1>1 DEF Start, AddFails, Collect, Tire, CollectPassed, Step, queueVars
    <2> QED BY <2>1, QuietLosesNothing
<1>2. CASE ReachBound(c) \/ BeOptimal(c) \/ Quit(c)
    <2>1. pc'[c] \in {"node", "off"} /\ queue' = queue
        BY <1>2 DEF ReachBound, BeOptimal, Quit, EndSchedule, queueVars
    <2> QED BY <2>1, QuietLosesNothing
<1>3. CASE Transform(c)
    <2>1. pc'[c] = "node" /\ queue' = queue
        BY <1>3 DEF Transform, NewNode, queueVars
    <2> QED BY <2>1, QuietLosesNothing
<1>4. CASE PostNeed(c) \/ PostSurplus(c)
    <2>1. pc'[c] = "posting" /\ queue' = queue /\ trades'[c] = todo'[c]
        BY <1>4 DEF PostNeed, PostSurplus, Post, NewNode, queueVars
    <2>2. Waiting(c)' = {}
        BY <2>1 DEF Waiting
    <2> QED BY <2>1, <2>2, QuietLosesNothing
<1>5. CASE Poll(c) \/ WakeUp(c)
    <2>1. /\ {pc[c], pc'[c]} \subseteq {"poll", "sleep"} /\ queue' = queue
          /\ UNCHANGED <<trades, todo>>
        BY <1>5 DEF Poll, WakeUp, Step, queueVars
    <2>2. Waiting(c)' = Waiting(c)
        BY <2>1 DEF Waiting
    <2> QED BY <2>1, <2>2, QuietLosesNothing
<1>6. CASE Watch(c)
    <2>1. /\ pc[c] = "watch" /\ pc'[c] \in {"watch", "gather"} /\ queue' = queue
          /\ trades' = trades
        BY <1>6 DEF Watch, queueVars
    <2>2. pc'[c] = "watch" => Waiting(c)' = Waiting(c)
        BY <2>1 DEF Waiting
    <2> QED BY <2>1, <2>2, QuietLosesNothing
<1>7. CASE GiveUp(c) \/ Withdraw(c) \/ Gather(c)
    <2>1. PICK e \in Entry : Remove1(e) /\ e.owner = c
        <3>1. CASE GiveUp(c)
            BY <3>1, TradeForIsTrade DEF GiveUp, Trading, CountryInv
        <3>2. CASE Withdraw(c)
            BY <3>2, NextIsIn DEF Withdraw, CountryInv
        <3>3. CASE Gather(c)
            BY <3>3, NextIsIn DEF Gather, CountryInv
        <3> QED BY <1>7, <3>1, <3>2, <3>3
    <2>2. \A x \in ToSet(queue) \ ToSet(queue') : x.owner = c
        <3>1. queue \in Seq(Entry) /\ IsInjective(queue)
            BY SharedState
        <3> QED BY <2>1, <3>1, RemoveFirstToSet DEF Remove1
    <2>3. pc'[c] \notin {"posting", "poll", "sleep", "watch"}
        BY <1>7 DEF GiveUp, Withdraw, Gather, EndSchedule
    <2> QED BY <2>2, <2>3, CountryElsewhere, OthersLoseNothing
<1>8. CASE Add(c)
    <2> DEFINE e == NextOf(todo[c])
    <2>1. /\ pc[c] = "posting" /\ e \in todo[c] /\ e \in Entry /\ todo[c] \subseteq trades[c]
        BY <1>8, NextIsIn DEF Add, CountryInv
    <2>2. ToSet(queue') = ToSet(queue) \cup {e}
        BY <1>8, <2>1, SharedState, AppendToSet DEF Add, Append1
    <2>3. /\ trades' = trades /\ todo'[c] = todo[c] \ {e}
          /\ pc'[c] = "posting" \/ todo[c] = {e}
        BY <1>8 DEF Add
    <2> HIDE DEF e
    <2>4. Waiting(c)' \subseteq Waiting(c) \cup {e}
        BY <2>1, <2>3 DEF Waiting
    <2>5. Waiting(c) \subseteq Kept
        BY <2>1 DEF LossInv, NothingLost
    <2>6. Elsewhere(c)
        BY CountryElsewhere
    <2>7. Kept \cup {e} \subseteq Kept'
        BY <2>2, <2>6 DEF Kept, Elsewhere, managerVars
    <2> QED BY <2>2, <2>4, <2>5, <2>6, <2>7, OthersLoseNothing
<1> QED BY <1>1, <1>2, <1>3, <1>4, <1>5, <1>6, <1>7, <1>8 DEF CountryStep, CountryNext

\* While the driver works on the countries none of them waits; the other steps
\* of the driver touch no entry.
LEMMA DriverLosesNothing ==
    ASSUME IInv, LossInv, MainNext
    PROVE  LossInv'
<1>1. CASE ClearQueue \/ Spawn \/ Attack
    <2>1. \A c \in Countries : pc'[c] \in {"off", "dead", "waiting"}
        BY <1>1 DEF ClearQueue, Spawn, Attack, countryVars, IInv, MainInv, Ended
    <2>2. Marked'
        BY <1>1 DEF ClearQueue, Spawn, Attack, managerVars, queueVars, LossInv, Marked
    <2> QED BY <2>1, <2>2 DEF LossInv, NothingLost
<1>2. CASE StartManager \/ Signal \/ Join \/ Shutdown \/ JoinManager
    <2>1. /\ UNCHANGED <<queue, success, current, best, pc, trades, todo>>
          /\ mpc' = mpc \/ (mpc = "off" /\ mpc' = "check")
        BY <1>2 DEF StartManager, Signal, Join, Shutdown, JoinManager, managerVars,
                    queueVars, countryVars, IInv, MainInv
    <2> QED BY <2>1 DEF LossInv, NothingLost, Waiting, Kept, Marked
<1> QED BY <1>1, <1>2 DEF MainNext

(* The invariant behind NothingLost.                                       *)
THEOREM LossInvariantHolds == Spec => []LossInv
<1>1. Init => LossInv
    BY DEF Init, CountryInit, ManagerInit, LossInv, NothingLost, Marked
<1>2. IInv /\ LossInv /\ [Next]_vars => LossInv'
    <2> SUFFICES ASSUME IInv, LossInv, [Next]_vars PROVE LossInv'
        OBVIOUS
    <2>1. CASE Next
        BY <2>1, DriverLosesNothing, ManagerLosesNothing, CountryLosesNothing DEF Next
    <2>2. CASE UNCHANGED vars
        BY <2>2 DEF vars, queueVars, managerVars, countryVars, LossInv, NothingLost,
                    Waiting, Kept, Marked
    <2> QED BY <2>1, <2>2
<1> QED BY <1>1, <1>2, InvariantHolds, PTL DEF Spec

(* While its owner waits for it, an entry is in the queue, in the          *)
(* manager's hand or settled: no path of Manager.run, and nothing another  *)
(* country does, makes it disappear.                                       *)
THEOREM NothingIsLost == Spec => []NothingLost
<1>1. LossInv => NothingLost
    BY DEF LossInv
<1> QED BY <1>1, LossInvariantHolds, PTL

-----------------------------------------------------------------------------
(***************************************************************************)
(* Trading makes nothing, for all values of the constants.                 *)
(***************************************************************************)

Account(r, k) == [c \in Countries |-> r[c][k]]

\* Held and Unsettled are sums in the sense of PlannerProofs, now ...
LEMMA SumsAreTotals ==
    ASSUME NEW k
    PROVE  /\ Held(k) = Total(Account(res, k), Countries)
           /\ Held(k)' = Total(Account(res', k), Countries)
           /\ Unsettled(k) = Total(Moves(k), DOMAIN deal \ applied)
           /\ Unsettled(k)' = Total(Moves(k)', DOMAIN deal' \ applied')
<1>1. DOMAIN Account(res, k) = Countries /\ DOMAIN Account(res', k) = Countries
    BY DEF Account
<1>2. Held(k) = Total(Account(res, k), Countries)
    BY <1>1 DEF Held, SumFunction, Total, Account
<1>3. Held(k)' = Total(Account(res', k), Countries)
    BY <1>1 DEF Held, SumFunction, Total, Account
<1>4. Unsettled(k) = Total(Moves(k), DOMAIN deal \ applied)
    BY DEF Unsettled, Total
<1>5. Unsettled(k)' = Total(Moves(k)', DOMAIN deal' \ applied')
    BY DEF Unsettled, Total
<1> QED BY <1>2, <1>3, <1>4, <1>5

\* ... and sums of integers.
LEMMA SummandsAreInt ==
    ASSUME IInv, UsedInv, NEW k \in Kinds
    PROVE  /\ IsFiniteSet(Countries) /\ IsFiniteSet(DOMAIN deal \ applied)
           /\ \A c \in Countries : Account(res, k)[c] \in Int
           /\ \A e \in DOMAIN deal : Moves(k)[e] \in Int
<1>1. IsFiniteSet(DOMAIN deal \ applied)
    BY FS_Subset DEF UsedInv
<1>2. \A c \in Countries : Account(res, k)[c] \in Int
    BY CountryState DEF Account
<1>3. ASSUME NEW e \in DOMAIN deal
      PROVE  Moves(k)[e] \in Int
    <2>1. deal[e] \in Deal
        BY DEF IInv, TypeOK, TradeQueueTypeOK
    <2>2. deal[e].given \in Int /\ deal[e].taken \in Int
        BY <2>1 DEF Deal
    <2> QED BY <2>2 DEF Moves
<1> QED BY <1>1, <1>2, <1>3, HermesAssumption

Balanced == \A k \in Kinds : Held(k)' + Unsettled(k)' = Held(k) + Unsettled(k)

(* Steps that move nothing.                                                *)
LEMMA IdleBalances ==
    ASSUME UNCHANGED <<res, deal, applied>>
    PROVE  Balanced
<1>1. \A k \in Kinds : Held(k)' = Held(k) /\ Unsettled(k)' = Unsettled(k)
    BY DEF Held, Unsettled, Moves
<1> QED BY <1>1 DEF Balanced

(* Matching two entries moves nothing yet, and what the one will receive   *)
(* the other will pay.                                                     *)
LEMMA MatchMovesNothing ==
    ASSUME IInv, UsedInv,
           NEW f \in Entry, current \in Entry,
           current \notin DOMAIN deal, f \notin DOMAIN deal, Matches(f),
           NEW g \in Nat, NEW t \in Nat, Match(current, g, t, f),
           UNCHANGED <<res, applied>>
    PROVE  Balanced /\ DOMAIN deal' = DOMAIN deal \cup {current, f}
<1>1. current # f /\ f.need = current.offer /\ f.offer = current.need
    BY DEF Matches
<1>2. /\ DOMAIN deal' = DOMAIN deal \cup {current, f}
      /\ \A x \in DOMAIN deal : deal'[x] = deal[x]
      /\ deal'[current] = [given |-> g, taken |-> t, partner |-> f]
      /\ deal'[f] = [given |-> t, taken |-> g, partner |-> current]
    BY <1>1 DEF Match
<1> SUFFICES ASSUME NEW k \in Kinds
             PROVE  Held(k)' + Unsettled(k)' = Held(k) + Unsettled(k)
    BY <1>2 DEF Balanced
<1>3. Held(k)' = Held(k)
    BY DEF Held
<1>4. PICK old : old = Moves(k)
    OBVIOUS
<1>5. PICK new : new = Moves(k)'
    OBVIOUS
<1>6. PICK S : S = DOMAIN deal \ applied
    OBVIOUS
<1>7. /\ current \notin S /\ f \notin S \cup {current}
      /\ DOMAIN deal' \ applied' = (S \cup {current}) \cup {f}
    BY <1>1, <1>2, <1>6 DEF UsedInv
<1>8. /\ \A x \in S : new[x] = old[x] /\ old[x] \in Int
      /\ IsFiniteSet(S)
    <2>1. \A x \in S : new[x] = old[x]
        BY <1>2, <1>4, <1>5, <1>6 DEF Moves
    <2> QED BY <1>4, <1>6, <2>1, SummandsAreInt
<1>9. /\ new[current] = (IF current.need = k THEN g ELSE 0) - (IF current.offer = k THEN t ELSE 0)
      /\ new[f] = (IF f.need = k THEN t ELSE 0) - (IF f.offer = k THEN g ELSE 0)
    BY <1>2, <1>5 DEF Moves
<1>10. /\ new[current] \in Int /\ new[f] \in Int /\ new[current] + new[f] = 0
    BY <1>1, <1>9
<1>11. Total(new, S) = Total(old, S)
    BY <1>8, TotalSame
<1>12. IsFiniteSet(S \cup {current}) /\ Total(new, S) \in Int
    BY <1>8, FS_AddElement, TotalRemove
<1>13. Total(new, S \cup {current}) = new[current] + Total(new, S)
    BY <1>7, <1>8, <1>10, TotalAdd
<1>14. Total(new, (S \cup {current}) \cup {f}) = new[f] + Total(new, S \cup {current})
    <2> DEFINE U == S \cup {current}
    <2>1. IsFiniteSet(U) /\ f \notin U /\ \A y \in U \cup {f} : new[y] \in Int
        BY <1>7, <1>8, <1>10, <1>12
    <2> HIDE DEF U
    <2>2. Total(new, U \cup {f}) = new[f] + Total(new, U)
        BY <2>1, TotalAdd
    <2> QED BY <2>2 DEF U
<1>15. Unsettled(k) = Total(old, S) /\ Unsettled(k)' = Total(new, (S \cup {current}) \cup {f})
    BY <1>4, <1>5, <1>6, <1>7, SumsAreTotals
<1>16. Unsettled(k)' = Unsettled(k)
    BY <1>10, <1>11, <1>12, <1>13, <1>14, <1>15
<1> QED BY <1>3, <1>16

(* Using a settled trade moves exactly what was still to move.             *)
LEMMA UseMovesTheRest ==
    ASSUME IInv, UsedInv, NEW c \in Countries, NEW e \in trades[c] \cap success,
           Use(c, e), UNCHANGED deal
    PROVE  Balanced
<1>1. /\ e \in Entry /\ e \in DOMAIN deal /\ deal[e] \in Deal /\ e \notin applied
      /\ res[c] \in [Kinds -> Int]
    BY CountryState DEF UsedInv
<1>2. /\ e.need \in Asked /\ e.need \notin {"electronics", "housing"}
      /\ deal[e].given \in Nat /\ deal[e].taken \in Nat
      /\ Given(e) = deal[e].given /\ Taken(e) = deal[e].taken
    BY <1>1 DEF Entry, Asked, Deal, Given, Taken
<1> SUFFICES ASSUME NEW k \in Kinds
             PROVE  Held(k)' + Unsettled(k)' = Held(k) + Unsettled(k)
    BY DEF Balanced
<1>3. PICK move : move = (IF e.need = k THEN deal[e].given ELSE 0)
                         - (IF e.offer = k THEN deal[e].taken ELSE 0)
    OBVIOUS
<1>4. /\ res'[c][k] = res[c][k] + move /\ move \in Int /\ res[c][k] \in Int
      /\ \A d \in Countries \ {c} : res'[d] = res[d]
    BY <1>1, <1>2, <1>3, CountryState DEF Use, Assigned, CountryTypeOK
<1>5. Held(k)' = Held(k) + move /\ Held(k) \in Int
    <2>1. PICK old : old = Account(res, k)
        OBVIOUS
    <2>2. PICK new : new = Account(res', k)
        OBVIOUS
    <2>3. \A d \in Countries \ {c} : new[d] = old[d]
        BY <1>4, <2>1, <2>2 DEF Account
    <2>4. new[c] - old[c] = move /\ new[c] \in Int
        BY <1>4, <2>1, <2>2 DEF Account
    <2>5. \A d \in Countries : old[d] \in Int
        BY <2>1, SummandsAreInt
    <2>6. /\ Total(old, Countries) \in Int
          /\ Total(new, Countries) = Total(old, Countries) + (new[c] - old[c])
        BY <2>3, <2>4, <2>5, HermesAssumption, TotalChange
    <2> QED BY <2>1, <2>2, <2>4, <2>6, SumsAreTotals
<1>6. Unsettled(k) = move + Unsettled(k)' /\ Unsettled(k)' \in Int
    <2>1. PICK old : old = Moves(k)
        OBVIOUS
    <2>2. Moves(k)' = old
        BY <2>1 DEF Moves
    <2>3. PICK S : S = DOMAIN deal \ applied
        OBVIOUS
    <2>4. e \in S /\ DOMAIN deal' \ applied' = S \ {e}
        BY <1>1, <2>3 DEF Use
    <2>5. IsFiniteSet(S) /\ \A x \in S : old[x] \in Int
        BY <2>1, <2>3, SummandsAreInt
    <2>6. Total(old, S) = old[e] + Total(old, S \ {e})
        BY <2>4, <2>5, TotalRemove
    <2>7. Total(old, S \ {e}) \in Int
        BY <2>5, FS_RemoveElement, TotalRemove
    <2>8. old[e] = move
        BY <1>1, <1>3, <2>1 DEF Moves
    <2>9. Unsettled(k) = Total(old, S) /\ Unsettled(k)' = Total(old, S \ {e})
        BY <2>1, <2>2, <2>3, <2>4, SumsAreTotals
    <2> QED BY <2>6, <2>7, <2>8, <2>9
<1> QED BY <1>4, <1>5, <1>6
\* Steps that move nothing and after which no country waits for a used entry.
LEMMA QuietKeepsUsed ==
    ASSUME UsedInv, UNCHANGED <<res, deal, applied>>,
           \A c \in Countries : trades'[c] \subseteq trades[c] \/ trades'[c] \cap DOMAIN deal = {}
    PROVE  Balanced /\ UsedInv'
BY IdleBalances DEF UsedInv

\* A finite set with two more elements is finite.
LEMMA TwoMore ==
    ASSUME NEW S, IsFiniteSet(S), NEW x, NEW y
    PROVE  IsFiniteSet(S \cup {x, y})
<1>1. IsFiniteSet(S \cup {x})
    BY FS_AddElement
<1>2. IsFiniteSet((S \cup {x}) \cup {y})
    BY <1>1, FS_AddElement
<1>3. (S \cup {x}) \cup {y} = S \cup {x, y}
    OBVIOUS
<1> QED BY <1>2, <1>3

(* The manager creates nothing, and settles only what nobody has used.     *)
LEMMA SettlingBalances ==
    ASSUME IInv, UsedInv, NEW f \in Entry, current \in Entry,
           current \notin DOMAIN deal, f \notin DOMAIN deal, Matches(f),
           NEW g \in Nat, NEW t \in Nat, Match(current, g, t, f),
           UNCHANGED <<countryVars, mainVars>>
    PROVE  Balanced /\ UsedInv'
<1>1. UNCHANGED <<res, applied, trades>>
    BY DEF countryVars
<1>2. Balanced /\ DOMAIN deal' = DOMAIN deal \cup {current, f}
    BY <1>1, MatchMovesNothing
<1>3. IsFiniteSet(DOMAIN deal')
    <2>1. IsFiniteSet(DOMAIN deal \cup {current, f})
        <3>1. PICK S : S = DOMAIN deal
            OBVIOUS
        <3>2. IsFiniteSet(S \cup {current, f})
            BY <3>1, TwoMore DEF UsedInv
        <3> QED BY <3>1, <3>2
    <2> QED BY <1>2, <2>1
<1> QED BY <1>1, <1>2, <1>3 DEF UsedInv

\* The manager's steps keep the balance: what it books for both sides of a trade
\* is in the deal.
LEMMA ManagerBalances ==
    ASSUME IInv, UsedInv, ManagerStep
    PROVE  Balanced /\ UsedInv'
<1> USE SharedState
<1>1. UNCHANGED <<res, applied, trades, countryVars, mainVars>>
    BY DEF ManagerStep, countryVars
<1>2. CASE ScanPerfect
    <2> DEFINE f == Head(scan)
    <2>1. /\ f \in Entry /\ f \in ToSet(scan) /\ current \in Entry
          /\ current \notin DOMAIN deal
        BY <1>2, TailToSet DEF ScanPerfect, ManagerInv, Busy, Open, ManagerTypeOK
    <2>2. f \notin DOMAIN deal /\ Matches(f) /\ Match(current, f.offered, current.offered, f)
        BY <1>2, <2>1 DEF ScanPerfect, Perfect, ManagerInv
    <2>3. f.offered \in Nat /\ current.offered \in Nat
        BY <2>1 DEF Entry
    <2> HIDE DEF f
    <2> QED BY <1>1, <2>1, <2>2, <2>3, SettlingBalances
<1>3. CASE SettleUndercut \/ SettlePriced
    <2>1. /\ best \in Entry /\ current \in Entry /\ Matches(best)
          /\ best \notin DOMAIN deal /\ current \notin DOMAIN deal
        BY <1>3 DEF SettleUndercut, SettlePriced, ManagerInv, Busy, Open, ManagerTypeOK
    <2>2. /\ best.offered \in Nat /\ best.needed \in Nat \ {0} /\ current.offered \in Nat
        BY <2>1 DEF Entry
    <2>3. \E g \in Nat, t \in Nat : Match(current, g, t, best)
        <3>1. CASE SettleUndercut
            BY <2>2, <3>1 DEF SettleUndercut
        <3>2. CASE SettlePriced
            <4>1. PICK final \in Worth : final >= 1 /\ Match(current, final, current.offered, best)
                BY <3>2 DEF SettlePriced
            <4>2. current.offered <= best.needed
                BY <2>2, <3>2 DEF SettlePriced, Undercuts
            <4> DEFINE price == (current.offered * best.offered) \div best.needed
            <4>3. price \in Int
                BY <2>2, <4>2, PriceIsCovered
            <4>4. final = price \/ final = price - 1
                BY <4>1 DEF Worth
            <4> HIDE DEF price
            <4>5. final \in Nat
                BY <4>1, <4>3, <4>4
            <4> QED BY <2>2, <4>1, <4>5
        <3> QED BY <1>3, <3>1, <3>2
    <2> QED BY <1>1, <2>1, <2>3, SettlingBalances
<1>4. CASE ~ScanPerfect /\ ~SettleUndercut /\ ~SettlePriced
    <2>1. deal' = deal
        BY <1>4 DEF ManagerStep, ManagerNext, Stop, Idle, Proceed, Take, Inspect, ScanNext,
                    ScanEnd, NoMatch, TooLittle, MarkCurrent, MarkBest, RemoveBoth, PutBack,
                    queueVars
    <2> QED BY <1>1, <2>1, QuietKeepsUsed
<1> QED BY <1>2, <1>3, <1>4

\* New entries have not been settled yet.
LEMMA PostBalances ==
    ASSUME IInv, UsedInv, NEW c \in Countries, CountryStep(c), PostNeed(c) \/ PostSurplus(c)
    PROVE  Balanced /\ UsedInv'
<1>1. UNCHANGED <<res, deal, applied>> /\ pc'[c] = "posting" /\ trades'[c] = todo'[c]
    BY CountryState DEF PostNeed, PostSurplus, Post, CountryTypeOK, queueVars
<1>2. IInv'
    BY CountryKeeps
<1>3. trades'[c] \cap DOMAIN deal = {}
    BY <1>1, <1>2 DEF IInv, FiledInv, Filed
<1>4. \A d \in Countries \ {c} : trades'[d] = trades[d]
    BY CountryElsewhere DEF Elsewhere
<1> QED BY <1>1, <1>3, <1>4, QuietKeepsUsed

\* An entry that is used was not used before, and is not waited for any more.
LEMMA UseBalances ==
    ASSUME IInv, UsedInv, NEW c \in Countries, NEW e \in trades[c] \cap success,
           Use(c, e), UNCHANGED deal
    PROVE  Balanced /\ UsedInv'
<1>1. Balanced
    BY UseMovesTheRest
<1>2. /\ applied' = applied \cup {e} /\ e \in DOMAIN deal /\ e.owner = c
      /\ \A d \in Countries : trades'[d] = IF d = c THEN {} ELSE trades[d]
    BY CountryState DEF Use, CountryTypeOK, CountryInv
<1>3. \A d \in Countries : \A x \in trades[d] : x.owner = d
    BY CountryState DEF CountryInv
<1> QED BY <1>1, <1>2, <1>3 DEF UsedInv

\* A country's steps keep it: what one takes out of a deal it gets.
LEMMA CountryBalances ==
    ASSUME IInv, UsedInv, NEW c \in Countries, CountryStep(c)
    PROVE  UsedInv' /\ (~Transform(c) => Balanced)
<1> USE CountryState DEF CountryTypeOK
<1>1. CASE PostNeed(c) \/ PostSurplus(c)
    BY <1>1, PostBalances
<1>2. CASE Collect(c)
    <2>1. TradeFor(c) \in trades[c] \cap success /\ Use(c, TradeFor(c)) /\ UNCHANGED deal
        BY <1>2, TradeForIsTrade DEF Collect, Step, Trading, queueVars
    <2> QED BY <2>1, UseBalances
<1>3. CASE CollectPassed(c)
    <2>1. passed[c] \in trades[c] \cap success /\ Use(c, passed[c]) /\ UNCHANGED deal
        BY <1>3 DEF CollectPassed, Step, CountryInv, queueVars
    <2> QED BY <2>1, UseBalances
<1>4. CASE Transform(c)
    <2>1. UNCHANGED <<deal, trades, applied>>
        BY <1>4 DEF Transform, queueVars
    <2>2. UsedInv'
        BY <2>1 DEF UsedInv
    <2>3. ASSUME ~Transform(c) PROVE Balanced
        BY <1>4, <2>3
    <2> QED BY <2>2, <2>3
<1>5. CASE Start(c) \/ ReachBound(c) \/ BeOptimal(c) \/ Add(c) \/ Poll(c) \/ WakeUp(c)
           \/ Watch(c) \/ Tire(c) \/ Withdraw(c) \/ Gather(c)
    <2>1. UNCHANGED <<res, deal, applied, trades>>
        BY <1>5 DEF Start, ReachBound, BeOptimal, Add, Poll, WakeUp, Watch, Tire, Withdraw,
                    Gather, queueVars
    <2> QED BY <2>1, QuietKeepsUsed
<1>6. CASE AddFails(c) \/ GiveUp(c) \/ Quit(c)
    <2>1. UNCHANGED <<res, deal, applied>> /\ trades' = [trades EXCEPT ![c] = {}]
        BY <1>6 DEF AddFails, GiveUp, Quit, queueVars
    <2>2. \A d \in Countries : trades'[d] \subseteq trades[d]
        BY <2>1
    <2> QED BY <2>1, <2>2, QuietKeepsUsed
<1> QED BY <1>1, <1>2, <1>3, <1>4, <1>5, <1>6 DEF CountryStep, CountryNext

\* The steps of the driver keep it, an attack aside.
LEMMA DriverBalances ==
    ASSUME IInv, UsedInv, MainNext
    PROVE  UsedInv' /\ (~Attack => Balanced)
<1>1. UNCHANGED <<deal, applied, trades>>
    BY DEF MainNext, StartManager, ClearQueue, Spawn, Signal, Join, Attack, Shutdown,
           JoinManager, queueVars, managerVars, countryVars
<1>2. UsedInv'
    BY <1>1 DEF UsedInv
<1>3. ASSUME ~Attack
      PROVE  Balanced
    <2>1. UNCHANGED res
        BY <1>3 DEF MainNext, StartManager, ClearQueue, Spawn, Signal, Join, Shutdown,
                    JoinManager, queueVars, managerVars, countryVars
    <2> QED BY <1>1, <2>1, IdleBalances
<1> QED BY <1>2, <1>3

(* An entry is settled before it is used, and used at most once.           *)
THEOREM UsedOnce == Spec => []UsedInv
<1>1. Init => UsedInv
    BY EmptyFunction, FS_EmptySet DEF Init, TradeQueueInit, CountryInit, UsedInv
<1>2. IInv /\ UsedInv /\ [Next]_vars => UsedInv'
    <2> SUFFICES ASSUME IInv, UsedInv, [Next]_vars PROVE UsedInv'
        OBVIOUS
    <2>1. CASE Next
        BY <2>1, ManagerBalances, CountryBalances, DriverBalances DEF Next
    <2>2. CASE UNCHANGED vars
        BY <2>2 DEF vars, queueVars, managerVars, countryVars, mainVars, UsedInv
    <2> QED BY <2>1, <2>2
<1> QED BY <1>1, <1>2, InvariantHolds, PTL DEF Spec

(* What the countries hold of a kind, with what settled trades will still  *)
(* move, changes only by transforms and attacks: Manager.run gives one     *)
(* side what it takes from the other, and AssignNewValues books each trade *)
(* once.                                                                   *)
THEOREM NothingIsMade == Spec => TradeMakesNothing
<1>1. IInv /\ UsedInv /\ [Next]_vars =>
        [~Attack /\ (\A c \in Countries : ~Transform(c)) =>
            \A k \in Kinds : Held(k)' + Unsettled(k)' = Held(k) + Unsettled(k)]_vars
    <2> SUFFICES ASSUME IInv, UsedInv, Next,
                        ~Attack, \A c \in Countries : ~Transform(c)
                 PROVE  Balanced
        BY DEF Balanced
    <2> QED BY ManagerBalances, CountryBalances, DriverBalances DEF Next
<1> QED BY <1>1, InvariantHolds, UsedOnce, PTL DEF Spec, TradeMakesNothing

(* The whole inductive invariant.                                          *)
THEOREM WholeInvariantHolds == Spec => []WholeInv
<1>1. IInv /\ LossInv /\ UsedInv => WholeInv
    BY DEF WholeInv
<1> QED BY <1>1, InvariantHolds, LossInvariantHolds, UsedOnce, PTL
==============================================================================
