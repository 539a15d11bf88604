-------------------------------- MODULE Solo ---------------------------------
(***************************************************************************)
(* A country on its own: it starts from any holdings within the bounds and *)
(* follows its plan.  A trade, when it asks for one, brings what it asked  *)
(* for at the price it offered, so that every branch is reached, also from *)
(* holdings that only a run of branches leads to.                          *)
(***************************************************************************)
EXTENDS PlannerProofs

CONSTANTS
    Populations, Stocks, Mades   \* the initial amounts: population, raw stocks, goods

ASSUME SoloAssumption ==
    Populations \subseteq Nat /\ Stocks \subseteq Nat /\ Mades \subseteq Nat

VARIABLE res

Init ==
    \E p \in Populations, e, t, a \in Stocks, x, h \in Mades :
        res = [population |-> p, elements |-> e, timber |-> t, alloys |-> a,
               alloysWaste |-> 0, electronics |-> x, housing |-> h,
               housingWaste |-> 0]

Smelt == Smelts(res) /\ res' = AlloyRun(res, AlloysPlanned(res))

BuildHouses == BuildsHouses(res) /\ res' = HousingRun(res, HousesPlanned(res))

BuildElectronics ==
    BuildsElectronics(res) /\ res' = ElectronicsRun(res, ElectronicsPlanned(res))

Trade ==
    /\ Asks(res)
    /\ res' = [res EXCEPT ![Need(res)] = @ + Needed(res),
                          ![Offer(res)] = @ - Offered(res)]

Next == Smelt \/ BuildHouses \/ BuildElectronics \/ Trade

Spec == Init /\ [][Next]_res

-----------------------------------------------------------------------------
(* Every amount stays a natural number: no branch of the plan consumes or  *)
(* gives away what is not there.                                           *)
TypeOK == res \in Holdings

(* The country never starts a loop of transforms that its stocks cannot    *)
(* carry through, so the "Error performing ... Transform" messages of      *)
(* GenerateNode (Country.java:348-349, 398-399, 485-486) are never printed.*)
BuildsSucceed ==
    /\ Smelts(res)            => AlloysPlanned(res) <= AlloyCap(res)
    /\ BuildsHouses(res)      => HousesPlanned(res) <= HousingCap(res)
    /\ BuildsElectronics(res) => ElectronicsPlanned(res) <= ElectronicsCap(res)

(* What a country offers it has, and what it asks for is a positive        *)
(* amount of one of the resources AssignNewValues adds (its branches for   *)
(* electronics and housing, Country.java:734-743, would take the goods     *)
(* away from the country that bought them).                                *)
AsksAreSound ==
    /\ Asks(res) => /\ Offered(res) \in 0..res[Offer(res)]
                    /\ Needed(res) > 0
    /\ Rests(res) => LowestResource(res) \in Asked

(* The closed forms of the loops agree with calling the transforms one     *)
(* after another, as the code does.                                        *)
LoopsAreCalls ==
    \A n \in {0, 1, 2, 5, 9} :
        /\ AlloyRun(res, n)       = Repeat(AlloyTransform, res, n)
        /\ HousingRun(res, n)     = Repeat(HousingTransform, res, n)
        /\ ElectronicsRun(res, n) = Repeat(ElectronicsTransform, res, n)

(* Building electronics settles the need for them, and smelting the need   *)
(* for alloys, so the next node of the search takes another branch         *)
(* (Country.java:439-450, 475-487).                                        *)
BuildsSettleTheNeed ==
    [][ /\ BuildElectronics => ~ElectronicsNeeded(res')
        /\ Smelt            => AlloysDeficit(res') = 0 ]_res

-----------------------------------------------------------------------------
(***************************************************************************)
(* The safety properties of Solo, whatever the country starts with.        *)
(***************************************************************************)

(* Every branch of the plan leaves natural numbers.                        *)
LEMMA SoloStep ==
    ASSUME TypeOK, [Next]_res
    PROVE  TypeOK'
<1>1. CASE Smelt
    BY <1>1, RunsKeepHoldings, PlannedIsNat DEF TypeOK, Smelt
<1>2. CASE BuildHouses
    BY <1>2, RunsKeepHoldings, PlannedIsNat DEF TypeOK, BuildHouses
<1>3. CASE BuildElectronics
    BY <1>3, RunsKeepHoldings, PlannedIsNat DEF TypeOK, BuildElectronics
<1>4. CASE Trade
    <2> DEFINE k == Need(res)
               j == Offer(res)
               m == Needed(res)
               n == Offered(res)
    <2>1. k \in Kinds /\ j \in Kinds /\ m \in Nat /\ n \in 0..res[j] /\ res \in [Kinds -> Nat]
        BY <1>4, AskingIsSound DEF Trade, TypeOK, Holdings, Asked, Tradable, Kinds
    <2>2. res' = [res EXCEPT ![k] = @ + m, ![j] = @ - n]
        BY <1>4 DEF Trade
    <2> HIDE DEF k, j, m, n
    <2>3. \A i \in Kinds : res'[i] \in Nat
        BY <2>1, <2>2
    <2>4. res' \in [Kinds -> Nat]
        BY <2>1, <2>2, <2>3
    <2> QED BY <2>4 DEF TypeOK, Holdings
<1>5. CASE UNCHANGED res
    BY <1>5 DEF TypeOK
<1> QED BY <1>1, <1>2, <1>3, <1>4, <1>5 DEF Next

(* Every amount stays a natural number: no branch of the plan consumes or  *)
(* gives away what is not there.                                           *)
THEOREM SoloTypeCorrect == Spec => []TypeOK
<1>1. Init => TypeOK
    BY SoloAssumption DEF Init, TypeOK, Holdings, Kinds
<1>2. TypeOK /\ [Next]_res => TypeOK'
    BY SoloStep
<1> QED BY <1>1, <1>2, PTL DEF Spec

(* Every loop of transforms that is started can be carried through.        *)
THEOREM SoloBuildsSucceed == Spec => []BuildsSucceed
<1>1. TypeOK => BuildsSucceed
    BY LoopsCanBeCarriedThrough DEF TypeOK, BuildsSucceed
<1> QED BY <1>1, SoloTypeCorrect, PTL

(* What is asked for and offered is sound.                                 *)
THEOREM SoloAsksAreSound == Spec => []AsksAreSound
<1>1. TypeOK => AsksAreSound
    BY AskingIsSound, RestingIsSound DEF TypeOK, AsksAreSound
<1> QED BY <1>1, SoloTypeCorrect, PTL

(* After any loop the holdings are what its calls one by one lead to; the  *)
(* instances of the property, and all other numbers of calls.              *)
THEOREM SoloLoopsAreCalls == Spec => []LoopsAreCalls
<1>1. TypeOK => LoopsAreCalls
    BY AlloyLoop, HousingLoop, ElectronicsLoop DEF TypeOK, LoopsAreCalls
<1> QED BY <1>1, SoloTypeCorrect, PTL

(* A node that builds electronics or smelts leaves nothing of the need.    *)
THEOREM SoloBuildsSettle == Spec => BuildsSettleTheNeed
<1>1. TypeOK /\ [Next]_res =>
         [ /\ BuildElectronics => ~ElectronicsNeeded(res')
           /\ Smelt            => AlloysDeficit(res') = 0 ]_res
    BY BuildingSettlesTheNeed DEF TypeOK, BuildElectronics, Smelt
<1> QED BY <1>1, SoloTypeCorrect, PTL DEF Spec, BuildsSettleTheNeed
==============================================================================
