------------------------------- MODULE Planner -------------------------------
(***************************************************************************)
(* The holdings of a country, what changes them outside a trade, and how a *)
(* country decides what to do next.                                        *)
(*                                                                         *)
(* What changes them are the three transforms (Hermes/Transforms), each    *)
(* called in a counted loop by Country.GenerateNode, and the two           *)
(* reductions an attack applies (Country.Reduce_Urban and                  *)
(* Country.Reduce_Supplies).  A country holds eight Resource objects; here *)
(* they are one record of amounts.  The amounts are Java longs; none of    *)
(* the operations below comes near 2^63, so they are unbounded here.       *)
(*                                                                         *)
(* What it does next are Country.CalculateStatus (what it needs, how much  *)
(* it lacks, what it can spare) and the decisions of Country.GenerateNode  *)
(* (what it builds, what it asks for, what it offers), functions of the    *)
(* holdings r alone.  The waste entries of the status (positions 4 and 7)  *)
(* are left out: GenerateNode skips them and nothing but the log reads     *)
(* them.                                                                   *)
(***************************************************************************)
EXTENDS Integers

\* Status.values_m: the eight resources, in the order every list of the code uses.
Position == [population  |-> 0, elements    |-> 1, timber  |-> 2,
             alloys      |-> 3, alloysWaste |-> 4, electronics |-> 5,
             housing     |-> 6, housingWaste |-> 7]

Kinds == {"population", "elements", "timber", "alloys", "alloysWaste",
          "electronics", "housing", "housingWaste"}

Wastes == {"alloysWaste", "housingWaste"}

\* What a country holds: an amount of every kind.
Holdings == [Kinds -> Nat]

Smaller(m, n) == IF m < n THEN m ELSE n

-----------------------------------------------------------------------------
(* One call of each transform.  A call whose preconditions fail returns    *)
(* false and changes nothing.                                              *)

AlloyTransform(r) ==
    IF r.population >= 1 /\ r.elements >= 2
    THEN [r EXCEPT !.elements = @ - 2, !.alloys = @ + 1, !.alloysWaste = @ + 1]
    ELSE r

HousingTransform(r) ==
    IF r.population >= 5 /\ r.elements >= 1 /\ r.timber >= 5 /\ r.alloys >= 3
    THEN [r EXCEPT !.elements = @ - 1, !.timber = @ - 5, !.alloys = @ - 3,
                   !.housing = @ + 1, !.housingWaste = @ + 1]
    ELSE r

\* The fifth argument of the call (Country.java:477-483) is the alloys' waste.
ElectronicsTransform(r) ==
    IF r.population >= 1 /\ r.elements >= 3 /\ r.alloys >= 2
    THEN [r EXCEPT !.elements = @ - 3, !.alloys = @ - 2,
                   !.electronics = @ + 2, !.alloysWaste = @ + 1]
    ELSE r

-----------------------------------------------------------------------------
(* The loops of GenerateNode around them, "for (it = 0; it < n; it++)".    *)
(* Calls succeed until a precondition fails and fail from then on, so n    *)
(* calls amount to the first min(n, cap) of them, where cap is how many    *)
(* the stocks allow.                                                       *)

AlloyCap(r) == IF r.population >= 1 THEN r.elements \div 2 ELSE 0

\* Mutated: the elements a house takes are forgotten.
HousingCapWithoutElements(r) ==
    IF r.population >= 5 THEN Smaller(r.timber \div 5, r.alloys \div 3) ELSE 0

HousingCap(r) ==
    IF r.population >= 5
    THEN Smaller(r.elements, Smaller(r.timber \div 5, r.alloys \div 3))
    ELSE 0

ElectronicsCap(r) ==
    IF r.population >= 1
    THEN Smaller(r.elements \div 3, r.alloys \div 2)
    ELSE 0

AlloyRun(r, n) ==
    LET m == Smaller(n, AlloyCap(r))
    IN  [r EXCEPT !.elements = @ - 2 * m, !.alloys = @ + m, !.alloysWaste = @ + m]

HousingRun(r, n) ==
    LET m == Smaller(n, HousingCap(r))
    IN  [r EXCEPT !.elements = @ - m, !.timber = @ - 5 * m, !.alloys = @ - 3 * m,
                  !.housing = @ + m, !.housingWaste = @ + m]

ElectronicsRun(r, n) ==
    LET m == Smaller(n, ElectronicsCap(r))
    IN  [r EXCEPT !.elements = @ - 3 * m, !.alloys = @ - 2 * m,
                  !.electronics = @ + 2 * m, !.alloysWaste = @ + m]

-----------------------------------------------------------------------------
(* An attack that takes p percent.  The code computes                      *)
(* (long)(amount * modifier) with modifier = (float)(.01 * p): where       *)
(* p percent of the amount is a whole number, the product of floats may    *)
(* fall on either side of it, so the result may be one less.  (True of     *)
(* amounts below about 10^5; beyond that a float loses further digits.)    *)

Cut(a, p) ==
    {(a * p) \div 100} \cup
    (IF p \in 1..99 /\ a > 0 /\ (a * p) % 100 = 0 THEN {(a * p) \div 100 - 1} ELSE {})

UrbanLoss(r, x, y, z) ==
    [r EXCEPT !.population = @ - x, !.housing = @ - y, !.electronics = @ - z]

SupplyLoss(r, x, y) == [r EXCEPT !.elements = @ - x, !.alloys = @ - y]

ReduceUrban(r, p) ==
    {UrbanLoss(r, x, y, z) :
        x \in Cut(r.population, p), y \in Cut(r.housing, p), z \in Cut(r.electronics, p)}

ReduceSupplies(r, p) ==
    {SupplyLoss(r, x, y) : x \in Cut(r.elements, p), y \in Cut(r.alloys, p)}

\* Everything ExecuteAttack may leave of r, for damages in D: an attack on the
\* resources takes p percent of the supplies and one percent of the rest, one
\* on the population p percent of it.
AttackLosses(r, D) ==
    LET supplied == UNION {ReduceSupplies(r, p) : p \in D \ {0}}
    IN  {r} \cup (UNION {ReduceUrban(r, p) : p \in D})
            \cup (UNION {ReduceUrban(q, 1) : q \in supplied})

-----------------------------------------------------------------------------
(* What CalculateStatus and GenerateNode decide. *)

\* How much of "wanted" is missing from "have".
Shortfall(wanted, have) == IF wanted > have THEN wanted - have ELSE 0

-----------------------------------------------------------------------------
(* CalculateStatus: the flags that are not just "the deficit is positive". *)

PopulationNeeded(r) == r.population < 5 \/ r.population < r.housing

HousingNeeded(r) ==
    IF r.housing < 1 THEN r.population > 1
                     ELSE r.population \div r.housing > 4

ElectronicsNeeded(r) ==
    r.population >= 1 /\ r.electronics \div r.population < 1

(* CalculateStatus: the deficits. *)

PopulationDeficit(r) ==
    IF r.population < 5 THEN 5 - r.population
                        ELSE Shortfall(r.housing, r.population)

HousingDeficit(r) ==
    IF HousingNeeded(r) THEN r.population \div 4 - r.housing ELSE 0

ElectronicsDeficit(r) ==
    IF ElectronicsNeeded(r) THEN 2 * r.population - r.electronics ELSE 0

\* Houses take priority over electronics.
AlloysWanted(r) ==
    IF HousingNeeded(r) THEN 3 * HousingDeficit(r)
    ELSE IF ElectronicsNeeded(r) THEN 2 * ElectronicsDeficit(r) ELSE 0

AlloysDeficit(r) == Shortfall(AlloysWanted(r), r.alloys)

\* Mutated: the elements of the houses themselves are forgotten.
ElementsWantedForAlloys(r) ==
    IF AlloysDeficit(r) > 0 THEN 2 * AlloysDeficit(r)
    ELSE IF HousingNeeded(r) THEN 0
    ELSE IF ElectronicsNeeded(r) THEN 3 * ElectronicsDeficit(r) ELSE 0

ElementsWanted(r) ==
    IF AlloysDeficit(r) > 0 THEN 2 * AlloysDeficit(r)
    ELSE IF HousingNeeded(r) THEN HousingDeficit(r)
    ELSE IF ElectronicsNeeded(r) THEN 3 * ElectronicsDeficit(r) ELSE 0

ElementsDeficit(r) == Shortfall(ElementsWanted(r), r.elements)

TimberDeficit(r) == Shortfall(5 * HousingDeficit(r), r.timber)

-----------------------------------------------------------------------------
(* CalculateStatus: the surpluses.  The code's guards on the electronics   *)
(* and housing surpluses (not needed, population at least one) only        *)
(* exclude cases in which the difference is not positive anyway.           *)

Tradable == Kinds \ Wastes

Surplus(r) ==
    LET Half(n, busy) == IF busy THEN 0 ELSE n \div 2
        building == HousingNeeded(r) \/ ElectronicsNeeded(r)
    IN  [population  |-> IF PopulationNeeded(r) THEN 0
                                                ELSE r.population - r.housing,
         elements    |-> Half(r.elements, building),
         timber      |-> Half(r.timber, TimberDeficit(r) > 0),
         alloys      |-> Half(r.alloys, building),
         electronics |-> Shortfall(r.electronics, 2 * r.population),
         housing     |-> Shortfall(r.housing, r.population)]

Spare(r) == {k \in Tradable : Surplus(r)[k] > 0}

\* The lists are walked in order and a later equal amount does not replace
\* an earlier one, so the first position wins.
First(S) == CHOOSE k \in S : \A j \in S : Position[k] <= Position[j]

HighestSurplus(r) ==
    First({k \in Spare(r) : \A j \in Spare(r) : Surplus(r)[j] <= Surplus(r)[k]})

\* The resources a country asks others for.
Asked == {"population", "elements", "timber", "alloys"}

\* The five resources GetHighestResourcePosition and GetLowestResource look at.
Ranked == {"population", "elements", "timber", "alloys", "electronics"}

HighestResource(r, name) ==
    LET other == {k \in Ranked \ {name} : r[k] > 0}
    IN  IF other = {} THEN "population"
                      ELSE First({k \in other : \A j \in other : r[j] <= r[k]})

\* Mutated: houses may be what a country has least of.
LowestOfAll(r) == First({k \in Tradable : \A j \in Tradable : r[k] <= r[j]})

LowestResource(r) == First({k \in Ranked : \A j \in Ranked : r[k] <= r[j]})

-----------------------------------------------------------------------------
(* The branches of GenerateNode.  Exactly one of Asks, Smelts,             *)
(* BuildsHouses, BuildsElectronics and Rests holds of any holdings.        *)

WantsHousing(r)     == ~PopulationNeeded(r) /\ HousingNeeded(r)
WantsElectronics(r) == ~PopulationNeeded(r) /\ ~HousingNeeded(r) /\ ElectronicsNeeded(r)
Builds(r)           == WantsHousing(r) \/ WantsElectronics(r)

AsksElements(r) == Builds(r) /\ ElementsDeficit(r) > 0
Smelts(r)       == Builds(r) /\ ElementsDeficit(r) = 0 /\ AlloysDeficit(r) > 0
AsksTimber(r)   == /\ WantsHousing(r)
                   /\ ElementsDeficit(r) = 0 /\ AlloysDeficit(r) = 0
                   /\ TimberDeficit(r) > 0

BuildsHouses(r) == /\ WantsHousing(r)
                   /\ ElementsDeficit(r) = 0 /\ AlloysDeficit(r) = 0
                   /\ TimberDeficit(r) = 0

BuildsElectronics(r) == /\ WantsElectronics(r)
                        /\ ElementsDeficit(r) = 0 /\ AlloysDeficit(r) = 0

Asks(r)  == PopulationNeeded(r) \/ AsksElements(r) \/ AsksTimber(r)
Rests(r) == ~PopulationNeeded(r) /\ ~Builds(r)

\* What Asks(r) asks for, and how much of it.
Need(r) == CASE PopulationNeeded(r) -> "population"
             [] AsksElements(r)     -> "elements"
             [] AsksTimber(r)       -> "timber"

Needed(r) == CASE PopulationNeeded(r) -> PopulationDeficit(r)
               [] AsksElements(r)     -> ElementsDeficit(r)
               [] AsksTimber(r)       -> TimberDeficit(r)

\* What is offered for it: the highest surplus, or, with no surplus at all,
\* the highest resource (whose surplus, the amount offered, is then zero).
Offer(r)   == IF Spare(r) # {} THEN HighestSurplus(r) ELSE HighestResource(r, Need(r))

\* Mutated: as much is offered as is needed.
OfferedInFull(r) == Needed(r)

Offered(r) == Smaller(Needed(r), Surplus(r)[Offer(r)])

\* Mutated: the deficit is halved twice.
ElectronicsPlannedTwiceHalved(r) == ElectronicsDeficit(r) \div 4

\* The electronics loop runs half the deficit: one call makes two.
HousesPlanned(r)      == HousingDeficit(r)
ElectronicsPlanned(r) == ElectronicsDeficit(r) \div 2
AlloysPlanned(r)      == AlloysDeficit(r)
=============================================================================
