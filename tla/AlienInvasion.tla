---------------------------- MODULE AlienInvasion ----------------------------
(***************************************************************************)
(* The invasion (AlienInvasion.java): who is attacked, by how many, what a *)
(* roll of the die does to both sides, and how it ends.  The threads of a  *)
(* round are modelled in Hermes; here a round leaves every country with    *)
(* other holdings and, after trades of which one side or both were carried *)
(* out, with any number of people.                                         *)
(*                                                                         *)
(*   init -> round -> attack -> round ... -> over,    init -> crashed      *)
(***************************************************************************)
EXTENDS Planner, FiniteSetsExt, SequencesExt

(***************************************************************************)
(* The twenty-sided die (Dice/TwentySidedDie.java): what share of the      *)
(* attackers and of the defenders an attack costs, in percent, by the roll *)
(* and the modifier.                                                       *)
(***************************************************************************)

Rolls == 1..20

\* The modifiers GetAttackScale is written for.
Modifiers == -27..27

Size(n) == IF n < 0 THEN -n ELSE n

\* One row for each roll: the bands of the modifier from the highest down, each
\* with its lowest modifier, the attacker's loss, the attacker's loss when it
\* outnumbers the defender, and the defender's loss.
Bands == <<
    << <<15, 0, 0,  0>>, << 0, 2, 2, 0>>, <<-11, 3, 1, 0>>, <<-15, 5, 2, 0>> >>,
    << <<10, 0, 0,  0>>, <<-12, 1, 0, 0>>, <<-15, 2, 1, 0>> >>,
    << << 0, 0, 0,  0>>, <<-9, 1, 1, 0>>, <<-11, 0, 0, 0>>, <<-15, 1, 0, 0>>, <<-99, 2, 1, 0>> >>,
    << <<15, 0, 0,  4>>, << 0, 0, 0,  2>>, <<-15, 0, 0, 0>>, <<-99, 1, 0, 0>> >>,
    << <<10, 0, 0,  5>>, << 0, 0, 0,  3>>, <<-99, 0, 0, 0>> >>,
    << <<15, 0, 0,  6>>, << 0, 0, 0,  4>>, <<-99, 0, 0, 0>> >>,
    << <<10, 0, 0,  7>>, << 0, 0, 0,  5>>, <<-14, 0, 0, 0>>, <<-99, 2, 0, 1>> >>,
    << <<10, 0, 0, 10>>, << 0, 0, 0,  7>>, << -9, 0, 0, 0>>, <<-99, 2, 0, 1>> >>,
    << <<10, 0, 0, 12>>, << 0, 0, 0,  8>>, << -9, 0, 0, 0>>, <<-99, 2, 0, 1>> >>,
    << <<10, 0, 0, 15>>, << 0, 0, 0, 10>>, << -9, 0, 0, 0>>, <<-99, 1, 0, 1>> >>,
    << <<10, 0, 0, 15>>, << 0, 0, 0, 10>>, <<-99, 0, 0, 0>> >>,
    << <<15, 0, 0, 17>>, << 0, 0, 0, 12>>, <<-99, 0, 0, 0>> >>,
    << <<15, 0, 0, 18>>, << 0, 0, 0, 15>>, <<-99, 0, 0, 0>> >>,
    << <<15, 0, 0, 19>>, << 0, 0, 0, 15>>, <<-99, 0, 0, 0>> >>,
    << <<15, 0, 0, 20>>, << 0, 0, 0, 15>>, <<-99, 0, 0, 0>> >>,
    << <<15, 0, 0, 22>>, << 0, 0, 0, 17>>, <<-14, 0, 0, 1>>, <<-99, 0, 0, 0>> >>,
    << <<15, 0, 0, 25>>, << 0, 0, 0, 20>>, <<-14, 0, 0, 2>>, <<-99, 0, 0, 1>> >>,
    << <<15, 0, 0, 25>>, << 0, 0, 0, 20>>, <<-14, 0, 0, 6>>, <<-99, 0, 0, 3>> >>,
    << <<15, 0, 0, 30>>, << 0, 0, 0, 25>>, <<-14, 0, 0, 8>>, <<-99, 0, 0, 4>> >>,
    << <<15, 0, 0, 35>>, << 0, 0, 0, 28>>, <<-14, 0, 0, 7>>, <<-99, 0, 0, 3>> >> >>

\* The lowest bands of the rolls 1 and 2: the loss grows with the modifier.
WorstLoss(roll, mod) ==
    IF roll = 1 THEN <<-99, 2 * Size(mod), 5, 0>> ELSE <<-99, Size(mod), 2, 0>>

Band(roll, mod) ==
    LET row  == Bands[roll]
        fits == {i \in 1..Len(row) : mod >= row[i][1]}
    IN  IF fits # {} THEN row[CHOOSE i \in fits : \A j \in fits : i <= j]
                     ELSE WorstLoss(roll, mod)

GetAttackScale(roll, mod, outnumber) ==
    LET b == Band(roll, mod)
    IN  [att |-> IF outnumber THEN b[3] ELSE b[2], def |-> b[4]]

-----------------------------------------------------------------------------
CONSTANTS
    Names,      \* the countries, in the order of the list main builds
    Files,      \* what aliens.csv may hold: functions from names to Holdings
    Supplies,   \* the holdings a round may leave a country with, population aside
    Crowds,     \* bound: how many people trade may leave a country with in a round
    Sizes,      \* bound: the sizes of the invading force that are tried
    Thou, TenThou   \* thou, tenThou: at most so many people, more than so many aliens

\* "null" stands for the null reference.
ASSUME InvasionAssumption ==
    /\ Names \in Seq(STRING) /\ Names # <<>> /\ IsInjective(Names)
    /\ "null" \notin ToSet(Names)
    /\ \A f \in Files : DOMAIN f \subseteq ToSet(Names) /\ f \in [DOMAIN f -> Holdings]
    /\ Supplies \subseteq Holdings
    /\ Crowds \subseteq Nat
    /\ Sizes \subseteq Nat
    /\ Thou \in Nat /\ TenThou \in Nat

VARIABLES
    main,        \* where BeginInvasion is
    countries,   \* countries_m
    res,         \* the holdings of every country in the file
    aliens,      \* aliens_m
    crowded,     \* whether some country began with people to spare
    next,        \* the country to attack
    roll, type, mod    \* the attack about to be executed

vars == <<main, countries, res, aliens, crowded, next, roll, type, mod>>

People(S) == SumFunctionOnSet([c \in DOMAIN res |-> res[c].population], S)

-----------------------------------------------------------------------------
Init ==
    /\ main = "init"
    /\ countries = <<>> /\ aliens = 0 /\ crowded = FALSE /\ next = Names[1]
    /\ res \in Files
    /\ roll = 1 /\ type = 0 /\ mod = 0

-----------------------------------------------------------------------------
\* Mutated: any number up to one and a half times the world's.
InvasionSizesFromZero(total) == 0 .. ((3 * total) \div 2 - 1)

\* GetInvasionSize: Random.longs(1, origin, bound), which throws unless
\* origin < bound.
InvasionSizes(total) == (total \div 2) .. ((3 * total) \div 2 - 1)

\* Fewer than five people are a need, and never offered (CalculateStatus).
HasToSpare(r) == r.population >= 5

\* A country that is not in the file has null resources, and CalculateStatus,
\* which schedule calls after "File mismatch", throws; so does GetInvasionSize
\* for a world too small.  Nothing catches either.
Initialize ==
    /\ main = "init"
    /\ \/ /\ DOMAIN res = ToSet(Names)
          /\ InvasionSizes(People(DOMAIN res)) # {}
          /\ aliens' \in InvasionSizes(People(DOMAIN res)) \cap Sizes
          /\ countries' = Names
          /\ crowded' = \E c \in DOMAIN res : HasToSpare(res[c])
          /\ next' \in ToSet(Names)
          /\ main' = "round"
       \/ /\ DOMAIN res # ToSet(Names) \/ InvasionSizes(People(DOMAIN res)) = {}
          /\ main' = "crashed"
          /\ UNCHANGED <<aliens, crowded, countries, next>>
    /\ UNCHANGED <<res, roll, type, mod>>

-----------------------------------------------------------------------------
\* CalculateModifier.  The first loop lacks braces: SetAmount runs for every
\* resource, so c_pop ends with the amount of the last one.  The else of the
\* population test has no body: it takes the statement for the resources.
Compared(r) == r.housingWaste

Lacking(r) == ElementsDeficit(r) > 0 \/ TimberDeficit(r) > 0 \/ AlloysDeficit(r) > 0

Signed(yes, n) == IF yes THEN n ELSE -n

\* Mutated: the statement for the resources is outside the else, at its weight.
PopulationPartBoth(r) ==
    (IF Compared(r) > aliens THEN -6 ELSE 6) + Signed(Lacking(r), 4)

PopulationPart(r) ==
    IF Compared(r) > aliens THEN -6
    ELSE IF Compared(r) < aliens THEN 6
    ELSE Signed(Lacking(r), 4)

CalculateModifier(r) ==
    LET sum == PopulationPart(r) + Signed(HousingNeeded(r), 12)
                                 + Signed(ElectronicsNeeded(r), 5)
    IN  IF sum \in -27..27 THEN sum ELSE 0

\* The people of a country after a round.  Several pairs may trade, and a trade
\* whose wait ends too soon, or that is not the last of its batch, is carried out
\* by one side only: people are made and lost.  But somebody must have offered some.
Peopled(c) == {res[c].population} \cup (IF crowded THEN Crowds ELSE {})

\* A round: the countries build and trade, then the die is rolled and the
\* modifier calculated.  Only the supplies of the country under attack matter
\* before the next round, so all get the same.
Run_Sequence ==
    /\ main = "round" /\ main' = "attack"
    /\ \E s \in Supplies, p \in [ToSet(countries) -> UNION {Peopled(c) : c \in ToSet(countries)}] :
          /\ \A c \in ToSet(countries) : p[c] \in Peopled(c)
          /\ res' = [c \in DOMAIN res |-> IF c \in ToSet(countries)
                                         THEN [s EXCEPT !.population = p[c]]
                                         ELSE res[c]]
    /\ roll' \in Rolls /\ type' \in 0..1
    /\ mod' = CalculateModifier(res'[next])
    /\ UNCHANGED <<countries, aliens, crowded, next>>

-----------------------------------------------------------------------------
\* ExecuteAttack.
Outnumbered(p) == p * 10 < aliens

Hopeless(p)   == p < 11 /\ Outnumbered(p)
LastStand(p)  == p < 100 /\ Outnumbered(p) /\ roll > 2
AliensLast(p) == aliens < 100 /\ p > aliens * 10 /\ roll <= 4

Overrun == CASE roll > 15      -> [att |-> 0, def |-> 35]
             [] roll \in 11..15 -> [att |-> 0, def |-> 25]
             [] roll \in 6..10  -> [att |-> 0, def |-> 10]
             [] roll \in 2..5   -> [att |-> 1, def |-> 5]
             [] roll = 1        -> [att |-> 2, def |-> 0]

Scale(p) == IF p <= Thou /\ aliens > TenThou THEN Overrun
            ELSE GetAttackScale(roll, mod, Outnumbered(p))

\* Mutated: the one percent of an attack on the resources is the whole scale.
ResourceAttackOnAll(r, def) ==
    IF def > 0 THEN UNION {ReduceUrban(q, def) : q \in ReduceSupplies(r, def)} ELSE {r}

ResourceAttack(r, def) ==
    IF def > 0 THEN UNION {ReduceUrban(q, 1) : q \in ReduceSupplies(r, def)} ELSE {r}

\* Mutated: the test of the attacker's loss guards the defender's, too.
PopulationAttackIfLost(r, scale) ==
    IF scale.att > 0 /\ scale.def > 0 THEN ReduceUrban(r, scale.def) ELSE {r}

PopulationAttack(r, scale) == IF scale.def > 0 THEN ReduceUrban(r, scale.def) ELSE {r}

\* Mutated: the percentage is taken for a factor.
AliensAfterAll(att) == {aliens - aliens * att}

AliensAfter(att) == IF att > 0 THEN {aliens - n : n \in Cut(aliens, att)} ELSE {aliens}

\* What is left of the country and of the aliens.  An attack on the resources
\* costs no aliens.
Outcomes(r) ==
    LET scale == Scale(r.population)
    IN  IF Hopeless(r.population) \/ LastStand(r.population)
        THEN [left : ReduceUrban(r, 100), aliens : {aliens}]
        ELSE IF AliensLast(r.population)
        THEN [left : {r}, aliens : {0}]
        ELSE IF type = 0
        THEN [left : ResourceAttack(r, scale.def), aliens : {aliens}]
        ELSE [left : PopulationAttack(r, scale), aliens : AliensAfter(scale.att)]

\* Mutated: a country of one person is passed over.
GetNextCrowd(list) ==
    LET peopled == {i \in DOMAIN list : res'[list[i]].population > 1}
    IN  IF peopled = {} THEN "null" ELSE list[Min(peopled)]

\* The first country with people, or "null".
GetNextCountry(list) ==
    LET peopled == {i \in DOMAIN list : res'[list[i]].population > 0}
    IN  IF peopled = {} THEN "null" ELSE list[Min(peopled)]

\* The attack, and what BeginInvasion does after it.
ExecuteAttack ==
    /\ main = "attack"
    /\ \E o \in Outcomes(res[next]) :
          /\ res' = [res EXCEPT ![next] = o.left]
          /\ aliens' = o.aliens
          /\ LET dead == res'[next].population < 1
                 list == IF o.aliens >= 1 /\ dead THEN RemoveFirst(countries, next) ELSE countries
                 then == IF dead THEN GetNextCountry(list) ELSE next
             IN  /\ countries' = list
                 /\ \/ /\ o.aliens >= 1 /\ then # "null"
                       /\ main' = "round" /\ next' = then
                    \/ /\ o.aliens < 1 \/ then = "null"
                       /\ main' = "over" /\ UNCHANGED next
    /\ roll' = 1 /\ type' = 0 /\ mod' = 0
    /\ UNCHANGED crowded

Next == Initialize \/ Run_Sequence \/ ExecuteAttack

Spec == Init /\ [][Next]_vars

\* The die is fair: while the invasion lasts, every roll and both kinds of
\* attack come up again and again (Random.nextInt).
FairDie ==
    \A n \in Rolls, t \in 0..1 :
        []<>(main \in {"over", "crashed"} \/ (main = "attack" /\ roll = n /\ type = t))

FairSpec == Spec /\ WF_vars(Next) /\ FairDie

-----------------------------------------------------------------------------
(* The modifier stays "between -26 and 26" (AlienInvasion.java:299), so it *)
(* is one the die knows, and the check for a number beyond 27 (367) never  *)
(* replaces it by 0.                                                       *)
ModifierFitsTheDie == main = "attack" => Size(mod) <= 26

(* The verdict is right: when the invasion is over, either the aliens are  *)
(* beaten and people are left, or the aliens are there and nobody is left, *)
(* in any country, whatever people one-sided trades made, moved or lost    *)
(* before an attack, the country under attack included, and in whichever   *)
(* order the countries fell (136-145, 179-182).                            *)
VerdictIsRight ==
    main = "over" => (aliens < 1 <=> \E c \in DOMAIN res : res[c].population > 0)

(* The invasion begins only with countries that are in the file and with   *)
(* people to fight; a world too small for GetInvasionSize is refused       *)
(* (399-403), but a world of one person is attacked by nobody.  So does    *)
(* every round that follows, whatever trade did in the one before.         *)
BeginsWithPeople ==
    main = "round" => /\ DOMAIN res = ToSet(Names)
                      /\ People(DOMAIN res) > 0
                      /\ aliens > 0 \/ People(DOMAIN res) = 1

(* The inductive invariant behind these properties: people are only in     *)
(* countries still on the list, the country to attack is one of them, a    *)
(* round begins with people, though trade may leave none, and there are    *)
(* aliens unless a single person, whom nobody can trade, is all there is.  *)
TypeOK ==
    /\ main \in {"init", "round", "attack", "over", "crashed"}
    /\ countries \in Seq(ToSet(Names)) /\ IsInjective(countries)
    /\ DOMAIN res \subseteq ToSet(Names) /\ res \in [DOMAIN res -> Holdings]
    /\ aliens \in Nat /\ crowded \in BOOLEAN /\ next \in ToSet(Names)
    /\ roll \in Rolls /\ type \in 0..1 /\ mod \in Modifiers

Underway == main \in {"round", "attack"}

InvasionInv ==
    /\ TypeOK
    /\ Underway \/ main = "over" =>
            /\ DOMAIN res = ToSet(Names)
            /\ \A c \in ToSet(Names) \ ToSet(countries) : res[c].population = 0
    /\ Underway => /\ next \in ToSet(countries)
                   /\ main = "round" => People(DOMAIN res) > 0
                   /\ aliens > 0 \/ (People(DOMAIN res) = 1 /\ ~crowded)
    /\ ModifierFitsTheDie
    /\ VerdictIsRight

(* Whatever an attack does to a country is one of the losses by which the  *)
(* model of the whole system, Hermes, abstracts attacks.                   *)
AttacksAreLosses ==
    [][ExecuteAttack /\ res' # res =>
            \E p \in 0..35 \cup {100} : res'[next] \in AttackLosses(res[next], {p})]_vars

(* Once trade leaves the numbers of people as they are, a fair die wears   *)
(* every country down, one after the other, to the size at which the       *)
(* smallest loss (3 percent, of a roll of 20) rounds to nothing: the       *)
(* invasion ends, or stays with a country of fewer than 34 people.         *)
TradeSettles ==
    <>[][Run_Sequence => \A c \in DOMAIN res : res'[c].population = res[c].population]_vars

WornDown == TradeSettles => <>[](main \in {"over", "crashed"} \/ res[next].population < 34)

-----------------------------------------------------------------------------
(* Violated.  "The program can run up to 3 hours in some instances"        *)
(* (README.md:48): the invasion ends.                                      *)
WarEnds == <>(main \in {"over", "crashed"})
=============================================================================
