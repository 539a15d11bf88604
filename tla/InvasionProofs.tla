---------------------------- MODULE InvasionProofs ----------------------------
(***************************************************************************)
(* The safety properties of AlienInvasion, for any list of countries, any  *)
(* holdings in the file, any sizes of the force and any trade in between.  *)
(***************************************************************************)
EXTENDS AlienInvasion, PlannerProofs

-----------------------------------------------------------------------------
(* The die.                                                                *)

Row == Int \X (0..5) \X (0..5) \X (0..35)

\* The table of the die has losses of at most 5 and 35 percent.
LEMMA TableIsBounded ==
    ASSUME NEW n \in Rolls
    PROVE  Bands[n] \in Seq(Row)
<1>1. Bands[1] \in Seq(Row) /\ Bands[2] \in Seq(Row)
      /\ Bands[3] \in Seq(Row) /\ Bands[4] \in Seq(Row)
    BY DEF Bands, Row
<1>2. Bands[5] \in Seq(Row) /\ Bands[6] \in Seq(Row)
      /\ Bands[7] \in Seq(Row) /\ Bands[8] \in Seq(Row)
    BY DEF Bands, Row
<1>3. Bands[9] \in Seq(Row) /\ Bands[10] \in Seq(Row)
      /\ Bands[11] \in Seq(Row) /\ Bands[12] \in Seq(Row)
    BY DEF Bands, Row
<1>4. Bands[13] \in Seq(Row) /\ Bands[14] \in Seq(Row)
      /\ Bands[15] \in Seq(Row) /\ Bands[16] \in Seq(Row)
    BY DEF Bands, Row
<1>5. Bands[17] \in Seq(Row) /\ Bands[18] \in Seq(Row)
      /\ Bands[19] \in Seq(Row) /\ Bands[20] \in Seq(Row)
    BY DEF Bands, Row
<1>6. \/ n \in {1, 2, 3, 4} \/ n \in {5, 6, 7, 8} \/ n \in {9, 10, 11, 12}
      \/ n \in {13, 14, 15, 16} \/ n \in {17, 18, 19, 20}
    BY DEF Rolls
<1> QED BY <1>1, <1>2, <1>3, <1>4, <1>5, <1>6

\* What a roll costs, if the modifier is one the die is asked for.
LEMMA BandIsBounded ==
    ASSUME NEW n \in Rolls, NEW m \in Int, Size(m) <= 26
    PROVE  Band(n, m)[2] \in 0..52 /\ Band(n, m)[3] \in 0..5 /\ Band(n, m)[4] \in 0..35
<1>1. PICK row \in Seq(Row) : row = Bands[n]
    BY TableIsBounded
<1> DEFINE fits == {i \in 1..Len(row) : m >= row[i][1]}
<1>2. CASE fits # {}
    <2>1. fits \subseteq Nat /\ fits \subseteq 1..Len(row)
        OBVIOUS
    <2>2. PICK k : k = CHOOSE i \in fits : \A j \in fits : i <= j
        OBVIOUS
    <2>3. Band(n, m) = row[k]
        BY <1>1, <1>2, <2>2 DEF Band
    <2>4. k \in fits
        <3> HIDE DEF fits
        <3> QED BY <1>2, <2>1, <2>2, LeastNatural
    <2>5. row[k] \in Row
        BY <2>1, <2>4
    <2> QED BY <2>3, <2>5 DEF Row
<1>3. CASE fits = {}
    <2>1. Band(n, m) = WorstLoss(n, m)
        BY <1>1, <1>3 DEF Band
    <2>2. Size(m) \in 0..26
        BY DEF Size
    <2>3. CASE n = 1
        <3>1. PICK z \in 0..26 : z = Size(m)
            BY <2>2
        <3>2. Band(n, m) = <<-99, 2 * Size(m), 5, 0>>
            BY <2>1, <2>3 DEF WorstLoss
        <3>3. Band(n, m) = <<-99, 2 * z, 5, 0>>
            BY <3>1, <3>2
        <3>4. 2 * z \in 0..52
            OBVIOUS
        <3> QED BY <3>3, <3>4
    <2>4. CASE n # 1
        <3>1. Band(n, m) = <<-99, Size(m), 2, 0>>
            BY <2>1, <2>4 DEF WorstLoss
        <3> QED BY <2>2, <3>1
    <2> QED BY <2>3, <2>4
<1> QED BY <1>2, <1>3

\* What an attack costs, in percent.
LEMMA ScaleIsBounded ==
    ASSUME roll \in Rolls, mod \in Int, Size(mod) <= 26, NEW p \in Nat
    PROVE  Scale(p).att \in 0..52 /\ Scale(p).def \in 0..35
<1>1. CASE p <= Thou /\ aliens > TenThou
    <2>1. Overrun \in [att : {0, 1, 2}, def : {0, 5, 10, 25, 35}]
        BY DEF Overrun, Rolls
    <2> QED BY <1>1, <2>1 DEF Scale
<1>2. CASE ~(p <= Thou /\ aliens > TenThou)
    <2>1. GetAttackScale(roll, mod, Outnumbered(p)).att \in 0..52
          /\ GetAttackScale(roll, mod, Outnumbered(p)).def \in 0..35
        BY BandIsBounded DEF GetAttackScale
    <2> QED BY <1>2, <2>1 DEF Scale
<1> QED BY <1>1, <1>2

\* The modifier of a country.
LEMMA ModifierIsBounded ==
    ASSUME NEW r, aliens \in Int, r.housingWaste \in Int
    PROVE  CalculateModifier(r) \in -23..23
<1>1. PopulationPart(r) \in {-6, 6, -4, 4}
    BY DEF PopulationPart, Compared, Signed
<1>2. Signed(HousingNeeded(r), 12) \in {-12, 12} /\ Signed(ElectronicsNeeded(r), 5) \in {-5, 5}
    BY DEF Signed
<1>3. PICK x, y, z : x = PopulationPart(r) /\ y = Signed(HousingNeeded(r), 12)
                     /\ z = Signed(ElectronicsNeeded(r), 5)
    OBVIOUS
<1>4. CalculateModifier(r) = IF x + y + z \in -27..27 THEN x + y + z ELSE 0
    BY <1>3 DEF CalculateModifier
<1> QED BY <1>1, <1>2, <1>3, <1>4

-----------------------------------------------------------------------------
(* The attacks.                                                            *)

\* A loss of less than everything leaves something, ...
LEMMA CutLeavesSome ==
    ASSUME NEW a \in Nat \ {0}, NEW p \in 0..99, NEW x \in Cut(a, p)
    PROVE  a - x \in Nat \ {0}
<1> DEFINE n == a * p
<1>1. n \in Nat /\ n <= a * 99
    <2>1. p \in Nat /\ 99 - p \in Nat
        OBVIOUS
    <2>2. a * (99 - p) \in Nat /\ a * (99 - p) = a * 99 - a * p
        BY <2>1
    <2> QED BY <2>1, <2>2
<1>2. x = n \div 100 \/ x = n \div 100 - 1
    BY DEF Cut
<1> HIDE DEF n
<1>3. n \div 100 < a /\ n \div 100 \in Nat
    BY <1>1
<1> QED BY <1>2, <1>3

\* ... and one person whole.
LEMMA OneIsWhole ==
    ASSUME NEW p \in 1..99, NEW x \in Cut(1, p)
    PROVE  x = 0
<1>1. 1 * p = p /\ p \div 100 = 0 /\ p % 100 = p /\ p # 0
    OBVIOUS
<1> QED BY <1>1 DEF Cut

\* What an attack can do, with the losses of both sides in percent.
Outcome(o, r, att, def) ==
    \/ o.left \in ReduceUrban(r, 100) /\ o.aliens = aliens /\ aliens > 0
    \/ o.left = r /\ o.aliens = 0 /\ r.population > 0
    \/ o.left \in ResourceAttack(r, def) /\ o.aliens = aliens
    \/ o.left \in {r} \cup (IF def > 0 THEN ReduceUrban(r, def) ELSE {})
       /\ o.aliens \in AliensAfter(att)

\* An attack does one of these, with losses within the table's bounds.
LEMMA OutcomesAre ==
    ASSUME roll \in Rolls, mod \in Int, Size(mod) <= 26, aliens \in Nat,
           NEW r \in Holdings, NEW o \in Outcomes(r)
    PROVE  \E att \in 0..52, def \in 0..35 : Outcome(o, r, att, def)
<1>0. r.population \in Nat
    BY HoldingsAreNat
<1>1. PICK scale : scale = Scale(r.population)
    OBVIOUS
<1>2. scale.att \in 0..52 /\ scale.def \in 0..35
    BY <1>0, <1>1, ScaleIsBounded
<1>3. CASE Hopeless(r.population) \/ LastStand(r.population)
    <2>1. o.left \in ReduceUrban(r, 100) /\ o.aliens = aliens
        BY <1>3 DEF Outcomes
    <2>2. aliens > 0
        BY <1>0, <1>3 DEF Hopeless, LastStand, Outnumbered
    <2> QED BY <1>2, <2>1, <2>2 DEF Outcome
<1>4. CASE ~(Hopeless(r.population) \/ LastStand(r.population)) /\ AliensLast(r.population)
    <2>1. o.left = r /\ o.aliens = 0
        BY <1>4 DEF Outcomes
    <2>2. r.population > 0
        BY <1>0, <1>4 DEF AliensLast
    <2> QED BY <1>2, <2>1, <2>2 DEF Outcome
<1>5. CASE ~(Hopeless(r.population) \/ LastStand(r.population)) /\ ~AliensLast(r.population)
    <2>1. CASE type = 0
        <3>1. o.left \in ResourceAttack(r, scale.def) /\ o.aliens = aliens
            BY <1>1, <1>5, <2>1, SMTT(30) DEF Outcomes
        <3> QED BY <1>2, <3>1 DEF Outcome
    <2>2. CASE type # 0
        <3>1. o.left \in PopulationAttack(r, scale) /\ o.aliens \in AliensAfter(scale.att)
            BY <1>1, <1>5, <2>2 DEF Outcomes
        <3>2. o.left \in {r} \cup (IF scale.def > 0 THEN ReduceUrban(r, scale.def) ELSE {})
            BY <3>1 DEF PopulationAttack
        <3> QED BY <1>2, <3>1, <3>2 DEF Outcome
    <2> QED BY <2>1, <2>2
<1> QED BY <1>3, <1>4, <1>5

\* An attack on the resources, taken apart.
LEMMA ResourceAttackIs ==
    ASSUME NEW r, NEW def, NEW q \in ResourceAttack(r, def)
    PROVE  q = r \/ (def > 0 /\ \E s \in ReduceSupplies(r, def) : q \in ReduceUrban(s, 1))
<1>1. CASE def > 0
    <2>1. q \in UNION {ReduceUrban(s, 1) : s \in ReduceSupplies(r, def)}
        BY <1>1 DEF ResourceAttack
    <2> QED BY <1>1, <2>1
<1>2. CASE ~(def > 0)
    BY <1>2 DEF ResourceAttack
<1> QED BY <1>1, <1>2

\* A loss that Hermes knows: its abstraction of attacks, with any percentage that
\* the table has, or everything.
KnownLoss(r, q) == \E p \in 0..35 \cup {100} : q \in AttackLosses(r, {p})

\* Whatever is left of a country are holdings that Hermes knows as a loss.
LEMMA OutcomesAreLosses ==
    ASSUME NEW r \in Holdings, NEW o, NEW att \in 0..52, NEW def \in 0..35,
           Outcome(o, r, att, def)
    PROVE  o.left \in Holdings /\ KnownLoss(r, o.left)
<1>0. def \in 0..100 /\ def \in 0..35 \cup {100} /\ 1 \in 0..100 /\ 100 \in 0..100
    OBVIOUS
<1>1. CASE o.left \in ReduceUrban(r, 100)
    <2>1. o.left \in AttackLosses(r, {100})
        BY <1>1 DEF AttackLosses
    <2>2. o.left \in Holdings
        BY <1>0, <1>1, ReductionsKeepHoldings
    <2> QED BY <1>0, <2>1, <2>2 DEF KnownLoss
<1>2. CASE o.left = r
    <2>1. o.left \in AttackLosses(r, {100})
        BY <1>2 DEF AttackLosses
    <2> QED BY <1>2, <2>1 DEF KnownLoss
<1>3. CASE def > 0 /\ o.left \in ReduceUrban(r, def)
    <2>1. o.left \in AttackLosses(r, {def})
        BY <1>3 DEF AttackLosses
    <2>2. o.left \in Holdings
        BY <1>0, <1>3, ReductionsKeepHoldings
    <2> QED BY <1>0, <2>1, <2>2 DEF KnownLoss
<1>4. CASE def > 0 /\ \E s \in ReduceSupplies(r, def) : o.left \in ReduceUrban(s, 1)
    <2>1. PICK s \in ReduceSupplies(r, def) : o.left \in ReduceUrban(s, 1)
        BY <1>4
    <2>2. s \in Holdings
        BY <1>0, ReductionsKeepHoldings
    <2>3. o.left \in AttackLosses(r, {def})
        BY <1>4, <2>1 DEF AttackLosses
    <2>4. o.left \in Holdings
        BY <1>0, <2>1, <2>2, ReductionsKeepHoldings
    <2> QED BY <1>0, <2>3, <2>4 DEF KnownLoss
<1>5. o.left \in ResourceAttack(r, def) =>
        o.left = r \/ (def > 0 /\ \E s \in ReduceSupplies(r, def) : o.left \in ReduceUrban(s, 1))
    BY ResourceAttackIs
<1>6. o.left \in {r} \cup (IF def > 0 THEN ReduceUrban(r, def) ELSE {}) =>
        o.left = r \/ (def > 0 /\ o.left \in ReduceUrban(r, def))
    OBVIOUS
<1> QED BY <1>1, <1>2, <1>3, <1>4, <1>5, <1>6 DEF Outcome

\* The aliens that are left: none only if there were none, or if people are left.
LEMMA AliensThatAreLeft ==
    ASSUME aliens \in Nat, NEW r, NEW o, NEW att \in 0..52, NEW def \in 0..35,
           Outcome(o, r, att, def)
    PROVE  /\ o.aliens \in Nat
           /\ aliens = 0 => o.aliens = 0
           /\ aliens > 0 /\ o.aliens = 0 => o.left = r /\ r.population > 0
<1>1. ASSUME o.aliens \in AliensAfter(att)
      PROVE  o.aliens \in Nat /\ (aliens = 0 => o.aliens = 0) /\ (aliens > 0 => o.aliens > 0)
    <2>1. CASE att = 0
        BY <1>1, <2>1 DEF AliensAfter
    <2>2. CASE att > 0
        <3>1. PICK n \in Cut(aliens, att) : o.aliens = aliens - n
            BY <1>1, <2>2 DEF AliensAfter
        <3>2. CASE aliens = 0
            <4>1. n = 0
                BY <3>2 DEF Cut
            <4> QED BY <3>1, <3>2, <4>1
        <3>3. CASE aliens # 0
            <4>1. aliens \in Nat \ {0} /\ att \in 0..99
                BY <3>3
            <4>2. aliens - n \in Nat \ {0}
                BY <4>1, CutLeavesSome
            <4> QED BY <3>1, <3>3, <4>2
        <3> QED BY <3>2, <3>3
    <2> QED BY <2>1, <2>2
<1> QED BY <1>1 DEF Outcome

\* Without aliens, a single person survives.
LEMMA OneSurvives ==
    ASSUME aliens = 0, NEW r \in Holdings, r.population = 1,
           NEW o, NEW att \in 0..52, NEW def \in 0..35, Outcome(o, r, att, def)
    PROVE  o.left.population = 1
<1>1. ASSUME NEW s \in Holdings, s.population = 1, NEW p \in 1..99, NEW q \in ReduceUrban(s, p)
      PROVE  q.population = 1
    <2>1. PICK x \in Cut(s.population, p), y \in Cut(s.housing, p), z \in Cut(s.electronics, p) :
            q = UrbanLoss(s, x, y, z)
        BY DEF ReduceUrban
    <2>2. x = 0
        BY <1>1, OneIsWhole
    <2>3. q.population = s.population - 0
        BY <2>1, <2>2 DEF UrbanLoss, Holdings, Kinds
    <2> QED BY <1>1, <2>3
<1>2. ASSUME NEW p \in 0..35, NEW s \in ReduceSupplies(r, p)
      PROVE  s \in Holdings /\ s.population = 1
    <2>1. PICK x \in Cut(r.elements, p), y \in Cut(r.alloys, p) : s = SupplyLoss(r, x, y)
        BY DEF ReduceSupplies
    <2>2. s.population = r.population
        BY <2>1 DEF SupplyLoss, Holdings, Kinds
    <2> QED BY <2>2, ReductionsKeepHoldings
<1>3. CASE o.left \in ResourceAttack(r, def)
    BY <1>1, <1>2, <1>3, ResourceAttackIs
<1>4. CASE o.left \in {r} \cup (IF def > 0 THEN ReduceUrban(r, def) ELSE {})
    <2>1. o.left = r \/ (def \in 1..99 /\ o.left \in ReduceUrban(r, def))
        BY <1>4
    <2> QED BY <1>1, <2>1
<1> QED BY <1>3, <1>4 DEF Outcome

-----------------------------------------------------------------------------
(* The people and the list of countries.                                   *)

Counts(h) == [c \in DOMAIN h |-> h[c].population]

\* The people of the world are what its countries have.
LEMMA PeopleAreCounted ==
    ASSUME NEW D, IsFiniteSet(D), NEW h \in [D -> Holdings]
    PROVE  /\ Total(Counts(h), D) \in Nat
           /\ \A c \in D : /\ h[c].population \in Nat
                           /\ h[c].population <= Total(Counts(h), D)
           /\ Total(Counts(h), D) > 0 => \E c \in D : h[c].population > 0
<1>1. \A c \in D : Counts(h)[c] = h[c].population /\ h[c].population \in Nat
    BY HoldingsAreNat DEF Counts
<1>2. PICK f : f = Counts(h)
    OBVIOUS
<1>3. \A c \in D : f[c] \in Nat
    BY <1>1, <1>2
<1>4. Total(f, D) \in Nat /\ (Total(f, D) > 0 => \E c \in D : f[c] > 0)
    BY <1>3, TotalNat
<1>5. \A c \in D : f[c] <= Total(f, D)
    BY <1>3, SummandIsPart
<1> QED BY <1>1, <1>2, <1>4, <1>5

\* The model's sum of the people, before and after a step.
LEMMA PeopleIsTheTotal ==
    /\ People(DOMAIN res) = Total(Counts(res), DOMAIN res)
    /\ People(DOMAIN res)' = Total(Counts(res'), DOMAIN res')
BY DEF People, Total, Counts

\* There are finitely many countries, and null is not one of them.
LEMMA NamesAreFinite ==
    /\ IsFiniteSet(ToSet(Names))
    /\ Names \in Seq(ToSet(Names)) /\ "null" \notin ToSet(Names)
<1>1. PICK S : S = ToSet(Names)
    OBVIOUS
<1>2. \A i \in 1..Len(Names) : Names[i] \in S
    BY <1>1, InvasionAssumption, ToSetElements
<1>3. Names \in Seq(S)
    BY <1>2, InvasionAssumption
<1> QED BY <1>1, <1>3, InvasionAssumption, ToSetIsFinite

\* The next country has people, and without one nobody on the list has any.
LEMMA NextCountryHasPeople ==
    ASSUME NEW S, NEW list \in Seq(S), "null" \notin S
    PROVE  /\ GetNextCountry(list) # "null" => /\ GetNextCountry(list) \in ToSet(list)
                                               /\ res'[GetNextCountry(list)].population > 0
           /\ GetNextCountry(list) = "null" => \A c \in ToSet(list) : ~(res'[c].population > 0)
<1>1. PICK P : P = {i \in DOMAIN list : res'[list[i]].population > 0}
    OBVIOUS
<1>2. GetNextCountry(list) = IF P = {} THEN "null" ELSE list[Min(P)]
    BY <1>1 DEF GetNextCountry
<1>3. CASE P = {}
    BY <1>1, <1>2, <1>3, ToSetElements
<1>4. CASE P # {}
    <2>1. P \subseteq Nat
        BY <1>1
    <2>2. \E k \in P : \A j \in P : k <= j
        BY <1>4, <2>1, LeastNatural
    <2>3. PICK k : k = Min(P)
        OBVIOUS
    <2>4. k \in P
        BY <2>2, <2>3 DEF Min
    <2>5. GetNextCountry(list) = list[k]
        BY <1>2, <1>4, <2>3
    <2>6. k \in 1..Len(list) /\ res'[list[k]].population > 0
        BY <1>1, <2>4
    <2>7. list[k] \in ToSet(list) /\ list[k] \in S
        BY <2>6, ToSetElements
    <2> QED BY <2>5, <2>6, <2>7
<1> QED BY <1>3, <1>4

-----------------------------------------------------------------------------
(* The invariant.                                                          *)

\* What the invariant says of a world, said of any.
World(h, list, to, n, many, where) ==
    /\ where \in {"round", "attack", "over"} =>
            /\ DOMAIN h = ToSet(Names)
            /\ \A c \in ToSet(Names) \ ToSet(list) : h[c].population = 0
    /\ where \in {"round", "attack"} =>
            /\ to \in ToSet(list)
            /\ where = "round" => Total(Counts(h), DOMAIN h) > 0
            /\ n > 0 \/ (Total(Counts(h), DOMAIN h) = 1 /\ ~many)

\* The invariant in terms of World, before and after a step.
LEMMA InvariantIs ==
    /\ InvasionInv <=> /\ TypeOK /\ World(res, countries, next, aliens, crowded, main)
                       /\ ModifierFitsTheDie /\ VerdictIsRight
    /\ InvasionInv' <=> /\ TypeOK' /\ World(res', countries', next', aliens', crowded', main')
                        /\ ModifierFitsTheDie' /\ VerdictIsRight'
BY PeopleIsTheTotal DEF InvasionInv, World, Underway

\* It holds initially ...
LEMMA InitKeeps ==
    ASSUME Init
    PROVE  InvasionInv
<1>1. Names[1] \in ToSet(Names)
    BY InvasionAssumption, ToSetElements
<1>2. TypeOK
    <2>1. countries \in Seq(ToSet(Names)) /\ IsInjective(countries)
        BY EmptyToSet DEF Init
    <2>2. DOMAIN res \subseteq ToSet(Names) /\ res \in [DOMAIN res -> Holdings]
        BY InvasionAssumption DEF Init
    <2>3. crowded \in BOOLEAN
        BY DEF Init
    <2>4. /\ main \in {"init", "round", "attack", "over", "crashed"}
          /\ aliens \in Nat /\ next \in ToSet(Names)
          /\ roll \in Rolls /\ type \in 0..1 /\ mod \in Modifiers
        BY <1>1 DEF Init, Rolls, Modifiers
    <2> QED BY <2>1, <2>2, <2>3, <2>4 DEF TypeOK
<1> QED BY <1>2 DEF InvasionInv, Init, Underway, ModifierFitsTheDie, VerdictIsRight

\* ... when the invasion is prepared: the force is drawn from a range around the
\* number of people, which is empty for a world without any ...
LEMMA InitializeKeeps ==
    ASSUME InvasionInv, Initialize
    PROVE  InvasionInv'
<1>0. TypeOK
    BY DEF InvasionInv
<1>1. CASE main' = "crashed"
    <2>1. TypeOK'
        BY <1>0, <1>1 DEF Initialize, TypeOK
    <2> QED BY <1>1, <2>1 DEF InvasionInv, Underway, ModifierFitsTheDie, VerdictIsRight
<1>2. CASE main' # "crashed"
    <2>1. /\ DOMAIN res = ToSet(Names) /\ res' = res
          /\ aliens' \in InvasionSizes(People(DOMAIN res))
          /\ countries' = Names /\ next' \in ToSet(Names) /\ main' = "round"
          /\ crowded' = \E c \in DOMAIN res : HasToSpare(res[c])
          /\ aliens' \in Sizes /\ UNCHANGED <<roll, type, mod>>
        BY <1>2 DEF Initialize
    <2>2. PICK t : t = Total(Counts(res), DOMAIN res)
        OBVIOUS
    <2>3. t \in Nat
        BY <1>0, <2>1, <2>2, NamesAreFinite, PeopleAreCounted DEF TypeOK
    <2>4. aliens' \in (t \div 2) .. ((3 * t) \div 2 - 1)
        BY <2>1, <2>2, PeopleIsTheTotal DEF InvasionSizes
    <2>5. t > 0 /\ (aliens' > 0 \/ t = 1) /\ aliens' \in Nat
        BY <2>3, <2>4
    <2>5a. crowded' \in BOOLEAN
        BY <2>1
    <2>5b. t = 1 => ~crowded'
        <3>1. PICK D, h : D = ToSet(Names) /\ h = res
            OBVIOUS
        <3>2. h \in [D -> Holdings] /\ IsFiniteSet(D) /\ DOMAIN h = D
            BY <1>0, <2>1, <3>1, NamesAreFinite DEF TypeOK
        <3>3. \A c \in D : h[c].population \in Nat /\ h[c].population <= Total(Counts(h), D)
            BY <3>2, PeopleAreCounted
        <3>4. t = Total(Counts(h), D)
            BY <2>2, <3>1, <3>2
        <3> QED BY <2>1, <3>1, <3>2, <3>3, <3>4 DEF HasToSpare
    <2>6. World(res', countries', next', aliens', crowded', main')
        BY <2>1, <2>2, <2>5, <2>5b DEF World
    <2>7. TypeOK'
        BY <1>0, <2>1, <2>5, <2>5a, InvasionAssumption, NamesAreFinite DEF TypeOK
    <2> QED BY <2>1, <2>6, <2>7, InvariantIs DEF ModifierFitsTheDie, VerdictIsRight
<1> QED BY <1>1, <1>2

\* Setting the population of a country.
LEMMA PopulationIsSet ==
    ASSUME NEW s \in Holdings, NEW n \in Nat
    PROVE  /\ [s EXCEPT !.population = n] \in Holdings
           /\ [s EXCEPT !.population = n].population = n
BY DEF Holdings, Kinds

\* What a round may leave a country with are numbers, and without people to spare
\* those of before.
LEMMA PeopledIs ==
    ASSUME NEW c, res[c].population \in Nat, NEW n \in Peopled(c)
    PROVE  n \in Nat /\ (~crowded => n = res[c].population)
BY InvasionAssumption DEF Peopled

\* ... through a round, which may leave any number of people, unless there were
\* none to spare ...
LEMMA RoundKeeps ==
    ASSUME InvasionInv, Run_Sequence
    PROVE  InvasionInv'
<1>0. PICK D : D = ToSet(Names)
    OBVIOUS
<1>1. /\ TypeOK /\ main = "round" /\ World(res, countries, next, aliens, crowded, "round")
    BY InvariantIs DEF Run_Sequence
<1>2. /\ DOMAIN res = D /\ res \in [D -> Holdings] /\ next \in ToSet(countries)
      /\ ToSet(countries) \subseteq D
    BY <1>0, <1>1, ToSetElements DEF TypeOK, World
<1>3. PICK s \in Supplies, p \in [ToSet(countries) -> UNION {Peopled(c) : c \in ToSet(countries)}] :
          /\ \A c \in ToSet(countries) : p[c] \in Peopled(c)
          /\ res' = [c \in DOMAIN res |-> IF c \in ToSet(countries)
                                         THEN [s EXCEPT !.population = p[c]]
                                         ELSE res[c]]
    BY DEF Run_Sequence
<1>4. s \in Holdings
    BY InvasionAssumption
<1>5. \A c \in D : /\ res[c] \in Holdings /\ res[c].population \in Nat
    BY <1>2, HoldingsAreNat
<1>6. \A c \in ToSet(countries) : p[c] \in Nat /\ (~crowded => p[c] = res[c].population)
    BY <1>2, <1>3, <1>5, PeopledIs
<1>7. \A c \in ToSet(countries) : res'[c] = [s EXCEPT !.population = p[c]]
    BY <1>2, <1>3
<1>8. \A c \in ToSet(countries) : /\ res'[c] \in Holdings
                                  /\ res'[c].population = p[c]
    <2>1. TAKE c \in ToSet(countries)
    <2>2. PICK m \in Nat : m = p[c]
        BY <1>6
    <2>3. res'[c] = [s EXCEPT !.population = m]
        BY <1>7, <2>2
    <2> QED BY <1>4, <2>2, <2>3, PopulationIsSet
<1>9. \A c \in D \ ToSet(countries) : res'[c] = res[c]
    BY <1>2, <1>3
<1>10. DOMAIN res' = D /\ res' = [c \in D |-> res'[c]]
    BY <1>2, <1>3
<1>11. res' \in [D -> Holdings]
    BY <1>5, <1>8, <1>9, <1>10
<1>12. ~crowded => \A c \in D : res'[c].population = res[c].population
    BY <1>6, <1>8, <1>9
<1>13. ~crowded => Total(Counts(res'), D) = Total(Counts(res), D)
    <2>1. ASSUME ~crowded
          PROVE  Counts(res') = Counts(res)
        BY <1>2, <1>10, <1>12, <2>1 DEF Counts
    <2> QED BY <2>1
<1>14. main' = "attack" /\ roll' \in Rolls /\ type' \in 0..1
       /\ UNCHANGED <<countries, aliens, crowded, next>> /\ mod' = CalculateModifier(res'[next])
    BY DEF Run_Sequence
<1>15. mod' \in -23..23
    <2>1. res'[next].housingWaste \in Int
        BY <1>2, <1>8, HoldingsAreNat
    <2>2. aliens \in Int
        BY <1>1 DEF TypeOK
    <2>3. PICK r : r = res'[next]
        OBVIOUS
    <2>4. CalculateModifier(r) \in -23..23
        BY <2>1, <2>2, <2>3, ModifierIsBounded
    <2> QED BY <1>14, <2>3, <2>4
<1>16. TypeOK'
    <2>1. mod' \in Modifiers
        BY <1>15 DEF Modifiers
    <2>2. DOMAIN res' \subseteq ToSet(Names) /\ res' \in [DOMAIN res' -> Holdings]
        BY <1>0, <1>10, <1>11
    <2> QED BY <1>1, <1>14, <2>1, <2>2 DEF TypeOK
<1>17. World(res', countries', next', aliens', crowded', main')
    BY <1>0, <1>1, <1>2, <1>9, <1>10, <1>13, <1>14 DEF World
<1>18. ModifierFitsTheDie' /\ VerdictIsRight'
    BY <1>14, <1>15 DEF ModifierFitsTheDie, VerdictIsRight, Size
<1> QED BY <1>16, <1>17, <1>18, InvariantIs

\* One attack with the outcome o: list are the countries left, then is the next one.
Attacked(o, list, then) ==
    /\ res' = [res EXCEPT ![next] = o.left] /\ aliens' = o.aliens
    /\ list = IF o.aliens >= 1 /\ res'[next].population < 1
              THEN RemoveFirst(countries, next) ELSE countries
    /\ then = IF res'[next].population < 1 THEN GetNextCountry(list) ELSE next
    /\ countries' = list
    /\ \/ o.aliens >= 1 /\ then # "null" /\ main' = "round" /\ next' = then
       \/ (o.aliens < 1 \/ then = "null") /\ main' = "over" /\ next' = next

\* Every step of ExecuteAttack leaves one of the outcomes of the attack rules.
LEMMA AttackIs ==
    ASSUME ExecuteAttack
    PROVE  \E o \in Outcomes(res[next]) : \E list, then : Attacked(o, list, then)
BY DEF ExecuteAttack, Attacked

\* Before an attack.
LEMMA BeforeAnAttack ==
    ASSUME InvasionInv, main = "attack"
    PROVE  /\ TypeOK /\ DOMAIN res = ToSet(Names) /\ res \in [ToSet(Names) -> Holdings]
           /\ next \in ToSet(countries) /\ ToSet(countries) \subseteq ToSet(Names)
           /\ res[next] \in Holdings /\ next # "null"
           /\ \A c \in ToSet(Names) \ ToSet(countries) : res[c].population = 0
           /\ aliens > 0 \/ Total(Counts(res), ToSet(Names)) = 1
           /\ aliens \in Nat /\ roll \in Rolls /\ mod \in Int /\ Size(mod) <= 26
<1>1. TypeOK /\ World(res, countries, next, aliens, crowded, "attack") /\ Size(mod) <= 26
    BY InvariantIs DEF ModifierFitsTheDie
<1>2. PICK D : D = ToSet(Names)
    OBVIOUS
<1>3. ToSet(countries) \subseteq D
    BY <1>1, <1>2, ToSetElements DEF TypeOK
<1>4. DOMAIN res = D /\ res \in [D -> Holdings] /\ next \in ToSet(countries)
    BY <1>1, <1>2 DEF TypeOK, World
<1>5. next # "null"
    BY <1>2, <1>3, <1>4, NamesAreFinite
<1>6. mod \in Int
    <2>1. mod \in Modifiers
        BY <1>1 DEF TypeOK
    <2> QED BY <2>1 DEF Modifiers
<1> QED BY <1>1, <1>2, <1>3, <1>4, <1>5, <1>6 DEF TypeOK, World

\* If no aliens are left, people are.
LEMMA BeatenMeansPeople ==
    ASSUME InvasionInv, main = "attack",
           NEW o \in Outcomes(res[next]), o.aliens = 0, res' = [res EXCEPT ![next] = o.left]
    PROVE  \E c \in ToSet(Names) : res'[c].population > 0
<1>1. PICK D : D = ToSet(Names)
    OBVIOUS
<1>2. /\ DOMAIN res = D /\ res \in [D -> Holdings] /\ next \in D /\ res[next] \in Holdings
      /\ aliens > 0 \/ Total(Counts(res), D) = 1
      /\ aliens \in Nat /\ roll \in Rolls /\ mod \in Int /\ Size(mod) <= 26
    BY <1>1, BeforeAnAttack
<1>3. PICK att \in 0..52, def \in 0..35 : Outcome(o, res[next], att, def)
    BY <1>2, OutcomesAre, SMTT(30)
<1>4. CASE aliens > 0
    <2>1. o.left = res[next] /\ res[next].population > 0
        BY <1>2, <1>3, <1>4, AliensThatAreLeft
    <2> QED BY <1>1, <1>2, <2>1
<1>5. CASE ~(aliens > 0)
    <2>1. Total(Counts(res), D) = 1 /\ aliens = 0
        BY <1>2, <1>5
    <2>2. PICK h : h = res
        OBVIOUS
    <2>3. h \in [D -> Holdings] /\ IsFiniteSet(D) /\ Total(Counts(h), D) = 1
        BY <1>1, <1>2, <2>1, <2>2, NamesAreFinite
    <2>4. PICK c \in D : h[c].population > 0
        BY <2>3, PeopleAreCounted
    <2>5. res[c].population = 1
        <3>1. h[c].population \in Nat /\ h[c].population <= 1
            BY <2>3, PeopleAreCounted
        <3> QED BY <2>2, <2>4, <3>1
    <2>6. CASE c = next
        <3>1. o.left.population = 1
            BY <1>2, <1>3, <2>1, <2>5, <2>6, OneSurvives
        <3> QED BY <1>1, <1>2, <3>1, SMTT(30)
    <2>7. CASE c # next
        BY <1>1, <1>2, <2>5, <2>7
    <2> QED BY <2>6, <2>7
<1> QED BY <1>4, <1>5

\* ... and through an attack, which may take a country off the list.
LEMMA AttackKeeps ==
    ASSUME InvasionInv, ExecuteAttack
    PROVE  InvasionInv'
<1>1. PICK D : D = ToSet(Names)
    OBVIOUS
<1>2. main = "attack" /\ roll' = 1 /\ type' = 0 /\ mod' = 0 /\ UNCHANGED crowded
    BY DEF ExecuteAttack
<1>3. /\ TypeOK /\ DOMAIN res = D /\ res \in [D -> Holdings]
      /\ next \in ToSet(countries) /\ ToSet(countries) \subseteq D
      /\ res[next] \in Holdings /\ next # "null"
      /\ \A c \in D \ ToSet(countries) : res[c].population = 0
      /\ aliens \in Nat /\ roll \in Rolls /\ mod \in Int /\ Size(mod) <= 26
    BY <1>1, <1>2, BeforeAnAttack
<1>3a. PICK o \in Outcomes(res[next]) : \E list, then : Attacked(o, list, then)
    BY AttackIs
<1>3b. PICK list, then : Attacked(o, list, then)
    BY <1>3a
<1>4. /\ res' = [res EXCEPT ![next] = o.left] /\ aliens' = o.aliens
      /\ list = IF o.aliens >= 1 /\ res'[next].population < 1
                THEN RemoveFirst(countries, next) ELSE countries
      /\ then = IF res'[next].population < 1 THEN GetNextCountry(list) ELSE next
      /\ countries' = list
      /\ \/ o.aliens >= 1 /\ then # "null" /\ main' = "round" /\ next' = then
         \/ (o.aliens < 1 \/ then = "null") /\ main' = "over" /\ next' = next
    BY <1>3b DEF Attacked
<1>5. PICK att \in 0..52, def \in 0..35 : Outcome(o, res[next], att, def)
    BY <1>3, OutcomesAre, SMTT(30)
<1>6. o.left \in Holdings /\ o.aliens \in Nat
    BY <1>3, <1>5, OutcomesAreLosses, AliensThatAreLeft
<1>7. /\ res' \in [D -> Holdings] /\ DOMAIN res' = D
      /\ \A c \in D \ {next} : res'[c] = res[c]
      /\ \A c \in D : res'[c].population \in Nat
    <2>1. res' \in [D -> Holdings] /\ \A c \in D \ {next} : res'[c] = res[c]
        BY <1>3, <1>4, <1>6
    <2>2. \A c \in D : res'[c] \in Holdings
        BY <2>1
    <2> QED BY <2>1, <2>2, HoldingsAreNat
<1>8. /\ list \in Seq(D) /\ IsInjective(list) /\ ToSet(list) \subseteq ToSet(countries)
      /\ \A c \in ToSet(countries) \ ToSet(list) : c = next /\ res'[next].population < 1
      /\ ~(res'[next].population < 1) => list = countries
    BY <1>1, <1>3, <1>4, RemoveFirstToSet DEF TypeOK
<1>9. \A c \in D \ ToSet(list) : res'[c].population = 0
    BY <1>3, <1>7, <1>8
<1>10. /\ then # "null" => then \in ToSet(list) /\ res'[then].population > 0
       /\ then = "null" => \A c \in D : res'[c].population = 0
    <2>1. CASE res'[next].population < 1
        <3>1. then = GetNextCountry(list)
            BY <1>4, <2>1
        <3>2. /\ then # "null" => then \in ToSet(list) /\ res'[then].population > 0
              /\ then = "null" => \A c \in ToSet(list) : ~(res'[c].population > 0)
            BY <1>1, <1>8, <3>1, NamesAreFinite, NextCountryHasPeople
        <3>3. \A c \in ToSet(list) : c \in D
            BY <1>3, <1>8
        <3> QED BY <1>7, <1>9, <3>2, <3>3
    <2>2. CASE ~(res'[next].population < 1)
        BY <1>3, <1>4, <1>7, <1>8, <2>2
    <2> QED BY <2>1, <2>2
<1>11. TypeOK'
    <2>1. next' \in D /\ main' \in {"round", "over"}
        BY <1>3, <1>4, <1>8, <1>10
    <2>2. 1 \in Rolls /\ 0 \in Modifiers /\ 0 \in 0..1
        BY DEF Rolls, Modifiers
    <2>3. crowded' \in BOOLEAN
        BY <1>2, <1>3 DEF TypeOK
    <2>4. /\ main' \in {"init", "round", "attack", "over", "crashed"}
          /\ roll' \in Rolls /\ type' \in 0..1 /\ mod' \in Modifiers
        BY <1>2, <2>1, <2>2
    <2>5. countries' \in Seq(ToSet(Names)) /\ IsInjective(countries')
        BY <1>1, <1>4, <1>8
    <2> QED BY <1>1, <1>4, <1>6, <1>7, <2>1, <2>3, <2>4, <2>5 DEF TypeOK
<1>12. World(res', countries', next', aliens', crowded', main')
    <2>1. CASE main' = "round"
        <3>1. o.aliens >= 1 /\ next' = then /\ then \in ToSet(list) /\ res'[then].population > 0
            BY <1>4, <1>10, <2>1
        <3>2. PICK h : h = res'
            OBVIOUS
        <3>3. h \in [D -> Holdings] /\ IsFiniteSet(D) /\ then \in D /\ h[then].population > 0
            BY <1>1, <1>3, <1>7, <1>8, <3>1, <3>2, NamesAreFinite
        <3>4. Total(Counts(h), D) > 0
            BY <3>3, PeopleAreCounted
        <3>5. Total(Counts(res'), DOMAIN res') > 0 /\ aliens' > 0
            <4>1. DOMAIN res' = D /\ aliens' > 0
                BY <1>4, <1>6, <1>7, <3>1
            <4>2. Total(Counts(res'), D) > 0
                BY <3>2, <3>4
            <4> QED BY <4>1, <4>2
        <3>6. /\ DOMAIN res' = ToSet(Names) /\ countries' = list /\ next' = then
              /\ \A c \in ToSet(Names) \ ToSet(list) : res'[c].population = 0
            BY <1>1, <1>4, <1>7, <1>9, <3>1
        <3> QED BY <3>1, <3>5, <3>6 DEF World
    <2>2. CASE main' = "over"
        BY <1>1, <1>4, <1>7, <1>9, <2>2 DEF World
    <2> QED BY <1>4, <2>1, <2>2
<1>13. VerdictIsRight'
    <2>1. CASE main' = "over" /\ o.aliens = 0
        <3>1. \E c \in D : res'[c].population > 0
            BY <1>1, <1>2, <1>4, <2>1, BeatenMeansPeople
        <3>2. \E c \in DOMAIN res' : res'[c].population > 0
            BY <1>7, <3>1
        <3>3. aliens' < 1
            BY <1>4, <2>1
        <3> QED BY <3>2, <3>3 DEF VerdictIsRight
    <2>2. CASE main' = "over" /\ o.aliens # 0
        <3>1. then = "null" /\ o.aliens >= 1
            BY <1>4, <1>6, <2>2
        <3>2. \A c \in DOMAIN res' : res'[c].population = 0
            BY <1>7, <1>10, <3>1
        <3>3. ~ \E c \in DOMAIN res' : res'[c].population > 0
            BY <3>2
        <3>4. ~(aliens' < 1)
            BY <1>4, <1>6, <2>2
        <3> QED BY <3>3, <3>4 DEF VerdictIsRight
    <2>3. CASE main' = "round"
        BY <2>3 DEF VerdictIsRight
    <2> QED BY <1>4, <2>1, <2>2, <2>3
<1>14. ModifierFitsTheDie'
    BY <1>4 DEF ModifierFitsTheDie
<1> QED BY <1>11, <1>12, <1>13, <1>14, InvariantIs

-----------------------------------------------------------------------------
(* The theorems.                                                           *)

(* Whatever is read, rolled and traded, the invariant of the invasion      *)
(* holds: people are only in countries on the list, the next target is one *)
(* of them, a round begins with people, and there is somebody to fight.    *)
THEOREM InvasionInvariantHolds == Spec => []InvasionInv
<1>1. InvasionInv /\ [Next]_vars => InvasionInv'
    <2> SUFFICES ASSUME InvasionInv, [Next]_vars
                 PROVE  InvasionInv'
        OBVIOUS
    <2>1. CASE Initialize
        BY <2>1, InitializeKeeps
    <2>2. CASE Run_Sequence
        BY <2>2, RoundKeeps
    <2>3. CASE ExecuteAttack
        BY <2>3, AttackKeeps
    <2>4. CASE UNCHANGED vars
        BY <2>4 DEF vars, InvasionInv, TypeOK, Underway, ModifierFitsTheDie, VerdictIsRight,
                    People
    <2> QED BY <2>1, <2>2, <2>3, <2>4 DEF Next
<1> QED BY <1>1, InitKeeps, PTL DEF Spec

(* The modifier is always one that the die's tables are written for, for   *)
(* any holdings and any number of aliens.                                  *)
THEOREM ModifierFits == Spec => []ModifierFitsTheDie
<1>1. InvasionInv => ModifierFitsTheDie
    BY DEF InvasionInv
<1> QED BY <1>1, InvasionInvariantHolds, PTL

(* Rounds are only run with the countries of the file, people to attack    *)
(* and, unless a single person is all there is, aliens to attack them.     *)
THEOREM BeginsRight == Spec => []BeginsWithPeople
<1>1. InvasionInv => BeginsWithPeople
    BY DEF InvasionInv, BeginsWithPeople, Underway
<1> QED BY <1>1, InvasionInvariantHolds, PTL

(* The winner that is announced at the end is the side that is left.       *)
THEOREM VerdictHolds == Spec => []VerdictIsRight
<1>1. InvasionInv => VerdictIsRight
    BY DEF InvasionInv
<1> QED BY <1>1, InvasionInvariantHolds, PTL

(* An attack is one of the losses by which Hermes abstracts the invasion:  *)
(* at most 35 percent of the supplies or of the people, or all of them.    *)
THEOREM AttacksAreKnown == Spec => AttacksAreLosses
<1>1. InvasionInv /\ [Next]_vars =>
        [ExecuteAttack /\ res' # res =>
            \E p \in 0..35 \cup {100} : res'[next] \in AttackLosses(res[next], {p})]_vars
    <2> SUFFICES ASSUME InvasionInv, ExecuteAttack
                 PROVE  \E p \in 0..35 \cup {100} : res'[next] \in AttackLosses(res[next], {p})
        OBVIOUS
    <2>1. PICK o \in Outcomes(res[next]) : res' = [res EXCEPT ![next] = o.left]
        BY DEF ExecuteAttack
    <2>2. main = "attack"
        BY DEF ExecuteAttack
    <2>3. /\ DOMAIN res = ToSet(Names) /\ next \in ToSet(Names) /\ res[next] \in Holdings
          /\ aliens \in Nat /\ roll \in Rolls /\ mod \in Int /\ Size(mod) <= 26
        BY <2>2, BeforeAnAttack
    <2>4. PICK att \in 0..52, def \in 0..35 : Outcome(o, res[next], att, def)
        BY <2>3, OutcomesAre
    <2>5. KnownLoss(res[next], o.left)
        <3>1. PICK r : r = res[next]
            OBVIOUS
        <3>2. r \in Holdings /\ Outcome(o, r, att, def)
            BY <2>3, <2>4, <3>1
        <3>3. KnownLoss(r, o.left)
            BY <3>2, OutcomesAreLosses
        <3> QED BY <3>1, <3>3
    <2>6. res'[next] = o.left
        BY <2>1, <2>3
    <2> QED BY <2>5, <2>6 DEF KnownLoss
<1> QED BY <1>1, InvasionInvariantHolds, PTL DEF Spec, AttacksAreLosses
==============================================================================
