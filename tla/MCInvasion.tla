------------------------------ MODULE MCInvasion ------------------------------
(***************************************************************************)
(* Worlds for the invasion.                                                *)
(***************************************************************************)
EXTENDS AlienInvasion

\* p people with h houses, x electronics, e elements and w of the last waste.
Land(p, h, x, e, w) ==
    [population |-> p, elements |-> e, timber |-> 9, alloys |-> 9, alloysWaste |-> 0,
     electronics |-> x, housing |-> h, housingWaste |-> w]

\* In need of everything; of nothing, with a waste as large as a force.
Poor    == Land(0, 0, 0, 0, 0)
Wasting(n) == Land(0, 901, 9007, 91, n)

Both == <<"Aerelon", "Aquaria">>

Worlds(p, q) == [c \in ToSet(Both) |-> Land(IF c = "Aerelon" THEN p ELSE q, 0, 0, 0, 0)]

\* A country large enough for a siege and one without people; two small ones;
\* worlds too small to be attacked; and one of the countries missing in the file.
Allies == {Worlds(35, 0), Worlds(8, 1), Worlds(1, 1), Worlds(0, 1), Worlds(0, 0),
           [c \in {"Aerelon"} |-> Land(3, 0, 0, 0, 0)]}
Forces == {0, 1, 3, 11, 18}
Stocks == {Poor, Wasting(8)}
\* One-sided trades may empty a country, or fill an empty one.
Numbers == {0, 35}

\* A country that a few aliens can neither wear down nor be beaten by.
Duels == {Worlds(2, 0)}
=============================================================================
