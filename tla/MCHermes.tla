------------------------------- MODULE MCHermes ------------------------------
(* The countries and the values the runs give to the constants.             *)
EXTENDS Hermes

CONSTANTS a, b, c   \* countries

H(p, e, t, al, x, h) ==
    [population |-> p, elements |-> e, timber |-> t, alloys |-> al,
     alloysWaste |-> 0, electronics |-> x, housing |-> h, housingWaste |-> 0]

\* Has what it needs; offers half its elements and alloys for timber.
Seller(e) == H(5, e, 0, 2, 5, 5)

\* Wants electronics, lacks n elements and can spare t timber for them ...
Buyer(n, t) == H(5, 21 - n, 2 * t, 14, 3, 5)

\* ... or s people.
Settler(n, s) == H(5, 21 - n, 1, 14, 3, 5 - s)

\* Lacks n people and has elements for them.
Village(n) == H(5 - n, 20, 0, 0, 5, 1)

\* Lacks alloys for a house, can make them.
Builder == H(10, 9, 5, 0, 20, 1)

\* Has what it needs and nothing to spare.
Sated == H(5, 1, 1, 1, 5, 5)

Two(x, y) == [k \in {a, b} |-> IF k = a THEN x ELSE y]

\* The matches of Manager.run: perfect, sufficient, undercut, priced too low,
\* priced with a rounded ratio; and two countries with no use for each other.
Matchings == {Two(Seller(2), Buyer(1, 2)), Two(Seller(12), Buyer(1, 2)),
              Two(Seller(4), Buyer(4, 8)), Two(Settler(3, 1), Village(2)),
              Two(Settler(3, 2), Village(3)), Two(Builder, Sated)}

\* Offers two people and three elements for the timber it lacks.
Bazaar == H(7, 6, 0, 1, 9, 5)

\* With a country whose surpluses fill a small queue, and two of them.
Markets == Matchings \cup {Two(Bazaar, Buyer(1, 4)), Two(Bazaar, Bazaar)}

\* For several rounds.
Worlds == {Two(Seller(4), Buyer(1, 2))}

Three(x, y, z) == [k \in {a, b, c} |-> CASE k = a -> x [] k = b -> y [] k = c -> z]

\* Two that trade, and a third that may be attacked, too.
Bystanders == {Three(Seller(4), Buyer(1, 2), Sated)}
=============================================================================
