--------------------------- MODULE WebsocketProofs ---------------------------
(***************************************************************************)
(* Proofs about the messages of a websocket (Websocket): what is on the    *)
(* way to an end is a chain of whole frames, and the inductive invariant   *)
(* SocketInv says where in it the end's reader is.  The first lemmas are   *)
(* about sequences, digits and headers, then those about the chain, the    *)
(* steps of an end, and the theorem.                                       *)
(***************************************************************************)
EXTENDS Websocket, FiniteSetTheorems, NaturalsInduction, WellFoundedInduction, SequenceTheorems, TLAPS

UnitNames == {"op", "len", "ext", "mask", "data", "response"}
WUnits == [k : UnitNames, v : Nat, x : Int]

\* A unit has a kind, a value, and what it was masked with.
LEMMA UnitFits ==
    ASSUME NEW k \in UnitNames, NEW v \in Nat, NEW x \in Int
    PROVE  Unit(k, v, x) \in WUnits
BY DEF Unit, WUnits

\* A number is its last digit and the others.
LEMMA QuotientIs ==
    ASSUME NEW n \in Nat, NEW b \in Nat \ {0}, NEW q \in Int, q = n \div b
    PROVE  b * q <= n /\ n < b * q + b
OBVIOUS

\* A digit is less than the base.
LEMMA RemainderIs ==
    ASSUME NEW n \in Nat, NEW b \in Nat \ {0}, NEW q \in Nat, NEW r \in 0 .. b - 1, n = b * q + r
    PROVE  n % b = r
OBVIOUS

\* The last digit of a number.
LEMMA LastDigit ==
    ASSUME NEW n \in Nat, NEW b \in Nat \ {0}
    PROVE  \E q, r \in Nat : q = n \div b /\ r = n % b /\ n = b * q + r
<1>1. n \div b \in Nat
  OBVIOUS
<1>2. PICK q \in Nat : q = n \div b
  BY <1>1
<1>3. b * q <= n /\ n < b * q + b
  BY <1>2, QuotientIs
<1>4. PICK p \in Nat : p = b * q
  OBVIOUS
<1>5. PICK r \in 0 .. b - 1 : n = p + r
  <2>1. n - p \in 0 .. b - 1
    BY <1>3, <1>4
  <2> QED BY <2>1
<1>6. n % b = r
  BY <1>4, <1>5, RemainderIs
<1>7. r \in Nat
  BY <1>5
<1> QED BY <1>2, <1>4, <1>5, <1>6, <1>7

\* The numbers without their last digits, one after the other.
LEMMA ShiftsAre ==
    ASSUME WebsocketAssumption, NEW n \in Nat
    PROVE  /\ Shifts(n)[0] = n
           /\ \A k \in 0 .. 8 : Shifts(n)[k] \in Nat
           /\ \A k \in 1 .. 8 : Shifts(n)[k] = Shifts(n)[k - 1] \div Base
<1>0. Base \in Nat \ {0}
  BY DEF WebsocketAssumption
<1>a. PICK a1 \in Nat : a1 = n \div Base
  BY <1>0, LastDigit
<1>b. PICK a2 \in Nat : a2 = a1 \div Base
  BY <1>0, LastDigit
<1>c. PICK a3 \in Nat : a3 = a2 \div Base
  BY <1>0, LastDigit
<1>d. PICK a4 \in Nat : a4 = a3 \div Base
  BY <1>0, LastDigit
<1>e. PICK a5 \in Nat : a5 = a4 \div Base
  BY <1>0, LastDigit
<1>f. PICK a6 \in Nat : a6 = a5 \div Base
  BY <1>0, LastDigit
<1>g. PICK a7 \in Nat : a7 = a6 \div Base
  BY <1>0, LastDigit
<1>h. PICK a8 \in Nat : a8 = a7 \div Base
  BY <1>0, LastDigit
<1> DEFINE w == [k \in 0 .. 8 |-> IF k = 0 THEN n ELSE IF k = 1 THEN a1 ELSE IF k = 2 THEN a2 ELSE IF k = 3 THEN a3
                  ELSE IF k = 4 THEN a4 ELSE IF k = 5 THEN a5 ELSE IF k = 6 THEN a6 ELSE IF k = 7 THEN a7 ELSE a8]
<1>1. \A k \in 0 .. 8 : w[k] = IF k = 0 THEN n ELSE w[k - 1] \div Base
  <2>1. \A k \in 0 .. 3 : w[k] = IF k = 0 THEN n ELSE w[k - 1] \div Base
    BY <1>a, <1>b, <1>c
  <2>2. \A k \in 4 .. 6 : w[k] = w[k - 1] \div Base
    BY <1>d, <1>e, <1>f
  <2>3. \A k \in 7 .. 8 : w[k] = w[k - 1] \div Base
    BY <1>g, <1>h
  <2> HIDE DEF w
  <2>4. \A k \in 0 .. 8 : k \in 0 .. 3 \/ k \in 4 .. 6 \/ k \in 7 .. 8
    OBVIOUS
  <2> QED BY <2>1, <2>2, <2>3, <2>4
<1>2. w = [k \in 0 .. 8 |-> IF k = 0 THEN n ELSE w[k - 1] \div Base]
  BY <1>1, SMTT(30)
<1> HIDE DEF w
<1> DEFINE Shift(s) == s = [k \in 0 .. 8 |-> IF k = 0 THEN n ELSE s[k - 1] \div Base]
<1>3. Shift(CHOOSE s : Shift(s))
  BY <1>2, SMTT(30)
<1>4. Shift(Shifts(n))
  BY <1>3 DEF Shifts
<1>5. PICK s : s = Shifts(n)
  OBVIOUS
<1>6. s[0] = n /\ \A k \in 1 .. 8 : s[k] = s[k - 1] \div Base
  BY <1>4, <1>5
<1> HIDE DEF Shift
<1>7. s[0] \in Nat /\ s[1] \in Nat
  BY <1>0, <1>6, LastDigit
<1>8. s[2] \in Nat
  BY <1>0, <1>6, <1>7, LastDigit
<1>9. s[3] \in Nat
  BY <1>0, <1>6, <1>8, LastDigit
<1>10. s[4] \in Nat
  BY <1>0, <1>6, <1>9, LastDigit
<1>11. s[5] \in Nat
  BY <1>0, <1>6, <1>10, LastDigit
<1>12. s[6] \in Nat
  BY <1>0, <1>6, <1>11, LastDigit
<1>13. s[7] \in Nat
  BY <1>0, <1>6, <1>12, LastDigit
<1>14. s[8] \in Nat
  BY <1>0, <1>6, <1>13, LastDigit
<1>15. \A k \in 0 .. 8 : s[k] \in Nat
  BY <1>7, <1>8, <1>9, <1>10, <1>11, <1>12, <1>13, <1>14
<1> QED BY <1>5, <1>6, <1>15

\* The value of up to eight digits, one digit after the other.
LEMMA ValueIs ==
    ASSUME NEW c \in 0 .. 8, NEW u \in Seq(WUnits), Len(u) = c
    PROVE  \E v : /\ v[0] = 0 /\ Value(u) = v[c]
                  /\ \A i \in 1 .. c : v[i] = Base * v[i - 1] + u[i].v
<1>a. PICK a1 : a1 = Base * 0 + u[1].v
  OBVIOUS
<1>b. PICK a2 : a2 = Base * a1 + u[2].v
  OBVIOUS
<1>c. PICK a3 : a3 = Base * a2 + u[3].v
  OBVIOUS
<1>d. PICK a4 : a4 = Base * a3 + u[4].v
  OBVIOUS
<1>e. PICK a5 : a5 = Base * a4 + u[5].v
  OBVIOUS
<1>f. PICK a6 : a6 = Base * a5 + u[6].v
  OBVIOUS
<1>g. PICK a7 : a7 = Base * a6 + u[7].v
  OBVIOUS
<1>h. PICK a8 : a8 = Base * a7 + u[8].v
  OBVIOUS
<1> DEFINE w == [k \in 0 .. c |-> IF k = 0 THEN 0 ELSE IF k = 1 THEN a1 ELSE IF k = 2 THEN a2 ELSE IF k = 3 THEN a3
                  ELSE IF k = 4 THEN a4 ELSE IF k = 5 THEN a5 ELSE IF k = 6 THEN a6 ELSE IF k = 7 THEN a7 ELSE a8]
<1>1. \A k \in 0 .. c : w[k] = IF k = 0 THEN 0 ELSE Base * w[k - 1] + u[k].v
  <2>1. \A k \in 0 .. c : k \in 0 .. 3 => w[k] = IF k = 0 THEN 0 ELSE Base * w[k - 1] + u[k].v
    BY <1>a, <1>b, <1>c
  <2>2. \A k \in 0 .. c : k \in 4 .. 6 => w[k] = Base * w[k - 1] + u[k].v
    BY <1>d, <1>e, <1>f
  <2>3. \A k \in 0 .. c : k \in 7 .. 8 => w[k] = Base * w[k - 1] + u[k].v
    BY <1>g, <1>h
  <2> HIDE DEF w
  <2>4. \A k \in 0 .. c : k \in 0 .. 3 \/ k \in 4 .. 6 \/ k \in 7 .. 8
    OBVIOUS
  <2> QED BY <2>1, <2>2, <2>3, <2>4
<1>2. w = [k \in 0 .. c |-> IF k = 0 THEN 0 ELSE Base * w[k - 1] + u[k].v]
  BY <1>1
<1> HIDE DEF w
<1> DEFINE Shift(s) == s = [k \in 0 .. Len(u) |-> IF k = 0 THEN 0 ELSE Base * s[k - 1] + u[k].v]
<1>3. Shift(CHOOSE s : Shift(s))
  BY <1>2
<1>4. PICK v : v = CHOOSE s : Shift(s)
  OBVIOUS
<1>5. Value(u) = v[Len(u)]
  BY <1>4 DEF Value
<1>6. v = [k \in 0 .. Len(u) |-> IF k = 0 THEN 0 ELSE Base * v[k - 1] + u[k].v]
  BY <1>3, <1>4
<1> QED BY <1>5, <1>6

\* The digits of a length are read as the length.
LEMMA DigitsAreRead ==
    ASSUME WebsocketAssumption, NEW n \in Nat, NEW c \in {2, 8}, Shifts(n)[c] = 0,
           NEW u \in Seq(WUnits), Len(u) = c, \A i \in 1 .. c : u[i] = Digits(n, c)[i]
    PROVE  Value(u) = n
<1>0. Base \in Nat \ {0}
  BY DEF WebsocketAssumption
<1>1. PICK s : s = Shifts(n)
  OBVIOUS
<1>2. /\ s[0] = n /\ \A k \in 0 .. 8 : s[k] \in Nat
      /\ \A k \in 1 .. 8 : s[k] = s[k - 1] \div Base
  BY <1>1, ShiftsAre, ZenonT(60)
<1>3. PICK v : v[0] = 0 /\ Value(u) = v[c] /\ \A i \in 1 .. c : v[i] = Base * v[i - 1] + u[i].v
  <2>1. c \in 0 .. 8
    OBVIOUS
  <2> QED BY <2>1, ValueIs
<1>4. \A i \in 1 .. c : u[i].v = s[c - i] % Base
  BY <1>1 DEF Digits, Unit
<1>5. ASSUME NEW i \in 1 .. c, v[i - 1] = s[c - i + 1]
      PROVE  v[i] = s[c - i]
  <2>1. c - i \in 0 .. 8 /\ c - i + 1 \in 1 .. 8 /\ (c - i + 1) - 1 = c - i
    OBVIOUS
  <2>2. PICK y : y = s[c - i]
    OBVIOUS
  <2>3. y \in Nat /\ s[c - i + 1] = y \div Base
    BY <1>2, <2>1, <2>2
  <2>4. u[i].v = y % Base /\ v[i - 1] = y \div Base
    BY <1>4, <1>5, <2>2, <2>3
  <2>5. v[i] = Base * v[i - 1] + u[i].v
    BY <1>3
  <2>6. PICK q, r \in Nat : q = y \div Base /\ r = y % Base /\ y = Base * q + r
    BY <1>0, <2>3, LastDigit
  <2>7. v[i] = Base * q + r
    <3>1. v[i - 1] = q /\ u[i].v = r
      BY <2>4, <2>6
    <3> QED BY <2>5, <3>1
  <2> QED BY <2>2, <2>6, <2>7
<1>6. v[0] = s[c]
  BY <1>1, <1>3
<1>7. v[1] = s[c - 1]
  BY <1>5, <1>6
<1>8. v[2] = s[c - 2]
  BY <1>5, <1>7
<1>9. CASE c = 2
  BY <1>2, <1>3, <1>8, <1>9
<1>10. CASE c = 8
  <2>1. v[3] = s[c - 3]
    BY <1>5, <1>8, <1>10
  <2>2. v[4] = s[c - 4]
    BY <1>5, <1>10, <2>1
  <2>3. v[5] = s[c - 5]
    BY <1>5, <1>10, <2>2
  <2>4. v[6] = s[c - 6]
    BY <1>5, <1>10, <2>3
  <2>5. v[7] = s[c - 7]
    BY <1>5, <1>10, <2>4
  <2>6. v[8] = s[c - 8]
    BY <1>5, <1>10, <2>5
  <2> QED BY <1>2, <1>3, <1>10, <2>6
<1> QED BY <1>9, <1>10

MaskOf(o) == IF o = "client" THEN [j \in 1 .. 4 |-> Unit("mask", j, 0)] ELSE << >>
MaskSize(o) == IF o = "client" THEN 4 ELSE 0

\* The field of the length: n itself, or two or eight digits behind what announces them.
FieldOf(n, x) ==
    IF n < Inline THEN <<Unit("len", n, x)>>
    ELSE IF Shifts(n)[2] = 0 THEN <<Unit("len", Inline, x)>> \o Digits(n, 2)
    ELSE <<Unit("len", Inline + 1, x)>> \o Digits(n, 8)
FieldSize(n) == IF n < Inline THEN 1 ELSE IF Shifts(n)[2] = 0 THEN 3 ELSE 9
FieldStart(n) == IF n < Inline THEN n ELSE IF Shifts(n)[2] = 0 THEN Inline ELSE Inline + 1

\* The mask of a header is a sequence of units.
LEMMA MaskIs ==
    ASSUME NEW o \in Ends
    PROVE  MaskOf(o) \in Seq(WUnits) /\ Len(MaskOf(o)) = MaskSize(o)
<1>1. \A j \in 1 .. 4 : Unit("mask", j, 0) \in WUnits
  BY UnitFits DEF UnitNames
<1> QED BY <1>1 DEF MaskOf, MaskSize

\* The digits of a number are units, as many as the field has.
LEMMA DigitsIs ==
    ASSUME WebsocketAssumption, NEW n \in Nat, NEW c \in {2, 8}
    PROVE  Digits(n, c) \in Seq(WUnits) /\ Len(Digits(n, c)) = c
<1>1. PICK s : s = Shifts(n)
  OBVIOUS
<1>2. \A k \in 0 .. 8 : s[k] \in Nat
  BY <1>1, ShiftsAre
<1>3. \A i \in 1 .. c : c - i \in 0 .. 8
  OBVIOUS
<1>4. \A k \in 0 .. 8 : s[k] % Base \in Nat
  BY <1>2, LastDigit DEF WebsocketAssumption
<1>5. \A i \in 1 .. c : Unit("ext", s[c - i] % Base, 0) \in WUnits
  BY <1>3, <1>4, UnitFits DEF UnitNames
<1> QED BY <1>1, <1>5 DEF Digits

\* The field of a length is read as it was written.
LEMMA FieldIs ==
    ASSUME WebsocketAssumption, NEW n \in Nat, NEW x \in {0, 1}
    PROVE  LET f == FieldOf(n, x) IN
           /\ f \in Seq(WUnits) /\ Len(f) = FieldSize(n)
           /\ f[1] = Unit("len", FieldStart(n), x)
           /\ FieldSize(n) = 3 => \A i \in 1 .. 2 : f[1 + i] = Digits(n, 2)[i]
           /\ FieldSize(n) = 9 => \A i \in 1 .. 8 : f[1 + i] = Digits(n, 8)[i]
<1>0. Inline \in Nat
  BY DEF WebsocketAssumption
<1>1. CASE n < Inline
  <2>1. PICK u : u = Unit("len", n, x)
    OBVIOUS
  <2>2. u \in WUnits
    BY <2>1, UnitFits DEF UnitNames
  <2>3. <<u>> \in Seq(WUnits) /\ Len(<<u>>) = 1 /\ <<u>>[1] = u
    BY <2>2
  <2>4. FieldOf(n, x) = <<u>> /\ FieldSize(n) = 1 /\ FieldStart(n) = n
    BY <1>1, <2>1 DEF FieldOf, FieldSize, FieldStart
  <2> QED BY <2>1, <2>3, <2>4
<1>2. ASSUME NEW v \in Nat, NEW c \in {2, 8}, NEW f, f = <<Unit("len", v, x)>> \o Digits(n, c)
      PROVE  /\ f \in Seq(WUnits) /\ Len(f) = 1 + c /\ f[1] = Unit("len", v, x)
             /\ \A i \in 1 .. c : f[1 + i] = Digits(n, c)[i]
  <2>1. PICK d : d = Digits(n, c)
    OBVIOUS
  <2>2. d \in Seq(WUnits) /\ Len(d) = c
    BY <2>1, DigitsIs
  <2>3. PICK u : u = Unit("len", v, x)
    OBVIOUS
  <2>4. u \in WUnits
    BY <2>3, UnitFits DEF UnitNames
  <2>5. f = <<u>> \o d
    BY <1>2, <2>1, <2>3
  <2>6. f \in Seq(WUnits) /\ Len(f) = 1 + c /\ f[1] = u /\ \A i \in 1 .. c : f[1 + i] = d[i]
    BY <2>2, <2>4, <2>5
  <2> QED BY <2>1, <2>3, <2>6
<1>3. CASE ~(n < Inline) /\ Shifts(n)[2] = 0
  <2>1. FieldOf(n, x) = <<Unit("len", Inline, x)>> \o Digits(n, 2) /\ FieldSize(n) = 1 + 2 /\ FieldStart(n) = Inline
    BY <1>3 DEF FieldOf, FieldSize, FieldStart
  <2>2. Inline \in Nat
    BY <1>0
  <2>3. PICK f : f = FieldOf(n, x)
    OBVIOUS
  <2>4. /\ f \in Seq(WUnits) /\ Len(f) = 1 + 2 /\ f[1] = Unit("len", Inline, x)
        /\ \A i \in 1 .. 2 : f[1 + i] = Digits(n, 2)[i]
    BY <1>2, <2>1, <2>2, <2>3
  <2> QED BY <2>1, <2>3, <2>4
<1>4. CASE ~(n < Inline) /\ Shifts(n)[2] # 0
  <2>1. FieldOf(n, x) = <<Unit("len", Inline + 1, x)>> \o Digits(n, 8) /\ FieldSize(n) = 1 + 8 /\ FieldStart(n) = Inline + 1
    BY <1>4 DEF FieldOf, FieldSize, FieldStart
  <2>2. Inline + 1 \in Nat
    BY <1>0
  <2>3. PICK f : f = FieldOf(n, x)
    OBVIOUS
  <2>4. /\ f \in Seq(WUnits) /\ Len(f) = 1 + 8 /\ f[1] = Unit("len", Inline + 1, x)
        /\ \A i \in 1 .. 8 : f[1 + i] = Digits(n, 8)[i]
    BY <1>2, <2>1, <2>2, <2>3
  <2> QED BY <2>1, <2>3, <2>4
<1> QED BY <1>1, <1>3, <1>4

\* The header of a message: its length, and what is where.
LEMMA HeaderForm ==
    ASSUME WebsocketAssumption, NEW o \in Ends, NEW op \in Nat, NEW n \in Nat
    PROVE  LET h == Header(o, "app", op, n)
               x == IF o = "client" THEN 1 ELSE 0 IN
           /\ h \in Seq(WUnits) /\ Len(h) = 1 + FieldSize(n) + MaskSize(o)
           /\ h[1] = Unit("op", op, 0) /\ h[2] = Unit("len", FieldStart(n), x)
           /\ FieldSize(n) = 3 => \A i \in 1 .. 2 : h[2 + i] = Digits(n, 2)[i]
           /\ FieldSize(n) = 9 => \A i \in 1 .. 8 : h[2 + i] = Digits(n, 8)[i]
           /\ \A j \in 1 .. MaskSize(o) : h[1 + FieldSize(n) + j] = MaskOf(o)[j]
<1>0. Inline \in Nat
  BY DEF WebsocketAssumption
<1>1. PICK x \in {0, 1} : x = IF o = "client" THEN 1 ELSE 0
  OBVIOUS
<1>2. PICK h : h = Header(o, "app", op, n)
  OBVIOUS
<1>3. PICK f, m, u : f = FieldOf(n, x) /\ m = MaskOf(o) /\ u = Unit("op", op, 0)
  OBVIOUS
<1>4. h = <<u>> \o f \o m
  <2>1. m = IF x = 1 THEN [j \in 1 .. 4 |-> Unit("mask", j, 0)] ELSE << >>
    BY <1>1, <1>3 DEF MaskOf
  <2>2. x = IF Masks(o, "app") THEN 1 ELSE 0
    BY <1>1 DEF Masks
  <2>3. h = <<u>> \o (CASE n < Inline -> <<Unit("len", n, x)>>
                        [] n >= Inline /\ Shifts(n)[2] = 0 -> <<Unit("len", Inline, x)>> \o Digits(n, 2)
                        [] OTHER -> <<Unit("len", Inline + 1, x)>> \o Digits(n, 8)) \o m
    BY <1>2, <1>3, <2>1, <2>2 DEF Header
  <2>4. (CASE n < Inline -> <<Unit("len", n, x)>>
           [] n >= Inline /\ Shifts(n)[2] = 0 -> <<Unit("len", Inline, x)>> \o Digits(n, 2)
           [] OTHER -> <<Unit("len", Inline + 1, x)>> \o Digits(n, 8)) = f
    BY <1>0, <1>3 DEF FieldOf
  <2> QED BY <2>3, <2>4
<1>5. /\ f \in Seq(WUnits) /\ Len(f) = FieldSize(n) /\ f[1] = Unit("len", FieldStart(n), x)
      /\ FieldSize(n) = 3 => \A i \in 1 .. 2 : f[1 + i] = Digits(n, 2)[i]
      /\ FieldSize(n) = 9 => \A i \in 1 .. 8 : f[1 + i] = Digits(n, 8)[i]
  BY <1>3, FieldIs, ZenonT(60)
<1>6. m \in Seq(WUnits) /\ Len(m) = MaskSize(o) /\ u \in WUnits
  BY <1>3, MaskIs, UnitFits DEF UnitNames
<1>7. PICK a \in {1, 3, 9}, b \in {0, 4} : a = FieldSize(n) /\ b = MaskSize(o)
  BY DEF FieldSize, MaskSize
<1>8. /\ h \in Seq(WUnits) /\ Len(h) = 1 + a + b /\ h[1] = u
      /\ \A i \in 1 .. a : h[1 + i] = f[i]
      /\ \A j \in 1 .. b : h[1 + a + j] = m[j]
  <2>1. PICK g : g = f \o m
    OBVIOUS
  <2>2. f \in Seq(WUnits) /\ m \in Seq(WUnits) /\ Len(f) = a /\ Len(m) = b /\ a \in Nat /\ b \in Nat
    BY <1>5, <1>6, <1>7
  <2>3. /\ g \in Seq(WUnits) /\ Len(g) = a + b /\ (\A i \in 1 .. a : g[i] = f[i])
        /\ (\A j \in 1 .. b : g[a + j] = m[j])
    BY <2>1, <2>2
  <2>4. h = <<u>> \o g
    BY <1>4, <2>1, <2>2, <1>6
  <2>5. /\ h \in Seq(WUnits) /\ Len(h) = 1 + (a + b) /\ h[1] = u
        /\ \A i \in 1 .. a + b : h[1 + i] = g[i]
    BY <2>2, <2>3, <2>4, <1>6
  <2>6. \A i \in 1 .. a : i \in 1 .. a + b
    BY <2>2
  <2>7. \A j \in 1 .. b : a + j \in 1 .. a + b /\ 1 + (a + j) = 1 + a + j
    BY <2>2
  <2>8. \A i \in 1 .. a : h[1 + i] = f[i]
    BY <2>3, <2>5, <2>6
  <2>9. \A j \in 1 .. b : h[1 + a + j] = m[j]
    BY <2>3, <2>5, <2>7
  <2>10. Len(h) = 1 + a + b
    BY <2>2, <2>5
  <2> QED BY <2>5, <2>8, <2>9, <2>10, Zenon
<1>9. h[2] = f[1] /\ (a = 3 => \A i \in 1 .. 2 : h[2 + i] = f[1 + i]) /\ (a = 9 => \A i \in 1 .. 8 : h[2 + i] = f[1 + i])
  <2>1. ASSUME NEW i \in 0 .. a - 1
        PROVE  h[2 + i] = f[1 + i]
    <3>1. 1 + i \in 1 .. a /\ 1 + (1 + i) = 2 + i
      BY <1>7
    <3> QED BY <1>8, <3>1
  <2>2. 0 \in 0 .. a - 1 /\ (a = 3 => \A i \in 1 .. 2 : i \in 0 .. a - 1) /\ (a = 9 => \A i \in 1 .. 8 : i \in 0 .. a - 1)
    BY <1>7
  <2>3. h[2] = f[1]
    BY <2>1, <2>2
  <2> QED BY <2>1, <2>2, <2>3
<1> QED BY <1>1, <1>2, <1>3, <1>5, <1>7, <1>8, <1>9

\* A message as the application sends it: nothing of it is masked.
Plain == {u \in WUnits : u.x = 0}
WMessages == [op : Nat, data : Seq(Plain)]
Fits(m) == Shifts(Len(m.data))[8] = 0 /\ (PingPong => m.op \notin {Ping, Pong})

Bytes(o, m) == Header(o, "app", m.op, Len(m.data)) \o Masked(o, "app", m.data)
Control(c) == <<Unit("op", c, 0), Unit("len", 0, 0)>>

\* y is in T behind its first t units.
At(T, t, y) == t + Len(y) <= Len(T) /\ \A i \in 1 .. Len(y) : T[t + i] = y[i]

\* What an end may write in one piece, when j messages are sent and then k.
Writes(y, s, o, j, k) ==
    \/ j < Len(s) /\ k = j + 1 /\ y = Bytes(o, s[k])
    \/ PingPong /\ k = j /\ \E c \in {Ping, Pong} : y = Control(c)

Follows(T, s, o, t, j, u, k) ==
    \E y \in Seq(WUnits) : Writes(y, s, o, j, k) /\ At(T, t, y) /\ u = t + Len(y) /\ Len(y) > 0

\* Where pieces begin in T: j messages have begun before t, if j is in P[t].
Chain(P, T, s, o) ==
    \A t, j \in Nat : j \in P[t] =>
      \/ t = Len(T) /\ j = Len(s)
      \/ \E u, k \in Nat : k \in P[u] /\ Follows(T, s, o, t, j, u, k)

Carried(T, d, b, s, o) ==
    \E P \in [Nat -> SUBSET Nat] : b \in P[d] /\ Chain(P, T, s, o)

\* The data of a message is as long masked as it was.
LEMMA DataIs ==
    ASSUME NEW o \in Ends, NEW d \in Seq(Plain)
    PROVE  Masked(o, "app", d) \in Seq(WUnits) /\ Len(Masked(o, "app", d)) = Len(d)
<1>1. CASE o = "client"
  <2>1. Masked(o, "app", d) = [i \in 1 .. Len(d) |-> [d[i] EXCEPT !.x = ((i - 1) % 4) + 1]]
    BY <1>1 DEF Masked, Masks
  <2>2. \A i \in 1 .. Len(d) : [d[i] EXCEPT !.x = ((i - 1) % 4) + 1] \in WUnits
    BY SMTT(30) DEF Plain, WUnits
  <2> QED BY <2>1, <2>2, SMTT(30)
<1>2. CASE o # "client"
  BY <1>2 DEF Masked, Masks, Plain
<1> QED BY <1>1, <1>2

\* What one end masks, the other unmasks with the mask of the header.
LEMMA UnmaskIs ==
    ASSUME NEW o \in Ends, NEW d \in Seq(Plain)
    PROVE  Unmask(Masked(o, "app", d), MaskOf(o)) = d
<1>1. CASE o = "client"
  <2>1. PICK m : m = MaskOf(o)
    OBVIOUS
  <2>2. PICK w : w = Masked(o, "app", d)
    OBVIOUS
  <2>3. w = [i \in 1 .. Len(d) |-> [d[i] EXCEPT !.x = ((i - 1) % 4) + 1]]
    BY <1>1, <2>2 DEF Masked, Masks
  <2>4. m # << >> /\ \A j \in 1 .. 4 : m[j] = Unit("mask", j, 0)
    BY <1>1, <2>1 DEF MaskOf
  <2>5. \A i \in 1 .. Len(d) : LET key == m[((i - 1) % 4) + 1] IN
          (IF key.k = "mask" /\ w[i].x = key.v THEN [w[i] EXCEPT !.x = 0]
           ELSE [w[i] EXCEPT !.x = -1]) = d[i]
    <3> TAKE i \in 1 .. Len(d)
    <3>1. PICK j \in 1 .. 4 : j = ((i - 1) % 4) + 1
      OBVIOUS
    <3>2. m[j].k = "mask" /\ m[j].v = j
      BY <2>4 DEF Unit
    <3>3. d[i] \in Plain
      OBVIOUS
    <3>4. w[i] = [d[i] EXCEPT !.x = j]
      BY <2>3, <3>1
    <3>5. w[i].x = j /\ [w[i] EXCEPT !.x = 0] = d[i]
      BY <3>3, <3>4 DEF Plain, WUnits
    <3> QED BY <3>1, <3>2, <3>5
  <2>6. DOMAIN w = 1 .. Len(d)
    BY <2>3
  <2>7. Unmask(w, m) = [i \in 1 .. Len(d) |-> d[i]]
    BY <2>4, <2>5, <2>6 DEF Unmask
  <2>8. [i \in 1 .. Len(d) |-> d[i]] = d
    OBVIOUS
  <2> QED BY <2>1, <2>2, <2>7, <2>8
<1>2. CASE o # "client"
  <2>1. Masked(o, "app", d) = d /\ MaskOf(o) = << >>
    BY <1>2 DEF Masked, Masks, MaskOf
  <2> QED BY <2>1 DEF Unmask
<1> QED BY <1>1, <1>2

\* The bytes of a message: the header, and behind it the data.
LEMMA BytesAre ==
    ASSUME WebsocketAssumption, NEW o \in Ends, NEW m \in WMessages
    PROVE  LET h == Header(o, "app", m.op, Len(m.data)) w == Masked(o, "app", m.data) y == Bytes(o, m) IN
           /\ h \in Seq(WUnits) /\ w \in Seq(WUnits) /\ y \in Seq(WUnits)
           /\ Len(h) \in Nat \ {0} /\ Len(w) = Len(m.data) /\ Len(y) = Len(h) + Len(m.data)
           /\ \A i \in 1 .. Len(h) : y[i] = h[i]
           /\ \A i \in 1 .. Len(w) : y[Len(h) + i] = w[i]
<1>1. PICK d : d = m.data
  OBVIOUS
<1>2. d \in Seq(Plain) /\ m.op \in Nat /\ Len(d) \in Nat
  BY <1>1 DEF WMessages
<1>3. PICK h, w, y : h = Header(o, "app", m.op, Len(d)) /\ w = Masked(o, "app", d) /\ y = h \o w
  OBVIOUS
<1>4. h \in Seq(WUnits) /\ Len(h) = 1 + FieldSize(Len(d)) + MaskSize(o)
  BY <1>2, <1>3, HeaderForm
<1>5. w \in Seq(WUnits) /\ Len(w) = Len(d)
  BY <1>2, <1>3, DataIs
<1>6. Len(h) \in Nat \ {0}
  BY <1>4 DEF FieldSize, MaskSize
<1>7. /\ y \in Seq(WUnits) /\ Len(y) = Len(h) + Len(w)
      /\ (\A i \in 1 .. Len(h) : y[i] = h[i]) /\ (\A i \in 1 .. Len(w) : y[Len(h) + i] = w[i])
  BY <1>3, <1>4, <1>5
<1>8. y = Bytes(o, m)
  BY <1>1, <1>3 DEF Bytes
<1> QED BY <1>1, <1>3, <1>4, <1>5, <1>6, <1>7, <1>8

\* The two units of a ping or a pong.
LEMMA ControlIs ==
    ASSUME NEW c \in {Ping, Pong}
    PROVE  Control(c) \in Seq(WUnits) /\ Len(Control(c)) = 2
           /\ Control(c)[1] = Unit("op", c, 0) /\ Control(c)[2] = Unit("len", 0, 0)
<1>1. PICK u, w : u = Unit("op", c, 0) /\ w = Unit("len", 0, 0)
  OBVIOUS
<1>2. u \in WUnits /\ w \in WUnits
  BY <1>1, UnitFits DEF UnitNames, Ping, Pong
<1>3. Control(c) = <<u, w>>
  BY <1>1 DEF Control
<1> QED BY <1>1, <1>2, <1>3

\* One sequence behind another.
LEMMA Joined ==
    ASSUME NEW U, NEW p \in Seq(U), NEW q \in Seq(U)
    PROVE  LET z == p \o q IN
           /\ z \in Seq(U) /\ Len(z) = Len(p) + Len(q)
           /\ \A i \in 1 .. Len(p) : z[i] = p[i]
           /\ \A i \in 1 .. Len(q) : z[Len(p) + i] = q[i]
OBVIOUS

\* The reader's pings and pongs have no data.
LEMMA ReadersHeader ==
    ASSUME WebsocketAssumption, NEW o \in Ends, NEW c \in {Ping, Pong}
    PROVE  Header(o, "reader", c, 0) = Control(c) /\ Masked(o, "reader", << >>) = << >>
<1>0. Inline \in Nat
  BY DEF WebsocketAssumption
<1>1. 0 < Inline
  BY DEF WebsocketAssumption
<1>2. ~Masks(o, "reader")
  BY DEF Masks
<1>3. PICK u, w : u = Unit("op", c, 0) /\ w = Unit("len", 0, 0)
  OBVIOUS
<1>4. u \in WUnits /\ w \in WUnits
  BY <1>3, UnitFits DEF UnitNames, Ping, Pong
<1>5. Header(o, "reader", c, 0) = <<u>> \o <<w>> \o << >>
  <2>1. Header(o, "reader", c, 0) =
          <<u>> \o (CASE 0 < Inline -> <<Unit("len", 0, 0)>>
                      [] 0 >= Inline /\ Shifts(0)[2] = 0 -> <<Unit("len", Inline, 0)>> \o Digits(0, 2)
                      [] OTHER -> <<Unit("len", Inline + 1, 0)>> \o Digits(0, 8)) \o << >>
    BY <1>2, <1>3 DEF Header
  <2>2. (CASE 0 < Inline -> <<Unit("len", 0, 0)>>
           [] 0 >= Inline /\ Shifts(0)[2] = 0 -> <<Unit("len", Inline, 0)>> \o Digits(0, 2)
           [] OTHER -> <<Unit("len", Inline + 1, 0)>> \o Digits(0, 8)) = <<w>>
    BY <1>0, <1>1, <1>3
  <2> QED BY <2>1, <2>2
<1>6. <<u>> \o <<w>> = <<u, w>>
  <2>1. PICK p, q : p = <<u>> /\ q = <<w>>
    OBVIOUS
  <2>2. p \in Seq(WUnits) /\ q \in Seq(WUnits) /\ Len(p) = 1 /\ Len(q) = 1 /\ p[1] = u /\ q[1] = w
    BY <1>4, <2>1
  <2>3. PICK z : z = p \o q
    OBVIOUS
  <2>4. z \in Seq(WUnits) /\ Len(z) = 2 /\ z[1] = u /\ z[2] = w
    <3>1. z \in Seq(WUnits) /\ Len(z) = Len(p) + Len(q)
      BY <2>2, <2>3, Joined
    <3>2. \A i \in 1 .. Len(p) : z[i] = p[i]
      BY <2>2, <2>3, Joined
    <3>3. \A i \in 1 .. Len(q) : z[Len(p) + i] = q[i]
      BY <2>2, <2>3, Joined
    <3>4. 1 \in 1 .. Len(p) /\ 1 \in 1 .. Len(q) /\ Len(p) + 1 = 2 /\ Len(p) + Len(q) = 2
      BY <2>2
    <3> QED BY <2>2, <3>1, <3>2, <3>3, <3>4
  <2>5. z = <<u, w>>
    BY <1>4, <2>4
  <2> QED BY <2>1, <2>3, <2>5
<1>7. <<u, w>> \o << >> = <<u, w>>
  <2>1. <<u, w>> \in Seq(WUnits)
    BY <1>4
  <2> QED BY <2>1
<1> QED BY <1>2, <1>3, <1>5, <1>6, <1>7 DEF Control, Masked

\* Nothing is carried; and what a thread adds to it, or an end takes from it.
LEMMA CarriedAtFirst ==
    ASSUME NEW T \in Seq(WUnits), NEW s \in Seq(WMessages), NEW o, NEW d \in Nat, NEW b \in Nat,
           d = Len(T), b = Len(s)
    PROVE  Carried(T, d, b, s, o)
<1>1. PICK P : P = [t \in Nat |-> IF t = d THEN {b} ELSE {}]
  OBVIOUS
<1>2. P \in [Nat -> SUBSET Nat] /\ b \in P[d]
  BY <1>1
<1>3. \A t, j \in Nat : j \in P[t] => t = d /\ j = b
  BY <1>1
<1>4. Chain(P, T, s, o)
  BY <1>3 DEF Chain
<1> QED BY <1>2, <1>4 DEF Carried

\* Something is written behind what is carried,
LEMMA CarriedAdds ==
    ASSUME WebsocketAssumption, NEW o \in Ends,
           NEW T \in Seq(WUnits), NEW s \in Seq(WMessages), NEW z \in Seq(WMessages),
           NEW y \in Seq(WUnits), Len(y) > 0, Len(s) <= Len(z), \A i \in 1 .. Len(s) : z[i] = s[i],
           Writes(y, z, o, Len(s), Len(z)),
           NEW d \in Nat, NEW b \in Nat, Carried(T, d, b, s, o)
    PROVE  Carried(T \o y, d, b, z, o)
<1>1. PICK P \in [Nat -> SUBSET Nat] : b \in P[d] /\ Chain(P, T, s, o)
  BY DEF Carried
<1>2. PICK U : U = T \o y
  OBVIOUS
<1>3. /\ U \in Seq(WUnits) /\ Len(U) = Len(T) + Len(y) /\ (\A i \in 1 .. Len(T) : U[i] = T[i])
      /\ (\A i \in 1 .. Len(y) : U[Len(T) + i] = y[i])
  BY <1>2
<1>n. PICK n, l, c, f \in Nat : n = Len(T) /\ l = Len(U) /\ c = Len(s) /\ f = Len(z)
  BY <1>3
<1>4. PICK Q : Q = [t \in Nat |-> IF t = l THEN P[t] \union {f} ELSE P[t]]
  OBVIOUS
<1>5. Q \in [Nat -> SUBSET Nat] /\ b \in Q[d] /\ (\A t, j \in Nat : j \in P[t] => j \in Q[t]) /\ f \in Q[l]
  BY <1>1, <1>4
<1>6. ASSUME NEW t \in Nat, NEW j \in Nat, NEW u \in Nat, NEW k \in Nat, Follows(T, s, o, t, j, u, k)
      PROVE  Follows(U, z, o, t, j, u, k)
  <2>1. PICK x \in Seq(WUnits) : Writes(x, s, o, j, k) /\ At(T, t, x) /\ u = t + Len(x) /\ Len(x) > 0
    BY <1>6 DEF Follows
  <2>2. Writes(x, z, o, j, k)
    <3>1. CASE j < Len(s) /\ k = j + 1 /\ x = Bytes(o, s[k])
      <4>1. k \in 1 .. Len(s)
        BY <3>1
      <4>2. s[k] = z[k]
        BY <4>1
      <4> QED BY <3>1, <4>2 DEF Writes
    <3>2. CASE PingPong /\ k = j /\ \E q \in {Ping, Pong} : x = Control(q)
      BY <3>2 DEF Writes
    <3> QED BY <2>1, <3>1, <3>2 DEF Writes
  <2>3. At(U, t, x)
    <3>1. t + Len(x) <= Len(U)
      BY <1>3, <2>1 DEF At
    <3>2. \A i \in 1 .. Len(x) : t + i \in 1 .. Len(T)
      BY <2>1 DEF At
    <3> QED BY <1>3, <2>1, <3>1, <3>2 DEF At
  <2> QED BY <2>1, <2>2, <2>3 DEF Follows
<1>7. Follows(U, z, o, n, c, l, f)
  <2>1. At(U, n, y)
    BY <1>3, <1>n DEF At
  <2> QED BY <1>3, <1>n, <2>1 DEF Follows
<1>8. ASSUME NEW t \in Nat, NEW j \in Nat, j \in Q[t]
      PROVE  \/ t = Len(U) /\ j = Len(z)
             \/ \E u, k \in Nat : k \in Q[u] /\ Follows(U, z, o, t, j, u, k)
  <2>1. CASE j \in P[t]
    <3>1. CASE t = Len(T) /\ j = Len(s)
      BY <1>5, <1>7, <1>n, <3>1
    <3>2. CASE \E u, k \in Nat : k \in P[u] /\ Follows(T, s, o, t, j, u, k)
      BY <1>5, <1>6, <3>2
    <3> QED BY <1>1, <2>1, <3>1, <3>2 DEF Chain
  <2>2. CASE j \notin P[t]
    BY <1>4, <1>8, <1>n, <2>2
  <2> QED BY <2>1, <2>2
<1>9. Chain(Q, U, z, o)
  BY <1>8 DEF Chain
<1> QED BY <1>2, <1>5, <1>9 DEF Carried

\* something is taken from its beginning,
LEMMA CarriedDrops ==
    ASSUME NEW o, NEW T \in Seq(WUnits), NEW s \in Seq(WMessages),
           NEW n \in Nat, n <= Len(T), NEW U, U = SubSeq(T, n + 1, Len(T)),
           NEW d \in Nat, NEW b \in Nat, n <= d, Carried(T, d, b, s, o)
    PROVE  Carried(U, d - n, b, s, o)
<1>1. PICK P \in [Nat -> SUBSET Nat] : b \in P[d] /\ Chain(P, T, s, o)
  BY DEF Carried
<1>2. U \in Seq(WUnits) /\ Len(U) = Len(T) - n /\ \A i \in 1 .. Len(U) : U[i] = T[n + i]
  OBVIOUS
<1>3. PICK Q : Q = [t \in Nat |-> P[t + n]]
  OBVIOUS
<1>4. Q \in [Nat -> SUBSET Nat] /\ b \in Q[d - n] /\ d - n \in Nat
  BY <1>1, <1>3
<1>5. ASSUME NEW t \in Nat, NEW j \in Nat, j \in Q[t]
      PROVE  \/ t = Len(U) /\ j = Len(s)
             \/ \E u, k \in Nat : k \in Q[u] /\ Follows(U, s, o, t, j, u, k)
  <2>1. t + n \in Nat /\ j \in P[t + n]
    BY <1>3, <1>5
  <2>2. CASE t + n = Len(T) /\ j = Len(s)
    BY <1>2, <2>2
  <2>3. CASE \E u, k \in Nat : k \in P[u] /\ Follows(T, s, o, t + n, j, u, k)
    <3>1. PICK u, k \in Nat : k \in P[u] /\ Follows(T, s, o, t + n, j, u, k)
      BY <2>3
    <3>2. PICK x \in Seq(WUnits) : Writes(x, s, o, j, k) /\ At(T, t + n, x) /\ u = (t + n) + Len(x) /\ Len(x) > 0
      BY <3>1 DEF Follows
    <3>3. PICK l \in Nat : l = Len(x)
      OBVIOUS
    <3>4. u - n \in Nat /\ u - n = t + l /\ (u - n) + n = u
      BY <3>2, <3>3
    <3>5. k \in Q[u - n]
      BY <1>3, <3>1, <3>4
    <3>6. At(U, t, x)
      <4>1. t + l <= Len(U)
        BY <1>2, <3>2, <3>3 DEF At
      <4>2. \A i \in 1 .. l : t + i \in 1 .. Len(U) /\ n + (t + i) = (t + n) + i
        BY <4>1
      <4>3. \A i \in 1 .. l : T[(t + n) + i] = x[i]
        BY <3>2, <3>3 DEF At
      <4> QED BY <1>2, <3>3, <4>1, <4>2, <4>3 DEF At
    <3>7. Follows(U, s, o, t, j, u - n, k)
      BY <3>2, <3>3, <3>4, <3>6 DEF Follows
    <3> QED BY <3>1, <3>4, <3>5, <3>7
  <2> QED BY <1>1, <2>1, <2>2, <2>3 DEF Chain
<1>6. Chain(Q, U, s, o)
  BY <1>5 DEF Chain
<1> QED BY <1>4, <1>6 DEF Carried

\* The first piece of what is carried, if it is not empty.
LEMMA CarriedFirst ==
    ASSUME NEW o, NEW T \in Seq(WUnits), NEW s \in Seq(WMessages),
           NEW d \in Nat, NEW b \in Nat, d < Len(T), Carried(T, d, b, s, o)
    PROVE  \E y \in Seq(WUnits), k \in Nat : /\ Writes(y, s, o, b, k) /\ At(T, d, y)
                                             /\ Carried(T, d + Len(y), k, s, o)
<1>1. PICK P \in [Nat -> SUBSET Nat] : b \in P[d] /\ Chain(P, T, s, o)
  BY DEF Carried
<1>2. PICK u, k \in Nat : k \in P[u] /\ Follows(T, s, o, d, b, u, k)
  BY <1>1 DEF Chain
<1>3. PICK y \in Seq(WUnits) : Writes(y, s, o, b, k) /\ At(T, d, y) /\ u = d + Len(y)
  BY <1>2 DEF Follows
<1> QED BY <1>1, <1>2, <1>3 DEF Carried

\* What has been read of a frame is its beginning, or more than that.
Agrees(front, h) == \A i \in 1 .. Len(front) : i <= Len(h) => front[i] = h[i]

\* The header is read as what was written, once all of it is there.
LEMMA FrameIs ==
    ASSUME WebsocketAssumption, NEW o \in Ends, NEW op \in Nat, NEW n \in Nat, Shifts(n)[8] = 0,
           NEW h, h = Header(o, "app", op, n), NEW front \in Seq(WUnits), Complete(front), Agrees(front, h)
    PROVE  /\ Len(h) \in Nat \ {0} /\ Len(h) <= Len(front)
           /\ Frame(front) = [header |-> Len(h), length |-> n]
           /\ front[1].v = op /\ SubSeq(front, Len(h) - MaskLen(front) + 1, Len(h)) = MaskOf(o)
<1>0. Inline \in Nat \ {0} /\ Base \in Nat \ {0}
  BY DEF WebsocketAssumption
<1>1. PICK x \in {0, 1} : x = IF o = "client" THEN 1 ELSE 0
  OBVIOUS
<1>2. PICK a \in {1, 3, 9}, b \in {0, 4} : a = FieldSize(n) /\ b = MaskSize(o)
  BY DEF FieldSize, MaskSize
<1>3. /\ h \in Seq(WUnits) /\ Len(h) = 1 + a + b
      /\ h[1] = Unit("op", op, 0) /\ h[2] = Unit("len", FieldStart(n), x)
      /\ a = 3 => \A i \in 1 .. 2 : h[2 + i] = Digits(n, 2)[i]
      /\ a = 9 => \A i \in 1 .. 8 : h[2 + i] = Digits(n, 8)[i]
      /\ \A j \in 1 .. b : h[1 + a + j] = MaskOf(o)[j]
  <2>1. /\ h \in Seq(WUnits) /\ Len(h) = 1 + FieldSize(n) + MaskSize(o)
        /\ h[1] = Unit("op", op, 0) /\ h[2] = Unit("len", FieldStart(n), x)
        /\ FieldSize(n) = 3 => \A i \in 1 .. 2 : h[2 + i] = Digits(n, 2)[i]
        /\ FieldSize(n) = 9 => \A i \in 1 .. 8 : h[2 + i] = Digits(n, 8)[i]
    <3>1. /\ h \in Seq(WUnits) /\ Len(h) = 1 + FieldSize(n) + MaskSize(o) /\ h[1] = Unit("op", op, 0)
          /\ h[2] = Unit("len", FieldStart(n), IF o = "client" THEN 1 ELSE 0)
      BY HeaderForm, ZenonT(60)
    <3>2. FieldSize(n) = 3 => \A i \in 1 .. 2 : h[2 + i] = Digits(n, 2)[i]
      BY HeaderForm
    <3>3. FieldSize(n) = 9 => \A i \in 1 .. 8 : h[2 + i] = Digits(n, 8)[i]
      BY HeaderForm
    <3> QED BY <1>1, <3>1, <3>2, <3>3
  <2>2. \A j \in 1 .. MaskSize(o) : h[1 + FieldSize(n) + j] = MaskOf(o)[j]
    BY HeaderForm
  <2>3. \A j \in 1 .. b : h[1 + a + j] = MaskOf(o)[j]
    BY <1>2, <2>2
  <2> QED BY <1>2, <2>1, <2>3
<1>4. PICK l \in Nat : l = Len(front)
  OBVIOUS
<1>5. l >= 2
  <2>1. SUFFICES ASSUME l < 2 PROVE FALSE
    BY <1>4
  <2>2. Frame(front).header = 0
    BY <1>4, <2>1 DEF Frame
  <2> QED BY <2>2 DEF Complete
<1>6. front[1] = Unit("op", op, 0) /\ front[2] = Unit("len", FieldStart(n), x)
  <2>1. 1 \in 1 .. Len(front) /\ 2 \in 1 .. Len(front) /\ 1 <= Len(h) /\ 2 <= Len(h)
    BY <1>2, <1>3, <1>4, <1>5
  <2> QED BY <1>3, <2>1 DEF Agrees
<1>7. front[1].v = op /\ front[2].v = FieldStart(n) /\ front[2].x = x
  BY <1>6 DEF Unit
<1>8. MaskLen(front) = b
  BY <1>1, <1>2, <1>7 DEF MaskLen, MaskSize
<1>9. Frame(front) = [header |-> 1 + a + b, length |-> n] /\ 1 + a + b <= l
  <2>1. CASE n < Inline
    <3>1. a = 1 /\ FieldStart(n) = n
      BY <1>2, <2>1 DEF FieldSize, FieldStart
    <3>2. CASE l >= b
      <4>1. Frame(front) = [header |-> 2 + b, length |-> n]
        BY <1>4, <1>5, <1>7, <1>8, <2>1, <3>1, <3>2 DEF Frame
      <4>2. 2 + b <= l
        BY <4>1, <1>4 DEF Complete
      <4> QED BY <3>1, <4>1, <4>2
    <3>3. CASE l < b
      <4>1. l < 10 + b /\ l < 4 + b /\ ~(l >= b)
        BY <1>2, <3>3
      <4>2. Frame(front).header = 0
        BY <1>2, <1>4, <1>5, <1>7, <1>8, <2>1, <3>1, <4>1 DEF Frame
      <4> QED BY <4>2 DEF Complete
    <3> QED BY <1>2, <3>2, <3>3
  <2>2. CASE ~(n < Inline) /\ Shifts(n)[2] = 0
    <3>1. a = 3 /\ FieldStart(n) = Inline /\ ~(Inline < Inline)
      BY <1>0, <1>2, <2>2 DEF FieldSize, FieldStart
    <3>2. CASE l >= 4 + b
      <4>1. PICK u : u = SubSeq(front, 3, 4)
        OBVIOUS
      <4>2. u \in Seq(WUnits) /\ Len(u) = 2 /\ \A i \in 1 .. 2 : u[i] = front[2 + i]
        BY <1>2, <1>4, <3>2, <4>1
      <4>3. \A i \in 1 .. 2 : 2 + i \in 1 .. Len(front) /\ 2 + i <= Len(h)
        BY <1>2, <1>3, <1>4, <3>1, <3>2
      <4>4. \A i \in 1 .. 2 : u[i] = Digits(n, 2)[i]
        BY <1>3, <3>1, <4>2, <4>3 DEF Agrees
      <4>5. Value(u) = n
        BY <2>2, <4>2, <4>4, DigitsAreRead
      <4>6. Frame(front) = [header |-> 4 + b, length |-> n]
        BY <1>4, <1>5, <1>7, <1>8, <3>1, <3>2, <4>1, <4>5 DEF Frame
      <4> QED BY <1>2, <3>1, <3>2, <4>6
    <3>3. CASE l < 4 + b
      <4>1. l < 10 + b /\ ~(l >= 4 + b)
        BY <1>2, <3>3
      <4>2. Frame(front).header = 0
        BY <1>2, <1>4, <1>5, <1>7, <1>8, <3>1, <4>1 DEF Frame
      <4> QED BY <4>2 DEF Complete
    <3> QED BY <1>2, <3>2, <3>3
  <2>3. CASE ~(n < Inline) /\ Shifts(n)[2] # 0
    <3>1. a = 9 /\ FieldStart(n) = Inline + 1 /\ ~(Inline + 1 < Inline) /\ Inline + 1 # Inline
      BY <1>0, <1>2, <2>3 DEF FieldSize, FieldStart
    <3>2. CASE l >= 10 + b
      <4>1. PICK u : u = SubSeq(front, 3, 10)
        OBVIOUS
      <4>2. u \in Seq(WUnits) /\ Len(u) = 8 /\ \A i \in 1 .. 8 : u[i] = front[2 + i]
        BY <1>2, <1>4, <3>2, <4>1
      <4>3. \A i \in 1 .. 8 : 2 + i \in 1 .. Len(front) /\ 2 + i <= Len(h)
        BY <1>2, <1>3, <1>4, <3>1, <3>2, SMTT(30)
      <4>4. \A i \in 1 .. 8 : u[i] = Digits(n, 8)[i]
        BY <1>3, <3>1, <4>2, <4>3 DEF Agrees
      <4>5. Value(u) = n
        BY <4>2, <4>4, DigitsAreRead
      <4>6. Frame(front) = [header |-> 10 + b, length |-> n]
        BY <1>4, <1>5, <1>7, <1>8, <3>1, <3>2, <4>1, <4>5 DEF Frame
      <4> QED BY <1>2, <3>1, <3>2, <4>6
    <3>3. CASE l < 10 + b
      <4>1. ~(l >= 10 + b)
        BY <1>2, <3>3
      <4>2. Frame(front).header = 0
        BY <1>2, <1>4, <1>5, <1>7, <1>8, <3>1, <4>1 DEF Frame
      <4> QED BY <4>2 DEF Complete
    <3> QED BY <1>2, <3>2, <3>3
  <2> QED BY <2>1, <2>2, <2>3
<1>10. SubSeq(front, (1 + a + b) - b + 1, 1 + a + b) = MaskOf(o)
  <2>1. PICK u : u = SubSeq(front, 2 + a, 1 + a + b)
    OBVIOUS
  <2>2. u \in Seq(WUnits) /\ Len(u) = b /\ \A j \in 1 .. b : u[j] = front[1 + a + j]
    <3>1. PICK i, k \in Nat : i = 2 + a /\ k = 1 + a + b
      BY <1>2
    <3>2. i \in 1 .. k + 1 /\ k <= Len(front) /\ (k - i) + 1 = b
      BY <1>2, <1>4, <1>9, <3>1
    <3>3. u \in Seq(WUnits) /\ Len(u) = (k - i) + 1 /\ \A j \in 1 .. (k - i) + 1 : u[j] = front[i + j - 1]
      BY <1>4, <2>1, <3>1, <3>2, SMTT(30)
    <3>4. ASSUME NEW j \in 1 .. b PROVE i + j - 1 = 1 + a + j
      BY <1>2, <3>1
    <3> QED BY <3>2, <3>3, <3>4
  <2>3. \A j \in 1 .. b : 1 + a + j \in 1 .. Len(front) /\ 1 + a + j <= Len(h)
    <3> TAKE j \in 1 .. b
    <3>1. 1 + a + j \in 1 .. 1 + a + b
      BY <1>2
    <3>2. Len(h) = 1 + a + b /\ 1 + a + b <= Len(front)
      BY <1>3, <1>4, <1>9
    <3> QED BY <1>2, <3>1, <3>2
  <2>4. \A j \in 1 .. b : u[j] = MaskOf(o)[j]
    BY <1>3, <2>2, <2>3 DEF Agrees
  <2>5. PICK m : m = MaskOf(o)
    OBVIOUS
  <2>6. m \in Seq(WUnits) /\ Len(m) = b
    BY <1>2, <2>5, MaskIs
  <2>7. u = m
    BY <2>2, <2>4, <2>5, <2>6
  <2>8. (1 + a + b) - b + 1 = 2 + a
    BY <1>2
  <2> QED BY <2>1, <2>5, <2>7, <2>8
<1>11. PICK g \in Nat : g = 1 + a + b
  BY <1>2
<1>12. Len(h) = g /\ g # 0 /\ g <= l /\ Frame(front) = [header |-> g, length |-> n]
  BY <1>2, <1>3, <1>9, <1>11, SMTT(30)
<1>13. SubSeq(front, g - MaskLen(front) + 1, g) = MaskOf(o)
  BY <1>8, <1>10, <1>11
<1> QED BY <1>4, <1>7, <1>12, <1>13

\* What a buffer that begins with a ping or a pong says of itself.
LEMMA ControlFrameIs ==
    ASSUME WebsocketAssumption, NEW c \in {Ping, Pong},
           NEW front \in Seq(WUnits), Complete(front), \A i \in 1 .. Len(front) : i <= 2 => front[i] = Control(c)[i]
    PROVE  /\ 2 <= Len(front) /\ Frame(front) = [header |-> 2, length |-> 0]
           /\ front[1].v = c /\ MaskLen(front) = 0
<1>0. Inline \in Nat \ {0}
  BY DEF WebsocketAssumption
<1>1. PICK l \in Nat : l = Len(front)
  OBVIOUS
<1>2. l >= 2
  <2>1. SUFFICES ASSUME l < 2 PROVE FALSE
    BY <1>1
  <2>2. Frame(front).header = 0
    BY <1>1, <2>1 DEF Frame
  <2> QED BY <2>2 DEF Complete
<1>3. front[1] = Unit("op", c, 0) /\ front[2] = Unit("len", 0, 0)
  <2>1. 1 \in 1 .. Len(front) /\ 2 \in 1 .. Len(front)
    BY <1>1, <1>2
  <2> QED BY <2>1, ControlIs
<1>4. front[1].v = c /\ front[2].v = 0 /\ front[2].x = 0
  BY <1>3 DEF Unit
<1>5. MaskLen(front) = 0
  BY <1>4 DEF MaskLen
<1>6. 0 < Inline /\ l >= 0
  BY <1>0
<1>7. Frame(front) = [header |-> 2 + 0, length |-> 0]
  BY <1>1, <1>2, <1>4, <1>5, <1>6 DEF Frame
<1> QED BY <1>1, <1>2, <1>4, <1>5, <1>7

ReaderPlaces == {"idle", "loop", "rest", "ping", "pong", "pongData", "left", "done"}
Readers == [pc : ReaderPlaces, buf : Seq(WUnits), op : Nat, need : Nat, data : Seq(WUnits), mask : Seq(WUnits),
            pings : Nat, slow : Nat, mustClose : BOOLEAN, stop : BOOLEAN]

WTypes ==
    /\ wire \in [Ends -> Seq(WUnits)] /\ open \in [Ends -> BOOLEAN] /\ reader \in [Ends -> Readers]
    /\ app \in [Ends -> {"idle", "data", "join", "gone"}] /\ lock \in [Ends -> {"", "app", "reader"}]
    /\ sent \in [Ends -> Seq(WMessages)] /\ got \in [Ends -> Seq(WMessages)]

\* What one end's threads agree on: who holds the mutex, and what may be at each place.
LocalOf(r, a, l, on, s) ==
    /\ (l = "app" <=> a = "data") /\ (l = "reader" <=> r.pc = "pongData")
    /\ (r.pc \in {"pong", "pongData"} => r.data = << >>)
    /\ (r.pc \in {"ping", "pong", "pongData"} => PingPong)
    /\ (r.pc = "ping" => r.pings <= MaxPing) /\ r.pings <= MaxPing + 1 /\ Len(r.buf) <= Room
    /\ (~on => r.pc = "done") /\ (a = "data" => s # << >>)
    /\ (r.pc = "idle" => a = "idle" /\ r.buf = << >>)
    /\ \A i \in 1 .. Len(s) : Fits(s[i])
Local(e) == LocalOf(reader[e], app[e], lock[e], open[e], sent[e])

\* What has been read, of a frame or of the data of one.
InHand(r) == IF r.pc = "rest" THEN r.data ELSE r.buf
Coming(r, w, u) == InHand(r) \o (w \o u)
Ahead(r, w, e) ==
    IF r.pc = "rest" THEN r.need ELSE IF e = "client" /\ r.pc = "idle" /\ w # << >> THEN 1 ELSE 0
Begun(r, g) == IF r.pc = "rest" THEN Len(g) + 1 ELSE Len(g)

\* The rest of the data is that of the message that has begun.
RestOf(r, T, s, g, o) ==
    /\ Len(g) + 1 <= Len(s) /\ r.buf = << >> /\ Len(r.data) < r.need
    /\ LET m == s[Len(g) + 1] IN
       /\ r.op = m.op /\ r.need = Len(m.data) /\ r.mask = MaskOf(o)
       /\ At(T, 0, Masked(o, "app", m.data))

\* What is on the way to the end e: r has read of it, w is in the network, u is still to be written.
DirOf(r, w, u, s, g, e) ==
    /\ Carried(Coming(r, w, u), Ahead(r, w, e), Begun(r, g), s, Other(e))
    /\ r.pc = "rest" => RestOf(r, Coming(r, w, u), s, g, Other(e))

Unsent(o, a, s) == IF a = "data" THEN Masked(o, "app", s[Len(s)].data) ELSE << >>

Dir(e) ==
    LET o == Other(e) IN
    reader[e].pc \notin {"left", "done"} =>
      DirOf(reader[e], wire[o], Unsent(o, app[o], sent[o]), sent[o], got[e], e)

GotOf(g, s) == Len(g) <= Len(s) /\ \A i \in 1 .. Len(g) : g[i] = s[i]
Gotten(e) == GotOf(got[e], sent[Other(e)])

Refused ==
    reader["client"].pc = "idle" /\ wire["server"] = << >> /\ reader["server"].pc # "idle"
      => reader["server"].pc \in {"left", "done"} /\ app["server"] = "gone"
Unasked ==
    reader["server"].pc = "idle"
      => reader["client"].pc = "idle" /\ wire["server"] = << >> /\ sent["server"] = << >>

SocketInv ==
    /\ WTypes /\ Refused /\ Unasked
    /\ \A e \in Ends : Local(e) /\ Dir(e) /\ Gotten(e)

\* A websocket has two ends.
LEMMA OtherEnds ==
    /\ Other("server") = "client" /\ Other("client") = "server"
    /\ \A e \in Ends : Other(e) \in Ends /\ Other(Other(e)) = e /\ Other(e) # e
    /\ \A e \in Ends, f \in Ends : f = e \/ f = Other(e)
BY DEF Other, Ends

\* What is still to be written are units.
LEMMA UnsentIs ==
    ASSUME NEW o \in Ends, NEW a, NEW s \in Seq(WMessages), a = "data" => s # << >>
    PROVE  Unsent(o, a, s) \in Seq(WUnits)
<1>1. CASE a = "data"
  <2>1. Len(s) \in 1 .. Len(s)
    BY <1>1
  <2>2. s[Len(s)] \in WMessages
    BY <2>1
  <2>3. s[Len(s)].data \in Seq(Plain)
    BY <2>2 DEF WMessages
  <2> QED BY <1>1, <2>3, DataIs DEF Unsent
<1>2. CASE a # "data"
  BY <1>2 DEF Unsent
<1> QED BY <1>1, <1>2

\* Three sequences that are joined.
LEMMA Regrouped ==
    ASSUME NEW p \in Seq(WUnits), NEW q \in Seq(WUnits), NEW r \in Seq(WUnits)
    PROVE  p \o (q \o r) = (p \o q) \o r
BY ConcatAssociative

\* A thread writes y behind what is on the way.
LEMMA DirAdds ==
    ASSUME WebsocketAssumption, NEW e \in Ends, NEW r \in Readers, NEW w \in Seq(WUnits), NEW u \in Seq(WUnits),
           NEW s \in Seq(WMessages), NEW g \in Seq(WMessages), DirOf(r, w, u, s, g, e),
           NEW x \in Seq(WUnits), NEW v \in Seq(WUnits), NEW z \in Seq(WMessages),
           NEW y \in Seq(WUnits), Len(y) > 0, x \o v = (w \o u) \o y,
           Len(s) <= Len(z), \A i \in 1 .. Len(s) : z[i] = s[i],
           Writes(y, z, Other(e), Len(s), Len(z)), Ahead(r, x, e) = Ahead(r, w, e)
    PROVE  DirOf(r, x, v, z, g, e)
<1>1. PICK h, k : h = InHand(r) /\ k = w \o u
  OBVIOUS
<1>2. h \in Seq(WUnits) /\ k \in Seq(WUnits)
  BY <1>1 DEF InHand, Readers
<1>3. h \o (k \o y) = (h \o k) \o y
  BY <1>2, Regrouped, SMTT(60)
<1>4. PICK T : T = h \o k
  OBVIOUS
<1>5. T \in Seq(WUnits)
  BY <1>2, <1>4
<1>6. Coming(r, w, u) = T /\ Coming(r, x, v) = T \o y
  BY <1>1, <1>3, <1>4 DEF Coming
<1>7. Ahead(r, w, e) \in Nat /\ Begun(r, g) \in Nat
  BY DEF Ahead, Begun, Readers
<1>8. Carried(T \o y, Ahead(r, w, e), Begun(r, g), z, Other(e))
  BY <1>5, <1>6, <1>7, CarriedAdds, OtherEnds DEF DirOf
<1>9. ASSUME r.pc = "rest" PROVE RestOf(r, T \o y, z, g, Other(e))
  <2>1. RestOf(r, T, s, g, Other(e))
    BY <1>6, <1>9 DEF DirOf
  <2>2. Len(g) + 1 \in 1 .. Len(s)
    BY <2>1 DEF RestOf
  <2>3. z[Len(g) + 1] = s[Len(g) + 1] /\ Len(g) + 1 <= Len(z)
    BY <2>2
  <2>4. PICK d : d = Masked(Other(e), "app", s[Len(g) + 1].data)
    OBVIOUS
  <2>5. At(T, 0, d)
    BY <2>1, <2>4 DEF RestOf
  <2>6. Len(d) \in Nat
    <3>1. s[Len(g) + 1] \in WMessages
      BY <2>2
    <3>2. s[Len(g) + 1].data \in Seq(Plain)
      BY <3>1 DEF WMessages
    <3> QED BY <2>4, <3>2, DataIs, OtherEnds
  <2>7. At(T \o y, 0, d)
    <3>1. \A i \in 1 .. Len(T) : (T \o y)[i] = T[i]
      BY <1>5
    <3>2. Len(T \o y) = Len(T) + Len(y)
      BY <1>5
    <3>3. \A i \in 1 .. Len(d) : i \in 1 .. Len(T) /\ 0 + i = i
      BY <1>5, <2>5, <2>6 DEF At
    <3>4. 0 + Len(d) <= Len(T \o y)
      BY <1>5, <2>5, <2>6, <3>2 DEF At
    <3> QED BY <2>5, <3>1, <3>3, <3>4 DEF At
  <2> QED BY <2>1, <2>3, <2>4, <2>7 DEF RestOf
<1> QED BY <1>6, <1>8, <1>9 DEF DirOf

\* What is on the way goes on, and stays what it is.
LEMMA DirStays ==
    ASSUME NEW e, NEW r \in Readers, NEW w, NEW u, NEW s, NEW g, DirOf(r, w, u, s, g, e),
           NEW q \in Readers, NEW x, NEW v, Coming(q, x, v) = Coming(r, w, u), Ahead(q, x, e) = Ahead(r, w, e),
           Begun(q, g) = Begun(r, g),
           q.pc = "rest" => r.pc = "rest" /\ q.buf = << >> /\ q.op = r.op /\ q.need = r.need /\ q.mask = r.mask
                            /\ Len(q.data) < q.need
    PROVE  DirOf(q, x, v, s, g, e)
BY DEF DirOf, RestOf

\* (A name for the provers.)
Cat(p, q) == p \o q

\* The provers see that joining is associative,
LEMMA CatIs ==
    ASSUME NEW U, NEW p \in Seq(U), NEW q \in Seq(U)
    PROVE  Cat(p, q) \in Seq(U) /\ \A r \in Seq(U) : Cat(Cat(p, q), r) = Cat(p, Cat(q, r))
BY ConcatAssociative DEF Cat

\* and that it is of four sequences.
LEMMA Rejoined ==
    ASSUME NEW U, NEW h \in Seq(U), NEW a \in Seq(U), NEW c \in Seq(U), NEW u \in Seq(U)
    PROVE  Cat(Cat(h, a), Cat(c, u)) = Cat(h, Cat(Cat(a, c), u))
<1>1. Cat(c, u) \in Seq(U)
  BY CatIs
<1>2. Cat(Cat(h, a), Cat(c, u)) = Cat(h, Cat(a, Cat(c, u)))
  BY <1>1, CatIs
<1>3. Cat(Cat(a, c), u) = Cat(a, Cat(c, u))
  BY CatIs
<1> QED BY <1>2, <1>3

\* n of the units w go over to h, in front of u: then there are a and c.
Goes(h, w, u, n, a, c) ==
    /\ a = h \o SubSeq(w, 1, n) /\ c = SubSeq(w, n + 1, Len(w))
    /\ Len(a) = Len(h) + n /\ Len(c) = Len(w) - n /\ a \o (c \o u) = h \o (w \o u)

\* Some units of the network go over to the reader.
LEMMA Going ==
    ASSUME NEW h \in Seq(WUnits), NEW w \in Seq(WUnits), NEW u \in Seq(WUnits), NEW n \in 0 .. Len(w)
    PROVE  \E a, c \in Seq(WUnits) : Goes(h, w, u, n, a, c)
<1>0. n \in Nat /\ 1 \in 1 .. Len(w) + 1 /\ n \in 1 - 1 .. Len(w) /\ Len(w) \in n .. Len(w)
  OBVIOUS
<1>1. PICK b, c : b = SubSeq(w, 1, n) /\ c = SubSeq(w, n + 1, Len(w))
  OBVIOUS
<1>2. b \in Seq(WUnits) /\ c \in Seq(WUnits) /\ Len(b) = n /\ Len(c) = Len(w) - n
  BY <1>1
<1>3. b \o c = w
  <2>2. SubSeq(w, 1, n) \o SubSeq(w, n + 1, Len(w)) = SubSeq(w, 1, Len(w))
    BY <1>0, ConcatAdjacentSubSeq
  <2> QED BY <1>1, <2>2, SubSeqFull
<1>a. b \in Seq(WUnits) /\ c \in Seq(WUnits)
  BY <1>2
<1>4. Cat(Cat(h, b), Cat(c, u)) = Cat(h, Cat(Cat(b, c), u))
  BY <1>a, Rejoined
<1>5. (h \o b) \o (c \o u) = h \o (w \o u)
  BY <1>3, <1>4, Zenon DEF Cat
<1>6. h \o b \in Seq(WUnits) /\ Len(h \o b) = Len(h) + n
  BY <1>2, Joined
<1> QED BY <1>1, <1>2, <1>5, <1>6, Zenon DEF Goes

\* The first n units of two sequences are taken away.
LEMMA Shortened ==
    ASSUME NEW U, NEW h \in Seq(U), NEW k \in Seq(U), NEW n \in 0 .. Len(h)
    PROVE  /\ SubSeq(h \o k, n + 1, Len(h \o k)) = SubSeq(h, n + 1, Len(h)) \o k
           /\ SubSeq(h, n + 1, Len(h)) \in Seq(U) /\ Len(SubSeq(h, n + 1, Len(h))) = Len(h) - n
           /\ n <= Len(h \o k)
<1>1. PICK a, b : a = SubSeq(h, n + 1, Len(h)) /\ b = h \o k
  OBVIOUS
<1>2. a \in Seq(U) /\ Len(a) = Len(h) - n /\ \A i \in 1 .. Len(h) - n : a[i] = h[n + i]
  BY <1>1
<1>3. /\ b \in Seq(U) /\ Len(b) = Len(h) + Len(k) /\ (\A i \in 1 .. Len(h) : b[i] = h[i])
      /\ (\A i \in 1 .. Len(k) : b[Len(h) + i] = k[i])
  BY <1>1, Joined
<1>4. PICK x, y : x = SubSeq(b, n + 1, Len(b)) /\ y = a \o k
  OBVIOUS
<1>5. /\ y \in Seq(U) /\ Len(y) = Len(a) + Len(k) /\ (\A i \in 1 .. Len(a) : y[i] = a[i])
      /\ (\A i \in 1 .. Len(k) : y[Len(a) + i] = k[i])
  <2>1. a \in Seq(U) /\ y = a \o k
    BY <1>2, <1>4
  <2> QED BY <2>1, Joined
<1>6. x \in Seq(U) /\ Len(x) = Len(b) - n /\ \A i \in 1 .. Len(b) - n : x[i] = b[n + i]
  BY <1>3, <1>4
<1>7. PICK l, m \in Nat : l = Len(h) /\ m = Len(k)
  OBVIOUS
<1>8. Len(x) = (l - n) + m /\ Len(y) = (l - n) + m
  BY <1>2, <1>3, <1>5, <1>6, <1>7
<1>9. ASSUME NEW i \in 1 .. (l - n) + m
      PROVE  x[i] = y[i]
  <2>1. CASE i <= l - n
    <3>1. i \in 1 .. l - n /\ n + i \in 1 .. l /\ i \in 1 .. Len(b) - n
      BY <1>3, <1>7, <2>1
    <3>2. x[i] = b[n + i] /\ b[n + i] = h[n + i] /\ y[i] = a[i] /\ a[i] = h[n + i]
      BY <1>2, <1>3, <1>5, <1>6, <1>7, <3>1
    <3> QED BY <3>2
  <2>2. CASE i > l - n
    <3>1. PICK j \in 1 .. m : i = (l - n) + j
      <4>1. PICK j \in Int : j = i - (l - n)
        BY <1>7, <2>2
      <4>2. j \in 1 .. m /\ i = (l - n) + j
        BY <1>7, <1>9, <2>2, <4>1
      <4> QED BY <4>2
    <3>2. n + i = l + j /\ i \in 1 .. Len(b) - n
      BY <1>3, <1>7, <3>1
    <3>3. x[i] = b[l + j] /\ b[l + j] = k[j]
      BY <1>3, <1>6, <1>7, <3>1, <3>2
    <3>4. y[i] = k[j]
      BY <1>2, <1>5, <1>7, <3>1
    <3> QED BY <3>3, <3>4
  <2> QED BY <1>7, <2>1, <2>2
<1>10. x = y
  BY <1>5, <1>6, <1>8, <1>9, SeqEqual
<1>11. SubSeq(h \o k, n + 1, Len(h \o k)) = SubSeq(h, n + 1, Len(h)) \o k
  BY <1>1, <1>4, <1>10
<1>12. n <= Len(h \o k)
  BY <1>1, <1>3
<1> QED BY <1>1, <1>2, <1>11, <1>12

\* The frame that a buffer begins with: a message, or a ping or pong without data.
MessageFrame(front, T, s, g, o) ==
    /\ Len(g) + 1 \in 1 .. Len(s)
    /\ LET m == s[Len(g) + 1] h == Len(Header(o, "app", m.op, Len(m.data))) IN
       /\ Frame(front) = [header |-> h, length |-> Len(m.data)] /\ h \in 1 .. Len(front)
       /\ front[1].v = m.op /\ SubSeq(front, h - MaskLen(front) + 1, h) = MaskOf(o)
       /\ At(T, 0, Bytes(o, m)) /\ Carried(T, h + Len(m.data), Len(g) + 1, s, o)
ControlFrame(front, T, s, g, o) ==
    /\ PingPong /\ 2 <= Len(front) /\ Frame(front) = [header |-> 2, length |-> 0]
    /\ front[1].v \in {Ping, Pong} /\ MaskLen(front) = 0
    /\ Carried(T, 2, Len(g), s, o)

\* What a reader holds begins with a frame: a message that was sent, or a ping or pong.
LEMMA FirstFrame ==
    ASSUME WebsocketAssumption, NEW e \in Ends, NEW o \in Ends, o = Other(e), NEW r \in Readers, r.pc = "loop",
           NEW w \in Seq(WUnits), NEW u \in Seq(WUnits), NEW s \in Seq(WMessages), NEW g \in Seq(WMessages),
           DirOf(r, w, u, s, g, e), Complete(r.buf), \A i \in 1 .. Len(s) : Fits(s[i]),
           NEW T, T = Coming(r, w, u)
    PROVE  MessageFrame(r.buf, T, s, g, o) \/ ControlFrame(r.buf, T, s, g, o)
<1>1. PICK b, k : b = r.buf /\ k = w \o u
  OBVIOUS
<1>2. b \in Seq(WUnits) /\ k \in Seq(WUnits) /\ T = b \o k
  BY <1>1 DEF Readers, Coming, InHand
<1>3. T \in Seq(WUnits) /\ Len(T) = Len(b) + Len(k) /\ \A i \in 1 .. Len(b) : T[i] = b[i]
  BY <1>2, Joined
<1>4. PICK c \in Nat : c = Len(g)
  OBVIOUS
<1>5. Carried(T, 0, c, s, o)
  BY <1>4 DEF DirOf, Ahead, Begun
<1>6. 0 < Len(T)
  <2>1. 0 < Len(b)
    BY <1>1, <1>2 DEF Complete
  <2> QED BY <1>2, <1>3, <2>1
<1>7. PICK y \in Seq(WUnits), j \in Nat : Writes(y, s, o, c, j) /\ At(T, 0, y) /\ Carried(T, 0 + Len(y), j, s, o)
  BY <1>3, <1>5, <1>6, CarriedFirst
<1>8. ASSUME NEW i \in 1 .. Len(b), i <= Len(y)
      PROVE  b[i] = y[i]
  <2>1. i \in 1 .. Len(y) /\ 0 + i = i
    BY <1>2, <1>8
  <2> QED BY <1>3, <1>7, <2>1 DEF At
<1>9. CASE c < Len(s) /\ j = c + 1 /\ y = Bytes(o, s[j])
  <2>1. j \in 1 .. Len(s)
    BY <1>9
  <2>2. PICK m \in WMessages : m = s[j]
    BY <2>1
  <2>3. PICK n \in Nat : n = Len(m.data)
    BY <2>2 DEF WMessages
  <2>4. m.op \in Nat /\ Shifts(n)[8] = 0
    BY <2>1, <2>2, <2>3 DEF WMessages, Fits
  <2>5. PICK h : h = Header(o, "app", m.op, n)
    OBVIOUS
  <2>6. /\ h \in Seq(WUnits) /\ Len(h) \in Nat \ {0} /\ Len(y) = Len(h) + n
        /\ \A i \in 1 .. Len(h) : y[i] = h[i]
    <3>1. y = Bytes(o, m)
      BY <1>9, <2>2
    <3>2. h = Header(o, "app", m.op, Len(m.data))
      BY <2>3, <2>5
    <3>3. h \in Seq(WUnits) /\ Len(h) \in Nat \ {0} /\ Len(y) = Len(h) + Len(m.data)
      BY <3>1, <3>2, BytesAre
    <3>4. \A i \in 1 .. Len(h) : y[i] = h[i]
      BY <3>1, <3>2, BytesAre
    <3> QED BY <2>3, <3>3, <3>4
  <2>7. \A i \in 1 .. Len(b) : i <= Len(h) => b[i] = h[i]
    <3> TAKE i \in 1 .. Len(b)
    <3> HAVE i <= Len(h)
    <3>1. i \in 1 .. Len(h) /\ i <= Len(y)
      BY <1>2, <2>3, <2>6
    <3> QED BY <1>8, <2>6, <3>1
  <2>8. /\ Len(h) <= Len(b) /\ Frame(b) = [header |-> Len(h), length |-> n]
        /\ b[1].v = m.op /\ SubSeq(b, Len(h) - MaskLen(b) + 1, Len(h)) = MaskOf(o)
    <3>1. Complete(b)
      BY <1>1
    <3>2. PICK p \in Nat : p = m.op
      BY <2>4
    <3>3. h = Header(o, "app", p, n)
      BY <2>5, <3>2
    <3>4. /\ Len(h) <= Len(b) /\ Frame(b) = [header |-> Len(h), length |-> n]
          /\ b[1].v = p /\ SubSeq(b, Len(h) - MaskLen(b) + 1, Len(h)) = MaskOf(o)
      <4>1. b \in Seq(WUnits) /\ Shifts(n)[8] = 0
        BY <1>2, <2>4
      <4>2. Agrees(b, h)
        BY <2>7 DEF Agrees
      <4> QED BY <3>1, <3>3, <4>1, <4>2, FrameIs
    <3> QED BY <3>2, <3>4
  <2>9. Carried(T, Len(h) + n, j, s, o)
    <3>1. 0 + Len(y) = Len(h) + n
      BY <2>3, <2>6
    <3> QED BY <1>7, <3>1
  <2>10. Len(h) \in 1 .. Len(b)
    BY <1>2, <2>6, <2>8
  <2>11. MessageFrame(b, T, s, g, o)
    BY <1>4, <1>7, <1>9, <2>1, <2>2, <2>3, <2>5, <2>8, <2>9, <2>10 DEF MessageFrame
  <2> QED BY <1>1, <2>11
<1>10. CASE PingPong /\ j = c /\ \E p \in {Ping, Pong} : y = Control(p)
  <2>1. PICK p \in {Ping, Pong} : y = Control(p)
    BY <1>10
  <2>2. Len(y) = 2
    BY <2>1, ControlIs
  <2>3. \A i \in 1 .. Len(b) : i <= 2 => b[i] = Control(p)[i]
    BY <1>8, <2>1, <2>2
  <2>4. 2 <= Len(b) /\ Frame(b) = [header |-> 2, length |-> 0] /\ b[1].v = p /\ MaskLen(b) = 0
    BY <1>1, <1>2, <2>3, ControlFrameIs
  <2>5. Carried(T, 2, c, s, o)
    BY <1>7, <1>10, <2>2
  <2>6. ControlFrame(b, T, s, g, o)
    BY <1>4, <1>10, <2>4, <2>5 DEF ControlFrame
  <2> QED BY <1>1, <2>6
<1> QED BY <1>7, <1>9, <1>10 DEF Writes

\* What an end does leaves the other end's threads where they are.
OthersStay(e) ==
    LET o == Other(e) IN
    /\ reader'[o] = reader[o] /\ app'[o] = app[o] /\ lock'[o] = lock[o] /\ open'[o] = open[o]
    /\ sent'[o] = sent[o] /\ got'[o] = got[o]

\* A step of one end preserves the invariant, if what it shares with the other end stays right.
LEMMA EndSteps ==
    ASSUME SocketInv, NEW e \in Ends, WTypes', OthersStay(e),
           Local(e)', Dir(e)', Dir(Other(e))', Gotten(e)', Gotten(Other(e))',
           reader[e].pc # "idle", reader'[e].pc # "idle", wire[e] # << >> => wire'[e] # << >>,
           \/ reader[e].pc \notin {"left", "done"} \/ app[e] # "gone"
           \/ reader'[e].pc \in {"left", "done"} /\ app'[e] = "gone"
    PROVE  SocketInv'
<1>1. PICK o \in Ends : o = Other(e) /\ o # e /\ \A f \in Ends : f = e \/ f = o
  BY OtherEnds
<1>2. Local(o)'
  BY <1>1 DEF SocketInv, Local, OthersStay
<1>3. Refused'
  <2>1. CASE e = "client"
    BY <2>1 DEF Refused
  <2>2. CASE e = "server"
    <3>1. o = "client"
      BY <1>1, <2>2 DEF Other
    <3>2. reader'["client"] = reader["client"]
      BY <1>1, <3>1 DEF OthersStay
    <3>3. Refused
      BY DEF SocketInv
    <3> QED BY <2>2, <3>2, <3>3 DEF Refused
  <2> QED BY <2>1, <2>2 DEF Ends
<1>4. Unasked'
  <2>1. CASE e = "client"
    <3>1. o = "server" /\ reader'["server"] = reader["server"]
      BY <1>1, <2>1 DEF Other, OthersStay
    <3>2. Unasked
      BY DEF SocketInv
    <3> QED BY <2>1, <3>1, <3>2 DEF Unasked
  <2>2. CASE e = "server"
    BY <2>2 DEF Unasked
  <2> QED BY <2>1, <2>2 DEF Ends
<1>5. ASSUME NEW f \in Ends PROVE Local(f)' /\ Dir(f)' /\ Gotten(f)'
  BY <1>1, <1>2
<1> QED BY <1>3, <1>4, <1>5 DEF SocketInv

\* Nothing is written or read: the end's thread is somewhere else.
LEMMA QuietSteps ==
    ASSUME SocketInv, NEW e \in Ends, NEW q \in Readers, NEW on \in BOOLEAN,
           reader' = [reader EXCEPT ![e] = q], open' = [open EXCEPT ![e] = on], UNCHANGED <<wire, app, lock, sent, got>>,
           reader[e].pc # "idle", q.pc # "idle", reader[e].pc \in {"left", "done"} => q.pc \in {"left", "done"},
           LocalOf(q, app[e], lock[e], on, sent[e]), q.buf = reader[e].buf,
           q.pc \notin {"left", "done"} => q.pc # "rest" /\ reader[e].pc \notin {"rest", "left", "done"}
    PROVE  SocketInv'
<1>0. WTypes /\ Dir(e) /\ Dir(Other(e)) /\ Gotten(e) /\ Gotten(Other(e)) /\ Other(e) \in Ends /\ Other(e) # e
      /\ Other(Other(e)) = e
  BY OtherEnds DEF SocketInv
<1>1. WTypes'
  BY <1>0 DEF WTypes
<1>2. reader'[e] = q /\ open'[e] = on /\ OthersStay(e)
  BY <1>0 DEF WTypes, OthersStay
<1>3. Local(e)'
  BY <1>2 DEF Local
<1>4. Gotten(e)' /\ Gotten(Other(e))'
  BY <1>0 DEF Gotten
<1>5. Dir(Other(e))'
  BY <1>0, <1>2 DEF Dir, OthersStay
<1>6. Dir(e)'
  <2>1. CASE q.pc \in {"left", "done"}
    BY <1>2, <2>1 DEF Dir
  <2>2. CASE q.pc \notin {"left", "done"}
    <3>1. PICK r, w, u, s, g : r = reader[e] /\ w = wire[Other(e)] /\ s = sent[Other(e)] /\ g = got[e]
                               /\ u = Unsent(Other(e), app[Other(e)], sent[Other(e)])
      OBVIOUS
    <3>2. r \in Readers
      BY <1>0, <3>1 DEF WTypes
    <3>3. DirOf(r, w, u, s, g, e)
      BY <1>0, <2>2, <3>1 DEF Dir
    <3>4. Coming(q, w, u) = Coming(r, w, u) /\ Ahead(q, w, e) = Ahead(r, w, e) /\ Begun(q, g) = Begun(r, g)
      BY <2>2, <3>1 DEF Coming, InHand, Ahead, Begun
    <3>5. DirOf(q, w, u, s, g, e)
      BY <2>2, <3>2, <3>3, <3>4, DirStays
    <3> QED BY <1>2, <3>1, <3>5 DEF Dir
  <2> QED BY <2>1, <2>2
<1> QED BY <1>0, <1>1, <1>2, <1>3, <1>4, <1>5, <1>6, EndSteps

\* The reader leaves its loop.
LEMMA LeaveStep ==
    ASSUME SocketInv, NEW e \in Ends, Leave(e) \/ NoMemory(e) \/ PullFailed(e)
    PROVE  SocketInv'
<1>1. PICK r \in Readers : r = reader[e]
  BY DEF SocketInv, WTypes
<1>2. PICK q : q = [r EXCEPT !.pc = "left"]
  OBVIOUS
<1>3. /\ q \in Readers /\ q.pc = "left" /\ q.buf = r.buf /\ q.pings = r.pings /\ reader' = [reader EXCEPT ![e] = q]
      /\ r.pc \in {"loop", "rest"} /\ UNCHANGED <<wire, open, app, lock, sent, got>>
  BY <1>1, <1>2 DEF Leave, NoMemory, PullFailed, Reading, Set, Readers, ReaderPlaces
<1>4. open[e] \in BOOLEAN /\ open' = [open EXCEPT ![e] = open[e]]
  BY <1>3 DEF SocketInv, WTypes
<1>5. LocalOf(r, app[e], lock[e], open[e], sent[e])
  BY <1>1 DEF SocketInv, Local
<1>6. LocalOf(q, app[e], lock[e], open[e], sent[e])
  BY <1>3, <1>5 DEF LocalOf
<1> QED BY <1>1, <1>3, <1>4, <1>6, QuietSteps

\* Nothing has come for a while.
LEMMA TimedOutStep ==
    ASSUME WebsocketAssumption, SocketInv, NEW e \in Ends, TimedOut(e)
    PROVE  SocketInv'
<1>0. MaxPing \in Nat /\ PingPong \in BOOLEAN
  BY DEF WebsocketAssumption
<1>1. PICK r \in Readers : r = reader[e]
  BY DEF SocketInv, WTypes
<1>2. PICK p : p = IF r.pings > MaxPing THEN "left" ELSE IF PingPong THEN "ping" ELSE "loop"
  OBVIOUS
<1>3. PICK q : q = [r EXCEPT !.slow = @ + 1, !.pc = p]
  OBVIOUS
<1>p. p \in ReaderPlaces
  BY <1>2 DEF ReaderPlaces
<1>4. /\ q \in Readers /\ q.pc = p /\ q.buf = r.buf /\ q.pings = r.pings
  <2>1. PICK n \in Nat : n = r.slow + 1
    BY DEF Readers
  <2>2. q = [r EXCEPT !.slow = n, !.pc = p]
    BY <1>3, <2>1
  <2> QED BY <1>p, <2>2 DEF Readers
<1>5. reader' = [reader EXCEPT ![e] = q] /\ r.pc = "loop" /\ UNCHANGED <<wire, open, app, lock, sent, got>>
  BY <1>1, <1>2, <1>3 DEF TimedOut, Reading, Set
<1>6. open[e] \in BOOLEAN /\ open' = [open EXCEPT ![e] = open[e]]
  BY <1>5 DEF SocketInv, WTypes
<1>7. LocalOf(r, app[e], lock[e], open[e], sent[e])
  BY <1>1 DEF SocketInv, Local
<1>8. r.pings \in Nat /\ p \in {"left", "ping", "loop"} /\ (p = "ping" => PingPong /\ r.pings <= MaxPing)
  BY <1>0, <1>1, <1>2 DEF Readers
<1>9. LocalOf(q, app[e], lock[e], open[e], sent[e])
  BY <1>4, <1>5, <1>7, <1>8 DEF LocalOf
<1> QED BY <1>1, <1>4, <1>5, <1>6, <1>8, <1>9, QuietSteps

\* The reader ends.
LEMMA AfterLoopStep ==
    ASSUME SocketInv, NEW e \in Ends, AfterLoop(e)
    PROVE  SocketInv'
<1>1. PICK r \in Readers : r = reader[e]
  BY DEF SocketInv, WTypes
<1>2. PICK q \in Readers, on \in BOOLEAN :
        /\ q.pc = "done" /\ q.buf = r.buf /\ q.pings = r.pings /\ reader' = [reader EXCEPT ![e] = q]
        /\ open' = [open EXCEPT ![e] = on] /\ (on => open[e])
  <2>1. CASE e = "server"
    <3>1. PICK q : q = [r EXCEPT !.pc = "done", !.mustClose = TRUE]
      OBVIOUS
    <3>2. q \in Readers /\ q.pc = "done" /\ q.buf = r.buf /\ q.pings = r.pings
      BY <1>1, <3>1 DEF Readers, ReaderPlaces
    <3>3. reader' = [reader EXCEPT ![e] = q] /\ open' = [open EXCEPT ![e] = FALSE]
      BY <1>1, <2>1, <3>1 DEF AfterLoop, Set
    <3> QED BY <3>2, <3>3
  <2>2. CASE e # "server"
    <3>1. PICK q : q = [r EXCEPT !.pc = "done", !.stop = TRUE]
      OBVIOUS
    <3>2. q \in Readers /\ q.pc = "done" /\ q.buf = r.buf /\ q.pings = r.pings
      BY <1>1, <3>1 DEF Readers, ReaderPlaces
    <3>3. reader' = [reader EXCEPT ![e] = q] /\ open' = open
      BY <1>1, <2>2, <3>1 DEF AfterLoop, Set
    <3>4. open[e] \in BOOLEAN /\ open' = [open EXCEPT ![e] = open[e]]
      BY <3>3 DEF SocketInv, WTypes
    <3> QED BY <3>2, <3>3, <3>4
  <2> QED BY <2>1, <2>2
<1>3. r.pc = "left" /\ UNCHANGED <<wire, app, lock, sent, got>>
  BY <1>1 DEF AfterLoop
<1>4. LocalOf(r, app[e], lock[e], open[e], sent[e])
  BY <1>1 DEF SocketInv, Local
<1>5. LocalOf(q, app[e], lock[e], on, sent[e])
  BY <1>2, <1>3, <1>4 DEF LocalOf
<1> QED BY <1>1, <1>2, <1>3, <1>5, QuietSteps

\* An end receives, and may deliver what it has received.
LEMMA ReadSteps ==
    ASSUME SocketInv, NEW e \in Ends, NEW o \in Ends, o = Other(e), NEW q \in Readers,
           NEW w \in Seq(WUnits), NEW g \in Seq(WMessages),
           reader' = [reader EXCEPT ![e] = q], wire' = [wire EXCEPT ![o] = w], got' = [got EXCEPT ![e] = g],
           UNCHANGED <<open, app, lock, sent>>,
           reader[e].pc \notin {"idle", "left", "done"}, q.pc # "idle",
           LocalOf(q, app[e], lock[e], open[e], sent[e]), GotOf(g, sent[o]),
           q.pc \notin {"left", "done"} => DirOf(q, w, Unsent(o, app[o], sent[o]), sent[o], g, e)
    PROVE  SocketInv'
<1>0. WTypes /\ Dir(o) /\ Gotten(o) /\ o # e /\ Other(o) = e
  BY OtherEnds DEF SocketInv
<1>1. WTypes'
  BY <1>0 DEF WTypes
<1>2. reader'[e] = q /\ wire'[o] = w /\ wire'[e] = wire[e] /\ got'[e] = g /\ OthersStay(e)
  BY <1>0 DEF WTypes, OthersStay
<1>3. Local(e)'
  BY <1>2 DEF Local
<1>4. Gotten(e)'
  BY <1>2 DEF Gotten
<1>5. Gotten(Other(e))'
  BY <1>0, <1>2 DEF Gotten, OthersStay
<1>6. Dir(Other(e))'
  BY <1>0, <1>2 DEF Dir, OthersStay
<1>7. Dir(e)'
  BY <1>2 DEF Dir
<1> QED BY <1>1, <1>2, <1>3, <1>4, <1>5, <1>6, <1>7, EndSteps

\* A piece is as much as was asked for, as has come, or as a recv returns at once.
LEMMA LeastOfThree ==
    ASSUME NEW a \in Nat, NEW b \in Nat, NEW c \in Nat
    PROVE  Min({a, b, c}) \in {a, b, c} /\ Min({a, b, c}) <= a /\ Min({a, b, c}) <= b
<1>1. \E x \in {a, b, c} : \A y \in {a, b, c} : x <= y
  <2>1. CASE a <= b /\ a <= c
    BY <2>1
  <2>2. CASE b <= a /\ b <= c
    BY <2>2
  <2>3. CASE c <= a /\ c <= b
    BY <2>3
  <2> QED BY <2>1, <2>2, <2>3
<1>2. Min({a, b, c}) \in {a, b, c} /\ \A y \in {a, b, c} : Min({a, b, c}) <= y
  BY <1>1 DEF Min
<1> QED BY <1>2

\* What is received was sent, and there is room for it.
LEMMA PiecesAre ==
    ASSUME WebsocketAssumption, SocketInv, NEW e \in Ends, NEW asked \in Nat, NEW n \in Pieces(e, asked)
    PROVE  /\ n \in 0 .. Len(wire[Other(e)]) /\ n <= asked
           /\ asked > 0 /\ wire[Other(e)] # << >> => n > 0
<1>0. wire[Other(e)] \in Seq(WUnits)
  BY OtherEnds DEF SocketInv, WTypes
<1>1. PICK l \in Nat : l = Len(wire[Other(e)])
  BY <1>0
<1>2. PICK size \in ReadSizes : n = Min({asked, l, size})
  BY <1>1 DEF Pieces
<1>3. size \in Nat /\ size > 0
  BY DEF WebsocketAssumption
<1>4. n \in {asked, l, size} /\ n <= asked /\ n <= l
  BY <1>2, <1>3, LeastOfThree
<1>5. wire[Other(e)] # << >> => l > 0
  BY <1>0, <1>1
<1> QED BY <1>1, <1>3, <1>4, <1>5

\* What the lemmas about an end's step start from, on the values of its variables.
View(e, o, r, w, u, s, g) ==
    /\ r \in Readers /\ w \in Seq(WUnits) /\ u \in Seq(WUnits) /\ s \in Seq(WMessages) /\ g \in Seq(WMessages)
    /\ r = reader[e] /\ w = wire[o] /\ s = sent[o] /\ g = got[e] /\ u = Unsent(o, app[o], sent[o])
    /\ LocalOf(r, app[e], lock[e], open[e], sent[e]) /\ GotOf(g, s)
    /\ (r.pc \notin {"left", "done"} => DirOf(r, w, u, s, g, e))
    /\ \A i \in 1 .. Len(s) : Fits(s[i])

\* In the invariant, an end sees this.
LEMMA ViewIs ==
    ASSUME SocketInv, NEW e \in Ends, NEW o \in Ends, o = Other(e)
    PROVE  \E r, w, u, s, g : View(e, o, r, w, u, s, g)
<1>1. PICK r, w, u, s, g : r = reader[e] /\ w = wire[o] /\ s = sent[o] /\ g = got[e] /\ u = Unsent(o, app[o], sent[o])
  OBVIOUS
<1>2. r \in Readers /\ w \in Seq(WUnits) /\ s \in Seq(WMessages) /\ g \in Seq(WMessages)
  BY <1>1 DEF SocketInv, WTypes
<1>3. LocalOf(r, app[e], lock[e], open[e], sent[e]) /\ GotOf(g, s) /\ LocalOf(reader[o], app[o], lock[o], open[o], s)
  BY <1>1 DEF SocketInv, Local, Gotten
<1>4. r.pc \notin {"left", "done"} => DirOf(r, w, u, s, g, e)
  BY <1>1 DEF SocketInv, Dir
<1>5. (app[o] = "data" => s # << >>) /\ \A i \in 1 .. Len(s) : Fits(s[i])
  BY <1>3 DEF LocalOf
<1>6. u \in Seq(WUnits)
  BY <1>1, <1>2, <1>5, UnsentIs
<1> QED BY <1>1, <1>2, <1>3, <1>4, <1>5, <1>6 DEF View

\* read_websocket receives into the buffer.
LEMMA PullStep ==
    ASSUME WebsocketAssumption, SocketInv, NEW e \in Ends, Pull(e)
    PROVE  SocketInv'
<1>0. PICK o \in Ends : o = Other(e)
  BY OtherEnds
<1>1. PICK r, w, u, s, g : View(e, o, r, w, u, s, g)
  BY <1>0, ViewIs
<1>2. /\ r \in Readers /\ w \in Seq(WUnits) /\ u \in Seq(WUnits) /\ s \in Seq(WMessages) /\ g \in Seq(WMessages)
      /\ r = reader[e] /\ w = wire[o] /\ s = sent[o] /\ g = got[e] /\ u = Unsent(o, app[o], sent[o])
  BY <1>1 DEF View
<1>3. r.pc = "loop" /\ UNCHANGED <<open, app, lock, sent, got>> /\ Room - Len(r.buf) > 0
  BY <1>2 DEF Pull, Reading
<1>4. PICK n \in Pieces(e, Room - Len(r.buf)) :
        /\ reader' = [reader EXCEPT ![e] = [r EXCEPT !.buf = @ \o SubSeq(w, 1, n), !.pings = 0]]
        /\ wire' = [wire EXCEPT ![o] = SubSeq(w, n + 1, Len(w))]
  BY <1>0, <1>2 DEF Pull, Set, Receive, Received
<1>5. PICK h : h = r.buf
  OBVIOUS
<1>6. h \in Seq(WUnits) /\ Len(h) \in Nat /\ Room \in Nat /\ MaxPing \in Nat
  BY <1>2, <1>5 DEF Readers, WebsocketAssumption
<1>7. Room - Len(h) \in Nat
  BY <1>3, <1>5, <1>6
<1>8. n \in 0 .. Len(w) /\ n <= Room - Len(h)
  BY <1>0, <1>2, <1>4, <1>5, <1>7, PiecesAre
<1>9. PICK a, c \in Seq(WUnits) : Goes(h, w, u, n, a, c)
  BY <1>2, <1>6, <1>8, Going
<1>10. Len(a) = Len(h) + n /\ a \o (c \o u) = h \o (w \o u) /\ a = h \o SubSeq(w, 1, n) /\ c = SubSeq(w, n + 1, Len(w))
  BY <1>9 DEF Goes
<1>11. PICK q : q = [r EXCEPT !.buf = a, !.pings = 0]
  OBVIOUS
<1>12. q \in Readers /\ q.pc = "loop" /\ q.buf = a /\ q.pings = 0
  BY <1>2, <1>3, <1>10, <1>11 DEF Readers
<1>13. reader' = [reader EXCEPT ![e] = q] /\ wire' = [wire EXCEPT ![o] = c] /\ got' = [got EXCEPT ![e] = g]
  <2>1. got = [got EXCEPT ![e] = g]
    BY <1>2 DEF SocketInv, WTypes
  <2> QED BY <1>3, <1>4, <1>5, <1>10, <1>11, <2>1
<1>14. Len(a) <= Room
  BY <1>6, <1>8, <1>10
<1>15. LocalOf(q, app[e], lock[e], open[e], sent[e]) /\ GotOf(g, sent[o])
  <2>1. LocalOf(r, app[e], lock[e], open[e], sent[e]) /\ GotOf(g, s)
    BY <1>1 DEF View
  <2>2. LocalOf(q, app[e], lock[e], open[e], sent[e])
    <3>1. 0 <= MaxPing + 1
      BY <1>6
    <3> QED BY <1>3, <1>12, <1>14, <2>1, <3>1 DEF LocalOf
  <2> QED BY <1>2, <2>1, <2>2
<1>16. Coming(q, c, u) = Coming(r, w, u) /\ Ahead(q, c, e) = Ahead(r, w, e) /\ Begun(q, g) = Begun(r, g)
  BY <1>3, <1>5, <1>10, <1>12 DEF Coming, InHand, Ahead, Begun
<1>17. DirOf(q, c, u, s, g, e)
  BY <1>1, <1>2, <1>3, <1>12, <1>16, DirStays DEF View
<1> QED BY <1>0, <1>2, <1>3, <1>10, <1>12, <1>13, <1>15, <1>17, ReadSteps

\* (Names for the provers.)
Joins(T, b, k) == T = b \o k
CutTo(b, n, z) == z = SubSeq(b, n + 1, Len(b))
Sized(b, h, n) == Frame(b) = [header |-> h, length |-> n]

\* The rest of a sequence is that much shorter.
LEMMA CutLen ==
    ASSUME NEW T \in Seq(WUnits), NEW n \in 0 .. Len(T), NEW Z, CutTo(T, n, Z)
    PROVE  Len(Z) = Len(T) - n /\ \A i \in 1 .. Len(T) - n : Z[i] = T[n + i]
BY DEF CutTo

\* The beginning of what is carried is taken away.
LEMMA CutIs ==
    ASSUME NEW o, NEW b \in Seq(WUnits), NEW k \in Seq(WUnits), NEW n \in 0 .. Len(b), NEW s \in Seq(WMessages),
           NEW d \in Nat, NEW j \in Nat, NEW f \in Nat, d = n + f, NEW T, Joins(T, b, k), Carried(T, d, j, s, o),
           NEW z, CutTo(b, n, z)
    PROVE  /\ z \in Seq(WUnits) /\ Len(z) = Len(b) - n
           /\ \E Z \in Seq(WUnits) : Joins(Z, z, k) /\ CutTo(T, n, Z) /\ Carried(Z, f, j, s, o)
<1>1. T = b \o k /\ z = SubSeq(b, n + 1, Len(b))
  BY DEF Joins, CutTo
<1>2. T \in Seq(WUnits)
  BY <1>1
<1>3. /\ SubSeq(T, n + 1, Len(T)) = z \o k /\ n <= Len(T)
      /\ z \in Seq(WUnits) /\ Len(z) = Len(b) - n
  BY <1>1, Shortened
<1>4. n \in Nat /\ n <= Len(T) /\ n <= d /\ d - n = f
  BY <1>3
<1>5. Carried(SubSeq(T, n + 1, Len(T)), d - n, j, s, o)
  BY <1>2, <1>4, CarriedDrops
<1>a. z \in Seq(WUnits) /\ SubSeq(T, n + 1, Len(T)) = z \o k
  BY <1>3
<1>b. z \o k \in Seq(WUnits)
  BY <1>a
<1>6. SubSeq(T, n + 1, Len(T)) \in Seq(WUnits)
  BY <1>a, <1>b
<1> QED BY <1>3, <1>4, <1>5, <1>6 DEF Joins, CutTo

\* The data of a message whose header is h units long.
HeaderLen(o, m, h) == h = Len(Header(o, "app", m.op, Len(m.data)))
DataIn(T, h, d, n) ==
    /\ d \in Seq(WUnits) /\ Len(d) = n /\ h + n <= Len(T)
    /\ \A i \in 1 .. n : T[h + i] = d[i]

\* The data lie behind the header.
LEMMA DataBehind ==
    ASSUME WebsocketAssumption, NEW o \in Ends, NEW m \in WMessages, NEW T \in Seq(WUnits),
           At(T, 0, Bytes(o, m)), NEW h \in Nat, HeaderLen(o, m, h)
    PROVE  DataIn(T, h, Masked(o, "app", m.data), Len(m.data))
<1>d. PICK d : d = Masked(o, "app", m.data)
  OBVIOUS
<1>1. PICK y : y = Bytes(o, m)
  OBVIOUS
<1>2. y \in Seq(WUnits) /\ d \in Seq(WUnits) /\ Len(d) = Len(m.data) /\ Len(y) = h + Len(m.data)
  BY <1>1, <1>d, BytesAre DEF HeaderLen
<1>3. \A i \in 1 .. Len(d) : y[h + i] = d[i]
  BY <1>1, <1>d, BytesAre DEF HeaderLen
<1>4. PICK l \in Nat : l = Len(d)
  BY <1>2
<1>5. Len(y) = h + l /\ \A i \in 1 .. Len(y) : T[0 + i] = y[i]
  BY <1>1, <1>2, <1>4 DEF At
<1>6. \A i \in 1 .. l : h + i \in 1 .. Len(y) /\ 0 + (h + i) = h + i
  BY <1>4, <1>5
<1>7. \A i \in 1 .. l : T[h + i] = d[i]
  BY <1>3, <1>4, <1>5, <1>6
<1>8. 0 + Len(y) <= Len(T)
  BY <1>1 DEF At
<1>9. h + l <= Len(T)
  BY <1>4, <1>5, <1>8
<1> QED BY <1>2, <1>4, <1>7, <1>9, <1>d DEF DataIn

\* What is known of a message whose frame a buffer begins with.
MessageIs(b, T, s, o, h, n, c) ==
    /\ c + 1 \in 1 .. Len(s) /\ s[c + 1] \in WMessages
    /\ HeaderLen(o, s[c + 1], h) /\ n = Len(s[c + 1].data)
    /\ h \in 1 .. Len(b) /\ b[1].v = s[c + 1].op /\ SubSeq(b, h - MaskLen(b) + 1, h) = MaskOf(o)
    /\ At(T, 0, Bytes(o, s[c + 1])) /\ Carried(T, h + n, c + 1, s, o)

\* The frame is that of the next message.
LEMMA MessageRead ==
    ASSUME NEW o \in Ends, NEW b \in Seq(WUnits), NEW T, NEW s \in Seq(WMessages), NEW g \in Seq(WMessages),
           MessageFrame(b, T, s, g, o), NEW h \in Nat, NEW n \in Nat, Sized(b, h, n),
           NEW c \in Nat, c = Len(g)
    PROVE  MessageIs(b, T, s, o, h, n, c)
<1>1. c + 1 \in 1 .. Len(s)
  BY DEF MessageFrame
<1>2. PICK m : m = s[c + 1]
  OBVIOUS
<1>3. PICK l, x : l = Len(m.data) /\ x = Len(Header(o, "app", m.op, Len(m.data)))
  OBVIOUS
<1>4. /\ Frame(b) = [header |-> x, length |-> l] /\ x \in 1 .. Len(b)
      /\ b[1].v = m.op /\ SubSeq(b, x - MaskLen(b) + 1, x) = MaskOf(o)
      /\ At(T, 0, Bytes(o, m)) /\ Carried(T, x + l, c + 1, s, o)
  BY <1>2, <1>3 DEF MessageFrame
<1>5. h = x /\ n = l
  BY <1>4 DEF Sized
<1>6. m \in WMessages
  BY <1>1, <1>2
<1> QED BY <1>1, <1>2, <1>3, <1>4, <1>5, <1>6 DEF MessageIs, HeaderLen

\* The frame is longer than what was read: the data that is there is the message's.
RestStarts(q, b, h, n) ==
    /\ q.pc = "rest" /\ q.buf = << >> /\ CutTo(b, h, q.data) /\ q.need = n
    /\ q.op = b[1].v /\ q.mask = SubSeq(b, h - MaskLen(b) + 1, h)

\* The data of a frame has begun, and the rest is on the way.
LEMMA RestBegins ==
    ASSUME WebsocketAssumption, NEW e \in Ends, NEW o \in Ends, o = Other(e), NEW b \in Seq(WUnits),
           NEW w \in Seq(WUnits), NEW u \in Seq(WUnits), NEW k \in Seq(WUnits), Joins(k, w, u), NEW T, Joins(T, b, k),
           NEW s \in Seq(WMessages), NEW g \in Seq(WMessages),
           MessageFrame(b, T, s, g, o), NEW h \in Nat, NEW n \in Nat,
           Sized(b, h, n), h + n > Len(b), NEW q \in Readers, RestStarts(q, b, h, n)
    PROVE  DirOf(q, w, u, s, g, e)
<1>4. T \in Seq(WUnits) /\ Len(T) = Len(b) + Len(k)
  BY DEF Joins
<1>5. PICK c \in Nat : c = Len(g)
  OBVIOUS
<1>m. MessageIs(b, T, s, o, h, n, c)
  BY <1>5, MessageRead
<1>6. c + 1 \in 1 .. Len(s) /\ c + 1 \in Nat
  BY <1>m DEF MessageIs
<1>7. PICK m \in WMessages : m = s[c + 1]
  BY <1>6
<1>8. /\ HeaderLen(o, m, h) /\ n = Len(m.data) /\ h \in 1 .. Len(b)
      /\ b[1].v = m.op /\ SubSeq(b, h - MaskLen(b) + 1, h) = MaskOf(o)
      /\ At(T, 0, Bytes(o, m)) /\ Carried(T, h + n, c + 1, s, o)
  BY <1>7, <1>m DEF MessageIs
<1>9. PICK d : d = Masked(o, "app", m.data)
  OBVIOUS
<1>10. d \in Seq(WUnits) /\ Len(d) = n /\ h + n <= Len(T) /\ \A i \in 1 .. n : T[h + i] = d[i]
  <2>1. HeaderLen(o, m, h) /\ At(T, 0, Bytes(o, m)) /\ T \in Seq(WUnits)
    BY <1>4, <1>8
  <2>2. DataIn(T, h, Masked(o, "app", m.data), Len(m.data))
    BY <2>1, DataBehind
  <2>3. DataIn(T, h, d, n)
    BY <1>8, <1>9, <2>2
  <2> QED BY <2>3 DEF DataIn
<1>11. PICK a : a = q.data
  OBVIOUS
<1>12. h \in 1 .. Len(b)
  BY <1>8
<1>13. h \in 0 .. Len(b) /\ h + n \in Nat
  BY <1>12
<1>14. CutTo(b, h, a) /\ Carried(T, h + n, c + 1, s, o)
  BY <1>8, <1>11 DEF RestStarts
<1>15. /\ a \in Seq(WUnits) /\ Len(a) = Len(b) - h
       /\ \E Z \in Seq(WUnits) : Joins(Z, a, k) /\ CutTo(T, h, Z) /\ Carried(Z, n, c + 1, s, o)
  BY <1>6, <1>13, <1>14, CutIs
<1>16. PICK Z \in Seq(WUnits) : Joins(Z, a, k) /\ CutTo(T, h, Z) /\ Carried(Z, n, c + 1, s, o)
  BY <1>15
<1>17. Len(Z) = Len(T) - h /\ \A i \in 1 .. Len(T) - h : Z[i] = T[h + i]
  <2>1. h \in 0 .. Len(T)
    BY <1>4, <1>10
  <2> QED BY <1>4, <1>16, <2>1, CutLen
<1>18. At(Z, 0, d)
  <2>1. \A i \in 1 .. n : i \in 1 .. Len(T) - h /\ 0 + i = i
    BY <1>4, <1>10
  <2>2. 0 + n <= Len(Z)
    BY <1>4, <1>10, <1>17
  <2> QED BY <1>10, <1>17, <2>1, <2>2 DEF At
<1>19. Coming(q, w, u) = Z /\ Ahead(q, w, e) = n /\ Begun(q, g) = c + 1
  BY <1>5, <1>11, <1>16 DEF Coming, InHand, Ahead, Begun, Joins, RestStarts
<1>21. Len(q.data) < n
  <2>1. Len(b) \in Nat /\ h + n > Len(b)
    OBVIOUS
  <2> QED BY <1>11, <1>15, <2>1
<1>22. RestOf(q, Z, s, g, o)
  <2>1. c + 1 <= Len(s) /\ q.need = n
    BY <1>6 DEF RestStarts
  <2>2. q.op = m.op /\ q.mask = MaskOf(o) /\ q.need = Len(m.data) /\ q.buf = << >>
    BY <1>8 DEF RestStarts
  <2> QED BY <1>5, <1>7, <1>9, <1>18, <1>21, <2>1, <2>2 DEF RestOf
<1> QED BY <1>16, <1>19, <1>22 DEF DirOf

\* All of the frame was read: it is the message, and behind it the next piece begins.
FrameTaken(b, h, n, d, x, z) ==
    /\ d = SubSeq(b, h + 1, h + n) /\ x = SubSeq(b, h - MaskLen(b) + 1, h) /\ CutTo(b, h + n, z)

\* All of a message is in the buffer: what is taken from there is the message.
LEMMA WholeFrame ==
    ASSUME WebsocketAssumption, NEW o \in Ends, NEW b \in Seq(WUnits), NEW k \in Seq(WUnits), NEW T, Joins(T, b, k),
           NEW s \in Seq(WMessages), NEW g \in Seq(WMessages),
           MessageFrame(b, T, s, g, o), NEW h \in Nat, NEW n \in Nat, Sized(b, h, n), h + n <= Len(b),
           NEW d, NEW x, NEW z, FrameTaken(b, h, n, d, x, z)
    PROVE  /\ Len(g) + 1 \in 1 .. Len(s) /\ b[1].v = s[Len(g) + 1].op
           /\ Unmask(d, x) = s[Len(g) + 1].data
           /\ z \in Seq(WUnits) /\ Len(z) <= Len(b)
           /\ \E Z \in Seq(WUnits) : Joins(Z, z, k) /\ Carried(Z, 0, Len(g) + 1, s, o)
<1>4. T \in Seq(WUnits) /\ Len(T) = Len(b) + Len(k) /\ \A i \in 1 .. Len(b) : T[i] = b[i]
  BY Joined DEF Joins
<1>5. PICK c \in Nat : c = Len(g)
  OBVIOUS
<1>m. MessageIs(b, T, s, o, h, n, c)
  BY <1>5, MessageRead
<1>6. c + 1 \in 1 .. Len(s) /\ c + 1 \in Nat
  BY <1>m DEF MessageIs
<1>7. PICK m \in WMessages : m = s[c + 1]
  BY <1>6
<1>8. /\ HeaderLen(o, m, h) /\ n = Len(m.data) /\ h \in 1 .. Len(b)
      /\ b[1].v = m.op /\ SubSeq(b, h - MaskLen(b) + 1, h) = MaskOf(o)
      /\ At(T, 0, Bytes(o, m)) /\ Carried(T, h + n, c + 1, s, o)
  BY <1>7, <1>m DEF MessageIs
<1>9. PICK y : y = Masked(o, "app", m.data)
  OBVIOUS
<1>10. y \in Seq(WUnits) /\ Len(y) = n /\ h + n <= Len(T) /\ \A i \in 1 .. n : T[h + i] = y[i]
  <2>1. HeaderLen(o, m, h) /\ At(T, 0, Bytes(o, m)) /\ T \in Seq(WUnits)
    BY <1>4, <1>8
  <2>2. DataIn(T, h, Masked(o, "app", m.data), Len(m.data))
    BY <2>1, DataBehind
  <2>3. DataIn(T, h, y, n)
    BY <1>8, <1>9, <2>2
  <2> QED BY <2>3 DEF DataIn
<1>11. PICK l \in Nat : l = Len(b)
  OBVIOUS
<1>12. h \in 1 .. l /\ h + n <= l
  BY <1>8, <1>11
<1>a. \A i \in 1 .. n : h + i \in 1 .. l
  BY <1>12
<1>b. d \in Seq(WUnits) /\ Len(d) = n /\ \A i \in 1 .. n : d[i] = b[h + i]
  BY <1>11, <1>12 DEF FrameTaken
<1>13. d = y
  <2>1. \A i \in 1 .. n : d[i] = y[i]
    BY <1>4, <1>10, <1>11, <1>a, <1>b
  <2> QED BY <1>10, <1>b, <2>1, SeqEqual
<1>14. Unmask(d, x) = m.data
  <2>1. m.data \in Seq(Plain)
    BY DEF WMessages
  <2>2. x = MaskOf(o)
    BY <1>8 DEF FrameTaken
  <2> QED BY <1>9, <1>13, <2>1, <2>2, UnmaskIs
<1>15. PICK p \in Nat : p = h + n
  OBVIOUS
<1>16. p \in 0 .. Len(b) /\ p = p + 0 /\ CutTo(b, p, z) /\ Carried(T, p, c + 1, s, o)
  <2>1. CutTo(b, p, z) /\ Carried(T, p, c + 1, s, o)
    BY <1>8, <1>15 DEF FrameTaken
  <2>2. p \in 0 .. Len(b) /\ p = p + 0
    BY <1>11, <1>12, <1>15
  <2> QED BY <2>1, <2>2
<1>17. /\ z \in Seq(WUnits) /\ Len(z) = Len(b) - p
       /\ \E Z \in Seq(WUnits) : Joins(Z, z, k) /\ CutTo(T, p, Z) /\ Carried(Z, 0, c + 1, s, o)
  BY <1>6, <1>16, CutIs
<1>18. Len(z) <= Len(b)
  BY <1>16, <1>17
<1> QED BY <1>5, <1>6, <1>7, <1>8, <1>14, <1>17, <1>18

\* All of a ping or pong is in the buffer.
LEMMA WholeControl ==
    ASSUME NEW o \in Ends, NEW b \in Seq(WUnits), NEW k \in Seq(WUnits), NEW T, Joins(T, b, k),
           NEW s \in Seq(WMessages), NEW g \in Seq(WMessages), ControlFrame(b, T, s, g, o), NEW z, CutTo(b, 2, z)
    PROVE  /\ z \in Seq(WUnits) /\ Len(z) <= Len(b)
           /\ \E Z \in Seq(WUnits) : Joins(Z, z, k) /\ Carried(Z, 0, Len(g), s, o)
<1>1. Carried(T, 2, Len(g), s, o) /\ 2 \in 0 .. Len(b) /\ Len(g) \in Nat /\ 2 = 2 + 0
  BY DEF ControlFrame
<1>2. /\ z \in Seq(WUnits) /\ Len(z) = Len(b) - 2
      /\ \E Z \in Seq(WUnits) : Joins(Z, z, k) /\ CutTo(T, 2, Z) /\ Carried(Z, 0, Len(g), s, o)
  BY <1>1, CutIs
<1> QED BY <1>1, <1>2

\* What the callback is given, and where the thread is then.
LEMMA DeliverMessage ==
    ASSUME NEW e, NEW r \in Readers, Deliver(e, r), PingPong => r.op \notin {Ping, Pong}
    PROVE  \E q \in Readers :
             /\ q.pc \in {"loop", "left"} /\ q.buf = r.buf /\ q.pings = r.pings
             /\ reader' = [reader EXCEPT ![e] = q]
             /\ got' = [got EXCEPT ![e] = Append(@, [op |-> r.op, data |-> Unmask(r.data, r.mask)])]
<1>1. PICK f : f = [r EXCEPT !.data = << >>, !.mask = << >>, !.need = 0, !.op = 0]
  OBVIOUS
<1>2. f \in Readers /\ f.buf = r.buf /\ f.pings = r.pings
  <2>1. << >> \in Seq(WUnits)
    OBVIOUS
  <2>2. f \in Readers
    BY <1>1, <2>1 DEF Readers
  <2> QED BY <1>1, <2>2 DEF Readers
<1>3. /\ \E goOn \in BOOLEAN : Set(e, [f EXCEPT !.pc = IF goOn /\ r.op # Close THEN "loop" ELSE "left"])
      /\ got' = [got EXCEPT ![e] = Append(@, [op |-> r.op, data |-> Unmask(r.data, r.mask)])]
  <2>1. ~(PingPong /\ r.op = Pong) /\ ~(PingPong /\ r.op = Ping)
    OBVIOUS
  <2> QED BY <1>1, <2>1 DEF Deliver
<1>4. PICK p \in {"loop", "left"} : reader' = [reader EXCEPT ![e] = [f EXCEPT !.pc = p]]
  BY <1>3 DEF Set
<1>5. PICK q : q = [f EXCEPT !.pc = p]
  OBVIOUS
<1>6. q \in Readers /\ q.pc = p /\ q.buf = f.buf /\ q.pings = f.pings
  BY <1>2, <1>5 DEF Readers, ReaderPlaces
<1> QED BY <1>2, <1>3, <1>4, <1>5, <1>6

\* A ping or a pong is answered, or noted.
LEMMA DeliverControl ==
    ASSUME NEW e, NEW r \in Readers, Deliver(e, r), PingPong, r.op \in {Ping, Pong}, r.data = << >>
    PROVE  \E q \in Readers :
             /\ q.pc \in {"loop", "pong"} /\ q.buf = r.buf /\ q.data = << >> /\ q.pings \in {0, r.pings}
             /\ reader' = [reader EXCEPT ![e] = q] /\ UNCHANGED got
<1>1. PICK f : f = [r EXCEPT !.data = << >>, !.mask = << >>, !.need = 0, !.op = 0]
  OBVIOUS
<1>2. f \in Readers /\ f.buf = r.buf /\ f.pings = r.pings /\ f.data = << >>
  BY <1>1 DEF Readers
<1>3. CASE r.op = Pong
  <2>1. reader' = [reader EXCEPT ![e] = [f EXCEPT !.pc = "loop", !.pings = 0]] /\ UNCHANGED got
    BY <1>1, <1>3 DEF Deliver, Set, Ping, Pong
  <2>2. PICK q : q = [f EXCEPT !.pc = "loop", !.pings = 0]
    OBVIOUS
  <2>3. q \in Readers /\ q.pc = "loop" /\ q.buf = f.buf /\ q.pings = 0 /\ q.data = f.data
    BY <1>2, <2>2 DEF Readers, ReaderPlaces
  <2> QED BY <1>2, <2>1, <2>2, <2>3
<1>4. CASE r.op = Ping
  <2>1. Unmask(r.data, r.mask) = << >>
    BY DEF Unmask
  <2>2. r.op # Pong
    BY <1>4 DEF Ping, Pong
  <2>3. reader' = [reader EXCEPT ![e] = [f EXCEPT !.pc = "pong", !.data = << >>]] /\ UNCHANGED got
    BY <1>1, <1>4, <2>1, <2>2 DEF Deliver, Set
  <2>4. PICK q : q = [f EXCEPT !.pc = "pong", !.data = << >>]
    OBVIOUS
  <2>5. q \in Readers /\ q.pc = "pong" /\ q.buf = f.buf /\ q.pings = f.pings /\ q.data = << >>
    BY <1>2, <2>4 DEF Readers, ReaderPlaces
  <2> QED BY <1>2, <2>3, <2>4, <2>5
<1> QED BY <1>3, <1>4

\* The thread has read all of a message, or of a ping or pong, and its callback was called.
LEMMA MessageDelivered ==
    ASSUME SocketInv, NEW e \in Ends, NEW o \in Ends, o = Other(e),
           NEW r, NEW w, NEW u, NEW s, NEW g, View(e, o, r, w, u, s, g), r.pc \in {"loop", "rest"},
           NEW f \in Readers, Deliver(e, f), f.pings = r.pings, Len(f.buf) <= Room,
           NEW x \in Seq(WUnits), wire' = [wire EXCEPT ![o] = x], UNCHANGED <<open, app, lock, sent>>,
           NEW c \in Nat, c = Len(g), c + 1 \in 1 .. Len(s), f.op = s[c + 1].op,
           Unmask(f.data, f.mask) = s[c + 1].data,
           NEW k, Joins(k, x, u), NEW Z, Joins(Z, f.buf, k), Carried(Z, 0, c + 1, s, o)
    PROVE  SocketInv'
<1>1. /\ r \in Readers /\ w \in Seq(WUnits) /\ u \in Seq(WUnits) /\ s \in Seq(WMessages) /\ g \in Seq(WMessages)
      /\ r = reader[e] /\ w = wire[o] /\ s = sent[o] /\ g = got[e] /\ u = Unsent(o, app[o], sent[o])
  BY DEF View
<1>2. PICK m \in WMessages : m = s[c + 1]
  BY <1>1
<1>3. Fits(m)
  <2>1. \A i \in 1 .. Len(s) : Fits(s[i])
    BY DEF View
  <2> QED BY <1>2, <2>1
<1>4. PingPong => f.op \notin {Ping, Pong}
  BY <1>2, <1>3 DEF Fits
<1>5. PICK q \in Readers :
        /\ q.pc \in {"loop", "left"} /\ q.buf = f.buf /\ q.pings = f.pings
        /\ reader' = [reader EXCEPT ![e] = q]
        /\ got' = [got EXCEPT ![e] = Append(@, [op |-> f.op, data |-> Unmask(f.data, f.mask)])]
  BY <1>4, DeliverMessage
<1>6. m = [op |-> m.op, data |-> m.data]
  BY DEF WMessages
<1>7. got' = [got EXCEPT ![e] = Append(g, m)]
  BY <1>1, <1>2, <1>5, <1>6
<1>8. PICK y : y = Append(g, m)
  OBVIOUS
<1>9. y \in Seq(WMessages) /\ Len(y) = c + 1 /\ (\A i \in 1 .. c : y[i] = g[i]) /\ y[c + 1] = m
  BY <1>1, <1>8
<1>10. GotOf(y, s)
  <2>1. GotOf(g, s)
    BY DEF View
  <2>2. \A i \in 1 .. c + 1 : i \in 1 .. c \/ i = c + 1
    OBVIOUS
  <2>3. \A i \in 1 .. c : g[i] = s[i]
    BY <2>1 DEF GotOf
  <2>4. \A i \in 1 .. c + 1 : y[i] = s[i]
    BY <1>2, <1>9, <2>2, <2>3
  <2>5. c + 1 <= Len(s)
    OBVIOUS
  <2> QED BY <1>9, <2>4, <2>5 DEF GotOf
<1>11. LocalOf(q, app[e], lock[e], open[e], sent[e])
  <2>1. LocalOf(r, app[e], lock[e], open[e], sent[e])
    BY DEF View
  <2> QED BY <1>5, <2>1 DEF LocalOf
<1>12. ASSUME q.pc \notin {"left", "done"} PROVE DirOf(q, x, u, s, y, e)
  <2>1. q.pc = "loop"
    BY <1>5, <1>12
  <2>2. Coming(q, x, u) = Z /\ Ahead(q, x, e) = 0 /\ Begun(q, y) = c + 1
    BY <1>5, <1>9, <2>1 DEF Coming, InHand, Ahead, Begun, Joins
  <2> QED BY <2>1, <2>2 DEF DirOf
<1>13. got' = [got EXCEPT ![e] = y]
  BY <1>7, <1>8
<1> QED BY <1>1, <1>5, <1>9, <1>10, <1>11, <1>12, <1>13, ReadSteps

\* After a ping or pong the invariant holds again.
LEMMA ControlDelivered ==
    ASSUME WebsocketAssumption, SocketInv, NEW e \in Ends, NEW o \in Ends, o = Other(e),
           NEW r, NEW w, NEW u, NEW s, NEW g, View(e, o, r, w, u, s, g), r.pc = "loop",
           NEW f \in Readers, Deliver(e, f), f.pings = r.pings, Len(f.buf) <= Room,
           UNCHANGED <<wire, open, app, lock, sent>>,
           PingPong, f.op \in {Ping, Pong}, f.data = << >>,
           NEW k, Joins(k, w, u), NEW Z, Joins(Z, f.buf, k), Carried(Z, 0, Len(g), s, o)
    PROVE  SocketInv'
<1>1. /\ r \in Readers /\ w \in Seq(WUnits) /\ u \in Seq(WUnits) /\ s \in Seq(WMessages) /\ g \in Seq(WMessages)
      /\ r = reader[e] /\ w = wire[o] /\ s = sent[o] /\ g = got[e] /\ u = Unsent(o, app[o], sent[o])
  BY DEF View
<1>2. PICK q \in Readers :
        /\ q.pc \in {"loop", "pong"} /\ q.buf = f.buf /\ q.data = << >> /\ q.pings \in {0, f.pings}
        /\ reader' = [reader EXCEPT ![e] = q] /\ UNCHANGED got
  BY DeliverControl
<1>3. LocalOf(q, app[e], lock[e], open[e], sent[e])
  <2>1. LocalOf(r, app[e], lock[e], open[e], sent[e])
    BY DEF View
  <2>2. 0 <= MaxPing + 1
    BY DEF WebsocketAssumption
  <2> QED BY <1>2, <2>1, <2>2 DEF LocalOf
<1>4. Coming(q, w, u) = Z /\ Ahead(q, w, e) = 0 /\ Begun(q, g) = Len(g)
  BY <1>2 DEF Coming, InHand, Ahead, Begun, Joins
<1>5. DirOf(q, w, u, s, g, e)
  BY <1>2, <1>4 DEF DirOf
<1>6. wire' = [wire EXCEPT ![o] = w] /\ got' = [got EXCEPT ![e] = g]
  BY <1>1, <1>2 DEF SocketInv, WTypes
<1>7. GotOf(g, s)
  BY DEF View
<1> QED BY <1>1, <1>2, <1>3, <1>5, <1>6, <1>7, ReadSteps

\* The frame that a buffer b begins with has a header of h units and n of data.
FrameHere(b, w, u, s, g, o, T, k, h, n) ==
    /\ Joins(k, w, u) /\ Joins(T, b, k) /\ Sized(b, h, n) /\ h \in 1 .. Len(b)
    /\ MessageFrame(b, T, s, g, o) \/ (ControlFrame(b, T, s, g, o) /\ h = 2 /\ n = 0)

\* A frame that begins the buffer has a header and a length.
LEMMA FrameThere ==
    ASSUME WebsocketAssumption, SocketInv, NEW e \in Ends, NEW o \in Ends, o = Other(e),
           NEW r, NEW w, NEW u, NEW s, NEW g, View(e, o, r, w, u, s, g), r.pc = "loop", Complete(r.buf)
    PROVE  \E T, k \in Seq(WUnits), h, n \in Nat : FrameHere(r.buf, w, u, s, g, o, T, k, h, n)
<1>1. /\ r \in Readers /\ w \in Seq(WUnits) /\ u \in Seq(WUnits) /\ s \in Seq(WMessages) /\ g \in Seq(WMessages)
      /\ DirOf(r, w, u, s, g, e) /\ \A i \in 1 .. Len(s) : Fits(s[i])
  BY DEF View
<1>2. PICK k, T : k = w \o u /\ T = r.buf \o k
  OBVIOUS
<1>3. k \in Seq(WUnits) /\ r.buf \in Seq(WUnits) /\ T \in Seq(WUnits)
  BY <1>1, <1>2 DEF Readers
<1>4. T = Coming(r, w, u)
  BY <1>2 DEF Coming, InHand
<1>5. MessageFrame(r.buf, T, s, g, o) \/ ControlFrame(r.buf, T, s, g, o)
  BY <1>1, <1>4, FirstFrame
<1>6. CASE MessageFrame(r.buf, T, s, g, o)
  <2>1. PICK m : m = s[Len(g) + 1]
    OBVIOUS
  <2>2. Len(g) + 1 \in 1 .. Len(s)
    BY <1>6 DEF MessageFrame
  <2>3. m \in WMessages
    BY <1>1, <2>1, <2>2
  <2>4. PICK h, n : h = Len(Header(o, "app", m.op, Len(m.data))) /\ n = Len(m.data)
    OBVIOUS
  <2>5. Frame(r.buf) = [header |-> h, length |-> n] /\ h \in 1 .. Len(r.buf)
    BY <1>6, <2>1, <2>4 DEF MessageFrame
  <2>6. m.data \in Seq(Plain)
    BY <2>3 DEF WMessages
  <2>7. h \in Nat /\ n \in Nat /\ T \in Seq(WUnits) /\ k \in Seq(WUnits)
    BY <1>3, <2>4, <2>5, <2>6
  <2>8. Joins(k, w, u) /\ Joins(T, r.buf, k) /\ Sized(r.buf, h, n)
    BY <1>2, <2>5 DEF Joins, Sized
  <2>9. FrameHere(r.buf, w, u, s, g, o, T, k, h, n)
    BY <1>6, <2>5, <2>8 DEF FrameHere
  <2> QED BY <2>7, <2>9, Zenon
<1>7. CASE ControlFrame(r.buf, T, s, g, o)
  <2>1. Frame(r.buf) = [header |-> 2, length |-> 0] /\ 2 \in 1 .. Len(r.buf)
    BY <1>3, <1>7 DEF ControlFrame
  <2>2. FrameHere(r.buf, w, u, s, g, o, T, k, 2, 0)
    BY <1>2, <1>7, <2>1 DEF Joins, Sized, FrameHere
  <2>3. 2 \in Nat /\ 0 \in Nat
    OBVIOUS
  <2> QED BY <1>3, <2>2, <2>3, Zenon
<1> QED BY <1>5, <1>6, <1>7

\* read_websocket takes a frame from the buffer, or the beginning of one.
LEMMA TakeFrameStep ==
    ASSUME WebsocketAssumption, SocketInv, NEW e \in Ends, TakeFrame(e)
    PROVE  SocketInv'
<1>0. PICK o \in Ends : o = Other(e)
  BY OtherEnds
<1>1. PICK r, w, u, s, g : View(e, o, r, w, u, s, g)
  BY <1>0, ViewIs
<1>2. /\ r \in Readers /\ w \in Seq(WUnits) /\ u \in Seq(WUnits) /\ s \in Seq(WMessages) /\ g \in Seq(WMessages)
      /\ r = reader[e] /\ w = wire[o] /\ s = sent[o] /\ g = got[e] /\ u = Unsent(o, app[o], sent[o])
  BY <1>1 DEF View
<1>3. r.pc = "loop" /\ Complete(r.buf) /\ UNCHANGED <<wire, open, app, lock, sent>>
  BY <1>2 DEF TakeFrame
<1>f. PICK T, k \in Seq(WUnits), h, n \in Nat : FrameHere(r.buf, w, u, s, g, o, T, k, h, n)
  BY <1>0, <1>1, <1>3, FrameThere
<1>4. /\ Joins(k, w, u) /\ Joins(T, r.buf, k) /\ Sized(r.buf, h, n) /\ h \in 1 .. Len(r.buf)
      /\ MessageFrame(r.buf, T, s, g, o) \/ (ControlFrame(r.buf, T, s, g, o) /\ h = 2 /\ n = 0)
  BY <1>f DEF FrameHere
<1>5. Frame(r.buf).header = h /\ Frame(r.buf).length = n
  BY <1>4 DEF Sized
<1>6. PICK b \in Seq(WUnits) : b = r.buf
  BY <1>2 DEF Readers
<1>7. PICK x : x = SubSeq(b, h - MaskLen(b) + 1, h)
  OBVIOUS
<1>8. PICK t : t = [r EXCEPT !.op = b[1].v, !.mask = x]
  OBVIOUS
<1>9. IF h + n > Len(b)
      THEN Set(e, [t EXCEPT !.pc = "rest", !.need = n, !.buf = << >>, !.data = SubSeq(b, h + 1, Len(b))]) /\ UNCHANGED got
      ELSE Deliver(e, [t EXCEPT !.data = SubSeq(b, h + 1, h + n), !.buf = SubSeq(b, h + n + 1, Len(b))])
  BY <1>2, <1>5, <1>6, <1>7, <1>8 DEF TakeFrame
<1>10. x \in Seq(WUnits)
  <2>1. CASE MessageFrame(r.buf, T, s, g, o)
    <3>1. PICK c \in Nat : c = Len(g)
      <4>1. Len(g) \in Nat
        BY <1>2
      <4> QED BY <4>1, Zenon
    <3>2. MessageIs(b, T, s, o, h, n, c)
      BY <1>2, <1>4, <1>6, <2>1, <3>1, MessageRead
    <3>3. x = MaskOf(o)
      BY <1>7, <3>2 DEF MessageIs
    <3> QED BY <3>3, MaskIs
  <2>2. CASE ControlFrame(r.buf, T, s, g, o) /\ h = 2
    <3>1. MaskLen(b) = 0
      BY <1>6, <2>2 DEF ControlFrame
    <3>2. x = SubSeq(b, 3, 2)
      BY <1>7, <2>2, <3>1
    <3> QED BY <3>2
  <2> QED BY <1>4, <2>1, <2>2
<1>11. b[1].v \in Nat /\ h \in 1 .. Len(b)
  <2>1. b[1] \in WUnits /\ h \in 1 .. Len(b)
    BY <1>4, <1>6
  <2> QED BY <2>1 DEF WUnits
<1>12. t \in Readers /\ t.op = b[1].v /\ t.mask = x /\ t.buf = b /\ t.pings = r.pings /\ t.pc = "loop"
  BY <1>2, <1>3, <1>6, <1>8, <1>10, <1>11 DEF Readers
<1>13. LocalOf(r, app[e], lock[e], open[e], sent[e]) /\ GotOf(g, s) /\ Len(b) <= Room /\ Room \in Nat
  BY <1>1, <1>6 DEF View, LocalOf, WebsocketAssumption
<1>14. CASE h + n > Len(b)
  <2>1. MessageFrame(b, T, s, g, o)
    BY <1>4, <1>6, <1>14
  <2>2. PICK q : q = [t EXCEPT !.pc = "rest", !.need = n, !.buf = << >>, !.data = SubSeq(b, h + 1, Len(b))]
    OBVIOUS
  <2>3. SubSeq(b, h + 1, Len(b)) \in Seq(WUnits) /\ << >> \in Seq(WUnits) /\ "rest" \in ReaderPlaces
    BY <1>11 DEF ReaderPlaces
  <2>4. /\ q \in Readers /\ q.pc = "rest" /\ q.need = n /\ q.buf = << >> /\ q.data = SubSeq(b, h + 1, Len(b))
        /\ q.op = b[1].v /\ q.mask = x /\ q.pings = r.pings
    BY <1>12, <2>2, <2>3 DEF Readers
  <2>5. RestStarts(q, b, h, n)
    BY <1>7, <2>4 DEF RestStarts, CutTo
  <2>6. DirOf(q, w, u, s, g, e)
    <3>1. Joins(k, w, u) /\ Joins(T, b, k) /\ Sized(b, h, n)
      BY <1>4, <1>6
    <3> QED BY <1>0, <1>2, <1>14, <2>1, <2>4, <2>5, <3>1, RestBegins
  <2>7. LocalOf(q, app[e], lock[e], open[e], sent[e])
    <3>1. Len(<< >>) <= Room
      BY <1>13
    <3> QED BY <1>3, <1>13, <2>4, <3>1 DEF LocalOf
  <2>8. reader' = [reader EXCEPT ![e] = q] /\ wire' = [wire EXCEPT ![o] = w] /\ got' = [got EXCEPT ![e] = g]
    <3>1. reader' = [reader EXCEPT ![e] = q] /\ UNCHANGED got
      BY <1>9, <1>14, <2>2 DEF Set
    <3> QED BY <1>2, <1>3, <3>1 DEF SocketInv, WTypes
  <2> QED BY <1>0, <1>2, <1>3, <1>13, <2>4, <2>6, <2>7, <2>8, ReadSteps
<1>15. CASE ~(h + n > Len(b))
  <2>1. PICK d, z : d = SubSeq(b, h + 1, h + n) /\ z = SubSeq(b, h + n + 1, Len(b))
    OBVIOUS
  <2>2. PICK l \in Nat : l = Len(b)
    OBVIOUS
  <2>3. h + n <= l /\ h >= 1
    BY <1>11, <1>15, <2>2
  <2>4. d \in Seq(WUnits) /\ z \in Seq(WUnits)
    BY <2>1, <2>2, <2>3
  <2>5. PICK f : f = [t EXCEPT !.data = d, !.buf = z]
    OBVIOUS
  <2>6. f \in Readers /\ f.data = d /\ f.buf = z /\ f.op = b[1].v /\ f.mask = x /\ f.pings = r.pings
    BY <1>12, <2>4, <2>5 DEF Readers
  <2>7. Deliver(e, f)
    BY <1>9, <1>15, <2>1, <2>5
  <2>8. Joins(k, w, u) /\ Joins(T, b, k) /\ Sized(b, h, n)
    BY <1>4, <1>6
  <2>9. CASE MessageFrame(b, T, s, g, o)
    <3>1. FrameTaken(b, h, n, d, x, z)
      BY <1>7, <2>1 DEF FrameTaken, CutTo
    <3>2. h + n <= Len(b)
      BY <2>2, <2>3
    <3>3. /\ Len(g) + 1 \in 1 .. Len(s) /\ b[1].v = s[Len(g) + 1].op
          /\ Unmask(d, x) = s[Len(g) + 1].data
          /\ z \in Seq(WUnits) /\ Len(z) <= Len(b)
          /\ \E Z \in Seq(WUnits) : Joins(Z, z, k) /\ Carried(Z, 0, Len(g) + 1, s, o)
      BY <1>2, <2>8, <2>9, <3>1, <3>2, WholeFrame, SMTT(30)
    <3>4. PICK Z \in Seq(WUnits) : Joins(Z, z, k) /\ Carried(Z, 0, Len(g) + 1, s, o)
      BY <3>3
    <3>5. PICK c \in Nat : c = Len(g)
      <4>1. Len(g) \in Nat
        BY <1>2
      <4> QED BY <4>1, Zenon
    <3>6. Len(f.buf) <= Room /\ f.op = s[c + 1].op /\ Unmask(f.data, f.mask) = s[c + 1].data /\ c + 1 \in 1 .. Len(s)
          /\ Joins(Z, f.buf, k) /\ Carried(Z, 0, c + 1, s, o)
      <4>1. Len(z) <= Room
        BY <1>13, <2>2, <2>4, <3>3
      <4> QED BY <2>6, <3>3, <3>4, <3>5, <4>1
    <3>7. wire' = [wire EXCEPT ![o] = w]
      BY <1>2, <1>3 DEF SocketInv, WTypes
    <3> QED BY <1>0, <1>1, <1>2, <1>3, <2>6, <2>7, <2>8, <3>5, <3>6, <3>7, MessageDelivered, ZenonT(60)
  <2>10. CASE ControlFrame(b, T, s, g, o) /\ h = 2 /\ n = 0
    <3>1. d = << >> /\ CutTo(b, 2, z)
      BY <2>1, <2>10 DEF CutTo
    <3>2. /\ z \in Seq(WUnits) /\ Len(z) <= Len(b)
          /\ \E Z \in Seq(WUnits) : Joins(Z, z, k) /\ Carried(Z, 0, Len(g), s, o)
      BY <1>2, <2>8, <2>10, <3>1, WholeControl
    <3>3. PICK Z \in Seq(WUnits) : Joins(Z, z, k) /\ Carried(Z, 0, Len(g), s, o)
      BY <3>2
    <3>4. Len(f.buf) <= Room /\ f.data = << >>
      BY <1>13, <2>2, <2>6, <3>1, <3>2
    <3>5. f.op \in {Ping, Pong} /\ PingPong
      BY <2>6, <2>10 DEF ControlFrame
    <3>6. Joins(Z, f.buf, k)
      BY <2>6, <3>3
    <3> QED BY <1>0, <1>1, <1>3, <2>6, <2>7, <2>8, <3>3, <3>4, <3>5, <3>6, ControlDelivered
  <2> QED BY <1>4, <1>6, <2>9, <2>10
<1> QED BY <1>14, <1>15

\* read_websocket receives the rest of the data.
LEMMA PullRestStep ==
    ASSUME WebsocketAssumption, SocketInv, NEW e \in Ends, PullRest(e)
    PROVE  SocketInv'
<1>0. PICK o \in Ends : o = Other(e)
  BY OtherEnds
<1>1. PICK r, w, u, s, g : View(e, o, r, w, u, s, g)
  BY <1>0, ViewIs
<1>2. /\ r \in Readers /\ w \in Seq(WUnits) /\ u \in Seq(WUnits) /\ s \in Seq(WMessages) /\ g \in Seq(WMessages)
      /\ r = reader[e] /\ w = wire[o] /\ s = sent[o] /\ g = got[e] /\ u = Unsent(o, app[o], sent[o])
  BY <1>1 DEF View
<1>3. r.pc = "rest" /\ w # << >> /\ UNCHANGED <<open, app, lock, sent>>
  BY <1>0, <1>2 DEF PullRest
<1>4. PICK h \in Seq(WUnits), l \in Nat : h = r.data /\ l = r.need
  BY <1>2 DEF Readers
<1>5. PICK n \in Pieces(e, l - Len(h)) :
        /\ IF n = l - Len(h) THEN Deliver(e, [r EXCEPT !.data = h \o SubSeq(w, 1, n)])
           ELSE Set(e, [r EXCEPT !.data = h \o SubSeq(w, 1, n)]) /\ UNCHANGED got
        /\ wire' = [wire EXCEPT ![o] = SubSeq(w, n + 1, Len(w))]
  BY <1>0, <1>2, <1>4 DEF PullRest, Receive, Received
<1>6. DirOf(r, w, u, s, g, e)
  BY <1>1, <1>3 DEF View
<1>7. PICK T, k : T = Coming(r, w, u) /\ k = w \o u
  OBVIOUS
<1>8. T \in Seq(WUnits) /\ k \in Seq(WUnits) /\ T = h \o k
  BY <1>2, <1>3, <1>4, <1>7 DEF Coming, InHand
<1>9. RestOf(r, T, s, g, o)
  BY <1>0, <1>3, <1>6, <1>7 DEF DirOf
<1>10. PICK c \in Nat : c = Len(g)
  <2>1. Len(g) \in Nat
    BY <1>2
  <2> QED BY <2>1, Zenon
<1>11. Carried(T, l, c + 1, s, o)
  BY <1>0, <1>3, <1>4, <1>6, <1>7, <1>10 DEF DirOf, Ahead, Begun
<1>12. c + 1 \in 1 .. Len(s) /\ r.buf = << >> /\ Len(h) < l
  BY <1>2, <1>4, <1>9, <1>10 DEF RestOf
<1>13. PICK m \in WMessages : m = s[c + 1]
  BY <1>2, <1>12
<1>14. PICK y : y = Masked(o, "app", m.data)
  OBVIOUS
<1>15. r.op = m.op /\ l = Len(m.data) /\ r.mask = MaskOf(o) /\ At(T, 0, y)
  BY <1>4, <1>9, <1>10, <1>13, <1>14 DEF RestOf
<1>16. y \in Seq(WUnits) /\ Len(y) = l /\ m.data \in Seq(Plain)
  <2>1. m.data \in Seq(Plain)
    BY DEF WMessages
  <2> QED BY <1>14, <1>15, <2>1, DataIs
<1>17. l - Len(h) \in Nat /\ Len(h) \in Nat
  BY <1>12
<1>18. n \in 0 .. Len(w) /\ n <= l - Len(h)
  BY <1>0, <1>2, <1>17, PiecesAre
<1>19. PICK a, x \in Seq(WUnits) : Goes(h, w, u, n, a, x)
  BY <1>2, <1>18, Going
<1>20. /\ a = h \o SubSeq(w, 1, n) /\ x = SubSeq(w, n + 1, Len(w)) /\ Len(a) = Len(h) + n
       /\ a \o (x \o u) = h \o (w \o u)
  BY <1>19 DEF Goes
<1>21. PICK f : f = [r EXCEPT !.data = a]
  OBVIOUS
<1>22. f \in Readers /\ f.data = a /\ f.pc = "rest" /\ f.buf = << >> /\ f.need = l /\ f.op = r.op /\ f.mask = r.mask
       /\ f.pings = r.pings
  BY <1>2, <1>3, <1>4, <1>12, <1>21 DEF Readers
<1>23. wire' = [wire EXCEPT ![o] = x]
  BY <1>5, <1>20
<1>24. LocalOf(r, app[e], lock[e], open[e], sent[e]) /\ GotOf(g, s) /\ Len(r.buf) <= Room
  BY <1>1 DEF View, LocalOf
<1>25. CASE n = l - Len(h)
  <2>1. Deliver(e, f)
    BY <1>5, <1>20, <1>21, <1>25
  <2>2. PICK v : v = x \o u
    OBVIOUS
  <2>3. v \in Seq(WUnits) /\ a \o v = T
    <3>1. v \in Seq(WUnits)
      BY <1>2, <2>2
    <3>2. a \o v = h \o k /\ T = h \o k
      BY <1>7, <1>8, <1>20, <2>2, Zenon
    <3> QED BY <3>1, <3>2, Zenon
  <2>4. Len(a) = l
    BY <1>17, <1>20, <1>25
  <2>5. a = y
    <3>1. Len(T) = Len(a) + Len(v) /\ \A i \in 1 .. Len(a) : T[i] = a[i]
      BY <2>3, Joined
    <3>2. \A i \in 1 .. Len(y) : T[0 + i] = y[i]
      BY <1>15 DEF At
    <3>3. \A i \in 1 .. l : 0 + i = i
      OBVIOUS
    <3>4. \A i \in 1 .. l : a[i] = y[i]
      BY <1>16, <2>4, <3>1, <3>2, <3>3
    <3> QED BY <1>16, <2>4, <3>4, SeqEqual
  <2>6. Unmask(f.data, f.mask) = m.data
    BY <1>14, <1>15, <1>16, <1>22, <2>5, UnmaskIs
  <2>7. PICK z : z = << >>
    OBVIOUS
  <2>8. z \in Seq(WUnits) /\ CutTo(a, l, z)
    BY <2>4, <2>7 DEF CutTo
  <2>9. Joins(T, a, v) /\ l \in 0 .. Len(a) /\ l = l + 0 /\ c + 1 \in Nat
    BY <2>3, <2>4 DEF Joins
  <2>10. \E Z \in Seq(WUnits) : Joins(Z, z, v) /\ CutTo(T, l, Z) /\ Carried(Z, 0, c + 1, s, o)
    BY <1>2, <1>11, <2>3, <2>8, <2>9, CutIs
  <2>11. PICK Z \in Seq(WUnits) : Joins(Z, f.buf, v) /\ Carried(Z, 0, c + 1, s, o)
    BY <1>22, <2>7, <2>10
  <2>12. Joins(v, x, u) /\ f.op = s[c + 1].op /\ Unmask(f.data, f.mask) = s[c + 1].data /\ Len(f.buf) <= Room
    BY <1>12, <1>13, <1>15, <1>22, <1>24, <2>2, <2>6 DEF Joins
  <2> QED BY <1>0, <1>1, <1>3, <1>10, <1>12, <1>22, <1>23, <2>1, <2>11, <2>12, MessageDelivered
<1>26. CASE n # l - Len(h)
  <2>1. reader' = [reader EXCEPT ![e] = f] /\ got' = [got EXCEPT ![e] = g]
    <3>1. reader' = [reader EXCEPT ![e] = f] /\ UNCHANGED got
      BY <1>5, <1>20, <1>21, <1>26 DEF Set
    <3> QED BY <1>2, <3>1 DEF SocketInv, WTypes
  <2>2. Len(a) < l
    <3>1. PICK p \in Nat : p = Len(h)
      BY <1>17
    <3>2. n \in Nat /\ n < l - p
      BY <1>17, <1>18, <1>26, <3>1
    <3>3. Len(a) = p + n
      BY <1>20, <3>1
    <3> QED BY <3>2, <3>3
  <2>3. Coming(f, x, u) = Coming(r, w, u) /\ Ahead(f, x, e) = Ahead(r, w, e) /\ Begun(f, g) = Begun(r, g)
    BY <1>3, <1>4, <1>20, <1>22 DEF Coming, InHand, Ahead, Begun
  <2>4. DirOf(f, x, u, s, g, e)
    BY <1>2, <1>3, <1>4, <1>6, <1>12, <1>22, <2>2, <2>3, DirStays
  <2>5. LocalOf(f, app[e], lock[e], open[e], sent[e]) /\ GotOf(g, sent[o])
    BY <1>2, <1>3, <1>12, <1>22, <1>24 DEF LocalOf
  <2> QED BY <1>0, <1>2, <1>3, <1>22, <1>23, <2>1, <2>4, <2>5, ReadSteps
<1> QED BY <1>25, <1>26

\* What an end that writes makes of its variables, and what has to be shown of that.
WriteOf(e, q, x, a, l, on, z) ==
    /\ reader' = [reader EXCEPT ![e] = q] /\ wire' = [wire EXCEPT ![e] = x] /\ app' = [app EXCEPT ![e] = a]
    /\ lock' = [lock EXCEPT ![e] = l] /\ open' = [open EXCEPT ![e] = on] /\ sent' = [sent EXCEPT ![e] = z]
    /\ UNCHANGED got
Written(e, o, q, x, a, l, on, z) ==
    /\ q \in Readers /\ x \in Seq(WUnits) /\ a \in {"idle", "data", "join", "gone"}
    /\ l \in {"", "app", "reader"} /\ on \in BOOLEAN /\ z \in Seq(WMessages)
    /\ reader[e].pc # "idle" /\ q.pc # "idle" /\ (wire[e] # << >> => x # << >>)
    /\ (app[e] # "gone" \/ reader[e].pc \notin {"left", "done"})
    /\ LocalOf(q, a, l, on, z) /\ GotOf(got[o], z)
    /\ (q.pc \notin {"left", "done"} => DirOf(q, wire[o], Unsent(o, app[o], sent[o]), sent[o], got[e], e))
    /\ (reader[o].pc \notin {"left", "done"} => DirOf(reader[o], x, Unsent(e, a, z), z, got[o], o))

\* An end writes, or its application goes on; nothing is received.
LEMMA WriteSteps ==
    ASSUME SocketInv, NEW e \in Ends, NEW o \in Ends, o = Other(e), NEW q, NEW x, NEW a, NEW l, NEW on, NEW z,
           WriteOf(e, q, x, a, l, on, z), Written(e, o, q, x, a, l, on, z)
    PROVE  SocketInv'
<1>0. WTypes /\ Gotten(e) /\ o # e /\ Other(o) = e
  BY OtherEnds DEF SocketInv
<1>1. WTypes'
  BY <1>0 DEF WTypes, WriteOf, Written
<1>2. /\ reader'[e] = q /\ wire'[e] = x /\ wire'[o] = wire[o] /\ app'[e] = a /\ lock'[e] = l /\ open'[e] = on
      /\ sent'[e] = z /\ OthersStay(e)
  BY <1>0 DEF WTypes, OthersStay, WriteOf
<1>3. Local(e)'
  BY <1>2 DEF Local, Written
<1>4. Gotten(e)' /\ Gotten(Other(e))'
  BY <1>0, <1>2 DEF Gotten, OthersStay, WriteOf, Written
<1>5. Dir(e)'
  BY <1>0, <1>2 DEF Dir, OthersStay, WriteOf, Written
<1>6. Dir(Other(e))'
  BY <1>0, <1>2 DEF Dir, OthersStay, WriteOf, Written
<1>7. reader[e].pc # "idle" /\ reader'[e].pc # "idle" /\ (wire[e] # << >> => wire'[e] # << >>)
      /\ (app[e] # "gone" \/ reader[e].pc \notin {"left", "done"})
  BY <1>2 DEF Written
<1> QED BY <1>7, <1>1, <1>2, <1>3, <1>4, <1>5, <1>6, EndSteps

\* Who writes has sent something, or the other end has begun to read.
LEMMA AheadStays ==
    ASSUME SocketInv, NEW e \in Ends, NEW o \in Ends, o = Other(e), reader[e].pc # "idle",
           app[e] # "gone" \/ reader[e].pc \notin {"left", "done"},
           NEW x, wire[e] # << >> => x # << >>
    PROVE  Ahead(reader[o], x, o) = Ahead(reader[o], wire[e], o)
<1>1. CASE o = "client" /\ reader[o].pc = "idle"
  <2>1. e = "server"
    BY <1>1, OtherEnds DEF Ends
  <2>2. wire[e] # << >>
    <3>1. Refused
      BY DEF SocketInv
    <3>2. reader["client"].pc = "idle" /\ reader["server"].pc # "idle"
          /\ ~(reader["server"].pc \in {"left", "done"} /\ app["server"] = "gone")
      BY <1>1, <2>1
    <3>3. wire["server"] # << >>
      BY <3>1, <3>2 DEF Refused
    <3> QED BY <2>1, <3>3
  <2>3. x # << >>
    BY <2>2
  <2> QED BY <2>2, <2>3 DEF Ahead
<1>2. CASE ~(o = "client" /\ reader[o].pc = "idle")
  BY <1>2 DEF Ahead
<1> QED BY <1>1, <1>2

\* A thread that is in the same place has the same before it.
LEMMA SamePlace ==
    ASSUME NEW e, NEW r \in Readers, NEW q \in Readers, NEW w, NEW u, NEW s, NEW g, DirOf(r, w, u, s, g, e),
           q.pc = r.pc, q.buf = r.buf, q.data = r.data, q.need = r.need, q.op = r.op, q.mask = r.mask
    PROVE  DirOf(q, w, u, s, g, e)
<1>1. Coming(q, w, u) = Coming(r, w, u) /\ Ahead(q, w, e) = Ahead(r, w, e) /\ Begun(q, g) = Begun(r, g)
  BY DEF Coming, InHand, Ahead, Begun
<1> QED BY <1>1 DEF DirOf, RestOf

\* The mutex is free, or the reader's: nothing is still to be written.
LEMMA NothingUnsent ==
    ASSUME NEW o, NEW a, NEW s, a # "data"
    PROVE  Unsent(o, a, s) = << >>
BY DEF Unsent

\* Nothing behind a sequence changes nothing.
LEMMA NothingBehind ==
    ASSUME NEW U, NEW p \in Seq(U)
    PROVE  p \o << >> = p
OBVIOUS

\* What an end still has to write, and then writes, is on the way.
LEMMA DirWrites ==
    ASSUME WebsocketAssumption, NEW e \in Ends, NEW o \in Ends, o = Other(e), NEW r \in Readers,
           NEW w \in Seq(WUnits), NEW s \in Seq(WMessages), NEW g \in Seq(WMessages),
           NEW c \in {Ping, Pong}, PingPong, NEW x, Joins(x, w, Header(e, "reader", c, 0))
    PROVE  /\ x \in Seq(WUnits) /\ x # << >>
           /\ DirOf(r, w, << >>, s, g, o) /\ Ahead(r, x, o) = Ahead(r, w, o) => DirOf(r, x, << >>, s, g, o)
<1>1. PICK y \in Seq(WUnits) : y = Control(c) /\ Len(y) = 2
  BY ControlIs
<1>2. x = w \o y
  BY <1>1, ReadersHeader DEF Joins
<1>3. x \in Seq(WUnits) /\ Len(x) = Len(w) + Len(y)
  BY <1>2, Joined
<1>4. PICK m, n \in Nat : m = Len(w) /\ n = Len(s)
  OBVIOUS
<1>5. Len(x) = m + 2
  BY <1>1, <1>3, <1>4
<1>6. x # << >>
  BY <1>5
<1>7. PICK u \in Seq(WUnits) : u = << >>
  <2>1. << >> \in Seq(WUnits)
    OBVIOUS
  <2> QED BY <2>1, Zenon
<1>8. w \o u = w /\ x \o u = x
  BY <1>3, <1>7, NothingBehind
<1>9. x \o u = (w \o u) \o y
  BY <1>2, <1>8
<1>10. Len(y) > 0 /\ Len(s) <= Len(s) /\ Other(o) = e
  BY <1>1, <1>4, OtherEnds
<1>11. Writes(y, s, Other(o), Len(s), Len(s))
  BY <1>1, <1>10 DEF Writes
<1>12. DirOf(r, w, u, s, g, o) /\ Ahead(r, x, o) = Ahead(r, w, o) => DirOf(r, x, u, s, g, o)
  BY <1>3, <1>9, <1>10, <1>11, DirAdds
<1> QED BY <1>3, <1>6, <1>7, <1>12

\* A ping, or the header of a pong, is written.
LEMMA ReaderWrites ==
    ASSUME WebsocketAssumption, SocketInv, NEW e \in Ends, NEW o \in Ends, o = Other(e), NEW c \in {Ping, Pong},
           NEW q \in Readers, NEW l \in {"", "app", "reader"}, reader[e].pc \in {"ping", "pong"}, q.pc \in {"loop", "pongData"},
           q.buf = reader[e].buf, lock[e] = "",
           NEW x, Joins(x, wire[e], Header(e, "reader", c, 0)),
           reader' = [reader EXCEPT ![e] = q], wire' = [wire EXCEPT ![e] = x],
           lock' = [lock EXCEPT ![e] = l], UNCHANGED <<open, app, sent, got>>,
           LocalOf(q, app[e], l, open[e], sent[e])
    PROVE  SocketInv'
<1>1. WTypes /\ Other(o) = e /\ LocalOf(reader[e], app[e], lock[e], open[e], sent[e])
  BY OtherEnds DEF SocketInv, Local
<1>2. PICK r, w, u, s, g : View(o, e, r, w, u, s, g)
  BY <1>1, ViewIs
<1>3. /\ r \in Readers /\ w \in Seq(WUnits) /\ u \in Seq(WUnits) /\ s \in Seq(WMessages) /\ g \in Seq(WMessages)
      /\ r = reader[o] /\ w = wire[e] /\ s = sent[e] /\ g = got[o] /\ u = Unsent(e, app[e], sent[e])
      /\ (r.pc \notin {"left", "done"} => DirOf(r, w, u, s, g, o)) /\ GotOf(g, s)
  BY <1>2 DEF View
<1>4. app[e] # "data" /\ PingPong
  BY <1>1 DEF LocalOf
<1>5. u = << >>
  BY <1>3, <1>4, NothingUnsent
<1>6. Joins(x, w, Header(e, "reader", c, 0))
  BY <1>3
<1>7. /\ x \in Seq(WUnits) /\ x # << >>
      /\ DirOf(r, w, << >>, s, g, o) /\ Ahead(r, x, o) = Ahead(r, w, o) => DirOf(r, x, << >>, s, g, o)
  BY <1>3, <1>4, <1>6, DirWrites
<1>8. Ahead(r, x, o) = Ahead(r, w, o)
  BY <1>3, <1>7, AheadStays
<1>13. r.pc \notin {"left", "done"} => DirOf(r, x, u, s, g, o)
  BY <1>3, <1>5, <1>7, <1>8
<1>14. q.pc \notin {"left", "done"} => DirOf(q, wire[o], Unsent(o, app[o], sent[o]), sent[o], got[e], e)
  <2>1. PICK v, t, h, k : v = wire[o] /\ t = Unsent(o, app[o], sent[o]) /\ h = got[e] /\ k = reader[e]
    BY <1>1 DEF WTypes
  <2>r. k \in Readers /\ k.pc \in {"ping", "pong"}
    BY <1>1, <2>1 DEF WTypes
  <2>2. DirOf(k, v, t, sent[o], h, e)
    BY <2>1, <2>r DEF SocketInv, Dir
  <2>3. Coming(q, v, t) = Coming(k, v, t) /\ Ahead(q, v, e) = Ahead(k, v, e) /\ Begun(q, h) = Begun(k, h)
    BY <2>1, <2>r DEF Coming, InHand, Ahead, Begun
  <2>4. DirOf(q, v, t, sent[o], h, e)
    BY <2>2, <2>3, <2>r, DirStays
  <2> QED BY <2>1, <2>4
<1>15. WriteOf(e, q, x, app[e], l, open[e], s)
  BY <1>1, <1>3 DEF WTypes, WriteOf
<1>16. app[e] \in {"idle", "data", "join", "gone"} /\ open[e] \in BOOLEAN
  BY <1>1 DEF WTypes
<1>17. Written(e, o, q, x, app[e], l, open[e], s)
  BY <1>3, <1>7, <1>13, <1>14, <1>16 DEF Written
<1> QED BY <1>15, <1>17, WriteSteps

\* What is on the way from e, and to it.
LEMMA BothWays ==
    ASSUME SocketInv, NEW e \in Ends, NEW o \in Ends, o = Other(e)
    PROVE  /\ WTypes /\ LocalOf(reader[e], app[e], lock[e], open[e], sent[e]) /\ GotOf(got[o], sent[e])
           /\ (reader[e].pc \notin {"left", "done"} =>
                 DirOf(reader[e], wire[o], Unsent(o, app[o], sent[o]), sent[o], got[e], e))
           /\ (reader[o].pc \notin {"left", "done"} =>
                 DirOf(reader[o], wire[e], Unsent(e, app[e], sent[e]), sent[e], got[o], o))
<1>1. Other(o) = e
  BY OtherEnds
<1>2. WTypes /\ Local(e) /\ Gotten(o) /\ Dir(e) /\ Dir(o)
  BY DEF SocketInv
<1> QED BY <1>1, <1>2 DEF Local, Gotten, Dir

\* No write was cut.
Quiet == torn = [e \in Ends |-> 0]

\* A write that fails and is not cut leaves nothing on the way.
LEMMA NotCut ==
    ASSUME SocketInv, Quiet, Quiet', NEW e \in Ends, NEW who, NEW units, NEW n, SendFails(e, who, units, n),
           who = "app" /\ lock[e] = who => sent[e] # << >>
    PROVE  /\ UNCHANGED wire /\ lock[e] \in {"", who} /\ lock' = [lock EXCEPT ![e] = ""]
           /\ open[Other(e)] => lock[e] # who
<1>1. PICK c \in Nat : c = Len(sent[e]) /\ (c = 0 => sent[e] = << >>)
  <2>1. sent[e] \in Seq(WMessages)
    BY DEF SocketInv, WTypes
  <2>2. Len(sent[e]) \in Nat /\ (Len(sent[e]) = 0 => sent[e] = << >>)
    BY <2>1
  <2> QED BY <2>2
<1>2. ASSUME open[Other(e)], n > 0 \/ lock[e] = who PROVE FALSE
  <2>1. torn' = [torn EXCEPT ![e] = IF who = "app" /\ lock[e] = who THEN c ELSE c + 1]
    BY <1>1, <1>2 DEF SendFails
  <2>2. torn'[e] = IF who = "app" /\ lock[e] = who THEN c ELSE c + 1
    BY <2>1 DEF Quiet
  <2>3. torn'[e] = 0
    BY DEF Quiet
  <2>4. c # 0 \/ ~(who = "app" /\ lock[e] = who)
    BY <1>1
  <2> QED BY <1>1, <2>2, <2>3, <2>4
<1>3. UNCHANGED wire
  BY <1>2 DEF SendFails
<1> QED BY <1>2, <1>3 DEF SendFails

\* A ping or a pong cannot be written.
LEMMA ReaderGivesUp ==
    ASSUME SocketInv, NEW e \in Ends, reader[e].pc \in {"ping", "pong"}, lock[e] \in {"", "reader"},
           Set(e, [reader[e] EXCEPT !.pc = "left"]), lock' = [lock EXCEPT ![e] = ""],
           UNCHANGED <<wire, open, app, sent, got>>
    PROVE  SocketInv'
<1>0. PICK o \in Ends : o = Other(e)
  BY OtherEnds
<1>1. /\ WTypes /\ LocalOf(reader[e], app[e], lock[e], open[e], sent[e]) /\ GotOf(got[o], sent[e])
      /\ (reader[o].pc \notin {"left", "done"} =>
            DirOf(reader[o], wire[e], Unsent(e, app[e], sent[e]), sent[e], got[o], o))
  BY <1>0, BothWays
<1>2. PICK r : r = reader[e]
  OBVIOUS
<1>3. PICK q : q = [r EXCEPT !.pc = "left"]
  OBVIOUS
<1>4. r \in Readers /\ q \in Readers /\ q.pc = "left" /\ q.buf = r.buf /\ q.pings = r.pings
  BY <1>1, <1>2, <1>3 DEF WTypes, Readers, ReaderPlaces
<1>5. WriteOf(e, q, wire[e], app[e], "", open[e], sent[e])
  BY <1>1, <1>2, <1>3 DEF WTypes, WriteOf, Set
<1>6. LocalOf(q, app[e], "", open[e], sent[e])
  <2>1. open[e]
    BY <1>1, <1>2 DEF LocalOf
  <2> QED BY <1>1, <1>2, <1>4, <2>1 DEF LocalOf
<1>7. Written(e, o, q, wire[e], app[e], "", open[e], sent[e])
  BY <1>1, <1>2, <1>4, <1>6 DEF Written, WTypes
<1> QED BY <1>0, <1>5, <1>7, WriteSteps

\* mg_websocket_write of a ping.
LEMMA SendPingStep ==
    ASSUME WebsocketAssumption, SocketInv, Quiet, Quiet', NEW e \in Ends, SendPing(e)
    PROVE  SocketInv'
<1>0. PICK o \in Ends : o = Other(e)
  BY OtherEnds
<1>1. WTypes /\ LocalOf(reader[e], app[e], lock[e], open[e], sent[e])
  BY <1>0, BothWays
<1>2. PICK r : r = reader[e]
  OBVIOUS
<1>3. r \in Readers /\ r.pc = "ping" /\ UNCHANGED <<open, app, sent, got>>
  BY <1>1, <1>2 DEF WTypes, SendPing
<1>4. ASSUME NEW n, SendFails(e, "reader", Header(e, "reader", Ping, 0), n), Set(e, [r EXCEPT !.pc = "left"])
      PROVE  SocketInv'
  <2>1. UNCHANGED wire /\ lock[e] \in {"", "reader"} /\ lock' = [lock EXCEPT ![e] = ""]
    BY <1>4, NotCut
  <2> QED BY <1>2, <1>3, <1>4, <2>1, ReaderGivesUp
<1>5. CASE /\ MayLock(e) /\ wire' = [wire EXCEPT ![e] = @ \o Header(e, "reader", Ping, 0)]
           /\ Set(e, [r EXCEPT !.pc = "loop", !.pings = @ + 1]) /\ UNCHANGED <<lock, torn>>
  <2>1. PICK n \in Nat : n = r.pings
    BY <1>3 DEF Readers
  <2>a. PICK i \in Nat : i = n + 1
    OBVIOUS
  <2>2. PICK q : q = [r EXCEPT !.pc = "loop", !.pings = i]
    OBVIOUS
  <2>3. q \in Readers /\ q.pc = "loop" /\ q.pings = i /\ q.buf = r.buf
    BY <1>3, <2>2 DEF Readers, ReaderPlaces
  <2>4. PICK x : Joins(x, wire[e], Header(e, "reader", Ping, 0))
    BY DEF Joins
  <2>5. /\ reader' = [reader EXCEPT ![e] = q] /\ wire' = [wire EXCEPT ![e] = x] /\ lock[e] = ""
        /\ lock' = [lock EXCEPT ![e] = ""]
    BY <1>1, <1>2, <1>5, <2>1, <2>a, <2>2, <2>4 DEF Joins, Set, MayLock, WTypes
  <2>6. LocalOf(q, app[e], "", open[e], sent[e])
    <3>1. n <= MaxPing /\ i <= MaxPing + 1
      <4>1. MaxPing \in Nat
        BY DEF WebsocketAssumption
      <4>2. n <= MaxPing
        BY <1>1, <1>2, <1>3, <2>1 DEF LocalOf
      <4> QED BY <2>a, <4>1, <4>2
    <3> QED BY <1>1, <1>2, <1>3, <2>3, <2>5, <3>1 DEF LocalOf
  <2>7. Ping \in {Ping, Pong}
    OBVIOUS
  <2> QED BY <1>0, <1>2, <1>3, <2>3, <2>4, <2>5, <2>6, <2>7, ReaderWrites
<1> QED BY <1>2, <1>4, <1>5 DEF SendPing

\* mg_websocket_write of a pong.
LEMMA SendPongStep ==
    ASSUME WebsocketAssumption, SocketInv, Quiet, Quiet', NEW e \in Ends, SendPong(e)
    PROVE  SocketInv'
<1>0. PICK o \in Ends : o = Other(e)
  BY OtherEnds
<1>1. /\ WTypes /\ LocalOf(reader[e], app[e], lock[e], open[e], sent[e]) /\ GotOf(got[o], sent[e])
      /\ (reader[e].pc \notin {"left", "done"} =>
            DirOf(reader[e], wire[o], Unsent(o, app[o], sent[o]), sent[o], got[e], e))
      /\ (reader[o].pc \notin {"left", "done"} =>
            DirOf(reader[o], wire[e], Unsent(e, app[e], sent[e]), sent[e], got[o], o))
  BY <1>0, BothWays
<1>2. PICK r : r = reader[e]
  OBVIOUS
<1>3. r \in Readers /\ UNCHANGED <<open, app, sent, got>>
  BY <1>1, <1>2 DEF WTypes, SendPong
<1>4. ASSUME NEW n, r.pc = "pong", SendFails(e, "reader", Header(e, "reader", Pong, Len(r.data)), n),
             Set(e, [r EXCEPT !.pc = "left"])
      PROVE  SocketInv'
  <2>1. UNCHANGED wire /\ lock[e] \in {"", "reader"} /\ lock' = [lock EXCEPT ![e] = ""]
    BY <1>4, NotCut
  <2> QED BY <1>2, <1>3, <1>4, <2>1, ReaderGivesUp
<1>7. ASSUME r.pc = "pongData", NEW n \in 0 .. Len(r.data) - 1
      PROVE  FALSE
  <2>1. r.data = << >>
    BY <1>1, <1>2, <1>7 DEF LocalOf
  <2> QED BY <1>7, <2>1
<1>5. CASE r.pc = "pong" /\ SendHeader(e, "reader", Pong, Len(r.data)) /\ Set(e, [r EXCEPT !.pc = "pongData"])
  <2>1. Len(r.data) = 0
    BY <1>1, <1>2, <1>5 DEF LocalOf
  <2>2. PICK q : q = [r EXCEPT !.pc = "pongData"]
    OBVIOUS
  <2>3. q \in Readers /\ q.pc = "pongData" /\ q.pings = r.pings /\ q.buf = r.buf /\ q.data = r.data
    BY <1>3, <2>2 DEF Readers, ReaderPlaces
  <2>4. PICK x : Joins(x, wire[e], Header(e, "reader", Pong, 0))
    BY DEF Joins
  <2>5. /\ reader' = [reader EXCEPT ![e] = q] /\ wire' = [wire EXCEPT ![e] = x] /\ lock[e] = ""
        /\ lock' = [lock EXCEPT ![e] = "reader"]
    BY <1>2, <1>5, <2>1, <2>2, <2>4 DEF Joins, Set, MayLock, SendHeader
  <2>6. LocalOf(q, app[e], "reader", open[e], sent[e])
    BY <1>1, <1>2, <1>5, <2>3, <2>5 DEF LocalOf
  <2>7. Pong \in {Ping, Pong}
    OBVIOUS
  <2> QED BY <1>0, <1>2, <1>3, <1>5, <2>3, <2>4, <2>5, <2>6, <2>7, ReaderWrites
<1>6. CASE r.pc = "pongData" /\ SendData(e, "reader", r.data) /\ Set(e, [r EXCEPT !.pc = "loop", !.data = << >>])
  <2>1. r.data = << >> /\ lock[e] = "reader" /\ app[e] # "data"
    BY <1>1, <1>2, <1>6 DEF LocalOf
  <2>2. PICK q : q = [r EXCEPT !.pc = "loop", !.data = << >>]
    OBVIOUS
  <2>3. q \in Readers /\ q.pc = "loop" /\ q.pings = r.pings /\ q.buf = r.buf
    <3>1. << >> \in Seq(WUnits) /\ "loop" \in ReaderPlaces
      BY DEF ReaderPlaces
    <3> QED BY <1>3, <2>2, <3>1 DEF Readers
  <2>4. WriteOf(e, q, wire[e], app[e], "", open[e], sent[e])
    <3>1. Masked(e, "reader", << >>) = << >>
      <4>1. Ping \in {Ping, Pong}
        OBVIOUS
      <4> QED BY <4>1, ReadersHeader
    <3>2. wire[e] \in Seq(WUnits)
      BY <1>1 DEF WTypes
    <3>3. wire[e] \o << >> = wire[e]
      BY <3>2, NothingBehind
    <3>4. wire' = [wire EXCEPT ![e] = wire[e]] /\ lock' = [lock EXCEPT ![e] = ""]
      BY <1>6, <2>1, <3>1, <3>3 DEF SendData
    <3> QED BY <1>1, <1>2, <1>3, <1>6, <2>2, <3>4 DEF WTypes, WriteOf, Set
  <2>5. LocalOf(q, app[e], "", open[e], sent[e])
    BY <1>1, <1>2, <1>6, <2>1, <2>3 DEF LocalOf
  <2>6. DirOf(q, wire[o], Unsent(o, app[o], sent[o]), sent[o], got[e], e)
    <3>1. PICK v, t, h : v = wire[o] /\ t = Unsent(o, app[o], sent[o]) /\ h = got[e]
      OBVIOUS
    <3>2. DirOf(r, v, t, sent[o], h, e)
      BY <1>1, <1>2, <1>6, <3>1
    <3>3. Coming(q, v, t) = Coming(r, v, t) /\ Ahead(q, v, e) = Ahead(r, v, e) /\ Begun(q, h) = Begun(r, h)
      BY <1>6, <2>3 DEF Coming, InHand, Ahead, Begun
    <3>4. DirOf(q, v, t, sent[o], h, e)
      BY <1>3, <2>3, <3>2, <3>3, DirStays
    <3> QED BY <3>1, <3>4
  <2>7. Written(e, o, q, wire[e], app[e], "", open[e], sent[e])
    BY <1>1, <1>2, <1>6, <2>3, <2>5, <2>6 DEF Written, WTypes
  <2> QED BY <1>0, <2>4, <2>7, WriteSteps
<1> QED BY <1>2, <1>4, <1>5, <1>6, <1>7 DEF SendPong

\* The data an application sends is a message's.
LEMMA DataFits ==
    ASSUME NEW id \in Nat, NEW n \in Nat
    PROVE  Data(id, n) \in Seq(Plain) /\ Len(Data(id, n)) = n
<1>1. ASSUME NEW i \in 1 .. n PROVE Unit("data", 10 * id + i, 0) \in Plain
  <2>1. PICK v \in Nat : v = 10 * id + i
    OBVIOUS
  <2>2. Unit("data", v, 0) \in WUnits /\ Unit("data", v, 0).x = 0
    BY UnitFits DEF UnitNames, Unit
  <2> QED BY <2>1, <2>2 DEF Plain
<1> QED BY <1>1 DEF Data

\* The length of a message that is sent has digits enough.
LEMMA MessageFits ==
    ASSUME WebsocketAssumption, NEW e \in Ends, NEW id \in Nat, id \in 1 .. Len(Sends[e])
    PROVE  \E op, n \in Nat :
             /\ op = Sends[e][id].op /\ n = Sends[e][id].n
             /\ [op |-> op, data |-> Data(id, n)] \in WMessages /\ Len(Data(id, n)) = n
             /\ Fits([op |-> op, data |-> Data(id, n)])
<1>1. Sends[e] \in Seq([op : Nat, n : Nat])
  BY DEF WebsocketAssumption
<1>2. Sends[e][id] \in [op : Nat, n : Nat] /\ id \in DOMAIN Sends[e]
  <2>1. PICK M : M = [op : Nat, n : Nat]
    OBVIOUS
  <2>2. Sends[e] \in Seq(M)
    BY <1>1, <2>1
  <2>3. Sends[e][id] \in M /\ id \in DOMAIN Sends[e]
    BY <2>2
  <2> QED BY <2>1, <2>3
<1>3. PICK op, n \in Nat : op = Sends[e][id].op /\ n = Sends[e][id].n
  BY <1>2
<1>4. Shifts(n)[8] = 0 /\ (PingPong => op \notin {Ping, Pong})
  BY <1>2, <1>3 DEF WebsocketAssumption
<1>5. PICK d \in Seq(Plain) : d = Data(id, n) /\ Len(d) = n
  BY DataFits
<1>6. [op |-> op, data |-> d] \in WMessages
  BY DEF WMessages
<1>7. Fits([op |-> op, data |-> d])
  BY <1>4, <1>5 DEF Fits
<1> QED BY <1>3, <1>5, <1>6, <1>7

Adds(z, s, m) == z = Append(s, m)

\* One message more.
LEMMA OneMore ==
    ASSUME NEW U, NEW s \in Seq(U), NEW m \in U, NEW z, Adds(z, s, m)
    PROVE  z \in Seq(U) /\ Len(z) = Len(s) + 1 /\ z[Len(s) + 1] = m /\ \A i \in 1 .. Len(s) : z[i] = s[i]
BY DEF Adds

\* The header is written, and the data is still to be.
LEMMA HeaderWrites ==
    ASSUME WebsocketAssumption, NEW e \in Ends, NEW o \in Ends, o = Other(e), NEW r \in Readers,
           NEW w \in Seq(WUnits), NEW s \in Seq(WMessages), NEW g \in Seq(WMessages),
           NEW m \in WMessages, NEW z, Adds(z, s, m),
           NEW x, Joins(x, w, Header(e, "app", m.op, Len(m.data)))
    PROVE  /\ x \in Seq(WUnits) /\ x # << >>
           /\ DirOf(r, w, << >>, s, g, o) /\ Ahead(r, x, o) = Ahead(r, w, o)
                => DirOf(r, x, Unsent(e, "data", z), z, g, o)
<1>1. PICK h, d, y : h = Header(e, "app", m.op, Len(m.data)) /\ d = Masked(e, "app", m.data) /\ y = Bytes(e, m)
  OBVIOUS
<1>2. /\ h \in Seq(WUnits) /\ d \in Seq(WUnits) /\ y \in Seq(WUnits) /\ Len(h) \in Nat \ {0}
      /\ Len(y) = Len(h) + Len(d)
  BY <1>1, BytesAre
<1>3. x = w \o h /\ y = h \o d
  BY <1>1 DEF Joins, Bytes
<1>4. x \in Seq(WUnits) /\ Len(x) = Len(w) + Len(h)
  BY <1>2, <1>3, Joined
<1>5. PICK c, n \in Nat : c = Len(w) /\ n = Len(s)
  OBVIOUS
<1>6. x # << >>
  BY <1>2, <1>4, <1>5
<1>7. PICK u \in Seq(WUnits) : u = << >>
  <2>1. << >> \in Seq(WUnits)
    OBVIOUS
  <2> QED BY <2>1, Zenon
<1>8. w \o u = w
  BY <1>7, NothingBehind
<1>9. x \o d = (w \o u) \o y
  <2>1. w \o (h \o d) = (w \o h) \o d
    BY <1>2, Regrouped
  <2> QED BY <1>3, <1>8, <2>1, Zenon
<1>z. z \in Seq(WMessages)
  BY OneMore
<1>10. Len(z) = n + 1 /\ z[n + 1] = m /\ \A i \in 1 .. n : z[i] = s[i]
  BY <1>5, OneMore
<1>11. Writes(y, z, Other(o), Len(s), Len(z))
  <2>1. Other(o) = e
    BY OtherEnds
  <2>2. n < Len(z)
    BY <1>10
  <2> QED BY <1>1, <1>5, <1>10, <2>1, <2>2 DEF Writes
<1>12. Unsent(e, "data", z) = d
  BY <1>1, <1>10 DEF Unsent
<1>13. Len(y) > 0 /\ Len(s) <= Len(z) /\ \A i \in 1 .. Len(s) : z[i] = s[i]
  <2>1. PICK p, k \in Nat : p = Len(h) /\ k = Len(d)
    BY <1>2
  <2>2. Len(y) > 0
    BY <1>2, <2>1
  <2> QED BY <1>5, <1>10, <2>2
<1>14. DirOf(r, w, u, s, g, o) /\ Ahead(r, x, o) = Ahead(r, w, o) => DirOf(r, x, d, z, g, o)
  BY <1>2, <1>4, <1>9, <1>11, <1>13, <1>z, DirAdds
<1> QED BY <1>4, <1>6, <1>7, <1>12, <1>14

\* The data is written.
LEMMA DataWrites ==
    ASSUME NEW o, NEW r \in Readers, NEW w \in Seq(WUnits), NEW u \in Seq(WUnits), NEW s, NEW g, NEW x, Joins(x, w, u)
    PROVE  /\ x \in Seq(WUnits) /\ (w # << >> => x # << >>)
           /\ DirOf(r, w, u, s, g, o) /\ Ahead(r, x, o) = Ahead(r, w, o) => DirOf(r, x, << >>, s, g, o)
<1>1. x \in Seq(WUnits) /\ Len(x) = Len(w) + Len(u)
  BY Joined DEF Joins
<1>2. PICK m, n, k \in Nat : m = Len(w) /\ n = Len(u) /\ k = Len(x)
  BY <1>1
<1>3. w # << >> => x # << >>
  <2>1. w # << >> => m # 0
    BY <1>2
  <2>2. k = m + n
    BY <1>1, <1>2
  <2>3. m # 0 => k # 0
    BY <2>2
  <2> QED BY <1>2, <2>1, <2>3
<1>4. x \o << >> = x
  BY <1>1, NothingBehind
<1>5. Coming(r, x, << >>) = Coming(r, w, u)
  BY <1>4 DEF Coming, Joins
<1>6. Begun(r, g) = Begun(r, g)
  OBVIOUS
<1> QED BY <1>1, <1>3, <1>5 DEF DirOf

\* What has its value stays the same.
LEMMA SameAt ==
    ASSUME NEW S, NEW T, NEW f \in [S -> T], NEW x
    PROVE  [f EXCEPT ![x] = f[x]] = f
OBVIOUS

\* The application writes the header of a message,
LEMMA AppHeader ==
    ASSUME WebsocketAssumption, SocketInv, NEW e \in Ends, app[e] = "idle", Connected(e), open[e],
           NEW id \in Nat, id = Len(sent[e]) + 1, id <= Len(Sends[e]),
           SendHeader(e, "app", Sends[e][id].op, Sends[e][id].n), app' = [app EXCEPT ![e] = "data"],
           sent' = [sent EXCEPT ![e] = Append(@, [op |-> Sends[e][id].op, data |-> Data(id, Sends[e][id].n)])],
           UNCHANGED <<open, reader, got>>
    PROVE  SocketInv'
<1>0. PICK o \in Ends : o = Other(e) /\ Other(o) = e
  BY OtherEnds
<1>1. /\ WTypes /\ LocalOf(reader[e], app[e], lock[e], open[e], sent[e]) /\ GotOf(got[o], sent[e])
      /\ (reader[e].pc \notin {"left", "done"} =>
            DirOf(reader[e], wire[o], Unsent(o, app[o], sent[o]), sent[o], got[e], e))
      /\ (reader[o].pc \notin {"left", "done"} =>
            DirOf(reader[o], wire[e], Unsent(e, app[e], sent[e]), sent[e], got[o], o))
  BY <1>0, BothWays
<1>2. PICK q \in Readers, r \in Readers, w \in Seq(WUnits), s \in Seq(WMessages), g \in Seq(WMessages) :
        q = reader[e] /\ r = reader[o] /\ w = wire[e] /\ s = sent[e] /\ g = got[o]
  BY <1>1 DEF WTypes
<1>3. id = Len(s) + 1
  BY <1>2
<1>4. /\ q.pc # "idle" /\ open[e] /\ id <= Len(Sends[e]) /\ lock[e] = "" /\ UNCHANGED <<open, reader, got>>
      /\ wire' = [wire EXCEPT ![e] = w \o Header(e, "app", Sends[e][id].op, Sends[e][id].n)]
      /\ lock' = [lock EXCEPT ![e] = "app"] /\ app' = [app EXCEPT ![e] = "data"]
      /\ sent' = [sent EXCEPT ![e] = Append(s, [op |-> Sends[e][id].op, data |-> Data(id, Sends[e][id].n)])]
  BY <1>2, <1>3 DEF Connected, SendHeader, MayLock
<1>5. PICK op, n \in Nat :
        /\ op = Sends[e][id].op /\ n = Sends[e][id].n
        /\ [op |-> op, data |-> Data(id, n)] \in WMessages /\ Len(Data(id, n)) = n
        /\ Fits([op |-> op, data |-> Data(id, n)])
  <2>1. Sends[e] \in Seq([op : Nat, n : Nat])
    BY DEF WebsocketAssumption
  <2>2. id \in 1 .. Len(Sends[e])
    <3>1. PICK k, l \in Nat : k = Len(s) /\ l = Len(Sends[e])
      BY <1>2, <2>1
    <3>2. id = k + 1 /\ id <= l
      BY <1>3, <1>4, <3>1
    <3> QED BY <3>1, <3>2
  <2> QED BY <2>2, MessageFits
<1>6. PICK m \in WMessages : m = [op |-> op, data |-> Data(id, n)]
  BY <1>5
<1>7. m.op = op /\ Len(m.data) = n /\ Fits(m)
  BY <1>5, <1>6
<1>8. PICK z : Adds(z, s, m)
  BY DEF Adds
<1>9. z \in Seq(WMessages) /\ Len(z) = Len(s) + 1 /\ z[Len(s) + 1] = m /\ \A i \in 1 .. Len(s) : z[i] = s[i]
  <2>1. s \in Seq(WMessages) /\ m \in WMessages
    BY <1>2, <1>6
  <2> QED BY <1>8, <2>1, OneMore, SMTT(30)
<1>10. PICK x : Joins(x, w, Header(e, "app", m.op, Len(m.data)))
  BY DEF Joins
<1>11. /\ x \in Seq(WUnits) /\ x # << >>
       /\ DirOf(r, w, << >>, s, g, o) /\ Ahead(r, x, o) = Ahead(r, w, o)
            => DirOf(r, x, Unsent(e, "data", z), z, g, o)
  BY <1>0, <1>8, <1>9, <1>10, HeaderWrites
<1>12. Ahead(r, x, o) = Ahead(r, w, o)
  BY <1>0, <1>2, <1>4, <1>11, AheadStays, ZenonT(60)
<1>13. reader[o].pc \notin {"left", "done"} => DirOf(reader[o], x, Unsent(e, "data", z), z, got[o], o)
  <2>1. Unsent(e, app[e], s) = << >>
    BY DEF Unsent
  <2> QED BY <1>1, <1>2, <1>11, <1>12, <2>1
<1>14. WriteOf(e, q, x, "data", "app", open[e], z)
  <2>1. wire' = [wire EXCEPT ![e] = x]
    BY <1>4, <1>5, <1>7, <1>10 DEF Joins
  <2>2. sent' = [sent EXCEPT ![e] = z]
    <3>1. [op |-> Sends[e][id].op, data |-> Data(id, Sends[e][id].n)] = m
      BY <1>5, <1>6
    <3> QED BY <1>4, <1>8, <3>1 DEF Adds
  <2>3. reader' = [reader EXCEPT ![e] = q] /\ open' = [open EXCEPT ![e] = open[e]]
    <3>1. reader \in [Ends -> Readers] /\ open \in [Ends -> BOOLEAN]
      BY <1>1 DEF WTypes
    <3>2. reader' = reader /\ open' = open
      BY <1>4
    <3> QED BY <1>2, <3>1, <3>2, SameAt
  <2> QED BY <1>4, <2>1, <2>2, <2>3 DEF WriteOf
<1>15. LocalOf(q, "data", "app", open[e], z)
  <2>1. LocalOf(q, "idle", "", open[e], s)
    BY <1>1, <1>2, <1>4
  <2>2. z # << >> /\ \A i \in 1 .. Len(z) : Fits(z[i])
    <3>1. PICK k \in Nat : k = Len(s)
      OBVIOUS
    <3>2. \A i \in 1 .. k : Fits(s[i])
      BY <2>1, <3>1 DEF LocalOf
    <3>3. Len(z) = k + 1 /\ z[k + 1] = m /\ \A i \in 1 .. k : z[i] = s[i]
      BY <1>9, <3>1
    <3>4. \A i \in 1 .. Len(z) : Fits(z[i])
      BY <1>7, <3>2, <3>3
    <3>5. z # << >>
      BY <3>3
    <3> QED BY <3>4, <3>5
  <2> QED BY <1>4, <2>1, <2>2 DEF LocalOf
<1>16. GotOf(g, z)
  <2>1. GotOf(g, s)
    BY <1>1, <1>2
  <2>2. PICK j, k \in Nat : j = Len(g) /\ k = Len(s)
    OBVIOUS
  <2>3. j <= k /\ j <= Len(z) /\ \A i \in 1 .. j : i \in 1 .. k
    BY <1>9, <2>1, <2>2 DEF GotOf
  <2> QED BY <1>9, <2>1, <2>2, <2>3 DEF GotOf
<1>17. open[e] \in BOOLEAN
  BY <1>1 DEF WTypes
<1>18. Written(e, o, q, x, "data", "app", open[e], z)
  BY <1>1, <1>2, <1>4, <1>9, <1>11, <1>13, <1>15, <1>16, <1>17 DEF Written
<1> QED BY <1>0, <1>14, <1>18, WriteSteps

\* and its data.
LEMMA AppData ==
    ASSUME SocketInv, NEW e \in Ends, app[e] = "data", SendData(e, "app", Last(sent[e]).data),
           app' = [app EXCEPT ![e] = "idle"], UNCHANGED <<open, reader, sent, got>>
    PROVE  SocketInv'
<1>0. PICK o \in Ends : o = Other(e) /\ Other(o) = e
  BY OtherEnds
<1>1. /\ WTypes /\ LocalOf(reader[e], app[e], lock[e], open[e], sent[e]) /\ GotOf(got[o], sent[e])
      /\ (reader[e].pc \notin {"left", "done"} =>
            DirOf(reader[e], wire[o], Unsent(o, app[o], sent[o]), sent[o], got[e], e))
      /\ (reader[o].pc \notin {"left", "done"} =>
            DirOf(reader[o], wire[e], Unsent(e, app[e], sent[e]), sent[e], got[o], o))
  BY <1>0, BothWays
<1>2. PICK q \in Readers, r \in Readers, w \in Seq(WUnits), s \in Seq(WMessages), g \in Seq(WMessages), on \in BOOLEAN :
        q = reader[e] /\ r = reader[o] /\ w = wire[e] /\ s = sent[e] /\ g = got[o] /\ on = open[e]
  BY <1>1 DEF WTypes
<1>3. LocalOf(q, "data", lock[e], on, s) /\ s # << >> /\ q.pc # "idle" /\ lock[e] = "app"
  BY <1>1, <1>2 DEF LocalOf
<1>5. /\ reader' = [reader EXCEPT ![e] = q] /\ open' = [open EXCEPT ![e] = on] /\ sent' = [sent EXCEPT ![e] = s]
      /\ UNCHANGED got
  BY <1>1, <1>2 DEF WTypes
<1>6. PICK u \in Seq(WUnits) : u = Unsent(e, "data", s)
  BY <1>3, UnsentIs
<1>7. PICK x : Joins(x, w, u)
  BY DEF Joins
<1>8. /\ x \in Seq(WUnits) /\ (w # << >> => x # << >>)
      /\ DirOf(r, w, u, s, g, o) /\ Ahead(r, x, o) = Ahead(r, w, o) => DirOf(r, x, << >>, s, g, o)
  BY <1>7, DataWrites
<1>9. Ahead(r, x, o) = Ahead(r, w, o)
  BY <1>0, <1>2, <1>3, <1>8, AheadStays
<1>10. reader[o].pc \notin {"left", "done"} => DirOf(reader[o], x, Unsent(e, "idle", s), s, got[o], o)
  <2>1. Unsent(e, "idle", s) = << >>
    BY DEF Unsent
  <2>2. reader[o].pc \notin {"left", "done"} => DirOf(r, w, u, s, g, o)
    BY <1>1, <1>2, <1>6
  <2> QED BY <1>2, <1>8, <1>9, <2>1, <2>2
<1>11. WriteOf(e, q, x, "idle", "", on, s)
  <2>1. wire' = [wire EXCEPT ![e] = x] /\ lock' = [lock EXCEPT ![e] = ""]
    BY <1>2, <1>6, <1>7 DEF SendData, Last, Unsent, Joins
  <2> QED BY <1>5, <2>1 DEF WriteOf
<1>12. LocalOf(q, "idle", "", on, s)
  BY <1>3 DEF LocalOf
<1>13. Written(e, o, q, x, "idle", "", on, s)
  BY <1>1, <1>2, <1>3, <1>8, <1>10, <1>12 DEF Written
<1> QED BY <1>0, <1>11, <1>13, WriteSteps

\* A message cannot be written: the application gives up, or goes on.
LEMMA AppStops ==
    ASSUME SocketInv, NEW e \in Ends, app[e] \in {"idle", "data"}, reader[e].pc # "idle", lock[e] \in {"", "app"},
           app[e] = "data" => ~open[Other(e)], NEW a \in {"idle", "gone"}, app' = [app EXCEPT ![e] = a],
           lock' = [lock EXCEPT ![e] = ""], UNCHANGED <<wire, open, reader, sent, got>>
    PROVE  SocketInv'
<1>0. PICK o \in Ends : o = Other(e) /\ Other(o) = e
  BY OtherEnds
<1>1. /\ WTypes /\ LocalOf(reader[e], app[e], lock[e], open[e], sent[e]) /\ GotOf(got[o], sent[e])
      /\ (reader[e].pc \notin {"left", "done"} =>
            DirOf(reader[e], wire[o], Unsent(o, app[o], sent[o]), sent[o], got[e], e))
      /\ (reader[o].pc \notin {"left", "done"} =>
            DirOf(reader[o], wire[e], Unsent(e, app[e], sent[e]), sent[e], got[o], o))
  BY <1>0, BothWays
<1>2. PICK q \in Readers, w \in Seq(WUnits), s \in Seq(WMessages), on \in BOOLEAN :
        q = reader[e] /\ w = wire[e] /\ s = sent[e] /\ on = open[e]
  BY <1>1 DEF WTypes
<1>3. reader[o].pc \notin {"left", "done"} => DirOf(reader[o], w, Unsent(e, a, s), s, got[o], o)
  <2>1. CASE app[e] = "data"
    <3>1. LocalOf(reader[o], app[o], lock[o], open[o], sent[o])
      BY <1>0, BothWays
    <3>2. reader[o].pc = "done"
      BY <1>0, <2>1, <3>1 DEF LocalOf
    <3> QED BY <3>2
  <2>2. CASE app[e] = "idle"
    <3>1. Unsent(e, a, s) = Unsent(e, app[e], s)
      BY <2>2 DEF Unsent
    <3> QED BY <1>1, <1>2, <3>1
  <2> QED BY <2>1, <2>2
<1>4. WriteOf(e, q, w, a, "", on, s)
  BY <1>1, <1>2 DEF WTypes, WriteOf
<1>5. LocalOf(q, a, "", on, s)
  BY <1>1, <1>2 DEF LocalOf
<1>6. Written(e, o, q, w, a, "", on, s)
  BY <1>1, <1>2, <1>3, <1>5 DEF Written
<1> QED BY <1>0, <1>4, <1>6, WriteSteps

\* mg_websocket_write, mg_websocket_client_write: the header and the data.
LEMMA AppSendStep ==
    ASSUME WebsocketAssumption, SocketInv, Quiet, Quiet', NEW e \in Ends, AppSend(e)
    PROVE  SocketInv'
<1> DEFINE id == Len(sent[e]) + 1
           Ready == app[e] = "idle" /\ Connected(e) /\ open[e] /\ id <= Len(Sends[e])
<1>1. UNCHANGED <<open, reader, got>>
  BY DEF AppSend
<1>2. LocalOf(reader[e], app[e], lock[e], open[e], sent[e])
  BY DEF SocketInv, Local
<1>i. id \in Nat
  <2>1. sent[e] \in Seq(WMessages)
    BY DEF SocketInv, WTypes
  <2>2. PICK s \in Seq(WMessages) : s = sent[e]
    BY <2>1
  <2>3. Len(s) + 1 \in Nat
    OBVIOUS
  <2> QED BY <2>2, <2>3, Zenon
<1>3. CASE /\ Ready /\ SendHeader(e, "app", Sends[e][id].op, Sends[e][id].n) /\ app' = [app EXCEPT ![e] = "data"]
           /\ sent' = [sent EXCEPT ![e] = Append(@, [op |-> Sends[e][id].op, data |-> Data(id, Sends[e][id].n)])]
  <2>1. PICK k \in Nat : k = id
    BY <1>i
  <2>2. /\ app[e] = "idle" /\ Connected(e) /\ open[e] /\ k <= Len(Sends[e]) /\ k = Len(sent[e]) + 1
        /\ SendHeader(e, "app", Sends[e][k].op, Sends[e][k].n) /\ app' = [app EXCEPT ![e] = "data"]
        /\ sent' = [sent EXCEPT ![e] = Append(@, [op |-> Sends[e][k].op, data |-> Data(k, Sends[e][k].n)])]
    BY <1>3, <2>1
  <2> HIDE DEF id
  <2> QED BY <1>1, <2>2, AppHeader
<1>4. CASE /\ app[e] = "data" /\ SendData(e, "app", Last(sent[e]).data) /\ app' = [app EXCEPT ![e] = "idle"]
           /\ UNCHANGED sent
  BY <1>1, <1>4, AppData
<1>5. ASSUME NEW units, NEW n, SendFails(e, "app", units, n), Ready \/ app[e] = "data",
             NEW a \in {"idle", "gone"}, app' = [app EXCEPT ![e] = a], UNCHANGED sent
      PROVE  SocketInv'
  <2>1. lock[e] = "app" <=> app[e] = "data"
    BY <1>2 DEF LocalOf
  <2>2. app[e] = "data" => sent[e] # << >> /\ reader[e].pc # "idle"
    BY <1>2 DEF LocalOf
  <2>3. reader[e].pc # "idle" /\ app[e] \in {"idle", "data"}
    BY <1>5, <2>2 DEF Connected
  <2>4. UNCHANGED wire /\ lock[e] \in {"", "app"} /\ lock' = [lock EXCEPT ![e] = ""]
        /\ (open[Other(e)] => lock[e] # "app")
    BY <1>5, <2>1, <2>2, NotCut
  <2>5. app[e] = "data" => ~open[Other(e)]
    BY <2>1, <2>4
  <2> QED BY <1>1, <1>5, <2>3, <2>4, <2>5, AppStops
<1> QED BY <1>3, <1>4, <1>5 DEF AppSend

\* mg_close_connection, for the two ends.
LEMMA AppCloseStep ==
    ASSUME SocketInv, NEW e \in Ends, AppClose(e)
    PROVE  SocketInv'
<1>0. PICK o \in Ends : o = Other(e) /\ Other(o) = e
  BY OtherEnds
<1>1. /\ WTypes /\ LocalOf(reader[e], app[e], lock[e], open[e], sent[e]) /\ GotOf(got[o], sent[e])
      /\ (reader[e].pc \notin {"left", "done"} =>
            DirOf(reader[e], wire[o], Unsent(o, app[o], sent[o]), sent[o], got[e], e))
      /\ (reader[o].pc \notin {"left", "done"} =>
            DirOf(reader[o], wire[e], Unsent(e, app[e], sent[e]), sent[e], got[o], o))
  BY <1>0, BothWays
<1>2. PICK r \in Readers, l \in {"", "app", "reader"}, on \in BOOLEAN, w \in Seq(WUnits), s \in Seq(WMessages) :
        r = reader[e] /\ l = lock[e] /\ on = open[e] /\ w = wire[e] /\ s = sent[e]
  BY <1>1 DEF WTypes
<1>3. app[e] \in {"idle", "join"} /\ UNCHANGED <<wire, lock, sent, got>>
  BY DEF AppClose
<1>4. /\ wire' = [wire EXCEPT ![e] = w] /\ lock' = [lock EXCEPT ![e] = l] /\ sent' = [sent EXCEPT ![e] = s]
      /\ UNCHANGED got
  BY <1>1, <1>2, <1>3 DEF WTypes
<1>5. \A a \in {"join", "gone"} : Unsent(e, a, s) = Unsent(e, app[e], s)
  BY <1>3 DEF Unsent
<1>6. CASE app[e] = "idle"
  <2>1. r.pc # "idle" /\ UNCHANGED open
        /\ reader' = [reader EXCEPT ![e] = [r EXCEPT !.mustClose = TRUE, !.stop = r.stop \/ e = "client"]]
        /\ app' = [app EXCEPT ![e] = IF e = "client" THEN "join" ELSE "gone"]
    BY <1>2, <1>6 DEF AppClose, Set, Connected
  <2>2. PICK halted \in BOOLEAN, a \in {"join", "gone"} :
          halted = (r.stop \/ e = "client") /\ a = IF e = "client" THEN "join" ELSE "gone"
    OBVIOUS
  <2>3. PICK q : q = [r EXCEPT !.mustClose = TRUE, !.stop = halted]
    OBVIOUS
  <2>4. /\ q \in Readers /\ q.pc = r.pc /\ q.buf = r.buf /\ q.data = r.data /\ q.need = r.need /\ q.op = r.op
        /\ q.mask = r.mask /\ q.pings = r.pings
    BY <2>3 DEF Readers
  <2>5. WriteOf(e, q, w, a, l, on, s)
    <3>1. open' = [open EXCEPT ![e] = on]
      BY <1>1, <1>2, <2>1 DEF WTypes
    <3> QED BY <1>4, <2>1, <2>2, <2>3, <3>1 DEF WriteOf
  <2>6. LocalOf(q, a, l, on, s)
    BY <1>1, <1>2, <1>6, <2>1, <2>4 DEF LocalOf
  <2>7. reader[e].pc \notin {"left", "done"} => DirOf(q, wire[o], Unsent(o, app[o], sent[o]), sent[o], got[e], e)
    BY <1>1, <1>2, <2>4, SamePlace
  <2>8. reader[o].pc \notin {"left", "done"} => DirOf(reader[o], w, Unsent(e, a, s), s, got[o], o)
    BY <1>1, <1>2, <1>5
  <2>9. Written(e, o, q, w, a, l, on, s)
    BY <1>1, <1>2, <1>6, <2>1, <2>4, <2>6, <2>7, <2>8 DEF Written
  <2> QED BY <1>0, <2>5, <2>9, WriteSteps
<1>7. CASE app[e] = "join"
  <2>1. r.pc = "done" /\ open' = [open EXCEPT ![e] = FALSE] /\ app' = [app EXCEPT ![e] = "gone"] /\ UNCHANGED reader
    BY <1>2, <1>7 DEF AppClose
  <2>2. WriteOf(e, r, w, "gone", l, FALSE, s)
    <3>1. reader' = [reader EXCEPT ![e] = r]
      BY <1>1, <1>2, <2>1 DEF WTypes
    <3> QED BY <1>4, <2>1, <3>1 DEF WriteOf
  <2>3. LocalOf(r, "gone", l, FALSE, s)
    BY <1>1, <1>2, <1>7, <2>1 DEF LocalOf
  <2>4. reader[o].pc \notin {"left", "done"} => DirOf(reader[o], w, Unsent(e, "gone", s), s, got[o], o)
    BY <1>1, <1>2, <1>5
  <2>5. Written(e, o, r, w, "gone", l, FALSE, s)
    BY <1>1, <1>2, <1>7, <2>1, <2>3, <2>4 DEF Written
  <2> QED BY <1>0, <2>2, <2>5, WriteSteps
<1> QED BY <1>3, <1>6, <1>7

\* The answer to the handshake is on the way, and nothing else.
LEMMA ResponseFirst ==
    ASSUME NEW r \in Readers, r.pc = "idle", r.buf = << >>, NEW s \in Seq(WMessages), Len(s) = 0,
           NEW g \in Seq(WMessages), Len(g) = 0, NEW w \in Seq(WUnits), Len(w) = 1
    PROVE  DirOf(r, w, << >>, s, g, "client")
<1>1. PICK u \in Seq(WUnits) : u = << >>
  <2>1. << >> \in Seq(WUnits)
    OBVIOUS
  <2> QED BY <2>1, Zenon
<1>2. w \o u = w /\ u \o w = w
  BY <1>1, NothingBehind
<1>3. Coming(r, w, u) = w
  BY <1>1, <1>2 DEF Coming, InHand
<1>4. w # << >>
  <2>1. Len(<< >>) = 0
    OBVIOUS
  <2>2. Len(w) # 0
    OBVIOUS
  <2> QED BY <2>1, <2>2, Zenon
<1>5. Ahead(r, w, "client") = 1 /\ Begun(r, g) = 0
  BY <1>4 DEF Ahead, Begun
<1>6. Carried(w, 1, 0, s, Other("client"))
  BY CarriedAtFirst
<1> QED BY <1>1, <1>3, <1>5, <1>6 DEF DirOf

\* The server accepts the websocket, or refuses it.
LEMMA AcceptStep ==
    ASSUME WebsocketAssumption, SocketInv, Accept
    PROVE  SocketInv'
<1>0. "server" \in Ends /\ "client" \in Ends /\ Other("server") = "client" /\ Other("client") = "server"
  BY OtherEnds DEF Ends
<1>1. /\ WTypes /\ LocalOf(reader["server"], app["server"], lock["server"], open["server"], sent["server"])
      /\ GotOf(got["client"], sent["server"])
      /\ (reader["server"].pc \notin {"left", "done"} =>
            DirOf(reader["server"], wire["client"], Unsent("client", app["client"], sent["client"]), sent["client"],
                  got["server"], "server"))
      /\ (reader["client"].pc \notin {"left", "done"} =>
            DirOf(reader["client"], wire["server"], Unsent("server", app["server"], sent["server"]), sent["server"],
                  got["client"], "client"))
  BY <1>0, BothWays
<1>2. LocalOf(reader["client"], app["client"], lock["client"], open["client"], sent["client"])
      /\ GotOf(got["server"], sent["client"])
  BY <1>0, BothWays
<1>3. PICK r, k \in Readers, s, g \in Seq(WMessages) :
        r = reader["server"] /\ k = reader["client"] /\ s = sent["server"] /\ g = got["client"]
  BY <1>0, <1>1 DEF WTypes
<1>4. r.pc = "idle" /\ k.pc = "idle" /\ wire["server"] = << >> /\ s = << >> /\ UNCHANGED <<open, lock, sent, got>>
  BY <1>3 DEF SocketInv, Unasked, Accept
<1>5. Len(s) = 0 /\ Len(g) = 0
  BY <1>1, <1>3, <1>4 DEF GotOf
<1>6. app["server"] = "idle" /\ k.buf = << >>
  BY <1>1, <1>2, <1>3, <1>4 DEF LocalOf
<1>7. PICK p \in {"loop", "left"}, x \in Seq(WUnits), a \in {"idle", "gone"} :
        /\ reader' = [reader EXCEPT !["server"] = [r EXCEPT !.pc = p]]
        /\ wire' = [wire EXCEPT !["server"] = x] /\ app' = [app EXCEPT !["server"] = a]
        /\ \/ p = "loop" /\ Len(x) = 1 /\ a = "idle"
           \/ p = "left" /\ x = << >> /\ a = "gone"
  <2>1. CASE /\ wire' = [wire EXCEPT !["server"] = Append(@, Response)]
             /\ Set("server", [r EXCEPT !.pc = "loop"]) /\ UNCHANGED app
    <3>1. Response \in WUnits
      BY UnitFits DEF Response, UnitNames
    <3>2. PICK x : x = Append(wire["server"], Response)
      OBVIOUS
    <3>3. x \in Seq(WUnits) /\ Len(x) = 1
      BY <1>4, <3>1, <3>2
    <3>4. app' = [app EXCEPT !["server"] = "idle"]
      BY <1>1, <1>6, <2>1 DEF WTypes
    <3>5. reader' = [reader EXCEPT !["server"] = [r EXCEPT !.pc = "loop"]] /\ wire' = [wire EXCEPT !["server"] = x]
      BY <2>1, <3>2 DEF Set
    <3>6. "loop" \in {"loop", "left"} /\ "idle" \in {"idle", "gone"}
      OBVIOUS
    <3> QED BY <3>3, <3>4, <3>5, <3>6
  <2>2. CASE Set("server", [r EXCEPT !.pc = "left"]) /\ app' = [app EXCEPT !["server"] = "gone"] /\ UNCHANGED wire
    <3>1. PICK x : x = wire["server"]
      OBVIOUS
    <3>2. x \in Seq(WUnits) /\ x = << >> /\ wire' = [wire EXCEPT !["server"] = x]
      BY <1>0, <1>1, <1>4, <2>2, <3>1 DEF WTypes
    <3>3. reader' = [reader EXCEPT !["server"] = [r EXCEPT !.pc = "left"]]
      BY <2>2 DEF Set
    <3>4. "left" \in {"loop", "left"} /\ "gone" \in {"idle", "gone"}
      OBVIOUS
    <3> QED BY <2>2, <3>2, <3>3, <3>4
  <2> QED BY <1>3, <2>1, <2>2 DEF Accept
<1>8. PICK q : q = [r EXCEPT !.pc = p]
  OBVIOUS
<1>9. q \in Readers /\ q.pc = p /\ q.buf = r.buf /\ q.data = r.data /\ q.pings = r.pings
  BY <1>7, <1>8 DEF Readers, ReaderPlaces
<1>10. /\ reader'["server"] = q /\ wire'["server"] = x /\ app'["server"] = a
       /\ reader'["client"] = k /\ wire'["client"] = wire["client"] /\ app'["client"] = app["client"]
  BY <1>0, <1>1, <1>3, <1>7, <1>8 DEF WTypes
<1>11. WTypes'
  BY <1>1, <1>4, <1>7, <1>8, <1>9 DEF WTypes
<1>12. Local("server")'
  <2>1. LocalOf(q, a, lock["server"], open["server"], s)
    BY <1>1, <1>3, <1>4, <1>6, <1>7, <1>9 DEF LocalOf
  <2> QED BY <1>3, <1>4, <1>10, <2>1 DEF Local
<1>13. Local("client")'
  BY <1>2, <1>3, <1>4, <1>10 DEF Local
<1>14. Gotten("client")' /\ Gotten("server")'
  BY <1>0, <1>1, <1>2, <1>4 DEF Gotten
<1>15. Dir("server")'
  <2>1. PICK v, t, h, z : v = wire["client"] /\ t = Unsent("client", app["client"], sent["client"])
                          /\ h = got["server"] /\ z = sent["client"]
    OBVIOUS
  <2>2. DirOf(r, v, t, z, h, "server")
    BY <1>1, <1>3, <1>4, <2>1
  <2>3. p = "loop" => DirOf(q, v, t, z, h, "server")
    <3> HAVE p = "loop"
    <3>1. Coming(q, v, t) = Coming(r, v, t) /\ Ahead(q, v, "server") = Ahead(r, v, "server") /\ Begun(q, h) = Begun(r, h)
      BY <1>4, <1>9 DEF Coming, InHand, Ahead, Begun
    <3> QED BY <1>9, <2>2, <3>1, DirStays
  <2> QED BY <1>0, <1>4, <1>7, <1>9, <1>10, <2>1, <2>3 DEF Dir
<1>16. Dir("client")'
  <2>1. Unsent("server", a, s) = << >> /\ Unsent("server", app["server"], s) = << >>
    BY <1>6, <1>7 DEF Unsent
  <2>2. DirOf(k, x, << >>, s, g, "client")
    <3>1. CASE Len(x) = 1
      BY <1>4, <1>5, <1>6, <3>1, ResponseFirst
    <3>2. CASE x = << >>
      BY <1>1, <1>3, <1>4, <2>1, <3>2
    <3> QED BY <1>7, <3>1, <3>2
  <2> QED BY <1>0, <1>3, <1>4, <1>10, <2>1, <2>2 DEF Dir
<1>17. Unasked'
  BY <1>7, <1>9, <1>10 DEF Unasked
<1>18. Refused'
  <2>1. x = << >> => p = "left" /\ a = "gone"
    <3>1. Len(<< >>) # 1
      OBVIOUS
    <3> QED BY <1>7, <3>1
  <2> QED BY <1>9, <1>10, <2>1 DEF Refused
<1> QED BY <1>11, <1>12, <1>13, <1>14, <1>15, <1>16, <1>17, <1>18 DEF SocketInv, Ends

\* The response is read, and what came with it.
ResponseGone(w, n, u, s, g, b, x) ==
    /\ b = SubSeq(w, 2, n) /\ Len(b) = n - 1 /\ CutTo(w, n, x)
    /\ \A q \in Readers : q.pc = "loop" /\ q.buf = b => DirOf(q, x, u, s, g, "client")

\* The answer is taken away, and what came behind it is in the buffer.
LEMMA ResponseRead ==
    ASSUME NEW r \in Readers, r.pc = "idle", r.buf = << >>, NEW w \in Seq(WUnits), NEW u \in Seq(WUnits),
           NEW s \in Seq(WMessages), NEW g \in Seq(WMessages), DirOf(r, w, u, s, g, "client"),
           NEW n \in 1 .. Len(w)
    PROVE  \E b, x \in Seq(WUnits) : ResponseGone(w, n, u, s, g, b, x)
<1>1. PICK l \in Nat : l = Len(w)
  OBVIOUS
<1>2. 1 \in 0 .. l /\ n \in 1 .. l
  BY <1>1
<1>3. PICK T : T = w \o u
  OBVIOUS
<1>4. T \in Seq(WUnits) /\ Len(T) = l + Len(u)
  BY <1>1, <1>3, Joined
<1>5. PICK b, x, y : b = SubSeq(w, 2, n) /\ x = SubSeq(w, n + 1, l) /\ y = SubSeq(w, 2, l)
  OBVIOUS
<1>6. b \in Seq(WUnits) /\ x \in Seq(WUnits) /\ Len(b) = n - 1
  BY <1>1, <1>2, <1>5
<1>7. b \o x = y
  <2>1. 2 \in 1 .. l + 1 /\ n \in 2 - 1 .. l /\ l \in n .. l /\ w \in Seq(WUnits)
    BY <1>2
  <2>2. SubSeq(w, 2, n) \o SubSeq(w, n + 1, l) = SubSeq(w, 2, l)
    BY <1>1, <2>1, ConcatAdjacentSubSeq
  <2> QED BY <1>5, <2>2
<1>8. SubSeq(T, 2, Len(T)) = y \o u /\ y \in Seq(WUnits) /\ 1 <= Len(T)
  <2>1. 1 \in 0 .. Len(w) /\ 1 + 1 = 2
    BY <1>1, <1>2
  <2>2. /\ SubSeq(w \o u, 1 + 1, Len(w \o u)) = SubSeq(w, 1 + 1, Len(w)) \o u
        /\ SubSeq(w, 1 + 1, Len(w)) \in Seq(WUnits) /\ 1 <= Len(w \o u)
    BY <2>1, Shortened
  <2> QED BY <1>1, <1>3, <1>5, <2>1, <2>2
<1>9. b \o (x \o u) = y \o u
  <2>1. b \o (x \o u) = (b \o x) \o u
    BY <1>6, Regrouped
  <2> QED BY <1>7, <2>1
<1>10. Carried(T, 1, Len(g), s, Other("client"))
  <2>1. PICK k \in Seq(WUnits) : k = << >>
    <3>1. << >> \in Seq(WUnits)
      OBVIOUS
    <3> QED BY <3>1, Zenon
  <2>2. k \o T = T
    BY <1>4, <2>1
  <2>3. Coming(r, w, u) = T
    BY <1>3, <2>1, <2>2 DEF Coming, InHand
  <2>4. w # << >>
    <3>1. Len(<< >>) = 0 /\ l # 0
      BY <1>2
    <3> QED BY <1>1, <3>1
  <2> QED BY <2>3, <2>4 DEF DirOf, Ahead, Begun
<1>11. Carried(y \o u, 0, Len(g), s, Other("client"))
  <2>1. PICK Z : Z = SubSeq(T, 1 + 1, Len(T))
    OBVIOUS
  <2>2. Len(g) \in Nat /\ 1 - 1 = 0 /\ 1 <= 1 /\ 1 \in Nat
    OBVIOUS
  <2>3. Carried(Z, 1 - 1, Len(g), s, Other("client"))
    BY <1>4, <1>8, <1>10, <2>1, <2>2, CarriedDrops
  <2>4. Z = y \o u
    BY <1>8, <2>1, SMTT(30)
  <2> QED BY <2>2, <2>3, <2>4
<1>12. ASSUME NEW q \in Readers, q.pc = "loop", q.buf = b
       PROVE  DirOf(q, x, u, s, g, "client")
  <2>1. Coming(q, x, u) = y \o u
    BY <1>9, <1>12 DEF Coming, InHand
  <2> QED BY <1>11, <1>12, <2>1 DEF DirOf, Ahead, Begun
<1>13. CutTo(w, n, x)
  BY <1>1, <1>5 DEF CutTo
<1>14. ResponseGone(w, n, u, s, g, b, x)
  BY <1>5, <1>6, <1>12, <1>13 DEF ResponseGone
<1> QED BY <1>6, <1>14

\* The client reads the answer.
LEMMA ConnectStep ==
    ASSUME WebsocketAssumption, SocketInv, Connect
    PROVE  SocketInv'
<1>0. "server" \in Ends /\ "client" \in Ends /\ Other("server") = "client" /\ Other("client") = "server"
  BY OtherEnds DEF Ends
<1>1. /\ WTypes /\ LocalOf(reader["client"], app["client"], lock["client"], open["client"], sent["client"])
      /\ GotOf(got["server"], sent["client"])
      /\ (reader["client"].pc \notin {"left", "done"} =>
            DirOf(reader["client"], wire["server"], Unsent("server", app["server"], sent["server"]), sent["server"],
                  got["client"], "client"))
      /\ (reader["server"].pc \notin {"left", "done"} =>
            DirOf(reader["server"], wire["client"], Unsent("client", app["client"], sent["client"]), sent["client"],
                  got["server"], "server"))
  BY <1>0, BothWays
<1>2. LocalOf(reader["server"], app["server"], lock["server"], open["server"], sent["server"])
      /\ GotOf(got["client"], sent["server"])
  BY <1>0, BothWays
<1>3. PICK r \in Readers, s, g \in Seq(WMessages), w \in Seq(WUnits) :
        r = reader["client"] /\ s = sent["server"] /\ g = got["client"] /\ w = wire["server"]
  BY <1>0, <1>1 DEF WTypes
<1>4. r.pc = "idle" /\ UNCHANGED <<lock, sent, got>>
  BY <1>3 DEF Connect
<1>5. r.buf = << >> /\ app["client"] = "idle" /\ open["client"]
  BY <1>1, <1>3, <1>4 DEF LocalOf
<1>6. ASSUME NEW q \in Readers, NEW x \in Seq(WUnits), NEW a \in {"idle", "gone"}, NEW on \in BOOLEAN,
             reader' = [reader EXCEPT !["client"] = q], wire' = [wire EXCEPT !["server"] = x],
             app' = [app EXCEPT !["client"] = a], open' = [open EXCEPT !["client"] = on],
             q.pc \in {"loop", "done"}, LocalOf(q, a, lock["client"], on, sent["client"]),
             q.pc = "loop" => DirOf(q, x, Unsent("server", app["server"], s), s, g, "client"),
             reader["server"].pc # "idle"
      PROVE  SocketInv'
  <2>1. /\ reader'["client"] = q /\ wire'["server"] = x /\ app'["client"] = a /\ open'["client"] = on
        /\ reader'["server"] = reader["server"] /\ wire'["client"] = wire["client"]
        /\ app'["server"] = app["server"] /\ open'["server"] = open["server"]
    BY <1>0, <1>1, <1>6 DEF WTypes
  <2>2. WTypes'
    BY <1>1, <1>4, <1>6 DEF WTypes
  <2>3. Local("client")'
    BY <1>4, <1>6, <2>1 DEF Local
  <2>4. Local("server")'
    BY <1>2, <1>4, <2>1 DEF Local
  <2>5. Gotten("client")' /\ Gotten("server")'
    BY <1>0, <1>1, <1>2, <1>4 DEF Gotten
  <2>6. Dir("client")'
    BY <1>0, <1>3, <1>4, <1>6, <2>1 DEF Dir
  <2>7. Dir("server")'
    <3>1. Unsent("client", a, sent["client"]) = Unsent("client", app["client"], sent["client"])
      BY <1>5, <1>6 DEF Unsent
    <3> QED BY <1>0, <1>1, <1>4, <2>1, <3>1 DEF Dir
  <2>8. Unasked' /\ Refused'
    BY <1>6, <2>1 DEF Unasked, Refused
  <2> QED BY <2>2, <2>3, <2>4, <2>5, <2>6, <2>7, <2>8 DEF SocketInv, Ends
<1>7. CASE /\ wire["server"] = << >> /\ ~open["server"] /\ Set("client", [r EXCEPT !.pc = "done"])
           /\ open' = [open EXCEPT !["client"] = FALSE] /\ app' = [app EXCEPT !["client"] = "gone"] /\ UNCHANGED wire
  <2>1. PICK q : q = [r EXCEPT !.pc = "done"]
    OBVIOUS
  <2>2. q \in Readers /\ q.pc = "done" /\ q.buf = r.buf /\ q.pings = r.pings
    BY <2>1 DEF Readers, ReaderPlaces
  <2>3. reader["server"].pc # "idle"
    BY <1>2, <1>7 DEF LocalOf
  <2>4. reader' = [reader EXCEPT !["client"] = q] /\ wire' = [wire EXCEPT !["server"] = w]
    BY <1>0, <1>1, <1>3, <1>7, <2>1 DEF Set, WTypes
  <2>5. LocalOf(q, "gone", lock["client"], FALSE, sent["client"])
    BY <1>1, <1>3, <1>4, <1>5, <2>2 DEF LocalOf
  <2>6. "gone" \in {"idle", "gone"} /\ FALSE \in BOOLEAN /\ q.pc \in {"loop", "done"} /\ q.pc # "loop"
    BY <2>2
  <2> QED BY <1>6, <1>7, <2>2, <2>3, <2>4, <2>5, <2>6
<1>8. CASE /\ UNCHANGED <<open, app>>
           /\ \E n \in Pieces("client", Room + 1) :
                /\ w # << >> /\ Set("client", [r EXCEPT !.pc = "loop", !.buf = SubSeq(w, 2, n)])
                /\ Receive("client", n)
  <2>1. PICK n \in Pieces("client", Room + 1) :
          /\ w # << >> /\ reader' = [reader EXCEPT !["client"] = [r EXCEPT !.pc = "loop", !.buf = SubSeq(w, 2, n)]]
          /\ wire' = [wire EXCEPT !["server"] = SubSeq(w, n + 1, Len(w))]
    BY <1>0, <1>3, <1>8 DEF Set, Receive
  <2>2. Room \in Nat /\ Room + 1 \in Nat /\ Room + 1 > 0
    BY DEF WebsocketAssumption
  <2>3. n \in 0 .. Len(w) /\ n <= Room + 1 /\ n > 0
    BY <1>0, <1>3, <2>1, <2>2, PiecesAre
  <2>4. n \in 1 .. Len(w)
    BY <2>3
  <2>5. PICK u \in Seq(WUnits) : u = Unsent("server", app["server"], s)
    BY <1>0, <1>2, <1>3, UnsentIs DEF LocalOf
  <2>6. DirOf(r, w, u, s, g, "client")
    BY <1>1, <1>3, <1>4, <2>5
  <2>b. PICK b, x \in Seq(WUnits) : ResponseGone(w, n, u, s, g, b, x)
    BY <1>4, <1>5, <2>4, <2>6, ResponseRead
  <2>7. /\ b = SubSeq(w, 2, n) /\ Len(b) = n - 1 /\ CutTo(w, n, x)
        /\ \A q \in Readers : q.pc = "loop" /\ q.buf = b => DirOf(q, x, u, s, g, "client")
    BY <2>b DEF ResponseGone
  <2>8. PICK q : q = [r EXCEPT !.pc = "loop", !.buf = b]
    OBVIOUS
  <2>9. q \in Readers /\ q.pc = "loop" /\ q.buf = b /\ q.pings = r.pings
    BY <2>8 DEF Readers, ReaderPlaces
  <2>10. Len(b) <= Room
    BY <2>2, <2>3, <2>7
  <2>11. reader' = [reader EXCEPT !["client"] = q] /\ wire' = [wire EXCEPT !["server"] = x]
    BY <2>1, <2>7, <2>8 DEF CutTo
  <2>12. app' = [app EXCEPT !["client"] = "idle"] /\ open' = [open EXCEPT !["client"] = TRUE]
    BY <1>1, <1>5, <1>8 DEF WTypes
  <2>13. LocalOf(q, "idle", lock["client"], TRUE, sent["client"])
    BY <1>1, <1>3, <1>4, <1>5, <2>9, <2>10 DEF LocalOf
  <2>14. reader["server"].pc # "idle"
    BY <1>3, <2>1 DEF SocketInv, Unasked
  <2>15. DirOf(q, x, Unsent("server", app["server"], s), s, g, "client")
    BY <2>5, <2>7, <2>9
  <2>16. "idle" \in {"idle", "gone"} /\ TRUE \in BOOLEAN /\ q.pc \in {"loop", "done"}
    BY <2>9
  <2> QED BY <1>6, <2>9, <2>11, <2>12, <2>13, <2>14, <2>15, <2>16
<1> QED BY <1>3, <1>7, <1>8 DEF Connect

\* Nothing was sent yet.
LEMMA InitSocket ==
    ASSUME WebsocketAssumption, Init
    PROVE  SocketInv
<1>1. << >> \in Seq(WUnits) /\ << >> \in Seq(WMessages) /\ Len(<< >>) = 0
  OBVIOUS
<1>e. \A i \in 1 .. Len(<< >>) : FALSE
  BY <1>1
<1>2. Free \in Readers
  BY <1>1 DEF Free, Readers, ReaderPlaces
<1>3. WTypes
  BY <1>1, <1>2 DEF Init, WTypes
<1>4. Refused /\ Unasked
  BY DEF Init, Refused, Unasked, Free, Ends
<1>5. ASSUME NEW e \in Ends
      PROVE  Local(e) /\ Dir(e) /\ Gotten(e)
  <2>1. PICK o \in Ends : o = Other(e)
    BY OtherEnds
  <2>2. /\ reader[e] = Free /\ wire[o] = << >> /\ sent[e] = << >> /\ sent[o] = << >> /\ got[e] = << >>
        /\ app[e] = "idle" /\ app[o] = "idle" /\ lock[e] = "" /\ open[e]
    BY DEF Init
  <2>3. Room \in Nat /\ MaxPing \in Nat /\ 0 <= Room /\ 0 <= MaxPing + 1
    BY DEF WebsocketAssumption
  <2>4. Local(e)
    <3>1. Free.pc = "idle" /\ Free.buf = << >> /\ Free.pings = 0 /\ Len(<< >>) <= Room
      BY <1>1, <2>3 DEF Free
    <3>2. LocalOf(Free, "idle", "", TRUE, << >>)
      BY <1>e, <2>3, <3>1 DEF LocalOf
    <3>3. open[e] = TRUE
      BY DEF Init
    <3> QED BY <2>2, <3>2, <3>3 DEF Local
  <2>5. Gotten(e)
    <3>1. GotOf(<< >>, << >>)
      BY <1>1, <1>e DEF GotOf
    <3> QED BY <2>1, <2>2, <3>1 DEF Gotten
  <2>6. Dir(e)
    <3>1. PICK u \in Seq(WUnits), s \in Seq(WMessages) : u = << >> /\ s = << >>
      BY <1>1, Zenon
    <3>2. u \o u = u
      BY <3>1, NothingBehind
    <3>3. Coming(Free, << >>, << >>) = u
      BY <3>1, <3>2 DEF Coming, InHand, Free
    <3>4. Ahead(Free, << >>, e) = 0 /\ Begun(Free, << >>) = 0
      BY <1>1 DEF Ahead, Begun, Free
    <3>5. Carried(u, 0, 0, s, Other(e))
      BY <1>1, <3>1, CarriedAtFirst
    <3>6. DirOf(Free, << >>, << >>, << >>, << >>, e)
      BY <3>1, <3>3, <3>4, <3>5 DEF DirOf, Free
    <3>7. Unsent(o, "idle", << >>) = << >>
      BY DEF Unsent
    <3> QED BY <2>1, <2>2, <3>6, <3>7 DEF Dir
  <2> QED BY <2>4, <2>5, <2>6
<1> QED BY <1>3, <1>4, <1>5 DEF SocketInv

\* Every step of an end preserves the invariant,
LEMMA SocketStep ==
    ASSUME WebsocketAssumption, SocketInv, Quiet, Quiet', Next
    PROVE  SocketInv'
<1>1. PICK e \in Ends : Reader(e) \/ AppSend(e) \/ AppClose(e)
  BY DEF Next
<1>2. CASE Leave(e) \/ NoMemory(e) \/ PullFailed(e)
  BY <1>2, LeaveStep
<1>3. CASE TakeFrame(e)
  BY <1>3, TakeFrameStep
<1>4. CASE Pull(e)
  BY <1>4, PullStep
<1>5. CASE PullRest(e)
  BY <1>5, PullRestStep
<1>6. CASE TimedOut(e)
  BY <1>6, TimedOutStep
<1>7. CASE SendPing(e)
  BY <1>7, SendPingStep
<1>8. CASE SendPong(e)
  BY <1>8, SendPongStep
<1>9. CASE AfterLoop(e)
  BY <1>9, AfterLoopStep
<1>10. CASE Accept
  BY <1>10, AcceptStep
<1>11. CASE Connect
  BY <1>11, ConnectStep
<1>12. CASE AppSend(e)
  BY <1>12, AppSendStep
<1>13. CASE AppClose(e)
  BY <1>13, AppCloseStep
<1> QED BY <1>1, <1>2, <1>3, <1>4, <1>5, <1>6, <1>7, <1>8, <1>9, <1>10, <1>11, <1>12, <1>13 DEF Reader

\* and so does a step that changes nothing.
LEMMA SocketStays ==
    ASSUME SocketInv, UNCHANGED vars
    PROVE  SocketInv'
<1>1. WTypes' /\ Refused' /\ Unasked'
  BY DEF vars, SocketInv, WTypes, Refused, Unasked
<1>2. ASSUME NEW e \in Ends PROVE Local(e)' /\ Dir(e)' /\ Gotten(e)'
  BY DEF vars, SocketInv, Local, Dir, Gotten
<1> QED BY <1>1, <1>2 DEF SocketInv

\* What is read of the rest is less than the rest; the messages given are the first of those sent.
LEMMA SocketSafe ==
    ASSUME SocketInv, Quiet
    PROVE  MessagesAreWhole
<1>1. ASSUME NEW e \in Ends
      PROVE  IsPrefix(got[e], Before(Other(e)))
  <2>1. PICK g, s \in Seq(WMessages) : g = got[e] /\ s = sent[Other(e)]
    BY OtherEnds DEF SocketInv, WTypes
  <2>2. GotOf(g, s)
    BY <2>1 DEF SocketInv, Gotten
  <2>3. PICK n \in Nat : n = Len(g)
    OBVIOUS
  <2>4. n <= Len(s) /\ \A i \in 1 .. n : g[i] = s[i]
    BY <2>2, <2>3 DEF GotOf
  <2>5. PICK x, y : x = SubSeq(g, 1, n) /\ y = SubSeq(s, 1, n)
    OBVIOUS
  <2>6. x \in Seq(WMessages) /\ Len(x) = n /\ \A i \in 1 .. n : x[i] = g[i]
    BY <2>3, <2>5
  <2>7. y \in Seq(WMessages) /\ Len(y) = n /\ \A i \in 1 .. n : y[i] = s[i]
    BY <2>4, <2>5
  <2>8. x = y
    BY <2>4, <2>6, <2>7, SeqEqual
  <2>9. Before(Other(e)) = s
    BY <2>1, OtherEnds DEF Before, Whole, Quiet
  <2> QED BY <2>1, <2>3, <2>4, <2>5, <2>8, <2>9 DEF IsPrefix
<1> QED BY <1>1 DEF MessagesAreWhole

\* Whatever was cut, the variables keep their types, and the buffers their bounds.
Held(r) ==
    /\ Len(r.buf) <= Room /\ (r.pc = "rest" => Len(r.data) < r.need)
    /\ r.pings <= MaxPing + 1 /\ (r.pc = "ping" => r.pings <= MaxPing)
SocketTypes ==
    /\ wire \in [Ends -> Seq(WUnits)] /\ reader \in [Ends -> Readers] /\ sent \in [Ends -> Seq(WMessages)]
    /\ app \in [Ends -> {"idle", "data", "join", "gone"}] /\ lock \in [Ends -> {"", "app", "reader"}]
    /\ torn \in [Ends -> Nat] /\ \A e \in Ends : Held(reader[e]) /\ (app[e] = "data" => sent[e] # << >>)

\* A step of the end e, after which the wire of o is x.
Steps(e, o, q, x, a, l, z, k) ==
    /\ reader' = [reader EXCEPT ![e] = q] /\ wire' = [wire EXCEPT ![o] = x] /\ app' = [app EXCEPT ![e] = a]
    /\ lock' = [lock EXCEPT ![e] = l] /\ sent' = [sent EXCEPT ![e] = z] /\ torn' = [torn EXCEPT ![e] = k]
LEMMA TypesKept ==
    ASSUME SocketTypes, NEW e \in Ends, NEW o \in Ends, NEW q \in Readers, Held(q), NEW x \in Seq(WUnits),
           NEW a \in {"idle", "data", "join", "gone"}, NEW l \in {"", "app", "reader"},
           NEW z \in Seq(WMessages), a = "data" => z # << >>, NEW k \in Nat, Steps(e, o, q, x, a, l, z, k)
    PROVE  SocketTypes'
<1>1. /\ wire' \in [Ends -> Seq(WUnits)] /\ reader' \in [Ends -> Readers] /\ sent' \in [Ends -> Seq(WMessages)]
      /\ app' \in [Ends -> {"idle", "data", "join", "gone"}] /\ lock' \in [Ends -> {"", "app", "reader"}]
      /\ torn' \in [Ends -> Nat]
  BY DEF SocketTypes, Steps
<1>2. /\ reader'[e] = q /\ app'[e] = a /\ sent'[e] = z
      /\ \A f \in Ends : f # e => reader'[f] = reader[f] /\ app'[f] = app[f] /\ sent'[f] = sent[f]
  BY DEF SocketTypes, Steps
<1>3. ASSUME NEW f \in Ends PROVE Held(reader'[f]) /\ (app'[f] = "data" => sent'[f] # << >>)
  BY <1>2 DEF SocketTypes
<1>4. ASSUME NEW f \in Ends PROVE Held(reader[f])'
  BY <1>3 DEF Held
<1> QED BY <1>1, <1>3, <1>4 DEF SocketTypes

\* What an end finds in its variables.
Finds(e, o, r, w, a, l, z, k) ==
    /\ r \in Readers /\ w \in Seq(WUnits) /\ a \in {"idle", "data", "join", "gone"}
    /\ l \in {"", "app", "reader"} /\ z \in Seq(WMessages) /\ k \in Nat /\ Held(r)
    /\ (a = "data" => z # << >>)
    /\ r = reader[e] /\ w = wire[o] /\ a = app[e] /\ l = lock[e] /\ z = sent[e] /\ k = torn[e]
    /\ reader = [reader EXCEPT ![e] = r] /\ wire = [wire EXCEPT ![o] = w] /\ app = [app EXCEPT ![e] = a]
    /\ lock = [lock EXCEPT ![e] = l] /\ sent = [sent EXCEPT ![e] = z] /\ torn = [torn EXCEPT ![e] = k]
LEMMA TypesSeen ==
    ASSUME SocketTypes, NEW e \in Ends, NEW o \in Ends
    PROVE  \E r, w, a, l, z, k : Finds(e, o, r, w, a, l, z, k)
<1>1. PICK r, w, a, l, z, k : r = reader[e] /\ w = wire[o] /\ a = app[e] /\ l = lock[e] /\ z = sent[e] /\ k = torn[e]
  OBVIOUS
<1>2. Finds(e, o, r, w, a, l, z, k)
  BY <1>1 DEF SocketTypes, Finds, Steps
<1> QED BY <1>2

\* A part of a sequence of units is one.
LEMMA PartOf ==
    ASSUME NEW b \in Seq(WUnits), NEW i \in Nat \ {0}, NEW j \in Int, j <= Len(b)
    PROVE  SubSeq(b, i, j) \in Seq(WUnits) /\ Len(SubSeq(b, i, j)) = IF i <= j THEN j - i + 1 ELSE 0
OBVIOUS

\* Headers and data are sequences of units, masked or not.
LEMMA HeaderIsUnits ==
    ASSUME WebsocketAssumption, NEW o \in Ends, NEW who \in {"app", "reader"}, NEW op \in Nat, NEW n \in Nat
    PROVE  Header(o, who, op, n) \in Seq(WUnits)
<1>1. CASE who = "app"
  BY <1>1, HeaderForm
<1>2. CASE who = "reader"
  <2>1. PICK f, u : f = FieldOf(n, 0) /\ u = Unit("op", op, 0)
    OBVIOUS
  <2>2. f \in Seq(WUnits) /\ u \in WUnits
    BY <2>1, FieldIs, UnitFits DEF UnitNames
  <2>3. Inline \in Nat
    BY DEF WebsocketAssumption
  <2>4. (CASE n < Inline -> <<Unit("len", n, 0)>>
           [] n >= Inline /\ Shifts(n)[2] = 0 -> <<Unit("len", Inline, 0)>> \o Digits(n, 2)
           [] OTHER -> <<Unit("len", Inline + 1, 0)>> \o Digits(n, 8)) = f
    BY <2>1, <2>3 DEF FieldOf
  <2>5. ~Masks(o, who)
    BY <1>2 DEF Masks
  <2>6. Header(o, who, op, n) =
          <<u>> \o (CASE n < Inline -> <<Unit("len", n, 0)>>
                      [] n >= Inline /\ Shifts(n)[2] = 0 -> <<Unit("len", Inline, 0)>> \o Digits(n, 2)
                      [] OTHER -> <<Unit("len", Inline + 1, 0)>> \o Digits(n, 8)) \o << >>
    BY <2>1, <2>5 DEF Header
  <2>7. Header(o, who, op, n) = <<u>> \o f \o << >>
    BY <2>4, <2>6
  <2>8. <<u>> \o f \in Seq(WUnits)
    BY <2>2
  <2> QED BY <2>7, <2>8
<1> QED BY <1>1, <1>2

LEMMA UnitWith ==
    ASSUME NEW t \in WUnits, NEW x \in Int
    PROVE  [t EXCEPT !.x = x] \in WUnits
BY DEF WUnits

LEMMA MaskedIsUnits ==
    ASSUME NEW o, NEW who, NEW d \in Seq(WUnits)
    PROVE  Masked(o, who, d) \in Seq(WUnits)
<1>1. CASE Masks(o, who)
  <2>1. \A i \in 1 .. Len(d) : [d[i] EXCEPT !.x = ((i - 1) % 4) + 1] \in WUnits
    <3> TAKE i \in 1 .. Len(d)
    <3>1. PICK x \in Int : x = ((i - 1) % 4) + 1
      OBVIOUS
    <3>2. d[i] \in WUnits
      OBVIOUS
    <3> QED BY <3>1, <3>2, UnitWith
  <2>2. Masked(o, who, d) = [i \in 1 .. Len(d) |-> [d[i] EXCEPT !.x = ((i - 1) % 4) + 1]]
    BY <1>1 DEF Masked
  <2> QED BY <2>1, <2>2, SMTT(30)
<1>2. CASE ~Masks(o, who)
  BY <1>2 DEF Masked
<1> QED BY <1>1, <1>2

LEMMA UnmaskIsUnits ==
    ASSUME NEW d \in Seq(WUnits), NEW m
    PROVE  Unmask(d, m) \in Seq(WUnits)
<1>1. PICK w : w = Unmask(d, m)
  OBVIOUS
<1>2. w = [i \in 1 .. Len(d) |-> w[i]]
  BY <1>1 DEF Unmask
<1>3. \A i \in 1 .. Len(d) : w[i] \in WUnits
  <2> TAKE i \in 1 .. Len(d)
  <2>1. PICK t \in WUnits : t = d[i]
    OBVIOUS
  <2>2. PICK a, c : a = [t EXCEPT !.x = 0] /\ c = [t EXCEPT !.x = -1]
    OBVIOUS
  <2>3. a \in WUnits /\ c \in WUnits
    <3>1. 0 \in Int /\ -1 \in Int
      OBVIOUS
    <3> QED BY <2>2, <3>1, UnitWith, Zenon
  <2>4. PICK key : key = m[((i - 1) % 4) + 1]
    OBVIOUS
  <2>5. w[i] = IF m = << >> THEN t ELSE IF key.k = "mask" /\ t.x = key.v THEN a ELSE c
    <3>1. i \in DOMAIN d
      OBVIOUS
    <3> QED BY <1>1, <2>1, <2>2, <2>4, <3>1 DEF Unmask
  <2> QED BY <2>1, <2>3, <2>5
<1> QED BY <1>1, <1>2, <1>3

\* A frame's header and its length are numbers, whatever is in the buffer.
LEMMA ValueIsNumber ==
    ASSUME WebsocketAssumption, NEW c \in {2, 8}, NEW u \in Seq(WUnits), Len(u) = c
    PROVE  Value(u) \in Nat
<1>1. PICK v : v[0] = 0 /\ Value(u) = v[c] /\ \A i \in 1 .. c : v[i] = Base * v[i - 1] + u[i].v
  <2>1. c \in 0 .. 8
    OBVIOUS
  <2> QED BY <2>1, ValueIs
<1>2. \A i \in 1 .. c : u[i].v \in Nat
  <2>1. \A i \in 1 .. c : u[i] \in WUnits
    OBVIOUS
  <2> QED BY <2>1 DEF WUnits
<1>3. Base \in Nat
  BY DEF WebsocketAssumption
<1>4. ASSUME NEW i \in 1 .. c, v[i - 1] \in Nat PROVE v[i] \in Nat
  <2>1. PICK x, y \in Nat : x = v[i - 1] /\ y = u[i].v
    BY <1>2, <1>4
  <2>2. v[i] = Base * x + y
    BY <1>1, <2>1
  <2>3. Base * x \in Nat
    BY <1>3
  <2> QED BY <2>2, <2>3
<1>5. v[1] \in Nat /\ v[2] \in Nat
  <2>1. v[1 - 1] \in Nat /\ 1 \in 1 .. c /\ 2 \in 1 .. c /\ 2 - 1 = 1
    BY <1>1
  <2> QED BY <1>4, <2>1
<1>6. CASE c = 8
  <2>1. 3 \in 1 .. c /\ 4 \in 1 .. c /\ 5 \in 1 .. c /\ 6 \in 1 .. c /\ 7 \in 1 .. c /\ 8 \in 1 .. c
        /\ 3 - 1 = 2 /\ 4 - 1 = 3 /\ 5 - 1 = 4 /\ 6 - 1 = 5 /\ 7 - 1 = 6 /\ 8 - 1 = 7
    BY <1>6
  <2>2. v[3] \in Nat
    BY <1>4, <1>5, <2>1
  <2>3. v[4] \in Nat
    BY <1>4, <2>1, <2>2
  <2>4. v[5] \in Nat
    BY <1>4, <2>1, <2>3
  <2>5. v[6] \in Nat
    BY <1>4, <2>1, <2>4
  <2>6. v[7] \in Nat
    BY <1>4, <2>1, <2>5
  <2>7. v[8] \in Nat
    BY <1>4, <2>1, <2>6
  <2> QED BY <1>1, <1>6, <2>7
<1> QED BY <1>1, <1>5, <1>6

LEMMA FrameIsNumbers ==
    ASSUME WebsocketAssumption, NEW b \in Seq(WUnits)
    PROVE  Frame(b).header \in Nat /\ Frame(b).length \in Nat
<1>1. PICK m \in {0, 4} : m = MaskLen(b)
  BY DEF MaskLen
<1>2. PICK n \in Nat : n = Len(b)
  OBVIOUS
<1>3. n >= 2 => b[2].v \in Nat
  <2>1. n >= 2 => b[2] \in WUnits
    BY <1>2
  <2> QED BY <2>1 DEF WUnits
<1>4. n >= 4 + m => Value(SubSeq(b, 3, 4)) \in Nat
  <2>1. n >= 4 + m => SubSeq(b, 3, 4) \in Seq(WUnits) /\ Len(SubSeq(b, 3, 4)) = 2
    BY <1>1, <1>2
  <2> QED BY <2>1, ValueIsNumber
<1>5. n >= 10 + m => Value(SubSeq(b, 3, 10)) \in Nat
  <2>1. n >= 10 + m => SubSeq(b, 3, 10) \in Seq(WUnits) /\ Len(SubSeq(b, 3, 10)) = 8
    BY <1>1, <1>2
  <2> QED BY <2>1, ValueIsNumber
<1>6. PICK v, x, y : v = b[2].v /\ x = Value(SubSeq(b, 3, 4)) /\ y = Value(SubSeq(b, 3, 10))
  OBVIOUS
<1>7. Frame(b) = IF n < 2 THEN [header |-> 0, length |-> 0]
                 ELSE IF v < Inline /\ n >= m THEN [header |-> 2 + m, length |-> v]
                 ELSE IF v = Inline /\ n >= 4 + m THEN [header |-> 4 + m, length |-> x]
                 ELSE IF n >= 10 + m THEN [header |-> 10 + m, length |-> y]
                 ELSE [header |-> 0, length |-> 0]
  BY <1>1, <1>2, <1>6 DEF Frame
<1> QED BY <1>1, <1>2, <1>3, <1>4, <1>5, <1>6, <1>7

\* An end's thread goes on, and may have received something.
LEMMA ReaderTypes ==
    ASSUME SocketTypes, NEW e \in Ends, NEW o \in Ends, NEW q \in Readers, Held(q), reader' = [reader EXCEPT ![e] = q],
           NEW x \in Seq(WUnits), wire' = [wire EXCEPT ![o] = x], UNCHANGED <<app, lock, sent, torn>>
    PROVE  SocketTypes'
<1>1. PICK r, w, a, l, z, k : Finds(e, o, r, w, a, l, z, k)
  BY TypesSeen
<1>2. /\ a \in {"idle", "data", "join", "gone"} /\ l \in {"", "app", "reader"} /\ z \in Seq(WMessages)
      /\ k \in Nat /\ (a = "data" => z # << >>)
  BY <1>1 DEF Finds
<1>3. Steps(e, o, q, x, a, l, z, k)
  BY <1>1 DEF Finds, Steps
<1> QED BY <1>2, <1>3, TypesKept

LEMMA ThreadTypes ==
    ASSUME SocketTypes, NEW e \in Ends, NEW q \in Readers, Held(q), reader' = [reader EXCEPT ![e] = q],
           UNCHANGED <<wire, app, lock, sent, torn>>
    PROVE  SocketTypes'
<1>1. PICK r, w, a, l, z, k : Finds(e, e, r, w, a, l, z, k)
  BY TypesSeen
<1>2. w \in Seq(WUnits) /\ wire' = [wire EXCEPT ![e] = w]
  BY <1>1 DEF Finds
<1> QED BY <1>2, ReaderTypes

\* What happens with a frame,
LEMMA DeliverTypes ==
    ASSUME WebsocketAssumption, NEW e \in Ends, NEW t \in Readers, Len(t.buf) <= Room, t.pings <= MaxPing + 1,
           Deliver(e, t)
    PROVE  \E q \in Readers : Held(q) /\ reader' = [reader EXCEPT ![e] = q]
<1>1. PICK d : d = Unmask(t.data, t.mask)
  OBVIOUS
<1>2. d \in Seq(WUnits)
  BY <1>1, UnmaskIsUnits DEF Readers
<1>3. << >> \in Seq(WUnits) /\ "loop" \in ReaderPlaces /\ "left" \in ReaderPlaces /\ "pong" \in ReaderPlaces
  BY DEF ReaderPlaces
<1>4. 0 \in Nat /\ 0 <= MaxPing + 1
  BY DEF WebsocketAssumption
<1> DEFINE clear == [t EXCEPT !.data = << >>, !.mask = << >>, !.need = 0, !.op = 0]
<1>5. clear \in Readers /\ clear.buf = t.buf /\ clear.pings = t.pings
  BY <1>3, <1>4 DEF Readers
<1>6. \/ reader' = [reader EXCEPT ![e] = [clear EXCEPT !.pc = "loop", !.pings = 0]]
      \/ reader' = [reader EXCEPT ![e] = [clear EXCEPT !.pc = "pong", !.data = d]]
      \/ \E c \in {"loop", "left"} : reader' = [reader EXCEPT ![e] = [clear EXCEPT !.pc = c]]
  BY <1>1 DEF Deliver, Set
<1> HIDE DEF clear
<1>7. PICK y \in Readers : y = clear
  BY <1>5
<1>8. ASSUME NEW q, q = [y EXCEPT !.pc = "loop", !.pings = 0]
      PROVE  q \in Readers /\ Held(q)
  BY <1>3, <1>4, <1>5, <1>7, <1>8 DEF Readers, Held
<1>9. ASSUME NEW q, q = [y EXCEPT !.pc = "pong", !.data = d]
      PROVE  q \in Readers /\ Held(q)
  BY <1>2, <1>3, <1>5, <1>7, <1>9 DEF Readers, Held
<1>10. ASSUME NEW q, NEW c \in {"loop", "left"}, q = [y EXCEPT !.pc = c]
       PROVE  q \in Readers /\ Held(q)
  BY <1>3, <1>5, <1>7, <1>10 DEF Readers, Held
<1> QED BY <1>6, <1>7, <1>8, <1>9, <1>10

\* of which the header is there,
LEMMA TakeFrameTypes ==
    ASSUME WebsocketAssumption, SocketTypes, NEW e \in Ends, TakeFrame(e)
    PROVE  SocketTypes'
<1>1. PICK r \in Readers : r = reader[e] /\ Held(r)
  BY DEF SocketTypes
<1>2. PICK b \in Seq(WUnits) : b = r.buf
  BY <1>1 DEF Readers
<1>3. PICK h, n \in Nat : h = Frame(b).header /\ n = Frame(b).length
  BY FrameIsNumbers
<1>4. PICK m \in {0, 4}, c \in Nat : m = MaskLen(b) /\ c = Len(b)
  BY DEF MaskLen
<1>5. h \in 1 .. c
  BY <1>1, <1>2, <1>3, <1>4 DEF TakeFrame, Complete
<1>6. m < h
  BY <1>3, <1>4, <1>5 DEF Frame
<1>7. PICK x : x = SubSeq(b, h - m + 1, h)
  OBVIOUS
<1>8. x \in Seq(WUnits)
  <2>1. h - m + 1 \in Nat \ {0} /\ h <= Len(b) /\ h \in Int
    BY <1>4, <1>5, <1>6
  <2> QED BY <1>7, <2>1, PartOf
<1>9. PICK v \in Nat : v = b[1].v
  <2>1. b[1] \in WUnits
    BY <1>4, <1>5
  <2> QED BY <2>1 DEF WUnits
<1>10. PICK t : t = [r EXCEPT !.op = v, !.mask = x]
  OBVIOUS
<1>11. t \in Readers /\ t.pings = r.pings /\ t.buf = b
  BY <1>1, <1>2, <1>8, <1>9, <1>10 DEF Readers
<1>12. UNCHANGED <<wire, app, lock, sent, torn>>
  BY DEF TakeFrame
<1>13. IF h + n > c
       THEN Set(e, [t EXCEPT !.pc = "rest", !.need = n, !.buf = << >>, !.data = SubSeq(b, h + 1, c)])
       ELSE Deliver(e, [t EXCEPT !.data = SubSeq(b, h + 1, h + n), !.buf = SubSeq(b, h + n + 1, c)])
  BY <1>1, <1>2, <1>3, <1>4, <1>7, <1>9, <1>10 DEF TakeFrame
<1>14. c <= Room /\ r.pings <= MaxPing + 1 /\ Room \in Nat
  BY <1>1, <1>2, <1>4 DEF Held, WebsocketAssumption
<1>15. CASE h + n > c
  <2>1. PICK d : d = SubSeq(b, h + 1, c)
    OBVIOUS
  <2>2. d \in Seq(WUnits) /\ Len(d) < n
    <3>1. h + 1 \in Nat \ {0} /\ c \in Int /\ c <= Len(b)
      BY <1>4
    <3>2. d \in Seq(WUnits) /\ Len(d) = IF h + 1 <= c THEN c - (h + 1) + 1 ELSE 0
      BY <2>1, <3>1, PartOf
    <3> QED BY <1>5, <1>15, <3>2
  <2>3. PICK q : q = [t EXCEPT !.pc = "rest", !.need = n, !.buf = << >>, !.data = d]
    OBVIOUS
  <2>4. << >> \in Seq(WUnits) /\ Len(<< >>) = 0 /\ "rest" \in ReaderPlaces
    BY DEF ReaderPlaces
  <2>5. q \in Readers /\ q.pc = "rest" /\ q.buf = << >> /\ q.data = d /\ q.need = n /\ q.pings = t.pings
    BY <1>11, <2>2, <2>3, <2>4 DEF Readers
  <2>6. Held(q)
    BY <1>11, <1>14, <2>2, <2>4, <2>5 DEF Held
  <2>7. reader' = [reader EXCEPT ![e] = q]
    BY <1>13, <1>15, <2>1, <2>3 DEF Set
  <2> QED BY <1>12, <2>5, <2>6, <2>7, ThreadTypes
<1>16. CASE ~(h + n > c)
  <2>1. PICK d, y : d = SubSeq(b, h + 1, h + n) /\ y = SubSeq(b, h + n + 1, c)
    OBVIOUS
  <2>2. d \in Seq(WUnits)
    <3>1. h + 1 \in Nat \ {0} /\ h + n \in Int /\ h + n <= Len(b)
      BY <1>4, <1>16
    <3> QED BY <2>1, <3>1, PartOf
  <2>3. y \in Seq(WUnits) /\ Len(y) <= Room
    <3>1. h + n + 1 \in Nat \ {0} /\ c \in Int /\ c <= Len(b)
      BY <1>4
    <3>2. y \in Seq(WUnits) /\ Len(y) = IF h + n + 1 <= c THEN c - (h + n + 1) + 1 ELSE 0
      BY <2>1, <3>1, PartOf
    <3> QED BY <1>14, <3>2
  <2>4. PICK g : g = [t EXCEPT !.data = d, !.buf = y]
    OBVIOUS
  <2>5. g \in Readers /\ g.buf = y /\ g.pings = t.pings
    BY <1>11, <2>2, <2>3, <2>4 DEF Readers
  <2>6. Deliver(e, g)
    BY <1>13, <1>16, <2>1, <2>4
  <2>7. \E q \in Readers : Held(q) /\ reader' = [reader EXCEPT ![e] = q]
    BY <1>11, <1>14, <2>3, <2>5, <2>6, DeliverTypes
  <2> QED BY <1>12, <2>7, ThreadTypes
<1> QED BY <1>15, <1>16

\* and an error or the end of the loop.
LEMMA LeavesTypes ==
    ASSUME SocketTypes, NEW e \in Ends, Leave(e) \/ NoMemory(e) \/ PullFailed(e)
    PROVE  SocketTypes'
<1>1. PICK r \in Readers : r = reader[e] /\ Held(r)
  BY DEF SocketTypes
<1>2. PICK q : q = [r EXCEPT !.pc = "left"]
  OBVIOUS
<1>3. reader' = [reader EXCEPT ![e] = q] /\ UNCHANGED <<wire, app, lock, sent, torn>>
  BY <1>1, <1>2 DEF Leave, NoMemory, PullFailed, Set
<1>4. q \in Readers /\ Held(q)
  BY <1>1, <1>2 DEF Readers, ReaderPlaces, Held
<1> QED BY <1>3, <1>4, ThreadTypes

LEMMA TimedOutTypes ==
    ASSUME WebsocketAssumption, SocketTypes, NEW e \in Ends, TimedOut(e)
    PROVE  SocketTypes'
<1>0. MaxPing \in Nat
  BY DEF WebsocketAssumption
<1>1. PICK r \in Readers : r = reader[e] /\ Held(r)
  BY DEF SocketTypes
<1>2. PICK p : p = IF r.pings > MaxPing THEN "left" ELSE IF PingPong THEN "ping" ELSE "loop"
  OBVIOUS
<1>3. PICK n \in Nat : n = r.slow + 1
  BY <1>1 DEF Readers
<1>4. PICK q : q = [r EXCEPT !.slow = n, !.pc = p]
  OBVIOUS
<1>5. reader' = [reader EXCEPT ![e] = q] /\ UNCHANGED <<wire, app, lock, sent, torn>>
  BY <1>1, <1>2, <1>3, <1>4 DEF TimedOut, Set
<1>6. p \in ReaderPlaces /\ p \in {"left", "ping", "loop"}
  BY <1>2 DEF ReaderPlaces
<1>7. q \in Readers /\ q.pc = p /\ q.buf = r.buf /\ q.pings = r.pings
  BY <1>4, <1>6 DEF Readers
<1>8. p = "ping" => r.pings <= MaxPing
  <2>1. r.pings \in Nat
    BY DEF Readers
  <2> QED BY <1>0, <1>2, <2>1
<1>9. Held(q)
  BY <1>1, <1>6, <1>7, <1>8 DEF Held
<1> QED BY <1>5, <1>7, <1>9, ThreadTypes

LEMMA AfterLoopTypes ==
    ASSUME SocketTypes, NEW e \in Ends, AfterLoop(e)
    PROVE  SocketTypes'
<1>1. PICK r \in Readers : r = reader[e] /\ Held(r)
  BY DEF SocketTypes
<1>2. PICK p, q : p = [r EXCEPT !.pc = "done", !.mustClose = TRUE] /\ q = [r EXCEPT !.pc = "done", !.stop = TRUE]
  OBVIOUS
<1>3. reader' = [reader EXCEPT ![e] = p] \/ reader' = [reader EXCEPT ![e] = q]
  BY <1>1, <1>2 DEF AfterLoop, Set
<1>4. p \in Readers /\ Held(p) /\ q \in Readers /\ Held(q)
  BY <1>1, <1>2 DEF Readers, ReaderPlaces, Held
<1>5. UNCHANGED <<wire, app, lock, sent, torn>>
  BY DEF AfterLoop
<1> QED BY <1>3, <1>4, <1>5, ThreadTypes

\* What is received are units.
LEMMA PiecesFit ==
    ASSUME WebsocketAssumption, NEW e \in Ends, NEW w \in Seq(WUnits), w = wire[Other(e)], NEW asked \in Nat,
           NEW n \in Pieces(e, asked)
    PROVE  n \in 0 .. Len(w) /\ n <= asked
<1>1. PICK l \in Nat : l = Len(w)
  OBVIOUS
<1>2. PICK size \in ReadSizes : n = Min({asked, l, size})
  BY <1>1 DEF Pieces
<1>3. size \in Nat
  BY DEF WebsocketAssumption
<1> QED BY <1>1, <1>2, <1>3, LeastOfThree

LEMMA PullTypes ==
    ASSUME WebsocketAssumption, SocketTypes, NEW e \in Ends, Pull(e)
    PROVE  SocketTypes'
<1>0. PICK o \in Ends : o = Other(e)
  BY OtherEnds
<1>1. PICK r \in Readers : r = reader[e] /\ Held(r)
  BY DEF SocketTypes
<1>2. PICK w \in Seq(WUnits) : w = wire[o]
  BY DEF SocketTypes
<1>3. PICK b \in Seq(WUnits) : b = r.buf
  BY DEF Readers
<1>4. PICK want \in Nat : want = Room - Len(b)
  <2>1. Len(b) <= Room
    BY <1>1, <1>3 DEF Held
  <2>2. Room \in Nat /\ Len(b) \in Nat
    BY DEF WebsocketAssumption
  <2> QED BY <2>1, <2>2
<1>5. PICK n \in Pieces(e, want) :
        /\ reader' = [reader EXCEPT ![e] = [r EXCEPT !.buf = b \o SubSeq(w, 1, n), !.pings = 0]]
        /\ wire' = [wire EXCEPT ![o] = SubSeq(w, n + 1, Len(w))]
  BY <1>0, <1>1, <1>2, <1>3, <1>4 DEF Pull, Set, Receive, Received
<1>6. n \in 0 .. Len(w) /\ n <= want
  BY <1>0, <1>2, PiecesFit
<1>7. PICK f, x : f = SubSeq(w, 1, n) /\ x = SubSeq(w, n + 1, Len(w))
  OBVIOUS
<1>8. f \in Seq(WUnits) /\ Len(f) = n
  BY <1>6, <1>7
<1>9. x \in Seq(WUnits)
  BY <1>6, <1>7
<1>10. PICK c : c = b \o f
  OBVIOUS
<1>11. c \in Seq(WUnits) /\ Len(c) = Len(b) + n
  BY <1>8, <1>10, Joined
<1>12. Len(c) <= Room
  BY <1>4, <1>6, <1>11 DEF WebsocketAssumption
<1>13. PICK q : q = [r EXCEPT !.buf = c, !.pings = 0]
  OBVIOUS
<1>14. 0 \in Nat /\ 0 <= MaxPing + 1
  BY DEF WebsocketAssumption
<1>15. q \in Readers /\ q.buf = c /\ q.pings = 0 /\ q.pc = r.pc /\ r.pc = "loop"
  BY <1>1, <1>11, <1>13, <1>14 DEF Readers, Pull, Reading
<1>16. Held(q)
  BY <1>12, <1>14, <1>15 DEF Held
<1>17. UNCHANGED <<app, lock, sent, torn>>
  BY DEF Pull
<1> QED BY <1>5, <1>7, <1>9, <1>10, <1>13, <1>15, <1>16, <1>17, ReaderTypes

LEMMA PullRestTypes ==
    ASSUME WebsocketAssumption, SocketTypes, NEW e \in Ends, PullRest(e)
    PROVE  SocketTypes'
<1>0. PICK o \in Ends : o = Other(e)
  BY OtherEnds
<1>1. PICK r \in Readers : r = reader[e] /\ Held(r) /\ r.pc = "rest"
  BY DEF SocketTypes, PullRest
<1>2. PICK w \in Seq(WUnits) : w = wire[o]
  BY DEF SocketTypes
<1>3. PICK b \in Seq(WUnits) : b = r.data
  BY DEF Readers
<1>4. PICK want \in Nat : want = r.need - Len(b)
  <2>1. r.need \in Nat /\ Len(b) < r.need
    BY <1>1, <1>3 DEF Readers, Held
  <2> QED BY <2>1
<1>5. PICK n \in Pieces(e, want) :
        /\ IF n = want THEN Deliver(e, [r EXCEPT !.data = b \o SubSeq(w, 1, n)])
           ELSE Set(e, [r EXCEPT !.data = b \o SubSeq(w, 1, n)])
        /\ wire' = [wire EXCEPT ![o] = SubSeq(w, n + 1, Len(w))]
  BY <1>0, <1>1, <1>2, <1>3, <1>4 DEF PullRest, Receive, Received
<1>6. n \in 0 .. Len(w) /\ n <= want
  BY <1>0, <1>2, PiecesFit
<1>7. PICK f, x : f = SubSeq(w, 1, n) /\ x = SubSeq(w, n + 1, Len(w))
  OBVIOUS
<1>8. f \in Seq(WUnits) /\ Len(f) = n
  BY <1>6, <1>7
<1>9. x \in Seq(WUnits)
  BY <1>6, <1>7
<1>10. PICK c : c = b \o f
  OBVIOUS
<1>11. c \in Seq(WUnits) /\ Len(c) = Len(b) + n
  BY <1>8, <1>10, Joined
<1>12. PICK t : t = [r EXCEPT !.data = c]
  OBVIOUS
<1>13. t \in Readers /\ t.data = c /\ t.buf = r.buf /\ t.pings = r.pings /\ t.pc = "rest" /\ t.need = r.need
  BY <1>1, <1>11, <1>12 DEF Readers
<1>14. \E q \in Readers : Held(q) /\ reader' = [reader EXCEPT ![e] = q]
  <2>1. CASE n = want
    <3>1. Deliver(e, t)
      BY <1>5, <1>7, <1>10, <1>12, <2>1
    <3>2. Len(t.buf) <= Room /\ t.pings <= MaxPing + 1
      BY <1>1, <1>13 DEF Held
    <3> QED BY <1>13, <3>1, <3>2, DeliverTypes
  <2>2. CASE n # want
    <3>1. reader' = [reader EXCEPT ![e] = t]
      BY <1>5, <1>7, <1>10, <1>12, <2>2 DEF Set
    <3>2. r.need \in Nat
      BY DEF Readers
    <3>3. Len(t.data) < t.need
      BY <1>4, <1>6, <1>11, <1>13, <2>2, <3>2
    <3>4. Held(t)
      BY <1>1, <1>13, <3>3 DEF Held
    <3> QED BY <1>13, <3>1, <3>4
  <2> QED BY <2>1, <2>2
<1>15. UNCHANGED <<app, lock, sent, torn>>
  BY DEF PullRest
<1> QED BY <1>5, <1>7, <1>9, <1>14, <1>15, ReaderTypes

\* A thread writes to the connection, which it locks or unlocks.
Puts(e, x, l, k) ==
    /\ wire' = [wire EXCEPT ![e] = x] /\ lock' = [lock EXCEPT ![e] = l] /\ torn' = [torn EXCEPT ![e] = k]
    /\ l \in {"", "app", "reader"}
LEMMA WriterTypes ==
    ASSUME SocketTypes, NEW e \in Ends, NEW q \in Readers, Held(q), reader' = [reader EXCEPT ![e] = q],
           UNCHANGED <<app, sent>>, NEW x \in Seq(WUnits), NEW l, NEW k \in Nat, Puts(e, x, l, k)
    PROVE  SocketTypes'
<1>1. PICK r, w, a, m, z, j : Finds(e, e, r, w, a, m, z, j)
  BY TypesSeen
<1>2. a \in {"idle", "data", "join", "gone"} /\ z \in Seq(WMessages) /\ (a = "data" => z # << >>)
  BY <1>1 DEF Finds
<1>3. Steps(e, e, q, x, a, l, z, k) /\ l \in {"", "app", "reader"}
  BY <1>1 DEF Finds, Steps, Puts
<1> QED BY <1>2, <1>3, TypesKept
LEMMA SenderTypes ==
    ASSUME SocketTypes, NEW e \in Ends, NEW a \in {"idle", "data", "join", "gone"}, app' = [app EXCEPT ![e] = a],
           NEW z \in Seq(WMessages), sent' = [sent EXCEPT ![e] = z], a = "data" => z # << >>,
           UNCHANGED reader, NEW x \in Seq(WUnits), NEW l, NEW k \in Nat, Puts(e, x, l, k)
    PROVE  SocketTypes'
<1>1. PICK r, w, b, m, y, j : Finds(e, e, r, w, b, m, y, j)
  BY TypesSeen
<1>2. r \in Readers /\ Held(r)
  BY <1>1 DEF Finds
<1>3. Steps(e, e, r, x, a, l, z, k) /\ l \in {"", "app", "reader"}
  BY <1>1 DEF Finds, Steps, Puts
<1> QED BY <1>2, <1>3, TypesKept

\* A header or data is written, or a part of it.
LEMMA WrittenTypes ==
    ASSUME SocketTypes, NEW e \in Ends, NEW y \in Seq(WUnits), wire' = [wire EXCEPT ![e] = @ \o y], UNCHANGED torn,
           NEW l \in {"", "app", "reader"}, lock' = [lock EXCEPT ![e] = l]
    PROVE  \E x \in Seq(WUnits), k \in Nat : Puts(e, x, l, k)
<1>1. PICK w \in Seq(WUnits), k \in Nat : w = wire[e] /\ torn' = [torn EXCEPT ![e] = k]
  <2>1. wire[e] \in Seq(WUnits) /\ torn[e] \in Nat /\ torn' = [torn EXCEPT ![e] = torn[e]]
    BY DEF SocketTypes
  <2> QED BY <2>1
<1>2. PICK x : x = w \o y
  OBVIOUS
<1>3. x \in Seq(WUnits)
  BY <1>2, Joined
<1>4. wire' = [wire EXCEPT ![e] = x]
  BY <1>1, <1>2
<1>5. Puts(e, x, l, k)
  BY <1>1, <1>4 DEF Puts
<1> QED BY <1>3, <1>5
LEMMA FailsTypes ==
    ASSUME SocketTypes, NEW e \in Ends, NEW who, NEW y \in Seq(WUnits), NEW n \in 0 .. Len(y) - 1,
           SendFails(e, who, y, n)
    PROVE  \E x \in Seq(WUnits), k \in Nat : Puts(e, x, "", k)
<1>1. PICK w \in Seq(WUnits), j, c \in Nat : w = wire[e] /\ j = torn[e] /\ c = Len(sent[e])
  <2>1. wire[e] \in Seq(WUnits) /\ torn[e] \in Nat /\ sent[e] \in Seq(WMessages)
    BY DEF SocketTypes
  <2>2. Len(sent[e]) \in Nat
    BY <2>1
  <2> QED BY <2>1, <2>2
<1>2. PICK p : p = SubSeq(y, 1, n)
  OBVIOUS
<1>3. p \in Seq(WUnits)
  BY <1>2
<1>4. PICK x : x = w \o p
  OBVIOUS
<1>5. x \in Seq(WUnits)
  BY <1>3, <1>4, Joined
<1>6. PICK i \in Nat : i = c + 1
  OBVIOUS
<1>7. lock' = [lock EXCEPT ![e] = ""]
  BY DEF SendFails
<1>8. CASE UNCHANGED <<wire, torn>>
  <2>1. wire' = [wire EXCEPT ![e] = w] /\ torn' = [torn EXCEPT ![e] = j]
    BY <1>1, <1>8 DEF SocketTypes
  <2>2. Puts(e, w, "", j)
    BY <1>7, <2>1 DEF Puts
  <2> QED BY <2>2
<1>9. CASE ~UNCHANGED <<wire, torn>>
  <2>1. /\ wire' = [wire EXCEPT ![e] = x]
        /\ torn' = [torn EXCEPT ![e] = c] \/ torn' = [torn EXCEPT ![e] = i]
    BY <1>1, <1>2, <1>4, <1>6, <1>9 DEF SendFails
  <2>2. Puts(e, x, "", c) \/ Puts(e, x, "", i)
    BY <1>7, <2>1 DEF Puts
  <2> QED BY <1>5, <2>2
<1> QED BY <1>8, <1>9

LEMMA SendPingTypes ==
    ASSUME WebsocketAssumption, SocketTypes, NEW e \in Ends, SendPing(e)
    PROVE  SocketTypes'
<1>1. PICK r \in Readers : r = reader[e] /\ Held(r) /\ r.pc = "ping"
  BY DEF SocketTypes, SendPing
<1>2. PICK y \in Seq(WUnits) : y = Header(e, "reader", Ping, 0)
  BY HeaderIsUnits DEF Ping
<1>3. UNCHANGED <<app, sent>>
  BY DEF SendPing
<1>4. ASSUME NEW n \in 0 .. 1, SendFails(e, "reader", y, n), Set(e, [r EXCEPT !.pc = "left"])
      PROVE  SocketTypes'
  <2>1. n \in 0 .. Len(y) - 1
    BY <1>4 DEF SendFails
  <2>2. PICK x \in Seq(WUnits), k \in Nat : Puts(e, x, "", k)
    BY <1>4, <2>1, FailsTypes
  <2>3. PICK q : q = [r EXCEPT !.pc = "left"]
    OBVIOUS
  <2>4. q \in Readers /\ Held(q) /\ reader' = [reader EXCEPT ![e] = q]
    BY <1>1, <1>4, <2>3 DEF Readers, ReaderPlaces, Held, Set
  <2> QED BY <1>3, <2>2, <2>4, WriterTypes
<1>5. CASE /\ wire' = [wire EXCEPT ![e] = @ \o y] /\ Set(e, [r EXCEPT !.pc = "loop", !.pings = @ + 1])
           /\ UNCHANGED <<lock, torn>>
  <2>1. PICK i \in Nat : i = r.pings + 1
    BY DEF Readers
  <2>2. PICK q : q = [r EXCEPT !.pc = "loop", !.pings = i]
    OBVIOUS
  <2>3. q \in Readers /\ q.pc = "loop" /\ q.pings = i /\ q.buf = r.buf
    BY <2>2 DEF Readers, ReaderPlaces
  <2>4. i <= MaxPing + 1
    <3>1. r.pings <= MaxPing /\ r.pings \in Nat /\ MaxPing \in Nat
      BY <1>1 DEF Held, Readers, WebsocketAssumption
    <3> QED BY <2>1, <3>1
  <2>5. Held(q)
    BY <1>1, <2>3, <2>4 DEF Held
  <2>6. reader' = [reader EXCEPT ![e] = q]
    BY <1>5, <2>1, <2>2 DEF Set
  <2>7. PICK l \in {"", "app", "reader"} : l = lock[e] /\ lock' = [lock EXCEPT ![e] = l]
    BY <1>5 DEF SocketTypes
  <2>8. \E x \in Seq(WUnits), k \in Nat : Puts(e, x, l, k)
    BY <1>5, <2>7, WrittenTypes
  <2> QED BY <1>3, <2>3, <2>5, <2>6, <2>8, WriterTypes
<1> QED BY <1>1, <1>2, <1>4, <1>5 DEF SendPing

LEMMA SendPongTypes ==
    ASSUME WebsocketAssumption, SocketTypes, NEW e \in Ends, SendPong(e)
    PROVE  SocketTypes'
<1>1. PICK r \in Readers : r = reader[e] /\ Held(r)
  BY DEF SocketTypes
<1>2. PICK d \in Seq(WUnits), c \in Nat : d = r.data /\ c = Len(d)
  <2>1. r.data \in Seq(WUnits)
    BY DEF Readers
  <2>2. Len(r.data) \in Nat
    BY <2>1
  <2> QED BY <2>1, <2>2
<1>3. PICK h \in Seq(WUnits) : h = Header(e, "reader", Pong, c)
  BY HeaderIsUnits DEF Pong
<1>4. UNCHANGED <<app, sent>>
  BY DEF SendPong
<1>5. ASSUME NEW y \in Seq(WUnits), NEW n \in 0 .. Len(y) - 1, SendFails(e, "reader", y, n),
             NEW q \in Readers, Held(q), Set(e, q)
      PROVE  SocketTypes'
  <2>1. PICK x \in Seq(WUnits), k \in Nat : Puts(e, x, "", k)
    BY <1>5, FailsTypes
  <2>2. reader' = [reader EXCEPT ![e] = q]
    BY <1>5 DEF Set
  <2> QED BY <1>4, <1>5, <2>1, <2>2, WriterTypes
<1>6. ASSUME NEW y \in Seq(WUnits), wire' = [wire EXCEPT ![e] = @ \o y], UNCHANGED torn,
             NEW l \in {"", "app", "reader"}, lock' = [lock EXCEPT ![e] = l],
             NEW q \in Readers, Held(q), Set(e, q)
      PROVE  SocketTypes'
  <2>1. PICK x \in Seq(WUnits), k \in Nat : Puts(e, x, l, k)
    BY <1>6, WrittenTypes
  <2>2. reader' = [reader EXCEPT ![e] = q]
    BY <1>6 DEF Set
  <2> QED BY <1>4, <1>6, <2>1, <2>2, WriterTypes
<1>7. ASSUME NEW p \in {"pongData", "loop", "left"}, NEW q,
             q = [r EXCEPT !.pc = p] \/ q = [r EXCEPT !.pc = p, !.data = << >>]
      PROVE  q \in Readers /\ Held(q)
  <2>1. << >> \in Seq(WUnits) /\ p \in ReaderPlaces
    BY <1>7 DEF ReaderPlaces
  <2>2. q \in Readers /\ q.pc = p /\ q.buf = r.buf /\ q.pings = r.pings
    BY <1>7, <2>1 DEF Readers
  <2> QED BY <1>1, <1>7, <2>2 DEF Held
<1>8. CASE SendHeader(e, "reader", Pong, c) /\ Set(e, [r EXCEPT !.pc = "pongData"])
  <2>1. PICK q : q = [r EXCEPT !.pc = "pongData"]
    OBVIOUS
  <2>2. wire' = [wire EXCEPT ![e] = @ \o h] /\ UNCHANGED torn /\ lock' = [lock EXCEPT ![e] = "reader"]
    BY <1>3, <1>8 DEF SendHeader
  <2>3. q \in Readers /\ Held(q) /\ Set(e, q)
    BY <1>7, <1>8, <2>1
  <2> QED BY <1>6, <2>2, <2>3
<1>9. CASE SendData(e, "reader", d) /\ Set(e, [r EXCEPT !.pc = "loop", !.data = << >>])
  <2>1. PICK q : q = [r EXCEPT !.pc = "loop", !.data = << >>]
    OBVIOUS
  <2>2. PICK y \in Seq(WUnits) : y = Masked(e, "reader", d)
    BY MaskedIsUnits
  <2>3. wire' = [wire EXCEPT ![e] = @ \o y] /\ UNCHANGED torn /\ lock' = [lock EXCEPT ![e] = ""]
    BY <1>9, <2>2 DEF SendData
  <2>4. q \in Readers /\ Held(q) /\ Set(e, q)
    BY <1>7, <1>9, <2>1
  <2> QED BY <1>6, <2>3, <2>4
<1>10. CASE \E n \in 0 .. Len(h) - 1 : SendFails(e, "reader", h, n) /\ Set(e, [r EXCEPT !.pc = "left"])
  <2>1. PICK q : q = [r EXCEPT !.pc = "left"]
    OBVIOUS
  <2>2. q \in Readers /\ Held(q)
    BY <1>7, <2>1
  <2> QED BY <1>5, <1>10, <2>1, <2>2
<1>11. CASE \E n \in 0 .. Len(d) - 1 : /\ SendFails(e, "reader", d, n)
                                       /\ Set(e, [r EXCEPT !.pc = IF n > 0 THEN "loop" ELSE "left", !.data = << >>])
  <2>1. PICK n \in 0 .. Len(d) - 1 : /\ SendFails(e, "reader", d, n)
                                     /\ Set(e, [r EXCEPT !.pc = IF n > 0 THEN "loop" ELSE "left", !.data = << >>])
    BY <1>11
  <2>2. PICK p \in {"loop", "left"} : p = IF n > 0 THEN "loop" ELSE "left"
    OBVIOUS
  <2>3. PICK q : q = [r EXCEPT !.pc = p, !.data = << >>]
    OBVIOUS
  <2>4. q \in Readers /\ Held(q)
    BY <1>7, <2>3
  <2>5. Set(e, q)
    BY <2>1, <2>2, <2>3
  <2> QED BY <1>5, <2>1, <2>4, <2>5
<1> QED BY <1>1, <1>2, <1>3, <1>8, <1>9, <1>10, <1>11 DEF SendPong

\* The ends: the handshake,
LEMMA AcceptTypes ==
    ASSUME SocketTypes, Accept
    PROVE  SocketTypes'
<1>1. PICK e \in Ends : e = "server"
  BY DEF Ends
<1>2. PICK r \in Readers : r = reader[e] /\ Held(r)
  BY DEF SocketTypes
<1>3. PICK w \in Seq(WUnits) : w = wire[e]
  BY DEF SocketTypes
<1>4. PICK x : x = Append(w, Response)
  OBVIOUS
<1>5. x \in Seq(WUnits)
  <2>1. Response \in WUnits
    BY UnitFits DEF Response, UnitNames
  <2> QED BY <1>4, <2>1
<1>6. PICK p, q : p = [r EXCEPT !.pc = "loop"] /\ q = [r EXCEPT !.pc = "left"]
  OBVIOUS
<1>7. p \in Readers /\ Held(p) /\ q \in Readers /\ Held(q)
  BY <1>2, <1>6 DEF Readers, ReaderPlaces, Held
<1>8. UNCHANGED <<open, lock, sent, got, torn>>
  BY DEF Accept
<1>9. CASE wire' = [wire EXCEPT ![e] = x] /\ Set(e, p) /\ UNCHANGED app
  BY <1>5, <1>7, <1>8, <1>9, ReaderTypes DEF Set
<1>10. CASE Set(e, q) /\ app' = [app EXCEPT ![e] = "gone"] /\ UNCHANGED wire
  <2>1. PICK s, b, a, l, z, k : Finds(e, e, s, b, a, l, z, k)
    BY TypesSeen
  <2>2. Steps(e, e, q, b, "gone", l, z, k)
    BY <1>8, <1>10, <2>1 DEF Steps, Finds, Set
  <2>3. b \in Seq(WUnits) /\ l \in {"", "app", "reader"} /\ z \in Seq(WMessages) /\ k \in Nat
    BY <2>1 DEF Finds
  <2> QED BY <1>7, <2>2, <2>3, TypesKept
<1>11. \/ wire' = [wire EXCEPT ![e] = x] /\ Set(e, p) /\ UNCHANGED app
       \/ Set(e, q) /\ app' = [app EXCEPT ![e] = "gone"] /\ UNCHANGED wire
  BY <1>1, <1>2, <1>3, <1>4, <1>6 DEF Accept
<1> QED BY <1>9, <1>10, <1>11

LEMMA ConnectTypes ==
    ASSUME WebsocketAssumption, SocketTypes, Connect
    PROVE  SocketTypes'
<1>1. PICK e, o \in Ends : e = "client" /\ o = "server" /\ o = Other(e)
  BY OtherEnds DEF Ends
<1>2. PICK r \in Readers : r = reader[e] /\ Held(r)
  BY DEF SocketTypes
<1>3. PICK w \in Seq(WUnits) : w = wire[o]
  BY DEF SocketTypes
<1>4. UNCHANGED <<lock, sent, got, torn>> /\ r.pc = "idle"
  BY <1>1, <1>2 DEF Connect
<1>5. PICK asked \in Nat : asked = Room + 1
  BY DEF WebsocketAssumption
<1>6. ASSUME NEW n \in Pieces(e, asked), Set(e, [r EXCEPT !.pc = "loop", !.buf = SubSeq(w, 2, n)]),
             Receive(e, n), UNCHANGED <<open, app>>
      PROVE  SocketTypes'
  <2>1. n \in 0 .. Len(w) /\ n <= asked
    BY <1>1, <1>3, PiecesFit
  <2>2. PICK b, x : b = SubSeq(w, 2, n) /\ x = SubSeq(w, n + 1, Len(w))
    OBVIOUS
  <2>3. b \in Seq(WUnits) /\ Len(b) <= Room
    <3>1. b \in Seq(WUnits) /\ Len(b) = IF 2 <= n THEN n - 2 + 1 ELSE 0
      <4>1. 2 \in Nat \ {0} /\ n \in Int /\ n <= Len(w)
        BY <2>1
      <4> QED BY <2>2, <4>1, PartOf
    <3>2. Room \in Nat
      BY DEF WebsocketAssumption
    <3> QED BY <1>5, <2>1, <3>1, <3>2
  <2>4. x \in Seq(WUnits)
    BY <2>1, <2>2
  <2>5. PICK q : q = [r EXCEPT !.pc = "loop", !.buf = b]
    OBVIOUS
  <2>6. q \in Readers /\ q.pc = "loop" /\ q.buf = b /\ q.pings = r.pings
    BY <2>3, <2>5 DEF Readers, ReaderPlaces
  <2>7. Held(q)
    BY <1>2, <2>3, <2>6 DEF Held
  <2>8. reader' = [reader EXCEPT ![e] = q] /\ wire' = [wire EXCEPT ![o] = x]
    BY <1>1, <1>3, <1>6, <2>2, <2>5 DEF Set, Receive
  <2> QED BY <1>4, <1>6, <2>4, <2>6, <2>7, <2>8, ReaderTypes
<1>7. CASE Set(e, [r EXCEPT !.pc = "done"]) /\ app' = [app EXCEPT ![e] = "gone"] /\ UNCHANGED wire
  <2>1. PICK s, b, a, l, z, k : Finds(e, e, s, b, a, l, z, k)
    BY TypesSeen
  <2>2. PICK q : q = [r EXCEPT !.pc = "done"]
    OBVIOUS
  <2>3. q \in Readers /\ Held(q)
    BY <1>2, <2>2 DEF Readers, ReaderPlaces, Held
  <2>4. Steps(e, e, q, b, "gone", l, z, k)
    BY <1>4, <1>7, <2>1, <2>2 DEF Steps, Finds, Set
  <2>5. b \in Seq(WUnits) /\ l \in {"", "app", "reader"} /\ z \in Seq(WMessages) /\ k \in Nat
    BY <2>1 DEF Finds
  <2> QED BY <2>3, <2>4, <2>5, TypesKept
<1> QED BY <1>1, <1>2, <1>3, <1>5, <1>6, <1>7 DEF Connect

\* and the application's writes and its close.
LEMMA AppSendTypes ==
    ASSUME WebsocketAssumption, SocketTypes, NEW e \in Ends, AppSend(e)
    PROVE  SocketTypes'
<1>1. PICK s \in Seq(WMessages), c \in Nat : s = sent[e] /\ c = Len(s) + 1 /\ (app[e] = "data" => s # << >>)
  <2>1. sent[e] \in Seq(WMessages) /\ (app[e] = "data" => sent[e] # << >>)
    BY DEF SocketTypes
  <2>2. Len(sent[e]) + 1 \in Nat
    BY <2>1
  <2> QED BY <2>1, <2>2
<1>2. PICK d : d = Last(s).data
  OBVIOUS
<1>3. app[e] = "data" => d \in Seq(WUnits)
  <2>1. s # << >> => Len(s) \in 1 .. Len(s)
    OBVIOUS
  <2>2. s # << >> => s[Len(s)] \in WMessages
    BY <2>1
  <2>3. s # << >> => s[Len(s)].data \in Seq(Plain)
    BY <2>2 DEF WMessages
  <2>4. Seq(Plain) \subseteq Seq(WUnits)
    BY DEF Plain
  <2>5. d = s[Len(s)].data
    BY <1>2 DEF Last
  <2> QED BY <1>1, <2>3, <2>4, <2>5
<1>4. PICK y : y = Masked(e, "app", d)
  OBVIOUS
<1>5. app[e] = "data" => y \in Seq(WUnits)
  BY <1>3, <1>4, MaskedIsUnits
<1>6. PICK op, n : op = Sends[e][c].op /\ n = Sends[e][c].n
  OBVIOUS
<1>7. PICK h : h = Header(e, "app", op, n)
  OBVIOUS
<1>8. c <= Len(Sends[e]) => /\ op \in Nat /\ n \in Nat /\ h \in Seq(WUnits)
                            /\ [op |-> op, data |-> Data(c, n)] \in WMessages
  <2> SUFFICES ASSUME c <= Len(Sends[e])
               PROVE  /\ op \in Nat /\ n \in Nat /\ h \in Seq(WUnits)
                      /\ [op |-> op, data |-> Data(c, n)] \in WMessages
    OBVIOUS
  <2>1. c \in 1 .. Len(Sends[e])
    <3>1. Len(Sends[e]) \in Nat
      BY DEF WebsocketAssumption
    <3>2. c >= 1
      BY <1>1
    <3> QED BY <3>1, <3>2
  <2>2. op \in Nat /\ n \in Nat /\ [op |-> op, data |-> Data(c, n)] \in WMessages
    BY <1>6, <2>1, MessageFits
  <2> QED BY <1>7, <2>2, HeaderIsUnits
<1>9. UNCHANGED <<open, reader, got>>
  BY DEF AppSend
<1>10. CASE /\ c <= Len(Sends[e]) /\ SendHeader(e, "app", op, n) /\ app' = [app EXCEPT ![e] = "data"]
            /\ sent' = [sent EXCEPT ![e] = Append(s, [op |-> op, data |-> Data(c, n)])]
  <2>1. PICK v \in WMessages : v = [op |-> op, data |-> Data(c, n)]
    BY <1>8, <1>10
  <2>2. PICK z : Adds(z, s, v)
    BY DEF Adds
  <2>3. z \in Seq(WMessages) /\ z # << >>
    <3>1. z \in Seq(WMessages) /\ Len(z) = Len(s) + 1
      BY <2>2, OneMore
    <3> QED BY <3>1
  <2>4. sent' = [sent EXCEPT ![e] = z]
    BY <1>10, <2>1, <2>2 DEF Adds
  <2>5. wire' = [wire EXCEPT ![e] = @ \o h] /\ UNCHANGED torn /\ lock' = [lock EXCEPT ![e] = "app"]
    BY <1>7, <1>10 DEF SendHeader
  <2>6. PICK x \in Seq(WUnits), k \in Nat : Puts(e, x, "app", k)
    BY <1>8, <1>10, <2>5, WrittenTypes
  <2> QED BY <1>9, <1>10, <2>3, <2>4, <2>6, SenderTypes
<1>11. CASE app[e] = "data" /\ SendData(e, "app", d) /\ app' = [app EXCEPT ![e] = "idle"] /\ UNCHANGED sent
  <2>1. wire' = [wire EXCEPT ![e] = @ \o y] /\ UNCHANGED torn /\ lock' = [lock EXCEPT ![e] = ""]
    BY <1>4, <1>11 DEF SendData
  <2>2. PICK x \in Seq(WUnits), k \in Nat : Puts(e, x, "", k)
    BY <1>5, <1>11, <2>1, WrittenTypes
  <2>3. sent' = [sent EXCEPT ![e] = s]
    BY <1>1, <1>11 DEF SocketTypes
  <2> QED BY <1>9, <1>11, <2>2, <2>3, SenderTypes
<1>12. ASSUME NEW u \in Seq(WUnits), NEW i \in 0 .. Len(u) - 1, SendFails(e, "app", u, i),
              NEW a \in {"idle", "gone"}, app' = [app EXCEPT ![e] = a], UNCHANGED sent
       PROVE  SocketTypes'
  <2>1. PICK x \in Seq(WUnits), k \in Nat : Puts(e, x, "", k)
    BY <1>12, FailsTypes
  <2>2. sent' = [sent EXCEPT ![e] = s]
    BY <1>1, <1>12 DEF SocketTypes
  <2>3. a \in {"idle", "data", "join", "gone"} /\ a # "data"
    BY <1>12
  <2> QED BY <1>9, <1>12, <2>1, <2>2, <2>3, SenderTypes
<1>13. CASE /\ \/ c <= Len(Sends[e]) /\ \E i \in 0 .. Len(h) - 1 : SendFails(e, "app", h, i)
               \/ app[e] = "data" /\ \E i \in 0 .. Len(y) - 1 : SendFails(e, "app", y, i)
            /\ \E a \in {"idle", "gone"} : app' = [app EXCEPT ![e] = a]
            /\ UNCHANGED sent
  BY <1>5, <1>8, <1>12, <1>13
<1> QED BY <1>1, <1>2, <1>4, <1>6, <1>7, <1>10, <1>11, <1>13 DEF AppSend

LEMMA AppCloseTypes ==
    ASSUME SocketTypes, NEW e \in Ends, AppClose(e)
    PROVE  SocketTypes'
<1>1. PICK r, w, a, l, z, k : Finds(e, e, r, w, a, l, z, k)
  BY TypesSeen
<1>2. /\ r \in Readers /\ Held(r) /\ w \in Seq(WUnits) /\ l \in {"", "app", "reader"} /\ z \in Seq(WMessages)
      /\ k \in Nat
  BY <1>1 DEF Finds
<1>3. PICK f \in BOOLEAN : f = (r.stop \/ e = "client")
  OBVIOUS
<1>4. PICK q : q = [r EXCEPT !.mustClose = TRUE, !.stop = f]
  OBVIOUS
<1>5. q \in Readers /\ Held(q)
  BY <1>2, <1>4 DEF Readers, Held
<1>6. UNCHANGED <<wire, lock, sent, got, torn>>
  BY DEF AppClose
<1>7. CASE Set(e, q) /\ app' = [app EXCEPT ![e] = IF e = "client" THEN "join" ELSE "gone"]
  <2>1. PICK b \in {"join", "gone"} : b = IF e = "client" THEN "join" ELSE "gone"
    OBVIOUS
  <2>2. Steps(e, e, q, w, b, l, z, k)
    BY <1>1, <1>6, <1>7, <2>1 DEF Steps, Finds, Set
  <2>3. b \in {"idle", "data", "join", "gone"} /\ b # "data"
    BY <2>1
  <2> QED BY <1>2, <1>5, <2>2, <2>3, TypesKept
<1>8. CASE app' = [app EXCEPT ![e] = "gone"] /\ UNCHANGED reader
  <2>1. Steps(e, e, r, w, "gone", l, z, k)
    BY <1>1, <1>6, <1>8 DEF Steps, Finds
  <2> QED BY <1>2, <2>1, TypesKept
<1>9. Set(e, [r EXCEPT !.mustClose = TRUE, !.stop = @ \/ e = "client"]) => Set(e, q)
  BY <1>3, <1>4
<1> QED BY <1>1, <1>7, <1>8, <1>9 DEF AppClose, Finds

\* Together: every step keeps the types,
LEMMA SocketTypesStep ==
    ASSUME WebsocketAssumption, SocketTypes, Next
    PROVE  SocketTypes'
<1>1. PICK e \in Ends : Reader(e) \/ AppSend(e) \/ AppClose(e)
  BY DEF Next
<1> QED BY <1>1, LeavesTypes, TakeFrameTypes, PullTypes, PullRestTypes, TimedOutTypes, SendPingTypes, SendPongTypes,
           AfterLoopTypes, AcceptTypes, ConnectTypes, AppSendTypes, AppCloseTypes DEF Reader

\* and a write that was cut stays so.
LEMMA CutStays ==
    ASSUME SocketTypes, Next, Quiet'
    PROVE  Quiet
<1>1. ASSUME NEW e \in Ends, NEW who, NEW y, NEW n, SendFails(e, who, y, n) PROVE Quiet
  <2>1. CASE UNCHANGED torn
    BY <2>1 DEF Quiet
  <2>2. CASE ~UNCHANGED torn
    <3>1. torn \in [Ends -> Nat] /\ torn[e] = 0
      BY <1>1, <2>2 DEF SendFails, SocketTypes
    <3>2. \E k : torn' = [torn EXCEPT ![e] = k]
      BY <1>1, <2>2 DEF SendFails
    <3>3. \A f \in Ends : torn[f] = 0
      BY <3>1, <3>2 DEF Quiet
    <3> QED BY <3>1, <3>3 DEF Quiet
  <2> QED BY <2>1, <2>2
<1>2. CASE UNCHANGED torn
  BY <1>2 DEF Quiet
<1>3. PICK e \in Ends : Reader(e) \/ AppSend(e) \/ AppClose(e)
  BY SMTT(30) DEF Next
<1>4. CASE Leave(e) \/ TakeFrame(e) \/ NoMemory(e) \/ Pull(e) \/ PullRest(e) \/ PullFailed(e) \/ TimedOut(e)
           \/ AfterLoop(e) \/ Accept \/ Connect \/ AppClose(e)
  BY <1>2, <1>4 DEF Leave, TakeFrame, NoMemory, Pull, PullRest, PullFailed, TimedOut, AfterLoop, Accept, Connect,
                    AppClose
<1>5. CASE SendPing(e)
  BY <1>1, <1>2, <1>5 DEF SendPing
<1>6. CASE SendPong(e)
  BY <1>1, <1>2, <1>6, ZenonT(60) DEF SendPong, SendHeader, SendData
<1>7. CASE AppSend(e)
  BY <1>1, <1>2, <1>7 DEF AppSend, SendHeader, SendData
<1> QED BY <1>3, <1>4, <1>5, <1>6, <1>7 DEF Reader

\* The types hold in any case, and the rest as long as no write was cut.
SocketHolds == SocketTypes /\ (Quiet => SocketInv)

LEMMA SocketBegins ==
    ASSUME WebsocketAssumption, Init
    PROVE  SocketHolds
<1>1. SocketInv
  BY InitSocket
<1>2. torn \in [Ends -> Nat]
  BY DEF Init
<1>3. ASSUME NEW e \in Ends PROVE Held(reader[e]) /\ (app[e] = "data" => sent[e] # << >>)
  <2>1. reader[e] = Free /\ app[e] = "idle"
    BY DEF Init
  <2>2. Len(<< >>) = 0
    OBVIOUS
  <2>3. Held(Free)
    BY <2>2 DEF Held, Free, WebsocketAssumption
  <2> QED BY <2>1, <2>3
<1>4. SocketTypes
  BY <1>1, <1>2, <1>3 DEF SocketTypes, SocketInv, WTypes
<1> QED BY <1>1, <1>4 DEF SocketHolds

LEMMA SocketGoesOn ==
    ASSUME WebsocketAssumption, SocketHolds, Next
    PROVE  SocketHolds'
<1>1. SocketTypes'
  BY SocketTypesStep DEF SocketHolds
<1>2. Quiet' => SocketInv'
  BY CutStays, SocketStep DEF SocketHolds
<1> QED BY <1>1, <1>2 DEF SocketHolds

LEMMA SocketRests ==
    ASSUME SocketHolds, UNCHANGED vars
    PROVE  SocketHolds'
<1>1. UNCHANGED <<wire, reader, sent, app, lock, torn>>
  BY DEF vars
<1>2. SocketTypes'
  BY <1>1 DEF SocketHolds, SocketTypes, Held
<1>3. Quiet' => Quiet
  BY <1>1 DEF Quiet
<1>4. Quiet' => SocketInv'
  BY <1>3, SocketStays DEF SocketHolds
<1> QED BY <1>2, <1>4 DEF SocketHolds

LEMMA SocketPromises ==
    ASSUME SocketHolds
    PROVE  TypeOK /\ ((\A e \in Ends : Whole(e)) => MessagesAreWhole)
<1>1. SocketTypes
  BY DEF SocketHolds
<1>2. ASSUME NEW e \in Ends
      PROVE  /\ reader[e].pc \in ReaderPlaces /\ Len(reader[e].buf) <= Room
             /\ reader[e].pc = "rest" => Len(reader[e].data) < reader[e].need
             /\ reader[e].pings <= MaxPing + 1
  BY <1>1 DEF SocketTypes, Held, Readers
<1>3. TypeOK
  BY <1>1, <1>2 DEF TypeOK, SocketTypes, ReaderPlaces
<1>4. ASSUME \A e \in Ends : Whole(e) PROVE MessagesAreWhole
  <2>1. Quiet
    BY <1>1, <1>4 DEF Quiet, Whole, SocketTypes
  <2> QED BY <2>1, SocketSafe DEF SocketHolds
<1> QED BY <1>3, <1>4

\* mg_websocket_write_exec, read_websocket: whatever pieces the network brings, and whatever the
\* readers write between the messages of the applications, each callback is given the messages
\* that the other end's application has sent, in their order, and all of each, as long as no
\* write was cut; and a buffer holds no more than there is room for, in any case.
THEOREM WebsocketSafe ==
    ASSUME WebsocketAssumption
    PROVE  Spec => [](TypeOK /\ ((\A e \in Ends : Whole(e)) => MessagesAreWhole))
<1>1. Init => SocketHolds
  BY SocketBegins
<1>2. SocketHolds /\ [Next]_vars => SocketHolds'
  BY SocketGoesOn, SocketRests
<1>3. SocketHolds => TypeOK /\ ((\A e \in Ends : Whole(e)) => MessagesAreWhole)
  BY SocketPromises
<1> QED BY <1>1, <1>2, <1>3, PTL DEF Spec
=============================================================================
