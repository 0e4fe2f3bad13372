---------------------------- MODULE PrintfProofs ----------------------------
(***************************************************************************)
(* Proofs about Printf, for every number, width and room: what             *)
(* qc_sprintf_num writes reads back as the number, rounding of %f carries, *)
(* and a buffer that is too short only cuts the text.                      *)
(*                                                                         *)
(* The digits of a number are a recursive function.  That such a function  *)
(* exists is proved here from the well-foundedness of <, and facts about   *)
(* all numbers by their least counterexample.                              *)
(***************************************************************************)
EXTENDS Printf, WellFoundedInduction, SequenceTheorems, TLAPS

LEMMA LeastExists ==
  ASSUME NEW S \in SUBSET Nat, S # {}
  PROVE  \E x \in S : \A y \in S : x <= y
  <1> DEFINE R == {ss \in Nat \X Nat : ss[1] < ss[2]}
  <1>1. IsWellFoundedOn(R, Nat)
    BY NatLessThanWellFounded DEF OpToRel
  <1>2. PICK x \in S : \A y \in S : ~(<<y, x>> \in R)
    <2> HIDE DEF R
    <2> QED BY <1>1, WFMin
  <1>3. ASSUME NEW y \in S PROVE x <= y
    <2>1. x \in Nat /\ y \in Nat
      OBVIOUS
    <2>2. y < x => <<y, x>> \in R
      BY <2>1
    <2> QED BY <1>2, <2>1, <2>2
  <1> QED BY <1>3

-----------------------------------------------------------------------------
(* Functions by recursion on numbers: f[n] is first[n] for n in Base, and  *)
(* is made by then from f[down[n]] otherwise.                              *)

Descends(D, Base, down) ==
    /\ D \in SUBSET Nat
    /\ \A n \in D : 0 .. n \subseteq D
    /\ \A n \in D \ Base : down[n] \in Nat /\ down[n] < n

By(f, n, Base, down, first, then) ==
    f[n] = IF n \in Base THEN first[n] ELSE then[<<n, f[down[n]]>>]

ByAll(f, D, Base, down, first, then) ==
    \A n \in D : By(f, n, Base, down, first, then)

(* Such functions agree as far as they are defined.                        *)
LEMMA RecursionUnique ==
  ASSUME NEW D, NEW Base, NEW down, NEW first, NEW then, NEW f, NEW g,
         Descends(D, Base, down),
         ByAll(f, D, Base, down, first, then),
         ByAll(g, D, Base, down, first, then)
  PROVE  \A n \in D : f[n] = g[n]
  <1> DEFINE Bad == {n \in D : f[n] # g[n]}
  <1>1. SUFFICES ASSUME Bad # {} PROVE FALSE
    OBVIOUS
  <1>2. PICK n \in Bad : \A m \in Bad : n <= m
    <2>1. Bad \in SUBSET Nat
      BY DEF Descends
    <2> HIDE DEF Bad
    <2> QED BY <1>1, <2>1, LeastExists
  <1>3. n \in D \ Base
    BY <1>2 DEF By, ByAll
  <1>4. down[n] \in D /\ ~(n <= down[n])
    BY <1>3 DEF Descends
  <1>5. f[down[n]] = g[down[n]]
    BY <1>2, <1>4
  <1> QED BY <1>2, <1>3, <1>5 DEF By, ByAll

LEMMA RecursionExists ==
  ASSUME NEW D, NEW V, NEW Base, NEW down, NEW first, NEW then,
         Descends(D, Base, down),
         \A n \in D \cap Base : first[n] \in V,
         \A n \in D \ Base : \A v \in V : then[<<n, v>>] \in V
  PROVE  \E f \in [D -> V] : ByAll(f, D, Base, down, first, then)
  <1>0. /\ D \in SUBSET Nat
        /\ \A n \in D : 0 .. n \subseteq D
        /\ \A n \in D \ Base : down[n] \in Nat /\ down[n] < n
    BY DEF Descends
  <1> DEFINE Upto(g, n) == /\ g \in [0 .. n -> V]
                           /\ \A k \in 0 .. n : By(g, k, Base, down, first, then)
             Bad == {n \in D : ~\E g : Upto(g, n)}
  <1>1. Bad = {}
    <2>1. SUFFICES ASSUME Bad # {} PROVE FALSE
      OBVIOUS
    <2>2. PICK n \in Bad : \A m \in Bad : n <= m
      <3>1. Bad \in SUBSET Nat
        BY <1>0
      <3> HIDE DEF Bad
      <3> QED BY <2>1, <3>1, LeastExists
    <2>3. /\ n \in D /\ n \in Nat /\ 0 .. n \subseteq D
          /\ n \notin Base => down[n] \in Nat /\ down[n] < n
      BY <1>0, <2>2
    <2>4. CASE n = 0
      <3>1. n \in Base
        BY <2>3, <2>4
      <3>2. Upto([k \in 0 .. n |-> first[k]], n)
        <4>1. \A k \in 0 .. n : k = n
          BY <2>4
        <4> QED BY <2>3, <3>1, <4>1 DEF By
      <3> QED BY <2>2, <3>2
    <2>5. CASE n # 0
      <3>1. n - 1 \in D /\ ~(n <= n - 1)
        BY <2>3, <2>5
      <3>2. PICK g : Upto(g, n - 1)
        BY <2>2, <3>1
      <3> DEFINE e == [k \in 0 .. n |-> IF k < n THEN g[k]
                                        ELSE IF k \in Base THEN first[k]
                                        ELSE then[<<k, g[down[k]]>>]]
      <3>3. \A k \in 0 .. n - 1 : k \in 0 .. n /\ k < n /\ e[k] = g[k] /\ g[k] \in V
        BY <2>3, <2>5, <3>2
      <3>4. n \notin Base => down[n] \in 0 .. n - 1
        BY <2>3, <2>5
      <3>5. e[n] \in V
        <4>1. CASE n \in Base
          BY <4>1, <2>3
        <4>2. CASE n \notin Base
          <5>1. g[down[n]] \in V
            BY <4>2, <3>3, <3>4
          <5>2. e[n] = then[<<n, g[down[n]]>>]
            BY <4>2, <2>3
          <5> QED BY <4>2, <5>1, <5>2, <2>3
        <4> QED BY <4>1, <4>2
      <3>6. e[n] = IF n \in Base THEN first[n] ELSE then[<<n, g[down[n]]>>]
        BY <2>3
      <3>7. e = [k \in 0 .. n |-> e[k]]
        OBVIOUS
      <3>8. \A k \in 0 .. n : k = n \/ k \in 0 .. n - 1
        BY <2>3
      <3> HIDE DEF e
      <3>9. e \in [0 .. n -> V]
        BY <3>3, <3>5, <3>7, <3>8
      <3>10. ASSUME NEW k \in 0 .. n PROVE By(e, k, Base, down, first, then)
        <4>1. CASE k = n
          BY <4>1, <3>3, <3>4, <3>6 DEF By
        <4>2. CASE k # n
          <5>1. k \in 0 .. n - 1
            BY <4>2, <3>8
          <5>2. By(g, k, Base, down, first, then) /\ e[k] = g[k]
            BY <5>1, <3>2, <3>3
          <5>3. k \notin Base => down[k] \in 0 .. n - 1
            BY <5>1, <2>3, <1>0
          <5>4. k \notin Base => e[down[k]] = g[down[k]]
            BY <5>3, <3>3
          <5> QED BY <5>2, <5>4 DEF By
        <4> QED BY <4>1, <4>2
      <3>11. Upto(e, n)
        BY <3>9, <3>10
      <3> QED BY <2>2, <3>11
    <2> QED BY <2>4, <2>5
  <1> DEFINE G(n) == CHOOSE g : Upto(g, n)
             f == [n \in D |-> G(n)[n]]
  <1>2. \A n \in D : Upto(G(n), n)
    BY <1>1
  <1>3. /\ f = [n \in D |-> f[n]]
        /\ \A n \in D : f[n] = G(n)[n]
    OBVIOUS
  <1> HIDE DEF G, f
  <1>4. ASSUME NEW n \in D, NEW m \in 0 .. n PROVE G(n)[m] = f[m]
    <2>1. m \in D /\ n \in Nat /\ m \in Nat
      BY <1>0
    <2>2. Upto(G(n), n) /\ Upto(G(m), m)
      BY <1>2, <2>1
    <2>3. \A k \in 0 .. m : By(G(n), k, Base, down, first, then)
                            /\ By(G(m), k, Base, down, first, then)
      BY <2>1, <2>2
    <2> HIDE DEF Upto
    <2>4. Descends(0 .. m, Base, down)
      BY <1>0, <2>1 DEF Descends
    <2>5. ByAll(G(n), 0 .. m, Base, down, first, then)
      BY <2>3 DEF ByAll
    <2>6. ByAll(G(m), 0 .. m, Base, down, first, then)
      BY <2>3 DEF ByAll
    <2>7. \A k \in 0 .. m : G(n)[k] = G(m)[k]
      BY <2>4, <2>5, <2>6, RecursionUnique
    <2> QED BY <2>1, <2>7, <1>3
  <1>5. f \in [D -> V]
    <2>1. ASSUME NEW n \in D PROVE G(n)[n] \in V
      <3>1. n \in 0 .. n
        BY <1>0
      <3> QED BY <1>2, <3>1
    <2> QED BY <2>1, <1>3
  <1>6. ASSUME NEW n \in D PROVE By(f, n, Base, down, first, then)
    <2>1. n \in 0 .. n
      BY <1>0
    <2>2. By(G(n), n, Base, down, first, then)
      BY <2>1, <1>2
    <2>3. G(n)[n] = f[n]
      BY <1>3
    <2>4. n \notin Base => down[n] \in 0 .. n
      BY <1>0
    <2>5. n \notin Base => G(n)[down[n]] = f[down[n]]
      BY <1>4, <2>4
    <2> QED BY <2>2, <2>3, <2>5 DEF By
  <1> QED BY <1>5, <1>6 DEF ByAll

-----------------------------------------------------------------------------
(* Characters.                                                             *)

LEMMA DigitChars ==
  ASSUME NEW v \in 0 .. 15
  PROVE  /\ LowerCase[v + 1] \in Char \ {"sp", "-", "."}
         /\ UpperCase[v + 1] \in Char \ {"sp", "-", "."}
         /\ CharValue(LowerCase[v + 1]) = v
         /\ CharValue(UpperCase[v + 1]) = v
         /\ v > 0 => LowerCase[v + 1] # "0" /\ UpperCase[v + 1] # "0"
         /\ CharValue("0") = 0
  <1>1. LowerCase[v + 1] \in Char \ {"sp", "-", "."}
    <2>1. LowerCase[v + 1] \in {LowerCase[i] : i \in 1..16}
      <3>1. v + 1 \in 1..16
        OBVIOUS
      <3> QED BY <3>1, Zenon
    <2>2. LowerCase[v + 1] # "sp" /\ LowerCase[v + 1] # "-" /\ LowerCase[v + 1] # "."
      BY DEF LowerCase
    <2> QED BY <2>1, <2>2, CharAssumption, Zenon
  <1>2. UpperCase[v + 1] \in Char \ {"sp", "-", "."}
    <2>1. UpperCase[v + 1] \in {UpperCase[i] : i \in 1..16}
      <3>1. v + 1 \in 1..16
        OBVIOUS
      <3> QED BY <3>1, Zenon
    <2>2. UpperCase[v + 1] # "sp" /\ UpperCase[v + 1] # "-" /\ UpperCase[v + 1] # "."
      BY DEF UpperCase
    <2> QED BY <2>1, <2>2, CharAssumption, Zenon
  <1>3. \A w \in 0 .. 15 : LowerCase[w + 1] = LowerCase[v + 1] => w = v
     BY DEF LowerCase
  <1>4. \A w \in 0 .. 15 : UpperCase[w + 1] = LowerCase[v + 1] => w = v
     BY DEF LowerCase, UpperCase
  <1>5. \A w \in 0 .. 15 : LowerCase[w + 1] = UpperCase[v + 1] => w = v
     BY DEF LowerCase, UpperCase
  <1>6. \A w \in 0 .. 15 : UpperCase[w + 1] = UpperCase[v + 1] => w = v
     BY DEF UpperCase
  <1>7. CharValue(LowerCase[v + 1]) = v
     BY <1>3, <1>4 DEF CharValue
  <1>8. CharValue(UpperCase[v + 1]) = v
     BY <1>5, <1>6 DEF CharValue
  <1>9. v > 0 => LowerCase[v + 1] # "0" /\ UpperCase[v + 1] # "0"
     BY DEF LowerCase, UpperCase
  <1>10. CharValue("0") = 0
    <2>1. \A w \in 0 .. 15 : LowerCase[w + 1] = "0" => w = 0
      BY DEF LowerCase
    <2>2. \A w \in 0 .. 15 : UpperCase[w + 1] = "0" => w = 0
      BY DEF UpperCase
    <2>3. LowerCase[0 + 1] = "0"
      BY DEF LowerCase
    <2> QED BY <2>1, <2>2, <2>3 DEF CharValue
  <1> QED BY <1>1, <1>2, <1>7, <1>8, <1>9, <1>10

-----------------------------------------------------------------------------
(* The digits of a number.                                                 *)

LEMMA Quotient ==
  ASSUME NEW base \in Nat, base >= 2, NEW n \in Nat
  PROVE  /\ n \div base \in Nat /\ n % base \in 0 .. base - 1
         /\ n = base * (n \div base) + (n % base)
         /\ n >= base => n \div base < n /\ n \div base >= 1
  <1>1. n \div base \in Nat /\ n % base \in 0 .. base - 1
    OBVIOUS
  <1>2. n = base * (n \div base) + (n % base)
    OBVIOUS
  <1>3. ASSUME NEW q \in Nat, NEW r \in 0 .. base - 1, n = base * q + r, n >= base
        PROVE  q < n /\ q >= 1
    <2>1. base * q >= 2 * q
      OBVIOUS
    <2>2. q = 0 => base * q = 0
      OBVIOUS
    <2> QED BY <1>3, <2>1, <2>2
  <1> QED BY <1>1, <1>2, <1>3

LEMMA DigitsRecursion ==
  ASSUME NEW base \in Nat, base >= 2
  PROVE  /\ DigitsTo(base) \in [Nat -> Seq(0 .. base - 1)]
         /\ \A n \in Nat : DigitsTo(base)[n] =
              (IF n < base THEN <<>> ELSE DigitsTo(base)[n \div base]) \o <<n % base>>
  <1> DEFINE V == Seq(0 .. base - 1)
             Base == 0 .. base - 1
             down == [n \in Nat |-> n \div base]
             first == [n \in Nat |-> <<n>>]
             W == V \cup {DigitsTo(base)[n] : n \in Nat}
             then == [p \in Nat \X W |-> p[2] \o <<p[1] % base>>]
  <1>1. /\ \A n \in Nat : down[n] = n \div base /\ first[n] = <<n>>
        /\ \A n \in Nat, v \in W : then[<<n, v>>] = v \o <<n % base>>
        /\ V \subseteq W /\ \A n \in Nat : DigitsTo(base)[n] \in W
    OBVIOUS
  <1>2. \A n \in Nat : /\ <<n % base>> \in V /\ <<>> \o <<n % base>> = <<n % base>>
                       /\ n \in Base => n % base = n
    <2> TAKE n \in Nat
    <2>1. n % base \in 0 .. base - 1
      BY Quotient
    <2>2. <<n % base>> \in V /\ <<>> \o <<n % base>> = <<n % base>>
      <3>1. \A r \in 0 .. base - 1 : <<r>> \in V
        OBVIOUS
      <3>2. <<n % base>> \in V
        BY <2>1, <3>1
      <3> QED BY <3>2, ConcatEmptySeq DEF V
    <2>3. n \in Base => n % base = n
      OBVIOUS
    <2> QED BY <2>2, <2>3
  <1>3. \A n \in Nat, v \in V : v \o <<n % base>> \in V
    BY <1>2, ConcatProperties DEF V
  <1>4. Descends(Nat, Base, down)
    <2>1. \A n \in Nat \ Base : n >= base
      OBVIOUS
    <2> QED BY <1>1, <2>1, Quotient DEF Descends
  <1> HIDE DEF V, W, Base, down, first, then
  <1>5. PICK f \in [Nat -> V] : ByAll(f, Nat, Base, down, first, then)
    <2>1. \A n \in Nat \cap Base : first[n] \in V
      BY <1>1, <1>2
    <2>2. \A n \in Nat \ Base : \A v \in V : then[<<n, v>>] \in V
      BY <1>1, <1>3
    <2> QED BY <1>4, <2>1, <2>2, RecursionExists
  <1>6. \A n \in Nat : f[n] = (IF n < base THEN <<>> ELSE f[n \div base]) \o <<n % base>>
    <2> TAKE n \in Nat
    <2>1. f[n] = IF n \in Base THEN <<n>> ELSE f[n \div base] \o <<n % base>>
      <3>1. n \div base \in Nat /\ down[n] = n \div base /\ first[n] = <<n>>
        BY <1>1, Quotient
      <3>2. then[<<n, f[n \div base]>>] = f[n \div base] \o <<n % base>>
        BY <1>1, <3>1
      <3>3. f[n] = IF n \in Base THEN first[n] ELSE then[<<n, f[down[n]]>>]
        BY <1>5 DEF ByAll, By
      <3> QED BY <3>1, <3>2, <3>3
    <2>2. n \in Base <=> n < base
      BY DEF Base
    <2> QED BY <1>2, <2>1, <2>2
  <1>7. f = [n \in Nat |-> (IF n < base THEN <<>> ELSE f[n \div base]) \o <<n % base>>]
    BY <1>6
  <1>8. DigitsTo(base) = [n \in Nat |-> (IF n < base THEN <<>>
          ELSE DigitsTo(base)[n \div base])
                                        \o <<n % base>>]
    BY <1>7 DEF DigitsTo
  <1>9. \A n \in Nat : DigitsTo(base)[n] =
              (IF n < base THEN <<>> ELSE DigitsTo(base)[n \div base]) \o <<n % base>>
    BY <1>8
  <1>10. ByAll(DigitsTo(base), Nat, Base, down, first, then)
    <2> DEFINE g == DigitsTo(base)
    <2>1. \A n \in Nat : g[n] = (IF n < base THEN <<>> ELSE g[n \div base]) \o <<n % base>>
      BY <1>9
    <2> HIDE DEF g
    <2>2. ASSUME NEW n \in Nat PROVE By(g, n, Base, down, first, then)
      <3>1. n \in Base <=> n < base
        BY DEF Base
      <3>2. n \notin Base => then[<<n, g[down[n]]>>] = g[n \div base] \o <<n % base>>
        <4>1. n \div base \in Nat /\ down[n] = n \div base
          BY <1>1, Quotient
        <4>2. g[n \div base] \in W
          BY <4>1, <1>1 DEF g
        <4> QED BY <4>1, <4>2, <1>1
      <3>3. n \in Base => g[n] = first[n]
        <4> HAVE n \in Base
        <4>1. g[n] = <<>> \o <<n % base>>
          BY <2>1, <3>1
        <4> QED BY <4>1, <1>1, <1>2
      <3> QED BY <2>1, <3>1, <3>2, <3>3 DEF By
    <2> QED BY <2>2 DEF ByAll, g
  <1>11. \A n \in Nat : DigitsTo(base)[n] = f[n]
    BY <1>4, <1>5, <1>10, RecursionUnique
  <1>12. DigitsTo(base) \in [Nat -> V]
    BY <1>8, <1>11
  <1> QED BY <1>9, <1>12 DEF V

-----------------------------------------------------------------------------
(* Numerals.                                                               *)

BaseOf(hex) == IF hex = 0 THEN 10 ELSE 16
CharsOf(hex) == IF hex = 2 THEN UpperCase ELSE LowerCase

DigitChar == {c \in Char : c \notin {"sp", "-", "."} /\ CharValue(c) \in 0 .. 15}

LEMMA CharsOfDigit ==
  ASSUME NEW hex \in 0 .. 2, NEW v \in 0 .. BaseOf(hex) - 1
  PROVE  /\ CharsOf(hex)[v + 1] \in DigitChar
         /\ CharValue(CharsOf(hex)[v + 1]) = v
         /\ v > 0 => CharsOf(hex)[v + 1] # "0"
  <1>1. v \in 0 .. 15
    BY DEF BaseOf
  <1> QED BY <1>1, DigitChars DEF CharsOf, DigitChar

LEMMA NumeralRecursion ==
  ASSUME NEW n \in Nat, NEW hex \in 0 .. 2
  PROVE  /\ Numeral(n, hex) \in Seq(DigitChar)
         /\ Numeral(n, hex) =
              (IF n < BaseOf(hex) THEN <<>> ELSE Numeral(n \div BaseOf(hex), hex))
              \o <<CharsOf(hex)[(n % BaseOf(hex)) + 1]>>
  <1> DEFINE base == BaseOf(hex)
             Text(d) == [i \in 1 .. Len(d) |-> CharsOf(hex)[d[i] + 1]]
             V == Seq(0 .. base - 1)
  <1>1. base \in Nat /\ base >= 2
    BY DEF BaseOf
  <1>2. \A m \in Nat : Numeral(m, hex) = Text(DigitsTo(base)[m])
    BY DEF Numeral, BaseOf, CharsOf
  <1>3. \A v \in 0 .. base - 1 : CharsOf(hex)[v + 1] \in DigitChar
    BY CharsOfDigit
  <1> HIDE DEF base
  <1>4. ASSUME NEW d \in V PROVE Text(d) \in Seq(DigitChar) /\ Len(Text(d)) = Len(d)
    <2>1. Len(d) \in Nat /\ \A i \in 1 .. Len(d) : d[i] \in 0 .. base - 1
      <3> DEFINE S == 0 .. base - 1
      <3>1. d \in Seq(S)
        OBVIOUS
      <3> HIDE DEF S
      <3>2. Len(d) \in Nat /\ \A i \in 1 .. Len(d) : d[i] \in S
        BY <3>1
      <3> QED BY <3>2 DEF S
    <2>2. \A i \in 1 .. Len(d) : CharsOf(hex)[d[i] + 1] \in DigitChar
      BY <2>1, <1>3
    <2> QED BY <2>1, <2>2
  <1>5. ASSUME NEW d \in V, NEW v \in 0 .. base - 1
        PROVE  Text(d \o <<v>>) = Text(d) \o <<CharsOf(hex)[v + 1]>>
    <2> DEFINE e == d \o <<v>>
               c == <<CharsOf(hex)[v + 1]>>
    <2>1. e \in V /\ Len(e) = Len(d) + 1 /\ Len(d) \in Nat
          /\ \A i \in 1 .. Len(e) : e[i] = IF i <= Len(d) THEN d[i] ELSE v
      BY ConcatProperties
    <2>2. Text(d) \in Seq(DigitChar) /\ Len(Text(d)) = Len(d)
          /\ Text(e) \in Seq(DigitChar) /\ Len(Text(e)) = Len(e)
      BY <1>4, <2>1
    <2>3. c \in Seq(DigitChar) /\ Len(c) = 1 /\ c[1] = CharsOf(hex)[v + 1]
      BY <1>3
    <2>4. /\ \A i \in 1 .. Len(d) : Text(d)[i] = CharsOf(hex)[d[i] + 1]
          /\ \A i \in 1 .. Len(e) : Text(e)[i] = CharsOf(hex)[e[i] + 1]
      OBVIOUS
    <2> HIDE DEF e, c, Text, V
    <2>5. Text(d) \o c \in Seq(DigitChar) /\ Len(Text(d) \o c) = Len(d) + 1
          /\ \A i \in 1 .. Len(d) + 1 : (Text(d) \o c)[i] =
               IF i <= Len(d) THEN Text(d)[i] ELSE c[i - Len(d)]
      <3>1. /\ Text(d) \o c \in Seq(DigitChar)
            /\ Len(Text(d) \o c) = Len(Text(d)) + Len(c)
            /\ \A i \in 1 .. Len(Text(d)) + Len(c) :
                 (Text(d) \o c)[i] = IF i <= Len(Text(d)) THEN Text(d)[i]
                   ELSE c[i - Len(Text(d))]
        BY <2>2, <2>3, ConcatProperties
      <3> QED BY <3>1, <2>2, <2>3
    <2>6. \A i \in 1 .. Len(Text(e)) : Text(e)[i] = (Text(d) \o c)[i]
      <3> TAKE i \in 1 .. Len(Text(e))
      <3>1. i \in 1 .. Len(e) /\ i \in 1 .. Len(d) + 1
        BY <2>1, <2>2
      <3>2. CASE i <= Len(d)
        <4>1. i \in 1 .. Len(d)
          BY <3>1, <3>2, <2>1
        <4>2. e[i] = d[i] /\ (Text(d) \o c)[i] = Text(d)[i]
          BY <3>1, <3>2, <2>1, <2>5
        <4> QED BY <4>1, <4>2, <3>1, <2>4
      <3>3. CASE ~(i <= Len(d))
        <4>1. e[i] = v /\ (Text(d) \o c)[i] = c[1]
          BY <3>1, <3>3, <2>1, <2>5
        <4> QED BY <4>1, <3>1, <2>3, <2>4
      <3> QED BY <3>2, <3>3
    <2>7. Text(e) = Text(d) \o c
      BY <2>1, <2>2, <2>5, <2>6, SeqEqual
    <2> QED BY <2>7 DEF e, c
  <1>6. Text(<<>>) = <<>>
    OBVIOUS
  <1> HIDE DEF Text
  <1>7. /\ DigitsTo(base)[n] \in V
        /\ DigitsTo(base)[n] = (IF n < base THEN <<>>
             ELSE DigitsTo(base)[n \div base]) \o <<n % base>>
        /\ n \div base \in Nat /\ n % base \in 0 .. base - 1
        /\ DigitsTo(base)[n \div base] \in V
    <2>1. /\ DigitsTo(base) \in [Nat -> V]
          /\ DigitsTo(base)[n] = (IF n < base THEN <<>>
               ELSE DigitsTo(base)[n \div base]) \o <<n % base>>
      BY <1>1, DigitsRecursion
    <2>2. n \div base \in Nat /\ n % base \in 0 .. base - 1
      BY <1>1, Quotient
    <2> HIDE DEF V
    <2> QED BY <2>1, <2>2
  <1>8. <<>> \in V
    OBVIOUS
  <1> HIDE DEF V
  <1>9. CASE n < base
    <2>1. DigitsTo(base)[n] = <<>> \o <<n % base>>
      BY <1>7, <1>9
    <2>2. Text(DigitsTo(base)[n]) = <<>> \o <<CharsOf(hex)[(n % base) + 1]>>
      BY <2>1, <1>5, <1>6, <1>7, <1>8
    <2> QED BY <1>2, <1>4, <1>7, <1>9, <2>2 DEF base
  <1>10. CASE ~(n < base)
    <2>1. DigitsTo(base)[n] = DigitsTo(base)[n \div base] \o <<n % base>>
      BY <1>7, <1>10
    <2>2. Text(DigitsTo(base)[n])
            = Text(DigitsTo(base)[n \div base]) \o <<CharsOf(hex)[(n % base) + 1]>>
      BY <2>1, <1>5, <1>7
    <2> QED BY <1>2, <1>4, <1>7, <1>10, <2>2 DEF base
  <1> QED BY <1>9, <1>10

-----------------------------------------------------------------------------
(* Reading a numeral.                                                      *)

Readable == DigitChar \cup {"sp"}

Reads(base, t, f) ==
    f = [i \in 0 .. Len(t) |->
          IF i = 0 THEN 0
          ELSE IF t[i] = "sp" THEN f[i - 1] ELSE base * f[i - 1] + CharValue(t[i])]

LEMMA ReadsStep ==
  ASSUME NEW base, NEW t, NEW f, Len(t) \in Nat, Reads(base, t, f)
  PROVE  /\ f[0] = 0
         /\ \A i \in 1 .. Len(t) :
              f[i] = IF t[i] = "sp" THEN f[i - 1] ELSE base * f[i - 1] + CharValue(t[i])
  <1> DEFINE F(i) == IF i = 0 THEN 0
                     ELSE IF t[i] = "sp" THEN f[i - 1] ELSE base * f[i - 1] + CharValue(t[i])
  <1>1. f = [i \in 0 .. Len(t) |-> F(i)]
    BY DEF Reads
  <1>2. \A i \in 0 .. Len(t) : f[i] = F(i)
    <2> HIDE DEF F
    <2> QED BY <1>1
  <1>3. 0 \in 0 .. Len(t) /\ \A i \in 1 .. Len(t) : i \in 0 .. Len(t) /\ i # 0
    OBVIOUS
  <1> QED BY <1>2, <1>3

LEMMA ReadsUnique ==
  ASSUME NEW base, NEW t, NEW f, NEW g, Len(t) \in Nat, Reads(base, t, f), Reads(base, t, g)
  PROVE  f[Len(t)] = g[Len(t)]
  <1> DEFINE Bad == {i \in 0 .. Len(t) : f[i] # g[i]}
  <1>1. SUFFICES ASSUME Bad # {} PROVE FALSE
    OBVIOUS
  <1>2. PICK n \in Bad : \A m \in Bad : n <= m
    <2>1. Bad \in SUBSET Nat
      OBVIOUS
    <2> HIDE DEF Bad
    <2> QED BY <1>1, <2>1, LeastExists
  <1>11. /\ f[0] = 0
        /\ \A i \in 1 .. Len(t) :
             f[i] = IF t[i] = "sp" THEN f[i - 1] ELSE base * f[i - 1] + CharValue(t[i])
    BY ReadsStep
  <1>12. /\ g[0] = 0
        /\ \A i \in 1 .. Len(t) :
             g[i] = IF t[i] = "sp" THEN g[i - 1] ELSE base * g[i - 1] + CharValue(t[i])
    BY ReadsStep
  <1>3. n # 0 /\ n \in 1 .. Len(t)
    BY <1>2, <1>11, <1>12
  <1>4. f[n - 1] = g[n - 1]
    BY <1>2, <1>3
  <1> QED BY <1>2, <1>3, <1>4, <1>11, <1>12

(* To know what a text reads as, it is enough to give the values read so far. *)
LEMMA ReadIs ==
  ASSUME NEW base, NEW t, NEW f, Len(t) \in Nat, Reads(base, t, f)
  PROVE  ReadIn(base, t) = f[Len(t)]
  <1> DEFINE r == CHOOSE g : Reads(base, t, g)
  <1>1. Reads(base, t, r)
    OBVIOUS
  <1>2. ReadIn(base, t) = r[Len(t)]
    BY DEF ReadIn, Reads
  <1> HIDE DEF r
  <1> QED BY <1>1, <1>2, ReadsUnique

LEMMA ReadsExists ==
  ASSUME NEW base \in Nat, NEW t \in Seq(Readable)
  PROVE  \E f \in [0 .. Len(t) -> Nat] : Reads(base, t, f)
  <1> DEFINE D == 0 .. Len(t)
             Base == {0}
             down == [n \in Nat |-> n - 1]
             first == [n \in {0} |-> 0]
             then == [p \in D \X Nat |->
                        IF t[p[1]] = "sp" THEN p[2] ELSE base * p[2] + CharValue(t[p[1]])]
  <1>1. Len(t) \in Nat /\ \A i \in 1 .. Len(t) : t[i] \in Readable
    OBVIOUS
  <1>2. \A i \in 1 .. Len(t) : t[i] # "sp" => CharValue(t[i]) \in Nat
    BY <1>1 DEF Readable, DigitChar
  <1>3. Descends(D, Base, down)
    BY <1>1 DEF Descends
  <1>4. \A n \in D \cap Base : first[n] \in Nat
    OBVIOUS
  <1>5. \A n \in D, v \in Nat :
          then[<<n, v>>] = IF t[n] = "sp" THEN v ELSE base * v + CharValue(t[n])
    OBVIOUS
  <1>6. ASSUME NEW n \in D \ Base, NEW v \in Nat PROVE then[<<n, v>>] \in Nat
    <2>1. n \in 1 .. Len(t)
      BY <1>1
    <2> HIDE DEF then
    <2>2. CASE t[n] = "sp"
      BY <2>2, <1>5
    <2>3. CASE t[n] # "sp"
      <3>1. CharValue(t[n]) \in Nat
        BY <2>1, <2>3, <1>2
      <3>2. base * v \in Nat
        OBVIOUS
      <3>3. then[<<n, v>>] = base * v + CharValue(t[n])
        BY <2>3, <1>5
      <3> QED BY <3>1, <3>2, <3>3
    <2> QED BY <2>2, <2>3
  <1>7. first[0] = 0
    OBVIOUS
  <1>8. \A n \in D : n # 0 => n - 1 \in D /\ down[n] = n - 1 /\ n \notin Base
    BY <1>1
  <1>9. 0 \in Base
    OBVIOUS
  <1> HIDE DEF then, first, down, Base
  <1>10. PICK f \in [D -> Nat] : ByAll(f, D, Base, down, first, then)
    BY <1>3, <1>4, <1>6, RecursionExists
  <1>11. \A n \in D : f[n] = IF n = 0 THEN 0
                             ELSE IF t[n] = "sp" THEN f[n - 1]
                               ELSE base * f[n - 1] + CharValue(t[n])
    <2> TAKE n \in D
    <2>1. f[n] = IF n \in Base THEN first[n] ELSE then[<<n, f[down[n]]>>]
      BY <1>10 DEF ByAll, By
    <2>2. CASE n = 0
      BY <2>1, <2>2, <1>7, <1>9
    <2>3. CASE n # 0
      <3>1. f[n] = then[<<n, f[n - 1]>>] /\ f[n - 1] \in Nat
        BY <2>1, <2>3, <1>8
      <3> HIDE DEF D
      <3> QED BY <3>1, <2>3, <1>5
    <2> QED BY <2>2, <2>3
  <1>12. Reads(base, t, f)
    <2> DEFINE F(n) == IF n = 0 THEN 0
                       ELSE IF t[n] = "sp" THEN f[n - 1]
                         ELSE base * f[n - 1] + CharValue(t[n])
    <2>1. \A n \in D : f[n] = F(n)
      BY <1>11
    <2>2. f = [n \in D |-> F(n)]
      <3> HIDE DEF F, D
      <3> QED BY <2>1
    <2> QED BY <2>2 DEF Reads
  <1> QED BY <1>12

(* To know what a text reads as, it is enough to know the value at each    *)
(* step.                                                                   *)
LEMMA ReadBySteps ==
  ASSUME NEW base, NEW t, Len(t) \in Nat, NEW f \in [0 .. Len(t) -> Nat],
         f[0] = 0,
         \A i \in 1 .. Len(t) :
            f[i] = IF t[i] = "sp" THEN f[i - 1] ELSE base * f[i - 1] + CharValue(t[i])
  PROVE  ReadIn(base, t) = f[Len(t)]
  <1> DEFINE F(i) == IF i = 0 THEN 0
                     ELSE IF t[i] = "sp" THEN f[i - 1] ELSE base * f[i - 1] + CharValue(t[i])
  <1>1. \A i \in 0 .. Len(t) : f[i] = F(i)
    <2> TAKE i \in 0 .. Len(t)
    <2>1. i # 0 => i \in 1 .. Len(t)
      OBVIOUS
    <2> QED BY <2>1
  <1>2. f = [i \in 0 .. Len(t) |-> F(i)]
    <2> HIDE DEF F
    <2> QED BY <1>1
  <1> QED BY <1>2, ReadIs DEF Reads

LEMMA ReadSteps ==
  ASSUME NEW base \in Nat, NEW t \in Seq(Readable)
  PROVE  \E f \in [0 .. Len(t) -> Nat] :
            /\ f[0] = 0
            /\ \A i \in 1 .. Len(t) :
                 f[i] = IF t[i] = "sp" THEN f[i - 1] ELSE base * f[i - 1] + CharValue(t[i])
            /\ ReadIn(base, t) = f[Len(t)]
  <1>1. PICK f \in [0 .. Len(t) -> Nat] : Reads(base, t, f)
    BY ReadsExists
  <1>2. Len(t) \in Nat
    OBVIOUS
  <1> QED BY <1>1, <1>2, ReadsStep, ReadIs

(* Reading the empty text, one more digit, a padding, two numerals.        *)
LEMMA ReadEmpty ==
  ASSUME NEW base
  PROVE  ReadIn(base, <<>>) = 0
  <1> DEFINE f == [i \in 0 .. 0 |-> 0]
  <1>1. f \in [0 .. Len(<<>>) -> Nat] /\ f[0] = 0 /\ Len(<<>>) = 0
    OBVIOUS
  <1>2. 1 .. Len(<<>>) = {}
    OBVIOUS
  <1> HIDE DEF f
  <1> QED BY <1>1, <1>2, ReadBySteps

LEMMA ReadAppend ==
  ASSUME NEW base \in Nat, NEW t \in Seq(Readable), NEW c \in DigitChar
  PROVE  /\ ReadIn(base, t) \in Nat
         /\ ReadIn(base, t \o <<c>>) = base * ReadIn(base, t) + CharValue(c)
  <1>1. PICK f \in [0 .. Len(t) -> Nat] :
            /\ f[0] = 0
            /\ \A i \in 1 .. Len(t) :
                 f[i] = IF t[i] = "sp" THEN f[i - 1] ELSE base * f[i - 1] + CharValue(t[i])
            /\ ReadIn(base, t) = f[Len(t)]
    BY ReadSteps
  <1>2. c # "sp" /\ c \in Readable /\ CharValue(c) \in Nat
    BY DEF DigitChar, Readable
  <1>3. Len(t) \in Nat
    OBVIOUS
  <1> DEFINE u == t \o <<c>>
             last == base * f[Len(t)] + CharValue(c)
             g == [i \in 0 .. Len(t) + 1 |-> IF i <= Len(t) THEN f[i] ELSE last]
  <1>4. Len(u) = Len(t) + 1 /\ \A i \in 1 .. Len(u) : u[i] = IF i <= Len(t) THEN t[i] ELSE c
    OBVIOUS
  <1>5. last \in Nat
    <2>1. f[Len(t)] \in Nat
      BY <1>3
    <2>2. base * f[Len(t)] \in Nat
      BY <2>1
    <2> QED BY <2>2, <1>2
  <1>6. /\ \A i \in 0 .. Len(t) : g[i] = f[i] /\ f[i] \in Nat
        /\ g[Len(t) + 1] = last
        /\ g = [i \in 0 .. Len(t) + 1 |-> g[i]]
    BY <1>3
  <1> HIDE DEF g, u
  <1>7. \A i \in 0 .. Len(t) + 1 : g[i] \in Nat
    <2> TAKE i \in 0 .. Len(t) + 1
    <2>1. i \in 0 .. Len(t) \/ i = Len(t) + 1
      BY <1>3
    <2> QED BY <2>1, <1>5, <1>6
  <1>8. g \in [0 .. Len(u) -> Nat] /\ g[0] = 0
    BY <1>1, <1>3, <1>4, <1>6, <1>7
  <1>9. ASSUME NEW i \in 1 .. Len(u)
        PROVE  g[i] = IF u[i] = "sp" THEN g[i - 1] ELSE base * g[i - 1] + CharValue(u[i])
    <2>1. CASE i <= Len(t)
      <3>1. i \in 1 .. Len(t) /\ i \in 0 .. Len(t) /\ i - 1 \in 0 .. Len(t)
        BY <2>1, <1>3
      <3>2. u[i] = t[i] /\ g[i] = f[i] /\ g[i - 1] = f[i - 1]
        BY <2>1, <3>1, <1>4, <1>6
      <3> QED BY <3>1, <3>2, <1>1
    <2>2. CASE ~(i <= Len(t))
      <3>1. i = Len(t) + 1 /\ i - 1 = Len(t) /\ Len(t) \in 0 .. Len(t)
        BY <2>2, <1>3, <1>4
      <3>2. u[i] = c /\ g[i] = last /\ g[i - 1] = f[Len(t)]
        BY <2>2, <3>1, <1>4, <1>6
      <3> QED BY <3>2, <1>2
    <2> QED BY <2>1, <2>2
  <1>10. ReadIn(base, u) = g[Len(u)]
    BY <1>3, <1>4, <1>8, <1>9, ReadBySteps
  <1>11. ReadIn(base, u) = last /\ ReadIn(base, t) \in Nat
    BY <1>1, <1>3, <1>4, <1>6, <1>10
  <1> QED BY <1>1, <1>11 DEF u

LEMMA ZeroChar == "0" \in DigitChar /\ CharValue("0") = 0 /\ "sp" \notin DigitChar
  <1>1. CharsOf(0)[0 + 1] \in DigitChar
    BY CharsOfDigit DEF BaseOf
  <1>2. CharsOf(0)[1] = "0"
    BY DEF CharsOf, LowerCase
  <1>3. CharValue("0") = 0
    BY DigitChars
  <1>4. "sp" \notin DigitChar
    BY DEF DigitChar
  <1> QED BY <1>1, <1>2, <1>3, <1>4

LEMMA ReadPadded ==
  ASSUME NEW base \in Nat, NEW zero \in {"sp", "0"}, NEW k \in Nat, NEW t \in Seq(Readable)
  PROVE  ReadIn(base, Repeat(zero, k) \o t) = ReadIn(base, t)
  <1>1. PICK f \in [0 .. Len(t) -> Nat] :
            /\ f[0] = 0
            /\ \A i \in 1 .. Len(t) :
                 f[i] = IF t[i] = "sp" THEN f[i - 1] ELSE base * f[i - 1] + CharValue(t[i])
            /\ ReadIn(base, t) = f[Len(t)]
    BY ReadSteps
  <1> DEFINE pad == Repeat(zero, k)
             u == pad \o t
             g == [i \in 0 .. k + Len(t) |-> IF i <= k THEN 0 ELSE f[i - k]]
  <1>2. zero \in Readable /\ (zero = "sp" \/ CharValue(zero) = 0)
    BY ZeroChar DEF Readable
  <1>3. pad \in Seq(Readable) /\ Len(pad) = k /\ \A i \in 1 .. k : pad[i] = zero
    <2>1. zero \in Readable
      BY <1>2
    <2> QED BY <2>1 DEF Repeat
  <1>4. Len(t) \in Nat
    OBVIOUS
  <1> HIDE DEF pad
  <1>5. Len(u) = k + Len(t) /\ \A i \in 1 .. Len(u) : u[i] = IF i <= k THEN zero ELSE t[i - k]
    BY <1>3, ConcatProperties
  <1>6. /\ \A i \in 0 .. k + Len(t) : g[i] = IF i <= k THEN 0 ELSE f[i - k]
        /\ g = [i \in 0 .. k + Len(t) |-> g[i]]
    OBVIOUS
  <1> HIDE DEF g, u
  <1>7. /\ \A i \in 0 .. k : i \in 0 .. k + Len(t) /\ g[i] = 0
        /\ \A i \in 0 .. Len(t) : k + i \in 0 .. k + Len(t) /\ g[k + i] = f[i] /\ f[i] \in Nat
    <2>1. \A i \in 0 .. k : i \in 0 .. k + Len(t) /\ g[i] = 0
      BY <1>4, <1>6
    <2>2. ASSUME NEW i \in 0 .. Len(t)
          PROVE  k + i \in 0 .. k + Len(t) /\ g[k + i] = f[i] /\ f[i] \in Nat
      <3>1. k + i \in 0 .. k + Len(t) /\ f[i] \in Nat /\ (k + i) - k = i
        BY <1>4
      <3>2. i = 0 => k + i \in 0 .. k
        OBVIOUS
      <3>3. i # 0 => ~(k + i <= k)
        OBVIOUS
      <3> QED BY <3>1, <3>2, <3>3, <2>1, <1>1, <1>6
    <2> QED BY <2>1, <2>2
  <1>8. \A i \in 0 .. k + Len(t) : g[i] \in Nat
    <2> TAKE i \in 0 .. k + Len(t)
    <2>1. CASE i \in 0 .. k
      BY <2>1, <1>7
    <2>2. CASE i \notin 0 .. k
      <3> DEFINE j == i - k
      <3>1. j \in 0 .. Len(t) /\ i = k + j
        BY <2>2, <1>4
      <3> HIDE DEF j
      <3>2. g[k + j] \in Nat
        BY <3>1, <1>7
      <3> QED BY <3>1, <3>2
    <2> QED BY <2>1, <2>2
  <1>9. g \in [0 .. Len(u) -> Nat] /\ g[0] = 0
    BY <1>5, <1>6, <1>7, <1>8
  <1>10. ASSUME NEW i \in 1 .. Len(u)
         PROVE  g[i] = IF u[i] = "sp" THEN g[i - 1] ELSE base * g[i - 1] + CharValue(u[i])
    <2>1. CASE i <= k
      <3>1. u[i] = zero /\ g[i] = 0 /\ g[i - 1] = 0
        BY <2>1, <1>5, <1>7
      <3> QED BY <3>1, <1>2
    <2>2. CASE ~(i <= k)
      <3>1. i - k \in 1 .. Len(t) /\ i - k \in 0 .. Len(t) /\ (i - k) - 1 \in 0 .. Len(t)
            /\ i = k + (i - k) /\ i - 1 = k + ((i - k) - 1)
        BY <2>2, <1>4, <1>5
      <3>2. u[i] = t[i - k] /\ g[i] = f[i - k] /\ g[i - 1] = f[(i - k) - 1]
        BY <2>2, <3>1, <1>5, <1>7
      <3> QED BY <3>1, <3>2, <1>1
    <2> QED BY <2>1, <2>2
  <1>11. ReadIn(base, u) = g[Len(u)]
    <2>1. Len(u) \in Nat
      BY <1>4, <1>5
    <2> QED BY <2>1, <1>9, <1>10, ReadBySteps
  <1>12. ReadIn(base, u) = f[Len(t)]
    BY <1>4, <1>5, <1>7, <1>11
  <1> QED BY <1>1, <1>12 DEF u, pad

LEMMA ScaleRecursion ==
  Scale[0] = 1 /\ \A k \in Nat : Scale[k] \in Nat /\ Scale[k] >= 1
    /\ Scale[k + 1] = Scale[k] * 10
  <1> DEFINE down == [n \in Nat |-> n - 1]
             first == [n \in {0} |-> 1]
             V == Nat \ {0}
             then == [p \in Nat \X V |-> p[2] * 10]
  <1>1. Descends(Nat, {0}, down)
    BY DEF Descends
  <1>2. \A n \in Nat \cap {0} : first[n] \in V
    OBVIOUS
  <1>3. \A n \in Nat, v \in V : then[<<n, v>>] = v * 10 /\ v * 10 \in V
    OBVIOUS
  <1>4. first[0] = 1 /\ \A n \in Nat \ {0} : down[n] = n - 1 /\ n - 1 \in Nat
    OBVIOUS
  <1> HIDE DEF down, first, then, V
  <1>5. PICK f \in [Nat -> V] : ByAll(f, Nat, {0}, down, first, then)
    <2>1. \A n \in Nat \ {0} : \A v \in V : then[<<n, v>>] \in V
      BY <1>3
    <2> QED BY <1>1, <1>2, <2>1, RecursionExists
  <1>6. \A n \in Nat : f[n] = IF n = 0 THEN 1 ELSE f[n - 1] * 10
    <2> TAKE n \in Nat
    <2>1. f[n] = IF n \in {0} THEN first[n] ELSE then[<<n, f[down[n]]>>]
      BY <1>5 DEF ByAll, By
    <2>2. n # 0 => f[n] = then[<<n, f[n - 1]>>] /\ f[n - 1] \in V
      BY <2>1, <1>4
    <2> QED BY <2>1, <2>2, <1>3, <1>4
  <1>7. f = [n \in Nat |-> IF n = 0 THEN 1 ELSE f[n - 1] * 10]
    BY <1>6
  <1>8. Scale = [n \in Nat |-> IF n = 0 THEN 1 ELSE Scale[n - 1] * 10]
    BY <1>7 DEF Scale
  <1> DEFINE s == Scale
  <1>9. \A n \in Nat : s[n] = IF n = 0 THEN 1 ELSE s[n - 1] * 10
    BY <1>8
  <1> HIDE DEF s
  <1> DEFINE Bad == {n \in Nat : s[n] \notin V}
  <1>10. Bad = {}
    <2>1. SUFFICES ASSUME Bad # {} PROVE FALSE
      OBVIOUS
    <2>2. PICK n \in Bad : \A m \in Bad : n <= m
      <3> HIDE DEF Bad
      <3>1. Bad \in SUBSET Nat
        BY DEF Bad
      <3> QED BY <2>1, <3>1, LeastExists
    <2>3. n # 0
      BY <2>2, <1>9 DEF V
    <2>4. n - 1 \in Nat /\ n - 1 \notin Bad
      BY <2>2, <2>3
    <2>5. s[n - 1] \in V
      BY <2>4
    <2>6. s[n] = s[n - 1] * 10
      BY <2>2, <2>3, <1>9
    <2>7. s[n] \in V
      BY <2>5, <2>6 DEF V
    <2> QED BY <2>2, <2>7
  <1>11. s[0] = 1 /\ \A k \in Nat : s[k] \in Nat /\ s[k] >= 1 /\ s[k + 1] = s[k] * 10
    <2>1. \A k \in Nat : s[k] \in Nat /\ s[k] >= 1
      BY <1>10 DEF V
    <2>2. \A k \in Nat : k + 1 \in Nat /\ k + 1 # 0 /\ (k + 1) - 1 = k
      OBVIOUS
    <2> QED BY <2>1, <2>2, <1>9
  <1> QED BY <1>11 DEF s

LEMMA Shift ==
  ASSUME NEW x \in Nat, NEW s \in Nat, NEW y \in Nat, NEW c \in Nat
  PROVE  10 * (x * s + y) + c = x * (s * 10) + (10 * y + c)
  <1>1. x * (s * 10) = 10 * (x * s)
    OBVIOUS
  <1>2. x * s \in Nat
    OBVIOUS
  <1> DEFINE p == x * s
  <1> HIDE DEF p
  <1>3. p \in Nat => 10 * (p + y) + c = 10 * p + (10 * y + c)
    OBVIOUS
  <1> QED BY <1>1, <1>2, <1>3 DEF p

LEMMA ReadConcat ==
  ASSUME NEW a \in Seq(Readable), NEW b \in Seq(DigitChar)
  PROVE  ReadIn(10, a \o b) = ReadIn(10, a) * Scale[Len(b)] + ReadIn(10, b)
  <1>1. PICK f \in [0 .. Len(a) -> Nat] :
            /\ f[0] = 0
            /\ \A i \in 1 .. Len(a) :
                 f[i] = IF a[i] = "sp" THEN f[i - 1] ELSE 10 * f[i - 1] + CharValue(a[i])
            /\ ReadIn(10, a) = f[Len(a)]
    <2>1. 10 \in Nat /\ a \in Seq(Readable)
      OBVIOUS
    <2> QED BY <2>1, ReadSteps
  <1>2. /\ b \in Seq(Readable) /\ Len(a) \in Nat /\ Len(b) \in Nat
        /\ \A i \in 1 .. Len(b) : b[i] # "sp" /\ CharValue(b[i]) \in Nat
    BY DEF Readable, DigitChar
  <1>3. PICK h \in [0 .. Len(b) -> Nat] :
            /\ h[0] = 0
            /\ \A i \in 1 .. Len(b) :
                 h[i] = IF b[i] = "sp" THEN h[i - 1] ELSE 10 * h[i - 1] + CharValue(b[i])
            /\ ReadIn(10, b) = h[Len(b)]
    BY <1>2, ReadSteps
  <1>15. f[Len(a)] \in Nat /\ \A i \in 0 .. Len(a) : f[i] \in Nat
    <2>1. Len(a) \in Nat /\ f \in [0 .. Len(a) -> Nat]
      BY <1>1, <1>2
    <2>2. Len(a) \in 0 .. Len(a)
      BY <2>1
    <2> QED BY <2>1, <2>2
  <1>16. \A i \in 0 .. Len(b) : h[i] \in Nat /\ Scale[i] \in Nat
    <2> TAKE i \in 0 .. Len(b)
    <2>1. i \in Nat
      BY <1>2
    <2> QED BY <2>1, ScaleRecursion
  <1> DEFINE u == a \o b
             k == Len(a)
             x == f[k]
             Value(i) == x * Scale[i] + h[i]
             g == [i \in 0 .. k + Len(b) |-> IF i < k THEN f[i] ELSE Value(i - k)]
  <1>4. Len(u) = k + Len(b) /\ \A i \in 1 .. Len(u) : u[i] = IF i <= k THEN a[i] ELSE b[i - k]
    BY <1>2, ConcatProperties
  <1>5. x \in Nat /\ \A i \in 0 .. k : f[i] \in Nat
    BY <1>15
  <1>6. ASSUME NEW i \in 0 .. Len(b) PROVE Value(i) \in Nat
    <2>1. Scale[i] \in Nat /\ h[i] \in Nat
      BY <1>16
    <2> HIDE DEF x
    <2>2. x * Scale[i] \in Nat
      BY <1>5, <2>1
    <2> QED BY <2>1, <2>2
  <1>7. Value(0) = x
    <2>1. h[0] = 0 /\ Scale[0] = 1
      BY <1>3, ScaleRecursion
    <2> HIDE DEF x
    <2> QED BY <1>5, <2>1
  <1>8. ASSUME NEW i \in 1 .. Len(b) PROVE Value(i) = 10 * Value(i - 1) + CharValue(b[i])
    <2>1. i - 1 \in Nat /\ i - 1 \in 0 .. Len(b) /\ (i - 1) + 1 = i
      BY <1>2
    <2>2. /\ Scale[i - 1] \in Nat /\ Scale[i] = Scale[i - 1] * 10
          /\ h[i - 1] \in Nat /\ h[i] = 10 * h[i - 1] + CharValue(b[i])
      BY <1>2, <1>3, <2>1, ScaleRecursion
    <2>3. CharValue(b[i]) \in Nat
      BY <1>2
    <2> HIDE DEF x
    <2>4. 10 * (x * Scale[i - 1] + h[i - 1]) + CharValue(b[i])
            = x * (Scale[i - 1] * 10) + (10 * h[i - 1] + CharValue(b[i]))
      <3> DEFINE s == Scale[i - 1]
                 y == h[i - 1]
                 c == CharValue(b[i])
      <3>1. x \in Nat /\ s \in Nat /\ y \in Nat /\ c \in Nat
        BY <1>5, <2>2, <2>3
      <3> HIDE DEF s, y, c
      <3>2. 10 * (x * s + y) + c = x * (s * 10) + (10 * y + c)
        BY <3>1, Shift
      <3> QED BY <3>2 DEF s, y, c
    <2> QED BY <2>2, <2>4
  <1>9. /\ \A i \in 0 .. k + Len(b) : g[i] = IF i < k THEN f[i] ELSE Value(i - k)
        /\ g = [i \in 0 .. k + Len(b) |-> g[i]]
    OBVIOUS
  <1> HIDE DEF g, u, Value
  <1>10. /\ \A i \in 0 .. k : i \in 0 .. k + Len(b) /\ g[i] = f[i]
         /\ \A i \in 0 .. Len(b) : k + i \in 0 .. k + Len(b) /\ g[k + i] = Value(i)
    <2>1. ASSUME NEW i \in 0 .. Len(b) PROVE k + i \in 0 .. k + Len(b) /\ g[k + i] = Value(i)
      <3>1. k + i \in 0 .. k + Len(b) /\ ~(k + i < k) /\ (k + i) - k = i
        BY <1>2
      <3> QED BY <3>1, <1>9
    <2>2. ASSUME NEW i \in 0 .. k PROVE i \in 0 .. k + Len(b) /\ g[i] = f[i]
      <3>1. i \in 0 .. k + Len(b)
        BY <1>2
      <3>2. i < k => g[i] = f[i]
        BY <3>1, <1>9
      <3>3. ~(i < k) => i = k + 0 /\ i = k /\ 0 \in 0 .. Len(b)
        BY <1>2
      <3>4. ~(i < k) => g[i] = x
        BY <3>3, <2>1, <1>7
      <3> QED BY <3>1, <3>2, <3>3, <3>4
    <2> QED BY <2>1, <2>2
  <1>11. g \in [0 .. Len(u) -> Nat] /\ g[0] = 0
    <2>1. ASSUME NEW i \in 0 .. k + Len(b) PROVE g[i] \in Nat
      <3>1. CASE i <= k
        <4>1. i \in 0 .. k
          BY <3>1, <1>2
        <4> QED BY <4>1, <1>5, <1>10
      <3>2. CASE ~(i <= k)
        <4> DEFINE j == i - k
        <4>1. j \in 0 .. Len(b) /\ i = k + j
          BY <3>2, <1>2
        <4> HIDE DEF j
        <4>2. g[k + j] \in Nat
          BY <4>1, <1>6, <1>10
        <4> QED BY <4>1, <4>2
      <3> QED BY <3>1, <3>2
    <2>2. 0 \in 0 .. k
      BY <1>2
    <2> QED BY <2>1, <2>2, <1>1, <1>4, <1>9, <1>10
  <1>12. ASSUME NEW i \in 1 .. Len(u)
         PROVE  g[i] = IF u[i] = "sp" THEN g[i - 1] ELSE 10 * g[i - 1] + CharValue(u[i])
    <2>1. CASE i <= k
      <3>1. i \in 1 .. k /\ i \in 0 .. k /\ i - 1 \in 0 .. k
        BY <2>1, <1>2
      <3>2. u[i] = a[i] /\ g[i] = f[i] /\ g[i - 1] = f[i - 1]
        BY <2>1, <3>1, <1>4, <1>10
      <3> QED BY <3>1, <3>2, <1>1
    <2>2. CASE ~(i <= k)
      <3> DEFINE j == i - k
      <3>1. /\ j \in 1 .. Len(b) /\ j \in 0 .. Len(b) /\ j - 1 \in 0 .. Len(b)
            /\ i = k + j /\ i - 1 = k + (j - 1)
        BY <2>2, <1>2, <1>4
      <3>2. u[i] = b[j]
        BY <2>2, <1>4
      <3> HIDE DEF j
      <3>3. g[i] = Value(j) /\ g[i - 1] = Value(j - 1)
        BY <3>1, <1>10
      <3> QED BY <3>1, <3>2, <3>3, <1>2, <1>8
    <2> QED BY <2>1, <2>2
  <1>13. ReadIn(10, u) = g[Len(u)]
    <2>1. Len(u) \in Nat
      BY <1>2, <1>4
    <2> QED BY <2>1, <1>11, <1>12, ReadBySteps
  <1>14. g[Len(u)] = Value(Len(b))
    <2>1. Len(b) \in 0 .. Len(b)
      BY <1>2
    <2> QED BY <2>1, <1>4, <1>10
  <1> QED BY <1>1, <1>3, <1>13, <1>14 DEF u, Value

(* A numeral reads back as its number.                                     *)
LEMMA NumeralReads ==
  ASSUME NEW n \in Nat, NEW hex \in 0 .. 2
  PROVE  ReadIn(BaseOf(hex), Numeral(n, hex)) = n
  <1> DEFINE base == BaseOf(hex)
             Bad == {m \in Nat : ReadIn(base, Numeral(m, hex)) # m}
  <1>0. base \in Nat /\ base >= 2
    BY DEF BaseOf
  <1> HIDE DEF base
  <1>1. SUFFICES ASSUME Bad # {} PROVE FALSE
    BY DEF base
  <1>2. PICK m \in Bad : \A l \in Bad : m <= l
    <2>1. Bad \in SUBSET Nat
      OBVIOUS
    <2> HIDE DEF Bad
    <2> QED BY <1>1, <2>1, LeastExists
  <1> DEFINE q == m \div base
             v == m % base
             c == CharsOf(hex)[v + 1]
  <1>3. /\ q \in Nat /\ v \in 0 .. base - 1 /\ m \in Nat
        /\ m = base * q + v /\ (m >= base => q < m)
    BY <1>0, Quotient
  <1>4. c \in DigitChar /\ CharValue(c) = v
    BY <1>3, CharsOfDigit DEF base
  <1>5. /\ Numeral(m, hex) = (IF m < base THEN <<>> ELSE Numeral(q, hex)) \o <<c>>
        /\ Numeral(q, hex) \in Seq(Readable) /\ <<>> \in Seq(Readable)
    <2>1. Numeral(m, hex) = (IF m < base THEN <<>> ELSE Numeral(q, hex)) \o <<c>>
      BY <1>3, NumeralRecursion DEF base
    <2>2. Numeral(q, hex) \in Seq(DigitChar)
      BY <1>3, NumeralRecursion
    <2>3. DigitChar \subseteq Readable
      BY DEF Readable
    <2> HIDE DEF q, v, c
    <2> QED BY <2>1, <2>2, <2>3, SeqMonotonic
  <1> HIDE DEF q, v, c
  <1>6. CASE m < base
    <2>1. ReadIn(base, <<>> \o <<c>>) = base * ReadIn(base, <<>>) + v
      BY <1>0, <1>4, <1>5, ReadAppend
    <2>2. q = 0
      <3>1. q >= 1 => base * q >= base
        BY <1>0, <1>3
      <3> QED BY <3>1, <1>0, <1>3, <1>6
    <2>3. ReadIn(base, <<>>) = 0
      BY ReadEmpty
    <2> QED BY <2>1, <2>2, <2>3, <1>0, <1>2, <1>3, <1>5, <1>6
  <1>7. CASE ~(m < base)
    <2>1. ReadIn(base, Numeral(q, hex) \o <<c>>) = base * ReadIn(base, Numeral(q, hex)) + v
      BY <1>0, <1>4, <1>5, ReadAppend
    <2>2. q < m
      BY <1>0, <1>3, <1>7
    <2>3. ReadIn(base, Numeral(q, hex)) = q
      BY <2>2, <1>2, <1>3
    <2> QED BY <2>1, <2>3, <1>2, <1>3, <1>5, <1>7
  <1> QED BY <1>6, <1>7

(* It begins with a zero only if it is one, and n < 10^k has at most k     *)
(* digits.                                                                 *)
LEMMA NumeralLeads ==
  ASSUME NEW n \in Nat, NEW hex \in 0 .. 2
  PROVE  /\ Len(Numeral(n, hex)) >= 1
         /\ n >= 1 => Numeral(n, hex)[1] # "0"
         /\ n < BaseOf(hex) => Len(Numeral(n, hex)) = 1
  <1> DEFINE base == BaseOf(hex)
             Good(m) == Len(Numeral(m, hex)) >= 1 /\ (m >= 1 => Numeral(m, hex)[1] # "0")
             Bad == {m \in Nat : ~Good(m)}
  <1>0. base \in Nat /\ base >= 2
    BY DEF BaseOf
  <1> HIDE DEF base
  <1>1. ASSUME NEW m \in Nat
        PROVE  LET q == m \div base
                   c == CharsOf(hex)[(m % base) + 1]
               IN /\ q \in Nat /\ (m >= base => q < m /\ q >= 1)
                  /\ Numeral(m, hex) = (IF m < base THEN <<>> ELSE Numeral(q, hex)) \o <<c>>
                  /\ m < base => Len(Numeral(m, hex)) = 1 /\ Numeral(m, hex)[1] = c
                  /\ m >= base => /\ Len(Numeral(m, hex)) = Len(Numeral(q, hex)) + 1
                                  /\ Len(Numeral(q, hex)) \in Nat
                                  /\ Len(Numeral(q, hex)) >= 1 => Numeral(m, hex)[1]
                                       = Numeral(q, hex)[1]
                  /\ m < base /\ m >= 1 => c # "0"
    <2> DEFINE q == m \div base
               v == m % base
               c == CharsOf(hex)[v + 1]
    <2>1. q \in Nat /\ v \in 0 .. base - 1 /\ (m >= base => q < m /\ q >= 1)
      BY <1>0, Quotient
    <2>2. c \in DigitChar /\ (v > 0 => c # "0")
      BY <2>1, CharsOfDigit DEF base
    <2>3. /\ Numeral(m, hex) = (IF m < base THEN <<>> ELSE Numeral(q, hex)) \o <<c>>
          /\ Numeral(q, hex) \in Seq(DigitChar)
      BY <2>1, NumeralRecursion DEF base
    <2>4. m < base => v = m
      BY <1>0
    <2> HIDE DEF q, v, c
    <2>5. <<>> \o <<c>> = <<c>>
      BY <2>2
    <2>6. /\ Len(Numeral(q, hex) \o <<c>>) = Len(Numeral(q, hex)) + 1
          /\ Len(Numeral(q, hex)) \in Nat
          /\ Len(Numeral(q, hex)) >= 1 => (Numeral(q, hex) \o <<c>>)[1] = Numeral(q, hex)[1]
      BY <2>2, <2>3, ConcatProperties
    <2>7. m < base => Len(Numeral(m, hex)) = 1 /\ Numeral(m, hex)[1] = c
      BY <2>3, <2>5
    <2>8. m >= base => Numeral(m, hex) = Numeral(q, hex) \o <<c>>
      <3> HAVE m >= base
      <3>1. ~(m < base)
        BY <1>0
      <3> QED BY <2>3, <3>1
    <2>9. m < base /\ m >= 1 => c # "0"
      BY <2>2, <2>4
    <2> QED BY <2>1, <2>3, <2>6, <2>7, <2>8, <2>9 DEF q, v, c
  <1>2. Bad = {}
    <2>1. SUFFICES ASSUME Bad # {} PROVE FALSE
      OBVIOUS
    <2>2. PICK m \in Bad : \A l \in Bad : m <= l
      <3>1. Bad \in SUBSET Nat
        OBVIOUS
      <3> HIDE DEF Bad
      <3> QED BY <2>1, <3>1, LeastExists
    <2>5. m \in Nat /\ ~Good(m)
      BY <2>2
    <2>3. CASE m < base
      <3>1. /\ Len(Numeral(m, hex)) = 1
            /\ m >= 1 => Numeral(m, hex)[1] # "0"
        <4> HIDE DEF Bad, Good
        <4> QED BY <2>3, <2>5, <1>1
      <3> QED BY <2>5, <3>1
    <2>4. CASE ~(m < base)
      <3> DEFINE q == m \div base
      <3>1. /\ m \in Nat /\ q \in Nat /\ q < m /\ q >= 1
                 /\ Len(Numeral(m, hex)) = Len(Numeral(q, hex)) + 1
            /\ Len(Numeral(q, hex)) \in Nat
            /\ Len(Numeral(q, hex)) >= 1 => Numeral(m, hex)[1] = Numeral(q, hex)[1]
        <4> HIDE DEF Bad, Good
        <4>1. m >= base /\ m \in Nat
          BY <2>4, <2>5, <1>0
        <4> QED BY <4>1, <1>1
      <3> HIDE DEF q
      <3>2. Good(q)
        BY <2>2, <3>1
      <3>3. Good(m)
        BY <3>1, <3>2
      <3> QED BY <2>2, <3>3
    <2> QED BY <2>3, <2>4
  <1>3. Good(n)
    <2> HIDE DEF Good
    <2> QED BY <1>2
  <1> QED BY <1>1, <1>3 DEF base

LEMMA NumeralFits ==
  ASSUME NEW n \in Nat, NEW k \in Nat, k >= 1, n < Scale[k]
  PROVE  Len(Numeral(n, 0)) <= k
  <1> DEFINE Bad == {m \in Nat : \E j \in Nat : j >= 1 /\ m < Scale[j]
               /\ ~(Len(Numeral(m, 0)) <= j)}
  <1>1. SUFFICES ASSUME Bad # {} PROVE FALSE
    OBVIOUS
  <1>2. PICK m \in Bad : \A l \in Bad : m <= l
    <2>1. Bad \in SUBSET Nat
      OBVIOUS
    <2> HIDE DEF Bad
    <2> QED BY <1>1, <2>1, LeastExists
  <1>3. m \in Nat
    BY <1>2
  <1>4. PICK j \in Nat : j >= 1 /\ m < Scale[j] /\ ~(Len(Numeral(m, 0)) <= j)
    BY <1>2
  <1>10. \A l, i \in Nat : l < m /\ i >= 1 /\ l < Scale[i] => Len(Numeral(l, 0)) <= i
    <2>1. \A l \in Nat : l < m => l \notin Bad
      <3> HIDE DEF Bad
      <3>1. \A l \in Nat : l < m => ~(m <= l)
        BY <1>3
      <3> QED BY <3>1, <1>2
    <2> QED BY <2>1
  <1> HIDE DEF Bad
  <1>5. m >= 10
    <2>1. m < BaseOf(0) => Len(Numeral(m, 0)) = 1
      <3>1. 0 \in 0 .. 2
        OBVIOUS
      <3> QED BY <1>3, <3>1, NumeralLeads
    <2>2. BaseOf(0) = 10
      BY DEF BaseOf
    <2>3. ASSUME m < 10 PROVE FALSE
      <3>1. Len(Numeral(m, 0)) = 1
        BY <2>1, <2>2, <2>3
      <3> QED BY <3>1, <1>4
    <2> QED BY <2>3, <1>3
  <1> DEFINE q == m \div 10
             v == m % 10
  <1>6. q \in Nat /\ v \in 0 .. 9 /\ m = 10 * q + v /\ q < m
    BY <1>3, <1>5
  <1>7. Len(Numeral(m, 0)) = Len(Numeral(q, 0)) + 1 /\ Len(Numeral(q, 0)) \in Nat
    <2> DEFINE c == CharsOf(0)[v + 1]
    <2>1. BaseOf(0) = 10
      BY DEF BaseOf
    <2>2. Numeral(m, 0) = Numeral(q, 0) \o <<c>> /\ Numeral(q, 0) \in Seq(DigitChar)
      <3>1. ~(m < 10) /\ 0 \in 0 .. 2
        BY <1>3, <1>5
      <3>2. Numeral(m, 0) = (IF m < 10 THEN <<>> ELSE Numeral(q, 0)) \o <<c>>
        BY <1>3, <2>1, <3>1, NumeralRecursion
      <3>3. Numeral(q, 0) \in Seq(DigitChar)
        <4> HIDE DEF q
        <4> QED BY <1>6, <3>1, NumeralRecursion
      <3> QED BY <3>1, <3>2, <3>3
    <2>3. c \in DigitChar
      BY <1>6, <2>1, CharsOfDigit
    <2> HIDE DEF c, q
    <2> QED BY <2>2, <2>3, ConcatProperties
  <1>8. CASE j = 1
    <2>1. Scale[0 + 1] = Scale[0] * 10 /\ Scale[0] = 1
      BY ScaleRecursion
    <2> QED BY <2>1, <1>3, <1>4, <1>5, <1>8
  <1>9. CASE j # 1
    <2>1. j - 1 \in Nat /\ j - 1 >= 1 /\ (j - 1) + 1 = j
      BY <1>9, <1>4
    <2>2. Scale[j] = Scale[j - 1] * 10 /\ Scale[j - 1] \in Nat
      BY <2>1, ScaleRecursion
    <2> HIDE DEF q, v
    <2>3. q < Scale[j - 1]
      BY <2>2, <1>3, <1>4, <1>6
    <2>5. Len(Numeral(q, 0)) <= j - 1
      BY <2>1, <2>3, <1>6, <1>10
    <2> QED BY <2>1, <2>5, <1>4, <1>7
  <1> QED BY <1>8, <1>9

-----------------------------------------------------------------------------
(* A buffer that is too short cuts the text and does nothing else.         *)

LEMMA CutProperties ==
  ASSUME NEW S, NEW s \in Seq(S), NEW room \in Nat
  PROVE  /\ Cut(s, room) \in Seq(S)
         /\ Len(Cut(s, room)) \in Nat /\ Len(Cut(s, room)) <= room
         /\ Len(Cut(s, room)) = IF Len(s) <= room THEN Len(s) ELSE room
         /\ \A i \in 1 .. Len(Cut(s, room)) : Cut(s, room)[i] = s[i]
         /\ Len(s) <= room => Cut(s, room) = s
  <1> DEFINE n == Lower(Len(s), room)
  <1>1. n \in 0 .. Len(s) /\ n <= room /\ n = (IF Len(s) <= room THEN Len(s) ELSE room)
    BY LenProperties DEF Lower
  <1>2. Len(s) \in Nat /\ n \in Nat
    BY <1>1, LenProperties
  <1>3. \A i \in 1 .. n : s[i] \in S
    BY <1>1, <1>2, ElementOfSeq
  <1>4. Cut(s, room) = SubSeq(s, 1, n)
    BY DEF Cut
  <1> HIDE DEF n
  <1>5. /\ SubSeq(s, 1, n) \in Seq(S)
        /\ Len(SubSeq(s, 1, n)) = IF 1 <= n THEN n - 1 + 1 ELSE 0
        /\ \A i \in 1 .. n - 1 + 1 : SubSeq(s, 1, n)[i] = s[1 + i - 1]
    BY <1>2, <1>3, SubSeqProperties
  <1>6. Len(Cut(s, room)) = n /\ \A i \in 1 .. n : Cut(s, room)[i] = s[i]
    <2>1. n - 1 + 1 = n /\ \A i \in 1 .. n : 1 + i - 1 = i
      BY <1>2
    <2> QED BY <2>1, <1>2, <1>4, <1>5
  <1>7. Len(s) <= room => Cut(s, room) = s
    <2>1. Len(s) <= room => n = Len(s)
      BY <1>1, <1>2
    <2> QED BY <2>1, <1>4, SubSeqFull
  <1> QED BY <1>1, <1>2, <1>4, <1>5, <1>6, <1>7

(* The rest of the room is for the rest of the text.                       *)
LEMMA CutRest ==
  ASSUME NEW S, NEW p \in Seq(S), NEW t \in Seq(S), NEW room \in Nat, Len(p) <= room
  PROVE  p \o Cut(t, room - Len(p)) = Cut(p \o t, room)
  <1> DEFINE k == room - Len(p)
             a == p \o Cut(t, k)
             b == Cut(p \o t, room)
  <1>1. Len(p) \in Nat /\ Len(t) \in Nat /\ k \in Nat /\ room = Len(p) + k
    BY LenProperties
  <1>2. /\ p \o t \in Seq(S) /\ Len(p \o t) = Len(p) + Len(t)
        /\ \A i \in 1 .. Len(p) + Len(t) : (p \o t)[i] = IF i <= Len(p) THEN p[i]
             ELSE t[i - Len(p)]
    BY ConcatProperties
  <1> HIDE DEF k
  <1>3. /\ Cut(t, k) \in Seq(S) /\ Len(Cut(t, k)) \in Nat
        /\ Len(Cut(t, k)) = IF Len(t) <= k THEN Len(t) ELSE k
        /\ \A i \in 1 .. Len(Cut(t, k)) : Cut(t, k)[i] = t[i]
    BY <1>1, CutProperties
  <1>4. /\ b \in Seq(S) /\ Len(b) = (IF Len(p) + Len(t) <= room THEN Len(p) + Len(t)
             ELSE room)
        /\ \A i \in 1 .. Len(b) : b[i] = (p \o t)[i]
    <2> DEFINE pt == p \o t
    <2>1. pt \in Seq(S) /\ Len(pt) = Len(p) + Len(t) /\ b = Cut(pt, room)
      BY <1>2
    <2> HIDE DEF pt, b
    <2>2. /\ b \in Seq(S) /\ Len(b) = (IF Len(pt) <= room THEN Len(pt) ELSE room)
          /\ \A i \in 1 .. Len(b) : b[i] = pt[i]
      BY <2>1, CutProperties
    <2> QED BY <2>1, <2>2 DEF pt
  <1>5. /\ a \in Seq(S) /\ Len(a) = Len(p) + Len(Cut(t, k))
        /\ \A i \in 1 .. Len(p) + Len(Cut(t, k)) : a[i] = IF i <= Len(p) THEN p[i]
             ELSE Cut(t, k)[i - Len(p)]
    BY <1>3, ConcatProperties
  <1> HIDE DEF a, b
  <1>6. Len(a) = Len(b)
    BY <1>1, <1>3, <1>4, <1>5
  <1>7. ASSUME NEW i \in 1 .. Len(a) PROVE a[i] = b[i]
    <2>1. i \in 1 .. Len(p) + Len(t) /\ i \in 1 .. Len(p) + Len(Cut(t, k))
            /\ i \in 1 .. Len(b)
      BY <1>1, <1>3, <1>5, <1>6
    <2>2. CASE i <= Len(p)
      BY <2>1, <2>2, <1>2, <1>4, <1>5
    <2>3. CASE ~(i <= Len(p))
      <3>1. i - Len(p) \in 1 .. Len(Cut(t, k))
        BY <2>1, <2>3, <1>1, <1>3
      <3>2. Cut(t, k)[i - Len(p)] = t[i - Len(p)]
        BY <3>1, <1>3
      <3> QED BY <3>2, <2>1, <2>3, <1>2, <1>4, <1>5
    <2> QED BY <2>2, <2>3
  <1>8. a = b
    BY <1>4, <1>5, <1>6, <1>7, SeqEqual
  <1> QED BY <1>8 DEF a, b, k

LEMMA CutConcat ==
  ASSUME NEW S, NEW s \in Seq(S), NEW t \in Seq(S), NEW room \in Nat
  PROVE  Cut(Cut(s, room) \o t, room) = Cut(s \o t, room)
  <1> DEFINE a == Cut(Cut(s, room) \o t, room)
             b == Cut(s \o t, room)
  <1>1. CASE Len(s) <= room
    BY <1>1, CutProperties
  <1>2. CASE ~(Len(s) <= room)
    <2>1. Len(s) \in Nat /\ Len(t) \in Nat
      BY LenProperties
    <2>2. /\ Cut(s, room) \in Seq(S) /\ Len(Cut(s, room)) = room
          /\ \A i \in 1 .. room : Cut(s, room)[i] = s[i]
      BY <1>2, CutProperties
    <2>3. /\ Cut(s, room) \o t \in Seq(S) /\ Len(Cut(s, room) \o t) = room + Len(t)
          /\ \A i \in 1 .. room + Len(t) :
               (Cut(s, room) \o t)[i] = IF i <= room THEN Cut(s, room)[i] ELSE t[i - room]
      <3> DEFINE c == Cut(s, room)
      <3>1. c \in Seq(S) /\ Len(c) = room
        BY <2>2
      <3> HIDE DEF c
      <3>2. /\ c \o t \in Seq(S) /\ Len(c \o t) = room + Len(t)
            /\ \A i \in 1 .. room + Len(t) : (c \o t)[i] = IF i <= room THEN c[i]
                 ELSE t[i - room]
        BY <3>1, ConcatProperties
      <3> QED BY <3>2 DEF c
    <2>4. /\ s \o t \in Seq(S) /\ Len(s \o t) = Len(s) + Len(t)
          /\ \A i \in 1 .. Len(s) + Len(t) : (s \o t)[i] = IF i <= Len(s) THEN s[i]
               ELSE t[i - Len(s)]
      BY ConcatProperties
    <2>5. a \in Seq(S) /\ Len(a) = room /\ \A i \in 1 .. room : a[i] = (Cut(s, room) \o t)[i]
      <3> DEFINE ct == Cut(s, room) \o t
      <3>1. ct \in Seq(S) /\ Len(ct) = room + Len(t) /\ a = Cut(ct, room)
        BY <2>3
      <3> HIDE DEF ct, a
      <3>2. /\ a \in Seq(S) /\ Len(a) = (IF Len(ct) <= room THEN Len(ct) ELSE room)
            /\ \A i \in 1 .. Len(a) : a[i] = ct[i]
        BY <3>1, CutProperties
      <3>3. Len(a) = room
        BY <3>1, <3>2, <2>1
      <3> QED BY <3>2, <3>3 DEF ct
    <2>6. b \in Seq(S) /\ Len(b) = room /\ \A i \in 1 .. room : b[i] = (s \o t)[i]
      <3>1. ~(Len(s \o t) <= room) \/ Len(s \o t) = room
        BY <1>2, <2>1, <2>4
      <3> QED BY <3>1, <2>4, CutProperties
    <2> HIDE DEF a, b
    <2>7. ASSUME NEW i \in 1 .. room PROVE a[i] = b[i]
      <3>1. i <= room /\ i <= Len(s) /\ i \in 1 .. room + Len(t) /\ i \in 1 .. Len(s) + Len(t)
        BY <1>2, <2>1
      <3>2. (Cut(s, room) \o t)[i] = s[i]
        BY <3>1, <2>2, <2>3
      <3>3. (s \o t)[i] = s[i]
        BY <3>1, <2>4
      <3> QED BY <3>2, <3>3, <2>5, <2>6
    <2>8. a = b
      BY <2>5, <2>6, <2>7, SeqEqual
    <2> QED BY <2>8 DEF a, b
  <1> QED BY <1>1, <1>2

LEMMA CutCut ==
  ASSUME NEW S, NEW s \in Seq(S), NEW room \in Nat, NEW more \in Nat, room <= more
  PROVE  Cut(Cut(s, more), room) = Cut(s, room)
  <1> DEFINE c == Cut(s, more)
             a == Cut(c, room)
             b == Cut(s, room)
  <1>1. Len(s) \in Nat
    BY LenProperties
  <1>2. /\ c \in Seq(S) /\ Len(c) = (IF Len(s) <= more THEN Len(s) ELSE more)
        /\ \A i \in 1 .. Len(c) : c[i] = s[i]
    BY CutProperties
  <1>3. /\ b \in Seq(S) /\ Len(b) = (IF Len(s) <= room THEN Len(s) ELSE room)
        /\ \A i \in 1 .. Len(b) : b[i] = s[i]
    BY CutProperties
  <1> HIDE DEF c, b
  <1>4. /\ a \in Seq(S) /\ Len(a) = (IF Len(c) <= room THEN Len(c) ELSE room)
        /\ \A i \in 1 .. Len(a) : a[i] = c[i]
    BY <1>2, CutProperties
  <1> HIDE DEF a
  <1>5. Len(a) = Len(b) /\ Len(a) <= Len(c)
    BY <1>1, <1>2, <1>3, <1>4
  <1>6. ASSUME NEW i \in 1 .. Len(a) PROVE a[i] = b[i]
    <2>1. i \in 1 .. Len(c) /\ i \in 1 .. Len(b)
      <3>1. Len(a) \in Nat /\ Len(c) \in Nat
        BY <1>2, <1>4, LenProperties
      <3> QED BY <3>1, <1>5
    <2> QED BY <2>1, <1>2, <1>3, <1>4
  <1>7. a = b
    BY <1>3, <1>4, <1>5, <1>6, SeqEqual
  <1> QED BY <1>7 DEF a, b, c

-----------------------------------------------------------------------------
(* Rounding of %f.                                                         *)

LEMMA RoundExact ==
  ASSUME NEW f \in Nat, NEW d \in Nat
  PROVE  /\ RoundParts(f, d)[1] \in Nat /\ RoundParts(f, d)[2] \in Nat
         /\ d = 0 => RoundParts(f, d)[1] = f \div 1000
         /\ d >= 1 => /\ RoundParts(f, d)[2] < Scale[d]
                      /\ RoundParts(f, d)[1] * Scale[d] + RoundParts(f, d)[2]
                           = (f * Scale[d] + 500) \div 1000
  <1> DEFINE w == f \div 1000
             r == f % 1000
             s == Scale[d]
             p == r * s
             frac == (p + 500) \div 1000
  <1>1. w \in Nat /\ r \in 0 .. 999 /\ f = 1000 * w + r
    OBVIOUS
  <1>2. s \in Nat /\ s >= 1
    BY ScaleRecursion
  <1>3. RoundParts(f, d) = IF d = 0 THEN <<w, 0>>
                           ELSE IF frac = s THEN <<w + 1, 0>> ELSE <<w, frac>>
    BY DEF RoundParts
  <1> HIDE DEF w, r, s
  <1>4. p \in Nat /\ p <= 999 * s
    <2>1. \A x \in Nat, y, z \in Nat : x <= y => x * z <= y * z
      OBVIOUS
    <2> QED BY <1>1, <1>2, <2>1
  <1>5. f * s = 1000 * (w * s) + p /\ w * s \in Nat
    <2>1. (1000 * w + r) * s = (1000 * w) * s + r * s
      BY <1>1, <1>2
    <2>2. (1000 * w) * s = 1000 * (w * s) /\ w * s \in Nat
      BY <1>1, <1>2
    <2> QED BY <2>1, <2>2, <1>1
  <1> DEFINE z == w * s
  <1>6. (w + 1) * s = w * s + s
    BY <1>1, <1>2
  <1> HIDE DEF p
  <1>7. frac \in Nat /\ frac <= s
    BY <1>2, <1>4
  <1>8. (1000 * z + p + 500) \div 1000 = z + frac
    <2>1. z \in Nat
      BY <1>5
    <2> HIDE DEF z
    <2> QED BY <2>1, <1>4
  <1>9. (f * s + 500) \div 1000 = z + frac
    BY <1>5, <1>8
  <1> HIDE DEF frac
  <1>10. CASE d = 0
    <2>1. RoundParts(f, d) = <<w, 0>>
      BY <1>3, <1>10
    <2> QED BY <2>1, <1>1, <1>10 DEF w
  <1>11. CASE d # 0 /\ frac = s
    <2>1. RoundParts(f, d)[1] = w + 1 /\ RoundParts(f, d)[2] = 0
      BY <1>3, <1>11
    <2>2. (w + 1) * s + 0 = (f * s + 500) \div 1000
      <3>1. (w + 1) * s = z + s /\ z \in Nat
        BY <1>5, <1>6
      <3>2. (f * s + 500) \div 1000 = z + s
        BY <1>9, <1>11
      <3> QED BY <3>1, <3>2, <1>2
    <2> QED BY <2>1, <2>2, <1>1, <1>2, <1>11 DEF s
  <1>12. CASE d # 0 /\ frac # s
    <2>1. RoundParts(f, d)[1] = w /\ RoundParts(f, d)[2] = frac
      BY <1>3, <1>12
    <2>2. w * s + frac = (f * s + 500) \div 1000 /\ frac < s
      BY <1>2, <1>7, <1>9, <1>12
    <2> QED BY <2>1, <2>2, <1>1, <1>7, <1>12 DEF s
  <1> QED BY <1>10, <1>11, <1>12

-----------------------------------------------------------------------------
(* The whole text of a piece, and that a round of qc_vslprintf appends as  *)
(* much of it as fits.                                                     *)

Pad(n, zero, hex, width) ==
    Repeat(zero, IF Len(Numeral(n, hex)) < width THEN width - Len(Numeral(n, hex)) ELSE 0)
Padded(n, zero, hex, width) == Pad(n, zero, hex, width) \o Numeral(n, hex)
Sign(n) == IF n < 0 THEN <<"-">> ELSE <<>>

Whole(item) ==
    CASE item.conv = "lit" -> <<item.arg>>
      [] item.conv = "s" -> item.arg
      [] item.conv = "d" -> Sign(item.arg) \o Padded(Abs(item.arg), item.zero, 0, item.width)
      [] item.conv = "u" -> Padded(item.arg, item.zero, item.hex, item.width)
      [] item.conv = "f" ->
           LET parts == RoundParts(Abs(item.arg), item.frac)
               whole == Sign(item.arg) \o Padded(parts[1], item.zero, 0, item.width)
           IN IF item.frac = 0 THEN whole
              ELSE (whole \o <<".">>) \o Padded(parts[2], "0", 0, item.frac)

LEMMA Chars ==
  /\ DigitChar \subseteq Char /\ "0" \in Char /\ "sp" \in Char /\ "-" \in Char /\ "." \in Char
  /\ <<"-">> \in Seq(Char) /\ <<".">> \in Seq(Char) /\ <<>> \in Seq(Char)
  <1>1. DigitChar \subseteq Char /\ "0" \in Char
    BY ZeroChar DEF DigitChar
  <1>2. "sp" \in Char /\ "-" \in Char /\ "." \in Char
    BY CharAssumption
  <1> QED BY <1>1, <1>2

LEMMA RepeatProperties ==
  ASSUME NEW S, NEW c \in S, NEW k \in Nat
  PROVE  /\ Repeat(c, k) \in Seq(S) /\ Len(Repeat(c, k)) = k
         /\ \A i \in 1 .. k : Repeat(c, k)[i] = c
  BY DEF Repeat

LEMMA PadProperties ==
  ASSUME NEW n \in Nat, NEW zero \in {"sp", "0"}, NEW hex \in 0 .. 2, NEW width \in Nat
  PROVE  /\ Numeral(n, hex) \in Seq(Char)
         /\ Pad(n, zero, hex, width) \in Seq(Char)
         /\ Padded(n, zero, hex, width) \in Seq(Char)
         /\ Len(Padded(n, zero, hex, width)) =
              IF Len(Numeral(n, hex)) < width THEN width ELSE Len(Numeral(n, hex))
  <1>1. Numeral(n, hex) \in Seq(Char) /\ Len(Numeral(n, hex)) \in Nat
    <2>1. Numeral(n, hex) \in Seq(DigitChar)
      BY NumeralRecursion
    <2> QED BY <2>1, Chars, SeqMonotonic, LenProperties
  <1> DEFINE k == IF Len(Numeral(n, hex)) < width THEN width - Len(Numeral(n, hex)) ELSE 0
  <1>2. k \in Nat /\ k + Len(Numeral(n, hex)) =
          (IF Len(Numeral(n, hex)) < width THEN width ELSE Len(Numeral(n, hex)))
    BY <1>1
  <1>3. zero \in Char
    BY Chars
  <1>4. Pad(n, zero, hex, width) = Repeat(zero, k)
    BY DEF Pad
  <1> HIDE DEF k
  <1>5. Repeat(zero, k) \in Seq(Char) /\ Len(Repeat(zero, k)) = k
    BY <1>2, <1>3, RepeatProperties
  <1>6. /\ Padded(n, zero, hex, width) \in Seq(Char)
        /\ Len(Padded(n, zero, hex, width)) = k + Len(Numeral(n, hex))
    BY <1>1, <1>4, <1>5, ConcatProperties DEF Padded
  <1> QED BY <1>1, <1>2, <1>4, <1>5, <1>6

LEMMA SprintfNumCuts ==
  ASSUME NEW buf \in Seq(Char), NEW room \in Nat, Len(buf) <= room,
         NEW n \in Nat, NEW zero \in {"sp", "0"}, NEW hex \in 0 .. 2, NEW width \in Nat
  PROVE  SprintfNum(buf, room, n, zero, hex, width)
           = Cut(buf \o Padded(n, zero, hex, width), room)
  <1> DEFINE text == Numeral(n, hex)
             pad == Pad(n, zero, hex, width)
             padded == IF Len(text) < width
                       THEN Cut(buf \o Repeat(zero, width - Len(text)), room)
                       ELSE buf
  <1>1. text \in Seq(Char) /\ pad \in Seq(Char)
    BY PadProperties
  <1>2. buf \o pad \in Seq(Char)
    BY <1>1, ConcatProperties
  <1>3. padded = Cut(buf \o pad, room)
    <2>1. CASE Len(text) < width
      BY <2>1 DEF Pad
    <2>2. CASE ~(Len(text) < width)
      <3>1. pad = Repeat(zero, 0)
        BY <2>2 DEF Pad
      <3>2. Repeat(zero, 0) = <<>>
        BY DEF Repeat
      <3>3. buf \o pad = buf
        BY <3>1, <3>2, ConcatEmptySeq
      <3> QED BY <2>2, <3>3, CutProperties
    <2> QED BY <2>1, <2>2
  <1>4. SprintfNum(buf, room, n, zero, hex, width) = padded \o Cut(text, room - Len(padded))
    BY DEF SprintfNum
  <1>5. padded \in Seq(Char) /\ Len(padded) <= room
    <2> DEFINE t == buf \o pad
    <2>1. t \in Seq(Char) /\ padded = Cut(t, room)
      BY <1>2, <1>3
    <2> HIDE DEF t, padded
    <2> QED BY <2>1, CutProperties
  <1>6. Padded(n, zero, hex, width) = pad \o text
    BY DEF Padded
  <1> HIDE DEF padded, text, pad
  <1>7. padded \o Cut(text, room - Len(padded)) = Cut(padded \o text, room)
    BY <1>1, <1>5, CutRest
  <1>8. Cut(padded \o text, room) = Cut((buf \o pad) \o text, room)
    BY <1>1, <1>2, <1>3, CutConcat
  <1>9. (buf \o pad) \o text = buf \o (pad \o text)
    BY <1>1, ConcatAssociative
  <1> QED BY <1>4, <1>6, <1>7, <1>8, <1>9

LEMMA AbsNat == ASSUME NEW n \in Int PROVE Abs(n) \in Nat
  BY DEF Abs

LEMMA SignProperties ==
  ASSUME NEW buf \in Seq(Char), NEW room \in Nat, Len(buf) < room, NEW n \in Int
  PROVE  LET signed == IF n < 0 THEN Append(buf, "-") ELSE buf
         IN signed = buf \o Sign(n) /\ signed \in Seq(Char) /\ Len(signed) <= room
           /\ Sign(n) \in Seq(Char)
  <1>1. "-" \in Char /\ <<"-">> \in Seq(Char) /\ <<>> \in Seq(Char) /\ Len(buf) \in Nat
    BY Chars, LenProperties
  <1>2. /\ Append(buf, "-") = buf \o <<"-">>
        /\ Append(buf, "-") \in Seq(Char) /\ Len(Append(buf, "-")) = Len(buf) + 1
    BY <1>1, AppendIsConcat, AppendProperties
  <1>3. buf \o <<>> = buf
    BY ConcatEmptySeq
  <1> QED BY <1>1, <1>2, <1>3 DEF Sign

LEMMA WholeProperties ==
  ASSUME NEW item \in Piece
  PROVE  /\ Whole(item) \in Seq(Char)
         /\ \A buf \in Seq(Char), room \in Nat :
              Len(buf) < room => Convert(buf, room, item) = Cut(buf \o Whole(item), room)
  <1>1. CASE item \in [conv : {"lit"}, arg : Char]
    <2>1. item.conv = "lit" /\ item.arg \in Char
      BY <1>1
    <2>2. Whole(item) = <<item.arg>>
            /\ \A buf, room : Convert(buf, room, item) = Append(buf, item.arg)
      BY <2>1 DEF Whole, Convert
    <2>3. ASSUME NEW buf \in Seq(Char), NEW room \in Nat, Len(buf) < room
          PROVE  Append(buf, item.arg) = Cut(buf \o <<item.arg>>, room)
      <3>1. /\ Append(buf, item.arg) = buf \o <<item.arg>>
            /\ Append(buf, item.arg) \in Seq(Char)
                 /\ Len(Append(buf, item.arg)) = Len(buf) + 1
        BY <2>1, AppendIsConcat, AppendProperties
      <3>2. Len(Append(buf, item.arg)) <= room
        BY <2>3, <3>1, LenProperties
      <3> QED BY <3>1, <3>2, CutProperties
    <2>4. <<item.arg>> \in Seq(Char)
      <3> DEFINE c == item.arg
      <3>1. c \in Char
        BY <2>1
      <3> HIDE DEF c
      <3>2. <<c>> \in Seq(Char)
        BY <3>1
      <3> QED BY <3>2 DEF c
    <2> QED BY <2>2, <2>3, <2>4
  <1>2. CASE item \in [conv : {"s"}, arg : Seq(Char)]
    <2>1. item.conv = "s" /\ item.arg \in Seq(Char)
      BY <1>2
    <2> QED BY <2>1 DEF Whole, Convert
  <1>3. CASE item \in [conv : {"d"}, arg : Int, width : Nat, zero : {"sp", "0"}, hex : {0}]
    <2>1. /\ item.conv = "d" /\ item.arg \in Int /\ item.width \in Nat
               /\ item.zero \in {"sp", "0"}
      BY <1>3
    <2>2. Abs(item.arg) \in Nat /\ 0 \in 0 .. 2
      BY <2>1, AbsNat
    <2> DEFINE number == Padded(Abs(item.arg), item.zero, 0, item.width)
    <2>3. Whole(item) = Sign(item.arg) \o number
      BY <2>1 DEF Whole
    <2>4. number \in Seq(Char)
      BY <2>1, <2>2, PadProperties
    <2>5. ASSUME NEW buf \in Seq(Char), NEW room \in Nat, Len(buf) < room
          PROVE  Convert(buf, room, item) = Cut(buf \o Whole(item), room)
      <3> DEFINE signed == IF item.arg < 0 THEN Append(buf, "-") ELSE buf
      <3>1. /\ signed = buf \o Sign(item.arg) /\ signed \in Seq(Char) /\ Len(signed) <= room
            /\ Sign(item.arg) \in Seq(Char)
        BY <2>1, <2>5, SignProperties
      <3>2. Convert(buf, room, item)
              = SprintfNum(signed, room, Abs(item.arg), item.zero, 0, item.width)
        BY <2>1 DEF Convert
      <3> HIDE DEF signed
      <3>3. Convert(buf, room, item) = Cut(signed \o number, room)
        <4> DEFINE m == Abs(item.arg)
                   zero == item.zero
                   width == item.width
        <4>1. m \in Nat /\ zero \in {"sp", "0"} /\ width \in Nat /\ signed \in Seq(Char)
                /\ Len(signed) <= room
          BY <2>1, <2>2, <3>1
        <4> HIDE DEF m, zero, width
        <4>2. SprintfNum(signed, room, m, zero, 0, width)
                = Cut(signed \o Padded(m, zero, 0, width), room)
          BY <4>1, <2>2, SprintfNumCuts
        <4> QED BY <4>2, <3>2 DEF m, zero, width
      <3> HIDE DEF number
      <3>4. (buf \o Sign(item.arg)) \o number = buf \o (Sign(item.arg) \o number)
        <4> DEFINE sign == Sign(item.arg)
        <4>1. buf \in Seq(Char) /\ sign \in Seq(Char) /\ number \in Seq(Char)
          BY <2>4, <3>1
        <4> HIDE DEF sign
        <4>2. (buf \o sign) \o number = buf \o (sign \o number)
          BY <4>1, ConcatAssociative
        <4> QED BY <4>2 DEF sign
      <3> QED BY <2>3, <3>1, <3>3, <3>4
    <2>6. Whole(item) \in Seq(Char)
      <3>1. Sign(item.arg) \in Seq(Char)
        BY Chars DEF Sign
      <3> HIDE DEF number
      <3> QED BY <2>3, <2>4, <3>1, ConcatProperties
    <2> QED BY <2>5, <2>6
  <1>4. CASE item \in [conv : {"u"}, arg : Nat, width : Nat, zero : {"sp", "0"}, hex : 0..2]
    <2>1. /\ item.conv = "u" /\ item.arg \in Nat /\ item.width \in Nat
               /\ item.zero \in {"sp", "0"}
          /\ item.hex \in 0 .. 2
      BY <1>4
    <2>2. /\ Whole(item) = Padded(item.arg, item.zero, item.hex, item.width)
          /\ \A buf, room : Convert(buf, room, item)
                              = SprintfNum(buf, room, item.arg, item.zero, item.hex,
                                item.width)
      BY <2>1 DEF Whole, Convert
    <2>3. Whole(item) \in Seq(Char)
      BY <2>1, <2>2, PadProperties
    <2>4. ASSUME NEW buf \in Seq(Char), NEW room \in Nat, Len(buf) < room
          PROVE  Convert(buf, room, item) = Cut(buf \o Whole(item), room)
      <3>1. Len(buf) <= room
        BY <2>4, LenProperties
      <3> QED BY <2>1, <2>2, <3>1, SprintfNumCuts
    <2> QED BY <2>3, <2>4
  <1>5. CASE item \in [conv : {"f"}, arg : Int, width : Nat, zero : {"sp", "0"}, frac : Nat]
    <2>1. /\ item.conv = "f" /\ item.arg \in Int /\ item.width \in Nat
               /\ item.zero \in {"sp", "0"}
          /\ item.frac \in Nat
      BY <1>5
    <2> DEFINE parts == RoundParts(Abs(item.arg), item.frac)
               sign == Sign(item.arg)
               first == Padded(parts[1], item.zero, 0, item.width)
               second == Padded(parts[2], "0", 0, item.frac)
               whole == sign \o first
    <2>2. parts[1] \in Nat /\ parts[2] \in Nat /\ 0 \in 0 .. 2 /\ "0" \in {"sp", "0"}
      <3> DEFINE m == Abs(item.arg)
                 d == item.frac
      <3>1. m \in Nat /\ d \in Nat
        BY <2>1, AbsNat
      <3> HIDE DEF m, d
      <3>2. RoundParts(m, d)[1] \in Nat /\ RoundParts(m, d)[2] \in Nat
        BY <3>1, RoundExact
      <3> QED BY <3>2 DEF m, d
    <2>3. first \in Seq(Char) /\ second \in Seq(Char) /\ sign \in Seq(Char)
            /\ <<".">> \in Seq(Char)
      <3>1. sign \in Seq(Char) /\ <<".">> \in Seq(Char)
        BY Chars DEF Sign
      <3> HIDE DEF parts, sign
      <3> QED BY <2>1, <2>2, <3>1, PadProperties
    <2>4. Whole(item) = IF item.frac = 0 THEN whole ELSE (whole \o <<".">>) \o second
      BY <2>1 DEF Whole
    <2>5. ASSUME NEW buf \in Seq(Char), NEW room \in Nat, Len(buf) < room
          PROVE  Convert(buf, room, item) = Cut(buf \o Whole(item), room)
      <3> DEFINE signed == IF item.arg < 0 THEN Append(buf, "-") ELSE buf
                 number == SprintfNum(signed, room, parts[1], item.zero, 0, item.width)
                 dotted == IF Len(number) < room THEN Append(number, ".") ELSE number
                 result == SprintfNum(dotted, room, parts[2], "0", 0, item.frac)
      <3>1. signed = buf \o sign /\ signed \in Seq(Char) /\ Len(signed) <= room
        BY <2>1, <2>5, SignProperties
      <3>2. Convert(buf, room, item) = IF item.frac = 0 THEN number ELSE result
        BY <2>1 DEF Convert, SprintfFloat
      <3> HIDE DEF signed, parts, sign
      <3>3. number = Cut(signed \o first, room)
        <4> DEFINE m == parts[1]
                   zero == item.zero
                   width == item.width
        <4>1. m \in Nat /\ zero \in {"sp", "0"} /\ width \in Nat /\ signed \in Seq(Char)
                /\ Len(signed) <= room
          BY <2>1, <2>2, <3>1
        <4> HIDE DEF m, zero, width
        <4>2. SprintfNum(signed, room, m, zero, 0, width)
                = Cut(signed \o Padded(m, zero, 0, width), room)
          BY <4>1, <2>2, SprintfNumCuts
        <4> QED BY <4>2 DEF m, zero, width
      <3> HIDE DEF number, first, second
      <3>4. signed \o first = buf \o whole /\ whole \in Seq(Char)
              /\ buf \o whole \in Seq(Char)
        BY <2>3, <3>1, ConcatAssociative, ConcatProperties, SMTT(30)
      <3>5. number = Cut(buf \o whole, room)
        BY <3>3, <3>4
      <3> HIDE DEF whole
      <3>6. number \in Seq(Char) /\ Len(number) <= room /\ Len(number) \in Nat
        <4> DEFINE t == buf \o whole
        <4>1. t \in Seq(Char) /\ number = Cut(t, room)
          BY <3>4, <3>5
        <4> HIDE DEF t
        <4> QED BY <4>1, CutProperties
      <3>7. dotted = Cut(number \o <<".">>, room)
        <4>1. CASE Len(number) < room
          <5>1. /\ Append(number, ".") = number \o <<".">>
                /\ Append(number, ".") \in Seq(Char)
                     /\ Len(Append(number, ".")) = Len(number) + 1
            BY <3>6, Chars, AppendIsConcat, AppendProperties
          <5>2. Len(Append(number, ".")) <= room
            BY <4>1, <5>1, <3>6
          <5> QED BY <4>1, <5>1, <5>2, CutProperties
        <4>2. CASE ~(Len(number) < room)
          <5>1. Len(number) = room /\ room - Len(number) = 0
            BY <4>2, <3>6
          <5>2. number \o Cut(<<".">>, room - Len(number)) = Cut(number \o <<".">>, room)
            BY <2>3, <3>6, CutRest
          <5>3. Cut(<<".">>, 0) = <<>>
            <6>1. /\ Cut(<<".">>, 0) \in Seq(Char) /\ Len(Cut(<<".">>, 0)) \in Nat
                  /\ Len(Cut(<<".">>, 0)) <= 0
              BY <2>3, CutProperties
            <6> DEFINE e == Cut(<<".">>, 0)
            <6>2. e \in Seq(Char) /\ Len(e) = 0
              BY <6>1
            <6> HIDE DEF e
            <6>3. e = <<>>
              BY <6>2
            <6> QED BY <6>3 DEF e
          <5>4. number \o <<>> = number
            BY <3>6, ConcatEmptySeq
          <5> QED BY <4>2, <5>1, <5>2, <5>3, <5>4
        <4> QED BY <4>1, <4>2
      <3>8. dotted = Cut((buf \o whole) \o <<".">>, room)
        BY <2>3, <3>4, <3>5, <3>7, CutConcat
      <3> HIDE DEF dotted
      <3>9. (buf \o whole) \o <<".">> = buf \o (whole \o <<".">>)
            /\ whole \o <<".">> \in Seq(Char) /\ buf \o (whole \o <<".">>) \in Seq(Char)
        <4> DEFINE dot == <<".">>
        <4>1. dot \in Seq(Char) /\ buf \in Seq(Char) /\ whole \in Seq(Char)
          BY <2>3, <3>4
        <4> HIDE DEF dot
        <4>2. (buf \o whole) \o dot = buf \o (whole \o dot)
          BY <4>1, ConcatAssociative
        <4>3. whole \o dot \in Seq(Char)
          BY <4>1, ConcatProperties
        <4>4. buf \o (whole \o dot) \in Seq(Char)
          BY <4>1, <4>3, ConcatProperties
        <4> QED BY <4>2, <4>3, <4>4 DEF dot
      <3> DEFINE pointed == whole \o <<".">>
      <3>10. pointed \in Seq(Char) /\ dotted = Cut(buf \o pointed, room)
               /\ buf \o pointed \in Seq(Char)
        BY <3>8, <3>9
      <3> HIDE DEF pointed
      <3>11. dotted \in Seq(Char) /\ Len(dotted) <= room
        <4> DEFINE t == buf \o pointed
        <4>1. t \in Seq(Char) /\ dotted = Cut(t, room)
          BY <3>10
        <4> HIDE DEF t
        <4> QED BY <4>1, CutProperties
      <3>12. result = Cut(dotted \o second, room)
        BY <2>1, <2>2, <3>11, SprintfNumCuts DEF second
      <3>13. result = Cut((buf \o pointed) \o second, room)
        BY <2>3, <3>10, <3>12, CutConcat
      <3>14. (buf \o pointed) \o second = buf \o (pointed \o second)
        <4>1. buf \in Seq(Char) /\ pointed \in Seq(Char) /\ second \in Seq(Char)
          BY <2>3, <3>10
        <4> HIDE DEF second
        <4> QED BY <4>1, ConcatAssociative
      <3>15. CASE item.frac = 0
        BY <3>15, <2>4, <3>2, <3>5
      <3>16. CASE item.frac # 0
        <4>1. Whole(item) = pointed \o second
          BY <3>16, <2>4 DEF pointed
        <4> QED BY <3>16, <4>1, <3>2, <3>13, <3>14
      <3> QED BY <3>15, <3>16
    <2>6. Whole(item) \in Seq(Char)
      <3> HIDE DEF first, second, sign
      <3>1. whole \in Seq(Char)
        BY <2>3, ConcatProperties
      <3> HIDE DEF whole
      <3>2. whole \o <<".">> \in Seq(Char)
        BY <3>1, <2>3, ConcatProperties
      <3>3. (whole \o <<".">>) \o second \in Seq(Char)
        BY <3>2, <2>3, ConcatProperties
      <3> QED BY <2>4, <3>1, <3>3
    <2> QED BY <2>5, <2>6
  <1> QED BY <1>1, <1>2, <1>3, <1>4, <1>5 DEF Piece

-----------------------------------------------------------------------------
(* What the text of a piece reads as.                                      *)

LEMMA UnsignedSigned ==
  ASSUME NEW n \in Int, NEW p \in Seq(Char), p # <<>>, p[1] # "-"
  PROVE  Unsigned(Sign(n) \o p) = p /\ (Sign(n) \o p # p <=> n < 0)
  <1>1. Len(p) \in Nat
    BY LenProperties
  <1>2. CASE n < 0
    <2> DEFINE t == <<"-">> \o p
    <2>1. Sign(n) \o p = t
      BY <1>2 DEF Sign
    <2>2. <<"-">> \in Seq(Char) /\ Len(<<"-">>) = 1 /\ <<"-">>[1] = "-"
      BY Chars
    <2>3. /\ t \in Seq(Char) /\ Len(t) = 1 + Len(p)
          /\ \A i \in 1 .. 1 + Len(p) : t[i] = IF i <= 1 THEN <<"-">>[i] ELSE p[i - 1]
      BY <2>2, ConcatProperties
    <2> HIDE DEF t
    <2>4. t # <<>> /\ t[1] = "-" /\ t # p
      <3>1. 1 \in 1 .. 1 + Len(p) /\ Len(t) # Len(p) /\ Len(t) # 0
        BY <1>1, <2>3
      <3>2. t # <<>>
        BY <3>1
      <3>3. t[1] = "-"
        BY <3>1, <2>2, <2>3
      <3> QED BY <3>1, <3>2, <3>3
    <2>5. /\ Tail(t) \in Seq(Char) /\ Len(Tail(t)) = Len(t) - 1
          /\ \A i \in 1 .. Len(Tail(t)) : Tail(t)[i] = t[i + 1]
      BY <2>3, <2>4, HeadTailProperties
    <2>6. \A i \in 1 .. Len(Tail(t)) : Tail(t)[i] = p[i]
      <3> TAKE i \in 1 .. Len(Tail(t))
      <3>1. i + 1 \in 1 .. 1 + Len(p) /\ ~(i + 1 <= 1) /\ (i + 1) - 1 = i
        BY <1>1, <2>3, <2>5
      <3> QED BY <3>1, <2>3, <2>5
    <2>7. Len(Tail(t)) = Len(p)
      BY <1>1, <2>3, <2>5
    <2>8. Tail(t) = p
      BY <2>5, <2>6, <2>7, SeqEqual
    <2> QED BY <1>2, <2>1, <2>4, <2>8 DEF Unsigned
  <1>3. CASE ~(n < 0)
    <2>1. Sign(n) \o p = p
      BY <1>3, ConcatEmptySeq DEF Sign
    <2> QED BY <1>3, <2>1 DEF Unsigned
  <1> QED BY <1>2, <1>3

(* p is n with its padding: it reads back as n, and is no wider than it    *)
(* has to be.                                                              *)
ReadsBack(p, n, zero, hex, width) ==
    /\ p \in Seq(Readable) /\ (zero = "0" => p \in Seq(DigitChar))
    /\ p # <<>> /\ p[1] # "-" /\ p[Len(p)] # "sp"
    /\ ReadIn(BaseOf(hex), p) = n
    /\ Len(p) \in Nat /\ Len(p) >= width
    /\ Len(p) > width /\ Len(p) > 1 => p[1] # "sp" /\ p[1] # "0"

LEMMA PaddedReads ==
  ASSUME NEW n \in Nat, NEW zero \in {"sp", "0"}, NEW hex \in 0 .. 2, NEW width \in Nat
  PROVE  ReadsBack(Padded(n, zero, hex, width), n, zero, hex, width)
  <1> DEFINE num == Numeral(n, hex)
             k == IF Len(num) < width THEN width - Len(num) ELSE 0
             pad == Repeat(zero, k)
             p == Padded(n, zero, hex, width)
  <1>1. num \in Seq(DigitChar) /\ Len(num) \in Nat
    BY NumeralRecursion, LenProperties
  <1>2. DigitChar \subseteq Readable /\ zero \in Readable /\ (zero = "0"
          => zero \in DigitChar)
    BY ZeroChar DEF Readable
  <1>3. num \in Seq(Readable)
    BY <1>1, <1>2, SeqMonotonic
  <1>4. k \in Nat /\ k + Len(num) >= width /\ (k + Len(num) > width => k = 0)
    BY <1>1
  <1>5. p = pad \o num
    BY DEF Padded, Pad
  <1>6. Len(num) >= 1 /\ (n >= 1 => num[1] # "0") /\ (n < BaseOf(hex) => Len(num) = 1)
    BY NumeralLeads
  <1>7. ReadIn(BaseOf(hex), num) = n
    BY NumeralReads
  <1>8. BaseOf(hex) \in Nat /\ BaseOf(hex) >= 2
    BY DEF BaseOf
  <1>9. \A i \in 1 .. Len(num) : num[i] \in DigitChar
    BY <1>1, ElementOfSeq
  <1>10. \A c \in DigitChar : c # "sp" /\ c # "-"
    BY DEF DigitChar
  <1> HIDE DEF num, k, p
  <1>11. pad \in Seq(Readable) /\ Len(pad) = k /\ \A i \in 1 .. k : pad[i] = zero
    BY <1>2, <1>4, RepeatProperties
  <1>12. zero = "0" => pad \in Seq(DigitChar)
    BY <1>2, <1>4, RepeatProperties
  <1>13. ReadIn(BaseOf(hex), p) = n
    BY <1>3, <1>4, <1>5, <1>7, <1>8, ReadPadded
  <1> HIDE DEF pad
  <1>14. /\ p \in Seq(Readable) /\ Len(p) = k + Len(num)
         /\ \A i \in 1 .. k + Len(num) : p[i] = IF i <= k THEN pad[i] ELSE num[i - k]
    BY <1>3, <1>5, <1>11, ConcatProperties
  <1>15. zero = "0" => p \in Seq(DigitChar)
    BY <1>1, <1>5, <1>12, ConcatProperties
  <1>16. p[Len(p)] # "sp"
    <2>1. k + Len(num) \in 1 .. k + Len(num) /\ ~(k + Len(num) <= k)
            /\ (k + Len(num)) - k = Len(num)
          /\ Len(num) \in 1 .. Len(num)
      BY <1>1, <1>4, <1>6
    <2> QED BY <2>1, <1>9, <1>10, <1>14
  <1>17. 1 \in 1 .. k + Len(num) /\ 1 \in 1 .. Len(num) /\ 1 - 0 = 1
    BY <1>1, <1>4, <1>6
  <1>18. p[1] # "-"
    <2>1. CASE k = 0
      <3>1. p[1] = num[1]
        BY <2>1, <1>14, <1>17
      <3> QED BY <3>1, <1>9, <1>10, <1>17
    <2>2. CASE k # 0
      <3>1. p[1] = zero
        BY <2>2, <1>4, <1>11, <1>14, <1>17
      <3> QED BY <3>1
    <2> QED BY <2>1, <2>2
  <1>19. ASSUME Len(p) > width, Len(p) > 1 PROVE p[1] # "sp" /\ p[1] # "0"
    <2>1. k = 0
      BY <1>4, <1>14, <1>19
    <2>2. p[1] = num[1] /\ num[1] \in DigitChar
      BY <2>1, <1>9, <1>14, <1>17
    <2>3. ~(n < BaseOf(hex))
      BY <2>1, <1>1, <1>6, <1>14, <1>19
    <2>4. n >= 1
      BY <2>3, <1>8
    <2> QED BY <2>2, <2>4, <1>6, <1>10
  <1>20. p # <<>> /\ Len(p) \in Nat /\ Len(p) >= width
    <2>1. Len(p) \in Nat /\ Len(p) >= width /\ Len(p) # 0
      BY <1>1, <1>4, <1>6, <1>14
    <2> QED BY <2>1
  <1>21. ReadsBack(p, n, zero, hex, width)
    BY <1>13, <1>14, <1>15, <1>16, <1>18, <1>19, <1>20 DEF ReadsBack
  <1> QED BY <1>21 DEF p

LEMMA ReadableChars == Readable \subseteq Char
  BY Chars DEF Readable

(* A number, with its sign, width and padding.                             *)
LEMMA NumberReads ==
  ASSUME NEW n \in Int, NEW zero \in {"sp", "0"}, NEW hex \in 0 .. 2, NEW width \in Nat,
           NEW item,
         item.arg = n, item.width = width, item.hex = hex
  PROVE  ReadsAs(Sign(n) \o Padded(Abs(n), zero, hex, width), item)
  <1> DEFINE m == Abs(n)
             p == Padded(m, zero, hex, width)
             t == Sign(n) \o p
  <1>1. m \in Nat
    BY AbsNat
  <1> HIDE DEF m
  <1>2. /\ p \in Seq(Readable)
        /\ p # <<>> /\ p[1] # "-" /\ p[Len(p)] # "sp"
        /\ ReadIn(BaseOf(hex), p) = m
        /\ Len(p) \in Nat /\ Len(p) >= width
        /\ Len(p) > width /\ Len(p) > 1 => p[1] # "sp" /\ p[1] # "0"
    <2>1. ReadsBack(p, m, zero, hex, width)
      BY <1>1, PaddedReads
    <2> HIDE DEF p
    <2> QED BY <2>1 DEF ReadsBack
  <1> HIDE DEF p
  <1>3. p \in Seq(Char)
    BY <1>2, ReadableChars, SeqMonotonic
  <1>4. Unsigned(t) = p /\ (t # p <=> n < 0)
    BY <1>2, <1>3, UnsignedSigned
  <1>5. BaseOf(hex) = IF item.hex = 0 THEN 10 ELSE 16
    BY DEF BaseOf
  <1> HIDE DEF t
  <1>6. ReadsAs(t, item)
    BY <1>2, <1>4, <1>5 DEF ReadsAs, IsNumeral, m
  <1> QED BY <1>6 DEF t, p, m

LEMMA FractionWidth ==
  ASSUME NEW n \in Nat, NEW frac \in Nat, frac >= 1, n < Scale[frac]
  PROVE  Len(Padded(n, "0", 0, frac)) = frac
  <1>1. Len(Numeral(n, 0)) <= frac
    BY NumeralFits
  <1>2. 0 \in 0 .. 2 /\ "0" \in {"sp", "0"}
    OBVIOUS
  <1>3. Numeral(n, 0) \in Seq(Char)
    BY <1>2, PadProperties
  <1>4. Len(Numeral(n, 0)) \in Nat
    BY <1>3, LenProperties
  <1>5. Len(Padded(n, "0", 0, frac)) =
              IF Len(Numeral(n, 0)) < frac THEN frac ELSE Len(Numeral(n, 0))
    BY <1>2, PadProperties
  <1> QED BY <1>1, <1>4, <1>5

(* A text with a point: what stands before and after it.                   *)
LEMMA AroundPoint ==
  ASSUME NEW a \in Seq(Char), NEW b \in Seq(Char)
  PROVE  LET u == (a \o <<".">>) \o b
             point == Len(a) + 1
         IN /\ u \in Seq(Char) /\ Len(u) = Len(a) + 1 + Len(b)
            /\ u[point] = "."
            /\ Len(a) >= 1 => u[1] = a[1]
            /\ SubSeq(u, 1, point - 1) = a
            /\ SubSeq(u, point + 1, Len(u)) = b
  <1> DEFINE d == <<".">>
             v == a \o d
             u == v \o b
             point == Len(a) + 1
  <1>1. Len(a) \in Nat /\ Len(b) \in Nat
    BY LenProperties
  <1>2. d \in Seq(Char) /\ Len(d) = 1 /\ d[1] = "."
    BY Chars
  <1> HIDE DEF d
  <1>3. /\ v \in Seq(Char) /\ Len(v) = Len(a) + 1
        /\ \A i \in 1 .. Len(a) + 1 : v[i] = IF i <= Len(a) THEN a[i] ELSE d[i - Len(a)]
    <2>1. /\ a \o d \in Seq(Char) /\ Len(a \o d) = Len(a) + Len(d)
          /\ \A i \in 1 .. Len(a) + Len(d) : (a \o d)[i] = IF i <= Len(a) THEN a[i]
               ELSE d[i - Len(a)]
      BY <1>2, ConcatProperties
    <2> QED BY <2>1, <1>2
  <1> HIDE DEF v
  <1>4. /\ u \in Seq(Char) /\ Len(u) = Len(a) + 1 + Len(b)
        /\ \A i \in 1 .. Len(a) + 1 + Len(b) : u[i] = IF i <= Len(a) + 1 THEN v[i]
             ELSE b[i - (Len(a) + 1)]
    <2>1. /\ v \o b \in Seq(Char) /\ Len(v \o b) = Len(v) + Len(b)
          /\ \A i \in 1 .. Len(v) + Len(b) : (v \o b)[i] = IF i <= Len(v) THEN v[i]
               ELSE b[i - Len(v)]
      <3>1. v \in Seq(Char) /\ b \in Seq(Char)
        BY <1>3
      <3> QED BY <3>1, ConcatProperties
    <2> QED BY <2>1, <1>3
  <1> HIDE DEF u
  <1>5. /\ \A i \in 1 .. Len(a) : u[i] = a[i]
        /\ u[point] = "."
        /\ \A i \in 1 .. Len(b) : u[point + i] = b[i]
    <2>1. ASSUME NEW i \in 1 .. Len(a) PROVE u[i] = a[i]
      <3>1. i \in 1 .. Len(a) + 1 /\ i \in 1 .. Len(a) + 1 + Len(b) /\ i <= Len(a)
              /\ i <= Len(a) + 1
        BY <1>1
      <3> QED BY <3>1, <1>3, <1>4
    <2>2. u[point] = "."
      <3>1. /\ point \in 1 .. Len(a) + 1 /\ point \in 1 .. Len(a) + 1 + Len(b)
                 /\ ~(point <= Len(a))
            /\ point <= Len(a) + 1 /\ point - Len(a) = 1
        BY <1>1
      <3> QED BY <3>1, <1>2, <1>3, <1>4
    <2>3. ASSUME NEW i \in 1 .. Len(b) PROVE u[point + i] = b[i]
      <3>1. /\ point + i \in 1 .. Len(a) + 1 + Len(b) /\ ~(point + i <= Len(a) + 1)
            /\ (point + i) - (Len(a) + 1) = i
        BY <1>1
      <3> QED BY <3>1, <1>4
    <2> QED BY <2>1, <2>2, <2>3
  <1>6. SubSeq(u, 1, point - 1) = a
    <2>1. point - 1 = Len(a) /\ \A i \in 1 .. Len(a) : u[i] \in Char
      BY <1>1, <1>5, ElementOfSeq
    <2>2. /\ SubSeq(u, 1, Len(a)) \in Seq(Char)
          /\ Len(SubSeq(u, 1, Len(a))) = IF 1 <= Len(a) THEN Len(a) - 1 + 1 ELSE 0
          /\ \A i \in 1 .. Len(a) - 1 + 1 : SubSeq(u, 1, Len(a))[i] = u[1 + i - 1]
      BY <1>1, <2>1, SubSeqProperties
    <2>3. Len(SubSeq(u, 1, Len(a))) = Len(a)
            /\ \A i \in 1 .. Len(a) : SubSeq(u, 1, Len(a))[i] = a[i]
      <3>1. Len(a) - 1 + 1 = Len(a) /\ \A i \in 1 .. Len(a) : 1 + i - 1 = i
        BY <1>1
      <3> QED BY <3>1, <2>2, <1>1, <1>5
    <2>4. SubSeq(u, 1, Len(a)) = a
      BY <2>2, <2>3, SeqEqual
    <2> QED BY <2>1, <2>4
  <1>7. SubSeq(u, point + 1, Len(u)) = b
    <2> DEFINE s == SubSeq(u, point + 1, Len(u))
    <2>1. \A i \in point + 1 .. Len(u) : u[i] \in Char
      <3>1. \A i \in point + 1 .. Len(u) : i \in 1 .. Len(u)
        BY <1>1, <1>4
      <3> QED BY <3>1, <1>4, ElementOfSeq
    <2>2. point + 1 \in Int /\ Len(u) \in Int /\ Len(u) - (point + 1) + 1 = Len(b)
          /\ (point + 1 <= Len(u) <=> Len(b) >= 1)
      BY <1>1, <1>4
    <2>3. /\ s \in Seq(Char)
          /\ Len(s) = IF point + 1 <= Len(u) THEN Len(u) - (point + 1) + 1 ELSE 0
          /\ \A i \in 1 .. Len(u) - (point + 1) + 1 : s[i] = u[point + 1 + i - 1]
      BY <2>1, <2>2, SubSeqProperties
    <2> HIDE DEF s
    <2>4. Len(s) = Len(b) /\ \A i \in 1 .. Len(b) : s[i] = b[i]
      <3>1. Len(s) = Len(b)
        BY <2>2, <2>3, <1>1
      <3>2. ASSUME NEW i \in 1 .. Len(b) PROVE s[i] = b[i]
        <4>1. point + 1 + i - 1 = point + i
          BY <1>1
        <4>2. s[i] = u[point + 1 + i - 1]
          BY <2>2, <2>3
        <4> QED BY <4>1, <4>2, <1>5
      <3> QED BY <3>1, <3>2
    <2>5. s = b
      BY <2>3, <2>4, SeqEqual
    <2> QED BY <2>5 DEF s
  <1>8. Len(a) >= 1 => u[1] = a[1]
    BY <1>1, <1>5
  <1> QED BY <1>4, <1>5, <1>6, <1>7, <1>8 DEF u, v, d

LEMMA DecimalReads ==
  ASSUME NEW n \in Nat, NEW zero \in {"sp", "0"}, NEW width \in Nat
  PROVE  LET p == Padded(n, zero, 0, width)
         IN /\ p \in Seq(Readable) /\ (zero = "0" => p \in Seq(DigitChar))
            /\ p # <<>> /\ p[1] # "-" /\ ReadIn(10, p) = n /\ Len(p) \in Nat
  <1>1. BaseOf(0) = 10
    BY DEF BaseOf
  <1>2. 0 \in 0 .. 2
    OBVIOUS
  <1> DEFINE p == Padded(n, zero, 0, width)
  <1>5. ReadsBack(p, n, zero, 0, width)
    BY <1>2, PaddedReads
  <1> HIDE DEF p
  <1>3. /\ p \in Seq(Readable) /\ (zero = "0" => p \in Seq(DigitChar))
        /\ p # <<>> /\ p[1] # "-" /\ ReadIn(BaseOf(0), p) = n /\ Len(p) \in Nat
    BY <1>5 DEF ReadsBack
  <1>4. ReadIn(10, p) = n
    BY <1>1, <1>3
  <1> QED BY <1>3, <1>4 DEF p

(* A double: its sign, the integer part, the point and the rounded fraction. *)
LEMMA DoubleReads ==
  ASSUME NEW n \in Int, NEW zero \in {"sp", "0"}, NEW width \in Nat, NEW frac \in Nat,
           NEW item,
         item.arg = n, item.frac = frac
  PROVE  LET parts == RoundParts(Abs(n), frac)
             whole == Sign(n) \o Padded(parts[1], zero, 0, width)
         IN ReadsAsFloat(IF frac = 0 THEN whole
                         ELSE (whole \o <<".">>) \o Padded(parts[2], "0", 0, frac), item)
  <1> DEFINE m == Abs(n)
             x == RoundParts(m, frac)[1]
             y == RoundParts(m, frac)[2]
             a == Padded(x, zero, 0, width)
             b == Padded(y, "0", 0, frac)
  <1>1. m \in Nat
    BY AbsNat
  <1> HIDE DEF m
  <1>2. /\ x \in Nat /\ y \in Nat
        /\ frac = 0 => x = m \div 1000
        /\ frac >= 1 => y < Scale[frac]
             /\ x * Scale[frac] + y = (m * Scale[frac] + 500) \div 1000
    BY <1>1, RoundExact
  <1> HIDE DEF x, y
  <1>3. 0 \in 0 .. 2 /\ "0" \in {"sp", "0"} /\ BaseOf(0) = 10
    BY DEF BaseOf
  <1>4. /\ a \in Seq(Readable) /\ a # <<>> /\ a[1] # "-"
        /\ ReadIn(10, a) = x /\ Len(a) \in Nat
    <2>1. x \in Nat
      BY <1>2
    <2>2. LET p == Padded(x, zero, 0, width)
          IN /\ p \in Seq(Readable) /\ (zero = "0" => p \in Seq(DigitChar))
             /\ p # <<>> /\ p[1] # "-" /\ ReadIn(10, p) = x /\ Len(p) \in Nat
      BY <2>1, DecimalReads
    <2> QED BY <2>2
  <1>5. b \in Seq(DigitChar) /\ ReadIn(10, b) = y
    BY <1>2, <1>3, DecimalReads
  <1>6. frac >= 1 => Len(b) = frac
    BY <1>2, FractionWidth
  <1> HIDE DEF a, b
  <1>7. a \in Seq(Char) /\ b \in Seq(Char) /\ Sign(n) \in Seq(Char) /\ <<".">> \in Seq(Char)
    <2>1. a \in Seq(Char) /\ b \in Seq(Char)
      BY <1>4, <1>5, ReadableChars, Chars, SeqMonotonic
    <2> QED BY <2>1, Chars DEF Sign
  <1>8. Len(a) >= 1
    BY <1>4
  <1>9. CASE frac = 0
    <2> DEFINE t == Sign(n) \o a
    <2>1. Unsigned(t) = a /\ (t # a <=> n < 0)
      BY <1>4, <1>7, UnsignedSigned
    <2> HIDE DEF t
    <2>2. ReadsAsFloat(t, item)
      BY <1>2, <1>4, <1>9, <2>1 DEF ReadsAsFloat, m
    <2> QED BY <1>9, <2>2 DEF t, a, x, m
  <1>10. CASE frac # 0
    <2> DEFINE u == (a \o <<".">>) \o b
               t == Sign(n) \o u
               point == Len(a) + 1
    <2>1. /\ u \in Seq(Char) /\ Len(u) = Len(a) + 1 + Len(b)
          /\ u[point] = "."
          /\ Len(a) >= 1 => u[1] = a[1]
          /\ SubSeq(u, 1, point - 1) = a
          /\ SubSeq(u, point + 1, Len(u)) = b
      BY <1>7, AroundPoint
    <2> HIDE DEF u
    <2>2. Len(b) = frac /\ Len(u) - frac = point /\ point > 1
      <3>1. frac >= 1
        BY <1>10
      <3>2. Len(b) = frac
        BY <3>1, <1>6
      <3>3. Len(u) = Len(a) + 1 + frac
        BY <3>2, <2>1
      <3>4. Len(u) - frac = point /\ point > 1
        BY <3>3, <1>4, <1>8
      <3> QED BY <3>2, <3>4
    <2>3. u # <<>> /\ u[1] # "-"
      <3>1. Len(u) # 0
        BY <2>1, <2>2, <1>4
      <3> QED BY <3>1, <2>1, <1>4, <1>8
    <2>4. Unsigned(t) = u /\ (t # u <=> n < 0)
      BY <2>1, <2>3, UnsignedSigned
    <2>5. ReadIn(10, a \o b) = (m * Scale[frac] + 500) \div 1000
      <3>1. ReadIn(10, a \o b) = ReadIn(10, a) * Scale[Len(b)] + ReadIn(10, b)
        BY <1>4, <1>5, ReadConcat
      <3>2. frac >= 1
        BY <1>10
      <3> QED BY <3>1, <3>2, <2>2, <1>2, <1>4, <1>5
    <2> HIDE DEF t
    <2>6. ReadsAsFloat(t, item)
      <3> DEFINE v == Unsigned(t)
                 at == Len(v) - item.frac
                 digits == IF item.frac = 0 THEN v
                           ELSE SubSeq(v, 1, at - 1) \o SubSeq(v, at + 1, Len(v))
      <3>1. v = u /\ at = point
        BY <2>2, <2>4
      <3> HIDE DEF v, at
      <3>2. digits = a \o b
        BY <3>1, <2>1, <1>10
      <3> HIDE DEF point
      <3>3. (t # v <=> item.arg < 0) /\ at > 1 /\ v[at] = "."
        BY <3>1, <2>1, <2>2, <2>4
      <3>4. ReadIn(10, digits) = (Abs(item.arg) * Scale[item.frac] + 500) \div 1000
        <4> HIDE DEF digits
        <4>1. ReadIn(10, digits) = (m * Scale[frac] + 500) \div 1000
          BY <3>2, <2>5
        <4> QED BY <4>1 DEF m
      <3> HIDE DEF digits
      <3> QED BY <3>3, <3>4, <1>10 DEF ReadsAsFloat, digits, at, v
    <2>7. t = ((Sign(n) \o a) \o <<".">>) \o b
      <3>1. a \o <<".">> \in Seq(Char)
        BY <1>7, ConcatProperties
      <3>2. t = (Sign(n) \o (a \o <<".">>)) \o b
        BY <1>7, <3>1, ConcatAssociative DEF t, u
      <3>3. Sign(n) \o (a \o <<".">>) = (Sign(n) \o a) \o <<".">>
        BY <1>7, ConcatAssociative
      <3> QED BY <3>2, <3>3
    <2> QED BY <1>10, <2>6, <2>7 DEF a, b, x, y, m
  <1> QED BY <1>9, <1>10

LEMMA PieceReads ==
  ASSUME NEW item \in Piece
  PROVE  /\ item.conv \in {"d", "u"} => ReadsAs(Whole(item), item)
         /\ item.conv = "f" => ReadsAsFloat(Whole(item), item)
         /\ item.conv = "s" => Whole(item) = item.arg
  <1>1. ASSUME item.conv = "d" PROVE ReadsAs(Whole(item), item)
    <2>1. item \in [conv : {"d"}, arg : Int, width : Nat, zero : {"sp", "0"}, hex : {0}]
      BY <1>1 DEF Piece
    <2>2. item.arg \in Int /\ item.width \in Nat /\ item.zero \in {"sp", "0"}
            /\ item.hex = 0 /\ 0 \in 0 .. 2
      BY <2>1
    <2>3. Whole(item) = Sign(item.arg) \o Padded(Abs(item.arg), item.zero, 0, item.width)
      BY <1>1 DEF Whole
    <2> QED BY <2>2, <2>3, NumberReads
  <1>2. ASSUME item.conv = "u" PROVE ReadsAs(Whole(item), item)
    <2>1. item \in [conv : {"u"}, arg : Nat, width : Nat, zero : {"sp", "0"}, hex : 0..2]
      BY <1>2 DEF Piece
    <2>2. /\ item.arg \in Nat /\ item.arg \in Int /\ item.width \in Nat
               /\ item.zero \in {"sp", "0"}
          /\ item.hex \in 0 .. 2
      BY <2>1
    <2>3. Whole(item) = Padded(item.arg, item.zero, item.hex, item.width)
      BY <1>2 DEF Whole
    <2>4. Abs(item.arg) = item.arg /\ Sign(item.arg) = <<>>
      BY <2>2 DEF Abs, Sign
    <2>5. Padded(item.arg, item.zero, item.hex, item.width) \in Seq(Char)
      BY <2>2, PadProperties
    <2>6. Sign(item.arg) \o Padded(Abs(item.arg), item.zero, item.hex, item.width)
            = Whole(item)
      BY <2>3, <2>4, <2>5, ConcatEmptySeq
    <2>7. ReadsAs(Sign(item.arg) \o Padded(Abs(item.arg), item.zero, item.hex, item.width),
            item)
      BY <2>2, NumberReads
    <2> QED BY <2>6, <2>7
  <1>3. ASSUME item.conv = "f" PROVE ReadsAsFloat(Whole(item), item)
    <2>1. item \in [conv : {"f"}, arg : Int, width : Nat, zero : {"sp", "0"}, frac : Nat]
      BY <1>3 DEF Piece
    <2>2. /\ item.arg \in Int /\ item.width \in Nat /\ item.zero \in {"sp", "0"}
               /\ item.frac \in Nat
      BY <2>1
    <2>3. Whole(item) =
            LET parts == RoundParts(Abs(item.arg), item.frac)
                whole == Sign(item.arg) \o Padded(parts[1], item.zero, 0, item.width)
            IN IF item.frac = 0 THEN whole
               ELSE (whole \o <<".">>) \o Padded(parts[2], "0", 0, item.frac)
      BY <1>3 DEF Whole
    <2> QED BY <2>2, <2>3, DoubleReads
  <1>4. ASSUME item.conv = "s" PROVE Whole(item) = item.arg
    BY <1>4 DEF Whole
  <1> QED BY <1>1, <1>2, <1>3, <1>4
=============================================================================
