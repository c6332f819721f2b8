----------------------------- MODULE NatLemmas -----------------------------
(***************************************************************************)
(* Facts about numbers that the proofs of several components use.          *)
(***************************************************************************)
EXTENDS Integers, WellFoundedInduction, TLAPS

\* A set of natural numbers has a least element.
LEMMA LeastNat ==
    ASSUME NEW T, T \subseteq Nat, T # {}
    PROVE  \E x \in T : \A y \in T : x <= y
<1> DEFINE R == OpToRel(<, Nat)
<1>1. IsWellFoundedOn(R, Nat)
    BY NatLessThanWellFounded
<1>2. \A x, y \in Nat : <<y, x>> \in R <=> y < x
    BY DEF OpToRel
<1> HIDE DEF R
<1>3. \E x \in T : \A y \in T : ~(<<y, x>> \in R)
    BY <1>1, WFMin, Zenon
<1>4. PICK x \in T : \A y \in T : ~(<<y, x>> \in R)
    BY <1>3, Zenon
<1>5. ASSUME NEW y \in T PROVE x <= y
  <2>1. x \in Nat /\ y \in Nat
      OBVIOUS
  <2>2. ~(y < x)
      BY <1>2, <1>4, <2>1, Zenon
  <2> QED BY <2>1, <2>2
<1> QED BY <1>5

\* So has one that is bounded a greatest.
LEMMA GreatestNat ==
    ASSUME NEW T, T \subseteq Nat, T # {}, NEW b \in Nat, \A x \in T : x <= b
    PROVE  \E x \in T : \A y \in T : y <= x
<1> DEFINE U == {b - x : x \in T}
<1>1. U \subseteq Nat /\ U # {}
  <2>1. \A x \in T : x \in Nat /\ b - x \in Nat
      OBVIOUS
  <2>2. U # {}
      OBVIOUS
  <2> QED BY <2>1, <2>2
<1>2. PICK u \in U : \A z \in U : u <= z
    BY <1>1, LeastNat
<1>3. PICK x \in T : u = b - x
    OBVIOUS
<1>4. ASSUME NEW y \in T PROVE y <= x
  <2>1. b - y \in U
      OBVIOUS
  <2>2. b - x <= b - y /\ x \in Nat /\ y \in Nat
      BY <1>2, <1>3, <2>1
  <2> QED BY <2>2
<1> QED BY <1>4

\* The quotient of natural numbers
LEMMA Quotient ==
    ASSUME NEW a \in Nat, NEW b \in Nat \ {0}
    PROVE  /\ a \div b \in Nat
           /\ (a \div b) * b <= a /\ a < (a \div b) * b + b
    OBVIOUS

\* Multiplication is monotone.
LEMMA TimesMonotone ==
    ASSUME NEW x \in Nat, NEW y \in Nat, NEW s \in Nat, x <= y
    PROVE  x * s \in Nat /\ y * s \in Nat /\ x * s <= y * s
    OBVIOUS

\* A number below a multiple of b has a smaller quotient.
LEMMA QuotientBelow ==
    ASSUME NEW a \in Nat, NEW b \in Nat \ {0}, NEW n \in Nat, a < n * b
    PROVE  a \div b < n
<1>1. /\ a \div b \in Nat /\ (a \div b) * b <= a
    BY Quotient
<1>2. n <= a \div b => n * b <= (a \div b) * b /\ n * b \in Nat /\ (a \div b) * b \in Nat
    BY <1>1, TimesMonotone
<1> QED BY <1>1, <1>2
============================================================================
