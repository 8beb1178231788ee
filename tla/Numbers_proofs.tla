---------------------------- MODULE Numbers_proofs --------------------------
(***************************************************************************)
(* Natural numbers, as the proofs of the other modules need them.          *)
(*                                                                         *)
(* A property that is to be proved of every n by induction is given as the *)
(* set of the numbers that have it.  It is with a set, rather than with an *)
(* operator, that SMT and Zenon can instantiate an induction theorem.      *)
(***************************************************************************)
EXTENDS Integers, WellFoundedInduction, TLAPS

\* A nonempty set of natural numbers has a least element.
LEMMA LeastElement ==
  ASSUME NEW T, T \subseteq Nat, T # {}
  PROVE  \E x \in T : \A y \in T : x <= y
<1>1. PICK R : /\ IsWellFoundedOn(R, Nat)
               /\ \A x, y \in Nat : <<y, x>> \in R <=> y < x
  <2>1. \A x, y \in Nat : <<y, x>> \in OpToRel(<, Nat) <=> y < x
    BY DEF OpToRel
  <2>2. QED BY <2>1, NatLessThanWellFounded
<1>2. PICK x \in T : \A y \in T : ~ (<<y, x>> \in R)
  BY <1>1, WFMin, Zenon
<1>3. ASSUME NEW y \in T
      PROVE  x <= y
  <2>1. x \in Nat /\ y \in Nat
    OBVIOUS
  <2>2. ~(y < x)
    BY <1>1, <1>2, <2>1
  <2>3. QED BY <2>1, <2>2
<1>4. QED BY <1>3

\* Induction: what holds of 0, and of n + 1 whenever of n, holds of all.
LEMMA AllNumbers ==
  ASSUME NEW S, 0 \in S, \A n \in Nat : n \in S => n + 1 \in S
  PROVE  Nat \subseteq S
<1> SUFFICES ASSUME Nat \ S # {} PROVE FALSE
  OBVIOUS
<1>1. PICK x \in Nat \ S : \A y \in Nat \ S : x <= y
  BY LeastElement
<1>2. x # 0 /\ x - 1 \in Nat
  OBVIOUS
<1>3. x - 1 \in S
  BY <1>1, <1>2
<1>4. QED BY <1>2, <1>3

\* The same up to a bound.
LEMMA UpTo ==
  ASSUME NEW L \in Nat, NEW S, 0 \in S,
         \A n \in 0 .. L : n # L /\ n \in S => n + 1 \in S
  PROVE  0 .. L \subseteq S
<1> DEFINE T == S \cup {n \in Nat : n > L}
<1>1. 0 \in T
  OBVIOUS
<1>2. \A n \in Nat : n \in T => n + 1 \in T
  OBVIOUS
<1>3. Nat \subseteq T
  <2> HIDE DEF T
  <2> QED BY <1>1, <1>2, AllNumbers
<1>4. QED BY <1>3

\* A nonempty set of numbers up to a bound has a greatest element.
LEMMA GreatestElement ==
  ASSUME NEW L \in Nat, NEW T, T \subseteq 0 .. L, T # {}
  PROVE  \E x \in T : \A y \in T : y <= x
<1>1. \A x \in T : x \in Nat /\ L - x \in Nat
  OBVIOUS
<1> DEFINE S == {L - x : x \in T}
<1>2. S \subseteq Nat /\ S # {}
  BY <1>1
<1>3. PICK m \in S : \A y \in S : m <= y
  <2> HIDE DEF S
  <2> QED BY <1>2, LeastElement
<1>4. PICK x \in T : m = L - x
  OBVIOUS
<1>5. ASSUME NEW y \in T PROVE y <= x
  <2>1. m <= L - y
    <3>1. L - y \in S
      OBVIOUS
    <3> HIDE DEF S
    <3>2. QED BY <1>3, <3>1
  <2>2. x \in Int /\ y \in Int
    BY <1>1
  <2>3. QED BY <1>4, <2>1, <2>2
<1>6. QED BY <1>5
=============================================================================
