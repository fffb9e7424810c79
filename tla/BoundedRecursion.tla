--------------------------- MODULE BoundedRecursion ---------------------------
(***************************************************************************)
(* Induction up to a bound, stated with sets in the place of predicates,   *)
(* and the existence of functions that are defined by recursion up to a    *)
(* bound.  The proofs about the loops of wget rest on these facts.         *)
(***************************************************************************)
EXTENDS Integers, FiniteSetTheorems, TLAPS

(* Every non-empty set of natural numbers has a least element.              *)
LEMMA LeastNatural ==
  ASSUME NEW S, S \subseteq Nat, S # {}
  PROVE  \E m \in S : \A n \in S : m <= n
<1> DEFINE R == OpToRel(<, Nat)
<1>1. IsWellFoundedOn(R, Nat)
  BY NatLessThanWellFounded
<1> HIDE DEF R
<1>2. PICK m \in S : \A n \in S : <<n, m>> \notin R
  BY <1>1, WFMin
<1>3. \A n \in S : ~(n < m)
  BY <1>2 DEF R, OpToRel
<1> QED
  BY <1>3

(* Induction from 0 up to n.                                                *)
LEMMA UpTo ==
  ASSUME NEW n \in Nat, NEW S, 0 \in S,
         \A i \in 1 .. n : i - 1 \in S => i \in S
  PROVE  \A i \in 0 .. n : i \in S
<1> DEFINE Bad == {i \in 0 .. n : i \notin S}
<1> SUFFICES ASSUME Bad # {} PROVE FALSE
  OBVIOUS
<1>1. Bad \subseteq Nat
  OBVIOUS
<1> HIDE DEF Bad
<1>2. PICK m \in Bad : \A i \in Bad : m <= i
  BY <1>1, LeastNatural
<1> USE DEF Bad
<1>3. m \in 1 .. n /\ m - 1 \in 0 .. n /\ m - 1 \notin Bad
  BY <1>2
<1> QED
  BY <1>2, <1>3

\* f starts at b, and its value at i is a step g[i] away from that at i - 1.
Unfolds(f, n, b, g) == f[0] = b /\ \A i \in 1 .. n : f[i] = g[i][f[i - 1]]

(* A function that is given at 0 and whose value at i is a step g[i] away   *)
(* from its value at i - 1.                                                 *)
LEMMA RecursionExists ==
  ASSUME NEW n \in Nat, NEW D, NEW b \in D, NEW g \in [1 .. n -> [D -> D]]
  PROVE  \E f \in [0 .. n -> D] : Unfolds(f, n, b, g)
<1> DEFINE Upto(m) == \E f \in [0 .. m -> D] : /\ f[0] = b
                                               /\ \A i \in 1 .. m : f[i] = g[i][f[i - 1]]
           S == {m \in 0 .. n : Upto(m)}
<1>1. Upto(0)
  <2> DEFINE h == [i \in 0 .. 0 |-> b]
  <2>1. h \in [0 .. 0 -> D] /\ h[0] = b /\ 1 .. 0 = {}
    OBVIOUS
  <2> HIDE DEF h
  <2> QED
    BY <2>1
<1>2. ASSUME NEW m \in 1 .. n, Upto(m - 1)
      PROVE  Upto(m)
  <2>1. PICK f \in [0 .. m - 1 -> D] :
          f[0] = b /\ \A i \in 1 .. m - 1 : f[i] = g[i][f[i - 1]]
    BY <1>2
  <2> DEFINE h == [i \in 0 .. m |-> IF i = m THEN g[m][f[m - 1]] ELSE f[i]]
  <2>2. f[m - 1] \in D /\ g[m] \in [D -> D]
    BY <2>1
  <2>3. h \in [0 .. m -> D] /\ h[0] = b
    BY <2>1, <2>2
  <2>4. \A i \in 1 .. m : h[i] = g[i][h[i - 1]]
    BY <2>1
  <2> HIDE DEF h
  <2> QED
    BY <2>3, <2>4
<1> HIDE DEF Upto
<1>3. 0 \in S
  BY <1>1
<1>4. \A m \in 1 .. n : m - 1 \in S => m \in S
  BY <1>2
<1> HIDE DEF S
<1>5. \A m \in 0 .. n : m \in S
  BY <1>3, <1>4, UpTo
<1> QED
  BY <1>5 DEF S, Upto, Unfolds
===============================================================================
