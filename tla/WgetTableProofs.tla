---------------------------- MODULE WgetTableProofs ----------------------------
(***************************************************************************)
(* The tables of wget.  Proofs about WgetHash, for every hash function,    *)
(* every number of keys and every list of primes: searches end at the      *)
(* right cell, a traversal misses no entry, and the table is a map.  And   *)
(* about WgetHsts, which keeps one per process, for every number of        *)
(* processes, every finite set of hosts with any superdomains, every set   *)
(* of ages and every width of time_t: no entry is made up, mixed or        *)
(* prolonged on its way through the tables and the file, and what others   *)
(* saved is merged before it is overwritten.                               *)
(*                                                                         *)
(* The argument about the hash table is geometric.  The path of an entry   *)
(* is the stretch of cells from its key's own position up to the cell it   *)
(* lies in, round the end of the array if need be.  In a well-shaped table *)
(* no path has a hole and no key lies in two cells.  An insertion fills    *)
(* the hole at the end of the new path; a removal makes one hole, and the  *)
(* loop behind it moves holes only into the part that it has passed, until *)
(* it meets a cell that was empty before: no path crosses that one.        *)
(***************************************************************************)
EXTENDS WgetHash, WgetHsts, BoundedRecursion

-----------------------------------------------------------------------------
(* The hash table: shape.                                                  *)


\* Cells from a to b, going round.
Dist(a, b, n) == IF a <= b THEN b - a ELSE b - a + n

TableOf(n) == [0 .. n - 1 -> Cell]
Occupied(t) == {x \in DOMAIN t : CELL_OCCUPIED(t, x)}
Entries(t) == {t[x] : x \in Occupied(t)}

\* y lies on the path of key k to the cell x.
OnPath(k, n, x, y) ==
  Dist(HASH_POSITION(k, n), y, n) < Dist(HASH_POSITION(k, n), x, n)

Distinct(t) == \A x, y \in Occupied(t) : t[x].key = t[y].key => x = y
Unbroken(t, n, x) == \A y \in 0 .. n - 1 : OnPath(t[x].key, n, x, y) => CELL_OCCUPIED(t, y)
Shape(t, n) == Distinct(t) /\ \A x \in Occupied(t) : Unbroken(t, n, x)

-----------------------------------------------------------------------------
(* Probing.                                                                *)

(* Going round an array of n cells, without the remainder.                  *)
LEMMA RoundThe ==
  ASSUME NEW n \in Nat, n > 0, NEW p \in 0 .. n - 1, NEW d \in 0 .. n - 1
  PROVE  (p + d) % n = IF p + d < n THEN p + d ELSE p + d - n
OBVIOUS

\* A key's own position is a cell.
LEMMA PositionType ==
  ASSUME NEW n \in Nat, n > 0, NEW k \in Key
  PROVE  HASH_POSITION(k, n) \in 0 .. n - 1
<1>1. Hash[k] \in Nat
  BY HashAssumption
<1> QED
  BY <1>1 DEF HASH_POSITION

(* The d-th probe is the cell at distance d.                                *)
LEMMA ProbeIs ==
  ASSUME NEW n \in Nat, n > 0, NEW k \in Key, NEW d \in 0 .. n - 1
  PROVE  /\ Probe(k, n, d) \in 0 .. n - 1
         /\ Dist(HASH_POSITION(k, n), Probe(k, n, d), n) = d
BY PositionType, RoundThe DEF Probe, Dist

\* Every cell is a probe: the one at its distance.
LEMMA ProbeAt ==
  ASSUME NEW n \in Nat, n > 0, NEW k \in Key, NEW y \in 0 .. n - 1
  PROVE  LET d == Dist(HASH_POSITION(k, n), y, n)
         IN d \in 0 .. n - 1 /\ Probe(k, n, d) = y
<1> DEFINE p == HASH_POSITION(k, n)
           d == Dist(p, y, n)
<1>1. p \in 0 .. n - 1
  BY PositionType
<1> HIDE DEF p
<1>2. d \in 0 .. n - 1 /\ (p + d < n => p + d = y) /\ (p + d >= n => p + d - n = y)
  BY <1>1 DEF Dist
<1> HIDE DEF d
<1>3. (p + d) % n = y
  BY <1>1, <1>2, RoundThe
<1> QED
  BY <1>2, <1>3 DEF Probe, p, d

(* Where find_cell ends, if there is such a place: the first cell from the  *)
(* key's own position on that is empty or holds the key.                    *)
LEMMA FindCell ==
  ASSUME NEW n \in Nat, n > 0, NEW t \in TableOf(n), NEW k \in Key,
         NEW z \in 0 .. n - 1, t[z].key \in {k, Free}
  PROVE  /\ find_cell(t, n, k) \in 0 .. n - 1
         /\ t[find_cell(t, n, k)].key \in {k, Free}
         /\ ~OnPath(k, n, find_cell(t, n, k), z)
         /\ \A y \in 0 .. n - 1 : OnPath(k, n, find_cell(t, n, k), y)
                                   => t[y].key \notin {k, Free}
<1> DEFINE S == {d \in 0 .. n - 1 : t[Probe(k, n, d)].key \in {k, Free}}
<1>1. Dist(HASH_POSITION(k, n), z, n) \in S
  BY ProbeAt
<1>2. S \subseteq Nat
  OBVIOUS
<1> HIDE DEF S
<1>3. \E d \in S : \A e \in S : d <= e
  BY <1>1, <1>2, LeastNatural
<1>4. LeastOf(S) \in S /\ \A e \in S : LeastOf(S) <= e
  BY <1>3 DEF LeastOf
<1> DEFINE m == LeastOf(S)
<1> HIDE DEF m
<1>5. m \in 0 .. n - 1 /\ t[Probe(k, n, m)].key \in {k, Free}
  BY <1>4 DEF m, S
<1>6. find_cell(t, n, k) = Probe(k, n, m)
  BY DEF find_cell, m, S
<1>7. find_cell(t, n, k) \in 0 .. n - 1
      /\ Dist(HASH_POSITION(k, n), find_cell(t, n, k), n) = m
  BY <1>5, <1>6, ProbeIs
<1>8. ASSUME NEW y \in 0 .. n - 1, OnPath(k, n, find_cell(t, n, k), y)
      PROVE  t[y].key \notin {k, Free}
  <2>1. Dist(HASH_POSITION(k, n), y, n) \in 0 .. n - 1
        /\ Probe(k, n, Dist(HASH_POSITION(k, n), y, n)) = y
    BY ProbeAt
  <2>2. Dist(HASH_POSITION(k, n), y, n) < m
    BY <1>7, <1>8 DEF OnPath
  <2>3. Dist(HASH_POSITION(k, n), y, n) \notin S
    BY <1>4, <2>1, <2>2, <1>5 DEF m
  <2> QED
    BY <2>1, <2>3 DEF S
<1> QED
  BY <1>5, <1>6, <1>7, <1>8

(* It is the only such cell.                                                *)
LEMMA FoundOnce ==
  ASSUME NEW n \in Nat, n > 0, NEW t \in TableOf(n), NEW k \in Key,
         NEW z \in 0 .. n - 1, t[z].key \in {k, Free},
         \A y \in 0 .. n - 1 : OnPath(k, n, z, y) => t[y].key \notin {k, Free}
  PROVE  find_cell(t, n, k) = z
<1> DEFINE f == find_cell(t, n, k)
           p == HASH_POSITION(k, n)
<1>1. f \in 0 .. n - 1 /\ t[f].key \in {k, Free} /\ ~OnPath(k, n, f, z)
  BY FindCell
<1>2. ~OnPath(k, n, z, f)
  BY <1>1
<1>3. p \in 0 .. n - 1
  BY PositionType
<1> HIDE DEF f, p
<1>4. ~(Dist(p, f, n) < Dist(p, z, n)) /\ ~(Dist(p, z, n) < Dist(p, f, n))
  BY <1>1, <1>2 DEF OnPath, p
<1>5. f = z
  BY <1>1, <1>3, <1>4 DEF Dist
<1> QED
  BY <1>5 DEF f

(* In a well-shaped table every entry is found where it lies.               *)
LEMMA ShapeFinds ==
  ASSUME NEW n \in Nat, n > 0, NEW t \in TableOf(n), Shape(t, n), NEW x \in Occupied(t)
  PROVE  t[x].key \in Key /\ find_cell(t, n, t[x].key) = x
<1>1. x \in 0 .. n - 1 /\ t[x].key \in Key
  BY DEF Occupied, TableOf, CELL_OCCUPIED, Cell
<1>2. ASSUME NEW y \in 0 .. n - 1, OnPath(t[x].key, n, x, y)
      PROVE  t[y].key \notin {t[x].key, Free}
  <2>1. y \in Occupied(t)
    BY <1>2 DEF Shape, Unbroken, Occupied, TableOf
  <2>2. y # x
    <3>1. HASH_POSITION(t[x].key, n) \in 0 .. n - 1
      BY <1>1, PositionType
    <3> QED
      BY <1>1, <1>2, <3>1 DEF OnPath, Dist
  <2> QED
    BY <2>1, <2>2 DEF Shape, Distinct, Occupied, CELL_OCCUPIED
<1> QED
  BY <1>1, <1>2, FoundOnce

(* A search for a key that is not there ends at an empty cell, a search for  *)
(* one that is there at its entry.                                          *)
LEMMA SearchAnswers ==
  ASSUME NEW n \in Nat, n > 0, NEW t \in TableOf(n), Shape(t, n), NEW k \in Key,
         NEW z \in 0 .. n - 1, ~CELL_OCCUPIED(t, z)
  PROVE  LET f == find_cell(t, n, k)
         IN /\ f \in 0 .. n - 1
            /\ CELL_OCCUPIED(t, f) => t[f].key = k
            /\ CELL_OCCUPIED(t, f) <=> k \in Keys(t)
            /\ \A x \in Occupied(t) : t[x].key = k => x = f
<1> DEFINE f == find_cell(t, n, k)
<1>1. f \in 0 .. n - 1 /\ t[f].key \in {k, Free}
  BY FindCell DEF CELL_OCCUPIED
<1>2. \A x \in Occupied(t) : t[x].key = k => x = f
  BY ShapeFinds
<1> HIDE DEF f
<1>3. CELL_OCCUPIED(t, f) => t[f].key = k
  BY <1>1 DEF CELL_OCCUPIED
<1>4. CELL_OCCUPIED(t, f) => k \in Keys(t)
  BY <1>1, <1>3 DEF Keys, TableOf
<1>5. k \in Keys(t) => CELL_OCCUPIED(t, f)
  BY <1>2 DEF Keys, Occupied
<1> QED
  BY <1>1, <1>2, <1>3, <1>4, <1>5 DEF f

-----------------------------------------------------------------------------
(* Entering and overwriting.                                               *)

\* Table t with entry e in cell f.
Filled(t, f, e) == [t EXCEPT ![f] = e]

(* A new key goes into the hole at the end of its path.                     *)
LEMMA InsertKeepsShape ==
  ASSUME NEW n \in Nat, n > 0, NEW t \in TableOf(n), Shape(t, n),
         NEW e \in Cell, e.key # Free, e.key \notin Keys(t),
         NEW z \in 0 .. n - 1, ~CELL_OCCUPIED(t, z)
  PROVE  LET f == find_cell(t, n, e.key)
             u == Filled(t, f, e)
         IN /\ f \in 0 .. n - 1 /\ f \notin Occupied(t)
            /\ u \in TableOf(n)
            /\ Shape(u, n)
            /\ Occupied(u) = Occupied(t) \cup {f}
            /\ Entries(u) = Entries(t) \cup {e}
<1> DEFINE k == e.key
           f == find_cell(t, n, k)
           u == [t EXCEPT ![f] = e]
<1>1. k \in Key
  BY DEF Cell
<1>2. /\ f \in 0 .. n - 1 /\ ~CELL_OCCUPIED(t, f)
      /\ \A y \in 0 .. n - 1 : OnPath(k, n, f, y) => CELL_OCCUPIED(t, y)
  <2>1. /\ f \in 0 .. n - 1
        /\ \A y \in 0 .. n - 1 : OnPath(k, n, f, y) => t[y].key \notin {k, Free}
    BY <1>1, FindCell DEF CELL_OCCUPIED
  <2>2. ~CELL_OCCUPIED(t, f)
    BY <1>1, SearchAnswers
  <2> QED
    BY <2>1, <2>2 DEF CELL_OCCUPIED
<1> HIDE DEF f
<1>3. u \in TableOf(n) /\ u[f] = e /\ \A x \in 0 .. n - 1 : x # f => u[x] = t[x]
  BY <1>2 DEF TableOf
<1>4. DOMAIN u = 0 .. n - 1 /\ DOMAIN t = 0 .. n - 1
  BY <1>3 DEF TableOf
<1> HIDE DEF u
<1>5. Occupied(u) = Occupied(t) \cup {f} /\ f \notin Occupied(t)
  BY <1>2, <1>3, <1>4 DEF Occupied, CELL_OCCUPIED
<1>6. Entries(u) = Entries(t) \cup {e}
  BY <1>3, <1>4, <1>5 DEF Entries, Occupied
<1>7. Distinct(u)
  <2>1. \A x \in Occupied(t) : t[x].key # k
    BY DEF Keys, Occupied
  <2> QED
    BY <1>3, <1>4, <1>5, <2>1 DEF Distinct, Shape, Occupied
<1>8. ASSUME NEW x \in Occupied(u) PROVE Unbroken(u, n, x)
  BY <1>2, <1>3, <1>4, <1>5, <1>8 DEF Unbroken, Shape, Occupied, CELL_OCCUPIED
<1> QED
  BY <1>2, <1>3, <1>5, <1>6, <1>7, <1>8 DEF Shape, Filled, f, u

(* Overwriting an entry under the same key moves nothing.                   *)
LEMMA UpdateKeepsShape ==
  ASSUME NEW n \in Nat, n > 0, NEW t \in TableOf(n), Shape(t, n),
         NEW f \in Occupied(t), NEW e \in Cell, e.key = t[f].key
  PROVE  LET u == Filled(t, f, e)
         IN /\ u \in TableOf(n)
            /\ Shape(u, n)
            /\ Occupied(u) = Occupied(t)
            /\ Entries(u) = (Entries(t) \ {t[f]}) \cup {e}
<1> DEFINE u == [t EXCEPT ![f] = e]
<1>1. DOMAIN t = 0 .. n - 1 /\ f \in 0 .. n - 1
  BY DEF TableOf, Occupied
<1>2. u \in TableOf(n) /\ u[f] = e /\ \A x \in 0 .. n - 1 : x # f => u[x] = t[x]
  BY <1>1 DEF TableOf
<1>3. DOMAIN u = 0 .. n - 1
  BY <1>2 DEF TableOf
<1> HIDE DEF u
<1>4. \A x \in 0 .. n - 1 : u[x].key = t[x].key
  BY <1>1, <1>2
<1>5. Occupied(u) = Occupied(t)
  BY <1>1, <1>3, <1>4 DEF Occupied, CELL_OCCUPIED
<1>6. Shape(u, n)
  BY <1>1, <1>3, <1>4, <1>5 DEF Shape, Distinct, Unbroken, Occupied, CELL_OCCUPIED
<1>7. \A x \in Occupied(t) : x # f => t[x] # t[f]
  BY DEF Shape, Distinct
<1>8. Entries(u) = (Entries(t) \ {t[f]}) \cup {e}
  BY <1>1, <1>2, <1>3, <1>5, <1>7 DEF Entries, Occupied
<1> QED
  BY <1>2, <1>5, <1>6, <1>8 DEF Filled, u

-----------------------------------------------------------------------------
(* Counting.                                                               *)

(* Fewer entries than cells: some cell is empty.                            *)
LEMMA RoomLeft ==
  ASSUME NEW n \in Nat, NEW t \in TableOf(n)
  PROVE  /\ IsFiniteSet(Occupied(t))
         /\ Cardinality(Occupied(t)) \in 0 .. n
         /\ Cardinality(Occupied(t)) < n => \E z \in 0 .. n - 1 : ~CELL_OCCUPIED(t, z)
<1>1. Occupied(t) \in SUBSET (0 .. n - 1)
  BY DEF Occupied, TableOf
<1>2. IsFiniteSet(0 .. n - 1) /\ Cardinality(0 .. n - 1) = n
  BY FS_Interval
<1>3. /\ IsFiniteSet(Occupied(t))
      /\ Cardinality(Occupied(t)) <= n
      /\ Cardinality(Occupied(t)) = n => Occupied(t) = 0 .. n - 1
  BY <1>1, <1>2, FS_Subset
<1>4. Cardinality(Occupied(t)) \in Nat
  BY <1>3, FS_CardinalityType
<1>5. Cardinality(Occupied(t)) < n => Occupied(t) # 0 .. n - 1
  BY <1>2, <1>4
<1>6. Occupied(t) # 0 .. n - 1 => \E z \in 0 .. n - 1 : ~CELL_OCCUPIED(t, z)
  BY <1>1 DEF Occupied, TableOf
<1> QED
  BY <1>3, <1>4, <1>5, <1>6

(* An empty table.                                                          *)
LEMMA EmptyTable ==
  ASSUME NEW n \in Nat
  PROVE  LET t == [c \in 0 .. n - 1 |-> EMPTY]
         IN /\ t \in TableOf(n) /\ Shape(t, n)
            /\ Occupied(t) = {} /\ Entries(t) = {} /\ Cardinality(Occupied(t)) = 0
<1> DEFINE t == [c \in 0 .. n - 1 |-> EMPTY]
<1>1. t \in TableOf(n)
  BY DEF TableOf, EMPTY, Cell
<1>2. Occupied(t) = {}
  BY DEF Occupied, CELL_OCCUPIED, EMPTY
<1> HIDE DEF t
<1>3. Entries(t) = {} /\ Shape(t, n)
  BY <1>2 DEF Entries, Shape, Distinct
<1>4. Cardinality(Occupied(t)) = 0
  BY <1>2, FS_EmptySet
<1> QED
  BY <1>1, <1>2, <1>3, <1>4 DEF t

-----------------------------------------------------------------------------
(* grow_hash_table.                                                        *)

\* What the recursion of Rehashing says of the function into.
RehashingRule(into, t, m, n) ==
  /\ into \in [0 .. m -> TableOf(n)]
  /\ into[0] = [c \in 0 .. n - 1 |-> EMPTY]
  /\ \A i \in 1 .. m :
       into[i] = IF ~CELL_OCCUPIED(t, i - 1) THEN into[i - 1]
                 ELSE [into[i - 1] EXCEPT
                         ![find_cell(into[i - 1], n, t[i - 1].key)] = t[i - 1]]

(* The recursion of Rehashing is well defined.                              *)
LEMMA RehashingSteps ==
  ASSUME NEW n \in Nat, NEW m \in Nat, NEW t \in TableOf(m)
  PROVE  RehashingRule(Rehashing(t, m, n), t, m, n)
<1> DEFINE D == TableOf(n)
           b == [c \in 0 .. n - 1 |-> EMPTY]
           Turn(u, i) == IF ~CELL_OCCUPIED(t, i - 1) THEN u
                         ELSE [u EXCEPT ![find_cell(u, n, t[i - 1].key)] = t[i - 1]]
           g == [i \in 1 .. m |-> [u \in D |-> Turn(u, i)]]
<1>1. b \in D
  BY EmptyTable
<1>2. ASSUME NEW i \in 1 .. m, NEW u \in D
      PROVE  Turn(u, i) \in D
  <2>1. t[i - 1] \in Cell
    BY DEF TableOf
  <2>2. \A x : [u EXCEPT ![x] = t[i - 1]] \in D
    BY <2>1 DEF TableOf
  <2> QED
    BY <2>2
<1> HIDE DEF D, b, Turn
<1>3. g \in [1 .. m -> [D -> D]] /\ \A i \in 1 .. m : \A u \in D : g[i][u] = Turn(u, i)
  BY <1>2
<1> HIDE DEF g
<1>4. PICK h \in [0 .. m -> D] : Unfolds(h, m, b, g)
  BY <1>1, <1>3, RecursionExists
<1>5. \A i \in 1 .. m : h[i] = Turn(h[i - 1], i)
  BY <1>3, <1>4 DEF Unfolds
<1>6. h = [i \in 0 .. m |-> IF i = 0 THEN b ELSE Turn(h[i - 1], i)]
  BY <1>4, <1>5 DEF Unfolds
<1> DEFINE R == Rehashing(t, m, n)
<1>7. R = CHOOSE f : f = [i \in 0 .. m |-> IF i = 0 THEN b ELSE Turn(f[i - 1], i)]
  BY DEF Rehashing, b, Turn
<1> HIDE DEF R
<1>8. R = [i \in 0 .. m |-> IF i = 0 THEN b ELSE Turn(R[i - 1], i)]
  BY <1>6, <1>7
<1>9. R[0] = b /\ \A i \in 1 .. m : R[i] = Turn(R[i - 1], i)
  BY <1>8
<1> DEFINE S == {i \in 0 .. m : R[i] \in D}
<1>10. \A i \in 0 .. m : i \in S
  <2>1. 0 \in S
    BY <1>1, <1>9
  <2>2. \A i \in 1 .. m : i - 1 \in S => i \in S
    BY <1>2, <1>9
  <2> HIDE DEF S
  <2> QED
    BY <2>1, <2>2, UpTo
<1>11. R \in [0 .. m -> D]
  BY <1>8, <1>10
<1> QED
  BY <1>9, <1>11 DEF D, b, Turn, R, RehashingRule

(* Entering all entries of a well-shaped table into a larger, empty one.     *)
LEMMA RehashedKeepsAll ==
  ASSUME NEW n \in Nat, NEW m \in Nat, NEW t \in TableOf(m), Shape(t, m), m < n
  PROVE  LET u == Rehashed(t, m, n)
         IN /\ u \in TableOf(n) /\ Shape(u, n)
            /\ Entries(u) = Entries(t)
            /\ Cardinality(Occupied(u)) = Cardinality(Occupied(t))
<1> DEFINE into == Rehashing(t, m, n)
           First(i) == {x \in Occupied(t) : x < i}
           Done(i) == /\ into[i] \in TableOf(n) /\ Shape(into[i], n)
                      /\ Entries(into[i]) = {t[x] : x \in First(i)}
                      /\ Cardinality(Occupied(into[i])) = Cardinality(First(i))
           S == {i \in 0 .. m : Done(i)}
<1>1. RehashingRule(into, t, m, n)
  BY RehashingSteps
<1>2. Rehashed(t, m, n) = into[m]
  BY DEF Rehashed
<1> HIDE DEF into
<1>3. DOMAIN t = 0 .. m - 1 /\ Occupied(t) \subseteq 0 .. m - 1
  BY DEF TableOf, Occupied
<1>4. Done(0)
  <2>1. First(0) = {}
    BY <1>3
  <2> QED
    BY <1>1, <2>1, EmptyTable, FS_EmptySet DEF RehashingRule
<1>5. ASSUME NEW i \in 1 .. m, Done(i - 1)
      PROVE  Done(i)
  <2> DEFINE v == into[i - 1]
             e == t[i - 1]
             f == find_cell(v, n, e.key)
  <2>1. i - 1 \in 0 .. m - 1
    OBVIOUS
  <2>2. CASE ~CELL_OCCUPIED(t, i - 1)
    <3>1. First(i) = First(i - 1)
      BY <1>3, <2>2 DEF Occupied
    <3>2. into[i] = into[i - 1]
      BY <1>1, <2>2 DEF RehashingRule
    <3> QED
      BY <1>5, <3>1, <3>2
  <2>3. CASE CELL_OCCUPIED(t, i - 1)
    <3>1. First(i) = First(i - 1) \cup {i - 1} /\ i - 1 \notin First(i - 1)
      BY <1>3, <2>1, <2>3 DEF Occupied
    <3>2. e \in Cell /\ e.key # Free
      BY <2>1, <2>3 DEF TableOf, CELL_OCCUPIED
    <3>3. e.key \notin Keys(v)
      <4> SUFFICES ASSUME NEW w \in Entries(v), w.key = e.key PROVE FALSE
        BY DEF Keys, Entries, Occupied
      <4>1. PICK x \in First(i - 1) : w = t[x]
        BY <1>5
      <4> QED
        BY <1>3, <2>1, <2>3, <4>1 DEF Shape, Distinct, Occupied
    <3>4. IsFiniteSet(First(i - 1)) /\ Cardinality(First(i - 1)) \in 0 .. m
      <4>1. IsFiniteSet(Occupied(t)) /\ Cardinality(Occupied(t)) \in 0 .. m
        BY RoomLeft
      <4>2. First(i - 1) \in SUBSET Occupied(t)
        OBVIOUS
      <4> HIDE DEF First
      <4>3. IsFiniteSet(First(i - 1))
            /\ Cardinality(First(i - 1)) <= Cardinality(Occupied(t))
        BY <4>1, <4>2, FS_Subset
      <4> QED
        BY <4>1, <4>3, FS_CardinalityType
    <3>5. PICK z \in 0 .. n - 1 : ~CELL_OCCUPIED(v, z)
      <4>1. v \in TableOf(n) /\ Cardinality(Occupied(v)) < n
        BY <1>5, <3>4
      <4> QED
        BY <4>1, RoomLeft
    <3>6. into[i] = Filled(v, f, e)
      BY <1>1, <2>3 DEF RehashingRule, Filled
    <3> HIDE DEF First
    <3>7. /\ into[i] \in TableOf(n) /\ Shape(into[i], n)
          /\ f \notin Occupied(v)
          /\ Occupied(into[i]) = Occupied(v) \cup {f}
          /\ Entries(into[i]) = Entries(v) \cup {e}
      BY <1>5, <3>2, <3>3, <3>5, <3>6, InsertKeepsShape
    <3>8. Entries(into[i]) = {t[x] : x \in First(i)}
      BY <1>5, <3>1, <3>7
    <3>9. Cardinality(First(i)) = Cardinality(First(i - 1)) + 1
      BY <3>1, <3>4, FS_AddElement
    <3>10. Cardinality(Occupied(into[i])) = Cardinality(Occupied(v)) + 1
      <4>1. IsFiniteSet(Occupied(v))
        BY <1>5, RoomLeft
      <4> HIDE DEF v, f
      <4>2. Cardinality(Occupied(v) \cup {f}) = Cardinality(Occupied(v)) + 1
        BY <3>7, <4>1, FS_AddElement
      <4> QED
        BY <3>7, <4>2
    <3> QED
      BY <1>5, <3>7, <3>8, <3>9, <3>10
  <2> QED
    BY <2>2, <2>3
<1>6. First(m) = Occupied(t)
  BY <1>3
<1> HIDE DEF Done, First
<1>7. \A i \in 0 .. m : i \in S
  <2>1. 0 \in S
    BY <1>4
  <2>2. \A i \in 1 .. m : i - 1 \in S => i \in S
    BY <1>5
  <2> HIDE DEF S
  <2> QED
    BY <2>1, <2>2, UpTo
<1>8. Done(m)
  BY <1>7
<1> QED
  BY <1>2, <1>6, <1>8 DEF Done, Entries

-----------------------------------------------------------------------------
(* hash_table_remove.                                                      *)

(* A path that crosses y, before e in the order from c on, and ends at x     *)
(* behind e, crosses e.                                                     *)
LEMMA CrossesAhead ==
  ASSUME NEW n \in Nat, NEW c \in 0 .. n - 1, NEW h \in 0 .. n - 1,
         NEW x \in 0 .. n - 1, NEW y \in 0 .. n - 1, NEW e \in 0 .. n - 1,
         Dist(h, y, n) < Dist(h, x, n),
         Dist(c, y, n) < Dist(c, e, n), Dist(c, e, n) < Dist(c, x, n)
  PROVE  Dist(h, e, n) < Dist(h, x, n)
BY DEF Dist

(* A path that crosses y and ends at x before it has gone round, and so has  *)
(* crossed everything behind y.                                             *)
LEMMA CrossesRound ==
  ASSUME NEW n \in Nat, NEW c \in 0 .. n - 1, NEW h \in 0 .. n - 1,
         NEW x \in 0 .. n - 1, NEW y \in 0 .. n - 1, NEW z \in 0 .. n - 1,
         Dist(h, y, n) < Dist(h, x, n),
         Dist(c, x, n) < Dist(c, y, n), Dist(c, y, n) < Dist(c, z, n)
  PROVE  Dist(h, z, n) < Dist(h, x, n)
BY DEF Dist

\* The i-th cell behind c is the one at distance i.
LEMMA BehindIs ==
  ASSUME NEW n \in Nat, NEW c \in 0 .. n - 1, NEW i \in 0 .. n - 1
  PROVE  /\ Behind(c, i, n) \in 0 .. n - 1
         /\ Dist(c, Behind(c, i, n), n) = i
         /\ \A x \in 0 .. n - 1 : Dist(c, x, n) = i => x = Behind(c, i, n)
<1>1. n > 0
  OBVIOUS
<1>2. Behind(c, i, n) = IF c + i < n THEN c + i ELSE c + i - n
  BY <1>1, RoundThe DEF Behind
<1> QED
  BY <1>2 DEF Dist

RunState(n) == [tab : TableOf(n), over : BOOLEAN]

\* What the recursion of Closing says of the function run.
ClosingRule(run, t, n, c) ==
  /\ run \in [0 .. n - 1 -> RunState(n)]
  /\ run[0] = [tab |-> t, over |-> FALSE]
  /\ \A i \in 1 .. n - 1 :
       run[i] = IF run[i - 1].over \/ ~CELL_OCCUPIED(run[i - 1].tab, Behind(c, i, n))
                THEN [tab |-> run[i - 1].tab, over |-> TRUE]
                ELSE [tab |-> Resettled(run[i - 1].tab, n, Behind(c, i, n)),
                      over |-> FALSE]

(* The recursion of Closing is well defined.                                *)
LEMMA ClosingSteps ==
  ASSUME NEW n \in Nat, n > 0, NEW t \in TableOf(n), NEW c \in 0 .. n - 1
  PROVE  ClosingRule(Closing(t, n, c), t, n, c)
<1> DEFINE D == RunState(n)
           b == [tab |-> t, over |-> FALSE]
           Turn(r, i) == IF r.over \/ ~CELL_OCCUPIED(r.tab, Behind(c, i, n))
                         THEN [tab |-> r.tab, over |-> TRUE]
                         ELSE [tab |-> Resettled(r.tab, n, Behind(c, i, n)), over |-> FALSE]
           m == n - 1
           g == [i \in 1 .. m |-> [r \in D |-> Turn(r, i)]]
<1>1. b \in D /\ m \in Nat
  BY DEF RunState
<1>2. ASSUME NEW i \in 1 .. m, NEW r \in D
      PROVE  Turn(r, i) \in D
  <2>1. r.tab \in TableOf(n) /\ Behind(c, i, n) \in 0 .. n - 1
    BY BehindIs DEF RunState
  <2>2. Resettled(r.tab, n, Behind(c, i, n)) \in TableOf(n)
    <3>1. r.tab[Behind(c, i, n)] \in Cell /\ EMPTY \in Cell
      BY <2>1 DEF TableOf, Cell, EMPTY
    <3>2. \A x : [r.tab EXCEPT ![x] = r.tab[Behind(c, i, n)],
                               ![Behind(c, i, n)] = EMPTY] \in TableOf(n)
      BY <2>1, <3>1 DEF TableOf
    <3> QED
      BY <2>1, <3>2 DEF Resettled
  <2> QED
    BY <2>1, <2>2 DEF RunState
<1> HIDE DEF D, b, Turn, m
<1>3. g \in [1 .. m -> [D -> D]] /\ \A i \in 1 .. m : \A r \in D : g[i][r] = Turn(r, i)
  BY <1>2
<1> HIDE DEF g
<1>4. PICK h \in [0 .. m -> D] : Unfolds(h, m, b, g)
  BY <1>1, <1>3, RecursionExists
<1>5. \A i \in 1 .. m : h[i] = Turn(h[i - 1], i)
  BY <1>1, <1>3, <1>4 DEF Unfolds
<1>6. h = [i \in 0 .. m |-> IF i = 0 THEN b ELSE Turn(h[i - 1], i)]
  BY <1>1, <1>4, <1>5 DEF Unfolds
<1> DEFINE R == Closing(t, n, c)
<1>7. R = CHOOSE f : f = [i \in 0 .. m |-> IF i = 0 THEN b ELSE Turn(f[i - 1], i)]
  BY DEF Closing, b, Turn, m
<1> HIDE DEF R
<1>8. R = [i \in 0 .. m |-> IF i = 0 THEN b ELSE Turn(R[i - 1], i)]
  BY <1>6, <1>7
<1>9. R[0] = b /\ \A i \in 1 .. m : R[i] = Turn(R[i - 1], i)
  BY <1>1, <1>8
<1> DEFINE S == {i \in 0 .. m : R[i] \in D}
<1>10. \A i \in 0 .. m : i \in S
  <2>1. 0 \in S
    BY <1>1, <1>9
  <2>2. \A i \in 1 .. m : i - 1 \in S => i \in S
    BY <1>1, <1>2, <1>9
  <2> HIDE DEF S
  <2> QED
    BY <1>1, <2>1, <2>2, UpTo
<1>11. R \in [0 .. m -> D]
  BY <1>8, <1>10
<1> QED
  BY <1>9, <1>11 DEF D, b, Turn, R, m, ClosingRule

\* The loop has passed i cells behind c of the table t and left u: the cells
\* ahead are as they were and no empty one was passed; a hole on a path lies in
\* the part passed, and the path ends ahead; no entry is lost, doubled or
\* moved on.
Passed(t, u, n, c, i) ==
  /\ u \in TableOf(n)
  /\ Distinct(u)
  /\ Entries(u) = Entries(t)
  /\ Cardinality(Occupied(u)) = Cardinality(Occupied(t))
  /\ \A x \in 0 .. n - 1 : Dist(c, x, n) > i => u[x] = t[x]
  /\ \A z \in 0 .. n - 1 : z # c /\ ~CELL_OCCUPIED(t, z) => Dist(c, z, n) > i
  /\ \A x \in Occupied(u) : \A y \in 0 .. n - 1 :
       OnPath(u[x].key, n, x, y) /\ ~CELL_OCCUPIED(u, y)
       => Dist(c, x, n) > i /\ Dist(c, y, n) <= i
  /\ \A x \in Occupied(u) : \E y \in Occupied(t) :
       u[x] = t[y] /\ Dist(c, x, n) <= Dist(c, y, n)

(* Before the loop only the cell that was cleared can be a hole.            *)
LEMMA PassedFirst ==
  ASSUME NEW n \in Nat, NEW w \in TableOf(n), Shape(w, n), NEW c \in Occupied(w)
  PROVE  LET t == [w EXCEPT ![c] = EMPTY]
         IN /\ t \in TableOf(n) /\ Passed(t, t, n, c, 0)
            /\ Occupied(t) = Occupied(w) \ {c}
            /\ Entries(t) = Entries(w) \ {w[c]}
            /\ \A x \in 0 .. n - 1 : x # c => t[x] = w[x]
<1> DEFINE t == [w EXCEPT ![c] = EMPTY]
<1>1. DOMAIN w = 0 .. n - 1 /\ c \in 0 .. n - 1 /\ EMPTY \in Cell
  BY DEF TableOf, Occupied, Cell, EMPTY
<1>2. t \in TableOf(n) /\ t[c] = EMPTY /\ \A x \in 0 .. n - 1 : x # c => t[x] = w[x]
  BY <1>1 DEF TableOf
<1>3. DOMAIN t = 0 .. n - 1
  BY <1>2 DEF TableOf
<1> HIDE DEF t
<1>4. Occupied(t) = Occupied(w) \ {c}
  BY <1>1, <1>2, <1>3 DEF Occupied, CELL_OCCUPIED, EMPTY
<1>5. \A x \in Occupied(t) : t[x] = w[x] /\ x # c /\ x \in 0 .. n - 1
  BY <1>1, <1>2, <1>4 DEF Occupied
<1>6. Distinct(t)
  BY <1>4, <1>5 DEF Distinct, Shape
<1>7. Entries(t) = Entries(w) \ {w[c]}
  <2>1. \A x \in Occupied(w) : x # c => w[x] # w[c]
    BY DEF Shape, Distinct
  <2> QED
    BY <1>4, <1>5, <2>1 DEF Entries
<1>8. \A x \in 0 .. n - 1 : Dist(c, x, n) \in Nat /\ (x # c => Dist(c, x, n) > 0)
                            /\ Dist(c, c, n) = 0
  BY <1>1 DEF Dist
<1>9. ASSUME NEW x \in Occupied(t), NEW y \in 0 .. n - 1,
             OnPath(t[x].key, n, x, y), ~CELL_OCCUPIED(t, y)
      PROVE  y = c
  BY <1>2, <1>4, <1>5, <1>9 DEF Shape, Unbroken, CELL_OCCUPIED
<1>10. Passed(t, t, n, c, 0)
  BY <1>2, <1>5, <1>6, <1>8, <1>9 DEF Passed
<1> QED
  BY <1>2, <1>4, <1>7, <1>10 DEF t

(* Moving the entry e of x into the free cell f.                            *)
LEMMA MoveEntry ==
  ASSUME NEW n \in Nat, NEW u \in TableOf(n), Distinct(u),
         NEW x \in Occupied(u), NEW f \in 0 .. n - 1, ~CELL_OCCUPIED(u, f)
  PROVE  LET v == [u EXCEPT ![f] = u[x], ![x] = EMPTY]
         IN /\ v \in TableOf(n)
            /\ f # x /\ v[f] = u[x] /\ ~CELL_OCCUPIED(v, x)
            /\ \A y \in 0 .. n - 1 : y \notin {f, x} => v[y] = u[y]
            /\ Occupied(v) = (Occupied(u) \cup {f}) \ {x}
            /\ Distinct(v)
            /\ Entries(v) = Entries(u)
            /\ Cardinality(Occupied(v)) = Cardinality(Occupied(u))
<1> DEFINE v == [u EXCEPT ![f] = u[x], ![x] = EMPTY]
<1>1. DOMAIN u = 0 .. n - 1 /\ x \in 0 .. n - 1 /\ f # x /\ EMPTY \in Cell /\ u[x] \in Cell
  BY DEF TableOf, Occupied, Cell, EMPTY
<1>2. /\ v \in TableOf(n) /\ v[f] = u[x] /\ v[x] = EMPTY
      /\ \A y \in 0 .. n - 1 : y \notin {f, x} => v[y] = u[y]
  BY <1>1 DEF TableOf
<1>3. DOMAIN v = 0 .. n - 1
  BY <1>2 DEF TableOf
<1> HIDE DEF v
<1>4. ~CELL_OCCUPIED(v, x)
  BY <1>2 DEF CELL_OCCUPIED, EMPTY
<1>5. Occupied(v) = (Occupied(u) \cup {f}) \ {x}
  <2>1. CELL_OCCUPIED(v, f)
    BY <1>2 DEF Occupied, CELL_OCCUPIED
  <2>2. \A y \in 0 .. n - 1 : y \notin {f, x} => (CELL_OCCUPIED(v, y) <=> CELL_OCCUPIED(u, y))
    BY <1>2 DEF CELL_OCCUPIED
  <2> QED
    BY <1>1, <1>3, <1>4, <2>1, <2>2 DEF Occupied
<1>6. Occupied(u) \subseteq 0 .. n - 1 /\ f \notin Occupied(u)
  BY <1>1 DEF Occupied
<1>7. Distinct(v)
  BY <1>2, <1>5, <1>6 DEF Distinct
<1>8. Entries(v) = Entries(u)
  BY <1>1, <1>2, <1>5, <1>6 DEF Entries
<1>9. Cardinality(Occupied(v)) = Cardinality(Occupied(u))
  <2>1. IsFiniteSet(Occupied(u)) /\ Cardinality(Occupied(u)) \in Nat
    BY RoomLeft
  <2>2. /\ IsFiniteSet(Occupied(u) \cup {f})
        /\ Cardinality(Occupied(u) \cup {f}) = Cardinality(Occupied(u)) + 1
    BY <1>6, <2>1, FS_AddElement
  <2>3. x \in Occupied(u) \cup {f}
    OBVIOUS
  <2>4. Cardinality((Occupied(u) \cup {f}) \ {x}) = Cardinality(Occupied(u) \cup {f}) - 1
    BY <2>2, <2>3, FS_RemoveElement
  <2> QED
    BY <1>5, <2>1, <2>2, <2>4
<1> QED
  BY <1>1, <1>2, <1>4, <1>5, <1>7, <1>8, <1>9 DEF v

(* One pass of the loop: the entry of the next cell stays, or goes into a    *)
(* hole behind it, and leaves one behind that no passed path crosses.       *)
LEMMA PassedOne ==
  ASSUME NEW n \in Nat, NEW t \in TableOf(n), NEW u, NEW c \in 0 .. n - 1,
         NEW i \in 1 .. n - 1, Passed(t, u, n, c, i - 1),
         NEW z \in 0 .. n - 1, z # c, ~CELL_OCCUPIED(t, z),
         CELL_OCCUPIED(u, Behind(c, i, n))
  PROVE  Passed(t, Resettled(u, n, Behind(c, i, n)), n, c, i)
<1> DEFINE x0 == Behind(c, i, n)
           k == u[x0].key
           f == find_cell(u, n, k)
           h == HASH_POSITION(k, n)
<1>1. /\ x0 \in 0 .. n - 1 /\ Dist(c, x0, n) = i
      /\ \A x \in 0 .. n - 1 : Dist(c, x, n) = i => x = x0
  BY BehindIs
<1>2. u \in TableOf(n) /\ DOMAIN u = 0 .. n - 1 /\ n > 0
  BY DEF Passed, TableOf
<1> HIDE DEF x0
<1>3. x0 \in Occupied(u) /\ k \in Key
  BY <1>1, <1>2 DEF Occupied, TableOf, Cell, CELL_OCCUPIED, x0
<1> HIDE DEF k
<1>4. /\ f \in 0 .. n - 1
      /\ u[f].key \in {k, Free}
      /\ ~OnPath(k, n, f, x0)
      /\ \A y \in 0 .. n - 1 : OnPath(k, n, f, y) => u[y].key \notin {k, Free}
  BY <1>1, <1>2, <1>3, FindCell DEF k
<1>5. \A x \in 0 .. n - 1 : Dist(c, x, n) \in Nat
  BY DEF Dist
<1>6. \A y \in 0 .. n - 1 : y # c /\ ~CELL_OCCUPIED(t, y) => Dist(c, y, n) > i
  <2> SUFFICES ASSUME NEW y \in 0 .. n - 1, y # c, ~CELL_OCCUPIED(t, y)
               PROVE  Dist(c, y, n) > i
    OBVIOUS
  <2>1. Dist(c, y, n) > i - 1
    BY DEF Passed
  <2>2. u[y] = t[y]
    BY <2>1 DEF Passed
  <2>3. y # x0
    BY <2>2, <1>3 DEF CELL_OCCUPIED, Occupied
  <2> QED
    BY <1>1, <1>5, <2>1, <2>3
<1>7. Dist(c, z, n) > i /\ ~CELL_OCCUPIED(u, z)
  <2>1. Dist(c, z, n) > i
    BY <1>6
  <2>2. u[z] = t[z]
    BY <1>5, <2>1 DEF Passed
  <2> QED
    BY <2>1, <2>2 DEF CELL_OCCUPIED
<1>8. CASE f = x0
  <2>1. Resettled(u, n, x0) = u
    BY <1>8 DEF Resettled, k
  <2>2. ASSUME NEW x \in Occupied(u), NEW y \in 0 .. n - 1,
               OnPath(u[x].key, n, x, y), ~CELL_OCCUPIED(u, y)
        PROVE  Dist(c, x, n) > i /\ Dist(c, y, n) <= i
    <3>1. x \in 0 .. n - 1
      BY <1>2 DEF Occupied
    <3>2. Dist(c, x, n) > i - 1 /\ Dist(c, y, n) <= i - 1
      BY <2>2 DEF Passed
    <3>3. x # x0
      BY <1>4, <1>8, <2>2 DEF CELL_OCCUPIED, k
    <3> QED
      BY <1>1, <1>5, <3>1, <3>2, <3>3
  <2>3. \A x \in 0 .. n - 1 : Dist(c, x, n) > i => u[x] = t[x]
    BY <1>5 DEF Passed
  <2>4. Passed(t, u, n, c, i)
    BY <1>6, <2>2, <2>3 DEF Passed
  <2> QED
    BY <2>1, <2>4 DEF x0
<1>9. CASE f # x0
  <2> DEFINE v == [u EXCEPT ![f] = u[x0], ![x0] = EMPTY]
  <2>1. Resettled(u, n, x0) = v
    BY <1>9 DEF Resettled, k
  <2>2. f \notin Occupied(u) /\ ~CELL_OCCUPIED(u, f)
    BY <1>2, <1>3, <1>4, <1>9 DEF Passed, Distinct, Occupied, CELL_OCCUPIED, k
  <2>3. OnPath(k, n, x0, f)
    <3>1. h \in 0 .. n - 1
      BY <1>2, <1>3, PositionType
    <3>2. ~(Dist(h, x0, n) < Dist(h, f, n))
      BY <1>4 DEF OnPath
    <3> HIDE DEF h, f
    <3>3. Dist(h, f, n) < Dist(h, x0, n)
      BY <1>1, <1>4, <1>9, <3>1, <3>2 DEF Dist
    <3> QED
      BY <3>3 DEF OnPath, h
  <2>4. Dist(c, f, n) <= i - 1
    BY <1>3, <1>4, <2>2, <2>3 DEF Passed, k
  <2> HIDE DEF f
  <2>5. /\ v \in TableOf(n)
        /\ v[f] = u[x0] /\ ~CELL_OCCUPIED(v, x0)
        /\ \A y \in 0 .. n - 1 : y \notin {f, x0} => v[y] = u[y]
        /\ Occupied(v) = (Occupied(u) \cup {f}) \ {x0}
        /\ Distinct(v)
        /\ Entries(v) = Entries(u)
        /\ Cardinality(Occupied(v)) = Cardinality(Occupied(u))
    BY <1>2, <1>3, <1>4, <2>2, MoveEntry DEF Passed
  <2> HIDE DEF v
  <2>6. \A x \in 0 .. n - 1 : Dist(c, x, n) > i => v[x] = t[x]
    <3> SUFFICES ASSUME NEW x \in 0 .. n - 1, Dist(c, x, n) > i
                 PROVE  v[x] = t[x]
      OBVIOUS
    <3>1. x \notin {f, x0}
      BY <1>1, <1>4, <1>5, <2>4
    <3>2. u[x] = t[x]
      BY <1>5 DEF Passed
    <3> QED
      BY <2>5, <3>1, <3>2
  <2>7. ASSUME NEW x \in Occupied(v), NEW y \in 0 .. n - 1,
               OnPath(v[x].key, n, x, y), ~CELL_OCCUPIED(v, y)
        PROVE  Dist(c, x, n) > i /\ Dist(c, y, n) <= i
    <3>1. x # x0
      BY <2>5
    <3>2. y = x0 \/ ~CELL_OCCUPIED(u, y)
      <4>1. y # f
        BY <1>3, <2>5, <2>7 DEF CELL_OCCUPIED, Occupied
      <4> QED
        BY <2>5, <2>7, <4>1 DEF CELL_OCCUPIED
    <3>3. x # f
      <4> SUFFICES ASSUME x = f PROVE FALSE
        OBVIOUS
      <4>1. OnPath(k, n, f, y)
        BY <2>5, <2>7 DEF k
      <4>2. y # x0 /\ CELL_OCCUPIED(u, y)
        BY <1>4, <4>1 DEF CELL_OCCUPIED
      <4> QED
        BY <3>2, <4>2
    <3>4. x \in Occupied(u) /\ v[x] = u[x] /\ x \in 0 .. n - 1
      BY <1>2, <2>5, <3>1, <3>3 DEF Occupied
    <3>5. CASE ~CELL_OCCUPIED(u, y)
      <4>1. Dist(c, x, n) > i - 1 /\ Dist(c, y, n) <= i - 1
        BY <2>7, <3>4, <3>5 DEF Passed
      <4> QED
        BY <1>1, <1>5, <3>1, <3>4, <4>1
    <3>6. CASE y = x0
      <4> SUFFICES ASSUME ~(Dist(c, x, n) > i) PROVE FALSE
        BY <1>1, <3>6
      <4>1. Dist(c, x, n) < Dist(c, x0, n)
        BY <1>1, <1>5, <3>1, <3>4
      <4> DEFINE p == HASH_POSITION(u[x].key, n)
      <4>2. p \in 0 .. n - 1
        <5>1. u[x].key \in Key
          BY <1>2, <3>4 DEF Occupied, CELL_OCCUPIED, TableOf, Cell
        <5> QED
          BY <1>2, <5>1, PositionType
      <4>3. Dist(p, x0, n) < Dist(p, x, n)
        BY <2>7, <3>4, <3>6 DEF OnPath
      <4> HIDE DEF p
      <4>4. Dist(p, z, n) < Dist(p, x, n)
        BY <1>1, <1>7, <3>4, <4>1, <4>2, <4>3, CrossesRound
      <4>5. OnPath(u[x].key, n, x, z)
        BY <4>4 DEF OnPath, p
      <4>6. Dist(c, z, n) <= i - 1
        BY <1>7, <3>4, <4>5 DEF Passed
      <4> QED
        BY <1>5, <1>7, <4>6
    <3> QED
      BY <3>2, <3>5, <3>6
  <2>8. ASSUME NEW x \in Occupied(v)
        PROVE  \E y \in Occupied(t) : v[x] = t[y] /\ Dist(c, x, n) <= Dist(c, y, n)
    <3>1. CASE x = f
      <4>1. PICK y \in Occupied(t) : u[x0] = t[y] /\ Dist(c, x0, n) <= Dist(c, y, n)
        BY <1>3 DEF Passed
      <4>2. y \in 0 .. n - 1
        BY DEF Occupied, TableOf
      <4>3. Dist(c, f, n) <= Dist(c, y, n)
        BY <1>1, <1>4, <1>5, <2>4, <4>1, <4>2
      <4> QED
        BY <2>5, <3>1, <4>1, <4>3
    <3>2. CASE x # f
      <4>1. x \in Occupied(u) /\ v[x] = u[x]
        BY <1>2, <2>5, <3>2 DEF Occupied
      <4> QED
        BY <4>1 DEF Passed
    <3> QED
      BY <3>1, <3>2
  <2>9. Passed(t, v, n, c, i)
    BY <1>6, <2>5, <2>6, <2>7, <2>8 DEF Passed
  <2> QED
    BY <2>1, <2>9 DEF x0
<1> QED
  BY <1>8, <1>9

(* The loop ends at a cell that was empty before, and no path crosses that   *)
(* one: the table is well shaped again.                                     *)
LEMMA PassedAll ==
  ASSUME NEW n \in Nat, NEW t \in TableOf(n), NEW u, NEW c \in 0 .. n - 1,
         NEW i \in 1 .. n - 1, Passed(t, u, n, c, i - 1),
         ~CELL_OCCUPIED(u, Behind(c, i, n))
  PROVE  Shape(u, n)
<1> DEFINE e == Behind(c, i, n)
<1>1. e \in 0 .. n - 1 /\ Dist(c, e, n) = i /\ ~CELL_OCCUPIED(u, e)
  BY BehindIs
<1>2. \A x \in 0 .. n - 1 : Dist(c, x, n) = i => x = e
  BY BehindIs
<1> HIDE DEF e
<1>3. u \in TableOf(n) /\ DOMAIN u = 0 .. n - 1 /\ n > 0
  BY DEF Passed, TableOf
<1>4. \A x \in 0 .. n - 1 : Dist(c, x, n) \in Nat
  BY DEF Dist
<1>5. ASSUME NEW x \in Occupied(u), NEW y \in 0 .. n - 1,
             OnPath(u[x].key, n, x, y), ~CELL_OCCUPIED(u, y)
      PROVE  FALSE
  <2>1. x \in 0 .. n - 1 /\ x # e /\ u[x].key \in Key
    BY <1>1, <1>3 DEF Occupied, CELL_OCCUPIED, TableOf, Cell
  <2>2. Dist(c, x, n) > i - 1 /\ Dist(c, y, n) <= i - 1
    BY <1>5 DEF Passed
  <2>3. Dist(c, e, n) < Dist(c, x, n) /\ Dist(c, y, n) < Dist(c, e, n)
    BY <1>1, <1>2, <1>4, <2>1, <2>2
  <2> DEFINE p == HASH_POSITION(u[x].key, n)
  <2>4. p \in 0 .. n - 1
    BY <1>3, <2>1, PositionType
  <2>5. Dist(p, y, n) < Dist(p, x, n)
    BY <1>5 DEF OnPath
  <2> HIDE DEF p
  <2>6. Dist(p, e, n) < Dist(p, x, n)
    BY <1>1, <2>1, <2>3, <2>4, <2>5, CrossesAhead
  <2>7. OnPath(u[x].key, n, x, e)
    BY <2>6 DEF OnPath, p
  <2>8. Dist(c, e, n) <= i - 1
    BY <1>1, <2>7 DEF Passed
  <2> QED
    BY <1>1, <2>8
<1> QED
  BY <1>5 DEF Shape, Unbroken, Passed

(* A removal takes one entry away and closes the gap: the table stays well   *)
(* shaped, and no entry ends further from the gap than it was.              *)
LEMMA RemoveKeepsShape ==
  ASSUME NEW n \in Nat, n > 0, NEW w \in TableOf(n), Shape(w, n),
         NEW c \in Occupied(w), NEW z \in 0 .. n - 1, ~CELL_OCCUPIED(w, z)
  PROVE  LET u == Closed([w EXCEPT ![c] = EMPTY], n, c)
         IN /\ u \in TableOf(n) /\ Shape(u, n)
            /\ Entries(u) = Entries(w) \ {w[c]}
            /\ Cardinality(Occupied(u)) = Cardinality(Occupied(w)) - 1
            /\ \A x \in Occupied(u) : \E y \in Occupied(w) :
                 u[x] = w[y] /\ Dist(c, x, n) <= Dist(c, y, n)
<1> DEFINE t == [w EXCEPT ![c] = EMPTY]
           run == Closing(t, n, c)
           Open(i) == ~run[i].over /\ Passed(t, run[i].tab, n, c, i)
           Over(i) == /\ run[i].over
                      /\ \E j \in 1 .. n - 1 :
                           /\ Passed(t, run[i].tab, n, c, j - 1)
                           /\ ~CELL_OCCUPIED(run[i].tab, Behind(c, j, n))
           S == {i \in 0 .. n - 1 : Open(i) \/ Over(i)}
<1>1. /\ t \in TableOf(n) /\ Passed(t, t, n, c, 0)
      /\ Occupied(t) = Occupied(w) \ {c}
      /\ Entries(t) = Entries(w) \ {w[c]}
      /\ \A x \in 0 .. n - 1 : x # c => t[x] = w[x]
  BY PassedFirst
<1>2. c \in 0 .. n - 1 /\ z # c /\ CELL_OCCUPIED(w, c)
  BY DEF Occupied, TableOf
<1>3. ~CELL_OCCUPIED(t, z)
  BY <1>1, <1>2 DEF CELL_OCCUPIED
<1> HIDE DEF t
<1>4. ClosingRule(run, t, n, c)
  BY <1>1, <1>2, ClosingSteps
<1>5. Closed(t, n, c) = run[n - 1].tab
  BY DEF Closed
<1> HIDE DEF run
<1>6. Open(0)
  BY <1>1, <1>4 DEF ClosingRule
<1>7. ASSUME NEW i \in 1 .. n - 1, Open(i - 1) \/ Over(i - 1)
      PROVE  Open(i) \/ Over(i)
  <2>1. CASE Over(i - 1)
    <3>1. run[i] = [tab |-> run[i - 1].tab, over |-> TRUE]
      BY <1>4, <2>1 DEF ClosingRule
    <3>2. run[i].tab = run[i - 1].tab /\ run[i].over
      BY <3>1
    <3> QED
      BY <2>1, <3>2
  <2>2. CASE Open(i - 1) /\ ~CELL_OCCUPIED(run[i - 1].tab, Behind(c, i, n))
    <3>1. run[i] = [tab |-> run[i - 1].tab, over |-> TRUE]
      BY <1>4, <2>2 DEF ClosingRule
    <3>2. run[i].tab = run[i - 1].tab /\ run[i].over
      BY <3>1
    <3> QED
      BY <2>2, <3>2
  <2>3. CASE Open(i - 1) /\ CELL_OCCUPIED(run[i - 1].tab, Behind(c, i, n))
    <3>1. run[i] = [tab |-> Resettled(run[i - 1].tab, n, Behind(c, i, n)), over |-> FALSE]
      BY <1>4, <2>3 DEF ClosingRule
    <3>2. run[i].tab = Resettled(run[i - 1].tab, n, Behind(c, i, n)) /\ ~run[i].over
      BY <3>1
    <3>3. Passed(t, Resettled(run[i - 1].tab, n, Behind(c, i, n)), n, c, i)
      BY <1>1, <1>2, <1>3, <2>3, PassedOne
    <3> QED
      BY <3>2, <3>3
  <2> QED
    BY <1>7, <2>1, <2>2, <2>3
<1> HIDE DEF Open, Over
<1>8. \A i \in 0 .. n - 1 : i \in S
  <2>1. 0 \in S
    BY <1>6
  <2>2. \A i \in 1 .. n - 1 : i - 1 \in S => i \in S
    BY <1>7
  <2>3. n - 1 \in Nat
    OBVIOUS
  <2> HIDE DEF S
  <2> QED
    BY <2>1, <2>2, <2>3, UpTo
<1>9. Over(n - 1)
  <2>1. ~Open(n - 1)
    <3> SUFFICES ASSUME Open(n - 1) PROVE FALSE
      OBVIOUS
    <3>1. Dist(c, z, n) > n - 1
      BY <1>2, <1>3 DEF Open, Passed
    <3> QED
      BY <1>2, <3>1 DEF Dist
  <2> QED
    BY <1>8, <2>1
<1> DEFINE u == run[n - 1].tab
<1>10. PICK j \in 1 .. n - 1 :
         Passed(t, u, n, c, j - 1) /\ ~CELL_OCCUPIED(u, Behind(c, j, n))
  BY <1>9 DEF Over
<1> HIDE DEF u
<1>11. Shape(u, n)
  BY <1>1, <1>2, <1>10, PassedAll
<1>12. Cardinality(Occupied(u)) = Cardinality(Occupied(w)) - 1
  <2>1. Cardinality(Occupied(u)) = Cardinality(Occupied(t))
    BY <1>10 DEF Passed
  <2>2. IsFiniteSet(Occupied(w))
    BY RoomLeft
  <2>3. Cardinality(Occupied(w) \ {c}) = Cardinality(Occupied(w)) - 1
    BY <2>2, FS_RemoveElement
  <2> QED
    BY <1>1, <2>1, <2>3
<1>13. ASSUME NEW x \in Occupied(u)
       PROVE  \E y \in Occupied(w) : u[x] = w[y] /\ Dist(c, x, n) <= Dist(c, y, n)
  <2>1. PICK y \in Occupied(t) : u[x] = t[y] /\ Dist(c, x, n) <= Dist(c, y, n)
    BY <1>10 DEF Passed
  <2>2. t[y] = w[y] /\ y \in Occupied(w)
    BY <1>1 DEF Occupied, TableOf
  <2> QED
    BY <2>1, <2>2
<1>14. u \in TableOf(n) /\ Entries(u) = Entries(w) \ {w[c]}
  BY <1>1, <1>10 DEF Passed
<1> QED
  BY <1>5, <1>11, <1>12, <1>13, <1>14 DEF t, u

-----------------------------------------------------------------------------
(* The operations on the table.                                            *)

\* A table of n cells that holds c entries, each where a search looks for it.
Sound(t, n, c) ==
  /\ n \in Nat /\ n > 1
  /\ t \in TableOf(n)
  /\ Shape(t, n)
  /\ c = Cardinality(Occupied(t)) /\ c < n

\* The entries under every key but k.
Others(t, k) == {e \in Entries(t) : e.key # k}

(* A sound table has an empty cell, and a search answers with the entry.    *)
LEMMA SoundSearch ==
  ASSUME NEW n, NEW t, NEW c, Sound(t, n, c), NEW k \in Key
  PROVE  LET f == find_cell(t, n, k)
         IN /\ f \in 0 .. n - 1
            /\ CELL_OCCUPIED(t, f) => t[f].key = k
            /\ CELL_OCCUPIED(t, f) <=> k \in Keys(t)
            /\ \A x \in Occupied(t) : t[x].key = k => x = f
            /\ \E z \in 0 .. n - 1 : ~CELL_OCCUPIED(t, z)
            /\ c \in Nat
<1> USE DEF Sound
<1>1. PICK z \in 0 .. n - 1 : ~CELL_OCCUPIED(t, z)
  BY RoomLeft
<1>2. c \in Nat
  BY RoomLeft
<1>3. n > 0
  OBVIOUS
<1> QED
  BY <1>1, <1>2, <1>3, SearchAnswers

(* A growing table doubles, rounded up to a later prime of the list.        *)
LEMMA GrownSize ==
  ASSUME NEW n \in Nat, NEW from \in 1 .. Len(Primes) + 1, Suitable(n, from) # {}
  PROVE  LET i == LeastOf(Suitable(n, from))
         IN i \in from .. Len(Primes) /\ i \in DOMAIN Primes /\ Primes[i] \in Nat
            /\ Primes[i] >= n /\ Primes[i] > 1
<1>1. Primes \in Seq(Nat) /\ Len(Primes) \in Nat /\ DOMAIN Primes = 1 .. Len(Primes)
  BY HashAssumption
<1> DEFINE S == Suitable(n, from)
<1>2. S \subseteq Nat
  BY <1>1 DEF Suitable
<1> HIDE DEF S
<1>3. \E m \in S : \A j \in S : m <= j
  BY <1>2, LeastNatural DEF S
<1>4. LeastOf(S) \in S
  BY <1>3 DEF LeastOf
<1>5. LeastOf(S) \in from .. Len(Primes) /\ Primes[LeastOf(S)] >= n
  BY <1>4 DEF S, Suitable
<1> QED
  BY <1>1, <1>5, HashAssumption DEF S

(* An update changes the entry of its own key only.                         *)
LEMMA UpdateSound ==
  ASSUME NEW n, NEW t, NEW c, Sound(t, n, c), NEW k \in Key, NEW v \in Value,
         CELL_OCCUPIED(t, find_cell(t, n, k))
  PROVE  LET e == [key |-> k, value |-> v]
             u == [t EXCEPT ![find_cell(t, n, k)] = e]
         IN /\ Sound(u, n, c)
            /\ e \in Entries(u) /\ Others(u, k) = Others(t, k)
            /\ \A x \in Occupied(u) : x \in Occupied(t) /\ u[x].key = t[x].key
<1> DEFINE f == find_cell(t, n, k)
           e == [key |-> k, value |-> v]
           u == [t EXCEPT ![f] = e]
<1>1. f \in 0 .. n - 1 /\ t[f].key = k
  BY SoundSearch
<1>2. t \in TableOf(n) /\ n \in Nat /\ n > 0 /\ Shape(t, n)
  BY DEF Sound
<1>3. f \in Occupied(t) /\ e \in Cell /\ e.key = t[f].key
  BY <1>1, <1>2 DEF Occupied, TableOf, Cell
<1>u. u = Filled(t, f, e)
  BY DEF Filled
<1> HIDE DEF f, e, u
<1>4. /\ u \in TableOf(n) /\ Shape(u, n) /\ Occupied(u) = Occupied(t)
      /\ Entries(u) = (Entries(t) \ {t[f]}) \cup {e}
  BY <1>2, <1>3, <1>u, UpdateKeepsShape
<1>5. Sound(u, n, c)
  BY <1>4 DEF Sound
<1>6. e.key = k
  BY DEF e
<1>7. Others(u, k) = Others(t, k)
  BY <1>1, <1>4, <1>6 DEF Others
<1>8. \A x \in Occupied(u) : x \in Occupied(t) /\ u[x].key = t[x].key
  BY <1>2, <1>3, <1>4, <1>u DEF Filled, Occupied, TableOf
<1> QED
  BY <1>4, <1>5, <1>7, <1>8 DEF f, e, u

(* An insertion enters one key, and leaves a free cell when the table is    *)
(* not about to be full.                                                    *)
LEMMA InsertSound ==
  ASSUME NEW n, NEW t, NEW c, Sound(t, n, c), NEW k \in Key, NEW v \in Value,
         ~CELL_OCCUPIED(t, find_cell(t, n, k)), c + 1 < n
  PROVE  LET e == [key |-> k, value |-> v]
             u == [t EXCEPT ![find_cell(t, n, k)] = e]
         IN /\ Sound(u, n, c + 1)
            /\ e \in Entries(u) /\ Others(u, k) = Others(t, k)
<1> DEFINE f == find_cell(t, n, k)
           e == [key |-> k, value |-> v]
           u == [t EXCEPT ![f] = e]
<1>1. PICK z \in 0 .. n - 1 : ~CELL_OCCUPIED(t, z)
  BY SoundSearch
<1>2. c \in Nat /\ k \notin Keys(t)
  BY SoundSearch
<1>3. t \in TableOf(n) /\ n \in Nat /\ n > 0 /\ Shape(t, n) /\ c = Cardinality(Occupied(t))
  BY DEF Sound
<1>4. e \in Cell /\ e.key # Free /\ e.key = k
  BY HashAssumption DEF Cell
<1>f. f = find_cell(t, n, e.key)
  BY <1>4
<1>u. u = Filled(t, f, e)
  BY DEF Filled
<1> HIDE DEF f, e, u
<1>5. /\ f \in 0 .. n - 1 /\ f \notin Occupied(t)
      /\ u \in TableOf(n) /\ Shape(u, n)
      /\ Occupied(u) = Occupied(t) \cup {f}
      /\ Entries(u) = Entries(t) \cup {e}
  BY <1>1, <1>2, <1>3, <1>4, <1>f, <1>u, InsertKeepsShape
<1>6. IsFiniteSet(Occupied(t))
  BY <1>3, RoomLeft
<1>7. Cardinality(Occupied(u)) = c + 1
  BY <1>3, <1>5, <1>6, FS_AddElement
<1>8. Sound(u, n, c + 1)
  BY <1>5, <1>7 DEF Sound
<1>9. Others(u, k) = Others(t, k)
  BY <1>4, <1>5 DEF Others
<1> QED
  BY <1>5, <1>8, <1>9 DEF f, e, u

(* A removal takes one entry away and moves the others only backwards.      *)
LEMMA RemoveSound ==
  ASSUME NEW n, NEW t, NEW c, Sound(t, n, c), NEW k \in Key,
         CELL_OCCUPIED(t, find_cell(t, n, k))
  PROVE  LET f == find_cell(t, n, k)
             u == Closed([t EXCEPT ![f] = EMPTY], n, f)
         IN /\ Sound(u, n, c - 1)
            /\ k \notin Keys(u) /\ Others(u, k) = Others(t, k)
            /\ \A x \in Occupied(u) : \E y \in Occupied(t) :
                 u[x] = t[y] /\ Dist(f, x, n) <= Dist(f, y, n)
<1> DEFINE f == find_cell(t, n, k)
           u == Closed([t EXCEPT ![f] = EMPTY], n, f)
<1>1. PICK z \in 0 .. n - 1 : ~CELL_OCCUPIED(t, z)
  BY SoundSearch
<1>2. c \in Nat /\ f \in 0 .. n - 1 /\ t[f].key = k
  BY SoundSearch
<1>3. t \in TableOf(n) /\ n \in Nat /\ n > 0 /\ Shape(t, n) /\ c = Cardinality(Occupied(t))
  BY DEF Sound
<1>4. f \in Occupied(t)
  BY <1>2, <1>3 DEF Occupied, TableOf
<1> HIDE DEF f
<1>5. /\ u \in TableOf(n) /\ Shape(u, n)
      /\ Entries(u) = Entries(t) \ {t[f]}
      /\ Cardinality(Occupied(u)) = Cardinality(Occupied(t)) - 1
      /\ \A x \in Occupied(u) : \E y \in Occupied(t) :
           u[x] = t[y] /\ Dist(f, x, n) <= Dist(f, y, n)
  BY <1>1, <1>3, <1>4, RemoveKeepsShape
<1> HIDE DEF u
<1>6. Sound(u, n, c - 1)
  BY <1>2, <1>3, <1>5 DEF Sound
<1>7. \A e \in Entries(t) : e.key = k => e = t[f]
  <2> SUFFICES ASSUME NEW x \in Occupied(t), t[x].key = k PROVE t[x] = t[f]
    BY DEF Entries
  <2> QED
    BY <1>2, <1>3, <1>4 DEF Shape, Distinct
<1>8. Others(u, k) = Others(t, k)
  BY <1>2, <1>5 DEF Others
<1>9. k \notin Keys(u)
  BY <1>5, <1>7 DEF Keys, Entries, Occupied
<1> QED
  BY <1>5, <1>6, <1>8, <1>9 DEF f, u

-----------------------------------------------------------------------------
(* The table as a map.                                                     *)

\* What hash_table_get finds in table t of n cells.
MapOf(t, n) ==
  [k \in {x \in Key : CELL_OCCUPIED(t, find_cell(t, n, x))} |-> t[find_cell(t, n, k)].value]

(* The map holds exactly the entries of the table.                          *)
LEMMA MapSays ==
  ASSUME NEW n, NEW t, NEW c, Sound(t, n, c)
  PROVE  /\ DOMAIN MapOf(t, n) = Keys(t)
         /\ \A e \in Entries(t) : e.key \in Keys(t) /\ MapOf(t, n)[e.key] = e.value
         /\ \A k \in Keys(t) : \E e \in Entries(t) : e.key = k
<1>1. \A x \in Occupied(t) : t[x].key \in Key
  BY ShapeFinds DEF Sound
<1>2. Keys(t) \subseteq Key
  BY <1>1 DEF Keys, Occupied
<1>3. DOMAIN MapOf(t, n) = Keys(t)
  BY <1>2, SoundSearch DEF MapOf
<1>4. ASSUME NEW x \in Occupied(t)
      PROVE  t[x].key \in Keys(t) /\ MapOf(t, n)[t[x].key] = t[x].value
  <2>1. t[x].key \in Keys(t) /\ t[x].key \in Key
    BY <1>1 DEF Keys, Occupied
  <2>2. x = find_cell(t, n, t[x].key) /\ CELL_OCCUPIED(t, find_cell(t, n, t[x].key))
    BY <2>1, SoundSearch
  <2> QED
    BY <2>1, <2>2 DEF MapOf
<1>5. \A k \in Keys(t) : \E e \in Entries(t) : e.key = k
  BY DEF Keys, Entries, Occupied
<1> QED
  BY <1>3, <1>4, <1>5 DEF Entries

(* Two tables with the same entries under other keys answer alike there.    *)
LEMMA MapsAgree ==
  ASSUME NEW n, NEW t, NEW c, Sound(t, n, c), NEW m, NEW u, NEW d, Sound(u, m, d),
         NEW k, Others(t, k) = Others(u, k)
  PROVE  Store!AgreeOutside(MapOf(t, n), MapOf(u, m), k)
<1> DEFINE p == MapOf(t, n)
           q == MapOf(u, m)
<1>1. /\ DOMAIN p = Keys(t)
      /\ \A e \in Entries(t) : e.key \in Keys(t) /\ p[e.key] = e.value
      /\ \A x \in Keys(t) : \E e \in Entries(t) : e.key = x
  BY MapSays
<1>2. /\ DOMAIN q = Keys(u)
      /\ \A e \in Entries(u) : e.key \in Keys(u) /\ q[e.key] = e.value
      /\ \A x \in Keys(u) : \E e \in Entries(u) : e.key = x
  BY MapSays
<1> HIDE DEF p, q
<1>3. \A e : e \in Entries(t) /\ e.key # k <=> e \in Entries(u) /\ e.key # k
  BY DEF Others
<1>4. \A x \in DOMAIN p \ {k} : x \in DOMAIN q /\ q[x] = p[x]
  <2> SUFFICES ASSUME NEW x \in Keys(t), x # k
               PROVE  x \in Keys(u) /\ q[x] = p[x]
    BY <1>1, <1>2
  <2>1. PICK e \in Entries(t) : e.key = x
    BY <1>1
  <2>2. e \in Entries(u)
    BY <1>3, <2>1
  <2> QED
    BY <1>1, <1>2, <2>1, <2>2
<1>5. \A x \in DOMAIN q \ {k} : x \in DOMAIN p
  <2> SUFFICES ASSUME NEW x \in Keys(u), x # k
               PROVE  x \in Keys(t)
    BY <1>1, <1>2
  <2>1. PICK e \in Entries(u) : e.key = x
    BY <1>2
  <2> QED
    BY <1>1, <1>3, <2>1
<1>6. DOMAIN p \ {k} = DOMAIN q \ {k}
  BY <1>4, <1>5
<1> QED
  BY <1>4, <1>6 DEF Store!AgreeOutside, p, q

-----------------------------------------------------------------------------
(* The inductive invariant and its preservation.                           *)

(* Every entry lies where a search from its own position meets it, with no  *)
(* hole before it (Shape), there is a free cell, the counter is right, and  *)
(* what the traversal has not seen yet is not behind it.                    *)
HashIInv ==
  /\ HashTypeOK
  /\ Sound(cells, size, count)
  /\ ForEachMissesNone
  /\ looping \/ iter = 0

(* A step of the table under key k: it stays sound, and the entries under   *)
(* other keys stay the same.                                                *)
TableStep(k) ==
  /\ Sound(cells', size', count')
  /\ Others(cells', k) = Others(cells, k)
  /\ size' \in {Primes[i] : i \in DOMAIN Primes}
  /\ prime_offset' \in 2 .. Len(Primes) + 1
  /\ k \in Keys(cells') => \E v \in Value : [key |-> k, value |-> v] \in Entries(cells')

\* Overwriting a value (hash_table_put on a key that is there).
LEMMA UpdateStep ==
  ASSUME HashTypeOK, Sound(cells, size, count),
         NEW k \in Key, NEW v \in Value, Update(k, v)
  PROVE  /\ TableStep(k) /\ size' = size
         /\ \A x \in Occupied(cells') : x \in Occupied(cells) /\ cells'[x].key = cells[x].key
<1> DEFINE u == [cells EXCEPT ![find_cell(cells, size, k)] = [key |-> k, value |-> v]]
<1>1. cells' = u /\ size' = size /\ count' = count /\ prime_offset' = prime_offset
  BY DEF Update
<1>2. CELL_OCCUPIED(cells, find_cell(cells, size, k))
  BY DEF Update, contains
<1>3. /\ Sound(u, size, count)
      /\ [key |-> k, value |-> v] \in Entries(u) /\ Others(u, k) = Others(cells, k)
      /\ \A x \in Occupied(u) : x \in Occupied(cells) /\ u[x].key = cells[x].key
  BY <1>2, UpdateSound, ZenonT(30)
<1> HIDE DEF u
<1> QED
  BY <1>1, <1>3 DEF TableStep, HashTypeOK

\* A new entry that fits (hash_table_put below the fullness).
LEMMA InsertStep ==
  ASSUME HashTypeOK, Sound(cells, size, count),
         NEW k \in Key, NEW v \in Value, Insert(k, v)
  PROVE  TableStep(k)
<1> DEFINE u == [cells EXCEPT ![find_cell(cells, size, k)] = [key |-> k, value |-> v]]
<1>1. cells' = u /\ size' = size /\ count' = count + 1 /\ prime_offset' = prime_offset
  BY DEF Insert
<1>2. ~CELL_OCCUPIED(cells, find_cell(cells, size, k))
  BY DEF Insert, contains
<1>3. count + 1 < size
  BY SoundSearch DEF Insert, MustGrow, Threshold, Sound
<1>4. /\ Sound(u, size, count + 1)
      /\ [key |-> k, value |-> v] \in Entries(u) /\ Others(u, k) = Others(cells, k)
  BY <1>2, <1>3, InsertSound
<1> HIDE DEF u
<1> QED
  BY <1>1, <1>4 DEF TableStep, HashTypeOK

\* A new entry after grow_hash_table.
LEMMA InsertGrownStep ==
  ASSUME HashTypeOK, Sound(cells, size, count),
         NEW k \in Key, NEW v \in Value, InsertGrown(k, v)
  PROVE  TableStep(k)
<1> DEFINE i == LeastOf(Suitable(2 * size, prime_offset))
           n == Primes[i]
           t == Rehashed(cells, size, n)
           u == [t EXCEPT ![find_cell(t, n, k)] = [key |-> k, value |-> v]]
<1>1. cells' = u /\ size' = n /\ count' = count + 1 /\ prime_offset' = i + 1
  BY DEF InsertGrown
<1>2. size \in Nat /\ size > 1 /\ cells \in TableOf(size) /\ Shape(cells, size)
      /\ count = Cardinality(Occupied(cells)) /\ count < size
  BY DEF Sound
<1>3. 2 * size \in Nat /\ prime_offset \in 1 .. Len(Primes) + 1
      /\ Suitable(2 * size, prime_offset) # {}
  BY <1>2, HashAssumption DEF HashTypeOK, InsertGrown
<1>4. /\ i \in prime_offset .. Len(Primes) /\ i \in DOMAIN Primes
      /\ n \in Nat /\ n >= 2 * size /\ n > 1
  BY <1>3, GrownSize
<1>5. count \in Nat
  BY SoundSearch
<1> HIDE DEF i, n
<1>6. size < n
  BY <1>2, <1>4
<1>7. /\ t \in TableOf(n) /\ Shape(t, n) /\ Entries(t) = Entries(cells)
      /\ Cardinality(Occupied(t)) = count
  BY <1>2, <1>4, <1>6, RehashedKeepsAll
<1>8. Keys(t) = Keys(cells)
  <2>1. \A w : Keys(w) = {e.key : e \in Entries(w)}
    BY DEF Keys, Entries, Occupied
  <2> QED
    BY <1>7, <2>1
<1> HIDE DEF t
<1>9. Sound(t, n, count)
  BY <1>2, <1>4, <1>5, <1>7 DEF Sound
<1>10. k \notin Keys(cells)
  <2>1. ~CELL_OCCUPIED(cells, find_cell(cells, size, k))
    BY DEF InsertGrown, contains
  <2> QED
    BY <2>1, SoundSearch
<1>11. ~CELL_OCCUPIED(t, find_cell(t, n, k))
  BY <1>8, <1>9, <1>10, SoundSearch
<1>12. count + 1 < n
  BY <1>2, <1>4, <1>5
<1>13. /\ Sound(u, n, count + 1)
       /\ [key |-> k, value |-> v] \in Entries(u) /\ Others(u, k) = Others(t, k)
  BY <1>9, <1>11, <1>12, InsertSound
<1>14. Others(t, k) = Others(cells, k)
  BY <1>7 DEF Others
<1> HIDE DEF u
<1>15. i + 1 \in 2 .. Len(Primes) + 1
  BY <1>3, <1>4, HashAssumption
<1>16. n \in {Primes[j] : j \in DOMAIN Primes}
  BY <1>4 DEF n
<1> QED
  BY <1>1, <1>13, <1>14, <1>15, <1>16 DEF TableStep

\* hash_table_remove.
LEMMA RemoveStep ==
  ASSUME HashTypeOK, Sound(cells, size, count), NEW k \in Key, hash_table_remove(k)
  PROVE  /\ TableStep(k) /\ size' = size
         /\ \A x \in Occupied(cells') : \E y \in Occupied(cells) :
              /\ cells'[x] = cells[y]
              /\ Dist(find_cell(cells, size, k), x, size)
                   <= Dist(find_cell(cells, size, k), y, size)
<1> DEFINE f == find_cell(cells, size, k)
           u == Closed([cells EXCEPT ![f] = EMPTY], size, f)
<1>1. cells' = u /\ size' = size /\ count' = count - 1 /\ prime_offset' = prime_offset
  BY DEF hash_table_remove
<1>2. CELL_OCCUPIED(cells, f)
  BY DEF hash_table_remove, contains
<1>3. /\ Sound(u, size, count - 1)
      /\ k \notin Keys(u) /\ Others(u, k) = Others(cells, k)
      /\ \A x \in Occupied(u) : \E y \in Occupied(cells) :
           u[x] = cells[y] /\ Dist(f, x, size) <= Dist(f, y, size)
  BY <1>2, RemoveSound
<1> HIDE DEF u, f
<1> QED
  BY <1>1, <1>3 DEF TableStep, HashTypeOK, f

\* hash_table_put, all three ways.
LEMMA PutStep ==
  ASSUME HashTypeOK, Sound(cells, size, count),
         NEW k \in Key, NEW v \in Value, hash_table_put(k, v)
  PROVE  TableStep(k)
BY UpdateStep, InsertStep, InsertGrownStep DEF hash_table_put

(* An emptied table is sound, and so is a new one.                          *)
LEMMA EmptySound ==
  ASSUME NEW n \in Nat, n > 1
  PROVE  LET t == [x \in 0 .. n - 1 |-> EMPTY]
         IN Sound(t, n, 0) /\ Keys(t) = {}
<1> DEFINE t == [x \in 0 .. n - 1 |-> EMPTY]
<1>1. /\ t \in TableOf(n) /\ Shape(t, n)
      /\ Occupied(t) = {} /\ Entries(t) = {} /\ Cardinality(Occupied(t)) = 0
  BY EmptyTable
<1> HIDE DEF t
<1>2. Keys(t) = {}
  BY <1>1 DEF Keys, Occupied
<1> QED
  BY <1>1, <1>2, SMTT(30) DEF Sound, t

\* hash_table_clear.
LEMMA ClearStep ==
  ASSUME HashTypeOK, Sound(cells, size, count), hash_table_clear
  PROVE  Sound(cells', size', count') /\ Keys(cells') = {} /\ size' = size
         /\ prime_offset' = prime_offset
<1>1. size \in Nat /\ size > 1
  BY DEF Sound
<1> QED
  BY <1>1, EmptySound DEF hash_table_clear

(* A sound table is well typed.                                             *)
LEMMA SoundType ==
  ASSUME NEW n, NEW t, NEW c, Sound(t, n, c)
  PROVE  t \in [0 .. n - 1 -> Cell] /\ c \in 0 .. n
BY RoomLeft DEF Sound, TableOf

(* hash_table_new gives an empty table that is sound.                       *)
LEMMA HashInitInv ==
  ASSUME HashInit PROVE HashIInv
<1> DEFINE i == LeastOf(Suitable(NewSize(Items), 1))
<1>1. size = Primes[i] /\ cells = [c \in 0 .. size - 1 |-> EMPTY]
      /\ prime_offset = i + 1 /\ count = 0
  BY DEF HashInit, hash_table_new
<1>2. NewSize(Items) \in Nat /\ 1 \in 1 .. Len(Primes) + 1 /\ Len(Primes) \in Nat
  BY HashAssumption DEF NewSize
<1>3. i \in 1 .. Len(Primes) /\ i \in DOMAIN Primes /\ Primes[i] \in Nat /\ Primes[i] > 1
  BY <1>2, HashAssumption, GrownSize
<1> HIDE DEF i
<1>4. Sound(cells, size, count)
  BY <1>1, <1>3, EmptySound
<1>5. HashTypeOK
  BY <1>1, <1>2, <1>3, <1>4, SoundType DEF HashTypeOK, HashInit
<1>6. ForEachMissesNone
  BY DEF HashInit, ForEachMissesNone
<1> QED
  BY <1>4, <1>5, <1>6 DEF HashIInv, HashInit

(* The traversal passes no entry that it has not seen: a removal under the  *)
(* cell it is at moves entries only from behind that cell, and not over it. *)
LEMMA ForEachCallInv ==
  ASSUME HashIInv, ForEachCall
  PROVE  HashIInv' /\ \E k \in Key : TableStep(k) \/ UNCHANGED <<size, cells>>
<1> DEFINE k == cells[iter].key
<1>1. /\ looping /\ iter < size /\ CELL_OCCUPIED(cells, iter)
      /\ seen' = seen \cup {k} /\ looping' = looping /\ aborted' = aborted
  BY DEF ForEachCall, AtCell, InLoop
<1>2. HashTypeOK /\ Sound(cells, size, count) /\ ForEachMissesNone
  BY DEF HashIInv
<1>3. size \in Nat /\ cells \in [0 .. size - 1 -> Cell] /\ iter \in 0 .. size - 1
  BY <1>1, <1>2 DEF HashTypeOK, Sound, TableOf
<1>4. k \in Key /\ iter \in Occupied(cells)
  BY <1>1, <1>3 DEF CELL_OCCUPIED, Occupied, Cell
<1>5. find_cell(cells, size, k) = iter
  BY <1>2, <1>4, SoundSearch
<1>6. \A y \in Occupied(cells) : y \in 0 .. size - 1 /\ (cells[y].key \notin seen => y >= iter)
  BY <1>1, <1>2, <1>3 DEF ForEachMissesNone, Occupied
<1>7. iter' = IF cells'[iter].key # k /\ CELL_OCCUPIED(cells', iter) THEN iter ELSE iter + 1
  BY DEF ForEachCall, Advance
<1>8. \/ UNCHANGED <<size, cells, count, prime_offset>>
      \/ \E v \in Value : Update(k, v)
      \/ hash_table_remove(k)
  BY DEF ForEachCall
<1> HIDE DEF k
\* What is to be shown of each of the three outcomes of the call.
<1> DEFINE Safe == /\ Sound(cells', size', count')
                   /\ size' = size /\ prime_offset' \in 2 .. Len(Primes) + 1
                   /\ \A x \in Occupied(cells') : cells'[x].key \notin seen' => x >= iter
<1>9. ASSUME UNCHANGED <<size, cells, count, prime_offset>> PROVE Safe
  BY <1>1, <1>2, <1>6, <1>9 DEF HashTypeOK
<1>10. ASSUME NEW v \in Value, Update(k, v) PROVE Safe /\ TableStep(k)
  <2>1. /\ TableStep(k) /\ size' = size
        /\ \A x \in Occupied(cells') : x \in Occupied(cells) /\ cells'[x].key = cells[x].key
    BY <1>2, <1>4, <1>10, UpdateStep
  <2> QED
    BY <1>1, <1>6, <2>1 DEF TableStep
<1>11. ASSUME hash_table_remove(k) PROVE Safe /\ TableStep(k)
  <2>1. /\ TableStep(k) /\ size' = size
        /\ \A x \in Occupied(cells') : \E y \in Occupied(cells) :
             cells'[x] = cells[y] /\ Dist(iter, x, size) <= Dist(iter, y, size)
    BY <1>2, <1>4, <1>5, <1>11, RemoveStep
  <2>2. Sound(cells', size, count')
    BY <2>1 DEF TableStep
  <2>3. ASSUME NEW x \in Occupied(cells'), cells'[x].key \notin seen'
        PROVE  x >= iter
    <3>1. x \in 0 .. size - 1
      BY <2>2 DEF Sound, TableOf, Occupied
    <3>2. PICK y \in Occupied(cells) :
            cells'[x] = cells[y] /\ Dist(iter, x, size) <= Dist(iter, y, size)
      BY <2>1
    <3>3. y \in 0 .. size - 1 /\ y >= iter
      BY <1>1, <1>6, <2>3, <3>2
    <3> QED
      BY <1>3, <3>1, <3>2, <3>3 DEF Dist
  <2> QED
    BY <2>1, <2>3 DEF TableStep
<1> HIDE DEF Safe
<1>12. Safe /\ (TableStep(k) \/ UNCHANGED <<size, cells>>)
  BY <1>8, <1>9, <1>10, <1>11
<1> USE DEF Safe
<1>13. HashTypeOK'
  <2>1. cells' \in [0 .. size' - 1 -> Cell] /\ count' \in 0 .. size'
    BY <1>12, SoundType
  <2>2. iter' \in 0 .. size'
    BY <1>3, <1>7, <1>12
  <2>3. size' \in {Primes[i] : i \in DOMAIN Primes} /\ prime_offset' \in 2 .. Len(Primes) + 1
    BY <1>2, <1>12 DEF HashTypeOK
  <2>4. looping' \in BOOLEAN /\ seen' \subseteq Key /\ aborted' \in BOOLEAN
    BY <1>1, <1>2, <1>4 DEF HashTypeOK
  <2> QED
    BY <2>1, <2>2, <2>3, <2>4 DEF HashTypeOK
<1>14. ForEachMissesNone'
  <2> SUFFICES ASSUME NEW c \in 0 .. size' - 1,
                      CELL_OCCUPIED(cells', c), cells'[c].key \notin seen'
               PROVE  c >= iter'
    BY DEF ForEachMissesNone, CELL_OCCUPIED
  <2>1. c \in Occupied(cells') /\ c \in 0 .. size - 1
    BY <1>12 DEF Sound, TableOf, Occupied
  <2>2. c >= iter
    BY <1>12, <2>1
  <2>3. cells'[c].key # k
    BY <1>1
  <2> QED
    BY <1>3, <1>7, <2>1, <2>2, <2>3
<1> QED
  BY <1>1, <1>4, <1>12, <1>13, <1>14 DEF HashIInv

\* A call outside a traversal keeps the invariant and changes one key or clears.
LEMMA CallInv ==
  ASSUME HashIInv, Call
  PROVE  HashIInv' /\ ((\E k \in Key : TableStep(k)) \/ Keys(cells') = {})
<1>1. HashTypeOK /\ Sound(cells, size, count) /\ (looping \/ iter = 0)
  BY DEF HashIInv
<1>2. /\ ~looping /\ looping' = looping /\ iter' = iter /\ seen' = seen /\ aborted' = aborted
      /\ ~looping'
  BY DEF Call
<1>3. ForEachMissesNone'
  BY <1>2 DEF ForEachMissesNone
<1>4. ASSUME Sound(cells', size', count'),
             size' \in {Primes[i] : i \in DOMAIN Primes},
             prime_offset' \in 2 .. Len(Primes) + 1
      PROVE  HashIInv'
  <2>1. cells' \in [0 .. size' - 1 -> Cell] /\ count' \in 0 .. size' /\ size' \in Nat
    BY <1>4, SoundType DEF Sound
  <2>2. iter' = 0 /\ iter' \in 0 .. size'
    BY <1>1, <1>2, <2>1
  <2> QED
    BY <1>1, <1>2, <1>3, <1>4, <2>1, <2>2 DEF HashIInv, HashTypeOK
<1>5. CASE \E k \in Key, v \in Value : hash_table_put(k, v)
  <2>1. PICK k \in Key, v \in Value : hash_table_put(k, v)
    BY <1>5
  <2>2. TableStep(k)
    BY <1>1, <2>1, PutStep
  <2> QED
    BY <1>4, <2>2 DEF TableStep
<1>6. CASE \E k \in Key : hash_table_remove(k)
  <2>1. PICK k \in Key : hash_table_remove(k)
    BY <1>6
  <2>2. TableStep(k)
    BY <1>1, <2>1, RemoveStep
  <2> QED
    BY <1>4, <2>2 DEF TableStep
<1>7. CASE hash_table_clear
  <2>1. Sound(cells', size', count') /\ Keys(cells') = {} /\ size' = size
        /\ prime_offset' = prime_offset
    BY <1>1, <1>7, ClearStep
  <2> QED
    BY <1>1, <1>4, <2>1 DEF HashTypeOK
<1> QED
  BY <1>5, <1>6, <1>7 DEF Call

(* What is found under every key but one stays the same in every step,      *)
(* unless the table is emptied.                                             *)
TableMove ==
  \/ \E k \in Key : TableStep(k)
  \/ Keys(cells') = {}
  \/ UNCHANGED <<size, cells>>

\* Every step keeps the invariant, and the table moves as a map may.
LEMMA HashStep ==
  ASSUME HashIInv, HashNext
  PROVE  HashIInv' /\ TableMove
<1> USE DEF TableMove
<1>1. /\ HashTypeOK /\ Sound(cells, size, count) /\ ForEachMissesNone
      /\ looping \/ iter = 0
      /\ size \in Nat
  BY DEF HashIInv, Sound
<1>2. CASE Call
  BY <1>2, CallInv
<1>3. CASE Abort
  BY <1>1, <1>3 DEF Abort, HashIInv, HashTypeOK, ForEachMissesNone, CELL_OCCUPIED
<1>4. CASE ForEachStart
  <2>1. /\ iter' = 0 /\ looping' /\ looping' = TRUE /\ seen' = {}
        /\ UNCHANGED <<size, cells, count, prime_offset, aborted>>
    BY <1>4 DEF ForEachStart
  <2>2. ForEachMissesNone'
    BY <1>1, <2>1 DEF ForEachMissesNone
  <2> QED
    BY <1>1, <2>1, <2>2 DEF HashIInv, HashTypeOK
<1>5. CASE ForEachSkip
  <2>1. /\ iter' = iter + 1 /\ looping /\ iter < size /\ ~CELL_OCCUPIED(cells, iter)
        /\ UNCHANGED <<size, cells, count, prime_offset, looping, seen, aborted>>
    BY <1>5 DEF ForEachSkip, AtCell, InLoop
  <2>2. iter \in 0 .. size - 1
    BY <1>1, <2>1 DEF HashTypeOK
  <2>3. ForEachMissesNone'
    BY <1>1, <2>1, <2>2 DEF ForEachMissesNone, CELL_OCCUPIED
  <2> QED
    BY <1>1, <2>1, <2>2, <2>3 DEF HashIInv, HashTypeOK
<1>6. CASE ForEachCall
  BY <1>6, ForEachCallInv
<1>7. CASE ForEachEnd
  <2>1. /\ iter' = 0 /\ ~looping' /\ looping' = FALSE /\ seen' = {}
        /\ UNCHANGED <<size, cells, count, prime_offset, aborted>>
    BY <1>7 DEF ForEachEnd
  <2>2. ForEachMissesNone'
    BY <2>1 DEF ForEachMissesNone
  <2>3. HashTypeOK'
    <3>1. iter' \in 0 .. size'
      BY <1>1, <2>1
    <3>2. looping' \in BOOLEAN
      BY <2>1, Zenon
    <3> QED
      BY <1>1, <2>1, <3>1, <3>2 DEF HashTypeOK
  <2>4. Sound(cells, size, count)'
    BY <1>1, <2>1
  <2> QED
    BY <2>1, <2>2, <2>3, <2>4 DEF HashIInv
<1> QED
  BY <1>2, <1>3, <1>4, <1>5, <1>6, <1>7 DEF HashNext

\* A stuttering step keeps the invariant.
LEMMA HashStutter ==
  ASSUME HashIInv, UNCHANGED hashVars
  PROVE  HashIInv' /\ TableMove
BY DEF HashIInv, HashTypeOK, ForEachMissesNone, CELL_OCCUPIED, hashVars, TableMove

(* The invariant answers for every search.                                  *)
LEMMA InvProbes ==
  ASSUME HashIInv
  PROVE  ProbesReach
<1>1. Sound(cells, size, count)
  BY DEF HashIInv
<1>2. Occupied(cells) = {c \in 0 .. size - 1 : CELL_OCCUPIED(cells, c)}
  BY <1>1 DEF Occupied, Sound, TableOf
<1>3. \A c \in Occupied(cells) : find_cell(cells, size, cells[c].key) = c
  BY <1>1, ShapeFinds DEF Sound
<1> QED
  BY <1>1, <1>2, <1>3 DEF ProbesReach, Sound

-----------------------------------------------------------------------------
(* The theorems.                                                           *)

(* The inductive invariant holds of every table, for every set of keys,     *)
(* every hash function and every list of primes: the shape that the         *)
(* probing of find_cell needs survives growth, removal and traversal.       *)
THEOREM HashInvariant == HashSpec => []HashIInv
<1>1. HashInit => HashIInv
  BY HashInitInv
<1>2. HashIInv /\ [HashNext]_hashVars => HashIInv'
  BY HashStep, HashStutter
<1> QED
  BY <1>1, <1>2, PTL DEF HashSpec

(* find_cell ends, and at the entry of its key: the counter is right, a     *)
(* cell is free and no entry lies behind a hole.                            *)
THEOREM SearchesReach == HashSpec => []ProbesReach
<1>1. HashIInv => ProbesReach
  BY InvProbes
<1> QED
  BY <1>1, HashInvariant, PTL

(* hash_table_for_each never passes an entry that it has not called its     *)
(* function with, although the function may remove entries.                 *)
THEOREM TraversalComplete == HashSpec => []ForEachMissesNone
<1>1. HashIInv => ForEachMissesNone
  BY DEF HashIInv
<1> QED
  BY <1>1, HashInvariant, PTL

(* The map a sound table stands for changes as the map it implements may.   *)
LEMMA MoveIsStore ==
  ASSUME HashIInv, HashIInv', TableMove
  PROVE  Store!StoreNext \/ MapOf(cells', size') = MapOf(cells, size)
<1> DEFINE p == MapOf(cells, size)
           q == MapOf(cells', size')
<1>1. Sound(cells, size, count) /\ Sound(cells', size', count')
  BY DEF HashIInv
<1>2. p = [k \in {x \in Key : contains(x)} |-> get(k)]
  BY DEF MapOf, contains, get
<1>3. q = [k \in {x \in Key : contains(x)} |-> get(k)]'
  BY DEF MapOf, contains, get
<1>4. /\ DOMAIN q = Keys(cells')
      /\ \A e \in Entries(cells') : q[e.key] = e.value
  BY <1>1, MapSays
<1>5. ASSUME NEW k \in Key, TableStep(k)
      PROVE  Store!OneEntry(p, q)
  <2>1. Store!AgreeOutside(p, q, k)
    BY <1>1, <1>5, MapsAgree DEF TableStep
  <2>2. ASSUME k \in DOMAIN q PROVE q[k] \in Value
    <3>1. PICK v \in Value : [key |-> k, value |-> v] \in Entries(cells')
      BY <1>4, <1>5, <2>2 DEF TableStep
    <3> HIDE DEF q
    <3>2. q[[key |-> k, value |-> v].key] = [key |-> k, value |-> v].value
      BY <1>4, <3>1
    <3> QED
      BY <3>2
  <2> HIDE DEF p, q
  <2> QED
    BY <2>1, <2>2 DEF Store!OneEntry
<1>6. ASSUME Keys(cells') = {} PROVE Store!Emptied(q)
  BY <1>4, <1>6 DEF Store!Emptied
<1>7. ASSUME UNCHANGED <<size, cells>> PROVE q = p
  BY <1>7 DEF MapOf
<1> HIDE DEF p, q
<1>8. Store!OneEntry(p, q) \/ Store!Emptied(q) \/ q = p
  BY <1>5, <1>6, <1>7 DEF TableMove
<1> QED
  BY <1>2, <1>3, <1>8 DEF Store!StoreNext, p, q

(* A hash table implements a map: whatever entries growth and removal move, *)
(* no call changes what is found under another key.                         *)
THEOREM TableIsMap == HashSpec => IsKeyedStore
<1>1. HashInit => Store!Emptied([k \in {x \in Key : contains(x)} |-> get(k)])
  <2> SUFFICES ASSUME HashInit
               PROVE  Store!Emptied([k \in {x \in Key : contains(x)} |-> get(k)])
    OBVIOUS
  <2>1. HashIInv
    BY HashInitInv
  <2>2. Sound(cells, size, count) /\ cells = [c \in 0 .. size - 1 |-> EMPTY]
    BY <2>1 DEF HashIInv, HashInit, hash_table_new
  <2>3. Keys(cells) = {}
    BY <2>2, EmptySound DEF Sound
  <2>4. \A x \in Key : ~contains(x)
    BY <2>2, <2>3, SoundSearch DEF contains
  <2> QED
    BY <2>4 DEF Store!Emptied
<1>2. HashIInv /\ HashIInv' /\ [HashNext]_hashVars
        => [Store!StoreNext]_([k \in {x \in Key : contains(x)} |-> get(k)])
  <2> SUFFICES ASSUME HashIInv, HashIInv', [HashNext]_hashVars
               PROVE  \/ Store!StoreNext
                      \/ UNCHANGED [k \in {x \in Key : contains(x)} |-> get(k)]
    OBVIOUS
  <2>1. TableMove
    BY HashStep, HashStutter
  <2>2. Store!StoreNext \/ MapOf(cells', size') = MapOf(cells, size)
    BY <2>1, MoveIsStore
  <2> QED
    BY <2>2 DEF MapOf, contains, get
<1> QED
  BY <1>1, <1>2, HashInvariant, PTL DEF HashSpec, IsKeyedStore, Store!StoreSpec


-----------------------------------------------------------------------------
(* hsts_find_entry.                                                        *)

(* What is found for h is h's own entry, or that of a superdomain which     *)
(* covers its subdomains; if no superdomain has an entry, nothing is found. *)
LEMMA FindEntry ==
  ASSUME NEW t \in Table, NEW h \in Host
  PROVE  LET f == find_entry(t, h)
         IN /\ f.match = "congruent" <=> t[h] # NoEntry
            /\ f.match = "congruent" => f.khi = t[h]
            /\ f.match = "superdomain" =>
                 \E i \in DOMAIN Supers[h] :
                   /\ f.khi = t[Supers[h][i]] /\ f.khi # NoEntry /\ f.khi.sub
            /\ f.match \in {"congruent", "superdomain", "none"}
            /\ f.match # "congruent" /\ ~Shadowed(t, h) => f.khi = NoEntry
<1> DEFINE up == Supers[h]
           covering == {i \in DOMAIN up : t[up[i]] # NoEntry /\ t[up[i]].sub}
           first == CHOOSE i \in covering : \A j \in covering : i <= j
<1>1. up \in Seq(Host) /\ DOMAIN up = 1 .. Len(up) /\ Len(up) \in Nat
  BY HstsAssumption
<1>2. CASE t[h] # NoEntry
  <2>1. find_entry(t, h) = [match |-> "congruent", khi |-> t[h]]
    BY <1>2 DEF find_entry
  <2> QED
    BY <1>2, <2>1
<1>3. CASE t[h] = NoEntry /\ covering # {}
  <2>1. find_entry(t, h) = [match |-> "superdomain", khi |-> t[up[first]]]
    BY <1>3 DEF find_entry
  <2>2. covering \subseteq Nat
    BY <1>1
  <2> HIDE DEF covering
  <2>3. \E m \in covering : \A j \in covering : m <= j
    BY <1>3, <2>2, LeastNatural
  <2>4. first \in covering
    BY <2>3
  <2> HIDE DEF first
  <2>5. first \in DOMAIN up /\ t[up[first]] # NoEntry /\ t[up[first]].sub
    BY <2>4 DEF covering
  <2> QED
    BY <1>3, <2>1, <2>5 DEF Shadowed
<1>4. CASE t[h] = NoEntry /\ covering = {}
  <2> DEFINE last == IF up = <<>> THEN NoEntry ELSE t[up[Len(up)]]
  <2>1. find_entry(t, h) = [match |-> "none", khi |-> last]
    BY <1>4 DEF find_entry
  <2>2. ASSUME ~Shadowed(t, h) PROVE last = NoEntry
    <3>1. CASE up = <<>>
      BY <3>1
    <3>2. CASE up # <<>>
      <4>1. Len(up) \in DOMAIN up
        BY <1>1, <3>2
      <4> QED
        BY <2>2, <3>2, <4>1 DEF Shadowed
    <3> QED
      BY <3>1, <3>2
  <2> HIDE DEF last
  <2> QED
    BY <1>4, <2>1, <2>2
<1> QED
  BY <1>2, <1>3, <1>4

-----------------------------------------------------------------------------
(* hsts_store_merge, for one line and for all lines of the file.           *)

(* Merging a line keeps, overwrites by a younger entry, or adds; a valid    *)
(* line that nothing shadows is in the table afterwards.                    *)
LEMMA MergedOne ==
  ASSUME NEW t \in Table, NEW d \in Table, NEW h \in Host
  PROVE  LET m == Merged(t, d, h)
         IN /\ m \in {t[h], d[h]}
            /\ t[h] # NoEntry => m # NoEntry /\ m.created >= t[h].created
            /\ (d[h] # NoEntry /\ ~Bad(d[h].created, d[h].max_age) /\ ~Shadowed(t, h))
               => m # NoEntry /\ m.created >= d[h].created
<1> DEFINE m == Merged(t, d, h)
           f == find_entry(t, h)
<1>1. /\ f.match = "congruent" <=> t[h] # NoEntry
      /\ f.match # "congruent" /\ ~Shadowed(t, h) => f.khi = NoEntry
  BY FindEntry
<1>2. /\ t[h] # NoEntry => t[h].created \in Nat
      /\ d[h] # NoEntry => d[h].created \in Nat
  BY DEF Table, Entry
<1>3. m = IF d[h] = NoEntry THEN t[h]
          ELSE IF f.match = "congruent"
          THEN IF d[h].created > t[h].created THEN d[h] ELSE t[h]
          ELSE IF f.khi = NoEntry /\ ~Bad(d[h].created, d[h].max_age)
          THEN d[h] ELSE NoEntry
  BY DEF Merged
<1> HIDE DEF m, f
<1> QED
  BY <1>1, <1>2, <1>3 DEF m

\* Table u after the line of the file d for host k.
LineMerged(u, d, k) == [u EXCEPT ![k] = Merged(u, d, k)]

\* What the recursion of Merging says of the function into.
MergingRule(into, t, d, o) ==
  /\ into \in [0 .. Cardinality(Host) -> Table]
  /\ into[0] = t
  /\ \A i \in 1 .. Cardinality(Host) :
       into[i] = LineMerged(into[i - 1], d, o[i])

(* The recursion of Merging is well defined.                                *)
LEMMA MergingSteps ==
  ASSUME NEW t \in Table, NEW d \in Table, NEW o \in [1 .. Cardinality(Host) -> Host]
  PROVE  MergingRule(Merging(t, d, o), t, d, o)
<1> DEFINE m == Cardinality(Host)
           Line(u, i) == [u EXCEPT ![o[i]] = Merged(u, d, o[i])]
           g == [i \in 1 .. m |-> [u \in Table |-> Line(u, i)]]
<1>1. m \in Nat
  BY HstsAssumption, FS_CardinalityType
<1>2. ASSUME NEW i \in 1 .. m, NEW u \in Table
      PROVE  Line(u, i) \in Table
  <2>1. Merged(u, d, o[i]) \in {u[o[i]], d[o[i]]}
    BY MergedOne
  <2>2. Merged(u, d, o[i]) \in Entry \cup {NoEntry}
    BY <2>1 DEF Table
  <2> QED
    BY <2>2 DEF Table
<1> HIDE DEF m, Line
<1>3. g \in [1 .. m -> [Table -> Table]]
      /\ \A i \in 1 .. m : \A u \in Table : g[i][u] = Line(u, i)
  BY <1>2
<1> HIDE DEF g
<1>4. PICK h \in [0 .. m -> Table] : Unfolds(h, m, t, g)
  BY <1>1, <1>3, RecursionExists
<1>5. \A i \in 1 .. m : h[i] = Line(h[i - 1], i)
  BY <1>1, <1>3, <1>4 DEF Unfolds
<1>6. h = [i \in 0 .. m |-> IF i = 0 THEN t ELSE Line(h[i - 1], i)]
  BY <1>1, <1>4, <1>5 DEF Unfolds
<1> DEFINE R == Merging(t, d, o)
<1>7. R = CHOOSE f : f = [i \in 0 .. m |-> IF i = 0 THEN t ELSE Line(f[i - 1], i)]
  BY DEF Merging, Line, m
<1> HIDE DEF R
<1>8. R = [i \in 0 .. m |-> IF i = 0 THEN t ELSE Line(R[i - 1], i)]
  BY <1>6, <1>7
<1>9. R[0] = t /\ \A i \in 1 .. m : R[i] = Line(R[i - 1], i)
  BY <1>1, <1>8
<1> DEFINE S == {i \in 0 .. m : R[i] \in Table}
<1>10. \A i \in 0 .. m : i \in S
  <2>1. 0 \in S
    BY <1>1, <1>9
  <2>2. \A i \in 1 .. m : i - 1 \in S => i \in S
    BY <1>1, <1>2, <1>9
  <2> HIDE DEF S
  <2> QED
    BY <1>1, <2>1, <2>2, UpTo
<1>11. R \in [0 .. m -> Table]
  BY <1>8, <1>10
<1> QED
  BY <1>9, <1>11 DEF Line, R, m, MergingRule, LineMerged

(* Every host has its turn: an order of the lines leaves no host out.       *)
LEMMA OrderCovers ==
  ASSUME NEW o \in Orders, NEW h \in Host
  PROVE  \E i \in 1 .. Cardinality(Host) : o[i] = h
<1> DEFINE n == Cardinality(Host)
<1>1. n \in Nat /\ IsFiniteSet(Host)
  BY HstsAssumption, FS_CardinalityType
<1>2. o \in [1 .. n -> Host] /\ \A i, j \in 1 .. n : o[i] = o[j] => i = j
  BY DEF Orders
<1>3. Cardinality(1 .. n) = n
  BY <1>1, FS_Interval
<1> HIDE DEF n
<1>4. o \in Injection(1 .. n, Host)
  BY <1>2 DEF Injection, IsInjective
<1>5. o \in Surjection(1 .. n, Host)
  BY <1>1, <1>3, <1>4, FS_Injection DEF n
<1> QED
  BY <1>5 DEF Surjection, n

\* Table u holds, as young or younger, what table d has for h, unless d has
\* nothing that is valid or a superdomain's entry hides it.
Holds(u, d, h) ==
  d[h] # NoEntry /\ ~Bad(d[h].created, d[h].max_age) /\ ~Shadowed(u, h)
  => u[h] # NoEntry /\ u[h].created >= d[h].created

(* A merged line is held; what was held before still is.                    *)
LEMMA MergeLine ==
  ASSUME NEW u \in Table, NEW d \in Table, NEW k \in Host
  PROVE  LET v == LineMerged(u, d, k)
         IN /\ v \in Table
            /\ \A h \in Host : v[h] \in {u[h], d[h]}
            /\ Holds(v, d, k)
            /\ \A h \in Host : Holds(u, d, h) => Holds(v, d, h)
<1> DEFINE v == LineMerged(u, d, k)
           m == Merged(u, d, k)
<1>1. /\ m \in {u[k], d[k]}
      /\ u[k] # NoEntry => m # NoEntry /\ m.created >= u[k].created
      /\ (d[k] # NoEntry /\ ~Bad(d[k].created, d[k].max_age) /\ ~Shadowed(u, k))
         => m # NoEntry /\ m.created >= d[k].created
  BY MergedOne
<1> HIDE DEF m
<1>2. m \in Entry \cup {NoEntry}
  BY <1>1 DEF Table
<1>3. v \in Table /\ v[k] = m /\ \A h \in Host : h # k => v[h] = u[h]
  BY <1>2 DEF LineMerged, Table, m
<1> HIDE DEF v
<1>4. \A h \in Host : /\ u[h] # NoEntry => u[h].created \in Nat
                      /\ d[h] # NoEntry => d[h].created \in Nat
                      /\ v[h] # NoEntry => v[h].created \in Nat
  BY <1>3 DEF Table, Entry
<1>5. \A h \in Host : u[h] # NoEntry => v[h] # NoEntry /\ v[h].created >= u[h].created
  BY <1>1, <1>3, <1>4
<1>6. ASSUME NEW h \in Host, Shadowed(u, h) PROVE Shadowed(v, h)
  <2>1. \A i \in DOMAIN Supers[h] : Supers[h][i] \in Host
    BY HstsAssumption
  <2> QED
    BY <1>5, <1>6, <2>1 DEF Shadowed
<1>7. Holds(v, d, k)
  BY <1>1, <1>3, <1>6 DEF Holds
<1>8. ASSUME NEW h \in Host, Holds(u, d, h) PROVE Holds(v, d, h)
  BY <1>4, <1>5, <1>6, <1>8 DEF Holds
<1> QED
  BY <1>1, <1>3, <1>7, <1>8 DEF v

(* Merging the whole file keeps every entry of the file that is valid and   *)
(* not hidden, and makes none up.                                           *)
LEMMA MergedAll ==
  ASSUME NEW t \in Table, NEW d \in Table, NEW o \in Orders
  PROVE  LET u == MergeAll(t, d, o)
         IN /\ u \in Table
            /\ \A h \in Host : u[h] \in {t[h], d[h]}
            /\ \A h \in Host : Holds(u, d, h)
<1> DEFINE n == Cardinality(Host)
<1>1. n \in Nat
  BY HstsAssumption, FS_CardinalityType
<1>2. o \in [1 .. n -> Host]
  BY DEF Orders
<1>3. PICK into : into = Merging(t, d, o)
  OBVIOUS
<1>4. MergeAll(t, d, o) = into[n] /\ MergingRule(into, t, d, o)
  BY <1>2, <1>3, MergingSteps DEF MergeAll
<1> DEFINE Good(i) == /\ \A h \in Host : into[i][h] \in {t[h], d[h]}
                      /\ \A j \in 1 .. i : Holds(into[i], d, o[j])
           S == {i \in 0 .. n : Good(i)}
<1>5. into \in [0 .. n -> Table] /\ into[0] = t
      /\ \A i \in 1 .. n :
           into[i] = LineMerged(into[i - 1], d, o[i])
  BY <1>4 DEF MergingRule
<1> HIDE DEF n
<1>6. Good(0)
  BY <1>1, <1>5
<1>7. ASSUME NEW i \in 1 .. n, Good(i - 1) PROVE Good(i)
  <2>1. into[i - 1] \in Table /\ o[i] \in Host
        /\ into[i] = LineMerged(into[i - 1], d, o[i])
    BY <1>1, <1>2, <1>5
  <2>2. /\ \A h \in Host : into[i][h] \in {into[i - 1][h], d[h]}
        /\ Holds(into[i], d, o[i])
        /\ \A h \in Host : Holds(into[i - 1], d, h) => Holds(into[i], d, h)
    <3> DEFINE v == LineMerged(into[i - 1], d, o[i])
    <3>1. \A h \in Host : v[h] \in {into[i - 1][h], d[h]}
      BY <2>1, MergeLine
    <3>2. Holds(v, d, o[i])
      BY <2>1, MergeLine
    <3>3. \A h \in Host : Holds(into[i - 1], d, h) => Holds(v, d, h)
      BY <2>1, MergeLine
    <3> HIDE DEF v
    <3>4. into[i] = v
      BY <2>1 DEF v
    <3> QED
      BY <3>1, <3>2, <3>3, <3>4
  <2>3. \A j \in 1 .. i : j = i \/ j \in 1 .. i - 1
    BY <1>1
  <2>4. \A j \in 1 .. i : Holds(into[i], d, o[j])
    BY <1>1, <1>2, <1>7, <2>2, <2>3
  <2> QED
    BY <1>7, <2>2, <2>4
<1> HIDE DEF Good
<1>8. \A i \in 0 .. n : i \in S
  <2>1. 0 \in S
    BY <1>1, <1>6
  <2>2. \A i \in 1 .. n : i - 1 \in S => i \in S
    BY <1>1, <1>7
  <2> HIDE DEF S
  <2> QED
    BY <1>1, <2>1, <2>2, UpTo
<1>9. Good(n)
  BY <1>1, <1>8
<1>10. \A h \in Host : Holds(into[n], d, h)
  BY <1>9, OrderCovers DEF Good, n
<1> QED
  BY <1>1, <1>4, <1>5, <1>9, <1>10 DEF Good

-----------------------------------------------------------------------------
(* The inductive invariant.                                                *)

\* Every entry of table t was received in a header from its host.
Heard(t) == \A h \in Host : t[h] # NoEntry => <<h, t[h]>> \in heard

Locking == {"locked", "merged", "cut"}

(* Entries come from headers, whoever holds or reads them; the lock is held *)
(* from the merge to the dump; a file opened for writing exists; and what   *)
(* is merged stays merged until the truncation.                             *)
HstsIInv ==
  /\ HstsTypeOK
  /\ Heard(db)
  /\ \A p \in Proc : Heard(table[p])
  /\ \A p \in Proc : at[p] \in Locking => lock = p
  /\ \A p \in Proc : at[p] \in Locking \cup {"save"} => exists
  /\ MergeKeepsOthers

\* The empty table.
LEMMA NothingTable == Nothing \in Table /\ \A h \in Host : Nothing[h] = NoEntry
BY DEF Nothing, Table

\* The invariant holds before any process has opened the database.
LEMMA HstsInitInv == HstsInit => HstsIInv
<1> SUFFICES ASSUME HstsInit PROVE HstsIInv
  OBVIOUS
<1>1. PICK h \in Host, s \in BOOLEAN :
        LET e == [created |-> 1, max_age |-> 1, sub |-> s]
        IN /\ heard = IF exists THEN {<<h, e>>} ELSE {}
           /\ db = IF exists THEN [Nothing EXCEPT ![h] = e] ELSE Nothing
  BY DEF HstsInit
<1> DEFINE e == [created |-> 1, max_age |-> 1, sub |-> s]
<1>2. e \in Entry
  BY DEF Entry
<1> HIDE DEF e
<1>3. heard = (IF exists THEN {<<h, e>>} ELSE {})
      /\ db = (IF exists THEN [Nothing EXCEPT ![h] = e] ELSE Nothing)
  BY <1>1 DEF e
<1>4. db \in Table /\ heard \subseteq Host \X Entry
  BY <1>2, <1>3, NothingTable DEF Table
<1>5. Heard(db)
  BY <1>3, NothingTable DEF Heard, Table
<1>6. \A p \in Proc : Heard(table[p]) /\ at[p] = "off"
  BY NothingTable DEF HstsInit, Heard
<1>7. HstsTypeOK
  <2>1. NoUrl \in [host : Host, scheme : {"http", "https"}]
    BY DEF NoUrl
  <2> QED
    BY <1>4, <2>1, NothingTable DEF HstsInit, HstsTypeOK, Control
<1>8. MergeKeepsOthers
  BY <1>6 DEF MergeKeepsOthers
<1> QED
  BY <1>4, <1>5, <1>6, <1>7, <1>8 DEF HstsIInv, Locking

-----------------------------------------------------------------------------
(* What the steps do to the entries.                                       *)

\* Reading the file takes entries over or drops them, and makes none up.
LEMMA ReadKeeps ==
  ASSUME NEW d \in Table
  PROVE  ReadAll(d) \in Table /\ \A h \in Host : ReadAll(d)[h] \in {d[h], NoEntry}
BY DEF ReadAll, Table

\* The entry that a header received now makes.
FreshEntry(a, s) == [created |-> now, max_age |-> a, sub |-> s]

\* A header leaves the entry, replaces it by a fresh one, or removes it.
LEMMA StoredIs ==
  ASSUME HstsTypeOK, NEW t \in Table, NEW h \in Host, NEW a \in Ages, NEW s \in BOOLEAN
  PROVE  /\ FreshEntry(a, s) \in Entry
         /\ Stored(t, h, a, s) \in {t[h], FreshEntry(a, s), NoEntry}
<1>1. FreshEntry(a, s) \in Entry
  BY HstsAssumption DEF FreshEntry, Entry, HstsTypeOK
<1>2. Stored(t, h, a, s) \in {t[h], FreshEntry(a, s), NoEntry}
  BY DEF Stored, FreshEntry
<1> QED
  BY <1>1, <1>2

(* The end of a process leaves nothing of it behind.                        *)
LEMMA GoneIs ==
  ASSUME HstsTypeOK, NEW p \in Proc, Gone(p)
  PROVE  /\ table' \in [Proc -> Table] /\ last_mtime' \in [Proc -> Nat]
         /\ changed' \in [Proc -> BOOLEAN]
         /\ url' \in [Proc -> [host : Host, scheme : {"http", "https"}]]
         /\ table'[p] = Nothing
         /\ \A q \in Proc : q # p => table'[q] = table[q] /\ last_mtime'[q] = last_mtime[q]
<1>1. url[p].host \in Host
  BY DEF HstsTypeOK
<1>2. NoUrl \in [host : Host, scheme : {"http", "https"}]
  BY <1>1 DEF NoUrl
<1> QED
  BY <1>2, NothingTable DEF Gone, HstsTypeOK

\* Every step of every process keeps the types.
LEMMA HstsTypeStep == HstsTypeOK /\ HstsNext => HstsTypeOK'
<1> SUFFICES ASSUME HstsTypeOK, HstsNext PROVE HstsTypeOK'
  OBVIOUS
<1> USE DEF fileVars, storeVars
<1>1. CASE Tick
  BY <1>1 DEF Tick, HstsTypeOK, Table
<1>2. ASSUME NEW p \in Proc, Step(p) \/ Die(p) PROVE HstsTypeOK'
  <2>1. \A to \in Control : [at EXCEPT ![p] = to] \in [Proc -> Control]
    BY DEF HstsTypeOK
  <2>2. CASE OpenStore(p)
    BY <2>1, <2>2 DEF OpenStore, Goto, HstsTypeOK, Control, Table
  <2>3. CASE ReadDatabase(p)
    BY <2>1, <2>3, ReadKeeps DEF ReadDatabase, Goto, HstsTypeOK, Control
  <2>4. CASE StatDatabase(p)
    BY <2>1, <2>4 DEF StatDatabase, Goto, HstsTypeOK, Control, Table
  <2>5. CASE StartUrl(p)
    BY <2>1, <2>5 DEF StartUrl, Goto, HstsTypeOK, Control, Table
  <2>6. CASE hsts_match(p)
    <3> DEFINE h == url[p].host
    <3>1. h \in Host /\ table[p] \in Table
      BY DEF HstsTypeOK
    <3>2. [table EXCEPT ![p][h] = NoEntry] \in [Proc -> Table]
      BY <3>1 DEF HstsTypeOK, Table
    <3>3. [url EXCEPT ![p].scheme = "https"]
            \in [Proc -> [host : Host, scheme : {"http", "https"}]]
      BY DEF HstsTypeOK
    <3>4. /\ table' \in {table, [table EXCEPT ![p][h] = NoEntry]}
          /\ url' \in {url, [url EXCEPT ![p].scheme = "https"]}
          /\ \E b : changed' = [changed EXCEPT ![p] = b] /\ b \in BOOLEAN
          /\ at' = [at EXCEPT ![p] = "reply"]
          /\ UNCHANGED <<now, db, mtime, lock, last_mtime, urls, heard>>
      BY <2>6 DEF hsts_match, Goto
    <3> HIDE DEF h
    <3>5. table' \in [Proc -> Table]
      BY <3>2, <3>4 DEF HstsTypeOK
    <3>6. url' \in [Proc -> [host : Host, scheme : {"http", "https"}]]
      BY <3>3, <3>4 DEF HstsTypeOK
    <3>7. changed' \in [Proc -> BOOLEAN]
      BY <3>4, ZenonT(30) DEF HstsTypeOK
    <3>8. at' \in [Proc -> Control]
      BY <2>1, <3>4 DEF Control
    <3> QED
      BY <3>4, <3>5, <3>6, <3>7, <3>8, Zenon DEF HstsTypeOK
  <2>7. CASE PlainReply(p)
    BY <2>1, <2>7 DEF PlainReply, Goto, HstsTypeOK, Control, Table
  <2>8. CASE HstsReply(p)
    <3>1. url[p].host \in Host /\ table[p] \in Table
      BY DEF HstsTypeOK
    <3>2. PICK a \in Ages, s \in BOOLEAN :
            /\ table' = [table EXCEPT ![p][url[p].host] = Stored(table[p], url[p].host, a, s)]
            /\ changed' = [changed EXCEPT ![p] =
                 @ \/ Stored(table[p], url[p].host, a, s) # table[p][url[p].host]]
            /\ heard' = heard \cup {<<url[p].host, FreshEntry(a, s)>>}
      BY <2>8 DEF HstsReply, FreshEntry
    <3>3. /\ FreshEntry(a, s) \in Entry
          /\ Stored(table[p], url[p].host, a, s) \in Entry \cup {NoEntry}
      BY <3>1, StoredIs DEF Table
    <3>4. table' \in [Proc -> Table]
      BY <3>2, <3>3 DEF HstsTypeOK, Table
    <3>5. heard' \subseteq Host \X Entry
      BY <3>1, <3>2, <3>3 DEF HstsTypeOK
    <3>6. changed' \in [Proc -> BOOLEAN]
      BY <3>2 DEF HstsTypeOK
    <3> QED
      BY <2>1, <2>8, <3>4, <3>5, <3>6 DEF HstsReply, Goto, HstsTypeOK, Control
  <2>9. CASE CloseStore(p)
    BY <2>1, <2>9, GoneIs DEF CloseStore, Goto, HstsTypeOK, Control
  <2>10. CASE OpenForSave(p)
    BY <2>1, <2>10 DEF OpenForSave, Goto, HstsTypeOK, Control, Table
  <2>11. CASE Flock(p)
    BY <2>1, <2>11 DEF Flock, Goto, HstsTypeOK, Control, Table
  <2>12. CASE MergeDatabase(p)
    <3>1. table' \in [Proc -> Table]
      <4>1. CASE LooksChanged(p)
        <5>1. PICK o \in Orders : table' = [table EXCEPT ![p] = MergeAll(table[p], db, o)]
          BY <2>12, <4>1 DEF MergeDatabase
        <5>2. table[p] \in Table /\ db \in Table
          BY DEF HstsTypeOK
        <5>3. MergeAll(table[p], db, o) \in Table
          BY <5>2, MergedAll
        <5> QED
          BY <5>1, <5>3 DEF HstsTypeOK
      <4>2. CASE ~LooksChanged(p)
        BY <2>12, <4>2 DEF MergeDatabase, HstsTypeOK
      <4> QED
        BY <4>1, <4>2
    <3> QED
      BY <2>1, <2>12, <3>1 DEF MergeDatabase, Goto, HstsTypeOK, Control
  <2>13. CASE Truncate(p)
    BY <2>1, <2>13, NothingTable DEF Truncate, Goto, HstsTypeOK, Control
  <2>14. CASE Dump(p)
    BY <2>1, <2>14, GoneIs DEF Dump, Goto, HstsTypeOK, Control
  <2>15. CASE Die(p)
    BY <2>1, <2>15, GoneIs DEF Die, HstsTypeOK, Control
  <2> QED
    BY <1>2, <2>2, <2>3, <2>4, <2>5, <2>6, <2>7, <2>8, <2>9, <2>10, <2>11, <2>12,
       <2>13, <2>14, <2>15 DEF Step
<1> QED
  BY <1>1, <1>2 DEF HstsNext

(* No step makes an entry up: what a table or the file holds afterwards for *)
(* a host was in a table or in the file before, or has just been heard.     *)
LEMMA HeardStep ==
  ASSUME HstsIInv, HstsNext
  PROVE  Heard(db)' /\ \A q \in Proc : Heard(table[q])'
<1> USE DEF fileVars, storeVars
<1>1. HstsTypeOK /\ Heard(db) /\ \A q \in Proc : Heard(table[q])
  BY DEF HstsIInv
<1>2. table \in [Proc -> Table] /\ db \in Table
  BY <1>1 DEF HstsTypeOK
<1>3. CASE Tick
  BY <1>1, <1>3 DEF Tick, Heard
<1>4. ASSUME NEW p \in Proc, Step(p) \/ Die(p)
      PROVE  Heard(db)' /\ \A q \in Proc : Heard(table[q])'
  \* The steps that leave the headers, the file and the other tables alone.
  <2>1. ASSUME heard' = heard, db' = db, \A q \in Proc : q # p => table'[q] = table[q],
               \A h \in Host : table'[p][h] \in {table[p][h], db[h], NoEntry}
        PROVE  Heard(db)' /\ \A q \in Proc : Heard(table[q])'
    BY <1>1, <2>1 DEF Heard
  <2>2. CASE OpenStore(p) \/ StatDatabase(p) \/ StartUrl(p) \/ PlainReply(p) \/ OpenForSave(p)
             \/ Flock(p)
    BY <2>1, <2>2 DEF OpenStore, StatDatabase, StartUrl, PlainReply, OpenForSave, Flock
  <2>3. CASE ReadDatabase(p)
    BY <1>2, <2>1, <2>3, ReadKeeps DEF ReadDatabase
  <2>4. CASE hsts_match(p)
    <3>1. /\ table' \in {table, [table EXCEPT ![p][url[p].host] = NoEntry]}
          /\ db' = db /\ heard' = heard
      BY <2>4 DEF hsts_match
    <3>2. url[p].host \in Host
      BY <1>1 DEF HstsTypeOK
    <3> QED
      BY <1>2, <2>1, <3>1, <3>2 DEF Table
  <2>5. CASE HstsReply(p)
    <3> DEFINE h0 == url[p].host
    <3>1. h0 \in Host /\ table[p] \in Table
      BY <1>1 DEF HstsTypeOK
    <3>2. PICK a \in Ages, s \in BOOLEAN :
            /\ table' = [table EXCEPT ![p][h0] = Stored(table[p], h0, a, s)]
            /\ heard' = heard \cup {<<h0, FreshEntry(a, s)>>}
      BY <2>5 DEF HstsReply, FreshEntry
    <3>3. Stored(table[p], h0, a, s) \in {table[p][h0], FreshEntry(a, s), NoEntry}
      BY <1>1, <3>1, StoredIs
    <3>4. db' = db
      BY <2>5 DEF HstsReply
    <3> HIDE DEF h0
    <3>5. ASSUME NEW q \in Proc, NEW h \in Host, table'[q][h] # NoEntry
          PROVE  <<h, table'[q][h]>> \in heard'
      <4>1. CASE q = p /\ h = h0
        <5>1. table'[q][h] = Stored(table[p], h0, a, s)
          BY <1>2, <3>1, <3>2, <4>1 DEF Table
        <5> QED
          BY <1>1, <3>1, <3>2, <3>3, <3>5, <4>1, <5>1 DEF Heard
      <4>2. CASE ~(q = p /\ h = h0)
        <5>1. table'[q][h] = table[q][h]
          BY <1>2, <3>1, <3>2, <4>2 DEF Table
        <5> QED
          BY <1>1, <3>2, <3>5, <5>1 DEF Heard
      <4> QED
        BY <4>1, <4>2
    <3>6. Heard(db)'
      BY <1>1, <3>2, <3>4 DEF Heard
    <3> QED
      BY <3>5, <3>6 DEF Heard
  <2>6. CASE MergeDatabase(p)
    <3>1. db' = db /\ heard' = heard
      BY <2>6 DEF MergeDatabase
    <3>2. CASE LooksChanged(p)
      <4>1. PICK o \in Orders : table' = [table EXCEPT ![p] = MergeAll(table[p], db, o)]
        BY <2>6, <3>2 DEF MergeDatabase
      <4>2. \A h \in Host : MergeAll(table[p], db, o)[h] \in {table[p][h], db[h]}
        BY <1>2, MergedAll
      <4> QED
        BY <1>2, <2>1, <3>1, <4>1, <4>2
    <3>3. CASE ~LooksChanged(p)
      BY <2>1, <2>6, <3>1, <3>3 DEF MergeDatabase
    <3> QED
      BY <3>2, <3>3
  <2>7. CASE CloseStore(p) \/ Die(p)
    <3>1. Gone(p) /\ db' = db /\ heard' = heard
      BY <2>7 DEF CloseStore, Die
    <3> QED
      BY <1>1, <2>1, <3>1, GoneIs, NothingTable
  <2>8. CASE Truncate(p)
    BY <1>1, <2>8, NothingTable DEF Truncate, Heard
  <2>9. CASE Dump(p)
    <3>1. Gone(p) /\ db' = table[p] /\ heard' = heard
      BY <2>9 DEF Dump
    <3>2. /\ table'[p] = Nothing
          /\ \A q \in Proc : q # p => table'[q] = table[q]
      BY <1>1, <3>1, GoneIs
    <3>3. Heard(db)'
      BY <1>1, <3>1 DEF Heard
    <3> QED
      BY <1>1, <3>1, <3>2, <3>3, NothingTable DEF Heard
  <2> QED
    BY <1>4, <2>2, <2>3, <2>4, <2>5, <2>6, <2>7, <2>8, <2>9 DEF Step
<1> QED
  BY <1>3, <1>4 DEF HstsNext

(* The lock keeps the critical section of hsts_store_save to one process.   *)
LEMMA LockStep ==
  ASSUME HstsIInv, HstsNext
  PROVE  /\ \A q \in Proc : at'[q] \in Locking => lock' = q
         /\ \A q \in Proc : at'[q] \in Locking \cup {"save"} => exists'
<1> USE DEF fileVars, storeVars, Locking
<1>1. /\ at \in [Proc -> Control]
      /\ \A q \in Proc : at[q] \in Locking => lock = q
      /\ \A q \in Proc : at[q] \in Locking \cup {"save"} => exists
  BY DEF HstsIInv, HstsTypeOK
<1>2. CASE Tick
  BY <1>1, <1>2 DEF Tick
<1>3. ASSUME NEW p \in Proc, Step(p) \/ Die(p)
      PROVE  /\ \A q \in Proc : at'[q] \in Locking => lock' = q
             /\ \A q \in Proc : at'[q] \in Locking \cup {"save"} => exists'
  <2>0. NoProc \notin Proc
    BY HstsAssumption
  <2>1. CASE OpenStore(p)
    BY <1>1, <2>1 DEF OpenStore, Goto
  <2>2. CASE ReadDatabase(p) \/ StatDatabase(p) \/ StartUrl(p) \/ hsts_match(p)
             \/ PlainReply(p) \/ HstsReply(p)
    BY <1>1, <2>2 DEF ReadDatabase, StatDatabase, StartUrl, hsts_match, PlainReply,
       HstsReply, Goto
  <2>3. CASE CloseStore(p) \/ OpenForSave(p)
    BY <1>1, <2>3 DEF CloseStore, OpenForSave, Goto
  <2>4. CASE Flock(p)
    BY <1>1, <2>0, <2>4 DEF Flock, Goto
  <2>5. CASE MergeDatabase(p) \/ Truncate(p)
    BY <1>1, <2>5 DEF MergeDatabase, Truncate, Goto
  <2>6. CASE Dump(p)
    BY <1>1, <2>6 DEF Dump, Goto
  <2>7. CASE Die(p)
    BY <1>1, <2>7 DEF Die
  <2> QED
    BY <1>3, <2>1, <2>2, <2>3, <2>4, <2>5, <2>6, <2>7 DEF Step
<1> QED
  BY <1>2, <1>3 DEF HstsNext

\* Nothing that MergeKeepsOthers says of process q has changed.
Untouched(q) ==
  /\ at[q] = "merged"
  /\ table'[q] = table[q] /\ last_mtime'[q] = last_mtime[q]
  /\ UNCHANGED <<folds, db, mtime>>

(* Between its merge and its truncation a process has the file to itself.   *)
LEMMA MergedFrame ==
  ASSUME HstsIInv, HstsNext, NEW q \in Proc, at'[q] = "merged"
  PROVE  Untouched(q) \/ MergeDatabase(q)
<1> USE DEF fileVars, storeVars
<1>1. /\ HstsTypeOK /\ at \in [Proc -> Control]
      /\ table \in [Proc -> Table] /\ last_mtime \in [Proc -> Nat]
      /\ \A p \in Proc : at[p] \in Locking => lock = p
      /\ \A p \in Proc : at[p] \in Locking \cup {"save"} => exists
  BY DEF HstsIInv, HstsTypeOK
<1>2. CASE Tick
  BY <1>2 DEF Tick, Untouched
<1>3. ASSUME NEW p \in Proc, Step(p) \/ Die(p)
      PROVE  Untouched(q) \/ MergeDatabase(q)
  <2>1. CASE p = q
    BY <1>1, <1>3, <2>1
       DEF Step, Die, OpenStore, ReadDatabase, StatDatabase, StartUrl, hsts_match, PlainReply,
           HstsReply, CloseStore, OpenForSave, Flock, Truncate, Dump, Goto
  <2>2. CASE p # q
    <3>1. at'[q] = at[q]
      BY <1>1, <1>3, <2>2
         DEF Step, Die, OpenStore, ReadDatabase, StatDatabase, StartUrl, hsts_match, PlainReply,
             HstsReply, CloseStore, OpenForSave, Flock, MergeDatabase, Truncate, Dump, Goto
    <3>2. at[q] = "merged" /\ lock = q /\ exists /\ at[p] \notin Locking
      BY <1>1, <2>2, <3>1 DEF Locking
    <3>3. CASE OpenStore(p) \/ ReadDatabase(p) \/ StatDatabase(p) \/ StartUrl(p)
               \/ PlainReply(p) \/ OpenForSave(p) \/ Flock(p)
      BY <1>1, <2>2, <3>2, <3>3 DEF OpenStore, ReadDatabase, StatDatabase, StartUrl,
         PlainReply, OpenForSave, Flock, Untouched
    <3>4. CASE hsts_match(p)
      <4>1. /\ table' \in {table, [table EXCEPT ![p][url[p].host] = NoEntry]}
            /\ UNCHANGED <<last_mtime, folds, db, mtime>>
        BY <3>4 DEF hsts_match
      <4> QED
        BY <1>1, <2>2, <3>2, <4>1 DEF Untouched
    <3>5. CASE HstsReply(p)
      <4>1. /\ \E e : table' = [table EXCEPT ![p][url[p].host] = e]
            /\ UNCHANGED <<last_mtime, folds, db, mtime>>
        BY <3>5 DEF HstsReply
      <4> QED
        BY <1>1, <2>2, <3>2, <4>1 DEF Untouched
    <3>6. CASE CloseStore(p) \/ Die(p)
      <4>1. Gone(p) /\ UNCHANGED <<folds, db, mtime>>
        BY <3>6 DEF CloseStore, Die
      <4> QED
        BY <1>1, <2>2, <3>2, <4>1, GoneIs DEF Untouched
    <3>7. ~(MergeDatabase(p) \/ Truncate(p) \/ Dump(p))
      BY <3>2 DEF MergeDatabase, Truncate, Dump, Goto, Locking
    <3> QED
      BY <1>3, <3>3, <3>4, <3>5, <3>6, <3>7 DEF Step
  <2> QED
    BY <2>1, <2>2
<1> QED
  BY <1>2, <1>3 DEF HstsNext

\* What a merge has taken over stays until the file is truncated.
LEMMA KeepsStep ==
  ASSUME HstsIInv, HstsNext
  PROVE  MergeKeepsOthers'
<1> SUFFICES ASSUME NEW q \in Proc, NEW h \in Host,
                    at'[q] = "merged", LooksChanged(q)',
                    db'[h] # NoEntry, ~Bad(db[h].created, db[h].max_age)',
                    ~Shadowed(table[q], h)'
             PROVE  table'[q][h] # NoEntry /\ table'[q][h].created >= db'[h].created
  BY DEF MergeKeepsOthers
<1>1. /\ table \in [Proc -> Table] /\ db \in Table
      /\ MergeKeepsOthers
  BY DEF HstsIInv, HstsTypeOK
<1>2. CASE Untouched(q)
  <2>1. LooksChanged(q) /\ ~Bad(db[h].created, db[h].max_age) /\ ~Shadowed(table[q], h)
    BY <1>2 DEF Untouched, LooksChanged, Bad, Shadowed
  <2> QED
    BY <1>1, <1>2, <2>1 DEF Untouched, MergeKeepsOthers
<1>3. CASE MergeDatabase(q)
  <2>1. UNCHANGED <<folds, db, mtime, last_mtime>>
    BY <1>3 DEF MergeDatabase, fileVars
  <2>2. LooksChanged(q) /\ ~Bad(db[h].created, db[h].max_age)
    BY <2>1 DEF LooksChanged, Bad
  <2>3. PICK o \in Orders : table' = [table EXCEPT ![q] = MergeAll(table[q], db, o)]
    BY <1>3, <2>2 DEF MergeDatabase
  <2> DEFINE u == MergeAll(table[q], db, o)
  <2>4. Holds(u, db, h)
    BY <1>1, MergedAll
  <2> HIDE DEF u
  <2>5. table'[q] = u
    BY <1>1, <2>3 DEF u
  <2>6. ~Shadowed(u, h)
    BY <2>5 DEF Shadowed
  <2>7. u[h] # NoEntry /\ u[h].created >= db[h].created
    BY <2>1, <2>2, <2>4, <2>6 DEF Holds
  <2> QED
    BY <2>1, <2>5, <2>7
<1> QED
  BY <1>2, <1>3, MergedFrame

\* A stuttering step keeps the invariant.
LEMMA HstsStutter ==
  ASSUME HstsIInv, UNCHANGED hstsVars
  PROVE  HstsIInv'
<1> USE DEF hstsVars, fileVars, storeVars
<1>1. HstsTypeOK'
  BY DEF HstsIInv, HstsTypeOK
<1>2. Heard(db)' /\ \A p \in Proc : Heard(table[p])'
  BY DEF HstsIInv, Heard
<1>3. MergeKeepsOthers'
  BY DEF HstsIInv, MergeKeepsOthers, LooksChanged, Bad, Shadowed
<1> QED
  BY <1>1, <1>2, <1>3 DEF HstsIInv

-----------------------------------------------------------------------------
(* The theorems.                                                           *)

(* The inductive invariant of the processes that share the database.        *)
THEOREM HstsInvariant == HstsSpec => []HstsIInv
<1>1. HstsIInv /\ [HstsNext]_hstsVars => HstsIInv'
  <2>1. ASSUME HstsIInv, HstsNext PROVE HstsIInv'
    <3>1. HstsTypeOK'
      BY <2>1, HstsTypeStep DEF HstsIInv
    <3> QED
      BY <2>1, <3>1, HeardStep, LockStep, KeepsStep DEF HstsIInv
  <2> QED
    BY <2>1, HstsStutter
<1> QED
  BY <1>1, HstsInitInv, PTL DEF HstsSpec

(* hsts_store_save loses nothing that others saved in a later second than   *)
(* the one in which it took the file's time, however many processes share   *)
(* the file and wherever they die.                                          *)
THEOREM SavesAreMerged == HstsSpec => []MergeKeepsOthers
<1>1. HstsIInv => MergeKeepsOthers
  BY DEF HstsIInv
<1> QED
  BY <1>1, HstsInvariant, PTL

\* What UpgradeJustified asks of a step.
Justified ==
  \A p \in Proc :
    at[p] = "match" /\ url[p].scheme = "http" /\ url'[p].scheme = "https"
    => \E x \in heard :
         /\ x[2].created + x[2].max_age >= now
         /\ \/ x[1] = url[p].host
            \/ x[2].sub /\ \E i \in DOMAIN Supers[url[p].host] :
                             Supers[url[p].host][i] = x[1]

(* An entry whose end has not been reached in time_t has not ended: a sum   *)
(* that overflows only ever makes an entry end earlier.                     *)
LEMMA UnexpiredHolds ==
  ASSUME HstsTypeOK, NEW e \in Entry, Unexpired(e)
  PROVE  e.created + e.max_age >= now
<1>1. e.created \in Nat /\ e.max_age \in Int /\ now \in Nat /\ IntMax \in Nat
  BY HstsAssumption DEF Entry, HstsTypeOK
<1> QED
  BY <1>1 DEF Unexpired, Wrap

\* A step from http to https finds an unexpired entry that was heard.
LEMMA UpgradeStep ==
  ASSUME HstsIInv, HstsNext
  PROVE  Justified
<1> USE DEF fileVars, storeVars
<1> SUFFICES ASSUME NEW p \in Proc, at[p] = "match",
                    url[p].scheme = "http", url'[p].scheme = "https"
             PROVE  \E x \in heard :
                      /\ x[2].created + x[2].max_age >= now
                      /\ \/ x[1] = url[p].host
                         \/ x[2].sub /\ \E i \in DOMAIN Supers[url[p].host] :
                                          Supers[url[p].host][i] = x[1]
  BY DEF Justified
<1> DEFINE h == url[p].host
           t == table[p]
           f == find_entry(t, h)
<1>1. /\ HstsTypeOK /\ Heard(t) /\ h \in Host /\ t \in Table
      /\ url \in [Proc -> [host : Host, scheme : {"http", "https"}]]
  BY DEF HstsIInv, HstsTypeOK
<1>2. hsts_match(p)
  <2>1. ~Tick
    BY DEF Tick
  <2>2. PICK q \in Proc : Step(q) \/ Die(q)
    BY <2>1 DEF HstsNext
  <2>3. q = p
    BY <1>1, <2>2 DEF Step, Die, Gone, OpenStore, ReadDatabase, StatDatabase, StartUrl,
       hsts_match, PlainReply, HstsReply, CloseStore, OpenForSave, Flock, MergeDatabase,
       Truncate, Dump
  <2>4. ~Die(p)
    BY <1>1 DEF Die, Gone, NoUrl
  <2> QED
    BY <2>2, <2>3, <2>4
       DEF Step, OpenStore, ReadDatabase, StatDatabase, StartUrl, PlainReply,
           HstsReply, CloseStore, OpenForSave, Flock, MergeDatabase, Truncate, Dump, Goto
<1>3. f.khi # NoEntry /\ Unexpired(f.khi) /\ f.match # "none"
  BY <1>1, <1>2 DEF hsts_match
<1>4. /\ f.match = "congruent" => f.khi = t[h]
      /\ f.match = "superdomain" =>
           \E i \in DOMAIN Supers[h] :
             /\ f.khi = t[Supers[h][i]] /\ f.khi # NoEntry /\ f.khi.sub
      /\ f.match \in {"congruent", "superdomain", "none"}
  BY <1>1, FindEntry
<1> HIDE DEF f, t, h
<1>5. CASE f.match = "congruent"
  <2>1. <<h, f.khi>> \in heard /\ f.khi \in Entry
    BY <1>1, <1>3, <1>4, <1>5 DEF Heard, Table
  <2>2. f.khi.created + f.khi.max_age >= now
    BY <1>1, <1>3, <2>1, UnexpiredHolds
  <2> QED
    BY <2>1, <2>2 DEF h
<1>6. CASE f.match = "superdomain"
  <2>1. PICK i \in DOMAIN Supers[h] :
          f.khi = t[Supers[h][i]] /\ f.khi # NoEntry /\ f.khi.sub
    BY <1>4, <1>6
  <2>2. Supers[h][i] \in Host
    BY <1>1, HstsAssumption
  <2>3. <<Supers[h][i], f.khi>> \in heard /\ f.khi \in Entry
    BY <1>1, <2>1, <2>2 DEF Heard, Table
  <2>4. f.khi.created + f.khi.max_age >= now
    BY <1>1, <1>3, <2>3, UnexpiredHolds
  <2> QED
    BY <2>1, <2>3, <2>4 DEF h
<1> QED
  BY <1>3, <1>4, <1>5, <1>6

(* A URL becomes https only because of a header that was received from its  *)
(* host, or from a covering superdomain, and whose age has not passed.      *)
THEOREM UpgradesAreJustified == HstsSpec => UpgradeJustified
<1>1. HstsIInv /\ [HstsNext]_hstsVars => [Justified]_hstsVars
  BY UpgradeStep
<1> QED
  BY <1>1, HstsInvariant, PTL DEF HstsSpec, UpgradeJustified, Justified
=============================================================================
