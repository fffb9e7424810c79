------------------------------- MODULE WgetHash -------------------------------
(***************************************************************************)
(* The hash tables of wget (userland/wget/src/hash.c): open addressing     *)
(* with linear probing.  There are no tombstones: a removal rehashes the   *)
(* run of cells that follows.  find_cell stops only at an empty cell or at *)
(* the key, so both its end and its answer rest on where every entry lies. *)
(*                                                                         *)
(* An operation runs to its end before the next, so each is one action;    *)
(* hash_table_for_each calls back into the table and is one action for     *)
(* each call of its function.                                              *)
(***************************************************************************)
EXTENDS Naturals, FiniteSets, Sequences

CONSTANTS
  Key,       \* keys that the test function tells apart
  Value,
  Hash,      \* the hash function, before it is reduced to a position
  Primes,    \* the table of prime_size
  Items,     \* the argument of hash_table_new
  Free       \* INVALID_PTR: the key of an empty cell

\* Threshold(n) is (int) (n * HASH_MAX_FULLNESS), a table of n cells grows
\* when it holds that many entries.
Threshold(n) == (3 * n) \div 4

\* prime_size: the first prime from the given offset that is large enough.
Suitable(n, from) == {i \in from .. Len(Primes) : Primes[i] >= n}
LeastOf(S) == CHOOSE i \in S : \A j \in S : i <= j

\* hash_table_new asks for (int) (1 + items / HASH_MAX_FULLNESS) cells.
NewSize(items) == 1 + (4 * items) \div 3

ASSUME HashAssumption ==
  /\ Hash \in [Key -> Nat]
  /\ Items \in Nat
  /\ Free \notin Key
  /\ Primes \in Seq(Nat)
  /\ \A i \in DOMAIN Primes : Primes[i] > 1
  /\ Suitable(NewSize(Items), 1) # {}

VARIABLES
  size,          \* number of cells
  cells,         \* [0 .. size - 1 -> a cell]
  count,         \* number of occupied entries
  prime_offset,  \* where prime_size goes on in Primes
  looping,       \* hash_table_for_each is running
  iter,          \* for_each: the cell it is at
  seen,          \* for_each: the keys its function was called with
  aborted        \* prime_size ran out of primes and called abort

hashVars == <<size, cells, count, prime_offset, looping, iter, seen, aborted>>

Cell == [key : Key \cup {Free}, value : Value \cup {Free}]
EMPTY == [key |-> Free, value |-> Free]

-----------------------------------------------------------------------------
CELL_OCCUPIED(t, c) == t[c].key # Free

\* The n cells from key k's own position onwards, wrapping round.
HASH_POSITION(k, n) == Hash[k] % n
Probe(k, n, d) == (HASH_POSITION(k, n) + d) % n

\* FOREACH_OCCUPIED_ADJACENT from k's own position: the first cell of table t
\* that is empty or holds k itself.
find_cell(t, n, k) ==
  Probe(k, n, LeastOf({d \in 0 .. n - 1 : t[Probe(k, n, d)].key \in {k, Free}}))

contains(k) == CELL_OCCUPIED(cells, find_cell(cells, size, k))
get(k) == cells[find_cell(cells, size, k)].value

\* What a table of n cells holds once the first i of the m cells of t have
\* been entered into it.
Rehashing(t, m, n) ==
  LET into[i \in 0 .. m] ==
        IF i = 0 THEN [c \in 0 .. n - 1 |-> EMPTY]
        ELSE IF ~CELL_OCCUPIED(t, i - 1) THEN into[i - 1]
        ELSE [into[i - 1] EXCEPT ![find_cell(into[i - 1], n, t[i - 1].key)] = t[i - 1]]
  IN into

Rehashed(t, m, n) == Rehashing(t, m, n)[m]

\* Mutant: the rest of the run is left where it is.
ClosedNot(t, n, c) == t

\* The entry at x is moved to the first free cell of its own probe sequence,
\* unless it is met there.
Resettled(t, n, x) ==
  LET to == find_cell(t, n, t[x].key)
  IN IF to = x THEN t ELSE [t EXCEPT ![to] = t[x], ![x] = EMPTY]

Behind(c, i, n) == (c + i) % n

\* The loop of hash_table_remove after the cell at c has been cleared, i cells
\* on: every entry of the run behind c is resettled; at an empty cell the
\* loop is over.
Closing(t, n, c) ==
  LET run[i \in 0 .. n - 1] ==
        IF i = 0 THEN [tab |-> t, over |-> FALSE]
        ELSE IF run[i - 1].over \/ ~CELL_OCCUPIED(run[i - 1].tab, Behind(c, i, n))
        THEN [tab |-> run[i - 1].tab, over |-> TRUE]
        ELSE [tab |-> Resettled(run[i - 1].tab, n, Behind(c, i, n)), over |-> FALSE]
  IN run

Closed(t, n, c) == Closing(t, n, c)[n - 1].tab

-----------------------------------------------------------------------------
hash_table_new ==
  LET i == LeastOf(Suitable(NewSize(Items), 1))
  IN /\ size = Primes[i]
     /\ cells = [c \in 0 .. size - 1 |-> EMPTY]
     /\ prime_offset = i + 1
     /\ count = 0

HashInit ==
  /\ hash_table_new
  /\ looping = FALSE
  /\ iter = 0
  /\ seen = {}
  /\ aborted = FALSE

\* hash_table_put of a key that is there: key and value are overwritten.
Update(k, v) ==
  /\ contains(k)
  /\ cells' = [cells EXCEPT ![find_cell(cells, size, k)] = [key |-> k, value |-> v]]
  /\ UNCHANGED <<size, count, prime_offset>>

MustGrow == count >= Threshold(size)

\* The new entry goes where the probing ended.
Insert(k, v) ==
  /\ ~contains(k)
  /\ ~MustGrow
  /\ cells' = [cells EXCEPT ![find_cell(cells, size, k)] = [key |-> k, value |-> v]]
  /\ count' = count + 1
  /\ UNCHANGED <<size, prime_offset>>

\* Mutant: the cell found before the table has grown is used.
InsertStale(k, v) ==
  /\ ~contains(k)
  /\ MustGrow
  /\ Suitable(2 * size, prime_offset) # {}
  /\ LET i == LeastOf(Suitable(2 * size, prime_offset))
         t == Rehashed(cells, size, Primes[i])
     IN /\ size' = Primes[i]
        /\ cells' = [t EXCEPT ![find_cell(cells, size, k)] = [key |-> k, value |-> v]]
        /\ prime_offset' = i + 1
  /\ count' = count + 1

\* grow_hash_table (twice the cells, rounded up to a prime), and then the
\* new entry after a second search.
InsertGrown(k, v) ==
  /\ ~contains(k)
  /\ MustGrow
  /\ Suitable(2 * size, prime_offset) # {}
  /\ LET i == LeastOf(Suitable(2 * size, prime_offset))
         t == Rehashed(cells, size, Primes[i])
     IN /\ size' = Primes[i]
        /\ cells' = [t EXCEPT ![find_cell(t, Primes[i], k)] = [key |-> k, value |-> v]]
        /\ prime_offset' = i + 1
  /\ count' = count + 1

hash_table_put(k, v) == Update(k, v) \/ Insert(k, v) \/ InsertGrown(k, v)

hash_table_remove(k) ==
  /\ contains(k)
  /\ LET c == find_cell(cells, size, k)
     IN cells' = Closed([cells EXCEPT ![c] = EMPTY], size, c)
  /\ count' = count - 1
  /\ UNCHANGED <<size, prime_offset>>

hash_table_clear ==
  /\ cells' = [c \in 0 .. size - 1 |-> EMPTY]
  /\ count' = 0
  /\ UNCHANGED <<size, prime_offset>>

-----------------------------------------------------------------------------
(* Calls from outside, and the traversal.                                  *)

Call ==
  /\ ~aborted
  /\ ~looping
  /\ \/ \E k \in Key, v \in Value : hash_table_put(k, v)
     \/ \E k \in Key : hash_table_remove(k)
     \/ count > 0 /\ hash_table_clear
  /\ UNCHANGED <<looping, iter, seen, aborted>>

\* prime_size finds no prime that is large enough.
Abort ==
  /\ ~aborted
  /\ ~looping
  /\ \E k \in Key : ~contains(k)
  /\ MustGrow
  /\ Suitable(2 * size, prime_offset) = {}
  /\ aborted' = TRUE
  /\ UNCHANGED <<size, cells, count, prime_offset, looping, iter, seen>>

ForEachStart ==
  /\ ~aborted
  /\ ~looping
  /\ looping' = TRUE
  /\ iter' = 0
  /\ seen' = {}
  /\ UNCHANGED <<size, cells, count, prime_offset, aborted>>

InLoop == looping /\ iter < size
AtCell == InLoop /\ CELL_OCCUPIED(cells, iter)

\* c++ over an empty cell.
ForEachSkip ==
  /\ InLoop
  /\ ~AtCell
  /\ iter' = iter + 1
  /\ UNCHANGED <<size, cells, count, prime_offset, looping, seen, aborted>>

\* Mutant: the cell is left after the call, whatever the removal moved there.
AdvanceAlways == iter' = iter + 1

\* "goto repeat" where another entry has been moved into the cell.
Advance ==
  iter' = IF cells'[iter].key # cells[iter].key /\ CELL_OCCUPIED(cells', iter)
          THEN iter ELSE iter + 1

\* fn is called with the entry; it may put or remove that entry's key.
ForEachCall ==
  /\ AtCell
  /\ LET k == cells[iter].key
     IN /\ seen' = seen \cup {k}
        /\ \/ UNCHANGED <<size, cells, count, prime_offset>>
           \/ \E v \in Value : Update(k, v)
           \/ hash_table_remove(k)
  /\ Advance
  /\ UNCHANGED <<looping, aborted>>

\* The end of the array, or fn has returned non-zero.
ForEachEnd ==
  /\ looping
  /\ iter = size \/ seen # {}
  /\ looping' = FALSE
  /\ iter' = 0
  /\ seen' = {}
  /\ UNCHANGED <<size, cells, count, prime_offset, aborted>>

HashNext == Call \/ Abort \/ ForEachStart \/ ForEachSkip \/ ForEachCall \/ ForEachEnd

HashSpec == HashInit /\ [][HashNext]_hashVars

-----------------------------------------------------------------------------
Keys(t) == {t[c].key : c \in {x \in DOMAIN t : CELL_OCCUPIED(t, x)}}

HashTypeOK ==
  /\ size \in {Primes[i] : i \in DOMAIN Primes}
  /\ cells \in [0 .. size - 1 -> Cell]
  /\ count \in 0 .. size
  /\ prime_offset \in 2 .. Len(Primes) + 1
  /\ looping \in BOOLEAN
  /\ iter \in 0 .. size
  /\ seen \subseteq Key
  /\ aborted \in BOOLEAN

(* The shape every search relies on (hash.c 307-325): there is an empty     *)
(* cell, so probing ends; the counter that triggers growth is the number of *)
(* occupied cells; and between an entry's own position and its cell no cell *)
(* is empty and none holds the same key, so probing ends at the entry.  A   *)
(* growth, or a removal that closes a gap across the end of the array, must *)
(* not leave an entry behind a hole.                                        *)
ProbesReach ==
  LET occupied == {c \in 0 .. size - 1 : CELL_OCCUPIED(cells, c)}
  IN /\ count = Cardinality(occupied)
     /\ count < size
     /\ \A c \in occupied : find_cell(cells, size, cells[c].key) = c

(* hash_table_for_each calls its function for every entry, also when the    *)
(* function removes the entry it is called with and thereby moves others    *)
(* (hash.c 516-538): an entry still in the table that has not been seen     *)
(* lies at or behind the cell the traversal is at.                          *)
ForEachMissesNone ==
  looping => \A c \in 0 .. size - 1 :
                   CELL_OCCUPIED(cells, c) /\ cells[c].key \notin seen => c >= iter

\* The table seen through hash_table_get_pair.
Store == INSTANCE KeyedStore WITH
           map <- [k \in {x \in Key : contains(x)} |-> get(k)]

(* A table is a map: a put, with or without growth, enters one key and a    *)
(* removal takes one away, whatever other entries either one moves.  No     *)
(* call changes what is found under another key.                            *)
IsKeyedStore == Store!StoreSpec
===============================================================================
