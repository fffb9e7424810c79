----------------------------- MODULE KeyedStore -----------------------------
(***************************************************************************)
(* What the hash tables of wget promise their callers: a finite map from   *)
(* keys to values that changes by one entry at a time, or is emptied.      *)
(***************************************************************************)
CONSTANTS Key, Value

VARIABLE map

\* m and n hold the same under every key but k.
AgreeOutside(m, n, k) ==
  /\ DOMAIN m \ {k} = DOMAIN n \ {k}
  /\ \A x \in DOMAIN m \ {k} : m[x] = n[x]

\* One key is entered, overwritten or dropped.
OneEntry(m, n) ==
  \E k \in Key : /\ AgreeOutside(m, n, k)
                 /\ k \in DOMAIN n => n[k] \in Value

Emptied(n) == DOMAIN n = {}

StoreNext == OneEntry(map, map') \/ Emptied(map')

StoreSpec == Emptied(map) /\ [][StoreNext]_map
=============================================================================
