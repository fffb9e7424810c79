------------------------------- MODULE WgetHsts -------------------------------
(***************************************************************************)
(* The HSTS database of wget (userland/wget/src/hsts.c, with its callers   *)
(* in main.c, retr.c and http.c), shared through one file by wget          *)
(* processes that run side by side.                                        *)
(*                                                                         *)
(* A process reads the file without a lock when it starts, keeps its own   *)
(* table, and on its way out locks the file, merges it if it looks newer,  *)
(* truncates it and writes its table.  Times, also the file's st_mtime,    *)
(* are seconds.  Hosts are on the default port and are names, not          *)
(* addresses; the file fits into one stdio buffer, so it is read at once   *)
(* and written at once, by fclose.                                         *)
(***************************************************************************)
EXTENDS Integers, Sequences, FiniteSets

CONSTANTS
  Proc,       \* wget processes
  Host,
  Supers,     \* the superdomains of each host, from the longest to the shortest
  Ages,       \* values of max-age that servers send
  IntMax,     \* the largest int64_t
  MaxTime,    \* bound on the clock
  MaxUrls,    \* bound on the URLs retrieved altogether
  NoEntry,    \* the table holds nothing for a host
  NoProc      \* nobody holds the lock

ASSUME HstsAssumption ==
  /\ IsFiniteSet(Host)
  /\ Supers \in [Host -> Seq(Host)]
  /\ Ages \subseteq Int
  /\ IntMax \in Nat /\ MaxTime \in Nat /\ MaxUrls \in Nat
  /\ NoProc \notin Proc

VARIABLES
  folds,        \* how the build treats a sum that overflows (never changes)
  now,          \* time(NULL)
  exists,       \* the file exists
  valid,        \* hsts_file_access_valid: regular and not world-writable
  db,           \* the entries of the file
  mtime,        \* its st_mtime
  lock,         \* who holds the flock
  at,           \* control state of each process
  table,        \* store->table
  last_mtime,   \* store->last_mtime
  changed,      \* store->changed
  url,          \* the URL being retrieved: its host and scheme
  urls,         \* URLs retrieved so far, by all processes
  heard         \* history: the headers that were received

fileVars  == <<exists, valid, db, mtime>>
storeVars == <<table, last_mtime, changed>>
hstsVars  == <<folds, now, fileVars, lock, at, storeVars, url, urls, heard>>

Entry == [created : Nat, max_age : Int, sub : BOOLEAN]
Table == [Host -> Entry \cup {NoEntry}]
Nothing == [h \in Host |-> NoEntry]
NoUrl == [host |-> CHOOSE h \in Host : TRUE, scheme |-> "http"]
Control == {"off", "read", "fstat", "browse", "match", "reply", "save", "locked",
            "merged", "cut"}

-----------------------------------------------------------------------------
\* created + max_age in 64 bits.
Wrap(x) == IF x > IntMax THEN x - 2 * (IntMax + 1) ELSE x

\* hsts_find_entry.  The entry it returns need not match: after a search in
\* vain it is what the shortest superdomain has, if anything.
find_entry(t, h) ==
  LET up == Supers[h]
      covering == {i \in DOMAIN up : t[up[i]] # NoEntry /\ t[up[i]].sub}
  IN IF t[h] # NoEntry
     THEN [match |-> "congruent", khi |-> t[h]]
     ELSE IF covering # {}
     THEN [match |-> "superdomain",
           khi |-> t[up[CHOOSE i \in covering : \A j \in covering : i <= j]]]
     ELSE [match |-> "none",
           khi |-> IF up = <<>> THEN NoEntry ELSE t[up[Len(up)]]]

\* check_expired: (created + max_age) < created.  Signed overflow is
\* undefined: a compiler may have turned the test into max_age < 0.
Bad(created, age) == IF folds THEN age < 0 ELSE Wrap(created + age) < created

\* hsts_read_database with hsts_new_entry: lines with a bad age are dropped.
ReadAll(d) ==
  [h \in Host |-> IF d[h] # NoEntry /\ Bad(d[h].created, d[h].max_age)
                  THEN NoEntry ELSE d[h]]

\* Mutant: the older of two entries stays.
MergedOlder(t, d, h) ==
  IF d[h] = NoEntry THEN t[h]
  ELSE IF t[h] # NoEntry
  THEN IF d[h].created < t[h].created THEN d[h] ELSE t[h]
  ELSE IF find_entry(t, h).khi = NoEntry THEN d[h] ELSE NoEntry

\* hsts_store_merge of the file's entry for h: the younger of two entries
\* stays; a host for which a superdomain's entry was found is not added.
Merged(t, d, h) ==
  LET f == find_entry(t, h)
  IN IF d[h] = NoEntry THEN t[h]
     ELSE IF f.match = "congruent"
     THEN IF d[h].created > t[h].created THEN d[h] ELSE t[h]
     ELSE IF f.khi = NoEntry /\ ~Bad(d[h].created, d[h].max_age)
     THEN d[h] ELSE NoEntry

\* The lines of the file come in the order of the table that wrote them.
Orders == {o \in [1 .. Cardinality(Host) -> Host] :
             \A i, j \in DOMAIN o : o[i] = o[j] => i = j}

\* hsts_read_database with hsts_store_merge: table t after the first i lines.
Merging(t, d, o) ==
  LET into[i \in 0 .. Cardinality(Host)] ==
        IF i = 0 THEN t
        ELSE [into[i - 1] EXCEPT ![o[i]] = Merged(into[i - 1], d, o[i])]
  IN into

MergeAll(t, d, o) == Merging(t, d, o)[Cardinality(Host)]

-----------------------------------------------------------------------------
HstsInit ==
  /\ folds \in BOOLEAN
  /\ now = 2
  /\ exists \in BOOLEAN
  /\ valid \in BOOLEAN
  /\ \E h \in Host, s \in BOOLEAN :
       LET e == [created |-> 1, max_age |-> 1, sub |-> s]
       IN /\ heard = IF exists THEN {<<h, e>>} ELSE {}
          /\ db = IF exists THEN [Nothing EXCEPT ![h] = e] ELSE Nothing
  /\ ~exists => valid
  /\ mtime = 1
  /\ lock = NoProc
  /\ at = [p \in Proc |-> "off"]
  /\ table = [p \in Proc |-> Nothing]
  /\ last_mtime = [p \in Proc |-> 0]
  /\ changed = [p \in Proc |-> FALSE]
  /\ url = [p \in Proc |-> NoUrl]
  /\ urls = 0

Tick ==
  /\ now < MaxTime
  /\ now' = now + 1
  /\ UNCHANGED <<folds, fileVars, lock, at, storeVars, url, urls, heard>>

Goto(p, from, to) == at[p] = from /\ at' = [at EXCEPT ![p] = to]

\* The process ends, and with it its table.
Gone(p) ==
  /\ table' = [table EXCEPT ![p] = Nothing]
  /\ last_mtime' = [last_mtime EXCEPT ![p] = 0]
  /\ changed' = [changed EXCEPT ![p] = FALSE]
  /\ url' = [url EXCEPT ![p] = NoUrl]

(* hsts_store_open, called by load_hsts.                                   *)

\* file_exists_p; a file that others may write to disables HSTS, no file leaves
\* the store empty and last_mtime 0.
OpenStore(p) ==
  /\ exists => valid
  /\ Goto(p, "off", IF exists THEN "read" ELSE "browse")
  /\ UNCHANGED <<folds, now, fileVars, lock, storeVars, url, urls, heard>>

\* The file is read without a lock ...
ReadDatabase(p) ==
  /\ Goto(p, "read", "fstat")
  /\ table' = [table EXCEPT ![p] = ReadAll(db)]
  /\ UNCHANGED <<folds, now, fileVars, lock, last_mtime, changed, url, urls, heard>>

\* ... and its time is taken afterwards.
StatDatabase(p) ==
  /\ Goto(p, "fstat", "browse")
  /\ last_mtime' = [last_mtime EXCEPT ![p] = mtime]
  /\ UNCHANGED <<folds, now, fileVars, lock, table, changed, url, urls, heard>>

(* Retrieving a URL: hsts_match in retrieve_url, then the reply's header   *)
(* in gethttp.                                                             *)

StartUrl(p) ==
  /\ urls < MaxUrls
  /\ \E h \in Host, s \in {"http", "https"} :
       url' = [url EXCEPT ![p] = [host |-> h, scheme |-> s]]
  /\ Goto(p, "browse", "match")
  /\ urls' = urls + 1
  /\ UNCHANGED <<folds, now, fileVars, lock, storeVars, heard>>

\* Mutant: an entry never expires.
StillValid(e) == TRUE

Unexpired(e) == Wrap(e.created + e.max_age) >= now

\* An expired entry is removed under the host's own name.
hsts_match(p) ==
  LET h == url[p].host
      f == find_entry(table[p], h)
      hit == url[p].scheme = "http" /\ f.khi # NoEntry
      upgrade == hit /\ Unexpired(f.khi) /\ f.match # "none"
      stale == hit /\ ~Unexpired(f.khi)
  IN /\ Goto(p, "match", "reply")
     /\ url' = IF upgrade THEN [url EXCEPT ![p].scheme = "https"] ELSE url
     /\ table' = IF stale THEN [table EXCEPT ![p][h] = NoEntry] ELSE table
     /\ changed' = [changed EXCEPT ![p] = @ \/ upgrade \/ stale]
     /\ UNCHANGED <<folds, now, fileVars, lock, last_mtime, urls, heard>>

\* A reply without the header, or over http: hsts_store_entry does nothing.
PlainReply(p) ==
  /\ Goto(p, "reply", "browse")
  /\ UNCHANGED <<folds, now, fileVars, lock, storeVars, url, urls, heard>>

\* hsts_store_entry: what the table holds for h after a header with age a
\* and includeSubDomains s.  An existing entry is not touched twice in one
\* second; a host for which only an entry that does not match was found
\* is not entered.  A new entry with age 0 is entered: no test keeps it out.
Stored(t, h, a, s) ==
  LET f == find_entry(t, h)
      e == [created |-> now, max_age |-> a, sub |-> s]
  IN IF f.match = "congruent"
     THEN IF a = 0 THEN NoEntry
          ELSE IF a > 0 /\ now # t[h].created THEN e ELSE t[h]
     ELSE IF (f.khi = NoEntry \/ f.match = "superdomain") /\ ~Bad(now, a)
     THEN e ELSE NoEntry

HstsReply(p) ==
  /\ url[p].scheme = "https"
  /\ Goto(p, "reply", "browse")
  /\ \E a \in Ages, s \in BOOLEAN :
       LET h == url[p].host
           e == Stored(table[p], h, a, s)
       IN /\ table' = [table EXCEPT ![p][h] = e]
          /\ changed' = [changed EXCEPT ![p] = @ \/ e # table[p][h]]
          /\ heard' = heard \cup {<<h, [created |-> now, max_age |-> a, sub |-> s]>>}
  /\ UNCHANGED <<folds, now, fileVars, lock, last_mtime, url, urls>>

(* save_hsts and hsts_store_save, at the end of main.                      *)

\* Nothing changed, or nothing left to write: the file is not opened.
CloseStore(p) ==
  /\ ~changed[p] \/ table[p] = Nothing
  /\ Goto(p, "browse", "off")
  /\ Gone(p)
  /\ UNCHANGED <<folds, now, fileVars, lock, urls, heard>>

\* fopen "a+" creates the file.
OpenForSave(p) ==
  /\ changed[p] /\ table[p] # Nothing
  /\ Goto(p, "browse", "save")
  /\ exists' = TRUE
  /\ mtime' = IF exists THEN mtime ELSE now
  /\ UNCHANGED <<folds, now, valid, db, lock, storeVars, url, urls, heard>>

\* Mutant: no flock.
NoFlock(p) ==
  /\ Goto(p, "save", "locked")
  /\ UNCHANGED <<folds, now, fileVars, lock, storeVars, url, urls, heard>>

Flock(p) ==
  /\ lock = NoProc
  /\ Goto(p, "save", "locked")
  /\ lock' = p
  /\ UNCHANGED <<folds, now, fileVars, storeVars, url, urls, heard>>

\* The file is merged if it is younger than when it was read.
LooksChanged(p) == last_mtime[p] # 0 /\ mtime > last_mtime[p]

MergeDatabase(p) ==
  /\ Goto(p, "locked", "merged")
  /\ IF LooksChanged(p)
     THEN \E o \in Orders : table' = [table EXCEPT ![p] = MergeAll(table[p], db, o)]
     ELSE UNCHANGED table
  /\ UNCHANGED <<folds, now, fileVars, lock, last_mtime, changed, url, urls, heard>>

Truncate(p) ==
  /\ Goto(p, "merged", "cut")
  /\ db' = Nothing
  /\ mtime' = now
  /\ UNCHANGED <<folds, now, exists, valid, lock, storeVars, url, urls, heard>>

\* hsts_store_dump; fclose writes the buffer and drops the lock.
Dump(p) ==
  /\ Goto(p, "cut", "off")
  /\ db' = table[p]
  /\ mtime' = now
  /\ lock' = NoProc
  /\ Gone(p)
  /\ UNCHANGED <<folds, now, exists, valid, urls, heard>>

\* The process is killed; the kernel drops its lock.
Die(p) ==
  /\ at[p] # "off"
  /\ at' = [at EXCEPT ![p] = "off"]
  /\ lock' = IF lock = p THEN NoProc ELSE lock
  /\ Gone(p)
  /\ UNCHANGED <<folds, now, fileVars, urls, heard>>

Step(p) ==
  \/ OpenStore(p) \/ ReadDatabase(p) \/ StatDatabase(p)
  \/ StartUrl(p) \/ hsts_match(p) \/ PlainReply(p) \/ HstsReply(p)
  \/ CloseStore(p) \/ OpenForSave(p) \/ Flock(p) \/ MergeDatabase(p)
  \/ Truncate(p) \/ Dump(p)

HstsNext == Tick \/ \E p \in Proc : Step(p) \/ Die(p)

HstsSpec == HstsInit /\ [][HstsNext]_hstsVars

-----------------------------------------------------------------------------
HstsTypeOK ==
  /\ now \in Nat /\ mtime \in Nat /\ urls \in Nat
  /\ db \in Table
  /\ lock \in Proc \cup {NoProc}
  /\ at \in [Proc -> Control]
  /\ table \in [Proc -> Table]
  /\ last_mtime \in [Proc -> Nat]
  /\ changed \in [Proc -> BOOLEAN]
  /\ url \in [Proc -> [host : Host, scheme : {"http", "https"}]]
  /\ heard \subseteq Host \X Entry

(* hsts_match changes a URL to https only because of a header that this or  *)
(* another wget received from that very host, or from a superdomain with    *)
(* includeSubDomains, and whose max-age has not passed (hsts.c 376-402).    *)
(* No read, merge, save or death of a process along the way makes up an     *)
(* entry, mixes two of them or makes one last longer.  A max-age of 0 heard *)
(* in the same second counts: see ZeroAgeIgnored.                           *)
UpgradeJustified ==
  [][\A p \in Proc :
       at[p] = "match" /\ url[p].scheme = "http" /\ url'[p].scheme = "https"
       => \E x \in heard :
            /\ x[2].created + x[2].max_age >= now
            /\ \/ x[1] = url[p].host
               \/ x[2].sub /\ \E i \in DOMAIN Supers[url[p].host] :
                                 Supers[url[p].host][i] = x[1]]_hstsVars

(* "we ignore new entries with max_age == 0" (hsts.c line 491).  The code    *)
(* does not (lines 478-487, 190): such an entry is stored, upgrades for the *)
(* rest of the second, and is saved.                                        *)
ZeroAgeIgnored ==
  \A p \in Proc : \A h \in Host : table[p][h] # NoEntry => table[p][h].max_age # 0

\* Something other than h's own entry is found for h in t, so that
\* hsts_store_merge leaves h out.
Shadowed(t, h) ==
  \E i \in DOMAIN Supers[h] : t[Supers[h][i]] # NoEntry

(* When a process is about to truncate the file, its table holds, as young  *)
(* or younger, every entry that others saved in a later second than the one *)
(* in which it took the file's time (hsts.c 562-575), unless the entry of a *)
(* superdomain hides it or its age cannot be represented.  Between the      *)
(* merge and the truncation nobody else may write.                          *)
MergeKeepsOthers ==
  \A p \in Proc : \A h \in Host :
    /\ at[p] = "merged" /\ LooksChanged(p)
    /\ db[h] # NoEntry /\ ~Bad(db[h].created, db[h].max_age)
    /\ ~Shadowed(table[p], h)
    => table[p][h] # NoEntry /\ table[p][h].created >= db[h].created
===============================================================================
