---------------------------- MODULE WgetRecurProofs ----------------------------
(***************************************************************************)
(* Proofs about WgetRecur, for every web, every command line and every     *)
(* number of failures: no URL is asked for twice in a tree (AskedOnce),    *)
(* converted links lead to the documents they name (LinksLead), and the    *)
(* target of a redirection is registered if no two URLs have the same      *)
(* local name (RegisteredIfNamesDiffer).                                   *)
(***************************************************************************)
EXTENDS WgetRecur, BoundedRecursion

-----------------------------------------------------------------------------
(* The inductive invariant                                                 *)

Entry == [url : URL, depth : Nat, expect : Expected]

Plain == {url_unescape(u) : u \in URL}

Todo == [queue : Seq(Entry), blacklist : SUBSET Plain]

\* What the blacklist has of a set of URLs
Entered(done) == {url_unescape(u) : u \in done}

\* Without escapes, the queue has different URLs, which are on the blacklist and
\* not among those that were asked for, which are on the blacklist too.
Listed(acc, done) ==
  /\ Entered(done) \subseteq acc.blacklist
  /\ \A i \in DOMAIN acc.queue : url_unescape(acc.queue[i].url) \in acc.blacklist \ Entered(done)
  /\ \A i, j \in DOMAIN acc.queue :
       url_unescape(acc.queue[i].url) = url_unescape(acc.queue[j].url) => i = j

TreeInv ==
  /\ web \in Webs
  /\ starts \in Seq(URL)
  /\ [queue |-> queue, blacklist |-> blacklist] \in Todo
  /\ queue = <<>> \/ Listed([queue |-> queue, blacklist |-> blacklist], asked)
  /\ at \in {"main", "done"} => queue = <<>>
  /\ at = "tree" => Entered(asked) \subseteq blacklist

\* A URL that has a file is, up to a redirection, a form of the one that the
\* file has.
MapsAgree(m) ==
  /\ DOMAIN m.u2f \subseteq URL /\ DOMAIN m.f2u \subseteq File
  /\ \A f \in DOMAIN m.f2u : m.f2u[f] \in URL
  /\ \A u \in DOMAIN m.u2f :
       m.u2f[u] \in DOMAIN m.f2u /\ match_except_index(m.f2u[m.u2f[u]], Dest(web, u))

\* The files in d that the maps know hold the document they are registered under.
Held(m, d) ==
  \A f \in DOMAIN m.f2u :
    \/ d[f] = Partial
    \/ d[f] \in URL /\ match_except_index(d[f], m.f2u[f])

\* A URL that has moved is known as long as the file of its own name is.
MovedKnown(m) ==
  IsInjective(web.name) =>
    \A u \in URL : Dest(web, u) # u /\ web.name[u] \in DOMAIN m.f2u =>
      u \in DOMAIN m.u2f /\ m.u2f[u] = web.name[u]

MapsInv ==
  /\ disk \in [File -> URL \cup {NoDoc, Partial}]
  /\ MapsAgree(Maps) /\ Held(Maps, disk) /\ MovedKnown(Maps)

PagesInv ==
  /\ at # "done" => pages = << >>
  /\ \A f \in DOMAIN pages : \A u \in DOMAIN pages[f] :
       pages[f][u] # Complete =>
         u \in DOMAIN dl_url_file_map /\ pages[f][u] = dl_url_file_map[u]

RecurInv == TreeInv /\ MapsInv /\ PagesInv

-----------------------------------------------------------------------------
(* The queue and the blacklist.                                            *)

(* What download_child accepts is not on the blacklist.                     *)
LEMMA AcceptedIsFresh ==
  ASSUME NEW black, NEW link, NEW parent, NEW depth,
         Refusal(black, link, parent, depth) = "SUCCESS"
  PROVE  url_unescape(link.url) \notin black
BY DEF Refusal

(* Appending a URL that is not on the blacklist, and listing it.            *)
LEMMA AppendListed ==
  ASSUME NEW done, NEW q \in Seq(Entry), NEW black \in SUBSET Plain,
         Listed([queue |-> q, blacklist |-> black], done),
         NEW e \in Entry, url_unescape(e.url) \notin black
  PROVE  Listed([queue |-> Append(q, e), blacklist |-> black \cup {url_unescape(e.url)}], done)
<1> DEFINE r == Append(q, e)
           old == Entered(done)
<1>1. /\ r \in Seq(Entry) /\ DOMAIN q = 1 .. Len(q) /\ Len(q) \in Nat
      /\ DOMAIN r = 1 .. Len(q) + 1
      /\ \A i \in DOMAIN q : r[i] = q[i]
      /\ r[Len(q) + 1] = e
  OBVIOUS
<1> HIDE DEF r
<1>2. /\ old \subseteq black
      /\ \A i \in DOMAIN q : url_unescape(q[i].url) \in black \ old
      /\ \A i, j \in DOMAIN q : url_unescape(q[i].url) = url_unescape(q[j].url) => i = j
  BY DEF Listed
<1> HIDE DEF old
<1>3. \A i \in DOMAIN r : i \in DOMAIN q \/ i = Len(q) + 1
  BY <1>1
<1>4. \A i \in DOMAIN r : url_unescape(r[i].url) \in (black \cup {url_unescape(e.url)}) \ old
  BY <1>1, <1>2, <1>3
<1>5. \A i, j \in DOMAIN r : url_unescape(r[i].url) = url_unescape(r[j].url) => i = j
  BY <1>1, <1>2, <1>3
<1> QED
  BY <1>2, <1>4, <1>5 DEF Listed, r, old

\* The pairs of a queue and a blacklist that are right after done was asked for.
Good(done) == {acc \in Todo : Listed(acc, done)}

(* Looking at a link keeps the queue and the blacklist right.               *)
LEMMA EnqueueGood ==
  ASSUME NEW done, NEW acc \in Good(done), NEW link \in Link, NEW parent, NEW depth \in Nat
  PROVE  Enqueue(acc, link, parent, depth) \in Good(done)
<1> DEFINE reason == Refusal(acc.blacklist, link, parent, depth)
           q == acc.queue
           black == acc.blacklist
           e == [url |-> link.url, depth |-> depth + 1, expect |-> link.expect]
           new == Enqueue(acc, link, parent, depth)
<1>1. /\ acc = [queue |-> q, blacklist |-> black]
      /\ q \in Seq(Entry) /\ black \in SUBSET Plain /\ Listed(acc, done)
  BY DEF Good, Todo
<1>2. e \in Entry /\ e.url = link.url /\ url_unescape(link.url) \in Plain
  BY DEF Entry, Link, Plain
<1>3. new = [queue |-> IF reason = "SUCCESS" THEN Append(q, e) ELSE q,
             blacklist |-> IF reason \in {"SUCCESS", "ROBOTS"} THEN black \cup {url_unescape(link.url)}
                           ELSE black]
  BY DEF Enqueue, Blacklisted
<1>4. reason = "SUCCESS" => url_unescape(link.url) \notin black
  BY AcceptedIsFresh
<1> HIDE DEF reason, q, black, e, new
<1>5. CASE reason = "SUCCESS"
  <2>1. new = [queue |-> Append(q, e), blacklist |-> black \cup {url_unescape(e.url)}]
    BY <1>2, <1>3, <1>5
  <2>2. Listed(new, done)
    BY <1>1, <1>2, <1>4, <1>5, <2>1, AppendListed
  <2>3. Append(q, e) \in Seq(Entry) /\ black \cup {url_unescape(e.url)} \in SUBSET Plain
    BY <1>1, <1>2
  <2>4. new \in Todo
    BY <2>1, <2>3 DEF Todo
  <2> QED
    BY <2>2, <2>4 DEF Good, new
<1>6. CASE reason # "SUCCESS"
  <2>1. new.queue = q /\ new.blacklist \in SUBSET Plain /\ black \subseteq new.blacklist
    BY <1>1, <1>2, <1>3, <1>6
  <2>2. new = [queue |-> new.queue, blacklist |-> new.blacklist]
    BY <1>3
  <2>3. new \in Todo
    BY <1>1, <2>1, <2>2 DEF Todo
  <2>4. Listed(new, done)
    BY <1>1, <2>1 DEF Listed
  <2> QED
    BY <2>3, <2>4 DEF Good, new
<1> QED
  BY <1>5, <1>6

(* So does looking at all links of a document.                              *)
LEMMA HarvestingGood ==
  ASSUME NEW done, NEW acc \in Good(done), NEW links \in Seq(Link), NEW parent,
         NEW depth \in Nat
  PROVE  Harvesting(acc, links, parent, depth)[Len(links)] \in Good(done)
<1> DEFINE n == Len(links)
           D == Good(done)
           Step(a, i) == IF OnlyInline(depth) /\ ~links[i].inline THEN a
                         ELSE Enqueue(a, links[i], parent, depth)
           g == [i \in 1 .. n |-> [a \in D |-> Step(a, i)]]
<1>1. n \in Nat /\ \A i \in 1 .. n : links[i] \in Link
  OBVIOUS
<1>2. ASSUME NEW i \in 1 .. n, NEW a \in D
      PROVE  Step(a, i) \in D
  BY <1>1, EnqueueGood
<1> HIDE DEF n, D, Step
<1>3. g \in [1 .. n -> [D -> D]]
      /\ \A i \in 1 .. n : \A a \in D : g[i][a] = Step(a, i)
  BY <1>2
<1>4. acc \in D
  BY DEF D
<1> HIDE DEF g
<1>5. PICK h \in [0 .. n -> D] : Unfolds(h, n, acc, g)
  BY <1>1, <1>3, <1>4, RecursionExists
<1>6. \A i \in 1 .. n : h[i] = Step(h[i - 1], i)
  BY <1>1, <1>3, <1>5 DEF Unfolds
<1>7. h = [i \in 0 .. n |-> IF i = 0 THEN acc ELSE Step(h[i - 1], i)]
  BY <1>1, <1>5, <1>6 DEF Unfolds
<1> DEFINE R == Harvesting(acc, links, parent, depth)
<1>8. R = CHOOSE f : f = [i \in 0 .. n |-> IF i = 0 THEN acc ELSE Step(f[i - 1], i)]
  BY DEF Harvesting, Step, n
<1> HIDE DEF R
<1>9. R = [i \in 0 .. n |-> IF i = 0 THEN acc ELSE Step(R[i - 1], i)]
  BY <1>7, <1>8
<1>10. R[0] = acc /\ \A i \in 1 .. n : R[i] = Step(R[i - 1], i)
  BY <1>1, <1>9
<1> DEFINE S == {i \in 0 .. n : R[i] \in D}
<1>11. 0 \in S
  BY <1>1, <1>4, <1>10
<1>12. \A i \in 1 .. n : i - 1 \in S => i \in S
  BY <1>1, <1>2, <1>10
<1> HIDE DEF S
<1>13. \A i \in 0 .. n : i \in S
  BY <1>1, <1>11, <1>12, UpTo
<1> QED
  BY <1>1, <1>13 DEF S, R, n, D

(* And so does Harvest, whatever the file holds.                            *)
LEMMA HarvestGood ==
  ASSUME web \in Webs, NEW done, NEW acc \in Good(done), NEW doc, NEW parent,
         NEW depth \in Nat
  PROVE  Harvest(acc, doc, parent, depth) \in Good(done)
<1>1. CASE TooDeep(depth) \/ doc \notin URL
  BY <1>1 DEF Harvest
<1>2. CASE ~(TooDeep(depth) \/ doc \notin URL)
  <2>1. web.links[doc] \in Seq(Link)
    BY <1>2, RecurAssumption
  <2> QED
    BY <1>2, <2>1, HarvestingGood DEF Harvest
<1> QED
  BY <1>1, <1>2

\* What a pass of the loop takes from the queue.
First == Head(queue)

(* After a URL was taken from the queue and asked for, the rest is right,   *)
(* with a blacklist that may have grown.                                    *)
LEMMA RestGood ==
  ASSUME TreeInv, InLoop, NEW black \in SUBSET Plain, blacklist \subseteq black
  PROVE  /\ First \in Entry
         /\ First.url \notin asked
         /\ [queue |-> Tail(queue), blacklist |-> black] \in Good(asked \cup {First.url})
         /\ [queue |-> Tail(queue), blacklist |-> black] \in Good(asked)
<1> DEFINE r == Tail(queue)
           new == [queue |-> r, blacklist |-> black]
<1>1. queue \in Seq(Entry) /\ queue # <<>> /\ blacklist \in SUBSET Plain
  BY DEF TreeInv, Todo, InLoop
<1>2. /\ Entered(asked) \subseteq blacklist
      /\ \A i \in DOMAIN queue : url_unescape(queue[i].url) \in blacklist \ Entered(asked)
      /\ \A i, j \in DOMAIN queue :
           url_unescape(queue[i].url) = url_unescape(queue[j].url) => i = j
  <2>1. Listed([queue |-> queue, blacklist |-> blacklist], asked)
    BY <1>1 DEF TreeInv
  <2> QED
    BY <2>1 DEF Listed
<1>3. /\ r \in Seq(Entry) /\ DOMAIN queue = 1 .. Len(queue) /\ Len(queue) \in Nat \ {0}
      /\ DOMAIN r = 1 .. Len(queue) - 1
      /\ \A i \in DOMAIN r : r[i] = queue[i + 1]
      /\ First = queue[1] /\ First \in Entry
  BY <1>1 DEF First
<1>4. 1 \in DOMAIN queue /\ \A i \in DOMAIN r : i + 1 \in DOMAIN queue /\ i + 1 # 1
  BY <1>3
<1>5. /\ url_unescape(First.url) \in blacklist \ Entered(asked)
      /\ Entered(asked \cup {First.url}) = Entered(asked) \cup {url_unescape(First.url)}
      /\ First.url \notin asked
  <2>1. url_unescape(First.url) \in blacklist \ Entered(asked)
    BY <1>2, <1>3, <1>4
  <2> QED
    BY <2>1, Zenon DEF Entered
<1> HIDE DEF r
<1>6. \A i \in DOMAIN r : /\ url_unescape(r[i].url) \in black \ Entered(asked \cup {First.url})
                         /\ url_unescape(r[i].url) \in black \ Entered(asked)
  <2> SUFFICES ASSUME NEW i \in DOMAIN r
               PROVE  /\ url_unescape(r[i].url) \in black \ Entered(asked \cup {First.url})
                      /\ url_unescape(r[i].url) \in black \ Entered(asked)
    OBVIOUS
  <2>1. r[i] = queue[i + 1] /\ i + 1 \in DOMAIN queue /\ i + 1 # 1 /\ 1 \in DOMAIN queue
    BY <1>3, <1>4
  <2>2. url_unescape(r[i].url) # url_unescape(First.url)
    BY <1>2, <1>3, <2>1
  <2>3. url_unescape(r[i].url) \in black \ Entered(asked)
    BY <1>2, <2>1
  <2> QED
    BY <1>5, <2>2, <2>3, Zenon
<1>7. \A i, j \in DOMAIN r : url_unescape(r[i].url) = url_unescape(r[j].url) => i = j
  <2> SUFFICES ASSUME NEW i \in DOMAIN r, NEW j \in DOMAIN r,
                      url_unescape(r[i].url) = url_unescape(r[j].url)
               PROVE  i = j
    OBVIOUS
  <2>1. i + 1 = j + 1
    BY <1>2, <1>3, <1>4
  <2> QED
    BY <1>3, <2>1
<1>8. new \in Todo /\ new.queue = r /\ new.blacklist = black
  BY <1>3 DEF Todo
<1> HIDE DEF new
<1>9. Entered(asked) \subseteq black /\ Entered(asked \cup {First.url}) \subseteq black
  BY <1>2, <1>5, Zenon
<1>10. Listed(new, asked \cup {First.url}) /\ Listed(new, asked)
  BY <1>6, <1>7, <1>8, <1>9, Zenon DEF Listed
<1> QED
  BY <1>3, <1>5, <1>8, <1>10 DEF Good, new, r

(* The escapes are those of the web, which stays.                           *)
LEMMA SameForms ==
  ASSUME web' = web
  PROVE  /\ Listed([queue |-> queue', blacklist |-> blacklist'], asked')
             => Listed([queue |-> queue, blacklist |-> blacklist], asked)'
         /\ [queue |-> queue', blacklist |-> blacklist'] \in Todo
             => [queue |-> queue', blacklist |-> blacklist'] \in Todo'
         /\ Entered(asked)' = Entered(asked')
BY DEF Listed, Todo, Entered, Plain, url_unescape

(* A pass of the loop that leaves a right queue keeps the invariant of the  *)
(* tree.                                                                    *)
LEMMA PassKeepsTree ==
  ASSUME TreeInv, InLoop, NEW acc \in Good(asked'), Advance(acc),
         web' = web, starts' = starts, at' \in {"tree", "crashed"}
  PROVE  TreeInv'
<1>1. acc = [queue |-> queue', blacklist |-> blacklist'] /\ acc \in Todo
  BY DEF Good, Todo, Advance
<1>2. Listed([queue |-> queue', blacklist |-> blacklist'], asked')
  BY <1>1 DEF Good
<1>3. Entered(asked') \subseteq blacklist'
  BY <1>2 DEF Listed
<1>4. at' \notin {"main", "done"} /\ web' \in Webs /\ starts' \in Seq(URL)
  BY DEF TreeInv
<1>5. [queue |-> queue', blacklist |-> blacklist'] \in Todo
  BY <1>1
<1> QED
  BY <1>2, <1>3, <1>4, <1>5, SameForms DEF TreeInv

(* Every step keeps the invariant of the tree.                              *)
LEMMA StepKeepsTree ==
  ASSUME TreeInv, [RecurNext]_recurVars
  PROVE  TreeInv'
<1>1. CASE UNCHANGED recurVars
  BY <1>1 DEF TreeInv, Listed, Todo, Plain, Entered, url_unescape, recurVars
<1>2. CASE RetrieveTree
  <2> DEFINE u == Head(starts)
             e == [url |-> u, depth |-> 0, expect |-> "html"]
             acc == [queue |-> queue', blacklist |-> blacklist']
  <2>1. u \in URL /\ starts' \in Seq(URL) /\ web' \in Webs
    BY <1>2 DEF RetrieveTree, TreeInv
  <2>2. e \in Entry /\ e.url = u
    BY <2>1 DEF Entry, Expected
  <2>3. /\ queue' = <<e>> /\ blacklist' = {url_unescape(u)} /\ asked' = {} /\ at' = "tree"
        /\ web' = web
    BY <1>2 DEF RetrieveTree
  <2> HIDE DEF e, u
  <2>4. queue' \in Seq(Entry) /\ DOMAIN queue' = {1} /\ queue'[1] = e
    BY <2>2, <2>3
  <2>5. acc \in Todo
    BY <2>1, <2>3, <2>4 DEF Todo, Plain
  <2>6. Entered(asked') = {}
    BY <2>3 DEF Entered
  <2>7. Listed(acc, asked')
    BY <2>2, <2>3, <2>4, <2>6 DEF Listed
  <2> QED
    BY <2>1, <2>3, <2>5, <2>6, <2>7, SameForms DEF TreeInv
<1>3. CASE TreeEnds
  <2>1. queue' = <<>> /\ blacklist' = {} /\ at' = "main" /\ web' = web /\ starts' = starts
    BY <1>3 DEF TreeEnds
  <2>2. [queue |-> queue', blacklist |-> blacklist'] \in Todo
    BY <2>1 DEF Todo
  <2> QED
    BY <2>1, <2>2, SameForms DEF TreeInv
<1>4. CASE Reuse
  <2> DEFINE file == dl_url_file_map[First.url]
             known == DescendKnown(First, file)
             acc == IF known THEN Harvest(Rest, disk[file], First.url, First.depth) ELSE Rest
  <2>1. InLoop /\ Advance(acc) /\ web' = web /\ starts' = starts /\ at' = at /\ asked' = asked
    BY <1>4 DEF Reuse, First
  <2>2. First \in Entry /\ Rest \in Good(asked)
    BY <2>1, RestGood DEF Rest, TreeInv, Todo
  <2>3. web \in Webs /\ First.depth \in Nat
    BY <2>2 DEF TreeInv, Entry
  <2> HIDE DEF known, file
  <2>4. acc \in Good(asked)
    BY <2>2, <2>3, HarvestGood
  <2> QED
    BY <2>1, <2>4, PassKeepsTree DEF InLoop
<1>5. CASE Download
  <2> DEFINE doc == Dest(web, First.url)
             moved == doc # First.url
             followed == moved => RedirectFollowed(blacklist, First.url, doc, First.depth)
             descend == DescendNew(First, doc)
             reason == Refusal(blacklist, Redirection(doc), First.url, First.depth)
             black == IF ~moved \/ ~descend THEN blacklist
                      ELSE IF followed THEN blacklist \cup {url_unescape(doc)}
                      ELSE Blacklisted(blacklist, doc, reason)
             rest == [queue |-> Tail(queue), blacklist |-> black]
             acc == IF descend /\ followed THEN Harvest(rest, doc, doc, First.depth) ELSE rest
  <2>1. /\ InLoop /\ Advance(acc) /\ web' = web /\ starts' = starts /\ at' = at
        /\ asked' = asked \cup {First.url}
    BY <1>5 DEF Download, First
  <2>2. /\ web \in Webs /\ blacklist \in SUBSET Plain
        /\ First \in Entry
    BY <2>1, RestGood DEF TreeInv, Todo
  <2>3. First.url \in URL /\ First.depth \in Nat
    BY <2>2 DEF Entry
  <2>4. url_unescape(doc) \in Plain
    BY <2>2, <2>3, RecurAssumption DEF Plain
  <2> HIDE DEF doc, followed, descend, reason
  <2>5. black \in SUBSET Plain /\ blacklist \subseteq black
    BY <2>2, <2>4 DEF Blacklisted
  <2> HIDE DEF black
  <2>6. rest \in Good(asked')
    BY <2>1, <2>5, RestGood
  <2> HIDE DEF rest
  <2>7. acc \in Good(asked')
    BY <2>2, <2>3, <2>6, HarvestGood
  <2> QED
    BY <2>1, <2>7, PassKeepsTree DEF InLoop
<1>6. CASE RedirectionCrashes
  <2>1. /\ InLoop /\ Advance(Rest) /\ web' = web /\ starts' = starts /\ at' = "crashed"
        /\ asked' = asked \cup {First.url}
    BY <1>6 DEF RedirectionCrashes, First
  <2>2. Rest \in Good(asked')
    BY <2>1, RestGood DEF Rest, TreeInv, Todo
  <2> QED
    BY <2>1, <2>2, PassKeepsTree
<1>7. CASE DownloadFails
  <2>1. /\ InLoop /\ Advance(Rest) /\ web' = web /\ starts' = starts /\ at' = at
        /\ asked' = asked \cup {First.url}
    BY <1>7 DEF DownloadFails, First
  <2>2. Rest \in Good(asked')
    BY <2>1, RestGood DEF Rest, TreeInv, Todo
  <2> QED
    BY <2>1, <2>2, PassKeepsTree DEF InLoop
<1>8. CASE convert_all_links
  <2>1. /\ queue' = queue /\ blacklist' = blacklist /\ at = "main" /\ at' = "done"
        /\ web' = web /\ starts' = starts /\ asked' = asked
    BY <1>8 DEF convert_all_links
  <2> QED
    BY <2>1, SameForms DEF TreeInv
<1> QED
  BY <1>1, <1>2, <1>3, <1>4, <1>5, <1>6, <1>7, <1>8 DEF RecurNext

(* Nothing has been done yet at the start.                                  *)
LEMMA InitTree ==
  ASSUME RecurInit
  PROVE  TreeInv
<1>1. queue = <<>> /\ blacklist = {} /\ at = "main" /\ web \in Webs /\ starts = Starts
  BY DEF RecurInit
<1>2. [queue |-> queue, blacklist |-> blacklist] \in Todo
  BY <1>1 DEF Todo
<1> QED
  BY <1>1, <1>2, RecurAssumption DEF TreeInv

(* "we don't want to enqueue (and hence download) the same URL twice": in   *)
(* no tree does wget -r request a URL again, or have it in the queue twice, *)
(* whatever the links, redirections, failures and earlier trees.            *)
THEOREM AskedOnceHolds == RecurSpec => []AskedOnce
<1>1. RecurInit => TreeInv
  BY InitTree
<1>2. TreeInv /\ [RecurNext]_recurVars => TreeInv'
  BY StepKeepsTree
<1>3. TreeInv => AskedOnce
  <2> SUFFICES ASSUME TreeInv PROVE AskedOnce
    OBVIOUS
  <2>1. CASE queue = <<>>
    <3>1. DOMAIN queue = {}
      BY <2>1
    <3> QED
      BY <3>1 DEF AskedOnce, IsInjective
  <2>2. CASE queue # <<>>
    <3>1. Listed([queue |-> queue, blacklist |-> blacklist], asked)
      BY <2>2 DEF TreeInv
    <3>2. \A i \in DOMAIN queue : queue[i].url \notin asked
      BY <3>1, Zenon DEF Listed, Entered
    <3> QED
      BY <3>1, <3>2 DEF AskedOnce, IsInjective, Listed
  <2> QED
    BY <2>1, <2>2
<1> QED
  BY <1>1, <1>2, <1>3, PTL DEF RecurSpec

-----------------------------------------------------------------------------
(* The maps.                                                               *)

(* match_except_index is reflexive and symmetric.                           *)
LEMMA MatchSymmetric ==
  ASSUME NEW u, NEW v
  PROVE  /\ match_except_index(u, u)
         /\ match_except_index(u, v) <=> match_except_index(v, u)
<1>1. {u, v} = {v, u}
  OBVIOUS
<1> QED
  BY <1>1 DEF match_except_index

(* A target of redirections is none itself.                                 *)
LEMMA DestIsFinal ==
  ASSUME web \in Webs, NEW u \in URL
  PROVE  /\ Dest(web, u) \in URL /\ Dest(web, Dest(web, u)) = Dest(web, u)
         /\ web.name[u] \in File
BY RecurAssumption DEF Dest, File

\* What register_download makes of the maps m.
RegisterRule(r, m, url, file) ==
  /\ MapsAgree(r)
  /\ file \in DOMAIN r.f2u /\ match_except_index(url, r.f2u[file])
  /\ \A f \in DOMAIN r.f2u : f # file => f \in DOMAIN m.f2u /\ r.f2u[f] = m.f2u[f]
  /\ \A u \in DOMAIN m.u2f :
       u # url /\ m.u2f[u] # file => u \in DOMAIN r.u2f /\ r.u2f[u] = m.u2f[u]
  /\ file \notin DOMAIN m.f2u => url \in DOMAIN r.u2f /\ r.u2f[url] = file
  /\ DOMAIN r.u2f \subseteq DOMAIN m.u2f \cup {url}

(* register_download keeps the maps in agreement, whether the file is new,  *)
(* was this URL's, a twin's or another's.                                   *)
LEMMA RegisterDownload ==
  ASSUME NEW m, MapsAgree(m), NEW url \in URL, Dest(web, url) = url, NEW file \in File
  PROVE  RegisterRule(register_download(m, url, file), m, url, file)
<1> DEFINE r == register_download(m, url, file)
           known == file \in DOMAIN m.f2u
           twin == match_except_index(url, m.f2u[file]) /\ url \notin DOMAIN m.u2f
<1>1. /\ DOMAIN m.u2f \subseteq URL /\ DOMAIN m.f2u \subseteq File
      /\ \A f \in DOMAIN m.f2u : m.f2u[f] \in URL
      /\ \A u \in DOMAIN m.u2f :
           m.u2f[u] \in DOMAIN m.f2u /\ match_except_index(m.f2u[m.u2f[u]], Dest(web, u))
  BY DEF MapsAgree
<1>2. CASE known /\ m.f2u[file] = url
  <2>1. r = m
    BY <1>2 DEF register_download
  <2>2. match_except_index(url, m.f2u[file])
    BY <1>2, MatchSymmetric
  <2> HIDE DEF r
  <2> QED
    BY <1>2, <2>1, <2>2 DEF RegisterRule, r
<1>3. CASE known /\ m.f2u[file] # url /\ twin
  <2>1. r = [u2f |-> With(m.u2f, url, file), f2u |-> m.f2u]
    BY <1>3 DEF register_download
  <2>2. /\ r.f2u = m.f2u
        /\ DOMAIN r.u2f = DOMAIN m.u2f \cup {url} /\ r.u2f[url] = file
        /\ \A u \in DOMAIN m.u2f : u # url => r.u2f[u] = m.u2f[u]
    BY <2>1 DEF With
  <2>3. match_except_index(m.f2u[file], url) /\ match_except_index(url, m.f2u[file])
    BY <1>3, MatchSymmetric
  <2> HIDE DEF r
  <2>4. MapsAgree(r)
    <3>1. ASSUME NEW u \in DOMAIN r.u2f
          PROVE  r.u2f[u] \in DOMAIN r.f2u /\ match_except_index(r.f2u[r.u2f[u]], Dest(web, u))
      <4>1. CASE u = url
        BY <1>3, <2>2, <2>3, <4>1
      <4>2. CASE u # url
        <5>1. u \in DOMAIN m.u2f /\ r.u2f[u] = m.u2f[u]
          BY <2>2, <4>2
        <5> QED
          BY <1>1, <2>2, <5>1
      <4> QED
        BY <4>1, <4>2
    <3> QED
      BY <1>1, <2>2, <3>1 DEF MapsAgree
  <2> QED
    BY <1>3, <2>2, <2>3, <2>4 DEF RegisterRule, r
<1>4. CASE ~known \/ (m.f2u[file] # url /\ ~twin)
  <2> DEFINE rest == IF known THEN dissociate_urls_from_file(m.u2f, file) ELSE m.u2f
  <2>1. r = [u2f |-> With(rest, url, file), f2u |-> With(m.f2u, file, url)]
    BY <1>4 DEF register_download
  <2>2. /\ DOMAIN rest \subseteq DOMAIN m.u2f
        /\ \A u \in DOMAIN m.u2f : m.u2f[u] # file => u \in DOMAIN rest
        /\ \A u \in DOMAIN rest : rest[u] = m.u2f[u] /\ rest[u] # file
    <3>1. CASE known
      BY <3>1 DEF dissociate_urls_from_file, Restrict
    <3>2. CASE ~known
      BY <1>1, <3>2
    <3> QED
      BY <3>1, <3>2
  <2> HIDE DEF rest
  <2>3. r.u2f = With(rest, url, file) /\ r.f2u = With(m.f2u, file, url)
    BY <2>1
  <2> HIDE DEF r
  <2>4. /\ DOMAIN r.u2f = DOMAIN rest \cup {url} /\ r.u2f[url] = file
        /\ \A u \in DOMAIN rest : u # url => r.u2f[u] = rest[u]
    BY <2>3 DEF With
  <2>5. /\ DOMAIN r.f2u = DOMAIN m.f2u \cup {file} /\ r.f2u[file] = url
        /\ \A f \in DOMAIN m.f2u : f # file => r.f2u[f] = m.f2u[f]
    BY <2>3 DEF With
  <2>6. match_except_index(url, url)
    BY MatchSymmetric
  <2>7. ASSUME NEW u \in DOMAIN r.u2f
        PROVE  r.u2f[u] \in DOMAIN r.f2u /\ match_except_index(r.f2u[r.u2f[u]], Dest(web, u))
    <3>1. CASE u = url
      BY <2>4, <2>5, <2>6, <3>1
    <3>2. CASE u # url
      <4>1. u \in DOMAIN m.u2f /\ r.u2f[u] = m.u2f[u] /\ m.u2f[u] # file
        BY <2>2, <2>4, <3>2
      <4> QED
        BY <1>1, <2>5, <4>1
    <3> QED
      BY <3>1, <3>2
  <2>8. MapsAgree(r)
    <3>1. DOMAIN r.u2f \subseteq URL /\ DOMAIN r.f2u \subseteq File
      BY <1>1, <2>2, <2>4, <2>5
    <3>2. \A f \in DOMAIN r.f2u : r.f2u[f] \in URL
      BY <1>1, <2>5
    <3> QED
      BY <2>7, <3>1, <3>2 DEF MapsAgree
  <2>9. \A u \in DOMAIN m.u2f :
          u # url /\ m.u2f[u] # file => u \in DOMAIN r.u2f /\ r.u2f[u] = m.u2f[u]
    BY <2>2, <2>4
  <2> QED
    BY <2>2, <2>4, <2>5, <2>6, <2>8, <2>9 DEF RegisterRule, r
<1> QED
  BY <1>2, <1>3, <1>4

(* register_redirection gives the URL the file of its target.               *)
LEMMA RegisterRedirection ==
  ASSUME NEW m, MapsAgree(m), NEW from \in URL, from \notin DOMAIN m.u2f,
         NEW to \in DOMAIN m.u2f, Dest(web, from) = to, Dest(web, to) = to
  PROVE  LET r == register_redirection(m, from, to)
         IN /\ MapsAgree(r) /\ r.f2u = m.f2u
            /\ DOMAIN r.u2f = DOMAIN m.u2f \cup {from}
            /\ \A u \in DOMAIN m.u2f : r.u2f[u] = m.u2f[u]
            /\ r.u2f[from] = m.u2f[to]
<1> DEFINE r == register_redirection(m, from, to)
<1>1. r = [u2f |-> With(m.u2f, from, m.u2f[to]), f2u |-> m.f2u]
  BY DEF register_redirection
<1>2. r.u2f = With(m.u2f, from, m.u2f[to]) /\ r.f2u = m.f2u
  BY <1>1
<1> HIDE DEF r
<1>3. /\ DOMAIN r.u2f = DOMAIN m.u2f \cup {from}
      /\ \A u \in DOMAIN m.u2f : r.u2f[u] = m.u2f[u]
      /\ r.u2f[from] = m.u2f[to]
  BY <1>2 DEF With
<1>4. MapsAgree(r)
  <2>1. ASSUME NEW u \in DOMAIN r.u2f
        PROVE  r.u2f[u] \in DOMAIN r.f2u /\ match_except_index(r.f2u[r.u2f[u]], Dest(web, u))
    <3>1. PICK v \in DOMAIN m.u2f : r.u2f[u] = m.u2f[v] /\ Dest(web, u) = Dest(web, v)
      BY <1>3
    <3> QED
      BY <1>2, <3>1 DEF MapsAgree
  <2> QED
    BY <1>2, <1>3, <2>1 DEF MapsAgree
<1> QED
  BY <1>2, <1>3, <1>4 DEF r

(* register_delete_file forgets the file and its URLs, and nothing else.    *)
LEMMA RegisterDelete ==
  ASSUME NEW m, MapsAgree(m), NEW file \in DOMAIN m.f2u
  PROVE  LET r == register_delete_file(m, file)
         IN /\ MapsAgree(r)
            /\ DOMAIN r.f2u = DOMAIN m.f2u \ {file}
            /\ \A f \in DOMAIN r.f2u : r.f2u[f] = m.f2u[f]
            /\ DOMAIN r.u2f = {u \in DOMAIN m.u2f : m.u2f[u] # file}
            /\ \A u \in DOMAIN r.u2f : r.u2f[u] = m.u2f[u]
<1> DEFINE r == register_delete_file(m, file)
<1>1. r = [u2f |-> dissociate_urls_from_file(m.u2f, file),
           f2u |-> Restrict(m.f2u, DOMAIN m.f2u \ {file})]
  BY DEF register_delete_file
<1>2. /\ r.u2f = dissociate_urls_from_file(m.u2f, file)
      /\ r.f2u = Restrict(m.f2u, DOMAIN m.f2u \ {file})
  BY <1>1
<1> HIDE DEF r
<1>3. /\ DOMAIN r.f2u = DOMAIN m.f2u \ {file}
      /\ \A f \in DOMAIN r.f2u : r.f2u[f] = m.f2u[f]
  BY <1>2 DEF Restrict
<1>4. /\ DOMAIN r.u2f = {u \in DOMAIN m.u2f : m.u2f[u] # file}
      /\ \A u \in DOMAIN r.u2f : r.u2f[u] = m.u2f[u]
  BY <1>2 DEF dissociate_urls_from_file, Restrict
<1>5. MapsAgree(r)
  <2>1. ASSUME NEW u \in DOMAIN r.u2f
        PROVE  r.u2f[u] \in DOMAIN r.f2u /\ match_except_index(r.f2u[r.u2f[u]], Dest(web, u))
    <3>1. u \in DOMAIN m.u2f /\ r.u2f[u] = m.u2f[u] /\ m.u2f[u] # file
      BY <1>4
    <3>2. m.u2f[u] \in DOMAIN m.f2u /\ match_except_index(m.f2u[m.u2f[u]], Dest(web, u))
      BY <3>1 DEF MapsAgree
    <3> QED
      BY <1>3, <3>1, <3>2
  <2> QED
    BY <1>3, <1>4, <2>1 DEF MapsAgree
<1> QED
  BY <1>3, <1>4, <1>5 DEF r

-----------------------------------------------------------------------------
(* A document arrives: the maps m are those before it, and the URL u that   *)
(* was asked for is not among them.                                         *)

Arrived(m, u) == register_download(m, Dest(web, u), web.name[u])

(* The maps agree after register_download, and know the file.               *)
LEMMA ArrivedAgrees ==
  ASSUME web \in Webs, NEW m, MapsAgree(m), NEW u \in URL
  PROVE  RegisterRule(Arrived(m, u), m, Dest(web, u), web.name[u])
BY DestIsFinal, RegisterDownload DEF Arrived

(* The file that was overwritten holds what it is registered under.         *)
LEMMA ArrivedHeld ==
  ASSUME web \in Webs, NEW m, MapsAgree(m), NEW u \in URL,
         NEW d \in [File -> URL \cup {NoDoc, Partial}], Held(m, d)
  PROVE  LET e == [d EXCEPT ![web.name[u]] = Dest(web, u)]
         IN e \in [File -> URL \cup {NoDoc, Partial}] /\ Held(Arrived(m, u), e)
<1> DEFINE r == Arrived(m, u)
           doc == Dest(web, u)
           file == web.name[u]
           e == [d EXCEPT ![file] = doc]
<1>1. doc \in URL /\ file \in File
  BY DestIsFinal
<1>2. RegisterRule(r, m, doc, file)
  BY ArrivedAgrees
<1> HIDE DEF r, doc, file
<1>3. /\ e \in [File -> URL \cup {NoDoc, Partial}]
      /\ e[file] = doc /\ \A f \in File : f # file => e[f] = d[f]
  BY <1>1
<1> HIDE DEF e
<1>4. ASSUME NEW f \in DOMAIN r.f2u
      PROVE  e[f] = Partial \/ (e[f] \in URL /\ match_except_index(e[f], r.f2u[f]))
  <2>1. CASE f = file
    BY <1>1, <1>2, <1>3, <2>1 DEF RegisterRule
  <2>2. CASE f # file
    <3>1. f \in DOMAIN m.f2u /\ r.f2u[f] = m.f2u[f]
      BY <1>2, <2>2 DEF RegisterRule
    <3>2. f \in File
      BY <3>1 DEF MapsAgree
    <3> QED
      BY <1>3, <2>2, <3>1, <3>2 DEF Held
  <2> QED
    BY <2>1, <2>2
<1> QED
  BY <1>3, <1>4 DEF Held, e, r, doc, file

(* If names differ, the target of a redirection is known after              *)
(* register_download: its file was not known before, since the URL that has *)
(* moved would have been known too.                                         *)
LEMMA ArrivedKnown ==
  ASSUME web \in Webs, NEW m, MapsAgree(m), MovedKnown(m), NEW u \in URL,
         u \notin DOMAIN m.u2f, Dest(web, u) # u, IsInjective(web.name)
  PROVE  /\ Dest(web, u) \in DOMAIN Arrived(m, u).u2f
         /\ Arrived(m, u).u2f[Dest(web, u)] = web.name[u]
<1>1. web.name[u] \notin DOMAIN m.f2u
  BY DEF MovedKnown
<1>2. RegisterRule(Arrived(m, u), m, Dest(web, u), web.name[u])
  BY ArrivedAgrees
<1> QED
  BY <1>1, <1>2 DEF RegisterRule

(* All other URLs that have moved are as they were.                         *)
LEMMA OthersKnown ==
  ASSUME web \in Webs, NEW m, MapsAgree(m), MovedKnown(m), NEW u \in URL,
         IsInjective(web.name),
         NEW v \in URL, v # u, Dest(web, v) # v, web.name[v] \in DOMAIN Arrived(m, u).f2u
  PROVE  v \in DOMAIN Arrived(m, u).u2f /\ Arrived(m, u).u2f[v] = web.name[v]
<1>1. RegisterRule(Arrived(m, u), m, Dest(web, u), web.name[u])
  BY ArrivedAgrees
<1>2. web.name[v] # web.name[u]
  <2>1. DOMAIN web.name = URL
    BY RecurAssumption
  <2> QED
    BY <2>1 DEF IsInjective
<1>3. web.name[v] \in DOMAIN m.f2u
  BY <1>1, <1>2 DEF RegisterRule
<1>4. v \in DOMAIN m.u2f /\ m.u2f[v] = web.name[v]
  BY <1>3 DEF MovedKnown
<1>5. v # Dest(web, u)
  BY DestIsFinal
<1> QED
  BY <1>1, <1>2, <1>4, <1>5 DEF RegisterRule

(* After register_download of a URL that has not moved.                     *)
LEMMA ArrivedDirectly ==
  ASSUME web \in Webs, NEW m, MapsAgree(m), MovedKnown(m), NEW u \in URL, Dest(web, u) = u
  PROVE  MovedKnown(Arrived(m, u))
<1> SUFFICES ASSUME IsInjective(web.name), NEW v \in URL, Dest(web, v) # v,
                    web.name[v] \in DOMAIN Arrived(m, u).f2u
             PROVE  v \in DOMAIN Arrived(m, u).u2f /\ Arrived(m, u).u2f[v] = web.name[v]
  BY DEF MovedKnown
<1>1. v # u
  OBVIOUS
<1> QED
  BY <1>1, OthersKnown

(* After register_redirection, for a URL that has moved.                    *)
LEMMA ArrivedRedirected ==
  ASSUME web \in Webs, NEW m, MapsAgree(m), MovedKnown(m), NEW u \in URL,
         u \notin DOMAIN m.u2f, Dest(web, u) # u, Dest(web, u) \in DOMAIN Arrived(m, u).u2f
  PROVE  LET r == register_redirection(Arrived(m, u), u, Dest(web, u))
         IN MapsAgree(r) /\ MovedKnown(r) /\ r.f2u = Arrived(m, u).f2u
<1> DEFINE doc == Dest(web, u)
           a == Arrived(m, u)
           r == register_redirection(a, u, doc)
<1>1. RegisterRule(a, m, doc, web.name[u])
  BY ArrivedAgrees
<1>2. Dest(web, doc) = doc
  BY DestIsFinal
<1>3. u \notin DOMAIN a.u2f
  BY <1>1 DEF RegisterRule
<1>4. /\ MapsAgree(r) /\ r.f2u = a.f2u
      /\ DOMAIN r.u2f = DOMAIN a.u2f \cup {u}
      /\ \A v \in DOMAIN a.u2f : r.u2f[v] = a.u2f[v]
      /\ r.u2f[u] = a.u2f[doc]
  <2>1. MapsAgree(a)
    BY <1>1 DEF RegisterRule
  <2> HIDE DEF a, doc
  <2>2. doc = Dest(web, u) /\ doc \in DOMAIN a.u2f
    BY DEF doc, a
  <2> QED
    BY <1>2, <1>3, <2>1, <2>2, RegisterRedirection
<1> HIDE DEF r
<1>5. MovedKnown(r)
  <2> SUFFICES ASSUME IsInjective(web.name), NEW v \in URL, Dest(web, v) # v,
                      web.name[v] \in DOMAIN r.f2u
               PROVE  v \in DOMAIN r.u2f /\ r.u2f[v] = web.name[v]
    BY DEF MovedKnown
  <2>1. CASE v = u
    <3>1. a.u2f[doc] = web.name[u]
      BY ArrivedKnown
    <3> QED
      BY <1>4, <2>1, <3>1
  <2>2. CASE v # u
    <3>1. v \in DOMAIN a.u2f /\ a.u2f[v] = web.name[v]
      BY <1>4, <2>2, OthersKnown
    <3> QED
      BY <1>4, <3>1
  <2> QED
    BY <2>1, <2>2
<1> QED
  BY <1>4, <1>5 DEF r, a, doc

(* The file and its URLs are kept, or forgotten together.                   *)
LEMMA KeepOrDeleteKeeps ==
  ASSUME web' = web, NEW m, MapsAgree(m), MovedKnown(m), NEW file \in DOMAIN m.f2u,
         NEW d \in [File -> URL \cup {NoDoc, Partial}], Held(m, d),
         KeepOrDelete(m, d, file)
  PROVE  MapsInv'
<1>1. ASSUME NEW r, SetMaps(r), MapsAgree(r), MovedKnown(r), Held(r, disk'),
             disk' \in [File -> URL \cup {NoDoc, Partial}]
      PROVE  MapsInv'
  <2>1. Maps'.u2f = r.u2f /\ Maps'.f2u = r.f2u
    BY <1>1 DEF SetMaps, Maps
  <2>2. File' = File
    BY DEF File
  <2>3. MapsAgree(Maps)'
    BY <1>1, <2>1, <2>2 DEF MapsAgree, match_except_index
  <2>4. MovedKnown(Maps)'
    BY <1>1, <2>1 DEF MovedKnown
  <2>5. Held(Maps, disk)'
    BY <1>1, <2>1 DEF Held, match_except_index
  <2> QED
    BY <1>1, <2>2, <2>3, <2>4, <2>5 DEF MapsInv
<1>2. CASE ~Unneeded(file)
  BY <1>1, <1>2 DEF KeepOrDelete
<1>3. CASE Unneeded(file)
  <2> DEFINE r == register_delete_file(m, file)
  <2>1. SetMaps(r) /\ disk' = [d EXCEPT ![file] = NoDoc]
    BY <1>3 DEF KeepOrDelete
  <2>2. /\ MapsAgree(r)
        /\ DOMAIN r.f2u = DOMAIN m.f2u \ {file}
        /\ \A f \in DOMAIN r.f2u : r.f2u[f] = m.f2u[f]
        /\ DOMAIN r.u2f = {u \in DOMAIN m.u2f : m.u2f[u] # file}
        /\ \A u \in DOMAIN r.u2f : r.u2f[u] = m.u2f[u]
    BY RegisterDelete
  <2> HIDE DEF r
  <2>3. file \in File /\ DOMAIN m.f2u \subseteq File
    BY DEF MapsAgree
  <2>4. disk' \in [File -> URL \cup {NoDoc, Partial}] /\ \A f \in File : f # file => disk'[f] = d[f]
    BY <2>1, <2>3
  <2>5. Held(r, disk')
    BY <2>2, <2>3, <2>4 DEF Held
  <2>6. MovedKnown(r)
    <3> SUFFICES ASSUME IsInjective(web.name), NEW v \in URL, Dest(web, v) # v,
                        web.name[v] \in DOMAIN r.f2u
                 PROVE  v \in DOMAIN r.u2f /\ r.u2f[v] = web.name[v]
      BY DEF MovedKnown
    <3>1. web.name[v] \in DOMAIN m.f2u /\ web.name[v] # file
      BY <2>2
    <3>2. v \in DOMAIN m.u2f /\ m.u2f[v] = web.name[v]
      BY <3>1 DEF MovedKnown
    <3> QED
      BY <2>2, <3>1, <3>2
  <2> QED
    BY <1>1, <2>1, <2>2, <2>4, <2>5, <2>6
<1> QED
  BY <1>2, <1>3

-----------------------------------------------------------------------------
(* Every step keeps the maps in agreement with the files.                  *)

(* Nothing but the maps and the files matters to MapsInv.                   *)
LEMMA SameMaps ==
  ASSUME MapsInv, web' = web, disk' = disk,
         dl_url_file_map' = dl_url_file_map, dl_file_url_map' = dl_file_url_map
  PROVE  MapsInv'
<1>1. Maps' = Maps /\ File' = File
  BY DEF Maps, File
<1> QED
  BY <1>1 DEF MapsInv, MapsAgree, Held, MovedKnown, match_except_index

(* What the loop takes from the queue is a URL.                             *)
LEMMA FirstIsUrl ==
  ASSUME TreeInv, InLoop
  PROVE  First.url \in URL /\ web \in Webs
<1>1. First \in Entry
  BY RestGood DEF TreeInv, Todo
<1> QED
  BY <1>1 DEF TreeInv, Entry

(* Every step keeps MapsInv.                                                *)
LEMMA StepKeepsMaps ==
  ASSUME TreeInv, MapsInv, [RecurNext]_recurVars
  PROVE  MapsInv'
<1>1. CASE UNCHANGED recurVars
  BY <1>1, SameMaps DEF recurVars, maps
<1>2. CASE RetrieveTree
  BY <1>2, SameMaps DEF RetrieveTree, maps
<1>3. CASE TreeEnds
  BY <1>3, SameMaps DEF TreeEnds, maps
<1>4. CASE Reuse
  <2> DEFINE file == dl_url_file_map[First.url]
  <2>1. /\ InLoop /\ First.url \in DOMAIN dl_url_file_map
        /\ KeepOrDelete(Maps, disk, file) /\ web' = web
    BY <1>4 DEF Reuse, First
  <2>2. file \in DOMAIN Maps.f2u
    BY <2>1 DEF MapsInv, MapsAgree, Maps
  <2> QED
    BY <2>1, <2>2, KeepOrDeleteKeeps DEF MapsInv
<1>5. CASE Download
  <2> DEFINE u == First.url
             doc == Dest(web, u)
             file == web.name[u]
             a == Arrived(Maps, u)
             m == IF doc # u THEN register_redirection(a, u, doc) ELSE a
             d == [disk EXCEPT ![file] = doc]
  <2>1. /\ InLoop /\ u \notin DOMAIN dl_url_file_map /\ ~Stranded(First)
        /\ KeepOrDelete(m, d, file) /\ web' = web
    BY <1>5 DEF Download, First, Arrived
  <2>2. u \in URL /\ web \in Webs /\ u \notin DOMAIN Maps.u2f
    BY <2>1, FirstIsUrl DEF Maps
  <2>3. doc # u => doc \in DOMAIN a.u2f
    BY <2>1 DEF Stranded, Arrived
  <2>4. /\ MapsAgree(Maps) /\ MovedKnown(Maps) /\ Held(Maps, disk)
        /\ disk \in [File -> URL \cup {NoDoc, Partial}]
    BY DEF MapsInv
  <2>5. MapsAgree(a) /\ file \in DOMAIN a.f2u
    BY <2>2, <2>4, ArrivedAgrees DEF RegisterRule
  <2>6. d \in [File -> URL \cup {NoDoc, Partial}] /\ Held(a, d)
    BY <2>2, <2>4, ArrivedHeld
  <2>7. MapsAgree(m) /\ MovedKnown(m) /\ m.f2u = a.f2u
    <3>1. CASE doc = u
      BY <2>2, <2>4, <2>5, <3>1, ArrivedDirectly
    <3>2. CASE doc # u
      BY <2>2, <2>3, <2>4, <3>2, ArrivedRedirected
    <3> QED
      BY <3>1, <3>2
  <2> HIDE DEF m, a, d
  <2>8. Held(m, d) /\ file \in DOMAIN m.f2u
    BY <2>5, <2>6, <2>7 DEF Held
  <2> QED
    BY <2>1, <2>6, <2>7, <2>8, KeepOrDeleteKeeps
<1>6. CASE RedirectionCrashes
  <2> DEFINE u == First.url
             doc == Dest(web, u)
             file == web.name[u]
             a == Arrived(Maps, u)
  <2>1. /\ InLoop /\ u \notin DOMAIN dl_url_file_map /\ Stranded(First)
        /\ SetMaps(a) /\ disk' = [disk EXCEPT ![file] = doc] /\ web' = web
    BY <1>6 DEF RedirectionCrashes, First, Arrived
  <2>2. u \in URL /\ web \in Webs /\ u \notin DOMAIN Maps.u2f
    BY <2>1, FirstIsUrl DEF Maps
  <2>3. doc # u /\ doc \notin DOMAIN a.u2f
    BY <2>1 DEF Stranded, Arrived
  <2>4. /\ MapsAgree(Maps) /\ MovedKnown(Maps) /\ Held(Maps, disk)
        /\ disk \in [File -> URL \cup {NoDoc, Partial}]
    BY DEF MapsInv
  <2>5. MapsAgree(a)
    BY <2>2, <2>4, ArrivedAgrees DEF RegisterRule
  <2>6. disk' \in [File -> URL \cup {NoDoc, Partial}] /\ Held(a, disk')
    BY <2>1, <2>2, <2>4, ArrivedHeld
  <2>7. ~IsInjective(web.name)
    BY <2>2, <2>3, <2>4, ArrivedKnown
  <2> HIDE DEF a
  <2>8. Maps'.u2f = a.u2f /\ Maps'.f2u = a.f2u /\ File' = File
    BY <2>1 DEF SetMaps, Maps, File
  <2>9. MapsAgree(Maps)'
    BY <2>1, <2>5, <2>8 DEF MapsAgree, match_except_index
  <2>10. Held(Maps, disk)'
    BY <2>1, <2>6, <2>8 DEF Held, match_except_index
  <2>11. MovedKnown(Maps)'
    BY <2>1, <2>7 DEF MovedKnown
  <2> QED
    BY <2>6, <2>8, <2>9, <2>10, <2>11 DEF MapsInv
<1>7. CASE DownloadFails
  <2> DEFINE file == web.name[First.url]
  <2>1. /\ InLoop /\ web' = web /\ Maps' = Maps
        /\ disk' = disk \/ disk' = [disk EXCEPT ![file] = Partial]
    BY <1>7 DEF DownloadFails, First, maps, Maps
  <2>2. file \in File /\ File' = File
    BY <2>1, FirstIsUrl, DestIsFinal DEF File
  <2> HIDE DEF file
  <2>3. disk \in [File -> URL \cup {NoDoc, Partial}]
    BY DEF MapsInv
  <2>4. /\ disk' \in [File -> URL \cup {NoDoc, Partial}]
        /\ \A f \in File : disk'[f] \in {disk[f], Partial}
    BY <2>1, <2>2, <2>3
  <2>5. MapsAgree(Maps)' /\ MovedKnown(Maps)'
    BY <2>1, <2>2 DEF MapsInv, MapsAgree, MovedKnown, match_except_index
  <2>6. Held(Maps, disk)'
    <3> SUFFICES ASSUME NEW f \in DOMAIN Maps.f2u
                 PROVE  \/ disk'[f] = Partial
                        \/ disk'[f] \in URL /\ match_except_index(disk'[f], Maps.f2u[f])
      BY <2>1 DEF Held, match_except_index
    <3>1. f \in File
      BY DEF MapsInv, MapsAgree
    <3> QED
      BY <2>4, <3>1 DEF MapsInv, Held
  <2> QED
    BY <2>2, <2>4, <2>5, <2>6 DEF MapsInv
<1>8. CASE convert_all_links
  BY <1>8, SameMaps DEF convert_all_links, maps
<1> QED
  BY <1>1, <1>2, <1>3, <1>4, <1>5, <1>6, <1>7, <1>8 DEF RecurNext

(* Pages are made once, at the end, out of the maps.                        *)
LEMMA StepKeepsPages ==
  ASSUME PagesInv, [RecurNext]_recurVars
  PROVE  PagesInv'
<1>1. CASE UNCHANGED recurVars
  BY <1>1 DEF PagesInv, recurVars, maps
<1>2. CASE RetrieveTree \/ TreeEnds \/ Reuse \/ Download \/ RedirectionCrashes \/ DownloadFails
  <2>1. pages' = pages /\ at' # "done" /\ at # "done"
    BY <1>2 DEF RetrieveTree, TreeEnds, Reuse, Download, RedirectionCrashes, DownloadFails, InLoop
  <2>2. pages' = << >> /\ DOMAIN pages' = {}
    BY <2>1 DEF PagesInv
  <2> QED
    BY <2>2 DEF PagesInv
<1>3. CASE convert_all_links
  <2> DEFINE S == {x \in downloaded_html_set \cup downloaded_css_set :
                     x \in DOMAIN dl_file_url_map /\ disk[x] \in URL}
             P == [f \in S |-> [u \in Linked(disk[f]) |->
                     IF u \in DOMAIN dl_url_file_map THEN dl_url_file_map[u] ELSE Complete]]
  <2>1. /\ at' = "done" /\ dl_url_file_map' = dl_url_file_map
        /\ pages' = << >> \/ pages' = P
    BY <1>3 DEF convert_all_links, maps
  <2>2. CASE pages' = << >>
    <3>1. DOMAIN pages' = {}
      BY <2>2
    <3> QED
      BY <2>1, <3>1 DEF PagesInv
  <2>3. CASE pages' = P
    <3>1. ASSUME NEW f \in DOMAIN pages', NEW u \in DOMAIN pages'[f], pages'[f][u] # Complete
          PROVE  u \in DOMAIN dl_url_file_map /\ pages'[f][u] = dl_url_file_map[u]
      BY <2>3, <3>1
    <3> QED
      BY <2>1, <3>1 DEF PagesInv
  <2> QED
    BY <2>1, <2>2, <2>3
<1> QED
  BY <1>1, <1>2, <1>3 DEF RecurNext

(* The maps are empty at the start.                                         *)
LEMMA InitMaps ==
  ASSUME RecurInit
  PROVE  MapsInv /\ PagesInv
<1>1. /\ Maps = [u2f |-> << >>, f2u |-> << >>]
      /\ disk = [f \in File |-> NoDoc] /\ pages = << >> /\ at = "main"
  BY DEF RecurInit, Maps
<1>2. DOMAIN Maps.u2f = {} /\ DOMAIN Maps.f2u = {} /\ DOMAIN pages = {}
  BY <1>1
<1>3. MapsAgree(Maps) /\ Held(Maps, disk) /\ MovedKnown(Maps)
  BY <1>2 DEF MapsAgree, Held, MovedKnown
<1> QED
  BY <1>1, <1>2, <1>3 DEF MapsInv, PagesInv

(* RecurInv is an invariant.                                                *)
LEMMA RecurInvariant == RecurSpec => []RecurInv
<1>1. RecurInit => RecurInv
  BY InitTree, InitMaps DEF RecurInv
<1>2. RecurInv /\ [RecurNext]_recurVars => RecurInv'
  BY StepKeepsTree, StepKeepsMaps, StepKeepsPages DEF RecurInv
<1> QED
  BY <1>1, <1>2, PTL DEF RecurSpec

(* A URL that the maps know, and every relative link that convert_all_links *)
(* made, leads to a file that is registered under this URL's document and   *)
(* that holds it, up to "/index.html" and to failed retrievals, whatever    *)
(* was deleted, overwritten or redirected.                                  *)
THEOREM LinksLeadHolds == RecurSpec => []LinksLead
<1>1. RecurInv => LinksLead
  <2> SUFFICES ASSUME RecurInv PROVE LinksLead
    OBVIOUS
  <2>1. ASSUME NEW u \in DOMAIN dl_url_file_map
        PROVE  LET f == dl_url_file_map[u]
               IN /\ f \in DOMAIN dl_file_url_map
                  /\ match_except_index(dl_file_url_map[f], Dest(web, u))
                  /\ \/ disk[f] = Partial
                     \/ disk[f] \in URL /\ match_except_index(disk[f], dl_file_url_map[f])
    BY <2>1 DEF RecurInv, MapsInv, MapsAgree, Held, Maps
  <2>2. ASSUME NEW f \in DOMAIN pages, NEW u \in DOMAIN pages[f], pages[f][u] # Complete
        PROVE  u \in DOMAIN dl_url_file_map /\ pages[f][u] = dl_url_file_map[u]
    BY <2>2 DEF RecurInv, PagesInv
  <2> QED
    BY <2>1, <2>2 DEF LinksLead
<1> QED
  BY <1>1, RecurInvariant, PTL

\* TargetRegistered can fail where two URLs share a local name, and only there:
\* a target that is reached from several URLs is forgotten with its last file.
RegisteredIfNamesDiffer == IsInjective(web.name) => TargetRegistered

(* "This assumes that TO is successfully downloaded and already             *)
(* registered": register_redirection is never called for a target without a *)
(* file, if no two URLs have the same local name.                           *)
THEOREM RegisteredIfNamesDifferHolds == RecurSpec => []RegisteredIfNamesDiffer
<1>1. RecurInv => RegisteredIfNamesDiffer
  <2> SUFFICES ASSUME RecurInv, IsInjective(web.name), InLoop,
                      First.url \notin DOMAIN dl_url_file_map, Stranded(First)
               PROVE  FALSE
    BY DEF RegisteredIfNamesDiffer, TargetRegistered, First
  <2>1. First.url \in URL /\ web \in Webs /\ First.url \notin DOMAIN Maps.u2f
    BY FirstIsUrl DEF RecurInv, Maps
  <2>2. Dest(web, First.url) # First.url
        /\ Dest(web, First.url) \notin DOMAIN Arrived(Maps, First.url).u2f
    BY DEF Stranded, Arrived
  <2> QED
    BY <2>1, <2>2, ArrivedKnown DEF RecurInv, MapsInv
<1> QED
  BY <1>1, RecurInvariant, PTL
===============================================================================
