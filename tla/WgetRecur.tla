------------------------------ MODULE WgetRecur ------------------------------
(***************************************************************************)
(* Recursive retrieval of wget -r (userland/wget/src/recur.c), the two     *)
(* maps between URLs and local files that it shares with the conversion    *)
(* of links (convert.c), and the exit status (exits.c).                    *)
(*                                                                         *)
(* One process works through its command line, a tree at a time; a pass of *)
(* retrieve_tree's loop is one action, with the outcome of retrieve_url    *)
(* (WgetHttp says how it comes about) as its choice.  A document is named  *)
(* by its URL.  wget -r names files after URLs (opt.dirstruct), so a file  *)
(* that is there already is overwritten.  Without -e trust_server_names    *)
(* the name comes from the URL before redirections.                        *)
(***************************************************************************)
EXTENDS Integers, Sequences, FiniteSets, Functions, SequencesExt

CONSTANTS
  URL,
  Webs,         \* what the servers have
  Settings,     \* the command lines considered
  Starts,       \* the URLs on the command line
  MaxFailures   \* bound on failing retrievals

INFINITE_RECURSION == -1
NoDoc == "none"           \* no such file
Partial == "partial"      \* what a broken retrieval leaves
Complete == "complete"    \* a link that leads to the server

(* A web gives every URL a kind ("html", "css", "other": any other type, or *)
(* "moved"), where a moved one leads, the links in its document, its host,  *)
(* its local name and its form without escapes, which several may share;    *)
(* twins are the pairs that differ only in the "/index.html" ending.  A     *)
(* link is [url, inline, relative, expect].                                 *)
Dest(w, u) == IF w.kind[u] = "moved" THEN w.to[u] ELSE u

Expected == {"html", "css", "none"}
Link == [url : URL, inline : BOOLEAN, relative : BOOLEAN, expect : Expected]

ASSUME RecurAssumption ==
  /\ Starts \in Seq(URL) /\ MaxFailures \in Nat
  /\ {NoDoc, Partial} \cap URL = {}
  /\ \A w \in Webs : DOMAIN w.name = URL
  /\ \A w \in Webs : \A u \in URL :
       /\ w.kind[u] \in {"html", "css", "other", "moved"}
       /\ Dest(w, u) \in URL /\ w.kind[Dest(w, u)] # "moved"
       /\ w.links[u] \in Seq(Link)
  /\ \A o \in Settings :
       /\ o.reclevel \in Nat \cup {INFINITE_RECURSION}
       /\ {o.page_requisites, o.spanhost, o.delete_after, o.relative_only}
            \subseteq BOOLEAN
       /\ o.refused \cup o.above \cup o.excluded \cup o.forbidden \subseteq URL

VARIABLES
  web, opts,            \* never change
  starts,               \* the URLs of the command line that are left
  at,                   \* "main", "tree", "done", "crashed"
  queue, blacklist,     \* of the tree
  status,               \* what the last retrieve_url returned
  dl_url_file_map, dl_file_url_map, downloaded_html_set, downloaded_css_set,
  disk,                 \* the document in every local file
  pages,                \* the links of the files that were converted
  bytes,                \* total_downloaded_bytes
  final_exit_status,
  failures, asked, got  \* history: how many retrievals failed, the URLs that
                        \* this tree requested, and all that were downloaded

maps == <<dl_url_file_map, dl_file_url_map, downloaded_html_set, downloaded_css_set>>
recurVars == <<web, opts, starts, at, queue, blacklist, status, maps, disk, pages,
               bytes, final_exit_status, failures, asked, got>>

File == {web.name[u] : u \in URL}

RecurInit ==
  /\ web \in Webs /\ opts \in Settings
  /\ starts = Starts /\ at = "main"
  /\ queue = <<>> /\ blacklist = {} /\ status = "RETROK"
  /\ dl_url_file_map = << >> /\ dl_file_url_map = << >>
  /\ downloaded_html_set = {} /\ downloaded_css_set = {}
  /\ disk = [f \in File |-> NoDoc] /\ pages = << >>
  /\ bytes = 0 /\ final_exit_status = 0
  /\ failures = 0 /\ asked = {} /\ got = {}

-----------------------------------------------------------------------------
(* convert.c: the maps, as the pair m                                       *)

Maps == [u2f |-> dl_url_file_map, f2u |-> dl_file_url_map]

With(f, x, y) == [z \in DOMAIN f \cup {x} |-> IF z = x THEN y ELSE f[z]]

\* Mutant: other URLs go on pointing to a file that is no longer theirs.
DissociateNone(u2f, file) == u2f

dissociate_urls_from_file(u2f, file) ==
  Restrict(u2f, {u \in DOMAIN u2f : u2f[u] # file})

match_except_index(u, v) == u = v \/ {u, v} \in web.twins

register_download(m, url, file) ==
  LET known == file \in DOMAIN m.f2u IN
  IF known /\ m.f2u[file] = url THEN m
  ELSE IF known /\ match_except_index(url, m.f2u[file]) /\ url \notin DOMAIN m.u2f
       THEN [u2f |-> With(m.u2f, url, file), f2u |-> m.f2u]
       ELSE [u2f |-> With(IF known THEN dissociate_urls_from_file(m.u2f, file)
                          ELSE m.u2f, url, file),
             f2u |-> With(m.f2u, file, url)]

\* "This assumes that TO is successfully downloaded and already registered": else
\* the file name is a null pointer (see RedirectionCrashes).
register_redirection(m, from, to) ==
  IF from \in DOMAIN m.u2f THEN m
  ELSE [u2f |-> With(m.u2f, from, m.u2f[to]), f2u |-> m.f2u]

register_delete_file(m, file) ==
  IF file \notin DOMAIN m.f2u THEN m
  ELSE [u2f |-> dissociate_urls_from_file(m.u2f, file),
        f2u |-> Restrict(m.f2u, DOMAIN m.f2u \ {file})]

-----------------------------------------------------------------------------
(* recur.c: what to follow                                                  *)

\* blacklist_add and blacklist_contains look at the URL without its escapes.
url_unescape(u) == web.unescaped[u]

\* Of download_child's checks, 1 (the scheme) and 3 (the domain) refuse a URL for
\* its own sake, as opts.refused says; 2 is -L; 4 is -np, where opts.above has the
\* URLs outside the directory of the starting ones; 5 are the directory and regex
\* lists; 6 the suffix rules, which spare an HTML file that can lead to others; 7
\* the host; 8 robots.txt.
Refusal(black, link, parent, depth) ==
  LET u == link.url
      leads_on == \/ opts.reclevel = INFINITE_RECURSION
                  \/ depth < opts.reclevel - 1
                  \/ opts.page_requisites
  IN IF url_unescape(u) \in black THEN "BLACKLIST"
     ELSE IF u \in opts.refused THEN "REFUSED"
     ELSE IF opts.relative_only /\ ~link.relative THEN "ABSOLUTE"
     ELSE IF u \in opts.above /\ ~(opts.page_requisites /\ link.inline) THEN "PARENT"
     ELSE IF u \in opts.excluded THEN "LIST"
     ELSE IF web.name[u] \in opts.reject /\ ~(web.html_suffix[u] /\ leads_on) THEN "RULES"
     ELSE IF ~opts.spanhost /\ web.host[parent] # web.host[u] THEN "SPANNEDHOST"
     ELSE IF u \in opts.forbidden THEN "ROBOTS"
     ELSE "SUCCESS"

\* "memoized by storing these URLs to BLACKLIST"
Blacklisted(black, u, reason) ==
  IF reason \in {"SUCCESS", "ROBOTS"} THEN black \cup {url_unescape(u)} ELSE black

\* Mutant: a URL is put on the blacklist only if robots.txt says so.
EnqueueUnlisted(acc, link, parent, depth) ==
  LET reason == Refusal(acc.blacklist, link, parent, depth)
  IN [queue |-> IF reason = "SUCCESS"
                THEN Append(acc.queue, [url |-> link.url, depth |-> depth + 1,
                                        expect |-> link.expect])
                ELSE acc.queue,
      blacklist |-> IF reason = "ROBOTS" THEN acc.blacklist \cup {url_unescape(link.url)}
                    ELSE acc.blacklist]

\* url_enqueue, if download_child says so
Enqueue(acc, link, parent, depth) ==
  LET reason == Refusal(acc.blacklist, link, parent, depth)
  IN [queue |-> IF reason = "SUCCESS"
                THEN Append(acc.queue, [url |-> link.url, depth |-> depth + 1,
                                        expect |-> link.expect])
                ELSE acc.queue,
      blacklist |-> Blacklisted(acc.blacklist, link.url, reason)]

\* -p may exceed the maximum depth by two levels, but only for inline links
OnlyInline(depth) ==
  /\ opts.reclevel # INFINITE_RECURSION /\ depth >= opts.reclevel
  /\ opts.page_requisites /\ depth \in {opts.reclevel, opts.reclevel + 1}

TooDeep(depth) ==
  /\ opts.reclevel # INFINITE_RECURSION /\ depth >= opts.reclevel
  /\ ~OnlyInline(depth)

\* The queue and the blacklist after each of the links
Harvesting(acc, links, parent, depth) ==
  LET after[i \in 0 .. Len(links)] ==
        IF i = 0 THEN acc
        ELSE IF OnlyInline(depth) /\ ~links[i].inline THEN after[i - 1]
        ELSE Enqueue(after[i - 1], links[i], parent, depth)
  IN after

\* The links of the document doc, which was found under the URL parent
Harvest(acc, doc, parent, depth) ==
  IF TooDeep(depth) \/ doc \notin URL THEN acc
  ELSE Harvesting(acc, web.links[doc], parent, depth)[Len(web.links[doc])]

\* descend_redirect makes up a link, which is neither inline nor relative
Redirection(to) == [url |-> to, inline |-> FALSE, relative |-> FALSE, expect |-> "none"]

\* The lists do not apply to a redirection.  The URL before the redirection is on
\* the blacklist since it was enqueued.
RedirectFollowed(black, from, to, depth) ==
  Refusal(black, Redirection(to), from, depth) \in {"SUCCESS", "LIST"}

-----------------------------------------------------------------------------
(* exits.c                                                                  *)

WGET_EXIT == [RETROK |-> 0, FWRITEERR |-> 3, TRYLIMEXC |-> 4, WRONGCODE |-> 8]

inform_exit_status(err) ==
  LET new == WGET_EXIT[err]
  IN final_exit_status' = IF new # 0 /\ (final_exit_status = 0 \/ new < final_exit_status)
                          THEN new ELSE final_exit_status

-----------------------------------------------------------------------------
(* recur.c: the loop of retrieve_tree                                       *)

\* main goes on with the next URL of the command line
RetrieveTree ==
  /\ at = "main" /\ starts # <<>>
  /\ at' = "tree" /\ starts' = Tail(starts)
  /\ queue' = <<[url |-> Head(starts), depth |-> 0, expect |-> "html"]>>
  /\ blacklist' = {url_unescape(Head(starts))}
  /\ status' = "RETROK" /\ asked' = {}
  /\ UNCHANGED <<web, opts, maps, disk, pages, bytes, final_exit_status, failures, got>>

OverQuota == opts.quota # 0 /\ bytes > opts.quota

TreeEnds ==
  /\ at = "tree"
  /\ OverQuota \/ status = "FWRITEERR" \/ queue = <<>>
  /\ at' = "main" /\ queue' = <<>> /\ blacklist' = {}
  /\ UNCHANGED <<web, opts, starts, status, maps, disk, pages, bytes, final_exit_status,
                 failures, asked, got>>

InLoop == at = "tree" /\ ~OverQuota /\ status # "FWRITEERR" /\ queue # <<>>

\* "Either --delete-after was specified, or we loaded this HTML file just to
\* harvest its hyperlinks": unlink, then register_delete_file.
Unneeded(file) == opts.delete_after \/ file \in opts.reject

SetMaps(m) == dl_url_file_map' = m.u2f /\ dl_file_url_map' = m.f2u

KeepOrDelete(m, d, file) ==
  IF Unneeded(file)
  THEN SetMaps(register_delete_file(m, file)) /\ disk' = [d EXCEPT ![file] = NoDoc]
  ELSE SetMaps(m) /\ disk' = d

Advance(acc) == queue' = acc.queue /\ blacklist' = acc.blacklist

Rest == [queue |-> Tail(queue), blacklist |-> blacklist]

\* Mutant: what was downloaded before is not looked into again.
SkipKnown(q, file) == FALSE

\* A file that is there already: may its links be followed?
DescendKnown(q, file) ==
  \/ q.expect = "css" /\ file \in downloaded_css_set
  \/ q.expect = "html" /\ file \in downloaded_html_set

\* "Already downloaded, reusing it"
Reuse ==
  LET q == Head(queue)
      file == dl_url_file_map[q.url]
  IN
  /\ InLoop /\ q.url \in DOMAIN dl_url_file_map
  /\ Advance(IF DescendKnown(q, file) THEN Harvest(Rest, disk[file], q.url, q.depth)
             ELSE Rest)
  /\ KeepOrDelete(Maps, disk, file)
  /\ UNCHANGED <<web, opts, starts, at, status, downloaded_html_set,
                 downloaded_css_set, pages, bytes, final_exit_status, failures, asked, got>>

\* May the links of a document that was just downloaded be followed?  A style
\* sheet is one if the link or the server says so.
DescendNew(q, doc) ==
  \/ q.expect = "html" /\ web.kind[doc] = "html"
  \/ q.expect = "css" \/ web.kind[doc] = "css"

\* The document of the URL q.url, which has moved, is saved and registered, and
\* the maps have no file for it all the same: register_download had "nothing to
\* do", since the file was the document's own already.
Stranded(q) ==
  LET doc == Dest(web, q.url)
  IN /\ doc # q.url
     /\ doc \notin DOMAIN register_download(Maps, doc, web.name[q.url]).u2f

\* retrieve_url succeeds and registers what it got
Download ==
  LET q == Head(queue)
      doc == Dest(web, q.url)
      file == web.name[q.url]
      moved == doc # q.url
      m == register_download(Maps, doc, file)
      reason == Refusal(blacklist, Redirection(doc), q.url, q.depth)
      followed == moved => RedirectFollowed(blacklist, q.url, doc, q.depth)
      black == IF ~moved \/ ~DescendNew(q, doc) THEN blacklist
               ELSE IF followed THEN blacklist \cup {url_unescape(doc)}
               ELSE Blacklisted(blacklist, doc, reason)
      rest == [queue |-> Tail(queue), blacklist |-> black]
  IN
  /\ InLoop /\ q.url \notin DOMAIN dl_url_file_map /\ ~Stranded(q)
  /\ asked' = asked \cup {q.url}
  /\ bytes' = bytes + 1
  /\ status' = "RETROK"
  /\ inform_exit_status("RETROK")
  /\ downloaded_html_set' = downloaded_html_set \cup
                              IF web.kind[doc] = "html" THEN {file} ELSE {}
  /\ downloaded_css_set' = downloaded_css_set \cup
                              IF web.kind[doc] = "css" THEN {file} ELSE {}
  /\ got' = got \cup {q.url, doc}
  /\ Advance(IF DescendNew(q, doc) /\ followed THEN Harvest(rest, doc, doc, q.depth) ELSE rest)
  /\ KeepOrDelete(IF moved THEN register_redirection(m, q.url, doc) ELSE m,
                  [disk EXCEPT ![file] = doc], file)
  /\ UNCHANGED <<web, opts, starts, at, pages, failures>>

\* register_redirection does not survive a null pointer, whether its assertion
\* is compiled or not.
RedirectionCrashes ==
  LET q == Head(queue)
      doc == Dest(web, q.url)
      file == web.name[q.url]
  IN
  /\ InLoop /\ q.url \notin DOMAIN dl_url_file_map /\ Stranded(q)
  /\ at' = "crashed"
  /\ asked' = asked \cup {q.url}
  /\ bytes' = bytes + 1
  /\ Advance(Rest)
  /\ SetMaps(register_download(Maps, doc, file))
  /\ disk' = [disk EXCEPT ![file] = doc]
  /\ UNCHANGED <<web, opts, starts, status, downloaded_html_set, downloaded_css_set,
                 pages, final_exit_status, failures, got>>

\* retrieve_url fails: before the file is opened, or after that
DownloadFails ==
  LET q == Head(queue)
      file == web.name[q.url]
  IN
  /\ InLoop /\ q.url \notin DOMAIN dl_url_file_map
  /\ failures < MaxFailures /\ failures' = failures + 1
  /\ asked' = asked \cup {q.url}
  /\ \/ status' \in {"WRONGCODE", "TRYLIMEXC"} /\ UNCHANGED disk
     \/ status' \in {"TRYLIMEXC", "FWRITEERR"} /\ disk' = [disk EXCEPT ![file] = Partial]
  /\ inform_exit_status(status')
  /\ Advance(Rest)
  /\ UNCHANGED <<web, opts, starts, at, maps, pages, bytes, got>>

-----------------------------------------------------------------------------
(* convert.c: convert_all_links, at the end of main.  A link to a URL that  *)
(* was downloaded becomes relative, and leads to a file; any other becomes  *)
(* complete, and leads to the URL.                                          *)

Linked(doc) == {web.links[doc][i].url : i \in DOMAIN web.links[doc]}

convert_all_links ==
  /\ at = "main" /\ starts = <<>>
  /\ at' = "done"
  /\ pages' = IF opts.delete_after THEN << >>
              ELSE [f \in {x \in downloaded_html_set \cup downloaded_css_set :
                             x \in DOMAIN dl_file_url_map /\ disk[x] \in URL} |->
                      [u \in Linked(disk[f]) |->
                         IF u \in DOMAIN dl_url_file_map THEN dl_url_file_map[u]
                         ELSE Complete]]
  /\ UNCHANGED <<web, opts, starts, queue, blacklist, status, maps, disk, bytes,
                 final_exit_status, failures, asked, got>>

RecurNext ==
  \/ RetrieveTree \/ TreeEnds \/ Reuse \/ Download \/ RedirectionCrashes
  \/ DownloadFails \/ convert_all_links

RecurSpec == RecurInit /\ [][RecurNext]_recurVars

-----------------------------------------------------------------------------
(* Properties                                                              *)

\* What a pass at the given depth leads to: a redirection that is followed, or
\* the links of the document.
Leads(u, depth) ==
  IF web.kind[u] = "moved"
  THEN {v \in {web.to[u]} : RedirectFollowed({}, u, v, depth)}
  ELSE {v \in URL : /\ web.kind[u] \in {"html", "css"} /\ ~TooDeep(depth)
                    /\ \E link \in Range(web.links[u]) :
                         /\ link.url = v /\ (OnlyInline(depth) => link.inline)
                         /\ Refusal({}, link, u, depth) = "SUCCESS"}

\* No other URL is the same without escapes
Alone(u) == \A v \in URL : url_unescape(v) = url_unescape(u) => v = u

\* All that lies within reach of s by URLs that the blacklist does not mistake for
\* others, where a redirection takes a step of its own
Within(s) ==
  LET last == IF opts.reclevel = INFINITE_RECURSION THEN 2 * Cardinality(URL)
              ELSE opts.reclevel + 3
      near[d \in 0 .. last] ==
        IF d = 0 THEN {s}
        ELSE LET nearer == near[d - 1]
             IN nearer \cup UNION {Leads(u, d - 1) : u \in {v \in nearer : v = s \/ Alone(v)}}
  IN near[last]

\* Every link to a URL takes it for what it is
LinksTruthful ==
  \A u, v \in URL : \A link \in Range(web.links[u]) :
    link.url = v =>
      link.expect = LET k == web.kind[Dest(web, v)] IN IF k = "other" THEN "none" ELSE k

\* As long as the exit status is 0, every finished tree is complete ("add it to
\* the queue" for each URL that satisfies the criteria, "if its depth does not
\* exceed maximum depth"), although each URL is only looked at where it was met
\* first, a redirection may have been to a URL that is still in the queue, and a
\* later tree finds documents of an earlier one, which were out of its depth.  Of
\* several URLs that are the same without escapes it has at least one, unless
\* robots.txt forbids one of them; EveryUrlLoaded would be too much.
TreesComplete ==
  /\ at \in {"main", "done"} /\ final_exit_status = 0 /\ ~OverQuota
  /\ LinksTruthful
  => \A i \in 1 .. Len(Starts) - Len(starts) : \A u \in Within(Starts[i]) :
       \/ u \in got
       \/ ~Alone(u) /\ \E v \in got \cup opts.forbidden : url_unescape(v) = url_unescape(u)

\* Refuted: a?b and a%3Fb have one entry on the blacklist, so that the second
\* that is met is never asked for, and the exit status is 0 all the same.
EveryUrlLoaded ==
  /\ at \in {"main", "done"} /\ final_exit_status = 0 /\ ~OverQuota
  /\ LinksTruthful
  => \A i \in 1 .. Len(Starts) - Len(starts) : Within(Starts[i]) \subseteq got

\* A URL that the maps know, and so every link that convert_all_links made
\* relative, leads to a file that is there and that holds this URL's document,
\* whatever was deleted, overwritten under the same name or redirected since
\* ("When another URL gets loaded to FILE, we want both URL1 and URL2
\* dissociated from it").  Up to a "/index.html", both are the document that the
\* file is registered under.  The exception is a file that another URL's failed
\* retrieval has spoiled.
LinksLead ==
  LET leads(u, f) ==
        /\ f \in DOMAIN dl_file_url_map
        /\ match_except_index(dl_file_url_map[f], Dest(web, u))
        /\ \/ disk[f] = Partial
           \/ disk[f] \in URL /\ match_except_index(disk[f], dl_file_url_map[f])
  IN /\ \A u \in DOMAIN dl_url_file_map : leads(u, dl_url_file_map[u])
     /\ \A f \in DOMAIN pages : \A u \in DOMAIN pages[f] :
          pages[f][u] # Complete => leads(u, pages[f][u])

\* "we don't want to enqueue (and hence download) the same URL twice": what is
\* in the queue has not been requested, and no two places in it are the same.
AskedOnce ==
  /\ IsInjective([i \in DOMAIN queue |-> queue[i].url])
  /\ \A i \in DOMAIN queue : queue[i].url \notin asked

\* "This assumes that TO is successfully downloaded and already registered":
\* when register_redirection is called, the maps have a file for TO.
TargetRegistered ==
  InLoop /\ Head(queue).url \notin DOMAIN dl_url_file_map => ~Stranded(Head(queue))
=============================================================================
