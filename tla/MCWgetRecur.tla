----------------------------- MODULE MCWgetRecur -----------------------------
EXTENDS WgetRecur

CONSTANTS a, b, c, d, mv

MCURL == {a, b, c, d, mv}
MCStarts == <<a, b>>
Order == <<a, b, c, d, mv>>

\* at most two links to each other, in the order above
LinkSets(S) == {T \in SUBSET S : Cardinality(T) <= 2}

\* a and b are pages, c is a frame or a style sheet, d is an image, mv has moved
\* to b or to c.
\* Names differ, or those of mv and a do not, or c is b's index.html, or b and d
\* are the index.html of mv and c, which both lead to b; without escapes, all
\* differ, or b and c do not, or mv and b do not, or c and d.  What links to c
\* from b does not need it, and the links of c are not relative.
Web(la, lb, lc, ck, to, nm, same) ==
  LET kind == [u \in MCURL |-> CASE u = c -> ck [] u = d -> "other" [] u = mv -> "moved"
                                [] OTHER -> "html"]
      link(from, v) ==
                 [url |-> v, inline |-> v = d \/ (v = c /\ from # b), relative |-> from # c,
                  expect |-> CASE kind[v] = "moved" -> kind[to] [] v = d -> "none" [] OTHER -> kind[v]]
      links(from, S) == [i \in 1 .. Cardinality(S) |->
                           link(from, SelectSeq(Order, LAMBDA u : u \in S)[i])]
  IN [kind |-> kind, to |-> [u \in MCURL |-> to],
      links |-> [u \in MCURL |-> CASE u = a -> links(a, la) [] u = b -> links(b, lb)
                                   [] u = c -> links(c, lc) [] OTHER -> <<>>],
      host |-> [u \in MCURL |-> IF u = c /\ same = {} THEN "other" ELSE "main"],
      html_suffix |-> [u \in MCURL |-> kind[u] = "html"],
      name |-> [u \in MCURL |-> CASE nm = "moved" /\ u = mv -> a
                                  [] nm = "twins" /\ u = c -> b
                                  [] nm = "index" /\ u = mv -> b
                                  [] nm = "index" /\ u = c -> d
                                  [] OTHER -> u],
      unescaped |-> [u \in MCURL |-> IF u \in same THEN "same" ELSE u],
      twins |-> IF nm = "twins" THEN {{b, c}} ELSE {}]

MCWebs ==
  {Web(la, lb, lc, ck, to, nm, {}) :
     la \in LinkSets({a, b, c, mv}), lb \in LinkSets({a, c, d, mv}),
     lc \in {{}, {b}, {d, mv}},
     ck \in {"html", "css"}, to \in {b, c}, nm \in {"plain", "moved"}}
    \cup {Web(la, lb, lb, "html", b, "twins", {}) :
             la \in LinkSets({b, c, mv}), lb \in LinkSets({a, d, mv})}
    \cup {Web(la, lb, {}, "moved", b, "index", {}) :
             la \in LinkSets({b, c, mv}), lb \in LinkSets({c, d, mv})}
    \cup {Web(la, lb, {b, d}, "html", to, "plain", same) :
             la \in LinkSets({b, c, mv}), lb \in LinkSets({c, d, mv}), to \in {b, c},
             same \in {{b, c}, {mv, b}, {c, d}}}

Recursive(level) ==
  [reclevel |-> level, page_requisites |-> FALSE, spanhost |-> TRUE,
   delete_after |-> FALSE, relative_only |-> FALSE, refused |-> {}, above |-> {}, excluded |-> {},
   forbidden |-> {}, reject |-> {}, quota |-> 0]

\* -l 2, -l 1 on one host without mv, -l 2 -L, -l 0 -p, -l 1 -p -np with c above the
\* rest, -l inf with b rejected by its suffix and mv forbidden by robots.txt,
\* --delete-after -X c with a quota
MCSettings ==
  {Recursive(2),
   [Recursive(1) EXCEPT !.spanhost = FALSE, !.refused = {mv}],
   [Recursive(2) EXCEPT !.relative_only = TRUE],
   [Recursive(0) EXCEPT !.page_requisites = TRUE],
   [Recursive(1) EXCEPT !.page_requisites = TRUE, !.above = {c}],
   [Recursive(INFINITE_RECURSION) EXCEPT !.reject = {b}, !.forbidden = {mv}],
   [Recursive(2) EXCEPT !.delete_after = TRUE, !.excluded = {c}, !.quota = 3]}
=============================================================================
