----------------------------- MODULE MCUserFiles -----------------------------
(* The group files: every choice and order of four groups without members,   *)
(* as the images ship them, and two files an administrator has edited.  Two  *)
(* names have a colon.                                                       *)
EXTENDS UserFiles

MCCut == [u \in User |-> CASE u = "al:x" -> "al" [] u = "root:x" -> "root" [] OTHER -> u]

Gids == {0, 10, 29, 100}

Orders == {s \in UNION {[1 .. n -> Gids] : n \in 0 .. 4} :
             \A i, j \in DOMAIN s : s[i] = s[j] => i = j}

Shipped == {File([i \in DOMAIN s |-> [gid |-> s[i], parts |-> <<{}>>]], TRUE) : s \in Orders}

Edited == {File(<<[gid |-> 10, parts |-> <<{"bob"}>>], [gid |-> 100, parts |-> <<{}>>]>>, e) :
             e \in BOOLEAN}

MCGroupFiles == Shipped \cup Edited
===============================================================================
