----------------------------- MODULE MCWgetHsts -----------------------------
EXTENDS WgetHsts, TLC

CONSTANTS p1, p2, www, lan

MCProc == {p1, p2}
MCHost == {www, lan}

\* www.lan and lan
MCSupers == [h \in MCHost |-> IF h = www THEN <<lan>> ELSE <<>>]
MCAges == {0, 1, 7}
MCSymmetry == Permutations(MCProc)
=============================================================================
