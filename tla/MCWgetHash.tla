----------------------------- MODULE MCWgetHash -----------------------------
EXTENDS WgetHash

CONSTANTS k1, k2, k3, k4, k5

MCKey == {k1, k2, k3, k4, k5}

\* Two keys share the last position of five (and the first of two), one comes
\* just before it, two just after it.
MCHash == [k \in MCKey |-> CASE k = k3 -> 3 [] k \in {k4, k5} -> 0 [] OTHER -> 4]

MCPrimes == <<2, 5>>
=============================================================================
