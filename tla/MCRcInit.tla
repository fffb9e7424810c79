------------------------------- MODULE MCRcInit -------------------------------
(* Two partitions, two UUIDs (so that PARTUUIDs clash, and a UUID can be     *)
(* both), one wireless interface.                                            *)
EXTENDS RcInit

CONSTANTS p1, p2, u1, u2

MCPart == {p1, p2}
MCScan == <<p1, p2>>
MCUuid == {u1, u2}
MCWlan == {"wlan0"}
===============================================================================
