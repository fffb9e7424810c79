----------------------------- MODULE MCBootMedium -----------------------------
(* Two foreign devices in a fixed glob order, a loop device, the target and *)
(* its fifth partition.                                                     *)
EXTENDS BootMedium

CONSTANTS d1, d2, loop0, disk, disk5

MCDevice   == {d1, d2, loop0, disk, disk5}
MCScan     == <<disk5, d1, loop0, disk, d2>>
MCPseudo   == {loop0}
MCTarget   == {disk, disk5}
MCNumbered == {disk}
===============================================================================
