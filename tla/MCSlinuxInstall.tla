--------------------------- MODULE MCSlinuxInstall ---------------------------
(* A foreign block device, the target and its fifth partition; two copied     *)
(* directories.                                                               *)
EXTENDS SlinuxInstall

CONSTANTS d1, target, target5

MCDevice   == {d1, target, target5}
MCScan     == <<d1, target5, target>>
MCTarget   == {target, target5}
MCNumbered == {target}
MCSrcDir   == {"bin", "etc"}
===============================================================================
