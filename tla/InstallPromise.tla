---------------------------- MODULE InstallPromise ----------------------------
(***************************************************************************)
(* What slinux-install promises about the disk it is given.  The disk      *)
(* keeps its old contents until it is erased, is erased at most once, and  *)
(* holds a complete system from some moment on.  The script reports        *)
(* success only about a complete system; a failed run leaves the disk in   *)
(* whatever state it had reached.  After the report nothing changes.       *)
(***************************************************************************)
VARIABLES disk, report

promiseVars == <<disk, report>>

PromiseInit == disk = "old" /\ report = "running"

Advance == \/ disk = "old" /\ disk' = "erased"
           \/ disk = "erased" /\ disk' = "installed"

Work == report = "running" /\ Advance /\ UNCHANGED report

\* A run that is cut short may have taken the last step it was busy with.
Fail ==
  /\ report = "running"
  /\ report' = "failed"
  /\ Advance \/ UNCHANGED disk

Succeed ==
  /\ report = "running"
  /\ disk = "installed"
  /\ report' = "ok"
  /\ UNCHANGED disk

PromiseNext == Work \/ Fail \/ Succeed

Promise == PromiseInit /\ [][PromiseNext]_promiseVars
===============================================================================
