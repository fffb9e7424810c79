------------------------- MODULE SlinuxInstallProofs -------------------------
(***************************************************************************)
(* slinux-install, for any list of block devices, any subset of the        *)
(* directories it copies and any number of tries: InstallInv is inductive, *)
(* so the safety properties hold, and every step of the script is a step   *)
(* of InstallPromise or leaves the disk and the report alone.  The search  *)
(* for the boot medium, which is its first part, comes first.              *)
(*                                                                         *)
(* One lemma per group of Next, one case per action.  The control states   *)
(* are finite sets of names, expanded everywhere.                          *)
(***************************************************************************)
EXTENDS SlinuxInstall, TLAPS

(* An index up to the length of the scan list is that of a device.          *)
LEMMA ScanElements ==
  /\ Len(Scan) \in Nat
  /\ \A i \in 1 .. Len(Scan) : Scan[i] \in Device
BY ScanAssumption

(* A step of the search keeps the types, given that the loop is at a device *)
(* whenever a medium is mounted: without that ReleaseMedium could run over. *)
LEMMA SearchKeepsType ==
  ASSUME SearchTypeOK, SearchPos, SearchNext
  PROVE  SearchTypeOK' /\ SearchPos'
<1>1. Len(Scan) \in Nat
  BY ScanElements
<1>2. CASE NextDevice
  <2>1. at' \in 1 .. Len(Scan) + 1
    BY <1>1, <1>2 DEF SearchTypeOK, NextDevice
  <2>2. QED
    BY <1>2, <2>1 DEF SearchTypeOK, SearchPos, NextDevice
<1>3. CASE MountMedium
  <2>1. Scan[at] \in Device /\ at <= Len(Scan)
    BY <1>3, ScanElements DEF SearchTypeOK, MountMedium
  <2>2. QED
    BY <1>3, <2>1 DEF SearchTypeOK, SearchPos, MountMedium
<1>4. CASE InspectMedium
  BY <1>4 DEF SearchTypeOK, SearchPos, InspectMedium, MediumInitrd, Unset
<1>5. CASE ReleaseMedium
  <2>1. at' \in 1 .. Len(Scan) + 1
    BY <1>1, <1>5 DEF SearchTypeOK, SearchPos, ReleaseMedium
  <2>2. QED
    BY <1>5, <2>1 DEF SearchTypeOK, SearchPos, ReleaseMedium
<1>6. CASE ReleaseFails
  BY <1>6 DEF SearchTypeOK, SearchPos, ReleaseFails
<1>7. CASE NoMediumFound
  BY <1>7 DEF SearchTypeOK, SearchPos, NoMediumFound
<1>8. QED
  BY <1>2, <1>3, <1>4, <1>5, <1>6, <1>7 DEF SearchNext

-----------------------------------------------------------------------------
\* The medium on /tmp/bm is the device the loop is at, and a loop that is
\* still looking has found nothing so far.
MediumAt ==
  /\ phase \in {"mounted", "release", "found"} =>
       /\ at <= Len(Scan)
       /\ bm = Scan[at]
       /\ ~Skipped(Scan[at])
       /\ media[bm].mountable
  /\ phase \in {"probe", "none"} => bm = NoDev
  /\ phase = "none" => at > Len(Scan)
  /\ phase \in {"probe", "mounted", "release", "none"} => INITRD = Unset
  /\ phase = "release" => ~media[bm].initramfs
  /\ phase = "found" => INITRD = MediumInitrd /\ media[bm].initramfs

Usable(k) == /\ ~Skipped(Scan[k])
             /\ media[Scan[k]].mountable
             /\ media[Scan[k]].initramfs

\* Every device before the one the loop is at has been tried.
NothingPassedOver == \A k \in 1 .. Len(Scan) : k < at => ~Usable(k)

SearchInv == SearchTypeOK /\ SearchPos /\ MediumAt /\ NothingPassedOver

\* The search starts in its invariant.
LEMMA SearchInvInit == SearchInit => SearchInv
BY ScanElements, ScanAssumption
   DEF SearchInit, SearchInv, SearchTypeOK, SearchPos, MediumAt,
       NothingPassedOver, MediumInitrd, Unset

\* Every step of the search keeps its invariant.
LEMMA SearchInvStep == SearchInv /\ [SearchNext]_searchVars => SearchInv'
<1> SUFFICES ASSUME SearchInv, SearchNext
             PROVE  SearchInv'
  BY DEF searchVars, SearchInv, SearchTypeOK, SearchPos, MediumAt,
         NothingPassedOver, Usable
<1>1. SearchTypeOK' /\ SearchPos'
  BY SearchKeepsType DEF SearchInv
<1>2. Len(Scan) \in Nat /\ at \in Nat
  BY ScanElements, ScanAssumption DEF SearchInv, SearchTypeOK
<1>3. CASE NextDevice
  BY <1>1, <1>2, <1>3 DEF SearchInv, MediumAt, NothingPassedOver, Usable, NextDevice
<1>4. CASE MountMedium
  BY <1>1, <1>2, <1>4
     DEF SearchInv, MediumAt, NothingPassedOver, Usable, MountMedium
<1>5. CASE InspectMedium
  BY <1>1, <1>2, <1>5
     DEF SearchInv, MediumAt, NothingPassedOver, Usable, InspectMedium,
         MediumInitrd, Unset
<1>6. CASE ReleaseMedium
  BY <1>1, <1>2, <1>6
     DEF SearchInv, MediumAt, NothingPassedOver, Usable, ReleaseMedium
<1>7. CASE ReleaseFails
  BY <1>1, <1>2, <1>7
     DEF SearchInv, MediumAt, NothingPassedOver, Usable, ReleaseFails
<1>8. CASE NoMediumFound
  BY <1>1, <1>2, <1>8
     DEF SearchInv, MediumAt, NothingPassedOver, Usable, NoMediumFound
<1>9. QED
  BY <1>3, <1>4, <1>5, <1>6, <1>7, <1>8 DEF SearchNext

(* The search invariant holds in every reachable state.                     *)
LEMMA SearchInvariant == SearchSpec => []SearchInv
BY SearchInvInit, SearchInvStep, PTL DEF SearchSpec

(* The variables of the search loop keep their types (lines 46-64).         *)
THEOREM SearchTyping == SearchSpec => []SearchTypeOK
<1>1. SearchInv => SearchTypeOK
  BY DEF SearchInv
<1>2. QED
  BY <1>1, SearchInvariant, PTL

(* The path in INITRD names a file exactly when a medium is left mounted    *)
(* (lines 56-62), for every list of devices.                                *)
THEOREM InitrdSafe == SearchSpec => []InitrdBacked
<1>1. SearchInv => InitrdBacked
  <2>1. SearchInv /\ phase = "found" => bm \in Device
    BY ScanElements DEF SearchInv, SearchTypeOK, MediumAt
  <2>2. QED
    BY <2>1, ScanAssumption
       DEF SearchInv, MediumAt, InitrdBacked, SearchOver, MediumInitrd, Unset
<1>2. QED
  BY <1>1, SearchInvariant, PTL

(* The first usable medium in scan order is the one chosen (lines 49-64),   *)
(* for every list of devices.                                               *)
THEOREM FirstMedium == SearchSpec => []FirstUsableMediumWins
<1>1. SearchInv => FirstUsableMediumWins
  <2> SUFFICES ASSUME SearchInv
               PROVE  FirstUsableMediumWins
    OBVIOUS
  <2>1. Len(Scan) \in Nat /\ at \in 1 .. Len(Scan) + 1
    BY ScanElements DEF SearchInv, SearchTypeOK
  <2>2. CASE phase = "none"
    BY <2>1, <2>2 DEF SearchInv, MediumAt, NothingPassedOver, Usable,
                      FirstUsableMediumWins
  <2>3. CASE phase = "found"
    BY <2>1, <2>3 DEF SearchInv, MediumAt, NothingPassedOver, Usable,
                      FirstUsableMediumWins
  <2>4. QED
    BY <2>2, <2>3 DEF FirstUsableMediumWins
<1>2. QED
  BY <1>1, SearchInvariant, PTL

-----------------------------------------------------------------------------
(* The installer.                                                          *)

USE DEF AfterHome, AfterGroup, AfterShadowMode, AfterShadowUser,
        AfterShadowRoot, AfterPasswd, AfterBoot, AfterConf, AfterLimine,
        AfterKernel, AfterEspDirs, AfterMarker, AfterLayout, AfterChmod,
        AfterChown, AfterCopy, AfterMountEsp, AfterTrapAll, PC, AskPC,
        DiskPC, CopyPC, BootPC, UserPC, FinishPC, Goto, Place, searchVars,
        installVars

-----------------------------------------------------------------------------
(* The invariant.                                                          *)

(* The initial states satisfy the invariant.                                *)
LEMMA InvInit == Init => InstallInv
BY SearchInvInit, InstallAssumption DEF Init, SearchInit, SearchInv,
       InstallInv, TypeOK, SearchTypeOK, SearchPos, TrapMatches,
       PhaseMatches, RootProgress, EspProgress, RescueProgress,
       RescueEntryBacked, Flushed, Outcome, MountsReleased,
       SuccessMeansInstalled, Artifact, RootArtifact, EspArtifact,
       RescueArtifact, RootLoc, EspLoc, Required, Installed

(* A step of the medium search: only the search's variables change, and      *)
(* nothing is mounted or written yet.                                       *)
LEMMA SearchKeeps ==
  ASSUME InstallInv, Search
  PROVE  InstallInv'
<1>1. SearchTypeOK' /\ SearchPos'
  BY SearchKeepsType DEF InstallInv, TypeOK, Search
<1>2. QED
  BY <1>1 DEF Search, InstallInv, TypeOK, TrapMatches, PhaseMatches,
         RootProgress, EspProgress, RescueProgress, RescueEntryBacked,
         Flushed, Outcome, MountsReleased, SuccessMeansInstalled, Artifact,
         RootArtifact, EspArtifact, RescueArtifact, RootLoc, EspLoc,
         Required, Installed

(* mount of the root file system: it is the only mount, and empty.          *)
LEMMA MountRootKeeps ==
  ASSUME InstallInv, MountRoot
  PROVE  InstallInv'
<1>1. mounted = {} /\ mounted' = {"root"} /\ durable["root"] = {}
  BY DEF MountRoot, InstallInv, TrapMatches, Flushed
<1>2. TypeOK' /\ SearchPos' /\ PhaseMatches'
  BY <1>1 DEF MountRoot, InstallInv, TypeOK, SearchTypeOK, SearchPos, PhaseMatches
<1>3. TrapMatches'
  BY <1>1 DEF MountRoot, InstallInv, TrapMatches
<1>4. RootProgress' /\ EspProgress' /\ RescueProgress' /\ Flushed'
  BY <1>1 DEF MountRoot, InstallInv, RootProgress, EspProgress, RescueProgress,
              Flushed
<1>5. RescueEntryBacked' /\ Outcome' /\ MountsReleased' /\ SuccessMeansInstalled'
  BY <1>1 DEF MountRoot, InstallInv, RescueEntryBacked, Outcome, MountsReleased,
              SuccessMeansInstalled, Installed, Required
<1>6. QED
  BY <1>2, <1>3, <1>4, <1>5 DEF InstallInv

(* mount of the ESP: nothing has been copied yet, so nothing is due.        *)
LEMMA MountEspKeeps ==
  ASSUME InstallInv, MountEsp
  PROVE  InstallInv'
<1>1. ("root" \in mounted' <=> "root" \in mounted) /\ todo = SrcDir /\ fs["esp"] = {}
  BY DEF MountEsp, InstallInv, PhaseMatches
<1>2. TypeOK' /\ SearchPos' /\ PhaseMatches' /\ TrapMatches'
  BY DEF MountEsp, InstallInv, TypeOK, SearchTypeOK, SearchPos, PhaseMatches,
         TrapMatches
<1>3. RootProgress'
  BY <1>1 DEF MountEsp, InstallInv, RootProgress
<1>4. EspProgress' /\ RescueProgress' /\ Flushed'
  BY <1>1 DEF MountEsp, InstallInv, PhaseMatches, EspProgress, RescueProgress, Flushed
<1>5. RescueEntryBacked' /\ Outcome' /\ MountsReleased' /\ SuccessMeansInstalled'
  BY DEF MountEsp, InstallInv, RescueEntryBacked, Outcome, MountsReleased,
         SuccessMeansInstalled, Installed, Required
<1>6. QED
  BY <1>2, <1>3, <1>4, <1>5 DEF InstallInv

(* The umount of line 199 succeeds only when both file systems are still     *)
(* mounted, and then both hold everything that is due.                      *)
LEMMA UmountKeeps ==
  ASSUME InstallInv, Umount
  PROVE  InstallInv'
<1>1. mounted = {"root", "esp"}
  BY DEF Umount, Ready
<1>2. RootArtifact \subseteq fs["root"]
  BY <1>1 DEF Umount, InstallInv, RootProgress, RootArtifact
<1>3. Required["esp"] \subseteq fs["esp"]
  BY <1>1 DEF Umount, InstallInv, EspProgress, Required, EspArtifact, RescueArtifact
<1>4. Installed' /\ mounted' = {} /\ table' = "new"
  BY <1>1, <1>2, <1>3 DEF Umount, InstallInv, TypeOK, PhaseMatches, Installed, Required
<1>5. TypeOK' /\ SearchPos' /\ PhaseMatches' /\ TrapMatches'
  BY <1>1 DEF Umount, InstallInv, TypeOK, SearchTypeOK, SearchPos, PhaseMatches,
              TrapMatches
<1>6. RootProgress' /\ EspProgress' /\ RescueProgress' /\ RescueEntryBacked' /\ Flushed'
  BY <1>4 DEF Umount, InstallInv, RootProgress, EspProgress, RescueProgress,
              RescueEntryBacked, Flushed
<1>7. Outcome' /\ MountsReleased' /\ SuccessMeansInstalled'
  BY <1>4 DEF Umount, InstallInv, Outcome, MountsReleased, SuccessMeansInstalled
<1>8. QED
  BY <1>5, <1>6, <1>7 DEF InstallInv

(* Asking, searching, partitioning and making file systems.                 *)
LEMMA PrepareKeeps ==
  ASSUME InstallInv, Prepare
  PROVE  InstallInv'
<1> USE InstallAssumption DEF InstallInv, TypeOK, SearchTypeOK, SearchPos,
        TrapMatches, PhaseMatches, RootProgress, EspProgress, RescueProgress,
        RescueEntryBacked, Flushed, Outcome, MountsReleased,
        SuccessMeansInstalled, Artifact, RootArtifact, EspArtifact,
        RescueArtifact, RootLoc, EspLoc, Required, Installed
<1>1. CASE Preflight
  BY <1>1 DEF Preflight, Pass
<1>2. CASE Confirm
  BY <1>2 DEF Confirm, Pass
<1>3. CASE WaitDisk
  BY <1>3 DEF WaitDisk
<1>4. CASE DiskNeverAppears
  BY <1>4 DEF DiskNeverAppears, Exit, RunTrap
<1>5. CASE Search
  BY <1>5, SearchKeeps
<1>6. CASE SearchAborts
  BY <1>6 DEF SearchAborts, Exit, RunTrap
<1>7. CASE TrapBm
  BY <1>7 DEF TrapBm
<1>8. CASE Sfdisk
  BY <1>8 DEF Sfdisk
<1>9. CASE WaitParts
  BY <1>9 DEF WaitParts
<1>10. CASE PartitionsNeverAppear
  BY <1>10 DEF PartitionsNeverAppear, Exit, RunTrap
<1>11. CASE MkfsFat
  BY <1>11 DEF MkfsFat, Mkfs
<1>12. CASE Mke2fs
  BY <1>12 DEF Mke2fs, Mkfs
<1>13. CASE MountRoot
  BY <1>13, MountRootKeeps
<1>14. CASE TrapAll
  BY <1>14 DEF TrapAll
<1>15. QED
  BY <1>1, <1>2, <1>3, <1>4, <1>5, <1>6, <1>7, <1>8, <1>9, <1>10, <1>11,
     <1>12, <1>13, <1>14 DEF Prepare

(* Copying the system and installing the boot loader.                       *)
LEMMA FillKeeps ==
  ASSUME InstallInv, Fill
  PROVE  InstallInv'
<1> USE InstallAssumption DEF InstallInv, TypeOK, SearchTypeOK, SearchPos,
        TrapMatches, PhaseMatches, RootProgress, EspProgress, RescueProgress,
        RescueEntryBacked, Flushed, Outcome, MountsReleased,
        SuccessMeansInstalled, Artifact, RootArtifact, EspArtifact,
        RescueArtifact, RootLoc, EspLoc, Required, Installed
<1>1. CASE MakeEfiDir
  BY <1>1 DEF MakeEfiDir, Write
<1>2. CASE MountEsp
  BY <1>2, MountEspKeeps
<1>3. CASE \E d \in SrcDir : CopyDir(d)
  BY <1>3 DEF CopyDir
<1>4. CASE CopyDone
  BY <1>4 DEF CopyDone, Pass
<1>5. CASE Chown
  BY <1>5 DEF Chown
<1>6. CASE ChmodDoas
  BY <1>6 DEF ChmodDoas, Write
<1>7. CASE MakeLayout
  BY <1>7 DEF MakeLayout, Write
<1>8. CASE TouchMarker
  BY <1>8 DEF TouchMarker, Write
<1>9. CASE MakeEspDirs
  BY <1>9 DEF MakeEspDirs, Write
<1>10. CASE CopyKernel
  BY <1>10 DEF CopyKernel, Write
<1>11. CASE CopyLimine
  BY <1>11 DEF CopyLimine, Write
<1>12. CASE ReadPartUuid
  BY <1>12 DEF ReadPartUuid, Pass
<1>13. CASE WriteConf
  BY <1>13 DEF WriteConf, Write
<1>14. CASE CopyInitramfs
  BY <1>14 DEF CopyInitramfs, Write
<1>15. CASE WriteRescue
  BY <1>15 DEF WriteRescue, Write
<1>16. QED
  BY <1>1, <1>2, <1>3, <1>4, <1>5, <1>6, <1>7, <1>8, <1>9, <1>10, <1>11,
     <1>12, <1>13, <1>14, <1>15 DEF Fill

(* Passwords, accounts and groups.                                          *)
LEMMA UsersKeeps ==
  ASSUME InstallInv, Users
  PROVE  InstallInv'
<1> USE InstallAssumption DEF InstallInv, TypeOK, SearchTypeOK, SearchPos,
        TrapMatches, PhaseMatches, RootProgress, EspProgress, RescueProgress,
        RescueEntryBacked, Flushed, Outcome, MountsReleased,
        SuccessMeansInstalled, Artifact, RootArtifact, EspArtifact,
        RescueArtifact, RootLoc, EspLoc, Required, Installed
<1>1. CASE ReadRootPass
  BY <1>1 DEF ReadRootPass, Pass
<1>2. CASE ReadUsername
  BY <1>2 DEF ReadUsername, Pass
<1>3. CASE ReadUserPass
  BY <1>3 DEF ReadUserPass, Pass
<1>4. CASE WritePasswd
  BY <1>4 DEF WritePasswd, Write
<1>5. CASE WriteShadowRoot
  BY <1>5 DEF WriteShadowRoot, Write
<1>6. CASE WriteShadowUser
  BY <1>6 DEF WriteShadowUser, Write
<1>7. CASE ChmodShadow
  BY <1>7 DEF ChmodShadow, Write
<1>8. CASE OpenGroup
  BY <1>8 DEF OpenGroup, Pass
<1>9. CASE MoveGroup
  BY <1>9 DEF MoveGroup, Write
<1>10. CASE MakeHome
  BY <1>10 DEF MakeHome, Write
<1>11. QED
  BY <1>1, <1>2, <1>3, <1>4, <1>5, <1>6, <1>7, <1>8, <1>9, <1>10 DEF Users

(* sync, umount, removing the traps, the last umount; a command that fails. *)
LEMMA FinishKeeps ==
  ASSUME InstallInv, Finish
  PROVE  InstallInv'
<1> USE InstallAssumption DEF InstallInv, TypeOK, SearchTypeOK, SearchPos,
        TrapMatches, PhaseMatches, RootProgress, EspProgress, RescueProgress,
        RescueEntryBacked, Flushed, Outcome, MountsReleased,
        SuccessMeansInstalled, Artifact, RootArtifact, EspArtifact,
        RescueArtifact, RootLoc, EspLoc, Required, Installed
<1>1. CASE Sync
  BY <1>1 DEF Sync
<1>2. CASE Umount
  BY <1>2, UmountKeeps
<1>3. CASE Untrap
  BY <1>3 DEF Untrap
<1>4. CASE UmountBm
  BY <1>4 DEF UmountBm
<1>5. CASE Done
  BY <1>5 DEF Done, Exit, RunTrap
<1>6. CASE CommandCannotSucceed
  BY <1>6 DEF CommandCannotSucceed, Exit, RunTrap, Ready
<1>7. QED
  BY <1>1, <1>2, <1>3, <1>4, <1>5, <1>6 DEF Finish

(* Failures, Ctrl-C and SIGTERM: a trap that unmounts writes back.          *)
LEMMA InterruptKeeps ==
  ASSUME InstallInv, Interrupt
  PROVE  InstallInv'
<1> USE InstallAssumption DEF InstallInv, TypeOK, SearchTypeOK, SearchPos,
        TrapMatches, PhaseMatches, RootProgress, EspProgress, RescueProgress,
        RescueEntryBacked, Flushed, Outcome, MountsReleased,
        SuccessMeansInstalled, Artifact, RootArtifact, EspArtifact,
        RescueArtifact, RootLoc, EspLoc, Required, Installed
<1>1. CASE CommandFails
  BY <1>1 DEF CommandFails, Exit, RunTrap
<1>2. CASE SigTerm
  <2>1. CASE trap = "none" \/ ~TrapSucceeds
    <3>1. CommandFails
      BY <1>2, <2>1 DEF SigTerm, CommandFails
    <3>2. QED
      BY <1>1, <3>1
  <2>2. CASE trap = "bm" /\ TrapSucceeds
    <3>1. /\ bm' = NoDev /\ mounted' = mounted /\ durable' = durable
          /\ UNCHANGED <<media, at, phase, KERNEL, INITRD, pc, live, tries,
                         diskNode, nodes, table, made, todo, fs, trap, status>>
      BY <1>2, <2>2 DEF SigTerm, RunTrap
    <3>2. QED
      BY <3>1, <2>2
  <2>3. CASE trap = "all" /\ TrapSucceeds
    <3>1. /\ mounted' = {}
          /\ durable' = [p \in Place |-> IF p \in {"root", "esp"} THEN fs[p] ELSE durable[p]]
          /\ bm' = NoDev
          /\ UNCHANGED <<media, at, phase, KERNEL, INITRD, pc, live, tries,
                         diskNode, nodes, table, made, todo, fs, trap, status>>
      BY <1>2, <2>3 DEF SigTerm, RunTrap, TrapSucceeds
    <3>2. pc \in AfterMountEsp \ {"initramfs", "rescue"}
      BY <1>2, <2>3 DEF SigTerm, TrapSucceeds
    <3>3. TypeOK' /\ SearchPos' /\ TrapMatches' /\ PhaseMatches'
      BY <3>1, <3>2, <2>3
    <3>4. RootProgress' /\ EspProgress' /\ RescueProgress' /\ RescueEntryBacked'
      BY <3>1, <3>2
    <3>5. Flushed' /\ Outcome' /\ MountsReleased' /\ SuccessMeansInstalled'
      BY <3>1, <3>2
    <3>6. QED
      BY <3>3, <3>4, <3>5
  <2>4. QED
    BY <2>1, <2>2, <2>3
<1>3. CASE SfdiskInterrupted
  BY <1>3 DEF SfdiskInterrupted, RunTrap
<1>4. CASE MountRootInterrupted
  BY <1>4 DEF MountRootInterrupted
<1>5. QED
  BY <1>1, <1>2, <1>3, <1>4 DEF Interrupt

(* Device nodes appear.                                                     *)
LEMMA DevtmpfsKeeps ==
  ASSUME InstallInv, Devtmpfs
  PROVE  InstallInv'
<1> USE InstallAssumption DEF InstallInv, TypeOK, SearchTypeOK, SearchPos,
        TrapMatches, PhaseMatches, RootProgress, EspProgress, RescueProgress,
        RescueEntryBacked, Flushed, Outcome, MountsReleased,
        SuccessMeansInstalled, Artifact, RootArtifact, EspArtifact,
        RescueArtifact, RootLoc, EspLoc, Required, Installed
<1>1. CASE DiskAppears
  BY <1>1 DEF DiskAppears
<1>2. CASE \E p \in {1, 2} : PartitionAppears(p)
  BY <1>2 DEF PartitionAppears
<1>3. QED
  BY <1>1, <1>2 DEF Devtmpfs

(* Every step keeps the invariant.                                          *)
LEMMA InvStep == InstallInv /\ [Next]_vars => InstallInv'
<1>1. ASSUME InstallInv, UNCHANGED vars
      PROVE  InstallInv'
  BY <1>1 DEF vars, InstallInv, TypeOK, SearchTypeOK, SearchPos, TrapMatches,
         PhaseMatches, RootProgress, EspProgress, RescueProgress,
         RescueEntryBacked, Flushed, Outcome, MountsReleased,
         SuccessMeansInstalled, Artifact, RootArtifact, EspArtifact,
         RescueArtifact, RootLoc, EspLoc, Required, Installed
<1>2. QED
  BY <1>1, PrepareKeeps, FillKeeps, UsersKeeps, FinishKeeps, InterruptKeeps,
     DevtmpfsKeeps DEF Next

(* At every command of the script the traps match the mounts, what is due is *)
(* on the file systems still mounted, and what is unmounted is on the disk.  *)
THEOREM Invariance == Spec => []InstallInv
BY InvInit, InvStep, PTL DEF Spec

(* Every variable of the installer keeps its type.                           *)
THEOREM Typing == Spec => []TypeOK
<1>1. InstallInv => TypeOK
  BY DEF InstallInv
<1>2. QED
  BY <1>1, Invariance, PTL

(* "done: slinux installed" (line 202) is printed only when every artifact   *)
(* has reached the disk, whatever failed and whenever SIGTERM came.          *)
THEOREM SuccessIsReal == Spec => []SuccessMeansInstalled
<1>1. InstallInv => SuccessMeansInstalled
  BY DEF InstallInv
<1>2. QED
  BY <1>1, Invariance, PTL

(* When the script is over, nothing the trap in force knows of (lines 66,    *)
(* 103) is still mounted, however it ended.                                  *)
THEOREM NothingLeftMounted == Spec => []MountsReleased
<1>1. InstallInv => MountsReleased
  BY DEF InstallInv
<1>2. QED
  BY <1>1, Invariance, PTL

(* The ESP is mounted only inside the mounted root (line 104): the trap's    *)
(* failing umount ends the script wherever the root alone is mounted.        *)
THEOREM EspSafe == Spec => []EspInsideRoot
<1>1. InstallInv => EspInsideRoot
  BY DEF InstallInv, TypeOK, TrapMatches, MountsReleased, EspInsideRoot
<1>2. QED
  BY <1>1, Invariance, PTL

(* A rescue entry never names an initramfs that is not there (140-145).      *)
THEOREM RescueSafe == Spec => []RescueEntryBacked
<1>1. InstallInv => RescueEntryBacked
  BY DEF InstallInv
<1>2. QED
  BY <1>1, Invariance, PTL

(* The boot configuration is written after the marker of rc.init (125, 136). *)
THEOREM MarkerSafe == Spec => []MarkerBeforeBoot
<1>1. InstallInv => MarkerBeforeBoot
  BY DEF InstallInv, MarkerBeforeBoot, RootProgress, EspProgress
<1>2. QED
  BY <1>1, Invariance, PTL

-----------------------------------------------------------------------------
(* The refinement.                                                         *)

(* Before sfdisk nothing has reached the disk, so it is not complete.       *)
LEMMA NotInstalledYet ==
  ASSUME InstallInv, pc = "sfdisk"
  PROVE  ~Installed
<1>1. "boot/efi" \in Required["root"] /\ durable["root"] = {}
  BY DEF InstallInv, Flushed, Required, RootArtifact
<1>2. QED
  BY <1>1 DEF Installed

(* Asking, searching, partitioning and making file systems.                 *)
LEMMA PrepareSteps ==
  ASSUME InstallInv, Prepare
  PROVE  [P!PromiseNext]_(P!promiseVars)
<1> USE DEF InstallInv, TypeOK, TrapMatches, PhaseMatches, Flushed, Outcome,
        Required, Installed, disk, P!PromiseNext, P!promiseVars, P!Work,
        P!Fail, P!Succeed, P!Advance
<1>1. CASE Preflight
  BY <1>1 DEF Preflight, Pass
<1>2. CASE Confirm
  BY <1>2 DEF Confirm, Pass
<1>3. CASE WaitDisk
  BY <1>3 DEF WaitDisk
<1>4. CASE DiskNeverAppears
  BY <1>4 DEF DiskNeverAppears, Exit, RunTrap
<1>5. CASE Search
  BY <1>5 DEF Search
<1>6. CASE SearchAborts
  BY <1>6 DEF SearchAborts, Exit, RunTrap
<1>7. CASE TrapBm
  BY <1>7 DEF TrapBm
<1>8. CASE Sfdisk
  BY <1>8, NotInstalledYet DEF Sfdisk
<1>9. CASE WaitParts
  BY <1>9 DEF WaitParts
<1>10. CASE PartitionsNeverAppear
  BY <1>10 DEF PartitionsNeverAppear, Exit, RunTrap
<1>11. CASE MkfsFat
  BY <1>11 DEF MkfsFat, Mkfs
<1>12. CASE Mke2fs
  BY <1>12 DEF Mke2fs, Mkfs
<1>13. CASE MountRoot
  BY <1>13 DEF MountRoot
<1>14. CASE TrapAll
  BY <1>14 DEF TrapAll
<1>15. QED
  BY <1>1, <1>2, <1>3, <1>4, <1>5, <1>6, <1>7, <1>8, <1>9, <1>10, <1>11,
     <1>12, <1>13, <1>14 DEF Prepare

(* Copying the system and installing the boot loader.                       *)
LEMMA FillSteps ==
  ASSUME InstallInv, Fill
  PROVE  [P!PromiseNext]_(P!promiseVars)
<1> USE DEF InstallInv, TypeOK, TrapMatches, PhaseMatches, Flushed, Outcome,
        Required, Installed, disk, P!PromiseNext, P!promiseVars, P!Work,
        P!Fail, P!Succeed, P!Advance
<1>1. CASE MakeEfiDir
  BY <1>1 DEF MakeEfiDir, Write
<1>2. CASE MountEsp
  BY <1>2 DEF MountEsp
<1>3. CASE \E d \in SrcDir : CopyDir(d)
  BY <1>3 DEF CopyDir
<1>4. CASE CopyDone
  BY <1>4 DEF CopyDone, Pass
<1>5. CASE Chown
  BY <1>5 DEF Chown
<1>6. CASE ChmodDoas
  BY <1>6 DEF ChmodDoas, Write
<1>7. CASE MakeLayout
  BY <1>7 DEF MakeLayout, Write
<1>8. CASE TouchMarker
  BY <1>8 DEF TouchMarker, Write
<1>9. CASE MakeEspDirs
  BY <1>9 DEF MakeEspDirs, Write
<1>10. CASE CopyKernel
  BY <1>10 DEF CopyKernel, Write
<1>11. CASE CopyLimine
  BY <1>11 DEF CopyLimine, Write
<1>12. CASE ReadPartUuid
  BY <1>12 DEF ReadPartUuid, Pass
<1>13. CASE WriteConf
  BY <1>13 DEF WriteConf, Write
<1>14. CASE CopyInitramfs
  BY <1>14 DEF CopyInitramfs, Write
<1>15. CASE WriteRescue
  BY <1>15 DEF WriteRescue, Write
<1>16. QED
  BY <1>1, <1>2, <1>3, <1>4, <1>5, <1>6, <1>7, <1>8, <1>9, <1>10, <1>11,
     <1>12, <1>13, <1>14, <1>15 DEF Fill

(* Passwords, accounts and groups.                                          *)
LEMMA UsersSteps ==
  ASSUME InstallInv, Users
  PROVE  [P!PromiseNext]_(P!promiseVars)
<1> USE DEF InstallInv, TypeOK, TrapMatches, PhaseMatches, Flushed, Outcome,
        Required, Installed, disk, P!PromiseNext, P!promiseVars, P!Work,
        P!Fail, P!Succeed, P!Advance
<1>1. CASE ReadRootPass
  BY <1>1 DEF ReadRootPass, Pass
<1>2. CASE ReadUsername
  BY <1>2 DEF ReadUsername, Pass
<1>3. CASE ReadUserPass
  BY <1>3 DEF ReadUserPass, Pass
<1>4. CASE WritePasswd
  BY <1>4 DEF WritePasswd, Write
<1>5. CASE WriteShadowRoot
  BY <1>5 DEF WriteShadowRoot, Write
<1>6. CASE WriteShadowUser
  BY <1>6 DEF WriteShadowUser, Write
<1>7. CASE ChmodShadow
  BY <1>7 DEF ChmodShadow, Write
<1>8. CASE OpenGroup
  BY <1>8 DEF OpenGroup, Pass
<1>9. CASE MoveGroup
  BY <1>9 DEF MoveGroup, Write
<1>10. CASE MakeHome
  BY <1>10 DEF MakeHome, Write
<1>11. QED
  BY <1>1, <1>2, <1>3, <1>4, <1>5, <1>6, <1>7, <1>8, <1>9, <1>10 DEF Users

(* sync, umount, removing the traps, the last umount; a command that fails. *)
LEMMA FinishSteps ==
  ASSUME InstallInv, Finish
  PROVE  [P!PromiseNext]_(P!promiseVars)
<1> USE DEF InstallInv, TypeOK, TrapMatches, PhaseMatches, Flushed, Outcome,
        Required, Installed, disk, P!PromiseNext, P!promiseVars, P!Work,
        P!Fail, P!Succeed, P!Advance
<1>1. CASE Sync
  BY <1>1 DEF Sync
<1>2. CASE Umount
  BY <1>2 DEF Umount, Ready
<1>3. CASE Untrap
  BY <1>3 DEF Untrap
<1>4. CASE UmountBm
  BY <1>4 DEF UmountBm
<1>5. CASE Done
  BY <1>5 DEF Done, Exit, RunTrap
<1>6. CASE CommandCannotSucceed
  BY <1>6 DEF CommandCannotSucceed, Exit, RunTrap, Ready
<1>7. QED
  BY <1>1, <1>2, <1>3, <1>4, <1>5, <1>6 DEF Finish

(* Failures, Ctrl-C and SIGTERM: a trap that unmounts writes back.          *)
LEMMA InterruptSteps ==
  ASSUME InstallInv, Interrupt
  PROVE  [P!PromiseNext]_(P!promiseVars)
<1> USE DEF InstallInv, TypeOK, TrapMatches, PhaseMatches, Flushed, Outcome,
        Required, Installed, disk, P!PromiseNext, P!promiseVars, P!Work,
        P!Fail, P!Succeed, P!Advance
<1>1. CASE CommandFails
  BY <1>1 DEF CommandFails, Exit, RunTrap
<1>2. CASE SigTerm
  BY <1>2 DEF SigTerm, Exit, RunTrap, TrapSucceeds
<1>3. CASE SfdiskInterrupted
  <2>1. durable' = durable
    BY <1>3 DEF SfdiskInterrupted, RunTrap
  <2>2. QED
    BY <1>3, <2>1, NotInstalledYet DEF SfdiskInterrupted
<1>4. CASE MountRootInterrupted
  BY <1>4 DEF MountRootInterrupted
<1>5. QED
  BY <1>1, <1>2, <1>3, <1>4 DEF Interrupt

(* Device nodes appear.                                                     *)
LEMMA DevtmpfsSteps ==
  ASSUME InstallInv, Devtmpfs
  PROVE  [P!PromiseNext]_(P!promiseVars)
<1> USE DEF InstallInv, TypeOK, TrapMatches, PhaseMatches, Flushed, Outcome,
        Required, Installed, disk, P!PromiseNext, P!promiseVars, P!Work,
        P!Fail, P!Succeed, P!Advance
<1>1. CASE DiskAppears
  BY <1>1 DEF DiskAppears
<1>2. CASE \E p \in {1, 2} : PartitionAppears(p)
  BY <1>2 DEF PartitionAppears
<1>3. QED
  BY <1>1, <1>2 DEF Devtmpfs

(* Every behaviour of the script is one that InstallPromise allows: the disk *)
(* is erased once, becomes complete at most once and stays so, and success   *)
(* is reported only about a complete system.                                 *)
THEOREM PromiseKept == Spec => KeepsPromise
<1>1. Init => P!PromiseInit
  BY DEF Init, P!PromiseInit, disk
<1>2. InstallInv /\ [Next]_vars => [P!PromiseNext]_(P!promiseVars)
  <2>1. ASSUME UNCHANGED vars
        PROVE  UNCHANGED P!promiseVars
    BY <2>1 DEF vars, P!promiseVars, disk, Installed, Required
  <2>2. QED
    BY <2>1, PrepareSteps, FillSteps, UsersSteps, FinishSteps, InterruptSteps,
       DevtmpfsSteps DEF Next
<1>3. QED
  BY <1>1, <1>2, Invariance, PTL DEF Spec, KeepsPromise, P!Promise
===============================================================================
