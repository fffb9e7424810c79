---------------------------- MODULE SlinuxInstall ----------------------------
(***************************************************************************)
(* bin/slinux-install: the on-target installer, from its first check to    *)
(* its last line, as one sequential process whose environment can make a   *)
(* command fail (set -e ends the script and its EXIT trap runs), press     *)
(* Ctrl-C (the running command dies, so the same path is taken), or send   *)
(* SIGTERM (the trap runs between two commands; it does not exit, so the   *)
(* script GOES ON unless set -e ends it because umount failed).            *)
(*                                                                         *)
(* The target is modelled by the artifacts the script leaves on it.  A     *)
(* path below /mnt/root names a file of the target only while the target   *)
(* is mounted there; otherwise it names a file of the live system (ram).   *)
(***************************************************************************)
EXTENDS BootMedium

CONSTANTS
  SrcDir,     \* the directories of the live system that are copied
  DiskTries,  \* seconds to wait for the disk node (30)
  PartTries   \* seconds to wait for the partition nodes (15)

ASSUME InstallAssumption ==
  /\ SrcDir \subseteq {"bin", "etc", "lib", "sbin", "usr", "var", "share", "root"}
  /\ DiskTries \in Nat
  /\ PartTries \in Nat

VARIABLES
  pc,         \* the command the script is at
  live,       \* what the running system provides (never changes)
  tries,      \* the loop counter i
  diskNode,   \* the device node of the disk exists
  nodes,      \* the partitions of the new table that have a device node
  table,      \* "old" until sfdisk has written the new partition table
  made,       \* the partitions that hold a file system made by this run
  todo,       \* directories of SRCDIRS still to be copied
  mounted,    \* which of the target's file systems are mounted
  fs,         \* what each place holds, as its readers see it
  durable,    \* what each place holds once the caches are lost
  trap,       \* the action installed for EXIT, INT and TERM
  status      \* how the script ended

installVars == <<pc, live, tries, diskNode, nodes, table, made, todo, mounted,
                 fs, durable, trap, status>>
vars == <<searchVars, installVars>>

Place == {"root", "esp", "ram"}

RootArtifact == SrcDir \cup
  {"boot/efi", "owned", "suid", "layout", "marker", "passwd",
   "shadow:root", "shadow:user", "shadow600", "group", "home"}
EspArtifact == {"EFI/BOOT", "vmlinuz", "BOOTX64.EFI", "limine.conf"}
RescueArtifact == {"initramfs", "rescue"}
Artifact == RootArtifact \cup EspArtifact \cup RescueArtifact

\* Where a path below /mnt/root, and one below /mnt/root/boot/efi, leads.
RootLoc == IF "root" \in mounted THEN "root" ELSE "ram"
EspLoc  == IF "esp" \in mounted THEN "esp" ELSE RootLoc

\* Control states: asking, preparing the disk, filling it, finishing.
AskPC    == {"preflight", "confirm", "waitdisk", "search"}
DiskPC   == {"sfdisk", "waitparts", "mkfsfat", "mke2fs", "mountroot", "trapall"}
CopyPC   == {"efidir", "mountesp", "copy", "chown", "chmod", "layout", "marker"}
BootPC   == {"espdirs", "kernel", "limine", "partuuid", "conf", "initramfs", "rescue"}
UserPC   == {"rootpass", "username", "userpass", "passwd", "shadowroot",
             "shadowuser", "shadowmode", "groupopen", "grouploop", "home"}
FinishPC == {"sync", "umount", "untrap", "umountbm", "done"}
PC == AskPC \cup DiskPC \cup CopyPC \cup BootPC \cup UserPC \cup FinishPC \cup {"exited"}

TypeOK ==
  /\ SearchTypeOK
  /\ pc \in PC
  /\ live \in [efi : BOOLEAN, vmlinuz : BOOLEAN, doas : BOOLEAN]
  /\ tries \in 0 .. (DiskTries + PartTries)
  /\ diskNode \in BOOLEAN
  /\ nodes \in SUBSET {1, 2}
  /\ table \in {"old", "new"}
  /\ made \in SUBSET {"root", "esp"}
  /\ todo \in SUBSET SrcDir
  /\ mounted \in SUBSET {"root", "esp"}
  /\ fs \in [Place -> SUBSET Artifact]
  /\ durable \in [Place -> SUBSET Artifact]
  /\ trap \in {"none", "bm", "all"}
  /\ status \in {"running", "ok", "failed"}

Init ==
  /\ SearchInit
  /\ pc = "preflight"
  /\ live \in [efi : BOOLEAN, vmlinuz : BOOLEAN, doas : BOOLEAN]
  /\ tries = 0
  /\ diskNode \in BOOLEAN
  /\ nodes = {}
  /\ table = "old"
  /\ made = {}
  /\ todo = SrcDir
  /\ mounted = {}
  /\ fs = [p \in Place |-> {}]
  /\ durable = [p \in Place |-> {}]
  /\ trap = "none"
  /\ status = "running"

-----------------------------------------------------------------------------
(* The trap, and the three ways a script under set -e can be interrupted.  *)

\* Mutant: the trap unmounts /mnt/root before the ESP that is mounted in it.
RunTrapRootFirst ==
  LET gone == IF trap # "all" THEN {}
              ELSE mounted \ (IF "esp" \in mounted THEN {"root"} ELSE {})
  IN /\ mounted' = mounted \ gone
     /\ durable' = [p \in Place |-> IF p \in gone THEN fs[p] ELSE durable[p]]
     /\ bm' = IF trap = "none" THEN bm ELSE NoDev

\* umount /mnt/root/boot/efi /mnt/root /tmp/bm: an operand that is not
\* mounted is passed over, what is unmounted has reached the disk.
RunTrap ==
  LET gone == IF trap = "all" THEN mounted ELSE {}
  IN /\ mounted' = mounted \ gone
     /\ durable' = [p \in Place |-> IF p \in gone THEN fs[p] ELSE durable[p]]
     /\ bm' = IF trap = "none" THEN bm ELSE NoDev

\* The script ends; set -e and exit run the EXIT trap, with every
\* redirection closed.
Exit(how) ==
  /\ RunTrap
  /\ pc' = "exited"
  /\ status' = how
  /\ UNCHANGED <<media, at, phase, KERNEL, INITRD, live, tries, diskNode,
                 nodes, table, made, todo, fs, trap>>

\* A command fails, an explicit check exits, or Ctrl-C kills the command.
CommandFails ==
  /\ pc # "exited"
  /\ Exit("failed")

\* The umount of the trap succeeds: all its operands are mounted, and no
\* redirection of the shell keeps one busy (limine.conf is open while the
\* rescue entry is written, etc/group in the read loop).
TrapSucceeds ==
  /\ bm # NoDev
  /\ trap = "all" => /\ mounted = {"root", "esp"}
                     /\ pc \notin {"initramfs", "rescue", "grouploop"}

\* Mutant: "|| true" behind the umount of the trap.
SigTermIgnoresStatus ==
  /\ pc # "exited"
  /\ IF trap = "none"
     THEN Exit("failed")
     ELSE /\ RunTrap
          /\ UNCHANGED <<media, at, phase, KERNEL, INITRD, pc, live, tries,
                         diskNode, nodes, table, made, todo, fs, trap, status>>

\* SIGTERM: without a trap the shell dies where it is.  With one it runs the
\* trap after the current command and carries on, or exits through set -e
\* (and the EXIT trap) where umount fails.  (Where the signal interrupts the
\* read of the user name, the read fails: that is CommandFails.)
SigTerm ==
  /\ pc # "exited"
  /\ IF trap # "none" /\ TrapSucceeds
     THEN /\ RunTrap
          /\ UNCHANGED <<media, at, phase, KERNEL, INITRD, pc, live, tries,
                         diskNode, nodes, table, made, todo, fs, trap, status>>
     ELSE Exit("failed")

-----------------------------------------------------------------------------
(* What the command at pc needs in order to succeed, and shapes of a step. *)

\* cp $KERNEL: a path on the boot medium is readable while it is mounted.
KernelReadable == KERNEL = MediumKernel => bm # NoDev /\ media[bm].vmlinuz

\* $ESP exists as a directory.
EspDir == "esp" \in mounted \/ "boot/efi" \in fs[RootLoc]

\* sfdisk without --force refuses a disk with a mounted partition (external).
Ready ==
  /\ pc = "preflight" => live.efi /\ live.vmlinuz
  /\ pc = "sfdisk" => bm \notin Target
  /\ pc = "mkfsfat" => 1 \in nodes
  /\ pc = "mke2fs" => 2 \in nodes
  /\ pc = "mountroot" => "root" \in made
  /\ pc = "mountesp" => "esp" \in made /\ "boot/efi" \in fs[RootLoc]
  /\ pc = "chmod" => live.doas /\ "bin" \in fs[RootLoc]
  /\ pc = "kernel" => KernelReadable /\ EspDir
  /\ pc \in {"limine", "conf"} => "EFI/BOOT" \in fs[EspLoc]
  /\ pc = "initramfs" => bm # NoDev /\ media[bm].initramfs
  /\ pc \in {"passwd", "shadowroot", "shadowuser", "groupopen"} => "etc" \in fs[RootLoc]
  /\ pc = "shadowmode" => fs[RootLoc] \cap {"shadow:root", "shadow:user"} # {}
  /\ pc = "umount" => mounted = {"root", "esp"}
  /\ pc = "umountbm" => bm # NoDev

\* set -e: a command whose needs are not met ends the script.
CommandCannotSucceed == ~Ready /\ Exit("failed")

Goto(from, to) == pc = from /\ Ready /\ pc' = to

\* A step that changes nothing but the control state.
Pass(from, to) ==
  /\ Goto(from, to)
  /\ UNCHANGED <<searchVars, live, tries, diskNode, nodes, table, made, todo,
                 mounted, fs, durable, trap, status>>

\* A command that leaves artifacts at a place.
Write(from, to, place, adds) ==
  /\ Goto(from, to)
  /\ fs' = [fs EXCEPT ![place] = @ \cup adds]
  /\ UNCHANGED <<searchVars, live, tries, diskNode, nodes, table, made, todo,
                 mounted, durable, trap, status>>

-----------------------------------------------------------------------------
(* Asking and waiting for the disk.                                        *)

Preflight == Pass("preflight", "confirm")

Confirm == Pass("confirm", "waitdisk")

WaitDisk ==
  /\ pc = "waitdisk"
  /\ \/ diskNode /\ pc' = "search" /\ tries' = 0
     \/ ~diskNode /\ tries < DiskTries /\ pc' = pc /\ tries' = tries + 1
  /\ UNCHANGED <<searchVars, live, diskNode, nodes, table, made, todo, mounted,
                 fs, durable, trap, status>>

DiskNeverAppears ==
  /\ pc = "waitdisk"
  /\ ~diskNode
  /\ tries >= DiskTries
  /\ Exit("failed")

Search ==
  /\ pc = "search"
  /\ SearchNext
  /\ UNCHANGED installVars

SearchAborts == pc = "search" /\ phase = "failed" /\ Exit("failed")

TrapBm ==
  /\ SearchOver
  /\ Goto("search", "sfdisk")
  /\ trap' = "bm"
  /\ UNCHANGED <<searchVars, live, tries, diskNode, nodes, table, made, todo,
                 mounted, fs, durable, status>>

-----------------------------------------------------------------------------
(* Partitioning and file systems.                                          *)

\* The old contents are gone and the re-read drops the old nodes.
Sfdisk ==
  /\ Goto("sfdisk", "waitparts")
  /\ table' = "new"
  /\ nodes' = {}
  /\ tries' = 0
  /\ UNCHANGED <<searchVars, live, diskNode, made, todo, mounted, fs, durable,
                 trap, status>>

\* Ctrl-C after sfdisk wrote the table: the trap runs as in Exit.
SfdiskInterrupted ==
  /\ Goto("sfdisk", "exited")
  /\ table' = "new"
  /\ nodes' = {}
  /\ RunTrap
  /\ status' = "failed"
  /\ UNCHANGED <<media, at, phase, KERNEL, INITRD, live, tries, diskNode, made,
                 todo, fs, trap>>

\* Mutant: the counter is not incremented.
WaitPartsForever ==
  /\ pc = "waitparts"
  /\ \/ nodes = {1, 2} /\ pc' = "mkfsfat" /\ tries' = tries
     \/ nodes # {1, 2} /\ tries < PartTries /\ pc' = pc /\ tries' = tries
  /\ UNCHANGED <<searchVars, live, diskNode, nodes, table, made, todo, mounted,
                 fs, durable, trap, status>>

WaitParts ==
  /\ pc = "waitparts"
  /\ \/ nodes = {1, 2} /\ pc' = "mkfsfat" /\ tries' = tries
     \/ nodes # {1, 2} /\ tries < PartTries /\ pc' = pc /\ tries' = tries + 1
  /\ UNCHANGED <<searchVars, live, diskNode, nodes, table, made, todo, mounted,
                 fs, durable, trap, status>>

PartitionsNeverAppear ==
  /\ pc = "waitparts"
  /\ nodes # {1, 2}
  /\ tries >= PartTries
  /\ Exit("failed")

Mkfs(from, to, part) ==
  /\ Goto(from, to)
  /\ made' = made \cup {part}
  /\ UNCHANGED <<searchVars, live, tries, diskNode, nodes, table, todo, mounted,
                 fs, durable, trap, status>>

MkfsFat == Mkfs("mkfsfat", "mke2fs", "esp")
Mke2fs  == Mkfs("mke2fs", "mountroot", "root")

MountRoot ==
  /\ Goto("mountroot", "trapall")
  /\ mounted' = mounted \cup {"root"}
  /\ UNCHANGED <<searchVars, live, tries, diskNode, nodes, table, made, todo, fs,
                 durable, trap, status>>

\* Ctrl-C kills mount(8) after mount(2): the trap in force only knows /tmp/bm.
MountRootInterrupted ==
  /\ Goto("mountroot", "exited")
  /\ mounted' = mounted \cup {"root"}
  /\ bm' = NoDev
  /\ status' = "failed"
  /\ UNCHANGED <<media, at, phase, KERNEL, INITRD, live, tries, diskNode, nodes,
                 table, made, todo, fs, durable, trap>>

TrapAll ==
  /\ Goto("trapall", "efidir")
  /\ trap' = "all"
  /\ UNCHANGED <<searchVars, live, tries, diskNode, nodes, table, made, todo,
                 mounted, fs, durable, status>>

-----------------------------------------------------------------------------
(* Copying the system.                                                     *)

MakeEfiDir == Write("efidir", "mountesp", RootLoc, {"boot/efi"})

MountEsp ==
  /\ Goto("mountesp", "copy")
  /\ mounted' = mounted \cup {"esp"}
  /\ UNCHANGED <<searchVars, live, tries, diskNode, nodes, table, made, todo, fs,
                 durable, trap, status>>

\* One iteration of the copy loop; cp -a keeps the setuid bit of doas.
CopyDir(d) ==
  /\ pc = "copy"
  /\ d \in todo
  /\ todo' = todo \ {d}
  /\ fs' = [fs EXCEPT ![RootLoc] =
              @ \cup {d} \cup (IF d = "bin" /\ live.doas THEN {"suid"} ELSE {})]
  /\ UNCHANGED <<searchVars, pc, live, tries, diskNode, nodes, table, made,
                 mounted, durable, trap, status>>

CopyDone == todo = {} /\ Pass("copy", "chown")

\* chown -R clears the setuid bit.
Chown ==
  /\ Goto("chown", "chmod")
  /\ fs' = [fs EXCEPT ![RootLoc] = (@ \ {"suid"}) \cup {"owned"}]
  /\ UNCHANGED <<searchVars, live, tries, diskNode, nodes, table, made, todo,
                 mounted, durable, trap, status>>

\* Mutant: the setuid bit is not applied again after chown.
ChmodDoasDropped == Pass("chmod", "layout")

ChmodDoas == Write("chmod", "layout", RootLoc, {"suid"})

MakeLayout == Write("layout", "marker", RootLoc, {"layout"})

\* Mutant: the marker is left out.
TouchMarkerDropped == Pass("marker", "espdirs")

TouchMarker == Write("marker", "espdirs", RootLoc, {"marker"})

-----------------------------------------------------------------------------
(* The boot loader.                                                        *)

\* mkdir -p also makes boot/efi where it is missing.
MakeEspDirs ==
  Write("espdirs", "kernel", EspLoc,
        {"EFI/BOOT"} \cup (IF "esp" \in mounted THEN {} ELSE {"boot/efi"}))

CopyKernel == Write("kernel", "limine", EspLoc, {"vmlinuz"})

CopyLimine == Write("limine", "partuuid", EspLoc, {"BOOTX64.EFI"})

ReadPartUuid == Pass("partuuid", "conf")

\* The redirection creates limine.conf, the first printfs fill it.
WriteConf == Write("conf", IF INITRD = Unset THEN "rootpass" ELSE "initramfs",
                   EspLoc, {"limine.conf"})

\* Mutant: the menu entry is written before the initramfs is copied.
RescueEntryFirst == Write("initramfs", "rescue", EspLoc, {"rescue"})

CopyInitramfs == Write("initramfs", "rescue", EspLoc, {"initramfs"})

WriteRescue == Write("rescue", "rootpass", EspLoc, {"rescue"})

-----------------------------------------------------------------------------
(* Users.  Prompts that are asked again change nothing.                    *)

ReadRootPass == Pass("rootpass", "username")
ReadUsername == Pass("username", "userpass")
ReadUserPass == Pass("userpass", "passwd")

WritePasswd     == Write("passwd", "shadowroot", RootLoc, {"passwd"})
WriteShadowRoot == Write("shadowroot", "shadowuser", RootLoc, {"shadow:root"})

\* Mutant: > where the code has >>, so the entry of root is lost.
WriteShadowUserTruncates ==
  /\ Goto("shadowuser", "shadowmode")
  /\ fs' = [fs EXCEPT ![RootLoc] = (@ \ {"shadow:root"}) \cup {"shadow:user"}]
  /\ UNCHANGED <<searchVars, live, tries, diskNode, nodes, table, made, todo,
                 mounted, durable, trap, status>>

WriteShadowUser == Write("shadowuser", "shadowmode", RootLoc, {"shadow:user"})
ChmodShadow     == Write("shadowmode", "groupopen", RootLoc, {"shadow600"})

\* etc/group is open for reading until the loop is over.
OpenGroup == Pass("groupopen", "grouploop")
MoveGroup == Write("grouploop", "home", RootLoc, {"group"})

MakeHome == Write("home", "sync", RootLoc, {"home"})

-----------------------------------------------------------------------------
(* Finishing.                                                              *)

Sync ==
  /\ Goto("sync", "umount")
  /\ durable' = [p \in Place |-> IF p \in mounted THEN fs[p] ELSE durable[p]]
  /\ UNCHANGED <<searchVars, live, tries, diskNode, nodes, table, made, todo,
                 mounted, fs, trap, status>>

\* umount succeeds only when both operands are mounted.
Umount ==
  /\ Goto("umount", "untrap")
  /\ mounted' = {}
  /\ durable' = [p \in Place |-> IF p \in mounted THEN fs[p] ELSE durable[p]]
  /\ UNCHANGED <<searchVars, live, tries, diskNode, nodes, table, made, todo, fs,
                 trap, status>>

Untrap ==
  /\ Goto("untrap", "umountbm")
  /\ trap' = "none"
  /\ UNCHANGED <<searchVars, live, tries, diskNode, nodes, table, made, todo,
                 mounted, fs, durable, status>>

\* Fails when nothing is mounted on /tmp/bm.
UmountBm ==
  /\ Goto("umountbm", "done")
  /\ bm' = NoDev
  /\ UNCHANGED <<media, at, phase, KERNEL, INITRD, live, tries, diskNode, nodes,
                 table, made, todo, mounted, fs, durable, trap, status>>

Done == pc = "done" /\ Exit("ok")

-----------------------------------------------------------------------------
(* Device nodes are created by devtmpfs, concurrently with the script.     *)

DiskAppears ==
  /\ ~diskNode
  /\ diskNode' = TRUE
  /\ UNCHANGED <<searchVars, pc, live, tries, nodes, table, made, todo, mounted,
                 fs, durable, trap, status>>

PartitionAppears(p) ==
  /\ table = "new"
  /\ p \notin nodes
  /\ nodes' = nodes \cup {p}
  /\ UNCHANGED <<searchVars, pc, live, tries, diskNode, table, made, todo,
                 mounted, fs, durable, trap, status>>

-----------------------------------------------------------------------------
Prepare == \/ Preflight \/ Confirm \/ WaitDisk \/ DiskNeverAppears
           \/ Search \/ SearchAborts \/ TrapBm
           \/ Sfdisk \/ WaitParts \/ PartitionsNeverAppear
           \/ MkfsFat \/ Mke2fs \/ MountRoot \/ TrapAll

Fill == \/ MakeEfiDir \/ MountEsp \/ (\E d \in SrcDir : CopyDir(d)) \/ CopyDone
        \/ Chown \/ ChmodDoas \/ MakeLayout \/ TouchMarker
        \/ MakeEspDirs \/ CopyKernel \/ CopyLimine \/ ReadPartUuid
        \/ WriteConf \/ CopyInitramfs \/ WriteRescue

Users == \/ ReadRootPass \/ ReadUsername \/ ReadUserPass
         \/ WritePasswd \/ WriteShadowRoot \/ WriteShadowUser \/ ChmodShadow
         \/ OpenGroup \/ MoveGroup \/ MakeHome

Finish == Sync \/ Umount \/ Untrap \/ UmountBm \/ Done \/ CommandCannotSucceed

Interrupt == CommandFails \/ SigTerm \/ SfdiskInterrupted \/ MountRootInterrupted

Devtmpfs == DiskAppears \/ \E p \in {1, 2} : PartitionAppears(p)

Next == Prepare \/ Fill \/ Users \/ Finish \/ Interrupt \/ Devtmpfs

PromptPC == {"confirm", "rootpass", "username", "userpass"}

\* Away from a prompt the shell never stops by itself: it starts the next
\* command, every command ends, and one that cannot succeed fails.  Nothing
\* is assumed of the user, of devtmpfs, of signals or of other failures.
Fairness == WF_vars(pc \notin PromptPC /\ (Prepare \/ Fill \/ Users \/ Finish))

Spec == Init /\ [][Next]_vars /\ Fairness

-----------------------------------------------------------------------------
(* Properties.                                                             *)

Required == [p \in {"root", "esp"} |->
               IF p = "root" THEN RootArtifact
               ELSE EspArtifact \cup (IF INITRD = Unset THEN {} ELSE RescueArtifact)]

\* The target holds a complete system even if the power goes now.
Installed == \A p \in {"root", "esp"} : Required[p] \subseteq durable[p]

(* The script reports success ("done: slinux installed", line 202) only when *)
(* every artifact of the installation is on the disk itself, and neither in  *)
(* the cache nor in the live system's /mnt/root: whatever command failed,    *)
(* and although SIGTERM unmounts the target (line 103) and lets the script   *)
(* carry on with /mnt/root leading elsewhere.                                *)
SuccessMeansInstalled == status = "ok" => Installed

(* Whatever ends the script, nothing stays mounted that the trap in force    *)
(* knows of (lines 66, 103): /tmp/bm from the first trap on, the target's    *)
(* file systems from the second on and after it has been removed again.      *)
MountsReleased ==
  pc = "exited" => /\ trap # "none" => bm = NoDev
                   /\ trap # "bm" => mounted = {}

(* The boot menu offers the rescue entry only when the initramfs it names is *)
(* already next to it (lines 140-145), also in what an interrupted run       *)
(* leaves behind on the ESP.                                                 *)
RescueEntryBacked == \A p \in Place : "rescue" \in fs[p] => "initramfs" \in fs[p]

(* A disk that limine can boot from has the marker rc.init looks for on its  *)
(* root file system (rc.init line 70), unless SIGTERM took the root file     *)
(* system away: as long as both are mounted the order of writing holds.      *)
MarkerBeforeBoot ==
  mounted = {"root", "esp"} /\ "limine.conf" \in fs["esp"] => "marker" \in fs["root"]

(* The script never hangs: away from the prompts it always comes to an end   *)
(* or to the next prompt, even if the disk or its partitions never get a     *)
(* device node (lines 35-42, 93-97).                                         *)
NeverHangs == []<>(pc \in PromptPC \cup {"exited"})

(* "the esp mountpoint must live inside the freshly mounted rootfs" (104):    *)
(* although SIGTERM can unmount the root and let the script carry on, the     *)
(* ESP is never mounted on the live system's /mnt/root/boot/efi, because the  *)
(* trap's umount fails, and with it the script, before the ESP is mounted.    *)
EspInsideRoot == "esp" \in mounted => "root" \in mounted

(* A run that finds no boot medium is still able to finish: the last command *)
(* before "done" can succeed ("installing without rescue entry", line 65).   *)
FinishesWithoutMedium == pc = "umountbm" /\ phase = "none" => Ready

-----------------------------------------------------------------------------
(* The abstract specification this one implements.                         *)

disk == IF table = "old" THEN "old" ELSE IF Installed THEN "installed" ELSE "erased"

P == INSTANCE InstallPromise WITH disk <- disk, report <- status

(* Step by step the script does no more to the disk than InstallPromise      *)
(* allows: it erases it once, never takes an artifact away from a complete   *)
(* system, even when a trap writes caches back in between, and reports       *)
(* success (line 202) only about a complete system.                          *)
KeepsPromise == P!Promise

-----------------------------------------------------------------------------
(* The inductive invariant: what each control state says about the traps,   *)
(* the mounts and the artifacts.  AfterX: the control states after step X.  *)

AfterHome       == {"sync", "umount"}
AfterGroup      == AfterHome \cup {"home"}
AfterShadowMode == AfterGroup \cup {"groupopen", "grouploop"}
AfterShadowUser == AfterShadowMode \cup {"shadowmode"}
AfterShadowRoot == AfterShadowUser \cup {"shadowuser"}
AfterPasswd     == AfterShadowRoot \cup {"shadowroot"}
AfterBoot       == AfterPasswd \cup {"rootpass", "username", "userpass", "passwd"}
AfterConf       == AfterBoot \cup {"initramfs", "rescue"}
AfterLimine     == AfterConf \cup {"partuuid", "conf"}
AfterKernel     == AfterLimine \cup {"limine"}
AfterEspDirs    == AfterKernel \cup {"kernel"}
AfterMarker     == AfterEspDirs \cup {"espdirs"}
AfterLayout     == AfterMarker \cup {"marker"}
AfterChmod      == AfterLayout \cup {"layout"}
AfterChown      == AfterChmod \cup {"chmod"}
AfterCopy       == AfterChown \cup {"chown"}
AfterMountEsp   == AfterCopy \cup {"copy"}
AfterTrapAll    == AfterMountEsp \cup {"efidir", "mountesp"}

\* The trap in force and the mounts it does not know of.
TrapMatches ==
  /\ pc \in AskPC => trap = "none" /\ mounted = {}
  /\ pc \in DiskPC => trap = "bm" /\ mounted = (IF pc = "trapall" THEN {"root"} ELSE {})
  /\ pc \in AfterTrapAll => trap = "all"
  /\ pc \in {"efidir", "mountesp"} => mounted = {"root"}
  /\ pc \in AfterMountEsp => mounted \in {{}, {"root", "esp"}}
  /\ pc = "untrap" => trap = "all" /\ mounted = {}
  /\ pc \in {"umountbm", "done"} => trap = "none" /\ mounted = {}
  /\ pc = "exited" /\ trap = "bm" => mounted \subseteq {"root"}

\* What has not happened yet, or has.
PhaseMatches ==
  /\ pc \in AskPC \cup {"sfdisk"} => table = "old"
  /\ pc \in (DiskPC \ {"sfdisk"}) \cup AfterTrapAll => table = "new"
  /\ pc \in AskPC \cup DiskPC \cup {"efidir", "mountesp"} =>
       todo = SrcDir /\ fs["esp"] = {}

\* What is on the root file system as long as it is mounted.
RootProgress == "root" \in mounted =>
  /\ pc \in AfterMountEsp \cup {"mountesp"} => "boot/efi" \in fs["root"]
  /\ pc = "copy" => SrcDir \ todo \subseteq fs["root"]
  /\ pc \in AfterCopy => SrcDir \subseteq fs["root"]
  /\ pc \in AfterChown => "owned" \in fs["root"]
  /\ pc \in AfterChmod => "suid" \in fs["root"]
  /\ pc \in AfterLayout => "layout" \in fs["root"]
  /\ pc \in AfterMarker => "marker" \in fs["root"]
  /\ pc \in AfterPasswd => "passwd" \in fs["root"]
  /\ pc \in AfterShadowRoot => "shadow:root" \in fs["root"]
  /\ pc \in AfterShadowUser => "shadow:user" \in fs["root"]
  /\ pc \in AfterShadowMode => "shadow600" \in fs["root"]
  /\ pc \in AfterGroup => "group" \in fs["root"]
  /\ pc \in AfterHome => "home" \in fs["root"]

\* What is on the ESP as long as it is mounted.
EspProgress == "esp" \in mounted =>
  /\ pc \in AfterEspDirs => "EFI/BOOT" \in fs["esp"]
  /\ pc \in AfterKernel => "vmlinuz" \in fs["esp"]
  /\ pc \in AfterConf <=> "limine.conf" \in fs["esp"]
  /\ pc \in AfterLimine => "BOOTX64.EFI" \in fs["esp"]
  /\ pc \in AfterBoot /\ INITRD # Unset => RescueArtifact \subseteq fs["esp"]

\* The rescue entry is about to be written next to its initramfs.
RescueProgress == pc = "rescue" => "initramfs" \in fs[EspLoc]

\* What has reached the disk: nothing of a file system still being filled.
Flushed ==
  /\ pc \in AskPC \cup DiskPC => durable["root"] = {}
  /\ pc \in AskPC \cup DiskPC \cup {"efidir", "mountesp"} => durable["esp"] = {}
  /\ \A p \in mounted : durable[p] = {} \/ (pc = "umount" /\ durable[p] = fs[p])

\* The outcome.
Outcome ==
  /\ pc \in {"untrap", "umountbm", "done"} => table = "new" /\ Installed
  /\ status = "running" <=> pc # "exited"

(* At every command the artifacts written so far are on the file systems     *)
(* still mounted, the trap in force matches the mounts, and what is          *)
(* unmounted has been written back: what the script relies on between its    *)
(* first command and the check that umount (line 199) makes.                 *)
InstallInv ==
  /\ TypeOK
  /\ SearchPos
  /\ TrapMatches
  /\ PhaseMatches
  /\ RootProgress
  /\ EspProgress
  /\ RescueProgress
  /\ RescueEntryBacked
  /\ Flushed
  /\ Outcome
  /\ MountsReleased
  /\ SuccessMeansInstalled
===============================================================================
