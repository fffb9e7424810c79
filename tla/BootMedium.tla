------------------------------ MODULE BootMedium ------------------------------
(***************************************************************************)
(* The boot-medium search of slinux-install (bin/slinux-install, the two   *)
(* nested loops over /sys/block and the file system types).  The search    *)
(* mounts one block device after another on /tmp/bm and looks for a rescue *)
(* initramfs and for a kernel.  It runs before any trap is installed.      *)
(*                                                                         *)
(* A device holds at most one file system, so at most one of the three     *)
(* types the inner loop tries can be mounted: the inner loop is one mount  *)
(* attempt per device here.                                                *)
(***************************************************************************)
EXTENDS Naturals, Sequences

CONSTANTS
  Device,     \* the block devices below /sys/block
  Scan,       \* the order in which the globs list them
  Pseudo,     \* loop*, ram*, fd*, zram*: never mounted
  Target,     \* $DISK and all its partitions
  Numbered,   \* $DISK and its partitions 1 to 4: never mounted
  NoDev       \* nothing is mounted on /tmp/bm

ASSUME ScanAssumption == /\ Scan \in Seq(Device)
                         /\ Pseudo \subseteq Device
                         /\ Target \subseteq Device
                         /\ Numbered \subseteq Target
                         /\ NoDev \notin Device

VARIABLES
  media,      \* what each device holds (never changes)
  at,         \* index in Scan of the device the outer loop is at
  phase,      \* control state of the search
  bm,         \* the device mounted on /tmp/bm, or NoDev
  KERNEL,     \* path of the kernel to install
  INITRD      \* path of the rescue initramfs, or Unset

searchVars == <<media, at, phase, bm, KERNEL, INITRD>>

EmbeddedKernel == "/boot/vmlinuz"
MediumKernel   == "/tmp/bm/vmlinuz"
MediumInitrd   == "/tmp/bm/initramfs.cpio.gz"
Unset          == "(unset)"   \* INITRD= : the empty value

Medium == [mountable : BOOLEAN, vmlinuz : BOOLEAN, initramfs : BOOLEAN]

SearchTypeOK ==
  /\ media \in [Device -> Medium]
  /\ at \in 1 .. Len(Scan) + 1
  /\ phase \in {"probe", "mounted", "release", "found", "none", "failed"}
  /\ bm \in Device \cup {NoDev}
  /\ KERNEL \in {EmbeddedKernel, MediumKernel}
  /\ INITRD \in {Unset, MediumInitrd}

SearchInit ==
  /\ media \in [Device -> Medium]
  /\ at = 1
  /\ phase = "probe"
  /\ bm = NoDev
  /\ KERNEL = EmbeddedKernel
  /\ INITRD = Unset

-----------------------------------------------------------------------------
\* The two case patterns: a fifth partition of the target is not skipped.
Skipped(d) == d \in Pseudo \cup Numbered

\* A skipped device, or one that none of the three types can mount.
NextDevice ==
  /\ phase = "probe"
  /\ at <= Len(Scan)
  /\ Skipped(Scan[at]) \/ ~media[Scan[at]].mountable
  /\ at' = at + 1
  /\ UNCHANGED <<media, phase, bm, KERNEL, INITRD>>

MountMedium ==
  /\ phase = "probe"
  /\ at <= Len(Scan)
  /\ ~Skipped(Scan[at])
  /\ media[Scan[at]].mountable
  /\ bm' = Scan[at]
  /\ phase' = "mounted"
  /\ UNCHANGED <<media, at, KERNEL, INITRD>>

\* Mutant: the search goes on after a medium with an initramfs (no break 2).
InspectNoBreak ==
  /\ phase = "mounted"
  /\ INITRD' = IF INITRD = Unset /\ media[bm].initramfs THEN MediumInitrd ELSE INITRD
  /\ KERNEL' = IF media[bm].vmlinuz THEN MediumKernel ELSE KERNEL
  /\ phase' = "release"
  /\ UNCHANGED <<media, at, bm>>

\* The initramfs ends the search with the medium left mounted (break 2).
InspectMedium ==
  /\ phase = "mounted"
  /\ INITRD' = IF INITRD = Unset /\ media[bm].initramfs THEN MediumInitrd ELSE INITRD
  /\ KERNEL' = IF media[bm].vmlinuz THEN MediumKernel ELSE KERNEL
  /\ phase' = IF INITRD' # Unset THEN "found" ELSE "release"
  /\ UNCHANGED <<media, at, bm>>

\* Mutant: the device after an unsuitable medium is passed over.
ReleaseSkipsOne ==
  /\ phase = "release"
  /\ bm' = NoDev
  /\ at' = IF at < Len(Scan) THEN at + 2 ELSE at + 1
  /\ phase' = "probe"
  /\ UNCHANGED <<media, KERNEL, INITRD>>

ReleaseMedium ==
  /\ phase = "release"
  /\ bm' = NoDev
  /\ at' = at + 1
  /\ phase' = "probe"
  /\ UNCHANGED <<media, KERNEL, INITRD>>

\* umount /tmp/bm fails: set -e ends the script.
ReleaseFails ==
  /\ phase = "release"
  /\ phase' = "failed"
  /\ UNCHANGED <<media, at, bm, KERNEL, INITRD>>

NoMediumFound ==
  /\ phase = "probe"
  /\ at > Len(Scan)
  /\ phase' = "none"
  /\ UNCHANGED <<media, at, bm, KERNEL, INITRD>>

SearchNext ==
  \/ NextDevice
  \/ MountMedium
  \/ InspectMedium
  \/ ReleaseMedium
  \/ ReleaseFails
  \/ NoMediumFound

SearchSpec == SearchInit /\ [][SearchNext]_searchVars /\ WF_searchVars(SearchNext)

-----------------------------------------------------------------------------
SearchOver == phase \in {"found", "none"}

(* When the script goes on, the path in INITRD names a file: the medium it  *)
(* was seen on is the one still mounted on /tmp/bm (lines 56-61).  And the  *)
(* other way round, a medium is left mounted only for its initramfs, so the *)
(* trap installed next has nothing else to release.                         *)
InitrdBacked ==
  SearchOver => ((INITRD = MediumInitrd) <=> (bm # NoDev /\ media[bm].initramfs))

(* The first medium in scan order that has an initramfs is the one chosen,  *)
(* and no usable medium is passed over (lines 49-64).                       *)
FirstUsableMediumWins ==
  LET usable == {k \in 1 .. Len(Scan) : /\ ~Skipped(Scan[k])
                                        /\ media[Scan[k]].mountable
                                        /\ media[Scan[k]].initramfs}
  IN /\ phase = "none" => usable = {}
     /\ phase = "found" => /\ at \in usable
                           /\ \A k \in usable : at <= k

\* While a medium is mounted the loop is at some device.
SearchPos == phase \in {"mounted", "release"} => at <= Len(Scan)

(* The path in KERNEL names a file when the script goes on: a kernel found  *)
(* on a boot medium "wins over the embedded copy" (line 45).                *)
KernelBacked ==
  SearchOver /\ KERNEL = MediumKernel => bm # NoDev /\ media[bm].vmlinuz
===============================================================================
