------------------------------ MODULE MesonBuild ------------------------------
(***************************************************************************)
(* meson.build: eight custom targets that samurai runs in parallel as far  *)
(* as their "depends" allow, and the files they hand to each other through *)
(* the build directory and the source tree.  Every target is always stale, *)
(* so every build runs all of them; a build that failed is started again   *)
(* over what it left behind.                                               *)
(*                                                                         *)
(* Two of the commands are makes that use source trees of others: make     *)
(* userland builds musl again in libc/musl and installs the headers from   *)
(* kernel/linux, where the kernel job may be at work.  What two makes in   *)
(* one tree leave there is undefined: either may end well with a broken    *)
(* result, now or in a later build, for no tree is cleaned.                *)
(*                                                                         *)
(* A job goes through the steps of its command or script.  A file that is  *)
(* being written is "partial", also when an older one was there.  samurai  *)
(* (external) starts no job after one has failed, and waits for the others.*)
(***************************************************************************)
EXTENDS Naturals, FiniteSets

CONSTANTS
  Parallel,   \* jobs samurai runs at the same time
  MaxBuilds   \* bound: builds one after the other

ASSUME BuildAssumption == Parallel \in Nat \ {0} /\ MaxBuilds \in Nat \ {0}

VARIABLES
  at,         \* the step each target is at
  builds,     \* builds started
  limineDir,  \* build/limine exists
  file,       \* the state of each file a target makes
  tree,       \* what assemble-rootfs.sh has put into build/rootfs
  packed,     \* what was in build/rootfs when slinux.cpio.gz was made
  lost,       \* find, sort or cpio failed while slinux.cpio.gz was made
  iso,        \* what make-iso.sh has put into the image
  clash       \* two makes have been in kernel/linux at the same time

buildVars == <<at, builds, limineDir, file, tree, packed, lost, iso, clash>>

Target == {"sysroot", "limine", "musl", "kernel", "userland", "rootfs",
           "initramfs", "iso"}
State == {"absent", "partial", "whole"}
File == {"musl", "bzImage", "staging", "cdbin", "efi", "cpio", "image"}
TreeItem == {"userland", "efi", "cdbin", "vmlinuz", "etc"}
IsoItem == {"vmlinuz", "cpio", "cdbin", "efi"}

\* The steps of the jobs, after which a job is done.
Step == {"mkdir", "make", "libc", "headers", "install", "limdir", "cpcd", "cpcd2", "cpefi",
         "cpefi2", "clean", "stage", "testlim", "treeefi", "treecd", "treekernel", "etc",
         "pack", "gzip", "isokernel", "isocpio", "isocd", "isoefi", "xorriso"}
Resting == {"waiting", "done", "failed"}

BuildTypeOK ==
  /\ at \in [Target -> Step \cup Resting]
  /\ builds \in 1 .. MaxBuilds
  /\ limineDir \in BOOLEAN
  /\ file \in [File -> State]
  /\ tree \in [TreeItem -> State]
  /\ packed \in [TreeItem -> State]
  /\ lost \in BOOLEAN
  /\ clash \in BOOLEAN
  /\ iso \in [IsoItem -> State]
  /\ Cardinality({t \in Target : at[t] \in Step}) <= Parallel

Nothing(items) == [i \in items |-> "absent"]

BuildInit ==
  /\ at = [t \in Target |-> "waiting"]
  /\ builds = 1
  /\ limineDir = FALSE
  /\ file = Nothing(File)
  /\ tree = Nothing(TreeItem)
  /\ packed = Nothing(TreeItem)
  /\ lost = FALSE
  /\ clash = FALSE
  /\ iso = Nothing(IsoItem)

-----------------------------------------------------------------------------
(* The targets and samurai.                                                *)

\* Mutant: the kernel is left out of rootfs's list.
DependsNoKernel(t) ==
  CASE t \in {"sysroot", "limine"}  -> {}
    [] t = "musl"                   -> {"sysroot"}
    [] t \in {"kernel", "userland"} -> {"musl"}
    [] t = "rootfs"                 -> {"musl", "userland"}
    [] t = "initramfs"              -> {"rootfs"}
    [] t = "iso"                    -> {"initramfs", "kernel"}

\* Mutant: the image does not wait for the initramfs.
DependsIsoEarly(t) ==
  CASE t \in {"sysroot", "limine"}  -> {}
    [] t = "musl"                   -> {"sysroot"}
    [] t \in {"kernel", "userland"} -> {"musl"}
    [] t = "rootfs"                 -> {"musl", "userland", "kernel"}
    [] t = "initramfs"              -> {"rootfs"}
    [] t = "iso"                    -> {"rootfs", "kernel"}

Depends(t) ==
  CASE t \in {"sysroot", "limine"}  -> {}
    [] t = "musl"                   -> {"sysroot"}
    [] t \in {"kernel", "userland"} -> {"musl"}
    [] t = "rootfs"                 -> {"musl", "userland", "kernel"}
    [] t = "initramfs"              -> {"rootfs"}
    [] t = "iso"                    -> {"initramfs", "kernel"}

First(t) ==
  CASE t = "sysroot"                         -> "mkdir"
    [] t \in {"limine", "musl", "kernel"}    -> "make"
    [] t = "userland"                        -> "libc"
    [] t = "rootfs"                          -> "clean"
    [] t = "initramfs"                       -> "pack"
    [] t = "iso"                             -> "isokernel"

Running == {t \in Target : at[t] \in Step}
Failed  == {t \in Target : at[t] = "failed"}
Startable == {t \in Target : at[t] = "waiting" /\ \A d \in Depends(t) : at[d] = "done"}

Start(t) ==
  /\ t \in Startable
  /\ Failed = {}
  /\ Cardinality(Running) < Parallel
  /\ at' = [at EXCEPT ![t] = First(t)]
  /\ UNCHANGED <<builds, limineDir, file, tree, packed, lost, iso>>

\* The command of a step fails, and "&&" or set -e ends the job.
JobFails(t) ==
  /\ t \in Running
  /\ at' = [at EXCEPT ![t] = "failed"]
  /\ UNCHANGED <<builds, limineDir, file, tree, packed, lost, iso>>

BuildOver == /\ Running = {}
             /\ Failed # {} \/ at = [t \in Target |-> "done"]

\* The build is started again; nothing is cleaned.
Again ==
  /\ BuildOver
  /\ builds < MaxBuilds
  /\ builds' = builds + 1
  /\ at' = [t \in Target |-> "waiting"]
  /\ UNCHANGED <<limineDir, file, tree, packed, lost, iso>>

-----------------------------------------------------------------------------
(* Shapes of a step.                                                       *)

Advance(t, from, to) == at[t] = from /\ at' = [at EXCEPT ![t] = to]

Walk(t, from, to) ==
  Advance(t, from, to) /\ UNCHANGED <<builds, limineDir, file, tree, packed, lost, iso>>

\* A file is opened for writing, or complete.
Put(t, from, to, f, state) ==
  /\ Advance(t, from, to)
  /\ file' = [file EXCEPT ![f] = state]
  /\ UNCHANGED <<builds, limineDir, tree, packed, lost, iso>>

\* cp of a file into build/rootfs, and into build/iso: set -e ends the job
\* where the file is missing.
CopyToTree(from, to, f, item) ==
  /\ Advance("rootfs", from, IF file[f] = "absent" THEN "failed" ELSE to)
  /\ tree' = [tree EXCEPT ![item] = file[f]]
  /\ UNCHANGED <<builds, limineDir, file, packed, lost, iso>>

CopyToIso(from, to, f, item) ==
  /\ Advance("iso", from, IF file[f] = "absent" THEN "failed" ELSE to)
  /\ iso' = [iso EXCEPT ![item] = file[f]]
  /\ UNCHANGED <<builds, limineDir, file, tree, packed, lost>>

-----------------------------------------------------------------------------
(* The jobs.                                                               *)

Sysroot == Walk("sysroot", "mkdir", "done")

\* configure && make && mkdir -p && cp -f cdbin efi
LimineMake  == Walk("limine", "make", "limdir")
LimineMkdir ==
  /\ Advance("limine", "limdir", "cpcd")
  /\ limineDir' = TRUE
  /\ UNCHANGED <<builds, file, tree, packed, lost, iso>>
LimineCopy == \/ Put("limine", "cpcd", "cpcd2", "cdbin", "partial")
              \/ Put("limine", "cpcd2", "cpefi", "cdbin", "whole")
              \/ Put("limine", "cpefi", "cpefi2", "efi", "partial")
              \/ Put("limine", "cpefi2", "done", "efi", "whole")

\* make, then install or link: what it makes is complete at the end, unless
\* two makes have met in kernel/linux.
Outcome == IF clash THEN {"partial", "whole"} ELSE {"whole"}
Musl     == \/ Put("musl", "make", "install", "musl", "partial")
            \/ Put("musl", "install", "done", "musl", "whole")
Kernel   == \/ Put("kernel", "make", "install", "bzImage", "partial")
            \/ \E s \in Outcome : Put("kernel", "install", "done", "bzImage", s)
Userland == \/ Put("userland", "libc", "headers", "staging", "partial")
            \/ Walk("userland", "headers", "install")
            \/ \E s \in Outcome : Put("userland", "install", "done", "staging", s)

\* assemble-rootfs.sh
RootfsClean ==
  /\ Advance("rootfs", "clean", "stage")
  /\ tree' = Nothing(TreeItem)
  /\ UNCHANGED <<builds, limineDir, file, packed, lost, iso>>
RootfsStage  == CopyToTree("stage", "testlim", "staging", "userland")
\* if [ -d build/limine ]: without it the installer's files are left out.
RootfsLimine == Walk("rootfs", "testlim", IF limineDir THEN "treeefi" ELSE "treekernel")
RootfsEfi    == CopyToTree("treeefi", "treecd", "efi", "efi")
RootfsCd     == CopyToTree("treecd", "treekernel", "cdbin", "cdbin")
\* if [ -f bzImage ]
RootfsKernel == IF file["bzImage"] = "absent" THEN Walk("rootfs", "treekernel", "etc")
                ELSE CopyToTree("treekernel", "etc", "bzImage", "vmlinuz")

RootfsEtc ==
  /\ Advance("rootfs", "etc", "done")
  /\ tree' = [tree EXCEPT !["etc"] = "whole"]
  /\ UNCHANGED <<builds, limineDir, file, packed, lost, iso>>

\* find | sort | cpio | gzip >slinux.cpio.gz: gzip's status is the job's, so
\* the end of another member only cuts the archive short.
InitramfsPack ==
  /\ Advance("initramfs", "pack", "gzip")
  /\ file' = [file EXCEPT !["cpio"] = "partial"]
  /\ packed' = tree
  /\ lost' = FALSE
  /\ UNCHANGED <<builds, limineDir, tree, iso>>
PipeMemberFails ==
  /\ at["initramfs"] = "gzip"
  /\ lost' = TRUE
  /\ UNCHANGED <<at, builds, limineDir, file, tree, packed, iso>>
InitramfsGzip ==
  Put("initramfs", "gzip", "done", "cpio", IF lost THEN "partial" ELSE "whole")

\* make-iso.sh
IsoKernel == CopyToIso("isokernel", "isocpio", "bzImage", "vmlinuz")
IsoCpio   == CopyToIso("isocpio", "isocd", "cpio", "cpio")
IsoCd     == CopyToIso("isocd", "isoefi", "cdbin", "cdbin")
IsoEfi    == CopyToIso("isoefi", "xorriso", "efi", "efi")
Xorriso   == Put("iso", "xorriso", "done", "image", "whole")

-----------------------------------------------------------------------------
Jobs == \/ Sysroot \/ LimineMake \/ LimineMkdir \/ LimineCopy
        \/ Musl \/ Kernel \/ Userland
        \/ RootfsClean \/ RootfsStage \/ RootfsLimine \/ RootfsEfi \/ RootfsCd
        \/ RootfsKernel \/ RootfsEtc \/ InitramfsPack \/ InitramfsGzip
        \/ IsoKernel \/ IsoCpio \/ IsoCd \/ IsoEfi \/ Xorriso

\* make kernel and make headers are both in kernel/linux.
Meet == at["kernel"] \in {"make", "install"} /\ at["userland"] = "headers"

Work == Jobs \/ \E t \in Target : Start(t)
Mishap == PipeMemberFails \/ \E t \in Target : JobFails(t)

BuildNext == (Work \/ Mishap \/ Again) /\ clash' = (clash \/ Meet')

\* Commands end, and samurai starts what can be started.
BuildSpec ==
  BuildInit /\ [][BuildNext]_buildVars /\ WF_buildVars(Work /\ BuildNext)

-----------------------------------------------------------------------------
(* Properties.                                                             *)

\* What the commands of a target read of the others, apart from limine and
\* from the kernel tree.
Input(t) == CASE t = "userland" -> {"musl"}
              [] t = "rootfs"   -> {"staging", "bzImage"}
              [] t = "iso"      -> {"cpio", "bzImage"}
              [] OTHER          -> {}

Maker(f) == CASE f = "musl"    -> "musl"
              [] f = "staging" -> "userland"
              [] f = "bzImage" -> "kernel"
              [] f = "cpio"    -> "initramfs"

\* The two ways a job can succeed with a broken result.
Unsound == (IF clash THEN {"bzImage", "staging"} ELSE {})
             \cup (IF lost THEN {"cpio"} ELSE {})

(* The "depends" cover what the scripts read (assemble-rootfs.sh lines 22-28 *)
(* and 43, make-iso.sh lines 21-22), limine apart: while a job runs, none of *)
(* its inputs is being written by its maker, and none is missing or left     *)
(* over half written by a build that failed, unless its maker succeeded with *)
(* a broken result: because two makes met in kernel/linux, or because a      *)
(* member of the pipeline of line 139 failed.                                *)
InputsWhole ==
  \A t \in Running : \A f \in Input(t) :
    /\ at[Maker(f)] = "done"
    /\ file[f] = "whole" \/ f \in Unsound

(* An image that was made holds a complete kernel, and was packed from a     *)
(* tree with the userland, the kernel and the account files, unless two      *)
(* makes met in kernel/linux; its initramfs is complete, unless a member of  *)
(* the pipeline failed.                                                      *)
ImageSound ==
  at["iso"] = "done" =>
    /\ lost \/ iso["cpio"] = "whole"
    /\ clash \/ iso["vmlinuz"] = "whole"
    /\ clash \/ (packed["userland"] = "whole" /\ packed["vmlinuz"] = "whole")
    /\ packed["etc"] = "whole"

(* ".NOTPARALLEL: top-level targets share state" (Makefile lines 60-62): two *)
(* makes are never in kernel/linux at once.  samurai does not keep to it.    *)
KernelTreeAlone == ~clash

(* "Copy limine files (needed by slinux-install)" (assemble-rootfs.sh line   *)
(* 36): a finished tree has the boot loader.                                 *)
LimineShipped == at["rootfs"] = "done" => tree["efi"] = "whole"
===============================================================================
