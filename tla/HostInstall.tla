----------------------------- MODULE HostInstall -----------------------------
(***************************************************************************)
(* install.sh: writes the built system to an image file or a block device  *)
(* from the build host.  Like slinux-install it runs under set -e with a   *)
(* trap for EXIT, INT and TERM, but its trap calls cleanup, which is       *)
(* itself under set -e: the first command of it that fails ends the        *)
(* script.  A cleanup that runs to its end on SIGTERM lets the script GO   *)
(* ON, now with the mount points removed.                                  *)
(*                                                                         *)
(* $ROOTMNT and $ESPMNT lead to the target while it is mounted there, to a *)
(* directory of the host otherwise, or nowhere.                            *)
(***************************************************************************)
EXTENDS Naturals

VARIABLES
  pc,         \* the command the script is at
  image,      \* the target is an image file (never changes)
  loop,       \* a loop device is attached
  mntVars,    \* which of ROOTMNT, ESPMNT are set
  dirs,       \* which of the two mount points exist
  mounted,    \* which of the two are mount points of the target
  fs,         \* what each place holds
  durable,    \* what has reached the target
  said,       \* "done: slinux installed" has been printed
  last,       \* the command the script ended at
  status      \* running, or the exit status

hostVars == <<pc, image, loop, mntVars, dirs, mounted, fs, durable, said, last, status>>

Side == {"root", "esp"}
RootArtifact == {"tree", "owned", "suid", "marker", "passwd", "shadow",
                 "shadow600", "group", "home"}
EspArtifact == {"EFI/BOOT", "BOOTX64.EFI", "vmlinuz", "initramfs", "limine.conf"}
Artifact == RootArtifact \cup EspArtifact

\* Control states: before the trap is set, preparing, filling, finishing.
UntrappedPC == {"check", "truncate", "sfdisk"}
DiskPC == {"losetup", "mkfsfat", "mkfsext", "partuuid", "mktemproot", "mktempesp",
           "mountroot", "mountesp"}
RootPC == {"copy", "chown", "suid", "marker", "openssl", "username", "askroot",
           "askuser", "passwd", "shadow", "shadowmode", "group", "home"}
EspPC  == {"espdirs", "limine", "kernel", "initramfs", "conf"}
PC == UntrappedPC \cup DiskPC \cup RootPC \cup EspPC \cup {"sync", "done", "end", "exited"}

HostTypeOK ==
  /\ pc \in PC
  /\ image \in BOOLEAN
  /\ loop \in BOOLEAN
  /\ mntVars \in SUBSET Side
  /\ dirs \in SUBSET Side
  /\ mounted \in SUBSET Side
  /\ fs \in [{"target", "host"} -> [Side -> SUBSET Artifact]]
  /\ durable \in [Side -> SUBSET Artifact]
  /\ said \in BOOLEAN
  /\ last \in PC
  /\ status \in {"running", "ok", "failed"}

HostInit ==
  /\ pc = "check"
  /\ image \in BOOLEAN
  /\ loop = FALSE
  /\ mntVars = {}
  /\ dirs = {}
  /\ mounted = {}
  /\ fs = [w \in {"target", "host"} |-> [s \in Side |-> {}]]
  /\ durable = [s \in Side |-> {}]
  /\ said = FALSE
  /\ last = "check"
  /\ status = "running"

-----------------------------------------------------------------------------
(* cleanup, one test-and-command line at a time, each needing the previous *)
(* one to have succeeded.                                                  *)

UmountEspOk  == "esp" \in mntVars => "esp" \in mounted
UmountRootOk == UmountEspOk /\ ("root" \in mntVars => "root" \in mounted)
LosetupOk    == UmountRootOk /\ (image => loop)
RmdirOk      == /\ LosetupOk
                /\ dirs = Side
                /\ fs["host"] = [s \in Side |-> {}]

\* cleanup returns 0; without ESPMNT its last test makes it return 1.
CleanupOk == "esp" \in mntVars /\ RmdirOk

\* Mutant: the root file system is not unmounted.
CleanupForgetsRoot ==
  LET gone == mounted \cap (IF UmountEspOk THEN {"esp"} ELSE {})
  IN /\ mounted' = mounted \ gone
     /\ durable' = [s \in Side |-> IF s \in gone THEN fs["target"][s] ELSE durable[s]]
     /\ loop' = (loop /\ ~UmountRootOk)
     /\ dirs' = IF "esp" \in mntVars /\ RmdirOk THEN {} ELSE dirs

Cleanup ==
  LET gone == mounted \cap ((IF UmountEspOk THEN {"esp"} ELSE {})
                            \cup (IF UmountRootOk THEN {"root"} ELSE {}))
  IN /\ mounted' = mounted \ gone
     /\ durable' = [s \in Side |-> IF s \in gone THEN fs["target"][s] ELSE durable[s]]
     /\ loop' = (loop /\ ~UmountRootOk)
     /\ dirs' = IF "esp" \in mntVars /\ RmdirOk THEN {} ELSE dirs

Trapped == pc \notin UntrappedPC

\* The EXIT trap; a cleanup that fails makes the exit status 1.
Exit ==
  /\ pc' = "exited"
  /\ last' = pc
  /\ IF Trapped THEN Cleanup ELSE UNCHANGED <<mounted, durable, loop, dirs>>
  /\ status' = IF pc = "end" /\ CleanupOk THEN "ok" ELSE "failed"
  /\ UNCHANGED <<image, mntVars, fs, said>>

\* A command fails, an explicit check exits, or Ctrl-C kills the command.
\* (Ctrl-C runs cleanup twice; the second call stops where the first did.)
CommandFails == pc \notin {"end", "exited"} /\ Exit

\* SIGTERM: a cleanup that fails ends the script as above (and runs again);
\* one that succeeds is over when the next command starts.
SigTerm ==
  /\ pc # "exited"
  /\ IF Trapped /\ CleanupOk
     THEN /\ Cleanup
          /\ UNCHANGED <<pc, image, mntVars, fs, said, last, status>>
     ELSE Exit

-----------------------------------------------------------------------------
(* Where paths lead, what commands need, and shapes of a step.             *)

Where(s) == IF s \in mounted THEN "target" ELSE "host"
Has(s, a) == a \in fs[Where(s)][s]

Ready ==
  /\ pc = "copy" => "root" \in mntVars
  /\ pc \in {"chown", "marker"} => "root" \in dirs
  /\ pc \in {"suid", "passwd", "shadow", "shadowmode", "group"} =>
       "root" \in dirs /\ Has("root", "tree")
  /\ pc \in {"limine", "conf"} => Has("esp", "EFI/BOOT")
  /\ pc \in {"kernel", "initramfs"} => "esp" \in dirs

CommandCannotSucceed == ~Ready /\ Exit

Goto(from, to) == pc = from /\ Ready /\ pc' = to

Pass(from, to) ==
  /\ Goto(from, to)
  /\ UNCHANGED <<image, loop, mntVars, dirs, mounted, fs, durable, said, last, status>>

\* A command that writes below a mount point.
Write(from, to, s, a) ==
  /\ Goto(from, to)
  /\ fs' = [fs EXCEPT ![Where(s)][s] = @ \cup {a}]
  /\ UNCHANGED <<image, loop, mntVars, dirs, mounted, durable, said, last, status>>

\* The same where the command also makes the directory if it is missing.
WriteMaking(from, to, s, a) ==
  /\ Goto(from, to)
  /\ fs' = [fs EXCEPT ![Where(s)][s] = @ \cup {a}]
  /\ dirs' = dirs \cup {s}
  /\ UNCHANGED <<image, loop, mntVars, mounted, durable, said, last, status>>

-----------------------------------------------------------------------------
(* Partitions, file systems, mounts.                                       *)

Check    == Pass("check", IF image THEN "truncate" ELSE "sfdisk")
Truncate == Pass("truncate", "sfdisk")
Sfdisk   == Pass("sfdisk", IF image THEN "losetup" ELSE "mkfsfat")

Losetup ==
  /\ Goto("losetup", "mkfsfat")
  /\ loop' = TRUE
  /\ UNCHANGED <<image, mntVars, dirs, mounted, fs, durable, said, last, status>>

MkfsFat  == Pass("mkfsfat", "mkfsext")
MkfsExt  == Pass("mkfsext", "partuuid")
PartUuid == Pass("partuuid", "mktemproot")

MkTemp(from, to, s) ==
  /\ Goto(from, to)
  /\ mntVars' = mntVars \cup {s}
  /\ dirs' = dirs \cup {s}
  /\ UNCHANGED <<image, loop, mounted, fs, durable, said, last, status>>

MkTempRoot == MkTemp("mktemproot", "mktempesp", "root")
MkTempEsp  == MkTemp("mktempesp", "mountroot", "esp")

Mount(from, to, s) ==
  /\ Goto(from, to)
  /\ mounted' = mounted \cup {s}
  /\ UNCHANGED <<image, loop, mntVars, dirs, fs, durable, said, last, status>>

MountRoot == Mount("mountroot", "mountesp", "root")
MountEsp  == Mount("mountesp", "copy", "esp")

-----------------------------------------------------------------------------
(* Root file system and users.                                             *)

\* cp -a makes $ROOTMNT if it is not there.
CopyRootfs == WriteMaking("copy", "chown", "root", "tree")
Chown      == Write("chown", "suid", "root", "owned")

\* Mutant: the setuid bits are not applied again.
ReapplySetuidDropped == Pass("suid", "marker")

ReapplySetuid == Write("suid", "marker", "root", "suid")
TouchMarker   == Write("marker", "openssl", "root", "marker")

NeedOpenssl == Pass("openssl", "username")

\* Prompts that are asked again change nothing.
AskUsername == Pass("username", "askroot")
AskRoot     == Pass("askroot", "askuser")
AskUser     == Pass("askuser", "passwd")

EditPasswd  == Write("passwd", "shadow", "root", "passwd")
WriteShadow == Write("shadow", "shadowmode", "root", "shadow")
ChmodShadow == Write("shadowmode", "group", "root", "shadow600")
EditGroup   == Write("group", "home", "root", "group")
MakeHome    == WriteMaking("home", "espdirs", "root", "home")

-----------------------------------------------------------------------------
(* Boot loader and end.                                                    *)

MakeEspDirs   == WriteMaking("espdirs", "limine", "esp", "EFI/BOOT")
CopyLimine    == Write("limine", "kernel", "esp", "BOOTX64.EFI")
CopyKernel    == Write("kernel", "initramfs", "esp", "vmlinuz")
CopyInitramfs == Write("initramfs", "conf", "esp", "initramfs")

WriteConf     == Write("conf", "sync", "esp", "limine.conf")

\* Mutant: no sync.
SyncDropped == Pass("sync", "done")

Sync ==
  /\ Goto("sync", "done")
  /\ durable' = [s \in Side |-> IF s \in mounted THEN fs["target"][s] ELSE durable[s]]
  /\ UNCHANGED <<image, loop, mntVars, dirs, mounted, fs, said, last, status>>

Done ==
  /\ Goto("done", "end")
  /\ said' = TRUE
  /\ UNCHANGED <<image, loop, mntVars, dirs, mounted, fs, durable, last, status>>

End == pc = "end" /\ Exit

-----------------------------------------------------------------------------
Prepare == \/ Check \/ Truncate \/ Sfdisk \/ Losetup \/ MkfsFat \/ MkfsExt
           \/ PartUuid \/ MkTempRoot \/ MkTempEsp \/ MountRoot \/ MountEsp

Fill == \/ CopyRootfs \/ Chown \/ ReapplySetuid \/ TouchMarker \/ NeedOpenssl
        \/ AskUsername \/ AskRoot \/ AskUser
        \/ EditPasswd \/ WriteShadow \/ ChmodShadow \/ EditGroup \/ MakeHome

Finish == \/ MakeEspDirs \/ CopyLimine \/ CopyKernel \/ CopyInitramfs \/ WriteConf
          \/ Sync \/ Done \/ End \/ CommandCannotSucceed

HostNext == Prepare \/ Fill \/ Finish \/ CommandFails \/ SigTerm

HostSpec == HostInit /\ [][HostNext]_hostVars

-----------------------------------------------------------------------------
(* Properties.                                                             *)

Installed == RootArtifact \subseteq durable["root"] /\ EspArtifact \subseteq durable["esp"]

(* The exit status tells the truth: it is 0 only when the whole system has   *)
(* reached the target.  A SIGTERM that unmounted the target on the way makes *)
(* the cleanup at the end fail (lines 32-38) and with it the script.         *)
ExitStatusHonest == status = "ok" => Installed

(* A run that was never interrupted says "done" only after the caches have   *)
(* been written back (lines 145-146): the power may go at once.              *)
DoneMeansDurable == said /\ mounted = Side => Installed

(* The loop device and the mounts are left behind only by a run that ended   *)
(* between mktemp and the second mount (lines 53-56), where cleanup stops at *)
(* its first umount; every other end releases everything.                    *)
LeaksOnlyAroundMount ==
  pc = "exited" /\ last \notin {"mktempesp", "mountroot", "mountesp"} =>
    mounted = {} /\ ~loop

(* "done: slinux installed on $TARGET" (line 146).                           *)
DoneMeansInstalled == said => Installed
===============================================================================
