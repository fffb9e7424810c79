-------------------------------- MODULE RcInit --------------------------------
(***************************************************************************)
(* etc/rc.init: the boot script sinit runs, first on the root the kernel   *)
(* gave it (the initramfs or a partition) and, after switch_root, again on *)
(* the partition named by root=.  The script has no set -e: a command that *)
(* fails is passed over, except where the code tests it.                   *)
(*                                                                         *)
(* External: the kernel's choice of the first root, switch_root(8) (which  *)
(* may refuse), sdhcp(8) (which waits for a lease for ever), rc.local.     *)
(***************************************************************************)
EXTENDS Naturals, Sequences

CONSTANTS
  Part,       \* the partitions sfdisk lists, on the disks that are scanned
  Scan,       \* their order: /sys/block/*, then the lines of the dump
  Uuid,       \* values of PARTUUIDs and of file system UUIDs
  Wlan,       \* the wireless interfaces
  Ram,        \* the initramfs as root file system
  NoPart      \* no partition

ASSUME PartAssumption == /\ Scan \in Seq(Part)
                         /\ Ram \notin Part
                         /\ NoPart \notin Part

VARIABLES
  pc,         \* the command the script is at
  root,       \* the current root file system
  disks,      \* what each partition holds
  cmd,        \* the kernel command line (never changes)
  world,      \* the network and the local hook (never changes)
  proc,       \* /proc is mounted
  tracing,    \* set -x is in force
  ROOT,       \* the partition root= leads to
  k, hits,    \* position in the scan; the lines of /tmp/.rootdev
  newroot,    \* what is mounted on /newroot
  switches,   \* how often switch_root was done (saturates at 2)
  lease,      \* sdhcp has a lease
  up          \* services started in this root

bootVars == <<pc, root, disks, cmd, world, proc, tracing, ROOT, k, hits,
              newroot, switches, lease, up>>

\* newdir: it has a directory /newroot.
Disk == [partuuid : Uuid, fsuuid : Uuid, fs : {"none", "ro", "rw"}, marker : BOOLEAN,
         newdir : BOOLEAN]

Cmdline == [kind : {"none"}, want : {NoPart}, trace : BOOLEAN]
      \cup [kind : {"node"}, want : Part, trace : BOOLEAN]
      \cup [kind : {"partuuid", "uuid"}, want : Uuid, trace : BOOLEAN]

World == [dhcp : BOOLEAN, hook : {"returns", "hangs"}]

\* A program and what it serves.
Service == ({"syslogd", "dropbear"} \X {"host"})
           \cup ({"getty"} \X {"ttyS0", "tty1"})
           \cup ({"sdhcp", "wpa_supplicant"} \X (Wlan \cup {"eth0"}))

StartPC == {"trace", "mounts", "decide"}
RootPC  == {"resolve", "fsck", "mkdir", "mountnew", "touch", "move", "switch"}
ServePC == {"syslogd", "network", "dhcp", "wifi", "ssh", "local", "getty"}
OverPC  == {"login", "shell", "dead"}

BootTypeOK ==
  /\ pc \in StartPC \cup RootPC \cup ServePC \cup OverPC
  /\ root \in Part \cup {Ram}
  /\ disks \in [Part -> Disk]
  /\ cmd \in Cmdline
  /\ world \in World
  /\ proc \in BOOLEAN
  /\ tracing \in BOOLEAN
  /\ ROOT \in Part \cup {NoPart}
  /\ k \in 1 .. Len(Scan) + 1
  /\ hits \in Seq(Part)
  /\ newroot \in Part \cup {NoPart}
  /\ switches \in 0 .. 2
  /\ lease \in BOOLEAN
  /\ up \in SUBSET Service

\* Does root= name partition p?  (PARTUUID= by its GPT entry, UUID= by the
\* file system on it.)
Asked(p) == CASE cmd.kind = "node"     -> p = cmd.want
              [] cmd.kind = "partuuid" -> disks[p].partuuid = cmd.want
              [] cmd.kind = "uuid"     -> disks[p].fs # "none" /\ disks[p].fsuuid = cmd.want
              [] OTHER                 -> FALSE

\* Without an initramfs the kernel itself mounts what root= names; it knows
\* device nodes and PARTUUIDs.
KernelRoot(p) == cmd.kind \in {"node", "partuuid"} /\ Asked(p) /\ disks[p].fs # "none"

BootInit ==
  /\ disks \in [Part -> Disk]
  /\ \A p \in Part : disks[p].marker \/ disks[p].newdir => disks[p].fs # "none"
  /\ cmd \in Cmdline
  /\ world \in World
  /\ root = Ram \/ (root \in Part /\ KernelRoot(root))
  /\ pc = "trace"
  /\ proc = FALSE
  /\ tracing = FALSE
  /\ ROOT = NoPart
  /\ k = 1
  /\ hits = <<>>
  /\ newroot = NoPart
  /\ switches = 0
  /\ lease = FALSE
  /\ up = {}

-----------------------------------------------------------------------------
(* Early boot.                                                             *)

Pass(from, to) ==
  /\ pc = from
  /\ pc' = to
  /\ UNCHANGED <<root, disks, cmd, world, proc, tracing, ROOT, k, hits, newroot,
                 switches, lease, up>>

\* The command line is read from /proc, whether or not that is mounted.
Trace ==
  /\ pc = "trace"
  /\ pc' = "mounts"
  /\ tracing' = (proc /\ cmd.trace)
  /\ UNCHANGED <<root, disks, cmd, world, proc, ROOT, k, hits, newroot, switches,
                 lease, up>>

\* mountpoint -q /proc || mount ..., then coldplug and directories.
Mounts ==
  /\ pc = "mounts"
  /\ pc' = "decide"
  /\ proc' = TRUE
  /\ UNCHANGED <<root, disks, cmd, world, tracing, ROOT, k, hits, newroot,
                 switches, lease, up>>

-----------------------------------------------------------------------------
(* Disk-root mode.                                                         *)

Marked == root \in Part /\ disks[root].marker
TmpWritable == root = Ram \/ disks[root].fs = "rw"

NoRootStep == (cmd.kind = "none" \/ Marked) /\ Pass("decide", "syslogd")

\* root=/dev/node needs no search.
UseNode ==
  /\ pc = "decide"
  /\ cmd.kind = "node" /\ ~Marked
  /\ ROOT' = cmd.want
  /\ pc' = "fsck"
  /\ UNCHANGED <<root, disks, cmd, world, proc, tracing, k, hits, newroot,
                 switches, lease, up>>

\* ": >/tmp/.rootdev": a redirection that fails on a special builtin ends
\* the shell.
StartResolve ==
  /\ pc = "decide"
  /\ cmd.kind \in {"partuuid", "uuid"} /\ ~Marked
  /\ pc' = IF TmpWritable THEN "resolve" ELSE "dead"
  /\ k' = 1
  /\ hits' = <<>>
  /\ UNCHANGED <<root, disks, cmd, world, proc, tracing, ROOT, newroot, switches,
                 lease, up>>

\* Mutant: the comparison of the UUIDs is lost.
MatchesAny(p) == cmd.kind = "partuuid" \/ disks[p].fs # "none"

\* The PARTUUID must match for both kinds; UUID= then also asks tune2fs.
Matches(p) ==
  /\ disks[p].partuuid = cmd.want
  /\ \/ cmd.kind = "partuuid"
     \/ disks[p].fs # "none" /\ disks[p].fsuuid = cmd.want

\* Mutant: > where the code has >>.
ResolveLineOverwrites ==
  /\ pc = "resolve"
  /\ k <= Len(Scan)
  /\ k' = k + 1
  /\ hits' = IF Matches(Scan[k]) THEN <<Scan[k]>> ELSE hits
  /\ UNCHANGED <<pc, root, disks, cmd, world, proc, tracing, ROOT, newroot,
                 switches, lease, up>>

ResolveLine ==
  /\ pc = "resolve"
  /\ k <= Len(Scan)
  /\ k' = k + 1
  /\ hits' = IF Matches(Scan[k]) THEN Append(hits, Scan[k]) ELSE hits
  /\ UNCHANGED <<pc, root, disks, cmd, world, proc, tracing, ROOT, newroot,
                 switches, lease, up>>

\* Mutant: the last device is not waited for.
ResolvedEarly ==
  /\ pc = "resolve"
  /\ k >= Len(Scan)
  /\ ROOT' = IF hits = <<>> THEN ROOT ELSE Head(hits)
  /\ pc' = IF hits = <<>> THEN "shell" ELSE "fsck"
  /\ UNCHANGED <<root, disks, cmd, world, proc, tracing, k, hits, newroot,
                 switches, lease, up>>

\* The first line of /tmp/.rootdev, or a shell.
Resolved ==
  /\ pc = "resolve"
  /\ k > Len(Scan)
  /\ ROOT' = IF hits = <<>> THEN ROOT ELSE Head(hits)
  /\ pc' = IF hits = <<>> THEN "shell" ELSE "fsck"
  /\ UNCHANGED <<root, disks, cmd, world, proc, tracing, k, hits, newroot,
                 switches, lease, up>>

\* The status of fsck is not looked at.
Fsck == Pass("fsck", "mkdir")

\* The status of mkdir -p /newroot is not looked at.
Mkdir ==
  /\ pc = "mkdir"
  /\ pc' = "mountnew"
  /\ disks' = IF root \in Part /\ disks[root].fs = "rw"
              THEN [disks EXCEPT ![root].newdir = TRUE] ELSE disks
  /\ UNCHANGED <<root, cmd, world, proc, tracing, ROOT, k, hits, newroot,
                 switches, lease, up>>

HasNewroot == root = Ram \/ disks[root].newdir

MountNew ==
  /\ pc = "mountnew"
  /\ IF HasNewroot /\ disks[ROOT].fs # "none"
     THEN pc' = "touch" /\ newroot' = ROOT
     ELSE pc' = "shell" /\ UNCHANGED newroot
  /\ UNCHANGED <<root, disks, cmd, world, proc, tracing, ROOT, k, hits, switches,
                 lease, up>>

\* Mutant: the marker is not left on the new root.
TouchDropped == Pass("touch", "move")

\* The status of touch is not looked at.
Touch ==
  /\ pc = "touch"
  /\ pc' = "move"
  /\ disks' = IF disks[newroot].fs = "rw"
              THEN [disks EXCEPT ![newroot].marker = TRUE] ELSE disks
  /\ UNCHANGED <<root, cmd, world, proc, tracing, ROOT, k, hits, newroot,
                 switches, lease, up>>

\* mount --move /proc ... || mount ...: the new root has them too.
MoveMounts == Pass("move", "switch")

\* The init of the new root runs rc.init again with the same command line.
SwitchRoot ==
  /\ pc = "switch"
  /\ root' = newroot
  /\ newroot' = NoPart
  /\ pc' = "trace"
  /\ tracing' = FALSE
  /\ ROOT' = NoPart
  /\ k' = 1
  /\ hits' = <<>>
  /\ switches' = IF switches < 2 THEN switches + 1 ELSE 2
  /\ UNCHANGED <<disks, cmd, world, proc, lease, up>>

\* switch_root(8) refuses: the shell is gone already (exec).
SwitchRefused == Pass("switch", "dead")

-----------------------------------------------------------------------------
(* Services.                                                               *)

Start(from, to, services) ==
  /\ pc = from
  /\ pc' = to
  /\ up' = up \cup services
  /\ UNCHANGED <<root, disks, cmd, world, proc, tracing, ROOT, k, hits, newroot,
                 switches, lease>>

Syslogd == Start("syslogd", "network", {<<"syslogd", "host">>})

Network == Pass("network", "dhcp")

\* Mutant: sdhcp runs in the foreground, until it has a lease.
DhcpForeground == lease /\ Start("dhcp", "wifi", {<<"sdhcp", "eth0">>})

\* In the background: the script does not wait for the lease.
Dhcp == Start("dhcp", "wifi", {<<"sdhcp", "eth0">>})

\* One iteration per interface; the loop is left without wpa_supplicant.conf.
WifiInterface(w) ==
  /\ <<"sdhcp", w>> \notin up
  /\ Start("wifi", "wifi", {<<"wpa_supplicant", w>>, <<"sdhcp", w>>})

WifiDone == Pass("wifi", "ssh")

Ssh == Start("ssh", "local", {<<"dropbear", "host">>}) \/ Pass("ssh", "local")

\* The hook runs in the foreground.
Local == world.hook = "returns" /\ Pass("local", "getty")

Getty == Start("getty", "login", {"getty"} \X {"ttyS0", "tty1"})

\* A DHCP server answers some sdhcp.
Lease ==
  /\ ~lease
  /\ world.dhcp
  /\ \E w \in Wlan \cup {"eth0"} : <<"sdhcp", w>> \in up
  /\ lease' = TRUE
  /\ UNCHANGED <<pc, root, disks, cmd, world, proc, tracing, ROOT, k, hits,
                 newroot, switches, up>>

-----------------------------------------------------------------------------
DiskRoot == \/ NoRootStep \/ UseNode \/ StartResolve \/ ResolveLine \/ Resolved
            \/ Fsck \/ Mkdir \/ MountNew \/ Touch \/ MoveMounts
            \/ SwitchRoot \/ SwitchRefused

Services == \/ Syslogd \/ Network \/ Dhcp \/ (\E w \in Wlan : WifiInterface(w))
            \/ WifiDone \/ Ssh \/ Local \/ Getty

BootScript == Trace \/ Mounts \/ DiskRoot \/ Services

BootNext == BootScript \/ Lease

\* The shell goes on to the next command; every foreground command but the
\* hook ends by itself.  Nothing is assumed of the network.
BootSpec == BootInit /\ [][BootNext]_bootVars /\ WF_bootVars(BootScript)

-----------------------------------------------------------------------------
(* Properties.                                                             *)

AllWritable == \A p \in Part : disks[p].fs # "ro"

(* The marker ends disk-root mode (lines 70, 87): the script that runs again *)
(* after switch_root does not switch a second time, as long as the marker    *)
(* can be written.                                                           *)
SwitchOnce == AllWritable => switches <= 1

(* A login is offered on the root that root= asked for and on no other       *)
(* (lines 70-93): never on the initramfs when a root was asked for, and      *)
(* after a search on the first partition that matches (line 66).             *)
LoginOnRequestedRoot ==
  pc = "login" /\ cmd.kind # "none" =>
    /\ root \in Part
    /\ Asked(root)
    /\ cmd.kind = "partuuid" /\ switches > 0 =>
         \E i \in 1 .. Len(Scan) :
           /\ Scan[i] = root
           /\ \A j \in 1 .. i - 1 : ~Asked(Scan[j])

(* The script gives up (lines 72-75, 82-86) only when no partition has the   *)
(* PARTUUID, when one that root= names cannot be mounted, or when the root   *)
(* it runs on has no mount point and cannot be given one.                    *)
ShellIsJustified ==
  pc = "shell" /\ cmd.kind \in {"node", "partuuid"} =>
    \/ \A i \in 1 .. Len(Scan) : ~Asked(Scan[i])
    \/ \E p \in Part : Asked(p) /\ disks[p].fs = "none"
    \/ root \in Part /\ disks[root].fs = "ro" /\ ~disks[root].newdir

(* Booting writes to no partition but those root= names (lines 82, 87).      *)
OnlyRequestedRootTouched ==
  [][\A p \in Part : disks'[p] # disks[p] => Asked(p)]_bootVars

(* Whatever the network does, the boot comes to a login or a shell, unless   *)
(* the local hook hangs, the root cannot be written to or switch_root        *)
(* refuses (lines 101-107: sdhcp "must never run in the foreground or boot   *)
(* would block").                                                            *)
BootEnds ==
  AllWritable /\ world.hook = "returns" =>
    <>(pc \in {"login", "shell"} \/ (pc = "dead" /\ newroot # NoPart))

(* "root= accepts ... UUID=<filesystem uuid>" (line 38): a shell instead of  *)
(* the system only if no file system has that UUID.                          *)
UuidNamesFileSystem ==
  pc = "shell" /\ cmd.kind = "uuid" => ~\E i \in 1 .. Len(Scan) : Asked(Scan[i])
===============================================================================
