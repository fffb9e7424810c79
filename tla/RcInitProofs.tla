----------------------------- MODULE RcInitProofs -----------------------------
(***************************************************************************)
(* Proofs about RcInit, for every set of partitions in any order of the    *)
(* scan, every content of theirs, every command line and every network:    *)
(* SwitchOnce, LoginOnRequestedRoot, ShellIsJustified and                  *)
(* OnlyRequestedRootTouched.                                               *)
(***************************************************************************)
EXTENDS RcInit, TLAPS

\* Position i of the scan is the first that the search takes.
FirstMatch(i) == Matches(Scan[i]) /\ \A j \in 1 .. i - 1 : ~Matches(Scan[j])

\* The search for PARTUUID= and UUID= ended, or would end, at p.
Resolves(p) == cmd.kind \in {"partuuid", "uuid"} =>
                 \E i \in 1 .. Len(Scan) : Scan[i] = p /\ FirstMatch(i)

\* Partition p is what root= names and what the search leads to.
Target(p) == p \in Part /\ Asked(p) /\ Resolves(p)

\* /tmp/.rootdev holds the matches among the first k - 1 lines of the scan.
HitsInv ==
  pc = "resolve" =>
    /\ cmd.kind \in {"partuuid", "uuid"}
    /\ \/ hits = <<>> /\ \A j \in 1 .. k - 1 : ~Matches(Scan[j])
       \/ hits # <<>> /\ \E i \in 1 .. k - 1 : Scan[i] = Head(hits) /\ FirstMatch(i)

\* A root other than the initramfs is one that root= names; after a
\* switch_root it is the one the search leads to.
RootInv ==
  /\ root \in Part => Asked(root)
  /\ switches > 0 => Target(root)
  /\ pc \in RootPC => cmd.kind # "none"
  /\ pc \in {"fsck", "mkdir", "mountnew"} => Target(ROOT)
  /\ pc \in {"touch", "move", "switch"} => Target(newroot)
  /\ pc \in ServePC \cup {"login"} => cmd.kind = "none" \/ Marked

\* mkdir has made the mount point where it can be made.
MkdirInv ==
  pc = "mountnew" /\ root \in Part => disks[root].fs # "rw" \/ disks[root].newdir

\* A root is a file system.
FsInv ==
  /\ root \in Part => disks[root].fs # "none"
  /\ pc \in {"touch", "move", "switch"} => newroot \in Part /\ disks[newroot].fs # "none"

\* The marker is on every root that was switched to, if it can be.
MarkerInv ==
  AllWritable =>
    /\ \A p \in Part : disks[p].marker => disks[p].fs # "none"
    /\ pc \in RootPC => switches = 0
    /\ pc \in {"touch", "move", "switch"} => disks[newroot].fs # "none"
    /\ pc \in {"move", "switch"} => disks[newroot].marker
    /\ switches > 0 => Marked
    /\ switches <= 1

(* Nobody but the script and the choice of the first root decide which      *)
(* partition becomes the root: the search keeps the first match, every      *)
(* later step keeps what it found, and the marker tells the second run of   *)
(* the script from the first.                                               *)
BootIInv ==
  /\ BootTypeOK
  /\ HitsInv
  /\ RootInv
  /\ MkdirInv
  /\ FsInv
  /\ MarkerInv
  /\ ShellIsJustified

-----------------------------------------------------------------------------
(* Types.                                                                  *)

(* What root= asks for has the type of its kind.                            *)
LEMMA CmdType ==
  ASSUME BootTypeOK
  PROVE  /\ cmd.kind \in {"none", "node", "partuuid", "uuid"}
         /\ cmd.kind = "node" => cmd.want \in Part
         /\ cmd.trace \in BOOLEAN
BY DEF BootTypeOK, Cmdline

\* The types hold when init starts the script.
LEMMA BootTypeInit == BootInit => BootTypeOK
<1> SUFFICES ASSUME BootInit PROVE BootTypeOK
  OBVIOUS
<1>1. 1 \in 1 .. Len(Scan) + 1
  BY PartAssumption
<1>2. FALSE \in BOOLEAN /\ <<>> \in Seq(Part) /\ {} \in SUBSET Service
  OBVIOUS
<1>3. 0 \in 0 .. 2
  OBVIOUS
<1>4. root \in Part \cup {Ram} /\ NoPart \in Part \cup {NoPart}
  BY DEF BootInit
<1> QED
  BY <1>1, <1>2, <1>3, <1>4, Zenon DEF BootInit, BootTypeOK, StartPC

\* Every command keeps the types; root= names a partition once one is looked for.
LEMMA BootTypeStep ==
  ASSUME BootTypeOK, RootInv, BootNext
  PROVE  BootTypeOK'
<1> USE DEF StartPC, RootPC, ServePC, OverPC
<1>1. Len(Scan) \in Nat /\ \A i \in 1 .. Len(Scan) : Scan[i] \in Part
  BY PartAssumption
<1>2. ASSUME NEW from, NEW to \in StartPC \cup RootPC \cup ServePC \cup OverPC, Pass(from, to)
      PROVE  BootTypeOK'
  BY <1>2 DEF Pass, BootTypeOK
<1>3. ASSUME NEW from, NEW to \in StartPC \cup RootPC \cup ServePC \cup OverPC,
             NEW s \in SUBSET Service, Start(from, to, s)
      PROVE  BootTypeOK'
  BY <1>3 DEF Start, BootTypeOK
<1>4. CASE Trace
  <2>1. tracing' \in BOOLEAN
    BY <1>4 DEF Trace
  <2> QED
    BY <1>4, <2>1 DEF Trace, BootTypeOK
<1>5. CASE Mounts
  BY <1>5 DEF Mounts, BootTypeOK
<1>6. CASE NoRootStep \/ Fsck \/ MoveMounts \/ SwitchRefused
  BY <1>2, <1>6 DEF NoRootStep, Fsck, MoveMounts, SwitchRefused
<1>7. CASE UseNode
  BY <1>7, CmdType DEF UseNode, BootTypeOK
<1>8. CASE StartResolve
  <2>1. k' \in 1 .. Len(Scan) + 1 /\ hits' \in Seq(Part)
    BY <1>1, <1>8 DEF StartResolve
  <2> QED
    BY <1>8, <2>1 DEF StartResolve, BootTypeOK
<1>9. CASE ResolveLine
  <2>1. k \in 1 .. Len(Scan) /\ hits \in Seq(Part)
    BY <1>1, <1>9 DEF ResolveLine, BootTypeOK
  <2>2. k + 1 \in 1 .. Len(Scan) + 1 /\ Append(hits, Scan[k]) \in Seq(Part)
    BY <1>1, <2>1
  <2>3. k' \in 1 .. Len(Scan) + 1 /\ hits' \in Seq(Part)
    BY <1>9, <2>1, <2>2 DEF ResolveLine
  <2> QED
    BY <1>9, <2>3 DEF ResolveLine, BootTypeOK
<1>10. CASE Resolved
  BY <1>10 DEF Resolved, BootTypeOK
<1>11. CASE MountNew
  BY <1>11 DEF MountNew, BootTypeOK
<1>12. CASE Touch
  <2>1. disks' \in [Part -> Disk]
    BY <1>12, ZenonT(30) DEF Touch, BootTypeOK, Disk
  <2> QED
    BY <1>12, <2>1 DEF Touch, BootTypeOK
<1>13. CASE Mkdir
  <2>1. disks' \in [Part -> Disk]
    BY <1>13, ZenonT(30) DEF Mkdir, BootTypeOK, Disk
  <2> QED
    BY <1>13, <2>1 DEF Mkdir, BootTypeOK
<1>14. CASE SwitchRoot
  <2>1. newroot \in Part
    BY <1>14 DEF SwitchRoot, RootInv, Target
  <2>2. k' \in 1 .. Len(Scan) + 1 /\ hits' \in Seq(Part) /\ switches' \in 0 .. 2
    BY <1>1, <1>14 DEF SwitchRoot, BootTypeOK
  <2>3. tracing' \in BOOLEAN
    BY <1>14 DEF SwitchRoot
  <2> QED
    BY <1>14, <2>1, <2>2, <2>3 DEF SwitchRoot, BootTypeOK
<1>15. CASE Services
  <2>1. CASE Network \/ WifiDone \/ Local \/ Pass("ssh", "local")
    BY <1>2, <2>1 DEF Network, WifiDone, Local
  <2>2. /\ {<<"syslogd", "host">>} \in SUBSET Service
        /\ {<<"sdhcp", "eth0">>} \in SUBSET Service
        /\ {<<"dropbear", "host">>} \in SUBSET Service
        /\ {"getty"} \X {"ttyS0", "tty1"} \in SUBSET Service
        /\ \A w \in Wlan : {<<"wpa_supplicant", w>>, <<"sdhcp", w>>} \in SUBSET Service
    BY DEF Service
  <2>3. CASE Syslogd
    BY <1>3, <2>2, <2>3 DEF Syslogd
  <2>4. CASE Dhcp
    BY <1>3, <2>2, <2>4 DEF Dhcp
  <2>5. ASSUME NEW w \in Wlan, WifiInterface(w) PROVE BootTypeOK'
    BY <1>3, <2>2, <2>5 DEF WifiInterface
  <2>6. CASE Start("ssh", "local", {<<"dropbear", "host">>})
    BY <1>3, <2>2, <2>6
  <2>7. CASE Getty
    BY <1>3, <2>2, <2>7 DEF Getty
  <2> QED
    BY <1>15, <2>1, <2>3, <2>4, <2>5, <2>6, <2>7 DEF Services, Ssh
<1>16. CASE Lease
  BY <1>16 DEF Lease, BootTypeOK
<1> QED
  BY <1>4, <1>5, <1>6, <1>7, <1>8, <1>9, <1>10, <1>11, <1>12, <1>14, <1>15, <1>16, <1>13
     DEF BootNext, BootScript, DiskRoot

-----------------------------------------------------------------------------
(* What never changes.                                                     *)

\* The command line and everything root= is compared with stay.
Steady ==
  /\ cmd' = cmd
  /\ \A p \in Part : /\ disks'[p].partuuid = disks[p].partuuid
                     /\ disks'[p].fsuuid = disks[p].fsuuid
                     /\ disks'[p].fs = disks[p].fs
                     /\ disks[p].marker => disks'[p].marker
                     /\ disks[p].newdir => disks'[p].newdir

\* No command changes what root= is compared with, or takes a marker away.
LEMMA StepIsSteady ==
  ASSUME BootTypeOK, BootNext
  PROVE  Steady
<1>1. ASSUME cmd' = cmd, disks' = disks PROVE Steady
  BY <1>1 DEF Steady
<1>2. CASE Touch
  BY <1>2 DEF Touch, Steady, BootTypeOK, Disk
<1>3. CASE Mkdir
  BY <1>3 DEF Mkdir, Steady, BootTypeOK, Disk
<1>4. CASE Services
  BY <1>1, <1>4 DEF Services, Syslogd, Network, Dhcp, WifiInterface, WifiDone, Ssh, Local,
     Getty, Start, Pass
<1>5. CASE DiskRoot /\ ~Touch /\ ~Mkdir
  BY <1>1, <1>5 DEF DiskRoot, NoRootStep, UseNode, StartResolve, ResolveLine, Resolved, Fsck,
     MountNew, MoveMounts, SwitchRoot, SwitchRefused, Pass
<1>6. CASE Trace \/ Mounts \/ Lease
  BY <1>1, <1>6 DEF Trace, Mounts, Lease
<1> QED
  BY <1>2, <1>4, <1>5, <1>6, <1>3 DEF BootNext, BootScript

(* So what root= names and what a search finds stay the same.               *)
LEMMA MeaningStays ==
  ASSUME BootTypeOK, Steady
  PROVE  /\ \A p \in Part : Asked(p)' <=> Asked(p)
         /\ \A p \in Part : Matches(p)' <=> Matches(p)
         /\ \A i \in 1 .. Len(Scan) : FirstMatch(i)' <=> FirstMatch(i)
         /\ \A p \in Part : Target(p)' <=> Target(p)
         /\ AllWritable' <=> AllWritable
<1>1. Len(Scan) \in Nat /\ \A i \in 1 .. Len(Scan) : Scan[i] \in Part
  BY PartAssumption
<1>2. ASSUME NEW p \in Part PROVE Asked(p)' <=> Asked(p)
  BY DEF Steady, Asked
<1>3. ASSUME NEW p \in Part PROVE Matches(p)' <=> Matches(p)
  BY DEF Steady, Matches
<1>4. ASSUME NEW i \in 1 .. Len(Scan) PROVE FirstMatch(i)' <=> FirstMatch(i)
  <2>1. \A j \in 1 .. i : Scan[j] \in Part
    BY <1>1
  <2>2. \A j \in 1 .. i : Matches(Scan[j])' <=> Matches(Scan[j])
    BY <2>1 DEF Steady, Matches
  <2> QED
    BY <1>1, <2>2 DEF FirstMatch
<1>5. ASSUME NEW p \in Part PROVE Target(p)' <=> Target(p)
  BY <1>2, <1>4 DEF Steady, Target, Resolves
<1>6. AllWritable' <=> AllWritable
  BY DEF Steady, AllWritable
<1> QED
  BY <1>2, <1>3, <1>4, <1>5, <1>6

-----------------------------------------------------------------------------
(* The invariant is preserved.                                             *)

\* The invariant holds when init starts the script.
LEMMA BootInitInv == BootInit => BootIInv
<1> SUFFICES ASSUME BootInit PROVE BootIInv
  OBVIOUS
<1>1. BootTypeOK
  BY BootTypeInit
<1>2. pc = "trace" /\ switches = 0 /\ (root \in Part => Asked(root))
  BY PartAssumption DEF BootInit, KernelRoot
<1>3. HitsInv /\ ShellIsJustified
  BY <1>2 DEF HitsInv, ShellIsJustified
<1>4. RootInv
  BY <1>2 DEF RootInv, RootPC, ServePC
<1>5. MarkerInv
  BY <1>2 DEF BootInit, MarkerInv, RootPC
<1>6. MkdirInv /\ FsInv
  BY <1>2, PartAssumption DEF BootInit, KernelRoot, MkdirInv, FsInv
<1> QED
  BY <1>1, <1>3, <1>4, <1>5, <1>6 DEF BootIInv

(* A line of the scan keeps the first match at the head of the list.        *)
LEMMA HitsStep ==
  ASSUME BootIInv, BootNext
  PROVE  HitsInv'
<1>1. BootTypeOK /\ HitsInv /\ Steady
  BY StepIsSteady DEF BootIInv
<1>2. Len(Scan) \in Nat /\ \A i \in 1 .. Len(Scan) : Scan[i] \in Part
  BY PartAssumption
<1>3. /\ \A p \in Part : Matches(p)' <=> Matches(p)
      /\ \A i \in 1 .. Len(Scan) : FirstMatch(i)' <=> FirstMatch(i)
      /\ cmd' = cmd
  BY <1>1, MeaningStays DEF Steady
<1>4. CASE StartResolve
  BY <1>4 DEF StartResolve, HitsInv
<1>5. CASE ResolveLine
  <2>1. /\ pc = "resolve" /\ k \in 1 .. Len(Scan) /\ k' = k + 1
        /\ hits' = (IF Matches(Scan[k]) THEN Append(hits, Scan[k]) ELSE hits)
        /\ hits \in Seq(Part) /\ cmd.kind \in {"partuuid", "uuid"}
    BY <1>1, <1>2, <1>5 DEF ResolveLine, BootTypeOK, HitsInv
  <2>2. \A j \in 1 .. k : Matches(Scan[j])' <=> Matches(Scan[j])
    BY <1>2, <1>3, <2>1
  <2>3. 1 .. k' - 1 = 1 .. k
    BY <2>1
  <2>4. CASE hits = <<>> /\ \A j \in 1 .. k - 1 : ~Matches(Scan[j])
    <3>1. CASE Matches(Scan[k])
      <4>1. hits' # <<>> /\ Head(hits') = Scan[k]
        BY <1>2, <2>1, <2>4, <3>1
      <4>2. FirstMatch(k)
        BY <2>4, <3>1 DEF FirstMatch
      <4> QED
        BY <1>3, <2>1, <2>3, <4>1, <4>2 DEF HitsInv
    <3>2. CASE ~Matches(Scan[k])
      <4>1. \A j \in 1 .. k : ~Matches(Scan[j])
        BY <2>1, <2>4, <3>2
      <4> QED
        BY <1>3, <2>1, <2>2, <2>3, <2>4, <3>2, <4>1 DEF HitsInv
    <3> QED
      BY <3>1, <3>2
  <2>5. CASE hits # <<>> /\ \E i \in 1 .. k - 1 : Scan[i] = Head(hits) /\ FirstMatch(i)
    <3>1. hits' # <<>> /\ Head(hits') = Head(hits)
      BY <1>2, <2>1, <2>5
    <3>2. PICK i \in 1 .. k - 1 : Scan[i] = Head(hits) /\ FirstMatch(i)
      BY <2>5
    <3>3. i \in 1 .. k /\ i \in 1 .. Len(Scan)
      BY <2>1
    <3> QED
      BY <1>3, <2>1, <2>3, <3>1, <3>2, <3>3 DEF HitsInv
  <2> QED
    BY <1>1, <2>1, <2>4, <2>5 DEF HitsInv
<1>6. CASE Lease
  <2>1. UNCHANGED <<pc, k, hits>>
    BY <1>6 DEF Lease
  <2> QED
    BY <1>1, <1>2, <1>3, <2>1 DEF HitsInv, BootTypeOK
<1>7. CASE DiskRoot /\ ~StartResolve /\ ~ResolveLine
  BY <1>7 DEF DiskRoot, NoRootStep, UseNode, Resolved, Fsck, Mkdir, MountNew, Touch,
     MoveMounts, SwitchRoot, SwitchRefused, Pass, HitsInv
<1>8. CASE Trace \/ Mounts \/ Services
  BY <1>8 DEF Trace, Mounts, Services, Syslogd, Network, Dhcp, WifiInterface, WifiDone, Ssh,
     Local, Getty, Start, Pass, HitsInv
<1> QED
  BY <1>4, <1>5, <1>6, <1>7, <1>8 DEF BootNext, BootScript

(* At the end of the scan, the head of the list is what the search is for.  *)
LEMMA ResolvedTarget ==
  ASSUME BootTypeOK, HitsInv, Resolved, hits # <<>>
  PROVE  Target(Head(hits))
<1>1. Len(Scan) \in Nat /\ \A i \in 1 .. Len(Scan) : Scan[i] \in Part
  BY PartAssumption
<1>2. pc = "resolve" /\ k = Len(Scan) + 1
  BY <1>1 DEF Resolved, BootTypeOK
<1>3. cmd.kind \in {"partuuid", "uuid"}
  BY <1>2 DEF HitsInv
<1>4. PICK i \in 1 .. Len(Scan) : Scan[i] = Head(hits) /\ FirstMatch(i)
  BY <1>1, <1>2 DEF HitsInv
<1>5. Asked(Scan[i])
  BY <1>3, <1>4 DEF FirstMatch, Matches, Asked
<1> QED
  BY <1>1, <1>4, <1>5 DEF Target, Resolves

\* The steps that leave the roots alone and stay in the script's part.
RootsAlone == UNCHANGED <<root, ROOT, newroot, switches, disks>>

\* The root stays one that root= names, through mount, move and switch_root.
LEMMA RootStep ==
  ASSUME BootIInv, BootNext
  PROVE  RootInv'
<1> USE DEF RootPC, ServePC
<1>1. BootTypeOK /\ HitsInv /\ RootInv /\ Steady
  BY StepIsSteady DEF BootIInv
<1>2. /\ \A p \in Part : Asked(p)' <=> Asked(p)
      /\ \A p \in Part : Target(p)' <=> Target(p)
      /\ cmd' = cmd
  BY <1>1, MeaningStays DEF Steady
<1>3. \A p : Target(p) => p \in Part /\ Asked(p)
  BY DEF Target
\* Steps within the script that change neither a root nor a disk.
<1>4. ASSUME RootsAlone,
             pc' \in {"fsck", "mkdir", "mountnew"} => pc \in {"fsck", "mkdir", "mountnew"},
             pc' \in {"touch", "move", "switch"} => pc \in {"touch", "move", "switch"},
             pc' \in {"resolve"} => cmd.kind # "none",
             pc' \in ServePC \cup {"login"} => pc \in ServePC \cup {"login"} \/ cmd.kind = "none" \/ Marked
      PROVE  RootInv'
  <2>1. Marked' <=> Marked
    BY <1>4 DEF RootsAlone, Marked
  <2> QED
    BY <1>1, <1>2, <1>3, <1>4, <2>1 DEF RootInv, RootsAlone
<1>5. CASE Trace \/ Mounts \/ Lease
  BY <1>1, <1>4, <1>5 DEF Trace, Mounts, Lease, RootsAlone, RootInv
<1>6. CASE Services
  BY <1>4, <1>6 DEF Services, Syslogd, Network, Dhcp, WifiInterface, WifiDone, Ssh, Local,
     Getty, Start, Pass, RootsAlone
<1>7. CASE NoRootStep \/ StartResolve \/ ResolveLine \/ Fsck \/ MoveMounts \/ SwitchRefused
  BY <1>1, <1>4, <1>7 DEF NoRootStep, StartResolve, ResolveLine, Fsck, MoveMounts,
     SwitchRefused, Pass, RootsAlone, RootInv
<1>8. CASE UseNode
  <2>1. ROOT' = cmd.want /\ pc' = "fsck" /\ cmd.kind = "node" /\ UNCHANGED <<root, newroot, switches>>
    BY <1>8 DEF UseNode
  <2>2. Target(cmd.want)
    BY <1>1, <2>1, CmdType DEF Target, Asked, Resolves
  <2>3. Target(ROOT)'
    BY <1>2, <1>3, <2>1, <2>2
  <2> QED
    BY <1>1, <1>2, <1>3, <2>1, <2>3 DEF RootInv
<1>9. CASE Resolved
  <2>1. UNCHANGED <<root, newroot, switches>> /\ pc = "resolve"
    BY <1>9 DEF Resolved
  <2>2. CASE hits = <<>>
    BY <1>1, <1>2, <1>3, <1>9, <2>1, <2>2 DEF Resolved, RootInv
  <2>3. CASE hits # <<>>
    <3>1. ROOT' = Head(hits) /\ pc' = "fsck"
      BY <1>9, <2>3 DEF Resolved
    <3>2. Target(Head(hits))
      BY <1>1, <1>9, <2>3, ResolvedTarget
    <3>3. Target(ROOT)'
      BY <1>2, <1>3, <3>1, <3>2
    <3> QED
      BY <1>1, <1>2, <1>3, <2>1, <3>1, <3>3 DEF RootInv
  <2> QED
    BY <2>2, <2>3
<1>10. CASE MountNew
  <2>1. /\ pc = "mountnew" /\ pc' \in {"shell", "touch"} /\ (pc' = "touch" => newroot' = ROOT)
        /\ UNCHANGED <<root, switches>>
    BY <1>10 DEF MountNew
  <2>2. Target(ROOT)
    BY <1>1, <2>1 DEF RootInv
  <2>3. pc' = "touch" => Target(newroot)'
    BY <1>2, <1>3, <2>1, <2>2
  <2> QED
    BY <1>1, <1>2, <1>3, <2>1, <2>3 DEF RootInv
<1>11. CASE Touch
  <2>1. pc = "touch" /\ pc' = "move" /\ UNCHANGED <<root, newroot, switches>>
    BY <1>11 DEF Touch
  <2>2. Target(newroot)
    BY <1>1, <2>1 DEF RootInv
  <2>3. Target(newroot)'
    BY <1>2, <1>3, <2>1, <2>2
  <2> QED
    BY <1>1, <1>2, <1>3, <2>1, <2>3 DEF RootInv
<1>12. CASE Mkdir
  <2>1. pc = "mkdir" /\ pc' = "mountnew" /\ UNCHANGED <<root, ROOT, newroot, switches>>
    BY <1>12 DEF Mkdir
  <2>2. Target(ROOT)
    BY <1>1, <2>1 DEF RootInv
  <2>3. Target(ROOT)'
    BY <1>2, <1>3, <2>1, <2>2
  <2> QED
    BY <1>1, <1>2, <1>3, <2>1, <2>3 DEF RootInv
<1>13. CASE SwitchRoot
  <2>1. pc = "switch" /\ pc' = "trace" /\ root' = newroot
    BY <1>13 DEF SwitchRoot
  <2>2. Target(newroot)
    BY <1>1, <2>1 DEF RootInv
  <2>3. Target(root)' /\ Asked(root)'
    BY <1>2, <1>3, <2>1, <2>2
  <2> QED
    BY <2>1, <2>3 DEF RootInv
<1> QED
  BY <1>5, <1>6, <1>7, <1>8, <1>9, <1>10, <1>11, <1>13, <1>12
     DEF BootNext, BootScript, DiskRoot

\* mkdir makes the mount point, and a root stays a file system.
LEMMA MountPointStep ==
  ASSUME BootIInv, BootNext
  PROVE  MkdirInv' /\ FsInv'
<1>1. BootTypeOK /\ RootInv /\ MkdirInv /\ FsInv /\ Steady
  BY StepIsSteady DEF BootIInv
<1>2. \A p \in Part : disks'[p].fs = disks[p].fs
  BY <1>1 DEF Steady
<1>3. CASE Mkdir
  <2>1. pc = "mkdir" /\ pc' = "mountnew" /\ UNCHANGED <<root, newroot>>
    BY <1>3 DEF Mkdir
  <2>2. root \in Part => disks'[root].fs # "rw" \/ disks'[root].newdir
    BY <1>1, <1>3 DEF Mkdir, BootTypeOK, Disk
  <2> QED
    BY <1>1, <1>2, <2>1, <2>2 DEF MkdirInv, FsInv
<1>4. CASE MountNew
  <2>1. pc = "mountnew" /\ root' = root /\ disks' = disks /\ pc' \in {"shell", "touch"}
        /\ (pc' = "touch" => newroot' = ROOT /\ disks[ROOT].fs # "none")
    BY <1>4 DEF MountNew
  <2>2. ROOT \in Part
    BY <1>1, <2>1 DEF RootInv, Target
  <2> QED
    BY <1>1, <2>1, <2>2 DEF MkdirInv, FsInv
<1>5. CASE SwitchRoot
  <2>1. pc = "switch" /\ pc' = "trace" /\ root' = newroot
    BY <1>5 DEF SwitchRoot
  <2> QED
    BY <1>1, <1>2, <2>1 DEF MkdirInv, FsInv
<1>6. CASE Touch
  <2>1. pc = "touch" /\ pc' = "move" /\ UNCHANGED <<root, newroot>>
    BY <1>6 DEF Touch
  <2> QED
    BY <1>1, <1>2, <2>1 DEF MkdirInv, FsInv
<1>7. CASE Services
  BY <1>1, <1>7 DEF Services, Syslogd, Network, Dhcp, WifiInterface, WifiDone, Ssh, Local,
     Getty, Start, Pass, MkdirInv, FsInv
<1>8. CASE NoRootStep \/ UseNode \/ StartResolve \/ ResolveLine \/ Resolved \/ Fsck
           \/ MoveMounts \/ SwitchRefused
  BY <1>1, <1>8 DEF NoRootStep, UseNode, StartResolve, ResolveLine, Resolved, Fsck,
     MoveMounts, SwitchRefused, Pass, MkdirInv, FsInv
<1>9. CASE Trace \/ Mounts \/ Lease
  BY <1>1, <1>9 DEF Trace, Mounts, Lease, MkdirInv, FsInv
<1> QED
  BY <1>3, <1>4, <1>5, <1>6, <1>7, <1>8, <1>9 DEF BootNext, BootScript, DiskRoot

(* The marker tells the second run of the script from the first.            *)
LEMMA MarkerStep ==
  ASSUME BootIInv, BootNext
  PROVE  MarkerInv'
<1> USE DEF RootPC
<1>1. BootTypeOK /\ RootInv /\ MarkerInv /\ Steady
  BY StepIsSteady DEF BootIInv
<1>2. AllWritable' <=> AllWritable
  BY <1>1, MeaningStays
<1> SUFFICES ASSUME AllWritable, AllWritable' PROVE MarkerInv'
  BY <1>2 DEF MarkerInv
<1>3. /\ \A p \in Part : disks[p].marker => disks[p].fs # "none"
      /\ pc \in RootPC => switches = 0
      /\ pc \in {"touch", "move", "switch"} => disks[newroot].fs # "none"
      /\ pc \in {"move", "switch"} => disks[newroot].marker
      /\ switches > 0 => Marked
      /\ switches <= 1 /\ switches \in 0 .. 2
  BY <1>1 DEF MarkerInv, BootTypeOK
\* Steps that leave the disks and the roots alone and enter no later part.
<1>4. ASSUME UNCHANGED <<root, newroot, switches, disks>>,
             pc' \in RootPC => pc \in RootPC \/ switches = 0,
             pc' \in {"touch", "move", "switch"} => pc \in {"touch", "move", "switch"},
             pc' \in {"move", "switch"} => pc \in {"move", "switch"}
      PROVE  MarkerInv'
  <2>1. Marked' <=> Marked
    BY <1>4 DEF Marked
  <2> QED
    BY <1>3, <1>4, <2>1 DEF MarkerInv
<1>5. ~Marked => switches = 0
  BY <1>3
<1>6. CASE Trace \/ Mounts \/ Lease
  BY <1>4, <1>6 DEF Trace, Mounts, Lease
<1>7. CASE Services
  BY <1>4, <1>7 DEF Services, Syslogd, Network, Dhcp, WifiInterface, WifiDone, Ssh, Local,
     Getty, Start, Pass
<1>8. CASE NoRootStep \/ UseNode \/ StartResolve \/ ResolveLine \/ Resolved \/ Fsck
           \/ MoveMounts \/ SwitchRefused
  BY <1>4, <1>5, <1>8 DEF NoRootStep, UseNode, StartResolve, ResolveLine, Resolved, Fsck,
     MoveMounts, SwitchRefused, Pass
<1>9. CASE MountNew
  <2>1. /\ pc = "mountnew" /\ UNCHANGED <<root, switches, disks>>
        /\ \/ pc' = "shell"
           \/ pc' = "touch" /\ newroot' = ROOT /\ disks[ROOT].fs # "none"
    BY <1>9 DEF MountNew
  <2>2. Marked' <=> Marked
    BY <2>1 DEF Marked
  <2> QED
    BY <1>3, <2>1, <2>2 DEF MarkerInv
<1>10. CASE Touch
  <2>1. /\ pc = "touch" /\ pc' = "move" /\ UNCHANGED <<root, newroot, switches>>
        /\ switches = 0
    BY <1>3, <1>10 DEF Touch
  <2>2. newroot \in Part /\ disks[newroot] \in Disk /\ disks[newroot].fs # "none"
    BY <1>1, <1>3, <2>1 DEF RootInv, Target, BootTypeOK
  <2>3. disks[newroot].fs = "rw"
    BY <2>2 DEF AllWritable, Disk
  <2>4. disks' = [disks EXCEPT ![newroot].marker = TRUE]
    BY <1>10, <2>3 DEF Touch
  <2>5. /\ disks'[newroot].marker /\ disks'[newroot].fs = disks[newroot].fs
        /\ \A p \in Part : p # newroot => disks'[p] = disks[p]
    BY <1>1, <2>2, <2>4 DEF BootTypeOK, Disk
  <2> QED
    BY <1>3, <2>1, <2>2, <2>5 DEF MarkerInv
<1>11. CASE Mkdir
  <2>1. pc = "mkdir" /\ pc' = "mountnew" /\ UNCHANGED <<root, newroot, switches>>
    BY <1>11 DEF Mkdir
  <2>2. \A p \in Part : disks'[p].marker = disks[p].marker /\ disks'[p].fs = disks[p].fs
    BY <1>1, <1>11 DEF Mkdir, BootTypeOK, Disk
  <2>3. Marked' <=> Marked
    BY <2>1, <2>2 DEF Marked
  <2> QED
    BY <1>3, <2>1, <2>2, <2>3 DEF MarkerInv
<1>12. CASE SwitchRoot
  <2>1. /\ pc = "switch" /\ pc' = "trace" /\ root' = newroot /\ disks' = disks
        /\ switches' = (IF switches < 2 THEN switches + 1 ELSE 2)
    BY <1>12 DEF SwitchRoot
  <2>2. switches = 0 /\ switches' = 1 /\ disks[newroot].marker
    BY <1>3, <2>1
  <2>3. newroot \in Part
    BY <1>1, <2>1 DEF RootInv, Target
  <2>4. Marked'
    BY <2>1, <2>2, <2>3 DEF Marked
  <2> QED
    BY <1>3, <2>1, <2>2, <2>4 DEF MarkerInv
<1> QED
  BY <1>6, <1>7, <1>8, <1>9, <1>10, <1>12, <1>11 DEF BootNext, BootScript, DiskRoot

(* The rescue shell is entered for a reason that lasts.                     *)
LEMMA ShellStep ==
  ASSUME BootIInv, BootNext
  PROVE  ShellIsJustified'
<1>1. BootTypeOK /\ HitsInv /\ RootInv /\ MkdirInv /\ FsInv /\ ShellIsJustified /\ Steady
  BY StepIsSteady DEF BootIInv
<1>2. \A p \in Part : Asked(p)' <=> Asked(p)
  BY <1>1, MeaningStays
<1>3. Len(Scan) \in Nat /\ \A i \in 1 .. Len(Scan) : Scan[i] \in Part
  BY PartAssumption
<1>4. cmd' = cmd /\ \A p \in Part : disks'[p].fs = disks[p].fs
  BY <1>1 DEF Steady
<1> DEFINE Reason == \/ \A i \in 1 .. Len(Scan) : ~Asked(Scan[i])
                     \/ \E p \in Part : Asked(p) /\ disks[p].fs = "none"
<1>5. ASSUME cmd.kind \in {"node", "partuuid"} => Reason
      PROVE  ShellIsJustified'
  BY <1>2, <1>3, <1>4, <1>5 DEF ShellIsJustified
<1>6. CASE Resolved
  <2>1. CASE hits = <<>>
    <3>1. pc = "resolve" /\ k = Len(Scan) + 1
      BY <1>1, <1>3, <1>6 DEF Resolved, BootTypeOK
    <3>2. cmd.kind \in {"partuuid", "uuid"} /\ \A j \in 1 .. Len(Scan) : ~Matches(Scan[j])
      BY <1>1, <1>3, <2>1, <3>1 DEF HitsInv
    <3>3. cmd.kind = "partuuid" => \A j \in 1 .. Len(Scan) : ~Asked(Scan[j])
      BY <3>2 DEF Matches, Asked
    <3> QED
      BY <1>5, <3>2, <3>3
  <2>2. CASE hits # <<>>
    BY <1>6, <2>2 DEF Resolved, ShellIsJustified
  <2> QED
    BY <2>1, <2>2
<1>7. CASE MountNew
  <2>1. CASE disks[ROOT].fs = "none"
    <3>1. Target(ROOT)
      BY <1>1, <1>7 DEF MountNew, RootInv
    <3> QED
      BY <1>5, <2>1, <3>1 DEF Target
  <2>2. CASE disks[ROOT].fs # "none" /\ HasNewroot
    BY <1>7, <2>2 DEF MountNew, ShellIsJustified
  <2>3. CASE ~HasNewroot
    <3>1. root \in Part /\ ~disks[root].newdir /\ pc = "mountnew"
          /\ UNCHANGED <<root, disks, cmd>>
      BY <1>1, <1>7, <2>3 DEF HasNewroot, BootTypeOK, MountNew
    <3>2. disks[root] \in Disk /\ disks[root].fs # "none" /\ disks[root].fs # "rw"
      BY <1>1, <3>1 DEF BootTypeOK, MkdirInv, FsInv
    <3>3. disks[root].fs = "ro"
      BY <3>2 DEF Disk
    <3> QED
      BY <3>1, <3>3 DEF ShellIsJustified
  <2> QED
    BY <2>1, <2>2, <2>3
<1>8. CASE Lease
  <2>1. UNCHANGED <<pc, root, disks>>
    BY <1>8 DEF Lease
  <2> QED
    BY <1>1, <1>2, <1>3, <1>4, <2>1 DEF ShellIsJustified
<1>9. CASE DiskRoot /\ ~Resolved /\ ~MountNew
  <2>1. pc' # "shell"
    BY <1>9 DEF DiskRoot, NoRootStep, UseNode, StartResolve, ResolveLine, Fsck, Mkdir,
       Touch, MoveMounts, SwitchRoot, SwitchRefused, Pass
  <2> QED
    BY <2>1 DEF ShellIsJustified
<1>10. CASE Trace \/ Mounts \/ Services
  <2>1. pc' # "shell"
    BY <1>10 DEF Trace, Mounts, Services, Syslogd, Network, Dhcp, WifiInterface, WifiDone, Ssh,
       Local, Getty, Start, Pass
  <2> QED
    BY <2>1 DEF ShellIsJustified
<1> QED
  BY <1>6, <1>7, <1>8, <1>9, <1>10 DEF BootNext, BootScript

\* A stuttering step keeps the invariant.
LEMMA BootStutter ==
  ASSUME BootIInv, UNCHANGED bootVars
  PROVE  BootIInv'
<1> USE DEF bootVars
<1>1. BootTypeOK /\ HitsInv /\ RootInv /\ MkdirInv /\ FsInv /\ MarkerInv /\ ShellIsJustified
  BY DEF BootIInv
<1>2. BootTypeOK'
  BY <1>1 DEF BootTypeOK
<1>3. HitsInv'
  BY <1>1 DEF HitsInv, FirstMatch, Matches
<1>4. RootInv'
  BY <1>1 DEF RootInv, Target, Resolves, Asked, FirstMatch, Matches, Marked
<1>5. MarkerInv'
  BY <1>1 DEF MarkerInv, AllWritable, Marked
<1>6. ShellIsJustified'
  BY <1>1 DEF ShellIsJustified, Asked
<1>7. MkdirInv' /\ FsInv'
  BY <1>1 DEF MkdirInv, FsInv
<1> QED
  BY <1>2, <1>3, <1>4, <1>5, <1>6, <1>7 DEF BootIInv

-----------------------------------------------------------------------------
(* The theorems.                                                           *)

(* The inductive invariant of the boot script.                              *)
THEOREM BootInvariant == BootSpec => []BootIInv
<1>1. BootIInv /\ [BootNext]_bootVars => BootIInv'
  <2>1. ASSUME BootIInv, BootNext PROVE BootIInv'
    <3>1. BootTypeOK'
      BY <2>1, BootTypeStep DEF BootIInv
    <3> QED
      BY <2>1, <3>1, HitsStep, RootStep, MountPointStep, MarkerStep, ShellStep DEF BootIInv
  <2> QED
    BY <2>1, BootStutter
<1> QED
  BY <1>1, BootInitInv, PTL DEF BootSpec

(* The marker ends disk-root mode: with writable partitions rc.init         *)
(* switches its root at most once.                                          *)
THEOREM SwitchesOnce == BootSpec => []SwitchOnce
<1>1. BootIInv => SwitchOnce
  BY DEF BootIInv, MarkerInv, SwitchOnce
<1> QED
  BY <1>1, BootInvariant, PTL

(* A login is offered on the root that root= names, and after a search for  *)
(* a PARTUUID on the first partition that has it.                           *)
THEOREM LoginWhereRequested == BootSpec => []LoginOnRequestedRoot
<1>1. ASSUME BootIInv PROVE LoginOnRequestedRoot
  <2> SUFFICES ASSUME pc = "login", cmd.kind # "none"
               PROVE  /\ root \in Part
                      /\ Asked(root)
                      /\ cmd.kind = "partuuid" /\ switches > 0 =>
                           \E i \in 1 .. Len(Scan) :
                             /\ Scan[i] = root
                             /\ \A j \in 1 .. i - 1 : ~Asked(Scan[j])
    BY DEF LoginOnRequestedRoot
  <2>1. RootInv
    BY <1>1 DEF BootIInv
  <2>2. root \in Part /\ Asked(root)
    BY <2>1 DEF RootInv, Marked
  <2>3. ASSUME cmd.kind = "partuuid", switches > 0
        PROVE  \E i \in 1 .. Len(Scan) :
                 Scan[i] = root /\ \A j \in 1 .. i - 1 : ~Asked(Scan[j])
    <3>1. PICK i \in 1 .. Len(Scan) : Scan[i] = root /\ FirstMatch(i)
      BY <2>1, <2>3 DEF RootInv, Target, Resolves
    <3>2. \A j \in 1 .. i - 1 : ~Asked(Scan[j])
      BY <2>3, <3>1 DEF FirstMatch, Matches, Asked
    <3> QED
      BY <3>1, <3>2
  <2> QED
    BY <2>2, <2>3
<1> QED
  BY <1>1, BootInvariant, PTL

(* The script gives up only where no partition has the PARTUUID, the one    *)
(* that root= names cannot be mounted, or the root it runs on is read-only  *)
(* and has no mount point.                                                  *)
THEOREM ShellJustified == BootSpec => []ShellIsJustified
<1>1. BootIInv => ShellIsJustified
  BY DEF BootIInv
<1> QED
  BY <1>1, BootInvariant, PTL

\* What OnlyRequestedRootTouched asks of a step.
WritesAsked == \A p \in Part : disks'[p] # disks[p] => Asked(p)

(* Booting writes to no partition but the one that root= names.             *)
THEOREM TouchesOnlyRequested == BootSpec => OnlyRequestedRootTouched
<1>1. BootIInv /\ [BootNext]_bootVars => [WritesAsked]_bootVars
  <2> SUFFICES ASSUME BootIInv, BootNext PROVE WritesAsked
    OBVIOUS
  <2>1. BootTypeOK /\ RootInv
    BY DEF BootIInv
  <2>2. CASE Touch
    <3>1. Target(newroot)
      BY <2>1, <2>2 DEF Touch, RootInv
    <3>2. newroot \in Part /\ Asked(newroot)
      BY <3>1 DEF Target
    <3>3. \A p \in Part : p # newroot => disks'[p] = disks[p]
      BY <2>1, <2>2, <3>2 DEF Touch, BootTypeOK
    <3> QED
      BY <3>2, <3>3 DEF WritesAsked
  <2>3. CASE Mkdir
    <3>1. root \in Part => Asked(root)
      BY <2>1 DEF RootInv
    <3>2. \A p \in Part : p # root => disks'[p] = disks[p]
      BY <2>1, <2>3 DEF Mkdir, BootTypeOK
    <3> QED
      BY <3>1, <3>2 DEF WritesAsked
  <2>4. CASE ~Touch /\ ~Mkdir
    <3>1. disks' = disks
      BY <2>4 DEF BootNext, BootScript, DiskRoot, Trace, Mounts, Lease, NoRootStep, UseNode,
         StartResolve, ResolveLine, Resolved, Fsck, MountNew, MoveMounts, SwitchRoot,
         SwitchRefused, Services, Syslogd, Network, Dhcp, WifiInterface, WifiDone, Ssh, Local,
         Getty, Start, Pass
    <3> QED
      BY <3>1 DEF WritesAsked
  <2> QED
    BY <2>2, <2>4, <2>3
<1> QED
  BY <1>1, BootInvariant, PTL DEF BootSpec, OnlyRequestedRootTouched, WritesAsked
===============================================================================
