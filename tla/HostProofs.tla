------------------------------ MODULE HostProofs ------------------------------
(***************************************************************************)
(* Proofs about what runs on the build host.  MesonBuild, for every number *)
(* of parallel jobs and of builds one after the other, whatever fails: a   *)
(* job reads complete files (InputsWhole), and an image that was made is   *)
(* sound (ImageSound).  HostInstall: ExitStatusHonest, DoneMeansDurable    *)
(* and LeaksOnlyAroundMount.                                               *)
(***************************************************************************)
EXTENDS MesonBuild, HostInstall, FiniteSetTheorems, TLAPS

-----------------------------------------------------------------------------
(* The build: what is known of a target's files at each of its steps.      *)

\* Nothing runs, ends or fails before all it depends on is done; samurai never
\* runs a target again in the same build.
OrderInv == \A t \in Target : at[t] # "waiting" => \A d \in Depends(t) : at[d] = "done"

\* What the make steps wrote is complete when they are done, also over what a
\* failed build left behind, but for the two ways of Unsound.
FilesInv ==
  /\ at["musl"] = "done" => file["musl"] = "whole"
  /\ at["kernel"] = "done" => clash \/ file["bzImage"] = "whole"
  /\ at["userland"] = "done" => clash \/ file["staging"] = "whole"
  /\ at["initramfs"] = "done" => lost \/ file["cpio"] = "whole"

\* The tree, by the step assemble-rootfs.sh has reached; what was packed of it.
TreeInv ==
  /\ at["rootfs"] \in {"testlim", "treeefi", "treecd", "treekernel", "etc", "done"} =>
       clash \/ tree["userland"] = "whole"
  /\ at["rootfs"] \in {"etc", "done"} => clash \/ tree["vmlinuz"] = "whole"
  /\ at["rootfs"] = "done" => tree["etc"] = "whole"
  /\ at["initramfs"] \in {"gzip", "done"} =>
       /\ clash \/ (packed["userland"] = "whole" /\ packed["vmlinuz"] = "whole")
       /\ packed["etc"] = "whole"

\* The image, by the step make-iso.sh has reached.
IsoInv ==
  /\ at["iso"] \in {"isocpio", "isocd", "isoefi", "xorriso", "done"} =>
       clash \/ iso["vmlinuz"] = "whole"
  /\ at["iso"] \in {"isocd", "isoefi", "xorriso", "done"} => lost \/ iso["cpio"] = "whole"

BuildInv == BuildTypeOK /\ OrderInv /\ FilesInv /\ TreeInv /\ IsoInv
-----------------------------------------------------------------------------
(* The order of the targets.                                               *)

(* There are finitely many targets.                                         *)
LEMMA TargetFinite == IsFiniteSet(Target)
<1>1. ASSUME NEW x, NEW y PROVE IsFiniteSet({x, y})
  <2>1. IsFiniteSet({} \cup {x})
    BY FS_EmptySet, FS_AddElement
  <2>2. IsFiniteSet(({} \cup {x}) \cup {y})
    BY <2>1, FS_AddElement
  <2>3. ({} \cup {x}) \cup {y} = {x, y}
    OBVIOUS
  <2> QED
    BY <2>2, <2>3
<1>2. Target = (({"sysroot", "limine"} \cup {"musl", "kernel"}) \cup {"userland", "rootfs"})
               \cup {"initramfs", "iso"}
  BY DEF Target
<1> QED
  BY <1>1, <1>2, FS_Union

(* A job that goes on, ends or fails disturbs no other: those that wait for *)
(* it are waiting, and those it waits for stay done.                        *)
LEMMA OneAdvances ==
  ASSUME BuildTypeOK, OrderInv,
         NEW t \in Target, at[t] \in Step,
         NEW to \in Step \cup {"done", "failed"},
         at' = [at EXCEPT ![t] = to]
  PROVE  /\ at' \in [Target -> Step \cup Resting]
         /\ Cardinality(Running') <= Parallel
         /\ OrderInv'
<1>1. at' \in [Target -> Step \cup Resting]
  BY DEF BuildTypeOK, Resting
<1>2. Running' \subseteq Running
  BY DEF BuildTypeOK, Running
<1>3. Running \subseteq Target /\ IsFiniteSet(Running)
  BY TargetFinite, FS_Subset DEF Running
<1>4. Cardinality(Running') <= Cardinality(Running)
  BY <1>2, <1>3, FS_Subset
<1>5. Cardinality(Running') \in Nat /\ Cardinality(Running) \in Nat
  BY <1>2, <1>3, FS_Subset, FS_CardinalityType
<1>6. Cardinality(Running') <= Parallel
  BY <1>4, <1>5, BuildAssumption DEF BuildTypeOK, Running
<1>7. at[t] # "waiting" /\ at[t] # "done" /\ to # "waiting"
  BY DEF Step
<1>8. OrderInv'
  <2> SUFFICES ASSUME NEW u \in Target, at'[u] # "waiting", NEW d \in Depends(u)
               PROVE  at'[d] = "done"
    BY DEF OrderInv
  <2>1. Depends(u) \subseteq Target
    BY DEF Depends, Target
  <2>2. at[u] # "waiting"
    BY <1>7 DEF BuildTypeOK
  <2>3. at[d] = "done"
    BY <2>2 DEF OrderInv
  <2> QED
    BY <1>7, <2>1, <2>3 DEF BuildTypeOK
<1> QED
  BY <1>1, <1>6, <1>8

(* samurai starts a target: its turn has come, and there is a place free.   *)
LEMMA OneStarts ==
  ASSUME BuildTypeOK, OrderInv, NEW t \in Target, Start(t)
  PROVE  /\ at' \in [Target -> Step \cup Resting]
         /\ Cardinality(Running') <= Parallel
         /\ OrderInv'
<1>1. at[t] = "waiting" /\ (\A d \in Depends(t) : at[d] = "done") /\ First(t) \in Step
      /\ at' = [at EXCEPT ![t] = First(t)]
  BY DEF Start, Startable, First, Target, Step
<1>2. at' \in [Target -> Step \cup Resting]
  BY <1>1 DEF BuildTypeOK
<1>3. Running' = Running \cup {t} /\ t \notin Running
  BY <1>1 DEF BuildTypeOK, Running, Step
<1>4. IsFiniteSet(Running)
  BY TargetFinite, FS_Subset DEF Running
<1>5. Cardinality(Running') = Cardinality(Running) + 1 /\ Cardinality(Running) \in Nat
  BY <1>3, <1>4, FS_AddElement, FS_CardinalityType
<1>6. Cardinality(Running') <= Parallel
  BY <1>5, BuildAssumption DEF Start
<1>7. OrderInv'
  <2> SUFFICES ASSUME NEW u \in Target, at'[u] # "waiting", NEW d \in Depends(u)
               PROVE  at'[d] = "done"
    BY DEF OrderInv
  <2>1. Depends(u) \subseteq Target
    BY DEF Depends, Target
  <2>2. at[d] = "done"
    BY <1>1 DEF OrderInv, BuildTypeOK
  <2> QED
    BY <1>1, <2>1, <2>2 DEF BuildTypeOK
<1> QED
  BY <1>2, <1>6, <1>7
-----------------------------------------------------------------------------
(* Steps of the build.                                                     *)

\* What a step must establish besides the order of the targets.
ContentInv == FilesInv /\ TreeInv /\ IsoInv

\* The types of all but the control states.
StoreTypeOK ==
  /\ builds \in 1 .. MaxBuilds
  /\ limineDir \in BOOLEAN
  /\ file \in [File -> State]
  /\ tree \in [TreeItem -> State]
  /\ packed \in [TreeItem -> State]
  /\ lost \in BOOLEAN
  /\ clash \in BOOLEAN
  /\ iso \in [IsoItem -> State]

\* A clash stays on record.
Recorded == clash' \in BOOLEAN /\ (clash => clash')

(* A job that goes on keeps the order; what is left to show is what it      *)
(* writes.                                                                  *)
LEMMA JobKeeps ==
  ASSUME BuildInv,
         NEW t \in Target, at[t] \in Step,
         NEW to \in Step \cup {"done", "failed"},
         at' = [at EXCEPT ![t] = to],
         StoreTypeOK', ContentInv'
  PROVE  BuildInv'
<1>1. at' \in [Target -> Step \cup Resting] /\ Cardinality(Running') <= Parallel /\ OrderInv'
  BY OneAdvances DEF BuildInv
<1> QED
  BY <1>1 DEF BuildInv, BuildTypeOK, StoreTypeOK, ContentInv, Running

(* The jobs whose files are their own: sysroot, limine, musl, kernel and    *)
(* userland.                                                                *)
LEMMA MakesKeep ==
  ASSUME BuildInv, Recorded, Sysroot \/ LimineMake \/ LimineMkdir \/ LimineCopy \/ Musl \/ Kernel \/ Userland
  PROVE  BuildInv'
<1>1. CASE Sysroot
  <2>1. at["sysroot"] = "mkdir" /\ at' = [at EXCEPT !["sysroot"] = "done"]
        /\ UNCHANGED <<builds, limineDir, file, tree, packed, lost, iso>>
    BY <1>1 DEF Sysroot, Walk, Advance
  <2>2. StoreTypeOK' /\ ContentInv'
    BY <2>1 DEF BuildInv, BuildTypeOK, Recorded, StoreTypeOK, ContentInv, FilesInv, TreeInv, IsoInv, Target
  <2> QED
    BY <2>1, <2>2, JobKeeps DEF Target, Step
<1>2. CASE LimineMake
  <2>1. at["limine"] = "make" /\ at' = [at EXCEPT !["limine"] = "limdir"]
        /\ UNCHANGED <<builds, limineDir, file, tree, packed, lost, iso>>
    BY <1>2 DEF LimineMake, Walk, Advance
  <2>2. StoreTypeOK' /\ ContentInv'
    BY <2>1 DEF BuildInv, BuildTypeOK, Recorded, StoreTypeOK, ContentInv, FilesInv, TreeInv, IsoInv, Target
  <2> QED
    BY <2>1, <2>2, JobKeeps DEF Target, Step
<1>3. CASE LimineMkdir
  <2>1. at["limine"] = "limdir" /\ at' = [at EXCEPT !["limine"] = "cpcd"]
        /\ limineDir' = TRUE /\ UNCHANGED <<builds, file, tree, packed, lost, iso>>
    BY <1>3 DEF LimineMkdir, Advance
  <2>2. StoreTypeOK' /\ ContentInv'
    BY <2>1 DEF BuildInv, BuildTypeOK, Recorded, StoreTypeOK, ContentInv, FilesInv, TreeInv, IsoInv, Target
  <2> QED
    BY <2>1, <2>2, JobKeeps DEF Target, Step
<1>4. CASE LimineCopy
  <2>1. ASSUME NEW from \in Step, NEW to \in Step \cup {"done"},
               NEW f \in {"cdbin", "efi"}, NEW state \in State,
               Put("limine", from, to, f, state)
        PROVE  BuildInv'
    <3>1. at["limine"] = from /\ at' = [at EXCEPT !["limine"] = to]
          /\ file' = [file EXCEPT ![f] = state]
          /\ UNCHANGED <<builds, limineDir, tree, packed, lost, iso>>
      BY <2>1 DEF Put, Advance
    <3>2. StoreTypeOK' /\ ContentInv'
      BY <3>1 DEF BuildInv, BuildTypeOK, Recorded, StoreTypeOK, ContentInv, FilesInv, TreeInv, IsoInv,
                  Target, File
    <3> QED
      BY <3>1, <3>2, JobKeeps DEF Target
  <2> QED
    BY <1>4, <2>1 DEF LimineCopy, Step, State
<1>5. CASE Musl \/ Kernel \/ Userland
  <2>1. ASSUME NEW t \in {"musl", "kernel", "userland"}, NEW f \in File,
               f = CASE t = "musl" -> "musl" [] t = "kernel" -> "bzImage" [] t = "userland" -> "staging",
               NEW from \in {"make", "libc"}, NEW to \in {"install", "headers"},
               NEW s \in State, s = "whole" \/ (clash /\ t # "musl"),
               \/ Put(t, from, to, f, "partial")
               \/ Put(t, "install", "done", f, s)
        PROVE  BuildInv'
    <3>1. CASE Put(t, from, to, f, "partial")
      <4>1. at[t] = from /\ at' = [at EXCEPT ![t] = to]
            /\ file' = [file EXCEPT ![f] = "partial"]
            /\ UNCHANGED <<builds, limineDir, tree, packed, lost, iso>>
        BY <3>1 DEF Put, Advance
      <4>2. StoreTypeOK' /\ ContentInv'
        BY <2>1, <4>1 DEF BuildInv, BuildTypeOK, Recorded, StoreTypeOK, ContentInv, FilesInv, TreeInv,
                          IsoInv, Target, File, State
      <4> QED
        BY <4>1, <4>2, JobKeeps DEF Target, Step
    <3>2. CASE Put(t, "install", "done", f, s)
      <4>1. at[t] = "install" /\ at' = [at EXCEPT ![t] = "done"]
            /\ file' = [file EXCEPT ![f] = s]
            /\ UNCHANGED <<builds, limineDir, tree, packed, lost, iso>>
        BY <3>2 DEF Put, Advance
      <4>2. StoreTypeOK' /\ ContentInv'
        BY <2>1, <4>1 DEF BuildInv, BuildTypeOK, Recorded, StoreTypeOK, ContentInv, FilesInv, TreeInv,
                          IsoInv, Target, File, State
      <4> QED
        BY <4>1, <4>2, JobKeeps DEF Target, Step
    <3> QED
      BY <2>1, <3>1, <3>2
  <2>2. CASE Walk("userland", "headers", "install")
    <3>1. at["userland"] = "headers" /\ at' = [at EXCEPT !["userland"] = "install"]
          /\ UNCHANGED <<builds, limineDir, file, tree, packed, lost, iso>>
      BY <2>2 DEF Walk, Advance
    <3>2. StoreTypeOK' /\ ContentInv'
      BY <3>1 DEF BuildInv, BuildTypeOK, Recorded, StoreTypeOK, ContentInv, FilesInv, TreeInv,
                  IsoInv, Target
    <3> QED
      BY <3>1, <3>2, JobKeeps DEF Target, Step
  <2>3. CASE Musl
    BY <2>1, <2>3 DEF Musl, File, State
  <2>4. \A s \in Outcome : s \in State /\ (s = "whole" \/ clash)
    BY DEF Outcome, State
  <2>5. CASE Kernel
    BY <2>1, <2>4, <2>5 DEF Kernel, File, State
  <2>6. CASE Userland
    BY <2>1, <2>2, <2>4, <2>6 DEF Userland, File, State
  <2> QED
    BY <1>5, <2>3, <2>5, <2>6
<1> QED
  BY <1>1, <1>2, <1>3, <1>4, <1>5
(* What rootfs, initramfs and iso read was made by targets they depend on.  *)
LEMMA InputsMade ==
  ASSUME BuildInv
  PROVE  /\ at["userland"] # "waiting" => at["musl"] = "done" /\ file["musl"] = "whole"
         /\ at["rootfs"] # "waiting" =>
              /\ at["userland"] = "done" /\ at["kernel"] = "done"
              /\ clash \/ (file["staging"] = "whole" /\ file["bzImage"] = "whole")
         /\ at["initramfs"] # "waiting" => at["rootfs"] = "done"
         /\ at["iso"] # "waiting" =>
              /\ at["initramfs"] = "done" /\ at["kernel"] = "done"
              /\ lost \/ file["cpio"] = "whole"
              /\ clash \/ file["bzImage"] = "whole"
<1>1. /\ Depends("userland") = {"musl"}
      /\ Depends("rootfs") = {"musl", "userland", "kernel"}
      /\ Depends("initramfs") = {"rootfs"}
      /\ Depends("iso") = {"initramfs", "kernel"}
  BY DEF Depends
<1> QED
  BY <1>1 DEF BuildInv, OrderInv, FilesInv, Target

(* assemble-rootfs.sh: the tree is built up from complete files.            *)
LEMMA RootfsKeeps ==
  ASSUME BuildInv, Recorded,
         \/ RootfsClean \/ RootfsStage \/ RootfsLimine \/ RootfsEfi \/ RootfsCd
         \/ RootfsKernel \/ RootfsEtc
  PROVE  BuildInv'
<1> USE DEF BuildInv, BuildTypeOK, Recorded, StoreTypeOK, ContentInv, FilesInv, TreeInv, IsoInv, Target,
            File, State, TreeItem
<1>1. CASE RootfsClean
  <2>1. at["rootfs"] = "clean" /\ at' = [at EXCEPT !["rootfs"] = "stage"]
        /\ tree' = Nothing(TreeItem) /\ UNCHANGED <<builds, limineDir, file, packed, lost, iso>>
    BY <1>1 DEF RootfsClean, Advance
  <2>2. StoreTypeOK' /\ ContentInv'
    BY <2>1 DEF Nothing
  <2> QED
    BY <2>1, <2>2, JobKeeps DEF Step
<1>2. ASSUME NEW from \in Step, NEW to \in Step, NEW f \in File, NEW item \in TreeItem,
             CopyToTree(from, to, f, item),
             item \in {"userland", "vmlinuz"} => clash \/ file[f] = "whole",
             \/ from = "stage" /\ to = "testlim" /\ item = "userland"
             \/ from = "treeefi" /\ to = "treecd" /\ item = "efi"
             \/ from = "treecd" /\ to = "treekernel" /\ item = "cdbin"
             \/ from = "treekernel" /\ to = "etc" /\ item = "vmlinuz"
      PROVE  BuildInv'
  <2>1. PICK next \in {to, "failed"} :
          /\ next = IF file[f] = "absent" THEN "failed" ELSE to
          /\ at["rootfs"] = from /\ at' = [at EXCEPT !["rootfs"] = next]
          /\ tree' = [tree EXCEPT ![item] = file[f]]
          /\ UNCHANGED <<builds, limineDir, file, packed, lost, iso>>
    BY <1>2 DEF CopyToTree, Advance
  <2>2. at["initramfs"] = "waiting"
    BY <1>2, <2>1, InputsMade DEF Step
  <2>3. StoreTypeOK' /\ ContentInv'
    BY <1>2, <2>1, <2>2 DEF Step
  <2> QED
    BY <2>1, <2>3, JobKeeps
<1>3. CASE RootfsStage
  <2>1. clash \/ file["staging"] = "whole"
    BY <1>3, InputsMade DEF RootfsStage, CopyToTree, Advance
  <2> QED
    BY <1>2, <1>3, <2>1, SMTT(30) DEF RootfsStage, Step
<1>4. CASE RootfsLimine
  <2>1. PICK next \in {"treeefi", "treekernel"} :
          /\ at["rootfs"] = "testlim" /\ at' = [at EXCEPT !["rootfs"] = next]
          /\ UNCHANGED <<builds, limineDir, file, tree, packed, lost, iso>>
    BY <1>4 DEF RootfsLimine, Walk, Advance
  <2>2. StoreTypeOK' /\ ContentInv'
    BY <2>1
  <2> QED
    BY <2>1, <2>2, JobKeeps DEF Step
<1>5. CASE RootfsEfi
  BY <1>2, <1>5, SMTT(30) DEF RootfsEfi, Step
<1>6. CASE RootfsCd
  BY <1>2, <1>6, SMTT(30) DEF RootfsCd, Step
<1>7. CASE RootfsKernel
  <2>1. at["rootfs"] = "treekernel" /\ (clash \/ file["bzImage"] = "whole")
    BY <1>7, InputsMade DEF RootfsKernel, CopyToTree, Walk, Advance
  <2>2. CASE CopyToTree("treekernel", "etc", "bzImage", "vmlinuz")
    BY <1>2, <2>1, <2>2, SMTT(30) DEF Step
  <2>3. CASE file["bzImage"] = "absent" /\ Walk("rootfs", "treekernel", "etc")
    <3>1. clash /\ at' = [at EXCEPT !["rootfs"] = "etc"]
          /\ UNCHANGED <<builds, limineDir, file, tree, packed, lost, iso>>
      BY <2>1, <2>3 DEF Walk, Advance
    <3>2. StoreTypeOK' /\ ContentInv'
      BY <2>1, <3>1
    <3> QED
      BY <2>1, <3>1, <3>2, JobKeeps DEF Step
  <2> QED
    BY <1>7, <2>2, <2>3 DEF RootfsKernel
<1>8. CASE RootfsEtc
  <2>1. at["rootfs"] = "etc" /\ at' = [at EXCEPT !["rootfs"] = "done"]
        /\ tree' = [tree EXCEPT !["etc"] = "whole"]
        /\ UNCHANGED <<builds, limineDir, file, packed, lost, iso>>
    BY <1>8 DEF RootfsEtc, Advance
  <2>2. StoreTypeOK' /\ ContentInv'
    BY <2>1
  <2> QED
    BY <2>1, <2>2, JobKeeps DEF Step
<1> QED
  BY <1>1, <1>3, <1>4, <1>5, <1>6, <1>7, <1>8

(* The initramfs is packed from a finished tree.                            *)
LEMMA InitramfsKeeps ==
  ASSUME BuildInv, Recorded, InitramfsPack \/ PipeMemberFails \/ InitramfsGzip
  PROVE  BuildInv'
<1> USE DEF BuildInv, BuildTypeOK, Recorded, StoreTypeOK, ContentInv, FilesInv, TreeInv, IsoInv, Target,
            File, State, TreeItem
<1>1. CASE InitramfsPack
  <2>1. at["initramfs"] = "pack" /\ at' = [at EXCEPT !["initramfs"] = "gzip"]
        /\ file' = [file EXCEPT !["cpio"] = "partial"] /\ packed' = tree
        /\ lost' = FALSE /\ UNCHANGED <<builds, limineDir, tree, iso>>
    BY <1>1 DEF InitramfsPack, Advance
  <2>2. at["rootfs"] = "done" /\ at["iso"] = "waiting"
    BY <2>1, InputsMade
  <2>3. StoreTypeOK' /\ ContentInv'
    BY <2>1, <2>2
  <2> QED
    BY <2>1, <2>3, JobKeeps DEF Step
<1>2. CASE InitramfsGzip
  <2>1. at["initramfs"] = "gzip" /\ at' = [at EXCEPT !["initramfs"] = "done"]
        /\ file' = [file EXCEPT !["cpio"] = IF lost THEN "partial" ELSE "whole"]
        /\ UNCHANGED <<builds, limineDir, tree, packed, lost, iso>>
    BY <1>2 DEF InitramfsGzip, Put, Advance
  <2>2. StoreTypeOK' /\ ContentInv'
    BY <2>1
  <2> QED
    BY <2>1, <2>2, JobKeeps DEF Step
<1>3. CASE PipeMemberFails
  <2>1. at["initramfs"] = "gzip" /\ lost' = TRUE
        /\ UNCHANGED <<at, builds, limineDir, file, tree, packed, iso>>
    BY <1>3 DEF PipeMemberFails
  <2>2. at["iso"] = "waiting"
    BY <2>1, InputsMade
  <2>3. StoreTypeOK' /\ ContentInv'
    BY <2>1, <2>2
  <2> QED
    BY <2>1, <2>3 DEF OrderInv
<1> QED
  BY <1>1, <1>2, <1>3

(* make-iso.sh: the image is built up from complete files.                  *)
LEMMA IsoKeeps ==
  ASSUME BuildInv, Recorded, IsoKernel \/ IsoCpio \/ IsoCd \/ IsoEfi \/ Xorriso
  PROVE  BuildInv'
<1> USE DEF BuildInv, BuildTypeOK, Recorded, StoreTypeOK, ContentInv, FilesInv, TreeInv, IsoInv, Target,
            File, State, IsoItem
<1>1. ASSUME NEW from \in Step, NEW to \in Step, NEW f \in File, NEW item \in IsoItem,
             CopyToIso(from, to, f, item),
             item = "vmlinuz" => clash \/ file[f] = "whole",
             item = "cpio" => lost \/ file[f] = "whole",
             \/ from = "isokernel" /\ to = "isocpio" /\ item = "vmlinuz"
             \/ from = "isocpio" /\ to = "isocd" /\ item = "cpio"
             \/ from = "isocd" /\ to = "isoefi" /\ item = "cdbin"
             \/ from = "isoefi" /\ to = "xorriso" /\ item = "efi"
      PROVE  BuildInv'
  <2>1. PICK next \in {to, "failed"} :
          /\ next = IF file[f] = "absent" THEN "failed" ELSE to
          /\ at["iso"] = from /\ at' = [at EXCEPT !["iso"] = next]
          /\ iso' = [iso EXCEPT ![item] = file[f]]
          /\ UNCHANGED <<builds, limineDir, file, tree, packed, lost>>
    BY <1>1 DEF CopyToIso, Advance
  <2>2. StoreTypeOK' /\ ContentInv'
    BY <1>1, <2>1 DEF Step
  <2> QED
    BY <2>1, <2>2, JobKeeps
<1>2. CASE IsoKernel
  <2>1. clash \/ file["bzImage"] = "whole"
    BY <1>2, InputsMade DEF IsoKernel, CopyToIso, Advance
  <2> QED
    BY <1>1, <1>2, <2>1 DEF IsoKernel, Step
<1>3. CASE IsoCpio
  <2>1. lost \/ file["cpio"] = "whole"
    BY <1>3, InputsMade DEF IsoCpio, CopyToIso, Advance
  <2> QED
    BY <1>1, <1>3, <2>1 DEF IsoCpio, Step
<1>4. CASE IsoCd
  BY <1>1, <1>4 DEF IsoCd, Step
<1>5. CASE IsoEfi
  BY <1>1, <1>5 DEF IsoEfi, Step
<1>6. CASE Xorriso
  <2>1. at["iso"] = "xorriso" /\ at' = [at EXCEPT !["iso"] = "done"]
        /\ file' = [file EXCEPT !["image"] = "whole"]
        /\ UNCHANGED <<builds, limineDir, tree, packed, lost, iso>>
    BY <1>6 DEF Xorriso, Put, Advance
  <2>2. StoreTypeOK' /\ ContentInv'
    BY <2>1
  <2> QED
    BY <2>1, <2>2, JobKeeps DEF Step
<1> QED
  BY <1>2, <1>3, <1>4, <1>5, <1>6
(* samurai starts a target, a job fails, a build is started again.          *)
LEMMA SamuraiKeeps ==
  ASSUME BuildInv, Recorded, (\E t \in Target : Start(t) \/ JobFails(t)) \/ Again
  PROVE  BuildInv'
<1>1. ASSUME NEW t \in Target, Start(t)
      PROVE  BuildInv'
  <2>1. at' \in [Target -> Step \cup Resting] /\ Cardinality(Running') <= Parallel /\ OrderInv'
    BY <1>1, OneStarts DEF BuildInv
  <2>2. /\ First(t) \in {"mkdir", "make", "libc", "clean", "pack", "isokernel"}
        /\ at' = [at EXCEPT ![t] = First(t)]
        /\ UNCHANGED <<builds, limineDir, file, tree, packed, lost, iso>>
    BY <1>1 DEF Start, First, Target
  <2>3. StoreTypeOK' /\ ContentInv'
    BY <2>2 DEF BuildInv, BuildTypeOK, Recorded, StoreTypeOK, ContentInv, FilesInv, TreeInv, IsoInv, Target
  <2> QED
    BY <2>1, <2>3 DEF BuildInv, BuildTypeOK, StoreTypeOK, ContentInv, Running
<1>2. ASSUME NEW t \in Target, JobFails(t)
      PROVE  BuildInv'
  <2>1. /\ at[t] \in Step /\ at' = [at EXCEPT ![t] = "failed"]
        /\ UNCHANGED <<builds, limineDir, file, tree, packed, lost, iso>>
    BY <1>2 DEF JobFails, Running
  <2>2. StoreTypeOK' /\ ContentInv'
    BY <2>1 DEF BuildInv, BuildTypeOK, Recorded, StoreTypeOK, ContentInv, FilesInv, TreeInv, IsoInv, Target
  <2> QED
    BY <2>1, <2>2, JobKeeps
<1>3. CASE Again
  <2>1. /\ at' = [t \in Target |-> "waiting"]
        /\ builds' = builds + 1 /\ builds < MaxBuilds
        /\ UNCHANGED <<limineDir, file, tree, packed, lost, iso>>
    BY <1>3 DEF Again
  <2>2. at' \in [Target -> Step \cup Resting] /\ OrderInv'
    BY <2>1 DEF Resting, OrderInv
  <2>3. Running' = {}
    BY <2>1 DEF Running, Step
  <2>4. Cardinality(Running') <= Parallel
    BY <2>3, FS_EmptySet, BuildAssumption
  <2>5. StoreTypeOK'
    BY <2>1, BuildAssumption DEF BuildInv, BuildTypeOK, Recorded, StoreTypeOK
  <2>6. ContentInv'
    BY <2>1 DEF Recorded, ContentInv, FilesInv, TreeInv, IsoInv, Target
  <2> QED
    BY <2>2, <2>4, <2>5, <2>6 DEF BuildInv, BuildTypeOK, StoreTypeOK, ContentInv, Running
<1> QED
  BY <1>1, <1>2, <1>3

(* The invariant of the build, for every number of jobs and of builds.      *)
THEOREM BuildInvariant == BuildSpec => []BuildInv
<1>1. BuildInit => BuildInv
  <2> SUFFICES ASSUME BuildInit PROVE BuildInv
    OBVIOUS
  <2>1. Running = {}
    BY DEF BuildInit, Running, Step
  <2>2. Cardinality(Running) <= Parallel
    BY <2>1, FS_EmptySet, BuildAssumption
  <2>3. at \in [Target -> Step \cup Resting] /\ OrderInv
    BY DEF BuildInit, OrderInv, Resting
  <2>4. StoreTypeOK
    <3>1. builds \in 1 .. MaxBuilds
      BY BuildAssumption DEF BuildInit
    <3>2. limineDir \in BOOLEAN /\ lost \in BOOLEAN /\ clash \in BOOLEAN
      BY Zenon DEF BuildInit
    <3>3. "absent" \in State
      BY DEF State
    <3>4. /\ file \in [File -> State] /\ iso \in [IsoItem -> State]
          /\ tree \in [TreeItem -> State] /\ packed \in [TreeItem -> State]
      BY <3>3 DEF BuildInit, Nothing
    <3> QED
      BY <3>1, <3>2, <3>4 DEF StoreTypeOK
  <2>5. ContentInv
    BY DEF BuildInit, ContentInv, FilesInv, TreeInv, IsoInv, Target
  <2> QED
    BY <2>2, <2>3, <2>4, <2>5 DEF BuildInv, BuildTypeOK, StoreTypeOK, ContentInv, Running
<1>2. BuildInv /\ [BuildNext]_buildVars => BuildInv'
  <2> SUFFICES ASSUME BuildInv, [BuildNext]_buildVars PROVE BuildInv'
    OBVIOUS
  <2>1. CASE BuildNext
    <3>1. Recorded
      BY <2>1, Zenon DEF BuildNext, Recorded, BuildInv, BuildTypeOK, Meet
    <3>2. CASE Jobs
      BY <3>1, <3>2, MakesKeep, RootfsKeeps, InitramfsKeeps, IsoKeeps DEF Jobs
    <3>3. CASE PipeMemberFails
      BY <3>1, <3>3, InitramfsKeeps
    <3>4. CASE (\E t \in Target : Start(t) \/ JobFails(t)) \/ Again
      BY <3>1, <3>4, SamuraiKeeps
    <3> QED
      BY <2>1, <3>2, <3>3, <3>4 DEF BuildNext, Work, Mishap
  <2>2. CASE UNCHANGED buildVars
    BY <2>2 DEF buildVars, BuildInv, BuildTypeOK, OrderInv, FilesInv, TreeInv, IsoInv
  <2> QED
    BY <2>1, <2>2
<1> QED
  BY <1>1, <1>2, PTL DEF BuildSpec

(* The "depends" of meson.build cover what the scripts read: however many   *)
(* jobs run at a time and whatever earlier builds left, a running job's     *)
(* inputs are complete, or broken in one of the two ways of Unsound.        *)
THEOREM InputsWholeHolds == BuildSpec => []InputsWhole
<1>1. BuildInv => InputsWhole
  <2> SUFFICES ASSUME BuildInv, NEW t \in Running, NEW f \in Input(t)
               PROVE  at[Maker(f)] = "done" /\ (file[f] = "whole" \/ f \in Unsound)
    BY DEF InputsWhole
  <2>1. at[t] # "waiting" /\ t \in {"userland", "rootfs", "iso"}
    BY DEF Running, Input, Step
  <2> QED
    BY <2>1, InputsMade DEF Input, Maker, Unsound
<1> QED
  BY <1>1, BuildInvariant, PTL

(* An image that was made, in whichever build, holds a complete kernel and  *)
(* a complete initramfs, packed from a complete tree, but for the ways of   *)
(* Unsound.                                                                 *)
THEOREM ImageSoundHolds == BuildSpec => []ImageSound
<1>1. BuildInv => ImageSound
  BY InputsMade DEF ImageSound, BuildInv, TreeInv, IsoInv
<1> QED
  BY <1>1, BuildInvariant, PTL
-----------------------------------------------------------------------------
(* install.sh: what is mounted and what is written at each command.        *)

BarePC == UntrappedPC \cup {"losetup", "mkfsfat", "mkfsext", "partuuid", "mktemproot"}
FillPC == RootPC \cup EspPC \cup {"sync", "done", "end"}

\* The order of the commands that write below the mount points ...
Rank(p) ==
  CASE p = "copy"       -> 1
    [] p = "chown"      -> 2
    [] p = "suid"       -> 3
    [] p = "marker"     -> 4
    [] p \in {"openssl", "username", "askroot", "askuser", "passwd"} -> 5
    [] p = "shadow"     -> 6
    [] p = "shadowmode" -> 7
    [] p = "group"      -> 8
    [] p = "home"       -> 9
    [] p = "espdirs"    -> 10
    [] p = "limine"     -> 11
    [] p = "kernel"     -> 12
    [] p = "initramfs"  -> 13
    [] p = "conf"       -> 14
    [] OTHER            -> 15

\* ... and the one that writes each artifact.
WrittenAt(a) ==
  CASE a = "tree"        -> 1
    [] a = "owned"       -> 2
    [] a = "suid"        -> 3
    [] a = "marker"      -> 4
    [] a = "passwd"      -> 5
    [] a = "shadow"      -> 6
    [] a = "shadow600"   -> 7
    [] a = "group"       -> 8
    [] a = "home"        -> 9
    [] a = "EFI/BOOT"    -> 10
    [] a = "BOOTX64.EFI" -> 11
    [] a = "vmlinuz"     -> 12
    [] a = "initramfs"   -> 13
    [] a = "limine.conf" -> 14

ArtifactOf(s) == IF s = "root" THEN RootArtifact ELSE EspArtifact

\* While the script fills the target, both file systems are mounted, or a cleanup
\* that ran to its end has released everything.
MountInv ==
  /\ pc \in UntrappedPC => ~loop
  /\ pc \in BarePC => mntVars = {} /\ mounted = {}
  /\ pc = "mktempesp" => mntVars = {"root"} /\ mounted = {}
  /\ pc = "mountroot" => mntVars = Side /\ mounted = {}
  /\ pc = "mountesp" => mntVars = Side /\ mounted = {"root"}
  /\ pc \in FillPC => mntVars = Side /\ (mounted = Side \/ (mounted = {} /\ ~loop))

\* As long as both are mounted, the target has what the commands so far wrote.
FilledInv ==
  pc \in FillPC /\ mounted = Side =>
    \A s \in Side : \A a \in ArtifactOf(s) : WrittenAt(a) < Rank(pc) => a \in fs["target"][s]

\* After sync it is on the disk; the report comes later.
SavedInv ==
  /\ pc \in {"done", "end"} /\ mounted = Side => Installed
  /\ said => pc \in {"end", "exited"}
  /\ said /\ pc = "exited" => mounted # Side

HostInv ==
  /\ HostTypeOK
  /\ pc # "exited" => status = "running"
  /\ MountInv /\ FilledInv /\ SavedInv
  /\ ExitStatusHonest
  /\ LeaksOnlyAroundMount

(* At the end of the commands every artifact is due.                        *)
LEMMA AllDue ==
  ASSUME HostInv, pc \in {"sync", "done", "end"}, mounted = Side
  PROVE  RootArtifact \subseteq fs["target"]["root"] /\ EspArtifact \subseteq fs["target"]["esp"]
<1>1. Rank(pc) = 15 /\ pc \in FillPC
  BY DEF Rank, FillPC
<1>2. \A a \in Artifact : WrittenAt(a) < 15
  BY DEF WrittenAt, Artifact, RootArtifact, EspArtifact
<1>3. ArtifactOf("root") = RootArtifact /\ ArtifactOf("esp") = EspArtifact
      /\ "root" \in Side /\ "esp" \in Side
  BY DEF ArtifactOf, Side
<1>4. \A a \in RootArtifact : a \in fs["target"]["root"]
  BY <1>1, <1>2, <1>3 DEF HostInv, FilledInv, Artifact
<1>5. \A a \in EspArtifact : a \in fs["target"]["esp"]
  BY <1>1, <1>2, <1>3 DEF HostInv, FilledInv, Artifact
<1> QED
  BY <1>4, <1>5

(* cleanup keeps the types.                                                 *)
LEMMA CleanupType ==
  ASSUME HostTypeOK, Cleanup
  PROVE  /\ mounted' \in SUBSET Side /\ mounted' \subseteq mounted
         /\ durable' \in [Side -> SUBSET Artifact]
         /\ loop' \in BOOLEAN /\ (loop' => loop)
         /\ dirs' \in SUBSET Side
<1>1. mounted' \in SUBSET Side /\ mounted' \subseteq mounted
  BY DEF HostTypeOK, Cleanup
<1>2. durable' \in [Side -> SUBSET Artifact]
  BY DEF HostTypeOK, Cleanup, Side
<1>3. loop' \in BOOLEAN /\ (loop' => loop)
  BY DEF HostTypeOK, Cleanup
<1>4. dirs' \in SUBSET Side
  BY DEF HostTypeOK, Cleanup
<1> QED
  BY <1>1, <1>2, <1>3, <1>4

(* With both mounted, cleanup unmounts and so writes back both, and         *)
(* detaches the loop device.                                                *)
LEMMA CleanupReleases ==
  ASSUME HostTypeOK, Cleanup, mntVars = Side, mounted = Side
  PROVE  /\ mounted' = {} /\ ~loop'
         /\ \A s \in Side : durable'[s] = fs["target"][s]
<1>1. UmountEspOk /\ UmountRootOk
  BY DEF UmountEspOk, UmountRootOk, Side
<1>2. mounted' = {} /\ ~loop'
  BY <1>1 DEF Cleanup, Side
<1>3. \A s \in Side : durable'[s] = fs["target"][s]
  BY <1>1 DEF Cleanup, Side
<1> QED
  BY <1>2, <1>3

(* The script ends, wherever it is.                                         *)
LEMMA ExitKeeps ==
  ASSUME HostInv, pc # "exited", Exit
  PROVE  HostInv'
<1>1. HostTypeOK'
  <2>1. CASE Trapped
    BY <2>1, CleanupType DEF HostInv, HostTypeOK, Exit, PC
  <2>2. CASE ~Trapped
    BY <2>2 DEF HostInv, HostTypeOK, Exit, PC
  <2> QED
    BY <2>1, <2>2
<1>2. pc' = "exited" /\ last' = pc /\ UNCHANGED <<mntVars, fs, said>>
  BY DEF Exit
<1>3. MountInv' /\ FilledInv'
  BY <1>2 DEF MountInv, FilledInv, BarePC, FillPC, UntrappedPC, RootPC, EspPC
<1>4. CASE pc \in FillPC
  <2>1. Cleanup /\ Trapped /\ mntVars = Side
    BY <1>4 DEF Exit, Trapped, UntrappedPC, FillPC, RootPC, EspPC, HostInv, MountInv
  <2>2. CASE mounted = Side
    <3>1. mounted' = {} /\ ~loop' /\ (\A s \in Side : durable'[s] = fs["target"][s])
      BY <2>1, <2>2, CleanupReleases DEF HostInv
    <3>2. LeaksOnlyAroundMount' /\ SavedInv'
      BY <1>2, <3>1 DEF LeaksOnlyAroundMount, SavedInv, Side
    <3>3. ExitStatusHonest'
      <4>1. CASE pc = "end"
        BY <2>2, <3>1, <4>1, AllDue DEF ExitStatusHonest, Installed, Side
      <4>2. CASE pc # "end"
        BY <4>2 DEF Exit, ExitStatusHonest
      <4> QED
        BY <4>1, <4>2
    <3> QED
      BY <1>1, <1>2, <1>3, <3>2, <3>3 DEF HostInv
  <2>3. CASE mounted # Side
    <3>1. mounted = {} /\ ~loop
      BY <1>4, <2>3 DEF HostInv, MountInv
    <3>2. mounted' = {} /\ ~loop'
      BY <2>1, <3>1, CleanupType DEF HostInv
    <3>3. LeaksOnlyAroundMount' /\ SavedInv'
      BY <1>2, <3>2 DEF LeaksOnlyAroundMount, SavedInv, Side
    <3>4. ~CleanupOk
      BY <2>1, <3>1 DEF CleanupOk, RmdirOk, LosetupOk, UmountRootOk, UmountEspOk
    <3>5. ExitStatusHonest'
      BY <3>4 DEF Exit, ExitStatusHonest
    <3> QED
      BY <1>1, <1>2, <1>3, <3>3, <3>5 DEF HostInv
  <2> QED
    BY <2>2, <2>3
<1>5. CASE pc \notin FillPC
  <2>1. pc \in BarePC \cup {"mktempesp", "mountroot", "mountesp"}
    BY <1>5 DEF HostInv, HostTypeOK, PC, BarePC, FillPC, DiskPC
  <2>2. ExitStatusHonest'
    BY <1>5 DEF Exit, ExitStatusHonest, FillPC
  <2>3. SavedInv'
    BY <1>2, <1>5 DEF HostInv, SavedInv, FillPC
  <2>4. LeaksOnlyAroundMount'
    <3>1. CASE pc \in UntrappedPC
      BY <1>2, <3>1 DEF Exit, Trapped, HostInv, MountInv, BarePC, LeaksOnlyAroundMount
    <3>2. CASE pc \in BarePC \ UntrappedPC
      <4>1. Cleanup /\ mntVars = {} /\ mounted = {}
        BY <3>2 DEF Exit, Trapped, HostInv, MountInv
      <4>2. UmountRootOk
        BY <4>1 DEF UmountEspOk, UmountRootOk
      <4>3. mounted' = {} /\ ~loop'
        BY <4>1, <4>2 DEF Cleanup
      <4> QED
        BY <4>3 DEF LeaksOnlyAroundMount
    <3>3. CASE pc \in {"mktempesp", "mountroot", "mountesp"}
      BY <1>2, <3>3 DEF LeaksOnlyAroundMount
    <3> QED
      BY <2>1, <3>1, <3>2, <3>3
  <2> QED
    BY <1>1, <1>2, <1>3, <2>2, <2>3, <2>4 DEF HostInv
<1> QED
  BY <1>4, <1>5
(* SIGTERM: a cleanup that succeeds finds both file systems mounted, and    *)
(* the script goes on without them.                                         *)
LEMMA SigTermKeeps ==
  ASSUME HostInv, SigTerm
  PROVE  HostInv'
<1>1. CASE Trapped /\ CleanupOk
  <2>1. /\ pc # "exited" /\ Cleanup
        /\ UNCHANGED <<pc, image, mntVars, fs, said, last, status>>
    BY <1>1 DEF SigTerm
  <2>2. "esp" \in mntVars /\ "esp" \in mounted
    BY <1>1 DEF CleanupOk, RmdirOk, LosetupOk, UmountRootOk, UmountEspOk
  <2>3. pc \in FillPC /\ mntVars = Side /\ mounted = Side
    BY <2>1, <2>2 DEF HostInv, HostTypeOK, MountInv, PC, BarePC, FillPC, DiskPC
  <2>4. mounted' = {} /\ ~loop'
    BY <2>1, <2>3, CleanupReleases DEF HostInv
  <2>5. HostTypeOK'
    BY <2>1, CleanupType DEF HostInv, HostTypeOK
  <2>6. MountInv' /\ FilledInv' /\ SavedInv'
    BY <2>1, <2>3, <2>4 DEF HostInv, MountInv, FilledInv, SavedInv, Side, BarePC, FillPC,
                            UntrappedPC, RootPC, EspPC
  <2> QED
    BY <2>1, <2>5, <2>6 DEF HostInv, ExitStatusHonest, LeaksOnlyAroundMount
<1>2. CASE ~(Trapped /\ CleanupOk)
  BY <1>2, ExitKeeps DEF SigTerm
<1> QED
  BY <1>1, <1>2

-----------------------------------------------------------------------------
(* install.sh: the commands.                                               *)

(* A command before the target is filled that changes no mount.             *)
LEMMA BareKeeps ==
  ASSUME HostInv, pc \in BarePC, pc' \in BarePC,
         pc' \in UntrappedPC => pc \in UntrappedPC,
         loop' = loop \/ (loop' = TRUE /\ pc' \notin UntrappedPC),
         UNCHANGED <<image, mntVars, dirs, mounted, fs, durable, said, last, status>>
  PROVE  HostInv'
<1>1. HostTypeOK'
  <2>1. pc' \in PC
    BY DEF PC, BarePC, DiskPC
  <2>2. loop' \in BOOLEAN
    BY Zenon DEF HostInv, HostTypeOK
  <2> QED
    BY <2>1, <2>2 DEF HostInv, HostTypeOK
<1>2. MountInv'
  BY DEF HostInv, MountInv, BarePC, FillPC, UntrappedPC, RootPC, EspPC
<1>3. FilledInv' /\ SavedInv'
  BY DEF HostInv, FilledInv, SavedInv, BarePC, FillPC, UntrappedPC, RootPC, EspPC
<1> QED
  BY <1>1, <1>2, <1>3 DEF HostInv, ExitStatusHonest, LeaksOnlyAroundMount, Installed, BarePC,
                          UntrappedPC

(* Partitions and file systems.                                             *)
LEMMA DiskKeeps ==
  ASSUME HostInv,
         \/ Check \/ Truncate \/ Sfdisk \/ Losetup \/ MkfsFat \/ MkfsExt \/ PartUuid
  PROVE  HostInv'
<1> USE DEF Goto
<1>1. CASE Check \/ Truncate \/ Sfdisk \/ MkfsFat \/ MkfsExt \/ PartUuid
  <2>1. /\ pc \in BarePC /\ pc' \in BarePC /\ (pc' \in UntrappedPC => pc \in UntrappedPC)
        /\ UNCHANGED <<image, loop, mntVars, dirs, mounted, fs, durable, said, last, status>>
    BY <1>1 DEF Check, Truncate, Sfdisk, MkfsFat, MkfsExt, PartUuid, Pass, BarePC, UntrappedPC
  <2> QED
    BY <2>1, BareKeeps
<1>2. CASE Losetup
  BY <1>2, BareKeeps DEF Losetup, BarePC, UntrappedPC
<1> QED
  BY <1>1, <1>2

(* The mount points and the mounts.                                         *)
LEMMA MountKeeps ==
  ASSUME HostInv, MkTempRoot \/ MkTempEsp \/ MountRoot \/ MountEsp
  PROVE  HostInv'
<1> USE DEF Goto, Mount, MkTemp
<1>0. pc # "exited" /\ pc \notin FillPC /\ pc' # "exited"
      /\ UNCHANGED <<image, loop, fs, durable, said, last, status>>
  BY DEF MkTempRoot, MkTempEsp, MountRoot, MountEsp, FillPC, RootPC, EspPC
<1>1. HostTypeOK'
  <2>1. pc' \in PC
    BY DEF MkTempRoot, MkTempEsp, MountRoot, MountEsp, PC, DiskPC, RootPC
  <2>2. mntVars' \in SUBSET Side /\ dirs' \in SUBSET Side /\ mounted' \in SUBSET Side
    BY DEF MkTempRoot, MkTempEsp, MountRoot, MountEsp, HostInv, HostTypeOK, Side
  <2> QED
    BY <1>0, <2>1, <2>2 DEF HostInv, HostTypeOK
<1>2. MountInv'
  <2> USE DEF HostInv, MountInv, BarePC, FillPC, UntrappedPC, RootPC, EspPC
  <2>1. CASE MkTempRoot
    <3>1. pc' = "mktempesp" /\ mntVars' = {"root"} /\ mounted' = {}
      BY <2>1 DEF MkTempRoot
    <3> QED
      BY <3>1
  <2>2. CASE MkTempEsp
    <3>1. pc' = "mountroot" /\ mntVars' = Side /\ mounted' = {}
      BY <2>2 DEF MkTempEsp, Side
    <3> QED
      BY <3>1
  <2>3. CASE MountRoot
    <3>1. pc' = "mountesp" /\ mntVars' = Side /\ mounted' = {"root"}
      BY <2>3 DEF MountRoot
    <3> QED
      BY <3>1
  <2>4. CASE MountEsp
    <3>1. pc' = "copy" /\ mntVars' = Side /\ mounted' = Side
      BY <2>4 DEF MountEsp, Side
    <3> QED
      BY <3>1
  <2> QED
    BY <2>1, <2>2, <2>3, <2>4
<1>3. FilledInv'
  <2>1. pc' \in FillPC => pc' = "copy"
    BY DEF MkTempRoot, MkTempEsp, MountRoot, MountEsp, FillPC, RootPC, EspPC
  <2>2. \A s \in Side : \A a \in ArtifactOf(s) : ~(WrittenAt(a) < Rank("copy"))
    BY DEF ArtifactOf, WrittenAt, Rank, RootArtifact, EspArtifact
  <2> QED
    BY <2>1, <2>2 DEF FilledInv
<1>4. SavedInv'
  BY <1>0 DEF MkTempRoot, MkTempEsp, MountRoot, MountEsp, HostInv, SavedInv, FillPC
<1> QED
  BY <1>0, <1>1, <1>2, <1>3, <1>4 DEF HostInv, ExitStatusHonest, LeaksOnlyAroundMount

(* A command that writes nothing, between two that do.                      *)
LEMMA AskKeeps ==
  ASSUME HostInv, NeedOpenssl \/ AskUsername \/ AskRoot \/ AskUser
  PROVE  HostInv'
<1>1. /\ pc \in FillPC /\ pc' \in RootPC /\ Rank(pc') = Rank(pc) /\ pc # "end" /\ pc # "exited"
      /\ UNCHANGED <<image, loop, mntVars, dirs, mounted, fs, durable, said, last, status>>
  BY DEF NeedOpenssl, AskUsername, AskRoot, AskUser, Pass, Goto, FillPC, RootPC, Rank
<1>2. HostTypeOK' /\ pc' # "exited"
  BY <1>1 DEF HostInv, HostTypeOK, PC, RootPC
<1>3. MountInv'
  BY <1>1 DEF HostInv, MountInv, BarePC, FillPC, UntrappedPC, RootPC, EspPC
<1>4. FilledInv'
  BY <1>1 DEF HostInv, FilledInv, FillPC
<1>5. SavedInv'
  BY <1>1 DEF HostInv, SavedInv, RootPC
<1> QED
  BY <1>1, <1>2, <1>3, <1>4, <1>5 DEF HostInv, ExitStatusHonest, LeaksOnlyAroundMount

(* A command that writes an artifact: to the target, as long as that is     *)
(* mounted.                                                                 *)
LEMMA WriteKeeps ==
  ASSUME HostInv, NEW from \in RootPC \cup EspPC, NEW to \in FillPC \ {"done", "end"},
         NEW s \in Side, NEW a \in ArtifactOf(s),
         Rank(to) = Rank(from) + 1,
         \A b \in Artifact : WrittenAt(b) < Rank(to) => b = a \/ WrittenAt(b) < Rank(from),
         Write(from, to, s, a) \/ WriteMaking(from, to, s, a)
  PROVE  HostInv'
<1>1. /\ pc = from /\ pc' = to
      /\ fs' = [fs EXCEPT ![Where(s)][s] = @ \cup {a}]
      /\ dirs' \in {dirs, dirs \cup {s}}
      /\ UNCHANGED <<image, loop, mntVars, mounted, durable, said, last, status>>
  BY DEF Write, WriteMaking, Goto
<1>2. from \in FillPC /\ from \notin {"done", "end", "exited"} /\ to \notin {"done", "end", "exited"}
  BY DEF FillPC, RootPC, EspPC
<1>3. a \in Artifact /\ Where(s) \in {"target", "host"}
  BY DEF Artifact, ArtifactOf, Where
<1>4. fs \in [{"target", "host"} -> [Side -> SUBSET Artifact]]
  BY DEF HostInv, HostTypeOK
<1>5. /\ fs' \in [{"target", "host"} -> [Side -> SUBSET Artifact]]
      /\ \A u \in Side : fs["target"][u] \subseteq fs'["target"][u]
      /\ s \in mounted => a \in fs'["target"][s]
  BY <1>1, <1>3, <1>4 DEF Where
<1>6. HostTypeOK'
  BY <1>1, <1>2, <1>5 DEF HostInv, HostTypeOK, PC, FillPC
<1>7. MountInv'
  BY <1>1, <1>2 DEF HostInv, MountInv, BarePC, FillPC, UntrappedPC, RootPC, EspPC
<1>8. FilledInv'
  <2> SUFFICES ASSUME mounted' = Side, NEW u \in Side, NEW b \in ArtifactOf(u),
                      WrittenAt(b) < Rank(to)
               PROVE  b \in fs'["target"][u]
    BY <1>1 DEF FilledInv
  <2>1. b \in Artifact
    BY DEF Artifact, ArtifactOf
  <2>2. CASE WrittenAt(b) < Rank(from)
    BY <1>1, <1>2, <1>5, <2>2 DEF HostInv, FilledInv
  <2>3. CASE b = a
    <3>1. u = s
      BY <2>3 DEF ArtifactOf, RootArtifact, EspArtifact, Side
    <3> QED
      BY <1>1, <1>5, <2>3, <3>1
  <2> QED
    BY <2>1, <2>2, <2>3
<1>9. SavedInv'
  BY <1>1, <1>2 DEF HostInv, SavedInv
<1> QED
  BY <1>1, <1>2, <1>6, <1>7, <1>8, <1>9 DEF HostInv, ExitStatusHonest, LeaksOnlyAroundMount
(* The commands that fill the root file system.                             *)
LEMMA FillKeeps ==
  ASSUME HostInv, Fill
  PROVE  HostInv'
<1> DEFINE Next(from, to, a) ==
             /\ from \in RootPC \cup EspPC /\ to \in FillPC \ {"done", "end"}
             /\ Rank(to) = Rank(from) + 1
             /\ \A b \in Artifact : WrittenAt(b) < Rank(to) => b = a \/ WrittenAt(b) < Rank(from)
<1>1. /\ Next("copy", "chown", "tree") /\ Next("chown", "suid", "owned")
      /\ Next("suid", "marker", "suid") /\ Next("marker", "openssl", "marker")
  BY DEF RootPC, FillPC, Rank, WrittenAt, Artifact, RootArtifact, EspArtifact
<1>2. /\ Next("passwd", "shadow", "passwd") /\ Next("shadow", "shadowmode", "shadow")
      /\ Next("shadowmode", "group", "shadow600") /\ Next("group", "home", "group")
      /\ Next("home", "espdirs", "home")
  BY DEF RootPC, EspPC, FillPC, Rank, WrittenAt, Artifact, RootArtifact, EspArtifact
<1>3. "root" \in Side /\ ArtifactOf("root") = RootArtifact
  BY DEF Side, ArtifactOf
<1>4. RootArtifact = {"tree", "owned", "suid", "marker", "passwd", "shadow", "shadow600",
                      "group", "home"}
  BY DEF RootArtifact
<1>5. ASSUME NEW from, NEW to, NEW a \in RootArtifact, Next(from, to, a),
             Write(from, to, "root", a) \/ WriteMaking(from, to, "root", a)
      PROVE  HostInv'
  BY <1>3, <1>5, WriteKeeps
<1> HIDE DEF Next
<1>6. CASE CopyRootfs \/ Chown \/ ReapplySetuid \/ TouchMarker
  BY <1>1, <1>4, <1>5, <1>6 DEF CopyRootfs, Chown, ReapplySetuid, TouchMarker
<1>7. CASE EditPasswd \/ WriteShadow \/ ChmodShadow \/ EditGroup \/ MakeHome
  BY <1>2, <1>4, <1>5, <1>7 DEF EditPasswd, WriteShadow, ChmodShadow, EditGroup, MakeHome
<1> QED
  BY <1>6, <1>7, AskKeeps DEF Fill

(* The commands that fill the boot partition.                               *)
LEMMA EspKeeps ==
  ASSUME HostInv, MakeEspDirs \/ CopyLimine \/ CopyKernel \/ CopyInitramfs \/ WriteConf
  PROVE  HostInv'
<1> DEFINE Next(from, to, a) ==
             /\ from \in RootPC \cup EspPC /\ to \in FillPC \ {"done", "end"}
             /\ Rank(to) = Rank(from) + 1
             /\ \A b \in Artifact : WrittenAt(b) < Rank(to) => b = a \/ WrittenAt(b) < Rank(from)
<1>1. /\ Next("espdirs", "limine", "EFI/BOOT") /\ Next("limine", "kernel", "BOOTX64.EFI")
      /\ Next("kernel", "initramfs", "vmlinuz") /\ Next("initramfs", "conf", "initramfs")
      /\ Next("conf", "sync", "limine.conf")
  BY DEF EspPC, FillPC, Rank, WrittenAt, Artifact, RootArtifact, EspArtifact
<1>2. "esp" \in Side /\ ArtifactOf("esp") = EspArtifact
  BY DEF Side, ArtifactOf
<1>3. EspArtifact = {"EFI/BOOT", "BOOTX64.EFI", "vmlinuz", "initramfs", "limine.conf"}
  BY DEF EspArtifact
<1>4. ASSUME NEW from, NEW to, NEW a \in EspArtifact, Next(from, to, a),
             Write(from, to, "esp", a) \/ WriteMaking(from, to, "esp", a)
      PROVE  HostInv'
  BY <1>2, <1>4, WriteKeeps
<1> HIDE DEF Next
<1> QED
  BY <1>1, <1>3, <1>4 DEF MakeEspDirs, CopyLimine, CopyKernel, CopyInitramfs, WriteConf

(* sync writes back what is mounted; then the report is printed.            *)
LEMMA SyncDoneKeep ==
  ASSUME HostInv, Sync \/ Done
  PROVE  HostInv'
<1>1. CASE Sync
  <2>1. /\ pc = "sync" /\ pc' = "done"
        /\ durable' = [s \in Side |-> IF s \in mounted THEN fs["target"][s] ELSE durable[s]]
        /\ UNCHANGED <<image, loop, mntVars, dirs, mounted, fs, said, last, status>>
    BY <1>1 DEF Sync, Goto
  <2>2. durable' \in [Side -> SUBSET Artifact]
    BY <2>1 DEF HostInv, HostTypeOK
  <2>3. HostTypeOK'
    BY <2>1, <2>2 DEF HostInv, HostTypeOK, PC
  <2>4. MountInv'
    BY <2>1 DEF HostInv, MountInv, BarePC, FillPC, UntrappedPC, RootPC, EspPC
  <2>5. Rank(pc') = Rank(pc) /\ pc \in FillPC
    BY <2>1 DEF Rank, FillPC
  <2>6. FilledInv'
    BY <2>1, <2>5 DEF HostInv, FilledInv
  <2>7. SavedInv'
    <3>1. mounted = Side => Installed'
      BY <2>1, AllDue DEF Installed, Side
    <3> QED
      BY <2>1, <3>1 DEF HostInv, SavedInv
  <2> QED
    BY <2>1, <2>3, <2>4, <2>6, <2>7 DEF HostInv, ExitStatusHonest, LeaksOnlyAroundMount
<1>2. CASE Done
  <2>1. /\ pc = "done" /\ pc' = "end" /\ said' = TRUE
        /\ UNCHANGED <<image, loop, mntVars, dirs, mounted, fs, durable, last, status>>
    BY <1>2 DEF Done, Goto
  <2>2. HostTypeOK'
    BY <2>1 DEF HostInv, HostTypeOK, PC
  <2>3. MountInv'
    BY <2>1 DEF HostInv, MountInv, BarePC, FillPC, UntrappedPC, RootPC, EspPC
  <2>4. Rank(pc') = Rank(pc) /\ pc \in FillPC
    BY <2>1 DEF Rank, FillPC
  <2>5. FilledInv'
    BY <2>1, <2>4 DEF HostInv, FilledInv
  <2>6. SavedInv'
    BY <2>1 DEF HostInv, SavedInv, Installed
  <2> QED
    BY <2>1, <2>2, <2>3, <2>5, <2>6 DEF HostInv, ExitStatusHonest, LeaksOnlyAroundMount
<1> QED
  BY <1>1, <1>2

(* The invariant of install.sh.                                             *)
THEOREM HostInvariant == HostSpec => []HostInv
<1>1. HostInit => HostInv
  <2> SUFFICES ASSUME HostInit PROVE HostInv
    OBVIOUS
  <2>1. /\ fs \in [{"target", "host"} -> [Side -> SUBSET Artifact]]
        /\ durable \in [Side -> SUBSET Artifact]
    BY DEF HostInit
  <2>2. HostTypeOK
    BY <2>1 DEF HostInit, HostTypeOK, PC, UntrappedPC
  <2>3. pc = "check" /\ ~loop /\ ~said /\ mntVars = {} /\ mounted = {} /\ status = "running"
    BY DEF HostInit
  <2>4. MountInv /\ FilledInv /\ SavedInv
    BY <2>3 DEF MountInv, FilledInv, SavedInv, BarePC, FillPC, UntrappedPC, RootPC, EspPC
  <2> QED
    BY <2>2, <2>3, <2>4 DEF HostInv, ExitStatusHonest, LeaksOnlyAroundMount
<1>2. HostInv /\ [HostNext]_hostVars => HostInv'
  <2> SUFFICES ASSUME HostInv, [HostNext]_hostVars PROVE HostInv'
    OBVIOUS
  <2>1. CASE Prepare
    BY <2>1, DiskKeeps, MountKeeps DEF Prepare
  <2>2. CASE Fill
    BY <2>2, FillKeeps
  <2>3. CASE Finish
    <3>1. CASE End
      BY <3>1, ExitKeeps DEF End
    <3>2. CASE CommandCannotSucceed
      BY <3>2, ExitKeeps DEF CommandCannotSucceed, Ready
    <3> QED
      BY <2>3, <3>1, <3>2, EspKeeps, SyncDoneKeep DEF Finish
  <2>4. CASE CommandFails
    BY <2>4, ExitKeeps DEF CommandFails
  <2>5. CASE SigTerm
    BY <2>5, SigTermKeeps
  <2>6. CASE UNCHANGED hostVars
    BY <2>6 DEF hostVars, HostInv, HostTypeOK, MountInv, FilledInv, SavedInv, ExitStatusHonest,
                LeaksOnlyAroundMount, Installed
  <2> QED
    BY <2>1, <2>2, <2>3, <2>4, <2>5, <2>6 DEF HostNext
<1> QED
  BY <1>1, <1>2, PTL DEF HostSpec

(* install.sh exits with status 0 only when the whole system is on the      *)
(* target, whatever failed and however often SIGTERM came.                  *)
THEOREM ExitStatusHonestHolds == HostSpec => []ExitStatusHonest
BY HostInvariant, PTL DEF HostInv

(* "done" after a run that was not interrupted: the system is on the disk.  *)
THEOREM DoneMeansDurableHolds == HostSpec => []DoneMeansDurable
<1>1. HostInv => DoneMeansDurable
  BY DEF HostInv, SavedInv, DoneMeansDurable
<1> QED
  BY <1>1, HostInvariant, PTL

(* The loop device and the mounts are released at every end but those       *)
(* between the first mktemp and the second mount.                           *)
THEOREM LeaksOnlyAroundMountHolds == HostSpec => []LeaksOnlyAroundMount
BY HostInvariant, PTL DEF HostInv
===============================================================================
