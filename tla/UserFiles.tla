------------------------------ MODULE UserFiles ------------------------------
(***************************************************************************)
(* The account files slinux-install leaves on the target: /etc/passwd and  *)
(* /etc/group are written next to the old file and moved over it,          *)
(* /etc/shadow is truncated and written in place.  The script can end      *)
(* between any two commands, and the target is bootable by then (the boot  *)
(* loader is written first), so what the files say half way matters.       *)
(*                                                                         *)
(* A line of /etc/group is its gid and what follows "name:password:gid:",  *)
(* cut at colons: a good line has one such part, the member list.  The     *)
(* name and the password of a group are copied and left out here.  A user  *)
(* name is cut at colons too, which the pattern of the dialog lets through *)
(* ("[a-z_][a-z0-9_-]*" tests two characters): "cut" is the second field   *)
(* of such a name, and -1 a uid that is no number.                         *)
(***************************************************************************)
EXTENDS Integers, Sequences

CONSTANTS
  User,       \* names the dialog accepts for the new user
  Cut,        \* each of them up to its first colon, if it has one
  GroupFiles  \* /etc/group as copied from the running system: the lines,
              \* and whether the last one ends in a newline

\* What a field can hold; the two literals are named for the provers, which do
\* not take a literal for a member of STRING.
Word       == STRING \cup {"root", "cut"}
Uid        == {-1, 0, 1000}
Account    == [name : Word, uid : Uid, field : {"", "x", "cut"}]
ShadowLine == [name : Word, hash : {"", "RHASH", "UHASH", "cut"}]
GroupLine  == [gid : Nat, parts : Seq(SUBSET Word)]
GroupFile  == [lines : Seq(GroupLine), terminated : BOOLEAN]

\* A file without a newline at its end has at least the line that lacks it.
ASSUME UserAssumption ==
  /\ User \subseteq STRING /\ Cut \in [User -> STRING]
  /\ GroupFiles \subseteq GroupFile
  /\ \A f \in GroupFiles : f.terminated \/ f.lines # <<>>

VARIABLES
  original,   \* /etc/group before the rewrite (never changes)
  USER,       \* the name that was given (never changes)
  passwd,     \* /etc/passwd: records of name, uid and password field
  shadow,     \* /etc/shadow: records of name and hash
  mode,       \* the mode of /etc/shadow, "none" while there is no file
  group,      \* /etc/group
  passwdNew, groupNew,  \* the new files before they are moved
  unread,     \* what the read loop has not read of /etc/group
  pc

userVars == <<original, USER, passwd, shadow, mode, group, passwdNew, groupNew,
              unread, pc>>

File(lines, terminated) == [lines |-> lines, terminated |-> terminated]

\* etc/passwd of the image: root may log in without a password.
LivePasswd == <<[name |-> "root", uid |-> 0, field |-> ""]>>

\* assemble-rootfs.sh puts a shadow file into the image, the Makefile none.
LiveShadow == <<[name |-> "root", hash |-> ""]>>

UserInit ==
  /\ original \in GroupFiles
  /\ USER \in User
  /\ passwd = LivePasswd
  /\ \/ shadow = LiveShadow /\ mode = "600"
     \/ shadow = <<>> /\ mode = "none"
  /\ group = original
  /\ passwdNew = <<>>
  /\ groupNew = <<>>
  /\ unread = original
  /\ pc = "passwdroot"

UserPC == {"passwdroot", "passwduser", "passwdmv", "shadowroot", "shadowuser",
           "shadowmode", "groupopen", "groupread", "groupmv", "home", "done",
           "exited"}

UserTypeOK ==
  /\ original \in GroupFiles
  /\ USER \in User
  /\ passwd \in Seq(Account)
  /\ shadow \in Seq(ShadowLine)
  /\ mode \in {"none", "600", "644"}
  /\ group \in GroupFile
  /\ passwdNew \in Seq(Account)
  /\ groupNew \in Seq(GroupLine)
  /\ unread \in GroupFile
  /\ pc \in UserPC

-----------------------------------------------------------------------------
(* /etc/passwd.                                                            *)

\* > passwd.new; printf 'root:x:0:0:...' >>passwd.new
PasswdRoot ==
  /\ pc = "passwdroot"
  /\ passwdNew' = <<[name |-> "root", uid |-> 0, field |-> "x"]>>
  /\ pc' = "passwduser"
  /\ UNCHANGED <<original, USER, passwd, shadow, mode, group, groupNew, unread>>

\* The name has no colon
WholeName == Cut[USER] = USER

\* printf '%s:x:1000:100::...'
PasswdUser ==
  /\ pc = "passwduser"
  /\ passwdNew' = Append(passwdNew, IF WholeName
                       THEN [name |-> USER, uid |-> 1000, field |-> "x"]
                       ELSE [name |-> Cut[USER], uid |-> -1, field |-> "cut"])
  /\ pc' = "passwdmv"
  /\ UNCHANGED <<original, USER, passwd, shadow, mode, group, groupNew, unread>>

\* Mutant: the move to /etc/passwd is left out.
PasswdMvDropped ==
  /\ pc = "passwdmv"
  /\ pc' = "shadowroot"
  /\ UNCHANGED <<original, USER, passwd, shadow, mode, group, passwdNew, groupNew, unread>>

PasswdMv ==
  /\ pc = "passwdmv"
  /\ passwd' = passwdNew
  /\ passwdNew' = <<>>
  /\ pc' = "shadowroot"
  /\ UNCHANGED <<original, USER, shadow, mode, group, groupNew, unread>>

-----------------------------------------------------------------------------
(* /etc/shadow.                                                            *)

\* printf ... >shadow: an existing file keeps its mode, a new one is 644.
ShadowRoot ==
  /\ pc = "shadowroot"
  /\ shadow' = <<[name |-> "root", hash |-> "RHASH"]>>
  /\ mode' = IF mode = "none" THEN "644" ELSE mode
  /\ pc' = "shadowuser"
  /\ UNCHANGED <<original, USER, passwd, group, passwdNew, groupNew, unread>>

ShadowUser ==
  /\ pc = "shadowuser"
  /\ shadow' = Append(shadow, [name |-> Cut[USER],
                               hash |-> IF WholeName THEN "UHASH" ELSE "cut"])
  /\ pc' = "shadowmode"
  /\ UNCHANGED <<original, USER, passwd, mode, group, passwdNew, groupNew, unread>>

ChmodShadow ==
  /\ pc = "shadowmode"
  /\ mode' = "600"
  /\ pc' = "groupopen"
  /\ UNCHANGED <<original, USER, passwd, shadow, group, passwdNew, groupNew, unread>>

-----------------------------------------------------------------------------
(* /etc/group.                                                             *)

\* : >group.new, and the loop opens /etc/group.
GroupOpen ==
  /\ pc = "groupopen"
  /\ groupNew' = <<>>
  /\ unread' = group
  /\ pc' = "groupread"
  /\ UNCHANGED <<original, USER, passwd, shadow, mode, group, passwdNew>>

\* REST is empty where a line has an empty member list and nothing else.
Rest(line) == IF line.parts = <<{}>> THEN <<>> ELSE line.parts

\* Mutant: the user is added to every group from 10 on.
RewriteFromTen(line) ==
  [gid |-> line.gid,
   parts |-> <<IF line.gid >= 10 THEN {USER} ELSE {}>> \o Rest(line)]

MEM(gid) ==
  IF gid \notin {10, 100} THEN <<{}>>
  ELSE IF WholeName THEN <<{USER}>> ELSE <<{Cut[USER]}, {"cut"}>>

\* printf '%s:%s:%s:%s%s': MEM, and REST with a colon before it.
Rewrite(line) == [gid |-> line.gid, parts |-> MEM(line.gid) \o Rest(line)]

\* read fails on a last line without a newline: the body is not run for it.
Readable == IF unread.terminated THEN unread.lines # <<>> ELSE Len(unread.lines) > 1

\* Mutant: the line goes straight into /etc/group.
GroupReadInPlace ==
  /\ pc = "groupread"
  /\ Readable
  /\ groupNew' = Append(groupNew, Rewrite(Head(unread.lines)))
  /\ group' = File(groupNew', TRUE)
  /\ unread' = [unread EXCEPT !.lines = Tail(@)]
  /\ UNCHANGED <<original, USER, passwd, shadow, mode, passwdNew, pc>>

GroupRead ==
  /\ pc = "groupread"
  /\ Readable
  /\ groupNew' = Append(groupNew, Rewrite(Head(unread.lines)))
  /\ unread' = [unread EXCEPT !.lines = Tail(@)]
  /\ UNCHANGED <<original, USER, passwd, shadow, mode, group, passwdNew, pc>>

GroupEnd ==
  /\ pc = "groupread"
  /\ ~Readable
  /\ pc' = "groupmv"
  /\ UNCHANGED <<original, USER, passwd, shadow, mode, group, passwdNew, groupNew, unread>>

GroupMv ==
  /\ pc = "groupmv"
  /\ group' = File(groupNew, TRUE)
  /\ groupNew' = <<>>
  /\ pc' = "home"
  /\ UNCHANGED <<original, USER, passwd, shadow, mode, passwdNew, unread>>

\* mkdir -p, chown 1000:100
Home ==
  /\ pc = "home"
  /\ pc' = "done"
  /\ UNCHANGED <<original, USER, passwd, shadow, mode, group, passwdNew, groupNew, unread>>

\* A command fails, or the script is interrupted.
Ends ==
  /\ pc \notin {"done", "exited"}
  /\ pc' = "exited"
  /\ UNCHANGED <<original, USER, passwd, shadow, mode, group, passwdNew, groupNew, unread>>

UserNext == \/ PasswdRoot \/ PasswdUser \/ PasswdMv \/ ShadowRoot \/ ShadowUser
            \/ ChmodShadow \/ GroupOpen \/ GroupRead \/ GroupEnd \/ GroupMv
            \/ Home \/ Ends

UserSpec == UserInit /\ [][UserNext]_userVars

-----------------------------------------------------------------------------
(* Properties.                                                             *)

\* What getpwnam, getspnam and getgrent of the target's libc make of the
\* files: the first line of a name counts, a member list ends the line.
Lookup(file, n) == {i \in DOMAIN file : file[i].name = n
                                        /\ \A j \in 1 .. i - 1 : file[j].name # n}
MemberOf(line, u) == line.parts[1] # {} /\ Len(line.parts) = 1 /\ u \in line.parts[1]

(* A password that was asked for is in force: wherever the script ends, an    *)
(* account whose hash is in /etc/shadow is sent there by /etc/passwd (lines   *)
(* 165-176; with the two files written in the other order, an interrupted     *)
(* installation would let root in without the password just given).  The      *)
(* hash of a user whose name has a colon lands in another field.              *)
HashInForce ==
  \A i \in DOMAIN shadow : shadow[i].hash \in {"RHASH", "UHASH"} =>
    \A j \in Lookup(passwd, shadow[i].name) : passwd[j].field = "x"

(* /etc/group is never seen half written: it is the old file or the complete  *)
(* new one, with one line for each line the loop can read, which is every     *)
(* line that ends in a newline (lines 182-193).                               *)
GroupWhole ==
  \/ group = original
  \/ /\ pc \in {"home", "done", "exited"}
     /\ Len(group.lines) = Len(original.lines) - (IF original.terminated THEN 0 ELSE 1)

\* /etc/group as the images ship it: no members yet, a newline at the end.
AsShipped == /\ original.terminated
             /\ \A i \in DOMAIN original.lines : original.lines[i].parts = <<{}>>

(* "add the new user to wheel(10) and users(100)" (line 179): at the end the  *)
(* user is a member of these two groups where they exist, of no other, and no *)
(* group is lost.  It takes a file as the images ship it: a group that has    *)
(* members already becomes a line the C library reads differently (188-190),  *)
(* and a last line without a newline is dropped; and a name without a colon.  *)
JoinsWheelAndUsers ==
  pc = "done" /\ AsShipped /\ WholeName => \A i \in DOMAIN original.lines :
    /\ i \in DOMAIN group.lines
    /\ group.lines[i].gid = original.lines[i].gid
    /\ MemberOf(group.lines[i], USER) <=> original.lines[i].gid \in {10, 100}
===============================================================================
