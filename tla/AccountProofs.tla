---------------------------- MODULE AccountProofs ----------------------------
(***************************************************************************)
(* The accounts of a new installation, from the dialog that asks for them  *)
(* to the files that hold them.                                            *)
(*                                                                         *)
(* The dialog, for all lines, lengths and inputs: what is stored was given *)
(* twice in a row, and the terminal is left echoing.  The files, for every *)
(* user name and every /etc/group: none of the three properties is         *)
(* inductive, because what a file will say is decided while its new        *)
(* version is being written, so the invariant follows passwd.new,          *)
(* group.new and the read position as well.                                *)
(***************************************************************************)
EXTENDS PasswordDialog, UserFiles, SequenceTheorems, TLAPS

-----------------------------------------------------------------------------
(* PasswordDialog.                                                         *)

\* No line is lost or made up between the one who answers and the script.
LinesInv == Len(input) + Len(avail) <= MaxLines

\* From the first answer to the repeat, $PW is what getpass returned last,
\* and a repeat is asked for only where its length was accepted.
AnswerInv ==
  /\ dialog \in {"check", "rejected", "prompt2", "reading2"} =>
       answers # <<>> /\ answers[Len(answers)] = PW
  /\ dialog \in {"prompt2", "reading2"} => Accepted(AnswerLength[PW])

DialogIInv ==
  DialogTypeOK /\ LinesInv /\ AnswerInv /\ StoredWasRepeated /\ EchoRestored

-----------------------------------------------------------------------------
(* Answers.                                                                *)

\* An answer is a sequence of at most MaxLines lines.
LEMMA AnswerIsSeq ==
  ASSUME NEW a
  PROVE  a \in Answer <=> a \in Seq(Line) /\ Len(a) <= MaxLines
<1> USE DialogAssumption
<1>1. ASSUME a \in Answer PROVE a \in Seq(Line) /\ Len(a) <= MaxLines
  <2>1. PICK n \in 0 .. MaxLines : a \in [1 .. n -> Line]
    BY <1>1 DEF Answer
  <2>2. n \in Nat
    BY <2>1
  <2>3. a \in Seq(Line)
    BY <2>1, <2>2, SeqDef
  <2>4. Len(a) = n
    BY <2>1, <2>2, <2>3, LenProperties
  <2> QED BY <2>1, <2>3, <2>4
<1>2. ASSUME a \in Seq(Line), Len(a) <= MaxLines PROVE a \in Answer
  <2>1. Len(a) \in 0 .. MaxLines /\ a \in [1 .. Len(a) -> Line]
    BY <1>2, LenProperties
  <2> QED BY <2>1 DEF Answer
<1> QED BY <1>1, <1>2

\* The lines waiting and the lines taken, as sequences.
LEMMA TakenType ==
  ASSUME DialogTypeOK, LinesInv, avail # <<>>
  PROVE  /\ Taken \in Answer
         /\ Left \in Answer
         /\ Len(Left) <= Len(avail)
<1>1. avail \in Seq(Line) /\ Len(avail) <= MaxLines /\ Len(avail) \in Nat
  BY AnswerIsSeq DEF DialogTypeOK
<1>2. Len(avail) > 0 /\ Head(avail) \in Line
  BY <1>1
<1>3. /\ <<Head(avail)>> \in Seq(Line)
      /\ Len(<<Head(avail)>>) = 1
      /\ Tail(avail) \in Seq(Line)
      /\ Len(Tail(avail)) = Len(avail) - 1
      /\ <<>> \in Seq(Line)
      /\ Len(<<>>) = 0
  BY <1>1, <1>2
<1>4. 1 <= MaxLines /\ Len(avail) - 1 <= MaxLines /\ 0 <= MaxLines
  BY <1>1, <1>2, DialogAssumption
<1>5. /\ <<Head(avail)>> \in Answer
      /\ Tail(avail) \in Answer
      /\ <<>> \in Answer
      /\ avail \in Answer
  BY <1>1, <1>3, <1>4, AnswerIsSeq
<1>6. CASE tty
  BY <1>1, <1>3, <1>5, <1>6 DEF Taken, Left
<1>7. CASE ~tty
  BY <1>1, <1>3, <1>5, <1>7 DEF Taken, Left
<1> QED BY <1>6, <1>7

\* A longer history keeps its entries and ends in the new one.
LEMMA Recorded ==
  ASSUME DialogTypeOK, NEW a \in Answer, answers' = Append(answers, a)
  PROVE  /\ answers' \in Seq(Answer)
         /\ Len(answers) \in Nat
         /\ Len(answers') = Len(answers) + 1
         /\ answers'[Len(answers')] = a
         /\ \A i \in 1 .. Len(answers) : answers'[i] = answers[i]
         /\ answers' # <<>>
<1>1. answers \in Seq(Answer)
  BY DEF DialogTypeOK
<1> QED BY <1>1

\* What was repeated stays repeated in a longer history.
LEMMA StillRepeated ==
  ASSUME DialogTypeOK, NEW a \in Answer, answers' = Append(answers, a), NEW p,
         \E i \in 1 .. Len(answers) - 1 : answers[i] = p /\ answers[i + 1] = p
  PROVE  \E i \in 1 .. Len(answers') - 1 : answers'[i] = p /\ answers'[i + 1] = p
<1>1. PICK i \in 1 .. Len(answers) - 1 : answers[i] = p /\ answers[i + 1] = p
  OBVIOUS
<1>2. Len(answers) \in Nat /\ Len(answers') = Len(answers) + 1
  BY Recorded
<1>3. i \in 1 .. Len(answers) /\ i + 1 \in 1 .. Len(answers)
  BY <1>2
<1>4. answers'[i] = p /\ answers'[i + 1] = p
  BY <1>1, <1>3, Recorded
<1>5. i \in 1 .. Len(answers') - 1
  BY <1>2
<1> QED BY <1>4, <1>5

-----------------------------------------------------------------------------
\* Nothing has been typed, asked or stored yet.
LEMMA DialogInitial == DialogInit => DialogIInv
<1> SUFFICES ASSUME DialogInit PROVE DialogIInv
  OBVIOUS
<1>1. <<>> \in Answer /\ Len(<<>>) = 0
  <2>1. <<>> \in Seq(Line) /\ Len(<<>>) = 0
    OBVIOUS
  <2>2. Len(<<>>) <= MaxLines
    BY <2>1, DialogAssumption
  <2> QED BY <2>1, <2>2, AnswerIsSeq
<1>2. <<>> \in Seq(Answer)
  OBVIOUS
<1>3. stored \in [{"root", "user"} -> Answer]
  BY <1>1 DEF DialogInit
<1>4. DialogTypeOK
  BY <1>1, <1>2, <1>3 DEF DialogInit, DialogTypeOK, DialogPC
<1>5. LinesInv
  <2>1. Len(input) \in Nat /\ Len(input) <= MaxLines
    BY AnswerIsSeq DEF DialogInit
  <2> QED BY <1>1, <2>1, DialogAssumption DEF DialogInit, LinesInv
<1>6. AnswerInv /\ EchoRestored
  BY DEF DialogInit, AnswerInv, EchoRestored
<1>7. StoredWasRepeated
  BY DEF DialogInit, StoredWasRepeated
<1> QED BY <1>4, <1>5, <1>6, <1>7 DEF DialogIInv

\* Every step of the script and of the one who answers keeps the invariant.
LEMMA DialogStep == DialogIInv /\ [DialogNext]_dialogVars => DialogIInv'
<1> SUFFICES ASSUME DialogIInv, [DialogNext]_dialogVars PROVE DialogIInv'
  OBVIOUS
<1>1. DialogTypeOK /\ LinesInv /\ AnswerInv /\ StoredWasRepeated /\ EchoRestored
  BY DEF DialogIInv
<1>a. /\ input \in Seq(Line) /\ Len(input) \in Nat /\ Len(input) <= MaxLines
      /\ avail \in Seq(Line) /\ Len(avail) \in Nat /\ Len(avail) <= MaxLines
      /\ MaxLines \in Nat
  BY <1>1, AnswerIsSeq, DialogAssumption DEF DialogTypeOK
\* The history and what is stored stay: so does every pair of equal answers.
<1>b. ASSUME UNCHANGED <<answers, stored>> PROVE StoredWasRepeated'
  BY <1>1, <1>b DEF StoredWasRepeated
<1>c. ASSUME UNCHANGED <<input, avail>> PROVE LinesInv'
  BY <1>1, <1>c DEF LinesInv
<1>2. CASE GetpassStart("prompt", "reading") \/ GetpassStart("prompt2", "reading2")
  <2>1. DialogTypeOK'
    BY <1>1, <1>2 DEF GetpassStart, DialogTypeOK, DialogPC
  <2>2. AnswerInv' /\ EchoRestored'
    BY <1>1, <1>2 DEF GetpassStart, AnswerInv, EchoRestored
  <2>3. UNCHANGED <<answers, stored>> /\ UNCHANGED <<input, avail>>
    BY <1>2 DEF GetpassStart
  <2> QED BY <2>1, <2>2, <2>3, <1>b, <1>c DEF DialogIInv
<1>3. CASE ReadPassword
  <2>1. Taken \in Answer /\ Left \in Answer /\ Len(Left) <= Len(avail)
    BY <1>1, <1>3, TakenType DEF ReadPassword
  <2>2. answers' = Append(answers, Taken) /\ avail' = Left /\ PW' = Taken
    BY <1>3 DEF ReadPassword
  <2>3. /\ answers' \in Seq(Answer)
        /\ answers'[Len(answers')] = Taken
        /\ answers' # <<>>
    BY <1>1, <2>1, <2>2, Recorded
  <2>4. DialogTypeOK'
    BY <1>1, <1>3, <2>1, <2>2, <2>3 DEF ReadPassword, DialogTypeOK, DialogPC
  <2>5. LinesInv'
    <3>1. Len(Left) \in Nat
      BY <2>1, AnswerIsSeq
    <3>2. input' = input
      BY <1>3 DEF ReadPassword
    <3> QED BY <1>1, <1>a, <2>1, <2>2, <3>1, <3>2 DEF LinesInv
  <2>6. AnswerInv' /\ EchoRestored'
    BY <1>3, <2>2, <2>3 DEF ReadPassword, AnswerInv, EchoRestored
  <2>7. StoredWasRepeated'
    <3> SUFFICES ASSUME NEW w \in {"root", "user"}, stored[w] # <<>>
                 PROVE  /\ AnswerLength[stored[w]] >= 8
                        /\ \E i \in 1 .. Len(answers') - 1 :
                             answers'[i] = stored[w] /\ answers'[i + 1] = stored[w]
      BY <1>3 DEF ReadPassword, StoredWasRepeated
    <3>1. /\ AnswerLength[stored[w]] >= 8
          /\ \E i \in 1 .. Len(answers) - 1 :
               answers[i] = stored[w] /\ answers[i + 1] = stored[w]
      BY <1>1 DEF StoredWasRepeated
    <3> QED BY <1>1, <2>1, <2>2, <3>1, StillRepeated
  <2> QED BY <2>4, <2>5, <2>6, <2>7 DEF DialogIInv
<1>4. CASE CheckLength \/ Reject \/ GetpassEof \/ UsernameEof \/ CtrlC
  <2> USE DEF CheckLength, Reject, GetpassEof, UsernameEof, CtrlC
  <2>1. DialogTypeOK'
    BY <1>1, <1>4 DEF DialogTypeOK, DialogPC
  <2>2. AnswerInv' /\ EchoRestored'
    BY <1>1, <1>4 DEF AnswerInv, EchoRestored
  <2>3. UNCHANGED <<answers, stored>> /\ UNCHANGED <<input, avail>>
    BY <1>4
  <2> QED BY <2>1, <2>2, <2>3, <1>b, <1>c DEF DialogIInv
\* The repeat: what is stored is the last answer but one and the last.
<1>5. CASE ReadRepeat
  <2>1. Taken \in Answer /\ Left \in Answer /\ Len(Left) <= Len(avail)
    BY <1>1, <1>5, TakenType DEF ReadRepeat
  <2>2. answers' = Append(answers, Taken) /\ avail' = Left /\ input' = input
    BY <1>5 DEF ReadRepeat
  <2>3. /\ answers' \in Seq(Answer)
        /\ Len(answers) \in Nat
        /\ Len(answers') = Len(answers) + 1
        /\ answers'[Len(answers')] = Taken
        /\ \A i \in 1 .. Len(answers) : answers'[i] = answers[i]
    BY <1>1, <2>1, <2>2, Recorded
  <2>4. DialogTypeOK'
    <3>1. stored' \in [{"root", "user"} -> Answer]
      BY <1>1, <1>5 DEF ReadRepeat, DialogTypeOK
    <3>2. dialog' \in DialogPC
      BY <1>5 DEF ReadRepeat, DialogPC
    <3> QED BY <1>1, <1>5, <2>1, <2>2, <2>3, <3>1, <3>2 DEF ReadRepeat, DialogTypeOK
  <2>5. LinesInv'
    <3>1. Len(Left) \in Nat
      BY <2>1, AnswerIsSeq
    <3> QED BY <1>1, <1>a, <2>1, <2>2, <3>1 DEF LinesInv
  <2>6. AnswerInv' /\ EchoRestored'
    BY <1>5 DEF ReadRepeat, AnswerInv, EchoRestored
  <2>7. StoredWasRepeated'
    <3> SUFFICES ASSUME NEW w \in {"root", "user"}, stored'[w] # <<>>
                 PROVE  /\ AnswerLength[stored'[w]] >= 8
                        /\ \E i \in 1 .. Len(answers') - 1 :
                             answers'[i] = stored'[w] /\ answers'[i + 1] = stored'[w]
      BY DEF StoredWasRepeated
    <3>1. CASE stored'[w] = stored[w]
      <4>1. /\ AnswerLength[stored[w]] >= 8
            /\ \E i \in 1 .. Len(answers) - 1 :
                 answers[i] = stored[w] /\ answers[i + 1] = stored[w]
        BY <1>1, <3>1 DEF StoredWasRepeated
      <4> QED BY <1>1, <2>1, <2>2, <3>1, <4>1, StillRepeated
    <3>2. CASE stored'[w] # stored[w]
      <4>1. stored'[w] = PW /\ Taken = PW
        BY <1>1, <1>5, <3>2 DEF ReadRepeat, DialogTypeOK
      <4>2. /\ answers # <<>>
            /\ answers[Len(answers)] = PW
            /\ Accepted(AnswerLength[PW])
        BY <1>1, <1>5 DEF ReadRepeat, AnswerInv
      <4>3. AnswerLength[PW] >= 8
        BY <4>2 DEF Accepted
      <4> DEFINE n == Len(answers)
      <4>4. n \in 1 .. Len(answers') - 1
        <5>1. n > 0
          BY <1>1, <4>2 DEF DialogTypeOK
        <5> QED BY <2>3, <5>1
      <4>5. answers'[n] = PW /\ answers'[n + 1] = PW
        BY <2>3, <4>1, <4>2, <4>4
      <4> QED BY <4>1, <4>3, <4>4, <4>5
    <3> QED BY <3>1, <3>2
  <2> QED BY <2>4, <2>5, <2>6, <2>7 DEF DialogIInv
<1>6. CASE ReadUsername
  <2>1. /\ avail' = Tail(avail) /\ Tail(avail) \in Seq(Line)
        /\ Len(Tail(avail)) = Len(avail) - 1
    <3>1. avail # <<>> /\ avail' = Tail(avail)
      BY <1>6 DEF ReadUsername
    <3> QED BY <3>1, <1>a
  <2>2. avail' \in Answer
    <3>1. Len(Tail(avail)) <= MaxLines
      BY <2>1, <1>a
    <3> QED BY <2>1, <3>1, AnswerIsSeq
  <2>3. DialogTypeOK'
    <3>1. dialog' \in DialogPC /\ who' \in {"root", "user"}
      BY <1>1, <1>6 DEF ReadUsername, DialogTypeOK, DialogPC
    <3> QED BY <1>1, <1>6, <2>2, <3>1 DEF ReadUsername, DialogTypeOK
  <2>4. LinesInv'
    BY <1>1, <1>a, <1>6, <2>1 DEF LinesInv, ReadUsername
  <2>5. AnswerInv' /\ EchoRestored'
    BY <1>1, <1>6 DEF ReadUsername, AnswerInv, EchoRestored
  <2>6. UNCHANGED <<answers, stored>>
    BY <1>6 DEF ReadUsername
  <2> QED BY <2>3, <2>4, <2>5, <2>6, <1>b DEF DialogIInv
<1>7. CASE Type
  <2>1. /\ avail' = Append(avail, Head(input)) /\ input' = Tail(input)
        /\ input # <<>> /\ Head(input) \in Line
    BY <1>7, <1>a DEF Type
  <2>2. /\ input' \in Seq(Line) /\ Len(input') = Len(input) - 1
        /\ avail' \in Seq(Line) /\ Len(avail') = Len(avail) + 1
    BY <2>1, <1>a
  <2>3. LinesInv' /\ Len(avail') <= MaxLines /\ Len(input') <= MaxLines
    BY <2>1, <2>2, <1>1, <1>a DEF LinesInv
  <2>4. input' \in Answer /\ avail' \in Answer
    BY <2>2, <2>3, AnswerIsSeq
  <2>5. DialogTypeOK'
    BY <1>1, <1>7, <2>4 DEF Type, DialogTypeOK
  <2>6. AnswerInv' /\ EchoRestored'
    BY <1>1, <1>7 DEF Type, AnswerInv, EchoRestored
  <2>7. UNCHANGED <<answers, stored>>
    BY <1>7 DEF Type
  <2> QED BY <2>3, <2>5, <2>6, <2>7, <1>b DEF DialogIInv
<1>8. CASE UNCHANGED dialogVars
  BY <1>1, <1>8 DEF dialogVars, DialogIInv, DialogTypeOK, LinesInv, AnswerInv,
                    StoredWasRepeated, EchoRestored
<1> QED
  BY <1>2, <1>3, <1>4, <1>5, <1>6, <1>7, <1>8
     DEF DialogNext, Script, Prompt, Prompt2

-----------------------------------------------------------------------------
(* The theorems.                                                           *)

(* The invariant of the dialog, for every input and every moment at which    *)
(* it is typed (slinux-install lines 70-80 and 148-160, getpass.c).          *)
THEOREM DialogInvariant == DialogSpec => []DialogIInv
<1>1. DialogInit => DialogIInv
  BY DialogInitial
<1>2. DialogIInv /\ [DialogNext]_dialogVars => DialogIInv'
  BY DialogStep
<1> QED BY <1>1, <1>2, PTL DEF DialogSpec

(* A stored password was given at two successive prompts and has at least    *)
(* eight characters (lines 71-79).                                           *)
THEOREM PasswordRepeated == DialogSpec => []StoredWasRepeated
<1>1. DialogIInv => StoredWasRepeated
  BY DEF DialogIInv
<1> QED BY <1>1, DialogInvariant, PTL

(* Only Ctrl-C leaves the terminal without echo once getpass has ended       *)
(* (getpass.c lines 24-33).                                                  *)
THEOREM TerminalEchoes == DialogSpec => []EchoRestored
<1>1. DialogIInv => EchoRestored
  BY DEF DialogIInv
<1> QED BY <1>1, DialogInvariant, PTL

-----------------------------------------------------------------------------
(* UserFiles.                                                              *)

\* root's line is the first, and refers to /etc/shadow; the user's does where
\* it has the fields it was given.
AllShadowed(file) ==
  /\ 1 \in DOMAIN file
  /\ file[1].name = "root" /\ file[1].field = "x"
  /\ WholeName => \A j \in DOMAIN file : file[j].field = "x"
NoHash(file) == \A i \in DOMAIN file : file[i].hash = ""
\* Whose the hashes of /etc/shadow are.
Owned(file) ==
  \A i \in DOMAIN file :
    /\ file[i].hash = "RHASH" => file[i].name = "root"
    /\ file[i].hash = "UHASH" => WholeName

\* The hashes are written once /etc/passwd refers to them for every account.
PasswordInv ==
  /\ pc \in {"passwduser", "passwdmv"} => AllShadowed(passwdNew)
  /\ pc \in {"passwdroot", "passwduser", "passwdmv"} => NoHash(shadow)
  /\ pc \in UserPC \ {"passwdroot", "passwduser", "passwdmv", "exited"} => AllShadowed(passwd)
  /\ NoHash(shadow) \/ AllShadowed(passwd)
  /\ Owned(shadow)

\* The first n lines of the original, rewritten.
Rewritten(lines, n) ==
  /\ n <= Len(original.lines)
  /\ Len(lines) = n
  /\ \A i \in 1 .. n : lines[i] = Rewrite(original.lines[i])

\* The lines the loop can read: a last line without a newline is not one.
Whole == Len(original.lines) - (IF original.terminated THEN 0 ELSE 1)

\* The loop stands between the lines it has rewritten and the unread ones.
ReadPosition ==
  /\ unread.terminated = original.terminated
  /\ Len(groupNew) + Len(unread.lines) = Len(original.lines)
  /\ \A j \in 1 .. Len(unread.lines) :
       unread.lines[j] = original.lines[Len(groupNew) + j]
  /\ Len(groupNew) <= Whole
  /\ Rewritten(groupNew, Len(groupNew))

GroupInv ==
  /\ pc = "groupread" => ReadPosition
  /\ pc = "groupmv" => Rewritten(groupNew, Whole)
  /\ pc \in {"home", "done"} => Rewritten(group.lines, Whole)
  /\ pc \notin {"home", "done", "exited"} => group = original
  /\ group = original \/ Rewritten(group.lines, Whole)

UserIInv == UserTypeOK /\ PasswordInv /\ GroupInv

-----------------------------------------------------------------------------
(* Lines.                                                                  *)

\* What a name is cut into.
LEMMA NameParts ==
  ASSUME UserTypeOK
  PROVE  USER \in Word /\ Cut[USER] \in Word
BY UserAssumption DEF UserTypeOK, Word

\* A rewritten line is a line.
LEMMA RewriteType ==
  ASSUME UserTypeOK, NEW line \in GroupLine
  PROVE  Rewrite(line) \in GroupLine
<1>1. {USER} \in SUBSET Word /\ {Cut[USER]} \in SUBSET Word /\ {"cut"} \in SUBSET Word
  BY NameParts DEF Word
<1>2. MEM(line.gid) \in Seq(SUBSET Word)
  <2> DEFINE u == {USER}
             c == {Cut[USER]}
             x == {"cut"}
             none == {}
  <2>1. MEM(line.gid) \in {<<none>>, <<u>>, <<c, x>>}
    BY DEF MEM
  <2>2. u \in SUBSET Word /\ c \in SUBSET Word /\ x \in SUBSET Word /\ none \in SUBSET Word
    BY <1>1
  <2> DEFINE S == SUBSET Word
  <2> HIDE DEF u, c, x, none, S
  <2>3. u \in S /\ c \in S /\ x \in S /\ none \in S
    BY <2>2 DEF S
  <2>4. <<none>> \in Seq(S) /\ <<u>> \in Seq(S) /\ <<c, x>> \in Seq(S)
    BY <2>3
  <2> QED BY <2>1, <2>4 DEF S
<1>3. Rest(line) \in Seq(SUBSET Word)
  BY DEF Rest, GroupLine
<1> DEFINE m == MEM(line.gid)
<1>4. m \o Rest(line) \in Seq(SUBSET Word)
  <2> HIDE DEF m
  <2> QED BY <1>2, <1>3 DEF m
<1> QED BY <1>4 DEF Rewrite, GroupLine

\* A rewritten line of a group without members has the user, where it is
\* wheel or users, as its only member, and no member otherwise.
LEMMA RewriteJoins ==
  ASSUME NEW line, line.parts = <<{}>>, WholeName
  PROVE  MemberOf(Rewrite(line), USER) <=> line.gid \in {10, 100}
<1> DEFINE m == IF line.gid \in {10, 100} THEN {USER} ELSE {}
<1>1. Rewrite(line).parts = <<m>> \o <<>>
  <2>1. MEM(line.gid) = <<m>>
    BY DEF MEM
  <2>2. Rest(line) = <<>>
    BY DEF Rest
  <2> HIDE DEF m
  <2> QED BY <2>1, <2>2 DEF Rewrite
<1>2. <<m>> \o <<>> = <<m>>
  <2> HIDE DEF m
  <2> QED OBVIOUS
<1>3. Rewrite(line).parts[1] = m /\ Len(Rewrite(line).parts) = 1
  <2> HIDE DEF m
  <2> QED BY <1>1, <1>2
<1> QED BY <1>3 DEF MemberOf

\* A record of the right fields is a line of /etc/shadow.
LEMMA ShadowType ==
  ASSUME NEW n \in Word, NEW h \in {"", "RHASH", "UHASH", "cut"}
  PROVE  [name |-> n, hash |-> h] \in ShadowLine
BY DEF ShadowLine

-----------------------------------------------------------------------------
\* The files as they were copied satisfy the invariant.
LEMMA UserInitial == UserInit => UserIInv
<1> SUFFICES ASSUME UserInit PROVE UserIInv
  OBVIOUS
<1>1. UserTypeOK
  <2>1. [name |-> "root", uid |-> 0, field |-> ""] \in Account
    <3>1. 0 \in Uid
      BY DEF Uid
    <3> QED BY <3>1 DEF Account, Word
  <2>2. [name |-> "root", hash |-> ""] \in ShadowLine
    BY ShadowType DEF Word
  <2>3. LivePasswd \in Seq(Account) /\ LiveShadow \in Seq(ShadowLine)
    <3> DEFINE r == [name |-> "root", uid |-> 0, field |-> ""]
               h == [name |-> "root", hash |-> ""]
    <3>1. LivePasswd = <<r>> /\ LiveShadow = <<h>>
      BY DEF LivePasswd, LiveShadow
    <3> HIDE DEF r, h
    <3>2. r \in Account /\ h \in ShadowLine
      BY <2>1, <2>2 DEF r, h
    <3> QED BY <3>1, <3>2
  <2>4. original \in GroupFile
    BY UserAssumption DEF UserInit
  <2>5. passwd \in Seq(Account) /\ shadow \in Seq(ShadowLine)
    <3>1. <<>> \in Seq(ShadowLine)
      OBVIOUS
    <3> QED BY <2>3, <3>1, Zenon DEF UserInit
  <2> HIDE DEF UserPC
  <2>6. mode \in {"none", "600", "644"} /\ pc \in UserPC
    BY DEF UserInit, UserPC
  <2> QED BY <2>4, <2>5, <2>6 DEF UserInit, UserTypeOK
<1>2. PasswordInv
  <2>1. ASSUME shadow = LiveShadow PROVE NoHash(shadow)
    <3> DEFINE h == [name |-> "root", hash |-> ""]
    <3>1. h.hash = ""
      OBVIOUS
    <3>2. shadow = <<h>>
      BY <2>1 DEF LiveShadow
    <3> HIDE DEF h
    <3>3. \A i \in DOMAIN shadow : shadow[i] = h
      BY <3>2
    <3> QED BY <3>1, <3>3, Zenon DEF NoHash
  <2>2. ASSUME shadow = <<>> PROVE NoHash(shadow)
    <3>1. \A i \in DOMAIN shadow : FALSE
      BY <2>2
    <3> QED BY <3>1, Zenon DEF NoHash
  <2>3. NoHash(shadow)
    BY <2>1, <2>2 DEF UserInit
  <2>4. Owned(shadow)
    BY <2>3 DEF NoHash, Owned
  <2> QED BY <2>3, <2>4 DEF UserInit, PasswordInv
<1>3. GroupInv
  BY DEF UserInit, GroupInv
<1> QED BY <1>1, <1>2, <1>3 DEF UserIInv

\* Every command writes lines of the right form.
LEMMA UserTypeStep == UserIInv /\ [UserNext]_userVars => UserTypeOK'
<1> SUFFICES ASSUME UserIInv, [UserNext]_userVars PROVE UserTypeOK'
  OBVIOUS
<1> USE DEF UserIInv, UserTypeOK
<1>1. CASE PasswdRoot
  <2> DEFINE l == [name |-> "root", uid |-> 0, field |-> "x"]
  <2>1. l \in Account
    <3>1. 0 \in Uid
      BY DEF Uid
    <3> QED BY <3>1 DEF Account, Word
  <2>2. passwdNew' = <<l>>
    BY <1>1 DEF PasswdRoot
  <2> HIDE DEF l
  <2> QED BY <1>1, <2>1, <2>2 DEF PasswdRoot, UserPC
<1>2. CASE PasswdUser
  <2> DEFINE l == IF WholeName THEN [name |-> USER, uid |-> 1000, field |-> "x"]
                  ELSE [name |-> Cut[USER], uid |-> -1, field |-> "cut"]
  <2>1. l \in Account
    <3> HIDE DEF UserIInv
    <3>1. USER \in Word /\ Cut[USER] \in Word
      BY NameParts DEF UserIInv
    <3> HIDE DEF UserTypeOK
    <3>2. [name |-> USER, uid |-> 1000, field |-> "x"] \in Account
      <4>1. 1000 \in Uid
        BY DEF Uid
      <4> QED BY <3>1, <4>1 DEF Account
    <3>3. [name |-> Cut[USER], uid |-> -1, field |-> "cut"] \in Account
      <4>1. -1 \in Uid
        BY DEF Uid
      <4> QED BY <3>1, <4>1 DEF Account
    <3> QED BY <3>2, <3>3
  <2>2. passwdNew' = Append(passwdNew, l)
    BY <1>2 DEF PasswdUser
  <2> HIDE DEF l
  <2> QED BY <1>2, <2>1, <2>2 DEF PasswdUser, UserPC
<1>3. CASE PasswdMv
  BY <1>3 DEF PasswdMv, UserPC
<1>4. CASE ShadowRoot
  <2> DEFINE l == [name |-> "root", hash |-> "RHASH"]
  <2>1. l \in ShadowLine
    BY ShadowType DEF Word
  <2>2. shadow' = <<l>>
    BY <1>4 DEF ShadowRoot
  <2> HIDE DEF l
  <2> QED BY <1>4, <2>1, <2>2 DEF ShadowRoot, UserPC
<1>5. CASE ShadowUser
  <2> DEFINE h == IF WholeName THEN "UHASH" ELSE "cut"
             l == [name |-> Cut[USER], hash |-> h]
  <2>1. l \in ShadowLine
    <3>1. Cut[USER] \in Word /\ h \in {"", "RHASH", "UHASH", "cut"}
      BY NameParts
    <3> HIDE DEF h, UserIInv, UserTypeOK
    <3> QED BY <3>1, ShadowType
  <2>2. shadow' = Append(shadow, l)
    BY <1>5 DEF ShadowUser
  <2> HIDE DEF l
  <2> QED BY <1>5, <2>1, <2>2 DEF ShadowUser, UserPC
<1>6. CASE ChmodShadow
  BY <1>6 DEF ChmodShadow, UserPC
<1>7. CASE GroupOpen
  BY <1>7 DEF GroupOpen, UserPC
<1>8. CASE GroupRead
  <2>1. unread.lines \in Seq(GroupLine) /\ unread.lines # <<>>
    BY <1>8 DEF GroupRead, Readable, GroupFile
  <2>2. Head(unread.lines) \in GroupLine /\ Tail(unread.lines) \in Seq(GroupLine)
    BY <2>1
  <2>3. Rewrite(Head(unread.lines)) \in GroupLine
    BY <2>2, RewriteType
  <2>4. groupNew' \in Seq(GroupLine)
    BY <1>8, <2>3 DEF GroupRead
  <2>5. unread' \in GroupFile
    BY <1>8, <2>2 DEF GroupRead, GroupFile
  <2> QED BY <1>8, <2>4, <2>5 DEF GroupRead, UserPC
<1>9. CASE GroupEnd
  BY <1>9 DEF GroupEnd, UserPC
<1>10. CASE GroupMv
  BY <1>10 DEF GroupMv, UserPC, File, GroupFile
<1>11. CASE Home
  BY <1>11 DEF Home, UserPC
<1>12. CASE Ends
  BY <1>12 DEF Ends, UserPC
<1>13. CASE UNCHANGED userVars
  BY <1>13 DEF userVars
<1> QED
  BY <1>1, <1>2, <1>3, <1>4, <1>5, <1>6, <1>7, <1>8, <1>9, <1>10, <1>11, <1>12, <1>13
     DEF UserNext

\* Every command keeps the order: /etc/passwd first, the hashes after it.
LEMMA PasswordStep == UserIInv /\ [UserNext]_userVars => PasswordInv'
<1> SUFFICES ASSUME UserIInv, [UserNext]_userVars PROVE PasswordInv'
  OBVIOUS
<1> USE DEF UserIInv, PasswordInv
<1>1. UNCHANGED <<USER>> /\ (WholeName' <=> WholeName)
  BY DEF UserNext, PasswdRoot, PasswdUser, PasswdMv, ShadowRoot, ShadowUser, ChmodShadow,
         GroupOpen, GroupRead, GroupEnd, GroupMv, Home, Ends, userVars, WholeName
\* A file that is left alone.
<1>a. ASSUME passwd' = passwd, AllShadowed(passwd) PROVE AllShadowed(passwd)'
  BY <1>1, <1>a DEF AllShadowed
<1>b. ASSUME shadow' = shadow
      PROVE  (NoHash(shadow) => NoHash(shadow)') /\ Owned(shadow)'
  BY <1>1, <1>b DEF NoHash, Owned
<1>2. CASE PasswdRoot
  <2> DEFINE l == [name |-> "root", uid |-> 0, field |-> "x"]
  <2>1. passwdNew' = <<l>> /\ l.name = "root" /\ l.field = "x"
    BY <1>2 DEF PasswdRoot
  <2>2. AllShadowed(passwdNew)'
    <3> HIDE DEF l
    <3> QED BY <2>1 DEF AllShadowed
  <2> QED BY <1>2, <1>b, <2>2 DEF PasswdRoot, UserPC
\* Appending a line that refers to /etc/shadow, or one that is cut.
<1>3. CASE PasswdUser
  <2> DEFINE l == IF WholeName THEN [name |-> USER, uid |-> 1000, field |-> "x"]
                  ELSE [name |-> Cut[USER], uid |-> -1, field |-> "cut"]
  <2>1. passwdNew' = Append(passwdNew, l) /\ (WholeName => l.field = "x")
    BY <1>3 DEF PasswdUser
  <2>2. AllShadowed(passwdNew) /\ passwdNew \in Seq(Account)
    BY <1>3 DEF PasswdUser, UserTypeOK
  <2> HIDE DEF l
  <2>3. AllShadowed(passwdNew)'
    <3>1. 1 \in DOMAIN passwdNew' /\ passwdNew'[1] = passwdNew[1]
      BY <2>1, <2>2 DEF AllShadowed
    <3>2. WholeName => \A j \in DOMAIN passwdNew' : passwdNew'[j].field = "x"
      BY <2>1, <2>2 DEF AllShadowed
    <3> QED BY <1>1, <2>2, <3>1, <3>2 DEF AllShadowed
  <2> QED BY <1>3, <1>b, <2>3 DEF PasswdUser, UserPC
<1>4. CASE PasswdMv
  <2>1. AllShadowed(passwd)'
    BY <1>1, <1>4 DEF PasswdMv, AllShadowed
  <2> QED BY <1>4, <1>b, <2>1 DEF PasswdMv, UserPC
<1>5. CASE ShadowRoot
  <2> DEFINE l == [name |-> "root", hash |-> "RHASH"]
  <2>1. shadow' = <<l>> /\ l.name = "root" /\ l.hash = "RHASH"
    BY <1>5 DEF ShadowRoot
  <2>2. Owned(shadow)'
    <3> HIDE DEF l
    <3> QED BY <2>1 DEF Owned
  <2>3. AllShadowed(passwd)'
    BY <1>5, <1>a DEF ShadowRoot, UserPC
  <2> QED BY <1>5, <2>2, <2>3 DEF ShadowRoot, UserPC
<1>6. CASE ShadowUser
  <2> DEFINE l == [name |-> Cut[USER], hash |-> IF WholeName THEN "UHASH" ELSE "cut"]
  <2>1. shadow' = Append(shadow, l) /\ l.hash # "RHASH" /\ (l.hash = "UHASH" => WholeName)
    BY <1>6 DEF ShadowUser
  <2>2. Owned(shadow)'
    <3> HIDE DEF l
    <3>1. shadow \in Seq(ShadowLine)
      BY DEF UserTypeOK
    <3> QED BY <1>1, <2>1, <3>1 DEF Owned
  <2>3. AllShadowed(passwd)'
    BY <1>6, <1>a DEF ShadowUser, UserPC
  <2> QED BY <1>6, <2>2, <2>3 DEF ShadowUser, UserPC
<1>7. CASE ChmodShadow
  BY <1>7, <1>a, <1>b DEF ChmodShadow, UserPC
<1>8. CASE GroupOpen
  BY <1>8, <1>a, <1>b DEF GroupOpen, UserPC
<1>9. CASE GroupRead
  BY <1>9, <1>a, <1>b DEF GroupRead, UserPC
<1>10. CASE GroupEnd
  BY <1>10, <1>a, <1>b DEF GroupEnd, UserPC
<1>11. CASE GroupMv
  BY <1>11, <1>a, <1>b DEF GroupMv, UserPC
<1>12. CASE Home
  BY <1>12, <1>a, <1>b DEF Home, UserPC
<1>13. CASE Ends
  BY <1>13, <1>a, <1>b DEF Ends, UserPC
<1>14. CASE UNCHANGED userVars
  <2>1. AllShadowed(passwdNew) => AllShadowed(passwdNew)'
    BY <1>1, <1>14 DEF userVars, AllShadowed
  <2> QED BY <1>14, <1>a, <1>b, <2>1 DEF userVars
<1> QED
  BY <1>2, <1>3, <1>4, <1>5, <1>6, <1>7, <1>8, <1>9, <1>10, <1>11, <1>12, <1>13, <1>14
     DEF UserNext

-----------------------------------------------------------------------------
(* /etc/group.                                                             *)

\* How many lines the loop can read: none is lost but an unterminated last.
LEMMA WholeBounds ==
  ASSUME UserTypeOK
  PROVE  /\ Whole \in Nat
         /\ Whole <= Len(original.lines)
         /\ original.lines \in Seq(GroupLine)
         /\ Len(original.lines) \in Nat
<1>1. original \in GroupFile /\ (original.terminated \/ original.lines # <<>>)
  BY UserAssumption DEF UserTypeOK
<1>2. original.lines \in Seq(GroupLine) /\ Len(original.lines) \in Nat
  BY <1>1 DEF GroupFile
<1>3. original.lines # <<>> => Len(original.lines) > 0
  BY <1>2
<1>4. CASE original.terminated
  BY <1>2, <1>4 DEF Whole
<1>5. CASE ~original.terminated
  BY <1>1, <1>2, <1>3, <1>5 DEF Whole
<1> QED BY <1>4, <1>5

\* One pass of the loop moves the read position by one line.
LEMMA ReadStep ==
  ASSUME UserTypeOK, ReadPosition, GroupRead
  PROVE  ReadPosition'
<1> DEFINE n == Len(groupNew)
           k == Len(unread.lines)
           line == Rewrite(Head(unread.lines))
<1>1. /\ unread.lines \in Seq(GroupLine)
      /\ unread.lines # <<>>
      /\ groupNew \in Seq(GroupLine)
      /\ original.lines \in Seq(GroupLine)
      /\ Len(original.lines) \in Nat
      /\ unread.terminated \in BOOLEAN
  BY WholeBounds DEF GroupRead, Readable, GroupFile, UserTypeOK
<1>2. n \in Nat /\ k \in Nat /\ k > 0
  BY <1>1
<1>3. unread' = [unread EXCEPT !.lines = Tail(unread.lines)] /\ unread \in GroupFile
  BY DEF GroupRead, UserTypeOK
<1>4. unread'.lines = Tail(unread.lines) /\ unread'.terminated = unread.terminated
  BY <1>3 DEF GroupFile
<1>5. groupNew' = Append(groupNew, line) /\ original' = original /\ USER' = USER
  BY DEF GroupRead
<1>6. Len(groupNew') = n + 1 /\ Len(unread'.lines) = k - 1
  <2> HIDE DEF line
  <2> QED BY <1>1, <1>2, <1>4, <1>5
<1>7. n + k = Len(original.lines)
  BY DEF ReadPosition
<1>8. \A j \in 1 .. k - 1 : unread'.lines[j] = original.lines[(n + 1) + j]
  <2> SUFFICES ASSUME NEW j \in 1 .. k - 1
               PROVE  unread'.lines[j] = original.lines[(n + 1) + j]
    OBVIOUS
  <2>1. unread'.lines[j] = unread.lines[j + 1]
    BY <1>1, <1>2, <1>4
  <2>2. j + 1 \in 1 .. k /\ n + (j + 1) = (n + 1) + j
    BY <1>2
  <2>3. unread.lines[j + 1] = original.lines[n + (j + 1)]
    BY <2>2 DEF ReadPosition
  <2> QED BY <2>1, <2>2, <2>3
<1>9. n + 1 <= Whole
  <2>1. unread.terminated = original.terminated
    BY DEF ReadPosition
  <2>2. ~unread.terminated => k > 1
    BY DEF GroupRead, Readable
  <2> QED BY <1>1, <1>2, <1>7, <2>1, <2>2 DEF Whole
<1>10. \A i \in 1 .. n + 1 : groupNew'[i] = Rewrite(original.lines[i])
  <2> SUFFICES ASSUME NEW i \in 1 .. n + 1
               PROVE  groupNew'[i] = Rewrite(original.lines[i])
    OBVIOUS
  <2>1. CASE i = n + 1
    <3>1. Head(unread.lines) = original.lines[n + 1]
      <4>1. Head(unread.lines) = unread.lines[1] /\ 1 \in 1 .. k
        BY <1>1, <1>2
      <4> QED BY <4>1, <1>2 DEF ReadPosition
    <3>2. groupNew'[n + 1] = line
      <4> HIDE DEF line
      <4> QED BY <1>1, <1>5
    <3> QED BY <2>1, <3>1, <3>2
  <2>2. CASE i # n + 1
    <3>1. i \in 1 .. n
      BY <1>2, <2>2
    <3>2. groupNew'[i] = groupNew[i]
      <4> HIDE DEF line
      <4> QED BY <1>1, <1>5, <3>1
    <3> QED BY <3>1, <3>2 DEF ReadPosition, Rewritten
  <2> QED BY <2>1, <2>2
<1>11. Rewritten(groupNew, Len(groupNew))'
  <2>1. \A i : Rewrite(original.lines[i])' = Rewrite(original.lines[i])
    BY <1>5, Zenon DEF Rewrite, MEM, WholeName
  <2>2. \A i \in 1 .. Len(groupNew') : groupNew'[i] = Rewrite(original.lines[i])'
    BY <1>5, <1>6, <1>10, <2>1
  <2>3. Len(groupNew') <= Len(original'.lines)
    BY <1>2, <1>5, <1>6, <1>7
  <2> QED BY <2>2, <2>3 DEF Rewritten
<1>12. Whole' = Whole
  BY <1>5 DEF Whole
<1> QED
  <2>1. (Len(groupNew) + Len(unread.lines) = Len(original.lines))'
    <3>1. original'.lines = original.lines
      BY <1>5
    <3> HIDE DEF n, k
    <3> QED BY <1>2, <1>6, <1>7, <3>1
  <2>2. (\A j \in 1 .. Len(unread.lines) :
           unread.lines[j] = original.lines[Len(groupNew) + j])'
    BY <1>5, <1>6, <1>8
  <2>3. (unread.terminated = original.terminated)'
    BY <1>4, <1>5 DEF ReadPosition
  <2>4. (Len(groupNew) <= Whole)'
    BY <1>6, <1>9, <1>12
  <2> QED BY <2>1, <2>2, <2>3, <2>4, <1>11 DEF ReadPosition

\* The loop ends when every whole line has been rewritten.
LEMMA ReadDone ==
  ASSUME UserTypeOK, ReadPosition, ~Readable
  PROVE  Rewritten(groupNew, Whole)
<1>1. /\ unread.lines \in Seq(GroupLine)
      /\ groupNew \in Seq(GroupLine)
      /\ Len(original.lines) \in Nat
      /\ unread.terminated \in BOOLEAN
  BY WholeBounds DEF GroupFile, UserTypeOK
<1>2. Len(unread.lines) \in Nat /\ Len(groupNew) \in Nat
  BY <1>1
<1>3. unread.terminated = original.terminated
  BY DEF ReadPosition
<1>4. Len(groupNew) + Len(unread.lines) = Len(original.lines) /\ Len(groupNew) <= Whole
  BY DEF ReadPosition
<1>5. Len(groupNew) = Whole
  <2>1. CASE unread.terminated
    <3>1. Len(unread.lines) = 0
      BY <2>1, <1>1 DEF Readable
    <3> QED BY <3>1, <2>1, <1>1, <1>2, <1>3, <1>4 DEF Whole
  <2>2. CASE ~unread.terminated
    <3>1. Len(unread.lines) <= 1
      BY <2>2, <1>2 DEF Readable
    <3> QED BY <3>1, <2>2, <1>1, <1>2, <1>3, <1>4 DEF Whole
  <2> QED BY <2>1, <2>2
<1> QED BY <1>5 DEF ReadPosition


\* Every command keeps the position of the loop and the files it stands between.
LEMMA GroupStep == UserIInv /\ [UserNext]_userVars => GroupInv'
<1> SUFFICES ASSUME UserIInv, [UserNext]_userVars PROVE GroupInv'
  OBVIOUS
<1> USE DEF UserIInv, GroupInv
<1>1. UNCHANGED <<original, USER>>
  BY DEF UserNext, PasswdRoot, PasswdUser, PasswdMv, ShadowRoot, ShadowUser, ChmodShadow,
         GroupOpen, GroupRead, GroupEnd, GroupMv, Home, Ends, userVars
\* The steps that leave /etc/group and group.new alone.
<1>2. ASSUME UNCHANGED <<group, groupNew, unread>>,
             \/ pc' = pc
             \/ pc = "home" /\ pc' = "done"
             \/ pc' = "exited"
             \/ pc' \in UserPC \ {"groupread", "groupmv", "home", "done", "exited"} /\ group = original
      PROVE  GroupInv'
  BY <1>1, <1>2, ZenonT(30) DEF ReadPosition, Rewritten, Whole, Rewrite, MEM, WholeName
<1>3. CASE PasswdRoot \/ PasswdUser \/ PasswdMv \/ ShadowRoot \/ ShadowUser \/ ChmodShadow
  BY <1>2, <1>3 DEF PasswdRoot, PasswdUser, PasswdMv, ShadowRoot, ShadowUser, ChmodShadow, UserPC
<1>4. CASE GroupOpen
  <2>1. group = original /\ unread' = original /\ groupNew' = <<>> /\ group' = original'
    BY <1>4, <1>1 DEF GroupOpen
  <2>2. ReadPosition'
    BY <2>1, <1>1, WholeBounds DEF ReadPosition, Rewritten, Whole
  <2> QED BY <1>4, <2>1, <2>2 DEF GroupOpen
<1>5. CASE GroupRead
  <2>1. ReadPosition'
    BY <1>5, ReadStep DEF GroupRead
  <2> QED BY <1>5, <1>1, <2>1 DEF GroupRead
<1>6. CASE GroupEnd
  <2>1. Rewritten(groupNew, Whole)
    BY <1>6, ReadDone DEF GroupEnd
  <2>2. Rewritten(groupNew, Whole)'
    <3>1. groupNew' = groupNew /\ original' = original /\ USER' = USER
      BY <1>6, <1>1 DEF GroupEnd
    <3>2. Whole' = Whole
      BY <3>1 DEF Whole
    <3>3. \A i \in 1 .. Whole : groupNew'[i] = Rewrite(original.lines[i])'
      BY <2>1, <3>1 DEF Rewritten, Rewrite, MEM, WholeName
    <3> QED BY <2>1, <3>1, <3>2, <3>3 DEF Rewritten
  <2> QED BY <1>6, <1>1, <2>2 DEF GroupEnd
<1>7. CASE GroupMv
  <2>1. Rewritten(groupNew, Whole) /\ group'.lines = groupNew
    BY <1>7 DEF GroupMv, File
  <2>2. Rewritten(group.lines, Whole)'
    BY <1>1, <2>1 DEF Rewritten, Whole, Rewrite, MEM, WholeName
  <2> QED BY <1>7, <2>2 DEF GroupMv
<1>8. CASE Home
  BY <1>2, <1>8 DEF Home
<1>9. CASE Ends
  BY <1>2, <1>9 DEF Ends
<1>10. CASE UNCHANGED userVars
  BY <1>2, <1>10 DEF userVars
<1> QED
  BY <1>3, <1>4, <1>5, <1>6, <1>7, <1>8, <1>9, <1>10 DEF UserNext

-----------------------------------------------------------------------------
(* The theorems.                                                           *)

(* The invariant of the whole rewrite, wherever the script ends: the types,  *)
(* the order passwd before shadow, and the read loop's position in           *)
(* /etc/group (lines 162-196).                                               *)
THEOREM UserInvariant == UserSpec => []UserIInv
<1>1. UserInit => UserIInv
  BY UserInitial
<1>2. UserIInv /\ [UserNext]_userVars => UserIInv'
  BY UserTypeStep, PasswordStep, GroupStep DEF UserIInv
<1> QED BY <1>1, <1>2, PTL DEF UserSpec

(* A hash that has been written is in force, whatever the user is called     *)
(* (root included, and a name with a colon for root's) and wherever the      *)
(* script is interrupted (lines 165-176).                                    *)
THEOREM PasswordsInForce == UserSpec => []HashInForce
<1>1. UserIInv => HashInForce
  <2> SUFFICES ASSUME UserIInv, NEW i \in DOMAIN shadow, shadow[i].hash \in {"RHASH", "UHASH"},
                      NEW j \in Lookup(passwd, shadow[i].name)
               PROVE  passwd[j].field = "x"
    BY DEF HashInForce
  <2>1. AllShadowed(passwd)
    BY DEF UserIInv, PasswordInv, NoHash
  <2>2. j \in DOMAIN passwd /\ passwd \in Seq(Account)
    BY DEF Lookup, UserIInv, UserTypeOK
  <2>3. CASE WholeName
    BY <2>1, <2>2, <2>3 DEF AllShadowed
\* root's hash: no line before root's first has the name.
  <2>4. CASE ~WholeName
    <3>1. shadow[i].name = "root"
      <4>1. Owned(shadow)
        BY Zenon DEF UserIInv, PasswordInv
      <4>2. /\ shadow[i].hash = "RHASH" => shadow[i].name = "root"
            /\ shadow[i].hash = "UHASH" => WholeName
        BY <4>1, Zenon DEF Owned
      <4> QED BY <2>4, <4>2
    <3>2. ~(1 \in 1 .. j - 1)
      BY <2>1, <3>1 DEF Lookup, AllShadowed
    <3>3. j = 1
      BY <2>2, <3>2
    <3> QED BY <2>1, <3>3 DEF AllShadowed
  <2> QED BY <2>3, <2>4
<1> QED BY <1>1, UserInvariant, PTL

(* /etc/group is the old file or the whole new one, for every group file     *)
(* (lines 182-193).                                                          *)
THEOREM GroupIsWhole == UserSpec => []GroupWhole
<1>1. UserIInv => GroupWhole
  BY DEF UserIInv, GroupInv, GroupWhole, Rewritten, Whole
<1> QED BY <1>1, UserInvariant, PTL

(* The user joins wheel and users and no other group, and no group is lost,  *)
(* for every group file of the shipped form (lines 179-193).                 *)
THEOREM JoinsItsGroups == UserSpec => []JoinsWheelAndUsers
<1>1. UserIInv => JoinsWheelAndUsers
  <2> SUFFICES ASSUME UserIInv, pc = "done", AsShipped, WholeName, NEW i \in DOMAIN original.lines
               PROVE  /\ i \in DOMAIN group.lines
                      /\ group.lines[i].gid = original.lines[i].gid
                      /\ MemberOf(group.lines[i], USER) <=> original.lines[i].gid \in {10, 100}
    BY DEF JoinsWheelAndUsers
  <2>1. Rewritten(group.lines, Whole) /\ Whole = Len(original.lines)
    BY WholeBounds DEF UserIInv, GroupInv, AsShipped, Whole
  <2>2. group.lines \in Seq(GroupLine) /\ original.lines \in Seq(GroupLine)
    BY WholeBounds DEF UserIInv, UserTypeOK, GroupFile
  <2>3. i \in 1 .. Len(original.lines) /\ i \in DOMAIN group.lines
    BY <2>1, <2>2 DEF Rewritten
  <2>4. group.lines[i] = Rewrite(original.lines[i])
    BY <2>1, <2>3 DEF Rewritten
  <2>5. group.lines[i].gid = original.lines[i].gid
    BY <2>4 DEF Rewrite
  <2>6. MemberOf(group.lines[i], USER) <=> original.lines[i].gid \in {10, 100}
    BY <2>4, RewriteJoins DEF AsShipped
  <2> QED BY <2>3, <2>5, <2>6
<1> QED BY <1>1, UserInvariant, PTL
===============================================================================
