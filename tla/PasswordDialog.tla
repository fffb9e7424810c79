---------------------------- MODULE PasswordDialog ----------------------------
(***************************************************************************)
(* The user dialog of slinux-install (readpass and the user name loop)     *)
(* together with getpass(1), tools/getpass.c, which it calls for every     *)
(* password.  Whoever answers runs concurrently: answers are typed on a    *)
(* terminal or written into a pipe before or after they are asked for.     *)
(*                                                                         *)
(* A terminal hands getpass one line per read(2).  From a pipe one read(2) *)
(* takes everything that has been written so far (up to 511 bytes), while  *)
(* the shell's own read takes one line from either.                        *)
(***************************************************************************)
EXTENDS Naturals, Sequences

CONSTANTS
  Line,       \* the lines that can be typed
  Length,     \* their lengths, without the newline
  Names,      \* the lines that are valid user names
  MaxLines    \* bound: lines typed in one run

ASSUME DialogAssumption == /\ Length \in [Line -> Nat]
                           /\ Names \subseteq Line
                           /\ MaxLines \in Nat

VARIABLES
  tty,        \* standard input is a terminal (never changes)
  input,      \* lines still to be typed; the input ends after them
  avail,      \* lines typed and not yet read
  echo,       \* the terminal echoes
  killed,     \* Ctrl-C was pressed
  dialog, who,    \* the script's control state; whose password is asked for
  PW,         \* the answer: the lines one getpass returned
  answers,    \* history: all answers getpass returned
  stored      \* the password accepted for each account, <<>> before

dialogVars == <<tty, input, avail, echo, killed, dialog, who, PW, answers, stored>>

Answer == UNION {[1 .. n -> Line] : n \in 0 .. MaxLines}

\* ${#PW}: the newlines inside an answer count.
AnswerLength[a \in Answer] ==
  CASE Len(a) = 0 -> 0
    [] Len(a) = 1 -> Length[a[1]]
    [] OTHER      -> Length[a[1]] + 1 + AnswerLength[Tail(a)]

DialogPC == {"prompt", "reading", "check", "rejected", "prompt2", "reading2",
             "username", "done", "exited"}

DialogTypeOK ==
  /\ tty \in BOOLEAN
  /\ input \in Answer
  /\ avail \in Answer
  /\ echo \in BOOLEAN
  /\ killed \in BOOLEAN
  /\ dialog \in DialogPC
  /\ who \in {"root", "user"}
  /\ PW \in Answer
  /\ answers \in Seq(Answer)
  /\ stored \in [{"root", "user"} -> Answer]

DialogInit ==
  /\ tty \in BOOLEAN
  /\ input \in Answer
  /\ avail = <<>>
  /\ echo = TRUE
  /\ killed = FALSE
  /\ dialog = "prompt"
  /\ who = "root"
  /\ PW = <<>>
  /\ answers = <<>>
  /\ stored = [w \in {"root", "user"} |-> <<>>]

-----------------------------------------------------------------------------
(* The one who answers.                                                    *)

Type ==
  /\ input # <<>>
  /\ avail' = Append(avail, Head(input))
  /\ input' = Tail(input)
  /\ UNCHANGED <<tty, echo, killed, dialog, who, PW, answers, stored>>

\* Ctrl-C: getpass has no handler and dies where it is, set -e ends the script.
CtrlC ==
  /\ tty
  /\ dialog \notin {"done", "exited"}
  /\ killed' = TRUE
  /\ dialog' = "exited"
  /\ UNCHANGED <<tty, input, avail, echo, who, PW, answers, stored>>

-----------------------------------------------------------------------------
(* getpass(1).                                                             *)

\* tcgetattr, tcsetattr: echo off on a terminal, or getpass returns 1.
GetpassStart(from, to) ==
  /\ dialog = from
  /\ \/ dialog' = to /\ echo' = ~tty
     \/ tty /\ dialog' = "exited" /\ UNCHANGED echo
  /\ UNCHANGED <<tty, input, avail, killed, who, PW, answers, stored>>

\* What one read(2) returns.
Taken == IF tty THEN <<Head(avail)>> ELSE avail
Left  == IF tty THEN Tail(avail) ELSE <<>>

Eof == input = <<>> /\ avail = <<>>

\* Mutant: the early return for n <= 0 comes before the terminal is restored.
GetpassEofKeepsEcho ==
  /\ dialog \in {"reading", "reading2"}
  /\ Eof
  /\ dialog' = "exited"
  /\ UNCHANGED <<tty, input, avail, echo, killed, who, PW, answers, stored>>

\* Mutant: readpass asks again where getpass found the end of the input.
GetpassEofRetried ==
  /\ dialog \in {"reading", "reading2"}
  /\ Eof
  /\ echo' = TRUE
  /\ dialog' = "prompt"
  /\ UNCHANGED <<tty, input, avail, killed, who, PW, answers, stored>>

\* n <= 0: the terminal is restored, getpass returns 1, readpass exits.
GetpassEof ==
  /\ dialog \in {"reading", "reading2"}
  /\ Eof
  /\ echo' = TRUE
  /\ dialog' = "exited"
  /\ UNCHANGED <<tty, input, avail, killed, who, PW, answers, stored>>

-----------------------------------------------------------------------------
(* readpass.                                                               *)

Prompt  == GetpassStart("prompt", "reading")
Prompt2 == GetpassStart("prompt2", "reading2")

ReadPassword ==
  /\ dialog = "reading"
  /\ avail # <<>>
  /\ PW' = Taken
  /\ avail' = Left
  /\ answers' = Append(answers, Taken)
  /\ echo' = TRUE
  /\ dialog' = "check"
  /\ UNCHANGED <<tty, input, killed, who, stored>>

\* case ${#PW} in [89] | 1?
Accepted(n) == n \in 8 .. 19

CheckLength ==
  /\ dialog = "check"
  /\ dialog' = IF Accepted(AnswerLength[PW]) THEN "prompt2" ELSE "rejected"
  /\ UNCHANGED <<tty, input, avail, echo, killed, who, PW, answers, stored>>

\* "password too short"
Reject ==
  /\ dialog = "rejected"
  /\ dialog' = "prompt"
  /\ UNCHANGED <<tty, input, avail, echo, killed, who, PW, answers, stored>>

\* Mutant: the second answer is not compared.
ReadRepeatIgnored ==
  /\ dialog = "reading2"
  /\ avail # <<>>
  /\ avail' = Left
  /\ answers' = Append(answers, Taken)
  /\ echo' = TRUE
  /\ stored' = [stored EXCEPT ![who] = PW]
  /\ dialog' = IF who = "root" THEN "username" ELSE "done"
  /\ UNCHANGED <<tty, input, killed, who, PW>>

\* The second answer must be the same, or the script exits.
ReadRepeat ==
  /\ dialog = "reading2"
  /\ avail # <<>>
  /\ avail' = Left
  /\ answers' = Append(answers, Taken)
  /\ echo' = TRUE
  /\ \/ /\ Taken = PW
        /\ stored' = [stored EXCEPT ![who] = PW]
        /\ dialog' = IF who = "root" THEN "username" ELSE "done"
     \/ /\ Taken # PW
        /\ stored' = stored
        /\ dialog' = "exited"
  /\ UNCHANGED <<tty, input, killed, who, PW>>

-----------------------------------------------------------------------------
(* The user name: the shell's read takes one line.                         *)

ReadUsername ==
  /\ dialog = "username"
  /\ avail # <<>>
  /\ avail' = Tail(avail)
  /\ IF Head(avail) \in Names
     THEN dialog' = "prompt" /\ who' = "user"
     ELSE UNCHANGED <<dialog, who>>
  /\ UNCHANGED <<tty, input, echo, killed, PW, answers, stored>>

UsernameEof ==
  /\ dialog = "username"
  /\ Eof
  /\ dialog' = "exited"
  /\ UNCHANGED <<tty, input, avail, echo, killed, who, PW, answers, stored>>

-----------------------------------------------------------------------------
Script == \/ Prompt \/ ReadPassword \/ CheckLength \/ Reject \/ Prompt2
          \/ ReadRepeat \/ GetpassEof \/ ReadUsername \/ UsernameEof

DialogNext == Script \/ Type \/ CtrlC

\* The script reads what there is; the one who answers goes on until the
\* input is at its end.
DialogSpec == /\ DialogInit
              /\ [][DialogNext]_dialogVars
              /\ WF_dialogVars(Script)
              /\ WF_dialogVars(Type)

-----------------------------------------------------------------------------
(* Properties.                                                             *)

(* A password is stored only if it was given at two successive prompts with  *)
(* at least eight characters (lines 71-79), also when answers arrive early   *)
(* or are asked for again.                                                   *)
StoredWasRepeated ==
  \A w \in {"root", "user"} : stored[w] # <<>> =>
    /\ AnswerLength[stored[w]] >= 8
    /\ \E i \in 1 .. Len(answers) - 1 : answers[i] = stored[w] /\ answers[i + 1] = stored[w]

(* Unless Ctrl-C kills getpass, the terminal echoes whenever getpass is not  *)
(* reading (getpass.c lines 24-33), also after the end of the input.         *)
EchoRestored == echo \/ dialog \in {"reading", "reading2"} \/ killed

(* A dialog whose input ends comes to an end: no prompt is repeated for ever *)
(* (lines 72, 78, 153).                                                      *)
DialogEnds == <>(dialog \in {"done", "exited"})
===============================================================================
