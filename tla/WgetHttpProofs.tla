---------------------------- MODULE WgetHttpProofs ----------------------------
(***************************************************************************)
(* Proofs about WgetHttp, for every size of the server's versions, every   *)
(* number of tries, redirections and names, and every set of options: its  *)
(* four invariants, and that a continued file is never clobbered.          *)
(*                                                                         *)
(* ReadInv follows hstat's counters through a body, ContinueInv the length *)
(* that -c asks from.  EarlyInv and FileInv say, for every place at which  *)
(* http_loop can be, what the local file holds and how far it may be       *)
(* trusted in the next try.                                                *)
(***************************************************************************)
EXTENDS WgetHttp, BoundedRecursion

-----------------------------------------------------------------------------
(* Types                                                                   *)

Byte == Int \X Int
Stored == [data : Seq(Byte), mtime : Int]
Stat == [restval : Nat, len : Nat, contlen : Nat \cup {-1}, res : Int, statcode : Nat,
         remote_time : Int, newloc : BOOLEAN, orig : Stored,
         existence_checked : BOOLEAN, timestamp_checked : BOOLEAN]
Reply == [code : Nat, framing : {"length", "chunked", "unframed"}, close : BOOLEAN,
          contlen : Nat \cup {-1}, contrange : Nat, body : Seq(Byte), lm : Int,
          location : BOOLEAN]

HttpType ==
  /\ opts \in Options /\ version \in Version /\ version > 0
  /\ at \in {"retrieve", "try", "connect", "reply", "repeat", "body", "judge", "done"}
  /\ hs \in Stat /\ resp \in Reply
  /\ fs \in [0 .. MaxName -> Stored]
  /\ \A n \in 0 .. MaxName : ~Exists(n) => fs[n].data = <<>>
  /\ name \in 0 .. MaxName /\ (AllowClobber => name = 0)
  /\ count \in Nat /\ sum_read \in Nat /\ skip \in Nat /\ tmr \in Int

-----------------------------------------------------------------------------
(* The reading of a body                                                   *)

\* Of the body, sum_read bytes were read.  If it starts again from the beginning,
\* the first restval of them were skipped, else it continues at restval.
BodyInv ==
  at = "body" =>
    /\ resp.contlen = -1 \/ resp.contlen <= Len(resp.body)
    /\ resp.framing # "chunked" => resp.contlen \in {-1, Len(resp.body)}
    /\ resp.contlen = 0 => sum_read = 0
    /\ sum_read <= Len(resp.body)
    /\ hs.contlen = IF resp.contlen = -1 THEN -1 ELSE resp.contlen + resp.contrange
    /\ \/ /\ resp.contrange = 0
          /\ skip = IF sum_read < hs.restval THEN hs.restval - sum_read ELSE 0
          /\ hs.len = IF sum_read < hs.restval THEN hs.restval ELSE sum_read
       \/ /\ resp.contrange = hs.restval
          /\ skip = 0 /\ hs.len = hs.restval + sum_read

JudgeInv ==
  at = "judge" /\ err = "RETRFINISHED" =>
    hs.contlen = -1 \/ hs.len <= hs.contlen \/ hs.len = hs.restval \/ hs.res # 0

ReadInv == HttpType /\ BodyInv /\ JudgeInv /\ NeverAborts /\ KeptConnectionDrained

-----------------------------------------------------------------------------
(* -c                                                                      *)

\* The file is continued at its end.
ContinueInv ==
  /\ force_full_retrieve => opts.timestamping
  /\ /\ at \in {"connect", "reply", "repeat"} /\ opts.always_rest /\ ~opts.timestamping
     /\ Exists(0) /\ Foreign \notin Range(fs[0].data)
     => hs.restval = Len(fs[0].data)

-----------------------------------------------------------------------------
(* The order of the bytes                                                  *)

\* A beginning of version 1
Ordered(s) == Len(s) <= Size[1] /\ \A i \in 1 .. Len(s) : s[i] = <<1, i>>

\* FILE.n holds the first l bytes
Holds(n, l) == Exists(n) /\ Len(fs[n].data) = l /\ Ordered(fs[n].data)

\* A body is a leftover, or runs from its range towards the end of the file.
RightBody(r) ==
  \/ r.body = <<Page>> /\ r.contrange = 0 /\ r.contlen = -1
  \/ /\ Len(r.body) + r.contrange <= Size[version]
     /\ \A i \in 1 .. Len(r.body) : r.body[i] = <<version, r.contrange + i>>

\* What hstat says before the first answer, before any body, and of the file
\* that -N compares with.
EarlyInv ==
  at \notin {"retrieve", "done"} =>
    /\ opts.spider => send_head_first
    /\ ~opts.always_rest /\ ~hs.existence_checked => hs.restval = 0 /\ hs.len = 0
    /\ opts.noclobber /\ ~hs.existence_checked /\ Exists(name) =>
         Foreign \in Range(fs[name].data)
    /\ hs.remote_time # NoTime => hs.remote_time >= 1
    /\ at \in {"connect", "reply", "repeat"} => hs.contlen = -1 /\ hs.len = 0
    /\ ~opts.timestamping => hs.orig.mtime = -1
    /\ HeadJudged => hs.orig.mtime = -1 \/ hs.orig = fs[name]
    /\ at = "body" => hs.existence_checked /\ ~HeadJudged

\* The file is the one of the beginning, or in order; one that may be continued
\* or compared as current is in order.
InOrder ==
  /\ fs[name].data = was.data \/ Ordered(fs[name].data)
  /\ at # "done" /\ fs[name].mtime >= 1 => Ordered(fs[name].data)

MayRetry == at = "try" \/ (at = "judge" /\ err \in Retryable \cup {"RETRFINISHED"})

\* A range is asked for only where the file ends, in this try and in the next.
Resumable ==
  /\ at \in {"connect", "reply", "repeat"} /\ hs.restval > 0 => Holds(name, hs.restval)
  /\ MayRetry /\ hs.len > 0 => hs.len >= hs.restval /\ Holds(name, hs.len)
  /\ MayRetry /\ hs.len = 0 /\ hs.restval > 0 => Holds(name, hs.restval)

\* The length that was announced is the server's.
Measured == hs.contlen = Size[1] \/ short

\* While the body is read, len is what the file holds.
Arriving ==
  at = "body" => /\ Holds(name, hs.len) /\ RightBody(resp)
                 /\ hs.contlen = -1 \/ Measured

Judgeable ==
  /\ at = "judge" /\ err = "RETRFINISHED" /\ RETROKF /\ hs.contlen # -1 =>
       Measured /\ (~HeadJudged => Holds(name, hs.len))
  /\ at = "judge" /\ err = "RETRUNNEEDED" /\ ~(cond_get /\ hs.statcode # 416) =>
       fs[name].data = Entity(1) \/ short

Succeeded ==
  at = "done" /\ ret = "RETROK" /\ how \in {"saved", "unneeded"} =>
    fs[name].data = Entity(1) \/ short

FileFacts == InOrder /\ Resumable /\ Arriving /\ Judgeable /\ Succeeded

FileInv == Undisturbed => FileFacts

-----------------------------------------------------------------------------
(* Facts about the server's file and the names                             *)

(* The last version has a successor, which is the time of writing.          *)
LEMMA NowType == Now \in Nat /\ Now >= 1 /\ 1 \in Version
<1>1. PICK last \in Version : last > 0 /\ Version = 0 .. last /\ last \in Nat
  BY HttpAssumption
<1> DEFINE top == CHOOSE m \in Version : \A v \in Version : v <= m
<1>2. top \in Version
  BY <1>1
<1> QED
  BY <1>1, <1>2 DEF Now

(* The bytes of a version, and of its end.                                  *)
LEMMA EntityBytes ==
  ASSUME NEW v \in Version
  PROVE  /\ Size[v] \in Nat /\ v \in Nat
         /\ Entity(v) \in Seq(Byte) /\ Len(Entity(v)) = Size[v]
         /\ \A i \in 1 .. Size[v] : Entity(v)[i] = <<v, i>>
<1>1. Size[v] \in Nat /\ v \in Nat
  BY HttpAssumption
<1>2. \A i \in 1 .. Size[v] : <<v, i>> \in Byte
  BY <1>1 DEF Byte
<1> QED
  BY <1>1, <1>2 DEF Entity

(* What Part returns.                                                       *)
LEMMA PartBytes ==
  ASSUME version \in Version, NEW first \in Nat, NEW last \in Nat, first < last,
         last <= Size[version]
  PROVE  /\ Part(first, last) \in Seq(Byte) /\ Len(Part(first, last)) = last - first
         /\ \A i \in 1 .. Len(Part(first, last)) :
              Part(first, last)[i] = <<version, first + i>>
<1> DEFINE s == Entity(version)
           n == Size[version]
<1>1. /\ n \in Nat /\ s \in Seq(Byte) /\ Len(s) = n
      /\ \A i \in 1 .. n : s[i] = <<version, i>>
  BY EntityBytes
<1>2. Part(first, last) = SubSeq(s, first + 1, last)
  BY DEF Part
<1>3. last <= n
  OBVIOUS
<1> HIDE DEF s, n
<1>4. first + 1 \in 1 .. n /\ last \in 1 .. n
  BY <1>1, <1>3
<1>5. /\ SubSeq(s, first + 1, last) \in Seq(Byte)
      /\ Len(SubSeq(s, first + 1, last)) = last - first
      /\ \A i \in 1 .. last - first : SubSeq(s, first + 1, last)[i] = s[first + i]
  BY <1>1, <1>4
<1> QED
  BY <1>1, <1>2, <1>3, <1>4, <1>5

(* unique_name_passthrough finds a name that is free.                       *)
LEMMA UniqueIsFree ==
  ASSUME FreeName
  PROVE  Unique \in 0 .. MaxName /\ ~Exists(Unique)
<1> DEFINE S == {n \in 0 .. MaxName : ~Exists(n)}
<1>1. S \subseteq Nat /\ S # {}
  BY HttpAssumption DEF FreeName
<1>2. PICK n \in S : \A m \in S : n <= m
  BY <1>1, LeastNatural
<1>3. n \in 0 .. MaxName /\ ~Exists(n) /\ \A m \in 0 .. n - 1 : Exists(m)
  BY <1>2, HttpAssumption
<1> QED
  BY <1>3 DEF Unique
-----------------------------------------------------------------------------
(* What the server says                                                    *)

\* What wget can rely on in an answer.
Sound(r) ==
  /\ r \in Reply
  /\ r.contlen = -1 \/ r.contlen <= Len(r.body)
  /\ r.framing # "chunked" => r.contlen \in {-1, Len(r.body)}
  /\ r.framing = "length" => r.contlen # -1
  /\ r.code \in {204, 304, 416} => Len(r.body) = 0 /\ r.framing = "length" /\ r.contlen = 0
  /\ r.code = 416 => 0 < hs.restval /\ Size[version] <= hs.restval
  /\ r.lm # NoTime => r.lm >= 1
  /\ r.code \in {200, 206} => RightBody(r)

\* What is said in so many words.
Said(r, code, body, first, f, lm) ==
  /\ r \in Reply
  /\ r.code = code /\ r.body = body /\ r.contrange = first /\ r.lm = lm
  /\ r.framing = f[1]
  /\ r.contlen = IF f[1] = "length" \/ code = 206 THEN Len(body) ELSE -1

(* The fields of what is said.                                              *)
LEMMA SayFields ==
  ASSUME NEW code \in Nat, NEW body \in Seq(Byte), NEW first \in Nat, NEW f \in Frames,
         NEW lm \in Int
  PROVE  Said(Say(code, body, first, f, lm), code, body, first, f, lm)
<1> DEFINE n == IF f[1] = "length" \/ code = 206 THEN Len(body) ELSE -1
           g == f[1]
           c == f[2]
<1>1. g \in {"length", "chunked", "unframed"} /\ c \in BOOLEAN
  <2>1. \/ f = <<"length", FALSE>> \/ f = <<"length", TRUE>>
        \/ f = <<"chunked", FALSE>> \/ f = <<"unframed", FALSE>>
    BY DEF Frames
  <2>2. /\ <<"length", FALSE>>[1] = "length" /\ <<"length", TRUE>>[1] = "length"
        /\ <<"chunked", FALSE>>[1] = "chunked" /\ <<"unframed", FALSE>>[1] = "unframed"
        /\ <<"length", FALSE>>[2] = FALSE /\ <<"length", TRUE>>[2] = TRUE
        /\ <<"chunked", FALSE>>[2] = FALSE /\ <<"unframed", FALSE>>[2] = FALSE
    OBVIOUS
  <2> QED
    BY <2>1, <2>2, Zenon
<1>2. n \in Nat \cup {-1}
  OBVIOUS
<1>3. Say(code, body, first, f, lm)
        = [code |-> code, framing |-> g, close |-> c, contlen |-> n, contrange |-> first,
           body |-> body, lm |-> lm, location |-> FALSE]
  BY DEF Say
<1> DEFINE r == Say(code, body, first, f, lm)
<1> HIDE DEF n, g, c, r
<1>4. r \in Reply
  BY <1>1, <1>2, <1>3 DEF Reply, r
<1>5. /\ r.code = code /\ r.body = body /\ r.contrange = first /\ r.lm = lm
      /\ r.framing = g /\ r.contlen = n
  BY <1>3 DEF r
<1> QED
  BY <1>4, <1>5 DEF Said, g, n, r

(* A redirection is said like anything else.                                *)
LEMMA LocationFields ==
  ASSUME NEW s \in Reply, NEW l \in BOOLEAN
  PROVE  LET r == [s EXCEPT !.location = l]
         IN /\ r \in Reply /\ r.code = s.code /\ r.body = s.body /\ r.lm = s.lm
            /\ r.contlen = s.contlen /\ r.framing = s.framing
BY Zenon DEF Reply

(* So is a length that is understated.                                      *)
LEMMA ContlenFields ==
  ASSUME NEW s \in Reply, NEW n \in Nat
  PROVE  LET r == [s EXCEPT !.contlen = n]
         IN /\ r \in Reply /\ r.code = s.code /\ r.body = s.body /\ r.lm = s.lm
            /\ r.contlen = n /\ r.contrange = s.contrange /\ r.framing = s.framing
<1>1. n \in Nat \cup {-1}
  OBVIOUS
<1> QED
  BY <1>1, Zenon DEF Reply

(* A page is a body of one byte.                                            *)
LEMMA PageBody == <<Page>> \in Seq(Byte) /\ Len(<<Page>>) = 1 /\ PageFrames \subseteq Frames
<1>1. Page \in Byte
  BY DEF Page, Byte
<1> QED
  BY <1>1 DEF PageFrames, Frames

(* Every answer is sound.                                                   *)
LEMMA AnswersSound ==
  ASSUME HttpType, NEW r \in Answers
  PROVE  Sound(r)
<1>1. NoTime \in Int /\ 0 \in Nat
  BY DEF NoTime
<1>2. version \in Version /\ version > 0 /\ version \in Nat /\ hs.restval \in Nat
  BY EntityBytes DEF HttpType, Stat
<1>3. ASSUME NEW code \in Nat, NEW f \in PageFrames, code \notin {200, 204, 206, 304, 416}
      PROVE  LET s == Say(code, <<Page>>, 0, f, NoTime)
             IN Sound(s) /\ s \in Reply /\ s.code = code
  <2> DEFINE p == <<Page>>
             s == Say(code, p, 0, f, NoTime)
  <2>1. f \in Frames /\ p \in Seq(Byte)
    BY PageBody
  <2> HIDE DEF p
  <2>2. Said(s, code, p, 0, f, NoTime)
    BY <1>1, <2>1, SayFields
  <2> HIDE DEF s
  <2>3. /\ s \in Reply /\ s.code = code /\ s.contlen \in {-1, Len(s.body)} /\ s.lm = NoTime
        /\ s.framing = "length" => s.contlen = Len(s.body)
    BY <2>2 DEF Said
  <2>4. Sound(s)
    BY <1>3, <2>3 DEF Sound
  <2> QED
    BY <2>3, <2>4 DEF s, p
<1>4. CASE stale
  <2> DEFINE f == <<"unframed", FALSE>>
             p == <<Page>>
  <2>1. /\ r = Say(200, p, 0, f, NoTime) /\ f \in Frames /\ f[1] = "unframed"
        /\ p \in Seq(Byte) /\ p = <<Page>>
    BY <1>4, PageBody DEF Answers, Frames
  <2> HIDE DEF f, p
  <2>2. Said(r, 200, p, 0, f, NoTime)
    BY <1>1, <2>1, SayFields, ZenonT(30)
  <2>3. /\ r \in Reply /\ r.code = 200 /\ r.body = p /\ r.contrange = 0 /\ r.lm = NoTime
        /\ r.contlen = -1 /\ r.framing = "unframed"
    BY <2>1, <2>2 DEF Said
  <2>4. RightBody(r)
    BY <2>1, <2>3 DEF RightBody
  <2> QED
    BY <2>3, <2>4 DEF Sound
<1>5. CASE ~stale /\ r \in ErrorAnswers
  BY <1>3, <1>5 DEF ErrorAnswers
<1>6. CASE ~stale /\ r \in RedirectAnswers
  <2>1. PICK c \in {302, 307}, f \in PageFrames, l \in BOOLEAN :
          r = [Say(c, <<Page>>, 0, f, NoTime) EXCEPT !.location = l]
    BY <1>6 DEF RedirectAnswers
  <2> DEFINE s == Say(c, <<Page>>, 0, f, NoTime)
  <2>2. Sound(s) /\ s \in Reply /\ s.code = c
    BY <1>3
  <2>3. r = [s EXCEPT !.location = l]
    BY <2>1
  <2> HIDE DEF s
  <2>4. /\ r \in Reply /\ r.code = s.code /\ r.body = s.body /\ r.lm = s.lm
        /\ r.contlen = s.contlen /\ r.framing = s.framing
    BY <2>2, <2>3, LocationFields
  <2> QED
    BY <2>2, <2>4 DEF Sound
<1>7. CASE ~stale /\ r \in FileAnswers
  <2>1. ASSUME NEW f \in Frames, NEW lm \in Stamps, r = Say(200, Entity(version), 0, f, lm)
        PROVE  Sound(r)
    <3>1. lm \in Int /\ (lm # NoTime => lm >= 1)
      BY <1>2, <1>1 DEF Stamps
    <3>2. /\ Entity(version) \in Seq(Byte) /\ Len(Entity(version)) = Size[version]
          /\ \A i \in 1 .. Size[version] : Entity(version)[i] = <<version, i>>
          /\ Size[version] \in Nat
      BY <1>2, EntityBytes
    <3> DEFINE e == Entity(version)
    <3> HIDE DEF e
    <3>3. Said(r, 200, e, 0, f, lm)
      BY <2>1, <3>1, <3>2, SayFields DEF e
    <3>4. /\ r \in Reply /\ r.code = 200 /\ r.body = e /\ r.contrange = 0
          /\ r.lm = lm /\ r.contlen \in {-1, Len(r.body)}
          /\ r.framing = "length" => r.contlen = Len(r.body)
      BY <3>3 DEF Said
    <3>5. RightBody(r)
      BY <3>2, <3>4 DEF RightBody, e
    <3> QED
      BY <3>1, <3>4, <3>5 DEF Sound
  <2>2. ASSUME NEW f \in Frames, NEW lm \in Stamps, NEW g \in Ranges,
               r = Say(206, Part(g[1], g[2]), g[1], f, lm)
        PROVE  Sound(r)
    <3> DEFINE first == g[1]
               last == g[2]
    <3>1. lm \in Int /\ (lm # NoTime => lm >= 1) /\ Size[version] \in Nat
      BY <1>2, <1>1, EntityBytes DEF Stamps
    <3>2. /\ first \in {hs.restval, hs.restval - 1} /\ last \in 1 .. Size[version]
          /\ 0 <= first /\ first < last
      BY <2>2 DEF Ranges
    <3>3. r = Say(206, Part(first, last), first, f, lm)
      BY <2>2
    <3> HIDE DEF first, last
    <3>4. first \in Nat /\ last \in Nat /\ last <= Size[version]
      BY <1>2, <3>1, <3>2
    <3>5. /\ Part(first, last) \in Seq(Byte) /\ Len(Part(first, last)) = last - first
          /\ \A i \in 1 .. Len(Part(first, last)) :
               Part(first, last)[i] = <<version, first + i>>
      BY <1>2, <3>2, <3>4, PartBytes
    <3> DEFINE e == Part(first, last)
    <3> HIDE DEF e
    <3>6. Said(r, 206, e, first, f, lm)
      BY <3>1, <3>3, <3>4, <3>5, SayFields DEF e
    <3>7. /\ r \in Reply /\ r.code = 206 /\ r.body = e /\ r.contrange = first
          /\ r.lm = lm /\ r.contlen = Len(r.body)
      BY <3>6 DEF Said
    <3>8. /\ Len(e) + first <= Size[version] /\ Len(e) \in Nat
          /\ \A i \in 1 .. Len(e) : e[i] = <<version, first + i>>
      BY <3>1, <3>4, <3>5 DEF e
    <3>9. RightBody(r)
      BY <3>7, <3>8 DEF RightBody
    <3> QED
      BY <3>1, <3>7, <3>8, <3>9 DEF Sound
  <2>3. ASSUME NEW n \in 0 .. Size[version] - 1, NEW lm \in Stamps,
               r = [Say(200, Entity(version), 0, <<"chunked", FALSE>>, lm) EXCEPT !.contlen = n]
        PROVE  Sound(r)
    <3> DEFINE f == <<"chunked", FALSE>>
               e == Entity(version)
               t == Say(200, e, 0, f, lm)
    <3>1. lm \in Int /\ (lm # NoTime => lm >= 1) /\ f \in Frames /\ f[1] = "chunked"
      BY <1>2, <1>1 DEF Stamps, Frames
    <3>2. /\ e \in Seq(Byte) /\ Len(e) = Size[version] /\ Size[version] \in Nat
          /\ \A i \in 1 .. Size[version] : e[i] = <<version, i>>
      BY <1>2, EntityBytes
    <3>3. r = [t EXCEPT !.contlen = n]
      BY <2>3
    <3> HIDE DEF e, f
    <3>4. Said(t, 200, e, 0, f, lm)
      BY <1>1, <3>1, <3>2, SayFields
    <3>5. /\ t \in Reply /\ t.code = 200 /\ t.body = e /\ t.contrange = 0 /\ t.lm = lm
          /\ t.framing = "chunked"
      BY <3>1, <3>4 DEF Said
    <3> HIDE DEF t
    <3>6. n \in Nat /\ n <= Len(e)
      BY <3>2
    <3>7. /\ r \in Reply /\ r.code = t.code /\ r.body = t.body /\ r.lm = t.lm
          /\ r.contlen = n /\ r.contrange = t.contrange /\ r.framing = t.framing
      BY <3>3, <3>5, <3>6, ContlenFields
    <3>8. RightBody(r)
      BY <3>2, <3>5, <3>7 DEF RightBody
    <3> QED
      BY <3>1, <3>5, <3>6, <3>7, <3>8 DEF Sound
  <2>4. ASSUME NEW c \in {204, 304, 416}, c = 416 => 0 < hs.restval /\ Size[version] <= hs.restval,
               r = Say(c, <<>>, 0, <<"length", FALSE>>, NoTime)
        PROVE  Sound(r)
    <3> DEFINE f == <<"length", FALSE>>
               e == <<>>
    <3>1. f \in Frames /\ f[1] = "length" /\ e \in Seq(Byte) /\ Len(e) = 0 /\ c \in Nat
      BY DEF Frames
    <3> HIDE DEF f, e
    <3>2. r = Say(c, e, 0, f, NoTime)
      BY <2>4 DEF f, e
    <3>3. Said(r, c, e, 0, f, NoTime)
      BY <1>1, <3>1, <3>2, SayFields, ZenonT(30)
    <3>4. /\ r \in Reply /\ r.code = c /\ r.body = e /\ r.contrange = 0 /\ r.lm = NoTime
          /\ r.framing = "length" /\ r.contlen = Len(e)
      BY <3>1, <3>3 DEF Said
    <3> QED
      BY <2>4, <3>1, <3>4 DEF Sound
  <2> QED
    BY <1>7, <2>1, <2>2, <2>4, <2>3 DEF FileAnswers
<1> QED
  BY <1>4, <1>5, <1>6, <1>7 DEF Answers
-----------------------------------------------------------------------------
(* hstat                                                                   *)

\* What check_file_output and the headers make of hstat.
CheckedRule(h, r) ==
  /\ h \in Stat
  /\ h.restval = hs.restval /\ h.len = hs.len /\ h.contlen = hs.contlen
  /\ h.statcode = r.code /\ h.remote_time = r.lm
  /\ h.existence_checked = TRUE
  /\ h.orig = hs.orig \/ (opts.timestamping /\ h.orig = fs[name])

(* check_file_output and the headers leave the numbers alone.               *)
LEMMA CheckedFields ==
  ASSUME HttpType, NEW r \in Reply
  PROVE  CheckedRule(Checked(r), r)
<1>1. hs \in Stat /\ fs[name] \in Stored
  BY DEF HttpType
<1>2. r.code \in Nat /\ r.lm \in Int /\ r.location \in BOOLEAN
  BY DEF Reply
<1>3. hs.orig \in Stored /\ hs.timestamp_checked \in BOOLEAN
  BY <1>1 DEF Stat
<1> DEFINE o == IF StampNow THEN fs[name] ELSE hs.orig
           t == hs.timestamp_checked \/ StampNow
<1>4. /\ o \in Stored /\ t \in BOOLEAN
      /\ o = hs.orig \/ (opts.timestamping /\ o = fs[name])
  BY <1>1, <1>3 DEF StampNow
<1> DEFINE h == [hs EXCEPT !.existence_checked = TRUE, !.orig = o, !.timestamp_checked = t,
                           !.statcode = r.code, !.remote_time = r.lm, !.newloc = r.location]
<1>5. Checked(r) = h
  BY Zenon DEF Checked
<1> HIDE DEF o, t
<1>6. h \in Stat
  BY <1>1, <1>2, <1>4, Zenon DEF Stat
<1>7. h.restval = hs.restval /\ h.len = hs.len /\ h.contlen = hs.contlen
  BY <1>1, Zenon DEF Stat
<1>8. h.statcode = r.code /\ h.remote_time = r.lm /\ h.existence_checked = TRUE /\ h.orig = o
  BY <1>1, Zenon DEF Stat
<1> HIDE DEF h
<1> QED
  BY <1>4, <1>5, <1>6, <1>7, <1>8 DEF CheckedRule

(* hstat after an answer without anything to read.                          *)
LEMMA NothingFields ==
  ASSUME NEW h \in Stat
  PROVE  /\ Nothing(h) \in Stat
         /\ Nothing(h).restval = 0 /\ Nothing(h).len = 0
         /\ Nothing(h).contlen = h.contlen /\ Nothing(h).statcode = h.statcode
         /\ Nothing(h).remote_time = h.remote_time /\ Nothing(h).orig = h.orig
         /\ Nothing(h).existence_checked = h.existence_checked
<1>1. 0 \in Nat /\ 0 \in Int
  OBVIOUS
<1>2. Nothing(h) \in Stat
  BY <1>1, Zenon DEF Nothing, Stat
<1>3. /\ Nothing(h).restval = 0 /\ Nothing(h).len = 0
      /\ Nothing(h).contlen = h.contlen /\ Nothing(h).statcode = h.statcode
  BY Zenon DEF Nothing, Stat
<1>4. /\ Nothing(h).remote_time = h.remote_time /\ Nothing(h).orig = h.orig
      /\ Nothing(h).existence_checked = h.existence_checked
  BY Zenon DEF Nothing, Stat
<1> QED
  BY <1>2, <1>3, <1>4

(* hstat with len changed, for a file that is complete or opened.           *)
LEMMA LenFields ==
  ASSUME NEW h \in Stat, NEW n \in Nat
  PROVE  LET g == [h EXCEPT !.len = n]
         IN /\ g \in Stat /\ g.len = n
            /\ g.restval = h.restval /\ g.contlen = h.contlen
            /\ g.statcode = h.statcode /\ g.remote_time = h.remote_time /\ g.orig = h.orig
            /\ g.existence_checked = h.existence_checked
<1> DEFINE g == [h EXCEPT !.len = n]
<1>1. g \in Stat
  BY Zenon DEF Stat
<1>2. g.len = n /\ g.restval = h.restval /\ g.contlen = h.contlen /\ g.statcode = h.statcode
  BY Zenon DEF Stat
<1>3. /\ g.remote_time = h.remote_time /\ g.orig = h.orig
      /\ g.existence_checked = h.existence_checked
  BY Zenon DEF Stat
<1> QED
  BY <1>1, <1>2, <1>3

(* hstat with res changed, after the body.                                  *)
LEMMA ResFields ==
  ASSUME NEW h \in Stat, NEW n \in Int
  PROVE  LET g == [h EXCEPT !.res = n]
         IN /\ g \in Stat /\ g.len = h.len
            /\ g.restval = h.restval /\ g.contlen = h.contlen
            /\ g.statcode = h.statcode /\ g.remote_time = h.remote_time /\ g.orig = h.orig
            /\ g.existence_checked = h.existence_checked /\ g.res = n
<1> DEFINE g == [h EXCEPT !.res = n]
<1>1. g \in Stat
  BY Zenon DEF Stat
<1>2. /\ g.len = h.len /\ g.restval = h.restval /\ g.contlen = h.contlen
      /\ g.statcode = h.statcode
  BY Zenon DEF Stat
<1>3. /\ g.remote_time = h.remote_time /\ g.orig = h.orig
      /\ g.existence_checked = h.existence_checked /\ g.res = n
  BY Zenon DEF Stat
<1> QED
  BY <1>1, <1>2, <1>3

\* What the length in the answer makes of hstat.
SizedRule(h, r) ==
  /\ h \in Stat
  /\ h.restval = hs.restval /\ h.len = hs.len
  /\ h.contlen = IF r.contlen = -1 THEN -1 ELSE r.contlen + r.contrange
  /\ h.statcode = r.code /\ h.remote_time = r.lm
  /\ h.existence_checked = TRUE
  /\ h.orig = hs.orig \/ (opts.timestamping /\ h.orig = fs[name])

(* contlen becomes that of the whole file.                                  *)
LEMMA SizedFields ==
  ASSUME HttpType, NEW r \in Reply
  PROVE  SizedRule(Sized(r), r)
<1> DEFINE c == Checked(r)
           n == IF r.contlen = -1 THEN -1 ELSE r.contlen + r.contrange
           h == [c EXCEPT !.contlen = n]
<1>1. CheckedRule(c, r)
  BY CheckedFields
<1>2. r.contlen \in Nat \cup {-1} /\ r.contrange \in Nat
  BY DEF Reply
<1>3. n \in Nat \cup {-1}
  BY <1>2
<1>4. Sized(r) = h
  BY Zenon DEF Sized
<1> HIDE DEF c, n
<1>5. c \in Stat
  BY <1>1 DEF CheckedRule
<1>6. h \in Stat
  BY <1>3, <1>5, Zenon DEF Stat
<1>7. h.contlen = n /\ h.restval = c.restval /\ h.len = c.len /\ h.statcode = c.statcode
  BY <1>5, Zenon DEF Stat
<1>8. /\ h.remote_time = c.remote_time /\ h.existence_checked = c.existence_checked
      /\ h.orig = c.orig
  BY <1>5, Zenon DEF Stat
<1> HIDE DEF h
<1> QED
  BY <1>1, <1>4, <1>6, <1>7, <1>8 DEF CheckedRule, SizedRule, n

(* hstat at the beginning, and after free_hstat.                            *)
LEMMA NoStatType ==
  /\ NoStat \in Stat /\ NoResp \in Reply
  /\ NoStat.restval = 0 /\ NoStat.len = 0 /\ NoStat.remote_time = NoTime
  /\ NoStat.orig = NoFile /\ ~NoStat.existence_checked
<1>1. NoFile \in Stored /\ NoTime \in Int
  BY DEF NoFile, NoTime, Stored
<1>2. <<>> \in Seq(Byte)
  OBVIOUS
<1> HIDE DEF NoFile, NoTime
<1> QED
  BY <1>1, <1>2 DEF NoStat, NoResp, Stat, Reply
(* hstat with len and res changed, for a file that is complete or cannot be *)
(* written.                                                                 *)
LEMMA LenResFields ==
  ASSUME NEW h \in Stat, NEW n \in Nat, NEW m \in Int
  PROVE  LET g == [h EXCEPT !.len = n, !.res = m]
         IN /\ g \in Stat /\ g.len = n
            /\ g.restval = h.restval /\ g.contlen = h.contlen
            /\ g.statcode = h.statcode /\ g.remote_time = h.remote_time /\ g.orig = h.orig
            /\ g.existence_checked = h.existence_checked
<1> DEFINE g == [h EXCEPT !.len = n, !.res = m]
<1>1. g \in Stat
  BY Zenon DEF Stat
<1>2. g.len = n /\ g.restval = h.restval /\ g.contlen = h.contlen /\ g.statcode = h.statcode
  BY Zenon DEF Stat
<1>3. /\ g.remote_time = h.remote_time /\ g.orig = h.orig
      /\ g.existence_checked = h.existence_checked
  BY Zenon DEF Stat
<1> QED
  BY <1>1, <1>2, <1>3

-----------------------------------------------------------------------------
(* Every step keeps ReadInv                                                *)

(* The name that check_file_output leaves.                                  *)
LEMMA GoFacts ==
  ASSUME HttpType, NEW r, Go(r)
  PROVE  /\ name' \in 0 .. MaxName /\ (AllowClobber => name' = 0)
         /\ name' # name => /\ ~AllowClobber /\ ~Exists(name') /\ Exists(name)
                            /\ ~hs.existence_checked
<1>1. name \in 0 .. MaxName /\ (AllowClobber => name = 0)
  BY DEF HttpType
<1>2. CASE NameTaken /\ ~AllowClobber
  <2>1. name' = Unique /\ FreeName
    BY <1>2 DEF Go
  <2>2. Unique \in 0 .. MaxName /\ ~Exists(Unique)
    BY <2>1, UniqueIsFree
  <2> QED
    BY <1>1, <1>2, <2>1, <2>2 DEF NameTaken
<1>3. CASE ~(NameTaken /\ ~AllowClobber)
  BY <1>1, <1>3 DEF Go
<1> QED
  BY <1>2, <1>3

(* A step that changes no file and reads no body.                           *)
LEMMA TypeKept ==
  ASSUME HttpType, UNCHANGED <<opts, version, fs>>,
         resp' \in Reply, sum_read' \in Nat, skip' \in Nat, count' \in Nat, hs' \in Stat,
         tmr' \in Int,
         name' \in 0 .. MaxName, AllowClobber => name' = 0,
         at' \in {"retrieve", "try", "connect", "reply", "repeat", "body", "judge", "done"}
  PROVE  HttpType'
BY DEF HttpType, AllowClobber, Exists

(* An answer without a body that is read.                                   *)
LEMMA NotReadKept ==
  ASSUME ReadInv, UNCHANGED <<opts, version, fs, resp, sum_read, skip, count, tmr, ret>>,
         hs' \in Stat, name' \in 0 .. MaxName, AllowClobber => name' = 0,
         at' \in {"connect", "judge"},
         at' = "judge" /\ err' = "RETRFINISHED" => hs'.len = 0,
         KeptConnectionDrained'
  PROVE  ReadInv'
<1>1. resp \in Reply /\ sum_read \in Nat /\ skip \in Nat /\ count \in Nat /\ tmr \in Int
  BY DEF ReadInv, HttpType
<1>2. HttpType'
  BY <1>1, TypeKept DEF ReadInv
<1>3. BodyInv' /\ NeverAborts'
  BY DEF BodyInv, NeverAborts, ReadInv
<1>4. hs'.contlen \in Nat \cup {-1}
  BY DEF Stat
<1>5. JudgeInv'
  BY <1>4 DEF JudgeInv
<1> QED
  BY <1>2, <1>3, <1>5 DEF ReadInv

(* A step of http_loop after gethttp.                                       *)
LEMMA JudgedKept ==
  ASSUME ReadInv, Judged, HttpType',
         at' \in {"try", "retrieve", "done"}, ret' # "abort"
  PROVE  ReadInv'
<1>1. BodyInv' /\ JudgeInv' /\ NeverAborts'
  BY DEF BodyInv, JudgeInv, NeverAborts
<1>2. KeptConnectionDrained'
  BY DEF KeptConnectionDrained, ReadInv, Judged, worldVars
<1> QED
  BY <1>1, <1>2 DEF ReadInv

(* The types, after a step of http_loop that touches no file.               *)
LEMMA JudgedType ==
  ASSUME HttpType, Judged, UNCHANGED <<name, fs>>, hs' \in Stat, count' \in Nat, tmr' \in Int,
         at' \in {"try", "retrieve", "done"}
  PROVE  HttpType'
<1>1. /\ name \in 0 .. MaxName /\ (AllowClobber => name = 0)
      /\ resp' \in Reply /\ sum_read' \in Nat /\ skip' \in Nat
  BY DEF HttpType, Judged, readVars
<1> QED
  BY <1>1, TypeKept DEF Judged, worldVars

(* What is left of a sound answer on the connection.                        *)
LEMMA Drained ==
  ASSUME NEW r, Sound(r)
  PROVE  /\ CloseFinish(r, Len(r.body)) \notin {"length", "chunked"}
         /\ \A n \in Nat : CloseFinish(r, n) # "late"
         /\ r.code \in {204, 304} => CloseFinish(r, 0) \notin {"length", "chunked"}
         /\ \A c \in SkipShortBody(r) : c \notin {"length", "chunked"}
<1>1. r.framing \in {"length", "chunked", "unframed"}
  BY DEF Sound, Reply
<1>2. CloseFinish(r, Len(r.body)) \notin {"length", "chunked"}
  BY <1>1 DEF CloseFinish
<1>3. ASSUME r.code \in {204, 304} PROVE CloseFinish(r, 0) \notin {"length", "chunked"}
  BY <1>1, <1>3 DEF CloseFinish, Sound
<1>4. ASSUME r.framing = "unframed" PROVE CloseFinish(r, 0) \notin {"length", "chunked"}
  BY <1>4 DEF CloseFinish
<1>5. \A c \in SkipShortBody(r) : c \notin {"length", "chunked"}
  <2>1. r.contlen = -1 /\ r.framing # "chunked" => r.framing = "unframed"
    BY <1>1 DEF Sound
  <2> QED
    BY <1>2, <1>4, <2>1 DEF SkipShortBody, AfterChunks
<1>6. \A n \in Nat : CloseFinish(r, n) # "late"
  BY <1>1 DEF CloseFinish
<1> QED
  BY <1>2, <1>3, <1>5, <1>6

(* An answer that leaves no body to read.                                   *)
LEMMA AnswerKept ==
  ASSUME ReadInv, NEW r, Sound(r),
         \/ Unauthorized(r) \/ FileAppeared(r) \/ NoContent(r) \/ Redirected(r)
         \/ NotModified(r) \/ StillCurrent(r) \/ AlreadyRetrieved(r) \/ RangeError(r)
         \/ NoBody(r)
  PROVE  ReadInv'
<1>1. r \in Reply /\ HttpType /\ hs \in Stat
  BY DEF Sound, ReadInv, HttpType
<1>2. name \in 0 .. MaxName /\ (AllowClobber => name = 0)
  BY DEF ReadInv, HttpType
<1>3. Go(r) => name' \in 0 .. MaxName /\ (AllowClobber => name' = 0)
  BY <1>1, GoFacts
<1>4. CheckedRule(Checked(r), r) /\ SizedRule(Sized(r), r)
  BY <1>1, CheckedFields, SizedFields
<1>5. Checked(r) \in Stat /\ Sized(r) \in Stat
  BY <1>4 DEF CheckedRule, SizedRule
<1>6. /\ Nothing(Checked(r)) \in Stat /\ Nothing(Checked(r)).len = 0
      /\ Nothing(Sized(r)) \in Stat /\ Nothing(Sized(r)).len = 0
  BY <1>5, NothingFields
<1>7. ASSUME Heard(r), UNCHANGED <<readVars, fs>>,
             hs' \in Stat, name' = name \/ Go(r), at' \in {"connect", "judge"},
             at' = "judge" /\ err' = "RETRFINISHED" => hs'.len = 0,
             pconn' \in {"length", "chunked"} => opts.noclobber,
             at' = "judge" /\ pconn' = "late" => ~RETROKF' \/ err' = "RETRUNNEEDED"
      PROVE  ReadInv'
  <2>1. KeptConnectionDrained'
    BY <1>7 DEF Heard, KeptConnectionDrained
  <2> QED
    BY <1>2, <1>3, <1>7, <2>1, NotReadKept DEF readVars, Heard
<1>8. /\ r.code \in {204, 304} => CloseFinish(r, 0) \notin {"length", "chunked"}
      /\ \A c \in SkipShortBody(r) : c \notin {"length", "chunked"}
      /\ CloseFinish(r, 0) # "late"
  BY Drained
<1>9. CASE Unauthorized(r)
  <2>1. at' = "connect" \/ (at' = "judge" /\ err' = "AUTHFAILED")
    BY <1>9 DEF Unauthorized, Return
  <2>2. pconn' \notin {"length", "chunked"} /\ ~RETROKF'
    BY <1>8, <1>9 DEF Unauthorized
  <2> QED
    BY <1>1, <1>7, <1>9, <2>1, <2>2 DEF Unauthorized
<1>10. CASE FileAppeared(r)
  BY <1>1, <1>7, <1>10 DEF FileAppeared, Return
<1>11. CASE NoContent(r)
  BY <1>6, <1>7, <1>8, <1>11 DEF NoContent, Go, Return
<1>12. CASE Redirected(r)
  <2>1. pconn' \notin {"length", "chunked"} /\ ~RETROKF'
    BY <1>8, <1>12 DEF Redirected
  <2> QED
    BY <1>6, <1>7, <1>12, <2>1 DEF Redirected, Go, Return
<1>13. CASE NotModified(r)
  BY <1>5, <1>7, <1>8, <1>13 DEF NotModified, Go, Return
<1>14. CASE StillCurrent(r)
  BY <1>5, <1>7, <1>14 DEF StillCurrent, Go, Return
<1>15. CASE AlreadyRetrieved(r)
  <2> DEFINE c == Checked(r)
             n == r.contlen
             h == [c EXCEPT !.len = n, !.res = 0]
  <2>1. r.contlen \in Nat /\ 0 \in Int
    BY <1>1, <1>15 DEF AlreadyRetrieved, Complete, Sound, Reply
  <2>2. hs' = h
    BY <1>15, Zenon DEF AlreadyRetrieved
  <2> HIDE DEF c, n
  <2>3. c \in Stat /\ n \in Nat
    BY <1>5, <2>1 DEF c, n
  <2>4. hs' \in Stat
    BY <2>1, <2>2, <2>3, LenResFields, Zenon
  <2>5. pconn' \notin {"length", "chunked"}
    BY <1>8, <1>15 DEF AlreadyRetrieved
  <2>6. /\ Heard(r) /\ UNCHANGED <<readVars, fs>> /\ Go(r)
        /\ at' = "judge" /\ err' = "RETRUNNEEDED"
    BY <1>15, Zenon DEF AlreadyRetrieved, Go, Return
  <2> QED
    BY <1>7, <2>4, <2>5, <2>6
<1>16. CASE RangeError(r)
  BY <1>5, <1>7, <1>16 DEF RangeError, Go, Return
<1>17. CASE NoBody(r)
  <2>1. pconn' \notin {"length", "chunked"}
    BY <1>8, <1>17 DEF NoBody
  <2>2. pconn' = "late" => ~RETROKF'
    BY <1>17 DEF NoBody, Wanted
  <2> QED
    BY <1>6, <1>7, <1>17, <2>1, <2>2 DEF NoBody, Wanted, Go, Return
<1> QED
  BY <1>9, <1>10, <1>11, <1>12, <1>13, <1>14, <1>15, <1>16, <1>17

\* What open_output_stream does, where it succeeds.
Opened(r) ==
  /\ Wanted(r) /\ r.code \in {200, 206} /\ ~head_only /\ ~opts.spider
  /\ hs' \in Stat /\ hs'.len = hs.restval /\ hs'.restval = hs.restval
  /\ hs'.contlen = IF r.contlen = -1 THEN -1 ELSE r.contlen + r.contrange
  /\ hs'.existence_checked = TRUE /\ hs'.remote_time = r.lm
  /\ hs'.orig = hs.orig \/ (opts.timestamping /\ hs'.orig = fs[name])
  /\ fs' = [fs EXCEPT ![name'] = IF hs.restval > 0 /\ fs[name'].mtime # -1 THEN fs[name']
                                 ELSE [data |-> <<>>, mtime |-> Now]]
  /\ resp' = r /\ sum_read' = 0 /\ skip' = SkipOf(r) /\ at' = "body"
  /\ UNCHANGED <<pconn, err>>

\* And what it does where it fails.
OpenFails(r) ==
  /\ Wanted(r)
  /\ SizedRule(hs', r)
  /\ pconn' = "closed"
  /\ Return("FOPENERR")
  /\ UNCHANGED <<readVars, fs>>

(* The two ways that open_output_stream goes.                               *)
LEMMA OpenOutputWays ==
  ASSUME HttpType, NEW r \in Reply, OpenOutput(r)
  PROVE  Opened(r) \/ OpenFails(r)
<1>1. SizedRule(Sized(r), r) /\ hs.restval \in Nat
  BY SizedFields DEF HttpType, Stat
<1>2. Sized(r) \in Stat
  BY <1>1 DEF SizedRule
<1>3. CASE hs' = Sized(r) /\ pconn' = "closed" /\ Return("FOPENERR") /\ UNCHANGED <<readVars, fs>>
  BY <1>1, <1>3 DEF OpenFails, OpenOutput
<1> DEFINE s == Sized(r)
           h == [s EXCEPT !.len = hs.restval]
           f == [fs EXCEPT ![name'] = IF hs.restval > 0 /\ fs[name'].mtime # -1 THEN fs[name']
                                      ELSE [data |-> <<>>, mtime |-> Now]]
<1>4. CASE /\ hs' = h /\ fs' = f
           /\ resp' = r /\ sum_read' = 0 /\ skip' = SkipOf(r) /\ at' = "body"
           /\ UNCHANGED <<pconn, err>>
  <2> HIDE DEF s
  <2>1. s \in Stat
    BY <1>2 DEF s
  <2>2. /\ h \in Stat /\ h.len = hs.restval /\ h.restval = s.restval /\ h.contlen = s.contlen
        /\ h.existence_checked = s.existence_checked /\ h.remote_time = s.remote_time
        /\ h.orig = s.orig
    BY <1>1, <2>1, LenFields
  <2> HIDE DEF h, f
  <2>3. hs' = h /\ fs' = f
    BY <1>4
  <2>4. Wanted(r) /\ r.code \in {200, 206} /\ ~head_only /\ ~opts.spider
    BY DEF OpenOutput
  <2>5. /\ s.restval = hs.restval /\ s.existence_checked = TRUE
        /\ s.contlen = IF r.contlen = -1 THEN -1 ELSE r.contlen + r.contrange
        /\ s.remote_time = r.lm
        /\ s.orig = hs.orig \/ (opts.timestamping /\ s.orig = fs[name])
    BY <1>1 DEF s, SizedRule
  <2> QED
    BY <1>4, <2>2, <2>3, <2>4, <2>5 DEF Opened, f
<1> QED
  BY <1>3, <1>4 DEF OpenOutput

(* One file changes.                                                        *)
LEMMA FileChanged ==
  ASSUME HttpType, NEW n \in 0 .. MaxName, NEW s \in Stored, s.mtime = -1 => s.data = <<>>,
         fs' = [fs EXCEPT ![n] = s]
  PROVE  /\ fs' \in [0 .. MaxName -> Stored]
         /\ \A m \in 0 .. MaxName : ~Exists(m)' => fs'[m].data = <<>>
         /\ fs'[n] = s /\ \A m \in 0 .. MaxName : m # n => fs'[m] = fs[m]
BY DEF HttpType, Exists

(* The types, when one file changes.                                        *)
LEMMA TypeKeptWriting ==
  ASSUME HttpType, UNCHANGED <<opts, version>>,
         NEW n \in 0 .. MaxName, NEW s \in Stored, s.mtime = -1 => s.data = <<>>,
         fs' = [fs EXCEPT ![n] = s],
         resp' \in Reply, sum_read' \in Nat, skip' \in Nat, count' \in Nat, hs' \in Stat,
         tmr' \in Int,
         name' \in 0 .. MaxName, AllowClobber => name' = 0,
         at' \in {"retrieve", "try", "connect", "reply", "repeat", "body", "judge", "done"}
  PROVE  HttpType'
<1>1. /\ fs' \in [0 .. MaxName -> Stored]
      /\ \A m \in 0 .. MaxName : ~Exists(m)' => fs'[m].data = <<>>
  BY FileChanged
<1> QED
  BY <1>1 DEF HttpType, AllowClobber, Exists

(* The body begins to be read.                                              *)
LEMMA OpenKept ==
  ASSUME ReadInv, NEW r, Sound(r), Opened(r)
  PROVE  ReadInv'
<1> DEFINE s == IF hs.restval > 0 /\ fs[name'].mtime # -1 THEN fs[name']
                ELSE [data |-> <<>>, mtime |-> Now]
<1>1. /\ HttpType /\ r \in Reply /\ hs.restval \in Nat /\ count \in Nat /\ tmr \in Int
      /\ r.contrange \in Nat /\ (r.contlen = -1 \/ r.contlen <= Len(r.body)) /\ r.body \in Seq(Byte)
      /\ r.contlen \in Nat \cup {-1} /\ (r.framing # "chunked" => r.contlen \in {-1, Len(r.body)})
  BY DEF ReadInv, HttpType, Sound, Reply, Stat
<1>2. Go(r) /\ ~Misranged(r)
  BY DEF Opened, Wanted
<1>3. name' \in 0 .. MaxName /\ (AllowClobber => name' = 0)
  BY <1>1, <1>2, GoFacts
<1>4. s \in Stored /\ s.mtime # -1
  BY <1>1, <1>3, NowType DEF Stored, HttpType
<1>5. fs' = [fs EXCEPT ![name'] = s]
  BY DEF Opened
<1> HIDE DEF s
<1>6. /\ UNCHANGED <<opts, version, count, tmr, ret>>
      /\ resp' = r /\ sum_read' = 0 /\ skip' = SkipOf(r) /\ at' = "body"
      /\ hs' \in Stat /\ hs'.len = hs.restval /\ hs'.restval = hs.restval
      /\ hs'.contlen = IF r.contlen = -1 THEN -1 ELSE r.contlen + r.contrange
  BY <1>2 DEF Opened, Go, Heard, worldVars
<1>7. SkipOf(r) \in Nat
  BY <1>1 DEF SkipOf
<1>8. HttpType'
  BY <1>1, <1>3, <1>4, <1>5, <1>6, <1>7, TypeKeptWriting
<1>9. BodyInv'
  BY <1>1, <1>2, <1>6 DEF BodyInv, SkipOf, Misranged
<1>10. JudgeInv' /\ KeptConnectionDrained'
  BY <1>6 DEF JudgeInv, KeptConnectionDrained, ReadInv, Opened
<1>11. NeverAborts'
  BY <1>6 DEF NeverAborts, ReadInv
<1> QED
  BY <1>8, <1>9, <1>10, <1>11 DEF ReadInv

\* What the reading of a body leaves alone in hstat.
SameAnswer ==
  /\ hs'.restval = hs.restval /\ hs'.contlen = hs.contlen /\ hs'.remote_time = hs.remote_time
  /\ hs'.orig = hs.orig /\ hs'.existence_checked = hs.existence_checked

\* What write_data does with k bytes.
ReadRule(k) ==
  /\ at = "body" /\ k \in 1 .. Len(resp.body) - sum_read
  /\ skip' = skip - LeftOut(k) /\ sum_read' = sum_read + k
  /\ hs' \in Stat /\ hs'.len = hs.len + Written(k) /\ SameAnswer
  /\ \E d \in Seq(Byte), t \in Int :
       /\ Len(d) <= Written(k)
       /\ \A i \in 1 .. Len(d) : d[i] = resp.body[sum_read + LeftOut(k) + i]
       /\ t = Now \/ (d = <<>> /\ t = fs[name].mtime)
       /\ fs' = [fs EXCEPT ![name] = [data |-> fs[name].data \o d, mtime |-> t]]
       /\ at' = "body" => Len(d) = Written(k)
  /\ \/ at' = "body" /\ UNCHANGED <<err, pconn>>
     \/ at' = "judge" /\ err' = "FWRITEERR" /\ pconn' = "closed"
  /\ UNCHANGED <<urlVars, loopVars, ret, RETROKF, auth_finished, stale, resp, worldVars, how>>

(* What write_data writes.                                                  *)
LEMMA ReadWays ==
  ASSUME HttpType, BodyInv, NEW k, ReadWrite(k)
  PROVE  ReadRule(k)
<1> DEFINE a == sum_read + LeftOut(k)
           b == sum_read + k
           w == Written(k)
           data == SubSeq(resp.body, a + 1, b)
           l == hs.len + w
<1>1. /\ hs \in Stat /\ hs.len \in Nat /\ resp.body \in Seq(Byte) /\ skip \in Nat
      /\ sum_read \in Nat
  BY DEF HttpType, Stat, Reply
<1>2. at = "body" /\ k \in 1 .. Len(resp.body) - sum_read
  BY DEF ReadWrite
<1>3. /\ a \in Nat /\ b \in Nat /\ w \in Nat /\ b = a + w /\ b <= Len(resp.body) /\ l \in Nat
      /\ k \in Nat
  BY <1>1, <1>2 DEF LeftOut, Written
<1>4. /\ data \in Seq(Byte) /\ Len(data) = w
      /\ \A i \in 1 .. w : data[i] = resp.body[a + i]
  <2> HIDE DEF a, b, w
  <2> QED
    BY <1>1, <1>3
<1>5. /\ skip' = skip - LeftOut(k) /\ sum_read' = b
      /\ UNCHANGED <<urlVars, loopVars, ret, RETROKF, auth_finished, stale, resp, worldVars, how>>
  BY DEF ReadWrite
<1>6. CASE /\ fs' = [fs EXCEPT ![name] = [data |-> fs[name].data \o data,
                                mtime |-> IF data = <<>> THEN fs[name].mtime ELSE Now]]
           /\ hs' = [hs EXCEPT !.len = l]
           /\ UNCHANGED <<at, err, pconn>>
  <2> HIDE DEF l, a, b, w, data
  <2>1. /\ hs' \in Stat /\ hs'.len = l /\ SameAnswer
    BY <1>1, <1>3, <1>6, LenFields, Zenon DEF SameAnswer
  <2> DEFINE t == IF data = <<>> THEN fs[name].mtime ELSE Now
  <2>2. t \in Int /\ (t = Now \/ (data = <<>> /\ t = fs[name].mtime))
    BY NowType DEF HttpType, Stored
  <2>3. fs' = [fs EXCEPT ![name] = [data |-> fs[name].data \o data, mtime |-> t]]
    BY <1>6
  <2>4. /\ Len(data) <= Written(k) /\ (at' = "body" => Len(data) = Written(k))
        /\ \A i \in 1 .. Len(data) : data[i] = resp.body[sum_read + LeftOut(k) + i]
        /\ data \in Seq(Byte)
    BY <1>3, <1>4 DEF a, w
  <2> HIDE DEF t
  <2>5. \E d \in Seq(Byte), u \in Int :
       /\ Len(d) <= Written(k)
       /\ \A i \in 1 .. Len(d) : d[i] = resp.body[sum_read + LeftOut(k) + i]
       /\ u = Now \/ (d = <<>> /\ u = fs[name].mtime)
       /\ fs' = [fs EXCEPT ![name] = [data |-> fs[name].data \o d, mtime |-> u]]
       /\ at' = "body" => Len(d) = Written(k)
    BY <2>2, <2>3, <2>4
  <2>6. at' = "body" /\ UNCHANGED <<err, pconn>>
    BY <1>2, <1>6
  <2> QED
    BY <1>2, <1>5, <2>1, <2>5, <2>6 DEF ReadRule, l, w, b
<1>7. ASSUME NEW j \in 0 .. w - 1,
             fs' = [fs EXCEPT ![name] = [data |-> fs[name].data \o SubSeq(data, 1, j), mtime |-> Now]],
             hs' = [hs EXCEPT !.len = l, !.res = -2],
             pconn' = "closed" /\ at' = "judge" /\ err' = "FWRITEERR"
      PROVE  ReadRule(k)
  <2> DEFINE e == SubSeq(data, 1, j)
             m == -2
  <2>1. m \in Int
    OBVIOUS
  <2>2. hs' = [hs EXCEPT !.len = l, !.res = m]
    BY <1>7, Zenon
  <2> HIDE DEF l, a, b, w, data, m
  <2>3. hs' \in Stat /\ hs'.len = l /\ SameAnswer
    <3>1. hs \in Stat /\ l \in Nat
      BY <1>1, <1>3
    <3>2. hs' \in Stat /\ hs'.len = l /\ hs'.restval = hs.restval /\ hs'.contlen = hs.contlen
      BY <2>1, <2>2, <3>1, LenResFields, ZenonT(30)
    <3>3. /\ hs'.remote_time = hs.remote_time /\ hs'.orig = hs.orig
          /\ hs'.existence_checked = hs.existence_checked
      BY <2>2, <3>1, Zenon DEF Stat
    <3> QED
      BY <3>2, <3>3 DEF SameAnswer
  <2>4. j \in Nat /\ j <= Len(data) /\ j <= w
    BY <1>3, <1>4
  <2>5. e \in Seq(Byte) /\ Len(e) = j /\ \A i \in 1 .. j : e[i] = data[i]
    BY <1>4, <2>4
  <2> HIDE DEF e
  <2>6. /\ Len(e) <= Written(k)
        /\ \A i \in 1 .. Len(e) : e[i] = resp.body[sum_read + LeftOut(k) + i]
        /\ e \in Seq(Byte)
    <3>1. Len(e) <= w
      BY <2>4, <2>5
    <3>2. ASSUME NEW i \in 1 .. Len(e) PROVE e[i] = resp.body[a + i]
      <4>1. i \in 1 .. j /\ i \in 1 .. Len(data)
        BY <2>4, <2>5, <1>4, <1>3
      <4> QED
        BY <1>4, <2>5, <4>1
    <3> QED
      BY <2>5, <3>1, <3>2 DEF a, w
  <2>7. fs' = [fs EXCEPT ![name] = [data |-> fs[name].data \o e, mtime |-> Now]] /\ Now \in Int
    BY <1>7, NowType DEF e
  <2>8. \E d \in Seq(Byte), u \in Int :
       /\ Len(d) <= Written(k)
       /\ \A i \in 1 .. Len(d) : d[i] = resp.body[sum_read + LeftOut(k) + i]
       /\ u = Now \/ (d = <<>> /\ u = fs[name].mtime)
       /\ fs' = [fs EXCEPT ![name] = [data |-> fs[name].data \o d, mtime |-> u]]
       /\ at' = "body" => Len(d) = Written(k)
    BY <1>7, <2>6, <2>7
  <2>9. at' = "judge" /\ err' = "FWRITEERR" /\ pconn' = "closed"
    BY <1>7
  <2> QED
    BY <1>2, <1>5, <2>3, <2>8, <2>9 DEF ReadRule, l, w, b
<1> QED
  <2>1. \/ /\ fs' = [fs EXCEPT ![name] = [data |-> fs[name].data \o data,
                                mtime |-> IF data = <<>> THEN fs[name].mtime ELSE Now]]
           /\ hs' = [hs EXCEPT !.len = l]
           /\ UNCHANGED <<at, err, pconn>>
        \/ \E j \in 0 .. Len(data) - 1 :
             /\ fs' = [fs EXCEPT ![name] = [data |-> fs[name].data \o SubSeq(data, 1, j), mtime |-> Now]]
             /\ hs' = [hs EXCEPT !.len = l, !.res = -2]
             /\ pconn' = "closed" /\ at' = "judge" /\ err' = "FWRITEERR"
    BY Zenon DEF ReadWrite, Return
  <2>2. Len(data) - 1 = w - 1
    BY <1>4
  <2> HIDE DEF l, data, w
  <2> QED
    BY <1>6, <1>7, <2>1, <2>2, Zenon

(* Bytes are read and written.                                              *)
LEMMA ReadKept ==
  ASSUME ReadInv, NEW k, ReadWrite(k)
  PROVE  ReadInv'
<1>1. ReadRule(k) /\ HttpType /\ BodyInv
  BY ReadWays DEF ReadInv
<1>2. /\ resp \in Reply /\ resp.body \in Seq(Byte) /\ sum_read \in Nat /\ skip \in Nat
      /\ count \in Nat /\ tmr \in Int
      /\ hs.len \in Nat /\ hs.restval \in Nat /\ name \in 0 .. MaxName
      /\ (AllowClobber => name = 0) /\ fs[name] \in Stored
      /\ resp.contrange \in Nat /\ resp.contlen \in Nat \cup {-1}
  BY <1>1 DEF HttpType, Stat, Reply
<1>3. /\ at = "body" /\ k \in 1 .. Len(resp.body) - sum_read /\ k \in Nat
      /\ skip' = skip - LeftOut(k) /\ sum_read' = sum_read + k
      /\ hs' \in Stat /\ hs'.len = hs.len + Written(k)
      /\ hs'.restval = hs.restval /\ hs'.contlen = hs.contlen
      /\ UNCHANGED <<opts, version, name, count, tmr, resp, ret>>
  BY <1>1, <1>2 DEF ReadRule, SameAnswer, worldVars, loopVars
<1>4. resp.contlen # 0
  <2>1. More
    BY Zenon DEF ReadWrite
  <2> QED
    BY <1>2, <2>1 DEF More, exact
<1>5. \/ at' = "body" /\ UNCHANGED <<err, pconn>>
      \/ at' = "judge" /\ err' = "FWRITEERR" /\ pconn' = "closed"
  BY <1>1 DEF ReadRule
<1>6. PICK d \in Seq(Byte), t \in Int :
       /\ t = Now \/ (d = <<>> /\ t = fs[name].mtime)
       /\ fs' = [fs EXCEPT ![name] = [data |-> fs[name].data \o d, mtime |-> t]]
  BY <1>1, Zenon DEF ReadRule
<1> DEFINE s == [data |-> fs[name].data \o d, mtime |-> t]
<1>7. s \in Stored /\ (s.mtime = -1 => s.data = <<>>)
  <2>1. fs[name].data \in Seq(Byte) /\ (fs[name].mtime = -1 => fs[name].data = <<>>)
    BY <1>1, <1>2 DEF HttpType, Stored, Exists
  <2> QED
    BY <1>6, <2>1, NowType DEF Stored
<1>8. skip' \in Nat /\ sum_read' \in Nat
  BY <1>2, <1>3 DEF LeftOut
<1>9. HttpType'
  <2>1. fs' = [fs EXCEPT ![name] = s] /\ name' = name
    BY <1>3, <1>6
  <2> HIDE DEF s
  <2> QED
    BY <1>1, <1>2, <1>3, <1>5, <1>7, <1>8, <2>1, TypeKeptWriting
<1>10. BodyInv'
  <2> DEFINE b == Len(resp.body)
             c == resp.contrange
             v == hs.restval
  <2>1. /\ resp.contlen = -1 \/ resp.contlen <= b
        /\ resp.framing # "chunked" => resp.contlen \in {-1, b}
        /\ hs.contlen = IF resp.contlen = -1 THEN -1 ELSE resp.contlen + c
        /\ \/ /\ c = 0
              /\ skip = IF sum_read < v THEN v - sum_read ELSE 0
              /\ hs.len = IF sum_read < v THEN v ELSE sum_read
           \/ c = v /\ skip = 0 /\ hs.len = v + sum_read
    BY <1>1, <1>3 DEF BodyInv
  <2>2. sum_read' <= b
    BY <1>2, <1>3
  <2>3. /\ sum_read \in Nat /\ skip \in Nat /\ k \in Nat /\ v \in Nat /\ hs.len \in Nat
        /\ sum_read' = sum_read + k /\ skip' = skip - LeftOut(k)
        /\ hs'.len = hs.len + Written(k)
    BY <1>2, <1>3
  <2>4. CASE /\ c = 0
             /\ skip = IF sum_read < v THEN v - sum_read ELSE 0
             /\ hs.len = IF sum_read < v THEN v ELSE sum_read
    <3>1. /\ skip' = IF sum_read' < v THEN v - sum_read' ELSE 0
          /\ hs'.len = IF sum_read' < v THEN v ELSE sum_read'
      BY <2>4, <2>3, SMTT(30) DEF LeftOut, Written
    <3> QED
      BY <1>3, <1>4, <2>1, <2>2, <2>4, <3>1 DEF BodyInv
  <2>5. CASE c = v /\ skip = 0 /\ hs.len = v + sum_read
    <3>1. LeftOut(k) = 0
      BY <2>5, <2>3 DEF LeftOut
    <3>2. Written(k) = k
      BY <2>3, <3>1 DEF Written
    <3>3. skip' = 0 /\ hs'.len = v + sum_read'
      BY <2>5, <2>3, <3>1, <3>2
    <3> QED
      BY <1>3, <1>4, <2>1, <2>2, <2>5, <3>3 DEF BodyInv
  <2> QED
    BY <2>1, <2>4, <2>5
<1>11. JudgeInv' /\ KeptConnectionDrained'
  BY <1>3, <1>5 DEF JudgeInv, KeptConnectionDrained, ReadInv
<1>12. NeverAborts'
  BY <1>3 DEF NeverAborts, ReadInv
<1> QED
  BY <1>9, <1>10, <1>11, <1>12 DEF ReadInv

\* What fd_read_body returns.
EndRule(unread) ==
  /\ at = "body" /\ at' = "judge" /\ err' = "RETRFINISHED"
  /\ hs' \in Stat /\ hs'.len = hs.len /\ SameAnswer
  /\ pconn' \in {unread, "closed"}
  /\ resp' \in Reply /\ sum_read' = 0 /\ skip' = 0
  /\ UNCHANGED <<urlVars, loopVars, ret, RETROKF, auth_finished, stale, fs, worldVars, how>>

(* The end of the body changes no number of hstat.                          *)
LEMMA EndWays ==
  ASSUME HttpType, NEW res \in Int, NEW unread, BodyEnds(res, unread)
  PROVE  EndRule(unread) /\ hs'.res = res
<1>1. hs \in Stat /\ NoResp \in Reply
  BY NoStatType DEF HttpType
<1>2. hs' = [hs EXCEPT !.res = res]
  BY Zenon DEF BodyEnds
<1>3. hs' \in Stat /\ hs'.len = hs.len /\ SameAnswer /\ hs'.res = res
  BY <1>1, <1>2, ResFields, Zenon DEF SameAnswer
<1>4. /\ at = "body" /\ at' = "judge" /\ err' = "RETRFINISHED"
      /\ resp' = NoResp /\ sum_read' = 0 /\ skip' = 0
      /\ UNCHANGED <<urlVars, loopVars, ret, RETROKF, auth_finished, stale, fs, worldVars, how>>
  BY Zenon DEF BodyEnds, Return
<1>5. pconn' \in {unread, "closed"}
  BY Zenon DEF BodyEnds
<1> QED
  BY <1>1, <1>3, <1>4, <1>5 DEF EndRule

(* The four ends of a body.                                                 *)
LEMMA EndKept ==
  ASSUME ReadInv, BodyRead \/ LastChunk \/ EndOfFile \/ ReadError
  PROVE  ReadInv'
<1>1. HttpType /\ BodyInv /\ resp \in Reply
  BY DEF ReadInv, HttpType
<1>2. ASSUME NEW res \in Int, NEW unread, BodyEnds(res, unread),
             unread \notin {"length", "chunked", "late"},
             res # 0 \/ resp.contlen = -1 \/ sum_read <= resp.contlen
      PROVE  ReadInv'
  <2>1. EndRule(unread) /\ hs'.res = res
    BY <1>1, <1>2, EndWays
  <2>2. /\ name \in 0 .. MaxName /\ (AllowClobber => name = 0)
        /\ count \in Nat /\ tmr \in Int
        /\ hs.len \in Nat /\ hs.restval \in Nat /\ resp.contrange \in Nat
        /\ resp.contlen \in Nat \cup {-1} /\ sum_read \in Nat
    BY <1>1 DEF HttpType, Stat, Reply
  <2>3. HttpType'
    BY <1>1, <2>1, <2>2, TypeKept DEF EndRule, loopVars, worldVars
  <2>4. BodyInv' /\ KeptConnectionDrained'
    BY <1>2, <2>1 DEF EndRule, BodyInv, KeptConnectionDrained
  <2>5. JudgeInv'
    BY <1>1, <1>2, <2>1, <2>2 DEF EndRule, SameAnswer, BodyInv, JudgeInv
  <2>6. NeverAborts'
    BY <2>1 DEF EndRule, NeverAborts, ReadInv
  <2> QED
    BY <2>3, <2>4, <2>5, <2>6 DEF ReadInv
<1>3. CASE BodyRead
  <2> DEFINE res == IF resp.contlen = 0 THEN 0 ELSE 1
             unread == IF resp.framing = "chunked" THEN "tail" ELSE CloseFinish(resp, sum_read)
  <2>1. /\ at = "body" /\ sum_read >= resp.contlen /\ resp.contlen # -1
        /\ BodyEnds(res, unread)
    BY <1>3 DEF BodyRead, BodyEnds, exact
  <2>2. resp.framing # "chunked" => sum_read = Len(resp.body)
    BY <1>1, <2>1 DEF BodyInv, HttpType, Reply
  <2>3. unread \notin {"length", "chunked", "late"} /\ res \in Int
    BY <1>1, <2>2 DEF CloseFinish, Reply
  <2>4. res # 0 \/ resp.contlen = -1 \/ sum_read <= resp.contlen
    BY <1>1, <2>1 DEF BodyInv
  <2> HIDE DEF res, unread
  <2> QED
    BY <1>2, <2>1, <2>3, <2>4
<1>4. CASE LastChunk
  <2>1. PICK unread \in AfterChunks : BodyEnds(0, unread)
    BY <1>4, Zenon DEF LastChunk
  <2>2. 0 \in Int /\ unread \notin {"length", "chunked", "late"} /\ resp.contlen = -1
    BY <1>4, <2>1 DEF AfterChunks, LastChunk, exact
  <2> QED
    BY <1>2, <2>1, <2>2, Zenon
<1>5. CASE EndOfFile
  <2>1. 0 \in Int /\ "closed" \notin {"length", "chunked", "late"}
    OBVIOUS
  <2>2. resp.contlen = -1 \/ sum_read <= resp.contlen
    BY <1>1, <1>5 DEF EndOfFile, More, exact, HttpType, Reply
  <2> QED
    BY <1>2, <1>5, <2>1, <2>2, Zenon DEF EndOfFile
<1>6. CASE ReadError
  <2> DEFINE res == -1
  <2>1. /\ res \in Int /\ res # 0 /\ "closed" \notin {"length", "chunked", "late"}
        /\ BodyEnds(res, "closed")
    BY <1>6 DEF ReadError
  <2> HIDE DEF res
  <2> QED
    BY <1>2, <2>1, Zenon
<1> QED
  BY <1>3, <1>4, <1>5, <1>6

\* What http_loop begins with, where it goes on.
BeginRule ==
  /\ hs' \in Stat /\ hs'.restval = 0 /\ hs'.len = 0 /\ hs'.remote_time = NoTime
  /\ hs'.orig = NoFile \/ (opts.timestamping /\ hs'.orig = fs[name'])
  /\ hs'.existence_checked = FALSE
  /\ at' = "try" /\ count' = 0 /\ tmr' = NoTime
  /\ got_head' = FALSE /\ force_full_retrieve' = FALSE
  /\ opts.spider => send_head_first'
  /\ UNCHANGED <<ret, how>>

(* The two ways in which http_loop begins.                                  *)
LEMMA BeginWays ==
  ASSUME HttpType, Begin
  PROVE  /\ name' \in 0 .. MaxName /\ (AllowClobber => name' = 0)
         /\ ~AllowClobber => ~Exists(name')
         /\ UNCHANGED <<pconn, readVars, fs, worldVars, err, RETROKF>>
         /\ \/ /\ Exists(name') /\ opts.noclobber
               /\ ret' = "RETROK" /\ how' = "present" /\ at' = "done"
               /\ UNCHANGED <<hs, count, tmr, force_full_retrieve>>
            \/ ~(Exists(name') /\ opts.noclobber) /\ BeginRule
<1> DEFINE n == IF AllowClobber THEN 0 ELSE Unique
           old == fs[n].mtime # -1
           cond == opts.timestamping /\ opts.if_modified_since /\ ~opts.spider /\ old
           o == IF cond THEN fs[n] ELSE NoFile
           h == [NoStat EXCEPT !.orig = o, !.timestamp_checked = cond]
<1>1. name' = n /\ (AllowClobber \/ FreeName)
  BY Zenon DEF Begin
<1>2. n \in 0 .. MaxName /\ (AllowClobber => n = 0) /\ (~AllowClobber => ~Exists(n))
  BY <1>1, HttpAssumption, UniqueIsFree
<1>3. UNCHANGED <<pconn, readVars, fs, worldVars, err, RETROKF>>
  BY Zenon DEF Begin
<1>4. \/ /\ old /\ opts.noclobber
         /\ ret' = "RETROK" /\ how' = "present" /\ at' = "done"
         /\ UNCHANGED <<hs, count, tmr, force_full_retrieve>>
      \/ /\ ~(old /\ opts.noclobber)
         /\ at' = "try" /\ count' = 0 /\ tmr' = NoTime /\ hs' = h
         /\ got_head' = FALSE /\ force_full_retrieve' = FALSE
         /\ send_head_first' = (opts.spider \/ (opts.timestamping /\ old /\ ~cond))
         /\ UNCHANGED <<ret, how>>
  BY Zenon DEF Begin, Finish
<1>5. old <=> Exists(name')
  BY <1>1 DEF Exists
<1>6. /\ h \in Stat /\ h.restval = 0 /\ h.len = 0 /\ h.remote_time = NoTime
      /\ h.orig = o /\ h.existence_checked = FALSE
  <2>1. /\ NoStat \in Stat /\ NoStat.restval = 0 /\ NoStat.len = 0
        /\ NoStat.remote_time = NoTime /\ NoStat.existence_checked = FALSE
    BY NoStatType DEF NoStat
  <2>2. o \in Stored /\ cond \in BOOLEAN
    BY <1>2, NoStatType, Zenon DEF HttpType, Stat
  <2> HIDE DEF o, cond, NoStat
  <2>3. h \in Stat
    BY <2>1, <2>2, Zenon DEF Stat
  <2>4. /\ h.restval = NoStat.restval /\ h.len = NoStat.len
        /\ h.remote_time = NoStat.remote_time
        /\ h.orig = o /\ h.existence_checked = NoStat.existence_checked
    BY <2>1, <2>2, Zenon DEF Stat
  <2> QED
    BY <2>1, <2>3, <2>4, Zenon
<1>7. o = NoFile \/ (opts.timestamping /\ o = fs[name'])
  BY <1>1, Zenon
<1> HIDE DEF o, h, n, cond
<1> QED
  BY <1>1, <1>2, <1>3, <1>4, <1>5, <1>6, <1>7 DEF BeginRule

(* http_loop begins.                                                        *)
LEMMA BeginKept ==
  ASSUME ReadInv, Begin
  PROVE  ReadInv'
<1>1. HttpType
  BY DEF ReadInv
<1>2. /\ name' \in 0 .. MaxName /\ (AllowClobber => name' = 0)
      /\ UNCHANGED <<pconn, readVars, fs, worldVars>>
  BY <1>1, BeginWays
<1>3. \/ /\ ret' = "RETROK" /\ at' = "done"
         /\ UNCHANGED <<hs, count, tmr>>
      \/ BeginRule
  BY <1>1, BeginWays
<1>4. NoTime \in Int
  BY DEF NoTime
<1>5. /\ hs' \in Stat /\ count' \in Nat /\ tmr' \in Int /\ at' \in {"try", "done"}
      /\ resp' \in Reply /\ sum_read' \in Nat /\ skip' \in Nat
  BY <1>1, <1>2, <1>3, <1>4 DEF BeginRule, HttpType, readVars
<1>6. HttpType'
  BY <1>1, <1>2, <1>5, TypeKept DEF worldVars
<1>7. BodyInv' /\ JudgeInv'
  BY <1>5 DEF BodyInv, JudgeInv
<1>8. KeptConnectionDrained'
  BY <1>2, <1>5 DEF KeptConnectionDrained, ReadInv, worldVars, Begin
<1>9. NeverAborts'
  BY <1>3 DEF NeverAborts, BeginRule, ReadInv
<1> QED
  BY <1>6, <1>7, <1>8, <1>9 DEF ReadInv

\* What a pass of the loop begins with.
TryRule ==
  /\ hs' \in Stat /\ hs'.restval = Restart /\ hs'.len = 0 /\ hs'.contlen = -1
  /\ hs'.remote_time = NoTime /\ hs'.orig = hs.orig
  /\ hs'.existence_checked = hs.existence_checked

(* restval is set once for each try.                                        *)
LEMMA TryWays ==
  ASSUME HttpType, Try
  PROVE  TryRule
<1> DEFINE m == -1
           v == Restart
           h == [hs EXCEPT !.restval = v, !.len = 0, !.contlen = m, !.res = m,
                           !.remote_time = NoTime, !.newloc = FALSE, !.statcode = 0]
<1>1. /\ hs \in Stat /\ hs.len \in Nat /\ hs.restval \in Nat
      /\ Len(fs[name].data) \in Nat
  BY DEF HttpType, Stat, Stored
<1>2. v \in Nat
  BY <1>1 DEF Restart
<1>3. hs' = h
  BY Zenon DEF Try
<1>4. m \in Nat \cup {-1} /\ m \in Int /\ NoTime \in Int /\ 0 \in Nat /\ FALSE \in BOOLEAN
  BY DEF NoTime
<1> HIDE DEF m, v
<1>5. h \in Stat
  BY <1>1, <1>2, <1>4, Zenon DEF Stat
<1>6. h.restval = v /\ h.len = 0 /\ h.contlen = m /\ h.remote_time = NoTime
  BY <1>1, Zenon DEF Stat
<1>7. h.orig = hs.orig /\ h.existence_checked = hs.existence_checked
  BY <1>1, Zenon DEF Stat
<1> HIDE DEF h
<1> QED
  BY <1>3, <1>5, <1>6, <1>7 DEF TryRule, m, v

(* The way to an answer, and the world outside.                             *)
LEMMA ConnectKept ==
  ASSUME ReadInv, Try \/ Connect \/ NoReply \/ Interim \/ ServerChanges \/ FileSpringsUp
  PROVE  ReadInv'
<1>1. /\ HttpType /\ hs \in Stat /\ resp \in Reply /\ sum_read \in Nat /\ skip \in Nat
      /\ count \in Nat /\ tmr \in Int
      /\ name \in 0 .. MaxName /\ (AllowClobber => name = 0)
  BY DEF ReadInv, HttpType
<1>2. CASE Try
  <2>1. hs' \in Stat
    BY <1>1, <1>2, TryWays DEF TryRule
  <2>2. /\ UNCHANGED <<opts, version, fs, resp, sum_read, skip, tmr, name, pconn, ret>>
        /\ count' = count + 1 /\ at = "try" /\ at' = "connect"
    BY <1>2, Zenon DEF Try, readVars, worldVars
  <2>3. HttpType'
    <3>1. count' \in Nat
      BY <1>1, <2>2
    <3> QED
      BY <1>1, <2>1, <2>2, <3>1, TypeKept
  <2> QED
    BY <2>2, <2>3 DEF ReadInv, BodyInv, JudgeInv, NeverAborts, KeptConnectionDrained
<1>3. CASE Connect
  <2>1. /\ UNCHANGED <<opts, version, fs, resp, sum_read, skip, tmr, name, count, hs, ret>>
        /\ at = "connect"
        /\ at' = "reply" \/ (at' = "judge" /\ err' \in {"CONERROR", "HOSTERR"})
        /\ pconn' = "closed"
    BY <1>3 DEF Connect, readVars, worldVars, loopVars
  <2>2. HttpType'
    BY <1>1, <2>1, TypeKept
  <2> QED
    BY <2>1, <2>2 DEF ReadInv, BodyInv, JudgeInv, NeverAborts, KeptConnectionDrained
<1>4. CASE NoReply
  <2>1. /\ UNCHANGED <<opts, version, fs, resp, sum_read, skip, tmr, name, count, hs, ret>>
        /\ at' = "judge" /\ err' = "HEOF" /\ pconn' = "closed"
    BY <1>4 DEF NoReply, readVars, worldVars, loopVars
  <2>2. HttpType'
    BY <1>1, <2>1, TypeKept
  <2> QED
    BY <2>1, <2>2 DEF ReadInv, BodyInv, JudgeInv, NeverAborts, KeptConnectionDrained
<1>5. CASE ServerChanges
  <2>1. /\ UNCHANGED <<opts, fs, resp, sum_read, skip, tmr, name, count, hs, ret, at, pconn>>
        /\ at = "connect"
        /\ version' = version + 1 /\ version + 1 \in Version
    BY <1>5 DEF ServerChanges, readVars, loopVars
  <2>2. version' > 0
    BY <1>1, <2>1, EntityBytes DEF HttpType
  <2>3. HttpType'
    BY <1>1, <2>1, <2>2 DEF HttpType, AllowClobber, Exists
  <2> QED
    BY <2>1, <2>3 DEF ReadInv, BodyInv, JudgeInv, NeverAborts, KeptConnectionDrained
<1>6. CASE FileSpringsUp
  <2> DEFINE s == [data |-> <<Foreign>>, mtime |-> Now]
  <2>1. /\ UNCHANGED <<opts, version, resp, sum_read, skip, tmr, name, count, hs, ret, at, pconn>>
        /\ at = "connect" /\ fs' = [fs EXCEPT ![name] = s]
    BY <1>6 DEF FileSpringsUp, readVars, worldVars, loopVars
  <2>2. s \in Stored /\ s.mtime # -1
    BY NowType DEF Stored, Foreign, Byte
  <2> HIDE DEF s
  <2>3. HttpType'
    BY <1>1, <2>1, <2>2, TypeKeptWriting
  <2> QED
    BY <2>1, <2>3 DEF ReadInv, BodyInv, JudgeInv, NeverAborts, KeptConnectionDrained
<1>7. CASE Interim
  <2>1. /\ UNCHANGED <<opts, version, fs, resp, sum_read, skip, tmr, name, count, hs, ret, pconn>>
        /\ at' \in {"reply", "repeat"}
    BY <1>7 DEF Interim, readVars, worldVars, loopVars
  <2>2. HttpType'
    BY <1>1, <2>1, TypeKept
  <2> QED
    BY <2>1, <2>2 DEF ReadInv, BodyInv, JudgeInv, NeverAborts, KeptConnectionDrained
<1> QED
  BY <1>2, <1>3, <1>4, <1>5, <1>6, <1>7

(* hstat, when a step of http_loop goes on or leaves.                       *)
LEMMA FreedType ==
  ASSUME NEW h \in Stat, FreeHstat(h)
  PROVE  hs' \in Stat /\ (at' = "try" => hs' = h)
BY NoStatType DEF FreeHstat

(* The time of touch.                                                       *)
LEMMA TouchedTime ==
  ASSUME HttpType
  PROVE  /\ FirstTime \in Int
         /\ \/ Touched = fs
            \/ /\ Exists(name)
               /\ \E t \in Int : /\ t # -1 /\ t \in {hs.remote_time, tmr}
                                 /\ Touched = [fs EXCEPT ![name] =
                                                 [data |-> fs[name].data, mtime |-> t]]
<1>1. hs.remote_time \in Int /\ tmr \in Int /\ fs \in [0 .. MaxName -> Stored] /\ name \in 0 .. MaxName
  BY DEF HttpType, Stat
<1>2. FirstTime \in Int /\ FirstTime \in {hs.remote_time, tmr}
  BY <1>1 DEF FirstTime
<1> DEFINE u == IF send_head_first /\ tmr # NoTime /\ hs.remote_time # NoTime
                THEN hs.remote_time ELSE FirstTime
           P == /\ FirstTime # NoTime /\ Exists(name)
                /\ hs.len = hs.contlen \/ (hs.res = 0 /\ hs.contlen = -1)
<1>3. Touched = IF P THEN [fs EXCEPT ![name] = [data |-> fs[name].data, mtime |-> u]] ELSE fs
  BY Zenon DEF Touched
<1>4. ASSUME P
      PROVE  u \in Int /\ u # -1 /\ u \in {hs.remote_time, tmr}
  BY <1>1, <1>2, <1>4 DEF NoTime
<1> HIDE DEF u
<1> QED
  BY <1>2, <1>3, <1>4, Zenon

(* Counting a try, or giving up.                                            *)
LEMMA AgainFacts ==
  ASSUME Again(count)
  PROVE  /\ count' = count
         /\ \/ at' = "try" /\ UNCHANGED <<ret, how>>
            \/ at' = "done" /\ ret' = "TRYLIMEXC" /\ how' = "none"
BY DEF Again, Finish

(* http_loop after gethttp, where no file is touched.                       *)
LEMMA SwitchKept ==
  ASSUME ReadInv, SwitchRetry \/ SwitchLeave \/ SwitchRedirect \/ JudgeStatus
  PROVE  ReadInv'
<1>1. HttpType /\ hs \in Stat /\ count \in Nat /\ tmr \in Int /\ ret # "abort"
  BY DEF ReadInv, HttpType, NeverAborts
<1>2. ASSUME Judged, UNCHANGED <<name, fs, count, tmr>>, FreeHstat(hs),
             at' \in {"try", "retrieve", "done"}, ret' # "abort"
      PROVE  ReadInv'
  <2>1. hs' \in Stat /\ count' \in Nat /\ tmr' \in Int
    BY <1>1, <1>2, FreedType
  <2>2. HttpType'
    BY <1>1, <1>2, <2>1, JudgedType
  <2> QED
    BY <1>2, <2>2, JudgedKept
<1>3. CASE SwitchRetry
  <2>1. Again(count) /\ Judged /\ FreeHstat(hs) /\ UNCHANGED <<name, fs, tmr>>
    BY <1>3 DEF SwitchRetry
  <2> QED
    BY <1>1, <1>2, <2>1, AgainFacts
<1>4. CASE SwitchLeave
  <2>1. Judged /\ FreeHstat(hs) /\ UNCHANGED <<name, fs, count, tmr>>
    BY <1>4 DEF SwitchLeave
  <2>2. at' = "done" /\ ret' # "abort"
    BY <1>4 DEF SwitchLeave, Finish, Fatal
  <2> QED
    BY <1>2, <2>1, <2>2
<1>5. CASE SwitchRedirect
  <2>1. Judged /\ FreeHstat(hs) /\ UNCHANGED <<name, fs, count, tmr>>
    BY <1>5, Zenon DEF SwitchRedirect
  <2>2. at' \in {"done", "retrieve"} /\ ret' # "abort"
    BY <1>1, <1>5 DEF SwitchRedirect, Finish
  <2> QED
    BY <1>2, <2>1, <2>2
<1>6. CASE JudgeStatus
  <2>1. Judged /\ FreeHstat(hs) /\ UNCHANGED <<name, fs, tmr>>
    BY <1>6, Zenon DEF JudgeStatus
  <2>2. Again(count) \/ (UNCHANGED count /\ Finish("WRONGCODE", "none"))
    BY <1>6, Zenon DEF JudgeStatus
  <2>3. UNCHANGED count /\ at' \in {"try", "done"} /\ ret' # "abort"
    BY <1>1, <2>2, AgainFacts DEF Finish
  <2> QED
    BY <1>2, <2>1, <2>3
<1> QED
  BY <1>3, <1>4, <1>5, <1>6

\* How a HEAD is judged.
HeadRule ==
  /\ got_head' = TRUE /\ tmr' = FirstTime
  /\ force_full_retrieve' => force_full_retrieve \/ opts.timestamping
  /\ hs' \in Stat
  /\ \/ /\ at' = "done" /\ ret' = "RETROK" /\ UNCHANGED <<count, force_full_retrieve>>
        /\ how' = IF hs.contlen = -1 THEN "unsized" ELSE "unneeded"
        /\ opts.timestamping /\ hs.orig # NoFile /\ hs.remote_time # NoTime
        /\ hs.orig.mtime >= hs.remote_time
        /\ hs.contlen \in {-1, Len(hs.orig.data)}
     \/ at' = "done" /\ ret' = "RETROK" /\ how' = "spider" /\ UNCHANGED count
     \/ /\ at' = "try" /\ UNCHANGED <<ret, how>> /\ count' = 0
        /\ hs'.restval = hs.restval /\ hs'.len = hs.len /\ hs'.orig = hs.orig
        /\ hs'.contlen = hs.contlen /\ hs'.remote_time = hs.remote_time
        /\ hs'.existence_checked = hs.existence_checked
        /\ ~opts.spider

(* What follows a HEAD.                                                     *)
LEMMA HeadWays ==
  ASSUME HttpType, JudgeHead
  PROVE  HeadRule
<1> DEFINE dated == opts.timestamping /\ hs.orig # NoFile /\ hs.remote_time # NoTime
           current == hs.orig.mtime >= hs.remote_time
           same == hs.contlen \in {-1, Len(hs.orig.data)}
           b == hs.timestamp_checked \/ opts.timestamping
           h == [hs EXCEPT !.timestamp_checked = b]
<1>1. hs \in Stat /\ b \in BOOLEAN
  BY DEF HttpType, Stat
<1>2. FreeHstat(h) /\ got_head' = TRUE /\ tmr' = FirstTime
  BY Zenon DEF JudgeHead
<1>3. \/ /\ dated /\ current /\ same
         /\ Finish("RETROK", IF hs.contlen = -1 THEN "unsized" ELSE "unneeded")
         /\ UNCHANGED <<count, force_full_retrieve>>
      \/ /\ force_full_retrieve' = (force_full_retrieve \/ (dated /\ ~current))
         /\ opts.spider /\ Finish("RETROK", "spider") /\ UNCHANGED count
      \/ /\ force_full_retrieve' = (force_full_retrieve \/ (dated /\ ~current))
         /\ ~opts.spider
         /\ count' = 0 /\ at' = "try"
         /\ UNCHANGED <<ret, how>>
  BY Zenon DEF JudgeHead
<1> HIDE DEF b
<1>4. h \in Stat
  BY <1>1, Zenon DEF Stat
<1>5. /\ h.restval = hs.restval /\ h.len = hs.len /\ h.orig = hs.orig
      /\ h.contlen = hs.contlen
  BY <1>1, Zenon DEF Stat
<1>6. h.remote_time = hs.remote_time /\ h.existence_checked = hs.existence_checked
  BY <1>1, Zenon DEF Stat
<1> HIDE DEF h
<1>7. hs' \in Stat /\ (at' = "try" => hs' = h)
  BY <1>2, <1>4, FreedType
<1> QED
  BY <1>2, <1>3, <1>5, <1>6, <1>7 DEF HeadRule, Finish

(* http_loop after a HEAD.                                                  *)
LEMMA HeadKept ==
  ASSUME ReadInv, JudgeHead
  PROVE  ReadInv'
<1>1. HttpType /\ HeadRule /\ count \in Nat /\ ret # "abort"
  BY HeadWays DEF ReadInv, HttpType, NeverAborts
<1>2. Judged /\ UNCHANGED <<name, fs>>
  BY Zenon DEF JudgeHead
<1>3. FirstTime \in Int
  BY <1>1, TouchedTime
<1>4. /\ hs' \in Stat /\ count' \in Nat /\ tmr' \in Int
      /\ at' \in {"try", "retrieve", "done"} /\ ret' # "abort"
  BY <1>1, <1>3 DEF HeadRule
<1>5. HttpType'
  BY <1>1, <1>2, <1>4, JudgedType
<1> QED
  BY <1>2, <1>4, <1>5, JudgedKept

\* How the end of a body is judged.
BodyRule ==
  /\ Judged /\ UNCHANGED <<name, count>> /\ fs' = Touched /\ tmr' = FirstTime
  /\ err = "RETRFINISHED" /\ RETROKF /\ ~HeadJudged
  /\ hs' \in Stat
  /\ \/ at' = "try" /\ UNCHANGED <<hs, fs, ret, how>>
     \/ /\ at' = "done" /\ ret' = "RETROK" /\ how' = "saved"
        /\ hs.len = hs.contlen
     \/ at' = "done" /\ ret' = "RETROK" /\ how' \in {"unsized", "longer"}
     \/ at' = "done" /\ ret' = "TRYLIMEXC"

(* The abort is out of reach.                                               *)
LEMMA BodyWays ==
  ASSUME ReadInv, JudgeBody
  PROVE  BodyRule
<1>1. /\ HttpType /\ hs \in Stat /\ hs.contlen \in Nat \cup {-1} /\ hs.len \in Nat
      /\ hs.restval \in Nat
  BY DEF ReadInv, HttpType, Stat
<1>2. /\ Judged /\ UNCHANGED name /\ fs' = Touched /\ tmr' = FirstTime
      /\ err = "RETRFINISHED" /\ RETROKF /\ ~HeadJudged /\ FreeHstat(hs)
  BY Zenon DEF JudgeBody
<1>3. hs' \in Stat /\ (at' = "try" => hs' = hs)
  BY <1>1, <1>2, FreedType
<1>4. hs.contlen = -1 \/ hs.len <= hs.contlen \/ hs.len = hs.restval \/ hs.res # 0
  BY <1>2 DEF ReadInv, JudgeInv, Judged
<1>5. CASE hs.len = hs.contlen /\ Finish("RETROK", "saved") /\ UNCHANGED count
  BY <1>2, <1>3, <1>5 DEF BodyRule, Finish
<1>6. CASE Finish("RETROK", "unsized") /\ UNCHANGED count
  BY <1>2, <1>3, <1>6 DEF BodyRule, Finish
<1>7. CASE hs.len # hs.contlen /\ (hs.res # 0 \/ hs.contlen # -1) /\ Again(count)
  <2>1. fs' = fs
    BY <1>2, <1>7 DEF Touched
  <2> QED
    BY <1>2, <1>3, <1>7, <2>1, AgainFacts DEF BodyRule
<1>8. CASE /\ hs.res = 0 /\ hs.contlen # -1 /\ hs.len > hs.contlen
           /\ IF hs.len # hs.restval THEN Finish("abort", "none")
              ELSE Finish("RETROK", "longer")
           /\ UNCHANGED count
  <2>1. Finish("RETROK", "longer")
    BY <1>1, <1>4, <1>8
  <2> QED
    BY <1>2, <1>3, <1>8, <2>1 DEF BodyRule, Finish
<1>9. hs.len < hs.contlen => hs.len # hs.contlen
  BY <1>1
<1> QED
  BY <1>5, <1>6, <1>7, <1>8, <1>9 DEF JudgeBody

(* http_loop after a body.                                                  *)
LEMMA BodyKept ==
  ASSUME ReadInv, JudgeBody
  PROVE  ReadInv'
<1>1. BodyRule /\ HttpType
  BY BodyWays DEF ReadInv
<1>2. FirstTime \in Int
  BY <1>1, TouchedTime
<1>3. /\ count \in Nat /\ resp \in Reply /\ sum_read \in Nat /\ skip \in Nat
      /\ name \in 0 .. MaxName /\ (AllowClobber => name = 0) /\ ret # "abort"
  BY <1>1 DEF ReadInv, HttpType, NeverAborts
<1>4. /\ hs' \in Stat /\ count' \in Nat /\ tmr' \in Int /\ name' = name
      /\ at' \in {"try", "retrieve", "done"} /\ ret' # "abort" /\ Judged
      /\ UNCHANGED <<opts, version>> /\ resp' \in Reply /\ sum_read' \in Nat /\ skip' \in Nat
  BY <1>1, <1>2, <1>3 DEF BodyRule, Judged, worldVars, readVars
<1>5. HttpType'
  <2>1. CASE Touched = fs
    <3>1. fs' = fs
      BY <1>1, <2>1 DEF BodyRule
    <3> QED
      BY <1>1, <1>3, <1>4, <3>1, JudgedType
  <2>2. ASSUME NEW t \in Int, t # -1,
               Touched = [fs EXCEPT ![name] = [data |-> fs[name].data, mtime |-> t]]
        PROVE  HttpType'
    <3> DEFINE s == [data |-> fs[name].data, mtime |-> t]
    <3>1. s \in Stored /\ s.mtime # -1
      BY <1>1, <1>3, <2>2 DEF HttpType, Stored
    <3>2. fs' = [fs EXCEPT ![name] = s]
      BY <1>1, <2>2 DEF BodyRule
    <3> HIDE DEF s
    <3> QED
      BY <1>1, <1>3, <1>4, <3>1, <3>2, TypeKeptWriting
  <2> QED
    BY <1>1, <2>1, <2>2, TouchedTime, Zenon
<1> QED
  BY <1>4, <1>5, JudgedKept

(* Every step keeps ReadInv.                                                *)
LEMMA ReadStep ==
  ASSUME ReadInv, [HttpNext]_httpVars
  PROVE  ReadInv'
<1>1. CASE UNCHANGED httpVars
  <2>1. UNCHANGED <<opts, version, at, hs, resp, fs, name, count, sum_read, skip, tmr, err, ret,
                    pconn, RETROKF>>
    BY <1>1 DEF httpVars, worldVars, readVars, loopVars
  <2>2. HttpType'
    BY <2>1 DEF ReadInv, HttpType, AllowClobber, Exists
  <2>3. BodyInv' /\ JudgeInv' /\ NeverAborts' /\ KeptConnectionDrained'
    BY <2>1 DEF ReadInv, BodyInv, JudgeInv, NeverAborts, KeptConnectionDrained
  <2> QED
    BY <2>2, <2>3 DEF ReadInv
<1>2. ASSUME NEW r \in Answers, Answer(r) PROVE ReadInv'
  <2>1. Sound(r) /\ r \in Reply /\ HttpType
    BY AnswersSound DEF ReadInv, Sound
  <2>2. CASE OpenOutput(r)
    <3>1. Opened(r) \/ OpenFails(r)
      BY <2>1, <2>2, OpenOutputWays
    <3>2. CASE OpenFails(r)
      <4>1. Heard(r) /\ UNCHANGED <<readVars, fs>> /\ hs' \in Stat /\ Go(r)
            /\ at' = "judge" /\ err' = "FOPENERR" /\ pconn' = "closed"
        BY <3>2 DEF OpenFails, SizedRule, Wanted, Go, Return
      <4>2. name' \in 0 .. MaxName /\ (AllowClobber => name' = 0)
        BY <2>1, <4>1, GoFacts
      <4>3. KeptConnectionDrained'
        BY <4>1 DEF KeptConnectionDrained
      <4> QED
        BY <4>1, <4>2, <4>3, NotReadKept DEF Heard, readVars
    <3> QED
      BY <2>1, <3>1, <3>2, OpenKept
  <2> QED
    BY <1>2, <2>1, <2>2, AnswerKept DEF Answer
<1> QED
  BY <1>1, <1>2, BeginKept, ConnectKept, ReadKept, EndKept, SwitchKept, HeadKept, BodyKept
  DEF HttpNext, Wget

(* A file that is there at the beginning.                                   *)
LEMMA StartType ==
  ASSUME NEW s \in Starts
  PROVE  /\ s \in Stored
         /\ s.mtime = -1 => s.data = <<>>
         /\ s.mtime >= 1 => Ordered(s.data)
<1>1. 0 \in Version /\ 1 \in Version /\ Now \in Nat /\ Now >= 1
  BY NowType, HttpAssumption
<1>2. CASE s = NoFile
  BY <1>2 DEF NoFile, Stored
<1>3. CASE s = [data |-> Entity(0), mtime |-> 0]
  <2>1. Entity(0) \in Seq(Byte)
    BY <1>1, EntityBytes
  <2> QED
    BY <1>3, <2>1 DEF Stored
<1>4. ASSUME NEW k \in 1 .. Size[1], s = [data |-> SubSeq(Entity(1), 1, k), mtime |-> Now]
      PROVE  s \in Stored /\ s.mtime >= 1 /\ Ordered(s.data)
  <2> DEFINE e == Entity(1)
             n == Size[1]
  <2>1. /\ e \in Seq(Byte) /\ Len(e) = n /\ n \in Nat
        /\ \A i \in 1 .. n : e[i] = <<1, i>>
    BY <1>1, EntityBytes
  <2>2. k \in 1 .. n
    OBVIOUS
  <2> HIDE DEF e, n
  <2>3. /\ SubSeq(e, 1, k) \in Seq(Byte) /\ Len(SubSeq(e, 1, k)) = k
        /\ \A i \in 1 .. k : SubSeq(e, 1, k)[i] = e[i]
    BY <2>1, <2>2
  <2> DEFINE d == SubSeq(e, 1, k)
  <2>4. d \in Seq(Byte) /\ Len(d) = k /\ k <= n /\ \A i \in 1 .. k : d[i] = <<1, i>>
    BY <2>1, <2>2, <2>3
  <2>5. Ordered(d)
    BY <2>4 DEF Ordered, n
  <2>6. s = [data |-> d, mtime |-> Now]
    BY <1>4 DEF e
  <2> HIDE DEF d
  <2> QED
    BY <1>1, <2>4, <2>5, <2>6 DEF Stored
<1>5. \/ s = NoFile \/ s = [data |-> Entity(0), mtime |-> 0]
      \/ \E k \in 1 .. Size[1] : s = [data |-> SubSeq(Entity(1), 1, k), mtime |-> Now]
  BY DEF Starts
<1>6. CASE \E k \in 1 .. Size[1] : s = [data |-> SubSeq(Entity(1), 1, k), mtime |-> Now]
  <2>1. s \in Stored /\ s.mtime >= 1 /\ Ordered(s.data)
    BY <1>4, <1>6, Zenon
  <2> QED
    BY <2>1 DEF Stored
<1> QED
  BY <1>2, <1>3, <1>5, <1>6

(* ReadInv holds at the beginning.                                          *)
LEMMA ReadBegins == HttpInit => ReadInv
<1> SUFFICES ASSUME HttpInit PROVE ReadInv
  OBVIOUS
<1>1. 1 \in Version /\ NoTime \in Int /\ MaxName \in Nat /\ NoFile \in Stored
  BY NowType, NoStatType, HttpAssumption DEF NoTime, NoFile, Stored
<1>2. was \in Stored /\ (was.mtime = -1 => was.data = <<>>)
  BY StartType DEF HttpInit
<1>3. fs = [n \in 0 .. MaxName |-> IF n = 0 THEN was ELSE NoFile]
  BY DEF HttpInit
<1>4. fs \in [0 .. MaxName -> Stored]
  BY <1>1, <1>2, <1>3
<1>5. \A n \in 0 .. MaxName : ~Exists(n) => fs[n].data = <<>>
  BY <1>1, <1>2, <1>3 DEF Exists, NoFile
<1>6. HttpType
  BY <1>1, <1>4, <1>5, NoStatType DEF HttpInit, HttpType
<1>7. BodyInv /\ JudgeInv /\ NeverAborts /\ KeptConnectionDrained
  BY DEF HttpInit, BodyInv, JudgeInv, NeverAborts, KeptConnectionDrained
<1> QED
  BY <1>6, <1>7 DEF ReadInv

(* wget reads a body without losing count of it: on every run, ReadInv.     *)
THEOREM ReadInvHolds == HttpSpec => []ReadInv
BY ReadBegins, ReadStep, PTL DEF HttpSpec

(* The abort () of http_loop is never reached, for any sizes, any number of *)
(* tries and redirections and any options: what was read and skipped of a   *)
(* body always adds up to what its range and its length announced.          *)
THEOREM NeverAbortsHolds == HttpSpec => []NeverAborts
<1>1. ReadInv => NeverAborts
  BY DEF ReadInv
<1> QED
  BY <1>1, ReadInvHolds, PTL

(* gethttp keeps a connection with an answer of known end only when it has  *)
(* read that answer to its end, or with -nc.                                *)
THEOREM KeptConnectionDrainedHolds == HttpSpec => []KeptConnectionDrained
<1>1. ReadInv => KeptConnectionDrained
  BY DEF ReadInv
<1> QED
  BY <1>1, ReadInvHolds, PTL

-----------------------------------------------------------------------------
(* A continued file                                                        *)

(* What comes before an answer comes from few steps, and the options stay.  *)
LEMMA FewSteps ==
  ASSUME ReadInv, HttpNext
  PROVE  /\ UNCHANGED <<opts, was>>
         /\ force_full_retrieve' => force_full_retrieve \/ opts.timestamping
         /\ at # "done" /\ (at' = "done" \/ UNCHANGED ret)
         /\ \/ Try \/ Connect \/ Interim \/ ServerChanges \/ FileSpringsUp
            \/ \E r \in Answers : Unauthorized(r)
            \/ at' \notin {"connect", "reply", "repeat"}
<1>1. HttpType
  BY DEF ReadInv
<1>2. CASE Begin
  <2>1. \/ at' = "done" /\ UNCHANGED force_full_retrieve
        \/ BeginRule
    BY <1>1, <1>2, BeginWays
  <2>2. UNCHANGED worldVars /\ at = "retrieve"
    BY <1>2, Zenon DEF Begin
  <2> QED
    BY <2>1, <2>2 DEF BeginRule, worldVars
<1>3. CASE Try \/ Connect \/ NoReply \/ Interim \/ ServerChanges \/ FileSpringsUp
  <2>1. UNCHANGED <<opts, was, force_full_retrieve>>
    BY <1>3, Zenon DEF Try, Connect, NoReply, Interim, ServerChanges, FileSpringsUp, worldVars,
      loopVars
  <2>2. NoReply => at' = "judge"
    BY Zenon DEF NoReply
  <2>3. at \in {"try", "connect", "reply", "repeat"} /\ UNCHANGED ret
    BY <1>3, Zenon DEF Try, Connect, NoReply, Interim, ServerChanges, FileSpringsUp
  <2> QED
    BY <1>3, <2>1, <2>2, <2>3
<1>4. ASSUME NEW r \in Answers, Answer(r)
      PROVE  /\ UNCHANGED <<opts, was, force_full_retrieve, ret>> /\ at = "reply"
             /\ Unauthorized(r) \/ at' \in {"judge", "body"}
  <2>1. Heard(r)
    <3>1. Unauthorized(r) \/ FileAppeared(r) => Heard(r)
      BY Zenon DEF Unauthorized, FileAppeared
    <3>2. NoContent(r) \/ Redirected(r) \/ NotModified(r) \/ StillCurrent(r) => Heard(r)
      BY Zenon DEF NoContent, Redirected, NotModified, StillCurrent, Go
    <3>3. AlreadyRetrieved(r) \/ RangeError(r) => Heard(r)
      BY Zenon DEF AlreadyRetrieved, RangeError, Go
    <3>4. NoBody(r) \/ OpenOutput(r) => Heard(r)
      BY ZenonT(30) DEF NoBody, OpenOutput, Wanted, Go
    <3> QED
      BY <1>4, <3>1, <3>2, <3>3, <3>4 DEF Answer
  <2>2. Unauthorized(r) \/ at' \in {"judge", "body"}
    <3>1. CASE OpenOutput(r)
      BY <3>1, Zenon DEF OpenOutput, Return
    <3>2. CASE ~Unauthorized(r) /\ ~OpenOutput(r)
      <4>1. at' = "judge"
        BY <1>4, <3>2, Zenon DEF Answer, FileAppeared, NoContent, Redirected, NotModified,
          StillCurrent, AlreadyRetrieved, RangeError, NoBody, Return
      <4> QED
        BY <4>1
    <3> QED
      BY <3>1, <3>2
  <2> QED
    BY <2>1, <2>2, Zenon DEF Heard, worldVars
<1>5. ASSUME NEW k, ReadWrite(k)
      PROVE  /\ UNCHANGED <<opts, was, force_full_retrieve, ret>>
             /\ at = "body" /\ at' \in {"judge", "body"}
  <2>1. ReadRule(k)
    BY <1>1, <1>5, ReadWays DEF ReadInv
  <2> QED
    BY <2>1 DEF ReadRule, worldVars, loopVars
<1>6. CASE BodyRead \/ LastChunk \/ EndOfFile \/ ReadError
  <2>1. /\ UNCHANGED <<opts, was, force_full_retrieve, ret>>
        /\ at = "body" /\ at' = "judge"
    BY <1>6, Zenon DEF BodyRead, LastChunk, EndOfFile, ReadError, BodyEnds, Return, worldVars,
      loopVars
  <2> QED
    BY <2>1
<1>7. CASE SwitchRetry \/ SwitchLeave \/ SwitchRedirect \/ JudgeStatus
  <2>1. UNCHANGED <<opts, was, force_full_retrieve>> /\ at = "judge"
    BY <1>7, Zenon DEF SwitchRetry, SwitchLeave, SwitchRedirect, JudgeStatus, Judged, worldVars
  <2>2. at' \in {"try", "retrieve", "done"} /\ (at' = "done" \/ UNCHANGED ret)
    BY <1>7, AgainFacts DEF SwitchRetry, SwitchLeave, SwitchRedirect, JudgeStatus, Finish
  <2> QED
    BY <2>1, <2>2
<1>8. CASE JudgeHead
  <2>1. HeadRule /\ UNCHANGED <<opts, was>> /\ at = "judge"
    BY <1>1, <1>8, HeadWays, Zenon DEF JudgeHead, Judged, worldVars
  <2> QED
    BY <2>1 DEF HeadRule
<1>9. CASE JudgeBody
  <2>1. BodyRule /\ UNCHANGED <<opts, was, force_full_retrieve>> /\ at = "judge"
    BY <1>9, BodyWays, Zenon DEF JudgeBody, Judged, worldVars
  <2> QED
    BY <2>1 DEF BodyRule
<1> QED
  BY <1>2, <1>3, <1>4, <1>5, <1>6, <1>7, <1>8, <1>9 DEF HttpNext, Wget

(* restval is the length of the file that is continued.                     *)
LEMMA ContinueStep ==
  ASSUME ReadInv, ContinueInv, [HttpNext]_httpVars
  PROVE  ContinueInv'
<1>1. /\ HttpType /\ (opts.always_rest => name = 0)
      /\ fs \in [0 .. MaxName -> Stored] /\ name \in 0 .. MaxName
  BY DEF ReadInv, HttpType, AllowClobber
<1>2. CASE UNCHANGED httpVars
  BY <1>2 DEF ContinueInv, Exists, httpVars, worldVars, loopVars
<1>3. CASE HttpNext
  <2>1. /\ UNCHANGED opts
        /\ force_full_retrieve' => opts.timestamping'
    BY <1>3, FewSteps DEF ContinueInv
  <2>2. CASE Try
    <3>1. TryRule /\ UNCHANGED <<fs, force_full_retrieve>>
      BY <1>1, <2>2, TryWays, Zenon DEF Try
    <3>2. ASSUME opts.always_rest, ~opts.timestamping, Exists(0)
          PROVE  hs'.restval = Len(fs[0].data)
      BY <1>1, <3>1, <3>2 DEF TryRule, Restart, ContinueInv
    <3> QED
      BY <2>1, <3>1, <3>2 DEF ContinueInv, Exists
  <2>3. CASE Connect \/ Interim \/ ServerChanges \/ \E r \in Answers : Unauthorized(r)
    <3>1. UNCHANGED <<fs, hs>> /\ at \in {"connect", "reply", "repeat"}
      BY <2>3, Zenon DEF Connect, Interim, ServerChanges, Unauthorized, Heard
    <3> QED
      BY <2>1, <3>1 DEF ContinueInv, Exists
  <2>4. CASE FileSpringsUp
    <3>1. ASSUME opts.always_rest PROVE Foreign \in Range(fs'[0].data)
      <4>1. fs'[0] = [data |-> <<Foreign>>, mtime |-> Now]
        BY <1>1, <2>4, <3>1 DEF FileSpringsUp
      <4> QED
        BY <4>1 DEF Range
    <3> QED
      BY <2>1, <3>1 DEF ContinueInv
  <2>5. CASE at' \notin {"connect", "reply", "repeat"}
    BY <2>1, <2>5 DEF ContinueInv
  <2> QED
    BY <1>3, <2>2, <2>3, <2>4, <2>5, FewSteps
<1> QED
  BY <1>2, <1>3

(* A sequence is a beginning of itself and of what it is continued to, and  *)
(* the empty one of any.                                                    *)
LEMMA PrefixFacts ==
  ASSUME NEW s \in Seq(Byte), NEW t \in Seq(Byte)
  PROVE  /\ IsPrefix(s, s) /\ IsPrefix(s, s \o t)
         /\ s = <<>> => IsPrefix(s, t)
<1>1. IsPrefix(s, s)
  BY DEF IsPrefix
<1>2. IsPrefix(s, s \o t)
  <2>1. /\ s \o t \in Seq(Byte) /\ Len(s \o t) = Len(s) + Len(t) /\ Len(s) \in Nat /\ Len(t) \in Nat
        /\ \A i \in 1 .. Len(s) : (s \o t)[i] = s[i]
    OBVIOUS
  <2> DEFINE u == s \o t
             n == Len(s)
  <2>2. SubSeq(s, 1, n) = [i \in 1 .. n |-> s[i]] /\ SubSeq(u, 1, n) = [i \in 1 .. n |-> u[i]]
    <3> HIDE DEF u
    <3> QED
      BY <2>1 DEF u
  <2> QED
    BY <2>1, <2>2 DEF IsPrefix
<1>3. s = <<>> => IsPrefix(s, t)
  <2>1. SubSeq(t, 1, 0) = <<>> /\ SubSeq(<<>>, 1, 0) = <<>>
    OBVIOUS
  <2> QED
    BY <2>1 DEF IsPrefix
<1> QED
  BY <1>1, <1>2, <1>3

(* The steps that change a file.                                            *)
LEMMA FileSteps ==
  ASSUME ReadInv, HttpNext
  PROVE  \/ UNCHANGED fs
         \/ \E r \in Answers : at = "reply" /\ Sound(r) /\ Opened(r)
         \/ \E k : ReadRule(k)
         \/ BodyRule
         \/ FileSpringsUp
<1>1. HttpType /\ BodyInv
  BY DEF ReadInv
<1>2. ASSUME NEW r \in Answers, Answer(r)
      PROVE  UNCHANGED fs \/ (at = "reply" /\ Sound(r) /\ Opened(r))
  <2>1. Sound(r) /\ r \in Reply
    BY <1>1, AnswersSound DEF Sound
  <2>2. CASE OpenOutput(r)
    <3>1. Opened(r) \/ OpenFails(r)
      BY <1>1, <2>1, <2>2, OpenOutputWays
    <3>2. OpenFails(r) => UNCHANGED fs
      BY DEF OpenFails
    <3>3. Opened(r) => at = "reply"
      BY DEF Opened, Wanted, Go, Heard
    <3> QED
      BY <2>1, <3>1, <3>2, <3>3
  <2>3. CASE Unauthorized(r) \/ FileAppeared(r) \/ NoContent(r) \/ Redirected(r)
    BY <2>3, Zenon DEF Unauthorized, FileAppeared, NoContent, Redirected
  <2>4. CASE NotModified(r) \/ StillCurrent(r) \/ AlreadyRetrieved(r) \/ RangeError(r) \/ NoBody(r)
    BY <2>4, Zenon DEF NotModified, StillCurrent, AlreadyRetrieved, RangeError, NoBody
  <2> QED
    BY <1>2, <2>2, <2>3, <2>4 DEF Answer
<1>3. ASSUME NEW k, ReadWrite(k) PROVE ReadRule(k)
  BY <1>1, <1>3, ReadWays
<1>4. CASE Begin \/ Try \/ Connect \/ NoReply \/ Interim \/ ServerChanges
  BY <1>4, Zenon DEF Begin, Try, Connect, NoReply, Interim, ServerChanges
<1>5. CASE BodyRead \/ LastChunk \/ EndOfFile \/ ReadError
  BY <1>5, Zenon DEF BodyRead, LastChunk, EndOfFile, ReadError, BodyEnds
<1>6. CASE SwitchRetry \/ SwitchLeave \/ SwitchRedirect \/ JudgeStatus \/ JudgeHead
  BY <1>6, Zenon DEF SwitchRetry, SwitchLeave, SwitchRedirect, JudgeStatus, JudgeHead
<1>7. CASE JudgeBody
  BY <1>7, BodyWays
<1> QED
  BY <1>2, <1>3, <1>4, <1>5, <1>6, <1>7 DEF HttpNext, Wget

\* What a step may do to a file that is continued.
KeepsContinued ==
  /\ opts.always_rest /\ ~opts.timestamping
  /\ Foreign \notin Range(fs[0].data)
  => IsPrefix(fs[0].data, fs'[0].data)

(* No step shortens or alters the file.                                     *)
LEMMA ContinuedKept ==
  ASSUME ReadInv, ContinueInv, HttpNext
  PROVE  KeepsContinued
<1> SUFFICES ASSUME opts.always_rest, ~opts.timestamping, Foreign \notin Range(fs[0].data)
             PROVE  IsPrefix(fs[0].data, fs'[0].data)
  BY DEF KeepsContinued
<1>1. /\ HttpType /\ name = 0 /\ 0 \in 0 .. MaxName /\ AllowClobber
      /\ fs \in [0 .. MaxName -> Stored] /\ fs[0].data \in Seq(Byte)
      /\ (~Exists(0) => fs[0].data = <<>>)
  BY DEF ReadInv, HttpType, AllowClobber, Stored
<1>2. /\ HttpType' /\ fs'[0].data \in Seq(Byte)
  <2>1. HttpType'
    BY ReadStep DEF ReadInv
  <2> QED
    BY <1>1, <2>1 DEF HttpType, Stored
<1>3. CASE UNCHANGED fs
  BY <1>1, <1>3, PrefixFacts
<1>4. ASSUME NEW r \in Answers, at = "reply", Opened(r)
      PROVE  IsPrefix(fs[0].data, fs'[0].data)
  <2>1. name' = 0
    BY <1>1, <1>4, GoFacts DEF Opened, Wanted
  <2>2. fs'[0] = IF hs.restval > 0 /\ fs[0].mtime # -1 THEN fs[0]
                 ELSE [data |-> <<>>, mtime |-> Now]
    BY <1>1, <1>4, <2>1 DEF Opened
  <2>3. CASE hs.restval > 0 /\ fs[0].mtime # -1
    BY <1>1, <2>2, <2>3, PrefixFacts
  <2>4. CASE ~(hs.restval > 0 /\ fs[0].mtime # -1)
    <3>1. Exists(0) => hs.restval = Len(fs[0].data)
      BY <1>4 DEF ContinueInv
    <3>2. fs[0].data = <<>>
      BY <1>1, <2>4, <3>1 DEF Exists
    <3> QED
      BY <1>1, <1>2, <3>2, PrefixFacts
  <2> QED
    BY <2>3, <2>4
<1>5. ASSUME NEW k, ReadRule(k)
      PROVE  IsPrefix(fs[0].data, fs'[0].data)
  <2>1. PICK d \in Seq(Byte), t \in Int :
          fs' = [fs EXCEPT ![name] = [data |-> fs[name].data \o d, mtime |-> t]]
    BY <1>5, Zenon DEF ReadRule
  <2>2. fs'[0].data = fs[0].data \o d
    BY <1>1, <2>1
  <2> QED
    BY <1>1, <2>2, PrefixFacts
<1>6. CASE BodyRule
  <2>1. fs' = Touched
    BY <1>6 DEF BodyRule
  <2>2. \/ fs' = fs
        \/ \E t \in Int : fs' = [fs EXCEPT ![name] = [data |-> fs[name].data, mtime |-> t]]
    BY <1>1, <2>1, TouchedTime
  <2>3. fs'[0].data = fs[0].data
    <3>1. ASSUME NEW t \in Int,
                 fs' = [fs EXCEPT ![name] = [data |-> fs[name].data, mtime |-> t]]
          PROVE  fs'[0].data = fs[0].data
      BY <1>1, <3>1
    <3> QED
      BY <2>2, <3>1, Zenon
  <2> QED
    BY <1>1, <2>3, PrefixFacts
<1>7. CASE FileSpringsUp
  <2>1. fs[0].data = <<>>
    BY <1>1, <1>7 DEF FileSpringsUp
  <2> QED
    BY <1>1, <1>2, <2>1, PrefixFacts
<1> QED
  BY <1>3, <1>4, <1>5, <1>6, <1>7, FileSteps

(* With -c and without -N, no step of a retrieval shortens or alters what   *)
(* the local file holds, for any sizes, answers and number of tries: before *)
(* every answer, restval is the length of the file, so that open_output_    *)
(* stream empties only what is empty.                                       *)
THEOREM ContinueNeverClobbersHolds == HttpSpec => ContinueNeverClobbers
<1>1. HttpInit => ContinueInv
  BY DEF HttpInit, ContinueInv
<1>2. ReadInv /\ ContinueInv /\ [HttpNext]_httpVars => ContinueInv'
  BY ContinueStep
<1>3. HttpSpec => []ContinueInv
  BY <1>1, <1>2, ReadInvHolds, PTL DEF HttpSpec
<1>4. ReadInv /\ ContinueInv /\ [HttpNext]_httpVars => [KeepsContinued]_httpVars
  BY ContinuedKept
<1> QED
  BY <1>3, <1>4, ReadInvHolds, PTL DEF HttpSpec, ContinueNeverClobbers, KeepsContinued

-----------------------------------------------------------------------------
(* What hstat says early                                                   *)

(* A step that neither changes a file nor begins nor answers.               *)
LEMMA EarlySame ==
  ASSUME EarlyInv, UNCHANGED <<opts, hs, name, fs, send_head_first>>,
         at \notin {"retrieve", "done"}, at' # "body",
         at' \in {"connect", "reply", "repeat"} => at \in {"connect", "reply", "repeat"},
         got_head => got_head'
  PROVE  EarlyInv'
BY DEF EarlyInv, Exists, HeadJudged

(* A step to the end, or to the next redirection.                           *)
LEMMA EarlyOver ==
  ASSUME at' \in {"retrieve", "done"}
  PROVE  EarlyInv'
BY DEF EarlyInv

(* An answer that is checked.                                               *)
LEMMA EarlyChecked ==
  ASSUME HttpType, EarlyInv, NEW r, Sound(r), Go(r), UNCHANGED fs, at' = "judge",
         hs'.existence_checked = TRUE, hs'.remote_time = r.lm,
         hs'.orig = hs.orig \/ (opts.timestamping /\ hs'.orig = fs[name])
  PROVE  EarlyInv'
<1>1. UNCHANGED <<opts, send_head_first, got_head>> /\ at = "reply"
  BY DEF Go, Heard, worldVars
<1>2. opts.timestamping => name' = name
  BY GoFacts DEF AllowClobber
<1>3. r.lm # NoTime => r.lm >= 1
  BY DEF Sound
<1> QED
  BY <1>1, <1>2, <1>3 DEF EarlyInv, HeadJudged

(* What the answers that end gethttp make of hstat.                         *)
LEMMA CheckedWays ==
  ASSUME HttpType, NEW r, Sound(r),
         \/ NoContent(r) \/ Redirected(r)
         \/ NotModified(r) \/ StillCurrent(r) \/ AlreadyRetrieved(r) \/ RangeError(r)
         \/ NoBody(r)
  PROVE  /\ Go(r) /\ UNCHANGED fs /\ at' = "judge" /\ hs'.existence_checked = TRUE
         /\ hs'.remote_time = r.lm /\ hs'.statcode = r.code
         /\ hs'.orig = hs.orig \/ (opts.timestamping /\ hs'.orig = fs[name])
         /\ RangeError(r) => hs'.restval = hs.restval /\ hs'.len = hs.len
         /\ NoContent(r) \/ NoBody(r) => hs'.restval = 0 /\ hs'.len = 0
         /\ NoContent(r) => hs'.contlen = hs.contlen
         /\ NoBody(r) => hs'.contlen = IF r.contlen = -1 THEN -1 ELSE r.contlen + r.contrange
<1> DEFINE c == Checked(r)
           s == Sized(r)
<1>1. r \in Reply
  BY DEF Sound
<1>2. CheckedRule(c, r) /\ SizedRule(s, r)
  BY <1>1, CheckedFields, SizedFields
<1>3. Go(r) /\ UNCHANGED fs /\ at' = "judge"
  <2>1. NoContent(r) \/ Redirected(r) \/ NotModified(r) => Go(r) /\ UNCHANGED fs /\ at' = "judge"
    BY Zenon DEF NoContent, Redirected, NotModified, Return
  <2>2. StillCurrent(r) \/ RangeError(r) \/ NoBody(r) => Go(r) /\ UNCHANGED fs /\ at' = "judge"
    BY Zenon DEF StillCurrent, RangeError, NoBody, Wanted, Return
  <2>3. AlreadyRetrieved(r) => Go(r) /\ UNCHANGED fs /\ at' = "judge"
    BY Zenon DEF AlreadyRetrieved, Return
  <2> QED
    BY <2>1, <2>2, <2>3
<1>4. /\ RangeError(r) \/ NotModified(r) \/ StillCurrent(r) => hs' = c
      /\ NoContent(r) \/ Redirected(r) => hs' = Nothing(c)
      /\ NoBody(r) => hs' = Nothing(s)
      /\ AlreadyRetrieved(r) => hs' = [c EXCEPT !.len = r.contlen, !.res = 0]
  BY Zenon DEF RangeError, NotModified, StillCurrent, NoContent, Redirected, NoBody,
    AlreadyRetrieved
<1>5. AlreadyRetrieved(r) => r.contlen \in Nat
  BY <1>1 DEF AlreadyRetrieved, Complete, Sound, Reply
<1> HIDE DEF c, s
<1>6. c \in Stat /\ s \in Stat
  BY <1>2 DEF CheckedRule, SizedRule
<1>7. ASSUME NEW h \in Stat, hs' = Nothing(h)
      PROVE  /\ hs'.existence_checked = h.existence_checked /\ hs'.orig = h.orig
             /\ hs'.remote_time = h.remote_time /\ hs'.statcode = h.statcode
             /\ hs'.restval = 0 /\ hs'.len = 0 /\ hs'.contlen = h.contlen
  BY <1>7, NothingFields
<1>8. ASSUME AlreadyRetrieved(r)
      PROVE  /\ hs'.existence_checked = c.existence_checked /\ hs'.orig = c.orig
             /\ hs'.remote_time = c.remote_time /\ hs'.statcode = c.statcode
  <2>1. hs' = [c EXCEPT !.len = r.contlen, !.res = 0]
    BY <1>4, <1>8, Zenon
  <2> QED
    BY <1>6, <2>1, Zenon DEF Stat
<1>9. \/ hs' = c \/ hs' = Nothing(c) \/ hs' = Nothing(s)
       \/ AlreadyRetrieved(r)
  BY <1>4, Zenon
<1>10. /\ hs'.existence_checked = TRUE
       /\ hs'.remote_time = r.lm /\ hs'.statcode = r.code
       /\ hs'.orig = hs.orig \/ (opts.timestamping /\ hs'.orig = fs[name])
  BY <1>2, <1>6, <1>7, <1>8, <1>9 DEF CheckedRule, SizedRule
<1>11. RangeError(r) => hs'.restval = hs.restval /\ hs'.len = hs.len
  BY <1>2, <1>4 DEF CheckedRule
<1>12. NoContent(r) => hs'.restval = 0 /\ hs'.len = 0 /\ hs'.contlen = hs.contlen
  BY <1>2, <1>4, <1>6, <1>7 DEF CheckedRule
<1>13. NoBody(r) => /\ hs'.restval = 0 /\ hs'.len = 0
                    /\ hs'.contlen = IF r.contlen = -1 THEN -1 ELSE r.contlen + r.contrange
  BY <1>2, <1>4, <1>6, <1>7 DEF SizedRule
<1> QED
  BY <1>3, <1>10, <1>11, <1>12, <1>13

(* fd_read_body returns an integer.                                         *)
LEMMA EndResult ==
  ASSUME BodyRead \/ LastChunk \/ EndOfFile \/ ReadError
  PROVE  \E res \in Int : \E unread : BodyEnds(res, unread)
<1> DEFINE m == -1
<1>1. 0 \in Int /\ 1 \in Int /\ m \in Int
  OBVIOUS
<1>2. ReadError => BodyEnds(m, "closed")
  BY DEF ReadError
<1> HIDE DEF m
<1>3. \/ \E res \in {0, 1} : \E unread : BodyEnds(res, unread)
      \/ \E unread : BodyEnds(m, unread)
  BY <1>2, Zenon DEF BodyRead, LastChunk, EndOfFile
<1> QED
  BY <1>1, <1>3, Zenon

(* Every step keeps EarlyInv.                                               *)
LEMMA EarlyStep ==
  ASSUME ReadInv, EarlyInv, [HttpNext]_httpVars
  PROVE  EarlyInv'
<1>1. /\ HttpType /\ hs \in Stat /\ fs \in [0 .. MaxName -> Stored] /\ name \in 0 .. MaxName
      /\ hs.len \in Nat /\ hs.restval \in Nat
  BY DEF ReadInv, HttpType, Stat
<1>2. CASE UNCHANGED httpVars
  BY <1>2 DEF EarlyInv, Exists, HeadJudged, httpVars, worldVars, loopVars
<1>3. CASE Begin
  <2>1. /\ UNCHANGED <<fs, opts>>
        /\ at' = "done" \/ (~(Exists(name') /\ opts.noclobber) /\ BeginRule)
    BY <1>1, <1>3, BeginWays DEF worldVars
  <2>2. NoFile.mtime = -1
    BY DEF NoFile
  <2>3. CASE at' = "done"
    BY <2>3, EarlyOver
  <2>4. CASE ~(Exists(name') /\ opts.noclobber) /\ BeginRule
    <3>1. ~Exists(name') <=> ~Exists(name)'
      BY <2>1 DEF Exists
    <3> QED
      BY <2>1, <2>2, <2>4, <3>1 DEF BeginRule, EarlyInv
  <2> QED
    BY <2>1, <2>3, <2>4
<1>4. CASE Try
  <2>1. /\ TryRule /\ UNCHANGED <<opts, name, fs, send_head_first, got_head>>
        /\ at = "try" /\ at' = "connect"
    BY <1>1, <1>4, TryWays, Zenon DEF Try, worldVars
  <2>2. ASSUME ~opts.always_rest, ~hs.existence_checked PROVE Restart = 0
    BY <1>1, <2>1, <2>2 DEF EarlyInv, Restart
  <2> QED
    BY <2>1, <2>2 DEF TryRule, EarlyInv, Exists, HeadJudged
<1>5. CASE Connect \/ NoReply \/ Interim \/ ServerChanges
  <2>1. /\ UNCHANGED <<opts, hs, name, fs, send_head_first, got_head>>
        /\ at \in {"connect", "reply", "repeat"} /\ at' \in {"connect", "reply", "repeat", "judge"}
    BY <1>5 DEF Connect, NoReply, Interim, ServerChanges, worldVars, loopVars
  <2> QED
    BY <2>1, EarlySame
<1>6. CASE FileSpringsUp
  <2> DEFINE s == [data |-> <<Foreign>>, mtime |-> Now]
  <2>1. /\ UNCHANGED <<opts, hs, name, send_head_first, got_head, at>>
        /\ at = "connect" /\ ~Exists(name) /\ fs' = [fs EXCEPT ![name] = s]
    BY <1>6 DEF FileSpringsUp, worldVars, loopVars
  <2>2. Foreign \in Range(fs'[name].data)
    <3>1. fs'[name].data = <<Foreign>>
      BY <1>1, <2>1
    <3> QED
      BY <3>1 DEF Range
  <2>3. hs.orig = fs[name] => hs.orig.mtime = -1
    BY <2>1 DEF Exists
  <2> HIDE DEF s
  <2> QED
    BY <2>1, <2>2, <2>3 DEF EarlyInv, HeadJudged
<1>7. ASSUME NEW r \in Answers, Answer(r) PROVE EarlyInv'
  <2>1. Sound(r) /\ r \in Reply
    BY <1>1, AnswersSound DEF Sound
  <2>2. CASE Unauthorized(r) \/ FileAppeared(r)
    <3>1. /\ UNCHANGED <<opts, hs, name, fs, send_head_first, got_head>>
          /\ at = "reply" /\ at' \in {"connect", "judge"}
      BY <2>2 DEF Unauthorized, FileAppeared, Heard, Return, worldVars
    <3> QED
      BY <3>1, EarlySame
  <2>3. CASE OpenOutput(r)
    <3>1. Opened(r) \/ OpenFails(r)
      BY <1>1, <2>1, <2>3, OpenOutputWays
    <3>2. CASE OpenFails(r)
      BY <1>1, <2>1, <3>2, EarlyChecked, ZenonT(30) DEF OpenFails, SizedRule, Wanted, Return
    <3>3. CASE Opened(r)
      <4>1. /\ Go(r) /\ ~head_only /\ ~opts.spider /\ at' = "body"
            /\ hs'.existence_checked = TRUE /\ hs'.remote_time = r.lm
            /\ hs'.orig = hs.orig \/ (opts.timestamping /\ hs'.orig = fs[name])
        BY <3>3 DEF Opened, Wanted
      <4>2. UNCHANGED <<opts, send_head_first, got_head>> /\ at = "reply"
        BY <4>1 DEF Go, Heard, worldVars
      <4> QED
        BY <2>1, <4>1, <4>2 DEF Sound, EarlyInv, HeadJudged, head_only
    <3> QED
      BY <3>1, <3>2, <3>3
  <2>4. CASE ~Unauthorized(r) /\ ~FileAppeared(r) /\ ~OpenOutput(r)
    <3>1. \/ NoContent(r) \/ Redirected(r)
          \/ NotModified(r) \/ StillCurrent(r) \/ AlreadyRetrieved(r) \/ RangeError(r)
          \/ NoBody(r)
      BY <1>7, <2>4 DEF Answer
    <3>2. /\ Go(r) /\ UNCHANGED fs /\ at' = "judge" /\ hs'.existence_checked = TRUE
          /\ hs'.remote_time = r.lm
          /\ hs'.orig = hs.orig \/ (opts.timestamping /\ hs'.orig = fs[name])
      BY <1>1, <2>1, <3>1, CheckedWays
    <3> QED
      BY <1>1, <2>1, <3>2, EarlyChecked
  <2> QED
    BY <2>2, <2>3, <2>4
<1>8. ASSUME NEW k, ReadWrite(k) PROVE EarlyInv'
  <2>1. ReadRule(k)
    BY <1>1, <1>8, ReadWays DEF ReadInv
  <2>2. /\ UNCHANGED <<opts, name, send_head_first, got_head>> /\ at = "body" /\ SameAnswer
        /\ at' \in {"body", "judge"}
    BY <2>1 DEF ReadRule, worldVars, loopVars
  <2> QED
    BY <2>2 DEF SameAnswer, EarlyInv, HeadJudged
<1>9. CASE BodyRead \/ LastChunk \/ EndOfFile \/ ReadError
  <2>1. ASSUME NEW res \in Int, NEW unread, BodyEnds(res, unread) PROVE EarlyInv'
    <3>1. EndRule(unread)
      BY <1>1, <2>1, EndWays
    <3>2. /\ UNCHANGED <<opts, name, fs, send_head_first, got_head>> /\ at = "body" /\ SameAnswer
          /\ at' = "judge"
      BY <3>1 DEF EndRule, worldVars, loopVars
    <3> QED
      BY <3>2 DEF SameAnswer, EarlyInv, HeadJudged, Exists
  <2>2. \E res \in Int : \E unread : BodyEnds(res, unread)
    BY <1>9, EndResult
  <2> QED
    BY <2>1, <2>2
<1>10. CASE SwitchRetry \/ SwitchLeave \/ SwitchRedirect \/ JudgeStatus
  <2>1. UNCHANGED <<opts, name, fs, send_head_first>> /\ at = "judge" /\ FreeHstat(hs)
    BY <1>10, Zenon DEF SwitchRetry, SwitchLeave, SwitchRedirect, JudgeStatus, Judged, worldVars
  <2>2. got_head => got_head'
    BY <1>10 DEF SwitchRetry, SwitchLeave, SwitchRedirect, JudgeStatus
  <2>3. at' \in {"try", "retrieve", "done"}
    BY <1>10, AgainFacts DEF SwitchRetry, SwitchLeave, SwitchRedirect, JudgeStatus, Finish
  <2>4. at' = "try" => UNCHANGED hs
    BY <1>1, <2>1, FreedType
  <2> QED
    BY <2>1, <2>3, <2>4, <2>2, EarlySame, EarlyOver
<1>11. CASE JudgeHead
  <2>1. HeadRule /\ UNCHANGED <<opts, name, fs, send_head_first>> /\ at = "judge"
    BY <1>1, <1>11, HeadWays, Zenon DEF JudgeHead, Judged, worldVars
  <2>2. CASE at' = "done"
    BY <2>2, EarlyOver
  <2>3. CASE at' = "try" /\ ~opts.spider /\ got_head'
             /\ hs'.restval = hs.restval /\ hs'.len = hs.len /\ hs'.orig = hs.orig
             /\ hs'.remote_time = hs.remote_time
             /\ hs'.existence_checked = hs.existence_checked
    BY <2>1, <2>3 DEF EarlyInv, HeadJudged, Exists
  <2> QED
    BY <2>1, <2>2, <2>3 DEF HeadRule
<1>12. CASE JudgeBody
  <2>1. BodyRule /\ UNCHANGED <<opts, name, send_head_first>> /\ at = "judge" /\ got_head'
    BY <1>12, BodyWays, Zenon DEF JudgeBody, Judged, worldVars
  <2> QED
    BY <2>1, EarlySame, EarlyOver DEF BodyRule
<1> QED
  BY <1>2, <1>3, <1>4, <1>5, <1>6, <1>7, <1>8, <1>9, <1>10, <1>11, <1>12 DEF HttpNext, Wget

-----------------------------------------------------------------------------
(* The bytes of the file                                                   *)

(* An ordered sequence is a beginning of version 1, and the whole of it if  *)
(* it is as long.                                                           *)
LEMMA OrderedPrefix ==
  ASSUME NEW s \in Seq(Byte)
  PROVE  /\ Ordered(s) <=> IsPrefix(s, Entity(1))
         /\ Ordered(s) /\ Len(s) >= Size[1] => s = Entity(1)
<1> DEFINE e == Entity(1)
           n == Size[1]
           l == Len(s)
<1>1. /\ e \in Seq(Byte) /\ Len(e) = n /\ n \in Nat
      /\ \A i \in 1 .. n : e[i] = <<1, i>>
  BY NowType, EntityBytes
<1>2. l \in Nat
  OBVIOUS
<1> HIDE DEF e, n
<1>3. SubSeq(s, 1, l) = [i \in 1 .. l |-> s[i]]
  BY <1>2
<1>4. l <= n => SubSeq(e, 1, l) = [i \in 1 .. l |-> e[i]]
  BY <1>1, <1>2
<1>5. Ordered(s) <=> l <= n /\ \A i \in 1 .. l : s[i] = <<1, i>>
  BY DEF Ordered, n
<1>6. IsPrefix(s, e) <=> l <= n /\ SubSeq(s, 1, l) = SubSeq(e, 1, l)
  BY <1>1 DEF IsPrefix
<1> HIDE DEF l
<1>7. ASSUME l <= n, \A i \in 1 .. l : s[i] = <<1, i>>
      PROVE  [i \in 1 .. l |-> s[i]] = [i \in 1 .. l |-> e[i]]
  <2>1. ASSUME NEW i \in 1 .. l PROVE s[i] = e[i]
    <3>1. i \in 1 .. n
      BY <1>1, <1>2, <1>7
    <3> QED
      BY <1>1, <1>7, <3>1, Zenon
  <2> QED
    BY <2>1, Zenon
<1>8. ASSUME l <= n, [i \in 1 .. l |-> s[i]] = [i \in 1 .. l |-> e[i]]
      PROVE  \A i \in 1 .. l : s[i] = <<1, i>>
  <2> SUFFICES ASSUME NEW i \in 1 .. l PROVE s[i] = <<1, i>>
    OBVIOUS
  <2>1. s[i] = e[i]
    <3>1. [j \in 1 .. l |-> s[j]][i] = [j \in 1 .. l |-> e[j]][i]
      BY <1>8
    <3> QED
      BY <3>1
  <2> QED
    BY <1>1, <1>2, <1>8, <2>1
<1>9. Ordered(s) <=> IsPrefix(s, e)
  BY <1>3, <1>4, <1>5, <1>6, <1>7, <1>8
<1>10. ASSUME Ordered(s), l >= n PROVE s = e
  <2>1. l = n
    BY <1>1, <1>2, <1>5, <1>10
  <2>2. s = [i \in 1 .. l |-> s[i]] /\ e = [i \in 1 .. n |-> e[i]]
    BY <1>1 DEF l
  <2>3. [i \in 1 .. l |-> s[i]] = [i \in 1 .. l |-> e[i]]
    BY <1>1, <1>2, <1>5, <1>7, <1>10
  <2> QED
    BY <2>1, <2>2, <2>3
<1> QED
  BY <1>9, <1>10 DEF e, l, n

(* Nothing is in order.                                                     *)
LEMMA EmptyOrdered == Ordered(<<>>)
BY NowType, EntityBytes DEF Ordered

(* A step that keeps the name and the bytes disturbs nothing.               *)
LEMMA Undisturbing ==
  ASSUME UNCHANGED <<opts, was, version, name>>, fs'[name].data = fs[name].data, Undisturbed'
  PROVE  Undisturbed
BY DEF Undisturbed

(* Without a body, a step keeps the order of the bytes.                     *)
LEMMA QuietOrder ==
  ASSUME HttpType, FileInv, UNCHANGED <<opts, was, version, fs, name>>, at # "done", Undisturbed'
  PROVE  InOrder' /\ FileFacts /\ Undisturbed
<1>1. Undisturbed
  BY Undisturbing
<1>2. FileFacts
  BY <1>1 DEF FileInv
<1> QED
  BY <1>1, <1>2 DEF FileFacts, InOrder

(* A name that check_file_output replaces.                                  *)
LEMMA GoOrder ==
  ASSUME HttpType, EarlyInv, FileInv, NEW r, Go(r), UNCHANGED fs, Undisturbed'
  PROVE  /\ InOrder'
         /\ hs.restval > 0 => name' = name /\ FileFacts /\ Holds(name, hs.restval)
<1>1. /\ UNCHANGED <<opts, was, version>> /\ at = "reply"
      /\ name' \in 0 .. MaxName /\ name \in 0 .. MaxName /\ hs.restval \in Nat
  BY GoFacts DEF Go, Heard, worldVars, HttpType, Stat
<1>2. CASE name' = name
  <2>1. InOrder' /\ FileFacts
    BY <1>1, <1>2, QuietOrder
  <2>2. hs.restval > 0 => Holds(name, hs.restval)
    BY <1>1, <2>1 DEF FileFacts, Resumable
  <2> QED
    BY <1>2, <2>1, <2>2
<1>3. CASE name' # name
  <2>1. ~AllowClobber /\ ~Exists(name') /\ ~hs.existence_checked
    BY <1>3, GoFacts
  <2>2. hs.restval = 0
    BY <1>1, <2>1 DEF EarlyInv, AllowClobber
  <2>3. fs'[name'].mtime = -1 /\ fs'[name'].data = <<>>
    BY <1>1, <2>1 DEF HttpType, Exists
  <2>4. Ordered(fs'[name'].data)
    BY <2>3, EmptyOrdered
  <2> QED
    BY <2>2, <2>3, <2>4 DEF InOrder
<1> QED
  BY <1>2, <1>3

(* A range is asked for where the file ends.                                *)
LEMMA RestartHeld ==
  ASSUME HttpType, FileFacts, Undisturbed, at = "try", Restart > 0
  PROVE  Holds(name, Restart)
<1>1. /\ hs.len \in Nat /\ hs.restval \in Nat /\ fs[name].data \in Seq(Byte)
      /\ was.data = fs[name].data \/ Ordered(fs[name].data)
  BY DEF HttpType, Stat, Stored, FileFacts, InOrder
<1>2. /\ hs.len > 0 => hs.len >= hs.restval /\ Holds(name, hs.len)
      /\ hs.len = 0 /\ hs.restval > 0 => Holds(name, hs.restval)
  BY DEF FileFacts, Resumable, MayRetry
<1>3. CASE ~force_full_retrieve /\ opts.always_rest /\ Exists(name)
  <2>1. Restart = Len(fs[name].data)
    BY <1>3 DEF Restart
  <2>2. Ordered(fs[name].data)
    BY <1>1, <1>3, OrderedPrefix DEF Undisturbed
  <2> QED
    BY <1>3, <2>1, <2>2 DEF Holds
<1>4. CASE ~(~force_full_retrieve /\ opts.always_rest /\ Exists(name))
  <2>1. \/ Restart = hs.len \/ Restart = 0
        \/ hs.len < hs.restval /\ Restart = hs.restval - hs.len
    BY <1>4 DEF Restart
  <2>2. CASE Restart = hs.len
    BY <1>2, <2>2
  <2>3. CASE hs.len < hs.restval /\ Restart = hs.restval - hs.len
    <3>1. hs.len = 0 /\ hs.restval > 0 /\ Restart = hs.restval
      BY <1>1, <1>2, <2>3
    <3> QED
      BY <1>2, <3>1
  <2> QED
    BY <2>1, <2>2, <2>3
<1> QED
  BY <1>3, <1>4

(* The bytes, on the way to an answer.                                      *)
LEMMA FileConnect ==
  ASSUME ReadInv, EarlyInv, FileInv,
         Begin \/ Try \/ Connect \/ NoReply \/ Interim \/ ServerChanges \/ FileSpringsUp
  PROVE  FileInv'
<1> SUFFICES ASSUME Undisturbed' PROVE FileFacts'
  BY DEF FileInv
<1>1. /\ HttpType /\ (AllowClobber => name = 0) /\ name \in 0 .. MaxName
      /\ fs \in [0 .. MaxName -> Stored]
  BY DEF ReadInv, HttpType
<1>2. CASE Begin
  <2>1. /\ name' \in 0 .. MaxName /\ (AllowClobber => name' = 0)
        /\ ~AllowClobber => ~Exists(name')
        /\ UNCHANGED <<opts, was, version, fs>> /\ at = "retrieve"
    BY <1>1, <1>2, BeginWays DEF worldVars, Begin
  <2>2. InOrder'
    <3>1. CASE AllowClobber
      <4>1. name' = name
        BY <1>1, <2>1, <3>1
      <4> QED
        BY <1>1, <2>1, <4>1, QuietOrder
    <3>2. CASE ~AllowClobber
      <4>1. fs'[name'].data = <<>> /\ fs'[name'].mtime = -1
        BY <1>1, <2>1, <3>2 DEF HttpType, Exists
      <4> QED
        BY <4>1, EmptyOrdered DEF InOrder
    <3> QED
      BY <3>1, <3>2
  <2>3. (at' = "done" /\ how' = "present") \/ BeginRule
    BY <1>1, <1>2, BeginWays
  <2>4. Resumable' /\ Arriving' /\ Judgeable' /\ Succeeded'
    BY <2>3 DEF BeginRule, Resumable, MayRetry, Arriving, Judgeable, Succeeded
  <2> QED
    BY <2>2, <2>4 DEF FileFacts
<1>3. CASE Try
  <2>1. UNCHANGED <<opts, was, version, fs, name>> /\ at = "try" /\ at' = "connect"
    BY <1>3, Zenon DEF Try, worldVars
  <2>2. InOrder' /\ FileFacts /\ Undisturbed
    BY <1>1, <2>1, QuietOrder
  <2>3. hs'.restval = Restart
    BY <1>1, <1>3, TryWays DEF TryRule
  <2>4. Resumable'
    BY <1>1, <2>1, <2>2, <2>3, RestartHeld DEF Resumable, MayRetry, Holds, Exists
  <2>5. Arriving' /\ Judgeable' /\ Succeeded'
    BY <2>1 DEF Arriving, Judgeable, Succeeded
  <2> QED
    BY <2>2, <2>4, <2>5 DEF FileFacts
<1>4. CASE Connect \/ NoReply \/ Interim
  <2>1. /\ UNCHANGED <<opts, was, version, fs, name, hs>> /\ at \in {"connect", "reply", "repeat"}
        /\ \/ at' \in {"reply", "repeat"}
           \/ at' = "judge" /\ err' \in {"CONERROR", "HOSTERR", "HEOF"}
    BY <1>4 DEF Connect, NoReply, Interim, worldVars, loopVars
  <2>2. InOrder' /\ FileFacts
    BY <1>1, <2>1, QuietOrder
  <2>3. hs.len = 0
    BY <2>1 DEF EarlyInv
  <2>4. Resumable'
    BY <2>1, <2>2, <2>3 DEF FileFacts, Resumable, MayRetry, Holds, Exists
  <2>5. Arriving' /\ Judgeable' /\ Succeeded'
    BY <2>1 DEF Arriving, Judgeable, Succeeded
  <2> QED
    BY <2>2, <2>4, <2>5 DEF FileFacts
<1>5. CASE ServerChanges
  <2>1. version' = version + 1 /\ version \in Nat /\ version > 0
    BY <1>1, <1>5, EntityBytes DEF ServerChanges, HttpType
  <2> QED
    BY <2>1 DEF Undisturbed
<1>6. CASE FileSpringsUp
  <2>1. fs'[name'].data = <<Foreign>>
    BY <1>1, <1>6 DEF FileSpringsUp, loopVars
  <2>2. Foreign \in Range(fs'[name'].data)
    BY <2>1 DEF Range
  <2> QED
    BY <2>2 DEF Undisturbed
<1> QED
  BY <1>2, <1>3, <1>4, <1>5, <1>6

(* A length that is not that of the whole file is noticed as short.         *)
LEMMA SizedAnswer ==
  ASSUME HttpType, NEW r, Sound(r), Heard(r), r.code \in {200, 206}, r.contlen # -1, version = 1
  PROVE  r.contlen + r.contrange = Size[1] \/ short'
<1>1. /\ r.contlen \in Nat /\ r.contrange \in Nat /\ Len(r.body) \in Nat /\ Size[1] \in Nat
      /\ r.contlen <= Len(r.body)
  BY NowType, EntityBytes DEF Sound, Reply
<1>2. Len(r.body) + r.contrange <= Size[1]
  BY DEF Sound, RightBody
<1>3. r.contrange + r.contlen < Size[1] => short'
  BY DEF Heard, Short
<1> QED
  BY <1>1, <1>2, <1>3

(* The bytes, after an answer without a body that is read.                  *)
LEMMA FileAnswer ==
  ASSUME ReadInv, EarlyInv, FileInv, NEW r, Sound(r),
         \/ Unauthorized(r) \/ FileAppeared(r) \/ NoContent(r) \/ Redirected(r)
         \/ NotModified(r) \/ StillCurrent(r) \/ AlreadyRetrieved(r) \/ RangeError(r)
         \/ NoBody(r) \/ OpenFails(r)
  PROVE  FileInv'
<1> SUFFICES ASSUME Undisturbed' PROVE FileFacts'
  BY DEF FileInv
<1>1. /\ HttpType /\ r \in Reply /\ hs.restval \in Nat /\ name \in 0 .. MaxName
      /\ fs[name].data \in Seq(Byte) /\ version \in Version
  BY DEF ReadInv, HttpType, Sound, Stat, Stored
<1>2. CASE Unauthorized(r)
  <2>1. /\ UNCHANGED <<opts, was, version, fs, name, hs>> /\ at = "reply"
        /\ at' = "connect" \/ (at' = "judge" /\ err' = "AUTHFAILED")
    BY <1>2 DEF Unauthorized, Heard, Return, worldVars
  <2>2. InOrder' /\ FileFacts
    BY <1>1, <2>1, QuietOrder
  <2>3. Resumable'
    BY <2>1, <2>2 DEF FileFacts, Resumable, MayRetry, Retryable, Holds, Exists
  <2>4. Arriving' /\ Judgeable' /\ Succeeded'
    BY <2>1 DEF Arriving, Judgeable, Succeeded
  <2> QED
    BY <2>2, <2>3, <2>4 DEF FileFacts
<1>3. CASE FileAppeared(r)
  <2>1. /\ UNCHANGED <<fs, name>> /\ at = "reply"
        /\ ~hs.existence_checked /\ Exists(name) /\ opts.noclobber
    BY <1>3 DEF FileAppeared, NameTaken, Heard
  <2>2. Foreign \in Range(fs'[name'].data)
    BY <2>1 DEF EarlyInv
  <2> QED
    BY <2>2 DEF Undisturbed
<1>4. ASSUME Go(r), UNCHANGED fs, at' = "judge",
             err' \in Retryable \cup {"RETRFINISHED"} =>
               hs'.len = 0 /\ (hs'.restval > 0 => hs'.restval = hs.restval),
             Judgeable'
      PROVE  FileFacts'
  <2>1. InOrder' /\ (hs.restval > 0 => name' = name /\ Holds(name, hs.restval))
    BY <1>1, <1>4, GoOrder
  <2>2. Resumable'
    BY <1>4, <2>1 DEF Resumable, MayRetry, Holds, Exists
  <2>3. Arriving' /\ Succeeded'
    BY <1>4 DEF Arriving, Succeeded
  <2> QED
    BY <1>4, <2>1, <2>2, <2>3 DEF FileFacts
<1>5. at = "reply" => hs.contlen = -1 /\ hs.len = 0
  BY DEF EarlyInv
<1>6. Go(r) => /\ at = "reply" /\ version' = version /\ Heard(r)
               /\ UNCHANGED <<opts, cond_get, send_head_first, got_head>>
  BY DEF Go, Heard
<1>7. CASE NoContent(r)
  <2>1. /\ Go(r) /\ UNCHANGED fs /\ at' = "judge"
        /\ hs'.restval = 0 /\ hs'.len = 0 /\ hs'.contlen = hs.contlen
    BY <1>1, <1>7, CheckedWays
  <2>2. err' = "RETRFINISHED"
    BY <1>7, Zenon DEF NoContent, Return
  <2>3. Judgeable'
    BY <1>5, <1>6, <2>1, <2>2 DEF Judgeable
  <2> QED
    BY <1>4, <2>1, <2>3
<1>8. CASE Redirected(r)
  <2>1. Go(r) /\ UNCHANGED fs /\ at' = "judge"
    BY <1>1, <1>8, CheckedWays
  <2>2. err' \in {"NEWLOCATION", "NEWLOCATION_KEEP_POST"}
    BY <1>8, Zenon DEF Redirected, Return
  <2> QED
    BY <1>4, <2>1, <2>2 DEF Judgeable, Retryable
<1>9. CASE NotModified(r) \/ StillCurrent(r)
  <2>1. Go(r) /\ UNCHANGED fs /\ at' = "judge" /\ hs'.statcode = r.code
    BY <1>1, <1>9, CheckedWays
  <2>2. err' = "RETRUNNEEDED" /\ cond_get /\ r.code \in {200, 304}
    BY <1>9, Zenon DEF NotModified, StillCurrent, ConditionIgnored, Return
  <2> QED
    BY <1>4, <1>6, <2>1, <2>2 DEF Judgeable, Retryable
<1>10. CASE AlreadyRetrieved(r)
  <2>1. Go(r) /\ UNCHANGED fs /\ at' = "judge"
    BY <1>1, <1>10, CheckedWays
  <2>2. err' = "RETRUNNEEDED" /\ Complete(r)
    BY <1>10, Zenon DEF AlreadyRetrieved, Return
  <2>3. version = 1
    BY <1>6, <2>1 DEF Undisturbed
  <2>4. short' \/ (hs.restval > 0 /\ hs.restval >= Size[1])
    <3>1. CASE r.code = 416
      BY <2>3, <3>1 DEF Sound
    <3>2. CASE /\ hs.restval > 0 /\ r.code = 200
               /\ r.contrange = 0 /\ r.contlen >= 0 /\ hs.restval >= r.contlen
      <4>1. r.contlen \in Nat /\ r.contlen # -1
        BY <1>1, <3>2 DEF Reply
      <4>2. r.contlen + r.contrange = Size[1] \/ short'
        BY <1>1, <1>6, <2>1, <2>3, <3>2, <4>1, SizedAnswer
      <4> QED
        BY <3>2, <4>1, <4>2
    <3> QED
      BY <2>2, <3>1, <3>2 DEF Complete
  <2>5. ASSUME ~short' PROVE fs'[name'].data = Entity(1)
    <3>1. name' = name /\ Holds(name, hs.restval)
      BY <1>1, <2>1, <2>4, <2>5, GoOrder
    <3> QED
      BY <1>1, <2>1, <2>4, <2>5, <3>1, OrderedPrefix DEF Holds
  <2>6. Judgeable'
    BY <2>2, <2>5 DEF Judgeable
  <2> QED
    BY <1>4, <2>1, <2>2, <2>6 DEF Retryable
<1>11. CASE RangeError(r)
  <2>1. /\ Go(r) /\ UNCHANGED fs /\ at' = "judge"
        /\ hs'.restval = hs.restval /\ hs'.len = hs.len
    BY <1>1, <1>11, CheckedWays
  <2>2. err' = "RANGEERR"
    BY <1>11, Zenon DEF RangeError, Return
  <2> QED
    BY <1>4, <1>5, <1>6, <2>1, <2>2 DEF Judgeable
<1>12. CASE NoBody(r)
  <2>1. /\ Go(r) /\ UNCHANGED fs /\ at' = "judge" /\ hs'.restval = 0 /\ hs'.len = 0
        /\ hs'.contlen = IF r.contlen = -1 THEN -1 ELSE r.contlen + r.contrange
    BY <1>1, <1>12, CheckedWays
  <2>2. /\ err' \in {"GATEWAYTIMEOUT", "RETRFINISHED"}
        /\ r.code \notin {200, 206} \/ head_only \/ opts.spider
        /\ RETROKF' = (r.code \in {200, 206})
    BY <1>12, Zenon DEF NoBody, Wanted, Return
  <2>3. opts.spider => send_head_first
    BY <1>6, <2>1 DEF EarlyInv
  <2>4. ASSUME RETROKF', hs'.contlen # -1
        PROVE  Measured' /\ HeadJudged'
    <3>1. r.code \in {200, 206} /\ (head_only \/ opts.spider)
      BY <2>2, <2>4
    <3>2. version = 1
      BY <1>6, <2>1 DEF Undisturbed
    <3>3. r.contlen # -1
      BY <2>1, <2>4
    <3>4. Measured'
      BY <1>1, <1>6, <2>1, <3>1, <3>2, <3>3, SizedAnswer DEF Measured
    <3>5. HeadJudged'
      BY <1>6, <2>1, <2>3, <3>1 DEF HeadJudged, head_only
    <3> QED
      BY <3>4, <3>5
  <2>5. Judgeable'
    BY <2>2, <2>4 DEF Judgeable
  <2> QED
    BY <1>4, <2>1, <2>5
<1>13. CASE OpenFails(r)
  <2>1. Go(r) /\ UNCHANGED fs /\ at' = "judge" /\ err' = "FOPENERR"
    BY <1>13 DEF OpenFails, Wanted, Return
  <2> QED
    BY <1>4, <2>1 DEF Judgeable, Retryable
<1> QED
  BY <1>2, <1>3, <1>7, <1>8, <1>9, <1>10, <1>11, <1>12, <1>13

(* The bytes, when the body begins to be read.                              *)
LEMMA FileOpen ==
  ASSUME ReadInv, EarlyInv, FileInv, NEW r, Sound(r), Opened(r)
  PROVE  FileInv'
<1> SUFFICES ASSUME Undisturbed' PROVE FileFacts'
  BY DEF FileInv
<1>1. /\ HttpType /\ Go(r) /\ r.code \in {200, 206} /\ hs'.len = hs.restval /\ resp' = r
      /\ at' = "body" /\ hs.restval \in Nat /\ fs \in [0 .. MaxName -> Stored]
  BY DEF ReadInv, HttpType, Opened, Wanted, Stat
<1>2. UNCHANGED <<opts, was, version>> /\ at = "reply"
  BY <1>1 DEF Go, Heard, worldVars
<1>3. name' \in 0 .. MaxName /\ name \in 0 .. MaxName
  BY <1>1, GoFacts DEF HttpType
<1>4. fs'[name'] = IF hs.restval > 0 /\ fs[name'].mtime # -1 THEN fs[name']
                   ELSE [data |-> <<>>, mtime |-> Now]
  BY <1>1, <1>3 DEF Opened
<1>5. RightBody(resp)'
  BY <1>1, <1>2 DEF Sound, RightBody
<1>6. fs'[name'].mtime # -1 /\ Len(fs'[name'].data) = hs.restval /\ Ordered(fs'[name'].data)
  <2>1. hs.restval > 0 => name' = name
    BY <1>1, <1>2, GoFacts DEF EarlyInv, AllowClobber
  <2>2. CASE hs.restval > 0 /\ fs[name'].mtime # -1
    <3>1. name' = name /\ fs'[name] = fs[name]
      BY <1>4, <2>1, <2>2
    <3>2. Undisturbed
      BY <1>2, <3>1, Undisturbing
    <3>3. Holds(name, hs.restval)
      BY <1>2, <2>2, <3>2 DEF FileInv, FileFacts, Resumable
    <3> QED
      BY <3>1, <3>3 DEF Holds, Exists
  <2>3. CASE hs.restval = 0
    BY <1>4, <2>3, NowType, EmptyOrdered
  <2>4. CASE hs.restval > 0 /\ fs[name'].mtime = -1
    <3>1. name' = name /\ fs[name].data = <<>>
      BY <1>1, <1>3, <2>1, <2>4 DEF HttpType, Exists
    <3>2. fs'[name].data = <<>>
      BY <1>4, <2>4, <3>1
    <3>3. Undisturbed
      BY <1>2, <3>1, <3>2, Undisturbing
    <3>4. Exists(name)
      BY <1>2, <2>4, <3>3 DEF FileInv, FileFacts, Resumable, Holds
    <3> QED
      BY <2>4, <3>1, <3>4 DEF Exists
  <2> QED
    BY <1>1, <2>2, <2>3, <2>4
<1>7. hs'.contlen = -1 \/ Measured'
  <2>1. hs'.contlen = IF r.contlen = -1 THEN -1 ELSE r.contlen + r.contrange
    BY DEF Opened
  <2>2. Heard(r) /\ version = 1
    BY <1>1, <1>2 DEF Go, Undisturbed
  <2> QED
    BY <1>1, <2>1, <2>2, SizedAnswer DEF Measured
<1>8. Arriving'
  BY <1>1, <1>5, <1>6, <1>7 DEF Arriving, Holds, Exists
<1>9. InOrder' /\ Resumable' /\ Judgeable' /\ Succeeded'
  BY <1>1, <1>6 DEF InOrder, Resumable, MayRetry, Judgeable, Succeeded
<1> QED
  BY <1>8, <1>9 DEF FileFacts

(* Bytes that are appended where the file ends keep it in order.            *)
LEMMA AppendOrdered ==
  ASSUME NEW s \in Seq(Byte), NEW d \in Seq(Byte), Ordered(s), Len(s) + Len(d) <= Size[1],
         \A i \in 1 .. Len(d) : d[i] = <<1, Len(s) + i>>
  PROVE  Ordered(s \o d)
<1> DEFINE u == s \o d
           m == Len(s)
           n == Len(d)
<1>1. /\ m \in Nat /\ n \in Nat /\ Len(u) = m + n
      /\ \A i \in 1 .. m : u[i] = s[i]
      /\ \A i \in m + 1 .. m + n : u[i] = d[i - m]
  OBVIOUS
<1>2. \A i \in 1 .. m : s[i] = <<1, i>>
  BY DEF Ordered
<1> HIDE DEF u
<1>3. ASSUME NEW i \in 1 .. Len(u) PROVE u[i] = <<1, i>>
  <2>1. CASE i \in 1 .. m
    BY <1>1, <1>2, <2>1
  <2>2. CASE i \in m + 1 .. m + n
    <3>1. i - m \in 1 .. n /\ m + (i - m) = i
      BY <1>1, <2>2
    <3>2. d[i - m] = <<1, m + (i - m)>>
      BY <3>1
    <3> QED
      BY <1>1, <2>2, <3>1, <3>2
  <2> QED
    BY <1>1, <2>1, <2>2
<1>4. Len(u) <= Size[1]
  BY <1>1
<1> QED
  BY <1>3, <1>4 DEF Ordered, u

(* What write_data writes comes after what the file holds.                  *)
LEMMA WrittenInPlace ==
  ASSUME ReadInv, at = "body", Undisturbed, FileFacts, NEW k \in 1 .. Len(resp.body) - sum_read,
         NEW d \in Seq(Byte), Len(d) <= Written(k), Page \notin Range(d),
         \A i \in 1 .. Len(d) : d[i] = resp.body[sum_read + LeftOut(k) + i]
  PROVE  Ordered(fs[name].data \o d)
<1> DEFINE s == fs[name].data
           a == sum_read + LeftOut(k)
           c == resp.contrange
<1>1. /\ s \in Seq(Byte) /\ sum_read \in Nat /\ skip \in Nat /\ hs.restval \in Nat /\ hs.len \in Nat
      /\ c \in Nat /\ k \in Nat /\ resp.body \in Seq(Byte) /\ Len(resp.body) \in Nat
  <2>1. HttpType
    BY DEF ReadInv
  <2>2. fs[name] \in Stored /\ hs \in Stat /\ resp \in Reply
    BY <2>1 DEF HttpType
  <2>3. sum_read \in Nat /\ skip \in Nat
    BY <2>1 DEF HttpType
  <2>4. s \in Seq(Byte) /\ hs.restval \in Nat /\ hs.len \in Nat /\ c \in Nat
        /\ resp.body \in Seq(Byte)
    BY <2>2 DEF Stored, Stat, Reply
  <2>5. Len(resp.body) \in Nat
    BY <2>4
  <2>6. k \in Nat
    BY <2>3, <2>5
  <2> QED
    BY <2>3, <2>4, <2>5, <2>6
<1>2. Len(s) = hs.len /\ Ordered(s) /\ RightBody(resp) /\ version = 1
  BY DEF FileFacts, Arriving, Holds, Undisturbed
<1>3. CASE Len(d) = 0
  <2>1. s \o d = s
    BY <1>1, <1>3
  <2> QED
    BY <1>2, <2>1
<1>4. CASE Len(d) > 0
  <2>1. /\ a \in Nat /\ Len(d) \in Nat /\ a + Len(d) <= Len(resp.body)
        /\ LeftOut(k) = skip
    BY <1>1, <1>4 DEF LeftOut, Written
  <2>2. c + a = hs.len
    <3>1. \/ /\ c = 0
             /\ skip = IF sum_read < hs.restval THEN hs.restval - sum_read ELSE 0
             /\ hs.len = IF sum_read < hs.restval THEN hs.restval ELSE sum_read
          \/ c = hs.restval /\ skip = 0 /\ hs.len = hs.restval + sum_read
      BY DEF ReadInv, BodyInv
    <3>2. a = sum_read + skip
      BY <2>1
    <3>3. c \in Nat /\ sum_read \in Nat /\ hs.restval \in Nat
      BY <1>1
    <3> HIDE DEF a, c
    <3>4. CASE /\ c = 0
               /\ skip = IF sum_read < hs.restval THEN hs.restval - sum_read ELSE 0
               /\ hs.len = IF sum_read < hs.restval THEN hs.restval ELSE sum_read
      <4>1. a = hs.len
        BY <3>2, <3>3, <3>4
      <4> QED
        BY <1>1, <3>4, <4>1
    <3>5. CASE c = hs.restval /\ skip = 0 /\ hs.len = hs.restval + sum_read
      <4>1. a = sum_read
        BY <3>2, <3>3, <3>5
      <4> QED
        BY <3>3, <3>5, <4>1
    <3> QED
      BY <3>1, <3>4, <3>5
  <2>3. ASSUME resp.body = <<Page>> PROVE FALSE
    <3>1. Len(resp.body) = 1 /\ resp.body[1] = Page
      BY <2>3
    <3>2. a = 0
      BY <1>4, <2>1, <3>1
    <3>3. d[1] = resp.body[a + 1]
      BY <1>4, <2>1
    <3> HIDE DEF a
    <3>4. d[1] = Page /\ 1 \in DOMAIN d
      BY <1>4, <2>1, <3>1, <3>2, <3>3
    <3> QED
      BY <3>4 DEF Range
  <2>4. /\ Len(resp.body) + c <= Size[1]
        /\ \A i \in 1 .. Len(resp.body) : resp.body[i] = <<1, c + i>>
    BY <1>2, <2>3 DEF RightBody
  <2>5. ASSUME NEW i \in 1 .. Len(d) PROVE d[i] = <<1, Len(s) + i>>
    <3>1. a + i \in 1 .. Len(resp.body) /\ c + (a + i) = hs.len + i
      <4>1. i \in Nat /\ i >= 1 /\ i <= Len(d) /\ c \in Nat /\ Len(resp.body) \in Nat
        BY <1>1, <2>1
      <4> HIDE DEF a, c
      <4>2. c + (a + i) = hs.len + i
        BY <1>1, <2>1, <2>2, <4>1
      <4>3. a + i \in 1 .. Len(resp.body)
        BY <2>1, <4>1
      <4> QED
        BY <4>2, <4>3
    <3>2. d[i] = resp.body[a + i] /\ resp.body[a + i] = <<1, c + (a + i)>>
      BY <2>4, <3>1
    <3> QED
      BY <1>2, <3>1, <3>2
  <2>6. Len(s) + Len(d) <= Size[1]
    <3>1. Size[1] \in Nat /\ c \in Nat
      BY <1>1, NowType, EntityBytes
    <3>2. Len(s) = c + a
      BY <1>2, <2>2
    <3> HIDE DEF a, c, s
    <3> QED
      BY <1>1, <2>1, <2>4, <3>1, <3>2
  <2> HIDE DEF s
  <2> QED
    BY <1>1, <1>2, <2>5, <2>6, AppendOrdered DEF s
<1>5. Len(d) \in Nat
  OBVIOUS
<1> QED
  BY <1>3, <1>4, <1>5

(* The bytes, while the body is read.                                       *)
LEMMA FileRead ==
  ASSUME ReadInv, FileInv, NEW k, ReadRule(k)
  PROVE  FileInv'
<1> SUFFICES ASSUME Undisturbed' PROVE FileFacts'
  BY DEF FileInv
<1>1. /\ HttpType /\ fs \in [0 .. MaxName -> Stored] /\ name \in 0 .. MaxName
      /\ fs[name].data \in Seq(Byte) /\ fs[name].mtime \in Int
  BY DEF ReadInv, HttpType, Stored
<1>2. /\ UNCHANGED <<opts, was, version, short, name, resp>> /\ at = "body" /\ hs'.contlen = hs.contlen
      /\ at' = "body" \/ (at' = "judge" /\ err' = "FWRITEERR")
      /\ k \in 1 .. Len(resp.body) - sum_read
      /\ hs'.len = hs.len + Written(k)
  BY DEF ReadRule, SameAnswer, worldVars, loopVars
<1>3. PICK d \in Seq(Byte), t \in Int :
       /\ Len(d) <= Written(k)
       /\ \A i \in 1 .. Len(d) : d[i] = resp.body[sum_read + LeftOut(k) + i]
       /\ t = Now \/ (d = <<>> /\ t = fs[name].mtime)
       /\ fs' = [fs EXCEPT ![name] = [data |-> fs[name].data \o d, mtime |-> t]]
       /\ at' = "body" => Len(d) = Written(k)
  BY Zenon DEF ReadRule
<1> DEFINE s == fs[name].data
           u == s \o d
<1>4. fs'[name'] = [data |-> u, mtime |-> t]
  BY <1>1, <1>2, <1>3
<1>5. /\ Len(u) = Len(s) + Len(d) /\ Range(s) \subseteq Range(u) /\ Range(d) \subseteq Range(u)
  <2>1. /\ Len(u) = Len(s) + Len(d) /\ Len(s) \in Nat /\ Len(d) \in Nat
        /\ DOMAIN u = 1 .. Len(u) /\ DOMAIN s = 1 .. Len(s) /\ DOMAIN d = 1 .. Len(d)
        /\ \A i \in 1 .. Len(s) : u[i] = s[i]
        /\ \A i \in 1 .. Len(d) : u[Len(s) + i] = d[i]
    BY <1>1
  <2> HIDE DEF u, s
  <2>2. ASSUME NEW i \in DOMAIN s PROVE \E j \in DOMAIN u : s[i] = u[j]
    <3>1. i \in DOMAIN u /\ u[i] = s[i]
      BY <2>1
    <3> QED
      BY <3>1
  <2>3. ASSUME NEW i \in DOMAIN d PROVE \E j \in DOMAIN u : d[i] = u[j]
    <3>1. Len(s) + i \in DOMAIN u /\ u[Len(s) + i] = d[i]
      BY <2>1
    <3> QED
      BY <3>1
  <2>4. Range(s) \subseteq Range(u)
    BY <2>2, Zenon DEF Range
  <2>5. Range(d) \subseteq Range(u)
    BY <2>3, Zenon DEF Range
  <2> QED
    BY <2>1, <2>4, <2>5
<1>6. {Foreign, Page} \cap Range(u) = {} /\ fs'[name'].data = u
  BY <1>4 DEF Undisturbed
<1>7. Undisturbed /\ Page \notin Range(d)
  BY <1>2, <1>5, <1>6 DEF Undisturbed
<1>8. FileFacts
  BY <1>7 DEF FileInv
<1>9. Ordered(u)
  BY <1>2, <1>3, <1>7, <1>8, WrittenInPlace
<1>10. /\ Exists(name) /\ Len(s) = hs.len /\ RightBody(resp)
       /\ hs.contlen = -1 \/ Measured
  BY <1>2, <1>8 DEF FileFacts, Arriving, Holds
<1>11. t # -1
  BY <1>3, <1>10, NowType DEF Exists
<1> HIDE DEF u, s
<1>12. Arriving'
  <2> SUFFICES ASSUME at' = "body"
               PROVE  Holds(name, hs.len)' /\ RightBody(resp)' /\ (hs.contlen = -1 \/ Measured)'
    BY DEF Arriving
  <2>1. Len(u) = hs'.len
    BY <1>2, <1>3, <1>5, <1>10
  <2>2. fs'[name'].mtime = t
    BY <1>4
  <2>3. Holds(name, hs.len)'
    BY <1>6, <1>9, <1>11, <2>1, <2>2 DEF Holds, Exists
  <2>4. RightBody(resp)'
    BY <1>2, <1>10 DEF RightBody
  <2>5. (hs.contlen = -1 \/ Measured)'
    BY <1>2, <1>10 DEF Measured
  <2> QED
    BY <2>3, <2>4, <2>5
<1>13. InOrder'
  BY <1>6, <1>9 DEF InOrder
<1>14. Resumable' /\ Judgeable' /\ Succeeded'
  BY <1>2 DEF Resumable, MayRetry, Retryable, Judgeable, Succeeded
<1> QED
  BY <1>12, <1>13, <1>14 DEF FileFacts

(* The bytes, at the end of the body.                                       *)
LEMMA FileEnd ==
  ASSUME ReadInv, EarlyInv, FileInv, BodyRead \/ LastChunk \/ EndOfFile \/ ReadError
  PROVE  FileInv'
<1> SUFFICES ASSUME Undisturbed' PROVE FileFacts'
  BY DEF FileInv
<1>1. HttpType
  BY DEF ReadInv
<1>2. PICK res \in Int : \E unread : BodyEnds(res, unread)
  BY EndResult
<1>3. PICK unread : EndRule(unread)
  BY <1>1, <1>2, EndWays
<1>4. /\ UNCHANGED <<opts, was, version, short, name, fs, send_head_first, got_head>> /\ at = "body"
      /\ at' = "judge" /\ err' = "RETRFINISHED"
      /\ hs'.len = hs.len /\ hs'.restval = hs.restval /\ hs'.contlen = hs.contlen
  BY <1>3 DEF EndRule, SameAnswer, worldVars, loopVars
<1>5. InOrder' /\ FileFacts /\ Undisturbed
  BY <1>1, <1>4, QuietOrder
<1>6. Holds(name, hs.len) /\ RightBody(resp) /\ version = 1
  BY <1>4, <1>5 DEF FileFacts, Arriving, Undisturbed
<1>7. Holds(name, hs.len)'
  BY <1>4, <1>6 DEF Holds, Exists
<1>8. /\ hs.len \in Nat /\ hs.restval \in Nat /\ sum_read \in Nat /\ resp.contrange \in Nat
      /\ Len(resp.body) \in Nat
  BY <1>1 DEF HttpType, Stat, Reply
<1>9. hs.len >= hs.restval
  BY <1>4, <1>8 DEF ReadInv, BodyInv
<1>10. Resumable'
  BY <1>4, <1>7, <1>8, <1>9 DEF Resumable
<1>11. hs.contlen # -1 => Measured'
  BY <1>4, <1>5 DEF FileFacts, Arriving, Measured
<1>12. Judgeable'
  BY <1>4, <1>7, <1>11 DEF Judgeable
<1>13. Arriving' /\ Succeeded'
  BY <1>4 DEF Arriving, Succeeded
<1> QED
  BY <1>5, <1>10, <1>12, <1>13 DEF FileFacts

(* The bytes, after gethttp.                                                *)
LEMMA FileSwitch ==
  ASSUME ReadInv, EarlyInv, FileInv, SwitchRetry \/ SwitchLeave \/ SwitchRedirect \/ JudgeStatus
  PROVE  FileInv'
<1> SUFFICES ASSUME Undisturbed' PROVE FileFacts'
  BY DEF FileInv
<1>1. HttpType /\ hs \in Stat
  BY DEF ReadInv, HttpType
<1>2. /\ UNCHANGED <<opts, was, version, short, name, fs>> /\ at = "judge" /\ FreeHstat(hs)
  BY Zenon DEF SwitchRetry, SwitchLeave, SwitchRedirect, JudgeStatus, Judged, worldVars
<1>3. InOrder' /\ FileFacts
  BY <1>1, <1>2, QuietOrder
<1>4. at' \in {"try", "retrieve", "done"}
  BY AgainFacts DEF SwitchRetry, SwitchLeave, SwitchRedirect, JudgeStatus, Finish
<1>5. ASSUME at' = "try" PROVE UNCHANGED hs /\ err \in Retryable \cup {"RETRFINISHED"}
  <2>1. UNCHANGED hs
    BY <1>1, <1>2, <1>5, FreedType
  <2>2. err \in Retryable \cup {"RETRFINISHED"}
    BY <1>5 DEF SwitchRetry, SwitchLeave, SwitchRedirect, JudgeStatus, Finish
  <2> QED
    BY <2>1, <2>2
<1>6. Resumable'
  <2>1. CASE at' = "try"
    BY <1>2, <1>3, <1>5, <2>1 DEF FileFacts, Resumable, MayRetry, Holds, Exists
  <2>2. CASE at' # "try"
    BY <1>4, <2>2 DEF Resumable, MayRetry
  <2> QED
    BY <2>1, <2>2
<1>7. ASSUME at' = "done", ret' = "RETROK", how' \in {"saved", "unneeded"}
      PROVE  fs[name].data = Entity(1) \/ short
  <2>1. SwitchLeave
    BY <1>7 DEF SwitchRetry, SwitchRedirect, JudgeStatus, Finish, Again
  <2>2. err = "RETRUNNEEDED" /\ ~(cond_get /\ hs.statcode # 416)
    BY <1>7, <2>1 DEF SwitchLeave, Finish, Fatal
  <2> QED
    BY <1>2, <1>3, <2>2 DEF FileFacts, Judgeable
<1>8. Arriving' /\ Judgeable' /\ Succeeded'
  BY <1>2, <1>4, <1>7 DEF Arriving, Judgeable, Succeeded
<1> QED
  BY <1>3, <1>6, <1>8 DEF FileFacts

(* The bytes, after a HEAD.                                                 *)
LEMMA FileHead ==
  ASSUME ReadInv, EarlyInv, FileInv, JudgeHead
  PROVE  FileInv'
<1> SUFFICES ASSUME Undisturbed' PROVE FileFacts'
  BY DEF FileInv
<1>1. HttpType /\ HeadRule /\ hs.orig \in Stored /\ hs.remote_time \in Int /\ hs.contlen \in Nat \cup {-1}
  BY HeadWays DEF ReadInv, HttpType, Stat
<1>2. /\ UNCHANGED <<opts, was, version, short, name, fs>> /\ at = "judge" /\ err = "RETRFINISHED"
      /\ RETROKF /\ HeadJudged
  BY Zenon DEF JudgeHead, Judged, worldVars
<1>3. InOrder' /\ FileFacts
  BY <1>1, <1>2, QuietOrder
<1>4. ASSUME at' = "done", ret' = "RETROK", how' \in {"saved", "unneeded"}, ~short
      PROVE  fs[name].data = Entity(1)
  <2>1. /\ hs.contlen # -1 /\ hs.remote_time # NoTime
        /\ hs.orig.mtime >= hs.remote_time
        /\ hs.contlen \in {-1, Len(hs.orig.data)}
    BY <1>1, <1>4 DEF HeadRule
  <2>2. hs.remote_time >= 1 /\ (hs.orig.mtime = -1 \/ hs.orig = fs[name])
    BY <1>2, <2>1 DEF EarlyInv
  <2>3. hs.orig = fs[name] /\ fs[name].mtime >= 1
    BY <1>1, <2>1, <2>2 DEF Stored
  <2>4. hs.contlen = Size[1]
    BY <1>2, <1>3, <1>4, <2>1 DEF FileFacts, Judgeable, Measured
  <2>5. Ordered(fs[name].data)
    BY <1>2, <1>3, <2>3 DEF FileFacts, InOrder
  <2>6. fs[name].data \in Seq(Byte) /\ Len(fs[name].data) = Size[1] /\ Size[1] \in Nat
    BY <1>1, <2>1, <2>3, <2>4, NowType, EntityBytes DEF Stored
  <2> QED
    BY <2>5, <2>6, OrderedPrefix
<1>5. Resumable'
  <2>1. CASE at' = "done"
    BY <2>1 DEF Resumable, MayRetry
  <2>2. CASE at' = "try" /\ hs'.restval = hs.restval /\ hs'.len = hs.len
    BY <1>2, <1>3, <2>2 DEF FileFacts, Resumable, MayRetry, Holds, Exists
  <2> QED
    BY <1>1, <2>1, <2>2 DEF HeadRule
<1>6. at' \in {"done", "try"}
  BY <1>1 DEF HeadRule
<1>7. Arriving' /\ Judgeable' /\ Succeeded'
  BY <1>2, <1>4, <1>6 DEF Arriving, Judgeable, Succeeded
<1> QED
  BY <1>3, <1>5, <1>7 DEF FileFacts

(* The bytes, after a body.                                                 *)
LEMMA FileBody ==
  ASSUME ReadInv, FileInv, JudgeBody
  PROVE  FileInv'
<1> SUFFICES ASSUME Undisturbed' PROVE FileFacts'
  BY DEF FileInv
<1>1. /\ HttpType /\ BodyRule /\ fs \in [0 .. MaxName -> Stored] /\ name \in 0 .. MaxName
      /\ hs.len \in Nat /\ fs[name].data \in Seq(Byte)
  BY BodyWays DEF ReadInv, HttpType, Stat, Stored
<1>2. /\ UNCHANGED <<opts, was, version, short, name>> /\ at = "judge" /\ err = "RETRFINISHED"
      /\ RETROKF /\ ~HeadJudged /\ fs' = Touched
  BY <1>1 DEF BodyRule, Judged, worldVars
<1>3. fs'[name].data = fs[name].data
  <2>1. ASSUME NEW t \in Int,
               fs' = [fs EXCEPT ![name] = [data |-> fs[name].data, mtime |-> t]]
        PROVE  fs'[name].data = fs[name].data
    BY <1>1, <2>1
  <2>2. \/ fs' = fs
        \/ \E t \in Int : fs' = [fs EXCEPT ![name] = [data |-> fs[name].data, mtime |-> t]]
    BY <1>1, <1>2, TouchedTime
  <2> QED
    BY <2>1, <2>2, Zenon
<1>4. FileFacts
  BY <1>2, <1>3, Undisturbing DEF FileInv
<1>5. CASE at' = "try" /\ UNCHANGED <<hs, fs>>
  <2>1. InOrder' /\ Resumable'
    BY <1>2, <1>4, <1>5 DEF FileFacts, InOrder, Resumable, MayRetry, Holds, Exists
  <2>2. Arriving' /\ Judgeable' /\ Succeeded'
    BY <1>5 DEF Arriving, Judgeable, Succeeded
  <2> QED
    BY <2>1, <2>2 DEF FileFacts
<1>6. CASE at' = "done" /\ (hs.len = hs.contlen \/ ret' # "RETROK" \/ how' \in {"unsized", "longer"})
  <2>1. InOrder' /\ Resumable' /\ Arriving' /\ Judgeable'
    BY <1>2, <1>3, <1>4, <1>6 DEF FileFacts, InOrder, Resumable, MayRetry, Arriving, Judgeable
  <2>2. ASSUME hs.len = hs.contlen, ~short PROVE fs[name].data = Entity(1)
    <3>1. hs.contlen = Size[1] /\ Holds(name, hs.len)
      BY <1>1, <1>2, <1>4, <2>2 DEF FileFacts, Judgeable, Measured
    <3> QED
      BY <1>1, <2>2, <3>1, OrderedPrefix DEF Holds
  <2>3. Succeeded'
    BY <1>2, <1>3, <1>6, <2>2 DEF Succeeded
  <2> QED
    BY <2>1, <2>3 DEF FileFacts
<1> QED
  BY <1>1, <1>5, <1>6 DEF BodyRule

(* Every step keeps FileInv.                                                *)
LEMMA FileStep ==
  ASSUME ReadInv, EarlyInv, FileInv, [HttpNext]_httpVars
  PROVE  FileInv'
<1>1. HttpType
  BY DEF ReadInv
<1>2. CASE UNCHANGED httpVars
  <2>1. UNCHANGED <<opts, was, version, short, name, fs, at, hs, resp, err, RETROKF, ret, how, cond_get,
                    send_head_first, got_head>>
    BY <1>2 DEF httpVars, worldVars, readVars, loopVars
  <2> SUFFICES ASSUME Undisturbed' PROVE FileFacts'
    BY DEF FileInv
  <2>2. FileFacts
    BY <2>1, Undisturbing DEF FileInv
  <2>3. InOrder' /\ Resumable'
    BY <2>1, <2>2 DEF FileFacts, InOrder, Resumable, MayRetry, Holds, Exists
  <2>4. Arriving' /\ Judgeable' /\ Succeeded'
    BY <2>1, <2>2 DEF FileFacts, Arriving, RightBody, Judgeable, Measured, HeadJudged, Succeeded, Holds,
      Exists
  <2> QED
    BY <2>3, <2>4 DEF FileFacts
<1>3. ASSUME NEW r \in Answers, Answer(r) PROVE FileInv'
  <2>1. Sound(r) /\ r \in Reply
    BY <1>1, AnswersSound DEF Sound
  <2>2. OpenOutput(r) => Opened(r) \/ OpenFails(r)
    BY <1>1, <2>1, OpenOutputWays
  <2> QED
    BY <1>3, <2>1, <2>2, FileAnswer, FileOpen DEF Answer
<1>4. ASSUME NEW k, ReadWrite(k) PROVE FileInv'
  <2>1. ReadRule(k)
    BY <1>1, <1>4, ReadWays DEF ReadInv
  <2> QED
    BY <2>1, FileRead
<1> QED
  BY <1>2, <1>3, <1>4, FileConnect, FileEnd, FileSwitch, FileHead, FileBody DEF HttpNext, Wget

(* What the whole of the argument rests on.                                 *)
THEOREM FileInvHolds == HttpSpec => []FileInv
<1>1. HttpInit => EarlyInv /\ FileInv
  <2> SUFFICES ASSUME HttpInit PROVE EarlyInv /\ FileInv
    OBVIOUS
  <2>1. /\ fs[name] = was /\ at = "retrieve" /\ was \in Starts
    BY HttpAssumption DEF HttpInit
  <2>2. was.mtime >= 1 => Ordered(was.data)
    BY <2>1, StartType
  <2>3. InOrder
    BY <2>1, <2>2 DEF InOrder
  <2>4. Resumable /\ Arriving /\ Judgeable /\ Succeeded
    BY <2>1 DEF Resumable, MayRetry, Arriving, Judgeable, Succeeded
  <2> QED
    BY <2>1, <2>3, <2>4 DEF EarlyInv, FileInv, FileFacts
<1>2. ReadInv /\ EarlyInv /\ [HttpNext]_httpVars => EarlyInv'
  BY EarlyStep
<1>3. ReadInv /\ EarlyInv /\ FileInv /\ [HttpNext]_httpVars => FileInv'
  BY FileStep
<1> QED
  BY <1>1, <1>2, <1>3, ReadInvHolds, PTL DEF HttpSpec

(* Whatever the server sends and wherever it breaks off, fd_read_body and   *)
(* http_loop leave a beginning of the server's file in the local one, for   *)
(* any size and any number of tries: no gap, no byte twice, none out of     *)
(* order.                                                                   *)
THEOREM BytesInOrderHolds == HttpSpec => []BytesInOrder
<1>1. ReadInv /\ FileInv => BytesInOrder
  <2> SUFFICES ASSUME ReadInv, FileInv, Undisturbed
               PROVE  fs[name].data = was.data \/ IsPrefix(fs[name].data, Entity(1))
    BY DEF BytesInOrder
  <2>1. fs[name].data \in Seq(Byte)
    BY DEF ReadInv, HttpType, Stored
  <2>2. fs[name].data = was.data \/ Ordered(fs[name].data)
    BY DEF FileInv, FileFacts, InOrder
  <2> QED
    BY <2>1, <2>2, OrderedPrefix
<1> QED
  BY <1>1, ReadInvHolds, FileInvHolds, PTL

(* Where http_loop returns RETROK, the length was known and the last answer *)
(* did not announce less than the file, the local file is the server's,     *)
(* whole: after a body, after a range that was complete, and after a        *)
(* time-stamp and a length that matched.                                    *)
THEOREM WholeOnSuccessHolds == HttpSpec => []WholeOnSuccess
<1> DEFINE Returned == at = "done" \/ ret = "none"
<1>1. HttpInit => Returned
  BY DEF HttpInit
<1>2. ReadInv /\ Returned /\ [HttpNext]_httpVars => Returned'
  <2>1. UNCHANGED httpVars => UNCHANGED <<at, ret>>
    BY DEF httpVars
  <2> QED
    BY <2>1, FewSteps
<1>3. FileInv /\ Returned => WholeOnSuccess
  BY DEF FileInv, FileFacts, Succeeded, WholeOnSuccess
<1> HIDE DEF Returned
<1> QED
  BY <1>1, <1>2, <1>3, ReadInvHolds, FileInvHolds, PTL DEF HttpSpec
===============================================================================
