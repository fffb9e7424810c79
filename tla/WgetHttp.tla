------------------------------- MODULE WgetHttp -------------------------------
(***************************************************************************)
(* One retrieval of wget over HTTP: retrieve_url's chain of redirections   *)
(* (userland/wget/src/retr.c), http_loop's tries and gethttp's single      *)
(* exchange (http.c), the kept connection, and fd_read_body's reading of   *)
(* the body into the local file.                                           *)
(*                                                                         *)
(* The server may change its file, ignore, misunderstand or cut a range,   *)
(* send bodies of known, unknown or understated length, fail, answer 10x   *)
(* before it answers, or drop the connection at any byte; another process  *)
(* may create the local file.  A byte is a pair <<version, position>>, a   *)
(* Last-Modified time is a version number.  Options that the variable opts *)
(* does not mention have their defaults; there is one server and no proxy. *)
(***************************************************************************)
EXTENDS Integers, Sequences, SequencesExt

CONSTANTS
  Options,      \* the command lines considered
  Size,         \* size of each version of the server's file, from version 0
  NTry,         \* opt.ntry
  MaxRedirect,  \* opt.max_redirect
  MaxName       \* bound on the numbers that FILE.n can have

Version == DOMAIN Size

ASSUME HttpAssumption ==
  /\ \A o \in Options :
       /\ o.method \in {"GET", "POST"}
       /\ {o.always_rest, o.timestamping, o.if_modified_since, o.noclobber,
           o.spider, o.credentials, o.retry_on_503} \subseteq BOOLEAN
       /\ ~(o.timestamping /\ o.noclobber)
  /\ NTry \in Nat \ {0} /\ MaxRedirect \in Nat /\ MaxName \in Nat
  /\ Version \subseteq Nat /\ \E last \in Version : last > 0 /\ Version = 0 .. last
  /\ \A v \in Version : Size[v] \in Nat

VARIABLES
  \* retrieve_url
  opts,                 \* opt: never changes, but for opt.method
  method, saved_method, \* opt.method, and the one that SUSPEND_METHOD keeps
  redirection_count,
  \* http_loop
  at,                   \* control state
  count, got_head, send_head_first, force_full_retrieve, tmr, err, ret,
  cond_get, RETROKF,    \* the bits of *dt
  hs,                   \* hstat
  name,                 \* hstat.local_file: 0 is FILE, n is FILE.n
  \* gethttp, fd_read_body
  pconn,                \* the kept connection, and what is unread on it
  auth_finished, resp, stale, sum_read, skip,
  \* outside
  fs,                   \* the local files
  was,                  \* history: the local file at the beginning
  version,              \* the version that the server has
  short,                \* history: the last answer announced less than the file
  how                   \* history: on what ground the retrieval succeeded

urlVars  == <<method, saved_method, redirection_count>>
loopVars == <<count, got_head, send_head_first, force_full_retrieve, tmr, cond_get, name>>
readVars == <<resp, sum_read, skip>>
worldVars == <<opts, was, version, short>>
httpVars == <<urlVars, loopVars, at, err, ret, RETROKF, hs, pconn, auth_finished,
              stale, readVars, fs, worldVars, how>>

-----------------------------------------------------------------------------
(* The server's file, and the local files                                  *)

Entity(v) == [i \in 1 .. Size[v] |-> <<v, i>>]
Foreign == <<-1, 1>>       \* a byte that another process wrote
Page == <<-2, 1>>          \* a byte of an answer other than the file

NoFile == [data |-> <<>>, mtime |-> -1]
NoTime == -1
Now == 1 + CHOOSE m \in Version : \A v \in Version : v <= m
Exists(n) == fs[n].mtime # -1

AllowClobber == opts.noclobber \/ opts.always_rest \/ opts.timestamping

\* left by a complete earlier run at version 0, or by a broken one at version 1;
\* a file that is never written is only in the way, whatever it holds
Starts ==
  {NoFile, [data |-> Entity(0), mtime |-> 0]}
    \cup {[data |-> SubSeq(Entity(1), 1, k), mtime |-> Now] :
            k \in IF AllowClobber THEN 1 .. Size[1] ELSE {}}

FreeName == \E n \in 0 .. MaxName : ~Exists(n)

\* unique_name_passthrough, while there is a FreeName
Unique ==
  CHOOSE n \in 0 .. MaxName : ~Exists(n) /\ \A m \in 0 .. n - 1 : Exists(m)

head_only == send_head_first /\ ~got_head

NoStat == [restval |-> 0, len |-> 0, contlen |-> 0, res |-> 0, statcode |-> 0,
           remote_time |-> NoTime, newloc |-> FALSE, orig |-> NoFile,
           existence_checked |-> FALSE, timestamp_checked |-> FALSE]
NoResp == [code |-> 0, framing |-> "length", close |-> TRUE, contlen |-> -1,
           contrange |-> 0, body |-> <<>>, lm |-> NoTime, location |-> FALSE]

HttpInit ==
  /\ opts \in Options
  /\ method = opts.method /\ saved_method = "none" /\ redirection_count = 0
  /\ at = "retrieve"
  /\ count = 0 /\ got_head = FALSE /\ send_head_first = FALSE
  /\ force_full_retrieve = FALSE /\ tmr = NoTime /\ err = "none" /\ ret = "none"
  /\ cond_get = FALSE /\ RETROKF = FALSE
  /\ hs = NoStat /\ name = 0
  /\ pconn = "closed" /\ auth_finished = FALSE
  /\ resp = NoResp /\ stale = FALSE /\ sum_read = 0 /\ skip = 0
  /\ was \in Starts
  /\ fs = [n \in 0 .. MaxName |-> IF n = 0 THEN was ELSE NoFile]
  /\ version = 1 /\ short = FALSE /\ how = "none"

-----------------------------------------------------------------------------
(* retrieve_url and http_loop, up to gethttp                               *)

\* RESTORE_METHOD, and the return of retrieve_url
Finish(r, ground) ==
  /\ ret' = r /\ how' = ground /\ at' = "done"
  /\ method' = IF saved_method = "none" THEN method ELSE saved_method
  /\ saved_method' = "none"
  /\ UNCHANGED redirection_count

\* http_loop up to its loop: the name, -nc, and whether to ask first
Begin ==
  LET n == IF AllowClobber THEN 0 ELSE Unique
      old == fs[n].mtime # -1
      cond == opts.timestamping /\ opts.if_modified_since /\ ~opts.spider /\ old
  IN
  /\ at = "retrieve"
  /\ AllowClobber \/ FreeName
  /\ name' = n
  /\ \/ /\ old /\ opts.noclobber
        /\ Finish("RETROK", "present")
        /\ UNCHANGED <<count, got_head, send_head_first, force_full_retrieve, tmr,
                       cond_get, hs>>
     \/ /\ ~(old /\ opts.noclobber)
        /\ at' = "try"
        /\ count' = 0 /\ got_head' = FALSE /\ force_full_retrieve' = FALSE
        /\ tmr' = NoTime
        /\ cond_get' = cond
        /\ send_head_first' = (opts.spider \/ (opts.timestamping /\ old /\ ~cond))
        /\ hs' = [NoStat EXCEPT !.orig = IF cond THEN fs[n] ELSE NoFile,
                                !.timestamp_checked = cond]
        /\ UNCHANGED <<urlVars, ret, how>>
  /\ UNCHANGED <<err, RETROKF, pconn, auth_finished, stale, readVars, fs, worldVars>>

\* Mutant: with -c too, a later try continues from what the last one got.
RestartFromLen ==
  IF opts.always_rest /\ Exists(name) /\ count = 0 THEN Len(fs[name].data) ELSE hs.len

\* Decide whether or not to restart
Restart ==
  CASE force_full_retrieve -> hs.len
    [] ~force_full_retrieve /\ opts.always_rest /\ Exists(name) -> Len(fs[name].data)
    [] OTHER ->
         IF count = 0 THEN 0
         ELSE IF hs.len < hs.restval THEN hs.restval - hs.len ELSE hs.len

\* a pass of the loop, and the beginning of gethttp
Try ==
  /\ at = "try"
  /\ count' = count + 1 /\ err' = "none"
  /\ hs' = [hs EXCEPT !.restval = Restart, !.len = 0, !.contlen = -1, !.res = -1,
                      !.remote_time = NoTime, !.newloc = FALSE, !.statcode = 0]
  /\ auth_finished' = FALSE
  /\ at' = "connect"
  /\ UNCHANGED <<urlVars, got_head, send_head_first, force_full_retrieve, tmr, cond_get,
                 name, ret, RETROKF, pconn, stale, readVars, fs, worldVars, how>>

-----------------------------------------------------------------------------
(* gethttp: the connection and the request                                 *)

\* establish_connection: persistent_available_p, or connect_to_host.  pconn
\* says what is unread on the kept connection, which test_socket_open notices
\* only if it has arrived; one that has ended, or is in use, counts as closed.
Connect ==
  /\ at = "connect"
  /\ pconn' = "closed"
  /\ \/ /\ pconn # "closed"
        /\ stale' = (pconn # "clean")
        /\ RETROKF' = FALSE /\ at' = "reply"
        /\ UNCHANGED err
     \/ /\ stale' = FALSE
        /\ RETROKF' = FALSE /\ at' = "reply"
        /\ UNCHANGED err
     \/ /\ stale' = FALSE
        /\ err' \in {"CONERROR", "HOSTERR"}
        /\ at' = "judge"
        /\ UNCHANGED RETROKF
  /\ UNCHANGED <<urlVars, loopVars, ret, hs, auth_finished, readVars, fs,
                 worldVars, how>>

\* request_send or read_http_response_head fails: CLOSE_INVALIDATE
NoReply ==
  /\ at = "reply"
  /\ pconn' = "closed"
  /\ err' = "HEOF"
  /\ at' = "judge"
  /\ UNCHANGED <<urlVars, loopVars, ret, RETROKF, hs, auth_finished, stale, readVars,
                 fs, worldVars, how>>

\* "Repeat while we receive a 10x response code": the head is read again
Interim ==
  /\ \/ at = "reply" /\ ~stale /\ at' = "repeat"
     \/ at = "repeat" /\ at' = "reply"
  /\ UNCHANGED <<urlVars, loopVars, err, ret, RETROKF, hs, pconn, auth_finished, stale,
                 readVars, fs, worldVars, how>>

\* What the server may say (external): how the body ends, and whether there is
\* a "Connection: Close".  A body of chunks or up to the end of the connection
\* has no Content-Length; Content-Range gives one.
Frames ==
  {<<"length", FALSE>>, <<"length", TRUE>>, <<"chunked", FALSE>>, <<"unframed", FALSE>>}
PageFrames == {<<"length", FALSE>>, <<"chunked", FALSE>>, <<"unframed", FALSE>>}

Say(code, body, first, f, lm) ==
  [code |-> code, framing |-> f[1], close |-> f[2],
   contlen |-> IF f[1] = "length" \/ code = 206 THEN Len(body) ELSE -1,
   contrange |-> first, body |-> body, lm |-> lm, location |-> FALSE]

Part(first, last) == SubSeq(Entity(version), first + 1, last)

Stamps == IF opts.timestamping THEN {NoTime, version} ELSE {NoTime}

\* Where a range may begin and end: as asked, misunderstood, or cut
Ranges ==
  {g \in {hs.restval, hs.restval - 1} \X (1 .. Size[version]) :
     0 <= g[1] /\ 0 < hs.restval /\ g[1] < g[2]}

\* The whole file, a range of it, the whole file in chunks with a Content-Length
\* that understates it, or the news that there is nothing more
FileAnswers ==
  {Say(200, Entity(version), 0, f, lm) : f \in Frames, lm \in Stamps}
  \cup {Say(206, Part(g[1], g[2]), g[1], f, lm) : f \in Frames, lm \in Stamps, g \in Ranges}
  \cup {[Say(200, Entity(version), 0, <<"chunked", FALSE>>, lm) EXCEPT !.contlen = n] :
          n \in 0 .. Size[version] - 1, lm \in Stamps}
  \cup {Say(c, <<>>, 0, <<"length", FALSE>>, NoTime) : c \in
          {204} \cup (IF cond_get /\ version <= hs.orig.mtime THEN {304} ELSE {})
                \cup (IF 0 < hs.restval /\ Size[version] <= hs.restval THEN {416} ELSE {})}

RedirectAnswers ==
  {[Say(c, <<Page>>, 0, f, NoTime) EXCEPT !.location = l] :
     c \in {302, 307}, f \in PageFrames, l \in BOOLEAN}

ErrorAnswers ==
  {Say(c, <<Page>>, 0, f, NoTime) : c \in {401, 404, 500, 503, 504}, f \in PageFrames}

\* Bytes that are no status line are taken for an HTTP/0.9 answer
Answers ==
  IF stale THEN {Say(200, <<Page>>, 0, <<"unframed", FALSE>>, NoTime)}
  ELSE FileAnswers \cup RedirectAnswers \cup ErrorAnswers

-----------------------------------------------------------------------------
(* gethttp: the answer                                                     *)

\* register_persistent and CLOSE_FINISH, when n bytes of the body were read: a
\* body that has not been read to its end stays on the connection.
\* CLOSE_INVALIDATE leaves "closed".
CloseFinish(r, n) ==
  IF r.close THEN "closed"
  ELSE IF n = Len(r.body) /\ r.framing # "unframed" THEN "clean" ELSE r.framing

\* Mutant: a body that is not worth skipping does not end the connection.
SkipNothing(r) == {CloseFinish(r, 0)}

\* After the last chunk one line is read; more trailers stay on the connection
AfterChunks == {"clean", "tail"}

\* keep_alive && skip_short_body (...) ? CLOSE_FINISH : CLOSE_INVALIDATE.  A body
\* that ends with the connection is not skipped at all: contlen is -1.  When the
\* line that begins a chunk does not come, the loop is left and true returned:
\* the connection has ended, or brings the rest of the body later.
SkipShortBody(r) ==
  IF r.close THEN {"closed"}
  ELSE IF r.framing = "chunked" THEN AfterChunks \cup {"late", "closed"}
  ELSE IF r.contlen = -1 THEN {CloseFinish(r, 0)}
  ELSE {CloseFinish(r, Len(r.body)), "closed"}

Return(e) == err' = e /\ at' = "judge"

\* check_file_output
NameTaken == ~hs.existence_checked /\ Exists(name)
StampNow == opts.timestamping /\ ~hs.timestamp_checked /\ Exists(name)
Checked(r) ==
  [hs EXCEPT !.existence_checked = TRUE,
             !.orig = IF StampNow THEN fs[name] ELSE @,
             !.timestamp_checked = @ \/ StampNow,
             !.statcode = r.code, !.remote_time = r.lm, !.newloc = r.location]
Nothing(h) == [h EXCEPT !.len = 0, !.res = 0, !.restval = 0]

\* entity_length is parsed and not looked at
Short(r) ==
  r.code \in {200, 206} /\ r.contlen # -1 /\ r.contrange + r.contlen < Size[version]

Heard(r) ==
  /\ at = "reply"
  /\ short' = Short(r)
  /\ UNCHANGED <<urlVars, count, got_head, send_head_first, force_full_retrieve, tmr,
                 cond_get, ret, stale, opts, was, version, how>>

Unauthorized(r) ==
  /\ Heard(r) /\ r.code = 401
  /\ pconn' \in IF head_only THEN {"closed"} ELSE SkipShortBody(r)
  /\ RETROKF' = FALSE
  /\ \/ /\ opts.credentials /\ ~auth_finished
        /\ auth_finished' = TRUE /\ at' = "connect"
        /\ UNCHANGED err
     \/ /\ ~(opts.credentials /\ ~auth_finished)
        /\ Return("AUTHFAILED")
        /\ UNCHANGED auth_finished
  /\ UNCHANGED <<hs, name, readVars, fs>>

\* check_file_output returns RETRUNNEEDED, and the socket is forgotten
FileAppeared(r) ==
  /\ Heard(r) /\ r.code # 401
  /\ NameTaken /\ opts.noclobber
  /\ pconn' = CloseFinish(r, 0)
  /\ RETROKF' = FALSE
  /\ Return("RETRUNNEEDED")
  /\ UNCHANGED <<hs, name, auth_finished, readVars, fs>>

Go(r) ==
  /\ Heard(r) /\ r.code # 401
  /\ ~(NameTaken /\ opts.noclobber)
  /\ AllowClobber \/ FreeName
  /\ name' = IF NameTaken /\ ~AllowClobber THEN Unique ELSE name
  /\ UNCHANGED auth_finished

NoContent(r) ==
  /\ Go(r) /\ r.code = 204
  /\ hs' = Nothing(Checked(r))
  /\ RETROKF' = TRUE
  /\ pconn' = CloseFinish(r, 0)
  /\ Return("RETRFINISHED")
  /\ UNCHANGED <<readVars, fs>>

\* opt.method is NULL for GET, so 302 keeps neither of the two methods
Redirected(r) ==
  /\ Go(r) /\ r.code \in {302, 307}
  /\ hs' = Nothing(Checked(r))
  /\ RETROKF' = FALSE
  /\ pconn' \in IF head_only THEN {"closed"} ELSE SkipShortBody(r)
  /\ Return(IF r.code = 307 THEN "NEWLOCATION_KEEP_POST" ELSE "NEWLOCATION")
  /\ UNCHANGED <<readVars, fs>>

NotModified(r) ==
  /\ Go(r) /\ r.code = 304 /\ cond_get
  /\ hs' = Checked(r)
  /\ RETROKF' = TRUE
  /\ pconn' = CloseFinish(r, 0)
  /\ Return("RETRUNNEEDED")
  /\ UNCHANGED <<readVars, fs>>

\* the server ignores If-Modified-Since
ConditionIgnored(r) ==
  /\ cond_get /\ r.code = 200
  /\ r.lm # NoTime /\ r.lm <= Checked(r).orig.mtime
  /\ r.contlen \in {-1, Len(Checked(r).orig.data)}

StillCurrent(r) ==
  /\ Go(r) /\ ConditionIgnored(r)
  /\ hs' = Checked(r)
  /\ RETROKF' = TRUE
  /\ pconn' = "closed"
  /\ Return("RETRUNNEEDED")
  /\ UNCHANGED <<readVars, fs>>

Complete(r) ==
  \/ r.code = 416
  \/ /\ ~opts.timestamping /\ hs.restval > 0 /\ r.code = 200
     /\ r.contrange = 0 /\ r.contlen >= 0 /\ hs.restval >= r.contlen

AlreadyRetrieved(r) ==
  /\ Go(r) /\ r.code \in {200, 206, 416} /\ ~ConditionIgnored(r) /\ Complete(r)
  /\ hs' = [Checked(r) EXCEPT !.len = r.contlen, !.res = 0]
  /\ RETROKF' = TRUE
  /\ pconn' \in SkipShortBody(r)
  /\ Return("RETRUNNEEDED")
  /\ UNCHANGED <<readVars, fs>>

Misranged(r) ==
  \/ r.contrange # 0 /\ r.contrange # hs.restval
  \/ r.code = 206 /\ r.contrange = 0 /\ hs.restval # 0

RangeError(r) ==
  /\ Go(r) /\ r.code \in {200, 206} /\ ~ConditionIgnored(r) /\ ~Complete(r)
  /\ Misranged(r)
  /\ hs' = Checked(r)
  /\ RETROKF' = TRUE
  /\ pconn' = "closed"
  /\ Return("RANGEERR")
  /\ UNCHANGED <<readVars, fs>>

Wanted(r) ==
  /\ Go(r) /\ r.code \in {200, 206, 404, 500, 503, 504}
  /\ ~ConditionIgnored(r) /\ ~Complete(r) /\ ~Misranged(r)
  /\ RETROKF' = (r.code \in {200, 206})

\* Mutant: what was there before the range is not counted.
SizedBody(r) == [Checked(r) EXCEPT !.contlen = r.contlen]

\* contlen becomes the length of the whole file
Sized(r) == [Checked(r) EXCEPT !.contlen = IF r.contlen = -1 THEN -1
                                           ELSE r.contlen + r.contrange]

\* no intention of further downloading; a HEAD may be answered with a body
NoBody(r) ==
  /\ Wanted(r) /\ (r.code \notin {200, 206} \/ head_only \/ opts.spider)
  /\ hs' = Nothing(Sized(r))
  /\ \/ /\ head_only
        /\ pconn' \in IF r.close THEN {"closed"}
                      ELSE {"head"} \cup IF stale THEN {} ELSE {"clean"}
     \/ ~head_only /\ opts.spider /\ pconn' = "closed"
     \/ ~head_only /\ ~opts.spider /\ pconn' \in SkipShortBody(r)
  /\ Return(IF r.code = 504 THEN "GATEWAYTIMEOUT" ELSE "RETRFINISHED")
  /\ UNCHANGED <<readVars, fs>>

\* Mutant: the beginning of an answer that starts again is written too.
SkipNoByte(r) == 0

\* read_response_body: a 200 for a range sends what is there already
SkipOf(r) == IF hs.restval > 0 /\ r.contrange = 0 THEN hs.restval ELSE 0

\* open_output_stream, then the beginning of read_response_body.  count is at
\* least 1, so the file is never opened with fopen_excl.
OpenOutput(r) ==
  /\ Wanted(r) /\ r.code \in {200, 206} /\ ~head_only /\ ~opts.spider
  /\ \/ /\ hs' = Sized(r)
        /\ pconn' = "closed"
        /\ Return("FOPENERR")
        /\ UNCHANGED <<readVars, fs>>
     \/ /\ hs' = [Sized(r) EXCEPT !.len = hs.restval]
        /\ fs' = [fs EXCEPT ![name'] =
                    IF hs.restval > 0 /\ @.mtime # -1 THEN @
                    ELSE [data |-> <<>>, mtime |-> Now]]
        /\ resp' = r /\ sum_read' = 0
        /\ skip' = SkipOf(r)
        /\ at' = "body"
        /\ UNCHANGED <<pconn, err>>

-----------------------------------------------------------------------------
(* fd_read_body and the end of gethttp                                     *)

exact == resp.contlen # -1
More == sum_read < Len(resp.body) /\ (exact => sum_read < resp.contlen)

\* Of k bytes, write_data leaves out those that are still to be skipped
LeftOut(k) == IF skip > k THEN k ELSE skip

\* Mutant: skipped bytes count as written.
ReadBytes(k) == k

Written(k) == k - LeftOut(k)

\* k bytes arrive; write_data leaves out those that are to be skipped
ReadWrite(k) ==
  LET data == SubSeq(resp.body, sum_read + LeftOut(k) + 1, sum_read + k) IN
  /\ at = "body" /\ More /\ k \in 1 .. Len(resp.body) - sum_read
  /\ skip' = skip - LeftOut(k)
  /\ sum_read' = sum_read + k
  /\ \/ /\ fs' = [fs EXCEPT ![name] = [data |-> @.data \o data,
                                      mtime |-> IF data = <<>> THEN @.mtime ELSE Now]]
        /\ hs' = [hs EXCEPT !.len = @ + Written(k)]
        /\ UNCHANGED <<at, err, pconn>>
     \/ \E j \in 0 .. Len(data) - 1 :
          /\ fs' = [fs EXCEPT ![name] = [data |-> @.data \o SubSeq(data, 1, j), mtime |-> Now]]
          /\ hs' = [hs EXCEPT !.len = @ + Written(k), !.res = -2]
          /\ pconn' = "closed"
          /\ Return("FWRITEERR")
  /\ UNCHANGED <<urlVars, loopVars, ret, RETROKF, auth_finished, stale, resp, worldVars, how>>

\* fd_read_body returns res, leaving unread on the connection
BodyEnds(res, unread) ==
  /\ at = "body"
  /\ hs' = [hs EXCEPT !.res = res]
  /\ pconn' = IF res >= 0 /\ ~resp.close THEN unread ELSE "closed"
  /\ resp' = NoResp /\ sum_read' = 0 /\ skip' = 0
  /\ Return("RETRFINISHED")
  /\ UNCHANGED <<urlVars, loopVars, ret, RETROKF, auth_finished, stale, fs, worldVars, how>>

\* All the bytes asked for have come, or more, as a chunk is read whatever
\* toread is: ret is still the size of the last read.  If they came in chunks,
\* the last chunk is not read.
BodyRead ==
  /\ exact /\ sum_read >= resp.contlen
  /\ BodyEnds(IF resp.contlen = 0 THEN 0 ELSE 1,
              IF resp.framing = "chunked" THEN "tail" ELSE CloseFinish(resp, sum_read))

LastChunk ==
  /\ ~exact /\ resp.framing = "chunked" /\ sum_read = Len(resp.body)
  /\ \E unread \in AfterChunks : BodyEnds(0, unread)

\* fd_read returns 0, at the end of the body or too early
EndOfFile ==
  /\ More \/ (~exact /\ resp.framing = "unframed")
  /\ BodyEnds(0, "closed")

\* a read error or a timeout, or no line where a chunk begins or ends
ReadError ==
  /\ More \/ ~exact \/ resp.framing = "chunked"
  /\ BodyEnds(-1, "closed")

-----------------------------------------------------------------------------
(* http_loop, after gethttp                                                *)

Judged ==
  /\ at = "judge"
  /\ UNCHANGED <<cond_get, RETROKF, pconn, auth_finished, stale, readVars, worldVars, err>>

\* continue: the condition of the loop
Again(c) ==
  /\ count' = c
  /\ \/ c < NTry /\ at' = "try" /\ UNCHANGED <<ret, how, urlVars>>
     \/ c >= NTry /\ Finish("TRYLIMEXC", "none")

\* free_hstat, when http_loop is left; the name is given to retrieve_url
FreeHstat(h) == hs' = IF at' = "try" THEN h ELSE NoStat

Retryable == {"HEOF", "CONERROR", "RANGEERR", "GATEWAYTIMEOUT"}
Fatal == {"FWRITEERR", "FOPENERR", "HOSTERR", "AUTHFAILED"}

\* Mutant: a try that fails for no lasting reason is not counted.
SwitchRetryUncounted ==
  /\ Judged /\ err \in Retryable
  /\ Again(count - 1)
  /\ FreeHstat(hs)
  /\ UNCHANGED <<got_head, send_head_first, force_full_retrieve, tmr, name, fs>>

SwitchRetry ==
  /\ Judged /\ err \in Retryable
  /\ Again(count)
  /\ FreeHstat(hs)
  /\ UNCHANGED <<got_head, send_head_first, force_full_retrieve, tmr, name, fs>>

SwitchLeave ==
  /\ Judged
  /\ \/ err \in Fatal /\ Finish(err, "none")
     \/ /\ err = "RETRUNNEEDED"
        /\ Finish("RETROK", IF cond_get /\ hs.statcode # 416 THEN "unmodified" ELSE "unneeded")
  /\ FreeHstat(hs)
  /\ UNCHANGED <<count, got_head, send_head_first, force_full_retrieve, tmr, name, fs>>

\* NEWLOCATION, which retrieve_url follows; uri_merge and url_parse may refuse it
SwitchRedirect ==
  /\ Judged /\ err \in {"NEWLOCATION", "NEWLOCATION_KEEP_POST"}
  /\ \/ ~hs.newloc /\ Finish("WRONGCODE", "none")
     \/ hs.newloc /\ Finish(err, "none")
     \/ /\ hs.newloc /\ redirection_count + 1 > MaxRedirect
        /\ Finish("WRONGCODE", "none")
     \/ /\ hs.newloc /\ redirection_count + 1 <= MaxRedirect
        /\ redirection_count' = redirection_count + 1
        /\ IF err # "NEWLOCATION_KEEP_POST" /\ saved_method = "none"
             THEN saved_method' = method /\ method' = "GET"      \* SUSPEND_METHOD
             ELSE UNCHANGED <<method, saved_method>>
        /\ at' = "retrieve"
        /\ UNCHANGED <<ret, how>>
  /\ FreeHstat(hs)
  /\ UNCHANGED <<count, got_head, send_head_first, force_full_retrieve, tmr, name, fs>>

\* the status is not 20x
JudgeStatus ==
  /\ Judged /\ err = "RETRFINISHED" /\ ~RETROKF
  /\ \/ /\ head_only /\ hs.statcode = 500
        /\ got_head' = TRUE
        /\ Again(count)
     \/ /\ ~(head_only /\ hs.statcode = 500)
        /\ ~opts.spider /\ opts.retry_on_503 /\ hs.statcode = 503
        /\ Again(count)
        /\ UNCHANGED got_head
     \/ /\ ~(head_only /\ hs.statcode = 500)
        /\ ~(~opts.spider /\ opts.retry_on_503 /\ hs.statcode = 503)
        /\ Finish("WRONGCODE", "none")
        /\ UNCHANGED <<got_head, count>>
  /\ FreeHstat(hs)
  /\ UNCHANGED <<send_head_first, force_full_retrieve, tmr, name, fs>>

\* the time of the first response that got this far
FirstTime == IF ~got_head /\ hs.remote_time # NoTime THEN hs.remote_time ELSE tmr

\* this was the HEAD that comes before the GET, or instead of it
HeadJudged == send_head_first /\ (~got_head \/ opts.spider)

\* the section that reads time-stamps, after a HEAD
JudgeHead ==
  LET dated == opts.timestamping /\ hs.orig # NoFile /\ hs.remote_time # NoTime
      current == hs.orig.mtime >= hs.remote_time
      same == hs.contlen \in {-1, Len(hs.orig.data)}
  IN
  /\ Judged /\ err = "RETRFINISHED" /\ RETROKF
  /\ HeadJudged
  /\ got_head' = TRUE /\ tmr' = FirstTime
  /\ \/ /\ dated /\ current /\ same
        /\ Finish("RETROK", IF hs.contlen = -1 THEN "unsized" ELSE "unneeded")
        /\ UNCHANGED <<count, force_full_retrieve>>
     \/ /\ ~(dated /\ current /\ same)
        /\ force_full_retrieve' = (force_full_retrieve \/ (dated /\ ~current))
        /\ \/ opts.spider /\ Finish("RETROK", "spider") /\ UNCHANGED count
           \/ /\ ~opts.spider
              /\ count' = 0 /\ at' = "try"
              /\ UNCHANGED <<ret, how, urlVars>>
  /\ FreeHstat([hs EXCEPT !.timestamp_checked = @ \/ opts.timestamping])
  /\ UNCHANGED <<send_head_first, name, fs>>

\* touch, with the time reparsed if it came from a HEAD
Touched ==
  LET t == IF send_head_first /\ tmr # NoTime /\ hs.remote_time # NoTime
           THEN hs.remote_time ELSE FirstTime
  IN IF /\ FirstTime # NoTime /\ Exists(name)
        /\ hs.len = hs.contlen \/ (hs.res = 0 /\ hs.contlen = -1)
     THEN [fs EXCEPT ![name] = [data |-> @.data, mtime |-> t]] ELSE fs

JudgeBody ==
  /\ Judged /\ err = "RETRFINISHED" /\ RETROKF
  /\ ~HeadJudged
  /\ got_head' = TRUE /\ tmr' = FirstTime
  /\ fs' = Touched
  /\ \/ /\ hs.len = hs.contlen
        /\ Finish("RETROK", "saved") /\ UNCHANGED count
     \/ /\ hs.len # hs.contlen /\ hs.res = 0 /\ hs.contlen = -1
        /\ Finish("RETROK", "unsized") /\ UNCHANGED count
     \/ /\ hs.res = 0 /\ hs.contlen # -1 /\ hs.len < hs.contlen
        /\ Again(count)
     \/ /\ hs.res = 0 /\ hs.contlen # -1 /\ hs.len > hs.contlen
        /\ IF hs.len # hs.restval THEN Finish("abort", "none")
           ELSE Finish("RETROK", "longer")
        /\ UNCHANGED count
     \/ /\ hs.len # hs.contlen /\ hs.res # 0
        /\ Again(count)
  /\ FreeHstat(hs)
  /\ UNCHANGED <<send_head_first, force_full_retrieve, name>>

-----------------------------------------------------------------------------
(* Outside (external)                                                      *)

\* The server puts a new version in place.  An answer is taken from one
\* version, so it is enough that this happens before requests.
ServerChanges ==
  /\ at = "connect" /\ version + 1 \in Version
  /\ version' = version + 1
  /\ UNCHANGED <<urlVars, loopVars, at, err, ret, RETROKF, hs, pconn, auth_finished,
                 stale, readVars, fs, opts, was, short, how>>

\* Another process creates the file that wget is going to write, after restval
\* was chosen for this try, and so before it is chosen for the next
FileSpringsUp ==
  /\ at = "connect" /\ ~Exists(name)
  /\ \A n \in 0 .. MaxName : Foreign \notin Range(fs[n].data)
  /\ fs' = [fs EXCEPT ![name] = [data |-> <<Foreign>>, mtime |-> Now]]
  /\ UNCHANGED <<urlVars, loopVars, at, err, ret, RETROKF, hs, pconn, auth_finished,
                 stale, readVars, worldVars, how>>

Answer(r) ==
  \/ Unauthorized(r) \/ FileAppeared(r) \/ NoContent(r) \/ Redirected(r)
  \/ NotModified(r) \/ StillCurrent(r) \/ AlreadyRetrieved(r) \/ RangeError(r)
  \/ NoBody(r) \/ OpenOutput(r)

Wget ==
  \/ Begin \/ Try \/ Connect \/ NoReply \/ Interim
  \/ at = "reply" /\ \E r \in Answers : Answer(r)
  \/ \E k \in 1 .. Len(resp.body) : ReadWrite(k)
  \/ BodyRead \/ LastChunk \/ EndOfFile \/ ReadError
  \/ SwitchRetry \/ SwitchLeave \/ SwitchRedirect
  \/ JudgeStatus \/ JudgeHead \/ JudgeBody

HttpNext == Wget \/ ServerChanges \/ FileSpringsUp

\* Every wait for the network has a timeout (opt.read_timeout), so wget goes on
HttpSpec == HttpInit /\ [][HttpNext]_httpVars /\ WF_httpVars(Wget)

-----------------------------------------------------------------------------
(* Properties                                                              *)

\* Nothing has come between: the server kept its file, no other process wrote
\* here, no leftover was taken for an answer, and a file that -c continues was
\* the beginning of the server's.
Undisturbed ==
  /\ version = 1
  /\ {Foreign, Page} \cap Range(fs[name].data) = {}
  /\ opts.always_rest => IsPrefix(was.data, Entity(1))

\* The abort () of http_loop ("reading more data than requested with
\* content-length, which we never do") is never reached: however tries,
\* ranges, skipped bytes and changes of the server's file follow on each
\* other, len passes contlen only by what was there before.
NeverAborts == ret # "abort"

\* No try leaves a gap, repeats a byte or keeps one out of order, whether the
\* server continues where asked, starts again, or breaks off while bytes are
\* being skipped: what lies in the file is a beginning of the server's file.
BytesInOrder ==
  Undisturbed => \/ fs[name].data = was.data
                 \/ IsPrefix(fs[name].data, Entity(1))

\* Where the length is known, RETROK means that the whole file is there, unless
\* the last answer announced less than that: gethttp takes the end of the range
\* for the end of the file, although Content-Range tells it better.
WholeOnSuccess ==
  /\ ret = "RETROK" /\ how \in {"saved", "unneeded"}
  /\ Undisturbed /\ ~short
  => fs[name].data = Entity(1)

\* A connection is kept in the middle of an answer that had a length or came in
\* chunks by two paths out of gethttp only: by -nc meeting a file that has just
\* appeared, and by skip_short_body when a chunk's line did not come in time, so
\* never after bytes of the file.  What is left there would be taken for the next
\* answer, if it arrives after test_socket_open.
KeptConnectionDrained ==
  /\ pconn \in {"length", "chunked"} => opts.noclobber
  /\ at = "judge" /\ pconn = "late" => ~RETROKF \/ err = "RETRUNNEEDED"

\* With -c, and without -N, no step shortens or alters what the file holds
\* ("we don't want a failed first attempt to clobber existing data"), unless
\* another process put it there after restval was chosen.
ContinueNeverClobbers ==
  [][/\ opts.always_rest /\ ~opts.timestamping
     /\ Foreign \notin Range(fs[0].data)
     => IsPrefix(fs[0].data, fs'[0].data)]_httpVars

\* Every retrieval ends, whatever else the server does, unless it answers one
\* request with 10x for ever: tries and redirections are counted, and the HEAD
\* that resets the count is sent once.
HttpEnds == <>(at = "done") \/ <>[](at \in {"reply", "repeat"})

=============================================================================
