----------------------------- MODULE MCWgetHttp -----------------------------
EXTENDS WgetHttp

Plain == [method |-> "GET", always_rest |-> FALSE, timestamping |-> FALSE,
          if_modified_since |-> TRUE, noclobber |-> FALSE, spider |-> FALSE,
          credentials |-> FALSE, retry_on_503 |-> FALSE]

\* the default, a POST that insists, -c, -N, -N -c --no-if-modified-since, -nc
\* with a password, --spider
MCOptions ==
  {Plain,
   [Plain EXCEPT !.method = "POST", !.retry_on_503 = TRUE],
   [Plain EXCEPT !.always_rest = TRUE],
   [Plain EXCEPT !.timestamping = TRUE],
   [Plain EXCEPT !.timestamping = TRUE, !.always_rest = TRUE, !.if_modified_since = FALSE],
   [Plain EXCEPT !.noclobber = TRUE, !.credentials = TRUE],
   [Plain EXCEPT !.spider = TRUE]}

\* versions 0, 1 and 2: the file grew once, and may shrink
MCSize == [v \in 0 .. 2 |-> IF v = 1 THEN 3 ELSE 1]
=============================================================================
