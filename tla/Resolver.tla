------------------------------ MODULE Resolver ------------------------------
(***************************************************************************)
(* How a URL becomes a source (internal/music/resolver.go, direct_source   *)
(* .go, metadata.go, ytdlp_source.go): a HEAD request to probe it, a       *)
(* download to a temporary file with a limit, or the metadata of yt-dlp,   *)
(* and an error at any of these.                                           *)
(*                                                                         *)
(* The world is external and chosen at the start: what the server answers  *)
(* to HEAD and GET, what yt-dlp says of the URL, and what the disk does.   *)
(* That a response looks direct abstracts its headers and the extension of *)
(* the URL it was redirected to.  The body is what can be read of it: cut, *)
(* it ends before its declared length.  Titles and wording are left out.   *)
(***************************************************************************)
EXTENDS Integers

CONSTANT Limit \* maxDirectFileBytes

ASSUME LimitAssumption == Limit \in Nat \ {0}

\* Lengths around the limit, and -1 for a response that declares none.
Bodies == 0..(Limit + 2)
Lengths == {-1} \cup Bodies

VARIABLES
  url,      \* "bad", "extension" (of an audio file) or "page"
  head,     \* the answer to HEAD
  get,      \* the answer to GET
  ytdlp,    \* "supported", "unsupported" or "broken"
  disk,     \* the step at which the disk fails, "none" for no failure
  pc,       \* what Resolve does next
  probe,    \* its probe, NoProbe when there is none
  probeErr, \* probeErr # nil
  file,     \* the temporary file: "none", "open" or "closed"
  size,     \* and its size
  result    \* what Resolve returned

worldVars == <<url, head, get, ytdlp, disk>>
vars == <<worldVars, pc, probe, probeErr, file, size, result>>

Answers == {"error", "refused", "ok"}

\* The zero directProbe, and none.
Refused == [direct |-> FALSE, length |-> 0]
NoProbe == [direct |-> FALSE, length |-> -2]

Init ==
  /\ url \in {"bad", "extension", "page"}
  /\ head \in [answer : Answers, direct : BOOLEAN, length : Lengths]
  /\ get \in [answer : Answers, direct : BOOLEAN, length : Lengths,
              body : Bodies, cut : BOOLEAN]
  /\ get.length # -1 =>
       IF get.cut THEN get.body < get.length ELSE get.body = get.length
  /\ ytdlp \in {"supported", "unsupported", "broken"}
  /\ disk \in {"none", "create", "write", "close"}
  /\ pc = "parse"
  /\ probe = NoProbe /\ probeErr = FALSE
  /\ file = "none" /\ size = 0
  /\ result = "none"

\* The operators named ...Fault are not part of the specification but
\* plausible slips in the operator after them.
Return(r) ==
  /\ pc' = "done"
  /\ result' = r

----------------------------------------------------------------------------
(***************************************************************************)
(* Resolve.                                                                *)
(***************************************************************************)
\* parseSupportedURL, then isDirectAudioURL.
Parse ==
  /\ pc = "parse"
  /\ \/ url = "bad" /\ Return("unsupported")
     \/ url # "bad" /\ pc' = "probe" /\ UNCHANGED result
  /\ UNCHANGED <<worldVars, probe, probeErr, file, size>>

\* probeDirect: a server that refuses HEAD yields the zero probe, no error.
Probed ==
  IF head.answer = "ok" THEN [direct |-> head.direct, length |-> head.length]
  ELSE IF head.answer = "refused" THEN Refused ELSE NoProbe

ProbeOnlyFault == Probed.direct
\* isDirectAudioURL, or what the probe saw.
IsDirect == url = "extension" \/ Probed.direct

\* In Resolve for a page, in resolveDirect for a URL with an extension, which
\* ignores an error of it.
ProbeDirect ==
  /\ pc = "probe"
  /\ probe' = Probed
  /\ probeErr' = (url = "page" /\ head.answer = "error")
  /\ pc' = IF IsDirect THEN "direct" ELSE "yt-dlp"
  /\ UNCHANGED <<worldVars, file, size, result>>

\* resolveYTDLP
YtDlp ==
  /\ pc = "yt-dlp"
  /\ \/ ytdlp = "supported" /\ Return("yt-dlp")
     \/ ytdlp = "unsupported" /\ probeErr /\ Return("error")
     \/ ytdlp = "unsupported" /\ ~probeErr /\ Return("unsupported")
     \/ ytdlp = "broken" /\ Return("error")
  /\ UNCHANGED <<worldVars, probe, probeErr, file, size>>

----------------------------------------------------------------------------
(***************************************************************************)
(* resolveDirect.                                                          *)
(***************************************************************************)
\* probe.contentLength > r.maxDirectFileBytes
ProbeTooLarge == probe.length > Limit

\* The GET request and its headers.
Request ==
  /\ pc = "direct"
  /\ \/ ProbeTooLarge /\ Return("too large")
     \/ ~ProbeTooLarge /\ get.answer # "ok" /\ Return("error")
     \/ /\ ~ProbeTooLarge /\ get.answer = "ok"
        /\ \/ get.length > Limit /\ Return("too large")
           \/ /\ get.length <= Limit /\ ~get.direct /\ ~probe.direct
              /\ Return("unsupported")
           \/ /\ get.length <= Limit /\ (get.direct \/ probe.direct)
              /\ pc' = "create"
              /\ UNCHANGED result
  /\ UNCHANGED <<worldVars, probe, probeErr, file, size>>

\* os.CreateTemp
CreateTemp ==
  /\ pc = "create"
  /\ \/ /\ disk = "create"
        /\ Return("error")
        /\ UNCHANGED file
     \/ /\ disk # "create"
        /\ file' = "open"
        /\ pc' = "copy"
        /\ UNCHANGED result
  /\ UNCHANGED <<worldVars, probe, probeErr, size>>

NoMarginFault == IF get.body > Limit THEN Limit ELSE get.body
\* io.Copy from an io.LimitReader of one byte more than the limit.
Written == IF get.body > Limit + 1 THEN Limit + 1 ELSE get.body

KeptFault == UNCHANGED file
\* The deferred cleanup, unless cleanupOnError is cleared.
CleanUp == file' = "none"

\* Reading or writing may fail before the copy has all it asked for.
CopyFails == (get.cut /\ Written <= Limit) \/ disk = "write"

Copy ==
  /\ pc = "copy"
  /\ size' = Written
  /\ \/ CopyFails /\ CleanUp /\ Return("error")
     \/ ~CopyFails /\ Written > Limit /\ CleanUp /\ Return("too large")
     \/ /\ ~CopyFails /\ Written <= Limit
        /\ pc' = "close"
        /\ UNCHANGED <<file, result>>
  /\ UNCHANGED <<worldVars, probe, probeErr>>

CloseFile ==
  /\ pc = "close"
  /\ \/ disk = "close" /\ CleanUp /\ Return("error")
     \/ disk # "close" /\ file' = "closed" /\ Return("direct")
  /\ UNCHANGED <<worldVars, probe, probeErr, size>>

Next ==
  \/ Parse \/ ProbeDirect \/ YtDlp
  \/ Request \/ CreateTemp \/ Copy \/ CloseFile

Spec == Init /\ [][Next]_vars

----------------------------------------------------------------------------
(***************************************************************************)
(* Classify, which answers for the same URL without a download.            *)
(***************************************************************************)
Classify ==
  IF url = "bad" THEN "unsupported"
  ELSE IF url = "extension" \/ Probed.direct THEN "direct"
  ELSE IF ytdlp = "supported" THEN "yt-dlp"
  ELSE IF ytdlp = "unsupported" /\ head.answer # "error" THEN "unsupported"
  ELSE "error"

----------------------------------------------------------------------------
(***************************************************************************)
(* Properties.                                                             *)
(***************************************************************************)
TypeOK ==
  /\ pc \in {"parse", "probe", "direct", "yt-dlp", "create", "copy", "close",
             "done"}
  /\ probe \in [direct : BOOLEAN, length : Lengths \cup {-2}]
  /\ probeErr \in BOOLEAN
  /\ file \in {"none", "open", "closed"}
  /\ size \in 0..(Limit + 1)
  /\ result \in {"none", "direct", "yt-dlp", "unsupported", "too large",
                 "error"}
  /\ pc = "done" <=> result # "none"

\* The caller removes the file of a source; so a file is there exactly when a
\* direct source was returned, on every path.
FileIffDirect == pc = "done" => (file # "none" <=> result = "direct")

\* A direct source is the whole body and nothing longer than the limit, and a
\* file of exactly the limit is not refused for what was downloaded of it.
WholeOrRefused ==
  /\ result = "direct" => ~get.cut /\ size = get.body /\ get.body <= Limit
  /\ result = "too large" =>
       \/ head.length > Limit
       \/ get.length > Limit
       \/ get.body > Limit

\* What Classify says is what Resolve does: another kind of source is never
\* returned, nor an unsupported URL where Classify names a kind, unless the
\* download shows something else.
ClassifyAgrees ==
  /\ result \in {"direct", "yt-dlp"} => Classify = result
  /\ result = "unsupported" =>
       \/ Classify = "unsupported"
       \/ Classify = "direct" /\ get.answer = "ok" /\ ~get.direct
=============================================================================
