--------------------------- MODULE ResolverProofs ---------------------------
(***************************************************************************)
(* The safety properties of Resolver hold for every limit.  Inv says what  *)
(* Resolve knows at each of its steps.                                     *)
(***************************************************************************)
EXTENDS Resolver, TLAPS

\* What the server answers is a body with a length.
WorldOK ==
  /\ url \in {"bad", "extension", "page"}
  /\ head.answer \in Answers /\ head.direct \in BOOLEAN
  /\ head.length \in Lengths
  /\ get.length \in Lengths /\ get.body \in Bodies /\ get.cut \in BOOLEAN
  /\ get.answer \in Answers /\ get.direct \in BOOLEAN

\* What the probe showed, and where it led.
PathOK ==
  /\ pc \in {"probe", "direct", "yt-dlp", "create", "copy", "close"}
       => url # "bad"
  /\ pc \in {"direct", "create", "copy", "close"} => IsDirect /\ probe = Probed
  /\ pc = "yt-dlp" =>
       ~IsDirect /\ probe = Probed /\ (probeErr <=> head.answer = "error")
  /\ pc \in {"create", "copy", "close"} => get.answer = "ok"

\* The file is open from its creation to the end of the copy, and after the
\* copy it holds the whole body.
FileOK ==
  /\ pc \in {"parse", "probe", "direct", "yt-dlp", "create"} => file = "none"
  /\ pc \in {"copy", "close"} => file = "open"
  /\ pc = "close" => ~get.cut /\ size = get.body /\ get.body <= Limit

Inv ==
  /\ TypeOK /\ WorldOK /\ PathOK /\ FileOK
  /\ FileIffDirect /\ WholeOrRefused /\ ClassifyAgrees

----------------------------------------------------------------------------
\* A probe's length is the one that HEAD declared, if it is above a limit.
LEMMA ProbedLength ==
  ASSUME WorldOK
  PROVE  /\ Probed \in [direct : BOOLEAN, length : Lengths \cup {-2}]
         /\ Probed.length > Limit => head.length > Limit
         /\ head.answer = "error" => ~Probed.direct
BY LimitAssumption
   DEF WorldOK, Probed, Refused, NoProbe, Lengths, Bodies, Answers

\* The copy stops one byte past the limit, and only there does it differ from
\* the body.
LEMMA WrittenSize ==
  ASSUME WorldOK
  PROVE  /\ Written \in 0..(Limit + 1)
         /\ Written <= Limit => Written = get.body
         /\ Written > Limit => get.body > Limit
BY LimitAssumption DEF WorldOK, Written, Bodies

\* Nothing is known and nothing is done at the start.
LEMMA InitInv == Init => Inv
<1> SUFFICES ASSUME Init PROVE Inv
  OBVIOUS
<1>1. WorldOK
  <2>1. head \in [answer : Answers, direct : BOOLEAN, length : Lengths]
    BY DEF Init
  <2>2. get \in [answer : Answers, direct : BOOLEAN, length : Lengths,
                 body : Bodies, cut : BOOLEAN]
    BY DEF Init
  <2>3. /\ head.answer \in Answers /\ head.direct \in BOOLEAN
        /\ head.length \in Lengths
    BY <2>1, Zenon
  <2>4. /\ get.length \in Lengths /\ get.body \in Bodies
        /\ get.cut \in BOOLEAN
        /\ get.answer \in Answers /\ get.direct \in BOOLEAN
    BY <2>2, Zenon
  <2> QED BY <2>3, <2>4, Zenon DEF Init, WorldOK
<1>2. TypeOK
  <2>1. NoProbe \in [direct : BOOLEAN, length : Lengths \cup {-2}]
    BY DEF NoProbe
  <2>2. 0 \in 0..(Limit + 1)
    BY LimitAssumption
  <2>3. /\ pc = "parse" /\ probe = NoProbe /\ probeErr = FALSE
        /\ file = "none" /\ size = 0 /\ result = "none"
    BY Zenon DEF Init
  <2> QED BY <2>1, <2>2, <2>3 DEF TypeOK
<1>3. PathOK /\ FileOK
  BY DEF Init, PathOK, FileOK
<1>4. FileIffDirect /\ WholeOrRefused /\ ClassifyAgrees
  BY DEF Init, FileIffDirect, WholeOrRefused, ClassifyAgrees
<1> QED BY <1>1, <1>2, <1>3, <1>4 DEF Inv

\* The URL and the probe.
LEMMA ProbeInv ==
  ASSUME Inv, Parse \/ ProbeDirect \/ YtDlp
  PROVE  Inv'
<1> USE DEF worldVars, Inv, Return
<1>1. WorldOK' /\ Probed' = Probed /\ Classify' = Classify
      /\ (IsDirect' <=> IsDirect)
  BY DEF Parse, ProbeDirect, YtDlp, WorldOK, Probed, Classify, IsDirect
<1>2. CASE Parse
  <2>1. TypeOK' /\ PathOK' /\ FileOK'
    BY <1>1, <1>2 DEF Parse, TypeOK, PathOK, FileOK
  <2>2. FileIffDirect' /\ WholeOrRefused' /\ ClassifyAgrees'
    BY <1>1, <1>2
       DEF Parse, TypeOK, FileOK, FileIffDirect, WholeOrRefused,
           ClassifyAgrees, Classify
  <2> QED BY <1>1, <2>1, <2>2
<1>3. CASE ProbeDirect
  <2>1. TypeOK' /\ FileOK'
    BY <1>3, ProbedLength DEF ProbeDirect, TypeOK, FileOK
  <2>2. PathOK'
    BY <1>1, <1>3, ProbedLength
       DEF ProbeDirect, PathOK, IsDirect, WorldOK, TypeOK
  <2>3. FileIffDirect' /\ WholeOrRefused' /\ ClassifyAgrees'
    BY <1>1, <1>3
       DEF ProbeDirect, TypeOK, FileIffDirect, WholeOrRefused, ClassifyAgrees
  <2> QED BY <1>1, <2>1, <2>2, <2>3
<1>4. CASE YtDlp
  <2>1. TypeOK' /\ PathOK' /\ FileOK'
    BY <1>4 DEF YtDlp, TypeOK, PathOK, FileOK
  <2>2. FileIffDirect' /\ WholeOrRefused'
    BY <1>4 DEF YtDlp, FileOK, FileIffDirect, WholeOrRefused
  <2>3. ClassifyAgrees'
    BY <1>1, <1>4
       DEF YtDlp, PathOK, ClassifyAgrees, Classify, IsDirect, WorldOK
  <2> QED BY <1>1, <2>1, <2>2, <2>3
<1> QED BY <1>2, <1>3, <1>4

\* The download.
LEMMA DownloadInv ==
  ASSUME Inv, Request \/ CreateTemp \/ Copy \/ CloseFile
  PROVE  Inv'
<1> USE DEF worldVars, Inv, Return, CleanUp
<1>1. WorldOK' /\ Probed' = Probed /\ Classify' = Classify
      /\ (IsDirect' <=> IsDirect)
  BY DEF Request, CreateTemp, Copy, CloseFile, WorldOK, Probed, Classify,
         IsDirect
<1>2. pc \in {"direct", "create", "copy", "close"} => Classify = "direct"
  BY DEF PathOK, Classify, IsDirect
<1>3. CASE Request
  <2>1. TypeOK' /\ PathOK' /\ FileOK'
    BY <1>1, <1>3 DEF Request, TypeOK, PathOK, FileOK
  <2>2. FileIffDirect'
    BY <1>3 DEF Request, FileOK, FileIffDirect, TypeOK
  <2>3. WholeOrRefused'
    BY <1>3, ProbedLength
       DEF Request, ProbeTooLarge, PathOK, WholeOrRefused, TypeOK
  <2>4. ClassifyAgrees'
    BY <1>1, <1>2, <1>3 DEF Request, ClassifyAgrees, TypeOK
  <2> QED BY <1>1, <2>1, <2>2, <2>3, <2>4
<1>4. CASE CreateTemp
  <2>1. TypeOK' /\ PathOK' /\ FileOK'
    BY <1>1, <1>4 DEF CreateTemp, TypeOK, PathOK, FileOK
  <2>2. FileIffDirect' /\ WholeOrRefused' /\ ClassifyAgrees'
    BY <1>1, <1>4
       DEF CreateTemp, TypeOK, FileOK, FileIffDirect, WholeOrRefused,
           ClassifyAgrees
  <2> QED BY <1>1, <2>1, <2>2
<1>5. CASE Copy
  <2>1. TypeOK' /\ PathOK'
    BY <1>1, <1>5, WrittenSize DEF Copy, TypeOK, PathOK
  <2>2. FileOK'
    BY <1>5, WrittenSize DEF Copy, CopyFails, FileOK, TypeOK
  <2>3. FileIffDirect' /\ WholeOrRefused' /\ ClassifyAgrees'
    BY <1>1, <1>5, WrittenSize
       DEF Copy, TypeOK, FileIffDirect, WholeOrRefused, ClassifyAgrees
  <2> QED BY <1>1, <2>1, <2>2, <2>3
<1>6. CASE CloseFile
  <2>1. TypeOK' /\ PathOK' /\ FileOK'
    BY <1>1, <1>6 DEF CloseFile, TypeOK, PathOK, FileOK
  <2>2. FileIffDirect' /\ WholeOrRefused' /\ ClassifyAgrees'
    BY <1>1, <1>2, <1>6
       DEF CloseFile, TypeOK, FileOK, FileIffDirect, WholeOrRefused,
           ClassifyAgrees
  <2> QED BY <1>1, <2>1, <2>2
<1> QED BY <1>3, <1>4, <1>5, <1>6

\* Stuttering.
LEMMA StutterInv ==
  ASSUME Inv, UNCHANGED vars
  PROVE  Inv'
<1> USE DEF Inv, vars, worldVars
<1>1. WorldOK' /\ Probed' = Probed /\ Classify' = Classify
      /\ (IsDirect' <=> IsDirect)
  BY DEF WorldOK, Probed, Classify, IsDirect
<1>2. TypeOK' /\ PathOK' /\ FileOK'
  BY <1>1 DEF TypeOK, PathOK, FileOK
<1>3. FileIffDirect' /\ WholeOrRefused' /\ ClassifyAgrees'
  BY <1>1 DEF FileIffDirect, WholeOrRefused, ClassifyAgrees
<1> QED BY <1>1, <1>2, <1>3

\* What Resolve knows at each step.
THEOREM ResolverInvariant == Spec => []Inv
<1>1. Inv /\ [Next]_vars => Inv'
  BY ProbeInv, DownloadInv, StutterInv DEF Next
<1> QED BY <1>1, InitInv, PTL DEF Spec

\* Every variable of Resolve stays in its range.
THEOREM ResolverTypeCorrect == Spec => []TypeOK
<1>1. Inv => TypeOK
  BY DEF Inv
<1> QED BY <1>1, ResolverInvariant, PTL

\* No path leaves a temporary file behind, or returns a direct source without
\* one.
THEOREM NoFileLeft == Spec => []FileIffDirect
<1>1. Inv => FileIffDirect
  BY DEF Inv
<1> QED BY <1>1, ResolverInvariant, PTL

\* A download is whole and within the limit, whatever the limit is, and is
\* refused only for a length above it.
THEOREM DownloadIsWhole == Spec => []WholeOrRefused
<1>1. Inv => WholeOrRefused
  BY DEF Inv
<1> QED BY <1>1, ResolverInvariant, PTL

\* Resolve and Classify agree on every URL.
THEOREM ResolveIsClassified == Spec => []ClassifyAgrees
<1>1. Inv => ClassifyAgrees
  BY DEF Inv
<1> QED BY <1>1, ResolverInvariant, PTL
=============================================================================
