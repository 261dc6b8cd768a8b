------------------------ MODULE AudioPipelineProofs ------------------------
(***************************************************************************)
(* What AudioPipeline promises for tracks of every length and pipes of     *)
(* every size.                                                             *)
(***************************************************************************)
EXTENDS AudioPipeline, TLAPS

----------------------------------------------------------------------------
(***************************************************************************)
(* The inductive invariant.                                                *)
(***************************************************************************)
Sending == {"stream", "send", "tick", "read", "write"}
Closing == {"close", "reader", "copy", "wait"}
Ended == {"finish", "exit"}

\* The chunks that have come out of the source and are somewhere.
InFlight ==
  held[1] + (IF pump = "write" THEN 1 ELSE 0) + held[2] + held[3]
    + (IF worker = "write" THEN 1 ELSE 0) + sent

\* No chunk is made up, and none is lost while nothing has gone wrong.
CountInv ==
  /\ InFlight <= made
  /\ result \in {"none", "ok"} /\ ~copyErr => InFlight = made

\* Which processes and goroutines there are at each step of the worker.
StartInv ==
  /\ ~piped => /\ proc["yt-dlp"] = "off" /\ pump = "off" /\ once = "free"
               /\ worker \notin {"open", "abort"}
               /\ held[1] = 0 /\ held[2] = 0
  /\ worker = "open" => proc["yt-dlp"] = "off"
  /\ worker \in {"open", "start", "abort"} =>
       proc["ffmpeg"] = "off" /\ pump = "off"
  /\ worker \in {"open", "start"} => once = "free"
  /\ worker \in Sending \cup Closing =>
       proc["ffmpeg"] # "off" /\ (piped => pump # "off")
  /\ copyErr => pump \in {"close", "report", "done"}

\* Who runs the body of closeOnce, and what it has done.
OnceInv ==
  /\ once = "free" <=> onceBy = "nobody"
  /\ once \in {"input", "wait"} =>
       \/ onceBy = "pump" /\ pump = "close"
       \/ onceBy = "worker" /\ worker \in {"close", "abort"}
  /\ onceBy = "pump" => pump \in {"close", "report", "done"}
  /\ onceBy = "worker" => worker \in {"abort"} \cup Closing \cup Ended
  /\ once = "done" <=> "yt-dlp" \in reaped
  /\ \A p \in reaped : Exited(p)
  /\ onceErr => once = "done" /\ BadExit("yt-dlp")

\* What the closing worker has behind it.
ClosedInv ==
  /\ 3 \in shut => worker \in {"copy", "wait"} \cup Ended
  /\ piped /\ worker \in {"reader", "copy", "wait"} => once = "done"
  /\ piped /\ worker = "wait" => pump = "done"
  /\ pump \in {"report", "done"} => once = "done"
  /\ 2 \in shut <=> once # "free"
  /\ 1 \in shut <=> once \in {"wait", "done"}
  /\ NothingLeftBehind

\* A result is there when the worker has stopped sending, and says why.
ResultInv ==
  /\ result = "none" <=> worker \in {"open", "start"} \cup Sending
  /\ worker = "abort" => result = "error"
  /\ closeErr => worker \in Closing \cup Ended
  /\ leaked => worker \in Ended /\ result \in {"error", "send error"}
  /\ finished => worker = "exit"
  /\ result = "canceled" => skipped
  /\ inTime => /\ skipped
               /\ worker \in (Sending \ {"stream"}) \cup Closing \cup Ended
               /\ ~closeErr /\ ~CloseAllError("worker")
               /\ result # "error"

\* A failure is on its way to the result.
FailureInv ==
  ~skipped =>
    /\ "yt-dlp" \in reaped /\ proc["yt-dlp"] = "failed" =>
         onceErr \/ result \in {"error", "send error"}
    /\ onceErr /\ onceBy = "worker" =>
         worker \in {"close", "abort"} \/ closeErr \/ result = "error"
    /\ onceErr /\ onceBy = "pump" => pump = "close" \/ copyErr
    /\ copyErr /\ worker = "wait" => closeErr
    /\ worker \in Ended /\ closeErr => result \in {"error", "send error"}
    /\ copyErr /\ worker \in Ended => result \in {"error", "send error"}
    /\ "ffmpeg" \in reaped /\ proc["ffmpeg"] = "failed" =>
         result \in {"error", "send error"}

\* A track ends as it should only when all of it has come through.
BothGood == proc["ffmpeg"] = "ok" /\ (piped => proc["yt-dlp"] = "ok")
WholeInv ==
  /\ proc["yt-dlp"] = "ok" => made = Chunks
  /\ proc["ffmpeg"] = "ok" =>
       IF piped THEN 2 \in shut /\ held[2] = 0 ELSE made = Chunks
  /\ pump \in {"close", "report", "done"} /\ ~copyErr =>
       held[1] = 0 /\ Exited("yt-dlp")
  /\ copyErr /\ worker \in Sending =>
       BadExit("ffmpeg") \/ BadExit("yt-dlp")
  /\ result = "ok" =>
       /\ Exited("ffmpeg")
       /\ piped /\ proc["ffmpeg"] = "ok" =>
            Exited("yt-dlp") /\ pump \in {"close", "report", "done"}
       /\ BothGood => sent = Chunks /\ ~closeErr /\ ~copyErr
  /\ result = "error" =>
       \/ leaked \/ proc["ffmpeg"] = "off"
       \/ BadExit("ffmpeg") \/ (piped /\ BadExit("yt-dlp"))

Inv ==
  /\ TypeOK
  /\ CountInv
  /\ StartInv
  /\ OnceInv
  /\ ClosedInv
  /\ ResultInv
  /\ FailureInv
  /\ WholeInv

----------------------------------------------------------------------------
(***************************************************************************)
(* What the steps do to the processes and to the pipes.                    *)
(***************************************************************************)
\* One process changes its state, the other keeps it.
LEMMA ProcEffect ==
  ASSUME TypeOK, NEW p \in Procs, NEW state \in ProcStates,
         ProcBecomes(p, state)
  PROVE  /\ proc' \in [Procs -> ProcStates]
         /\ proc'[p] = state
         /\ \A q \in Procs \ {p} : proc'[q] = proc[q]
BY DEF TypeOK, ProcBecomes

\* One pipe changes what it holds, the others keep it.
LEMMA HeldEffect ==
  ASSUME TypeOK, NEW i \in Ends, NEW n \in 0..PipeCap,
         held' = [held EXCEPT ![i] = n]
  PROVE  /\ held' \in [Ends -> 0..PipeCap]
         /\ held'[i] = n
         /\ \A j \in Ends \ {i} : held'[j] = held[j]
BY DEF TypeOK

\* What the pipes hold, and how much has been made and sent, are numbers.
LEMMA NumberTypes ==
  ASSUME TypeOK
  PROVE  /\ held[1] \in 0..PipeCap /\ held[2] \in 0..PipeCap
         /\ held[3] \in 0..PipeCap
         /\ PipeCap \in Nat /\ Chunks \in Nat
         /\ made \in 0..Chunks /\ sent \in 0..Chunks
BY ChunksAssumption, PipeCapAssumption DEF TypeOK, Ends

\* The invariant holds at the start.
LEMMA InitInv == Init => Inv
<1> SUFFICES ASSUME Init PROVE Inv
  OBVIOUS
<1>1. TypeOK
  <2>1. held \in [Ends -> 0..PipeCap] /\ proc \in [Procs -> ProcStates]
    BY PipeCapAssumption DEF Init, ProcStates
  <2>2. /\ reaped \subseteq Procs /\ shut \subseteq Ends
        /\ once \in OncePcs /\ pump \in PumpPcs
        /\ worker \in WorkerPcs /\ result \in Results
    BY DEF Init, OncePcs, PumpPcs, WorkerPcs, Results
  <2>3. made \in 0..Chunks /\ sent \in 0..Chunks
    BY ChunksAssumption DEF Init
  <2> QED
    BY <2>1, <2>2, <2>3 DEF Init, TypeOK
<1>2. held[1] = 0 /\ held[2] = 0 /\ held[3] = 0
  BY DEF Init, Ends
<1>3. CountInv
  BY <1>2 DEF Init, InFlight, CountInv
<1>4. StartInv /\ OnceInv /\ ClosedInv
  BY <1>2
     DEF Procs, Init, NothingLeftBehind, Sending, Closing, StartInv, OnceInv,
         ClosedInv
<1>5. ResultInv /\ FailureInv /\ WholeInv
  BY DEF Procs, Init, ResultInv, FailureInv, WholeInv
<1> QED
  BY <1>1, <1>3, <1>4, <1>5 DEF Inv

----------------------------------------------------------------------------
(***************************************************************************)
(* The processes.                                                          *)
(***************************************************************************)
\* A process ends: well only with all its work done, killed only with the
\* context cancelled.
LEMMA ProcessEnds ==
  ASSUME Inv, NEW p \in Procs,
         NEW state \in {"ok", "failed", "broken", "killed"},
         Running(p), ProcBecomes(p, state),
         p = "yt-dlp" /\ state = "ok" => made = Chunks,
         p = "ffmpeg" /\ state = "ok" => InputOver,
         UNCHANGED <<piped, ctxVars, made, reaped, held, shut, onceVars,
                     pumpVars, workVars>>
  PROVE  Inv'
<1>1. /\ proc' \in [Procs -> ProcStates]
      /\ proc'[p] = state
      /\ \A q \in Procs \ {p} : proc'[q] = proc[q]
  BY ProcEffect DEF Inv, ProcStates
<1>2. /\ proc'["yt-dlp"] = IF p = "yt-dlp" THEN state ELSE proc["yt-dlp"]
      /\ proc'["ffmpeg"] = IF p = "ffmpeg" THEN state ELSE proc["ffmpeg"]
  BY <1>1 DEF Procs
<1>3. TypeOK'
  BY <1>1 DEF ctxVars, onceVars, pumpVars, workVars, TypeOK, Inv
<1>4. CountInv' /\ ResultInv'
  BY DEF ctxVars, onceVars, pumpVars, workVars, CloseAllError, InFlight,
         CountInv, ResultInv, Inv
<1>5. StartInv'
  BY <1>2 DEF onceVars, pumpVars, workVars, Running, StartInv, Inv
<1>6. OnceInv'
  BY <1>2
     DEF onceVars, pumpVars, workVars, Procs, Running, Exited, BadExit,
         TypeOK, OnceInv, Inv
<1>7. ClosedInv'
  BY <1>2
     DEF onceVars, pumpVars, workVars, Procs, Running, NothingLeftBehind,
         ClosedInv, Inv
<1>8. FailureInv'
  BY <1>2
     DEF ctxVars, onceVars, pumpVars, workVars, Running, Exited, OnceInv,
         FailureInv, Inv
<1>9. WholeInv'
  <2>1. /\ proc'["yt-dlp"] = "ok" => made = Chunks
        /\ proc'["ffmpeg"] = "ok" =>
             IF piped THEN 2 \in shut /\ held[2] = 0 ELSE made = Chunks
    BY <1>2, NumberTypes DEF InputLeft, InputOver, WholeInv, Inv
  <2>2. pump \in {"close", "report", "done"} /\ ~copyErr =>
          held[1] = 0 /\ Exited("yt-dlp")'
    BY <1>2 DEF Exited, WholeInv, Inv
  <2>3. copyErr /\ worker \in Sending =>
          BadExit("ffmpeg")' \/ BadExit("yt-dlp")'
    BY <1>2 DEF Running, BadExit, WholeInv, Inv
  <2>4. result = "ok" =>
       /\ Exited("ffmpeg")'
       /\ piped /\ proc'["ffmpeg"] = "ok" =>
            Exited("yt-dlp")' /\ pump \in {"close", "report", "done"}
       /\ BothGood' => sent = Chunks /\ ~closeErr /\ ~copyErr
    BY <1>2 DEF Running, Exited, BothGood, WholeInv, Inv
  <2>5. result = "error" =>
          \/ leaked \/ proc'["ffmpeg"] = "off"
          \/ BadExit("ffmpeg")' \/ (piped /\ BadExit("yt-dlp")')
    BY <1>2 DEF Running, BadExit, WholeInv, Inv
  <2> QED
    BY <2>1, <2>2, <2>3, <2>4, <2>5 DEF WholeInv, pumpVars, workVars
<1> QED
  BY <1>3, <1>4, <1>5, <1>6, <1>7, <1>8, <1>9 DEF Inv

\* Every way in which a process ends is one of those.
LEMMA ProcessesInv ==
  ASSUME Inv,
         \/ SourceExits \/ DecoderExits
         \/ \E p \in Procs : Fails(p) \/ Kill(p)
  PROVE  Inv'
<1>1. CASE SourceExits
  BY <1>1, ProcessEnds DEF SourceExits, Procs
<1>2. CASE DecoderExits
  BY <1>2, ProcessEnds DEF DecoderExits, Procs
<1>3. ASSUME NEW p \in Procs, Fails(p) PROVE Inv'
  BY <1>3, ProcessEnds DEF Fails, InputOver
<1>4. ASSUME NEW p \in Procs, Kill(p) PROVE Inv'
  BY <1>4, ProcessEnds DEF Kill, InputOver
<1> QED
  BY <1>1, <1>2, <1>3, <1>4

\* yt-dlp writes a chunk.
LEMMA SourceWritesInv == ASSUME Inv, SourceWrites PROVE Inv'
<1> DEFINE n == held[1] + 1
<1>1. held' = [held EXCEPT ![1] = n] /\ n \in 0..PipeCap /\ TypeOK
  BY NumberTypes DEF SourceWrites, Inv
<1> HIDE DEF n
<1>2. 1 \in Ends /\ 2 \in Ends \ {1} /\ 3 \in Ends \ {1}
  BY DEF Ends
<1>3. /\ held' \in [Ends -> 0..PipeCap] /\ held'[1] = n
      /\ held'[2] = held[2] /\ held'[3] = held[3]
  BY <1>1, <1>2, HeldEffect
<1>4. held'[1] = held[1] + 1
  BY <1>3 DEF n
<1>5. TypeOK'
  BY <1>3, NumberTypes
     DEF ctxVars, onceVars, pumpVars, workVars, SourceWrites, TypeOK, Inv
<1>6. CountInv'
  BY <1>4, NumberTypes
     DEF pumpVars, workVars, SourceWrites, InFlight, CountInv, Inv
<1>7. StartInv' /\ OnceInv' /\ ClosedInv' /\ ResultInv' /\ FailureInv'
  BY <1>3
     DEF ctxVars, onceVars, pumpVars, workVars, Procs, Running, Exited,
         BadExit, SourceWrites, CloseAllError, NothingLeftBehind, Sending,
         Closing, Ended, StartInv, OnceInv, ClosedInv, ResultInv, FailureInv,
         Inv
<1>8. WholeInv'
  BY NumberTypes
     DEF pumpVars, workVars, Running, Exited, BadExit, SourceWrites, BothGood,
         WholeInv, Inv
<1> QED
  BY <1>5, <1>6, <1>7, <1>8 DEF Inv

\* ffmpeg decodes a chunk, of the pipe or of the file.
LEMMA DecodesInv == ASSUME Inv, Decodes PROVE Inv'
<1>1. held \in [Ends -> 0..PipeCap] /\ held[3] < PipeCap
  BY DEF Decodes, Inv, TypeOK
<1>2. /\ held' \in [Ends -> 0..PipeCap]
      /\ held'[1] = held[1] /\ held'[3] = held[3] + 1
      /\ held'[2] = IF piped THEN held[2] - 1 ELSE held[2]
      /\ made' = IF piped THEN made ELSE made + 1
  <2>1. CASE piped
    <3>1. /\ held[2] > 0 /\ made' = made
          /\ held' = [held EXCEPT ![2] = held[2] - 1, ![3] = held[3] + 1]
      BY <2>1 DEF Decodes
    <3> QED
      BY <1>1, <2>1, <3>1, NumberTypes DEF Ends, Inv
  <2>2. CASE ~piped
    <3>1. held' = [held EXCEPT ![3] = held[3] + 1] /\ made' = made + 1
      BY <2>2 DEF Decodes
    <3> QED
      BY <1>1, <2>2, <3>1, NumberTypes DEF Ends, Inv
  <2> QED
    BY <2>1, <2>2
<1>3. TypeOK'
  BY NumberTypes
     DEF ctxVars, onceVars, pumpVars, workVars, Decodes, TypeOK, Inv
<1>4. CountInv'
  BY <1>2, NumberTypes
     DEF pumpVars, workVars, Decodes, InFlight, CountInv, Inv
<1>5. StartInv'
  BY <1>2 DEF onceVars, pumpVars, workVars, Decodes, StartInv, Inv
<1>6. OnceInv' /\ FailureInv'
  BY DEF ctxVars, onceVars, pumpVars, workVars, Running, Exited, BadExit,
         Decodes, Closing, Ended, OnceInv, FailureInv, Inv
<1>7. ClosedInv' /\ ResultInv'
  BY DEF ctxVars, onceVars, pumpVars, workVars, Decodes, CloseAllError,
         NothingLeftBehind, ClosedInv, ResultInv, Inv
<1>8. WholeInv'
  BY <1>2, NumberTypes
     DEF pumpVars, workVars, Exited, BadExit, Decodes, BothGood, WholeInv, Inv
<1> QED
  BY <1>3, <1>4, <1>5, <1>6, <1>7, <1>8 DEF Inv

----------------------------------------------------------------------------
(***************************************************************************)
(* closeAll.                                                               *)
(***************************************************************************)
\* The pump or the worker takes closeOnce and closes pipe 2.
LEMMA EnterCloseAllInv ==
  ASSUME Inv, NEW g \in {"pump", "worker"}, EnterCloseAll(g)
  PROVE  Inv'
<1>1. /\ shut' \subseteq Ends /\ once' \in OncePcs
      /\ onceBy' \in {"pump", "worker"}
  BY DEF EnterCloseAll, Inv, TypeOK, Ends, OncePcs
<1>2. TypeOK'
  BY <1>1
     DEF ctxVars, procVars, pumpVars, workVars, EnterCloseAll, TypeOK, Inv
<1>3. CountInv'
  BY DEF procVars, pumpVars, workVars, EnterCloseAll, InFlight, CountInv, Inv
<1>4. StartInv' /\ OnceInv'
  BY DEF procVars, pumpVars, workVars, Exited, AtCloseAll, EnterCloseAll,
         Closing, StartInv, OnceInv, Inv
<1>5. ClosedInv'
  BY DEF procVars, pumpVars, workVars, EnterCloseAll, NothingLeftBehind,
         ClosedInv, Inv
<1>6. ResultInv' /\ FailureInv'
  BY DEF ctxVars, procVars, pumpVars, workVars, EnterCloseAll, CloseAllError,
         OnceInv, ResultInv, FailureInv, Inv
<1>7. WholeInv'
  BY DEF procVars, pumpVars, workVars, Exited, BadExit, EnterCloseAll,
         BothGood, WholeInv, Inv
<1> QED
  BY <1>2, <1>3, <1>4, <1>5, <1>6, <1>7 DEF Inv

\* Its runner closes pipe 1.
LEMMA CloseInputInv == ASSUME Inv, CloseInput PROVE Inv'
<1>1. shut' \subseteq Ends /\ once' \in OncePcs
  BY DEF CloseInput, Inv, TypeOK, Ends, OncePcs
<1>2. TypeOK'
  BY <1>1 DEF ctxVars, procVars, pumpVars, workVars, CloseInput, TypeOK, Inv
<1>3. CountInv' /\ StartInv' /\ OnceInv'
  BY DEF procVars, pumpVars, workVars, Exited, CloseInput, InFlight, CountInv,
         StartInv, OnceInv, Inv
<1>4. ClosedInv'
  BY DEF procVars, pumpVars, workVars, CloseInput, NothingLeftBehind,
         ClosedInv, Inv
<1>5. ResultInv' /\ FailureInv'
  BY DEF ctxVars, procVars, pumpVars, workVars, CloseInput, CloseAllError,
         ResultInv, FailureInv, Inv
<1>6. WholeInv'
  BY DEF procVars, pumpVars, workVars, Exited, BadExit, CloseInput, BothGood,
         WholeInv, Inv
<1> QED
  BY <1>2, <1>3, <1>4, <1>5, <1>6 DEF Inv

\* Its runner has waited for yt-dlp.
LEMMA WaitForSourceInv == ASSUME Inv, WaitForSource PROVE Inv'
<1>1. reaped' \subseteq Procs /\ once' \in OncePcs /\ onceErr' \in BOOLEAN
  BY DEF WaitForSource, Inv, TypeOK, Procs, OncePcs
<1>2. TypeOK'
  BY <1>1 DEF ctxVars, pumpVars, workVars, WaitForSource, TypeOK, Inv
<1>3. CountInv' /\ StartInv'
  BY DEF pumpVars, workVars, WaitForSource, InFlight, CountInv, StartInv, Inv
<1>4. OnceInv'
  BY DEF pumpVars, workVars, Exited, BadExit, WaitForSource, OnceInv, Inv
<1>5. ClosedInv'
  BY DEF pumpVars, workVars, WaitForSource, NothingLeftBehind, ClosedInv, Inv
<1>6. ResultInv'
  BY DEF ctxVars, workVars, CtxDone, WaitForSource, CloseAllError, ResultInv,
         Inv
<1>7. FailureInv'
  BY DEF ctxVars, pumpVars, workVars, CtxDone, BadExit, WaitForSource,
         NothingLeftBehind, OnceInv, ClosedInv, ResultInv, FailureInv, Inv
<1>8. WholeInv'
  BY DEF pumpVars, workVars, Exited, BadExit, WaitForSource, BothGood,
         WholeInv, Inv
<1> QED
  BY <1>2, <1>3, <1>4, <1>5, <1>6, <1>7, <1>8 DEF Inv

----------------------------------------------------------------------------
(***************************************************************************)
(* The pump.                                                               *)
(***************************************************************************)
\* The pump reads pipe 1: a chunk, its end, or an error once it is closed.
LEMMA PumpReadsInv == ASSUME Inv, PumpReads PROVE Inv'
<1>1. /\ held' \in [Ends -> 0..PipeCap]
      /\ held'[2] = held[2] /\ held'[3] = held[3]
      /\ held'[1] = IF pump' = "write" THEN held[1] - 1 ELSE held[1]
  <2>1. CASE pump' = "write"
    <3> DEFINE n == held[1] - 1
    <3>1. held' = [held EXCEPT ![1] = n] /\ n \in 0..PipeCap /\ TypeOK
      BY <2>1, NumberTypes DEF PumpReads, Inv
    <3>2. 1 \in Ends /\ 2 \in Ends \ {1} /\ 3 \in Ends \ {1}
      BY DEF Ends
    <3> HIDE DEF n
    <3>3. /\ held' \in [Ends -> 0..PipeCap] /\ held'[1] = n
          /\ held'[2] = held[2] /\ held'[3] = held[3]
      BY <3>1, <3>2, HeldEffect
    <3> QED
      BY <2>1, <3>3 DEF n
  <2>2. CASE pump' # "write"
    BY <2>2 DEF PumpReads, Inv, TypeOK
  <2> QED
    BY <2>1, <2>2
<1>2. TypeOK'
  <2>1. pump' \in PumpPcs /\ copyErr' \in BOOLEAN
    BY DEF PumpReads, PumpPcs, Inv, TypeOK
  <2> QED
    BY <1>1, <2>1
       DEF ctxVars, procVars, onceVars, workVars, PumpReads, TypeOK, Inv
<1>3. CountInv'
  BY <1>1, NumberTypes
     DEF procVars, workVars, PumpReads, InFlight, CountInv, Inv
<1>4. StartInv'
  BY DEF procVars, workVars, PumpReads, StartInv, Inv
<1>5. OnceInv'
  BY DEF procVars, onceVars, workVars, Exited, BadExit, PumpReads, OnceInv,
         Inv
<1>6. ClosedInv'
  BY DEF onceVars, workVars, PumpReads, NothingLeftBehind, ClosedInv, Inv
<1>7. ResultInv' /\ FailureInv'
  BY DEF ctxVars, procVars, onceVars, workVars, CloseAllError, PumpReads,
         NothingLeftBehind, Ended, StartInv, ClosedInv, ResultInv, FailureInv,
         Inv
<1>8. WholeInv'
  <2>1. 1 \in shut => worker \notin Sending
    BY DEF PumpReads, TypeOK, Sending, Closing, Ended, OnceInv, ClosedInv, Inv
  <2> QED
    BY <1>1, <2>1
       DEF procVars, workVars, Exited, BadExit, PumpReads, StartInv, BothGood,
           WholeInv, Inv
<1> QED
  BY <1>2, <1>3, <1>4, <1>5, <1>6, <1>7, <1>8 DEF Inv

\* The pump writes its chunk into pipe 2, or finds nobody to read it.
LEMMA PumpWritesInv == ASSUME Inv, PumpWrites PROVE Inv'
<1>1. /\ held' \in [Ends -> 0..PipeCap]
      /\ held'[1] = held[1] /\ held'[3] = held[3]
      /\ held'[2] = IF pump' = "read" THEN held[2] + 1 ELSE held[2]
  <2>1. CASE pump' = "read"
    <3> DEFINE n == held[2] + 1
    <3>1. held' = [held EXCEPT ![2] = n] /\ n \in 0..PipeCap /\ TypeOK
      BY <2>1, NumberTypes DEF PumpWrites, Inv
    <3>2. 2 \in Ends /\ 1 \in Ends \ {2} /\ 3 \in Ends \ {2}
      BY DEF Ends
    <3> HIDE DEF n
    <3>3. /\ held' \in [Ends -> 0..PipeCap] /\ held'[2] = n
          /\ held'[1] = held[1] /\ held'[3] = held[3]
      BY <3>1, <3>2, HeldEffect
    <3> QED
      BY <2>1, <3>3 DEF n
  <2>2. CASE pump' # "read"
    BY <2>2 DEF PumpWrites, Inv, TypeOK
  <2> QED
    BY <2>1, <2>2
<1>2. TypeOK'
  <2>1. pump' \in PumpPcs /\ copyErr' \in BOOLEAN
    BY DEF PumpWrites, PumpPcs, Inv, TypeOK
  <2> QED
    BY <1>1, <2>1
       DEF ctxVars, procVars, onceVars, workVars, PumpWrites, TypeOK, Inv
<1>3. CountInv'
  BY <1>1, NumberTypes
     DEF procVars, workVars, PumpWrites, InFlight, CountInv, Inv
<1>4. StartInv'
  BY DEF procVars, workVars, PumpWrites, StartInv, Inv
<1>5. OnceInv'
  BY DEF procVars, onceVars, workVars, Exited, BadExit, PumpWrites, OnceInv,
         Inv
<1>6. ClosedInv'
  BY DEF onceVars, workVars, PumpWrites, NothingLeftBehind, ClosedInv, Inv
<1>7. ResultInv' /\ FailureInv'
  BY DEF ctxVars, procVars, onceVars, workVars, CloseAllError, PumpWrites,
         NothingLeftBehind, Ended, StartInv, ClosedInv, ResultInv, FailureInv,
         Inv
<1>8. WholeInv'
  <2>1. 2 \in shut => worker \notin Sending
    BY DEF PumpWrites, TypeOK, Sending, Closing, Ended, OnceInv, ClosedInv,
           Inv
  <2>2. piped
    BY DEF Inv, StartInv, PumpWrites
  <2>3. proc["ffmpeg"] \in ProcStates
    BY DEF Inv, TypeOK, Procs
  <2> QED
    BY <2>1, <2>2, <2>3
       DEF procVars, workVars, ProcStates, Exited, BadExit, PumpWrites,
           BothGood, WholeInv, Inv
<1> QED
  BY <1>2, <1>3, <1>4, <1>5, <1>6, <1>7, <1>8 DEF Inv

\* The pump comes back from closeAll.
LEMMA PumpClosesInv == ASSUME Inv, PumpCloses PROVE Inv'
<1>1. TypeOK'
  <2>1. pump' \in PumpPcs /\ copyErr' \in BOOLEAN
    BY DEF PumpCloses, PumpPcs
  <2> QED
    BY <2>1 DEF ctxVars, procVars, onceVars, workVars, PumpCloses, TypeOK, Inv
<1>2. CountInv' /\ StartInv'
  BY DEF procVars, workVars, PumpCloses, InFlight, CountInv, StartInv, Inv
<1>3. OnceInv' /\ ClosedInv'
  BY DEF procVars, onceVars, workVars, Exited, BadExit, PumpCloses,
         NothingLeftBehind, OnceInv, ClosedInv, Inv
<1>4. ResultInv' /\ FailureInv'
  BY DEF ctxVars, procVars, onceVars, workVars, CloseAllError, PumpCloses,
         NothingLeftBehind, Ended, StartInv, ClosedInv, ResultInv, FailureInv,
         Inv
<1>5. WholeInv'
  BY DEF procVars, workVars, Exited, BadExit, CloseAllError, PumpCloses,
         StartInv, OnceInv, BothGood, WholeInv, Inv
<1> QED
  BY <1>1, <1>2, <1>3, <1>4, <1>5 DEF Inv

\* The pump reports and ends.
LEMMA PumpReportsInv == ASSUME Inv, PumpReports PROVE Inv'
<1>1. TypeOK'
  BY DEF ctxVars, procVars, onceVars, workVars, PumpPcs, PumpReports, TypeOK,
         Inv
<1>2. CountInv' /\ StartInv'
  BY DEF procVars, workVars, PumpReports, InFlight, CountInv, StartInv, Inv
<1>3. OnceInv' /\ ClosedInv'
  BY DEF procVars, onceVars, workVars, Exited, BadExit, PumpReports,
         NothingLeftBehind, OnceInv, ClosedInv, Inv
<1>4. ResultInv' /\ FailureInv'
  BY DEF ctxVars, procVars, onceVars, workVars, CloseAllError, PumpReports,
         ResultInv, FailureInv, Inv
<1>5. WholeInv'
  BY DEF procVars, workVars, Exited, BadExit, PumpReports, BothGood, WholeInv,
         Inv
<1> QED
  BY <1>1, <1>2, <1>3, <1>4, <1>5 DEF Inv

----------------------------------------------------------------------------
(***************************************************************************)
(* The worker.                                                             *)
(***************************************************************************)
\* The worker opens the source of the track, or gives up.
LEMMA OpenSourceInv == ASSUME Inv, OpenSource PROVE Inv'
<1>1. /\ proc' \in [Procs -> ProcStates]
      /\ proc'["yt-dlp"] \in {"off", "running"} /\ proc'["ffmpeg"] = "off"
      /\ worker' = "start" \/ proc'["yt-dlp"] = "off"
      /\ proc["yt-dlp"] = "off"
  <2>1. proc["yt-dlp"] = "off" /\ proc["ffmpeg"] = "off"
    BY DEF OpenSource, Inv, StartInv
  <2>2. CASE ProcBecomes("yt-dlp", "running") /\ worker' = "start"
    BY <2>1, <2>2, ProcEffect DEF Inv, Procs, ProcStates
  <2>3. CASE proc' = proc
    BY <2>1, <2>3 DEF Inv, TypeOK
  <2> QED
    BY <2>2, <2>3 DEF OpenSource, WorkerGoes
<1>2. TypeOK'
  <2>1. worker' \in WorkerPcs /\ result' \in Results
    BY DEF WorkerPcs, Results, WorkerGoes, GivesUp, OpenSource, TypeOK, Inv
  <2> QED
    BY <1>1, <2>1 DEF ctxVars, onceVars, pumpVars, OpenSource, TypeOK, Inv
<1>3. CountInv'
  BY DEF pumpVars, WorkerGoes, GivesUp, OpenSource, InFlight, CountInv, Inv
<1>4. StartInv'
  BY <1>1
     DEF onceVars, pumpVars, WorkerGoes, GivesUp, OpenSource, Sending,
         Closing, StartInv, Inv
<1>5. reaped = {}
  BY DEF Procs, Exited, OpenSource, TypeOK, StartInv, OnceInv, Inv
<1>6. OnceInv'
  BY <1>5 DEF onceVars, pumpVars, OpenSource, Closing, Ended, OnceInv, Inv
<1>7. ClosedInv'
  BY DEF onceVars, pumpVars, Procs, WorkerGoes, GivesUp, OpenSource,
         NothingLeftBehind, Ended, StartInv, ClosedInv, Inv
<1>8. ResultInv' /\ FailureInv'
  BY <1>1
     DEF ctxVars, onceVars, pumpVars, WorkerGoes, GivesUp, OpenSource,
         Sending, Closing, Ended, ResultInv, FailureInv, Inv
<1>9. WholeInv'
  BY <1>1
     DEF pumpVars, Exited, WorkerGoes, GivesUp, OpenSource, Sending,
         ResultInv, WholeInv, Inv
<1> QED
  BY <1>2, <1>3, <1>4, <1>6, <1>7, <1>8, <1>9 DEF Inv

\* The worker starts ffmpeg and, for a pipe, the pump; or gives up.
LEMMA StartDecoderInv == ASSUME Inv, StartDecoder PROVE Inv'
<1>1. /\ proc' \in [Procs -> ProcStates]
      /\ proc'["yt-dlp"] = proc["yt-dlp"]
      /\ proc'["ffmpeg"] = IF worker' = "stream" THEN "running" ELSE "off"
      /\ proc["ffmpeg"] = "off"
  <2>1. proc["ffmpeg"] = "off" /\ proc \in [Procs -> ProcStates]
    BY DEF StartDecoder, Inv, StartInv, TypeOK
  <2>2. CASE ProcBecomes("ffmpeg", "running") /\ worker' = "stream"
    BY <2>1, <2>2, ProcEffect DEF Inv, Procs, ProcStates
  <2>3. CASE proc' = proc /\ worker' \in {"abort", "finish"}
    BY <2>1, <2>3
  <2> QED
    BY <2>2, <2>3 DEF StartDecoder, WorkerGoes, GivesUp
<1>2. TypeOK'
  <2>1. worker' \in WorkerPcs /\ result' \in Results /\ pump' \in PumpPcs
    BY DEF PumpPcs, WorkerPcs, Results, WorkerGoes, GivesUp, StartDecoder,
           TypeOK, Inv
  <2> QED
    BY <1>1, <2>1 DEF ctxVars, onceVars, StartDecoder, TypeOK, Inv
<1>3. CountInv'
  BY DEF WorkerGoes, GivesUp, StartDecoder, InFlight, CountInv, StartInv, Inv
<1>4. StartInv'
  BY <1>1
     DEF onceVars, WorkerGoes, GivesUp, StartDecoder, Sending, Closing,
         StartInv, Inv
<1>5. OnceInv'
  BY DEF onceVars, Procs, Exited, StartDecoder, TypeOK, StartInv, OnceInv, Inv
<1>6. ClosedInv'
  BY DEF onceVars, Procs, WorkerGoes, GivesUp, StartDecoder,
         NothingLeftBehind, Ended, StartInv, ClosedInv, Inv
<1>7. ResultInv' /\ FailureInv'
  BY <1>1
     DEF ctxVars, onceVars, WorkerGoes, GivesUp, StartDecoder, Sending, Ended,
         StartInv, ResultInv, FailureInv, Inv
<1>8. WholeInv'
  BY <1>1 DEF GivesUp, StartDecoder, StartInv, ResultInv, WholeInv, Inv
<1> QED
  BY <1>2, <1>3, <1>4, <1>5, <1>6, <1>7, <1>8 DEF Inv

\* The worker has closed the input of a decoder that did not start.
LEMMA AbortedInv == ASSUME Inv, Aborted PROVE Inv'
<1>1. TypeOK'
  <2>1. worker' \in WorkerPcs
    BY DEF WorkerPcs, WorkerGoes, Aborted
  <2> QED
    BY <2>1 DEF ctxVars, procVars, onceVars, pumpVars, Aborted, TypeOK, Inv
<1>2. CountInv'
  BY DEF procVars, pumpVars, WorkerGoes, Aborted, InFlight, CountInv, Inv
<1>3. StartInv' /\ OnceInv'
  BY DEF procVars, onceVars, pumpVars, Exited, BadExit, WorkerGoes, Aborted,
         Sending, Closing, Ended, StartInv, OnceInv, Inv
<1>4. ClosedInv'
  BY DEF procVars, onceVars, pumpVars, Procs, WorkerGoes, Aborted,
         NothingLeftBehind, Ended, StartInv, OnceInv, ClosedInv, Inv
<1>5. ResultInv'
  BY DEF ctxVars, WorkerGoes, Aborted, Sending, Ended, ResultInv, Inv
<1>6. FailureInv'
  BY DEF ctxVars, onceVars, pumpVars, WorkerGoes, Aborted, ResultInv,
         FailureInv, Inv
<1>7. WholeInv'
  BY DEF procVars, pumpVars, Exited, BadExit, WorkerGoes, Aborted, Sending,
         BothGood, WholeInv, Inv
<1> QED
  BY <1>1, <1>2, <1>3, <1>4, <1>5, <1>6, <1>7 DEF Inv

\* The worker makes the PCM stream: it drops the reader when that fails, and
\* closes the stream when the connection is refused.
LEMMA MakeStreamInv == ASSUME Inv, MakeStream PROVE Inv'
<1>1. TypeOK'
  <2>1. worker' \in WorkerPcs /\ result' \in Results /\ leaked' \in BOOLEAN
    BY DEF WorkerPcs, Results, WorkerGoes, GivesUp, MakeStream, TypeOK, Inv
  <2> QED
    BY <2>1 DEF ctxVars, procVars, onceVars, pumpVars, MakeStream, TypeOK, Inv
<1>2. CountInv'
  BY DEF procVars, pumpVars, WorkerGoes, GivesUp, MakeStream, InFlight,
         CountInv, Inv
<1>3. StartInv' /\ OnceInv'
  BY DEF procVars, onceVars, pumpVars, Exited, BadExit, WorkerGoes, GivesUp,
         MakeStream, Sending, Closing, Ended, StartInv, OnceInv, Inv
<1>4. ClosedInv'
  BY DEF onceVars, pumpVars, WorkerGoes, GivesUp, MakeStream,
         NothingLeftBehind, Ended, ClosedInv, Inv
<1>5. ResultInv'
  <2>1. ~leaked /\ ~closeErr /\ result = "none" /\ onceBy # "worker"
    BY DEF MakeStream, Sending, Closing, Ended, OnceInv, ResultInv, Inv
  <2>2. \/ worker' = "send" /\ result' = "none" /\ ~leaked'
        \/ worker' = "finish" /\ result' \in {"error", "send error"} /\ leaked'
        \/ worker' = "close" /\ result' = "send error" /\ ~leaked'
    BY <2>1 DEF MakeStream, WorkerGoes, GivesUp
  <2>3. ~inTime
    BY DEF MakeStream, Closing, Ended, ResultInv, Inv
  <2> QED
    BY <2>1, <2>2, <2>3
       DEF ctxVars, MakeStream, Sending, Ended, ResultInv, Inv
<1>6. FailureInv'
  BY DEF ctxVars, procVars, onceVars, pumpVars, WorkerGoes, GivesUp,
         MakeStream, Ended, FailureInv, Inv
<1>7. WholeInv'
  BY DEF procVars, pumpVars, Exited, BadExit, GivesUp, MakeStream, Sending,
         BothGood, WholeInv, Inv
<1> QED
  BY <1>1, <1>2, <1>3, <1>4, <1>5, <1>6, <1>7 DEF Inv

\* The worker begins to send: without a UDP connection it drops the stream.
LEMMA BeginSendingInv == ASSUME Inv, BeginSending PROVE Inv'
<1>1. TypeOK'
  <2>1. worker' \in WorkerPcs /\ result' \in Results /\ leaked' \in BOOLEAN
    BY DEF WorkerPcs, Results, WorkerGoes, GivesUp, BeginSending, TypeOK, Inv
  <2> QED
    BY <2>1
       DEF ctxVars, procVars, onceVars, pumpVars, BeginSending, TypeOK, Inv
<1>2. CountInv'
  BY DEF procVars, pumpVars, WorkerGoes, GivesUp, BeginSending, InFlight,
         CountInv, Inv
<1>3. StartInv' /\ OnceInv'
  BY DEF procVars, onceVars, pumpVars, Exited, BadExit, WorkerGoes, GivesUp,
         BeginSending, Sending, Closing, Ended, StartInv, OnceInv, Inv
<1>4. ClosedInv'
  BY DEF onceVars, pumpVars, WorkerGoes, GivesUp, BeginSending,
         NothingLeftBehind, Ended, ClosedInv, Inv
<1>5. ResultInv'
  <2>1. ~leaked /\ ~closeErr /\ result = "none" /\ onceBy # "worker"
    BY DEF BeginSending, Sending, Closing, Ended, OnceInv, ResultInv, Inv
  <2>2. \/ worker' = "read" /\ result' = "none" /\ ~leaked'
        \/ worker' = "finish" /\ result' = "send error" /\ leaked'
        \/ worker' = "close" /\ result' = "send error" /\ ~leaked'
    BY <2>1 DEF BeginSending, WorkerGoes, GivesUp
  <2> QED
    BY <2>2
       DEF ctxVars, onceVars, CloseAllError, BeginSending, Sending, Closing,
           Ended, ResultInv, Inv
<1>6. FailureInv'
  BY DEF ctxVars, procVars, onceVars, pumpVars, WorkerGoes, GivesUp,
         BeginSending, Sending, Ended, ResultInv, FailureInv, Inv
<1>7. WholeInv'
  BY DEF procVars, pumpVars, Exited, BadExit, GivesUp, BeginSending, Sending,
         BothGood, WholeInv, Inv
<1> QED
  BY <1>1, <1>2, <1>3, <1>4, <1>5, <1>6, <1>7 DEF Inv

\* The worker waits for its ticker, or learns that the context is done.
LEMMA TickInv == ASSUME Inv, Tick PROVE Inv'
<1>1. TypeOK'
  <2>1. worker' \in WorkerPcs /\ result' \in Results
    BY DEF WorkerPcs, Results, WorkerGoes, GivesUp, Tick, TypeOK, Inv
  <2> QED
    BY <2>1 DEF ctxVars, procVars, onceVars, pumpVars, Tick, TypeOK, Inv
<1>2. CountInv'
  BY DEF procVars, pumpVars, WorkerGoes, GivesUp, Tick, InFlight, CountInv,
         Inv
<1>3. StartInv' /\ OnceInv'
  BY DEF procVars, onceVars, pumpVars, Exited, BadExit, WorkerGoes, GivesUp,
         Tick, Sending, Closing, Ended, StartInv, OnceInv, Inv
<1>4. ClosedInv'
  BY DEF onceVars, pumpVars, WorkerGoes, GivesUp, Tick, NothingLeftBehind,
         Ended, ClosedInv, Inv
<1>5. ResultInv'
  BY DEF ctxVars, onceVars, CtxDone, CloseAllError, WorkerGoes, GivesUp, Tick,
         Sending, Closing, Ended, ResultInv, Inv
<1>6. FailureInv'
  BY DEF ctxVars, procVars, onceVars, pumpVars, WorkerGoes, GivesUp, Tick,
         Sending, Ended, ResultInv, FailureInv, Inv
<1>7. WholeInv'
  BY DEF procVars, pumpVars, Exited, BadExit, GivesUp, Tick, Sending,
         BothGood, WholeInv, Inv
<1> QED
  BY <1>1, <1>2, <1>3, <1>4, <1>5, <1>6, <1>7 DEF Inv

\* The worker reads a frame, which it may fail to encode, the end of the
\* stream, or an error.
LEMMA ReadFrameInv == ASSUME Inv, ReadFrame PROVE Inv'
<1>1. 3 \notin shut /\ worker = "read" /\ result = "none"
  BY DEF Inv, ClosedInv, ResultInv, Sending, ReadFrame, Ended
<1>2. /\ held' \in [Ends -> 0..PipeCap]
      /\ held'[1] = held[1] /\ held'[2] = held[2]
      /\ held'[3] = IF worker' = "write" \/ result' = "send error"
                    THEN held[3] - 1 ELSE held[3]
  <2>1. CASE worker' = "write" \/ result' = "send error"
    <3> DEFINE n == held[3] - 1
    <3>1. held' = [held EXCEPT ![3] = n] /\ held[3] > 0 /\ TypeOK
      BY <1>1, <2>1 DEF ReadFrame, GivesUp, WorkerGoes, Inv
    <3> n \in 0..PipeCap
      BY <3>1, NumberTypes
    <3>2. 3 \in Ends /\ 1 \in Ends \ {3} /\ 2 \in Ends \ {3}
      BY DEF Ends
    <3> HIDE DEF n
    <3>3. /\ held' \in [Ends -> 0..PipeCap] /\ held'[3] = n
          /\ held'[1] = held[1] /\ held'[2] = held[2]
      BY <3>1, <3>2, HeldEffect
    <3> QED
      BY <2>1, <3>3 DEF n
  <2>2. CASE ~(worker' = "write" \/ result' = "send error")
    BY <2>2 DEF ReadFrame, WorkerGoes, GivesUp, Inv, TypeOK
  <2> QED
    BY <2>1, <2>2
<1>3. TypeOK'
  <2>1. worker' \in WorkerPcs /\ result' \in Results
    BY DEF ReadFrame, WorkerGoes, GivesUp, WorkerPcs, Results, Inv, TypeOK
  <2> QED
    BY <1>2, <2>1
       DEF ctxVars, procVars, onceVars, pumpVars, ReadFrame, TypeOK, Inv
<1>4. CountInv'
  <2>1. /\ pump' = pump /\ made' = made /\ sent' = sent
        /\ copyErr' = copyErr
    BY DEF ReadFrame, procVars, pumpVars
  <2>2. /\ held[1] \in Nat /\ held[2] \in Nat /\ held[3] \in Nat
        /\ sent \in Nat /\ made \in Nat
    BY NumberTypes DEF Inv
  <2>3. held'[1] = held[1] /\ held'[2] = held[2] /\ held'[3] \in Nat
    <3>1. 3 \in Ends /\ 0..PipeCap \subseteq Nat
      BY PipeCapAssumption DEF Ends
    <3> QED
      BY <1>2, <3>1
  <2>4. CASE result' = "send error"
    <3>1. worker' = "close"
      BY <2>4, <1>1 DEF ReadFrame, WorkerGoes, GivesUp
    <3>2. held'[3] = held[3] - 1
      BY <1>2, <2>4
    <3>3. InFlight' <= InFlight /\ InFlight' \in Nat /\ InFlight \in Nat
      BY <1>1, <2>1, <2>2, <2>3, <3>1, <3>2 DEF InFlight
    <3>4. InFlight <= made /\ made \in Nat
      BY <2>2 DEF Inv, CountInv
    <3>5. InFlight' <= made'
      BY <2>1, <3>3, <3>4
    <3> QED
      BY <2>4, <3>5 DEF CountInv
  <2>5. CASE result' # "send error"
    <3>1. held'[3] = IF worker' = "write" THEN held[3] - 1 ELSE held[3]
      BY <1>2, <2>5
    <3>2. InFlight' = InFlight
      BY <1>1, <2>1, <2>2, <2>3, <3>1 DEF InFlight
    <3> QED
      BY <1>1, <2>1, <3>2 DEF CountInv, Inv
  <2> QED
    BY <2>4, <2>5
<1>5. StartInv' /\ OnceInv'
  BY <1>2
     DEF procVars, onceVars, pumpVars, Exited, BadExit, WorkerGoes, GivesUp,
         ReadFrame, Sending, Closing, Ended, StartInv, OnceInv, Inv
<1>6. ClosedInv'
  BY <1>1
     DEF onceVars, pumpVars, WorkerGoes, GivesUp, ReadFrame,
         NothingLeftBehind, ClosedInv, Inv
<1>7. ResultInv'
  BY <1>1
     DEF ctxVars, onceVars, CloseAllError, WorkerGoes, GivesUp, ReadFrame,
         Sending, Closing, Ended, ResultInv, Inv
<1>8. FailureInv'
  BY DEF ctxVars, procVars, onceVars, pumpVars, WorkerGoes, GivesUp,
         ReadFrame, Sending, Ended, ResultInv, FailureInv, Inv
<1>9. WholeInv'
  <2>1. CASE result' \in {result, "send error", "error"}
    BY <1>1, <1>2, <2>1
       DEF procVars, pumpVars, Exited, BadExit, WorkerGoes, GivesUp,
           ReadFrame, Sending, BothGood, WholeInv, Inv
  <2>2. CASE result' = "ok"
    <3>1. /\ held[3] = 0 /\ held' = held /\ Exited("ffmpeg")
          /\ worker = "read" /\ result = "none" /\ ~closeErr
      BY <1>1, <2>2
         DEF WorkerGoes, GivesUp, ReadFrame, Sending, Closing, Ended,
             ResultInv, Inv
    <3>2. piped /\ proc["ffmpeg"] = "ok" =>
            pump \in {"close", "report", "done"} /\ held[2] = 0
      BY <3>1 DEF TypeOK, Closing, Ended, OnceInv, ClosedInv, WholeInv, Inv
    <3>3. piped /\ proc["ffmpeg"] = "ok" => Exited("yt-dlp")
      BY <3>1, <3>2 DEF Exited, BadExit, Sending, WholeInv, Inv
    <3>4. BothGood => ~copyErr
      BY <3>1 DEF BadExit, Sending, StartInv, BothGood, WholeInv, Inv
    <3>5. BothGood => sent = Chunks
      <4> SUFFICES ASSUME BothGood PROVE sent = Chunks
        OBVIOUS
      <4>1. InFlight = made
        BY <3>1, <3>4 DEF Inv, CountInv
      <4>2. made = Chunks
        BY DEF BothGood, Inv, WholeInv
      <4>3. pump # "write" /\ worker # "write"
        BY <3>1, <3>2 DEF BothGood, Inv, StartInv
      <4>4. held[1] = 0 /\ held[2] = 0
        BY <3>2, <3>4 DEF BothGood, Inv, StartInv, WholeInv
      <4> QED
        BY <3>1, <4>1, <4>2, <4>3, <4>4, NumberTypes DEF Inv, InFlight
    <3> QED
      BY <2>2, <3>1, <3>2, <3>3, <3>4, <3>5
         DEF procVars, pumpVars, Exited, GivesUp, ReadFrame, Sending,
             BothGood, WholeInv, Inv
  <2> QED
    BY <1>1, <2>1, <2>2 DEF ReadFrame, GivesUp
<1> QED
  BY <1>3, <1>4, <1>5, <1>6, <1>7, <1>8, <1>9 DEF Inv

\* The worker writes its frame to the voice connection.
LEMMA WriteFrameInv == ASSUME Inv, WriteFrame PROVE Inv'
<1>1. worker = "write" /\ worker' # "write" /\ sent' \in {sent, sent + 1}
  BY DEF WriteFrame, WorkerGoes, GivesUp
<1>2. InFlight \in Nat /\ InFlight <= made /\ sent + 1 <= InFlight
  BY <1>1, NumberTypes DEF Inv, CountInv, InFlight
<1>3. sent + 1 \in 0..Chunks
  BY <1>2, NumberTypes DEF Inv
<1>4. TypeOK'
  <2>1. worker' \in WorkerPcs /\ result' \in Results /\ sent' \in 0..Chunks
    BY <1>3
       DEF WriteFrame, WorkerGoes, GivesUp, WorkerPcs, Results, Inv, TypeOK
  <2> QED
    BY <2>1 DEF ctxVars, procVars, onceVars, pumpVars, WriteFrame, TypeOK, Inv
<1>5. CountInv'
  <2>1. held' = held /\ pump' = pump /\ made' = made /\ copyErr' = copyErr
    BY DEF WriteFrame, procVars, pumpVars
  <2>2. CASE sent' = sent + 1 /\ result' = result
    <3>1. InFlight' = InFlight
      BY <1>1, <2>1, <2>2, NumberTypes DEF Inv, InFlight
    <3> QED
      BY <2>1, <2>2, <3>1 DEF Inv, CountInv
  <2>3. CASE sent' = sent /\ result' \notin {"none", "ok"}
    <3>1. InFlight' <= InFlight /\ InFlight' \in Nat
      BY <1>1, <2>1, NumberTypes DEF Inv, InFlight
    <3> QED
      BY <1>2, <2>1, <2>3, <3>1, NumberTypes DEF Inv, CountInv
  <2> QED
    BY <2>2, <2>3 DEF WriteFrame, GivesUp
<1>6. StartInv' /\ OnceInv'
  BY DEF procVars, onceVars, pumpVars, Exited, BadExit, WorkerGoes, GivesUp,
         WriteFrame, Sending, Closing, Ended, StartInv, OnceInv, Inv
<1>7. ClosedInv'
  BY DEF onceVars, pumpVars, WorkerGoes, GivesUp, WriteFrame,
         NothingLeftBehind, Ended, ClosedInv, Inv
<1>8. ResultInv'
  BY DEF ctxVars, onceVars, CtxDone, CloseAllError, WorkerGoes, GivesUp,
         WriteFrame, Sending, Closing, Ended, ResultInv, Inv
<1>9. FailureInv'
  BY DEF ctxVars, procVars, onceVars, pumpVars, WorkerGoes, GivesUp,
         WriteFrame, Sending, Ended, ResultInv, FailureInv, Inv
<1>10. WholeInv'
  BY DEF procVars, pumpVars, Exited, BadExit, GivesUp, WriteFrame, Sending,
         ResultInv, WholeInv, Inv
<1> QED
  BY <1>4, <1>5, <1>6, <1>7, <1>8, <1>9, <1>10 DEF Inv

\* The worker comes back from closeAll.
LEMMA CloseUpstreamInv == ASSUME Inv, CloseUpstream PROVE Inv'
<1>1. TypeOK'
  <2>1. worker' \in WorkerPcs /\ closeErr' \in BOOLEAN
    BY DEF WorkerPcs, WorkerGoes, Following, CloseUpstream
  <2> QED
    BY <2>1
       DEF ctxVars, procVars, onceVars, pumpVars, CloseUpstream, TypeOK, Inv
<1>2. CountInv'
  BY DEF procVars, pumpVars, WorkerGoes, Following, CloseUpstream, InFlight,
         CountInv, Inv
<1>3. StartInv' /\ OnceInv'
  BY DEF procVars, onceVars, pumpVars, Exited, BadExit, WorkerGoes, Following,
         CloseUpstream, Closing, StartInv, OnceInv, Inv
<1>4. ClosedInv'
  BY DEF onceVars, pumpVars, WorkerGoes, Following, CloseUpstream,
         NothingLeftBehind, Ended, ClosedInv, Inv
<1>5. ResultInv'
  BY DEF ctxVars, onceVars, CloseAllError, WorkerGoes, Following,
         CloseUpstream, Sending, Closing, Ended, ResultInv, Inv
<1>6. FailureInv'
  BY DEF ctxVars, procVars, onceVars, pumpVars, CloseAllError, WorkerGoes,
         Following, CloseUpstream, Ended, StartInv, OnceInv, FailureInv, Inv
<1>7. WholeInv'
  BY DEF procVars, pumpVars, Exited, BadExit, CloseAllError, WorkerGoes,
         Following, CloseUpstream, Sending, OnceInv, BothGood, WholeInv, Inv
<1> QED
  BY <1>1, <1>2, <1>3, <1>4, <1>5, <1>6, <1>7 DEF Inv

\* The worker closes its end of pipe 3.
LEMMA CloseReaderInv == ASSUME Inv, CloseReader PROVE Inv'
<1>1. TypeOK'
  <2>1. worker' \in WorkerPcs /\ shut' \subseteq Ends
    BY DEF Ends, WorkerPcs, WorkerGoes, Following, CloseReader, TypeOK, Inv
  <2> QED
    BY <2>1
       DEF ctxVars, procVars, onceVars, pumpVars, CloseReader, TypeOK, Inv
<1>2. CountInv'
  BY DEF procVars, pumpVars, WorkerGoes, Following, CloseReader, InFlight,
         CountInv, Inv
<1>3. StartInv' /\ OnceInv'
  BY DEF procVars, onceVars, pumpVars, Exited, BadExit, WorkerGoes, Following,
         CloseReader, Closing, StartInv, OnceInv, Inv
<1>4. ClosedInv'
  BY DEF onceVars, pumpVars, WorkerGoes, Following, CloseReader,
         NothingLeftBehind, ClosedInv, Inv
<1>5. ResultInv'
  BY DEF ctxVars, onceVars, CloseAllError, WorkerGoes, Following, CloseReader,
         Sending, Closing, Ended, ResultInv, Inv
<1>6. FailureInv'
  BY DEF ctxVars, procVars, onceVars, pumpVars, WorkerGoes, Following,
         CloseReader, Ended, FailureInv, Inv
<1>7. WholeInv'
  BY DEF procVars, pumpVars, Exited, BadExit, WorkerGoes, Following,
         CloseReader, Sending, BothGood, WholeInv, Inv
<1> QED
  BY <1>1, <1>2, <1>3, <1>4, <1>5, <1>6, <1>7 DEF Inv

\* The worker receives the error of the pump.
LEMMA WaitForPumpInv == ASSUME Inv, WaitForPump PROVE Inv'
<1>1. TypeOK'
  <2>1. worker' \in WorkerPcs /\ closeErr' \in BOOLEAN
    BY DEF WorkerPcs, WorkerGoes, Following, WaitForPump
  <2> QED
    BY <2>1
       DEF ctxVars, procVars, onceVars, pumpVars, WaitForPump, TypeOK, Inv
<1>2. CountInv'
  BY DEF procVars, pumpVars, WorkerGoes, Following, WaitForPump, InFlight,
         CountInv, Inv
<1>3. StartInv' /\ OnceInv'
  BY DEF procVars, onceVars, pumpVars, Exited, BadExit, WorkerGoes, Following,
         WaitForPump, Closing, StartInv, OnceInv, Inv
<1>4. ClosedInv'
  BY DEF onceVars, pumpVars, WorkerGoes, Following, WaitForPump,
         NothingLeftBehind, ClosedInv, Inv
<1>5. ResultInv'
  BY DEF ctxVars, onceVars, CtxDone, CloseAllError, WorkerGoes, Following,
         WaitForPump, Sending, Closing, Ended, ResultInv, Inv
<1>6. FailureInv'
  BY DEF ctxVars, procVars, onceVars, pumpVars, CtxDone, WorkerGoes,
         Following, WaitForPump, Ended, ResultInv, FailureInv, Inv
<1>7. WholeInv'
  BY DEF procVars, pumpVars, Exited, BadExit, WorkerGoes, Following,
         WaitForPump, Sending, BothGood, WholeInv, Inv
<1> QED
  BY <1>1, <1>2, <1>3, <1>4, <1>5, <1>6, <1>7 DEF Inv

\* The worker has waited for ffmpeg, and knows what becomes of the track.
LEMMA WaitForDecoderInv == ASSUME Inv, WaitForDecoder PROVE Inv'
<1>1. TypeOK'
  <2>1. /\ worker' \in WorkerPcs /\ result' \in Results
        /\ closeErr' \in BOOLEAN /\ reaped' \subseteq Procs
    BY DEF ctxVars, Procs, WorkerPcs, Results, GivesUp, WaitForDecoder,
           TypeOK, Inv
  <2> QED
    BY <2>1 DEF ctxVars, onceVars, pumpVars, WaitForDecoder, TypeOK, Inv
<1>2. CountInv'
  BY DEF pumpVars, GivesUp, WaitForDecoder, InFlight, CountInv, Inv
<1>3. StartInv' /\ OnceInv'
  BY DEF onceVars, pumpVars, Exited, BadExit, GivesUp, WaitForDecoder,
         Closing, Ended, StartInv, OnceInv, Inv
<1>4. ClosedInv'
  BY DEF onceVars, pumpVars, Procs, GivesUp, WaitForDecoder,
         NothingLeftBehind, Ended, StartInv, OnceInv, ClosedInv, Inv
<1>5. ResultInv'
  BY DEF ctxVars, onceVars, CtxDone, CloseAllError, GivesUp, WaitForDecoder,
         Sending, Ended, ResultInv, Inv
<1>6. result' = IF result = "ok" /\ closeErr' THEN "error" ELSE result
  BY DEF WaitForDecoder, GivesUp
<1>7. result \in {"ok", "canceled", "send error", "error"} /\ ~finished
  BY DEF Inv, TypeOK, ResultInv, WaitForDecoder, Results, Sending
<1>8. FailureInv'
  <2> SUFFICES ASSUME ~skipped PROVE FailureInv'
    BY DEF FailureInv, WaitForDecoder, ctxVars
  <2>1. closeErr' => result' \in {"error", "send error"}
    BY <1>6, <1>7 DEF Inv, ResultInv
  <2>2. closeErr \/ BadExit("ffmpeg") => closeErr'
    BY <1>7 DEF WaitForDecoder, CtxDone
  <2> QED
    BY <1>6, <2>1, <2>2
       DEF onceVars, pumpVars, BadExit, WaitForDecoder, FailureInv, Inv
<1>9. WholeInv'
  <2>1. proc["ffmpeg"] \in ProcStates /\ proc["yt-dlp"] \in ProcStates
    BY DEF Inv, TypeOK, Procs
  <2>2. closeErr' => closeErr \/ BadExit("ffmpeg")
    BY DEF WaitForDecoder
  <2>3. CASE result' = result
    BY <2>3
       DEF pumpVars, Exited, BadExit, GivesUp, WaitForDecoder, Sending,
           BothGood, WholeInv, Inv
  <2>4. CASE result = "ok" /\ closeErr' /\ result' = "error"
    <3>1. BadExit("ffmpeg") \/ (piped /\ BadExit("yt-dlp"))
      BY <2>1, <2>2, <2>4
         DEF Inv, WholeInv, BothGood, Exited, BadExit, ProcStates
    <3> QED
      BY <2>4, <3>1
         DEF pumpVars, Exited, BadExit, WaitForDecoder, WholeInv, Inv
  <2> QED
    BY <1>6, <2>3, <2>4
<1> QED
  BY <1>1, <1>2, <1>3, <1>4, <1>5, <1>8, <1>9 DEF Inv

\* The worker finishes the track.
LEMMA FinishCurrentInv == ASSUME Inv, FinishCurrent PROVE Inv'
<1>1. TypeOK'
  <2>1. worker' \in WorkerPcs
    BY DEF WorkerPcs, WorkerGoes, FinishCurrent
  <2> QED
    BY <2>1 DEF procVars, onceVars, pumpVars, FinishCurrent, TypeOK, Inv
<1>2. CountInv'
  BY DEF procVars, pumpVars, WorkerGoes, FinishCurrent, InFlight, CountInv,
         Inv
<1>3. StartInv' /\ OnceInv'
  BY DEF procVars, onceVars, pumpVars, Exited, BadExit, WorkerGoes,
         FinishCurrent, Sending, Closing, Ended, StartInv, OnceInv, Inv
<1>4. ClosedInv'
  BY DEF procVars, onceVars, pumpVars, WorkerGoes, FinishCurrent,
         NothingLeftBehind, Ended, ClosedInv, Inv
<1>5. ResultInv'
  BY DEF onceVars, CloseAllError, WorkerGoes, FinishCurrent, Sending, Ended,
         ResultInv, Inv
<1>6. FailureInv'
  BY DEF procVars, onceVars, pumpVars, WorkerGoes, FinishCurrent, Ended,
         FailureInv, Inv
<1>7. WholeInv'
  BY DEF procVars, pumpVars, Exited, BadExit, WorkerGoes, FinishCurrent,
         Sending, BothGood, WholeInv, Inv
<1> QED
  BY <1>1, <1>2, <1>3, <1>4, <1>5, <1>6, <1>7 DEF Inv

\* The track is skipped.
LEMMA CancelInv == ASSUME Inv, Cancel PROVE Inv'
<1>1. TypeOK'
  BY DEF procVars, onceVars, pumpVars, workVars, Cancel, TypeOK, Inv
<1>2. CountInv'
  BY DEF procVars, pumpVars, workVars, Cancel, InFlight, CountInv, Inv
<1>3. StartInv' /\ OnceInv'
  BY DEF procVars, onceVars, pumpVars, workVars, Exited, BadExit, Cancel,
         StartInv, OnceInv, Inv
<1>4. ClosedInv'
  BY DEF procVars, onceVars, pumpVars, workVars, Cancel, NothingLeftBehind,
         ClosedInv, Inv
<1>5. ResultInv'
  BY DEF onceVars, workVars, CloseAllError, Cancel, Sending, Closing, Ended,
         OnceInv, ResultInv, Inv
<1>6. FailureInv'
  BY DEF Cancel, FailureInv
<1>7. WholeInv'
  BY DEF procVars, onceVars, pumpVars, workVars, CtxDone, Exited, BadExit,
         CloseAllError, Cancel, NothingLeftBehind, Sending, Closing, Ended,
         StartInv, OnceInv, ClosedInv, ResultInv, BothGood, WholeInv, Inv
<1> QED
  BY <1>1, <1>2, <1>3, <1>4, <1>5, <1>6, <1>7 DEF Inv

----------------------------------------------------------------------------
(***************************************************************************)
(* The theorems.                                                           *)
(***************************************************************************)
\* Every step keeps the invariant.
LEMMA NextInv == Inv /\ [Next]_vars => Inv'
<1> SUFFICES ASSUME Inv, [Next]_vars PROVE Inv'
  OBVIOUS
<1>1. CASE \/ SourceExits \/ DecoderExits
           \/ \E p \in Procs : Fails(p) \/ Kill(p)
  BY <1>1, ProcessesInv
<1>2. CASE SourceWrites \/ Decodes
  BY <1>2, SourceWritesInv, DecodesInv
<1>3. CASE CloseAllStep
  <2>1. \A g \in {"pump", "worker"} : EnterCloseAll(g) => Inv'
    BY EnterCloseAllInv
  <2> QED
    BY <1>3, <2>1, CloseInputInv, WaitForSourceInv DEF CloseAllStep
<1>4. CASE PumpStep
  BY <1>4, PumpReadsInv, PumpWritesInv, PumpClosesInv, PumpReportsInv
     DEF PumpStep
<1>5. CASE WorkerStep
  BY <1>5, OpenSourceInv, StartDecoderInv, AbortedInv, MakeStreamInv,
     BeginSendingInv, TickInv, ReadFrameInv, WriteFrameInv, CloseUpstreamInv,
     CloseReaderInv, WaitForPumpInv, WaitForDecoderInv, FinishCurrentInv
     DEF WorkerStep
<1>6. CASE Cancel
  BY <1>6, CancelInv
<1>7. CASE UNCHANGED vars
  <2>1. /\ UNCHANGED <<piped, skipped, inTime, finished, made, proc, reaped>>
        /\ UNCHANGED <<held, shut, once, onceBy, onceErr, pump, copyErr>>
        /\ UNCHANGED <<worker, result, closeErr, leaked, sent>>
    BY <1>7 DEF vars, ctxVars, procVars, onceVars, pumpVars, workVars
  <2>2. TypeOK'
    BY <2>1 DEF Inv, TypeOK
  <2>3. CountInv' /\ StartInv' /\ OnceInv'
    BY <2>1 DEF Exited, BadExit, InFlight, CountInv, StartInv, OnceInv, Inv
  <2>4. ClosedInv'
    BY <2>1 DEF NothingLeftBehind, ClosedInv, Inv
  <2>5. ResultInv' /\ FailureInv'
    BY <2>1 DEF CloseAllError, ResultInv, FailureInv, Inv
  <2>6. WholeInv'
    BY <2>1 DEF Exited, BadExit, BothGood, WholeInv, Inv
  <2> QED
    BY <2>2, <2>3, <2>4, <2>5, <2>6 DEF Inv
<1> QED
  BY <1>1, <1>2, <1>3, <1>4, <1>5, <1>6, <1>7 DEF Next, Finished

\* The invariant holds in every reachable state.
THEOREM PipelineInvariant == SafetySpec => []Inv
BY InitInv, NextInv, PTL DEF SafetySpec

\* Every variable stays in its range: in particular no more is sent than the
\* source has, and no pipe holds more than it can.
THEOREM PipelineTypeCorrect == SafetySpec => []TypeOK
<1>1. Inv => TypeOK
  BY DEF Inv
<1> QED
  BY <1>1, PipelineInvariant, PTL

\* When the worker goes on to the next track it has waited for every process
\* it started, and the pump has ended (processPipeReadCloser.Close).
THEOREM PipelineIsReaped == SafetySpec => []NothingLeftBehind
<1>1. Inv => NothingLeftBehind
  BY DEF Inv, ClosedInv
<1> QED
  BY <1>1, PipelineInvariant, PTL

\* A track whose processes end well, that nobody skips, is sent whole and
\* counts as completed, however its pump, processes and worker interleave.
THEOREM TrackIsWhole == SafetySpec => []NothingCutShort
<1>1. Inv => NothingCutShort
  <2> SUFFICES ASSUME Inv, worker = "exit", ~skipped, ~leaked,
                      result \in {"ok", "error"}, BothGood
               PROVE  result = "ok" /\ sent = Chunks
    BY DEF NothingCutShort, BothGood
  <2>1. result # "error"
    BY DEF Inv, WholeInv, BothGood, BadExit
  <2> QED
    BY <2>1 DEF Inv, WholeInv
<1> QED
  BY <1>1, PipelineInvariant, PTL

\* A process that failed by itself, and was waited for, makes the track fail:
\* its error is handed on by whichever of the pump and the worker met it.
THEOREM FailureIsReported == SafetySpec => []FailureReported
<1>1. Inv => FailureReported
  <2> SUFFICES ASSUME Inv, worker = "exit", ~skipped,
                      NEW p \in Procs, proc[p] = "failed", p \in reaped
               PROVE  result \in {"error", "send error"}
    BY DEF FailureReported
  <2>1. CASE p = "ffmpeg"
    BY <2>1 DEF Inv, FailureInv
  <2>2. CASE p = "yt-dlp"
    <3>1. onceErr \/ result \in {"error", "send error"}
      BY <2>2 DEF Inv, FailureInv
    <3>2. CASE onceErr /\ onceBy = "worker"
      BY <3>2 DEF Inv, FailureInv, Ended
    <3>3. CASE onceErr /\ onceBy = "pump" /\ pump # "close"
      BY <3>3 DEF Inv, FailureInv, Ended
    <3>4. CASE onceErr /\ onceBy = "pump" /\ pump = "close"
      BY <3>4 DEF Inv, ClosedInv, ResultInv, NothingLeftBehind
    <3>5. onceErr => onceBy \in {"pump", "worker"}
      BY DEF Inv, TypeOK, OnceInv
    <3> QED
      BY <3>1, <3>2, <3>3, <3>4, <3>5
  <2> QED
    BY <2>1, <2>2 DEF Procs
<1> QED
  BY <1>1, PipelineInvariant, PTL

\* A skip while the track is sent is no failure, although it kills both
\* processes in the middle of their work.
THEOREM SkipIsNoFailure == SafetySpec => []SkipIsQuiet
<1>1. Inv => SkipIsQuiet
  BY DEF Inv, TypeOK, ResultInv, SkipIsQuiet, Results, Sending
<1> QED
  BY <1>1, PipelineInvariant, PTL

----------------------------------------------------------------------------
(***************************************************************************)
(* Nobody waits in a circle.  The worker waits for closeAll, the pump and  *)
(* ffmpeg, the pump for a pipe, for yt-dlp or for closeAll, closeAll for   *)
(* yt-dlp, and the processes for the pipes; each of the operators below    *)
(* says when a step of its group can be taken.                             *)
(***************************************************************************)
\* SourceWrites, SourceExits, Decodes or DecoderExits: what the processes do
\* unless they hang.
ProcessMoves ==
  \/ /\ Running("yt-dlp")
     /\ made = Chunks \/ 1 \in shut \/ held[1] < PipeCap
  \/ /\ Running("ffmpeg")
     /\ InputOver \/ (InputLeft /\ (3 \in shut \/ held[3] < PipeCap))

\* CloseAllStep
CloseAllMoves ==
  \/ once = "free" /\ (AtCloseAll("pump") \/ AtCloseAll("worker"))
  \/ once = "input"
  \/ once = "wait" /\ Exited("yt-dlp")

\* PumpStep
PumpMoves ==
  \/ pump = "read" /\ (1 \in shut \/ held[1] > 0 \/ Exited("yt-dlp"))
  \/ /\ pump = "write"
     /\ \/ 2 \in shut \/ Exited("ffmpeg")
        \/ Running("ffmpeg") /\ held[2] < PipeCap
  \/ pump = "close" /\ once = "done"
  \/ pump = "report"

\* WorkerStep
WorkerMoves ==
  \/ worker \in {"open", "start", "stream", "send", "tick", "write",
                 "reader", "finish"}
  \/ worker = "abort" /\ once = "done"
  \/ worker = "read" /\ (held[3] > 0 \/ 3 \in shut \/ Exited("ffmpeg"))
  \/ worker = "close" /\ (piped => once = "done")
  \/ worker = "copy" /\ (piped => pump = "done")
  \/ worker = "wait" /\ Exited("ffmpeg")

Moves == ProcessMoves \/ CloseAllMoves \/ PumpMoves \/ WorkerMoves

\* As long as the worker is at work somebody can go on, without a process
\* that fails, a skip or a kill; and after it, until nothing runs any more,
\* somebody can or a process has only to be killed with its context.
NobodyWaitsInACircle ==
  /\ worker # "exit" => Moves
  /\ ~Over => Moves \/ (CtxDone /\ \E p \in Procs : Running(p))

\* The worker waits for the pump and for ffmpeg only when it has closed what
\* they write to; FinishCurrent has cancelled the context of what it left.
BehindInv ==
  /\ worker \in {"copy", "wait"} => 3 \in shut
  /\ worker = "exit" => finished
  /\ pump # "off" => piped /\ proc["ffmpeg"] # "off"
  /\ piped /\ (worker \in {"start", "abort"} \/ pump # "off") =>
       proc["yt-dlp"] # "off"

\* What started stays started, and what is closed stays closed.
LEMMA BehindStep == Inv /\ BehindInv /\ [Next]_vars => BehindInv'
<1> SUFFICES ASSUME Inv, BehindInv, [Next]_vars PROVE BehindInv'
  OBVIOUS
<1>1. CASE \/ SourceExits \/ DecoderExits
           \/ \E p \in Procs : Fails(p) \/ Kill(p)
  <2>1. PICK p \in Procs, state \in ProcStates \ {"off"} : ProcBecomes(p, state)
    BY <1>1 DEF SourceExits, DecoderExits, Fails, Kill, Procs, ProcStates
  <2>2. \A q \in Procs : proc[q] # "off" => proc'[q] # "off"
    BY <2>1, ProcEffect DEF Inv
  <2>3. UNCHANGED <<piped, finished, pump, shut, worker>>
    BY <1>1 DEF SourceExits, DecoderExits, Fails, Kill, ctxVars, pumpVars,
                workVars
  <2> QED BY <2>2, <2>3 DEF BehindInv, Procs
<1>2. CASE OpenSource \/ StartDecoder
  <2>1. CASE OpenSource
    <3>1. worker = "open" /\ pump = "off"
      BY <2>1 DEF OpenSource, Inv, StartInv
    <3>2. /\ worker' = "start" /\ proc'["yt-dlp"] = "running"
          \/ worker' = "finish"
      BY <2>1, ProcEffect
         DEF OpenSource, WorkerGoes, GivesUp, Inv, Procs, ProcStates
    <3> QED BY <2>1, <3>1, <3>2 DEF OpenSource, BehindInv, pumpVars
  <2>2. CASE StartDecoder
    <3>1. /\ piped' = piped
          /\ \/ worker' = "stream" /\ proc'["ffmpeg"] = "running"
                /\ proc'["yt-dlp"] = proc["yt-dlp"]
                /\ pump' = (IF piped THEN "read" ELSE "off")
             \/ worker' \in {"abort", "finish"} /\ UNCHANGED <<proc, pump>>
      BY <2>2, ProcEffect
         DEF StartDecoder, WorkerGoes, GivesUp, Inv, Procs, ProcStates
    <3> QED BY <2>2, <3>1 DEF StartDecoder, BehindInv
  <2> QED BY <1>2, <2>1, <2>2
<1>3. CASE CloseAllStep
  <2>1. /\ UNCHANGED <<piped, finished, proc, pump, worker>>
        /\ shut \subseteq shut'
    BY <1>3 DEF CloseAllStep, EnterCloseAll, CloseInput, WaitForSource,
                ctxVars, procVars, pumpVars, workVars
  <2> QED BY <2>1 DEF BehindInv
<1>4. CASE PumpStep
  <2>1. pump # "off" /\ UNCHANGED <<piped, finished, proc, shut, worker>>
    BY <1>4 DEF PumpStep, PumpReads, PumpWrites, PumpCloses, PumpReports,
                ctxVars, procVars, workVars
  <2> QED BY <2>1 DEF BehindInv
<1>5. CASE \/ Aborted \/ MakeStream \/ BeginSending \/ Tick \/ ReadFrame
           \/ WriteFrame \/ CloseUpstream \/ CloseReader \/ WaitForPump
           \/ WaitForDecoder \/ FinishCurrent
  <2>1. UNCHANGED <<piped, proc, pump>> /\ shut \subseteq shut'
    BY <1>5 DEF Aborted, MakeStream, BeginSending, Tick, ReadFrame, WriteFrame,
                CloseUpstream, CloseReader, WaitForPump, WaitForDecoder,
                FinishCurrent, procVars, pumpVars
  <2>2. /\ worker' \notin {"start", "abort"}
        /\ worker' \in {"copy", "wait"} => 3 \in shut'
        /\ worker' = "exit" => finished'
    BY <1>5 DEF Aborted, MakeStream, BeginSending, Tick, ReadFrame, WriteFrame,
                CloseUpstream, CloseReader, WaitForPump, WaitForDecoder,
                FinishCurrent, WorkerGoes, GivesUp, Following, BehindInv
  <2> QED BY <2>1, <2>2 DEF BehindInv
<1>6. CASE SourceWrites \/ Decodes \/ Cancel \/ UNCHANGED vars
  BY <1>6 DEF SourceWrites, Decodes, Cancel, vars, ctxVars, procVars, pumpVars,
              workVars, BehindInv
<1> QED
  BY <1>1, <1>2, <1>3, <1>4, <1>5, <1>6 DEF Next, WorkerStep, Finished

\* Wherever everybody is, one of them can go on.
LEMMA SomebodyMoves ==
  ASSUME Inv, BehindInv
  PROVE  NobodyWaitsInACircle
<1>1. /\ \A i \in Ends : held[i] \in 0..PipeCap
      /\ PipeCap > 0 /\ PipeCap \in Nat
      /\ made \in 0..Chunks /\ Chunks \in Nat
      /\ proc["yt-dlp"] \in ProcStates /\ proc["ffmpeg"] \in ProcStates
      /\ pump \in PumpPcs /\ worker \in WorkerPcs /\ once \in OncePcs
      /\ piped \in BOOLEAN
  BY ChunksAssumption, PipeCapAssumption DEF Inv, TypeOK, Procs
\* closeAll goes on until it is done.
<1>2. CASE once \in {"input", "wait"}
  <2>1. once = "wait" => 1 \in shut /\ proc["yt-dlp"] # "off"
    BY <1>2 DEF Inv, OnceInv, ClosedInv, StartInv, BehindInv, Closing
  <2>2. once = "wait" => Running("yt-dlp") \/ Exited("yt-dlp")
    BY <2>1 DEF Running, Exited
  <2> QED BY <1>2, <2>1, <2>2
          DEF NobodyWaitsInACircle, Moves, ProcessMoves, CloseAllMoves
\* So does the pump, up to a pipe that a process has to fill or to empty.
<1>3. CASE once \in {"free", "done"} /\ pump \in {"close", "report"}
  BY <1>3 DEF NobodyWaitsInACircle, Moves, CloseAllMoves, PumpMoves, AtCloseAll
<1>4. CASE once \in {"free", "done"} /\ pump \in {"read", "write"}
  <2>1. /\ piped /\ proc["yt-dlp"] # "off" /\ proc["ffmpeg"] # "off"
        /\ 2 \in shut <=> once # "free"
    BY <1>4 DEF BehindInv, Inv, ClosedInv
  <2>2. /\ Running("yt-dlp") \/ Exited("yt-dlp")
        /\ Running("ffmpeg") \/ Exited("ffmpeg")
    BY <2>1 DEF Running, Exited
  <2>3. CASE pump = "read"
    <3>1. held[1] = 0 \/ held[1] > 0
      BY <1>1 DEF Ends
    <3> QED BY <1>1, <2>2, <2>3, <3>1
            DEF NobodyWaitsInACircle, Moves, ProcessMoves, PumpMoves
  <2>4. CASE pump = "write"
    <3>1. CASE held[2] < PipeCap \/ 2 \in shut \/ Exited("ffmpeg")
      BY <2>2, <2>4, <3>1 DEF NobodyWaitsInACircle, Moves, PumpMoves
    <3>2. CASE held[2] = PipeCap /\ Running("ffmpeg")
      <4>1. InputLeft
        BY <1>1, <2>1, <3>2 DEF InputLeft
      <4>2. CASE held[3] < PipeCap \/ 3 \in shut
        BY <3>2, <4>1, <4>2 DEF NobodyWaitsInACircle, Moves, ProcessMoves
      <4>3. CASE held[3] = PipeCap /\ 3 \notin shut
        <5>1. held[3] > 0
          BY <1>1, <4>3
        <5>2. CASE worker = "exit"
          BY <3>2, <5>2
             DEF NobodyWaitsInACircle, BehindInv, CtxDone, Procs
        <5>3. CASE worker # "exit"
          BY <1>1, <1>4, <2>1, <4>3, <5>1, <5>3
             DEF NobodyWaitsInACircle, Moves, CloseAllMoves, WorkerMoves,
                 AtCloseAll, BehindInv, WorkerPcs, OncePcs
        <5> QED BY <5>2, <5>3
      <4> QED BY <1>1, <4>2, <4>3 DEF Ends
    <3> QED BY <1>1, <2>2, <3>1, <3>2 DEF Ends
  <2> QED BY <1>4, <2>3, <2>4
\* Then only the worker and the processes are left.
<1>5. CASE once \in {"free", "done"} /\ pump \in {"off", "done"}
  <2>1. CASE worker = "exit"
    BY <1>5, <2>1 DEF NobodyWaitsInACircle, BehindInv, CtxDone, Over
  <2>2. CASE worker \in {"read", "wait"} /\ ~WorkerMoves
    <3>1. /\ proc["ffmpeg"] # "off" /\ (piped => pump = "done")
          /\ worker = "wait" => 3 \in shut
          /\ worker = "read" => held[3] = 0
      BY <1>1, <1>5, <2>2
         DEF Inv, StartInv, BehindInv, WorkerMoves, Sending, Closing, Ends
    <3>2. Running("ffmpeg")
      BY <2>2, <3>1 DEF WorkerMoves, Running, Exited
    <3>3. piped => 2 \in shut
      BY <1>5, <3>1 DEF Inv, ClosedInv
    <3>4. InputOver \/ InputLeft
      BY <3>3 DEF InputOver
    <3> QED BY <1>1, <2>2, <3>1, <3>2, <3>4
            DEF NobodyWaitsInACircle, Moves, ProcessMoves, Ends
  <2>3. CASE worker \notin {"exit", "read", "wait"}
    BY <1>1, <1>5, <2>3
       DEF NobodyWaitsInACircle, Moves, CloseAllMoves, WorkerMoves, AtCloseAll,
           WorkerPcs, Inv, StartInv, Closing
  <2> QED BY <2>1, <2>2, <2>3 DEF NobodyWaitsInACircle, Moves
<1> QED BY <1>1, <1>2, <1>3, <1>4, <1>5 DEF OncePcs, PumpPcs

\* However long the track and however large the pipes: as long as the worker
\* is at work the processes, the pump, closeAll and the worker do not all wait
\* for one another, whoever runs closeOnce, whatever failed and whether or not
\* the context is done; nor does anything that is left after it.
THEOREM NoCircularWait == SafetySpec => []NobodyWaitsInACircle
<1>1. Init => BehindInv
  BY DEF Init, BehindInv
<1>2. SafetySpec => []BehindInv
  BY <1>1, BehindStep, PipelineInvariant, PTL DEF SafetySpec
<1> QED BY <1>2, PipelineInvariant, SomebodyMoves, PTL

=============================================================================
