--------------------------- MODULE AudioPipeline ---------------------------
(***************************************************************************)
(* The processes behind one track (internal/audio/ffmpeg_pcm.go,           *)
(* internal/music/ytdlp_source.go) and the worker that plays it            *)
(* (newPlaybackStream, SendOpusFrameStream, PCMStream.Close):              *)
(*                                                                         *)
(*    yt-dlp --pipe 1--> pump goroutine --pipe 2--> ffmpeg --pipe 3--> worker *)
(*                                                                         *)
(* or, for a downloaded track, ffmpeg reading its file.  A chunk of sound  *)
(* stays one chunk from end to end.  A process runs, ends, fails, breaks   *)
(* when nobody reads what it writes, and is killed when the playback       *)
(* context is cancelled; it is reaped by Cmd.Wait.                         *)
(***************************************************************************)
EXTENDS Naturals

CONSTANTS
  Chunks,   \* the chunks in the source
  PipeCap   \* the chunks a pipe holds

ASSUME ChunksAssumption == Chunks \in Nat
ASSUME PipeCapAssumption == PipeCap \in Nat \ {0}

VARIABLES
  piped,      \* the source is a pipe (yt-dlp), not a file
  skipped,    \* /dstop, /dnext, /dterm or Close cancelled the context ...
  inTime,     \* ... while the sender was at work
  finished,   \* FinishCurrent cancelled it
  made,       \* the chunks that came out of the source
  proc,       \* the state of each process
  reaped,     \* the processes that Wait returned for
  held,       \* the chunks in pipes 1, 2 and 3
  shut,       \* the ends of pipes 1, 2 and 3 that this program closed
  once, onceBy, onceErr, \* the body of closeOnce, who runs it, its error
  pump, copyErr,         \* the pump goroutine, and the error of its io.Copy
  worker, result,        \* the worker, and what becomes of the track
  closeErr,              \* firstErr of processPipeReadCloser.Close
  leaked,                \* the stream was dropped without a Close
  sent                   \* the frames written to the voice connection

ctxVars == <<skipped, inTime, finished>>
procVars == <<made, proc, reaped>>
onceVars == <<once, onceBy, onceErr>>
pumpVars == <<pump, copyErr>>
workVars == <<worker, result, closeErr, leaked, sent>>

vars == <<piped, ctxVars, procVars, held, shut, onceVars, pumpVars, workVars>>

Procs == {"yt-dlp", "ffmpeg"}
ProcStates == {"off", "running", "ok", "failed", "broken", "killed"}
\* The ends that this program closes: of pipe 1 what the pump reads, of
\* pipe 2 what it writes, of pipe 3 what the worker reads.
Ends == {1, 2, 3}
OncePcs == {"free", "input", "wait", "done"}
PumpPcs == {"off", "read", "write", "close", "report", "done"}
WorkerPcs == {"open", "start", "abort", "stream", "send", "tick", "read",
              "write", "close", "reader", "copy", "wait", "finish", "exit"}
Results == {"none", "ok", "canceled", "send error", "error"}

CtxDone == skipped \/ finished
Running(p) == proc[p] = "running"
Exited(p) == proc[p] \notin {"off", "running"}
\* A Wait error: any end but a clean one.
BadExit(p) == proc[p] \in {"failed", "broken", "killed"}

Init ==
  /\ piped \in BOOLEAN
  /\ skipped = FALSE /\ inTime = FALSE /\ finished = FALSE
  /\ made = 0
  /\ proc = [p \in Procs |-> "off"]
  /\ reaped = {}
  /\ held = [i \in Ends |-> 0]
  /\ shut = {}
  /\ once = "free" /\ onceBy = "nobody" /\ onceErr = FALSE
  /\ pump = "off" /\ copyErr = FALSE
  /\ worker = IF piped THEN "open" ELSE "start"
  /\ result = "none" /\ closeErr = FALSE /\ leaked = FALSE
  /\ sent = 0

----------------------------------------------------------------------------
(***************************************************************************)
(* The processes.  yt-dlp ends when it has written everything; ffmpeg when *)
(* its input has ended.  Either may fail at any time.                      *)
(***************************************************************************)
ProcBecomes(p, state) == proc' = [proc EXCEPT ![p] = state]

SourceWrites ==
  /\ Running("yt-dlp")
  /\ made < Chunks /\ held[1] < PipeCap /\ 1 \notin shut
  /\ made' = made + 1
  /\ held' = [held EXCEPT ![1] = @ + 1]
  /\ UNCHANGED <<piped, ctxVars, proc, reaped, shut, onceVars, pumpVars,
                 workVars>>

SourceExits ==
  /\ Running("yt-dlp")
  /\ \/ made = Chunks /\ ProcBecomes("yt-dlp", "ok")
     \/ made < Chunks /\ 1 \in shut /\ ProcBecomes("yt-dlp", "broken")
  /\ UNCHANGED <<piped, ctxVars, made, reaped, held, shut, onceVars,
                 pumpVars, workVars>>

\* ffmpeg turns a chunk of its input into a chunk of its output.
Decodes ==
  /\ Running("ffmpeg")
  /\ held[3] < PipeCap /\ 3 \notin shut
  /\ IF piped
     THEN /\ held[2] > 0
          /\ held' = [held EXCEPT ![2] = @ - 1, ![3] = @ + 1]
          /\ UNCHANGED made
     ELSE /\ made < Chunks
          /\ made' = made + 1
          /\ held' = [held EXCEPT ![3] = @ + 1]
  /\ UNCHANGED <<piped, ctxVars, proc, reaped, shut, onceVars, pumpVars,
                 workVars>>

InputLeft == IF piped THEN held[2] > 0 ELSE made < Chunks
InputOver == ~InputLeft /\ (piped => 2 \in shut)

DecoderExits ==
  /\ Running("ffmpeg")
  /\ \/ InputOver /\ ProcBecomes("ffmpeg", "ok")
     \/ InputLeft /\ 3 \in shut /\ ProcBecomes("ffmpeg", "broken")
  /\ UNCHANGED <<piped, ctxVars, made, reaped, held, shut, onceVars,
                 pumpVars, workVars>>

Fails(p) ==
  /\ Running(p)
  /\ ProcBecomes(p, "failed")
  /\ UNCHANGED <<piped, ctxVars, made, reaped, held, shut, onceVars,
                 pumpVars, workVars>>

\* exec.CommandContext: the process is killed with its context.
Kill(p) ==
  /\ Running(p) /\ CtxDone
  /\ ProcBecomes(p, "killed")
  /\ UNCHANGED <<piped, ctxVars, made, reaped, held, shut, onceVars,
                 pumpVars, workVars>>

----------------------------------------------------------------------------
(***************************************************************************)
(* closeAll of pumpReaderToPipe, by the pump or by the worker's Close: the *)
(* writing end of pipe 2, then the input, that is the reading end of pipe  *)
(* 1 and the exit of yt-dlp.                                               *)
(***************************************************************************)
AtCloseAll(g) ==
  IF g = "pump" THEN pump = "close" ELSE worker \in {"close", "abort"} /\ piped

EnterCloseAll(g) ==
  /\ AtCloseAll(g)
  /\ once = "free"
  /\ once' = "input" /\ onceBy' = g
  /\ shut' = shut \cup {2}
  /\ UNCHANGED <<piped, ctxVars, procVars, held, onceErr, pumpVars, workVars>>

CloseInput ==
  /\ once = "input"
  /\ once' = "wait"
  /\ shut' = shut \cup {1}
  /\ UNCHANGED <<piped, ctxVars, procVars, held, onceBy, onceErr, pumpVars,
                 workVars>>

\* commandPipeReadCloser.Close: a bad exit is no error once the context is
\* done.
WaitForSource ==
  /\ once = "wait"
  /\ Exited("yt-dlp")
  /\ reaped' = reaped \cup {"yt-dlp"}
  /\ onceErr' = (BadExit("yt-dlp") /\ ~CtxDone)
  /\ once' = "done"
  /\ UNCHANGED <<piped, ctxVars, made, proc, held, shut, onceBy, pumpVars,
                 workVars>>

\* What closeAll returns to g: only its runner learns of the error.
CloseAllError(g) == onceBy = g /\ onceErr

----------------------------------------------------------------------------
(***************************************************************************)
(* The pump goroutine: io.Copy, closeAll, and the error into copyDone.     *)
(***************************************************************************)
PumpReads ==
  /\ pump = "read"
  /\ \/ /\ 1 \in shut
        /\ pump' = "close" /\ copyErr' = TRUE
        /\ UNCHANGED held
     \/ /\ 1 \notin shut /\ held[1] > 0
        /\ pump' = "write"
        /\ held' = [held EXCEPT ![1] = @ - 1]
        /\ UNCHANGED copyErr
     \/ /\ 1 \notin shut /\ held[1] = 0 /\ Exited("yt-dlp")
        /\ pump' = "close"
        /\ UNCHANGED <<held, copyErr>>
  /\ UNCHANGED <<piped, ctxVars, procVars, shut, onceVars, workVars>>

PumpWrites ==
  /\ pump = "write"
  /\ \/ /\ 2 \in shut \/ Exited("ffmpeg")
        /\ pump' = "close" /\ copyErr' = TRUE
        /\ UNCHANGED held
     \/ /\ 2 \notin shut /\ Running("ffmpeg") /\ held[2] < PipeCap
        /\ pump' = "read"
        /\ held' = [held EXCEPT ![2] = @ + 1]
        /\ UNCHANGED copyErr
  /\ UNCHANGED <<piped, ctxVars, procVars, shut, onceVars, workVars>>

\* A slip: what closeAll returned is dropped.
DropsCloseErrFault ==
  /\ pump = "close" /\ once = "done"
  /\ pump' = "report"
  /\ UNCHANGED <<piped, ctxVars, procVars, held, shut, onceVars, copyErr,
                 workVars>>
PumpCloses ==
  /\ pump = "close" /\ once = "done"
  /\ pump' = "report"
  /\ copyErr' = (copyErr \/ CloseAllError("pump"))
  /\ UNCHANGED <<piped, ctxVars, procVars, held, shut, onceVars, workVars>>

\* A slip: the pump waits for ffmpeg, and Wait closes pipe 3 behind it.
PumpReapsFault ==
  /\ pump = "report" /\ Exited("ffmpeg")
  /\ pump' = "done"
  /\ shut' = shut \cup {3}
  /\ UNCHANGED <<piped, ctxVars, procVars, held, onceVars, copyErr, workVars>>
PumpReports ==
  /\ pump = "report"
  /\ pump' = "done"
  /\ UNCHANGED <<piped, ctxVars, procVars, held, shut, onceVars, copyErr,
                 workVars>>

----------------------------------------------------------------------------
(***************************************************************************)
(* The worker: newPlaybackStream.                                          *)
(***************************************************************************)
WorkerGoes(pc) == worker' = pc
GivesUp(pc, why) == worker' = pc /\ result' = why

\* ytdlpSource.Open
OpenSource ==
  /\ worker = "open"
  /\ \/ /\ ~CtxDone
        /\ ProcBecomes("yt-dlp", "running")
        /\ WorkerGoes("start")
        /\ UNCHANGED result
     \/ GivesUp("finish", "error") /\ UNCHANGED proc
  /\ UNCHANGED <<piped, ctxVars, made, reaped, held, shut, onceVars,
                 pumpVars, closeErr, leaked, sent>>

\* A slip: a decoder that does not start leaves its input open.
KeepsInputFault ==
  /\ worker = "start"
  /\ \/ /\ ~CtxDone
        /\ ProcBecomes("ffmpeg", "running")
        /\ pump' = IF piped THEN "read" ELSE "off"
        /\ WorkerGoes("stream")
        /\ UNCHANGED result
     \/ GivesUp("finish", "error") /\ UNCHANGED <<proc, pump>>
  /\ UNCHANGED <<piped, ctxVars, made, reaped, held, shut, onceVars,
                 copyErr, closeErr, leaked, sent>>
\* startFFmpegPCM; a failure closes the input, whose pump has not started.
StartDecoder ==
  /\ worker = "start"
  /\ \/ /\ ~CtxDone
        /\ ProcBecomes("ffmpeg", "running")
        /\ pump' = IF piped THEN "read" ELSE "off"
        /\ WorkerGoes("stream")
        /\ UNCHANGED result
     \/ /\ GivesUp(IF piped THEN "abort" ELSE "finish", "error")
        /\ UNCHANGED <<proc, pump>>
  /\ UNCHANGED <<piped, ctxVars, made, reaped, held, shut, onceVars,
                 copyErr, closeErr, leaked, sent>>

Aborted ==
  /\ worker = "abort" /\ once = "done"
  /\ WorkerGoes("finish")
  /\ UNCHANGED <<piped, ctxVars, procVars, held, shut, onceVars, pumpVars,
                 result, closeErr, leaked, sent>>

\* NewPCMStream; when it fails nobody closes the reader.  WithConnExclusive
\* may refuse, and then sendPlaybackStream closes the stream.
MakeStream ==
  /\ worker = "stream"
  /\ \/ WorkerGoes("send") /\ UNCHANGED <<result, leaked>>
     \/ GivesUp("finish", "error") /\ leaked' = TRUE
     \/ GivesUp("close", "send error") /\ UNCHANGED leaked
  /\ UNCHANGED <<piped, ctxVars, procVars, held, shut, onceVars, pumpVars,
                 closeErr, sent>>

----------------------------------------------------------------------------
(***************************************************************************)
(* The worker: SendOpusFrameStream.                                        *)
(***************************************************************************)
\* Without a UDP connection it returns before the deferred Close is set up.
BeginSending ==
  /\ worker = "send"
  /\ \/ WorkerGoes("read") /\ UNCHANGED <<result, leaked>>
     \/ GivesUp("finish", "send error") /\ leaked' = TRUE
     \/ GivesUp("close", "send error") /\ UNCHANGED leaked
  /\ UNCHANGED <<piped, ctxVars, procVars, held, shut, onceVars, pumpVars,
                 closeErr, sent>>

\* select: when both are ready either may be taken.
Tick ==
  /\ worker = "tick"
  /\ \/ WorkerGoes("read") /\ UNCHANGED result
     \/ CtxDone /\ GivesUp("close", "canceled")
  /\ UNCHANGED <<piped, ctxVars, procVars, held, shut, onceVars, pumpVars,
                 closeErr, leaked, sent>>

\* NextOpusFrame: a frame, which may fail to be encoded, the end of the
\* stream, or os.ErrClosed.
ReadFrame ==
  /\ worker = "read"
  /\ \/ /\ held[3] > 0 /\ 3 \notin shut
        /\ held' = [held EXCEPT ![3] = @ - 1]
        /\ \/ WorkerGoes("write") /\ UNCHANGED result
           \/ GivesUp("close", "send error")
     \/ /\ held[3] = 0 /\ 3 \notin shut /\ Exited("ffmpeg")
        /\ GivesUp("close", "ok")
        /\ UNCHANGED held
     \/ /\ 3 \in shut
        /\ GivesUp("close", "error")
        /\ UNCHANGED held
  /\ UNCHANGED <<piped, ctxVars, procVars, shut, onceVars, pumpVars,
                 closeErr, leaked, sent>>

\* A slip: the frame just sent is sent again.
ResendsFault ==
  /\ worker = "write"
  /\ \/ CtxDone /\ GivesUp("close", "canceled") /\ UNCHANGED sent
     \/ ~CtxDone /\ WorkerGoes("write") /\ sent' = sent + 1 /\ UNCHANGED result
  /\ UNCHANGED <<piped, ctxVars, procVars, held, shut, onceVars, pumpVars,
                 closeErr, leaked>>
\* The context is asked before the write, which may fail.
WriteFrame ==
  /\ worker = "write"
  /\ \/ CtxDone /\ GivesUp("close", "canceled") /\ UNCHANGED sent
     \/ ~CtxDone /\ GivesUp("close", "send error") /\ UNCHANGED sent
     \/ ~CtxDone /\ WorkerGoes("tick") /\ sent' = sent + 1 /\ UNCHANGED result
  /\ UNCHANGED <<piped, ctxVars, procVars, held, shut, onceVars, pumpVars,
                 closeErr, leaked>>

----------------------------------------------------------------------------
(***************************************************************************)
(* The worker: PCMStream.Close and processPipeReadCloser.Close.            *)
(***************************************************************************)
\* A slip: the output of ffmpeg is left to Wait, which closes it at the end.
ReaderKeptFault == [close |-> "copy", reader |-> "copy", copy |-> "wait"]
\* The order of its parts.
Following == [close |-> "reader", reader |-> "copy", copy |-> "wait"]

CloseUpstream ==
  /\ worker = "close"
  /\ piped => once = "done"
  /\ WorkerGoes(Following["close"])
  /\ closeErr' = (closeErr \/ (piped /\ CloseAllError("worker")))
  /\ UNCHANGED <<piped, ctxVars, procVars, held, shut, onceVars, pumpVars,
                 result, leaked, sent>>

CloseReader ==
  /\ worker = "reader"
  /\ WorkerGoes(Following["reader"])
  /\ shut' = shut \cup {3}
  /\ UNCHANGED <<piped, ctxVars, procVars, held, onceVars, pumpVars, result,
                 closeErr, leaked, sent>>

\* A slip: the killed copy counts as a failure.
AlwaysAnErrorFault ==
  /\ worker = "copy"
  /\ piped => pump = "done"
  /\ WorkerGoes(Following["copy"])
  /\ closeErr' = (closeErr \/ copyErr)
  /\ UNCHANGED <<piped, ctxVars, procVars, held, shut, onceVars, pumpVars,
                 result, leaked, sent>>
WaitForPump ==
  /\ worker = "copy"
  /\ piped => pump = "done"
  /\ WorkerGoes(Following["copy"])
  /\ closeErr' = (closeErr \/ (copyErr /\ ~CtxDone))
  /\ UNCHANGED <<piped, ctxVars, procVars, held, shut, onceVars, pumpVars,
                 result, leaked, sent>>

WaitForDecoder ==
  /\ worker = "wait"
  /\ Exited("ffmpeg")
  /\ reaped' = reaped \cup {"ffmpeg"}
  /\ closeErr' = (closeErr \/ (BadExit("ffmpeg") /\ ~CtxDone))
  /\ GivesUp("finish", IF result = "ok" /\ closeErr' THEN "error" ELSE result)
  /\ UNCHANGED <<piped, ctxVars, made, proc, held, shut, onceVars, pumpVars,
                 leaked, sent>>

\* A slip: currentCancel is not called.
NoCancelFault ==
  /\ worker = "finish"
  /\ WorkerGoes("exit")
  /\ UNCHANGED <<piped, ctxVars, procVars, held, shut, onceVars, pumpVars,
                 result, closeErr, leaked, sent>>
\* FinishCurrent cancels the playback context in any case.
FinishCurrent ==
  /\ worker = "finish"
  /\ WorkerGoes("exit")
  /\ finished' = TRUE
  /\ UNCHANGED <<piped, skipped, inTime, procVars, held, shut, onceVars,
                 pumpVars, result, closeErr, leaked, sent>>

----------------------------------------------------------------------------
\* The track is skipped, or its session closed.
Cancel ==
  /\ ~CtxDone
  /\ skipped' = TRUE
  /\ inTime' = (worker \in {"send", "tick", "read", "write"})
  /\ UNCHANGED <<piped, finished, procVars, held, shut, onceVars, pumpVars,
                 workVars>>

CloseAllStep ==
  \/ EnterCloseAll("pump") \/ EnterCloseAll("worker")
  \/ CloseInput \/ WaitForSource
PumpStep == PumpReads \/ PumpWrites \/ PumpCloses \/ PumpReports
WorkerStep ==
  \/ OpenSource \/ StartDecoder \/ Aborted \/ MakeStream
  \/ BeginSending \/ Tick \/ ReadFrame \/ WriteFrame
  \/ CloseUpstream \/ CloseReader \/ WaitForPump \/ WaitForDecoder
  \/ FinishCurrent

\* Nothing runs any more.
Over ==
  /\ worker = "exit" /\ pump \in {"off", "done"}
  /\ \A p \in Procs : ~Running(p)

Finished == Over /\ UNCHANGED vars

Next ==
  \/ SourceWrites \/ SourceExits \/ Decodes \/ DecoderExits
  \/ \E p \in Procs : Fails(p) \/ Kill(p)
  \/ CloseAllStep \/ PumpStep \/ WorkerStep
  \/ Cancel \/ Finished

SafetySpec == Init /\ [][Next]_vars

\* The goroutines run, and a cancelled process dies.  The processes
\* themselves may hang, on the network say ...
Spec ==
  /\ SafetySpec
  /\ WF_vars(CloseAllStep) /\ WF_vars(PumpStep) /\ WF_vars(WorkerStep)
  /\ \A p \in Procs : WF_vars(Kill(p))

\* ... or get on with their work.
ProcessesGetOn ==
  WF_vars(SourceWrites \/ SourceExits) /\ WF_vars(Decodes \/ DecoderExits)

----------------------------------------------------------------------------
(***************************************************************************)
(* Properties.                                                             *)
(***************************************************************************)
\* Every variable stays in its range.
TypeOK ==
  /\ piped \in BOOLEAN /\ skipped \in BOOLEAN /\ inTime \in BOOLEAN
  /\ finished \in BOOLEAN
  /\ made \in 0..Chunks /\ sent \in 0..Chunks
  /\ proc \in [Procs -> ProcStates] /\ reaped \subseteq Procs
  /\ held \in [Ends -> 0..PipeCap] /\ shut \subseteq Ends
  /\ once \in OncePcs /\ onceBy \in {"nobody", "pump", "worker"}
  /\ onceErr \in BOOLEAN
  /\ pump \in PumpPcs /\ copyErr \in BOOLEAN
  /\ worker \in WorkerPcs /\ result \in Results
  /\ closeErr \in BOOLEAN /\ leaked \in BOOLEAN

\* The worker goes on to the next track only when this one's processes have
\* been waited for and its pump has ended, except after the two early
\* returns that drop the stream.
NothingLeftBehind ==
  worker \in {"finish", "exit"} /\ ~leaked =>
    /\ \A p \in Procs : proc[p] # "off" => p \in reaped
    /\ pump \in {"off", "done"}

\* A track that ends by itself, with no failure and no skip, was sent whole,
\* and counts as completed: no Close closes a pipe that is still needed, and
\* no end of a pipe is taken for a failure.
NothingCutShort ==
  /\ worker = "exit" /\ ~skipped /\ result \in {"ok", "error"} /\ ~leaked
  /\ proc["ffmpeg"] = "ok" /\ (piped => proc["yt-dlp"] = "ok")
  => result = "ok" /\ sent = Chunks

\* A process that failed by itself makes the track fail, whichever of the
\* pump and the worker met the failure first.
FailureReported ==
  /\ worker = "exit" /\ ~skipped
  /\ \E p \in Procs : proc[p] = "failed" /\ (p \in reaped)
  => result \in {"error", "send error"}

\* TestFFmpegPCMReaderStopsWhenContextCanceled: a skip while the track is
\* sent is no failure, although it kills both processes in mid-work.
SkipIsQuiet ==
  worker = "exit" /\ inTime => result \in {"ok", "canceled", "send error"}

\* Close returns: the pump, the two processes and the worker, each of which
\* waits for another, do not wait in a circle.  Only processes that get on are
\* asked for, no cancelled context.
StreamCloses ==
  ProcessesGetOn => (worker \in {"abort", "close"}) ~> (worker = "exit")

\* Even when both processes hang, a skip frees the worker and leaves neither
\* process nor pump; and what the early returns drop ends with its track.
LeakIsBounded == (skipped \/ worker = "exit") ~> Over
=============================================================================
