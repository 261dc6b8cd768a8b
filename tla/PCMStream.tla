----------------------------- MODULE PCMStream -----------------------------
(***************************************************************************)
(* How the bytes ffmpeg produces become frames (internal/audio/pcm_stream  *)
(* .go): a frame's bytes arrive in chunks of any size, the last frame is   *)
(* padded, and every sample is scaled by the session's volume, which       *)
(* /dvol changes at any time.                                              *)
(*                                                                         *)
(* The opus encoder keeps its own state and is left out: a frame is what   *)
(* it is given.  heard is not a variable of the code but a history of      *)
(* volume, for the property that names it.                                 *)
(***************************************************************************)
EXTENDS Integers, Sequences

CONSTANTS FrameSamples, \* pcmFrameSamples, 1920 in the code
          Bytes,        \* byte values that occur, and
          MaxBytes,     \* bytes of a track, that are observed
          Volumes       \* what /dvol is called with

ASSUME StreamAssumption ==
  /\ FrameSamples \in Nat \ {0} /\ MaxBytes \in Nat
  /\ Bytes \subseteq 0..255 /\ Volumes \subseteq Int

BytesPerSample == 2
FrameBytes == FrameSamples * BytesPerSample
MinVolume == 0
MaxVolume == 10
VolumeBase == 10

VARIABLES
  track,   \* everything ffmpeg will produce
  read,    \* how many of its bytes have been read
  buffer,  \* s.pcmBytes
  filled,  \* n of io.ReadFull
  status,  \* of the sender: between frames, in readPCMFrame, or done
  open,    \* s.reader # nil
  frames,  \* the frames returned
  volume,  \* Session.volume
  closed,  \* Session.closed
  heard    \* the volumes in force since the current frame began

streamVars == <<track, read, buffer, filled, status, open, frames>>
sessionVars == <<volume, closed>>
vars == <<streamVars, sessionVars, heard>>

Tracks == UNION {[1..n -> Bytes] : n \in 0..MaxBytes}

Init ==
  /\ track \in Tracks
  /\ read = 0
  /\ buffer = [i \in 1..FrameBytes |-> 0]
  /\ filled = 0
  /\ status = "idle"
  /\ open = TRUE
  /\ frames = <<>>
  /\ volume = MaxVolume
  /\ closed = FALSE
  /\ heard = {volume}

----------------------------------------------------------------------------
(***************************************************************************)
(* Samples.  The operators named ...Fault are not part of the              *)
(* specification but plausible slips in the operator after them.           *)
(***************************************************************************)
MinInt16 == -32768
MaxInt16 == 32767
Int16 == MinInt16..MaxInt16

\* int16(binary.LittleEndian.Uint16(...))
Sample(low, high) ==
  IF high >= 128 THEN low + 256 * high - 65536 ELSE low + 256 * high

Magnitude(x) == IF x < 0 THEN -x ELSE x

\* scalePCM16 after currentVolumeScale: a half is rounded away from zero, but
\* 0.7 is not exact in float64 and some of its halves fall short.
Scaled(sample, level) ==
  LET whole == (Magnitude(sample) * level) \div VolumeBase
      twice == 2 * ((Magnitude(sample) * level) % VolumeBase)
      sizes == IF twice < VolumeBase THEN {whole}
               ELSE IF twice = VolumeBase /\ level = 7
                    THEN {whole, whole + 1} ELSE {whole + 1}
  IN  IF level <= 0 THEN {0}
      ELSE IF level = VolumeBase THEN {sample}
      ELSE {IF sample < 0 THEN -size ELSE size : size \in sizes}

\* currentVolumeScale bounds what the session says.
Level ==
  IF volume < 0 THEN 0
  ELSE IF volume > VolumeBase THEN VolumeBase ELSE volume

----------------------------------------------------------------------------
(***************************************************************************)
(* NextOpusFrame, called by the sender only.                               *)
(***************************************************************************)
StaleFault == buffer
\* for i := range s.pcmBytes { s.pcmBytes[i] = 0 }
Zeroed == [i \in 1..FrameBytes |-> 0]

Begin ==
  /\ status = "idle"
  /\ \/ /\ open
        /\ status' = "reading"
        /\ buffer' = Zeroed
        /\ filled' = 0
        /\ heard' = {volume}
     \/ /\ ~open
        /\ status' = "eof"
        /\ UNCHANGED <<buffer, filled, heard>>
  /\ UNCHANGED <<track, read, open, frames, sessionVars>>

\* io.ReadFull reads until the frame is full, whatever a Read returns.
ReadChunk ==
  /\ status = "reading"
  /\ filled < FrameBytes
  /\ \E n \in 1..(FrameBytes - filled) :
       /\ read + n <= Len(track)
       /\ buffer' = [i \in 1..FrameBytes |->
                       IF i > filled /\ i <= filled + n
                       THEN track[read + i - filled] ELSE buffer[i]]
       /\ read' = read + n
       /\ filled' = filled + n
  /\ UNCHANGED <<track, status, open, frames, sessionVars, heard>>

\* err == nil, or io.ErrUnexpectedEOF
Complete == filled = FrameBytes \/ (filled > 0 /\ read = Len(track))

LoudFrame(level) ==
  {f \in [1..FrameSamples -> UNION {Scaled(Sample(buffer[2 * i - 1],
                                                  buffer[2 * i]), level) :
                                      i \in 1..FrameSamples}] :
     \A i \in 1..FrameSamples :
       f[i] \in Scaled(Sample(buffer[2 * i - 1], buffer[2 * i]), level)}

\* The volume is asked once for all samples of the frame.
Return ==
  /\ status = "reading"
  /\ Complete
  /\ \E f \in LoudFrame(Level) :
       frames' = Append(frames, [samples |-> f, heard |-> heard])
  /\ status' = "idle"
  /\ UNCHANGED <<track, read, buffer, filled, open, sessionVars, heard>>

\* io.EOF before the first byte: the sender returns nil.
ReadEnds ==
  /\ status = "reading"
  /\ read = Len(track) /\ filled < FrameBytes
  /\ ~Complete
  /\ status' = "eof"
  /\ UNCHANGED <<track, read, buffer, filled, open, frames, sessionVars,
                 heard>>

\* Any other error of the reader loses the frame.
ReadFails ==
  /\ status = "reading"
  /\ filled < FrameBytes
  /\ status' = "failed"
  /\ UNCHANGED <<track, read, buffer, filled, open, frames, sessionVars,
                 heard>>

\* The sender's deferred Close, and a sender that was cancelled between two
\* frames.
Close ==
  /\ status \in {"idle", "eof", "failed"}
  /\ open
  /\ open' = FALSE
  /\ UNCHANGED <<track, read, buffer, filled, status, frames, sessionVars,
                 heard>>

----------------------------------------------------------------------------
(***************************************************************************)
(* The session.                                                            *)
(***************************************************************************)
UncheckedFault(v) == volume' = v
\* SetVolume
Set(v) ==
  /\ MinVolume <= v /\ v <= MaxVolume
  /\ ~closed
  /\ volume' = v

SetVolume(v) ==
  /\ Set(v)
  /\ heard' = heard \cup {v}
  /\ UNCHANGED <<streamVars, closed>>

SessionCloses ==
  /\ ~closed
  /\ closed' = TRUE
  /\ UNCHANGED <<streamVars, volume, heard>>

Next ==
  \/ Begin \/ ReadChunk \/ Return \/ ReadEnds \/ ReadFails \/ Close
  \/ \E v \in Volumes : SetVolume(v)
  \/ SessionCloses

Spec == Init /\ [][Next]_vars

----------------------------------------------------------------------------
(***************************************************************************)
(* Properties.                                                             *)
(***************************************************************************)
TypeOK ==
  /\ track \in Tracks
  /\ read \in 0..Len(track)
  /\ buffer \in [1..FrameBytes -> Bytes \cup {0}]
  /\ filled \in 0..FrameBytes
  /\ status \in {"idle", "reading", "eof", "failed"}
  /\ open \in BOOLEAN /\ closed \in BOOLEAN
  /\ \A i \in DOMAIN frames :
       frames[i].samples \in [1..FrameSamples -> Int16]
  /\ volume \in MinVolume..MaxVolume
  /\ heard \subseteq MinVolume..MaxVolume

\* What the track holds at a place; silence after its end.
At(place) == IF place <= Len(track) THEN track[place] ELSE 0

\* The number a 16-bit word stands for, and the one that ends at a place.
Signed(word) == IF word > 32767 THEN word - 65536 ELSE word
NumberAt(place) == Signed(At(place - 1) + 256 * At(place))

\* A sample that is as loud as a volume says, up to half a unit: volume zero
\* is silence, the greatest volume changes nothing.
AsLoudAs(out, in, level) ==
  /\ 2 * Magnitude(VolumeBase * out - in * level) <= VolumeBase
  /\ level = 0 => out = 0
  /\ level = VolumeBase => out = in

\* The samples of a frame are those of the track at its place, at one volume:
\* one that was in force while the frame was being read.
FrameIsTheTrack(f) ==
  \E level \in frames[f].heard : \A i \in 1..FrameSamples :
    AsLoudAs(frames[f].samples[i], NumberAt((f - 1) * FrameBytes + 2 * i),
             level)

\* However the bytes arrive, the frames are the track in order, the last one
\* padded with silence; and when the track has been read to its end they hold
\* all of it.
FramesAreTheTrack ==
  /\ \A f \in DOMAIN frames : FrameIsTheTrack(f)
  /\ status = "eof" /\ open => Len(frames) * FrameBytes >= Len(track)
=============================================================================
