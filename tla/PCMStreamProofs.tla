-------------------------- MODULE PCMStreamProofs --------------------------
(***************************************************************************)
(* The safety properties of PCMStream hold for frames of every size, every *)
(* track and every volume that is asked for.  Inv says where in the track  *)
(* the sender is, and what its buffer holds of it.                         *)
(***************************************************************************)
EXTENDS PCMStream, TLAPS

\* Where the next frame begins, and all that has been returned before it.
Base == Len(frames) * FrameBytes

MaxByte == 255
Byte == 0..MaxByte

FrameSet ==
  [samples : [1..FrameSamples -> Int16],
   heard : SUBSET (MinVolume..MaxVolume)]

\* Between two frames the sender is where the next one begins; only a short
\* frame has left it before, at the end of the track.
PlaceOK ==
  /\ status = "idle" => read <= Base /\ (read < Base => read = Len(track))
  /\ status = "reading" =>
       \/ read = Base + filled
       \/ filled = 0 /\ read <= Base /\ read = Len(track)
  /\ status = "eof" /\ open => Base >= Len(track)

\* What has been read of the frame is in the buffer, and nothing else of the
\* track or of the frame before it.
BufferOK ==
  status = "reading" =>
    \A i \in 1..FrameBytes :
      buffer[i] = IF i <= filled THEN track[read - filled + i] ELSE 0

\* The volume of this moment is one that was in force during the frame.
HeardOK == status = "reading" => volume \in heard

Inv ==
  /\ TypeOK
  /\ frames \in Seq(FrameSet)
  /\ PlaceOK /\ BufferOK /\ HeardOK
  /\ \A f \in DOMAIN frames : FrameIsTheTrack(f)
----------------------------------------------------------------------------
(***************************************************************************)
(* Samples.                                                                *)
(***************************************************************************)
\* A frame has as many bytes as the code says, and at least one sample.
LEMMA FrameSize ==
  /\ FrameSamples \in Nat \ {0}
  /\ FrameBytes = 2 * FrameSamples /\ FrameBytes \in Nat \ {0}
BY StreamAssumption DEF FrameBytes, BytesPerSample

\* The numbers a sample can be.
LEMMA Int16Range ==
  \A x : x \in Int16 <=> x \in Int /\ -32768 <= x /\ x <= 32767
<1>1. MinInt16 \in Int /\ MaxInt16 \in Int
  BY DEF MinInt16, MaxInt16
<1>2. \A x : x \in Int16 <=> x \in Int /\ MinInt16 <= x /\ x <= MaxInt16
  BY <1>1 DEF Int16
<1> QED BY <1>2 DEF MinInt16, MaxInt16

\* What a byte can be, and the bytes of the tracks are.
LEMMA ByteRange ==
  /\ \A x : x \in Byte <=> x \in Nat /\ x <= 255
  /\ Bytes \subseteq Byte /\ 0 \in Byte
<1>1. MaxByte \in Nat
  BY DEF MaxByte
<1>2. \A x : x \in Byte <=> x \in Nat /\ x <= MaxByte
  BY <1>1 DEF Byte
<1>3. \A x : x \in Byte <=> x \in Nat /\ x <= 255
  BY <1>2 DEF MaxByte
<1>4. \A x \in 0..255 : x \in Nat /\ x <= 255
  OBVIOUS
<1>5. Bytes \subseteq Byte
  BY <1>3, <1>4, StreamAssumption
<1> QED BY <1>3, <1>5

\* Two bytes are a 16-bit number, the one NumberAt reads.
LEMMA SampleIsTheWord ==
  ASSUME NEW low \in Byte, NEW high \in Byte
  PROVE  /\ Sample(low, high) \in Int16
         /\ Sample(low, high) = Signed(low + 256 * high)
<1> DEFINE word == low + 256 * high
<1>1. /\ word \in Int /\ word >= 0 /\ word < 65536
      /\ high >= 128 <=> word > 32767
  BY ByteRange
<1>2. Sample(low, high) = Signed(word)
  BY <1>1, ByteRange DEF Sample, Signed
<1> HIDE DEF word
<1>3. Sample(low, high) \in Int16
  BY <1>1, <1>2, Int16Range DEF Signed
<1> QED BY <1>2, <1>3 DEF word

\* What size a sample can have after it was scaled.
LEMMA ScaledSize ==
  ASSUME NEW m \in Nat, NEW size \in {m \div 10, m \div 10 + 1},
         2 * (m % 10) < 10 => size = m \div 10,
         2 * (m % 10) > 10 => size = m \div 10 + 1
  PROVE  /\ size \in Nat
         /\ -5 <= 10 * size - m /\ 10 * size - m <= 5
<1>1. /\ m = (10 * (m \div 10)) + (m % 10) /\ m % 10 \in 0..9
      /\ m \div 10 \in Nat
  OBVIOUS
<1> QED BY <1>1

\* Whatever way a half is rounded, a scaled sample is as loud as its volume
\* says, and is a 16-bit number again.
THEOREM ScaledIsAsLoud ==
  ASSUME NEW sample \in Int16, NEW level \in 0..10,
         NEW out \in Scaled(sample, level)
  PROVE  out \in Int16 /\ AsLoudAs(out, sample, level)
<1>1. CASE level = 0
  <2>1. out = 0 /\ sample * level = 0
    BY <1>1, Int16Range DEF Scaled
  <2> QED BY <1>1, <2>1, Int16Range DEF AsLoudAs, Magnitude, VolumeBase
<1>2. CASE level = 10
  <2>1. out = sample /\ sample * level = 10 * sample
    BY <1>2 DEF Scaled, VolumeBase
  <2> QED BY <1>2, <2>1, Int16Range DEF AsLoudAs, Magnitude, VolumeBase
<1>3. CASE level \in 1..9
  <2> DEFINE m == Magnitude(sample) * level
  <2>1. /\ m \in Nat /\ m <= 294912
        /\ sample * level = IF sample < 0 THEN -m ELSE m
    BY <1>3, Int16Range DEF Magnitude
  <2>2. PICK size \in {m \div 10, m \div 10 + 1} :
          /\ out = IF sample < 0 THEN -size ELSE size
          /\ 2 * (m % 10) < 10 => size = m \div 10
          /\ 2 * (m % 10) > 10 => size = m \div 10 + 1
    <3> HIDE DEF m
    <3>1. m \div 10 \in Int /\ m % 10 \in 0..9
      BY <2>1
    <3> QED BY <1>3, <3>1 DEF Scaled, VolumeBase, m
  <2>3. /\ size \in Nat
        /\ -5 <= 10 * size - m /\ 10 * size - m <= 5
    <3> HIDE DEF m
    <3> QED BY <2>1, <2>2, ScaledSize
  <2> HIDE DEF m
  <2>4. size \in Nat /\ size <= 32767
    BY <2>1, <2>3
  <2>5. out \in Int16
    BY <2>2, <2>4, Int16Range
  <2>6. 2 * Magnitude(VolumeBase * out - sample * level) <= VolumeBase
    <3>1. CASE sample < 0
      BY <2>1, <2>2, <2>3, <2>4, <3>1 DEF Magnitude, VolumeBase
    <3>2. CASE ~(sample < 0)
      BY <2>1, <2>2, <2>3, <2>4, <3>2 DEF Magnitude, VolumeBase
    <3> QED BY <3>1, <3>2
  <2> QED BY <1>3, <2>5, <2>6 DEF AsLoudAs, VolumeBase
<1> QED BY <1>1, <1>2, <1>3
----------------------------------------------------------------------------
(***************************************************************************)
(* Frames.                                                                 *)
(***************************************************************************)
\* A track is a sequence of bytes.
LEMMA TrackType ==
  ASSUME track \in Tracks
  PROVE  /\ Len(track) \in Nat
         /\ track \in [1..Len(track) -> Bytes]
         /\ \A i \in 1..Len(track) : track[i] \in Byte
<1>1. PICK n \in 0..MaxBytes : track \in [1..n -> Bytes]
  BY DEF Tracks
<1>2. Bytes \subseteq Byte /\ n \in Nat
  BY StreamAssumption, ByteRange
<1>3. Len(track) = n
  BY <1>1, <1>2
<1> QED BY <1>1, <1>2, <1>3

\* currentVolumeScale changes nothing: the session refuses other volumes.
LEMMA LevelIsVolume ==
  ASSUME volume \in MinVolume..MaxVolume
  PROVE  Level = volume /\ volume \in 0..10
BY DEF Level, MinVolume, MaxVolume, VolumeBase

\* How many bytes the frames take, one more frame included.
LEMMA BaseGrows ==
  ASSUME NEW n \in Nat
  PROVE  /\ n * FrameBytes \in Nat
         /\ (n + 1) * FrameBytes = n * FrameBytes + FrameBytes
<1> USE FrameSize
<1> HIDE DEF FrameBytes
<1> QED OBVIOUS

\* The samples of a frame are those of the buffer, as loud as the level says.
LEMMA LoudFrameIsLoud ==
  ASSUME buffer \in [1..FrameBytes -> Byte],
         NEW level \in 0..10, NEW f \in LoudFrame(level)
  PROVE  /\ f \in [1..FrameSamples -> Int16]
         /\ \A i \in 1..FrameSamples :
              AsLoudAs(f[i], Sample(buffer[2 * i - 1], buffer[2 * i]), level)
<1> DEFINE in(i) == Sample(buffer[2 * i - 1], buffer[2 * i])
<1>1. \A i \in 1..FrameSamples : in(i) \in Int16
  <2> SUFFICES ASSUME NEW i \in 1..FrameSamples
               PROVE  in(i) \in Int16
    OBVIOUS
  <2>1. 2 * i - 1 \in 1..FrameBytes /\ 2 * i \in 1..FrameBytes
    BY FrameSize
  <2> DEFINE low == buffer[2 * i - 1]
             high == buffer[2 * i]
  <2>2. low \in Byte /\ high \in Byte
    BY <2>1
  <2> HIDE DEF low, high
  <2>3. Sample(low, high) \in Int16
    BY <2>2, SampleIsTheWord
  <2> QED BY <2>3 DEF low, high
<1>2. /\ f \in [1..FrameSamples ->
                  UNION {Scaled(in(i), level) : i \in 1..FrameSamples}]
      /\ \A i \in 1..FrameSamples : f[i] \in Scaled(in(i), level)
  BY DEF LoudFrame
<1> HIDE DEF in
<1>3. \A i \in 1..FrameSamples :
        f[i] \in Int16 /\ AsLoudAs(f[i], in(i), level)
  BY <1>1, <1>2, ScaledIsAsLoud
<1> QED BY <1>2, <1>3 DEF in

\* A frame stays the track's whatever comes after it.
LEMMA FrameStays ==
  ASSUME NEW f, FrameIsTheTrack(f), frames'[f] = frames[f], track' = track
  PROVE  FrameIsTheTrack(f)'
BY DEF FrameIsTheTrack, NumberAt, At
----------------------------------------------------------------------------
(***************************************************************************)
(* Every step keeps Inv.                                                   *)
(***************************************************************************)
\* The bytes of the buffer are bytes, and the counters are numbers.
LEMMA Types ==
  ASSUME Inv
  PROVE  /\ Len(track) \in Nat /\ read \in Nat /\ read <= Len(track)
         /\ filled \in Nat /\ filled <= FrameBytes
         /\ buffer \in [1..FrameBytes -> Byte]
         /\ Len(frames) \in Nat /\ Base \in Nat
         /\ DOMAIN frames = 1..Len(frames)
<1>1. track \in Tracks /\ read \in 0..Len(track) /\ filled \in 0..FrameBytes
      /\ frames \in Seq(FrameSet)
      /\ buffer \in [1..FrameBytes -> Bytes \cup {0}]
  BY DEF Inv, TypeOK
<1>2. Bytes \subseteq Byte /\ 0 \in Byte
  BY ByteRange
<1>3. Len(frames) \in Nat /\ DOMAIN frames = 1..Len(frames)
  BY <1>1
<1>4. buffer \in [1..FrameBytes -> Byte]
  BY <1>1, <1>2
<1>5. Base \in Nat
  BY <1>3, BaseGrows DEF Base
<1>6. Len(track) \in Nat
  BY <1>1, TrackType
<1>7. read \in Nat /\ read <= Len(track)
  BY <1>1, <1>6
<1>8. filled \in Nat /\ filled <= FrameBytes
  BY <1>1, FrameSize
<1> QED BY <1>3, <1>4, <1>5, <1>6, <1>7, <1>8

\* Nothing was read at the start.
LEMMA InitInv == Init => Inv
<1> SUFFICES ASSUME Init PROVE Inv
  OBVIOUS
<1>1. Base = 0
  <2>1. Len(frames) = 0
    BY DEF Init
  <2> QED BY <2>1, FrameSize DEF Base
<1>2. TypeOK
  <2>1. buffer \in [1..FrameBytes -> Bytes \cup {0}]
    BY DEF Init
  <2>2. /\ volume \in MinVolume..MaxVolume
        /\ heard \subseteq MinVolume..MaxVolume
    BY DEF Init, MinVolume, MaxVolume
  <2>3. read \in 0..Len(track) /\ filled \in 0..FrameBytes
    BY TrackType, FrameSize DEF Init
  <2>4. \A i \in DOMAIN frames : FALSE
    BY DEF Init
  <2> QED BY <2>1, <2>2, <2>3, <2>4 DEF Init, TypeOK
<1>3. PlaceOK
  BY <1>1, <1>2 DEF Init, PlaceOK
<1> QED BY <1>2, <1>3 DEF Init, Inv, BufferOK, HeardOK

\* A frame begins with an empty buffer, at the volume of the moment.
LEMMA BeginInv == Inv /\ Begin => Inv'
<1> SUFFICES ASSUME Inv, Begin PROVE Inv'
  OBVIOUS
<1>0. /\ Len(track) \in Nat /\ read \in Nat /\ read <= Len(track)
      /\ filled \in Nat /\ filled <= FrameBytes
      /\ Len(frames) \in Nat /\ Base \in Nat
  BY Types
<1>1. UNCHANGED <<track, read, open, frames, volume, closed>>
  BY DEF Begin, sessionVars
<1>2. TypeOK'
  <2>1. Zeroed \in [1..FrameBytes -> Bytes \cup {0}]
    BY DEF Zeroed
  <2>2. /\ buffer' \in [1..FrameBytes -> Bytes \cup {0}]
        /\ status' \in {"idle", "reading", "eof", "failed"}
        /\ heard' \subseteq MinVolume..MaxVolume
    BY <2>1 DEF Begin, Inv, TypeOK
  <2>3. filled' \in 0..FrameBytes
    BY FrameSize DEF Begin, Inv, TypeOK
  <2> QED BY <1>1, <2>2, <2>3 DEF Inv, TypeOK
<1>3. PlaceOK'
  BY <1>0, <1>1 DEF Begin, Inv, PlaceOK, Base
<1>4. BufferOK'
  BY <1>1 DEF Begin, Inv, BufferOK, Zeroed
<1>5. HeardOK'
  BY <1>1 DEF Begin, HeardOK
<1>6. \A f \in DOMAIN frames' : FrameIsTheTrack(f)'
  BY <1>1, FrameStays DEF Inv
<1> QED BY <1>1, <1>2, <1>3, <1>4, <1>5, <1>6 DEF Inv

\* A chunk continues the track where the one before it ended.
LEMMA ReadChunkInv == Inv /\ ReadChunk => Inv'
<1> SUFFICES ASSUME Inv, ReadChunk PROVE Inv'
  OBVIOUS
<1>0. /\ Len(track) \in Nat /\ read \in Nat /\ read <= Len(track)
      /\ filled \in Nat /\ filled <= FrameBytes
      /\ Len(frames) \in Nat /\ Base \in Nat
  BY Types
<1>1. /\ status = "reading" /\ status' = status
      /\ UNCHANGED <<track, open, frames, volume, closed, heard>>
  BY DEF ReadChunk, sessionVars
<1>2. PICK n \in 1..(FrameBytes - filled) :
        /\ read + n <= Len(track)
        /\ buffer' = [i \in 1..FrameBytes |->
                        IF i > filled /\ i <= filled + n
                        THEN track[read + i - filled] ELSE buffer[i]]
        /\ read' = read + n /\ filled' = filled + n
  BY DEF ReadChunk
<1>3. n \in Nat /\ n > 0 /\ filled + n <= FrameBytes
  BY <1>0, <1>2, FrameSize
<1>4. TypeOK'
  <2>1. \A i \in 1..FrameBytes : buffer'[i] \in Bytes \cup {0}
    <3> SUFFICES ASSUME NEW i \in 1..FrameBytes
                 PROVE  buffer'[i] \in Bytes \cup {0}
      OBVIOUS
    <3>1. CASE i > filled /\ i <= filled + n
      <4>1. read + i - filled \in 1..Len(track)
        BY <1>0, <1>2, <1>3, <3>1
      <4>2. track[read + i - filled] \in Bytes
        BY <4>1, TrackType DEF Inv, TypeOK
      <4> QED BY <1>2, <3>1, <4>2
    <3>2. CASE ~(i > filled /\ i <= filled + n)
      BY <1>2, <3>2 DEF Inv, TypeOK
    <3> QED BY <3>1, <3>2
  <2>2. buffer' \in [1..FrameBytes -> Bytes \cup {0}]
    BY <1>2, <2>1
  <2>3. read' \in 0..Len(track)' /\ filled' \in 0..FrameBytes
    BY <1>0, <1>1, <1>2, <1>3, FrameSize
  <2> QED BY <1>1, <2>2, <2>3 DEF Inv, TypeOK
<1>5. PlaceOK'
  <2>1. Base' = Base
    BY <1>1 DEF Base
  <2>2. read = Base + filled
    BY <1>0, <1>1, <1>2, <1>3 DEF Inv, PlaceOK
  <2> QED BY <1>0, <1>1, <1>2, <1>3, <2>1, <2>2 DEF PlaceOK
<1>6. BufferOK'
  <2> SUFFICES ASSUME NEW i \in 1..FrameBytes
               PROVE  buffer'[i] = IF i <= filled'
                                   THEN track'[read' - filled' + i] ELSE 0
    BY DEF BufferOK
  <2>1. buffer[i] = IF i <= filled THEN track[read - filled + i] ELSE 0
    BY <1>1 DEF Inv, BufferOK
  <2>2. read' - filled' = read - filled /\ filled' = filled + n
    BY <1>0, <1>2, <1>3
  <2>3. CASE i <= filled
    BY <1>0, <1>1, <1>2, <1>3, <2>1, <2>2, <2>3
  <2>4. CASE i > filled /\ i <= filled + n
    <3>1. read + i - filled = read' - filled' + i
      BY <1>0, <1>3, <2>2
    <3> QED BY <1>0, <1>1, <1>2, <1>3, <2>2, <2>4, <3>1
  <2>5. CASE i > filled + n
    BY <1>0, <1>2, <1>3, <2>1, <2>2, <2>5
  <2> QED BY <1>0, <1>3, <2>3, <2>4, <2>5
<1>7. HeardOK'
  BY <1>1 DEF Inv, HeardOK
<1>8. \A f \in DOMAIN frames' : FrameIsTheTrack(f)'
  BY <1>1, FrameStays DEF Inv
<1> QED BY <1>1, <1>4, <1>5, <1>6, <1>7, <1>8 DEF Inv

\* A frame that is returned is the next piece of the track: the buffer holds
\* it, or what is left of it and silence.
LEMMA ReturnInv == Inv /\ Return => Inv'
<1> SUFFICES ASSUME Inv, Return PROVE Inv'
  OBVIOUS
<1>0. /\ Len(track) \in Nat /\ read \in Nat /\ read <= Len(track)
      /\ filled \in Nat /\ filled <= FrameBytes
      /\ Len(frames) \in Nat /\ Base \in Nat
      /\ FrameBytes \in Nat \ {0}
  BY Types, FrameSize
<1>1. /\ status = "reading" /\ status' = "idle"
      /\ UNCHANGED <<track, read, buffer, filled, open, volume, closed,
                     heard>>
  BY DEF Return, sessionVars
<1>2. /\ filled = FrameBytes \/ read = Len(track)
      /\ read = Base + filled
  BY <1>0, <1>1 DEF Return, Complete, Inv, PlaceOK
<1>3. Level = volume /\ volume \in 0..10 /\ volume \in heard
  BY <1>1, LevelIsVolume DEF Inv, TypeOK, HeardOK
<1>4. PICK f \in LoudFrame(volume) :
        frames' = Append(frames, [samples |-> f, heard |-> heard])
  BY <1>3 DEF Return
<1> DEFINE new == Len(frames) + 1
           this == [samples |-> f, heard |-> heard]
<1>5. /\ f \in [1..FrameSamples -> Int16]
      /\ \A i \in 1..FrameSamples :
           AsLoudAs(f[i], Sample(buffer[2 * i - 1], buffer[2 * i]), volume)
  BY <1>3, Types, LoudFrameIsLoud
<1>6. this \in FrameSet
  BY <1>5 DEF FrameSet, Inv, TypeOK
<1>7. /\ frames' \in Seq(FrameSet)
      /\ Len(frames') = new /\ DOMAIN frames' = 1..new
      /\ frames'[new] = this
      /\ \A g \in DOMAIN frames : frames'[g] = frames[g]
      /\ DOMAIN frames = 1..Len(frames)
  <2>1. frames \in Seq(FrameSet)
    BY DEF Inv
  <2> HIDE DEF this
  <2>2. frames' = Append(frames, this)
    BY <1>4 DEF this
  <2> QED BY <1>6, <2>1, <2>2
<1>8. TypeOK'
  <2>1. \A g \in DOMAIN frames' :
          frames'[g].samples \in [1..FrameSamples -> Int16]
    <3>1. \A g \in DOMAIN frames' : frames'[g] \in FrameSet
      BY <1>7
    <3> QED BY <3>1 DEF FrameSet
  <2> QED BY <1>1, <2>1 DEF Inv, TypeOK
<1>9. PlaceOK'
  <2>1. Base' = Base + FrameBytes
    BY <1>0, <1>7, BaseGrows DEF Base
  <2> QED BY <1>0, <1>1, <1>2, <2>1 DEF PlaceOK
<1>10. \A i \in 1..FrameSamples :
         AsLoudAs(f[i], NumberAt(Base + 2 * i), volume)
  <2>1. \A p \in 1..FrameBytes : buffer[p] = At(Base + p)
    <3> SUFFICES ASSUME NEW p \in 1..FrameBytes
                 PROVE  buffer[p] = At(Base + p)
      OBVIOUS
    <3>1. buffer[p] = IF p <= filled THEN track[read - filled + p] ELSE 0
      BY <1>1 DEF Inv, BufferOK
    <3>2. read - filled + p = Base + p
      BY <1>0, <1>2
    <3>3. p <= filled <=> Base + p <= Len(track)
      BY <1>0, <1>2
    <3> QED BY <3>1, <3>2, <3>3 DEF At
  <2> SUFFICES ASSUME NEW i \in 1..FrameSamples
               PROVE  AsLoudAs(f[i], NumberAt(Base + 2 * i), volume)
    OBVIOUS
  <2> DEFINE low == buffer[2 * i - 1]
             high == buffer[2 * i]
  <2>2. 2 * i - 1 \in 1..FrameBytes /\ 2 * i \in 1..FrameBytes
    BY FrameSize
  <2>3. low = At((Base + 2 * i) - 1) /\ high = At(Base + 2 * i)
    <3>1. Base + (2 * i - 1) = (Base + 2 * i) - 1
      BY <1>0
    <3> QED BY <2>1, <2>2, <3>1
  <2>4. low \in Byte /\ high \in Byte
    BY <2>2, Types
  <2>5. AsLoudAs(f[i], Sample(low, high), volume)
    BY <1>5
  <2> HIDE DEF low, high
  <2>6. Sample(low, high) = NumberAt(Base + 2 * i)
    <3>1. Sample(low, high) = Signed(low + 256 * high)
      BY <2>4, SampleIsTheWord
    <3> QED BY <2>3, <3>1 DEF NumberAt
  <2> QED BY <2>5, <2>6
<1>11. \A g \in DOMAIN frames' : FrameIsTheTrack(g)'
  <2> SUFFICES ASSUME NEW g \in DOMAIN frames'
               PROVE  FrameIsTheTrack(g)'
    OBVIOUS
  <2>1. CASE g \in DOMAIN frames
    BY <1>1, <1>7, <2>1, FrameStays DEF Inv
  <2>2. CASE g = new
    <3>1. (g - 1) * FrameBytes = Base
      BY <1>0, <2>2 DEF Base
    <3>2. frames'[g].heard = heard /\ frames'[g].samples = f
      BY <1>7, <2>2
    <3>3. \A place : NumberAt(place)' = NumberAt(place)
      BY <1>1 DEF NumberAt, At
    <3>4. \A i \in 1..FrameSamples :
            AsLoudAs(frames'[g].samples[i],
                     NumberAt((g - 1) * FrameBytes + 2 * i)', volume)
      BY <1>10, <3>1, <3>2, <3>3
    <3> QED BY <1>3, <3>2, <3>4 DEF FrameIsTheTrack
  <2> QED BY <1>0, <1>7, <2>1, <2>2
<1>12. BufferOK' /\ HeardOK'
  BY <1>1 DEF BufferOK, HeardOK
<1> QED BY <1>7, <1>8, <1>9, <1>11, <1>12 DEF Inv

\* The steps that only change what the sender, or the session, is doing.
LEMMA OtherInv ==
  Inv /\ (ReadEnds \/ ReadFails \/ Close \/ SessionCloses) => Inv'
<1> SUFFICES ASSUME Inv, ReadEnds \/ ReadFails \/ Close \/ SessionCloses
             PROVE  Inv'
  OBVIOUS
<1>0. /\ Len(track) \in Nat /\ read \in Nat /\ read <= Len(track)
      /\ filled \in Nat /\ filled <= FrameBytes
      /\ Len(frames) \in Nat /\ Base \in Nat
  BY Types
<1>1. UNCHANGED <<track, read, buffer, filled, frames, volume, heard>>
  BY DEF ReadEnds, ReadFails, Close, SessionCloses, sessionVars, streamVars
<1>2. TypeOK'
  <2>1. /\ status' \in {"idle", "reading", "eof", "failed"}
        /\ open' \in BOOLEAN /\ closed' \in BOOLEAN
    BY DEF Inv, TypeOK, ReadEnds, ReadFails, Close, SessionCloses,
           sessionVars, streamVars
  <2> QED BY <1>1, <2>1 DEF Inv, TypeOK
<1>3. PlaceOK'
  <2>1. Base' = Base
    BY <1>1 DEF Base
  <2>2. CASE ReadEnds
    <3>1. read = Len(track) /\ read <= Base
      BY <1>0, <2>2 DEF ReadEnds, Complete, Inv, PlaceOK
    <3> QED BY <1>0, <1>1, <2>1, <2>2, <3>1 DEF ReadEnds, PlaceOK
  <2>3. CASE ReadFails \/ Close \/ SessionCloses
    BY <1>1, <2>1, <2>3
       DEF ReadFails, Close, SessionCloses, streamVars, Inv, PlaceOK
  <2> QED BY <2>2, <2>3
<1>4. BufferOK' /\ HeardOK'
  BY <1>1 DEF Inv, BufferOK, HeardOK, ReadEnds, ReadFails, Close,
              SessionCloses, streamVars
<1>5. \A f \in DOMAIN frames' : FrameIsTheTrack(f)'
  BY <1>1, FrameStays DEF Inv
<1> QED BY <1>1, <1>2, <1>3, <1>4, <1>5 DEF Inv

\* A volume the session accepts is in force from now on.
LEMMA SetVolumeInv ==
  ASSUME Inv, NEW v \in Volumes, SetVolume(v)
  PROVE  Inv'
<1>1. /\ volume' = v /\ heard' = heard \cup {v}
      /\ UNCHANGED <<track, read, buffer, filled, status, open, frames,
                     closed>>
  BY DEF SetVolume, Set, streamVars
<1>2. v \in MinVolume..MaxVolume
  <2>1. v \in Int
    BY StreamAssumption
  <2> QED BY <2>1 DEF SetVolume, Set, MinVolume, MaxVolume
<1>3. TypeOK'
  BY <1>1, <1>2 DEF Inv, TypeOK
<1>4. PlaceOK' /\ BufferOK' /\ HeardOK'
  BY <1>1 DEF Inv, PlaceOK, Base, BufferOK, HeardOK
<1>5. \A f \in DOMAIN frames' : FrameIsTheTrack(f)'
  BY <1>1, FrameStays DEF Inv
<1> QED BY <1>1, <1>3, <1>4, <1>5 DEF Inv

\* Nothing happens.
LEMMA StutterInv == Inv /\ UNCHANGED vars => Inv'
<1> SUFFICES ASSUME Inv, UNCHANGED vars PROVE Inv'
  OBVIOUS
<1>1. UNCHANGED <<track, read, buffer, filled, status, open, frames, volume,
                  closed, heard>>
  BY DEF vars, streamVars, sessionVars
<1>2. TypeOK'
  BY <1>1 DEF Inv, TypeOK
<1>3. PlaceOK' /\ BufferOK' /\ HeardOK'
  BY <1>1 DEF Inv, PlaceOK, Base, BufferOK, HeardOK
<1>4. \A f \in DOMAIN frames' : FrameIsTheTrack(f)'
  BY <1>1, FrameStays DEF Inv
<1> QED BY <1>1, <1>2, <1>3, <1>4 DEF Inv

----------------------------------------------------------------------------
\* Inv holds for good.
THEOREM StreamInvariant == Spec => []Inv
<1>1. Inv /\ [Next]_vars => Inv'
  BY BeginInv, ReadChunkInv, ReturnInv, OtherInv, SetVolumeInv, StutterInv
     DEF Next
<1> QED BY InitInv, <1>1, PTL DEF Spec

\* Whatever the size of a frame, and whatever the bytes, the chunks they come
\* in and the volumes, the stream's variables keep their types: a sample that
\* was scaled still is a 16-bit number (scalePCM16 cannot overflow).
THEOREM TypeCorrect == Spec => []TypeOK
<1>1. Inv => TypeOK
  BY DEF Inv
<1> QED BY StreamInvariant, <1>1, PTL

\* The frames NextOpusFrame returns are the track, in order and at a volume in
\* force while each was read, padded with silence at its end; and the stream
\* ends only when they hold all of it.
THEOREM FramesCorrect == Spec => []FramesAreTheTrack
<1>1. Inv => FramesAreTheTrack
  BY DEF Inv, PlaceOK, Base, FramesAreTheTrack
<1> QED BY StreamInvariant, <1>1, PTL
=============================================================================
