\* Frames of two samples; tracks of up to a frame and a byte; bytes that make
\* samples of both signs, a half at volume 7, and -1.
CONSTANTS
  FrameSamples = 2
  Bytes = {1, 128, 255}
  MaxBytes = 5
  Volumes <- MCVolumes
SPECIFICATION Spec
INVARIANTS
  TypeOK
  FramesAreTheTrack
CHECK_DEADLOCK FALSE
