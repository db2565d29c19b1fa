SPECIFICATION Spec
CONSTANTS
  BYTE_MOD = 5
  TFMINT_DATA_HEAD = 4
  Lidars = {1}
  Measurements <- MCMeasurements
  Noise = {4, 0}
  ResyncFrames = 4
INVARIANTS
  TypeOK
  Resyncs
  Tracks
