\* Frames between stray bytes and pieces of frames.
SPECIFICATION Spec
CONSTANTS
  Crc <- crc8
  Events <- MCEvents
  NoiseBytes <- MCNoise
  PayloadMax = 8
  MaxNoise = 2
  MaxMissed = 3
INVARIANTS
  CleanFrameIsReceived
  BackInStep
