SPECIFICATION Spec
CONSTANTS
  TICK_MOD = 8
  BlinkInterval = 2
  TelemInterval = 3
INVARIANT AllSamples
