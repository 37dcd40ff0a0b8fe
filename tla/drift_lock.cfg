\* Buffers of 256 frames at 48 kHz, and devices up to one in a thousand off.
CONSTANTS
  Nominal = 53333
  Periods = {53280, 53333, 53387}
  MaxUpdates = 60
SPECIFICATION Spec
INVARIANT
  StableMeansClose
CHECK_DEADLOCK FALSE
