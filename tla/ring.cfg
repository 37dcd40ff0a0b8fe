\* Two-byte frames, one- and two-frame buffers, in a ring of four frames.
SPECIFICATION Spec
CONSTANTS
  Byte = {0, 1}
  Capacity = 8
  Frame = 2
  Buffers <- FrameBuffers
  ReadLens = {0, 2, 4}
INVARIANTS
  RingInv
  NoSharedCell
  ReadsOldest
  SeenStillAvailable
  ChannelsAligned
PROPERTY
  ImplementsFifo
