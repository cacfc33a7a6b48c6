SPECIFICATION FramingSpec
CONSTANTS
  io = io
  worker = worker
  Base = 2
  Payloads <- MCPayloads
  MaxFrames = 2
  Writers <- MCWriters
  MaxWrites = 2
  Replies <- MCReplies
CHECK_DEADLOCK FALSE
INVARIANTS
  FramingTypeOK
  DeathHasACause
  FramesDoNotMix
PROPERTIES
  ImplementsChannel
  FramesArrive
