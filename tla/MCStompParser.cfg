SPECIFICATION ParserSpec
CONSTANTS
  Letters <- MCLetters
  RawFrames <- MCRawFrames
  Bodies <- MCBodies
  Values <- MCValues
CHECK_DEADLOCK FALSE
INVARIANTS
  ParserTypeOK
  FramesAreUnderstood
  OutcomeIsDue
  BodiesArrive
PROPERTY
  FramesAreSettled
