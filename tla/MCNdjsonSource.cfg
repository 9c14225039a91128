SPECIFICATION Spec
CONSTANTS
  Inputs <- MCInputs
  RecordCaps = {0, 2}
  MaxChunk = 2
  MaxLength = 5
INVARIANTS
  TypeOK
  BufferIsCappedPrefix
  BytesAccounted
PROPERTIES
  ImplementsLineSource
  ReachesEnd
