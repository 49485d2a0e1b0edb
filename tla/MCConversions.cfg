SPECIFICATION MCSpec
CONSTANTS
  Texts <- MCTexts
  Messages <- MCMessages
  Garbage <- MCGarbage
  Letters = {"a", "b"}
  MaxLength = 7
  Half = 1
  Secrets <- MCSecrets
  Scalars <- MCScalars
  Bytes = {0, 10, 27, 171, 255}
INVARIANT WritesInBounds
INVARIANT DecodesStream
INVARIANT RoundTrip
INVARIANT IsTrimmed
INVARIANT KeyDecides
CHECK_DEADLOCK FALSE
