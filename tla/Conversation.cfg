\* Two tool calls, up to three parts in a chunk, and five parts in an answer.
CONSTANTS
  t0 = t0
  t1 = t1
  Tool = {t0, t1}
  NoEvent = none
  Piece = {1, 2, 3, 4, 5}
  MaxParts = 3
  MaxBlocks = 5
  MaxSaid = 5
SPECIFICATION TurnSpec
INVARIANTS
  NothingDropped
  StreamedAsWhole
  AnswerReturns
  ResultsFollowCalls
PROPERTIES
  ImplementsMessages
\* A turn ends.
CHECK_DEADLOCK FALSE
