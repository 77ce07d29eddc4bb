\* One object, sent, edited, deleted and sent again, whose file has up to two
\* units, so that a part of it can lie inside, at and past its end; transaction
\* ids alternate, as the host has one request under way.
SPECIFICATION Spec
CONSTANTS
  NumHandles = 1
  MaxSize = 2
  NumIds = 2
INVARIANTS
  AnswersKeepStep
  SizesAreCurrent
PROPERTY EveryRequestIsAnswered
CHECK_DEADLOCK FALSE
