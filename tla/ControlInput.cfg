SPECIFICATION FairSpec
CONSTANTS
  p1 = p1
  p2 = p2
  None = None
  Pointers <- TwoPointers
  MaxDepth = 3
  MaxBytes = 160
  MaxInputs = 4
CHECK_DEADLOCK FALSE
INVARIANTS
  AccountsBalance
  ReleaseAlwaysFits
  OutcomeIsTrue
  SentInOrder
  NoLostWakeup
PROPERTIES
  NothingSentAfterFailure
  CloseSettlesAll
