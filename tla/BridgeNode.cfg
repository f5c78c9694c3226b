\* Every text of up to seven symbols, poses of two numbers; and five messages of four kinds through a subscription of two and queues of two.
SPECIFICATION FairSpec
CONSTANTS
  Texts <- FewTexts
  AnyText <- AllTexts
  Numbers = 2
  Depth = 2
  Capacity = 2
  MaxMessages = 5
  NoCommand = NoCommand
CHECK_DEADLOCK FALSE
INVARIANTS
  TypeOK
  ReadsTheForms
PROPERTIES
  StopIsHeard
  ExecutedInOrder
