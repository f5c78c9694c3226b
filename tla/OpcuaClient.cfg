\* Every way the operations of the client can end, with a value or variant of every kind.
SPECIFICATION FairSpec
CONSTANTS
  Arguments <- SomeArguments
  Results <- SomeResults
  Reported <- SomeReported
  NotFinite = 1000
  MaxInputs = 2
  MaxOutputs = 2
INVARIANTS
  TypeOK
  EverythingIsFreed
  SentAsGiven
  ReceivedAsSent
  ReadingsAreReported
  SavedAsReported
PROPERTY
  IsARemoteCall
