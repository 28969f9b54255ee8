SPECIFICATION FairSpec
CONSTANTS
  Videos = {v1}
  MaxChanges = 2
  MaxStamp = 1
  Threshold = 2
  MaxRestarts = 1
  Dispatchers = {d1}
CONSTRAINT OneConcern
INVARIANTS
  TypeOK
PROPERTIES
  ForgetsOnlyTold
  RemindsOnce
  AlertIsSettled
  SetIsReminded
