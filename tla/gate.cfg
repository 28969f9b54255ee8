SPECIFICATION FairSpec
CONSTANTS
  Clients = {c1, c2}
  Calls = {"search", "detail"}
  Lasting = {}
  MaxPerDay = 2
  MaxFailures = 1
  MaxDays = 1
INVARIANTS
  TypeOK
  OneProbe
PROPERTIES
  LateSuccessIsIgnored
  CallEnds
