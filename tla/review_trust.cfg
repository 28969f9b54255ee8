SPECIFICATION FairSpec
CONSTANTS
  v1 = v1
  v2 = v2
  u1 = u1
  u2 = u2
  Videos <- OneVideo
  Uploaders <- OneUploader
  UploaderOf <- OneUploaderOf
  Links = {}
  TrustedAfter = 1
  MaxChanges = 1
  Detectors = {d1}
  Votes = 2
INVARIANTS
  TypeOK
PROPERTIES
  TrustedIsSettled
