SPECIFICATION Spec
CONSTANTS
  v1 = v1
  v2 = v2
  u1 = u1
  u2 = u2
  Videos <- TwoVideos
  Uploaders <- TwoUploaders
  UploaderOf <- TwoUploaderOf
  Links <- OneVideo
  TrustedAfter = 1
  MaxChanges = 0
  Detectors = {d1}
  Votes = 2
CONSTRAINT ImportAlone
INVARIANTS
  OneWinner
  PendingShows
PROPERTIES
  RejectionIsFinal
  FormRejectsShown
