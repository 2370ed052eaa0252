SPECIFICATION LiveSpec
CONSTANTS
  s1 = s1  c1 = c1  c2 = c2  o1 = o1  r1 = r1  t1 = t1
  NoSub = NoSub
  Subs <- MCSubs
  Clients <- MCOneClient
  Wants <- MCWants
  Orphans <- MCOrphans
  Readers <- MCReaders
  Timer = t1
  Pieces = 2
  CleanPieces = 1
  Overlap = FALSE
  SlowRuns = FALSE
  MaxKills = 1
  MaxGiveUps = 1
INVARIANTS PublishedIsWhole ReceiptIsTrue
PROPERTIES UploadSettles IndexSettles
CHECK_DEADLOCK FALSE
