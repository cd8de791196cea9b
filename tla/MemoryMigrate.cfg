SPECIFICATION FairSpec
CONSTANTS
  p1 = p1  p2 = p2  n1 = n1  n2 = n2  n3 = n3  t1 = t1  t2 = t2  k1 = k1  k2 = k2
  Proc = {p1, p2}
  Name = {n1, n2, n3}
  Text = {t1}
  Entry = {k1, k2}
  EntryStatus <- OnePending
  Slug <- OneSlug
  EntryText <- OneText
  Suffixes <- MCSuffixes
  NoEntry = NoEntry  Absent = Absent  NoIndex = NoIndex  NoProc = NoProc
  NoRestore = NoRestore  NoIntent = NoIntent
  Ops = {"write", "migrate", "read", "delete"}
  Retention = 2
  MinKept = 1
  MaxSeq = 1
  MaxEdits = 0
  EditsUnderLock = FALSE
  SentinelMayFail = FALSE
INVARIANTS
  FallbackHidesNothing
  MigrationComplete
PROPERTIES
  CallsEnd
