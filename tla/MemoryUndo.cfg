SPECIFICATION EarlierSpec
CONSTANTS
  p1 = p1  p2 = p2  n1 = n1  n2 = n2  n3 = n3  t1 = t1  t2 = t2  k1 = k1  k2 = k2
  Proc = {p1}
  Name = {n1, n2}
  Text = {t1}
  Entry = {}
  EntryStatus <- OnePending
  Slug <- OneSlug
  EntryText <- OneText
  Suffixes <- MCSuffixes
  NoEntry = NoEntry  Absent = Absent  NoIndex = NoIndex  NoProc = NoProc
  NoRestore = NoRestore  NoIntent = NoIntent
  Ops = {"write", "promote", "delete", "rollback", "rollback_seq", "recover", "regenerate", "read"}
  Retention = 3
  MinKept = 1
  MaxSeq = 4
  MaxLegacy = 1
  MaxEdits = 0
  EditsUnderLock = FALSE
  SentinelMayFail = TRUE
INVARIANTS
  NeverWedged
  JournalExplainsFacts
PROPERTIES
  SeqNeverReused
  ImplementsHistory
