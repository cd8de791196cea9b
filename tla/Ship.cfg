SPECIFICATION Spec
CONSTANTS
  x = x  y = y  f1 = f1  f2 = f2
  NoId = NoId
  FindingId = {x, y}
  Texts <- MCTexts
  Answers <- MCAnswers
  DefectClass = {"correctness", "unclassified"}
  Safety = {"correctness"}
  SafetyNew = {"correctness"}
  ClassOf <- MCClassOf
  File = {f1, f2}
  Content <- MCContent
  Version = {1, 2}
  BaseTree <- MCBaseTree
  Wishes <- MCWishes
  Tree0 <- MCTree0
  Live = {f2}
  Stakes = {f1}
  MaxCommits = 2
  MaxGates = 2
INVARIANTS
  NothingVanishes
  NoResurrection
  AllReviewed
  NoKnownBlocker
  LiveIsRehearsed
PROPERTIES
  ImplementsReview
CHECK_DEADLOCK FALSE
