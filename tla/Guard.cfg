SPECIFICATION Spec
CONSTANTS
  main = main  topic = topic  v1 = v1  v2 = v2  origin = origin  fork = fork
  npm = npm  helm = helm  bad = bad  odd = odd  fine = fine  var = var
  Branch = {main, topic}
  Tag = {v1, v2}
  Remote = {origin, fork}
  Origin = origin
  Url = Url  HEAD = HEAD  None = None
  Publisher = {npm, helm}
  Text = {bad, odd, fine}
  Tool = {"Bash", "Write", "Task"}
  Matcher = {"Bash", "Write"}
  EnvVar = {var}
  Absent = Absent  Malformed = Malformed
  DefaultProtected = {main}
  DefaultPublish = {npm}
  Configs <- MCConfigs
  Sessions <- MCSessions
  Calls <- MCCalls
  Repositories <- MCRepositories
  Snapshots <- MCSnapshots
  Outages <- MCOutages
INVARIANTS
  ForbiddenNeverRuns
  UnaskedIsHarmless
  DriftIsSeen
