CONSTANTS
  None = None   Deleted = Deleted   Unknown = Unknown   Divergent = Divergent   Conflict = Conflict
  d1 = d1   d2 = d2   d3 = d3   p1 = p1   p2 = p2
  Paths = {p1, p2}   Branches = {"main", "dev"}   Main = "main"
  Alike <- MCAlike   Histories <- MCHistories   Incoming <- MCIncoming
  MergeStrategies <- MCStrategies   FileMergedBy <- MCMergedFile
  Workloads <- MCWorkloads
  Imported <- MCImported   Comments = {"c"}
  Docs = {d1, d2}   MaxCommits = 3   MaxOps = 5   MaxIncidents = 0
  Tools = {"working copy"}
SPECIFICATION MCSpec
CHECK_DEADLOCK FALSE
PROPERTY CommitRecordsStaged
