CONSTANTS
  None = None
  Commits = {c1, c2, c3, c4}
  Trees = {t1}
  Stores = {"annsrepo", "bobsrepo", "origin"}
  Procs = {"ann", "bob"}
  Branches = {main, dev}
  Local <- MCClones
  Origin = "origin"
  Policies = {"FastForwardOnly"}
  Calls <- MCCloneCalls
  TreesStored = TRUE
SPECIFICATION MCSpec
PROPERTY FastForwardKeepsHistory
