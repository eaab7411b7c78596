CONSTANTS
  None = None
  Commits = {c1, c2, c3, c4}
  Trees = {t1}
  Stores = {"annsrepo", "origin"}
  Procs = {"ann", "bob"}
  Branches = {main, dev}
  Local <- MCServed
  Origin = "origin"
  Policies = {"FastForwardOnly", "Overwrite", "Reject"}
  Calls <- MCAllCalls
  TreesStored = TRUE
SPECIFICATION MCSpec
SYMMETRY MCBranchSymmetry
INVARIANTS RepoInv RefsComplete
PROPERTIES ImplementsRepository LossNeedsRace
