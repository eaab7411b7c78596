SPECIFICATION Spec
CONSTANTS
  None = None
  N = 5
  MaxParents = 2
  Commits <- MCCommits
  Histories <- MCHistories
INVARIANTS SearchInv ResultIsCommon NoneMeansDisjoint ReturnsLowest
PROPERTY Terminates
