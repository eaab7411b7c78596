CONSTANTS
  None = None   Placeholder = Placeholder   BlankText = BlankText
  a = a   b = b   n1 = n1   n2 = n2   x1 = x1   x2 = x2   m1 = m1   m2 = m2   p1 = p1   p2 = p2
  Tools = {"trace", "coverage", "graph", "neighbors", "validate", "diff", "adopt", "files", "schema", "search"}
  TraceShapes <- MCTraceShapes
  CoverageSpecs <- MCCoverageSpecs
  CoverageTrees <- MCCoverageTrees
  GraphSpecs <- MCGraphSpecs
  NearDocuments <- MCNearDocuments
  ValidSpecs <- MCValidSpecs
  DiffPairs <- MCDiffPairs
  FileContents <- MCFileContents
  SchemaDirs <- MCSchemaDirs
SPECIFICATION MCSpec
SYMMETRY Symmetry
CHECK_DEADLOCK FALSE
INVARIANTS ReportsAreTrue WritersAreFaithful SearchIsSound
PROPERTY BuildsRepair
