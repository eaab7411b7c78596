CONSTANTS
  None = None   Broken = Broken
  hText = hText   hElement = hElement   hDocument = hDocument   hTree = hTree   hCommit = hCommit
  Jobs = {"j1"}   Viewers = {"v1"}   Inputs <- MCInputs   Bootstraps = FALSE   MaxExtras = 1
  CallIds = {"get", "tree", "sub"}   StreamIds = {"tree", "sub"}   MaxItems = 2
  Handles = {"t1"}   Objects = {"a", "b"}   MaxTxCalls = 5
  Clients = {"c1", "c2"}   Nodes = {"p", "q"}   Children <- MCChildren   Requests <- MCRequests
  MaxRequests = 2
  Hashes = {hText, hElement, hDocument, hTree, hCommit}   Forms <- MCForms
  IdentityOf <- MCIdentityOf   Refs = {"main"}   Txs = {"t1"}   MaxPuts = 2
  WatchJobs = {"j1", "j2"}   RunInitial = TRUE   Once = FALSE   Debounce = 2   MaxEdits = 2
  Names = {"n"}   Tokens = {"t"}   MaxWrites = 2
  Tools = {"jobs", "calls", "transaction", "store", "python", "watch", "serve"}
SPECIFICATION MCSpec
CHECK_DEADLOCK FALSE
INVARIANTS JobIsTold OutcomeIsAnswer TransactionsAreExact RemoteIsStore BridgeIsFaithful ServesLastGood
PROPERTIES ImplementsJobLife PythonIsStore NoSelfTrigger
