CONSTANTS
  None = None   k1 = k1   k2 = k2   h1 = h1   h2 = h2   f1 = f1   f2 = f2
  t1 = t1   t2 = t2   p1 = p1   p2 = p2
  Hashes = {h1, h2}   Forms = {f1, f2}   IdentityOf <- MCIdentityOf   Refs = {"main"}
  Txs = {t1, t2}   Procs = {p1, p2}   MaxPuts = 2
  Conns = {k1, k2}   Repos = {"repo"}   Values = {"v1"}   Objects = {"o1"}
  Ops = {"GetRef"}
  MaxWrites = 0   MaxTx = 0
  Tools = {"file"}
SPECIFICATION MCSpec
INVARIANT CommittedMeansStored
