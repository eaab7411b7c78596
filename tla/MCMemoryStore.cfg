SPECIFICATION Spec
CONSTANTS
  h1 = h1
  h2 = h2
  f1 = f1
  f2 = f2
  f3 = f3
  None = None
  Hashes = {h1, h2}
  Forms = {f1, f2, f3}
  IdentityOf <- MCIdentityOf
  Refs = {"main"}
  Txs = {"t1", "t2"}
  Readers = {"p1"}
  MaxPuts = 2
INVARIANT IndexIsSound
PROPERTIES ImplementsContract CallsFinish
