CONSTANTS
  Workspaces = {w1, w2}
  Txs = {t1, t2, t3, t4}
  NoTx = NoTx
  MaxInt64 = 3
SPECIFICATION ChainFairSpec
INVARIANT ChainVerifies
PROPERTY ImplementsAuditLog
PROPERTY TransactionsEnd
