SPECIFICATION MCSpec
CONSTANTS
  Workspaces = {w1}
  Txs = {t1, t2, t3}
  NoTx = NoTx
  MaxInt64 = 3
  alice = alice
  bob = bob
  restart = restart
  scale = scale
  Subjects = {alice, bob}
  Bindings = {restart, scale}
  ProposerOf <- MCProposerOf
  Lifetime = 2
  MaxClock = 3
SYMMETRY Symmetry
INVARIANTS
  GrantAudited
  NoStandstill
PROPERTIES
  SpentOnlyInTime
  AuthorizedAtCommit
