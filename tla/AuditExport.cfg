SPECIFICATION Spec
CONSTANTS
  Workspaces = {w1, w2}
  Txs = {t1, t2, t3}
  NoRequest = NoRequest
  Clients = {c1}
  MaxSlots = 2
  MaxEntries = 1
  MaxOthers = 1
INVARIANTS
  AllowedIsRecorded
  CompleteExportIsHistory
  ContinuationHonoured
  DisclosureOnRecord
SYMMETRY Symmetry
