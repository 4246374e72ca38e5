CONSTANTS
  Workspaces = {w1, w2}
  NoWorkspace = NoWorkspace
  Callers = {c1, c2}
  MaxCalls = 3
SPECIFICATION FairSpec
INVARIANT SingleFlight
PROPERTY ImplementsSharedRefresh
PROPERTY CallsAnswered
PROPERTY CanceledWaitEnds
