CONSTANTS
  Nodes = {"c", "s"}
  PoolSizes <- MCPools
  Widths <- MCWidths
  Ports = {"s"}
  Kinds <- MCKinds
  Opens <- MCOpens
  MaxSockets <- MCMaxSockets
  MaxOpens = 2
SPECIFICATION Spec
INVARIANTS NothingLeaks EndsAgree
PROPERTY OpenReturns
CHECK_DEADLOCK FALSE
