SPECIFICATION Spec

CONSTANTS
  Tool <- MCTool
  Lines <- MCLines
  Longest <- MCLongest
  MaxTokens = 4
  MxTokens = 16
  MaxBackends = 2
  MaxRoutes = 2
  MaxIds = 2
  MaskBits = 32
  IntBits = 8
  MaxPort = 65535
  MaxTtl = 31536000
  MinTtl = 60
  MostCpu = 4000
  HeavyCpu = 2000
  MinCpu = 50
  SizeMax = 15
  MaxDepth = 2
  HashBlock = 6
  HashLength = 2
  FsBlocks = 21

INVARIANTS
  NetReportsMatch
  KernelReportsMatch
  CloudReportsMatch
  HostReportsMatch

\* A reader stops at the end of its file.
CHECK_DEADLOCK FALSE
