SPECIFICATION ServicesSpec
CONSTANTS
  File <- MCFile
  RunRequests <- MCRunRequests
  MaxRuns = 3
  Events <- MCEvents
  MaxEvents = 10
  RouteFiles <- MCRouteFiles
  Paths <- MCPaths
  MaxRoutes = 2
  SecretFiles <- MCSecretFiles
  Names <- MCNames
  MaxSecrets = 3
  Key = {k1, k2, k3, k4}
  Value = {v1, v2}
  Slots = 3
INVARIANTS
  TypeOK
  FirstComeFirstServed
  AnswersMatchFiles
  MonitorMatchesEvents
  ReportSane
  OneSlotPerKey
PROPERTIES
  BudgetSpec
  KVSpec
  SeverityIsMonotone
\* The registry and the vault stop for good.
CHECK_DEADLOCK FALSE
