SPECIFICATION StackSpec
CONSTANTS
  f1 = f1
  f2 = f2
  f3 = f3
  Flow = {f1, f2, f3}
  Nobody = Nobody
  Config <- MCConfig
  RouteFile <- MCRouteFile
  SecretFile <- MCSecretFile
  CapacityFile <- MCCapacityFile
  MaxRoutes = 4
  MaxSecrets = 4
  Backlog = 2
  Killable = {f1}
  MaxStops = 1
INVARIANTS
  AcceptMeansBooked
  FailureHoldsNothing
  CapacityConserved
  MonitorMatchesFlows
  ExitMeansCounted
  IInv
  RefusalsAreTheServers
