SPECIFICATION StackFairSpec
CONSTANTS
  f1 = f1
  f2 = f2
  f3 = f3
  Flow = {f1, f2}
  Nobody = Nobody
  Config <- MCCompete
  RouteFile <- MCRouteFile
  SecretFile <- MCSecretFile
  CapacityFile <- MCCapacityFile
  MaxRoutes = 4
  MaxSecrets = 4
  Backlog = 1
  Killable = {f1}
  MaxStops = 1
PROPERTY
  EveryFlowEnds
