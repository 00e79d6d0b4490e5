SPECIFICATION Spec
CONSTANTS
  first = first
  second = second
  third = third
  server1 = server1
  server2 = server2
  data1 = data1
  data2 = data2
  p1 = p1
  p2 = p2
  Container <- Containers
  Mount <- Mounts
  ServerMount <- ServerMounts
  DataMount <- DataMounts
  PID <- PIDs
  NoProcess = NoProcess
  MaxTicks = 2
SYMMETRY PIDSymmetry
INVARIANTS
  MountsExclusive OneGame
PROPERTIES
  HealthyMeansServing
CHECK_DEADLOCK FALSE
