SPECIFICATION Spec
CONSTANTS
  Admins = {"a1", "a2"}
  Bootstrap <- MCBootstrap
  Defaults <- MCDefaults
  Patches <- MCPatches
  MaxPatches = 3
  MaxStops = 2
  Null = Null
INVARIANTS
  TypeOK
  OneRow
  PatchesStick
  RunnerFollowsConfig
PROPERTIES
  TicksRecur
