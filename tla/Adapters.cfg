SPECIFICATION Spec
CONSTANTS
  s1 = s1
  Tool = {"copilot", "opencode"}
  Command = {1, 2}
  Agent = {a1}
  Skill = {k1}
  Script = {s1}
  Scoped = {k1}
  Calls <- OneCaller
  Tier = {"mid", "frontier"}
  Server = {v1}
  UserServer = {u1}
  MaxRev = 2
  MaxFaults = 2
  MaxEdits = 1
INVARIANTS TypeOK DoneIsCurrent DonePassesSmokeTest CommandFindsScripts
PROPERTIES UserFilesKept FailsBeyondRepair RetryHeals
