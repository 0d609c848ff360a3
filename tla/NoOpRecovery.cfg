SPECIFICATION Spec
CONSTANTS
  MaxVersion = 2
  MaxFaults = 1
  MaxChanges = 1
INVARIANTS ReleasedIsPublished
