SPECIFICATION FairSpec
CONSTANTS
  MaxVersion = 3
  MaxFaults = 2
  MaxChanges = 1
INVARIANTS TypeOK InstallIsSound
PROPERTIES NothingOverUnfinished ChannelKept PushedTagsAreFinished
