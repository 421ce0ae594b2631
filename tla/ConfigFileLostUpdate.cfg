SPECIFICATION Spec
CONSTANTS
  Job = {j, k}
  Subscriptions <- MCSubscriptions
  Stem <- MCStem
  Width <- MCWidth
  Hash <- MCHash
  Entry <- MCEntry
  Lists <- MCLists
  PoolTags <- MCPoolTags
  Members <- MCMembers
  Initial <- MCInitial
  Room = 8
  MaxCommits = 0
  MaxCommands = 2
CHECK_DEADLOCK FALSE
PROPERTY OthersUntouched
