SPECIFICATION Spec
CONSTANTS
  Job = {j, k}
  Subscriptions <- MCSubscriptions
  Stem <- MCStem
  Width <- MCWidth
  Hash <- MCHash
  Entry <- MCEntry
  Lists <- MCLists
  PoolTags <- MCPoolTags
  Members <- MCMembers
  Initial <- MCInitial
  Room = 8
  MaxCommits = 1
  MaxCommands = 2
INVARIANTS TypeOK ListedNodeKeepsTags TagsKeepTheirNode  RepeatedRefreshChangesNothing
SYMMETRY JobSymmetry
CHECK_DEADLOCK FALSE
PROPERTIES UpdatesKeepItStartable
