SPECIFICATION Spec
CONSTANTS
  W = 3
  Provider = {"ip", "ip2", "dom"}
  Type <- MCType
  Default = {"ip", "dom"}
  Lists <- MCLists
  UnderWay <- MCUnderWay
  OwnCIDRs <- MCOwn
  FileCIDRs <- MCFile
  RuleOrder <- MCRuleOrder
  Loader = {"status"}
  Torn <- MCTorn
  MaxLoads = 1
  MaxUpdates = 2
  MaxLosses = 1
  Spent <- MCUpdateOnly

PROPERTIES UpdateLasts
