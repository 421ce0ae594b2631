SPECIFICATION Spec
CONSTANTS
  Listen = {"5353", "5354"}
  Default = "5353"
  UserServer = {"own"}
  Mark = {"m", "n"}
  Confs <- MCConfs
  UserDhcps <- MCUserDhcps
INVARIANT StopRestoresAll
