SPECIFICATION Spec
CONSTANTS
  Client = {"c", "w"}
  Lan = {"c"}
  Domain = {"x", "y"}
  Addr = {"a", "r", "fakex", "fakey"}
  Proto = {"tcp", "icmp"}
  Port = {"dns", "web"}
  Tag = {"A", "B"}
  NoName = "noname"
  DnsMessage = "dnsmessage"
  NoTag = "direct"
  Reserved = {"r"}
  RealIP <- MCRealIP
  FakeIP <- MCFakeIP
  Configs <- MCConfigs
INVARIANT IPRuleChoosesOutbound
