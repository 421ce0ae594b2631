-------------------------- MODULE MCPolicyRouting --------------------------
(* Two names that share a real address, their FakeIPs, a reserved address, two   *)
(* targets, a LAN client and a host that is not in the LAN; every ordered pair   *)
(* of five rules, and every kind of client, mode and FakeIP setting with some.   *)
EXTENDS PolicyRouting, TLC

MCRealIP == [d \in {"x", "y"} |-> "a"]
MCFakeIP == "x" :> "fakex" @@ "y" :> "fakey"

R(action, dns, outbound, include, exclude, ips, protos, dports) ==
  [enabled |-> TRUE, action |-> action, dns |-> dns, outbound |-> outbound,
   include |-> include, exclude |-> exclude, ips |-> ips, protos |-> protos,
   dports |-> dports]

ProxyX == R("proxy", "auto", "A", {"x"}, {}, {}, {}, {})
ProxyY == R("proxy", "auto", "B", {"y"}, {}, {}, {}, {})
ProxyXY == R("proxy", "fakeip", "B", {"x", "y"}, {}, {"a"}, {}, {})
NotX == R("proxy", "auto", "B", {"x", "y"}, {"x"}, {}, {}, {})
RealX == R("proxy", "real_ip", "A", {"x"}, {}, {}, {}, {})
ProxyTcp == R("proxy", "auto", "A", {}, {}, {"a"}, {"tcp"}, {})
ProxyWeb == R("proxy", "auto", "B", {}, {}, {"a"}, {}, {"web"})
DisabledX == [ProxyXY EXCEPT !.enabled = FALSE]
DirectX == R("direct", "auto", "direct", {"x"}, {}, {"a"}, {}, {})
BlockX == R("block", "auto", "direct", {"x"}, {}, {}, {}, {})
BlockAddr == R("block", "auto", "direct", {}, {}, {"a"}, {}, {})

C(ip, policy, outbound) == [ip |-> ip, policy |-> policy, outbound |-> outbound]
MCForced == <<C("c", "default", "direct"), C("c", "proxy", "B")>>
MCClients ==
  { <<>>, <<C("c", "direct", "direct")>>, <<C("c", "proxy", "B")>>,
    <<C("w", "proxy", "A")>>, MCForced,
    <<C("c", "direct", "direct"), C("c", "default", "direct")>> }

Base == [mode |-> "custom", rules |-> <<>>,
         simple |-> R("direct", "auto", "direct", {}, {}, {}, {}, {}),
         clients |-> <<>>, targets |-> <<"A", "B">>, managed |-> TRUE,
         fakeip |-> TRUE, fakeRange |-> "198.18.0.0/15"]

MCPairs == {ProxyX, ProxyY, ProxyXY, RealX, DirectX}

MCConfigs ==
  { [Base EXCEPT !.rules = <<r, s>>] : r \in MCPairs, s \in MCPairs }
  \cup { [Base EXCEPT !.rules = <<r, ProxyX>>] : r \in {NotX, BlockX, DisabledX} }
  \cup { [Base EXCEPT !.rules = <<r, s>>, !.clients = MCForced] :
      r \in {ProxyTcp}, s \in {DirectX, BlockAddr} }
  \cup { [Base EXCEPT !.rules = <<ProxyXY>>, !.clients = cl] : cl \in MCClients }
  \cup { [Base EXCEPT !.mode = "global", !.rules = <<ProxyX>>, !.clients = cl] :
      cl \in MCClients }
  \cup { [Base EXCEPT !.mode = "global", !.managed = FALSE, !.rules = <<BlockAddr>>,
                     !.clients = cl] : cl \in {<<>>, MCForced} }
  \cup { [Base EXCEPT !.mode = "simple", !.managed = FALSE, !.simple = ProxyXY,
                     !.clients = cl] : cl \in {<<>>, MCForced} }
  \cup { [Base EXCEPT !.fakeip = f, !.fakeRange = g, !.rules = <<ProxyX, ProxyWeb>>] :
      f \in BOOLEAN, g \in {"198.18.0.0/15", "private", "public"} }
  \cup { [Base EXCEPT !.targets = <<>>, !.rules = <<DirectX, BlockAddr>>] }
=============================================================================
