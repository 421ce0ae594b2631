--------------------------- MODULE PolicyRouting ---------------------------
(***************************************************************************)
(* The routing policy of zakop, from a LAN client's DNS query to the       *)
(* outbound its traffic leaves by.  One configuration is compiled three    *)
(* times, by three pieces of code that must agree:                         *)
(*   zakopd      ruleengine and dnsproxy: which answer a name gets;        *)
(*   nftables    internal/nft: which packets go to which TProxy port;      *)
(*   sing-box    internal/singbox: which outbound a connection leaves by.  *)
(* The state machine is one run of the daemons under one configuration.    *)
(* Clients may still hold answers of an earlier one when it begins.        *)
(*                                                                         *)
(* A matcher list of a rule is abstracted to the set of names, addresses   *)
(* or ports it matches; cleanDomainList and normalizeDomain fold case and  *)
(* trailing dots on both sides before anything is compared.                *)
(***************************************************************************)
EXTENDS Naturals, Sequences, FiniteSetsExt, Functions

CONSTANTS
  Client,    \* IPv4 sources
  Lan,       \* those within lan_subnets (and not the router itself)
  Domain, Addr, Proto, Port, Tag,
  NoName,
  DnsMessage, \* what sniffing finds in a DNS message, on any port
  NoTag,
  Reserved,  \* the addresses of reservedCIDRs, without the FakeIP range
  RealIP,    \* RealIP[d]: the address real DNS knows for d
  FakeIP,    \* FakeIP[d]: the address sing-box gives d, kept across restarts
  Configs    \* the configurations that Load accepts

DnsPort == "dns"  \* port 53
FakeRange == Range(FakeIP)

ASSUME NamesAssumption == /\ Lan \subseteq Client
                          /\ NoName \notin Domain /\ DnsMessage \notin Domain
                          /\ NoName # DnsMessage /\ NoTag \notin Tag
                          /\ Proto \subseteq {"tcp", "udp", "icmp"}
                          /\ DnsPort \in Port
ASSUME AddressAssumption ==
  /\ FakeIP \in [Domain -> Addr] /\ IsInjective(FakeIP)
  /\ RealIP \in [Domain -> Addr \ FakeRange]
  /\ Reserved \subseteq Addr \ FakeRange

Rule == [enabled : BOOLEAN,
         action : {"proxy", "direct", "block"},
         dns : {"auto", "fakeip", "real_ip"},
         outbound : Tag \cup {NoTag},
         include : SUBSET Domain, exclude : SUBSET Domain,
         ips : SUBSET Addr, protos : SUBSET {"tcp", "udp"},
         dports : SUBSET Port]

ClientEntry == [ip : Client, policy : {"default", "direct", "proxy"},
                outbound : Tag \cup {NoTag}]

Config == [mode : {"custom", "simple", "global"},
           rules : Seq(Rule),         \* by ascending priority
           simple : Rule,
           clients : Seq(ClientEntry),
           targets : Seq(Tag),        \* ProxyTargetTags
           managed : BOOLEAN,         \* ManageDNSMasq
           fakeip : BOOLEAN,          \* FakeIPEnabled
           fakeRange : {"198.18.0.0/15", "private", "public"}]

\* EffectiveRules.
Rules(cfg) == IF cfg.mode = "simple" THEN <<cfg.simple>> ELSE cfg.rules

IsTarget(cfg, tag) == \E i \in DOMAIN cfg.targets : cfg.targets[i] = tag

\* What Validate checks of the parts modelled here.  Its conditions on the
\* selectors of a rule are left out: a selector may load an empty list, so they
\* promise nothing about the sets above.
ValidRule(cfg, r) == /\ r.action = "proxy" => IsTarget(cfg, r.outbound)
                     /\ r.action = "direct" => r.dns # "fakeip"
Valid(cfg) ==
  /\ \A i \in DOMAIN cfg.rules : ValidRule(cfg, cfg.rules[i])
  /\ cfg.mode = "simple" => ValidRule(cfg, cfg.simple) /\ cfg.simple.enabled
  /\ cfg.mode = "global" => cfg.targets # <<>>
  /\ \A i \in DOMAIN cfg.clients :
       cfg.clients[i].policy = "proxy" => IsTarget(cfg, cfg.clients[i].outbound)

ASSUME ConfigsAssumption == \A cfg \in Configs : cfg \in Config /\ Valid(cfg)

-----------------------------------------------------------------------------
(* zakopd: the DNS decision. *)

MatchDomain(r, d) == r.enabled /\ d \notin r.exclude /\ d \in r.include

EffectiveDNSMode(r) ==
  CASE r.action = "direct" -> "real_ip"
    [] r.action = "block" -> "block"
    [] r.action = "proxy" /\ r.dns # "auto" -> r.dns
    [] r.action = "proxy" /\ r.dns = "auto" ->
         IF r.include # {} THEN "fakeip" ELSE "real_ip"

Decision(action, dns) == [action |-> action, dns |-> dns]
DirectDecision == Decision("direct", "real_ip")

\* Positions of the rules that match a name; the first one decides.
DomainMatches(cfg, d) == {i \in DOMAIN Rules(cfg) : MatchDomain(Rules(cfg)[i], d)}

\* LastMatchDecides is DomainDecision with the wrong end of the list.
LastMatchDecides(cfg, d) ==
  IF DomainMatches(cfg, d) = {} THEN DirectDecision
  ELSE LET r == Rules(cfg)[Max(DomainMatches(cfg, d))]
       IN Decision(r.action, EffectiveDNSMode(r))
DomainDecision(cfg, d) ==
  IF DomainMatches(cfg, d) = {} THEN DirectDecision
  ELSE LET r == Rules(cfg)[Min(DomainMatches(cfg, d))]
       IN Decision(r.action, EffectiveDNSMode(r))

EntriesOf(cfg, c) == {i \in DOMAIN cfg.clients : cfg.clients[i].ip = c}

\* clientPolicy: New's map keeps the last entry of an address.
ClientPolicy(cfg, c) == IF EntriesOf(cfg, c) = {} THEN "default"
                        ELSE cfg.clients[Max(EntriesOf(cfg, c))].policy

ClientDecision(cfg, c, d) ==
  IF c \notin Lan \/ ClientPolicy(cfg, c) = "direct" \/ cfg.mode = "global"
  THEN DirectDecision
  ELSE DomainDecision(cfg, d)

IsFake(decision) == decision.action = "proxy" /\ decision.dns = "fakeip"

\* The answer to an A or AAAA query.  A FakeIP name has no AAAA record, whether
\* localResponse filters the query or the FakeIP listener, which has no IPv6
\* range, answers it.  OnlyAIsFaked lets the query through to real DNS, AnyTypeIsFaked
\* answers it from the FakeIP range.
OnlyAIsFaked(cfg, c, d, qtype) ==
  LET decision == ClientDecision(cfg, c, d)
  IN CASE decision.action = "block" -> "nxdomain"
       [] IsFake(decision) /\ qtype = "A" -> "fake"
       [] OTHER -> "real"
AnyTypeIsFaked(cfg, c, d, qtype) ==
  LET decision == ClientDecision(cfg, c, d)
  IN CASE decision.action = "block" -> "nxdomain"
       [] IsFake(decision) -> "fake"
       [] OTHER -> "real"
Answer(cfg, c, d, qtype) ==
  LET decision == ClientDecision(cfg, c, d)
  IN CASE decision.action = "block" -> "nxdomain"
       [] IsFake(decision) ->
            IF qtype = "A" THEN "fake" ELSE "nodata"
       [] OTHER -> "real"

-----------------------------------------------------------------------------
(* nftables: the chain from_lan and the chains to_proxy_<i>. *)

\* What sniffing finds inside: the name the client put there, a DNS message, or
\* nothing it knows.
Sniffed == Domain \cup {DnsMessage, NoName}

Packet == [src : Client, dst : Addr, sniffed : Sniffed,
           proto : Proto, port : Port, dnat : BOOLEAN]

IsTransport(p) == p.proto \in {"tcp", "udp"}

\* collectClients.
HasPolicy(cfg, c, policy) == \E i \in EntriesOf(cfg, c) : cfg.clients[i].policy = policy

\* reservedCIDRs.
FakeReserved(cfg) == \/ cfg.fakeRange = "private"
                     \/ cfg.fakeRange = "198.18.0.0/15" /\ ~cfg.fakeip
ReservedFor(cfg) == Reserved \cup (IF FakeReserved(cfg) THEN FakeRange ELSE {})

HasProxyDomainRule(cfg) ==
  \E i \in DOMAIN Rules(cfg) :
    LET r == Rules(cfg)[i] IN r.enabled /\ r.action = "proxy" /\ r.include # {}

\* rulePacketMatches: no protocol means both, no port means every port.
PacketMatches(r, p) ==
  /\ r.enabled
  /\ p.dst \in r.ips
  /\ p.proto \in (IF r.protos = {} THEN {"tcp", "udp"} ELSE r.protos)
  /\ r.dports = {} \/ p.port \in r.dports

\* proxyroute.Find: the position of a tag is its chain, its port and its inbound.
TargetOf(cfg, tag) == Min({i \in DOMAIN cfg.targets : cfg.targets[i] = tag})

Entry(on, do, target) == [on |-> on, do |-> do, target |-> target]

HasTarget(cfg) == cfg.targets # <<>>

\* The entries before the ordered IP rules.
Dns(cfg, p) == Entry(cfg.managed /\ IsTransport(p) /\ p.port = DnsPort, "return", 0)
Dnat(p) == Entry(p.dnat, "return", 0)
DirectClient(cfg, p) == Entry(HasPolicy(cfg, p.src, "direct"), "return", 0)
ReservedAddr(cfg, p) == Entry(p.dst \in ReservedFor(cfg), "return", 0)
ForcedClient(cfg, p) ==
  Entry(HasTarget(cfg) /\ HasPolicy(cfg, p.src, "proxy") /\ IsTransport(p), "jump", 1)
GlobalMode(cfg, p) ==
  Entry(HasTarget(cfg) /\ cfg.mode = "global" /\ IsTransport(p), "jump", 1)
FakeAddr(cfg, p) ==
  Entry(/\ cfg.mode # "global" /\ cfg.fakeip /\ HasTarget(cfg) /\ HasProxyDomainRule(cfg)
        /\ p.dst \in FakeRange /\ IsTransport(p), "jump", 1)

\* DnsAfterForced and DirectIsLast are the same entries in other orders.
DnsAfterForced(cfg, p) ==
  <<Dnat(p), DirectClient(cfg, p), ReservedAddr(cfg, p), ForcedClient(cfg, p),
    Dns(cfg, p), GlobalMode(cfg, p), FakeAddr(cfg, p)>>
DirectIsLast(cfg, p) ==
  <<Dns(cfg, p), Dnat(p), ReservedAddr(cfg, p), ForcedClient(cfg, p),
    GlobalMode(cfg, p), FakeAddr(cfg, p), DirectClient(cfg, p)>>
FixedEntries(cfg, p) ==
  <<Dns(cfg, p), Dnat(p), DirectClient(cfg, p), ReservedAddr(cfg, p),
    ForcedClient(cfg, p), GlobalMode(cfg, p), FakeAddr(cfg, p)>>
Fixed == 7

\* writeOrderedIPRules, one entry per rule.
RuleEntry(cfg, r, p) ==
  LET on == cfg.mode # "global" /\ PacketMatches(r, p)
  IN CASE r.action = "proxy" -> Entry(on, "jump", TargetOf(cfg, r.outbound))
       [] r.action = "direct" -> Entry(on, "return", 0)
       [] r.action = "block" -> Entry(on, "drop", 0)

Length(cfg) == Fixed + Len(Rules(cfg)) + 1

\* The chain from_lan, with what each of its entries says of packet p.
FromLan(cfg, p) ==
  LET fixed == FixedEntries(cfg, p) IN
  [k \in 1..Length(cfg) |->
     IF k <= Fixed THEN fixed[k]
     ELSE IF k < Length(cfg) THEN RuleEntry(cfg, Rules(cfg)[k - Fixed], p)
     ELSE Entry(TRUE, "return", 0)]

\* tproxy without a listening socket does not end the evaluation: the chain goes
\* on, but the packet has its mark already.
Verdict(chain, up) ==
  Min({k \in DOMAIN chain : chain[k].on /\ (chain[k].do = "jump" => up)})

\* MarkIsLast is to_proxy with the mark set after tproxy took the packet.
MarkIsLast(chain, k) == FALSE
Marked(chain, k) == \E j \in 1..k : chain[j].on /\ chain[j].do = "jump"

-----------------------------------------------------------------------------
(* sing-box: the route rules, in the order Generate writes them. *)

Outcome(to, via) == [to |-> to, via |-> via]

\* The name of a connection: what sniffing found, or the name of its FakeIP.
ConnectionName(p) ==
  IF p.sniffed \in Domain THEN p.sniffed
  ELSE IF p.dst \in FakeRange THEN Inverse(FakeIP, Domain, FakeRange)[p.dst] ELSE NoName

\* clientOutboundRouteRules and domainOutboundRouteRules.
ClientRoutes(cfg, p) ==
  {i \in EntriesOf(cfg, p.src) : cfg.clients[i].policy = "proxy"}
DomainRoutes(cfg, p) ==
  {i \in DomainMatches(cfg, ConnectionName(p)) : Rules(cfg)[i].action = "proxy"}

\* DomainRoutesFirst has the two groups of rules in the other order.
DomainRoutesFirst(cfg, p, inbound) ==
  CASE DomainRoutes(cfg, p) # {} -> Rules(cfg)[Min(DomainRoutes(cfg, p))].outbound
    [] DomainRoutes(cfg, p) = {} /\ ClientRoutes(cfg, p) # {} ->
         cfg.clients[Min(ClientRoutes(cfg, p))].outbound
    [] OTHER -> cfg.targets[inbound]
RouteOutbound(cfg, p, inbound) ==
  CASE ClientRoutes(cfg, p) # {} -> cfg.clients[Min(ClientRoutes(cfg, p))].outbound
    [] ClientRoutes(cfg, p) = {} /\ DomainRoutes(cfg, p) # {} ->
         Rules(cfg)[Min(DomainRoutes(cfg, p))].outbound
    [] OTHER -> cfg.targets[inbound]

\* A DNS message is answered by sing-box itself, whatever port it was sent to and
\* before any route is looked at.
SingBox(cfg, p, inbound) ==
  IF p.sniffed = DnsMessage THEN Outcome("hijacked", NoTag)
  ELSE Outcome("proxy", RouteOutbound(cfg, p, inbound))

\* Where a packet ends up: the LAN guard of chain prerouting, the chain from_lan,
\* and the redirect of plain DNS to dnsmasq (chain dns_prerouting), which is for
\* new connections only.  A marked packet goes to the local routing table.
Deliver(cfg, p, up) ==
  LET chain == FromLan(cfg, p)
      k == Verdict(chain, up)
      do == chain[k].do
  IN CASE p.src \notin Lan -> Outcome("wan", NoTag)
       [] p.src \in Lan /\ do = "jump" -> SingBox(cfg, p, chain[k].target)
       [] p.src \in Lan /\ do = "drop" -> Outcome("dropped", NoTag)
       [] p.src \in Lan /\ do = "return" ->
            CASE Marked(chain, k) -> Outcome("lost", NoTag)
              [] ~Marked(chain, k) /\ cfg.managed /\ p.port = DnsPort
                   /\ IsTransport(p) /\ ~p.dnat -> Outcome("dnsmasq", NoTag)
              [] OTHER -> Outcome("wan", NoTag)

-----------------------------------------------------------------------------
VARIABLES
  cfg,    \* the configuration of this run of the daemons
  up,     \* is sing-box listening?
  answer, \* answer[c][d]: what client c holds for name d
  flow    \* the connection that is looked at, and where it goes

vars == <<cfg, up, answer, flow>>

\* An A record and an AAAA record, and whether they are of this run.
Held == [v4 : {"none", "nxdomain", "fake", "real"},
         v6 : {"none", "nxdomain", "nodata", "real"}, fresh : BOOLEAN]
Answers(v4, v6, fresh) == [v4 |-> v4, v6 |-> v6, fresh |-> fresh]

Outcomes == [to : {"wan", "proxy", "hijacked", "dnsmasq", "dropped", "lost"},
             via : Tag \cup {NoTag}]
Flow == [packet : Packet, up : BOOLEAN, fresh : BOOLEAN, outcome : Outcomes]
NoFlow == [packet |-> {}]

\* The types of the variables.
TypeOK ==
  /\ cfg \in Config /\ Valid(cfg)
  /\ up \in BOOLEAN
  /\ answer \in [Client -> [Domain -> Held]]
  /\ flow \in Flow \cup {NoFlow}

\* Clients hold nothing, or a FakeIP of an earlier run (an old answer of any other
\* kind leads to an address that Send covers).
Init ==
  /\ cfg \in Configs
  /\ up = TRUE
  /\ answer \in [Client -> [Domain -> {Answers("none", "none", TRUE),
                                     Answers("fake", "nodata", FALSE)}]]
  /\ flow = NoFlow

\* handleUDP: a client resolves a name, both address families at once.  A query
\* that is forwarded needs sing-box.
Resolve(c, d) ==
  LET v4 == Answer(cfg, c, d, "A")
  IN /\ up \/ v4 = "nxdomain"
     /\ answer' = [answer EXCEPT ![c][d] =
                     Answers(v4, Answer(cfg, c, d, "AAAA"), TRUE)]
     /\ UNCHANGED <<cfg, up, flow>>

Open(p, fresh) ==
  /\ flow = NoFlow
  /\ flow' = [packet |-> p, up |-> up, fresh |-> fresh,
              outcome |-> Deliver(cfg, p, up)]
  /\ UNCHANGED <<cfg, up, answer>>

\* A connection to the address a name resolved to.  It may carry that name, none,
\* or another one (a shared connection, fronting), or be a DNS message.
Connect(c, d, sniffed, proto, port) ==
  /\ answer[c][d].v4 \in {"fake", "real"}
  /\ Open([src |-> c, sniffed |-> sniffed, proto |-> proto, port |-> port, dnat |-> FALSE,
           dst |-> IF answer[c][d].v4 = "fake" THEN FakeIP[d] ELSE RealIP[d]],
          answer[c][d].fresh)

\* Any other packet: a literal address, or a reply within a port forward.
Send(p) ==
  /\ p.dst \notin FakeRange
  /\ Open(p, TRUE)

Close ==
  /\ flow # NoFlow
  /\ flow' = NoFlow
  /\ UNCHANGED <<cfg, up, answer>>

\* sing-box stops or starts (its TProxy sockets close and open with it).
SingBoxChanges ==
  /\ up' = ~up
  /\ UNCHANGED <<cfg, answer, flow>>

Next ==
  \/ \E c \in Client, d \in Domain :
       \/ Resolve(c, d)
       \/ \E sniffed \in Sniffed, proto \in Proto, port \in Port :
            Connect(c, d, sniffed, proto, port)
  \/ \E p \in Packet : Send(p)
  \/ Close
  \/ SingBoxChanges

Spec == Init /\ [][Next]_vars

-----------------------------------------------------------------------------
(* Properties of the connection and of the answers. *)

Opened == flow # NoFlow
P == flow.packet
Via(tag) == Outcome("proxy", tag)

\* The rule writeOrderedIPRules puts first for a packet.
IPMatches(p) == {i \in DOMAIN Rules(cfg) : PacketMatches(Rules(cfg)[i], p)}
IPAction(p) == IF IPMatches(p) = {} THEN "direct" ELSE Rules(cfg)[Min(IPMatches(p))].action

\* The packets that the policy is about: from the LAN, to a routable address, not
\* part of a port forward and not plain DNS that dnsmasq takes.
Subject(p) == /\ p.src \in Lan /\ IsTransport(p) /\ ~p.dnat
              /\ p.dst \notin ReservedFor(cfg) /\ ~(cfg.managed /\ p.port = DnsPort)

\* Rule i is the first of all rules that matches a name, and it is a proxy rule.
FirstIsProxy(i, d) ==
  /\ d \in Rules(cfg)[i].include \ Rules(cfg)[i].exclude /\ Rules(cfg)[i].enabled
  /\ Rules(cfg)[i].action = "proxy"
  /\ \A j \in 1..(i - 1) : ~MatchDomain(Rules(cfg)[j], d)

\* D9 (docs/DECISIONS.md): the first matching rule decides, through all three
\* compilations.  A connection to a FakeIP given out in this run stays in the
\* proxy and leaves by the outbound of the first rule for its name, although
\* nftables sends every FakeIP to the first target and sing-box sees the proxy
\* rules only.  Its name is the one that was resolved, unless it carries another
\* one: then that name's first rule decides, if it is a proxy rule, and otherwise
\* only the proxy is promised.  DNS messages are sing-box's own.
FakeIPFollowsFirstRule ==
  Opened /\ Subject(P) /\ P.sniffed # DnsMessage /\ P.dst \in FakeRange
    /\ flow.fresh /\ flow.up /\ cfg.fakeip
    /\ ~HasPolicy(cfg, P.src, "proxy") /\ ~HasPolicy(cfg, P.src, "direct") =>
      /\ flow.outcome.to = "proxy"
      /\ \E d \in Domain, i \in DOMAIN Rules(cfg) :
           /\ FakeIP[d] = P.dst /\ FirstIsProxy(i, d)
           /\ P.sniffed \in {d, NoName} => flow.outcome = Via(Rules(cfg)[i].outbound)
      /\ \A i \in DOMAIN Rules(cfg) :
           FirstIsProxy(i, P.sniffed) => flow.outcome = Via(Rules(cfg)[i].outbound)

\* D1: direct traffic never enters sing-box.  What does enter it is from the LAN,
\* not from a direct client, and there is a reason: the client is forced, the mode
\* is global, the address is a FakeIP, or the first rule for the address says so.
OnlyPolicyEntersSingBox ==
  Opened /\ flow.outcome.to \in {"proxy", "hijacked"} =>
    /\ P.src \in Lan /\ ~P.dnat /\ ~HasPolicy(cfg, P.src, "direct")
    /\ \/ HasPolicy(cfg, P.src, "proxy")
       \/ cfg.mode = "global"
       \/ P.dst \in FakeRange
       \/ IPAction(P) = "proxy"

\* The traffic of a forced client leaves by the client's own outbound, whatever
\* name or address it is for, which answers it still holds and which rules there
\* are; never around the proxy, not even while sing-box is away.  The exception
\* is a DNS message, on any port: sing-box answers it itself.
ForcedClientNeverBypasses ==
  Opened /\ Subject(P) /\ HasPolicy(cfg, P.src, "proxy")
    /\ ~HasPolicy(cfg, P.src, "direct") =>
      IF flow.up
      THEN flow.outcome = IF P.sniffed = DnsMessage THEN Outcome("hijacked", NoTag)
                          ELSE Via(cfg.clients[Min(ClientRoutes(cfg, P))].outbound)
      ELSE flow.outcome.to \in {"lost", "dropped"}

\* No traffic that the policy sends to a proxy is forwarded directly, not even
\* while sing-box is away: the mark is set before the socket is looked for.
NoBypassWithoutSingBox ==
  Opened /\ Subject(P) /\ ~HasPolicy(cfg, P.src, "direct")
    /\ (\/ IPAction(P) = "proxy" \/ cfg.mode = "global"
        \/ P.dst \in FakeRange /\ flow.fresh /\ cfg.fakeip) =>
      flow.outcome.to # "wan"

\* "Plain DNS must reach the later nat redirect even in global mode or for a
\* force-proxy client" (internal/nft/generator.go:83).
PlainDNSReachesDnsmasq ==
  Opened /\ cfg.managed /\ P.src \in Lan /\ P.port = DnsPort /\ IsTransport(P)
    /\ ~P.dnat => flow.outcome.to = "dnsmasq"

\* D12: a name whose IPv4 answer is a FakeIP of this run has no IPv6 answer.
NoIPv6AroundFakeIP ==
  \A c \in Client, d \in Domain :
    answer[c][d].v4 = "fake" /\ answer[c][d].fresh => answer[c][d].v6 # "real"

\* D14 (docs/DECISIONS.md:147): "domain matchers are DNS-phase only".  A
\* connection to a real address then leaves by the outbound of the first rule
\* that matches the address.
IPRuleChoosesOutbound ==
  Opened /\ flow.outcome.to = "proxy" /\ P.dst \notin FakeRange
    /\ cfg.mode # "global" /\ ~HasPolicy(cfg, P.src, "proxy") =>
      flow.outcome = Via(Rules(cfg)[Min(IPMatches(P))].outbound)
=============================================================================
