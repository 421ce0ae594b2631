------------------------ MODULE PolicyRoutingProofs ------------------------
(***************************************************************************)
(* Proofs of the properties of PolicyRouting for every set of valid        *)
(* configurations, any clients, names, addresses, rules and targets.       *)
(***************************************************************************)
EXTENDS PolicyRouting, WellFoundedInduction, TLAPS

(* Min is a CHOOSE: a set of naturals that is not empty has a least element. *)
LEMMA MinIsLeast ==
  ASSUME NEW S \in SUBSET Nat, S # {}
  PROVE  Min(S) \in S /\ \A y \in S : Min(S) <= y
<1> DEFINE R == OpToRel(<, Nat)
<1>1. IsWellFoundedOn(R, Nat)
  BY NatLessThanWellFounded, Zenon
<1>2. \A x, y \in Nat : y < x => <<y, x>> \in R
  BY DEF OpToRel
<1> HIDE DEF R
<1>3. PICK x \in S : \A y \in S : ~(<<y, x>> \in R)
  BY <1>1, WFMin, Zenon
<1>4. ASSUME NEW y \in S PROVE x <= y
  <2>1. x \in Nat /\ y \in Nat /\ ~(y < x)
    BY <1>2, <1>3
  <2> QED BY <2>1
<1> QED BY <1>4 DEF Min

LEMMA MinKnown ==
  ASSUME NEW S \in SUBSET Nat, NEW x \in S, \A y \in S : x <= y
  PROVE  Min(S) = x
<1>1. Min(S) \in S /\ Min(S) <= x
  BY MinIsLeast
<1>2. x \in Nat /\ Min(S) \in Nat /\ x <= Min(S)
  BY <1>1
<1> QED BY <1>1, <1>2

-----------------------------------------------------------------------------
(* The configurations and their rules. *)
LEMMA RulesOk ==
  ASSUME NEW c \in Config
  PROVE  Rules(c) \in Seq(Rule)
  BY DEF Config, Rules

LEMMA TargetKnown ==
  ASSUME NEW c \in Config, NEW tag, IsTarget(c, tag)
  PROVE  TargetOf(c, tag) \in DOMAIN c.targets /\ HasTarget(c)
<1> DEFINE S == {i \in DOMAIN c.targets : c.targets[i] = tag}
<1>1. c.targets \in Seq(Tag)
  BY DEF Config
<1>2. S \in SUBSET Nat /\ S # {}
  BY <1>1 DEF IsTarget
<1>3. TargetOf(c, tag) \in S
  BY <1>2, MinIsLeast DEF TargetOf
<1>4. c.targets # <<>>
  BY <1>3
<1> QED BY <1>3, <1>4 DEF HasTarget

LEMMA ProxyRuleHasTarget ==
  ASSUME NEW c \in Config, Valid(c), NEW i \in DOMAIN Rules(c), Rules(c)[i].action = "proxy"
  PROVE  IsTarget(c, Rules(c)[i].outbound)
  BY DEF Config, Valid, ValidRule, Rules

(* The chain from_lan, entry by entry. *)
LEMMA Chain ==
  ASSUME NEW c \in Config, NEW p
  PROVE  /\ DOMAIN FromLan(c, p) = 1..Length(c) /\ Length(c) = 8 + Len(Rules(c))
         /\ Len(Rules(c)) \in Nat /\ DOMAIN Rules(c) = 1..Len(Rules(c))
         /\ FromLan(c, p)[1] = Dns(c, p)
         /\ FromLan(c, p)[2] = Dnat(p)
         /\ FromLan(c, p)[3] = DirectClient(c, p)
         /\ FromLan(c, p)[4] = ReservedAddr(c, p)
         /\ FromLan(c, p)[5] = ForcedClient(c, p)
         /\ FromLan(c, p)[6] = GlobalMode(c, p)
         /\ FromLan(c, p)[7] = FakeAddr(c, p)
         /\ \A i \in DOMAIN Rules(c) : FromLan(c, p)[7 + i] = RuleEntry(c, Rules(c)[i], p)
         /\ FromLan(c, p)[Length(c)] = Entry(TRUE, "return", 0)
<1>1. Len(Rules(c)) \in Nat /\ DOMAIN Rules(c) = 1..Len(Rules(c))
  BY RulesOk
<1>2. Length(c) = 8 + Len(Rules(c))
  BY <1>1 DEF Length, Fixed
<1>3. FromLan(c, p) =
        [k \in 1..Length(c) |->
           IF k <= Fixed THEN FixedEntries(c, p)[k]
           ELSE IF k < Length(c) THEN RuleEntry(c, Rules(c)[k - Fixed], p)
           ELSE Entry(TRUE, "return", 0)]
  BY DEF FromLan
<1>4. \A k \in 1..7 : FromLan(c, p)[k] = FixedEntries(c, p)[k]
  <2> TAKE k \in 1..7
  <2>1. k \in 1..Length(c) /\ k <= Fixed
    BY <1>1, <1>2 DEF Fixed
  <2> QED BY <1>3, <2>1
<1>5. /\ FixedEntries(c, p)[1] = Dns(c, p) /\ FixedEntries(c, p)[2] = Dnat(p)
      /\ FixedEntries(c, p)[3] = DirectClient(c, p)
      /\ FixedEntries(c, p)[4] = ReservedAddr(c, p)
      /\ FixedEntries(c, p)[5] = ForcedClient(c, p)
      /\ FixedEntries(c, p)[6] = GlobalMode(c, p)
      /\ FixedEntries(c, p)[7] = FakeAddr(c, p)
  BY DEF FixedEntries
<1>6. \A i \in DOMAIN Rules(c) : FromLan(c, p)[7 + i] = RuleEntry(c, Rules(c)[i], p)
  <2> TAKE i \in DOMAIN Rules(c)
  <2>1. 7 + i \in 1..Length(c) /\ ~(7 + i <= Fixed) /\ 7 + i < Length(c) /\ (7 + i) - Fixed = i
    BY <1>1, <1>2 DEF Fixed
  <2> QED BY <1>3, <2>1
<1>7. FromLan(c, p)[Length(c)] = Entry(TRUE, "return", 0)
  <2>1. Length(c) \in 1..Length(c) /\ ~(Length(c) <= Fixed) /\ ~(Length(c) < Length(c))
    BY <1>1, <1>2 DEF Fixed
  <2> QED BY <1>3, <2>1
<1>8. DOMAIN FromLan(c, p) = 1..Length(c)
  BY <1>3
<1> QED BY <1>1, <1>2, <1>4, <1>5, <1>6, <1>7, <1>8

(* An entry that ends the evaluation. *)
Applies(entry, u) == entry.on /\ (entry.do = "jump" => u)

LEMMA VerdictIsFirst ==
  ASSUME NEW c \in Config, NEW p, NEW u \in BOOLEAN
  PROVE  LET chain == FromLan(c, p)
             k == Verdict(chain, u)
         IN  /\ k \in 1..Length(c) /\ Applies(chain[k], u)
             /\ \A j \in 1..Length(c) : Applies(chain[j], u) => k <= j
<1> DEFINE S == {k \in DOMAIN FromLan(c, p) : Applies(FromLan(c, p)[k], u)}
<1>1. DOMAIN FromLan(c, p) = 1..Length(c) /\ Length(c) \in 1..Length(c)
  <2>1. Length(c) = 8 + Len(Rules(c)) /\ Len(Rules(c)) \in Nat
    BY Chain, Zenon
  <2>2. DOMAIN FromLan(c, p) = 1..Length(c)
    BY Chain, Zenon
  <2> QED BY <2>1, <2>2
<1>2. Length(c) \in S
  BY <1>1, Chain DEF Applies, Entry
<1>3. S \in SUBSET Nat
  BY <1>1
<1>4. Verdict(FromLan(c, p), u) = Min(S)
  BY DEF Verdict, Applies
<1>5. Min(S) \in S /\ \A y \in S : Min(S) <= y
  BY <1>2, <1>3, MinIsLeast
<1> QED BY <1>1, <1>4, <1>5

LEMMA Positions ==
  ASSUME NEW c \in Config, NEW k \in 1..Length(c)
  PROVE  \/ k \in {1, 2, 3, 4, 5, 6, 7}
         \/ \E i \in DOMAIN Rules(c) : k = 7 + i
         \/ k = Length(c)
<1>1. /\ Length(c) = 8 + Len(Rules(c)) /\ Len(Rules(c)) \in Nat
      /\ DOMAIN Rules(c) = 1..Len(Rules(c))
  BY Chain, Zenon
<1>2. CASE k <= 7
  BY <1>1, <1>2
<1>3. CASE k > 7 /\ k < Length(c)
  <2>1. k - 7 \in DOMAIN Rules(c) /\ k = 7 + (k - 7)
    BY <1>1, <1>3
  <2> QED BY <2>1
<1> QED BY <1>1, <1>2, <1>3

(* What the entries do, and when they apply. *)
LEMMA RuleEntryIs ==
  ASSUME NEW c \in Config, NEW i \in DOMAIN Rules(c), NEW p
  PROVE  LET r == Rules(c)[i]
             entry == RuleEntry(c, r, p)
         IN  /\ r \in Rule
             /\ entry.on <=> c.mode # "global" /\ PacketMatches(r, p)
             /\ r.action = "proxy" => entry.do = "jump" /\ entry.target = TargetOf(c, r.outbound)
             /\ r.action = "direct" => entry.do = "return"
             /\ r.action = "block" => entry.do = "drop"
<1>1. Rules(c)[i] \in Rule
  BY RulesOk
<1>2. Rules(c)[i].action \in {"proxy", "direct", "block"}
  BY <1>1 DEF Rule
<1> QED BY <1>1, <1>2 DEF RuleEntry, Entry

LEMMA FixedEntriesDo ==
  ASSUME NEW c \in Config, NEW p
  PROVE  /\ \A k \in {1, 2, 3, 4, Length(c)} : FromLan(c, p)[k].do = "return"
         /\ \A k \in {5, 6, 7} : FromLan(c, p)[k].do = "jump"
         /\ \A k \in {5, 6, 7} : FromLan(c, p)[k].target = 1
         /\ \A k \in {5, 6, 7} : FromLan(c, p)[k].on => HasTarget(c)
<1>1. /\ Dns(c, p).do = "return" /\ Dnat(p).do = "return" /\ DirectClient(c, p).do = "return"
      /\ ReservedAddr(c, p).do = "return" /\ Entry(TRUE, "return", 0).do = "return"
  BY DEF Entry, Dns, Dnat, DirectClient, ReservedAddr
<1>2. /\ ForcedClient(c, p).do = "jump" /\ ForcedClient(c, p).target = 1
      /\ ForcedClient(c, p).on => HasTarget(c)
  BY DEF Entry, ForcedClient
<1>3. /\ GlobalMode(c, p).do = "jump" /\ GlobalMode(c, p).target = 1
      /\ GlobalMode(c, p).on => HasTarget(c)
  BY DEF Entry, GlobalMode
<1>4. /\ FakeAddr(c, p).do = "jump" /\ FakeAddr(c, p).target = 1
      /\ FakeAddr(c, p).on => HasTarget(c)
  BY DEF Entry, FakeAddr
<1> QED BY <1>1, <1>2, <1>3, <1>4, Chain, Zenon

LEMMA JumpHasTarget ==
  ASSUME NEW c \in Config, Valid(c), NEW p, NEW k \in 1..Length(c),
         FromLan(c, p)[k].on, FromLan(c, p)[k].do = "jump"
  PROVE  FromLan(c, p)[k].target \in DOMAIN c.targets
<1>1. CASE k \in {1, 2, 3, 4} \/ k = Length(c)
  BY <1>1, FixedEntriesDo
<1>2. CASE k \in {5, 6, 7}
  <2>1. HasTarget(c) /\ FromLan(c, p)[k].target = 1
    <3>1. /\ FromLan(c, p)[k].do = "jump" /\ FromLan(c, p)[k].target = 1
          /\ FromLan(c, p)[k].on => HasTarget(c)
      BY <1>2, FixedEntriesDo, Zenon
    <3> QED BY <3>1
  <2>2. c.targets \in Seq(Tag)
    BY DEF Config
  <2> QED BY <2>1, <2>2 DEF HasTarget
<1>3. ASSUME NEW i \in DOMAIN Rules(c), k = 7 + i
      PROVE  FromLan(c, p)[k].target \in DOMAIN c.targets
  <2>1. FromLan(c, p)[k] = RuleEntry(c, Rules(c)[i], p)
    BY <1>3, Chain
  <2>2. Rules(c)[i].action = "proxy" /\ FromLan(c, p)[k].target = TargetOf(c, Rules(c)[i].outbound)
    BY <2>1, RuleEntryIs DEF Rule
  <2> QED BY <2>2, ProxyRuleHasTarget, TargetKnown
<1> QED BY <1>1, <1>2, <1>3, Positions

-----------------------------------------------------------------------------
(* The outcome of a packet is of its type. *)
LEMMA RouteIsTag ==
  ASSUME NEW c \in Config, NEW p, NEW i \in DOMAIN c.targets
  PROVE  RouteOutbound(c, p, i) \in Tag \cup {NoTag}
<1>1. c.targets[i] \in Tag
  BY DEF Config
<1>2. CASE ClientRoutes(c, p) # {}
  <2>1. ClientRoutes(c, p) \in SUBSET Nat
    BY DEF ClientRoutes, EntriesOf, Config
  <2>2. Min(ClientRoutes(c, p)) \in DOMAIN c.clients
    BY <1>2, <2>1, MinIsLeast DEF ClientRoutes, EntriesOf
  <2>3. c.clients[Min(ClientRoutes(c, p))] \in ClientEntry
    BY <2>2 DEF Config
  <2> QED BY <1>2, <2>3 DEF RouteOutbound, ClientEntry
<1>3. CASE ClientRoutes(c, p) = {} /\ DomainRoutes(c, p) # {}
  <2>1. DomainRoutes(c, p) \in SUBSET Nat
    BY RulesOk DEF DomainRoutes, DomainMatches
  <2>2. Min(DomainRoutes(c, p)) \in DOMAIN Rules(c)
    BY <1>3, <2>1, MinIsLeast DEF DomainRoutes, DomainMatches
  <2>3. Rules(c)[Min(DomainRoutes(c, p))] \in Rule
    BY <2>2, RulesOk
  <2> QED BY <1>3, <2>3 DEF RouteOutbound, Rule
<1>4. CASE ClientRoutes(c, p) = {} /\ DomainRoutes(c, p) = {}
  BY <1>1, <1>4 DEF RouteOutbound
<1> QED BY <1>2, <1>3, <1>4

(* Deliver, case by case, with the chain's verdict at k. *)
LEMMA Delivered ==
  ASSUME NEW c \in Config, NEW p, NEW u \in BOOLEAN, NEW k, k = Verdict(FromLan(c, p), u)
  PROVE  LET do == FromLan(c, p)[k].do IN
         /\ p.src \notin Lan => Deliver(c, p, u) = Outcome("wan", NoTag)
         /\ p.src \in Lan /\ do = "jump" =>
              Deliver(c, p, u) = SingBox(c, p, FromLan(c, p)[k].target)
         /\ p.src \in Lan /\ do = "drop" => Deliver(c, p, u) = Outcome("dropped", NoTag)
         /\ p.src \in Lan /\ do = "return" /\ Marked(FromLan(c, p), k) =>
              Deliver(c, p, u) = Outcome("lost", NoTag)
         /\ p.src \in Lan /\ do = "return" /\ ~Marked(FromLan(c, p), k) =>
              Deliver(c, p, u) =
                IF c.managed /\ p.port = DnsPort /\ IsTransport(p) /\ ~p.dnat
                THEN Outcome("dnsmasq", NoTag) ELSE Outcome("wan", NoTag)
  BY DEF Deliver

LEMMA EntryDoes ==
  ASSUME NEW c \in Config, NEW p, NEW k \in 1..Length(c)
  PROVE  FromLan(c, p)[k].do \in {"jump", "return", "drop"}
<1>1. CASE k \in {1, 2, 3, 4, Length(c)}
  BY <1>1, FixedEntriesDo, Zenon
<1>2. CASE k \in {5, 6, 7}
  BY <1>2, FixedEntriesDo, Zenon
<1>3. ASSUME NEW i \in DOMAIN Rules(c), k = 7 + i
      PROVE  FromLan(c, p)[k].do \in {"jump", "return", "drop"}
  <2>1. FromLan(c, p)[k] = RuleEntry(c, Rules(c)[i], p)
    BY <1>3, Chain, Zenon
  <2>2. Rules(c)[i].action \in {"proxy", "direct", "block"}
    BY RuleEntryIs DEF Rule
  <2> QED BY <2>1, <2>2, RuleEntryIs
<1> QED BY <1>1, <1>2, <1>3, Positions

LEMMA DeliverTyped ==
  ASSUME NEW c \in Config, Valid(c), NEW p, NEW u \in BOOLEAN
  PROVE  Deliver(c, p, u) \in Outcomes
<1> DEFINE k == Verdict(FromLan(c, p), u)
<1>1. k \in 1..Length(c) /\ FromLan(c, p)[k].on
  BY VerdictIsFirst DEF Applies
<1>2. FromLan(c, p)[k].do \in {"jump", "return", "drop"}
  BY <1>1, EntryDoes
<1>3. ASSUME FromLan(c, p)[k].do = "jump" PROVE SingBox(c, p, FromLan(c, p)[k].target) \in Outcomes
  <2>1. RouteOutbound(c, p, FromLan(c, p)[k].target) \in Tag \cup {NoTag}
    BY <1>1, <1>3, JumpHasTarget, RouteIsTag
  <2> QED BY <2>1 DEF SingBox, Outcome, Outcomes
<1>4. \A to \in {"wan", "dropped", "lost", "dnsmasq"} : Outcome(to, NoTag) \in Outcomes
  BY DEF Outcome, Outcomes
<1> QED BY <1>2, <1>3, <1>4, Delivered

-----------------------------------------------------------------------------
(* The answers.  A name gets a FakeIP because the first rule that matches it is *)
(* a proxy rule.                                                                *)
LEMMA AnswersTyped ==
  ASSUME NEW c \in Config, NEW cl \in Client, NEW d \in Domain
  PROVE  /\ Answer(c, cl, d, "A") \in {"nxdomain", "fake", "real"}
         /\ Answer(c, cl, d, "AAAA") \in {"nxdomain", "nodata", "real"}
         /\ Answer(c, cl, d, "A") = "fake" => Answer(c, cl, d, "AAAA") = "nodata"
<1>1. CASE ClientDecision(c, cl, d).action = "block"
  BY <1>1 DEF Answer, IsFake
<1>2. CASE ClientDecision(c, cl, d).action # "block" /\ IsFake(ClientDecision(c, cl, d))
  BY <1>2 DEF Answer
<1>3. CASE ClientDecision(c, cl, d).action # "block" /\ ~IsFake(ClientDecision(c, cl, d))
  BY <1>3 DEF Answer
<1> QED BY <1>1, <1>2, <1>3

LEMMA FakeHasRule ==
  ASSUME NEW c \in Config, NEW cl \in Client, NEW d \in Domain,
         Answer(c, cl, d, "A") = "fake"
  PROVE  /\ c.mode # "global"
         /\ \E i \in DomainMatches(c, d) :
              /\ Rules(c)[i].action = "proxy"
              /\ \A j \in DomainMatches(c, d) : i <= j
<1>1. IsFake(ClientDecision(c, cl, d))
  <2>1. CASE ClientDecision(c, cl, d).action = "block"
    BY <2>1 DEF Answer
  <2>2. CASE ClientDecision(c, cl, d).action # "block" /\ ~IsFake(ClientDecision(c, cl, d))
    BY <2>2 DEF Answer
  <2> QED BY <2>1, <2>2
<1>2. ~IsFake(DirectDecision)
  BY DEF IsFake, DirectDecision, Decision
<1>3. c.mode # "global" /\ ClientDecision(c, cl, d) = DomainDecision(c, d)
  BY <1>1, <1>2 DEF ClientDecision
<1> DEFINE S == DomainMatches(c, d)
<1>4. S # {}
  BY <1>1, <1>2, <1>3 DEF DomainDecision
<1>5. S \in SUBSET Nat
  BY RulesOk DEF DomainMatches
<1>6. Min(S) \in S /\ \A j \in S : Min(S) <= j
  BY <1>4, <1>5, MinIsLeast
<1>7. DomainDecision(c, d) =
        Decision(Rules(c)[Min(S)].action, EffectiveDNSMode(Rules(c)[Min(S)]))
  BY <1>4 DEF DomainDecision
<1>8. Rules(c)[Min(S)].action = "proxy"
  BY <1>1, <1>3, <1>7 DEF IsFake, Decision
<1> QED BY <1>3, <1>6, <1>8

LEMMA FakeHasTarget ==
  ASSUME NEW c \in Config, Valid(c), NEW cl \in Client, NEW d \in Domain,
         Answer(c, cl, d, "A") = "fake"
  PROVE  HasTarget(c) /\ HasProxyDomainRule(c)
<1>1. PICK i \in DomainMatches(c, d) : Rules(c)[i].action = "proxy"
  BY FakeHasRule
<1>2. i \in DOMAIN Rules(c) /\ Rules(c)[i].enabled /\ Rules(c)[i].include # {}
  BY DEF DomainMatches, MatchDomain
<1>3. HasTarget(c)
  BY <1>1, <1>2, ProxyRuleHasTarget, TargetKnown
<1> QED BY <1>1, <1>2, <1>3 DEF HasProxyDomainRule

-----------------------------------------------------------------------------
(* An answer of this run is the answer of this configuration. *)
AnswersOk ==
  \A c \in Client, d \in Domain :
    answer[c][d].fresh =>
      \/ answer[c][d].v4 = "none"
      \/ /\ answer[c][d].v4 = Answer(cfg, c, d, "A")
         /\ answer[c][d].v6 = Answer(cfg, c, d, "AAAA")

(* A connection ended where Deliver says, and one to a FakeIP is to a name its   *)
(* client was given this address for, under this configuration if it is fresh.   *)
FlowOk ==
  /\ flow \in Flow
  /\ flow.outcome = Deliver(cfg, flow.packet, flow.up)
  /\ flow.packet.dst \in FakeRange =>
       \E d \in Domain :
         /\ flow.packet.dst = FakeIP[d]
         /\ flow.fresh => Answer(cfg, flow.packet.src, d, "A") = "fake"

IInv ==
  /\ cfg \in Config /\ Valid(cfg) /\ up \in BOOLEAN
  /\ answer \in [Client -> [Domain -> Held]]
  /\ AnswersOk
  /\ flow = NoFlow \/ FlowOk

LEMMA InitOk == Init => IInv
<1> SUFFICES ASSUME Init PROVE IInv
  OBVIOUS
<1>1. cfg \in Config /\ Valid(cfg)
  BY ConfigsAssumption DEF Init
<1>2. /\ Answers("none", "none", TRUE) \in Held /\ Answers("none", "none", TRUE).v4 = "none"
      /\ Answers("fake", "nodata", FALSE) \in Held /\ ~Answers("fake", "nodata", FALSE).fresh
  BY DEF Answers, Held
<1>3. ASSUME NEW c \in Client, NEW d \in Domain
      PROVE  answer[c][d] \in {Answers("none", "none", TRUE), Answers("fake", "nodata", FALSE)}
  BY DEF Init
<1>4. answer \in [Client -> [Domain -> Held]]
  BY <1>2 DEF Init
<1>5. AnswersOk
  BY <1>2, <1>3 DEF AnswersOk
<1> QED BY <1>1, <1>4, <1>5 DEF Init, IInv

LEMMA ResolveOk ==
  ASSUME IInv, NEW c \in Client, NEW d \in Domain, Resolve(c, d)
  PROVE  IInv'
<1> DEFINE a == Answers(Answer(cfg, c, d, "A"), Answer(cfg, c, d, "AAAA"), TRUE)
<1>1. answer' = [answer EXCEPT ![c][d] = a] /\ UNCHANGED <<cfg, up, flow>>
  BY DEF Resolve
<1>2. a \in Held
  BY AnswersTyped DEF Answers, Held, IInv
<1>3. a.v4 = Answer(cfg, c, d, "A") /\ a.v6 = Answer(cfg, c, d, "AAAA")
  BY DEF Answers
<1> HIDE DEF a
<1>4. answer' \in [Client -> [Domain -> Held]]
  BY <1>1, <1>2 DEF IInv
<1>5. ASSUME NEW k \in Client, NEW e \in Domain
      PROVE  answer'[k][e] = IF k = c /\ e = d THEN a ELSE answer[k][e]
  BY <1>1 DEF IInv
<1>6. AnswersOk'
  BY <1>1, <1>3, <1>5 DEF IInv, AnswersOk
<1>7. (flow = NoFlow \/ FlowOk)'
  BY <1>1 DEF IInv, FlowOk
<1> QED BY <1>1, <1>4, <1>6, <1>7 DEF IInv

LEMMA OpenOk ==
  ASSUME IInv, NEW p \in Packet, NEW fresh \in BOOLEAN, Open(p, fresh),
         p.dst \in FakeRange =>
           \E d \in Domain : /\ p.dst = FakeIP[d]
                             /\ fresh => Answer(cfg, p.src, d, "A") = "fake"
  PROVE  IInv'
<1>1. UNCHANGED <<cfg, up, answer>>
  BY DEF Open
<1>2. flow' = [packet |-> p, up |-> up, fresh |-> fresh, outcome |-> Deliver(cfg, p, up)]
  BY DEF Open
<1>3. Deliver(cfg, p, up) \in Outcomes
  BY DeliverTyped DEF IInv
<1>4. flow' \in Flow
  BY <1>2, <1>3 DEF Flow, IInv
<1>5. flow'.packet = p /\ flow'.up = up /\ flow'.fresh = fresh /\ flow'.outcome = Deliver(cfg, p, up)
  BY <1>2
<1>6. FlowOk'
  BY <1>1, <1>4, <1>5 DEF FlowOk
<1> QED BY <1>1, <1>6 DEF IInv, AnswersOk

LEMMA ConnectOk ==
  ASSUME IInv, NEW c \in Client, NEW d \in Domain, NEW sniffed \in Sniffed,
         NEW proto \in Proto, NEW port \in Port, Connect(c, d, sniffed, proto, port)
  PROVE  IInv'
<1> DEFINE p == [src |-> c, sniffed |-> sniffed, proto |-> proto, port |-> port, dnat |-> FALSE,
                 dst |-> IF answer[c][d].v4 = "fake" THEN FakeIP[d] ELSE RealIP[d]]
<1>1. Open(p, answer[c][d].fresh)
  BY DEF Connect
<1>2. answer[c][d] \in Held
  BY DEF IInv
<1>3. answer[c][d].fresh \in BOOLEAN
  BY <1>2 DEF Held
<1>4. FakeIP[d] \in Addr /\ RealIP[d] \in Addr \ FakeRange
  BY AddressAssumption
<1>5. p \in Packet
  BY <1>4 DEF Packet
<1>6. /\ p.src = c
      /\ p.dst = IF answer[c][d].v4 = "fake" THEN FakeIP[d] ELSE RealIP[d]
  OBVIOUS
<1>7. ASSUME answer[c][d].v4 = "fake", answer[c][d].fresh PROVE Answer(cfg, c, d, "A") = "fake"
  BY <1>7 DEF IInv, AnswersOk
<1> HIDE DEF p
<1>8. p.dst \in FakeRange =>
        \E e \in Domain : /\ p.dst = FakeIP[e]
                          /\ answer[c][d].fresh => Answer(cfg, p.src, e, "A") = "fake"
  BY <1>1, <1>4, <1>6, <1>7
<1> QED BY <1>1, <1>3, <1>5, <1>8, OpenOk

LEMMA NextOk == IInv /\ [Next]_vars => IInv'
<1> SUFFICES ASSUME IInv, [Next]_vars PROVE IInv'
  OBVIOUS
<1>1. ASSUME NEW p \in Packet, Send(p) PROVE IInv'
  <2>1. Open(p, TRUE) /\ p.dst \notin FakeRange
    BY <1>1 DEF Send
  <2> QED BY <2>1, OpenOk
<1>2. ASSUME Close PROVE IInv'
  BY <1>2 DEF Close, IInv, AnswersOk
<1>3. ASSUME SingBoxChanges PROVE IInv'
  BY <1>3 DEF SingBoxChanges, IInv, AnswersOk, FlowOk
<1>4. ASSUME UNCHANGED vars PROVE IInv'
  BY <1>4 DEF vars, IInv, AnswersOk, FlowOk
<1> QED BY <1>1, <1>2, <1>3, <1>4, ResolveOk, ConnectOk DEF Next

LEMMA Invariance == Spec => []IInv
  BY InitOk, NextOk, PTL DEF Spec

(* The types of the variables; in particular every connection ends somewhere. *)
THEOREM TypeCorrect == Spec => []TypeOK
<1>1. IInv => TypeOK
  BY DEF IInv, FlowOk, TypeOK
<1> QED BY <1>1, Invariance, PTL

(* D12, for every configuration: NoIPv6AroundFakeIP. *)
THEOREM FakeIPIsIPv4Only == Spec => []NoIPv6AroundFakeIP
<1>1. IInv => NoIPv6AroundFakeIP
  BY AnswersTyped DEF IInv, AnswersOk, NoIPv6AroundFakeIP
<1> QED BY <1>1, Invariance, PTL

-----------------------------------------------------------------------------
(* When the entries before the rules apply. *)
LEMMA FixedEntriesOn ==
  ASSUME NEW c \in Config, NEW p
  PROVE  /\ FromLan(c, p)[1].on <=> c.managed /\ IsTransport(p) /\ p.port = DnsPort
         /\ FromLan(c, p)[2].on <=> p.dnat
         /\ FromLan(c, p)[3].on <=> HasPolicy(c, p.src, "direct")
         /\ FromLan(c, p)[4].on <=> p.dst \in ReservedFor(c)
         /\ FromLan(c, p)[5].on <=> HasTarget(c) /\ HasPolicy(c, p.src, "proxy") /\ IsTransport(p)
         /\ FromLan(c, p)[6].on <=> HasTarget(c) /\ c.mode = "global" /\ IsTransport(p)
         /\ FromLan(c, p)[7].on <=>
              /\ c.mode # "global" /\ c.fakeip /\ HasTarget(c) /\ HasProxyDomainRule(c)
              /\ p.dst \in FakeRange /\ IsTransport(p)
<1>1. Dns(c, p).on <=> c.managed /\ IsTransport(p) /\ p.port = DnsPort
  BY DEF Dns, Entry
<1>2. Dnat(p).on <=> p.dnat
  BY DEF Dnat, Entry
<1>3. DirectClient(c, p).on <=> HasPolicy(c, p.src, "direct")
  BY DEF DirectClient, Entry
<1>4. ReservedAddr(c, p).on <=> p.dst \in ReservedFor(c)
  BY DEF ReservedAddr, Entry
<1>5. ForcedClient(c, p).on <=> HasTarget(c) /\ HasPolicy(c, p.src, "proxy") /\ IsTransport(p)
  BY DEF ForcedClient, Entry
<1>6. GlobalMode(c, p).on <=> HasTarget(c) /\ c.mode = "global" /\ IsTransport(p)
  BY DEF GlobalMode, Entry
<1>7. FakeAddr(c, p).on <=>
        /\ c.mode # "global" /\ c.fakeip /\ HasTarget(c) /\ HasProxyDomainRule(c)
        /\ p.dst \in FakeRange /\ IsTransport(p)
  BY DEF FakeAddr, Entry
<1>8. /\ FromLan(c, p)[1] = Dns(c, p) /\ FromLan(c, p)[2] = Dnat(p)
      /\ FromLan(c, p)[3] = DirectClient(c, p) /\ FromLan(c, p)[4] = ReservedAddr(c, p)
      /\ FromLan(c, p)[5] = ForcedClient(c, p) /\ FromLan(c, p)[6] = GlobalMode(c, p)
      /\ FromLan(c, p)[7] = FakeAddr(c, p)
  BY Chain, Zenon
<1> QED BY <1>1, <1>2, <1>3, <1>4, <1>5, <1>6, <1>7, <1>8

(* "Plain DNS must reach the later nat redirect": its entry is the first one. *)
LEMMA PlainDNS ==
  ASSUME NEW c \in Config, NEW p, NEW u \in BOOLEAN,
         c.managed, p.src \in Lan, p.port = DnsPort, IsTransport(p), ~p.dnat
  PROVE  Deliver(c, p, u).to = "dnsmasq"
<1> DEFINE chain == FromLan(c, p)
           k == Verdict(chain, u)
<1>1. chain[1].on /\ chain[1].do = "return"
  BY FixedEntriesOn, FixedEntriesDo
<1>2. k \in 1..Length(c) /\ \A j \in 1..Length(c) : Applies(chain[j], u) => k <= j
  BY VerdictIsFirst
<1>3. 1 \in 1..Length(c) /\ Applies(chain[1], u)
  <2>1. Length(c) = 8 + Len(Rules(c)) /\ Len(Rules(c)) \in Nat
    BY Chain, Zenon
  <2> QED BY <1>1, <2>1 DEF Applies
<1>4. k = 1
  BY <1>2, <1>3
<1>5. ~Marked(chain, k)
  BY <1>1, <1>4 DEF Marked
<1> HIDE DEF k
<1>6. Deliver(c, p, u) = Outcome("dnsmasq", NoTag)
  <2>1. k = Verdict(FromLan(c, p), u)
    BY DEF k
  <2> QED BY <1>1, <1>4, <1>5, <2>1, Delivered
<1> QED BY <1>6 DEF Outcome

(* PlainDNSReachesDnsmasq: also in global mode and for forced clients, for every  *)
(* configuration (nft/generator.go:83).                                           *)
THEOREM PlainDNSAlwaysRedirected == Spec => []PlainDNSReachesDnsmasq
<1>1. IInv => PlainDNSReachesDnsmasq
  <2> SUFFICES ASSUME IInv, Opened, cfg.managed, P.src \in Lan, P.port = DnsPort,
                      IsTransport(P), ~P.dnat
               PROVE  flow.outcome.to = "dnsmasq"
    BY DEF PlainDNSReachesDnsmasq
  <2>1. flow.outcome = Deliver(cfg, P, flow.up) /\ flow.up \in BOOLEAN
    BY DEF IInv, Opened, FlowOk, P, Flow
  <2> QED BY <2>1, PlainDNS DEF IInv
<1> QED BY <1>1, Invariance, PTL

-----------------------------------------------------------------------------
(* The first rule for an address, as the chain has it. *)
MatchesOf(c, p) == {i \in DOMAIN Rules(c) : PacketMatches(Rules(c)[i], p)}

LEMMA FirstMatch ==
  ASSUME NEW c \in Config, NEW p, MatchesOf(c, p) # {}
  PROVE  /\ Min(MatchesOf(c, p)) \in MatchesOf(c, p)
         /\ \A j \in MatchesOf(c, p) : Min(MatchesOf(c, p)) <= j
<1>1. MatchesOf(c, p) \in SUBSET Nat
  BY RulesOk DEF MatchesOf
<1> QED BY <1>1, MinIsLeast

(* A jump at the entry of a rule is the first matching rule's. *)
LEMMA JumpIsFirstMatch ==
  ASSUME NEW c \in Config, NEW p, NEW u \in BOOLEAN, NEW i \in DOMAIN Rules(c),
         Verdict(FromLan(c, p), u) = 7 + i, FromLan(c, p)[7 + i].do = "jump"
  PROVE  /\ i \in MatchesOf(c, p) /\ Min(MatchesOf(c, p)) = i
         /\ Rules(c)[i].action = "proxy" /\ c.mode # "global"
<1> DEFINE chain == FromLan(c, p)
<1>1. /\ Applies(chain[7 + i], u)
      /\ \A j \in 1..Length(c) : Applies(chain[j], u) => 7 + i <= j
  BY VerdictIsFirst
<1>2. u
  BY <1>1 DEF Applies
<1>3. \A j \in DOMAIN Rules(c) : chain[7 + j] = RuleEntry(c, Rules(c)[j], p)
  BY Chain, Zenon
<1>4. /\ Length(c) = 8 + Len(Rules(c)) /\ Len(Rules(c)) \in Nat
      /\ DOMAIN Rules(c) = 1..Len(Rules(c))
  BY Chain, Zenon
<1>5. c.mode # "global" /\ PacketMatches(Rules(c)[i], p) /\ Rules(c)[i].action = "proxy"
  <2>1. chain[7 + i].on /\ chain[7 + i].do = "jump"
    BY <1>1 DEF Applies
  <2> QED BY <1>3, <2>1, RuleEntryIs DEF Rule
<1>6. ASSUME NEW j \in MatchesOf(c, p) PROVE i <= j
  <2>1. j \in DOMAIN Rules(c) /\ PacketMatches(Rules(c)[j], p)
    BY DEF MatchesOf
  <2>2. Applies(chain[7 + j], u)
    BY <1>2, <1>3, <1>5, <2>1, RuleEntryIs DEF Applies
  <2>3. 7 + j \in 1..Length(c) /\ i \in Nat /\ j \in Nat
    BY <1>4, <2>1
  <2>4. 7 + i <= 7 + j
    BY <1>1, <2>2, <2>3
  <2> QED BY <2>3, <2>4
<1>7. i \in MatchesOf(c, p) /\ MatchesOf(c, p) \in SUBSET Nat
  BY <1>4, <1>5 DEF MatchesOf
<1> QED BY <1>5, <1>6, <1>7, MinKnown

LEMMA EntersForReason ==
  ASSUME NEW c \in Config, NEW p, NEW u \in BOOLEAN,
         Deliver(c, p, u).to \in {"proxy", "hijacked"}
  PROVE  /\ p.src \in Lan /\ ~p.dnat /\ ~HasPolicy(c, p.src, "direct")
         /\ \/ HasPolicy(c, p.src, "proxy")
            \/ c.mode = "global"
            \/ p.dst \in FakeRange
            \/ MatchesOf(c, p) # {} /\ Rules(c)[Min(MatchesOf(c, p))].action = "proxy"
<1> DEFINE chain == FromLan(c, p)
<1>1. PICK k : k = Verdict(chain, u)
  OBVIOUS
<1>2. /\ k \in 1..Length(c) /\ Applies(chain[k], u)
      /\ \A j \in 1..Length(c) : Applies(chain[j], u) => k <= j
  BY <1>1, VerdictIsFirst
<1>3. p.src \in Lan /\ chain[k].do = "jump"
  <2>1. chain[k].do \in {"jump", "return", "drop"}
    BY <1>2, EntryDoes
  <2>2. \A to \in {"wan", "dropped", "lost", "dnsmasq"} : Outcome(to, NoTag).to \notin {"proxy", "hijacked"}
    BY DEF Outcome
  <2> QED BY <1>1, <2>1, <2>2, Delivered
<1>4. k \notin {1, 2, 3, 4, Length(c)}
  <2>1. \A j \in {1, 2, 3, 4, Length(c)} : chain[j].do = "return"
    BY FixedEntriesDo, Zenon
  <2> QED BY <1>3, <2>1
<1>5. Length(c) = 8 + Len(Rules(c)) /\ Len(Rules(c)) \in Nat
  BY Chain, Zenon
<1>6. ~chain[2].on /\ ~chain[3].on
  <2>1. chain[2].do = "return" /\ chain[3].do = "return"
    BY FixedEntriesDo
  <2>2. 2 \in 1..Length(c) /\ 3 \in 1..Length(c) /\ ~(k <= 2) /\ ~(k <= 3)
    BY <1>2, <1>4, <1>5
  <2> QED BY <1>2, <2>1, <2>2 DEF Applies
<1>7. ~p.dnat /\ ~HasPolicy(c, p.src, "direct")
  BY <1>6, FixedEntriesOn
<1>8. ASSUME k \in {5, 6, 7}
      PROVE  HasPolicy(c, p.src, "proxy") \/ c.mode = "global" \/ p.dst \in FakeRange
  <2>1. chain[k].on
    BY <1>2 DEF Applies
  <2>2. CASE k = 5
    BY <2>1, <2>2, FixedEntriesOn, Zenon
  <2>3. CASE k = 6
    BY <2>1, <2>3, FixedEntriesOn, Zenon
  <2>4. CASE k = 7
    BY <2>1, <2>4, FixedEntriesOn, Zenon
  <2> QED BY <1>8, <2>2, <2>3, <2>4
<1>9. ASSUME NEW i \in DOMAIN Rules(c), k = 7 + i
      PROVE  MatchesOf(c, p) # {} /\ Rules(c)[Min(MatchesOf(c, p))].action = "proxy"
  BY <1>1, <1>3, <1>9, JumpIsFirstMatch
<1> QED BY <1>2, <1>3, <1>4, <1>7, <1>8, <1>9, Positions

(* D1 for every configuration: OnlyPolicyEntersSingBox. *)
THEOREM DirectTrafficStaysOut == Spec => []OnlyPolicyEntersSingBox
<1>1. IInv => OnlyPolicyEntersSingBox
  <2> SUFFICES ASSUME IInv, Opened, flow.outcome.to \in {"proxy", "hijacked"}
               PROVE  /\ P.src \in Lan /\ ~P.dnat /\ ~HasPolicy(cfg, P.src, "direct")
                      /\ \/ HasPolicy(cfg, P.src, "proxy")
                         \/ cfg.mode = "global"
                         \/ P.dst \in FakeRange
                         \/ IPAction(P) = "proxy"
    BY DEF OnlyPolicyEntersSingBox
  <2>1. flow.outcome = Deliver(cfg, P, flow.up) /\ flow.up \in BOOLEAN
    BY DEF IInv, Opened, FlowOk, P, Flow
  <2>2. MatchesOf(cfg, P) # {} => IPAction(P) = Rules(cfg)[Min(MatchesOf(cfg, P))].action
    BY DEF IPAction, IPMatches, MatchesOf
  <2> QED BY <2>1, <2>2, EntersForReason DEF IInv
<1> QED BY <1>1, Invariance, PTL

-----------------------------------------------------------------------------
(* The packets the policy is about pass the entries that return early. *)
InPolicy(c, p) ==
  /\ p.src \in Lan /\ IsTransport(p) /\ ~p.dnat /\ p.dst \notin ReservedFor(c)
  /\ ~(c.managed /\ p.port = DnsPort) /\ ~HasPolicy(c, p.src, "direct")

LEMMA PastTheReturns ==
  ASSUME NEW c \in Config, NEW p, NEW u \in BOOLEAN, InPolicy(c, p),
         NEW k, k = Verdict(FromLan(c, p), u)
  PROVE  /\ k \in 1..Length(c) /\ k \notin {1, 2, 3, 4}
         /\ FromLan(c, p)[k].on /\ (FromLan(c, p)[k].do = "jump" => u)
         /\ \A j \in 1..Length(c) : Applies(FromLan(c, p)[j], u) => k <= j
<1>1. /\ k \in 1..Length(c) /\ Applies(FromLan(c, p)[k], u)
      /\ \A j \in 1..Length(c) : Applies(FromLan(c, p)[j], u) => k <= j
  BY VerdictIsFirst
<1>2. \A j \in {1, 2, 3, 4} : ~FromLan(c, p)[j].on
  <2>1. ~FromLan(c, p)[1].on /\ ~FromLan(c, p)[2].on /\ ~FromLan(c, p)[3].on
        /\ ~FromLan(c, p)[4].on
    BY FixedEntriesOn, Zenon DEF InPolicy
  <2> QED BY <2>1
<1> QED BY <1>1, <1>2 DEF Applies

LEMMA ProxyClientHasTarget ==
  ASSUME NEW c \in Config, Valid(c), NEW cl, HasPolicy(c, cl, "proxy")
  PROVE  HasTarget(c)
<1>1. PICK i \in DOMAIN c.clients : c.clients[i].policy = "proxy"
  BY DEF HasPolicy, EntriesOf
<1>2. IsTarget(c, c.clients[i].outbound)
  BY <1>1 DEF Valid
<1> QED BY <1>2, TargetKnown

(* A packet marked before its verdict never leaves directly. *)
LEMMA MarkedStays ==
  ASSUME NEW c \in Config, NEW p, NEW u \in BOOLEAN, InPolicy(c, p),
         NEW k, k = Verdict(FromLan(c, p), u),
         FromLan(c, p)[k].do = "return" => Marked(FromLan(c, p), k)
  PROVE  /\ Deliver(c, p, u).to # "wan"
         /\ FromLan(c, p)[k].do # "jump" => Deliver(c, p, u).to \in {"lost", "dropped"}
<1>1. FromLan(c, p)[k].do \in {"jump", "return", "drop"} /\ p.src \in Lan
  BY PastTheReturns, EntryDoes DEF InPolicy
<1>2. SingBox(c, p, FromLan(c, p)[k].target).to \in {"proxy", "hijacked"}
  BY DEF SingBox, Outcome
<1>3. Outcome("dropped", NoTag).to = "dropped" /\ Outcome("lost", NoTag).to = "lost"
  BY DEF Outcome
<1>4. CASE FromLan(c, p)[k].do = "jump"
  BY <1>1, <1>2, <1>4, Delivered
<1>5. CASE FromLan(c, p)[k].do = "drop"
  BY <1>1, <1>3, <1>5, Delivered
<1>6. CASE FromLan(c, p)[k].do = "return"
  BY <1>1, <1>3, <1>6, Delivered
<1> QED BY <1>1, <1>4, <1>5, <1>6

LEMMA NoBypass ==
  ASSUME NEW c \in Config, Valid(c), NEW p, NEW u \in BOOLEAN, InPolicy(c, p),
         \/ MatchesOf(c, p) # {} /\ Rules(c)[Min(MatchesOf(c, p))].action = "proxy"
         \/ c.mode = "global"
         \/ FromLan(c, p)[7].on
  PROVE  Deliver(c, p, u).to # "wan"
<1> DEFINE chain == FromLan(c, p)
<1>1. PICK k : k = Verdict(chain, u)
  OBVIOUS
<1>2. /\ k \in 1..Length(c) /\ k \notin {1, 2, 3, 4} /\ chain[k].on
  BY <1>1, PastTheReturns
<1>3. /\ Length(c) = 8 + Len(Rules(c)) /\ Len(Rules(c)) \in Nat
      /\ DOMAIN Rules(c) = 1..Len(Rules(c))
  BY Chain, Zenon
<1>4. chain[5].do = "jump" /\ chain[6].do = "jump" /\ chain[7].do = "jump"
  BY FixedEntriesDo, Zenon
<1>5. ASSUME chain[k].do = "return" PROVE Marked(chain, k)
  <2>1. k \in Nat /\ k >= 8
    BY <1>2, <1>3, <1>4, <1>5
  <2>2. CASE c.mode = "global"
    <3>1. HasTarget(c) /\ IsTransport(p)
      BY <2>2 DEF Valid, HasTarget, InPolicy
    <3>2. chain[6].on
      BY <2>2, <3>1, FixedEntriesOn, Zenon
    <3>3. 6 \in 1..k
      BY <2>1
    <3> QED BY <1>4, <3>2, <3>3 DEF Marked
  <2>3. CASE chain[7].on
    <3>1. 7 \in 1..k
      BY <2>1
    <3> QED BY <1>4, <2>3, <3>1 DEF Marked
  <2>4. CASE /\ c.mode # "global" /\ MatchesOf(c, p) # {}
             /\ Rules(c)[Min(MatchesOf(c, p))].action = "proxy"
    <3>1. PICK m : m = Min(MatchesOf(c, p))
      OBVIOUS
    <3>2. m \in MatchesOf(c, p) /\ \A j \in MatchesOf(c, p) : m <= j
      BY <2>4, <3>1, FirstMatch
    <3>3. m \in DOMAIN Rules(c) /\ PacketMatches(Rules(c)[m], p) /\ Rules(c)[m].action = "proxy"
      BY <2>4, <3>1, <3>2 DEF MatchesOf
    <3>4. chain[7 + m] = RuleEntry(c, Rules(c)[m], p)
      BY <3>3, Chain, Zenon
    <3>5. chain[7 + m].on /\ chain[7 + m].do = "jump"
      BY <2>4, <3>3, <3>4, RuleEntryIs
    <3>6. 7 + m <= k
      <4>1. m \in Nat /\ m <= Len(Rules(c))
        BY <1>3, <3>3
      <4>2. CASE k = Length(c)
        BY <1>3, <4>1, <4>2
      <4>3. ASSUME NEW j \in DOMAIN Rules(c), k = 7 + j PROVE 7 + m <= k
        <5>1. chain[k] = RuleEntry(c, Rules(c)[j], p)
          BY <4>3, Chain, Zenon
        <5>2. j \in MatchesOf(c, p)
          BY <1>2, <5>1, RuleEntryIs DEF MatchesOf
        <5>3. m <= j /\ j \in Nat
          BY <1>3, <3>2, <5>2
        <5> QED BY <4>1, <4>3, <5>3
      <4> QED BY <1>2, <2>1, <4>2, <4>3, Positions
    <3>7. 7 + m \in 1..k
      BY <1>3, <2>1, <3>3, <3>6
    <3> QED BY <3>5, <3>7 DEF Marked
  <2> QED BY <2>2, <2>3, <2>4
<1> QED BY <1>1, <1>5, MarkedStays

(* What a forced client gets from sing-box. *)
ForcedOutcome(c, p) ==
  IF p.sniffed = DnsMessage THEN Outcome("hijacked", NoTag)
  ELSE Via(c.clients[Min(ClientRoutes(c, p))].outbound)

LEMMA ForcedStays ==
  ASSUME NEW c \in Config, Valid(c), NEW p, NEW u \in BOOLEAN, InPolicy(c, p),
         HasPolicy(c, p.src, "proxy")
  PROVE  IF u THEN Deliver(c, p, u) = ForcedOutcome(c, p)
         ELSE Deliver(c, p, u).to \in {"lost", "dropped"}
<1> DEFINE chain == FromLan(c, p)
<1>1. PICK k : k = Verdict(chain, u)
  OBVIOUS
<1>2. /\ k \in 1..Length(c) /\ k \notin {1, 2, 3, 4} /\ (chain[k].do = "jump" => u)
      /\ \A j \in 1..Length(c) : Applies(chain[j], u) => k <= j
  BY <1>1, PastTheReturns
<1>3. Length(c) = 8 + Len(Rules(c)) /\ Len(Rules(c)) \in Nat
  BY Chain, Zenon
<1>4. chain[5].do = "jump"
  BY FixedEntriesDo, Zenon
<1>5. HasTarget(c) /\ IsTransport(p) /\ p.src \in Lan
  BY ProxyClientHasTarget DEF InPolicy
<1>6. chain[5].on
  BY <1>5, FixedEntriesOn, Zenon
<1>7. 5 \in 1..k /\ 5 \in 1..Length(c)
  BY <1>2, <1>3
<1>8. CASE u
  <2>1. k = 5
    BY <1>2, <1>3, <1>4, <1>6, <1>7, <1>8 DEF Applies
  <2>2. Deliver(c, p, u) = SingBox(c, p, chain[5].target)
    BY <1>1, <1>4, <1>5, <2>1, Delivered
  <2>3. ClientRoutes(c, p) # {}
    BY DEF ClientRoutes, HasPolicy
  <2>4. Deliver(c, p, u) = ForcedOutcome(c, p)
    BY <2>2, <2>3 DEF SingBox, RouteOutbound, Via, ForcedOutcome
  <2> QED BY <1>8, <2>4
<1>9. CASE ~u
  <2>1. Marked(chain, k)
    BY <1>4, <1>6, <1>7 DEF Marked
  <2>2. Deliver(c, p, u).to \in {"lost", "dropped"}
    BY <1>1, <1>2, <1>9, <2>1, MarkedStays
  <2> QED BY <1>9, <2>2
<1> QED BY <1>8, <1>9

(* nftables sends every FakeIP to the first target, and sing-box sees the proxy  *)
(* rules only; the connection still has the outbound of the first rule of all.   *)
LEMMA NameOfFakeIP ==
  ASSUME NEW p, NEW d \in Domain, p.dst = FakeIP[d], p.sniffed \notin Domain
  PROVE  ConnectionName(p) = d
<1>2. DOMAIN FakeIP = Domain /\ p.dst \in FakeRange /\ FakeRange = Range(FakeIP)
  BY AddressAssumption DEF FakeRange, Range
<1>3. Inverse(FakeIP, Domain, FakeRange)[p.dst] =
        CHOOSE s \in Domain : p.dst \in Range(FakeIP) => FakeIP[s] = p.dst
  BY <1>2 DEF Inverse
<1>4. \A s \in Domain : FakeIP[s] = p.dst => s = d
  BY <1>2, AddressAssumption DEF IsInjective
<1>5. Inverse(FakeIP, Domain, FakeRange)[p.dst] = d
  BY <1>2, <1>3, <1>4
<1> QED BY <1>2, <1>5 DEF ConnectionName

LEMMA FakeIPToSingBox ==
  ASSUME NEW c \in Config, Valid(c), NEW p, InPolicy(c, p), NEW d \in Domain,
         p.dst = FakeIP[d], Answer(c, p.src, d, "A") = "fake",
         p.src \in Client, c.fakeip, ~HasPolicy(c, p.src, "proxy")
  PROVE  Deliver(c, p, TRUE) = SingBox(c, p, 1)
<1> DEFINE chain == FromLan(c, p)
<1>1. PICK k : k = Verdict(chain, TRUE)
  OBVIOUS
<1>2. /\ k \in 1..Length(c) /\ k \notin {1, 2, 3, 4} /\ chain[k].on
      /\ \A j \in 1..Length(c) : Applies(chain[j], TRUE) => k <= j
  BY <1>1, PastTheReturns
<1>3. Length(c) = 8 + Len(Rules(c)) /\ Len(Rules(c)) \in Nat
  BY Chain, Zenon
<1>4. c.mode # "global" /\ HasTarget(c) /\ HasProxyDomainRule(c)
  BY FakeHasRule, FakeHasTarget
<1>5. p.dst \in FakeRange /\ IsTransport(p) /\ p.src \in Lan
  BY AddressAssumption DEF FakeRange, Range, InPolicy
<1>6. ~chain[5].on /\ ~chain[6].on /\ chain[7].on
  BY <1>4, <1>5, FixedEntriesOn, Zenon
<1>7. chain[7].do = "jump" /\ chain[7].target = 1
  BY FixedEntriesDo, Zenon
<1>8. 7 \in 1..Length(c) /\ Applies(chain[7], TRUE)
  BY <1>3, <1>6 DEF Applies
<1>9. k = 7
  <2>1. k <= 7
    BY <1>2, <1>8
  <2>2. k \in Nat /\ k >= 5
    BY <1>2, <1>3
  <2>3. k # 5 /\ k # 6
    BY <1>2, <1>6
  <2> QED BY <2>1, <2>2, <2>3
<1> QED BY <1>1, <1>5, <1>7, <1>9, Delivered

(* The outbound that sing-box chooses for a name whose first rule is a proxy     *)
(* rule: the proxy rules that it has keep their order.                           *)
LEMMA NameFollowsFirstRule ==
  ASSUME NEW c \in Config, NEW p, p.sniffed # DnsMessage, ~HasPolicy(c, p.src, "proxy"),
         NEW i \in DomainMatches(c, ConnectionName(p)), Rules(c)[i].action = "proxy",
         \A j \in DomainMatches(c, ConnectionName(p)) : i <= j
  PROVE  SingBox(c, p, 1) = Via(Rules(c)[i].outbound)
<1>1. ClientRoutes(c, p) = {}
  BY DEF ClientRoutes, HasPolicy
<1>2. i \in DomainRoutes(c, p) /\ \A j \in DomainRoutes(c, p) : i <= j
  BY DEF DomainRoutes
<1>3. DomainRoutes(c, p) \in SUBSET Nat
  BY RulesOk DEF DomainRoutes, DomainMatches
<1>4. Min(DomainRoutes(c, p)) = i
  BY <1>2, <1>3, MinKnown
<1>5. RouteOutbound(c, p, 1) = Rules(c)[i].outbound
  BY <1>1, <1>2, <1>4 DEF RouteOutbound
<1> QED BY <1>5 DEF SingBox, Via

(* FirstIsProxy says that a rule is the first of those that match. *)
LEMMA FirstIsLeast ==
  ASSUME NEW i, NEW d, cfg \in Config
  PROVE  i \in DOMAIN Rules(cfg) /\ FirstIsProxy(i, d) <=>
           /\ i \in DomainMatches(cfg, d) /\ Rules(cfg)[i].action = "proxy"
           /\ \A j \in DomainMatches(cfg, d) : i <= j
<1>1. DOMAIN Rules(cfg) = 1..Len(Rules(cfg)) /\ Len(Rules(cfg)) \in Nat
  BY RulesOk
<1>2. ASSUME i \in DOMAIN Rules(cfg)
      PROVE  (\A j \in 1..(i - 1) : ~MatchDomain(Rules(cfg)[j], d)) <=>
               \A j \in DomainMatches(cfg, d) : i <= j
  <2>1. \A j \in 1..(i - 1) : j \in DOMAIN Rules(cfg) /\ ~(i <= j)
    BY <1>1, <1>2
  <2>2. \A j \in DOMAIN Rules(cfg) : j \notin 1..(i - 1) => i <= j
    BY <1>1, <1>2
  <2> QED BY <2>1, <2>2 DEF DomainMatches
<1>3. i \in DOMAIN Rules(cfg) =>
        (i \in DomainMatches(cfg, d) <=>
           Rules(cfg)[i].enabled /\ d \in Rules(cfg)[i].include \ Rules(cfg)[i].exclude)
  BY DEF DomainMatches, MatchDomain
<1>4. i \in DomainMatches(cfg, d) => i \in DOMAIN Rules(cfg)
  BY DEF DomainMatches
<1> QED BY <1>2, <1>3, <1>4 DEF FirstIsProxy

-----------------------------------------------------------------------------
LEMMA OpenedFlow ==
  ASSUME IInv, Opened
  PROVE  /\ flow.outcome = Deliver(cfg, P, flow.up) /\ flow.up \in BOOLEAN
         /\ P \in Packet /\ P.src \in Client
         /\ P.dst \in FakeRange =>
              \E d \in Domain : /\ P.dst = FakeIP[d]
                                /\ flow.fresh => Answer(cfg, P.src, d, "A") = "fake"
<1>1. FlowOk
  BY DEF IInv, Opened
<1>2. P \in Packet
  BY <1>1 DEF FlowOk, Flow, P
<1> QED BY <1>1, <1>2 DEF FlowOk, Flow, P, Packet

LEMMA SubjectInPolicy ==
  ASSUME Subject(P), ~HasPolicy(cfg, P.src, "direct") PROVE InPolicy(cfg, P)
  BY DEF Subject, InPolicy

(* ForcedClientNeverBypasses, for every configuration and whatever answers the   *)
(* client holds.                                                                 *)
THEOREM ForcedClientsForced == Spec => []ForcedClientNeverBypasses
<1>1. IInv => ForcedClientNeverBypasses
  <2> SUFFICES ASSUME IInv, Opened, Subject(P), HasPolicy(cfg, P.src, "proxy"),
                      ~HasPolicy(cfg, P.src, "direct")
               PROVE  IF flow.up
                      THEN flow.outcome = ForcedOutcome(cfg, P)
                      ELSE flow.outcome.to \in {"lost", "dropped"}
    BY DEF ForcedClientNeverBypasses, ForcedOutcome
  <2> QED BY OpenedFlow, SubjectInPolicy, ForcedStays DEF IInv
<1> QED BY <1>1, Invariance, PTL

(* NoBypassWithoutSingBox, for every configuration. *)
THEOREM ProxiedNeverLeavesDirectly == Spec => []NoBypassWithoutSingBox
<1>1. IInv => NoBypassWithoutSingBox
  <2> SUFFICES ASSUME IInv, Opened, Subject(P), ~HasPolicy(cfg, P.src, "direct"),
                      \/ IPAction(P) = "proxy" \/ cfg.mode = "global"
                      \/ P.dst \in FakeRange /\ flow.fresh /\ cfg.fakeip
               PROVE  flow.outcome.to # "wan"
    BY DEF NoBypassWithoutSingBox
  <2>1. IPAction(P) = "proxy" =>
          MatchesOf(cfg, P) # {} /\ Rules(cfg)[Min(MatchesOf(cfg, P))].action = "proxy"
    BY DEF IPAction, IPMatches, MatchesOf
  <2>2. ASSUME P.dst \in FakeRange, flow.fresh, cfg.fakeip
        PROVE  cfg.mode = "global" \/ FromLan(cfg, P)[7].on
    <3>1. PICK d \in Domain : Answer(cfg, P.src, d, "A") = "fake"
      BY <2>2, OpenedFlow
    <3>2. HasTarget(cfg) /\ HasProxyDomainRule(cfg) /\ cfg.mode # "global"
      BY <3>1, OpenedFlow, FakeHasRule, FakeHasTarget DEF IInv
    <3>3. IsTransport(P) /\ cfg \in Config
      BY DEF Subject, IInv
    <3> QED BY <2>2, <3>2, <3>3, FixedEntriesOn, Zenon
  <2> QED BY <2>1, <2>2, OpenedFlow, SubjectInPolicy, NoBypass DEF IInv
<1> QED BY <1>1, Invariance, PTL

(* D9 for every configuration: FakeIPFollowsFirstRule, whatever name the          *)
(* connection carries.                                                           *)
THEOREM FirstRuleDecides == Spec => []FakeIPFollowsFirstRule
<1>1. IInv => FakeIPFollowsFirstRule
  <2> SUFFICES ASSUME IInv, Opened, Subject(P), P.sniffed # DnsMessage,
                      P.dst \in FakeRange, flow.fresh, flow.up,
                      cfg.fakeip, ~HasPolicy(cfg, P.src, "proxy"),
                      ~HasPolicy(cfg, P.src, "direct")
               PROVE  /\ flow.outcome.to = "proxy"
                      /\ \E d \in Domain, i \in DOMAIN Rules(cfg) :
                           /\ FakeIP[d] = P.dst /\ FirstIsProxy(i, d)
                           /\ P.sniffed \in {d, NoName} =>
                                flow.outcome = Via(Rules(cfg)[i].outbound)
                      /\ \A i \in DOMAIN Rules(cfg) :
                           FirstIsProxy(i, P.sniffed) => flow.outcome = Via(Rules(cfg)[i].outbound)
    BY DEF FakeIPFollowsFirstRule
  <2>1. PICK d \in Domain : P.dst = FakeIP[d] /\ Answer(cfg, P.src, d, "A") = "fake"
    BY OpenedFlow
  <2>2. cfg \in Config /\ Valid(cfg) /\ P.src \in Client /\ InPolicy(cfg, P)
    BY OpenedFlow, SubjectInPolicy DEF IInv
  <2>3. PICK i \in DomainMatches(cfg, d) : /\ Rules(cfg)[i].action = "proxy"
                                           /\ \A j \in DomainMatches(cfg, d) : i <= j
    BY <2>1, <2>2, FakeHasRule
  <2>4. i \in DOMAIN Rules(cfg) /\ FirstIsProxy(i, d)
    BY <2>2, <2>3, FirstIsLeast
  <2>5. flow.outcome = SingBox(cfg, P, 1)
    BY <2>1, <2>2, OpenedFlow, FakeIPToSingBox
  <2>6. flow.outcome.to = "proxy"
    BY <2>5 DEF SingBox, Outcome
  <2>7. ASSUME P.sniffed \in {d, NoName} PROVE flow.outcome = Via(Rules(cfg)[i].outbound)
    <3>1. ConnectionName(P) = d
      <4>1. CASE P.sniffed = d
        BY <4>1 DEF ConnectionName
      <4>2. CASE P.sniffed = NoName
        BY <2>1, <4>2, NameOfFakeIP, NamesAssumption
      <4> QED BY <2>7, <4>1, <4>2
    <3> QED BY <2>2, <2>3, <2>5, <3>1, NameFollowsFirstRule
  <2>8. ASSUME NEW k \in DOMAIN Rules(cfg), FirstIsProxy(k, P.sniffed)
        PROVE  flow.outcome = Via(Rules(cfg)[k].outbound)
    <3>1. /\ k \in DomainMatches(cfg, P.sniffed) /\ Rules(cfg)[k].action = "proxy"
          /\ \A j \in DomainMatches(cfg, P.sniffed) : k <= j
      BY <2>2, <2>8, FirstIsLeast
    <3>2. P.sniffed \in Domain
      <4>1. Rules(cfg)[k] \in Rule
        BY <2>2, RulesOk
      <4> QED BY <2>8, <4>1 DEF FirstIsProxy, Rule
    <3>3. ConnectionName(P) = P.sniffed
      BY <3>2 DEF ConnectionName
    <3> QED BY <2>2, <2>5, <3>1, <3>3, NameFollowsFirstRule
  <2> QED BY <2>1, <2>4, <2>6, <2>7, <2>8
<1> QED BY <1>1, Invariance, PTL
=============================================================================
