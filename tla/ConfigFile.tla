----------------------------- MODULE ConfigFile -----------------------------
(***************************************************************************)
(* The commands that rewrite /etc/config/zakop: `subscriptions update' and *)
(* `import-uri' (importer.ApplyNodes) and `providers update'               *)
(* (provider.UpdateMetadata).  Cron starts one process per subscription    *)
(* and per provider, by default at the same minute, and LuCI starts others.*)
(* Each reads the whole file, edits its copy, asks config.Parse whether    *)
(* the result is acceptable and writes the whole file again, with          *)
(* os.WriteFile, which truncates it first.  Nothing locks it.              *)
(*                                                                         *)
(* The file is abstracted to its outbounds, to the outbounds that rules,   *)
(* clients and pools refer to, and to whether the other sections are there.*)
(* A link is an entry of a subscription or of a file to import.            *)
(***************************************************************************)
EXTENDS Naturals, Sequences, FiniteSets, SequencesExt

CONSTANTS
  Job,            \* processes of zakopd
  Subscriptions,  \* the subscriptions, in file order
  Stem,           \* Stem[s]: the name of s, as far as a tag has room for it
  Width,          \* Width[s]: its length, with the "node_" before a digit
  Hash,           \* Hash[l][d]: the first d digits of the hash of link l
  Entry,          \* Entry[l]: what link l says
  Lists,          \* what a server may offer and a user may import
  PoolTags,       \* the tags of the outbound pools
  Members,        \* the tags of the pools' members
  Initial,        \* the outbounds before any refresh
  Room,           \* ports from tproxy_port to the last, or to the pool_controller
  MaxCommits,     \* bound on the changes made in LuCI
  MaxCommands     \* bound on the commands started

Manual == "manual"
Metadata == "providers"      \* an update of a provider rather than of nodes
None == ""                   \* a part that is not there
Sub == Range(Subscriptions)
Link == DOMAIN Entry

(* A link: its scheme, "server:port", the user and for Shadowsocks the method, *)
(* REALITY and its key, and the label, or the server where there is none.      *)
Links == [scheme : STRING, endpoint : STRING, credential : STRING,
          method : STRING, reality : BOOLEAN, pbk : BOOLEAN, label : Seq(STRING)]

ASSUME SubscriptionsAssumption ==
  /\ Subscriptions \in Seq(STRING) /\ IsInjective(Subscriptions)
  /\ Manual \notin Sub /\ Metadata \notin Sub
  /\ Stem \in [Sub -> STRING] /\ Width \in [Sub -> Nat]
ASSUME LinksAssumption ==
  /\ Link \subseteq STRING /\ (\A l \in Link : Entry[l] \in Links)
  /\ Hash \in [Link -> [0..10 -> STRING]]
  /\ Lists \subseteq Seq(Link)
ASSUME BoundsAssumption == MaxCommits \in Nat /\ MaxCommands \in Nat

(* The elements of a list at the positions in I. *)
Pick(list, I) ==
  LET upTo[k \in 0..Len(list)] ==
        IF k = 0 THEN <<>>
        ELSE IF k \in I THEN Append(upTo[k - 1], list[k]) ELSE upTo[k - 1]
  IN  upTo[Len(list)]

(* ParseLink.  Shadowsocks needs a colon only: method and password may be empty. *)
ServerPort(e) == e.endpoint # None
ParseShadowsocks(e) == e.scheme = "ss" /\ ServerPort(e)
ParseUser(e) == /\ e.scheme \in {"vless", "hysteria2", "trojan"}
                /\ ServerPort(e) /\ e.credential # None
Parses(e) == ParseShadowsocks(e) \/ ParseUser(e)

(* ParseLinks: what does not parse is left out.  No node at all is an error. *)
ParseLinks(list) == Pick(list, {i \in DOMAIN list : Parses(Entry[list[i]])})

Nodes == {ParseLinks(list) : list \in Lists} \ {<<>>}

(* subscriptionNodeKey: what tells a node from another, whatever else changes. *)
NodeOf(l) ==
  LET e == Entry[l] IN <<e.scheme, e.endpoint, e.method, e.credential>>
Node == {NodeOf(l) : l \in Link}

(* What Validate asks of an outbound beyond what ParseLink does. *)
RequiredFields(e) == e.scheme = "ss" => e.method # None /\ e.credential # None
FieldsComplete(e) == RequiredFields(e) /\ (e.scheme = "vless" /\ e.reality => e.pbk)

Tag == [name : Seq(STRING), n : Nat \ {0}]
Outbound == [tag : Tag, node : Node, sub : Sub \cup {Manual}, good : BOOLEAN]
ASSUME InitialAssumption == Initial \in Seq(Outbound)

VARIABLES
  file,     \* what /etc/config/zakop holds
  job,      \* job[j]: where process j is
  mixed,    \* jobs about to write over what another wrote since they truncated
  commits,  \* changes made in LuCI so far
  commands  \* commands started so far

vars == <<file, job, mixed, commits, commands>>

Content == [readable : BOOLEAN, enabled : BOOLEAN, whole : BOOLEAN,
            outbounds : Seq(Outbound), refs : SUBSET Tag]

(* An empty file parses to Defaults(): enabled, and nothing configured. *)
Blank == [readable |-> TRUE, enabled |-> TRUE, whole |-> FALSE,
          outbounds |-> <<>>, refs |-> {}]
(* The end of one text after another one: treated as refused. *)
Torn == [Blank EXCEPT !.readable = FALSE]

Idle == [step |-> "idle", todo |-> <<>>, links |-> <<>>, read |-> Blank]

\* The types of the variables.
TypeOK ==
  /\ file \in Content
  /\ job \in [Job -> [step : {"idle", "fetch", "truncate", "write", "refused"},
                      todo : Seq(Sub \cup {Manual, Metadata}),
                      links : Seq(Link), read : Content]]
  /\ mixed \subseteq Job
  /\ commits \in 0..MaxCommits /\ commands \in 0..MaxCommands

-----------------------------------------------------------------------------
(* What Validate asks of the references of an enabled configuration. *)
TagsOf(c) == {c.outbounds[i].tag : i \in DOMAIN c.outbounds}
References(c) == c.refs \cup (IF c.whole THEN Members ELSE {})

(* An outbound may have neither the tag of a pool nor one that is built in. *)
Reserved == {[name |-> <<name>>, n |-> 1] : name \in {"direct", "blocked", "block", "proxy_default"}}
Forbidden(c) == Reserved \cup (IF c.whole THEN PoolTags ELSE {})

(* Each outbound and each pool gets a port, from tproxy_port on: the default is *)
(* 16001.                                                                       *)
Targets(c) == Len(c.outbounds) + (IF c.whole THEN Cardinality(PoolTags) ELSE 0)
PortsSuffice(c) == Targets(c) <= (IF c.whole THEN Room ELSE 65536 - 16001)

Accepted(c) ==
  /\ c.readable
  /\ c.enabled =>
       /\ \A i, k \in DOMAIN c.outbounds :
            i # k => c.outbounds[i].tag # c.outbounds[k].tag
       /\ \A i \in DOMAIN c.outbounds : c.outbounds[i].good
       /\ TagsOf(c) \cap Forbidden(c) = {}
       /\ PortsSuffice(c)
       /\ References(c) \subseteq TagsOf(c) \cup (IF c.whole THEN PoolTags ELSE {})

(* The base of a tag: the label, or the subscription's name, "_" and ten digits of  *)
(* a hash of the link, of which sanitizeTag keeps 48 characters.  A number that the *)
(* base itself ends in is not told from the one uniqueTag appends.                  *)
Digits(s) == CHOOSE d \in 0..10 :
               /\ d = 0 \/ Width[s] + 1 + d <= 48
               /\ d = 10 \/ Width[s] + 1 + d >= 48
Name(s, l) == IF s = Manual THEN Entry[l].label ELSE <<Stem[s], Hash[l][Digits(s)]>>

(* The least number makes the tag unique.  CountFromZero leaves its range. *)
CountFromZero(name, used) ==
  [name |-> name, n |-> Cardinality({t \in used : t.name = name})]
UniqueTag(name, used) ==
  CHOOSE t \in [name : {name}, n : 1..Cardinality(used) + 1] :
    /\ t \notin used
    /\ \A k \in 1..t.n - 1 : [name |-> name, n |-> k] \in used

Tags(list) == [i \in DOMAIN list |-> list[i].tag]
OfSub(c, s) == {i \in DOMAIN c.outbounds : c.outbounds[i].sub = s}
Held(c, s, n) == Pick(c.outbounds, {i \in OfSub(c, s) : c.outbounds[i].node = n})
HeldTags(c, s, n) == Tags(Held(c, s, n))
Others(c, s) == Pick(c.outbounds, DOMAIN c.outbounds \ OfSub(c, s))
Replacing(s) == s # Manual   \* an import adds to the nodes that are there

(* The tags a refresh may reuse, by node.  KeptByPosition forgets the node. *)
KeptByPosition(c, s) ==
  [n \in Node |-> IF Replacing(s) THEN Tags(Pick(c.outbounds, OfSub(c, s))) ELSE <<>>]
KeptTags(c, s) ==
  [n \in Node |-> IF Replacing(s) THEN HeldTags(c, s, n) ELSE <<>>]

(* One node of the list: takeSubscriptionTag, or else a new tag.  TakeLast takes *)
(* the tags of a node in reverse; AlwaysNew does not look for them.              *)
AddTag(acc, s, l, tag) ==
  [left |-> acc.left, used |-> acc.used \cup {tag},
   made |-> Append(acc.made, [tag |-> tag, node |-> NodeOf(l), sub |-> s,
                              good |-> FieldsComplete(Entry[l])])]
TakeLast(acc, s, l) ==
  LET left == acc.left[NodeOf(l)]
  IN  IF left = <<>>
      THEN AddTag(acc, s, l, UniqueTag(Name(s, l), acc.used))
      ELSE AddTag([acc EXCEPT !.left[NodeOf(l)] = Front(left)], s, l, Last(left))
AlwaysNew(acc, s, l) == AddTag(acc, s, l, UniqueTag(Name(s, l), acc.used))
Give(acc, s, l) ==
  LET left == acc.left[NodeOf(l)]
  IN  IF left = <<>>
      THEN AddTag(acc, s, l, UniqueTag(Name(s, l), acc.used))
      ELSE AddTag([acc EXCEPT !.left[NodeOf(l)] = Tail(left)], s, l, Head(left))

(* What a refresh leaves where it is, and the tags a new one must differ from: *)
(* the pools' tags are not among them.  OwnTagsOnly looks at the outbounds of  *)
(* the same origin.                                                            *)
Kept(c, s) == IF Replacing(s) THEN Others(c, s) ELSE c.outbounds
OwnTagsOnly(c, s) == {}
UsedTags(c, s) == Range(Tags(Kept(c, s)))

(* ApplyNodes, up to the check: c without the subscription's nodes, and the list, *)
(* whose nodes get their tags one after the other.                                *)
Given(c, s, links) ==
  LET given[k \in 0..Len(links)] ==
        IF k = 0
        THEN [left |-> KeptTags(c, s), used |-> UsedTags(c, s), made |-> <<>>]
        ELSE Give(given[k - 1], s, links[k])
  IN  given
ApplyNodes(c, s, links) ==
  [c EXCEPT !.outbounds = Kept(c, s) \o Given(c, s, links)[Len(links)].made]

(* What a command makes of the content c.  UpdateMetadata sets options of a *)
(* provider's section only, and fails if there is none.                     *)
Result(s, c, links) == IF s = Metadata THEN c ELSE ApplyNodes(c, s, links)
Valid(s, c, links) == (s = Metadata => c.whole) /\ Accepted(Result(s, c, links))

Fetching(todo) == [step |-> "fetch", todo |-> todo, links |-> <<>>, read |-> Blank]
Updated(d) == Result(Head(d.todo), d.read, d.links)
-----------------------------------------------------------------------------
(* A file some earlier refreshes left. *)
Installed == [readable |-> TRUE, enabled |-> TRUE, whole |-> TRUE,
              outbounds |-> Initial, refs |-> {}]
Refreshed(c, s) == {c} \cup {d \in {ApplyNodes(c, s, links) : links \in Nodes} : Accepted(d)}
Earlier ==
  LET after[k \in 0..Len(Subscriptions)] ==
        IF k = 0 THEN {Installed}
        ELSE UNION {Refreshed(c, Subscriptions[k]) : c \in after[k - 1]}
  IN  after[Len(Subscriptions)]
Init ==
  /\ file \in Earlier
  /\ job = [j \in Job |-> Idle]
  /\ mixed = {}
  /\ commits = 0 /\ commands = 0

Starts(j) ==
  /\ job[j].step = "idle"
  /\ commands < MaxCommands /\ commands' = commands + 1

(* subscriptions update: of one subscription or of all, from the configuration as *)
(* it is now.                                                                     *)
StartRefresh(j) ==
  /\ Starts(j)
  /\ Accepted(file) /\ file.whole
  /\ \E todo \in {<<s>> : s \in Sub} \cup {Subscriptions} :
       todo # <<>> /\ job' = [job EXCEPT ![j] = Fetching(todo)]
  /\ UNCHANGED <<file, mixed, commits>>

(* import-uri: does not ask whether the file is acceptable as it is. *)
StartImport(j) ==
  /\ Starts(j)
  /\ job' = [job EXCEPT ![j] = Fetching(<<Manual>>)]
  /\ UNCHANGED <<file, mixed, commits>>

(* providers update.  The download and its cache are left to ProviderLists. *)
StartProvider(j) ==
  /\ Starts(j)
  /\ Accepted(file) /\ file.whole
  /\ job' = [job EXCEPT ![j] = Fetching(<<Metadata>>)]
  /\ UNCHANGED <<file, mixed, commits>>

(* fetchSubscription or ParseLinks fails.  That ends the command: what it refreshed *)
(* so far stays, the subscriptions after this one wait for the next time.           *)
FetchFails(j) ==
  /\ job[j].step = "fetch"
  /\ job' = [job EXCEPT ![j] = Idle]
  /\ UNCHANGED <<file, mixed, commits, commands>>

(* The list is there; the file is read, edited and checked.  ReadUnchecked writes *)
(* what it made.                                                                  *)
Answers(j) == IF Head(job[j].todo) = Metadata THEN {<<>>} ELSE Nodes
Step(j, step, links) ==
  [step |-> step, todo |-> job[j].todo, links |-> links, read |-> file]
ReadUnchecked(j) ==
  /\ job[j].step = "fetch"
  /\ \E links \in Answers(j) :
       job' = [job EXCEPT ![j] = Step(j, "truncate", links)]
  /\ UNCHANGED <<file, mixed, commits, commands>>
Read(j) ==
  /\ job[j].step = "fetch"
  /\ \E links \in Answers(j) :
       job' = [job EXCEPT ![j] =
         Step(j, IF Valid(Head(job[j].todo), file, links) THEN "truncate" ELSE "refused",
              links)]
  /\ UNCHANGED <<file, mixed, commits, commands>>

Refuse(j) ==
  /\ job[j].step = "refused"
  /\ job' = [job EXCEPT ![j] = Idle]
  /\ UNCHANGED <<file, mixed, commits, commands>>

(* os.WriteFile. *)
Truncate(j) ==
  /\ job[j].step = "truncate"
  /\ file' = Blank
  /\ job' = [job EXCEPT ![j].step = "write"]
  /\ UNCHANGED <<mixed, commits, commands>>

(* Two processes that both truncated write from the start of the file: the longer *)
(* text shows after the end of the shorter one.                                   *)
Write(j) ==
  /\ job[j].step = "write"
  /\ file' \in {Updated(job[j])} \cup (IF j \in mixed THEN {Torn} ELSE {})
  /\ mixed' = (mixed \ {j}) \cup {k \in Job \ {j} : job[k].step = "write"}
  /\ job' = [job EXCEPT ![j] =
       IF Len(@.todo) = 1 THEN Idle
       ELSE Fetching(Tail(@.todo))]
  /\ UNCHANGED <<commits, commands>>

(* uci commit: the user points a rule at another target, turns a node into one that *)
(* is there already, or switches the service on or off.  A commit in the middle of a *)
(* write is left out.                                                                *)
Commit ==
  /\ commits < MaxCommits
  /\ file.readable /\ file.whole
  /\ \A j \in Job : job[j].step # "write"
  /\ \/ \E t \in TagsOf(file) : file' = [file EXCEPT !.refs = {t}]
     \/ \E i, k \in DOMAIN file.outbounds :
          /\ i # k
          /\ file' = [file EXCEPT !.outbounds[i].node = file.outbounds[k].node]
     \/ file' = [file EXCEPT !.enabled = ~@]
  /\ commits' = commits + 1
  /\ UNCHANGED <<job, mixed, commands>>

(* The processes end; the file stays as it is. *)
PowerLoss ==
  /\ job # [j \in Job |-> Idle]
  /\ job' = [j \in Job |-> Idle]
  /\ mixed' = {}
  /\ UNCHANGED <<file, commits, commands>>

JobStep(j) ==
  \/ StartRefresh(j) \/ StartImport(j) \/ StartProvider(j)
  \/ FetchFails(j) \/ Read(j) \/ Refuse(j)
  \/ Truncate(j) \/ Write(j)

Next == (\E j \in Job : JobStep(j)) \/ Commit \/ PowerLoss

Spec == Init /\ [][Next]_vars
-----------------------------------------------------------------------------
Refreshing(j) == job[j].todo # <<>> /\ Head(job[j].todo) \in Sub
Pending(j) == Refreshing(j) /\ job[j].step \in {"truncate", "write"}
Listed(links, n) == Cardinality({i \in DOMAIN links : NodeOf(links[i]) = n})

(* No update leaves a file the service refuses to start with, whatever the other *)
(* processes and the user did in between, unless two of them wrote at once       *)
(* ("generated UCI is invalid", uci.go:106).                                     *)
UpdatesKeepItStartable ==
  [][commits' = commits /\ file' # file =>
       Accepted(file') \/ (file' = Torn /\ mixed # {})]_vars

(* A node that is still listed, at least as often as the file has it, keeps every *)
(* one of its tags: the rules that name them survive the refresh (uci.go:70-72).  *)
ListedNodeKeepsTags ==
  \A j \in Job : Pending(j) =>
    LET s == Head(job[j].todo)
    IN  \A n \in Node :
          LET had == HeldTags(job[j].read, s, n)
          IN  Listed(job[j].links, n) >= Len(had) =>
                Range(had) \subseteq Range(HeldTags(Updated(job[j]), s, n))

(* The new tag of link l may be one that another node has: the digits its name   *)
(* leaves room for are the same, or the user has edited the node.                *)
Clash(o, l, s) ==
  Replacing(s) /\ o.sub = s /\ o.tag.name = Name(s, l) /\ o.node # NodeOf(l)

(* A tag comes to stand for another node only if its node is not listed as often as *)
(* the file has it, and only for a link that is given the same base: otherwise the  *)
(* rules and clients that name the tag keep their node, or the refresh is refused.  *)
TagsKeepTheirNode ==
  \A j \in Job : Pending(j) /\ job[j].read.enabled /\ Accepted(job[j].read) =>
    LET s == Head(job[j].todo)
        links == job[j].links
        old == job[j].read.outbounds
        new == Updated(job[j]).outbounds
    IN  \A i \in DOMAIN old, k \in DOMAIN new :
          old[i].tag = new[k].tag /\ old[i].node # new[k].node =>
            /\ Listed(links, old[i].node) < Len(HeldTags(job[j].read, s, old[i].node))
            /\ \E l \in Range(links) : NodeOf(l) = new[k].node /\ Clash(old[i], l, s)

(* An update is refused for a reason the user can find: a node Validate refuses, a  *)
(* rule that names a node no longer listed, two nodes of one base, a new node with  *)
(* the tag of a pool or a built-in one, more nodes than ports, or a file that was   *)
(* refused before.  In particular the numbers that tell new nodes apart never get   *)
(* in the way.                                                                      *)
RefusedForCause ==
  \A j \in Job : job[j].step = "refused" =>
    LET s == Head(job[j].todo)
        c == job[j].read
        links == job[j].links
    IN  \/ ~Accepted(c) \/ ~c.whole
        \/ ~PortsSuffice(Updated(job[j]))
        \/ \E l \in Range(links) :
             \/ ~FieldsComplete(Entry[l])
             \/ \E t \in Forbidden(c) : t.name = Name(s, l)
             \/ \E i \in DOMAIN c.outbounds : Clash(c.outbounds[i], l, s)
        \/ \E i \in DOMAIN c.outbounds :
             /\ c.outbounds[i].sub = s /\ c.outbounds[i].tag \in References(c)
             /\ LET n == c.outbounds[i].node
                IN  Listed(links, n) < Len(HeldTags(c, s, n))

(* A refresh that finds the same list again changes nothing: no tag moves from one *)
(* entry to another, however often a node is listed.                               *)
RepeatedRefreshChangesNothing ==
  \A j \in Job : Pending(j) =>
    LET new == Updated(job[j])
    IN  ApplyNodes(new, Head(job[j].todo), job[j].links) = new

(* docs/OUTBOUNDS.md:221: "Updating a subscription replaces only nodes with matching *)
(* `option subscription`."  Stated of what a refresh that read a whole file is about  *)
(* to write over another whole one.                                                   *)
OfOthers(c, s) ==
  Pick(c.outbounds, {i \in DOMAIN c.outbounds : c.outbounds[i].sub \in Sub \ {s}})
OthersUntouched ==
  [][\A j \in Job :
       /\ Refreshing(j) /\ job[j].step = "truncate" /\ job'[j].step = "write"
       /\ job[j].read.whole /\ file.whole
       => LET s == Head(job[j].todo) IN OfOthers(Updated(job[j]), s) = OfOthers(file, s)]_vars
=============================================================================
