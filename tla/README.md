# A verification of zakop in TLA+

zakop is a policy router for OpenWrt: it decides, before sing-box, which traffic of
LAN clients goes to which proxy outbound and which goes out directly. This directory
holds TLA+ models of the program, the TLC runs that check them on small instances,
and proofs checked by TLAPS. Paths are relative to the repository.

Run everything in this directory: `tlc -config X.cfg MC<Module>.tla` for a run of
`PROJECT.json`, `tlapm <Module>Proofs.tla` for proofs.

## 1. The system

```
             DNS                                        packets
 LAN client ─────► dnsmasq (addsubnet 32)    LAN client ─────► nft table inet zakop
                      │ 127.0.0.1#5353                             │ from_lan, to_proxy_<i>
                      ▼                                            │ mark + TProxy port
                   zakopd (dnsproxy)                               ▼
                      │ one of three listeners       sing-box inbound i ─► route rules ─► outbound
                      ▼                                            ▲ selector of a pool
                   sing-box DNS: FakeIP, real-direct, real-proxy   │ Clash API
                                                       zakopd (outboundpool)
 /etc/config/zakop ──► zakopd check/compile/apply ──► zakop.nft, sing-box.json, ip rule
 /etc/init.d/zakop ──► procd instances, zakopd ready, dnsmasq take-over, cron
```

| component | state | operations | what makes it correct |
|---|---|---|---|
| DNS forwarder (`internal/dnsproxy`) | two slot channels, one goroutine per query, deadlines | accept, local answer, reserve, forward, release, reply | no slot is lost, limits hold, pools are independent, every query ends and is answered |
| readiness probe (`readiness.go`) | none | retry until answered or timeout | success means the whole DNS path answered |
| rule engine (`internal/ruleengine`) | none | first match, effective DNS mode | agrees with nftables and sing-box |
| nft generator (`internal/nft`) | the table | compile | entry order; direct traffic stays out, proxied traffic does not escape |
| sing-box generator (`internal/singbox`) | sing-box.json | compile | route rules agree with the rule that gave out the FakeIP |
| proxy targets (`internal/proxyroute`) | none | position = chain = port = inbound | both generators number alike |
| configuration (`internal/config`) | parsed UCI | parse, validate, effective rules | what passes Validate compiles |
| outbound pools (`internal/outboundpool`) | per pool: position, timer, retry; the selector in sing-box | probe, read selection, select, sleep | strict priority, convergence, bounded retry, clean end |
| service script (`embedded/files/etc/init.d/zakop`) | state files, `/etc/config/dhcp` staged and committed, crontab, procd instances | start, reload, stop, restart | stop gives back what start took, at whatever point something was interrupted |
| zakopd commands (`cmd/zakopd/main.go`) | table, ip rule and route, generated files | check, compile, apply, run, ready, updates, latency | failed applies leave nothing half-done |
| TProxy plan (`internal/tproxy`) | `ip rule`, route table | plan ensure and cleanup | idempotent, touches only its own entries |
| CIDR normalisation (`internal/policy`) | none | merge ranges, split into CIDRs | exact cover, no overlap, uint32 edges |
| importer (`internal/importer`) | `/etc/config/zakop`, written by several processes without a lock | read, edit, check, write | the file stays startable, tags stay with their nodes, refusals have a reason |
| providers (`internal/provider`, caches in `config.go`) | one cache file per provider, on flash as the program is built | download, normalise, write; read, mirror and restore in every command that loads the configuration | the policy follows the caches; nothing a download or an update does stops a start |
| watchdog (`run-sing-box-log.sh`) | child, failure count | start, probe, restart | restarts a dead path, ends with its child |
| status, debug, dnsmasq snippet, provider scripts, LuCI, installer | (see `PROJECT.json`) | | |

Interaction: zakopd and sing-box talk over loopback DNS and the Clash API; all others
meet in files, in the kernel's tables and in procd. Only `rc.common`'s lock
serialises scripts; zakopd commands called otherwise (cron, LuCI, a shell) take no lock. What is hard: three separately compiled views of one rule
list; slots and deadlines; selectors that live in another process and are reset by
its restart; and a service script that must be undone after any interruption. The
hazards, each at its line, are in `PROJECT.json`.

## 2. Modules

### ForwardPools, DnsProxy, DnsProxyProofs, MCDnsProxy

`ForwardPools` is the promise: pools with limits of their own; a query is turned away
only by its own pool. `DnsProxy` is the forwarder. A goroutine is a record in
`query[h]`: its phase (`reading` in readTCPDNS, `handling` in
handleUDP/handleTCPQuery, `dialing` and `waiting` in forwardUDP/forwardTCP, with a slot
held, `replying`), its transport, and the ticks left on both deadlines. `used[p]` is
the number of tokens in the channel of pool p: the code's counter, separate from
the goroutines that hold one, so that a lost or doubled release shows. Each way out of a
forward is an action (`DialFails`, `UpstreamAnswers`, `ForwardFails`). `Exit` and
`Respawn` are procd's restart of zakopd; sing-box comes and goes at any time. The
messages themselves are abstracted to which pool they go to.

Fairness: each goroutine's own step (a runnable goroutine runs, a blocking call
returns after its deadline) and `Tick`. Nothing is assumed of clients, of sing-box, or
of the upstream's answers.

### PolicyRouting, PolicyRoutingProofs, MCPolicyRouting

One configuration, compiled three times: `DomainDecision`, `Answer` (zakopd),
`FixedEntries`, `RuleEntry`, `FromLan`, `Verdict` (nftables), `ClientRoutes`,
`DomainRoutes`, `RouteOutbound` (sing-box). The state is the configuration of this
run of the daemons (`cfg`), whether sing-box listens (`up`), the answers the clients
hold (`answer`, possibly of an earlier configuration) and one connection (`flow`).
`Resolve`, `Connect` and `Send` are what clients do; `Deliver` computes where a packet
ends. Chains are sequences of entries with a condition and a verdict, so the order in
the generator is the order in the model. An address list, a matcher list or a port list
is the set it matches; source ports are left out, they behave like destination ports;
the parsing of ranges is data. Modelled from their use: TProxy's fall-through
without a socket (documented at generator.go:124), sing-box's sniffing and its first
match.

`sniffed` is what sing-box finds in a connection: any name, whether or not it is the one that was
resolved (a shared connection, fronting), no name, or a DNS message. As generator.go:76-79 has it,
a DNS message is hijacked before any route is looked at, on any port and for any client, so forced
clients' DNS messages do not take their outbound; the properties say so. Where a connection to a
FakeIP carries another name, that name's first proxy rule decides, and `FakeIPFollowsFirstRule`
promises only that the connection stays in the proxy if there is none.

With `fakeip_enabled` 0 zakopd still answers with FakeIPs (useFakeUpstream does not
look at it) while the table reserves their range; the properties that need it say
`cfg.fakeip`.

### OutboundPool, OutboundPoolProofs, MCOutboundPool

A goroutine per pool with the loop of runPool and Check; each Clash API call is a
step, and the selector is a variable of its own that a restart of sing-box resets.
`Select` may be carried out and still be reported as failed. `window` is history: what
could be reached during the current pass.

Fairness: every step of a goroutine (calls have deadlines, timers fire), `Tick`
and the return of `Run`. Nothing is assumed of the network.

### ZakopService, ZakopServiceProofs, MCZakopService

The service script. The steps between two writes to flash are single actions: `Check`, `Submit`
(rc_procd), `Load` (the second config_load), `Ready`, then `zakopd apply`, `SaveServer`,
`SaveNoresolv`, `SaveAddsubnet`, `Switch`, `CommitSwitch`, `WriteCron`, and for a stop
`DeleteTable`, `DeleteRule`, `DeleteRoute`, `Restore`, `ForgetServer`, `ForgetNoresolv`,
`ForgetAddsubnet`, `CommitRestore`, `RemoveCron`. `zakopd apply` is its commands one by one:
`Apply` (LoadFile), `Compile` (which reads the configuration again, ends with nft -c and removes
the old table), `LoadTable` (nft -f), `AddRule`, `AddRoute`, and after an error `UndoTable`,
`UndoRule`, `UndoRoute`, which may fail as well. Each can be the last before a kill; `cut` is
history and notes that a kill left a table without its rule or route. (A process that outlives
its killed script keeps the lock: the model has it as a script that was not killed.) Deleting a
table, rule or route that exists is taken to succeed. `flash` is `/etc/config/dhcp`, `uci` what uci shows of
it with the changes staged under /tmp, `saved` the state files, `user` the user's own
settings (history). Between any two steps: the configuration changes, zakopd ends or
starts (reading the configuration itself), the script is killed, or power is lost,
which clears everything but flash and ends in the start at boot. rc.common and procd
are modelled from how the script uses them and from its comments: reload is start,
start_service's instances are submitted whatever it returns, unchanged instances
keep running, an empty set ends them. The legacy state directory is left out (it is
read only after an upgrade), and so are half-written files and the crontab (nothing but cron reads it,
and any script can be called at any time). `torn` notes that a power
loss took changes of `/etc/config/dhcp` while keeping those of the state files. After that flash
may hold two addresses of zakop, or zakop's options with nothing that tells the user's: `StopRestores`
and `OneZakopServer` exempt exactly this loss of power (hazards at init.d 257 and 329), so they show
nothing about it. `OwnServersStay` is what remains true then: the user's own servers. Nor does
`StartTakesOver` claim anything of a start with `manage_dnsmasq` 0: as the code has it, a
reload that finds it switched off leaves dnsmasq with the address of an earlier start, and
only a stop takes it away.

### ConfigFile, ApplyNodesProofs, ConfigFileProofs, MCConfigFile

The commands that rewrite `/etc/config/zakop`: `subscriptions update` and `import-uri`
(`ApplyNodes`), and `providers update` (UpdateMetadata). Cron starts one process per
subscription and per provider, by default in the same minute. `job[j]` is a process:
`StartRefresh`, `StartImport` and `StartProvider` choose what it does, `Read` fetches the list,
reads the file, edits its copy and asks `Accepted` (config.Parse), `Truncate` and `Write` are
os.WriteFile, after which a refresh of all subscriptions goes on with the next one. `Commit` is
a `uci commit` of the user's, between writes; `PowerLoss` ends all processes at any point and
leaves the file empty where one was writing (a file cut off in its middle is not modelled).

A link is a record of what its node is told by (scheme, endpoint, method, credential) and of
what Validate looks at; a tag is a name, which depends on the link, and the number that makes
it unique. `sanitizeTag` is modelled by what it keeps: 48 characters, of which the subscription's
name (with `node_` before a leading digit) and `_` take `Width + 1`, so that `Digits` of the ten hash
digits are left: all ten up to a name of 37 characters, none from 47 on. Nodes of one subscription
whose remaining digits agree share a base, and then a tag may pass from a node that is no longer
listed to another one. `Room` is the number of ports that Validate has for outbounds and pools
(config.go:909-919). `ApplyNodes` is the code's loop as a recursive function
(`Given`): after k links, the tags that are left of each node (`KeptTags`), those in use
and the outbounds made so far; `Give` is one turn of it. What two processes leave that both
truncated before either wrote is the shorter text with the tail of the longer one; `Torn`
stands for the outcome that is no longer UCI. `mixed` is history: who may leave that.
`UpdatesKeepItStartable` exempts that outcome, and an empty file counts as startable because Parse
accepts it: the property is about the check, it does not show that a configuration is never lost.

### Cidr, CidrProofs, ProviderLists, ProviderListsProofs, MCProviderLists

`Cidr` is internal/policy/cidr.go over words of W bits: `ParseIPv4CIDR`, the sorting of
ranges (`Sorted`: each stands where as many precede it), their merging one by one (`Merged`, with
`Merge` in 64 bits as in the code), and `RangeToCIDRs`, which takes the largest aligned block
that fits from where the last one ended (`Prefix`, `Blocks`). All are functions, so that they
can be reasoned about. Duplicates among the ranges are one range: merging makes them so.
`Addresses` and `Covered` are the reference: what a CIDR stands for as a set.

`ProviderLists` has one update per provider (`job[p]`: `Fetch`, `Normalize`, `Truncate`,
`Write`, `Persist`, `UpdateMetadata`, `Restart`), the compilation of a restart (`compile`:
`BeginCompile`, `ReadFile`, `Install`), and for each reader of the caches a pass through one of them
(`pass[r]`: `ReadCache`, `Restore`, `Mirror`, `Compare`, `TruncateBack`, `WriteBack`). As the program
is built, ProviderCacheDir and ProviderPersistentCacheDir are one directory (config.go:19-20), so the
"persistent copy" is the cache itself: an update writes it, reads it again and rewrites it if somebody
else wrote in between, and whoever mirrors or restores it reads the same file twice and may write the
older content back.

rc.common lets one restart run at a time, so one compilation is enough. But every command that loads
the configuration runs loadRuleDomainFiles, which restores and mirrors caches, without any lock:
`check` (main.go:353), `apply` (388), `status` (425), `run` (500), `ready` (539), `subscriptions
update` (577), `debug` (669), `compile` (1343) and the diagnostics; `check`, `compile` and `apply`
also read the lists of networks. They are the `Loader`s: `BeginLoad` starts one pass with any provider of the
rule, at any time.

A file is read in chunks while another process may truncate and write it in place. A reading during
which that happens (`Disturbed`: something is being written, or was since the reader's last step,
`crossed`) may give, besides what the cache holds, anything in `Torn`. The lists are sets of lines;
what a file that was cut off, or written by two at once, may show is `CutOff` and `Over`. `spoilt`
(caches with a content that nobody meant, because of a loss of power, of two writers at once or of a
mirrored torn reading) and `lapsed` (since the last compilation began, an update ended between cache
and restart, or a `Loader` wrote a cache back) are history.

Left out: check and apply of the same restart each read the lists again (one reading is
modelled, the others are `Loader`s); a write that has returned is taken as durable; HTTP and the
text of domains.

## 3. Runs

| run | instance | what it shows |
|---|---|---|
| DnsProxySafety | 3 goroutines, pools of 1 and 2 slots, deadline 1 | slot accounting, limits, isolation, refinement of ForwardPools |
| DnsProxyLiveness | 2 goroutines, pools of 1, deadline 2 | every query ends, saturation ends |
| DnsProxyTcpFailure | 1 goroutine | *violated*: see findings |
| PolicyRouting | 2 names with one real address, 2 targets, a LAN client and a stranger; every ordered pair of five rules, six more rules, client policies, modes and FakeIP ranges with some; any name, none or a DNS message in a connection (3.0 million states) | the three compilations agree; no leak either way |
| PolicyRoutingSniffing | the same | *violated*: see findings |
| OutboundPool | 2 pools over 2 members in opposite order, interval 3, retry cap 2 | priority, retry, convergence, end |
| ZakopService | 2 listen addresses, 2 marks, 4 configurations, 2 users' settings (7.9 million states) | stop restores, a start takes over whatever was left behind, one zakop server, the user's servers stay, table with its routing, probe before switch |
| ZakopServiceRestore | the same | *violated*: see findings |
| ConfigFile | 2 interchangeable processes, a subscription with a short name and one with room for one hash digit, which two links share; 6 links in 4 lists, a pool over 2 imported nodes, 8 ports; 2 commands, 1 commit of the user's (369 thousand states) | no update writes a refused file, tags pass on only between nodes of one base, refusals have a reason, a repeated refresh changes nothing |
| ConfigFileLostUpdate | the same, without commits | *violated*: see findings |
| ProviderLists | 3 bits, 2 lists of networks and 1 of domains; 2 updates and 1 loss of power, or 1 update and 1 load outside the lock, or any list of one or two lines under way (2.8 million states) | normalising is exact, the policy follows the caches, a compilation fails for a cause only |
| ProviderListsMirror | the same, with 1 update | *violated*: see findings |

Why the bounds are enough. Slots: three goroutines fill each pool and have one left to
be refused, in both pools. Rules: a decision depends on the first two entries that match;
the rules cover every action with name, address, both, protocol, port, exclusion and disabled; every
ordered pair of the five that can disagree about a name is tried, the others each with one that they
compete with. Pools: two members give
failover, return and the end of the list; the interval exceeds the retry cap, so the two
are told apart. Rules need two names so that a connection can carry another name than the one that
was resolved. Service: the script compares the new address with the last one and with
the default, so two addresses, one of them the default, give each case; depth is not
bounded, any number of calls follow each other. Bounds in guards: `Call` and
`PowerLoss` in ZakopService, which stop once `torn`; `MaxCommands` and `MaxCommits` in
ConfigFile, `MaxUpdates`, `MaxLosses` and `MaxLoads` in ProviderLists, of which `Spent` says how much
is used up in an initial state.

The configuration file: two commands give every overlap of two of them, and a refresh of all
subscriptions makes several writes; the initial files are all that up to one earlier refresh
of each subscription leaves, so that every list meets every other list. The lists have a node
twice under two labels, one that does not parse, two that Validate refuses, and a label that is
the tag of a pool. Deadlock is not checked there: when the commands are used up and the
processes idle the system stops (of ProviderLists it is: a service can always be started).
Provider lists: two updates may be of one provider or of two; three bits have room for adjacent,
nested and distant blocks, the first and the last address and the whole range, and two lines give
each relation between two ranges, on top of the longer lists that updates download. One load is
enough for a writer that is neither an update nor the compilation; a load has one pass, because what it
does with one provider has no part in what it does with the next. `Torn` has the two things a cut can
do to a network (a shorter prefix, and a text that does not parse), and the empty list for domains; the
proofs take any.
`ProviderLists` assumes no fairness, because its properties say only what may not happen; nor
does ConfigFile.

Findings:

1. `DnsProxyTcpFailure`: a TCP client's deadline starts before the upstream's one of
   the same length, so the SERVFAIL of a forward that timed out is never delivered.
2. `PolicyRoutingSniffing`: "domain matchers are DNS-phase only" (docs/DECISIONS.md:147)
   does not hold of sniffed connections that IP rules sent into sing-box.
3. `ZakopServiceRestore`: a stop deletes a user's own `addsubnet '32'` if dnsmasq has no
   server entries of its own.
4. `ConfigFileLostUpdate`: "Updating a subscription replaces only nodes with matching `option
   subscription`" (docs/OUTBOUNDS.md:221) does not hold of two updates at the same time: both read
   the file, one writes it, and the other, which has not seen that, writes the first one's nodes back
   as they were. The property looks at whole files only, before the second truncation.
5. `ProviderListsMirror`: a compilation that began before an update may write what it read of the
   cache over the update's list, although the update reports success (README.md:427 of the
   repository). In the shortest trace it read the file between the update's truncation and its write:
   the service then compiles an empty list.

## 4. Proofs

`DnsProxyProofs` proves, for any finite set of goroutines, any positive number of
slots and any positive deadline (the ASSUMEs of DnsProxy):
`TypeCorrect`, `SlotsAccounted`, `CapacityRespected`, `PoolsIsolated`, and
`ImplementsPools`. The limits alone are not inductive: that `Reserve` keeps a pool within
its capacity needs the code's counter to equal the number of goroutines that hold a slot.
The invariant is therefore types, `used[p] = Cardinality(Holders(p))`, and
`used[p] <= Capacity[p]`. Lemmas say how `Holders` changes when one goroutine moves
(it gains it, loses it, or stays), from the facts on cardinality in FiniteSetTheorems; each
action then is one of the three. The refinement maps a goroutine's reservation to
`Admit`, a refusal to `Refuse`, the end of a forward to `Release`, the end of a refused
query to `Forget`, a crash to `Reset`, and everything else to stuttering.

`ZakopServiceProofs` proves all seven properties of the ZakopService run for all addresses,
marks, configurations and users' settings (the ASSUMEs of ZakopService: zakop's addresses are
no servers of the user's own): `TypeCorrect`, `StopAlwaysRestores`, `AtMostOneServer`,
`OwnServersAlwaysStay`, `PolicyAlwaysRouted`, `AlwaysEnabledAfterProbe`, `StartAlwaysTakesOver`. `StopRestores` speaks of one step of a stop
only. The inductive invariant `IInv` says what holds between all steps: the user's own
servers are in uci and in flash (`OwnServersKept`, which needs no exemption of torn state files and is
`OwnServersStay`); of zakop's addresses uci has at most the
one that the server's state file names, and flash has at most one (`OneAddress`); an option
the user set is in its state file or, if there is none, still in uci (`OptionsKnown`); and how
far a switch or a restore has come (`SwitchProgress`, `RestoreProgress`). The script keeps it
because it writes the state files before the switch and removes them after uci has been set
back; a value like zakop's own is kept because there is a server beside zakop's
(`KeptIsTheUsers`, `RestoredIsTheUsers`, which need `Recognisable`). The probe property needs
two more: what a script with an unchanged configuration has probed (`ProbeProgress`), and that
uncommitted changes add at most the state file's address (`Additions`), which holds even when
flash is torn. That a start takes over needs what it has done on the way (`StartProgress`): the
table of the probed configuration from `Apply` on, and zakop's values in uci from `Switch` on.
`PolicyAlwaysRouted` has an invariant of its own, `TableProgress`: how far zakopd apply or a stop has come
with table, rule and route of the mark it read, and that nothing else but a kill leaves them apart.
Each step of `Next` is either quiet (it leaves dnsmasq and the state files
alone, `QuietStep`) or has a lemma of its own.

`ConfigFileProofs` proves all six properties of the ConfigFile run for any processes,
subscriptions, links, pools, initial nodes and numbers of commands (the ASSUMEs of ConfigFile):
`TypesOk`, `WritesAreChecked`, `Startable` (UpdatesKeepItStartable), `NodesKeepTheirTags`
(ListedNodeKeepsTags), `TagsStayWithTheirNode` (TagsKeepTheirNode), `RefusalsHaveCauses`
(RefusedForCause) and `RepetitionIsHarmless` (RepeatedRefreshChangesNothing). The file alone is
no invariant: between a truncation and a write it is blank, and another process may change it.
The inductive invariant `JobsOk` is about the processes: what one of them is about to write, from
the content it read, has passed the check (`Checked`), and one that refuses found the update wrong
(`Caused`). Only `Read` brings a process to either point, and nothing the others do to the file
changes what it holds. The other properties are then about what `ApplyNodes` makes of any
acceptable content and any list, which `ApplyNodesProofs` establishes: after k links, a node has
at least as many of its tags as there were links to it (`GivenKeepsTags`); every outbound made has
a tag its node had, or a new one (`GivenOrigin`); no tag is given out twice or is somebody else's
(`GivenDistinct`, from `Tidy`: the tags left over are distinct, are not in use, and no link of another
node has their base). Hence the result is acceptable unless the list itself is not or two nodes share a
base (`RefreshAccepted`), a tag passes only to a node of the same base (`OtherNodeClashes`), and
applying the list to its own result finds each node's tags where it would have put them
(`RefreshTwice`).

`CidrProofs` proves `Normalizes` for every width of addresses and every set of networks:
`NormalizeIPv4CIDRs` returns networks that cover the same addresses, are disjoint, are as a parser
would give them, and are maximal. The sorted ranges exist because the number of those that precede
a range (`Rank`) is a bijection between the ranges and the positions (`SortedIs`). The invariant of
the merging is `Parted`: there is a gap of at least one address between the ranges so far, and they
cover what has been merged (`MergeIs`, `MergedIs`); it is the gap that makes the blocks of
different ranges unable to join. The invariant of the splitting is `Split`: the blocks lie between
the two ends, fill them, are apart from each other, and the next larger block around each would
stick out (`Largest`). No end wraps around: the range of an aligned block stays in the word
(`RangeIs`).

These proofs need induction: `Merged` and `Given` recurse over a list, `Blocks` over addresses. The theorems on induction of the library take an operator as a parameter; here the
claim is a set instead, the numbers for which it holds, and `UpTo` says that a set with 0 and
closed under successors has all numbers up to N, from the well-foundedness of <.

`ProviderListsProofs` proves all four properties of the ProviderLists run for any providers,
readers, lists, torn readings, order in the rule, numbers of updates, loads and losses of power, and
width of addresses (the ASSUMEs of Cidr and ProviderLists: lists are made of lines, and the rule's order
names its own file if there is one): `TypesOk`, `ListsAreNormalized` (NormalizedExactly),
`TableFollowsCaches` (TableIsCurrent), `FailuresHaveCause` (CompileFailsForCause), and
`NothingButCIDRs`. Types alone are not inductive: the compilation's pass is with the provider its order
names next (`AtHead`, part of `Typed`). The invariant of `FailuresHaveCause` and `NothingButCIDRs`,
`CachesSound`, is that an undamaged cache of networks (`CachesOk`), the list an update carries from its
normalisation on (`JobsOk`), and what a reader may write back, unless its reading was torn or of a
damaged cache (`PassesOk`), hold nothing but CIDRs; the readers must be in it because `WriteBack` puts
what they carry into the cache, whatever the update meanwhile wrote. A loss of power, a second writer or
a torn reading that is written back puts a cache into `spoilt`, about which nothing is claimed. A
compilation can therefore fail at a cache only if it is in `spoilt`, or if somebody wrote it meanwhile
(`Disturbed`). `ListsAreNormalized` is `Normalizes` and the types.

That the table follows the caches needs another invariant (`Collected`), because a compilation reads
the caches one after the other while they change. It speaks of the times when no update is between its
cache and its restart, no other command is writing a cache back, and nothing has lapsed (`Quiet`).
Then a compilation under way is where it should be in the rule's order (`InPlace`), has gathered
exactly what the caches before that point hold, has nothing to write back that differs
(`Undisturbed`), and no reading of its own was crossed; an installed table has what all the caches hold.
It is inductive because an update changes its cache only from the step that ends the quiet, and the
restart that ends the update drops the table and begins a compilation that has gathered nothing, of which
the claim is true at once; and because a command outside the lock that writes a cache back leaves
`lapsed`, until the next compilation begins.

`PolicyRoutingProofs` proves the seven invariants of the PolicyRouting runs for every set of
valid configurations, any clients, names, addresses, rules and targets, where the runs have
one name and two targets: `TypeCorrect`, `FakeIPIsIPv4Only`, `PlainDNSAlwaysRedirected`,
`DirectTrafficStaysOut`, `ForcedClientsForced`, `ProxiedNeverLeavesDirectly` and
`FirstRuleDecides`. The state machine is simple, so its invariant is short: an answer of this
run is what `Answer` says (`AnswersOk`), and a connection's outcome is what `Deliver` says of
its packet, which goes to a FakeIP only if its client was given this one (`FlowOk`). The work is
in the compilations. `Chain` spells out the chain from_lan entry by entry; `VerdictIsFirst` says that the verdict comes from the applicable entry with
the least position, because a set of naturals that is not empty has a least element
(`MinIsLeast`, from the well-foundedness of <; `Min` is a CHOOSE). Each property then asks
which entries can come first for its packets. The last theorem needs, besides, that FakeIPs
are injective and that the first rule among those that zakopd matches is the first among
those that sing-box keeps; of a connection with another name it says what sing-box keeps of that name's
rules.

`OutboundPoolProofs` proves `TypeCorrect`, `AlwaysRetriedSoon`, `PriorityAlwaysKept` and
`ReturnedRunIsSilent` for any pools, members in any order, intervals and caps. Strict priority
is an action property about the step that selects; the invariant says what a pass has found out
before it gets there. `window` contains what can be reached now (`WindowCurrent`); the pass is
at its member because each of those before it could not be reached at some moment of the pass,
and goes beyond the probe because this one could (`PassJustified`). A change of the network
only adds to the window, so it keeps what a goroutine found out. `RetryBounded` keeps the
doubled delay within its cap.

Model-checked only: liveness (`Converges`, `CancelledRunReturns`, `QueriesEnd`,
`SaturationEnds`), since TLAPS does not handle fairness and ENABLED. Every other property of a
passing run is proved. The properties of the runs that find a violation are false and stay with
TLC, which shows how.

## 5. Not modelled, and the plan

What is left, in the order it should be taken:

1. `Supervisor`: zakopd run's two parts (main.go:529), the watchdog
   (run-sing-box-log.sh:138) and procd's respawn; restarts under an upstream outage, order
   of ends.
2. `Generations`: compile, apply and reload while old daemons still run: TProxy ports by
   position (proxyroute.go:21), the files under /tmp/zakop that two commands share
   (main.go:1367).
3. Parse and Validate of DNS servers and schedules; the stripping of EDNS options; the parsing of
   what ip shows (`internal/tproxy`); the crontab.
4. The temporary proxy, through which an update is downloaded, and the latency test.

Theorems left, beside those of the modules above: `OthersUntouched` of ConfigFile for one
process, which is what finding 4 says of two; a bound on the length of a normalised list.

Outside TLA+'s use here: the encoding of links and outbounds (text to text), what status, debug
and network diagnostics print (that they restore and mirror caches is in ProviderLists), the dnsmasq snippet (one formatted text, no longer
installed), provider scripts, LuCI's forms (their saves are `ConfChanges` and `Commit`), the
installer and the tests of the OpenWrt files.
