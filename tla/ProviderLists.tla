--------------------------- MODULE ProviderLists ---------------------------
(***************************************************************************)
(* The lists of domains and networks that providers publish: `zakopd       *)
(* providers update' downloads, normalises and caches one, and the restart *)
(* that cron chains to it (`update && restart') compiles the caches that a *)
(* rule names into the policy.  Updates of several providers run at once   *)
(* and overlap with a restart; restarts are serialised by rc.common.  The  *)
(* other commands that load the configuration (status, debug, run, a       *)
(* subscription's update, a check or compile by hand, and those a start    *)
(* runs first) are not: they read, restore and mirror the same caches.     *)
(* internal/provider, internal/policy, config.go (caches).                 *)
(*                                                                         *)
(* In the program as it is built, ProviderCacheDir and                     *)
(* ProviderPersistentCacheDir are the same directory.  One file per        *)
(* provider is left: RestoreDefaultCache finds nothing where the cache is  *)
(* missing, and MirrorDefaultCache, which copies the cache that was read   *)
(* to the persistent one, compares a file with itself, and rewrites it if  *)
(* another process came between its two reads.                             *)
(*                                                                         *)
(* Caches are written in place and read in chunks: a reading during which  *)
(* another process truncates or writes the file may give a mixture of what *)
(* it held, cut off in a line.                                             *)
(***************************************************************************)
EXTENDS Cidr

CONSTANTS
  Provider,
  Type,       \* Type[p]: "domain" or "ip"
  Default,    \* providers with their cache at the default path
  Lists,      \* Lists[p]: what may be downloaded, as sets of lines
  UnderWay,   \* UnderWay[p]: downloads that may be there at first, the last ones then
  OwnCIDRs,   \* the rule's own CIDRs
  FileCIDRs,  \* those of the file the rule names
  RuleOrder,  \* the providers the rule names: first those of domains
  Loader,     \* processes that load the configuration outside rc.common's lock
  Torn,       \* Torn[p]: what a reading that crosses a write may give
  MaxLoads,   \* bound: loadings by those processes
  MaxUpdates, \* bound: downloads
  MaxLosses,  \* bound: losses of power
  Spent       \* bound: how much of these three is spent at first

File == "file"
Service == "service"  \* the compilation of a restart
Reader == Loader \cup {Service}
ASSUME ProvidersAssumption ==
  /\ Type \in [Provider -> {"domain", "ip"}] /\ File \notin Provider /\ Default \subseteq Provider
  /\ \A p \in Provider : Lists[p] \subseteq SUBSET Line
ASSUME ListsAssumption ==
  /\ \A p \in Provider : UnderWay[p] \subseteq SUBSET Line /\ Torn[p] \subseteq SUBSET Line
  /\ OwnCIDRs \subseteq Line /\ FileCIDRs \subseteq Line
  /\ RuleOrder \in Seq(Provider \cup {File}) /\ (FileCIDRs # {} => File \in Range(RuleOrder))
  /\ Service \notin Loader /\ Reader \cap Provider = {}
  /\ MaxLoads \in Nat /\ MaxUpdates \in Nat /\ MaxLosses \in Nat
  /\ Spent \subseteq (0..MaxUpdates) \X (0..MaxLosses) \X (0..MaxLoads)

VARIABLES
  cache,     \* cache[p]: is there a cache, and its lines
  job,       \* job[p]: where the update of p is, and the lines it carries
  ruleFile,  \* is the rule's file there?
  compile,   \* the compilation of a restart: what it still has to read, what it has
  pass,      \* pass[r]: where r is with one provider, and the cache it writes back
  table,     \* the policy that is installed
  failed,    \* did the last compilation fail?
  crossed,   \* readers and updates whose cache was written since their last step
  spoilt,    \* caches with a content nobody meant them to have (history)
  lapsed,    \* since the last compilation began, was an update abandoned between its
             \* cache and its restart, or a cache written back by a Loader? (history)
  updates, losses, loads

vars == <<cache, job, ruleFile, compile, pass, table, failed, crossed, spoilt, lapsed,
          updates, losses, loads>>
policy == <<table, failed>>
bounds == <<updates, losses, loads>>

NoCache == [there |-> FALSE, lines |-> {}]
NoJob == [step |-> "idle", lines |-> {}]
NoCompile == [on |-> FALSE, todo |-> <<>>, cidrs |-> {}, names |-> {}]
NoPass == [step |-> "idle", at |-> File, data |-> {}, restored |-> FALSE, torn |-> FALSE]
NoTable == [up |-> FALSE, cidrs |-> {}, names |-> {}]

\* The types of the variables.
TypeOK ==
  /\ cache \in [Provider -> [there : BOOLEAN, lines : SUBSET Line]]
  /\ job \in [Provider -> [step : {"idle", "downloaded", "truncate", "write", "persist",
                                   "truncate2", "write2", "metadata", "restart"},
                           lines : SUBSET Line]]
  /\ ruleFile \in BOOLEAN
  /\ compile \in [on : BOOLEAN, todo : Seq(Provider \cup {File}),
                  cidrs : SUBSET Line, names : SUBSET Line]
  /\ pass \in [Reader -> [step : {"idle", "read", "restore", "mirror", "compare",
                                  "truncate", "write"},
                          at : Provider \cup {File}, data : SUBSET Line,
                          restored : BOOLEAN, torn : BOOLEAN]]
  /\ table \in [up : BOOLEAN, cidrs : SUBSET Line, names : SUBSET Line]
  /\ failed \in BOOLEAN /\ lapsed \in BOOLEAN
  /\ crossed \subseteq Reader \cup Provider /\ spoilt \subseteq Provider
  /\ updates \in 0..MaxUpdates /\ losses \in 0..MaxLosses /\ loads \in 0..MaxLoads

-----------------------------------------------------------------------------
(* normalizeIPList skips IPv6 and refuses the rest; normalizeDomainList takes *)
(* what it finds.                                                             *)
Readable(p, list) == Type[p] = "ip" => \A l \in list : l.kind \in {"cidr", "v6"}
NormalizeDownloadedList(p, list) ==
  IF Type[p] = "domain" THEN list
  ELSE NormalizeIPv4CIDRs({ParseIPv4CIDR(l) : l \in {m \in list : m.kind = "cidr"}})

(* A file cut off in the middle of a line may show something else there, a host, *)
(* or a network with a shorter prefix.                                           *)
Junk(line) == [line EXCEPT !.kind = "junk"]
Remains(line) ==
  {Junk(line)} \cup
  (IF line.kind # "cidr" THEN {}
   ELSE {Cidr(line.addr, len) : len \in 1..line.len - 1} \cup {Cidr(line.addr, W)})
CutOff(lines) ==
  {{}, lines}
  \cup UNION {{{l \in lines : l.addr < k.addr} \cup {r} : r \in Remains(k)} : k \in lines}

(* os.WriteFile writes from the first byte.  When another writer has filled the *)
(* file since it was truncated, a longer content keeps its tail, which may begin *)
(* in the middle of a line.                                                      *)
Over(lines, old) ==
  {lines} \cup UNION {{lines \cup {l \in old : l.addr > k.addr} \cup {t} : t \in {k, Junk(k)}} :
                        k \in old \ lines}

\* A content that is what its writer read, and that was meant, is sound again.
Overwrite(p, lines, torn) ==
  \E result \in Over(lines, cache[p].lines) :
    /\ cache' = [cache EXCEPT ![p] = [there |-> TRUE, lines |-> result]]
    /\ spoilt' = IF result = lines /\ ~torn THEN spoilt \ {p} ELSE spoilt \cup {p}

Empty(p) == cache' = [cache EXCEPT ![p] = [there |-> TRUE, lines |-> {}]]

(* Those who are about to read the cache of p; who writes it, crosses them. *)
Watchers(p) ==
  {r \in Reader : pass[r].at = p /\ pass[r].step \in {"read", "restore", "mirror", "compare"}}
  \cup {q \in {p} : job[q].step = "persist"}
Crosses(who, p) == crossed' = (crossed \cup Watchers(p)) \ {who}
Goes(who) == crossed' = crossed \ {who}

(* What is being written to the cache of p. *)
BeingWritten(p) ==
  (IF job[p].step \in {"write", "write2"} THEN {job[p].lines} ELSE {})
  \cup {pass[r].data : r \in {q \in Reader : pass[q].step = "write" /\ pass[q].at = p}}

(* What a reading of the cache of p may give. *)
Disturbed(who, p) == who \in crossed \/ BeingWritten(p) # {}
Readings(who, p) == {cache[p].lines} \cup (IF Disturbed(who, p) THEN Torn[p] ELSE {})

Downloaded(list) == [step |-> "downloaded", lines |-> list]
Init ==
  /\ cache = [p \in Provider |-> NoCache]
  /\ \/ /\ job = [p \in Provider |-> NoJob]
        /\ \E spent \in Spent : updates = spent[1] /\ losses = spent[2] /\ loads = spent[3]
     \/ /\ \E p \in Provider : \E list \in UnderWay[p] :
             job = [q \in Provider |-> IF q = p THEN Downloaded(list) ELSE NoJob]
        /\ updates = MaxUpdates /\ losses = MaxLosses /\ loads = MaxLoads
  /\ ruleFile = TRUE
  /\ compile = NoCompile /\ pass = [r \in Reader |-> NoPass]
  /\ table = NoTable
  /\ failed = FALSE /\ crossed = {} /\ spoilt = {} /\ lapsed = FALSE

-----------------------------------------------------------------------------
(* fetchProvider has the list, from the URL or from the script. *)
Fetch(p) ==
  /\ job[p].step = "idle" /\ updates < MaxUpdates
  /\ updates' = updates + 1
  /\ \E list \in Lists[p] : job' = [job EXCEPT ![p] = Downloaded(list)]
  /\ UNCHANGED <<cache, ruleFile, compile, pass, policy, crossed, spoilt, lapsed, losses, loads>>

(* An unreadable list ends the update. *)
Normalize(p) ==
  /\ job[p].step = "downloaded"
  /\ job' = [job EXCEPT ![p] =
       IF Readable(p, job[p].lines)
       THEN [step |-> "truncate", lines |-> NormalizeDownloadedList(p, job[p].lines)]
       ELSE NoJob]
  /\ UNCHANGED <<cache, ruleFile, compile, pass, policy, crossed, spoilt, lapsed, bounds>>

(* WriteCache writes the cache in place; then WritePersistentCache compares the *)
(* same file with the list, and writes it once more if it reads something else. *)
Truncate(p) ==
  /\ job[p].step \in {"truncate", "truncate2"}
  /\ Empty(p) /\ Crosses(p, p)
  /\ job' = [job EXCEPT ![p].step = IF @ = "truncate" THEN "write" ELSE "write2"]
  /\ UNCHANGED <<ruleFile, compile, pass, policy, spoilt, lapsed, bounds>>

Write(p) ==
  /\ job[p].step \in {"write", "write2"}
  /\ Overwrite(p, job[p].lines, FALSE) /\ Crosses(p, p)
  /\ job' = [job EXCEPT ![p].step =
       IF @ = "write" /\ p \in Default THEN "persist" ELSE "metadata"]
  /\ UNCHANGED <<ruleFile, compile, pass, policy, lapsed, bounds>>

Persist(p) ==
  /\ job[p].step = "persist"
  /\ \E lines \in Readings(p, p) :
       job' = [job EXCEPT ![p].step =
         IF lines = job[p].lines THEN "metadata" ELSE "truncate2"]
  /\ Goes(p)
  /\ UNCHANGED <<cache, ruleFile, compile, pass, policy, spoilt, lapsed, bounds>>

(* UpdateMetadata may be refused (ConfigFile); then nothing is restarted. *)
UpdateMetadata(p) ==
  /\ job[p].step = "metadata"
  /\ \/ job' = [job EXCEPT ![p].step = "restart"] /\ UNCHANGED lapsed
     \/ job' = [job EXCEPT ![p] = NoJob] /\ lapsed' = TRUE
  /\ UNCHANGED <<cache, ruleFile, compile, pass, policy, crossed, spoilt, bounds>>

-----------------------------------------------------------------------------
Reading(p) == [step |-> "read", at |-> p, data |-> {}, restored |-> FALSE, torn |-> FALSE]
PassOf(todo) == IF todo = <<>> \/ Head(todo) = File THEN NoPass ELSE Reading(Head(todo))

(* A restart removes the policy and compiles it anew.  The lists of domains are *)
(* read when the configuration is loaded, then the rule's file and the lists of *)
(* networks.                                                                    *)
BeginCompile ==
  /\ ~compile.on
  /\ compile' = [on |-> TRUE, todo |-> RuleOrder,
                 cidrs |-> {ParseIPv4CIDR(l) : l \in OwnCIDRs}, names |-> {}]
  /\ pass' = [pass EXCEPT ![Service] = PassOf(RuleOrder)]
  /\ table' = NoTable
  /\ failed' = FALSE /\ lapsed' = FALSE
  /\ UNCHANGED <<cache, ruleFile, crossed, spoilt, bounds>>

(* A restart waits for the one before it.  SkipIfBusy leaves it at that. *)
SkipIfBusy(p) ==
  /\ job[p].step = "restart"
  /\ job' = [job EXCEPT ![p] = NoJob]
  /\ \/ BeginCompile
     \/ compile.on /\ UNCHANGED <<cache, ruleFile, compile, pass, policy, crossed, spoilt,
                                 lapsed, bounds>>
Restart(p) ==
  /\ job[p].step = "restart"
  /\ job' = [job EXCEPT ![p] = NoJob]
  /\ BeginCompile

(* The service is started, or restarted by the user. *)
Start == BeginCompile /\ UNCHANGED job

ReadFile ==
  /\ compile.on /\ compile.todo # <<>> /\ Head(compile.todo) = File
  /\ IF ruleFile
     THEN /\ compile' = [compile EXCEPT !.todo = Tail(@),
                           !.cidrs = @ \cup {ParseIPv4CIDR(l) : l \in FileCIDRs}]
          /\ pass' = [pass EXCEPT ![Service] = PassOf(Tail(compile.todo))]
          /\ UNCHANGED failed
     ELSE compile' = NoCompile /\ failed' = TRUE /\ UNCHANGED pass
  /\ UNCHANGED <<cache, job, ruleFile, table, crossed, spoilt, lapsed, bounds>>

Install ==
  /\ compile.on /\ compile.todo = <<>>
  /\ table' = [up |-> TRUE, cidrs |-> NormalizeIPv4CIDRs(compile.cidrs),
               names |-> compile.names]
  /\ compile' = NoCompile
  /\ UNCHANGED <<cache, job, ruleFile, pass, failed, crossed, spoilt, lapsed, bounds>>

(* Another command loads the configuration.  What it does with one provider has no *)
(* part in what it does with the next one.                                         *)
BeginLoad(r) ==
  /\ pass[r].step = "idle" /\ loads < MaxLoads
  /\ loads' = loads + 1
  /\ \E p \in Provider \cap Range(RuleOrder) : pass' = [pass EXCEPT ![r] = Reading(p)]
  /\ UNCHANGED <<cache, job, ruleFile, compile, policy, crossed, spoilt, lapsed, updates, losses>>

-----------------------------------------------------------------------------
(* loadRuleDomainFiles and LoadRuleCIDRs, with one provider: by the compilation or *)
(* by another command.                                                             *)
At(r, step, p) == pass[r].step = step /\ pass[r].at = p

Continue(r, next) == pass' = [pass EXCEPT ![r] = next] /\ UNCHANGED compile
Finish(r, gathered) ==
  IF r = Service
  THEN /\ compile' = [gathered EXCEPT !.todo = Tail(@)]
       /\ pass' = [pass EXCEPT ![r] = PassOf(Tail(compile.todo))]
  ELSE pass' = [pass EXCEPT ![r] = NoPass] /\ UNCHANGED compile
Fail(r) ==
  /\ pass' = [pass EXCEPT ![r] = NoPass]
  /\ IF r = Service THEN compile' = NoCompile /\ failed' = TRUE
     ELSE UNCHANGED <<compile, failed>>

Gathered(p, lines) ==
  IF Type[p] = "domain" THEN [compile EXCEPT !.names = @ \cup lines]
  ELSE [compile EXCEPT !.cidrs = @ \cup {ParseIPv4CIDR(l) : l \in lines}]
Unreadable(p, lines) == Type[p] = "ip" /\ \E l \in lines : l.kind # "cidr"

\* MirrorDefaultCache follows, but where LoadRuleCIDRs has just restored the cache.
Mirrored(r, p) == p \in Default /\ ~(Type[p] = "ip" /\ pass[r].restored)
TakeLines(r, p, lines) ==
  IF Mirrored(r, p)
  THEN /\ pass' = [pass EXCEPT ![r] = [Reading(p) EXCEPT !.step = "mirror"]]
       /\ compile' = IF r = Service THEN Gathered(p, lines) ELSE compile
  ELSE Finish(r, Gathered(p, lines))

(* A cache that is missing is restored or skipped.  MissingIsError does neither. *)
MissingIsError(r, p) ==
  /\ At(r, "read", p)
  /\ \E lines \in Readings(r, p) :
       IF ~cache[p].there \/ Unreadable(p, lines) THEN Fail(r)
       ELSE TakeLines(r, p, lines) /\ UNCHANGED failed
  /\ Goes(r)
  /\ UNCHANGED <<cache, job, ruleFile, table, spoilt, lapsed, bounds>>
ReadCache(r, p) ==
  /\ At(r, "read", p)
  /\ IF ~cache[p].there
     THEN /\ IF p \in Default THEN Continue(r, [pass[r] EXCEPT !.step = "restore"])
             ELSE Finish(r, compile)
          /\ UNCHANGED failed
     ELSE \E lines \in Readings(r, p) :
            IF Unreadable(p, lines) THEN Fail(r)
            ELSE TakeLines(r, p, lines) /\ UNCHANGED failed
  /\ Goes(r)
  /\ UNCHANGED <<cache, job, ruleFile, table, spoilt, lapsed, bounds>>

\* Is what was read not what the cache holds, or was not meant to be there?
NotMeant(p, lines) == lines # cache[p].lines \/ p \in spoilt

(* RestoreDefaultCache: the file may be there by now. *)
Restore(r, p) ==
  /\ At(r, "restore", p)
  /\ IF ~cache[p].there THEN Finish(r, compile)
     ELSE \E lines \in Readings(r, p) :
            Continue(r, [step |-> "truncate", at |-> p, data |-> lines, restored |-> TRUE,
                         torn |-> NotMeant(p, lines)])
  /\ Goes(r)
  /\ UNCHANGED <<cache, job, ruleFile, policy, spoilt, lapsed, bounds>>

(* MirrorDefaultCache reads the cache; WritePersistentCache reads it again. *)
Mirror(r, p) ==
  /\ At(r, "mirror", p)
  /\ \E lines \in Readings(r, p) :
       Continue(r, [step |-> "compare", at |-> p, data |-> lines, restored |-> FALSE,
                    torn |-> NotMeant(p, lines)])
  /\ Goes(r)
  /\ UNCHANGED <<cache, job, ruleFile, policy, spoilt, lapsed, bounds>>

Compare(r, p) ==
  /\ At(r, "compare", p)
  /\ \E lines \in Readings(r, p) :
       IF lines = pass[r].data THEN Finish(r, compile)
       ELSE Continue(r, [pass[r] EXCEPT !.step = "truncate"])
  /\ Goes(r)
  /\ UNCHANGED <<cache, job, ruleFile, policy, spoilt, lapsed, bounds>>

TruncateBack(r, p) ==
  /\ At(r, "truncate", p)
  /\ Empty(p) /\ Crosses(r, p)
  /\ Continue(r, [pass[r] EXCEPT !.step = "write"])
  /\ UNCHANGED <<job, ruleFile, policy, spoilt, lapsed, bounds>>

WriteBack(r, p) ==
  /\ At(r, "write", p)
  /\ Overwrite(p, pass[r].data, pass[r].torn) /\ Crosses(r, p)
  /\ IF pass[r].restored THEN Continue(r, [Reading(p) EXCEPT !.restored = TRUE])
     ELSE Finish(r, compile)
  /\ lapsed' = (lapsed \/ r # Service)
  /\ UNCHANGED <<job, ruleFile, policy, bounds>>

-----------------------------------------------------------------------------
(* The user removes the rule's file, or puts it back. *)
RuleFileChanges ==
  /\ ruleFile' = ~ruleFile
  /\ UNCHANGED <<cache, job, compile, pass, policy, crossed, spoilt, lapsed, bounds>>

(* A cache that was being written may be left cut off. *)
PowerLoss ==
  /\ losses < MaxLosses
  /\ losses' = losses + 1
  /\ job' = [p \in Provider |-> NoJob]
  /\ compile' = NoCompile /\ pass' = [r \in Reader |-> NoPass] /\ table' = NoTable
  /\ crossed' = {}
  /\ LET halfWritten == {p \in Provider : BeingWritten(p) # {}}
         left(p) == UNION {CutOff(lines) : lines \in BeingWritten(p)}
     IN  /\ spoilt' = spoilt \cup halfWritten
         /\ \E after \in [halfWritten -> UNION {left(p) : p \in halfWritten}] :
              /\ \A p \in halfWritten : after[p] \in left(p)
              /\ cache' = [p \in Provider |->
                   IF p \in halfWritten THEN [there |-> TRUE, lines |-> after[p]] ELSE cache[p]]
  /\ lapsed' = TRUE
  /\ UNCHANGED <<ruleFile, failed, updates, loads>>

UpdateStep(p) ==
  \/ Fetch(p) \/ Normalize(p) \/ Truncate(p) \/ Write(p) \/ Persist(p)
  \/ UpdateMetadata(p) \/ Restart(p)

PassStep(r, p) ==
  \/ ReadCache(r, p) \/ Restore(r, p) \/ Mirror(r, p) \/ Compare(r, p)
  \/ TruncateBack(r, p) \/ WriteBack(r, p)

Next ==
  \/ \E p \in Provider : UpdateStep(p) \/ \E r \in Reader : PassStep(r, p)
  \/ \E r \in Loader : BeginLoad(r)
  \/ Start \/ ReadFile \/ Install
  \/ RuleFileChanges \/ PowerLoss

Spec == Init /\ [][Next]_vars
-----------------------------------------------------------------------------
(* Normalising neither loses nor adds an address, also at the first and the last   *)
(* one, and gives the canonical form: disjoint blocks, none of which could be part *)
(* of a larger one (the table's set has flags interval).                           *)
NormalizedExactly ==
  \A p \in Provider :
    job[p].step = "downloaded" /\ Type[p] = "ip" /\ Readable(p, job[p].lines) =>
      LET list == {ParseIPv4CIDR(l) : l \in {m \in job[p].lines : m.kind = "cidr"}}
          out == NormalizeDownloadedList(p, job[p].lines)
      IN  /\ Covered(out) = Covered(list)
          /\ \A c, d \in out : c # d => Addresses(c) \cap Addresses(d) = {}
          /\ \A c \in out :
               /\ ParseIPv4CIDR(c) = c
               /\ c.len > 0 => ~(Addresses(ParseIPv4CIDR([c EXCEPT !.len = @ - 1]))
                                   \subseteq Covered(list))

(* Once the updates are through, the policy is what the caches say, in whatever      *)
(* order their steps and their restarts ran: a restart may well read a cache that is *)
(* just being written, or write one back, but then the restart of that update is     *)
(* still to come.  Only an update abandoned after its cache was written, and another *)
(* command that writes a cache back, leave the policy behind, until the next start.  *)
ListsOf(type) ==
  UNION {cache[p].lines : p \in {q \in Provider : Type[q] = type /\ q \in Range(RuleOrder)}}
Settled ==
  /\ table.up /\ ~lapsed
  /\ \A p \in Provider : job[p].step \in {"idle", "downloaded", "truncate"}
  /\ \A r \in Reader : pass[r].step # "write"
TableIsCurrent ==
  Settled => /\ Covered(table.cidrs) = Covered({ParseIPv4CIDR(l) : l \in
                                         OwnCIDRs \cup FileCIDRs \cup ListsOf("ip")})
             /\ table.names = ListsOf("domain")

(* docs/ARCHITECTURE.md:360: a missing cache does not keep the service from      *)
(* starting.  Nor does a bad download: a compilation fails only at the rule's    *)
(* own file, at a cache that was written while it read it, or at one that a loss *)
(* of power, two writers at once, or the mirror of such a reading damaged and no *)
(* update has repaired since.                                                    *)
CompileFailsForCause ==
  [][failed' /\ ~failed =>
       LET at == Head(compile.todo)
       IN  IF at = File THEN ~ruleFile ELSE at \in spoilt \/ Disturbed(Service, at)]_vars

(* README.md:427: a provider is compiled as empty `until zakopd providers update  *)
(* <name> succeeds'.  When the restart that follows a successful update begins,   *)
(* the cache holds the list of that update.  A mirror or a restoration that read  *)
(* the cache before may write its older content back.                             *)
UpdateLasts ==
  [][\A p \in Provider \ spoilt :
       job[p].step = "restart" /\ job'[p].step # "restart" /\ losses' = losses =>
         cache[p].lines = job[p].lines]_vars
=============================================================================
