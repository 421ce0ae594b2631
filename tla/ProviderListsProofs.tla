------------------------ MODULE ProviderListsProofs ------------------------
(***************************************************************************)
(* Proofs about ProviderLists: what the caches hold and why a compilation  *)
(* fails, what a compilation of whichever caches ends with once nobody is  *)
(* between the writing of a cache and a restart, and the form of a list    *)
(* that was normalised; for all providers, lists, widths of addresses,     *)
(* orders of the rule's lists, contents of a reading that crosses a write, *)
(* numbers of commands that load the configuration at the same time, of    *)
(* updates and of losses of power.                                         *)
(***************************************************************************)
EXTENDS ProviderLists, CidrProofs

LEMMA NetLines == Net \subseteq Line
  BY DEF Net

(* The types; what a compilation gathers is parsed. *)
JobStep == {"idle", "downloaded", "truncate", "write", "persist",
            "truncate2", "write2", "metadata", "restart"}
PassStepName == {"idle", "read", "restore", "mirror", "compare", "truncate", "write"}
CacheType == [there : BOOLEAN, lines : SUBSET Line]
JobType == [step : JobStep, lines : SUBSET Line]
CompileType == [on : BOOLEAN, todo : Seq(Provider \cup {File}),
                cidrs : SUBSET Net, names : SUBSET Line]
PassType == [step : PassStepName, at : Provider \cup {File}, data : SUBSET Line,
             restored : BOOLEAN, torn : BOOLEAN]
TableType == [up : BOOLEAN, cidrs : SUBSET Line, names : SUBSET Line]

(* The compilation is with the provider that its order names next. *)
AtHead(c, s) ==
  s.step # "idle" => c.on /\ c.todo # <<>> /\ s.at = Head(c.todo) /\ s.at \in Provider

Typed ==
  /\ cache \in [Provider -> CacheType] /\ job \in [Provider -> JobType]
  /\ ruleFile \in BOOLEAN /\ compile \in CompileType /\ table \in TableType
  /\ pass \in [Reader -> PassType]
  /\ failed \in BOOLEAN /\ lapsed \in BOOLEAN
  /\ crossed \subseteq Reader \cup Provider /\ spoilt \subseteq Provider
  /\ updates \in 0..MaxUpdates /\ losses \in 0..MaxLosses /\ loads \in 0..MaxLoads
  /\ AtHead(compile, pass[Service])

LEMMA TypesAre == Typed => TypeOK
  BY NetLines DEF Typed, TypeOK, CacheType, JobType, JobStep, CompileType, PassType,
                  PassStepName, TableType

(* Lines that are parsed, and lists that are normalised, are lines. *)
LEMMA ParsedLines ==
  ASSUME NEW lines \in SUBSET Line
  PROVE  /\ {ParseIPv4CIDR(l) : l \in lines} \in SUBSET Net
         /\ {ParseIPv4CIDR(l) : l \in lines} \in SUBSET Line
<1>1. \A l \in lines : ParseIPv4CIDR(l) \in Net
  BY ParsedIs
<1> QED BY <1>1, NetLines

LEMMA NormalizedLines ==
  ASSUME NEW p, NEW list \in SUBSET Line
  PROVE  NormalizeDownloadedList(p, list) \in SUBSET Line
<1> DEFINE nets == {ParseIPv4CIDR(l) : l \in {m \in list : m.kind = "cidr"}}
<1>1. nets \in SUBSET Net
  <2>1. {m \in list : m.kind = "cidr"} \in SUBSET Line
    OBVIOUS
  <2> QED BY <2>1, ParsedLines
<1>2. NormalizeDownloadedList(p, list) = IF Type[p] = "domain" THEN list
                                         ELSE NormalizeIPv4CIDRs(nets)
  BY DEF NormalizeDownloadedList
<1> HIDE DEF nets
<1>3. NormalizeIPv4CIDRs(nets) \in SUBSET Line
  BY <1>1, Normalizes, NetLines
<1> QED BY <1>2, <1>3

LEMMA JunkLine == ASSUME NEW l \in Line PROVE Junk(l) \in Line
<1>1. l = [kind |-> l.kind, addr |-> l.addr, len |-> l.len]
      /\ l.addr \in Address /\ l.len \in 0..W
  BY DEF Line
<1>2. Junk(l) = [kind |-> "junk", addr |-> l.addr, len |-> l.len]
  BY <1>1 DEF Junk
<1> QED BY <1>1, <1>2 DEF Line

LEMMA OverLines ==
  ASSUME NEW lines \in SUBSET Line, NEW old \in SUBSET Line, NEW result \in Over(lines, old)
  PROVE  result \in SUBSET Line
<1>1. CASE result = lines
  BY <1>1
<1>2. CASE result # lines
  <2>1. PICK k \in old \ lines : \E t \in {k, Junk(k)} :
          result = lines \cup {l \in old : l.addr > k.addr} \cup {t}
    BY <1>2 DEF Over
  <2>2. k \in Line /\ Junk(k) \in Line
    BY JunkLine
  <2> QED BY <2>1, <2>2
<1> QED BY <1>1, <1>2

LEMMA CutOffLines ==
  ASSUME NEW lines \in SUBSET Line, NEW rest \in CutOff(lines)
  PROVE  rest \in SUBSET Line
<1>1. CASE rest = {} \/ rest = lines
  BY <1>1
<1>2. CASE rest # {} /\ rest # lines
  <2>1. PICK k \in lines : \E r \in Remains(k) : rest = {l \in lines : l.addr < k.addr} \cup {r}
    BY <1>2 DEF CutOff
  <2>2. ASSUME NEW r \in Remains(k) PROVE r \in Line
    <3>1. k.addr \in Address /\ k.len \in 0..W /\ Junk(k) \in Line /\ W \in Nat
      BY JunkLine, WAssumption DEF Line
    <3>2. ASSUME NEW len \in 0..W PROVE Cidr(k.addr, len) \in Line
      BY <3>1 DEF Cidr, Line
    <3>3. \/ r = Junk(k) \/ r = Cidr(k.addr, W)
          \/ \E len \in 1..k.len - 1 : r = Cidr(k.addr, len)
      BY DEF Remains
    <3>4. W \in 0..W /\ \A len \in 1..k.len - 1 : len \in 0..W
      BY <3>1
    <3> QED BY <3>1, <3>2, <3>3, <3>4
  <2> QED BY <2>1, <2>2
<1> QED BY <1>1, <1>2

(* One cache or one update changes. *)
LEMMA CacheTyped ==
  ASSUME Typed, NEW p \in Provider, NEW lines \in SUBSET Line,
         cache' = [cache EXCEPT ![p] = [there |-> TRUE, lines |-> lines]]
  PROVE  cache' \in [Provider -> CacheType]
<1>1. cache \in [Provider -> CacheType]
  BY DEF Typed
<1>2. [there |-> TRUE, lines |-> lines] \in CacheType
  BY DEF CacheType
<1> QED BY <1>1, <1>2

LEMMA JobTyped ==
  ASSUME Typed, NEW p \in Provider, NEW step \in JobStep, NEW lines \in SUBSET Line,
         \/ job' = [job EXCEPT ![p] = [step |-> step, lines |-> lines]]
         \/ job' = [job EXCEPT ![p].step = step]
  PROVE  job' \in [Provider -> JobType]
<1>1. job \in [Provider -> JobType]
  BY DEF Typed
<1>2. [step |-> step, lines |-> lines] \in JobType /\ [job[p] EXCEPT !.step = step] \in JobType
  BY <1>1 DEF JobType
<1> QED BY <1>1, <1>2

LEMMA NoJobTyped ==
  ASSUME Typed, NEW p \in Provider, job' = [job EXCEPT ![p] = NoJob]
  PROVE  job' \in [Provider -> JobType]
<1>1. "idle" \in JobStep /\ {} \in SUBSET Line
  BY DEF JobStep
<1> QED BY <1>1, JobTyped DEF NoJob

LEMMA OverwriteTyped ==
  ASSUME Typed, NEW p \in Provider, NEW lines \in SUBSET Line, NEW torn, Overwrite(p, lines, torn)
  PROVE  cache' \in [Provider -> CacheType] /\ spoilt' \subseteq Provider
<1>1. PICK result \in Over(lines, cache[p].lines) :
        /\ cache' = [cache EXCEPT ![p] = [there |-> TRUE, lines |-> result]]
        /\ spoilt' = IF result = lines /\ ~torn THEN spoilt \ {p} ELSE spoilt \cup {p}
  BY DEF Overwrite
<1>2. cache[p].lines \in SUBSET Line /\ spoilt \subseteq Provider
  BY DEF Typed, CacheType
<1>3. result \in SUBSET Line
  BY <1>2, OverLines
<1>4. spoilt' \subseteq Provider
  BY <1>1, <1>2
<1> QED BY <1>1, <1>3, <1>4, CacheTyped

(* What a reading gives, and whom a writer crosses. *)
LEMMA ReadingsAre ==
  ASSUME Typed, NEW p \in Provider, NEW who, NEW lines \in Readings(who, p)
  PROVE  lines \in SUBSET Line /\ (lines = cache[p].lines \/ Disturbed(who, p))
<1>1. cache[p].lines \in SUBSET Line
  BY DEF Typed, CacheType
<1> QED BY <1>1, ListsAssumption DEF Readings

LEMMA CrossedTyped ==
  ASSUME Typed, NEW p \in Provider, NEW who, Crosses(who, p) \/ Goes(who)
  PROVE  crossed' \subseteq Reader \cup Provider
<1>1. Watchers(p) \subseteq Reader \cup Provider
  BY DEF Watchers
<1> QED BY <1>1 DEF Crosses, Goes, Typed

(* What a pass, and a compilation, may become. *)
LEMMA StillPass ==
  /\ NoPass \in PassType
  /\ \A p \in Provider : /\ Reading(p) \in PassType /\ Reading(p).step = "read"
                         /\ Reading(p).at = p
  /\ \A c \in PassType, step \in PassStepName :
       /\ [c EXCEPT !.step = step] \in PassType /\ [c EXCEPT !.step = step].at = c.at
       /\ [c EXCEPT !.step = step].step = step
<1>1. NoPass \in PassType
  BY DEF NoPass, PassType, PassStepName
<1>2. ASSUME NEW p \in Provider
      PROVE  Reading(p) \in PassType /\ Reading(p).step = "read" /\ Reading(p).at = p
  BY DEF Reading, PassType, PassStepName
<1>3. ASSUME NEW c \in PassType, NEW step \in PassStepName
      PROVE  /\ [c EXCEPT !.step = step] \in PassType /\ [c EXCEPT !.step = step].at = c.at
             /\ [c EXCEPT !.step = step].step = step
  BY DEF PassType
<1> QED BY <1>1, <1>2, <1>3

(* The compilation goes on to the next list. *)
Advanced(c) == [c EXCEPT !.todo = Tail(@)]

LEMMA StillCompile ==
  ASSUME NEW c \in CompileType
  PROVE  /\ NoCompile \in CompileType
         /\ c.todo # <<>> => /\ Advanced(c) \in CompileType /\ Advanced(c).todo = Tail(c.todo)
                             /\ Advanced(c).on = c.on /\ Advanced(c).cidrs = c.cidrs
                             /\ Advanced(c).names = c.names
         /\ \A nets \in SUBSET Net : [c EXCEPT !.cidrs = @ \cup nets] \in CompileType
         /\ \A lines \in SUBSET Line : [c EXCEPT !.names = @ \cup lines] \in CompileType
<1>1. /\ c = [on |-> c.on, todo |-> c.todo, cidrs |-> c.cidrs, names |-> c.names]
      /\ c.on \in BOOLEAN /\ c.todo \in Seq(Provider \cup {File})
      /\ c.cidrs \in SUBSET Net /\ c.names \in SUBSET Line
  BY DEF CompileType
<1>2. ASSUME c.todo # <<>>
      PROVE  /\ Advanced(c) \in CompileType /\ Advanced(c).todo = Tail(c.todo)
             /\ Advanced(c).on = c.on /\ Advanced(c).cidrs = c.cidrs
             /\ Advanced(c).names = c.names
  <2>1. Tail(c.todo) \in Seq(Provider \cup {File})
    BY <1>1, <1>2
  <2> DEFINE rest == Tail(c.todo)
  <2>2. Advanced(c) = [c EXCEPT !.todo = rest]
    BY DEF Advanced
  <2> HIDE DEF rest
  <2>3. /\ Advanced(c).todo = rest /\ Advanced(c).on = c.on
        /\ Advanced(c).cidrs = c.cidrs /\ Advanced(c).names = c.names
    BY <2>2 DEF CompileType
  <2>4. Advanced(c) \in CompileType
    BY <1>1, <2>1, <2>2 DEF CompileType, rest
  <2> QED BY <2>3, <2>4 DEF rest
<1>3. NoCompile \in CompileType
  BY DEF NoCompile, CompileType
<1>4. ASSUME NEW nets \in SUBSET Net PROVE [c EXCEPT !.cidrs = @ \cup nets] \in CompileType
  <2>1. c.cidrs \cup nets \in SUBSET Net
    BY <1>1
  <2> QED BY <2>1 DEF CompileType
<1>5. ASSUME NEW lines \in SUBSET Line PROVE [c EXCEPT !.names = @ \cup lines] \in CompileType
  <2>1. c.names \cup lines \in SUBSET Line
    BY <1>1
  <2> QED BY <2>1 DEF CompileType
<1> QED BY <1>2, <1>3, <1>4, <1>5

(* What a reading adds leaves the order as it is. *)
LEMMA GatheredTyped ==
  ASSUME Typed, NEW p, NEW lines \in SUBSET Line
  PROVE  /\ Gathered(p, lines) \in CompileType /\ Gathered(p, lines).todo = compile.todo
         /\ Gathered(p, lines).on = compile.on
<1>0. compile \in CompileType
  BY DEF Typed
<1>1. Gathered(p, lines) \in CompileType
  BY <1>0, StillCompile, ParsedLines DEF Gathered
<1>2. Gathered(p, lines).todo = compile.todo /\ Gathered(p, lines).on = compile.on
  BY <1>0 DEF Gathered, CompileType
<1> QED BY <1>1, <1>2

LEMMA PassOfTyped ==
  ASSUME NEW todo \in Seq(Provider \cup {File}), NEW c, c.on, c.todo = todo
  PROVE  PassOf(todo) \in PassType /\ AtHead(c, PassOf(todo))
<1>1. CASE todo = <<>> \/ Head(todo) = File
  BY <1>1, StillPass DEF PassOf, NoPass, AtHead
<1>2. CASE todo # <<>> /\ Head(todo) # File
  <2>1. Head(todo) \in Provider
    BY <1>2
  <2>2. PassOf(todo) = Reading(Head(todo))
    BY <1>2 DEF PassOf
  <2> QED BY <1>2, <2>1, <2>2, StillPass DEF AtHead
<1> QED BY <1>1, <1>2

(* One reader's pass changes, and the compilation with it if it is its own. *)
PassesTyped ==
  /\ compile \in CompileType /\ pass \in [Reader -> PassType]
  /\ AtHead(compile, pass[Service])

LEMMA ReaderIs == Service \in Reader /\ (\A r \in Loader : r \in Reader /\ r # Service)
  BY ListsAssumption DEF Reader

LEMMA ContinueTyped ==
  ASSUME Typed, NEW r \in Reader, NEW next \in PassType,
         next.step = "idle" \/ next.at = pass[r].at, pass[r].step # "idle",
         Continue(r, next)
  PROVE  PassesTyped'
<1>1. /\ compile' = compile /\ pass' = [pass EXCEPT ![r] = next]
      /\ compile \in CompileType /\ pass \in [Reader -> PassType]
      /\ AtHead(compile, pass[Service])
  BY DEF Typed, Continue
<1>2. pass' \in [Reader -> PassType] /\ pass'[Service] = IF r = Service THEN next ELSE pass[Service]
  BY <1>1, ReaderIs
<1>3. AtHead(compile', pass'[Service])
  BY <1>1, <1>2 DEF AtHead
<1> QED BY <1>1, <1>2, <1>3 DEF PassesTyped

LEMMA FinishTyped ==
  ASSUME Typed, NEW r \in Reader, pass[r].step # "idle",
         NEW g \in CompileType, g.todo = compile.todo, g.on = compile.on, Finish(r, g)
  PROVE  PassesTyped'
<1>1. /\ compile \in CompileType /\ pass \in [Reader -> PassType]
      /\ AtHead(compile, pass[Service])
  BY DEF Typed
<1>2. CASE r = Service
  <2>1. compile.on /\ compile.todo # <<>>
    BY <1>1, <1>2 DEF AtHead
  <2>2. /\ compile' = Advanced(g)
        /\ pass' = [pass EXCEPT ![Service] = PassOf(Tail(compile.todo))]
    BY <1>2 DEF Finish, Advanced
  <2>3. compile' \in CompileType /\ compile'.on /\ compile'.todo = Tail(compile.todo)
    BY <2>1, <2>2, StillCompile
  <2>4. Tail(compile.todo) \in Seq(Provider \cup {File})
    BY <2>3 DEF CompileType
  <2>5. /\ PassOf(Tail(compile.todo)) \in PassType
        /\ AtHead(compile', PassOf(Tail(compile.todo)))
    BY <2>3, <2>4, PassOfTyped
  <2> QED BY <1>1, <2>2, <2>3, <2>5, ReaderIs DEF PassesTyped
<1>3. CASE r # Service
  BY <1>1, <1>3, StillPass, ReaderIs DEF Finish, PassesTyped
<1> QED BY <1>2, <1>3

LEMMA FailTyped ==
  ASSUME Typed, NEW r \in Reader, Fail(r)
  PROVE  PassesTyped' /\ failed' \in BOOLEAN
<1>1. /\ compile \in CompileType /\ pass \in [Reader -> PassType] /\ failed \in BOOLEAN
      /\ AtHead(compile, pass[Service])
  BY DEF Typed
<1>2. pass' \in [Reader -> PassType]
  BY <1>1, StillPass DEF Fail
<1>3. CASE r = Service
  <2>1. pass'[Service] = NoPass /\ compile' = NoCompile /\ failed' = TRUE
    BY <1>1, <1>3, ReaderIs DEF Fail
  <2>2. compile' \in CompileType /\ pass'[Service].step = "idle"
    BY <1>1, <2>1, StillCompile DEF NoPass
  <2>3. AtHead(compile', pass'[Service])
    BY <2>2 DEF AtHead
  <2> QED BY <1>2, <2>1, <2>2, <2>3 DEF PassesTyped
<1>4. CASE r # Service
  <2>1. pass'[Service] = pass[Service] /\ compile' = compile /\ failed' = failed
    BY <1>1, <1>4, ReaderIs DEF Fail
  <2> QED BY <1>1, <1>2, <2>1 DEF PassesTyped
<1> QED BY <1>3, <1>4

LEMMA TakeLinesTyped ==
  ASSUME Typed, NEW r \in Reader, NEW p \in Provider, At(r, "read", p),
         NEW lines \in SUBSET Line, TakeLines(r, p, lines)
  PROVE  PassesTyped'
<1> DEFINE g == Gathered(p, lines)
<1>1. g \in CompileType /\ g.todo = compile.todo /\ g.on = compile.on
  BY GatheredTyped
<1>2. /\ compile \in CompileType /\ pass \in [Reader -> PassType]
      /\ AtHead(compile, pass[Service]) /\ pass[r].step = "read" /\ pass[r].at = p
  BY DEF Typed, At
<1> HIDE DEF g
<1>3. CASE Mirrored(r, p)
  <2> DEFINE next == [Reading(p) EXCEPT !.step = "mirror"]
  <2>1. next \in PassType /\ next.at = p
    <3>1. Reading(p) \in PassType /\ Reading(p).at = p /\ "mirror" \in PassStepName
      BY StillPass DEF PassStepName
    <3> QED BY <3>1, StillPass
  <2>2. /\ pass' = [pass EXCEPT ![r] = next]
        /\ compile' = IF r = Service THEN g ELSE compile
    BY <1>3 DEF TakeLines, g
  <2> HIDE DEF next
  <2>3. pass' \in [Reader -> PassType] /\ pass'[Service] = IF r = Service THEN next ELSE pass[Service]
    BY <1>2, <2>1, <2>2, ReaderIs
  <2>4. compile' \in CompileType /\ compile'.todo = compile.todo /\ compile'.on = compile.on
    BY <1>1, <1>2, <2>2
  <2>5. AtHead(compile', pass'[Service])
    <3>1. CASE r = Service
      BY <1>2, <2>1, <2>3, <2>4, <3>1 DEF AtHead
    <3>2. CASE r # Service
      BY <1>2, <2>3, <2>4, <3>2 DEF AtHead
    <3> QED BY <3>1, <3>2
  <2> QED BY <2>3, <2>4, <2>5 DEF PassesTyped
<1>4. CASE ~Mirrored(r, p)
  <2>1. Finish(r, g)
    BY <1>4 DEF TakeLines, g
  <2> QED BY <1>1, <1>2, <2>1, FinishTyped
<1> QED BY <1>3, <1>4

LEMMA BeginTyped ==
  ASSUME Typed, BeginCompile, job' \in [Provider -> JobType]
  PROVE  Typed'
<1>1. compile' = [on |-> TRUE, todo |-> RuleOrder,
                  cidrs |-> {ParseIPv4CIDR(l) : l \in OwnCIDRs}, names |-> {}]
  BY DEF BeginCompile
<1>2. compile' \in CompileType /\ compile'.on /\ compile'.todo = RuleOrder
  BY <1>1, ListsAssumption, ParsedLines DEF CompileType
<1>3. PassOf(RuleOrder) \in PassType /\ AtHead(compile', PassOf(RuleOrder))
  BY <1>2, ListsAssumption, PassOfTyped
<1>4. pass' \in [Reader -> PassType] /\ pass'[Service] = PassOf(RuleOrder)
  BY <1>3, ReaderIs DEF BeginCompile, Typed
<1>5. table' \in TableType
  BY DEF BeginCompile, NoTable, TableType
<1> QED BY <1>2, <1>3, <1>4, <1>5 DEF Typed, BeginCompile, bounds

(* The steps of an update. *)
LEMMA UpdateTyped ==
  ASSUME Typed, NEW p \in Provider, UpdateStep(p)
  PROVE  Typed'
<1>0. job[p].lines \in SUBSET Line /\ updates \in 0..MaxUpdates
  BY DEF Typed, JobType
<1>1. CASE Fetch(p)
  <2>1. PICK list \in Lists[p] : job' = [job EXCEPT ![p] = Downloaded(list)]
    BY <1>1 DEF Fetch
  <2>2. list \in SUBSET Line /\ "downloaded" \in JobStep
    BY ProvidersAssumption DEF JobStep
  <2>3. job' \in [Provider -> JobType]
    BY <2>1, <2>2, JobTyped DEF Downloaded
  <2>4. updates' \in 0..MaxUpdates
    BY <1>0, <1>1, ListsAssumption DEF Fetch
  <2> QED BY <1>1, <2>3, <2>4 DEF Fetch, Typed, policy
<1>2. CASE Normalize(p)
  <2>1. job' \in [Provider -> JobType]
    <3>1. CASE Readable(p, job[p].lines)
      <4> DEFINE lines == NormalizeDownloadedList(p, job[p].lines)
      <4>1. job' = [job EXCEPT ![p] = [step |-> "truncate", lines |-> lines]]
        BY <1>2, <3>1 DEF Normalize
      <4>2. lines \in SUBSET Line /\ "truncate" \in JobStep
        BY <1>0, NormalizedLines DEF JobStep
      <4> HIDE DEF lines
      <4> QED BY <4>1, <4>2, JobTyped
    <3>2. CASE ~Readable(p, job[p].lines)
      BY <1>2, <3>2, NoJobTyped DEF Normalize
    <3> QED BY <3>1, <3>2
  <2> QED BY <1>2, <2>1 DEF Normalize, Typed, policy, bounds
<1>3. CASE Truncate(p)
  <2>1. job' \in [Provider -> JobType]
    <3> DEFINE step == IF job[p].step = "truncate" THEN "write" ELSE "write2"
    <3>1. job' = [job EXCEPT ![p].step = step] /\ step \in JobStep
      BY <1>3 DEF Truncate, JobStep
    <3> HIDE DEF step
    <3> QED BY <1>0, <3>1, JobTyped
  <2>2. cache' \in [Provider -> CacheType]
    <3>1. {} \in SUBSET Line
      OBVIOUS
    <3> QED BY <1>3, <3>1, CacheTyped DEF Truncate, Empty
  <2>3. crossed' \subseteq Reader \cup Provider
    BY <1>3, CrossedTyped DEF Truncate
  <2> QED BY <1>3, <2>1, <2>2, <2>3 DEF Truncate, Typed, policy, bounds
<1>4. CASE Write(p)
  <2>1. job' \in [Provider -> JobType]
    <3> DEFINE step == IF job[p].step = "write" /\ p \in Default THEN "persist" ELSE "metadata"
    <3>1. job' = [job EXCEPT ![p].step = step] /\ step \in JobStep
      BY <1>4 DEF Write, JobStep
    <3> HIDE DEF step
    <3> QED BY <1>0, <3>1, JobTyped
  <2>2. cache' \in [Provider -> CacheType] /\ spoilt' \subseteq Provider
    BY <1>0, <1>4, OverwriteTyped DEF Write
  <2>3. crossed' \subseteq Reader \cup Provider
    BY <1>4, CrossedTyped DEF Write
  <2> QED BY <1>4, <2>1, <2>2, <2>3 DEF Write, Typed, policy, bounds
<1>5. CASE Persist(p)
  <2>1. job' \in [Provider -> JobType]
    <3>1. PICK step \in {"metadata", "truncate2"} : job' = [job EXCEPT ![p].step = step]
      <4>1. PICK lines \in Readings(p, p) : job' = [job EXCEPT ![p].step =
                IF lines = job[p].lines THEN "metadata" ELSE "truncate2"]
        BY <1>5 DEF Persist
      <4>2. CASE lines = job[p].lines
        BY <4>1, <4>2
      <4>3. CASE lines # job[p].lines
        BY <4>1, <4>3
      <4> QED BY <4>2, <4>3
    <3>2. step \in JobStep
      BY DEF JobStep
    <3> QED BY <1>0, <3>1, <3>2, JobTyped
  <2>2. crossed' \subseteq Reader \cup Provider
    BY <1>5, CrossedTyped DEF Persist
  <2> QED BY <1>5, <2>1, <2>2 DEF Persist, Typed, policy, bounds
<1>6. CASE UpdateMetadata(p)
  <2>1. CASE job' = [job EXCEPT ![p].step = "restart"] /\ UNCHANGED lapsed
    <3>1. "restart" \in JobStep
      BY DEF JobStep
    <3>2. job' \in [Provider -> JobType]
      BY <1>0, <2>1, <3>1, JobTyped
    <3> QED BY <1>6, <2>1, <3>2 DEF UpdateMetadata, Typed, policy, bounds
  <2>2. CASE job' = [job EXCEPT ![p] = NoJob] /\ lapsed' = TRUE
    <3>1. job' \in [Provider -> JobType]
      BY <2>2, NoJobTyped
    <3> QED BY <1>6, <2>2, <3>1 DEF UpdateMetadata, Typed, policy, bounds
  <2> QED BY <1>6, <2>1, <2>2 DEF UpdateMetadata
<1>7. CASE Restart(p)
  <2>1. job' \in [Provider -> JobType]
    BY <1>7, NoJobTyped DEF Restart
  <2> QED BY <1>7, <2>1, BeginTyped DEF Restart
<1> QED BY <1>1, <1>2, <1>3, <1>4, <1>5, <1>6, <1>7 DEF UpdateStep

(* The steps of a pass. *)
LEMMA PassStepTyped ==
  ASSUME Typed, NEW r \in Reader, NEW p \in Provider, PassStep(r, p)
  PROVE  Typed'
<1>0. /\ compile \in CompileType /\ pass[r] \in PassType /\ failed \in BOOLEAN
      /\ pass[r].data \in SUBSET Line /\ {} \in SUBSET Line
  BY DEF Typed, PassType
<1>a. ASSUME NEW step, At(r, step, p), step # "idle"
      PROVE  pass[r].at = p /\ pass[r].step # "idle"
  BY <1>a DEF At
<1>b. ASSUME NEW next, NEW step \in PassStepName, NEW data \in SUBSET Line,
             NEW restored \in BOOLEAN, NEW torn \in BOOLEAN,
             next = [step |-> step, at |-> p, data |-> data, restored |-> restored, torn |-> torn]
      PROVE  next \in PassType /\ next.at = p
  BY <1>b DEF PassType
<1>c. ASSUME NEW step \in PassStepName, pass[r].step # "idle",
             Continue(r, [pass[r] EXCEPT !.step = step])
      PROVE  PassesTyped'
  BY <1>0, <1>c, StillPass, ContinueTyped
<1>d. ASSUME pass[r].step # "idle", Finish(r, compile) PROVE PassesTyped'
  BY <1>0, <1>d, FinishTyped
<1>1. CASE ReadCache(r, p)
  <2>0. At(r, "read", p) /\ pass[r].step # "idle"
    BY <1>1, <1>a DEF ReadCache
  <2>1. CASE ~cache[p].there /\ p \in Default
    <3>1. Continue(r, [pass[r] EXCEPT !.step = "restore"]) /\ UNCHANGED failed
      BY <1>1, <2>1 DEF ReadCache
    <3> QED BY <1>0, <1>1, <1>c, <2>0, <3>1, CrossedTyped
            DEF ReadCache, Typed, PassesTyped, PassStepName, bounds
  <2>2. CASE ~cache[p].there /\ p \notin Default
    <3>1. Finish(r, compile) /\ UNCHANGED failed
      BY <1>1, <2>2 DEF ReadCache
    <3> QED BY <1>0, <1>1, <1>d, <2>0, <3>1, CrossedTyped DEF ReadCache, Typed, PassesTyped, bounds
  <2>3. CASE cache[p].there
    <3>1. PICK lines \in Readings(r, p) :
            IF Unreadable(p, lines) THEN Fail(r) ELSE TakeLines(r, p, lines) /\ UNCHANGED failed
      BY <1>1, <2>3 DEF ReadCache
    <3>2. lines \in SUBSET Line
      BY ReadingsAre
    <3>3. PassesTyped' /\ failed' \in BOOLEAN
      BY <1>0, <2>0, <3>1, <3>2, FailTyped, TakeLinesTyped
    <3> QED BY <1>1, <3>3, CrossedTyped DEF ReadCache, Typed, PassesTyped, bounds
  <2> QED BY <2>1, <2>2, <2>3
<1>2. CASE Restore(r, p)
  <2>0. pass[r].at = p /\ pass[r].step # "idle"
    BY <1>2, <1>a DEF Restore
  <2>1. PassesTyped'
    <3>1. CASE ~cache[p].there
      BY <1>2, <1>d, <2>0, <3>1 DEF Restore
    <3>2. CASE cache[p].there
      <4>1. PICK lines \in Readings(r, p) :
              Continue(r, [step |-> "truncate", at |-> p, data |-> lines, restored |-> TRUE,
                           torn |-> NotMeant(p, lines)])
        BY <1>2, <3>2 DEF Restore
      <4> DEFINE next == [step |-> "truncate", at |-> p, data |-> lines, restored |-> TRUE,
                          torn |-> NotMeant(p, lines)]
      <4>2. lines \in SUBSET Line /\ NotMeant(p, lines) \in BOOLEAN /\ "truncate" \in PassStepName
        BY ReadingsAre DEF NotMeant, PassStepName
      <4>3. next \in PassType /\ next.at = p
        BY <1>b, <4>2
      <4> HIDE DEF next
      <4> QED BY <2>0, <4>1, <4>3, ContinueTyped DEF next
    <3> QED BY <3>1, <3>2
  <2> QED BY <1>2, <2>1, CrossedTyped DEF Restore, Typed, PassesTyped, policy, bounds
<1>3. CASE Mirror(r, p)
  <2>0. pass[r].at = p /\ pass[r].step # "idle"
    BY <1>3, <1>a DEF Mirror
  <2>1. PassesTyped'
    <3>1. PICK lines \in Readings(r, p) :
            Continue(r, [step |-> "compare", at |-> p, data |-> lines, restored |-> FALSE,
                         torn |-> NotMeant(p, lines)])
      BY <1>3 DEF Mirror
    <3> DEFINE next == [step |-> "compare", at |-> p, data |-> lines, restored |-> FALSE,
                        torn |-> NotMeant(p, lines)]
    <3>2. lines \in SUBSET Line /\ NotMeant(p, lines) \in BOOLEAN /\ "compare" \in PassStepName
      BY ReadingsAre DEF NotMeant, PassStepName
    <3>3. next \in PassType /\ next.at = p
      BY <1>b, <3>2
    <3> HIDE DEF next
    <3> QED BY <2>0, <3>1, <3>3, ContinueTyped DEF next
  <2> QED BY <1>3, <2>1, CrossedTyped DEF Mirror, Typed, PassesTyped, policy, bounds
<1>4. CASE Compare(r, p)
  <2>0. pass[r].at = p /\ pass[r].step # "idle"
    BY <1>4, <1>a DEF Compare
  <2>1. PassesTyped'
    BY <1>4, <1>c, <1>d, <2>0 DEF Compare, PassStepName
  <2> QED BY <1>4, <2>1, CrossedTyped DEF Compare, Typed, PassesTyped, policy, bounds
<1>5. CASE TruncateBack(r, p)
  <2>0. pass[r].at = p /\ pass[r].step # "idle"
    BY <1>5, <1>a DEF TruncateBack
  <2>1. PassesTyped'
    BY <1>5, <1>c, <2>0 DEF TruncateBack, PassStepName
  <2>2. cache' \in [Provider -> CacheType]
    BY <1>0, <1>5, CacheTyped DEF TruncateBack, Empty
  <2> QED BY <1>5, <2>1, <2>2, CrossedTyped
          DEF TruncateBack, Typed, PassesTyped, policy, bounds
<1>6. CASE WriteBack(r, p)
  <2>0. pass[r].at = p /\ pass[r].step # "idle"
    BY <1>6, <1>a DEF WriteBack
  <2>1. PassesTyped'
    <3>1. CASE pass[r].restored
      <4> DEFINE next == [Reading(p) EXCEPT !.restored = TRUE]
      <4>1. Reading(p) \in PassType /\ Reading(p).at = p
        BY StillPass
      <4>2. next \in PassType
        BY <4>1 DEF PassType
      <4>3. next.at = p
        BY <4>1 DEF PassType
      <4> HIDE DEF next
      <4>4. Continue(r, next)
        BY <1>6, <3>1 DEF WriteBack, next
      <4> QED BY <2>0, <4>2, <4>3, <4>4, ContinueTyped
    <3>2. CASE ~pass[r].restored
      BY <1>6, <1>d, <2>0, <3>2 DEF WriteBack
    <3> QED BY <3>1, <3>2
  <2>2. cache' \in [Provider -> CacheType] /\ spoilt' \subseteq Provider
    BY <1>0, <1>6, OverwriteTyped DEF WriteBack
  <2>3. lapsed' \in BOOLEAN
    BY <1>6 DEF WriteBack
  <2> QED BY <1>6, <2>1, <2>2, <2>3, CrossedTyped DEF WriteBack, Typed, PassesTyped, policy, bounds
<1> QED BY <1>1, <1>2, <1>3, <1>4, <1>5, <1>6 DEF PassStep

(* A loss of power. *)
LEMMA PowerLossTyped == ASSUME Typed, PowerLoss PROVE Typed'
<1> DEFINE half == {p \in Provider : BeingWritten(p) # {}}
           left(p) == UNION {CutOff(lines) : lines \in BeingWritten(p)}
<1>1. /\ losses' \in 0..MaxLosses /\ job' = [p \in Provider |-> NoJob]
      /\ compile' = NoCompile /\ pass' = [r \in Reader |-> NoPass]
      /\ table' = NoTable /\ lapsed' = TRUE /\ crossed' = {}
      /\ spoilt' = spoilt \cup half
      /\ UNCHANGED <<ruleFile, failed, updates, loads>>
  BY ListsAssumption DEF PowerLoss, Typed
<1>2. PICK after :
        /\ \A p \in half : after[p] \in left(p)
        /\ cache' = [p \in Provider |-> IF p \in half THEN [there |-> TRUE, lines |-> after[p]]
                                        ELSE cache[p]]
  BY DEF PowerLoss
<1>3. ASSUME NEW p \in half PROVE after[p] \in SUBSET Line
  <2>1. PICK lines \in BeingWritten(p) : after[p] \in CutOff(lines)
    BY <1>2
  <2>2. lines \in SUBSET Line
    <3>1. /\ \A q \in Provider : job[q].lines \in SUBSET Line
          /\ \A r \in Reader : pass[r].data \in SUBSET Line
      BY DEF Typed, JobType, PassType
    <3> QED BY <2>1, <3>1 DEF BeingWritten
  <2> QED BY <2>1, <2>2, CutOffLines
<1> HIDE DEF half, left
<1>4. cache' \in [Provider -> CacheType]
  BY <1>2, <1>3 DEF Typed, CacheType
<1>5. /\ NoJob \in JobType /\ NoCompile \in CompileType /\ NoTable \in TableType
      /\ NoPass \in PassType /\ NoPass.step = "idle"
  BY DEF NoJob, JobType, JobStep, NoCompile, CompileType, NoTable, TableType,
         NoPass, PassType, PassStepName
<1>6. job' \in [Provider -> JobType] /\ pass' \in [Reader -> PassType]
  BY <1>1, <1>5
<1>7. AtHead(compile', pass'[Service])
  BY <1>1, <1>5, ReaderIs DEF AtHead
<1> QED BY <1>1, <1>4, <1>5, <1>6, <1>7 DEF Typed, half

LEMMA InitTyped == Init => Typed
<1> SUFFICES ASSUME Init PROVE Typed
  OBVIOUS
<1>1. cache \in [Provider -> CacheType]
  BY DEF Init, NoCache, CacheType
<1>2. /\ NoJob \in JobType /\ NoCompile \in CompileType /\ NoTable \in TableType
      /\ NoPass \in PassType /\ NoPass.step = "idle"
  BY DEF NoJob, JobType, JobStep, NoCompile, CompileType, NoTable, TableType,
         NoPass, PassType, PassStepName
<1>3. \A p \in Provider : \A list \in UnderWay[p] : Downloaded(list) \in JobType
  BY ListsAssumption DEF Downloaded, JobType, JobStep
<1>4. job \in [Provider -> JobType]
  BY <1>2, <1>3 DEF Init
<1>5. updates \in 0..MaxUpdates /\ losses \in 0..MaxLosses /\ loads \in 0..MaxLoads
  <2>1. ASSUME NEW spent \in Spent
        PROVE  spent[1] \in 0..MaxUpdates /\ spent[2] \in 0..MaxLosses /\ spent[3] \in 0..MaxLoads
    BY ListsAssumption
  <2> QED BY <2>1, ListsAssumption DEF Init
<1>6. pass \in [Reader -> PassType] /\ AtHead(compile, pass[Service])
  BY <1>2, ReaderIs DEF Init, AtHead
<1> QED BY <1>1, <1>2, <1>4, <1>5, <1>6 DEF Init, Typed

(* The other steps of a compilation. *)
LEMMA ReadFileTyped == ASSUME Typed, ReadFile PROVE Typed'
<1>0. /\ compile \in CompileType /\ compile.on /\ compile.todo # <<>>
      /\ Head(compile.todo) = File /\ pass[Service].step = "idle" /\ failed \in BOOLEAN
      /\ pass \in [Reader -> PassType]
  BY ProvidersAssumption DEF Typed, ReadFile, AtHead
<1>1. CASE ruleFile
  <2> DEFINE nets == {ParseIPv4CIDR(l) : l \in FileCIDRs}
             g == [compile EXCEPT !.cidrs = @ \cup nets]
  <2>1. nets \in SUBSET Net
    BY ListsAssumption, ParsedLines
  <2> HIDE DEF nets
  <2>2. g \in CompileType /\ g.todo = compile.todo /\ g.on = compile.on
    <3>1. g \in CompileType
      BY <1>0, <2>1, StillCompile
    <3> QED BY <1>0, <3>1 DEF CompileType
  <2>3. compile' = Advanced(g)
    <3>1. compile' = [compile EXCEPT !.todo = Tail(@), !.cidrs = @ \cup nets]
      BY <1>1 DEF ReadFile, nets
    <3> QED BY <1>0, <3>1 DEF Advanced, CompileType
  <2> HIDE DEF g
  <2>4. compile' \in CompileType /\ compile'.on /\ compile'.todo = Tail(compile.todo)
    BY <1>0, <2>2, <2>3, StillCompile
  <2>5. Tail(compile.todo) \in Seq(Provider \cup {File})
    BY <2>4 DEF CompileType
  <2>6. /\ PassOf(Tail(compile.todo)) \in PassType
        /\ AtHead(compile', PassOf(Tail(compile.todo)))
    BY <2>4, <2>5, PassOfTyped
  <2>7. pass' = [pass EXCEPT ![Service] = PassOf(Tail(compile.todo))]
    BY <1>1 DEF ReadFile
  <2>8. pass' \in [Reader -> PassType] /\ AtHead(compile', pass'[Service])
    BY <1>0, <2>6, <2>7, ReaderIs
  <2> QED BY <1>1, <2>4, <2>8 DEF ReadFile, Typed, bounds
<1>2. CASE ~ruleFile
  <2>1. compile' = NoCompile /\ failed' = TRUE /\ pass' = pass
    BY <1>2 DEF ReadFile
  <2>2. compile' \in CompileType /\ AtHead(compile', pass'[Service])
    BY <1>0, <2>1, StillCompile DEF AtHead
  <2> QED BY <2>1, <2>2 DEF ReadFile, Typed, bounds
<1> QED BY <1>1, <1>2

LEMMA InstallTyped == ASSUME Typed, Install PROVE Typed'
<1>0. compile.cidrs \in SUBSET Net /\ compile.names \in SUBSET Line
  BY DEF Typed, CompileType
<1>1. NormalizeIPv4CIDRs(compile.cidrs) \in SUBSET Line
  BY <1>0, Normalizes, NetLines
<1>2. NoCompile \in CompileType
  BY DEF NoCompile, CompileType
<1>3. table' \in TableType
  BY <1>0, <1>1 DEF Install, TableType
<1>4. AtHead(compile', pass'[Service])
  BY DEF Install, Typed, AtHead
<1> QED BY <1>2, <1>3, <1>4 DEF Install, Typed, bounds

LEMMA BeginLoadTyped == ASSUME Typed, NEW r \in Loader, BeginLoad(r) PROVE Typed'
<1>1. PICK p \in Provider : pass' = [pass EXCEPT ![r] = Reading(p)]
  BY DEF BeginLoad
<1>2. pass' \in [Reader -> PassType] /\ pass'[Service] = pass[Service]
  BY <1>1, StillPass, ReaderIs DEF Typed
<1>3. loads' \in 0..MaxLoads
  BY ListsAssumption DEF BeginLoad, Typed
<1> QED BY <1>2, <1>3 DEF BeginLoad, Typed, policy

LEMMA NextTyped == Typed /\ [Next]_vars => Typed'
<1> SUFFICES ASSUME Typed, [Next]_vars PROVE Typed'
  OBVIOUS
<1>1. ASSUME NEW p \in Provider, UpdateStep(p) PROVE Typed'
  BY <1>1, UpdateTyped
<1>2. ASSUME NEW p \in Provider, NEW r \in Reader, PassStep(r, p) PROVE Typed'
  BY <1>2, PassStepTyped
<1>3. ASSUME NEW r \in Loader, BeginLoad(r) PROVE Typed'
  BY <1>3, BeginLoadTyped
<1>4. CASE Start
  BY <1>4, BeginTyped DEF Start, Typed
<1>5. CASE ReadFile
  BY <1>5, ReadFileTyped
<1>6. CASE Install
  BY <1>6, InstallTyped
<1>7. CASE RuleFileChanges
  BY <1>7 DEF RuleFileChanges, Typed, policy, bounds
<1>8. CASE PowerLoss
  BY <1>8, PowerLossTyped
<1>9. CASE UNCHANGED vars
  BY <1>9 DEF vars, Typed
<1> QED BY <1>1, <1>2, <1>3, <1>4, <1>5, <1>6, <1>7, <1>8, <1>9 DEF Next

(* Caches, updates, passes, a compilation and the table hold lines of lists, and *)
(* the counters stay within their bounds: TypeOK for every instance.             *)
THEOREM TypesOk == Spec => []TypeOK
<1>1. Spec => []Typed
  BY InitTyped, NextTyped, PTL DEF Spec
<1> QED BY <1>1, TypesAre, PTL

(* Whatever list of networks an update has downloaded, normalising it gives the *)
(* canonical form of its networks: NormalizedExactly for every instance.        *)
THEOREM ListsAreNormalized == Spec => []NormalizedExactly
<1>1. Typed => NormalizedExactly
  <2> SUFFICES ASSUME Typed, NEW p \in Provider, Type[p] = "ip"
               PROVE  Canonical(NormalizeDownloadedList(p, job[p].lines),
                                {ParseIPv4CIDR(l) : l \in {m \in job[p].lines : m.kind = "cidr"}})
    BY Zenon DEF NormalizedExactly, Canonical
  <2> DEFINE lines == {m \in job[p].lines : m.kind = "cidr"}
             nets == {ParseIPv4CIDR(l) : l \in lines}
  <2>1. lines \in SUBSET Line
    BY DEF Typed, JobType
  <2>2. nets \in SUBSET Net
    <3> HIDE DEF lines
    <3> QED BY <2>1, ParsedLines
  <2>3. NormalizeDownloadedList(p, job[p].lines) = NormalizeIPv4CIDRs(nets)
    BY DEF NormalizeDownloadedList
  <2> HIDE DEF nets
  <2>4. Canonical(NormalizeIPv4CIDRs(nets), nets)
    BY <2>2, Normalizes
  <2>5. Canonical(NormalizeDownloadedList(p, job[p].lines), nets)
    BY <2>3, <2>4, Zenon
  <2> QED BY <2>5 DEF nets
<1>2. Spec => []Typed
  BY InitTyped, NextTyped, PTL DEF Spec
<1> QED BY <1>1, <1>2, PTL

-----------------------------------------------------------------------------
IsCidrs(lines) == \A l \in lines : l.kind = "cidr"

(* The steps in which an update, or a pass, carries what it may write. *)
Carrying == {"truncate", "write", "persist", "truncate2", "write2"}
Holding == {"compare", "truncate", "write"}

(* A cache of networks that is not damaged has nothing but CIDRs in it, nor has *)
(* what an update is about to write, nor what a pass is about to write back if  *)
(* no reading of it crossed a write.                                            *)
CachesOk ==
  \A p \in Provider : Type[p] = "ip" => p \in spoilt \/ IsCidrs(cache[p].lines)
JobOk(p, d) == Type[p] = "ip" /\ d.step \in Carrying => IsCidrs(d.lines)
JobsOk == \A p \in Provider : JobOk(p, job[p])
PassOk(c) ==
  c.at \in Provider /\ Type[c.at] = "ip" /\ c.step \in Holding => c.torn \/ IsCidrs(c.data)
PassesOk == \A r \in Reader : PassOk(pass[r])

CachesSound == CachesOk /\ JobsOk /\ PassesOk

LEMMA NormalizedAreCidrs ==
  ASSUME NEW p, NEW list, Type[p] = "ip"
  PROVE  IsCidrs(NormalizeDownloadedList(p, list))
<1>1. ASSUME NEW start, NEW end PROVE IsCidrs(RangeToCIDRs(start, end))
  BY DEF IsCidrs, RangeToCIDRs, Cidr
<1>2. ASSUME NEW ranges
      PROVE  IsCidrs(UNION {RangeToCIDRs(r.start, r.end) : r \in ranges})
  BY <1>1 DEF IsCidrs
<1>3. ASSUME NEW cidrs PROVE IsCidrs(NormalizeIPv4CIDRs(cidrs))
  BY <1>2, Zenon DEF NormalizeIPv4CIDRs
<1>4. NormalizeDownloadedList(p, list)
        = NormalizeIPv4CIDRs({ParseIPv4CIDR(l) : l \in {m \in list : m.kind = "cidr"}})
  BY DEF NormalizeDownloadedList
<1> QED BY <1>3, <1>4

(* One cache, one update or one pass changes. *)
LEMMA OneCache ==
  ASSUME Typed, CachesOk, NEW p \in Provider, NEW content,
         cache' = [cache EXCEPT ![p] = [there |-> TRUE, lines |-> content]],
         spoilt \ {p} \subseteq spoilt',
         Type[p] = "ip" => p \in spoilt' \/ IsCidrs(content)
  PROVE  CachesOk'
<1>1. ASSUME NEW q \in Provider
      PROVE  cache'[q] = IF q = p THEN [there |-> TRUE, lines |-> content] ELSE cache[q]
  BY DEF Typed
<1>2. ASSUME NEW q \in Provider, Type[q] = "ip"
      PROVE  q \in spoilt' \/ IsCidrs(cache'[q].lines)
  <2>1. CASE q = p
    BY <1>1, <1>2, <2>1
  <2>2. CASE q # p
    BY <1>1, <1>2, <2>2 DEF CachesOk
  <2> QED BY <2>1, <2>2
<1> QED BY <1>2 DEF CachesOk

LEMMA OneJob ==
  ASSUME Typed, JobsOk, NEW p \in Provider, NEW d, JobOk(p, d), job' = [job EXCEPT ![p] = d]
  PROVE  JobsOk'
<1>1. ASSUME NEW q \in Provider PROVE job'[q] = IF q = p THEN d ELSE job[q]
  BY DEF Typed
<1>2. ASSUME NEW q \in Provider PROVE JobOk(q, job'[q])
  BY <1>1 DEF JobsOk
<1> QED BY <1>2 DEF JobsOk, JobOk, Carrying

(* An update goes on to another step with the lines it carries. *)
LEMMA NextStep ==
  ASSUME Typed, JobsOk, NEW p \in Provider, NEW step,
         step \in Carrying => job[p].step \in Carrying,
         job' = [job EXCEPT ![p].step = step]
  PROVE  JobsOk'
<1> DEFINE d == [job[p] EXCEPT !.step = step]
<1>1. d.step = step /\ d.lines = job[p].lines
  BY DEF Typed, JobType
<1>2. job' = [job EXCEPT ![p] = d]
  OBVIOUS
<1> HIDE DEF d
<1>3. JobOk(p, d)
  BY <1>1 DEF JobsOk, JobOk
<1> QED BY <1>2, <1>3, OneJob

LEMMA OnePass ==
  ASSUME Typed, PassesOk, NEW r \in Reader, NEW next, PassOk(next),
         pass' = [pass EXCEPT ![r] = next]
  PROVE  PassesOk'
<1>1. ASSUME NEW q \in Reader PROVE pass'[q] = IF q = r THEN next ELSE pass[q]
  BY DEF Typed
<1>2. ASSUME NEW q \in Reader PROVE PassOk(pass'[q])
  BY <1>1 DEF PassesOk
<1> QED BY <1>2 DEF PassesOk, PassOk, Holding

LEMMA OverwriteOk ==
  ASSUME Typed, CachesOk, NEW p \in Provider, NEW lines, NEW torn, Overwrite(p, lines, torn),
         Type[p] = "ip" => torn \/ IsCidrs(lines)
  PROVE  CachesOk'
<1> PICK result \in Over(lines, cache[p].lines) :
      /\ cache' = [cache EXCEPT ![p] = [there |-> TRUE, lines |-> result]]
      /\ spoilt' = IF result = lines /\ ~torn THEN spoilt \ {p} ELSE spoilt \cup {p}
  BY DEF Overwrite
<1>1. spoilt \ {p} \subseteq spoilt'
  OBVIOUS
<1>2. Type[p] = "ip" => p \in spoilt' \/ IsCidrs(result)
  OBVIOUS
<1> QED BY <1>1, <1>2, OneCache

(* A pass that holds nothing to write back. *)
LEMMA NothingHeld ==
  /\ PassOk(NoPass)
  /\ \A todo : PassOk(PassOf(todo))
  /\ \A p \in Provider : PassOk(Reading(p)) /\ PassOk([Reading(p) EXCEPT !.restored = TRUE])
  /\ \A p \in Provider : PassOk([Reading(p) EXCEPT !.step = "mirror"])
<1>1. PassOk(NoPass)
  BY DEF PassOk, NoPass, Holding
<1>2. ASSUME NEW p PROVE PassOk(Reading(p)) /\ PassOk([Reading(p) EXCEPT !.restored = TRUE])
  BY DEF PassOk, Reading, Holding
<1>3. ASSUME NEW p PROVE PassOk([Reading(p) EXCEPT !.step = "mirror"])
  BY DEF PassOk, Reading, Holding
<1>4. ASSUME NEW todo PROVE PassOk(PassOf(todo))
  BY <1>1, <1>2 DEF PassOf
<1> QED BY <1>1, <1>2, <1>3, <1>4

LEMMA PassesKept ==
  ASSUME PassesOk, UNCHANGED pass
  PROVE  PassesOk'
  BY DEF PassesOk, PassOk, Holding

LEMMA FinishOk ==
  ASSUME Typed, PassesOk, NEW r \in Reader, NEW g, Finish(r, g) \/ Fail(r)
  PROVE  PassesOk'
  BY NothingHeld, OnePass DEF Finish, Fail

-----------------------------------------------------------------------------
(* The steps of an update. *)
LEMMA UpdateOk ==
  ASSUME Typed, CachesSound, NEW p \in Provider, UpdateStep(p)
  PROVE  CachesSound'
<1> USE DEF CachesSound
<1>0. JobOk(p, NoJob)
  BY DEF JobOk, NoJob, Carrying
<1>1. CASE Fetch(p)
  <2> PICK list \in Lists[p] : job' = [job EXCEPT ![p] = Downloaded(list)]
    BY <1>1 DEF Fetch
  <2>1. JobOk(p, Downloaded(list))
    BY DEF JobOk, Downloaded, Carrying
  <2>2. JobsOk'
    BY <2>1, OneJob
  <2> QED BY <1>1, <2>2, PassesKept DEF Fetch, CachesOk
<1>2. CASE Normalize(p)
  <2> DEFINE d == IF Readable(p, job[p].lines)
                  THEN [step |-> "truncate", lines |-> NormalizeDownloadedList(p, job[p].lines)]
                  ELSE NoJob
  <2>1. JobOk(p, d)
    BY <1>0, NormalizedAreCidrs DEF JobOk
  <2>2. job' = [job EXCEPT ![p] = d]
    BY <1>2 DEF Normalize
  <2>3. JobsOk'
    BY <2>1, <2>2, OneJob
  <2> QED BY <1>2, <2>3, PassesKept DEF Normalize, CachesOk
<1>3. CASE Truncate(p)
  <2>1. JobsOk'
    <3>1. CASE job[p].step = "truncate"
      BY <1>3, <3>1, NextStep DEF Truncate, Carrying
    <3>2. CASE job[p].step = "truncate2"
      BY <1>3, <3>2, NextStep DEF Truncate, Carrying
    <3> QED BY <1>3, <3>1, <3>2 DEF Truncate
  <2>2. CachesOk'
    BY <1>3, OneCache DEF Truncate, Empty, IsCidrs
  <2> QED BY <1>3, <2>1, <2>2, PassesKept DEF Truncate
<1>4. CASE Write(p)
  <2>1. job[p].step \in Carrying
    BY <1>4 DEF Write, Carrying
  <2>2. JobsOk'
    <3> DEFINE step == IF job[p].step = "write" /\ p \in Default THEN "persist" ELSE "metadata"
    <3>1. job' = [job EXCEPT ![p].step = step]
      BY <1>4 DEF Write
    <3> HIDE DEF step
    <3> QED BY <2>1, <3>1, NextStep
  <2>3. CachesOk'
    BY <1>4, <2>1, OverwriteOk DEF Write, JobsOk, JobOk
  <2> QED BY <1>4, <2>2, <2>3, PassesKept DEF Write
<1>5. CASE Persist(p)
  <2>1. job[p].step \in Carrying
    BY <1>5 DEF Persist, Carrying
  <2>2. PICK lines \in Readings(p, p) : job' = [job EXCEPT ![p].step =
            IF lines = job[p].lines THEN "metadata" ELSE "truncate2"]
    BY <1>5 DEF Persist
  <2> DEFINE step == IF lines = job[p].lines THEN "metadata" ELSE "truncate2"
  <2>3. job' = [job EXCEPT ![p].step = step]
    BY <2>2
  <2> HIDE DEF step
  <2>4. JobsOk'
    BY <2>1, <2>3, NextStep
  <2> QED BY <1>5, <2>4, PassesKept DEF Persist, CachesOk
<1>6. CASE UpdateMetadata(p)
  <2>1. ASSUME job' = [job EXCEPT ![p].step = "restart"] PROVE JobsOk'
    BY <2>1, NextStep DEF Carrying
  <2>2. ASSUME job' = [job EXCEPT ![p] = NoJob] PROVE JobsOk'
    BY <1>0, <2>2, OneJob
  <2> QED BY <1>6, <2>1, <2>2, PassesKept DEF UpdateMetadata, CachesOk
<1>7. CASE Restart(p)
  <2>1. JobsOk'
    BY <1>0, <1>7, OneJob DEF Restart
  <2>2. PassesOk'
    BY <1>7, ReaderIs, NothingHeld, OnePass DEF Restart, BeginCompile
  <2> QED BY <1>7, <2>1, <2>2 DEF Restart, BeginCompile, CachesOk
<1> QED BY <1>1, <1>2, <1>3, <1>4, <1>5, <1>6, <1>7 DEF UpdateStep

(* What a pass holds is what the cache had in it, or it says that it is torn. *)
LEMMA HeldOk ==
  ASSUME CachesOk, NEW p \in Provider, NEW lines, NEW step, NEW restored
  PROVE  PassOk([step |-> step, at |-> p, data |-> lines, restored |-> restored,
                 torn |-> NotMeant(p, lines)])
<1>1. Type[p] = "ip" => NotMeant(p, lines) \/ IsCidrs(lines)
  BY DEF CachesOk, NotMeant
<1> QED BY <1>1 DEF PassOk

LEMMA StillHeld ==
  ASSUME Typed, PassesOk, NEW r \in Reader, NEW step \in {"restore", "truncate", "write"},
         pass[r].step \in Holding \/ step = "restore"
  PROVE  PassOk([pass[r] EXCEPT !.step = step])
<1> DEFINE d == [pass[r] EXCEPT !.step = step]
<1>1. d.step = step /\ d.at = pass[r].at /\ d.data = pass[r].data
  BY DEF Typed, PassType
<1>2. d.torn = pass[r].torn
  BY DEF Typed, PassType
<1> HIDE DEF d
<1>3. PassOk(pass[r])
  BY DEF PassesOk
<1>4. PassOk(d)
  BY <1>1, <1>2, <1>3 DEF PassOk, Holding
<1> QED BY <1>4 DEF d

(* The steps of a pass. *)
LEMMA PassStepOk ==
  ASSUME Typed, CachesSound, NEW r \in Reader, NEW p \in Provider, PassStep(r, p)
  PROVE  CachesSound'
<1> USE DEF CachesSound
<1>1. ASSUME UNCHANGED <<cache, spoilt>> PROVE CachesOk'
  BY <1>1 DEF CachesOk
<1>2. ASSUME UNCHANGED job PROVE JobsOk'
  BY <1>2 DEF JobsOk, JobOk, Carrying
<1>3. ASSUME NEW step \in {"restore", "truncate", "write"},
             pass[r].step \in Holding \/ step = "restore",
             Continue(r, [pass[r] EXCEPT !.step = step])
      PROVE  PassesOk'
  BY <1>3, StillHeld, OnePass DEF Continue
<1>4. CASE ReadCache(r, p)
  <2>1. ASSUME ~cache[p].there PROVE PassesOk'
    BY <1>3, <1>4, <2>1, FinishOk DEF ReadCache
  <2>2. ASSUME cache[p].there PROVE PassesOk'
    <3>1. PICK lines \in Readings(r, p) : Fail(r) \/ TakeLines(r, p, lines)
      BY <1>4, <2>2 DEF ReadCache
    <3>2. CASE Fail(r)
      BY <3>2, FinishOk
    <3>3. CASE TakeLines(r, p, lines)
      BY <3>3, FinishOk, NothingHeld, OnePass DEF TakeLines
    <3> QED BY <3>1, <3>2, <3>3
  <2>3. PassesOk'
    BY <2>1, <2>2
  <2> QED BY <1>1, <1>2, <1>4, <2>3 DEF ReadCache
<1>5. CASE Restore(r, p)
  <2>1. ASSUME ~cache[p].there PROVE PassesOk'
    BY <1>5, <2>1, FinishOk DEF Restore
  <2>2. ASSUME cache[p].there PROVE PassesOk'
    BY <1>5, <2>2, HeldOk, OnePass DEF Restore, Continue
  <2> QED BY <1>1, <1>2, <1>5, <2>1, <2>2 DEF Restore
<1>6. CASE Mirror(r, p)
  <2>1. PassesOk'
    BY <1>6, HeldOk, OnePass DEF Mirror, Continue
  <2> QED BY <1>1, <1>2, <1>6, <2>1 DEF Mirror
<1>7. CASE Compare(r, p)
  <2>1. pass[r].step \in Holding
    BY <1>7 DEF Compare, At, Holding
  <2>2. PassesOk'
    BY <1>3, <1>7, <2>1, FinishOk DEF Compare
  <2> QED BY <1>1, <1>2, <1>7, <2>2 DEF Compare
<1>8. CASE TruncateBack(r, p)
  <2>1. pass[r].step \in Holding
    BY <1>8 DEF TruncateBack, At, Holding
  <2>2. PassesOk'
    BY <1>3, <1>8, <2>1 DEF TruncateBack
  <2>3. CachesOk'
    BY <1>8, OneCache DEF TruncateBack, Empty, IsCidrs
  <2> QED BY <1>2, <1>8, <2>2, <2>3 DEF TruncateBack
<1>9. CASE WriteBack(r, p)
  <2>1. Type[p] = "ip" => pass[r].torn \/ IsCidrs(pass[r].data)
    BY <1>9 DEF WriteBack, At, PassesOk, PassOk, Holding
  <2>2. CachesOk'
    BY <1>9, <2>1, OverwriteOk DEF WriteBack
  <2>3. PassesOk'
    BY <1>9, FinishOk, NothingHeld, OnePass DEF WriteBack, Continue
  <2> QED BY <1>2, <1>9, <2>2, <2>3 DEF WriteBack
<1> QED BY <1>4, <1>5, <1>6, <1>7, <1>8, <1>9 DEF PassStep

LEMMA InitOk == Init => CachesSound
<1> SUFFICES ASSUME Init PROVE CachesSound
  OBVIOUS
<1>1. CachesOk
  BY DEF Init, CachesOk, NoCache, IsCidrs
<1>2. JobsOk
  <2>1. ASSUME NEW p \in Provider PROVE JobOk(p, NoJob)
    BY DEF JobOk, NoJob, Carrying
  <2>2. ASSUME NEW p \in Provider, NEW list PROVE JobOk(p, Downloaded(list))
    BY DEF JobOk, Downloaded, Carrying
  <2>3. CASE job = [p \in Provider |-> NoJob]
    BY <2>1, <2>3 DEF JobsOk
  <2>4. ASSUME NEW p \in Provider, NEW list,
               job = [q \in Provider |-> IF q = p THEN Downloaded(list) ELSE NoJob]
        PROVE  JobsOk
    BY <2>1, <2>2, <2>4 DEF JobsOk
  <2> QED BY <2>3, <2>4 DEF Init
<1>3. PassesOk
  BY NothingHeld DEF Init, PassesOk
<1> QED BY <1>1, <1>2, <1>3 DEF CachesSound

(* A loss of power damages only caches that were being written. *)
LEMMA PowerLossOk == ASSUME CachesSound, PowerLoss PROVE CachesSound'
<1> DEFINE half == {p \in Provider : BeingWritten(p) # {}}
<1>1. spoilt' = spoilt \cup half
  BY DEF PowerLoss
<1>2. PICK after : cache' = [p \in Provider |-> IF p \in half
                                               THEN [there |-> TRUE, lines |-> after[p]]
                                               ELSE cache[p]]
  BY DEF PowerLoss
<1> HIDE DEF half
<1>3. CachesOk'
  <2>1. ASSUME NEW p \in Provider, Type[p] = "ip"
        PROVE  p \in spoilt' \/ IsCidrs(cache'[p].lines)
    <3>1. CASE p \in half
      BY <1>1, <3>1
    <3>2. CASE p \notin half
      BY <1>1, <1>2, <2>1, <3>2 DEF CachesSound, CachesOk
    <3> QED BY <3>1, <3>2
  <2> QED BY <2>1 DEF CachesOk
<1>4. JobsOk'
  BY DEF PowerLoss, JobsOk, JobOk, NoJob, Carrying
<1>5. PassesOk'
  <2>1. \A r \in Reader : pass'[r] = NoPass
    BY DEF PowerLoss
  <2> QED BY <2>1 DEF PassesOk, PassOk, NoPass, Holding
<1> QED BY <1>3, <1>4, <1>5 DEF CachesSound

LEMMA NextOk == Typed /\ CachesSound /\ [Next]_vars => CachesSound'
<1> SUFFICES ASSUME Typed, CachesSound, [Next]_vars PROVE CachesSound'
  OBVIOUS
<1>0. ASSUME UNCHANGED <<cache, job, spoilt>>, PassesOk' PROVE CachesSound'
  BY <1>0 DEF CachesSound, CachesOk, JobsOk, JobOk, Carrying
<1>1. ASSUME NEW p \in Provider, UpdateStep(p) PROVE CachesSound'
  BY <1>1, UpdateOk
<1>2. ASSUME NEW p \in Provider, NEW r \in Reader, PassStep(r, p) PROVE CachesSound'
  BY <1>2, PassStepOk
<1>3. ASSUME NEW r \in Loader, BeginLoad(r) PROVE CachesSound'
  <2>1. PICK p \in Provider : pass' = [pass EXCEPT ![r] = Reading(p)]
    BY <1>3 DEF BeginLoad
  <2>2. PassesOk'
    BY <2>1, ReaderIs, NothingHeld, OnePass DEF CachesSound
  <2> QED BY <1>0, <1>3, <2>2 DEF BeginLoad
<1>4. CASE Start
  <2>1. PassesOk'
    BY <1>4, ReaderIs, NothingHeld, OnePass DEF Start, BeginCompile, CachesSound
  <2> QED BY <1>0, <1>4, <2>1 DEF Start, BeginCompile
<1>5. CASE ReadFile
  <2>1. ASSUME ruleFile PROVE PassesOk'
    BY <1>5, <2>1, ReaderIs, NothingHeld, OnePass DEF ReadFile, CachesSound
  <2>2. ASSUME ~ruleFile PROVE PassesOk'
    BY <1>5, <2>2, PassesKept DEF ReadFile, CachesSound
  <2> QED BY <1>0, <1>5, <2>1, <2>2 DEF ReadFile
<1>6. CASE Install \/ RuleFileChanges \/ UNCHANGED vars
  <2>1. UNCHANGED <<cache, job, spoilt, pass>>
    BY <1>6 DEF Install, RuleFileChanges, vars
  <2> QED BY <1>0, <2>1, PassesKept DEF CachesSound
<1>7. CASE PowerLoss
  BY <1>7, PowerLossOk
<1> QED BY <1>1, <1>2, <1>3, <1>4, <1>5, <1>6, <1>7 DEF Next

(* A cache of networks, the list an update of it carries and the copy that a      *)
(* compilation, or another command, is about to write back hold nothing but       *)
(* CIDRs, except for a copy that was torn, by a reading that crossed a write or   *)
(* of a damaged cache, and for the caches that such a copy, a loss of power or    *)
(* two writers at once damaged; an update that writes the cache repairs it.       *)
THEOREM NothingButCIDRs == Spec => []CachesSound
<1>1. Init => Typed /\ CachesSound
  BY InitTyped, InitOk
<1>2. Typed /\ CachesSound /\ [Next]_vars => Typed' /\ CachesSound'
  BY NextTyped, NextOk
<1> QED BY <1>1, <1>2, PTL DEF Spec

(* A compilation fails only where it should, whatever else runs at the same time *)
(* and whatever was downloaded: CompileFailsForCause for every instance.         *)
LEMMA FailsForCause ==
  ASSUME Typed, CachesSound, [Next]_vars, failed', ~failed
  PROVE  LET at == Head(compile.todo)
         IN  IF at = File THEN ~ruleFile ELSE at \in spoilt \/ Disturbed(Service, at)
<1>1. ASSUME NEW p \in Provider, UpdateStep(p) PROVE FALSE
  BY <1>1 DEF UpdateStep, Fetch, Normalize, Truncate, Write, Persist, UpdateMetadata,
              Restart, BeginCompile, policy
<1>2. ASSUME NEW p \in Provider, NEW r \in Reader, PassStep(r, p)
      PROVE  Head(compile.todo) = p /\ p # File /\ (p \in spoilt \/ Disturbed(Service, p))
  <2>1. ReadCache(r, p)
    BY <1>2 DEF PassStep, Restore, Mirror, Compare, TruncateBack, WriteBack, policy
  <2>2. PICK lines \in Readings(r, p) : Unreadable(p, lines) /\ Fail(r)
    BY <2>1 DEF ReadCache
  <2>3. r = Service
    BY <2>2 DEF Fail
  <2>4. Head(compile.todo) = p /\ p # File
    BY <2>1, <2>3, ProvidersAssumption DEF ReadCache, At, Typed, AtHead
  <2>5. CASE Disturbed(Service, p)
    BY <2>4, <2>5
  <2>6. CASE ~Disturbed(Service, p)
    <3>1. lines = cache[p].lines
      BY <2>2, <2>3, <2>6, ReadingsAre
    <3> QED BY <2>2, <2>4, <3>1 DEF Unreadable, CachesSound, CachesOk, IsCidrs
  <2> QED BY <2>5, <2>6
<1>3. ASSUME ReadFile PROVE Head(compile.todo) = File /\ ~ruleFile
  BY <1>3 DEF ReadFile
<1>4. ASSUME Start \/ Install \/ RuleFileChanges \/ PowerLoss \/ UNCHANGED vars
             \/ (\E r \in Loader : BeginLoad(r))
      PROVE  FALSE
  BY <1>4 DEF Start, BeginCompile, Install, RuleFileChanges, PowerLoss, BeginLoad, vars, policy
<1> QED BY <1>1, <1>2, <1>3, <1>4 DEF Next

(* The property of the run, from the invariant. *)
THEOREM FailuresHaveCause == Spec => CompileFailsForCause
<1>1. Typed /\ CachesSound /\ [Next]_vars =>
        [failed' /\ ~failed =>
           LET at == Head(compile.todo)
           IN  IF at = File THEN ~ruleFile ELSE at \in spoilt \/ Disturbed(Service, at)]_vars
  BY FailsForCause
<1>2. Init => Typed
  BY InitTyped
<1>3. Typed /\ [Next]_vars => Typed'
  BY NextTyped
<1> QED BY <1>1, <1>2, <1>3, NothingButCIDRs, PTL DEF Spec, CompileFailsForCause
-----------------------------------------------------------------------------
(* Nobody is between the writing of a cache and a restart.  Then the caches do not *)
(* change any more before the next one writes, and a compilation has gathered what *)
(* they hold as far as it got in the rule's order.                                 *)
Quiet ==
  /\ ~lapsed
  /\ \A p \in Provider : job[p].step \in {"idle", "downloaded", "truncate"}
  /\ \A r \in Loader : pass[r].step # "write"
Watching == {"read", "restore", "mirror", "compare"}
Length == Len(RuleOrder)

(* What the first k lists of the order give. *)
ListsUpTo(type, k) ==
  UNION {cache[RuleOrder[i]].lines :
           i \in {j \in 1..k : RuleOrder[j] \in Provider /\ Type[RuleOrder[j]] = type}}
FileUpTo(k) == IF \E i \in 1..k : RuleOrder[i] = File THEN FileCIDRs ELSE {}
CidrsUpTo(k) == {ParseIPv4CIDR(l) : l \in OwnCIDRs \cup FileUpTo(k) \cup ListsUpTo("ip", k)}
Has(c, k) == c.cidrs = CidrsUpTo(k) /\ c.names = ListsUpTo("domain", k)

(* Where in the order a compilation is, and how many lists it has read. *)
Position(c) == Length - Len(c.todo)
InPlace(c) == /\ Len(c.todo) <= Length
              /\ \A i \in 1..Len(c.todo) : c.todo[i] = RuleOrder[Position(c) + i]
Reads(c, s) == IF s.step \in {"mirror", "compare"} THEN Position(c) + 1 ELSE Position(c)

(* It has nothing to write back: where it would restore a cache there is none, and *)
(* where it mirrors one the second reading finds what the first did.               *)
Undisturbed(c, s) ==
  /\ s.step \in {"idle"} \cup Watching
  /\ s.step = "restore" => ~cache[s.at].there
  /\ s.step = "compare" => cache[s.at].lines = s.data
  /\ Has(c, Reads(c, s))

(* A cache that is not there is empty. *)
Missing == \A p \in Provider : ~cache[p].there => cache[p].lines = {}
Crossable == Service \in crossed => pass[Service].step \in Watching

Collected ==
  /\ Missing /\ Crossable
  /\ table.up => ~compile.on
  /\ compile.on => InPlace(compile)
  /\ Quiet /\ compile.on => Undisturbed(compile, pass[Service]) /\ Service \notin crossed
  /\ Quiet /\ table.up => /\ table.cidrs = NormalizeIPv4CIDRs(CidrsUpTo(Length))
                          /\ table.names = ListsUpTo("domain", Length)

LEMMA OrderIs ==
  /\ Length \in Nat
  /\ \A i \in 1..Length : RuleOrder[i] \in Provider \/ RuleOrder[i] = File
  /\ File \notin Provider
  BY ListsAssumption, ProvidersAssumption DEF Length

(* A compilation that goes on to the next list. *)
LEMMA NextInPlace ==
  ASSUME NEW c \in CompileType, InPlace(c), c.todo # <<>>
  PROVE  /\ InPlace(Advanced(c)) /\ Position(Advanced(c)) = Position(c) + 1
         /\ Head(c.todo) = RuleOrder[Position(c) + 1] /\ Position(c) \in 0..Length - 1
<1> DEFINE t == c.todo
           d == Advanced(c)
           S == Provider \cup {File}
<1>1. t \in Seq(S) /\ t # <<>> /\ Length \in Nat
  BY OrderIs DEF CompileType
<1>2. d.todo = Tail(t)
  BY StillCompile
<1>3. /\ Len(Tail(t)) = Len(t) - 1 /\ Len(t) \in Nat /\ Len(t) >= 1
      /\ \A i \in 1..Len(t) - 1 : Tail(t)[i] = t[i + 1]
      /\ Head(t) = t[1]
  BY <1>1
<1>4. /\ Len(t) <= Length /\ Position(c) = Length - Len(t)
      /\ \A i \in 1..Len(t) : t[i] = RuleOrder[Position(c) + i]
  BY DEF InPlace, Position
<1>5. Position(d) = Length - (Len(t) - 1)
  BY <1>2, <1>3 DEF Position
<1> HIDE DEF t, d
<1>6. Position(d) = Position(c) + 1 /\ Position(c) \in 0..Length - 1
  BY <1>1, <1>3, <1>4, <1>5
<1>7. ASSUME NEW i \in 1..Len(t) - 1 PROVE Tail(t)[i] = RuleOrder[Position(d) + i]
  <2>1. i + 1 \in 1..Len(t) /\ Position(c) + (i + 1) = Position(d) + i
    BY <1>1, <1>3, <1>6
  <2> QED BY <1>3, <1>4, <2>1
<1>8. InPlace(d)
  <2>1. Len(d.todo) = Len(t) - 1 /\ Len(t) - 1 <= Length
    BY <1>1, <1>2, <1>3, <1>4
  <2> QED BY <1>2, <1>7, <2>1 DEF InPlace
<1>9. Head(t) = RuleOrder[Position(c) + 1]
  BY <1>3, <1>4
<1> QED BY <1>6, <1>8, <1>9 DEF t, d

(* One more list of the order. *)
LEMMA OneMoreList ==
  ASSUME NEW k \in 0..Length - 1, NEW q, q = RuleOrder[k + 1]
  PROVE  /\ q \in Provider => \A type : ListsUpTo(type, k + 1) =
              ListsUpTo(type, k) \cup (IF Type[q] = type THEN cache[q].lines ELSE {})
         /\ q \in Provider => FileUpTo(k + 1) = FileUpTo(k)
         /\ q = File => /\ \A type : ListsUpTo(type, k + 1) = ListsUpTo(type, k)
                        /\ FileUpTo(k + 1) = FileUpTo(k) \cup FileCIDRs
<1>1. k \in Nat /\ 1..k + 1 = 1..k \cup {k + 1} /\ File \notin Provider
  BY OrderIs
<1>2. ASSUME q \in Provider, NEW type
      PROVE  ListsUpTo(type, k + 1) =
               ListsUpTo(type, k) \cup (IF Type[q] = type THEN cache[q].lines ELSE {})
  BY <1>1, <1>2 DEF ListsUpTo
<1>3. ASSUME q = File, NEW type PROVE ListsUpTo(type, k + 1) = ListsUpTo(type, k)
  BY <1>1, <1>3 DEF ListsUpTo
<1>4. ASSUME q \in Provider PROVE FileUpTo(k + 1) = FileUpTo(k)
  BY <1>1, <1>4 DEF FileUpTo
<1>5. ASSUME q = File PROVE FileUpTo(k + 1) = FileUpTo(k) \cup FileCIDRs
  BY <1>1, <1>5 DEF FileUpTo
<1> QED BY <1>2, <1>3, <1>4, <1>5

(* What a compilation has once it has read a cache, or found it empty, or the file. *)
LEMMA HasOneMore ==
  ASSUME NEW k \in 0..Length - 1, Has(compile, k)
  PROVE  /\ RuleOrder[k + 1] \in Provider =>
              LET lines == cache[RuleOrder[k + 1]].lines
              IN  /\ compile \in CompileType => Has(Gathered(RuleOrder[k + 1], lines), k + 1)
                  /\ lines = {} => Has(compile, k + 1)
         /\ RuleOrder[k + 1] = File =>
              CidrsUpTo(k + 1) = compile.cidrs \cup {ParseIPv4CIDR(l) : l \in FileCIDRs}
              /\ ListsUpTo("domain", k + 1) = compile.names
<1> DEFINE q == RuleOrder[k + 1]
           lines == cache[q].lines
           own == OwnCIDRs \cup FileUpTo(k) \cup ListsUpTo("ip", k)
<1>1. compile.cidrs = {ParseIPv4CIDR(l) : l \in own} /\ compile.names = ListsUpTo("domain", k)
  BY DEF Has, CidrsUpTo
<1>2. ASSUME NEW some PROVE {ParseIPv4CIDR(l) : l \in own \cup some}
                            = compile.cidrs \cup {ParseIPv4CIDR(l) : l \in some}
  BY <1>1
<1> HIDE DEF lines, q
<1>3. ASSUME q \in Provider
      PROVE  /\ compile \in CompileType => Has(Gathered(q, lines), k + 1)
             /\ lines = {} => Has(compile, k + 1)
  <2>1. /\ FileUpTo(k + 1) = FileUpTo(k)
        /\ \A type : ListsUpTo(type, k + 1) =
             ListsUpTo(type, k) \cup (IF Type[q] = type THEN lines ELSE {})
    BY <1>3, OneMoreList DEF q, lines
  <2>2. Type[q] = "domain" \/ Type[q] = "ip"
    BY <1>3, ProvidersAssumption
  <2>3. CASE Type[q] = "domain"
    <3>1. CidrsUpTo(k + 1) = compile.cidrs
      BY <2>1, <2>3, <1>1 DEF CidrsUpTo
    <3>2. ListsUpTo("domain", k + 1) = compile.names \cup lines
      BY <1>1, <2>1, <2>3
    <3>3. compile \in CompileType => /\ Gathered(q, lines).cidrs = compile.cidrs
                                     /\ Gathered(q, lines).names = compile.names \cup lines
      BY <2>3 DEF Gathered, CompileType
    <3> QED BY <3>1, <3>2, <3>3 DEF Has
  <2>4. CASE Type[q] = "ip"
    <3>1. CidrsUpTo(k + 1) = compile.cidrs \cup {ParseIPv4CIDR(l) : l \in lines}
      <4>1. OwnCIDRs \cup FileUpTo(k + 1) \cup ListsUpTo("ip", k + 1) = own \cup lines
        BY <2>1, <2>4
      <4> HIDE DEF own
      <4> QED BY <1>2, <4>1 DEF CidrsUpTo
    <3>2. ListsUpTo("domain", k + 1) = compile.names
      BY <1>1, <2>1, <2>4
    <3>3. compile \in CompileType =>
            /\ Gathered(q, lines).cidrs = compile.cidrs \cup {ParseIPv4CIDR(l) : l \in lines}
            /\ Gathered(q, lines).names = compile.names
      BY <2>4 DEF Gathered, CompileType
    <3> QED BY <3>1, <3>2, <3>3 DEF Has
  <2> QED BY <2>2, <2>3, <2>4
<1>4. ASSUME q = File
      PROVE  /\ CidrsUpTo(k + 1) = compile.cidrs \cup {ParseIPv4CIDR(l) : l \in FileCIDRs}
             /\ ListsUpTo("domain", k + 1) = compile.names
  <2>1. /\ FileUpTo(k + 1) = FileUpTo(k) \cup FileCIDRs
        /\ \A type : ListsUpTo(type, k + 1) = ListsUpTo(type, k)
    BY <1>4, OneMoreList DEF q
  <2>2. OwnCIDRs \cup FileUpTo(k + 1) \cup ListsUpTo("ip", k + 1) = own \cup FileCIDRs
    BY <2>1
  <2> HIDE DEF own
  <2>3. CidrsUpTo(k + 1) = compile.cidrs \cup {ParseIPv4CIDR(l) : l \in FileCIDRs}
    BY <1>2, <2>2 DEF CidrsUpTo
  <2> QED BY <1>1, <2>1, <2>3
<1> QED BY <1>3, <1>4 DEF q, lines

LEMMA SameList ==
  ASSUME NEW c, InPlace(c), NEW d, d.todo = c.todo
  PROVE  InPlace(d) /\ Position(d) = Position(c)
  BY DEF InPlace, Position

(* Only where a compilation begins does it become quiet. *)
LEMMA QuietBefore ==
  ASSUME Typed, [Next]_vars, Quiet'
  PROVE  Quiet \/ BeginCompile
<1>0. job \in [Provider -> JobType] /\ pass \in [Reader -> PassType]
  BY DEF Typed
<1>1. ASSUME NEW p \in Provider, NEW d, job' = [job EXCEPT ![p] = d], UNCHANGED <<lapsed, pass>>,
             job[p].step \in {"idle", "downloaded", "truncate"}
      PROVE  Quiet
  BY <1>0, <1>1 DEF Quiet
<1>2. ASSUME NEW p \in Provider, NEW step, job' = [job EXCEPT ![p].step = step],
             step \notin {"idle", "downloaded", "truncate"}
      PROVE  FALSE
  <2>1. job'[p].step = step
    BY <1>0, <1>2 DEF JobType
  <2> QED BY <1>2, <2>1 DEF Quiet
<1>3. ASSUME NEW p \in Provider, UpdateStep(p) PROVE Quiet \/ BeginCompile
  <2>1. CASE Fetch(p)
    BY <1>1, <2>1 DEF Fetch
  <2>2. CASE Normalize(p)
    BY <1>1, <2>2 DEF Normalize
  <2>3. CASE Truncate(p)
    <3>1. job' = [job EXCEPT ![p].step = "write"] \/ job' = [job EXCEPT ![p].step = "write2"]
      BY <2>3 DEF Truncate
    <3> QED BY <1>2, <3>1
  <2>4. CASE Write(p)
    <3>1. job' = [job EXCEPT ![p].step = "persist"] \/ job' = [job EXCEPT ![p].step = "metadata"]
      BY <2>4 DEF Write
    <3> QED BY <1>2, <3>1
  <2>5. CASE Persist(p)
    <3>1. job' = [job EXCEPT ![p].step = "metadata"] \/ job' = [job EXCEPT ![p].step = "truncate2"]
      BY <2>5 DEF Persist
    <3> QED BY <1>2, <3>1
  <2>6. CASE UpdateMetadata(p)
    BY <1>2, <2>6 DEF UpdateMetadata, Quiet
  <2>7. CASE Restart(p)
    BY <2>7 DEF Restart
  <2> QED BY <1>3, <2>1, <2>2, <2>3, <2>4, <2>5, <2>6, <2>7 DEF UpdateStep
<1>4. ASSUME NEW p \in Provider, NEW r \in Reader, PassStep(r, p) PROVE Quiet
  <2>0. UNCHANGED job
    BY <1>4 DEF PassStep, ReadCache, Restore, Mirror, Compare, TruncateBack, WriteBack
  <2>1. ~lapsed
    <3>1. UNCHANGED lapsed \/ lapsed' = (lapsed \/ r # Service)
      BY <1>4 DEF PassStep, ReadCache, Restore, Mirror, Compare, TruncateBack, WriteBack
    <3>2. ~lapsed'
      BY DEF Quiet
    <3> QED BY <3>1, <3>2, Zenon
  <2>2. \A q \in Reader : q # r => pass'[q] = pass[q]
    BY <1>0, <1>4 DEF PassStep, ReadCache, Restore, Mirror, Compare, TruncateBack, WriteBack,
                      Continue, Finish, Fail, TakeLines
  <2>3. ASSUME r \in Loader PROVE pass[r].step # "write"
    <3>1. ~WriteBack(r, p)
      BY <2>3, ReaderIs DEF WriteBack, Quiet
    <3> QED BY <1>4, <3>1 DEF PassStep, ReadCache, Restore, Mirror, Compare, TruncateBack, At
  <2> QED BY <2>0, <2>1, <2>2, <2>3, ReaderIs DEF Quiet
<1>5. CASE Install \/ RuleFileChanges \/ UNCHANGED vars
  BY <1>5 DEF Install, RuleFileChanges, vars, Quiet
<1>6. CASE ReadFile
  <2>1. \A r \in Loader : pass'[r] = pass[r]
    BY <1>0, <1>6, ReaderIs DEF ReadFile
  <2> QED BY <1>6, <2>1 DEF ReadFile, Quiet
<1>7. CASE Start
  BY <1>7 DEF Start
<1>8. CASE PowerLoss
  BY <1>8 DEF PowerLoss, Quiet
<1>9. ASSUME NEW r \in Loader, BeginLoad(r) PROVE Quiet
  <2>1. pass[r].step # "write"
    BY <1>9 DEF BeginLoad
  <2>2. \A q \in Loader : q # r => pass'[q] = pass[q]
    BY <1>0, <1>9, ReaderIs DEF BeginLoad
  <2> QED BY <1>9, <2>1, <2>2 DEF BeginLoad, Quiet
<1> QED BY <1>3, <1>4, <1>5, <1>6, <1>7, <1>8, <1>9 DEF Next

LEMMA MissingKept ==
  ASSUME Typed, Missing, NEW p \in Provider, NEW lines,
         cache' = [cache EXCEPT ![p] = [there |-> TRUE, lines |-> lines]]
  PROVE  Missing'
<1>1. \A q \in Provider : cache'[q] = IF q = p THEN [there |-> TRUE, lines |-> lines] ELSE cache[q]
  BY DEF Typed
<1> QED BY <1>1 DEF Missing

(* The lists, as far as they are read, where the caches do not change. *)
LEMMA SameLists ==
  ASSUME cache' = cache, NEW k
  PROVE  /\ (CidrsUpTo(k))' = CidrsUpTo(k)
         /\ (ListsUpTo("domain", k))' = ListsUpTo("domain", k)
  BY DEF CidrsUpTo, ListsUpTo, FileUpTo

LEMMA SameUndisturbed ==
  ASSUME cache' = cache, Undisturbed(compile', pass'[Service])
  PROVE  Undisturbed(compile, pass[Service])'
<1>1. Has(compile, Reads(compile, pass[Service]))'
  BY SameLists DEF Undisturbed, Has, Reads, Position
<1> QED BY <1>1 DEF Undisturbed

(* Steps that leave the compilation and the table as they are. *)
LEMMA SameCollected ==
  ASSUME Collected, UNCHANGED <<compile, table>>, pass'[Service] = pass[Service],
         Missing', Crossable',
         Quiet' => Quiet /\ cache' = cache /\ (Service \in crossed' => Service \in crossed)
  PROVE  Collected'
<1>1. ASSUME Quiet', compile'.on
      PROVE  Undisturbed(compile, pass[Service])' /\ Service \notin crossed'
  BY <1>1, SameUndisturbed DEF Collected
<1>2. ASSUME Quiet', table'.up
      PROVE  /\ table'.cidrs = NormalizeIPv4CIDRs((CidrsUpTo(Length))')
             /\ table'.names = (ListsUpTo("domain", Length))'
  BY <1>2, SameLists DEF Collected
<1>3. compile'.on => InPlace(compile)'
  BY DEF Collected, InPlace, Position
<1> QED BY <1>1, <1>2, <1>3 DEF Collected

(* Steps of a compilation. *)
LEMMA StepCollected ==
  ASSUME Collected, compile.on, UNCHANGED <<table, job, lapsed>>,
         \A r \in Loader : pass'[r] = pass[r],
         Missing', Service \notin crossed', compile'.on => InPlace(compile'),
         Quiet /\ compile'.on => cache' = cache /\ Undisturbed(compile', pass'[Service])
  PROVE  Collected'
<1>1. ~table'.up
  BY DEF Collected
<1>2. Quiet' = Quiet
  BY DEF Quiet
<1>3. compile'.on => InPlace(compile)'
  BY DEF InPlace, Position
<1>4. ASSUME Quiet', compile'.on PROVE Undisturbed(compile, pass[Service])'
  BY <1>2, <1>4, SameUndisturbed
<1> QED BY <1>1, <1>3, <1>4 DEF Collected, Crossable

LEMMA PassOfIs ==
  ASSUME NEW todo
  PROVE  PassOf(todo).step \in {"idle", "read"}
  BY DEF PassOf, NoPass, Reading

(* The compilation begins. *)
LEMMA BeginCollected ==
  ASSUME Typed, Collected, BeginCompile
  PROVE  Collected'
<1>1. /\ compile' = [on |-> TRUE, todo |-> RuleOrder,
                     cidrs |-> {ParseIPv4CIDR(l) : l \in OwnCIDRs}, names |-> {}]
      /\ table' = NoTable /\ cache' = cache /\ crossed' = crossed
  BY DEF BeginCompile
<1>2. pass[Service].step = "idle" /\ pass'[Service] = PassOf(RuleOrder)
  BY ReaderIs DEF BeginCompile, Typed, AtHead
<1>3. compile'.todo = RuleOrder /\ compile'.cidrs = {ParseIPv4CIDR(l) : l \in OwnCIDRs}
      /\ compile'.names = {}
  BY <1>1
<1>4. Position(compile') = 0 /\ Len(RuleOrder) \in Nat
  BY <1>3, OrderIs DEF Position, Length
<1>5. InPlace(compile')
  <2>1. \A i \in 1..Len(RuleOrder) : Position(compile') + i = i
    BY <1>4
  <2> QED BY <1>3, <1>4, <2>1 DEF InPlace, Length
<1>6. Has(compile', 0)
  BY <1>3 DEF Has, CidrsUpTo, ListsUpTo, FileUpTo
<1>7. Undisturbed(compile', pass'[Service])
  <2>1. pass'[Service].step \in {"idle", "read"}
    BY <1>2, PassOfIs
  <2> QED BY <1>4, <1>6, <2>1 DEF Undisturbed, Reads, Watching
<1>8. Service \notin crossed'
  BY <1>1, <1>2 DEF Collected, Crossable, Watching
<1>9. ~table'.up /\ Missing'
  BY <1>1 DEF NoTable, Missing, Collected
<1>10. Undisturbed(compile, pass[Service])'
  BY <1>1, <1>7, SameUndisturbed
<1>11. InPlace(compile)'
  BY <1>5 DEF InPlace, Position
<1> QED BY <1>8, <1>9, <1>10, <1>11 DEF Collected, Crossable

(* Who else writes or reads, cannot cross a compilation that is not reading. *)
LEMMA CrossableKept ==
  ASSUME Collected, NEW who, NEW p \in Provider, Crosses(who, p) \/ Goes(who) \/ UNCHANGED crossed,
         pass'[Service] = pass[Service], Service \notin Provider
  PROVE  Crossable'
  BY DEF Collected, Crossable, Crosses, Goes, Watchers, Watching

(* The steps of an update, and of the pass of another command. *)
LEMMA UpdateCollected ==
  ASSUME Typed, Collected, NEW p \in Provider, UpdateStep(p), [Next]_vars
  PROVE  Collected'
<1>1. Missing /\ Service \notin Provider
  BY ListsAssumption DEF Collected, Reader
<1>2. CASE Restart(p)
  BY <1>2, BeginCollected DEF Restart
<1>3. CASE Fetch(p) \/ Normalize(p) \/ Persist(p) \/ UpdateMetadata(p)
  <2>1. UNCHANGED <<cache, compile, pass, table>>
    BY <1>3 DEF Fetch, Normalize, Persist, UpdateMetadata, policy
  <2>2. Quiet' => Quiet
    <3>1. ASSUME BeginCompile PROVE FALSE
      BY <2>1, <3>1 DEF BeginCompile
    <3> QED BY <3>1, QuietBefore
  <2>3. Missing'
    BY <1>1, <2>1 DEF Missing
  <2>4. Goes(p) \/ UNCHANGED crossed
    BY <1>3 DEF Fetch, Normalize, Persist, UpdateMetadata
  <2>5. Crossable'
    BY <1>1, <2>1, <2>4, CrossableKept
  <2>6. Service \in crossed' => Service \in crossed
    BY <2>4 DEF Goes
  <2> QED BY <2>1, <2>2, <2>3, <2>5, <2>6, SameCollected
<1>4. CASE Truncate(p) \/ Write(p)
  <2>1. UNCHANGED <<compile, pass, table>>
    BY <1>4 DEF Truncate, Write, policy
  <2>2. ~Quiet'
    <3>1. \E step \in {"write", "write2", "persist", "metadata"} :
            job' = [job EXCEPT ![p].step = step]
      BY <1>4 DEF Truncate, Write
    <3>2. job'[p].step \in {"write", "write2", "persist", "metadata"}
      BY <3>1 DEF Typed, JobType
    <3> QED BY <3>2 DEF Quiet
  <2>3. \E lines : cache' = [cache EXCEPT ![p] = [there |-> TRUE, lines |-> lines]]
    BY <1>4 DEF Truncate, Write, Empty, Overwrite
  <2>4. Missing'
    BY <1>1, <2>3, MissingKept
  <2>5. Crossable'
    BY <1>1, <1>4, <2>1, CrossableKept DEF Truncate, Write
  <2> QED BY <2>1, <2>2, <2>4, <2>5, SameCollected
<1> QED BY <1>2, <1>3, <1>4 DEF UpdateStep

LEMMA OthersPassCollected ==
  ASSUME Typed, Collected, NEW p \in Provider, NEW r \in Loader, PassStep(r, p), [Next]_vars
  PROVE  Collected'
<1>1. Missing /\ r # Service /\ r \in Reader /\ Service \notin Provider
  BY ListsAssumption, ReaderIs DEF Collected, Reader
<1>2. UNCHANGED <<compile, table>> /\ pass'[Service] = pass[Service]
  BY <1>1, ReaderIs DEF PassStep, ReadCache, Restore, Mirror, Compare, TruncateBack, WriteBack,
         Continue, Finish, Fail, TakeLines, policy, Typed
<1>3. CASE ReadCache(r, p) \/ Restore(r, p) \/ Mirror(r, p) \/ Compare(r, p)
  <2>1. UNCHANGED <<cache, job, lapsed>> /\ Goes(r)
    BY <1>3 DEF ReadCache, Restore, Mirror, Compare
  <2>2. Quiet' => Quiet
    <3>1. ASSUME BeginCompile PROVE FALSE
      BY <1>2, <3>1 DEF BeginCompile
    <3> QED BY <3>1, QuietBefore
  <2>3. Missing' /\ Crossable' /\ (Service \in crossed' => Service \in crossed)
    BY <1>1, <1>2, <2>1, CrossableKept DEF Missing, Goes
  <2> QED BY <1>2, <2>1, <2>2, <2>3, SameCollected
<1>4. CASE TruncateBack(r, p) \/ WriteBack(r, p)
  <2>1. ~Quiet'
    <3>1. CASE TruncateBack(r, p)
      <4>1. pass'[r].step = "write"
        BY <1>1, <3>1 DEF TruncateBack, Continue, Typed, PassType
      <4> QED BY <4>1 DEF Quiet
    <3>2. CASE WriteBack(r, p)
      BY <1>1, <3>2 DEF WriteBack, Quiet
    <3> QED BY <1>4, <3>1, <3>2
  <2>2. \E lines : cache' = [cache EXCEPT ![p] = [there |-> TRUE, lines |-> lines]]
    BY <1>4 DEF TruncateBack, WriteBack, Empty, Overwrite
  <2>3. Missing'
    BY <1>1, <2>2, MissingKept
  <2>4. Crossable'
    BY <1>1, <1>2, <1>4, CrossableKept DEF TruncateBack, WriteBack
  <2> QED BY <1>2, <2>1, <2>3, <2>4, SameCollected
<1> QED BY <1>3, <1>4 DEF PassStep

(* A compilation that has what a list adds goes on to the next one. *)
LEMMA FinishCollected ==
  ASSUME Typed, Collected, compile.on, pass[Service].step # "idle",
         UNCHANGED <<cache, table, job, lapsed>>, Service \notin crossed',
         NEW g \in CompileType, g.todo = compile.todo, g.on = compile.on, Finish(Service, g),
         Quiet => Has(g, Position(compile) + 1)
  PROVE  Collected'
<1>1. /\ compile' = Advanced(g)
      /\ pass' = [pass EXCEPT ![Service] = PassOf(Tail(compile.todo))]
  BY DEF Finish, Advanced
<1>2. compile.todo # <<>> /\ InPlace(compile) /\ Missing
  BY DEF Typed, AtHead, Collected
<1>3. InPlace(g) /\ Position(g) = Position(compile)
  BY <1>2, SameList
<1>4. InPlace(compile') /\ Position(compile') = Position(compile) + 1
  BY <1>1, <1>2, <1>3, NextInPlace
<1>5. compile'.cidrs = g.cidrs /\ compile'.names = g.names
  BY <1>1, <1>2, StillCompile
<1>6. pass'[Service].step \in {"idle", "read"} /\ \A r \in Loader : pass'[r] = pass[r]
  BY <1>1, PassOfIs, ReaderIs DEF Typed
<1>7. ASSUME Quiet PROVE Undisturbed(compile', pass'[Service])
  <2>1. Has(compile', Position(compile'))
    BY <1>4, <1>5, <1>7 DEF Has
  <2> QED BY <1>6, <2>1 DEF Undisturbed, Reads, Watching
<1>8. Missing'
  BY <1>2 DEF Missing
<1> QED BY <1>4, <1>6, <1>7, <1>8, StepCollected

(* It stays with the same list. *)
LEMMA ContinueCollected ==
  ASSUME Typed, Collected, compile.on, Missing', UNCHANGED <<table, job, lapsed>>,
         Service \notin crossed', compile'.on = compile.on, compile'.todo = compile.todo,
         NEW next, pass' = [pass EXCEPT ![Service] = next],
         Quiet => /\ cache' = cache /\ next.step \in Watching
                  /\ next.step = "restore" => ~cache[next.at].there
                  /\ next.step = "compare" => cache[next.at].lines = next.data
                  /\ Has(compile', IF next.step \in {"mirror", "compare"}
                                   THEN Position(compile) + 1 ELSE Position(compile))
  PROVE  Collected'
<1>1. InPlace(compile') /\ Position(compile') = Position(compile)
  BY SameList DEF Collected
<1>2. pass'[Service] = next /\ \A r \in Loader : pass'[r] = pass[r]
  BY ReaderIs DEF Typed
<1>3. ASSUME Quiet PROVE Undisturbed(compile', pass'[Service])
  <2>1. Reads(compile', next) = IF next.step \in {"mirror", "compare"}
                                THEN Position(compile) + 1 ELSE Position(compile)
    BY <1>1 DEF Reads
  <2> QED BY <1>2, <1>3, <2>1 DEF Undisturbed
<1> QED BY <1>1, <1>2, <1>3, StepCollected

(* The steps of the compilation's own pass. *)
LEMMA OwnPassCollected ==
  ASSUME Typed, Collected, NEW p \in Provider, PassStep(Service, p)
  PROVE  Collected'
<1> DEFINE k == Position(compile)
           s == pass[Service]
<1>0. /\ compile \in CompileType /\ s \in PassType /\ s.at = p /\ s.step # "idle"
      /\ Service \in Reader
  BY ReaderIs DEF Typed, PassStep, ReadCache, Restore, Mirror, Compare, TruncateBack,
         WriteBack, At
<1>1. /\ compile.on /\ compile.todo # <<>> /\ Head(compile.todo) = p
      /\ InPlace(compile) /\ Missing
      /\ Quiet => Undisturbed(compile, s) /\ Service \notin crossed
  BY <1>0 DEF Typed, AtHead, Collected
<1>2. k \in 0..Length - 1 /\ RuleOrder[k + 1] = p
  BY <1>0, <1>1, NextInPlace
<1>3. ASSUME Has(compile, k), cache[p].lines = {} PROVE Has(compile, k + 1)
  BY <1>2, <1>3, HasOneMore
<1>4. ASSUME Quiet, NEW lines \in Readings(Service, p) PROVE lines = cache[p].lines
  <2>1. \A r \in Reader : pass[r].step # "write"
    BY <1>1, <1>4, ReaderIs DEF Quiet, Undisturbed, Watching, Reader
  <2>2. BeingWritten(p) = {}
    BY <1>4, <2>1 DEF BeingWritten, Quiet
  <2> QED BY <1>1, <1>4, <2>2 DEF Readings, Disturbed
<1>5. ASSUME UNCHANGED cache PROVE Missing'
  BY <1>1, <1>5 DEF Missing
<1>6. CASE ReadCache(Service, p)
  <2>0. /\ UNCHANGED <<cache, table, job, lapsed>> /\ s.step = "read" /\ Missing'
        /\ Service \notin crossed' /\ (Quiet => Has(compile, k))
    BY <1>1, <1>5, <1>6 DEF ReadCache, At, Goes, Undisturbed, Reads
  <2>1. CASE ~cache[p].there
    <3>1. cache[p].lines = {}
      BY <1>1, <2>1 DEF Missing
    <3>2. CASE p \in Default
      <4> DEFINE next == [s EXCEPT !.step = "restore"]
      <4>1. next.step = "restore" /\ next.at = p
        BY <1>0 DEF PassType
      <4>2. pass' = [pass EXCEPT ![Service] = next] /\ compile' = compile
        BY <1>6, <2>1, <3>2 DEF ReadCache, Continue
      <4> HIDE DEF next, k, s
      <4>3. Quiet => /\ cache' = cache /\ next.step \in Watching
                     /\ next.step = "restore" => ~cache[next.at].there
                     /\ next.step = "compare" => cache[next.at].lines = next.data
                     /\ Has(compile', IF next.step \in {"mirror", "compare"}
                                      THEN Position(compile) + 1 ELSE Position(compile))
        BY <2>0, <2>1, <4>1, <4>2 DEF Watching, k
      <4> QED BY <1>1, <2>0, <4>2, <4>3, ContinueCollected
    <3>3. CASE p \notin Default
      <4>1. Finish(Service, compile)
        BY <1>6, <2>1, <3>3 DEF ReadCache
      <4>2. Quiet => Has(compile, k + 1)
        BY <1>3, <2>0, <3>1
      <4> QED BY <1>0, <1>1, <2>0, <4>1, <4>2, FinishCollected
    <3> QED BY <3>2, <3>3
  <2>2. CASE cache[p].there
    <3>1. PICK lines \in Readings(Service, p) : Fail(Service) \/ TakeLines(Service, p, lines)
      BY <1>6, <2>2 DEF ReadCache
    <3> DEFINE g == Gathered(p, lines)
    <3>2. g \in CompileType /\ g.todo = compile.todo /\ g.on = compile.on
      BY ReadingsAre, GatheredTyped
    <3>3. ASSUME Quiet PROVE Has(g, k + 1)
      <4>1. lines = cache[p].lines
        BY <1>4, <3>3
      <4>2. Has(compile, k)
        BY <2>0, <3>3
      <4> HIDE DEF k
      <4> QED BY <1>0, <1>2, <4>1, <4>2, HasOneMore
    <3> HIDE DEF g
    <3>4. CASE Fail(Service)
      <4>1. ~compile'.on /\ \A r \in Loader : pass'[r] = pass[r]
        BY <3>4, ReaderIs DEF Fail, NoCompile, Typed
      <4> QED BY <1>1, <2>0, <4>1, StepCollected
    <3>5. CASE TakeLines(Service, p, lines)
      <4>1. CASE Mirrored(Service, p)
        <5> DEFINE next == [Reading(p) EXCEPT !.step = "mirror"]
        <5>1. pass' = [pass EXCEPT ![Service] = next] /\ compile' = g
          BY <3>5, <4>1 DEF TakeLines, g
        <5>2. next.step = "mirror"
          BY DEF Reading
        <5> HIDE DEF next, k, s
        <5>3. Quiet => /\ cache' = cache /\ next.step \in Watching
                       /\ next.step = "restore" => ~cache[next.at].there
                       /\ next.step = "compare" => cache[next.at].lines = next.data
                       /\ Has(compile', IF next.step \in {"mirror", "compare"}
                                        THEN Position(compile) + 1 ELSE Position(compile))
          BY <2>0, <3>3, <5>1, <5>2 DEF Watching, k
        <5> QED BY <1>1, <2>0, <3>2, <5>1, <5>3, ContinueCollected
      <4>2. CASE ~Mirrored(Service, p)
        <5>1. Finish(Service, g)
          BY <3>5, <4>2 DEF TakeLines, g
        <5> QED BY <1>0, <1>1, <2>0, <3>2, <3>3, <5>1, FinishCollected
      <4> QED BY <4>1, <4>2
    <3> QED BY <3>1, <3>4, <3>5
  <2> QED BY <2>1, <2>2
<1>7. CASE Restore(Service, p)
  <2>0. /\ UNCHANGED <<cache, table, job, lapsed>> /\ s.step = "restore" /\ Missing'
        /\ Service \notin crossed' /\ (Quiet => Has(compile, k) /\ ~cache[p].there)
    BY <1>0, <1>1, <1>5, <1>7 DEF Restore, At, Goes, Undisturbed, Reads, policy
  <2>1. CASE ~cache[p].there
    <3>1. Finish(Service, compile) /\ cache[p].lines = {}
      BY <1>1, <1>7, <2>1 DEF Restore, Missing
    <3>2. Quiet => Has(compile, k + 1)
      BY <1>3, <2>0, <3>1
    <3> QED BY <1>0, <1>1, <2>0, <3>1, <3>2, FinishCollected
  <2>2. CASE cache[p].there
    <3>1. PICK next : pass' = [pass EXCEPT ![Service] = next] /\ compile' = compile
      BY <1>7, <2>2 DEF Restore, Continue
    <3>2. ~Quiet
      BY <2>0, <2>2
    <3> QED BY <1>1, <2>0, <3>1, <3>2, ContinueCollected
  <2> QED BY <2>1, <2>2
<1>8. CASE Mirror(Service, p)
  <2>0. /\ UNCHANGED <<cache, table, job, lapsed>> /\ s.step = "mirror" /\ Missing'
        /\ Service \notin crossed' /\ (Quiet => Has(compile, k + 1))
    BY <1>1, <1>5, <1>8 DEF Mirror, At, Goes, Undisturbed, Reads, policy
  <2>1. PICK lines \in Readings(Service, p) :
          Continue(Service, [step |-> "compare", at |-> p, data |-> lines, restored |-> FALSE,
                             torn |-> NotMeant(p, lines)])
    BY <1>8 DEF Mirror
  <2> DEFINE next == [step |-> "compare", at |-> p, data |-> lines, restored |-> FALSE,
                      torn |-> NotMeant(p, lines)]
  <2>2. /\ next.step = "compare" /\ next.at = p /\ next.data = lines
        /\ pass' = [pass EXCEPT ![Service] = next] /\ compile' = compile
    BY <2>1 DEF Continue
  <2> HIDE DEF next, k, s
  <2>3. Quiet => /\ cache' = cache /\ next.step \in Watching
                 /\ next.step = "restore" => ~cache[next.at].there
                 /\ next.step = "compare" => cache[next.at].lines = next.data
                 /\ Has(compile', IF next.step \in {"mirror", "compare"}
                                  THEN Position(compile) + 1 ELSE Position(compile))
    BY <1>4, <2>0, <2>2 DEF Watching, k
  <2> QED BY <1>1, <2>0, <2>2, <2>3, ContinueCollected
<1>9. CASE Compare(Service, p)
  <2>0. /\ UNCHANGED <<cache, table, job, lapsed>> /\ s.step = "compare" /\ Missing'
        /\ Service \notin crossed'
        /\ (Quiet => Has(compile, k + 1) /\ cache[p].lines = s.data)
    BY <1>0, <1>1, <1>5, <1>9 DEF Compare, At, Goes, Undisturbed, Reads, policy
  <2>1. PICK lines \in Readings(Service, p) :
          IF lines = s.data THEN Finish(Service, compile)
          ELSE Continue(Service, [s EXCEPT !.step = "truncate"])
    BY <1>9 DEF Compare
  <2>2. CASE lines = s.data
    BY <1>0, <1>1, <2>0, <2>1, <2>2, FinishCollected
  <2>3. CASE lines # s.data
    <3>1. PICK next : pass' = [pass EXCEPT ![Service] = next] /\ compile' = compile
      BY <2>1, <2>3 DEF Continue
    <3>2. ~Quiet
      BY <1>4, <2>0, <2>3
    <3> QED BY <1>1, <2>0, <3>1, <3>2, ContinueCollected
  <2> QED BY <2>2, <2>3
<1>10. CASE TruncateBack(Service, p) \/ WriteBack(Service, p)
  <2>0. UNCHANGED <<table, job>> /\ (lapsed' = lapsed) /\ ~Quiet /\ Service \notin crossed'
    BY <1>0, <1>1, <1>10 DEF TruncateBack, WriteBack, At, Undisturbed, Watching, Crosses,
                             policy, Typed
  <2>1. \E lines : cache' = [cache EXCEPT ![p] = [there |-> TRUE, lines |-> lines]]
    BY <1>10 DEF TruncateBack, WriteBack, Empty, Overwrite
  <2>2. Missing'
    BY <1>1, <2>1, MissingKept
  <2>3. CASE Finish(Service, compile)
    <3>1. /\ compile' = Advanced(compile)
          /\ pass' = [pass EXCEPT ![Service] = PassOf(Tail(compile.todo))]
      BY <2>3 DEF Finish, Advanced
    <3>2. InPlace(compile') /\ \A r \in Loader : pass'[r] = pass[r]
      BY <1>0, <1>1, <3>1, NextInPlace, ReaderIs DEF Typed
    <3> QED BY <1>1, <2>0, <2>2, <3>2, StepCollected
  <2>4. ASSUME NEW next, Continue(Service, next) PROVE Collected'
    <3>1. pass' = [pass EXCEPT ![Service] = next] /\ compile' = compile
      BY <2>4 DEF Continue
    <3> QED BY <1>1, <2>0, <2>2, <3>1, ContinueCollected
  <2> QED BY <1>10, <2>3, <2>4 DEF TruncateBack, WriteBack
<1> QED BY <1>6, <1>7, <1>8, <1>9, <1>10 DEF PassStep

LEMMA InitCollected == Init => Collected
  BY DEF Init, Collected, Missing, Crossable, NoCache, NoCompile, NoTable

LEMMA ReadFileCollected == ASSUME Typed, Collected, ReadFile PROVE Collected'
<1> DEFINE k == Position(compile)
           files == {ParseIPv4CIDR(l) : l \in FileCIDRs}
<1>0. /\ UNCHANGED <<cache, table, job, lapsed, crossed>>
      /\ compile \in CompileType /\ compile.on /\ compile.todo # <<>>
      /\ Head(compile.todo) = File /\ InPlace(compile) /\ Missing
      /\ pass[Service].step = "idle" /\ pass \in [Reader -> PassType]
  BY ProvidersAssumption DEF ReadFile, Typed, AtHead, Collected
<1>1. Missing' /\ Service \notin crossed'
  BY <1>0 DEF Missing, Collected, Crossable, Watching
<1>2. Quiet => Has(compile, k)
  BY <1>0 DEF Collected, Undisturbed, Reads
<1>3. /\ k \in 0..Length - 1 /\ RuleOrder[k + 1] = File
      /\ InPlace(Advanced(compile)) /\ Position(Advanced(compile)) = k + 1
  BY <1>0, NextInPlace
<1>4. Quiet => /\ CidrsUpTo(k + 1) = compile.cidrs \cup files
               /\ ListsUpTo("domain", k + 1) = compile.names
  BY <1>2, <1>3, HasOneMore
<1> HIDE DEF k, files
<1>5. CASE ruleFile
  <2> DEFINE rest == Tail(compile.todo)
  <2>1. /\ compile' = [compile EXCEPT !.todo = rest, !.cidrs = @ \cup files]
        /\ pass' = [pass EXCEPT ![Service] = PassOf(rest)]
    BY <1>5 DEF ReadFile, files
  <2>2. /\ pass'[Service].step \in {"idle", "read"}
        /\ \A r \in Loader : pass'[r] = pass[r]
    BY <1>0, <2>1, PassOfIs, ReaderIs
  <2>3. Advanced(compile).todo = rest
    BY <1>0, StillCompile
  <2> HIDE DEF rest
  <2>4. /\ compile'.on = compile.on /\ compile'.todo = rest
        /\ compile'.cidrs = compile.cidrs \cup files /\ compile'.names = compile.names
    BY <1>0, <2>1 DEF CompileType
  <2>5. InPlace(compile') /\ Position(compile') = k + 1
    BY <1>3, <2>3, <2>4, SameList
  <2>6. ASSUME Quiet PROVE Undisturbed(compile', pass'[Service])
    <3>1. Has(compile', k + 1)
      BY <1>4, <2>4, <2>6 DEF Has
    <3> QED BY <2>2, <2>5, <3>1 DEF Undisturbed, Reads, Watching
  <2> QED BY <1>0, <1>1, <2>2, <2>5, <2>6, StepCollected
<1>6. CASE ~ruleFile
  <2>1. ~compile'.on /\ pass' = pass
    BY <1>6 DEF ReadFile, NoCompile
  <2> QED BY <1>0, <1>1, <2>1, StepCollected
<1> QED BY <1>5, <1>6

LEMMA InstallCollected == ASSUME Typed, Collected, Install PROVE Collected'
<1>0. Missing /\ Crossable
  BY DEF Collected
<1>1. /\ UNCHANGED <<cache, job, lapsed, pass, crossed>> /\ ~compile'.on /\ compile.on
      /\ compile.todo = <<>>
      /\ table'.cidrs = NormalizeIPv4CIDRs(compile.cidrs) /\ table'.names = compile.names
  BY DEF Install, NoCompile
<1>2. Position(compile) = Length /\ pass[Service].step = "idle"
  BY <1>1, OrderIs DEF Position, Typed, AtHead
<1>3. Quiet => Has(compile, Length)
  BY <1>1, <1>2 DEF Collected, Undisturbed, Reads
<1>4. Quiet' = Quiet /\ Missing' /\ Crossable'
  BY <1>0, <1>1 DEF Quiet, Missing, Crossable
<1>5. Quiet' => /\ table'.cidrs = NormalizeIPv4CIDRs((CidrsUpTo(Length))')
                /\ table'.names = (ListsUpTo("domain", Length))'
  BY <1>1, <1>3, <1>4, SameLists DEF Has
<1> QED BY <1>1, <1>4, <1>5 DEF Collected

LEMMA NextCollected == Typed /\ Collected /\ [Next]_vars => Collected'
<1> SUFFICES ASSUME Typed, Collected, [Next]_vars PROVE Collected'
  OBVIOUS
<1>0. Missing /\ Crossable /\ (Quiet' => Quiet \/ BeginCompile) /\ Service \notin Provider
  BY QuietBefore, ListsAssumption DEF Collected, Reader
<1>1. ASSUME NEW p \in Provider, UpdateStep(p) PROVE Collected'
  BY <1>1, UpdateCollected
<1>2. ASSUME NEW p \in Provider, NEW r \in Reader, PassStep(r, p) PROVE Collected'
  <2>1. CASE r = Service
    BY <1>2, <2>1, OwnPassCollected
  <2>2. CASE r # Service
    BY <1>2, <2>2, OthersPassCollected DEF Reader
  <2> QED BY <2>1, <2>2
<1>3. CASE Start
  BY <1>3, BeginCollected DEF Start
<1>4. CASE ReadFile
  BY <1>4, ReadFileCollected
<1>5. CASE Install
  BY <1>5, InstallCollected
<1>6. ASSUME UNCHANGED <<cache, job, compile, table, lapsed, crossed>>,
             pass'[Service] = pass[Service], ~BeginCompile
      PROVE  Collected'
  <2>1. Missing' /\ Crossable' /\ (Quiet' => Quiet)
    BY <1>0, <1>6 DEF Missing, Crossable
  <2> QED BY <1>6, <2>1, SameCollected
<1>7. CASE RuleFileChanges \/ UNCHANGED vars
  <2>1. UNCHANGED <<cache, job, compile, table, lapsed, crossed, pass>>
    BY <1>7 DEF RuleFileChanges, vars, policy
  <2>2. ~BeginCompile
    <3>1. ASSUME BeginCompile PROVE FALSE
      BY <2>1, <3>1 DEF BeginCompile
    <3> QED BY <3>1
  <2> QED BY <1>6, <2>1, <2>2
<1>8. ASSUME NEW r \in Loader, BeginLoad(r) PROVE Collected'
  <2>1. UNCHANGED <<cache, job, compile, table, lapsed, crossed>>
    BY <1>8 DEF BeginLoad, policy
  <2>2. pass'[Service] = pass[Service]
    BY <1>8, ReaderIs DEF BeginLoad, Typed
  <2>3. ~BeginCompile
    <3>1. ASSUME BeginCompile PROVE FALSE
      BY <2>1, <3>1 DEF BeginCompile
    <3> QED BY <3>1
  <2> QED BY <1>6, <2>1, <2>2, <2>3
<1>9. CASE PowerLoss
  <2>1. compile' = NoCompile /\ table' = NoTable /\ crossed' = {} /\ ~Quiet'
    BY <1>9 DEF PowerLoss, Quiet
  <2>2. Missing'
    <3>1. PICK half, after : cache' = [p \in Provider |->
                               IF p \in half THEN [there |-> TRUE, lines |-> after[p]] ELSE cache[p]]
      BY <1>9 DEF PowerLoss
    <3> QED BY <1>0, <3>1 DEF Missing
  <2> QED BY <2>1, <2>2 DEF Collected, Crossable, NoCompile, NoTable
<1> QED BY <1>1, <1>2, <1>3, <1>4, <1>5, <1>7, <1>8, <1>9 DEF Next

(* At the end of the order all its lists have been read. *)
LEMMA AllRead ==
  /\ FileUpTo(Length) = FileCIDRs
  /\ \A type : ListsUpTo(type, Length) = ListsOf(type)
<1>0. DOMAIN RuleOrder = 1..Length
  BY ListsAssumption DEF Length
<1>1. FileUpTo(Length) = FileCIDRs
  BY <1>0, ListsAssumption DEF FileUpTo, Range
<1>2. ASSUME NEW type PROVE ListsUpTo(type, Length) = ListsOf(type)
  BY <1>0 DEF ListsUpTo, ListsOf, Range
<1> QED BY <1>1, <1>2

(* Once every update that wrote its cache has restarted the service, or given up   *)
(* and seen another restart, the table covers the addresses of the rule's own      *)
(* networks, of its file and of its lists in the caches, and names what they name; *)
(* whatever order the steps took, and however many other commands read, restore    *)
(* and mirror the caches meanwhile, as long as none of them has written one back   *)
(* since the restart: TableIsCurrent for every instance.                           *)
THEOREM TableFollowsCaches == Spec => []TableIsCurrent
<1>1. Typed /\ Collected => TableIsCurrent
  <2> SUFFICES ASSUME Typed, Collected, Settled
               PROVE  /\ Covered(table.cidrs) = Covered({ParseIPv4CIDR(l) : l \in
                                         OwnCIDRs \cup FileCIDRs \cup ListsOf("ip")})
                      /\ table.names = ListsOf("domain")
    BY DEF TableIsCurrent
  <2>1. /\ table.cidrs = NormalizeIPv4CIDRs(CidrsUpTo(Length))
        /\ table.names = ListsUpTo("domain", Length)
    BY ReaderIs DEF Collected, Settled, Quiet
  <2> DEFINE lines == OwnCIDRs \cup FileCIDRs \cup ListsOf("ip")
             nets == {ParseIPv4CIDR(l) : l \in lines}
  <2>2. CidrsUpTo(Length) = nets
    BY AllRead DEF CidrsUpTo
  <2>3. lines \in SUBSET Line
    <3>1. \A p \in Provider : cache[p].lines \in SUBSET Line
      BY DEF Typed, CacheType
    <3>2. ListsOf("ip") \in SUBSET Line
      BY <3>1 DEF ListsOf
    <3> QED BY <3>2, ListsAssumption
  <2> HIDE DEF lines
  <2>4. nets \in SUBSET Net
    BY <2>3, ParsedLines
  <2> HIDE DEF nets
  <2>5. Covered(NormalizeIPv4CIDRs(nets)) = Covered(nets)
    BY <2>4, Normalizes DEF Canonical
  <2> QED BY <2>1, <2>2, <2>5, AllRead DEF nets, lines
<1>2. Init => Typed /\ Collected
  BY InitTyped, InitCollected
<1>3. Typed /\ Collected /\ [Next]_vars => Typed' /\ Collected'
  BY NextTyped, NextCollected
<1> QED BY <1>1, <1>2, <1>3, PTL DEF Spec
=============================================================================
