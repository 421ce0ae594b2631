-------------------------- MODULE ConfigFileProofs --------------------------
(***************************************************************************)
(* Proofs about ConfigFile, for all processes, subscriptions, links, pools *)
(* and numbers of commands: what the processes keep true of the file and   *)
(* of their own copies of it, and, with the lemmas of ApplyNodesProofs,    *)
(* what a refresh makes of the nodes and their tags.                       *)
(***************************************************************************)
EXTENDS ApplyNodesProofs

JobState == [step : {"idle", "fetch", "truncate", "write", "refused"},
             todo : Seq(Sub \cup {Manual, Metadata}),
             links : Seq(Link), read : Content]

(* A process that runs has something to update. *)
Ready(d) == d.step # "idle" => d.todo # <<>>

(* What a process is about to write has been checked: that is what survives *)
(* whatever the other processes and the user do to the file meanwhile.      *)
Checked(d) == d.step \in {"truncate", "write"} => Accepted(Updated(d))

(* A process that refuses an update has found it wrong. *)
Caused(d) == d.step = "refused" => ~Valid(Head(d.todo), d.read, d.links)

InOrder(d) == d \in JobState /\ Ready(d) /\ Checked(d) /\ Caused(d)

JobsOk == TypeOK /\ \A j \in Job : InOrder(job[j])
-----------------------------------------------------------------------------
(* What a server may offer is a list of links. *)
LEMMA NodesType == Nodes \subseteq Seq(Link)
<1> SUFFICES ASSUME NEW list \in Lists PROVE ParseLinks(list) \in Seq(Link)
  BY DEF Nodes
<1> DEFINE I == {i \in DOMAIN list : Parses(Entry[list[i]])}
<1>1. list \in Seq(Link)
  BY LinksAssumption
<1>2. Pick(list, I) \in Seq(Link)
  <2> HIDE DEF I
  <2> QED BY <1>1, PickRange
<1> QED BY <1>2 DEF ParseLinks

(* The contents the model starts from, and those of a file that was cut short. *)
LEMMA BlankType == Blank \in Content /\ Torn \in Content
  BY EmptySeq DEF Blank, Torn, Content

LEMMA BlankAccepted == Accepted(Blank)
  BY EmptySeq DEF Accepted, Blank, TagsOf, References, PortsSuffice, Targets

LEMMA InstalledType == Installed \in Content
  BY InitialAssumption DEF Installed, Content

(* A refresh of the file as it was installed gives a content. *)
LEMMA RefreshedType ==
  ASSUME NEW c \in Content, NEW s \in Sub
  PROVE  Refreshed(c, s) \subseteq Content
<1>1. ASSUME NEW links \in Nodes PROVE ApplyNodes(c, s, links) \in Content
  <2>1. links \in Seq(Link) /\ s \in Source
    BY <1>1, NodesType DEF Source
  <2> QED BY <2>1, ApplyNodesIs
<1> HIDE DEF Content
<1> QED BY <1>1 DEF Refreshed

(* The recursive function inside Earlier. *)
After ==
  CHOOSE after : after = [k \in 0..Len(Subscriptions) |->
    IF k = 0 THEN {Installed}
    ELSE UNION {Refreshed(c, Subscriptions[k]) : c \in after[k - 1]}]

(* It exists, and so Earlier holds contents only. *)
LEMMA AfterExists ==
  /\ After[0] = {Installed}
  /\ \A k \in 0..Len(Subscriptions) : k # Len(Subscriptions) =>
       After[k + 1] = UNION {Refreshed(c, Subscriptions[k + 1]) : c \in After[k]}
<1> DEFINE N == Len(Subscriptions)
           Go(C, k) == UNION {Refreshed(c, Subscriptions[k]) : c \in C}
           Is(g, m) == g = [k \in 0..m |-> IF k = 0 THEN {Installed} ELSE Go(g[k - 1], k)]
           S == {m \in 0..N : \E g : Is(g, m)}
<1>0. N \in Nat
  BY SubscriptionsAssumption, LenProperties
<1> HIDE DEF Go, N
<1>1. 0 \in S
  <2>1. Is([k \in 0..0 |-> {Installed}], 0)
    OBVIOUS
  <2> HIDE DEF Is
  <2>2. \E g : Is(g, 0)
    BY <2>1
  <2> QED BY <1>0, <2>2
<1>2. ASSUME NEW m \in 0..N, m \in S, m # N PROVE m + 1 \in S
  <2>1. PICK g : Is(g, m)
    BY <1>2
  <2> DEFINE h == [k \in 0..m + 1 |-> IF k = m + 1 THEN Go(g[m], m + 1) ELSE g[k]]
  <2>2. ASSUME NEW k \in 0..m + 1
        PROVE  h[k] = IF k = 0 THEN {Installed} ELSE Go(h[k - 1], k)
    <3>1. CASE k = m + 1
      BY <1>0, <3>1
    <3>2. CASE k \in 0..m
      <4>1. g[k] = IF k = 0 THEN {Installed} ELSE Go(g[k - 1], k)
        BY <2>1, <3>2
      <4> QED BY <4>1, <3>2
    <3> QED BY <1>0, <3>1, <3>2
  <2>3. Is(h, m + 1)
    BY <2>2
  <2> HIDE DEF Is
  <2>4. \E longer : Is(longer, m + 1)
    BY <2>3
  <2> QED BY <2>4, <1>0, <1>2
<1>3. \A m \in 0..N : m \in S
  <2> HIDE DEF S
  <2> QED BY <1>0, <1>1, <1>2, UpTo
<1>4. PICK g : Is(g, N)
  BY <1>0, <1>3
<1>5. Is(After, N)
  BY <1>4 DEF After, Go, N
<1>6. \A k \in 0..N : After[k] = IF k = 0 THEN {Installed} ELSE Go(After[k - 1], k)
  BY <1>5
<1>7. After[0] = {Installed}
  BY <1>0, <1>6
<1>8. ASSUME NEW k \in 0..N, k # N PROVE After[k + 1] = Go(After[k], k + 1)
  <2>1. k + 1 \in 0..N /\ k + 1 # 0 /\ (k + 1) - 1 = k
    BY <1>0, <1>8
  <2> QED BY <1>6, <2>1
<1> QED BY <1>7, <1>8 DEF Go, N

LEMMA EarlierType == Earlier \subseteq Content
<1> DEFINE N == Len(Subscriptions)
           S == {k \in 0..N : After[k] \subseteq Content}
<1>0. N \in Nat /\ \A k \in 1..N : Subscriptions[k] \in Sub
  <2>1. N \in Nat /\ DOMAIN Subscriptions = 1..N
    BY SubscriptionsAssumption, LenProperties
  <2> QED BY <2>1 DEF Sub, Range
<1>1. 0 \in S
  BY <1>0, InstalledType, AfterExists
<1>2. ASSUME NEW k \in 0..N, k \in S, k # N PROVE k + 1 \in S
  <2>1. k + 1 \in 0..N /\ Subscriptions[k + 1] \in Sub /\ After[k] \subseteq Content
    BY <1>0, <1>2
  <2> HIDE DEF N
  <2>2. \A c \in After[k] : Refreshed(c, Subscriptions[k + 1]) \subseteq Content
    BY <2>1, RefreshedType
  <2>3. After[k + 1] = UNION {Refreshed(c, Subscriptions[k + 1]) : c \in After[k]}
    BY <1>2, AfterExists DEF N
  <2> QED BY <2>1, <2>2, <2>3
<1>3. \A k \in 0..N : k \in S
  <2> HIDE DEF S, N
  <2> QED BY <1>0, <1>1, <1>2, UpTo
<1>4. Earlier = After[N]
  BY DEF Earlier, After
<1> QED BY <1>0, <1>3, <1>4
-----------------------------------------------------------------------------
(* The parts of a job. *)
LEMMA StateFields ==
  ASSUME NEW d \in JobState
  PROVE  /\ d.todo \in Seq(Sub \cup {Manual, Metadata}) /\ d.links \in Seq(Link)
         /\ d.read \in Content
         /\ d = [step |-> d.step, todo |-> d.todo, links |-> d.links, read |-> d.read]
  BY DEF JobState

(* What is updated first, and the rest. *)
LEMMA HeadTail ==
  ASSUME NEW d \in JobState, d.todo # <<>>
  PROVE  /\ Head(d.todo) \in Sub \cup {Manual, Metadata}
         /\ Tail(d.todo) \in Seq(Sub \cup {Manual, Metadata})
         /\ Len(d.todo) # 1 => Tail(d.todo) # <<>>
<1> DEFINE S == Sub \cup {Manual, Metadata}
           q == d.todo
<1>1. q \in Seq(S)
  BY StateFields
<1> HIDE DEF S, q
<1>2. Head(q) \in S /\ Tail(q) \in Seq(S) /\ (Len(q) # 1 => Tail(q) # <<>>)
  <2>1. q # <<>>
    BY DEF q
  <2>2. Head(q) \in S /\ Tail(q) \in Seq(S)
    BY <1>1, <2>1, HeadTailProperties
  <2> DEFINE n == Len(q)
             m == Len(Tail(q))
  <2>3. m = n - 1 /\ n \in Nat
    BY <1>1, <2>1, HeadTailProperties, LenProperties
  <2>4. Tail(q) = <<>> => m = 0
    BY EmptySeq
  <2> HIDE DEF m, n
  <2>5. m = 0 => n = 1
    BY <2>3
  <2> QED BY <2>2, <2>4, <2>5 DEF n
<1> QED BY <1>2 DEF S, q

(* What a command makes of a content is a content. *)
LEMMA ResultType ==
  ASSUME NEW s \in Sub \cup {Manual, Metadata}, NEW c \in Content, NEW links \in Seq(Link)
  PROVE  Result(s, c, links) \in Content
<1>1. CASE s = Metadata
  BY <1>1 DEF Result
<1>2. CASE s \in Source
  BY <1>2, ApplyNodesIs DEF Result
<1> QED BY <1>1, <1>2 DEF Source

(* The jobs that the actions make. *)
LEMMA IdleOk == InOrder(Idle)
<1>1. Idle \in JobState
  BY BlankType, EmptySeq DEF Idle, JobState
<1> QED BY <1>1 DEF InOrder, Ready, Checked, Caused, Idle

LEMMA FetchingOk ==
  ASSUME NEW todo \in Seq(Sub \cup {Manual, Metadata}), todo # <<>>
  PROVE  InOrder(Fetching(todo))
<1>1. Fetching(todo) \in JobState
  BY BlankType, EmptySeq DEF Fetching, JobState
<1> QED BY <1>1 DEF InOrder, Ready, Checked, Caused, Fetching

(* Only Read brings a process to the point where it writes, and it checks. *)
LEMMA ReadOk ==
  ASSUME JobsOk, NEW j \in Job, job[j].step = "fetch", NEW links \in Seq(Link),
         NEW step \in {"truncate", "refused"},
         step = "truncate" <=> Valid(Head(job[j].todo), file, links)
  PROVE  InOrder(Step(j, step, links))
<1> DEFINE d == Step(j, step, links)
           todo == job[j].todo
<1>1. file \in Content /\ job[j] \in JobState /\ todo # <<>>
  BY DEF JobsOk, InOrder, Ready, TypeOK
<1>2. todo \in Seq(Sub \cup {Manual, Metadata})
  BY <1>1, StateFields
<1>3. d = [step |-> step, todo |-> todo, links |-> links, read |-> file]
  BY DEF Step
<1> HIDE DEF d, todo
<1>4. d \in JobState
  BY <1>1, <1>2, <1>3 DEF JobState
<1>5. d.step = step /\ d.todo = todo /\ d.links = links /\ d.read = file
  BY <1>3
<1>6. d.step = "truncate" <=> Valid(Head(d.todo), d.read, d.links)
  BY <1>5 DEF todo
<1>7. Ready(d) /\ Caused(d)
  BY <1>1, <1>5, <1>6 DEF Ready, Caused
<1>8. Checked(d)
  BY <1>5, <1>6 DEF Checked, Updated, Valid
<1> QED BY <1>4, <1>7, <1>8 DEF InOrder, d

(* One job changes to one that is in order. *)
LEMMA OneJobOk ==
  ASSUME JobsOk, NEW j \in Job, NEW d, InOrder(d), job' = [job EXCEPT ![j] = d],
         file' \in Content, mixed' \subseteq Job,
         commits' \in 0..MaxCommits, commands' \in 0..MaxCommands
  PROVE  JobsOk'
<1>1. job \in [Job -> JobState] /\ d \in JobState
  BY DEF JobsOk, TypeOK, JobState, InOrder
<1> HIDE DEF JobState
<1>2. job' \in [Job -> JobState]
  BY <1>1
<1>3. ASSUME NEW k \in Job PROVE InOrder(job'[k])
  <2>1. job'[k] = IF k = j THEN d ELSE job[k]
    BY <1>1
  <2> QED BY <2>1, <1>3 DEF JobsOk
<1>4. TypeOK'
  BY <1>2 DEF TypeOK, JobState
<1> QED BY <1>3, <1>4 DEF JobsOk

LEMMA InitOk == Init => JobsOk
<1> SUFFICES ASSUME Init PROVE JobsOk
  OBVIOUS
<1>1. /\ file \in Earlier /\ job = [j \in Job |-> Idle]
      /\ mixed = {} /\ commits = 0 /\ commands = 0
  BY Zenon DEF Init
<1>2. commits \in 0..MaxCommits /\ commands \in 0..MaxCommands
  BY <1>1, BoundsAssumption
<1>3. \A j \in Job : InOrder(job[j])
  BY <1>1, IdleOk
<1>4. job \in [Job -> JobState]
  BY <1>1, IdleOk DEF InOrder
<1>5. file \in Content /\ mixed \subseteq Job
  BY <1>1, EarlierType
<1> QED BY <1>2, <1>3, <1>4, <1>5 DEF JobsOk, TypeOK, JobState

(* What a command starts with. *)
LEMMA StartsWith ==
  /\ <<Manual>> \in Seq(Sub \cup {Manual, Metadata}) /\ <<Manual>> # <<>>
  /\ <<Metadata>> \in Seq(Sub \cup {Manual, Metadata}) /\ <<Metadata>> # <<>>
  /\ \A todo \in {<<s>> : s \in Sub} \cup {Subscriptions} :
       todo \in Seq(Sub \cup {Manual, Metadata})
<1> DEFINE S == Sub \cup {Manual, Metadata}
<1>1. /\ Subscriptions \in Seq(STRING) /\ DOMAIN Subscriptions = 1..Len(Subscriptions)
      /\ Len(Subscriptions) \in Nat
  BY SubscriptionsAssumption, LenProperties
<1>2. \A i \in 1..Len(Subscriptions) : Subscriptions[i] \in S
  BY <1>1 DEF Sub, Range
<1>3. Subscriptions = [i \in 1..Len(Subscriptions) |-> Subscriptions[i]]
  BY <1>1
<1> HIDE DEF S
<1>4. Subscriptions \in Seq(S)
  BY <1>1, <1>2, <1>3
<1>5. \A s \in S : <<s>> \in Seq(S) /\ <<s>> # <<>>
  OBVIOUS
<1>6. Manual \in S /\ Metadata \in S /\ Sub \subseteq S
  BY DEF S
<1> QED BY <1>4, <1>5, <1>6 DEF S

(* A change in LuCI leaves a content. *)
LEMMA CommitType ==
  ASSUME file \in Content, Commit
  PROVE  file' \in Content
<1>1. file.outbounds \in Seq(Outbound)
  BY DEF Content
<1>2. ASSUME NEW t \in TagsOf(file), file' = [file EXCEPT !.refs = {t}]
      PROVE  file' \in Content
  <2>1. t \in Tag
    <3>1. PICK i \in DOMAIN file.outbounds : t = file.outbounds[i].tag
      BY <1>2 DEF TagsOf
    <3>2. file.outbounds[i] \in Outbound
      BY <1>1, <3>1
    <3> QED BY <3>1, <3>2 DEF Outbound
  <2> QED BY <1>2, <2>1 DEF Content
<1>3. ASSUME NEW i \in DOMAIN file.outbounds, NEW k \in DOMAIN file.outbounds,
             file' = [file EXCEPT !.outbounds[i].node = file.outbounds[k].node]
      PROVE  file' \in Content
  <2> DEFINE list == file.outbounds
             o == [list[i] EXCEPT !.node = list[k].node]
  <2>1. list[i] \in Outbound /\ list[k] \in Outbound
    BY <1>1, <1>3
  <2>2. o \in Outbound
    BY <2>1 DEF Outbound
  <2>3. file' = [file EXCEPT !.outbounds = [list EXCEPT ![i] = o]]
    BY <1>3
  <2> HIDE DEF o, list
  <2>4. [list EXCEPT ![i] = o] \in Seq(Outbound)
    <3>1. list \in Seq(Outbound) /\ i \in 1..Len(list)
      BY <1>1, <1>3 DEF list
    <3> QED BY <2>2, <3>1, ExceptSeq
  <2> QED BY <2>3, <2>4 DEF Content
<1>4. ASSUME file' = [file EXCEPT !.enabled = ~@]
      PROVE  file' \in Content
  BY <1>4 DEF Content
<1> QED BY <1>2, <1>3, <1>4, Zenon DEF Commit
-----------------------------------------------------------------------------
LEMMA NextOk == JobsOk /\ [Next]_vars => JobsOk'
<1> SUFFICES ASSUME JobsOk, [Next]_vars PROVE JobsOk'
  OBVIOUS
<1> DEFINE S == Sub \cup {Manual, Metadata}
<1>0. /\ file \in Content /\ mixed \subseteq Job
      /\ commits \in 0..MaxCommits /\ commands \in 0..MaxCommands
      /\ \A j \in Job : job[j] \in JobState /\ InOrder(job[j])
  BY DEF JobsOk, TypeOK, JobState
<1>1. ASSUME NEW j \in Job, Starts(j), UNCHANGED <<file, mixed, commits>>, NEW todo \in Seq(S),
             todo # <<>>, job' = [job EXCEPT ![j] = Fetching(todo)]
      PROVE  JobsOk'
  <2>1. commands' \in 0..MaxCommands
    BY <1>0, <1>1, BoundsAssumption DEF Starts
  <2> QED BY <1>0, <1>1, <2>1, FetchingOk, OneJobOk
<1>2. ASSUME NEW j \in Job, StartRefresh(j) PROVE JobsOk'
  <2>1. PICK todo \in {<<s>> : s \in Sub} \cup {Subscriptions} :
          todo # <<>> /\ job' = [job EXCEPT ![j] = Fetching(todo)]
    BY <1>2 DEF StartRefresh
  <2>2. todo \in Seq(S)
    BY <2>1, StartsWith
  <2> QED BY <1>2, <2>1, <2>2, <1>1 DEF StartRefresh
<1>3. ASSUME NEW j \in Job, StartImport(j) PROVE JobsOk'
  BY <1>3, <1>1, StartsWith DEF StartImport
<1>4. ASSUME NEW j \in Job, StartProvider(j) PROVE JobsOk'
  BY <1>4, <1>1, StartsWith DEF StartProvider
<1>5. ASSUME NEW j \in Job, FetchFails(j) PROVE JobsOk'
  BY <1>0, <1>5, IdleOk, OneJobOk DEF FetchFails
<1>6. ASSUME NEW j \in Job, Read(j) PROVE JobsOk'
  <2>1. PICK links \in Answers(j) : job' = [job EXCEPT ![j] =
           Step(j, IF Valid(Head(job[j].todo), file, links) THEN "truncate" ELSE "refused",
                links)]
    BY <1>6 DEF Read
  <2> DEFINE step == IF Valid(Head(job[j].todo), file, links) THEN "truncate" ELSE "refused"
  <2>2. /\ step \in {"truncate", "refused"}
        /\ step = "truncate" <=> Valid(Head(job[j].todo), file, links)
    OBVIOUS
  <2>3. job' = [job EXCEPT ![j] = Step(j, step, links)]
    BY <2>1
  <2>4. links \in Seq(Link)
    BY <2>1, NodesType, EmptySeq DEF Answers
  <2> HIDE DEF step
  <2>5. InOrder(Step(j, step, links))
    BY <1>6, <2>2, <2>4, ReadOk DEF Read
  <2> QED BY <1>0, <1>6, <2>3, <2>5, OneJobOk DEF Read
<1>7. ASSUME NEW j \in Job, Refuse(j) PROVE JobsOk'
  BY <1>0, <1>7, IdleOk, OneJobOk DEF Refuse
<1>8. ASSUME NEW j \in Job, Truncate(j) PROVE JobsOk'
  <2> DEFINE d == [job[j] EXCEPT !.step = "write"]
  <2>1. job[j] \in JobState /\ Accepted(Updated(job[j])) /\ job[j].todo # <<>>
    BY <1>0, <1>8 DEF Truncate, InOrder, Checked, Ready
  <2>2. /\ d = [step |-> "write", todo |-> job[j].todo, links |-> job[j].links,
                read |-> job[j].read]
        /\ d \in JobState
    BY <2>1 DEF JobState
  <2>3. job' = [job EXCEPT ![j] = d]
    BY <1>8 DEF Truncate
  <2> HIDE DEF d
  <2>4. d.step = "write" /\ d.todo = job[j].todo /\ d.links = job[j].links /\ d.read = job[j].read
    BY <2>2
  <2>5. Accepted(Updated(d))
    BY <2>1, <2>4 DEF Updated
  <2>6. InOrder(d)
    BY <2>1, <2>2, <2>4, <2>5 DEF InOrder, Ready, Checked, Caused
  <2> QED BY <1>0, <1>8, <2>3, <2>6, BlankType, OneJobOk DEF Truncate
<1>9. ASSUME NEW j \in Job, Write(j) PROVE JobsOk'
  <2> DEFINE old == job[j]
  <2>0. old \in JobState /\ old.todo # <<>>
    BY <1>0, <1>9 DEF Write, InOrder, Ready
  <2>1. InOrder(IF Len(old.todo) = 1 THEN Idle ELSE Fetching(Tail(old.todo)))
    <3>1. Len(old.todo) # 1 => InOrder(Fetching(Tail(old.todo)))
      BY <2>0, HeadTail, FetchingOk
    <3> QED BY <3>1, IdleOk
  <2>2. file' \in Content
    <3>1. Updated(old) \in Content
      BY <2>0, HeadTail, StateFields, ResultType DEF Updated
    <3> QED BY <1>9, <3>1, BlankType DEF Write
  <2>3. mixed' \subseteq Job
    BY <1>0, <1>9 DEF Write
  <2>4. PICK d : InOrder(d) /\ job' = [job EXCEPT ![j] = d]
    BY <1>9, <2>1 DEF Write
  <2> QED BY <1>0, <1>9, <2>2, <2>3, <2>4, OneJobOk DEF Write
<1>10. ASSUME Commit PROVE JobsOk'
  <2>1. commits' \in 0..MaxCommits
    BY <1>0, <1>10, BoundsAssumption DEF Commit
  <2>2. file' \in Content
    BY <1>0, <1>10, CommitType
  <2>3. UNCHANGED <<job, mixed, commands>>
    BY <1>10 DEF Commit
  <2> QED BY <2>1, <2>2, <2>3 DEF JobsOk, TypeOK
<1>11. ASSUME PowerLoss PROVE JobsOk'
  <2>1. job' = [j \in Job |-> Idle] /\ mixed' = {} /\ UNCHANGED <<file, commits, commands>>
    BY <1>11 DEF PowerLoss
  <2>2. job' \in [Job -> JobState]
    BY <2>1, IdleOk DEF InOrder
  <2>3. \A j \in Job : InOrder(job'[j])
    BY <2>1, IdleOk
  <2>4. TypeOK'
    BY <1>0, <2>1, <2>2 DEF TypeOK, JobState
  <2> QED BY <2>3, <2>4 DEF JobsOk
<1>12. ASSUME UNCHANGED vars PROVE JobsOk'
  BY <1>12 DEF vars, JobsOk, TypeOK
<1> QED
  BY <1>2, <1>3, <1>4, <1>5, <1>6, <1>7, <1>8, <1>9, <1>10, <1>11, <1>12
  DEF Next, JobStep

(* The types are right, and what a process is about to write is acceptable at *)
(* every moment (uci.go:102-107).                                             *)
THEOREM WritesAreChecked == Spec => []JobsOk
  BY InitOk, NextOk, PTL DEF Spec

(* The variables keep their types. *)
THEOREM TypesOk == Spec => []TypeOK
<1>1. JobsOk => TypeOK
  BY DEF JobsOk
<1> QED BY <1>1, WritesAreChecked, PTL

(* UpdatesKeepItStartable, one step of it. *)
LEMMA StepKeepsItStartable ==
  ASSUME JobsOk, [Next]_vars
  PROVE  [commits' = commits /\ file' # file =>
            Accepted(file') \/ (file' = Torn /\ mixed # {})]_vars
<1> SUFFICES ASSUME Next, commits' = commits, file' # file
             PROVE  Accepted(file') \/ (file' = Torn /\ mixed # {})
  OBVIOUS
<1>1. ASSUME NEW j \in Job, Truncate(j) PROVE Accepted(file')
  BY <1>1, BlankAccepted DEF Truncate
<1>2. ASSUME NEW j \in Job, Write(j)
      PROVE  Accepted(file') \/ (file' = Torn /\ mixed # {})
  BY <1>2 DEF Write, JobsOk, InOrder, Checked
<1>3. ~Commit
  BY DEF Commit, JobsOk, TypeOK
<1> QED
  BY <1>1, <1>2, <1>3
  DEF Next, JobStep, StartRefresh, StartImport, StartProvider, FetchFails, Read,
      Refuse, PowerLoss

(* Whatever processes run at once, no update leaves a file the service refuses to *)
(* start with, but for two of them that write at the same moment.                 *)
THEOREM Startable == Spec => UpdatesKeepItStartable
<1>1. JobsOk /\ [Next]_vars =>
        [commits' = commits /\ file' # file =>
            Accepted(file') \/ (file' = Torn /\ mixed # {})]_vars
  BY StepKeepsItStartable
<1> QED BY <1>1, WritesAreChecked, PTL DEF Spec, UpdatesKeepItStartable
-----------------------------------------------------------------------------
(* What a refresh is about to write is what ApplyNodes made of the copy. *)
LEMMA PendingIs ==
  ASSUME JobsOk, NEW j \in Job, Pending(j)
  PROVE  /\ Head(job[j].todo) \in Sub /\ job[j].read \in Content /\ job[j].links \in Seq(Link)
         /\ Updated(job[j]) = ApplyNodes(job[j].read, Head(job[j].todo), job[j].links)
<1>1. job[j] \in JobState /\ Head(job[j].todo) \in Sub
  BY DEF JobsOk, InOrder, Pending, Refreshing
<1>2. Head(job[j].todo) # Metadata
  BY <1>1, SubscriptionsAssumption
<1> QED BY <1>1, <1>2, StateFields DEF Updated, Result

(* A listed node keeps its tags, whatever else the refresh does (uci.go:56-76). *)
THEOREM NodesKeepTheirTags == Spec => []ListedNodeKeepsTags
<1>1. JobsOk => ListedNodeKeepsTags
  <2> SUFFICES ASSUME JobsOk, NEW j \in Job, Pending(j), NEW n \in Node,
                      Listed(job[j].links, n) >= Len(HeldTags(job[j].read, Head(job[j].todo), n))
               PROVE  Range(HeldTags(job[j].read, Head(job[j].todo), n)) \subseteq
                        Range(HeldTags(Updated(job[j]), Head(job[j].todo), n))
    BY DEF ListedNodeKeepsTags
  <2> DEFINE s == Head(job[j].todo)
             c == job[j].read
             links == job[j].links
  <2>1. s \in Sub /\ c \in Content /\ links \in Seq(Link)
    BY PendingIs
  <2>2. Updated(job[j]) = ApplyNodes(c, s, links)
    BY PendingIs
  <2>3. Listed(links, n) >= Len(HeldTags(c, s, n))
    OBVIOUS
  <2> HIDE DEF s, c, links
  <2>4. Range(HeldTags(c, s, n)) \subseteq Range(HeldTags(ApplyNodes(c, s, links), s, n))
    BY <2>1, <2>3, ListedKeeps
  <2> QED BY <2>2, <2>4 DEF s, c
<1> QED BY <1>1, WritesAreChecked, PTL

(* Both sides of the comparison in ListedNodeKeepsTags are numbers. *)
LEMMA ListedNat ==
  ASSUME NEW c \in Content, NEW s, NEW links \in Seq(Link), NEW n \in Node
  PROVE  Listed(links, n) \in Nat /\ Len(HeldTags(c, s, n)) \in Nat
<1> DEFINE I == {i \in DOMAIN links : NodeOf(links[i]) = n}
<1>1. Len(links) \in Nat /\ DOMAIN links = 1..Len(links)
  BY LenProperties
<1>2. IsFiniteSet(1..Len(links))
  BY <1>1, FS_Interval
<1>3. I \subseteq 1..Len(links)
  BY <1>1
<1>4. Cardinality(I) \in Nat
  <2> HIDE DEF I
  <2> QED BY <1>2, <1>3, FS_Subset, FS_CardinalityType
<1>5. Len(HeldTags(c, s, n)) \in Nat
  BY HeldIs, LenProperties
<1> QED BY <1>4, <1>5 DEF Listed

(* What has to be so when a tag comes to stand for another node. *)
PassesOn(c, s, links, i, node) ==
  /\ Listed(links, c.outbounds[i].node) < Len(HeldTags(c, s, c.outbounds[i].node))
  /\ \E l \in Range(links) : NodeOf(l) = node /\ Clash(c.outbounds[i], l, s)

(* A tag comes to stand for another node only if its own is listed less often than   *)
(* before, and only where the digits left of the hash, or the user, confuse the two. *)
THEOREM TagsStayWithTheirNode == Spec => []TagsKeepTheirNode
<1>1. JobsOk => TagsKeepTheirNode
  <2> SUFFICES ASSUME JobsOk, NEW j \in Job, Pending(j), job[j].read.enabled,
                      Accepted(job[j].read),
                      NEW i \in DOMAIN job[j].read.outbounds,
                      NEW k \in DOMAIN Updated(job[j]).outbounds,
                      job[j].read.outbounds[i].tag = Updated(job[j]).outbounds[k].tag,
                      job[j].read.outbounds[i].node # Updated(job[j]).outbounds[k].node
               PROVE  PassesOn(job[j].read, Head(job[j].todo), job[j].links, i,
                               Updated(job[j]).outbounds[k].node)
    BY DEF TagsKeepTheirNode, PassesOn
  <2> DEFINE s == Head(job[j].todo)
             c == job[j].read
             links == job[j].links
             new == ApplyNodes(c, s, links)
  <2>1. /\ s \in Sub /\ c \in Content /\ links \in Seq(Link) /\ Updated(job[j]) = new
        /\ Accepted(new)
    <3>1. Accepted(Updated(job[j]))
      BY DEF JobsOk, InOrder, Checked, Pending
    <3> QED BY <3>1, PendingIs
  <2>2. /\ c.enabled /\ Accepted(c) /\ i \in DOMAIN c.outbounds /\ k \in DOMAIN new.outbounds
        /\ c.outbounds[i].tag = new.outbounds[k].tag
        /\ c.outbounds[i].node # new.outbounds[k].node
    BY <2>1
  <2> HIDE DEF s, c, links
  <2>3. s \in Source /\ c.outbounds \in Seq(Outbound) /\ DOMAIN c.outbounds = 1..Len(c.outbounds)
    BY <2>1 DEF Source, Content
  <2>4. DOMAIN new.outbounds = 1..Len(new.outbounds)
    BY <2>1, <2>3, NewOutbounds
  <2>5. i \in 1..Len(c.outbounds) /\ k \in 1..Len(new.outbounds)
    BY <2>2, <2>3, <2>4
  <2>6. PICK m \in 1..Len(links) :
          NodeOf(links[m]) = new.outbounds[k].node /\ Clash(c.outbounds[i], links[m], s)
    BY <2>1, <2>2, <2>5, OtherNodeClashes
  <2>7. links[m] \in Range(links)
    BY <2>1, LenProperties DEF Range
  <2> DEFINE n == c.outbounds[i].node
  <2>8. Listed(links, n) \in Nat /\ Len(HeldTags(c, s, n)) \in Nat
    <3>1. n \in Node
      <4>1. c.outbounds[i] \in Outbound
        BY <2>3, <2>5
      <4> QED BY <4>1 DEF Outbound
    <3> HIDE DEF n
    <3> QED BY <2>1, <3>1, ListedNat
  <2>9. ~(Listed(links, n) >= Len(HeldTags(c, s, n)))
    BY <2>1, <2>2, <2>5, OtherNodeIsLess
  <2>10. Listed(links, n) < Len(HeldTags(c, s, n))
    <3> HIDE DEF n
    <3> QED BY <2>8, <2>9
  <2>11. PassesOn(c, s, links, i, new.outbounds[k].node)
    BY <2>6, <2>7, <2>10 DEF PassesOn
  <2> QED BY <2>1, <2>11 DEF s, c, links
<1> QED BY <1>1, WritesAreChecked, PTL

(* The same list again changes nothing. *)
THEOREM RepetitionIsHarmless == Spec => []RepeatedRefreshChangesNothing
<1>1. JobsOk => RepeatedRefreshChangesNothing
  <2> SUFFICES ASSUME JobsOk, NEW j \in Job, Pending(j)
               PROVE  ApplyNodes(Updated(job[j]), Head(job[j].todo), job[j].links)
                        = Updated(job[j])
    BY DEF RepeatedRefreshChangesNothing
  <2> QED BY PendingIs, RefreshTwice
<1> QED BY <1>1, WritesAreChecked, PTL

(* Nothing but the causes that RefusedForCause names makes an update fail. *)
LEMMA NoOtherCause ==
  ASSUME NEW c \in Content, NEW s \in Sub \cup {Manual, Metadata}, NEW links \in Seq(Link),
         Accepted(c), c.whole, PortsSuffice(Result(s, c, links)),
         \A l \in Range(links) : FieldsComplete(Entry[l]),
         \A l \in Range(links), t \in Forbidden(c) : t.name # Name(s, l),
         \A l \in Range(links), i \in DOMAIN c.outbounds : ~Clash(c.outbounds[i], l, s),
         \A i \in DOMAIN c.outbounds :
           c.outbounds[i].sub = s /\ c.outbounds[i].tag \in References(c) =>
             LET n == c.outbounds[i].node IN ~(Listed(links, n) < Len(HeldTags(c, s, n)))
  PROVE  Valid(s, c, links)
<1>1. CASE s = Metadata
  BY <1>1 DEF Valid, Result
<1>2. CASE s \in Source
  <2>1. s # Metadata
    BY <1>2, SubscriptionsAssumption DEF Source, Manual, Metadata
  <2>2. \A i \in 1..Len(links) : links[i] \in Range(links)
    BY LenProperties DEF Range
  <2>3. /\ \A i \in 1..Len(links) : FieldsComplete(Entry[links[i]])
        /\ \A i \in 1..Len(links), t \in Forbidden(c) : t.name # Name(s, links[i])
    BY <2>2
  <2>4. c.outbounds \in Seq(Outbound) /\ DOMAIN c.outbounds = 1..Len(c.outbounds)
    BY DEF Content
  <2>5. ASSUME NEW i \in 1..Len(c.outbounds), c.outbounds[i].sub = s,
               c.outbounds[i].tag \in References(c)
        PROVE  LET n == c.outbounds[i].node IN Listed(links, n) >= Len(HeldTags(c, s, n))
    <3> DEFINE n == c.outbounds[i].node
    <3>1. n \in Node
      <4>1. c.outbounds[i] \in Outbound
        BY <2>4, <2>5
      <4> QED BY <4>1 DEF Outbound
    <3>2. Listed(links, n) \in Nat /\ Len(HeldTags(c, s, n)) \in Nat
      <4> HIDE DEF n
      <4> QED BY <3>1, ListedNat
    <3>3. ~(Listed(links, n) < Len(HeldTags(c, s, n)))
      BY <2>4, <2>5
    <3> QED BY <3>2, <3>3
  <2>6. \A i \in 1..Len(c.outbounds), m \in 1..Len(links) : ~Clash(c.outbounds[i], links[m], s)
    BY <2>2, <2>4
  <2>7. PortsSuffice(ApplyNodes(c, s, links))
    BY <2>1 DEF Result
  <2>8. Accepted(ApplyNodes(c, s, links))
    BY <1>2, <2>3, <2>5, <2>6, <2>7, RefreshAccepted
  <2> QED BY <2>1, <2>8 DEF Valid, Result
<1> QED BY <1>1, <1>2 DEF Source

(* A refusal has a cause the user can find: in particular the numbers that make *)
(* the tags of new nodes unique never run into another outbound's tag.          *)
THEOREM RefusalsHaveCauses == Spec => []RefusedForCause
<1>1. JobsOk => RefusedForCause
  <2> SUFFICES ASSUME JobsOk, NEW j \in Job, job[j].step = "refused"
               PROVE  LET s == Head(job[j].todo)
                          c == job[j].read
                          links == job[j].links
                      IN  \/ ~Accepted(c) \/ ~c.whole
                          \/ ~PortsSuffice(Updated(job[j]))
                          \/ \E l \in Range(links) :
                               \/ ~FieldsComplete(Entry[l])
                               \/ \E t \in Forbidden(c) : t.name = Name(s, l)
                               \/ \E i \in DOMAIN c.outbounds : Clash(c.outbounds[i], l, s)
                          \/ \E i \in DOMAIN c.outbounds :
                               /\ c.outbounds[i].sub = s /\ c.outbounds[i].tag \in References(c)
                               /\ LET n == c.outbounds[i].node
                                  IN  Listed(links, n) < Len(HeldTags(c, s, n))
    BY Zenon DEF RefusedForCause
  <2> DEFINE s == Head(job[j].todo)
             c == job[j].read
             links == job[j].links
  <2>1. s \in Sub \cup {Manual, Metadata} /\ c \in Content /\ links \in Seq(Link)
    <3>1. job[j] \in JobState /\ job[j].todo # <<>>
      BY DEF JobsOk, InOrder, Ready
    <3> QED BY <3>1, HeadTail, StateFields
  <2>2. ~Valid(s, c, links)
    BY DEF JobsOk, InOrder, Caused
  <2>3. Updated(job[j]) = Result(s, c, links)
    BY DEF Updated
  <2> HIDE DEF s, c, links
  <2> QED BY <2>1, <2>2, <2>3, NoOtherCause DEF s, c, links
<1> QED BY <1>1, WritesAreChecked, PTL
=============================================================================
