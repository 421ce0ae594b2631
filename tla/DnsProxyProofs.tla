--------------------------- MODULE DnsProxyProofs ---------------------------
(***************************************************************************)
(* Proofs about DnsProxy, for every number of goroutines, every capacity   *)
(* of the two pools and every timeout.                                     *)
(***************************************************************************)
EXTENDS DnsProxy, FiniteSetTheorems, TLAPS

(* A pool never holds more tokens than its capacity, by the channel's own count. *)
ChannelBound == \A p \in Pool : used[p] <= Capacity[p]

(* SlotAccounting alone is not inductive: it says nothing of the type of used,   *)
(* and WithinCapacity follows from it only together with the channel bound.      *)
IInv == TypeOK /\ SlotAccounting /\ ChannelBound

-----------------------------------------------------------------------------
(* The capacities are positive numbers. *)
LEMMA CapacityType == Capacity \in [Pool -> Nat \ {0}]
  BY SlotsAssumption DEF Capacity

LEMMA PoolOfType == ASSUME NEW k PROVE PoolOf(k) \in Pool
  BY DEF PoolOf, Pool

(* Only finitely many goroutines hold a slot. *)
LEMMA HoldersFinite == ASSUME NEW p PROVE IsFiniteSet(Holders(p))
  BY HandlerAssumption, FS_Subset DEF Holders

LEMMA NoQueryType == NoQuery \in Handling
  BY TimeoutAssumption DEF NoQuery, Handling, Phase, Transport, Kind, Result

(* Init establishes the invariant: no goroutine, no token. *)
LEMMA InitIInv == Init => IInv
<1> SUFFICES ASSUME Init PROVE IInv
  OBVIOUS
<1>1. TypeOK
  BY NoQueryType DEF Init, TypeOK
<1>2. \A p \in Pool : Holders(p) = {}
  BY DEF Init, Holders, Forwarding, NoQuery
<1>3. SlotAccounting
  BY <1>2, FS_EmptySet DEF Init, SlotAccounting
<1>4. ChannelBound
  BY CapacityType DEF Init, ChannelBound
<1> QED BY <1>1, <1>3, <1>4 DEF IInv

-----------------------------------------------------------------------------
(* The three ways a step can touch a pool: not at all, one more holder, one less. *)
LEMMA SameHolders ==
  ASSUME SlotAccounting, UNCHANGED used,
         \A p \in Pool : Holders(p)' = Holders(p)
  PROVE  SlotAccounting'
  BY DEF SlotAccounting

LEMMA OneMoreHolder ==
  ASSUME TypeOK, SlotAccounting, NEW h \in Handler, NEW p \in Pool,
         h \notin Holders(p), Holders(p)' = Holders(p) \cup {h},
         \A q \in Pool \ {p} : Holders(q)' = Holders(q),
         used' = [used EXCEPT ![p] = @ + 1]
  PROVE  SlotAccounting'
<1>1. Cardinality(Holders(p) \cup {h}) = Cardinality(Holders(p)) + 1
  BY HoldersFinite, FS_AddElement
<1> QED BY <1>1 DEF SlotAccounting, TypeOK

LEMMA OneLessHolder ==
  ASSUME TypeOK, SlotAccounting, NEW h \in Handler, NEW p \in Pool,
         h \in Holders(p), Holders(p)' = Holders(p) \ {h},
         \A q \in Pool \ {p} : Holders(q)' = Holders(q),
         used' = [used EXCEPT ![p] = @ - 1]
  PROVE  SlotAccounting' /\ used[p] > 0
<1>1. Cardinality(Holders(p) \ {h}) = Cardinality(Holders(p)) - 1
  BY HoldersFinite, FS_RemoveElement
<1>2. used[p] = Cardinality(Holders(p))
  BY DEF SlotAccounting
<1>3. Cardinality(Holders(p)) # 0
  BY HoldersFinite, FS_EmptySet
<1>4. used[p] \in Nat /\ used[p] > 0
  BY <1>2, <1>3 DEF TypeOK
<1>5. used'[p] = Cardinality(Holders(p)')
  BY <1>1, <1>2 DEF TypeOK
<1>6. \A q \in Pool \ {p} : used'[q] = Cardinality(Holders(q)')
  BY DEF SlotAccounting, TypeOK
<1> QED BY <1>4, <1>5, <1>6 DEF SlotAccounting

(* A goroutine that changes state without entering or leaving the forward leaves *)
(* the pools alone.                                                              *)
LEMMA QuietGoto ==
  ASSUME IInv, NEW h \in Handler, NEW next \in Handling,
         Goto(h, next), UNCHANGED <<run, singbox, used>>,
         \/ ~Forwarding(h) /\ next.phase \notin {"dialing", "waiting"}
         \/ /\ Forwarding(h) /\ next.phase \in {"dialing", "waiting"}
            /\ next.kind = query[h].kind
  PROVE  IInv'
<1>1. query'[h] = next /\ \A g \in Handler \ {h} : query'[g] = query[g]
  BY DEF Goto, IInv, TypeOK
<1>2. \A p \in Pool : Holders(p)' = Holders(p)
  BY <1>1 DEF Holders, Forwarding
<1>3. SlotAccounting'
  BY <1>2, SameHolders DEF IInv
<1>4. TypeOK'
  BY DEF Goto, IInv, TypeOK
<1>5. ChannelBound'
  BY CapacityType DEF IInv, ChannelBound
<1> QED BY <1>3, <1>4, <1>5 DEF IInv

(* A slot is taken by reserveForward ... *)
LEMMA ReserveIInv ==
  ASSUME IInv, NEW h \in Handler, NEW k \in Kind, Reserve(h, k)
  PROVE  IInv'
<1> DEFINE p == PoolOf(k)
           next == [query[h] EXCEPT !.phase = "dialing", !.kind = k]
<1>0. p \in Pool
  BY PoolOfType
<1>1. query[h] \in Handling /\ used[p] \in Nat
  BY <1>0 DEF IInv, TypeOK
<1>2. next \in Handling /\ next.phase = "dialing" /\ next.kind = k
  BY <1>1 DEF Handling, Phase
<1>3. query' = [query EXCEPT ![h] = next]
  BY DEF Reserve, Goto
<1>4. used' = [used EXCEPT ![p] = @ + 1] /\ used[p] < Capacity[p]
  BY DEF Reserve
<1>5. TypeOK'
  BY <1>0, <1>1, <1>2, <1>3, <1>4 DEF IInv, TypeOK, Reserve
<1>6. h \notin Holders(p)
  BY DEF Reserve, Holders, Forwarding
<1>7. Holders(p)' = Holders(p) \cup {h}
  <2> HIDE DEF next, p
  <2>1. query'[h] = next /\ \A g \in Handler \ {h} : query'[g] = query[g]
    BY <1>3 DEF IInv, TypeOK
  <2> QED BY <2>1, <1>2 DEF Holders, Forwarding, p
<1>8. \A q \in Pool \ {p} : Holders(q)' = Holders(q)
  <2> HIDE DEF next
  <2>1. query'[h] = next /\ \A g \in Handler \ {h} : query'[g] = query[g]
    BY <1>3 DEF IInv, TypeOK
  <2>2. query[h].phase = "handling"
    BY DEF Reserve
  <2> QED BY <2>1, <2>2, <1>2 DEF Holders, Forwarding
<1>9. SlotAccounting'
  BY <1>0, <1>4, <1>6, <1>7, <1>8, OneMoreHolder DEF IInv
<1>10. ChannelBound'
  <2>1. \A q \in Pool : Capacity[q] \in Nat /\ used[q] \in Nat
    BY CapacityType DEF IInv, TypeOK
  <2> HIDE DEF p
  <2> QED BY <1>0, <1>4, <2>1 DEF IInv, ChannelBound, TypeOK
<1> QED BY <1>5, <1>9, <1>10 DEF IInv

(* ... and given back by every way out of the forward. *)
LEMMA ForwardReturnsIInv ==
  ASSUME IInv, NEW h \in Handler, NEW outcome \in Result, Forwarding(h),
         ForwardReturns(h, outcome), UNCHANGED <<run, singbox>>
  PROVE  IInv'
<1> DEFINE next == [query[h] EXCEPT !.phase = "replying", !.result = outcome,
                                    !.fwdLeft = 0]
<1>0. PICK p \in Pool : p = PoolOf(query[h].kind)
  BY PoolOfType
<1>1. query[h] \in Handling /\ used[p] \in Nat
  BY <1>0 DEF IInv, TypeOK
<1>2. next \in Handling /\ next.phase = "replying"
  <2>1. 0 \in 0..T /\ "replying" \in Phase
    BY TimeoutAssumption DEF Phase
  <2> QED BY <1>1, <2>1 DEF Handling
<1>3. query' = [query EXCEPT ![h] = next]
  BY DEF ForwardReturns, Goto
<1>4. used' = [used EXCEPT ![p] = @ - 1]
  BY <1>0 DEF ForwardReturns
<1>5. h \in Holders(p)
  BY <1>0 DEF Holders
<1>6. query'[h] = next /\ \A g \in Handler \ {h} : query'[g] = query[g]
  BY <1>3 DEF IInv, TypeOK
<1>7. Holders(p)' = Holders(p) \ {h}
  <2> HIDE DEF next
  <2> QED BY <1>0, <1>6, <1>2 DEF Holders, Forwarding
<1>8. \A q \in Pool \ {p} : Holders(q)' = Holders(q)
  <2> HIDE DEF next
  <2> QED BY <1>0, <1>6, <1>2 DEF Holders, Forwarding
<1>9. SlotAccounting' /\ used[p] > 0
  BY <1>0, <1>4, <1>5, <1>7, <1>8, OneLessHolder DEF IInv
<1>10. TypeOK'
  BY <1>0, <1>1, <1>2, <1>3, <1>4, <1>9 DEF IInv, TypeOK
<1>11. ChannelBound'
  <2>1. \A q \in Pool : Capacity[q] \in Nat /\ used[q] \in Nat
    BY CapacityType DEF IInv, TypeOK
  <2> QED BY <1>0, <1>4, <2>1 DEF IInv, ChannelBound, TypeOK
<1> QED BY <1>9, <1>10, <1>11 DEF IInv

(* The steps of one goroutine. *)
LEMMA GoroutineIInv ==
  ASSUME IInv, NEW h \in Handler,
         ReceiveUDP(h) \/ AcceptTCP(h) \/ HandlerStep(h) \/ UpstreamAnswers(h)
  PROVE  IInv'
<1>0. query[h] \in Handling /\ 0 \in 0..T /\ T \in 0..T
  BY TimeoutAssumption DEF IInv, TypeOK
<1>1. CASE ReceiveUDP(h)
  <2>1. [NoQuery EXCEPT !.phase = "handling"] \in Handling
    BY NoQueryType DEF Handling, Phase
  <2> QED BY <1>1, <2>1, QuietGoto DEF ReceiveUDP, Forwarding, NoQuery
<1>2. CASE AcceptTCP(h)
  <2> DEFINE next == [NoQuery EXCEPT !.phase = "reading", !.transport = "tcp",
                                     !.connLeft = T]
  <2>1. next \in Handling /\ next.phase = "reading"
    BY <1>0, NoQueryType DEF Handling, Phase, Transport, NoQuery
  <2> QED BY <1>2, <2>1, QuietGoto DEF AcceptTCP, Forwarding
<1>3. CASE ReadTCP(h)
  <2> DEFINE next == [query[h] EXCEPT !.phase = "handling"]
  <2>1. next \in Handling /\ next.phase = "handling"
    BY <1>0 DEF Handling, Phase
  <2>2. NoQuery \in Handling /\ NoQuery.phase = "idle"
    BY NoQueryType DEF NoQuery
  <2>3. ~Forwarding(h) /\ UNCHANGED <<run, singbox, used>>
        /\ (Goto(h, next) \/ Goto(h, NoQuery))
    BY <1>3 DEF ReadTCP, Forwarding
  <2> QED BY <2>1, <2>2, <2>3, QuietGoto
<1>4. CASE AnswerLocally(h)
  <2> DEFINE next == [query[h] EXCEPT !.phase = "replying", !.kind = "local",
                                      !.result = "local"]
  <2>1. next \in Handling /\ next.phase = "replying"
    BY <1>0 DEF Handling, Phase, Kind, Result
  <2> QED BY <1>4, <2>1, QuietGoto DEF AnswerLocally, Forwarding
<1>5. CASE \E k \in Kind \ {"local"} : Reserve(h, k) \/ Overload(h, k)
  <2>1. PICK k \in Kind : Reserve(h, k) \/ Overload(h, k)
    BY <1>5
  <2>2. CASE Overload(h, k)
    <3> DEFINE next == [query[h] EXCEPT !.phase = "replying", !.kind = k,
                                        !.result = "overload"]
    <3>1. next \in Handling /\ next.phase = "replying"
      BY <1>0 DEF Handling, Phase, Result
    <3> QED BY <2>2, <3>1, QuietGoto DEF Overload, Forwarding
  <2> QED BY <2>1, <2>2, ReserveIInv
<1>6. CASE Dial(h)
  <2> DEFINE next == [query[h] EXCEPT !.phase = "waiting", !.fwdLeft = T]
  <2>1. next \in Handling /\ next.phase = "waiting" /\ next.kind = query[h].kind
    BY <1>0 DEF Handling, Phase
  <2> QED BY <1>6, <2>1, QuietGoto DEF Dial, Forwarding
<1>7. CASE WriteReply(h)
  <2>1. NoQuery \in Handling /\ NoQuery.phase = "idle"
    BY NoQueryType DEF NoQuery
  <2> QED BY <1>7, <2>1, QuietGoto DEF WriteReply, Forwarding
<1>8. CASE DialFails(h) \/ ForwardFails(h) \/ UpstreamAnswers(h)
  <2>1. PICK outcome \in Result :
          Forwarding(h) /\ ForwardReturns(h, outcome) /\ UNCHANGED <<run, singbox>>
    BY <1>8 DEF DialFails, ForwardFails, UpstreamAnswers, Forwarding, Result
  <2> QED BY <2>1, ForwardReturnsIInv
<1> QED
  BY <1>1, <1>2, <1>3, <1>4, <1>5, <1>6, <1>7, <1>8 DEF HandlerStep

(* Time passing moves no goroutine. *)
LEMMA TickIInv == ASSUME IInv, Tick PROVE IInv'
<1>1. ASSUME NEW n \in 0..T PROVE (IF n > 0 THEN n - 1 ELSE 0) \in 0..T
  BY TimeoutAssumption
<1>2. TypeOK'
  BY <1>1 DEF Tick, IInv, TypeOK, Handling
<1>3. \A h \in Handler : query'[h].phase = query[h].phase
                         /\ query'[h].kind = query[h].kind
  BY DEF Tick, IInv, TypeOK, Handling
<1>4. \A p \in Pool : Holders(p)' = Holders(p)
  BY <1>3 DEF Holders, Forwarding
<1>5. SlotAccounting' /\ ChannelBound'
  BY <1>4, SameHolders, CapacityType DEF IInv, ChannelBound, Tick
<1> QED BY <1>2, <1>5 DEF IInv

(* A process that is gone holds nothing. *)
LEMMA ExitIInv == ASSUME IInv, Exit PROVE IInv'
<1>1. TypeOK'
  BY NoQueryType DEF Exit, IInv, TypeOK
<1>2. \A p \in Pool : Holders(p)' = {}
  BY DEF Exit, Holders, Forwarding, NoQuery
<1>3. SlotAccounting'
  BY <1>2, FS_EmptySet DEF Exit, SlotAccounting
<1>4. ChannelBound'
  BY CapacityType DEF Exit, ChannelBound
<1> QED BY <1>1, <1>3, <1>4 DEF IInv

(* Every step preserves the invariant. *)
LEMMA NextIInv == IInv /\ [Next]_vars => IInv'
<1> SUFFICES ASSUME IInv, [Next]_vars PROVE IInv'
  OBVIOUS
<1>1. CASE UNCHANGED <<query, used>> /\ TypeOK'
  <2>1. \A p \in Pool : Holders(p)' = Holders(p)
    BY <1>1 DEF Holders, Forwarding
  <2> QED BY <1>1, <2>1, SameHolders, CapacityType DEF IInv, ChannelBound
<1>2. CASE RunReturns \/ Respawn \/ SingBoxChanges \/ UNCHANGED vars
  BY <1>1, <1>2 DEF RunReturns, Respawn, SingBoxChanges, vars, IInv, TypeOK
<1> QED
  BY <1>2, GoroutineIInv, TickIInv, ExitIInv DEF Next

-----------------------------------------------------------------------------
(* The variables have their types in every reachable state. *)
THEOREM TypeCorrect == Spec => []TypeOK
<1>1. IInv => TypeOK
  BY DEF IInv
<1> QED BY <1>1, InitIInv, NextIInv, PTL DEF Spec

(* No forwarding slot is ever lost or returned twice, however the forwards end.   *)
THEOREM SlotsAccounted == Spec => []SlotAccounting
<1>1. IInv => SlotAccounting
  BY DEF IInv
<1> QED BY <1>1, InitIInv, NextIInv, PTL DEF Spec

(* No pool ever forwards more queries than its limit. *)
THEOREM CapacityRespected == Spec => []WithinCapacity
<1>1. IInv => WithinCapacity
  BY DEF IInv, WithinCapacity, SlotAccounting, ChannelBound
<1> QED BY <1>1, InitIInv, NextIInv, PTL DEF Spec

-----------------------------------------------------------------------------
(* What a step of one goroutine does to the others: nothing. *)
LEMMA OthersUntouched ==
  ASSUME IInv, NEW g \in Handler, NEW h \in Handler \ {g},
         ReceiveUDP(g) \/ AcceptTCP(g) \/ HandlerStep(g) \/ UpstreamAnswers(g)
  PROVE  query'[h] = query[h]
<1>1. PICK next : Goto(g, next)
  BY DEF ReceiveUDP, AcceptTCP, HandlerStep, UpstreamAnswers, ReadTCP,
         AnswerLocally, Reserve, Overload, Dial, DialFails, ForwardFails,
         ForwardReturns, WriteReply
<1> QED BY <1>1 DEF Goto, IInv, TypeOK

(* The only step that takes a goroutine from "handling" to an overload reply. *)
LEMMA OnlyOverload ==
  ASSUME IInv, [Next]_vars, NEW h \in Handler,
         query[h].phase = "handling", query'[h].phase = "replying",
         query'[h].result = "overload"
  PROVE  \E k \in Kind \ {"local"} : Overload(h, k)
<1>0. query[h] \in Handling
  BY DEF IInv, TypeOK
<1>1. CASE Tick
  BY <1>0, <1>1 DEF Tick, Handling
<1>2. CASE Exit
  BY <1>2 DEF Exit, NoQuery
<1>3. CASE RunReturns \/ Respawn \/ SingBoxChanges \/ UNCHANGED vars
  BY <1>3 DEF RunReturns, Respawn, SingBoxChanges, vars
<1>4. ASSUME NEW g \in Handler,
             ReceiveUDP(g) \/ AcceptTCP(g) \/ HandlerStep(g) \/ UpstreamAnswers(g)
      PROVE  \E k \in Kind \ {"local"} : Overload(h, k)
  <2>1. g = h
    BY <1>4, OthersUntouched
  <2>2. CASE AnswerLocally(h)
    BY <1>0, <2>2 DEF AnswerLocally, Goto, IInv, TypeOK, Handling
  <2>3. CASE \E k \in Kind \ {"local"} : Reserve(h, k)
    BY <1>0, <2>3 DEF Reserve, Goto, IInv, TypeOK, Handling
  <2> QED
    BY <1>4, <2>1, <2>2, <2>3
       DEF ReceiveUDP, AcceptTCP, HandlerStep, UpstreamAnswers, ReadTCP,
           Dial, DialFails, ForwardFails, WriteReply
<1> QED BY <1>1, <1>2, <1>3, <1>4 DEF Next

(* A refusal finds exactly the slots of its own pool taken. *)
LEMMA OverloadCounts ==
  ASSUME IInv, NEW h \in Handler, NEW k \in Kind \ {"local"}, Overload(h, k)
  PROVE  /\ query'[h].kind = k
         /\ Cardinality(Holders(PoolOf(k))) = Capacity[PoolOf(k)]
<1>1. query'[h].kind = k
  BY DEF Overload, Goto, IInv, TypeOK, Handling
<1> QED BY <1>1, PoolOfType DEF Overload, IInv, SlotAccounting

(* FakeIP queries are refused only because of FakeIP queries, the others only     *)
(* because of the others: the two paths cannot starve each other.                 *)
THEOREM PoolsIsolated == Spec => RefusedByOwnPoolOnly
<1> DEFINE Same(h) == {g \in Handler : Forwarding(g) /\
                         (query[g].kind = "fake" <=> query'[h].kind = "fake")}
           Refusal(h) == query[h].phase = "handling" /\ query'[h].phase = "replying"
                         /\ query'[h].result = "overload"
           Isolated == \A h \in Handler : Refusal(h) =>
             Cardinality(Same(h)) =
               IF query'[h].kind = "fake" THEN FakeSlots ELSE RealSlots
<1>1. ASSUME IInv, [Next]_vars PROVE Isolated
  <2> SUFFICES ASSUME NEW h \in Handler, Refusal(h)
               PROVE  Cardinality(Same(h)) =
                        IF query'[h].kind = "fake" THEN FakeSlots ELSE RealSlots
    OBVIOUS
  <2>1. PICK k \in Kind \ {"local"} : Overload(h, k)
    BY <1>1, OnlyOverload
  <2>2. query'[h].kind = k
        /\ Cardinality(Holders(PoolOf(k))) = Capacity[PoolOf(k)]
    BY <1>1, <2>1, OverloadCounts
  <2>3. Same(h) = Holders(PoolOf(k))
    BY <2>2 DEF Holders, PoolOf
  <2>4. Capacity[PoolOf(k)] = IF k = "fake" THEN FakeSlots ELSE RealSlots
    BY DEF Capacity, PoolOf, Pool
  <2> QED BY <2>2, <2>3, <2>4
<1>2. IInv /\ [Next]_vars => [Isolated]_vars
  BY <1>1
<1> QED BY <1>2, InitIInv, NextIInv, PTL DEF Spec, RefusedByOwnPoolOnly

-----------------------------------------------------------------------------
(* The refinement: what the abstract pools see of a state. *)
Refused == {h \in Handler : query[h].phase = "replying"
                            /\ query[h].result = "overload"}
InFlight == [p \in Pool |-> Holders(p)]

(* Both modules count with the same operator. *)
LEMMA SameCardinality == ASSUME NEW S PROVE Pools!Cardinality(S) = Cardinality(S)
  BY DEF Pools!Cardinality, Cardinality

(* A step that changes neither mapped variable is a stutter of the pools. *)
LEMMA StutterStep ==
  ASSUME InFlight' = InFlight, Refused' = Refused
  PROVE  [Pools!Next]_(Pools!vars)
  BY DEF Pools!vars, InFlight, Refused

(* Reserve admits a goroutine. *)
LEMMA ReserveRefines ==
  ASSUME IInv, NEW h \in Handler, NEW k \in Kind \ {"local"}, Reserve(h, k)
  PROVE  Pools!Admit(h, PoolOf(k))
<1> DEFINE p == PoolOf(k)
           next == [query[h] EXCEPT !.phase = "dialing", !.kind = k]
<1>1. p \in Pool
  BY PoolOfType
<1>2. query[h] \in Handling /\ query[h].phase = "handling"
  BY DEF IInv, TypeOK, Reserve
<1>3. next.phase = "dialing" /\ next.kind = k
  BY <1>2 DEF Handling
<1>4. query'[h] = next /\ \A g \in Handler \ {h} : query'[g] = query[g]
  BY DEF Reserve, Goto, IInv, TypeOK
<1>5. Cardinality(Holders(p)) < Capacity[p]
  BY <1>1 DEF Reserve, IInv, SlotAccounting
<1>6. Holders(p)' = Holders(p) \cup {h}
      /\ \A q \in Pool \ {p} : Holders(q)' = Holders(q)
  <2> HIDE DEF next
  <2> QED BY <1>2, <1>3, <1>4 DEF Holders, Forwarding
<1>7. Refused' = Refused
  <2> HIDE DEF next
  <2> QED BY <1>2, <1>3, <1>4 DEF Refused
<1>8. h \notin Refused /\ \A q \in Pool : h \notin Holders(q)
  BY <1>2 DEF Refused, Holders, Forwarding
<1>9. InFlight' = [InFlight EXCEPT ![p] = @ \cup {h}]
  <2> HIDE DEF p
  <2> QED BY <1>1, <1>6 DEF InFlight
<1> QED
  <2> HIDE DEF p
  <2>1. h \notin Pools!Busy
    BY <1>8 DEF Pools!Busy, Refused
  <2>2. Cardinality(InFlight[p]) < Capacity[p]
    BY <1>1, <1>5 DEF InFlight
  <2>3. Pools!Cardinality(InFlight[p]) = Cardinality(InFlight[p])
    BY SameCardinality
  <2> QED BY <2>1, <2>2, <2>3, <1>7, <1>9 DEF Pools!Admit, InFlight, Refused, p

(* Overload refuses one. *)
LEMMA OverloadRefines ==
  ASSUME IInv, NEW h \in Handler, NEW k \in Kind \ {"local"}, Overload(h, k)
  PROVE  Pools!Refuse(h, PoolOf(k))
<1> DEFINE next == [query[h] EXCEPT !.phase = "replying", !.kind = k,
                                    !.result = "overload"]
<1>1. PoolOf(k) \in Pool
  BY PoolOfType
<1>2. query[h] \in Handling /\ query[h].phase = "handling"
  BY DEF IInv, TypeOK, Overload
<1>3. next.phase = "replying" /\ next.result = "overload"
  BY <1>2 DEF Handling
<1>4. query'[h] = next /\ \A g \in Handler \ {h} : query'[g] = query[g]
  BY DEF Overload, Goto, IInv, TypeOK
<1>5. Cardinality(InFlight[PoolOf(k)]) = Capacity[PoolOf(k)]
  BY <1>1, OverloadCounts DEF InFlight
<1>6. InFlight' = InFlight
  <2> HIDE DEF next
  <2> QED BY <1>2, <1>3, <1>4 DEF InFlight, Holders, Forwarding
<1>7. Refused' = Refused \cup {h}
  <2> HIDE DEF next
  <2> QED BY <1>2, <1>3, <1>4 DEF Refused
<1>8. h \notin Pools!Busy
  BY <1>2 DEF Pools!Busy, Holders, Forwarding
<1>9. Pools!Cardinality(InFlight[PoolOf(k)]) = Cardinality(InFlight[PoolOf(k)])
  BY SameCardinality
<1> QED BY <1>5, <1>6, <1>7, <1>8, <1>9 DEF Pools!Refuse, InFlight, Refused

(* The end of a forward releases one. *)
LEMMA ForwardReturnsRefines ==
  ASSUME IInv, NEW h \in Handler, NEW outcome \in Result \ {"overload"},
         Forwarding(h), ForwardReturns(h, outcome)
  PROVE  Pools!Release(h, PoolOf(query[h].kind))
<1> DEFINE next == [query[h] EXCEPT !.phase = "replying", !.result = outcome,
                                    !.fwdLeft = 0]
<1>0. PICK p \in Pool : p = PoolOf(query[h].kind)
  BY PoolOfType
<1>1. query[h] \in Handling
  BY DEF IInv, TypeOK
<1>2. next.phase = "replying" /\ next.result # "overload"
  BY <1>1 DEF Handling
<1>3. query'[h] = next /\ \A g \in Handler \ {h} : query'[g] = query[g]
  BY DEF ForwardReturns, Goto, IInv, TypeOK
<1>4. Holders(p)' = Holders(p) \ {h} /\ h \in Holders(p)
      /\ \A q \in Pool \ {p} : Holders(q)' = Holders(q)
  <2> HIDE DEF next
  <2> QED BY <1>0, <1>2, <1>3 DEF Holders, Forwarding
<1>5. InFlight' = [InFlight EXCEPT ![p] = @ \ {h}]
  BY <1>0, <1>4 DEF InFlight
<1>6. Refused' = Refused
  <2> HIDE DEF next
  <2> QED BY <1>2, <1>3 DEF Refused, Forwarding
<1> QED BY <1>0, <1>4, <1>5, <1>6 DEF Pools!Release, InFlight, Refused

(* Writing the reply forgets a goroutine that was refused, and stutters otherwise. *)
LEMMA WriteReplyRefines ==
  ASSUME IInv, NEW h \in Handler, WriteReply(h)
  PROVE  [Pools!Next]_(Pools!vars)
<1>1. NoQuery.phase = "idle"
  BY DEF NoQuery
<1>2. query'[h] = NoQuery /\ \A g \in Handler \ {h} : query'[g] = query[g]
  BY DEF WriteReply, Goto, IInv, TypeOK
<1>3. InFlight' = InFlight
  BY <1>1, <1>2 DEF InFlight, Holders, Forwarding, WriteReply
<1>4. Refused' = Refused \ {h}
  BY <1>1, <1>2 DEF Refused
<1>5. CASE h \in Refused
  BY <1>3, <1>4, <1>5 DEF Pools!Next, Pools!Forget, InFlight, Refused
<1>6. CASE h \notin Refused
  BY <1>3, <1>4, <1>6, StutterStep
<1> QED BY <1>5, <1>6

(* A goroutine moving outside the pools is a stutter. *)
LEMMA QuietRefines ==
  ASSUME IInv, NEW h \in Handler, NEW next, Goto(h, next),
         ~(next.phase = "replying" /\ next.result = "overload"),
         query[h].phase # "replying",
         \/ ~Forwarding(h) /\ next.phase \notin {"dialing", "waiting"}
         \/ /\ Forwarding(h) /\ next.phase \in {"dialing", "waiting"}
            /\ next.kind = query[h].kind
  PROVE  [Pools!Next]_(Pools!vars)
<1>1. query'[h] = next /\ \A g \in Handler \ {h} : query'[g] = query[g]
  BY DEF Goto, IInv, TypeOK
<1>2. InFlight' = InFlight
  BY <1>1 DEF InFlight, Holders, Forwarding
<1>3. Refused' = Refused
  BY <1>1 DEF Refused
<1> QED BY <1>2, <1>3, StutterStep

LEMMA GoroutineRefines ==
  ASSUME IInv, NEW h \in Handler,
         ReceiveUDP(h) \/ AcceptTCP(h) \/ HandlerStep(h) \/ UpstreamAnswers(h)
  PROVE  [Pools!Next]_(Pools!vars)
<1>0. query[h] \in Handling
  BY DEF IInv, TypeOK
<1>1. CASE ReceiveUDP(h)
  BY <1>1, QuietRefines DEF ReceiveUDP, Forwarding, NoQuery
<1>2. CASE AcceptTCP(h)
  BY <1>2, QuietRefines DEF AcceptTCP, Forwarding, NoQuery
<1>3. CASE ReadTCP(h)
  <2> DEFINE next == [query[h] EXCEPT !.phase = "handling"]
  <2>1. next.phase = "handling" /\ NoQuery.phase = "idle"
    BY <1>0 DEF Handling, NoQuery
  <2>2. query[h].phase = "reading" /\ (Goto(h, next) \/ Goto(h, NoQuery))
    BY <1>3 DEF ReadTCP
  <2> QED BY <2>1, <2>2, QuietRefines DEF Forwarding
<1>4. CASE AnswerLocally(h)
  <2> DEFINE next == [query[h] EXCEPT !.phase = "replying", !.kind = "local",
                                      !.result = "local"]
  <2>1. next.phase = "replying" /\ next.result = "local"
    BY <1>0 DEF Handling
  <2>2. query[h].phase = "handling" /\ Goto(h, next)
    BY <1>4 DEF AnswerLocally
  <2> QED BY <2>1, <2>2, QuietRefines DEF Forwarding
<1>5. CASE \E k \in Kind \ {"local"} : Reserve(h, k) \/ Overload(h, k)
  BY <1>5, ReserveRefines, OverloadRefines, PoolOfType DEF Pools!Next
<1>6. CASE Dial(h)
  <2> DEFINE next == [query[h] EXCEPT !.phase = "waiting", !.fwdLeft = T]
  <2>1. next.phase = "waiting" /\ next.kind = query[h].kind
    BY <1>0 DEF Handling
  <2>2. query[h].phase = "dialing" /\ Goto(h, next)
    BY <1>6 DEF Dial
  <2> QED BY <2>1, <2>2, QuietRefines DEF Forwarding
<1>7. CASE DialFails(h) \/ ForwardFails(h) \/ UpstreamAnswers(h)
  <2>1. PICK outcome \in Result \ {"overload"} :
          Forwarding(h) /\ ForwardReturns(h, outcome)
    BY <1>7 DEF DialFails, ForwardFails, UpstreamAnswers, Forwarding, Result
  <2> QED BY <2>1, ForwardReturnsRefines, PoolOfType DEF Pools!Next
<1> QED
  BY <1>1, <1>2, <1>3, <1>4, <1>5, <1>6, <1>7, WriteReplyRefines DEF HandlerStep

(* Every step of the forwarder is a step of the pools, or none of their business. *)
LEMMA StepRefines == IInv /\ [Next]_vars => [Pools!Next]_(Pools!vars)
<1> SUFFICES ASSUME IInv, [Next]_vars PROVE [Pools!Next]_(Pools!vars)
  OBVIOUS
<1>1. CASE RunReturns \/ Respawn \/ SingBoxChanges \/ UNCHANGED vars
  BY <1>1, StutterStep
     DEF RunReturns, Respawn, SingBoxChanges, vars, InFlight, Refused, Holders,
         Forwarding
<1>2. CASE Tick
  <2>1. \A h \in Handler : /\ query'[h].phase = query[h].phase
                           /\ query'[h].kind = query[h].kind
                           /\ query'[h].result = query[h].result
    BY <1>2 DEF Tick, IInv, TypeOK, Handling
  <2> QED BY <2>1, StutterStep DEF InFlight, Refused, Holders, Forwarding
<1>3. CASE Exit
  <2>1. \A h \in Handler : query'[h].phase = "idle"
    BY <1>3 DEF Exit, NoQuery
  <2>2. InFlight' = [p \in Pool |-> {}] /\ Refused' = {}
    BY <2>1 DEF InFlight, Refused, Holders, Forwarding
  <2> QED BY <2>2 DEF Pools!Next, Pools!Reset, InFlight, Refused
<1> QED BY <1>1, <1>2, <1>3, GoroutineRefines DEF Next

(* The forwarder implements two independent bounded pools. *)
THEOREM ImplementsPools == Spec => PoolsSpec
<1>1. Init => Pools!Init
  BY DEF Init, Pools!Init, Holders, Forwarding, NoQuery
<1> QED BY <1>1, InitIInv, NextIInv, StepRefines, PTL
        DEF Spec, PoolsSpec, Pools!Spec

=============================================================================
