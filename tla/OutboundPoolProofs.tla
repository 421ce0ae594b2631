------------------------- MODULE OutboundPoolProofs -------------------------
(***************************************************************************)
(* Proofs of the safety properties of OutboundPool, for all pools, members *)
(* in any order, intervals and caps.  Convergence is left to TLC.          *)
(***************************************************************************)
EXTENDS OutboundPool, TLAPS

(* What could be reached a moment ago is in the window of a pass. *)
WindowCurrent(p) ==
  Reachable \subseteq window[p].seen /\ Member \ Reachable \subseteq window[p].missed

(* A pass has come to a member because those before it could not be reached,  *)
(* and goes beyond the probe because this one could.                          *)
PassJustified(p) ==
  /\ pass[p].at \in {"delay", "selected", "select"} =>
       \A i \in 1..(pass[p].next - 1) : Outbounds[p][i] \in window[p].missed
  /\ pass[p].at \in {"selected", "select"} => Current(p) \in window[p].seen

RetryBounded(p) ==
  /\ pass[p].retry <= RetryCap
  /\ pass[p].failed /\ pass[p].at = "sleep" => pass[p].wait <= RetryCap

PoolOk(p) == WindowCurrent(p) /\ PassJustified(p) /\ RetryBounded(p)

GoneAfterReturn == run = "returned" => \A p \in Pool : pass[p].at = "gone"

IInv == TypeOK /\ (\A p \in Pool : PoolOk(p)) /\ GoneAfterReturn

LEMMA OutboundsOk ==
  ASSUME NEW p \in Pool
  PROVE  /\ Len(Outbounds[p]) \in Nat /\ Len(Outbounds[p]) >= 2
         /\ \A i \in 1..Len(Outbounds[p]) : Outbounds[p][i] \in Member
  BY MembersAssumption

LEMMA InitOk == Init => IInv
<1> SUFFICES ASSUME Init PROVE IInv
  OBVIOUS
<1>1. ASSUME NEW p \in Pool
      PROVE  /\ pass[p] = [at |-> "delay", next |-> 1, wait |-> 0, retry |-> 1, failed |-> FALSE]
             /\ window[p] = NewWindow /\ selected[p] = Default(p)
  BY DEF Init
<1>2. TypeOK
  <2>1. selected \in [Pool -> Member]
    BY OutboundsOk DEF Init, Default
  <2>2. pass \in [Pool -> Goroutine] /\ \A p \in Pool : pass[p].next \in 1..Len(Outbounds[p])
    BY <1>1, OutboundsOk DEF Init, Goroutine
  <2>3. window \in [Pool -> [seen : SUBSET Member, missed : SUBSET Member]]
    BY DEF Init, NewWindow, Reachable
  <2> QED BY <2>1, <2>2, <2>3 DEF Init, TypeOK
<1>3. ASSUME NEW p \in Pool PROVE PoolOk(p)
  <2>1. WindowCurrent(p)
    BY <1>1 DEF WindowCurrent, NewWindow
  <2>2. PassJustified(p) /\ RetryBounded(p)
    BY <1>1, TimesAssumption DEF PassJustified, RetryBounded
  <2> QED BY <2>1, <2>2 DEF PoolOk
<1> QED BY <1>2, <1>3 DEF IInv, GoneAfterReturn, Init

-----------------------------------------------------------------------------
(* A step of one goroutine: what must be shown of it, and what follows. *)
GoroutineOk(p, g) ==
  /\ g \in Goroutine /\ g.next \in 1..Len(Outbounds[p])
  /\ g.at \in {"delay", "selected", "select"} =>
       \A i \in 1..(g.next - 1) : Outbounds[p][i] \in window[p].missed
  /\ g.at \in {"selected", "select"} => Outbounds[p][g.next] \in window[p].seen
  /\ g.retry <= RetryCap
  /\ g.failed /\ g.at = "sleep" => g.wait <= RetryCap

LEMMA KnownOk == ASSUME IInv, NEW p \in Pool PROVE GoroutineOk(p, pass[p])
  BY DEF IInv, TypeOK, PoolOk, PassJustified, RetryBounded, Current, GoroutineOk

LEMMA OneGoroutine ==
  ASSUME IInv, NEW p \in Pool, NEW g, GoroutineOk(p, g),
         pass' = [pass EXCEPT ![p] = g],
         run' = run, run = "returned" => g.at = "gone",
         UNCHANGED <<up, healthy, window>>, selected' \in [Pool -> Member]
  PROVE  IInv'
<1>1. pass' \in [Pool -> Goroutine] /\ \A q \in Pool : pass'[q].next \in 1..Len(Outbounds[q])
  BY DEF IInv, TypeOK, GoroutineOk
<1>2. TypeOK'
  BY <1>1 DEF IInv, TypeOK
<1>3. ASSUME NEW q \in Pool PROVE PoolOk(q)'
  <2>1. WindowCurrent(q)'
    BY DEF IInv, PoolOk, WindowCurrent, Reachable
  <2>2. CASE q = p
    <3>1. pass'[q] = g
      BY <2>2 DEF IInv, TypeOK
    <3> QED BY <2>1, <2>2, <3>1 DEF PoolOk, PassJustified, RetryBounded, Current, GoroutineOk
  <2>3. CASE q # p
    <3>1. pass'[q] = pass[q]
      BY <2>3 DEF IInv, TypeOK
    <3> QED BY <2>1, <3>1 DEF IInv, PoolOk, PassJustified, RetryBounded, Current
  <2> QED BY <2>2, <2>3
<1>4. GoneAfterReturn'
  BY DEF IInv, TypeOK, GoneAfterReturn
<1> QED BY <1>2, <1>3, <1>4 DEF IInv

(* The end of a pass, for each of its outcomes. *)
LEMMA PassEnds ==
  ASSUME IInv, NEW p \in Pool, run = "running", CheckFails(p) \/ CheckSucceeds(p),
         UNCHANGED <<run, up, healthy, window>>, selected' \in [Pool -> Member]
  PROVE  IInv'
<1> DEFINE g(wait, retry, failed) ==
      [pass[p] EXCEPT !.at = "sleep", !.wait = wait, !.retry = retry, !.failed = failed]
<1>1. /\ pass[p] \in Goroutine /\ pass[p].retry <= RetryCap
      /\ pass[p].next \in 1..Len(Outbounds[p])
  BY KnownOk DEF GoroutineOk
<1>2. ASSUME NEW wait \in Nat, NEW retry \in Nat \ {0}, NEW failed \in BOOLEAN,
             retry <= RetryCap, failed => wait <= RetryCap,
             pass' = [pass EXCEPT ![p] = g(wait, retry, failed)]
      PROVE  IInv'
  <2>1. g(wait, retry, failed) \in Goroutine
    BY <1>1 DEF Goroutine
  <2>2. /\ g(wait, retry, failed).at = "sleep" /\ g(wait, retry, failed).wait = wait
        /\ g(wait, retry, failed).retry = retry /\ g(wait, retry, failed).failed = failed
        /\ g(wait, retry, failed).next = pass[p].next
    BY <1>1 DEF Goroutine
  <2>3. PICK r : r = g(wait, retry, failed)
    OBVIOUS
  <2> HIDE DEF g
  <2>4. GoroutineOk(p, r)
    BY <1>1, <1>2, <2>1, <2>2, <2>3 DEF GoroutineOk
  <2> QED BY <1>2, <2>3, <2>4, OneGoroutine
<1>3. CASE CheckFails(p)
  <2> DEFINE retry == IF 2 * pass[p].retry > RetryCap THEN RetryCap ELSE 2 * pass[p].retry
  <2>1. /\ pass[p].retry \in Nat \ {0} /\ retry \in Nat \ {0} /\ retry <= RetryCap
    BY <1>1, TimesAssumption DEF Goroutine
  <2>2. pass' = [pass EXCEPT ![p] = g(pass[p].retry, retry, TRUE)]
    BY <1>3 DEF CheckFails
  <2> HIDE DEF retry, g
  <2> QED BY <1>1, <1>2, <2>1, <2>2
<1>4. CASE CheckSucceeds(p)
  <2>1. pass' = [pass EXCEPT ![p] = g(Interval, 1, FALSE)]
    BY <1>4 DEF CheckSucceeds
  <2>2. Interval \in Nat /\ 1 \in Nat \ {0} /\ 1 <= RetryCap
    BY TimesAssumption
  <2>3. FALSE \in BOOLEAN /\ (FALSE => Interval <= RetryCap)
    OBVIOUS
  <2> HIDE DEF g
  <2> QED BY <1>2, <2>1, <2>2, <2>3, Zenon
<1> QED BY <1>3, <1>4

LEMMA DelayOk == ASSUME IInv, NEW p \in Pool, Delay(p) PROVE IInv'
<1>1. GoroutineOk(p, pass[p]) /\ WindowCurrent(p) /\ pass[p].at = "delay" /\ run = "running"
  BY KnownOk DEF Delay, IInv, PoolOk
<1>2. selected' \in [Pool -> Member]
  BY DEF Delay, IInv, TypeOK
<1>3. CASE Current(p) \in Reachable
  <2> DEFINE g == [pass[p] EXCEPT !.at = "selected"]
  <2>1. pass' = [pass EXCEPT ![p] = g]
    BY <1>3 DEF Delay
  <2>2. GoroutineOk(p, g)
    BY <1>1, <1>3 DEF GoroutineOk, Goroutine, WindowCurrent, Current
  <2> QED BY <1>1, <1>2, <2>1, <2>2, OneGoroutine DEF Delay
<1>4. CASE Current(p) \notin Reachable /\ pass[p].next < Len(Outbounds[p])
  <2> DEFINE g == [pass[p] EXCEPT !.next = @ + 1]
  <2>1. pass' = [pass EXCEPT ![p] = g]
    BY <1>4 DEF Delay
  <2>2. Outbounds[p][pass[p].next] \in window[p].missed
    BY <1>1, <1>4, OutboundsOk DEF WindowCurrent, Current, GoroutineOk
  <2>3. g \in Goroutine /\ g.next = pass[p].next + 1 /\ g.at = "delay"
        /\ g.retry = pass[p].retry
    BY <1>1 DEF GoroutineOk, Goroutine
  <2>4. \A i \in 1..(g.next - 1) : Outbounds[p][i] \in window[p].missed
    BY <1>1, <2>2, <2>3 DEF GoroutineOk, Goroutine
  <2>5. g.next \in 1..Len(Outbounds[p])
    BY <1>1, <1>4, <2>3, OutboundsOk DEF GoroutineOk, Goroutine
  <2>6. GoroutineOk(p, g)
    BY <1>1, <2>3, <2>4, <2>5 DEF GoroutineOk
  <2> QED BY <1>1, <1>2, <2>1, <2>6, OneGoroutine DEF Delay
<1>5. CASE CheckFails(p)
  BY <1>1, <1>2, <1>5, PassEnds DEF Delay
<1> QED BY <1>3, <1>4, <1>5 DEF Delay

LEMMA SelectedOk == ASSUME IInv, NEW p \in Pool, Selected(p) PROVE IInv'
<1>1. GoroutineOk(p, pass[p]) /\ pass[p].at = "selected" /\ run = "running"
  BY KnownOk DEF Selected
<1>2. selected' \in [Pool -> Member]
  BY DEF Selected, IInv, TypeOK
<1>3. CASE pass' = [pass EXCEPT ![p].at = "select"]
  <2> DEFINE g == [pass[p] EXCEPT !.at = "select"]
  <2>1. pass' = [pass EXCEPT ![p] = g]
    BY <1>3
  <2>2. GoroutineOk(p, g)
    BY <1>1 DEF GoroutineOk, Goroutine
  <2> QED BY <1>1, <1>2, <2>1, <2>2, OneGoroutine DEF Selected
<1>4. CASE CheckFails(p) \/ CheckSucceeds(p)
  BY <1>1, <1>2, <1>4, PassEnds DEF Selected
<1> QED BY <1>3, <1>4 DEF Selected

(* Only these two select; the member is the current one. *)
LEMMA CurrentIsMember == ASSUME IInv, NEW p \in Pool PROVE Current(p) \in Member
  BY OutboundsOk DEF IInv, TypeOK, Current

LEMMA SelectOk == ASSUME IInv, NEW p \in Pool, Select(p) PROVE IInv'
<1>1. selected' \in [Pool -> Member]
  BY CurrentIsMember DEF Select, IInv, TypeOK
<1> QED BY <1>1, PassEnds DEF Select

LEMMA LeaveOk == ASSUME IInv, NEW p \in Pool, Leave(p) PROVE IInv'
<1> DEFINE g == [pass[p] EXCEPT !.at = "gone", !.wait = 0]
<1>1. selected' \in [Pool -> Member]
  BY CurrentIsMember DEF Leave, IInv, TypeOK
<1>2. pass' = [pass EXCEPT ![p] = g]
  BY DEF Leave
<1>3. GoroutineOk(p, pass[p])
  BY KnownOk
<1>4. GoroutineOk(p, g) /\ g.at = "gone"
  BY <1>3 DEF GoroutineOk, Goroutine
<1> QED BY <1>1, <1>2, <1>4, OneGoroutine DEF Leave

LEMMA FromTheFirst ==
  ASSUME NEW g \in Goroutine, NEW h, h = [g EXCEPT !.at = "delay", !.next = 1]
  PROVE  h \in Goroutine /\ h.next = 1 /\ h.at = "delay" /\ h.retry = g.retry
<1>1. g = [at |-> g.at, next |-> g.next, wait |-> g.wait, retry |-> g.retry,
           failed |-> g.failed]
  BY Zenon DEF Goroutine
<1>2. h = [at |-> "delay", next |-> 1, wait |-> g.wait, retry |-> g.retry,
           failed |-> g.failed]
  BY <1>1
<1>3. g.wait \in Nat /\ g.retry \in Nat \ {0} /\ g.failed \in BOOLEAN
  BY DEF Goroutine
<1>4. 1 \in Nat \ {0}
  OBVIOUS
<1> QED BY <1>2, <1>3, <1>4 DEF Goroutine

LEMMA StartPassOk == ASSUME IInv, NEW p \in Pool, StartPass(p) PROVE IInv'
<1>1. pass' = [pass EXCEPT ![p] = [pass[p] EXCEPT !.at = "delay", !.next = 1]]
  BY DEF StartPass
<1>2. ASSUME NEW q \in Pool
      PROVE  /\ pass'[q] = IF q = p THEN [pass[p] EXCEPT !.at = "delay", !.next = 1] ELSE pass[q]
             /\ window'[q] = IF q = p THEN NewWindow ELSE window[q]
  BY <1>1 DEF StartPass, IInv, TypeOK
<1>3. TypeOK'
  <2>1. ASSUME NEW q \in Pool
        PROVE  pass'[q] \in Goroutine /\ pass'[q].next \in 1..Len(Outbounds[q])
    <3>1. pass[q] \in Goroutine /\ pass[q].next \in 1..Len(Outbounds[q])
      BY DEF IInv, TypeOK
    <3>2. CASE q = p
      <4>1. pass'[q] = [pass[q] EXCEPT !.at = "delay", !.next = 1]
        BY <1>2, <3>2
      <4>2. pass'[q] \in Goroutine /\ pass'[q].next = 1
        BY <3>1, <4>1, FromTheFirst
      <4> QED BY <4>2, OutboundsOk
    <3> QED BY <1>2, <3>1, <3>2
  <2>2. window' \in [Pool -> [seen : SUBSET Member, missed : SUBSET Member]]
    BY DEF StartPass, IInv, TypeOK, NewWindow, Reachable
  <2>3. pass' \in [Pool -> Goroutine]
    BY <1>1, <2>1 DEF IInv, TypeOK
  <2> QED BY <2>1, <2>2, <2>3 DEF StartPass, IInv, TypeOK
<1>4. Reachable' = Reachable
  BY DEF StartPass, Reachable
<1>5. ASSUME NEW q \in Pool, q # p PROVE PoolOk(q)'
  BY <1>2, <1>4, <1>5
  DEF IInv, PoolOk, WindowCurrent, PassJustified, RetryBounded, Current
<1>6. PoolOk(p)'
  <2>1. /\ pass'[p].at = "delay" /\ pass'[p].next = 1 /\ pass'[p].retry = pass[p].retry
        /\ window'[p] = NewWindow
    BY <1>2 DEF IInv, TypeOK, Goroutine
  <2>2. pass[p].retry <= RetryCap
    BY DEF IInv, PoolOk, RetryBounded
  <2> QED BY <1>4, <2>1, <2>2
    DEF PoolOk, WindowCurrent, PassJustified, RetryBounded, NewWindow
<1>7. GoneAfterReturn'
  BY DEF StartPass, GoneAfterReturn
<1> QED BY <1>3, <1>5, <1>6, <1>7 DEF IInv

LEMMA TickOk == ASSUME IInv, Tick PROVE IInv'
<1>1. ASSUME NEW p \in Pool
      PROVE  /\ pass'[p] \in Goroutine /\ pass'[p].wait <= pass[p].wait
             /\ pass'[p].at = pass[p].at /\ pass'[p].next = pass[p].next
             /\ pass'[p].retry = pass[p].retry /\ pass'[p].failed = pass[p].failed
  <2>1. pass'[p] = [pass[p] EXCEPT !.wait = IF @ > 0 THEN @ - 1 ELSE 0]
    BY DEF Tick
  <2>2. pass[p] \in Goroutine
    BY DEF IInv, TypeOK
  <2> QED BY <2>1, <2>2 DEF Goroutine
<1>2. TypeOK'
  BY <1>1 DEF IInv, TypeOK, Tick
<1>3. Reachable' = Reachable
  BY DEF Tick, Reachable
<1>4. ASSUME NEW p \in Pool PROVE PoolOk(p)'
  <2>1. pass[p].wait \in Nat /\ pass'[p].wait \in Nat
    BY <1>1 DEF IInv, TypeOK, Goroutine
  <2>2. RetryBounded(p)'
    BY <1>1, <2>1, TimesAssumption DEF IInv, PoolOk, RetryBounded
  <2>3. WindowCurrent(p)' /\ PassJustified(p)'
    BY <1>1, <1>3 DEF Tick, IInv, PoolOk, WindowCurrent, PassJustified, Current
  <2> QED BY <2>2, <2>3 DEF PoolOk
<1>5. GoneAfterReturn'
  BY <1>1 DEF Tick, IInv, GoneAfterReturn
<1> QED BY <1>2, <1>4, <1>5 DEF IInv

(* What the network and sing-box do only adds to the windows. *)
LEMMA NoticeOk ==
  ASSUME IInv, Notice, UNCHANGED <<run, pass>>,
         up' \in BOOLEAN, healthy' \subseteq Member, selected' \in [Pool -> Member]
  PROVE  IInv'
<1>1. Reachable' \subseteq Member
  BY DEF Reachable
<1>2. ASSUME NEW p \in Pool
      PROVE  /\ window'[p].seen = window[p].seen \cup Reachable'
             /\ window'[p].missed = window[p].missed \cup (Member \ Reachable')
  BY DEF Notice
<1>3. window' \in [Pool -> [seen : SUBSET Member, missed : SUBSET Member]]
  BY <1>1 DEF Notice, IInv, TypeOK
<1>4. TypeOK'
  BY <1>3 DEF IInv, TypeOK
<1>5. ASSUME NEW p \in Pool PROVE PoolOk(p)'
  BY <1>2 DEF IInv, PoolOk, WindowCurrent, PassJustified, RetryBounded, Current
<1> QED BY <1>4, <1>5 DEF IInv, GoneAfterReturn

LEMMA WorldOk ==
  ASSUME IInv, (\E m \in Member : HealthChanges(m)) \/ SingBoxStops \/ SingBoxStarts
  PROVE  IInv'
<1>1. ASSUME NEW m \in Member, HealthChanges(m) PROVE IInv'
  BY <1>1, NoticeOk DEF HealthChanges, IInv, TypeOK
<1>2. ASSUME SingBoxStops PROVE IInv'
  BY <1>2, NoticeOk DEF SingBoxStops, IInv, TypeOK
<1>3. ASSUME SingBoxStarts PROVE IInv'
  <2>1. selected' \in [Pool -> Member]
    BY <1>3, OutboundsOk DEF SingBoxStarts, Default
  <2> QED BY <1>3, <2>1, NoticeOk DEF SingBoxStarts, IInv, TypeOK
<1> QED BY <1>1, <1>2, <1>3

(* Run ends, in its two steps: the goroutines are as they were. *)
LEMMA RunEndsOk == ASSUME IInv, Cancel \/ Return PROVE IInv'
<1>1. UNCHANGED <<up, healthy, selected, pass, window>> /\ TypeOK'
  BY DEF Cancel, Return, IInv, TypeOK
<1>2. \A p \in Pool : PoolOk(p)'
  BY <1>1 DEF IInv, PoolOk, WindowCurrent, PassJustified, RetryBounded, Current, Reachable
<1>3. GoneAfterReturn'
  BY DEF Cancel, Return, GoneAfterReturn
<1> QED BY <1>1, <1>2, <1>3 DEF IInv

LEMMA NextOk == IInv /\ [Next]_vars => IInv'
<1> SUFFICES ASSUME IInv, [Next]_vars PROVE IInv'
  OBVIOUS
<1>1. ASSUME NEW p \in Pool, PoolStep(p) PROVE IInv'
  BY <1>1, DelayOk, SelectedOk, SelectOk, StartPassOk, LeaveOk DEF PoolStep
<1>2. ASSUME UNCHANGED vars PROVE IInv'
  BY <1>2
  DEF vars, IInv, TypeOK, PoolOk, WindowCurrent, PassJustified, RetryBounded, Current,
      Reachable, GoneAfterReturn
<1> QED BY <1>1, <1>2, TickOk, RunEndsOk, WorldOk DEF Next

LEMMA Invariance == Spec => []IInv
  BY InitOk, NextOk, PTL DEF Spec

(* The types of the variables. *)
THEOREM TypeCorrect == Spec => []TypeOK
  BY Invariance, PTL DEF IInv

(* A failed check is repeated within RetryCap seconds, whatever the interval and  *)
(* however many checks failed before (runPool's delay, manager.go).               *)
THEOREM AlwaysRetriedSoon == Spec => []FailureIsRetriedSoon
<1>1. IInv => FailureIsRetriedSoon
  BY DEF IInv, PoolOk, RetryBounded, FailureIsRetriedSoon
<1> QED BY <1>1, Invariance, PTL

-----------------------------------------------------------------------------
(* The steps that select, with what is known of the member then. *)
LEMMA SelectionChanges ==
  ASSUME IInv, [Next]_vars, up, selected' # selected
  PROVE  \E p \in Pool : /\ pass[p].at = "select" /\ run # "returned"
                         /\ selected' = [selected EXCEPT ![p] = Current(p)]
<1>1. ASSUME NEW p \in Pool, PoolStep(p)
      PROVE  /\ pass[p].at = "select" /\ run # "returned"
             /\ selected' = [selected EXCEPT ![p] = Current(p)]
  BY <1>1 DEF PoolStep, Delay, Selected, Select, StartPass, Leave, IInv, GoneAfterReturn
<1>2. ~Tick /\ ~Cancel /\ ~Return
  BY DEF Tick, Cancel, Return
<1>3. ~(\E m \in Member : HealthChanges(m)) /\ ~SingBoxStops /\ ~SingBoxStarts
  BY DEF HealthChanges, SingBoxStops, SingBoxStarts
<1>4. ~UNCHANGED vars
  BY DEF vars
<1> QED BY <1>1, <1>2, <1>3, <1>4 DEF Next

LEMMA StepKeepsPriority ==
  ASSUME IInv, [Next]_vars, up, up', NEW p \in Pool, selected'[p] # selected[p]
  PROVE  /\ selected'[p] \in window[p].seen
         /\ Before(p, selected'[p]) \subseteq window[p].missed
<1>1. PICK q \in Pool : /\ pass[q].at = "select"
                        /\ selected' = [selected EXCEPT ![q] = Current(q)]
  BY SelectionChanges
<1>2. q = p /\ selected'[p] = Current(p)
  BY <1>1 DEF IInv, TypeOK
<1>3. Current(p) \in window[p].seen
  BY <1>1, <1>2 DEF IInv, PoolOk, PassJustified
<1>4. ASSUME NEW b \in Before(p, Current(p)) PROVE b \in window[p].missed
  <2>1. pass[p].next \in DOMAIN Outbounds[p] /\ DOMAIN Outbounds[p] = 1..Len(Outbounds[p])
    BY MembersAssumption DEF IInv, TypeOK
  <2>2. PICK i \in DOMAIN Outbounds[p] : Outbounds[p][i] = b
    BY <1>4 DEF Before, Range
  <2>3. i < pass[p].next
    BY <1>4, <2>1, <2>2 DEF Before, Current
  <2>4. i \in 1..(pass[p].next - 1)
    BY <2>1, <2>2, <2>3, OutboundsOk
  <2> QED BY <1>1, <1>2, <2>2, <2>4 DEF IInv, PoolOk, PassJustified
<1> QED BY <1>2, <1>3, <1>4

(* Strict priority, for any members in any order, with members, sing-box and the *)
(* answers of its API failing at any moment (Check, manager.go).                 *)
THEOREM PriorityAlwaysKept == Spec => PriorityKept
<1>1. IInv /\ [Next]_vars =>
        [up /\ up' => \A p \in Pool :
           selected'[p] # selected[p] =>
             /\ selected'[p] \in window[p].seen
             /\ Before(p, selected'[p]) \subseteq window[p].missed]_vars
  BY StepKeepsPriority
<1> QED BY <1>1, Invariance, PTL DEF Spec, PriorityKept

(* Once Run has returned, no goroutine of it selects anything. *)
THEOREM ReturnedRunIsSilent == Spec => NothingAfterReturn
<1>1. IInv /\ [Next]_vars => [run = "returned" /\ up /\ up' => selected' = selected]_vars
  BY SelectionChanges
<1> QED BY <1>1, Invariance, PTL DEF Spec, NothingAfterReturn
=============================================================================
