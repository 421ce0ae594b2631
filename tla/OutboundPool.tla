---------------------------- MODULE OutboundPool ----------------------------
(***************************************************************************)
(* The outbound pools of zakopd (internal/outboundpool/manager.go): one    *)
(* goroutine per pool probes the pool's members in order of priority and   *)
(* switches the pool's selector in sing-box, over the Clash API, to the    *)
(* first that answers.  The selector lives in sing-box: a restart puts it  *)
(* back to its default, the first member.                                  *)
(*                                                                         *)
(* A call of the API is one step, taken when its answer is there or its    *)
(* deadline passed.  Time is counted in seconds while a goroutine sleeps.  *)
(***************************************************************************)
EXTENDS Naturals, Sequences, SequencesExt

CONSTANTS
  Pool,
  Member,     \* the outbounds
  Outbounds,  \* Outbounds[p]: the members of pool p, by priority
  Interval,   \* CheckInterval, in seconds
  RetryCap    \* the longest retry delay, in seconds

ASSUME MembersAssumption ==
  /\ Outbounds \in [Pool -> Seq(Member)]
  /\ \A p \in Pool : Len(Outbounds[p]) >= 2 /\ IsInjective(Outbounds[p])
ASSUME TimesAssumption == Interval \in Nat \ {0} /\ RetryCap \in Nat \ {0}

VARIABLES
  run,       \* Manager.Run: "running", "cancelled" (ctx is done), "returned"
  up,        \* is sing-box up, and its controller answering?
  healthy,   \* the members through which CheckURL can be fetched
  selected,  \* selected[p]: Now of the selector of pool p
  pass,      \* pass[p]: the goroutine of pool p
  window     \* window[p]: what could be seen during the current pass (history)

vars == <<run, up, healthy, selected, pass, window>>

\* Where a goroutine is: in one of the three API calls of Check, in the timer
\* of runPool, or gone.
Goroutine == [at : {"delay", "selected", "select", "sleep", "gone"},
              next : Nat \ {0},   \* the member Check is at
              wait : Nat,         \* seconds left on the timer
              retry : Nat \ {0}, failed : BOOLEAN]

\* The types of the variables.
TypeOK ==
  /\ run \in {"running", "cancelled", "returned"}
  /\ up \in BOOLEAN
  /\ healthy \subseteq Member
  /\ selected \in [Pool -> Member]
  /\ pass \in [Pool -> Goroutine]
  /\ window \in [Pool -> [seen : SUBSET Member, missed : SUBSET Member]]
  /\ \A p \in Pool : pass[p].next \in 1..Len(Outbounds[p])

Default(p) == Outbounds[p][1]
Current(p) == Outbounds[p][pass[p].next]
Reachable == IF up THEN healthy ELSE {}
NewWindow == [seen |-> Reachable, missed |-> Member \ Reachable]

Init ==
  /\ run = "running"
  /\ up \in BOOLEAN
  /\ healthy \in SUBSET Member
  /\ selected = [p \in Pool |-> Default(p)]
  /\ pass = [p \in Pool |-> [at |-> "delay", next |-> 1, wait |-> 0,
                            retry |-> 1, failed |-> FALSE]]
  /\ window = [p \in Pool |-> NewWindow]

-----------------------------------------------------------------------------
(* runPool, when Check has returned.  An error is retried soon, and then ever *)
(* later; SleepTheInterval forgets that.                                      *)
SleepTheInterval(p) ==
  pass' = [pass EXCEPT ![p].at = "sleep", ![p].wait = Interval,
                       ![p].failed = TRUE]
CheckFails(p) ==
  pass' = [pass EXCEPT ![p].at = "sleep", ![p].wait = pass[p].retry,
                       ![p].retry = IF 2 * @ > RetryCap THEN RetryCap ELSE 2 * @,
                       ![p].failed = TRUE]
CheckSucceeds(p) ==
  pass' = [pass EXCEPT ![p].at = "sleep", ![p].wait = Interval,
                       ![p].retry = 1, ![p].failed = FALSE]

(* Check: a probe through one member.  On failure it is the next one's turn. *)
(* DelayPastEnd is off by one at the end of the list.                        *)
DelayPastEnd(p) ==
  /\ run = "running"
  /\ pass[p].at = "delay"
  /\ IF Current(p) \in Reachable
     THEN pass' = [pass EXCEPT ![p].at = "selected"]
     ELSE pass' = [pass EXCEPT ![p].next = @ + 1]
  /\ UNCHANGED <<run, up, healthy, selected, window>>
Delay(p) ==
  /\ run = "running"
  /\ pass[p].at = "delay"
  /\ IF Current(p) \in Reachable
     THEN pass' = [pass EXCEPT ![p].at = "selected"]
     ELSE IF pass[p].next < Len(Outbounds[p])
     THEN pass' = [pass EXCEPT ![p].next = @ + 1]
     ELSE CheckFails(p)
  /\ UNCHANGED <<run, up, healthy, selected, window>>

(* The selection is read from sing-box in every pass; TrustLastPass keeps what *)
(* the last successful pass found.                                             *)
TrustLastPass(p) ==
  /\ run = "running"
  /\ pass[p].at = "selected"
  /\ IF ~pass[p].failed THEN CheckSucceeds(p)
     ELSE pass' = [pass EXCEPT ![p].at = "select"]
  /\ UNCHANGED <<run, up, healthy, selected, window>>
Selected(p) ==
  /\ run = "running"
  /\ pass[p].at = "selected"
  /\ IF ~up THEN CheckFails(p)
     ELSE IF selected[p] = Current(p) THEN CheckSucceeds(p)
     ELSE pass' = [pass EXCEPT ![p].at = "select"]
  /\ UNCHANGED <<run, up, healthy, selected, window>>

(* The request may be carried out although its answer is too late. *)
Select(p) ==
  /\ run = "running"
  /\ pass[p].at = "select"
  /\ \/ ~up /\ CheckFails(p) /\ UNCHANGED selected
     \/ /\ up
        /\ selected' = [selected EXCEPT ![p] = Current(p)]
        /\ CheckSucceeds(p) \/ CheckFails(p)
  /\ UNCHANGED <<run, up, healthy, window>>

(* The timer fired: a new pass, from the first member.  ResumeWhereLeft keeps  *)
(* the position of the last one.                                               *)
ResumeWhereLeft(p) ==
  /\ run = "running"
  /\ pass[p].at = "sleep" /\ pass[p].wait = 0
  /\ pass' = [pass EXCEPT ![p].at = "delay"]
  /\ window' = [window EXCEPT ![p] = NewWindow]
  /\ UNCHANGED <<run, up, healthy, selected>>
StartPass(p) ==
  /\ run = "running"
  /\ pass[p].at = "sleep" /\ pass[p].wait = 0
  /\ pass' = [pass EXCEPT ![p].at = "delay", ![p].next = 1]
  /\ window' = [window EXCEPT ![p] = NewWindow]
  /\ UNCHANGED <<run, up, healthy, selected>>

Tick ==
  /\ \E p \in Pool : pass[p].at = "sleep" /\ pass[p].wait > 0
  /\ pass' = [p \in Pool |-> [pass[p] EXCEPT !.wait = IF @ > 0 THEN @ - 1 ELSE 0]]
  /\ UNCHANGED <<run, up, healthy, selected, window>>

-----------------------------------------------------------------------------
(* The context is done. *)
Cancel ==
  /\ run = "running"
  /\ run' = "cancelled"
  /\ UNCHANGED <<up, healthy, selected, pass, window>>

(* A goroutine sees it: in its timer, or after Check, whose remaining calls fail *)
(* to connect.  A Select already on its way is carried out, or not.              *)
(* LeaveAfterCheckOnly does not watch the context in the timer.                  *)
LeaveAfterCheckOnly(p) ==
  /\ run # "running"
  /\ pass[p].at \notin {"sleep", "gone"}
  /\ pass' = [pass EXCEPT ![p].at = "gone"]
  /\ UNCHANGED <<run, up, healthy, selected, window>>
Leave(p) ==
  /\ run # "running"
  /\ pass[p].at # "gone"
  /\ pass' = [pass EXCEPT ![p].at = "gone", ![p].wait = 0]
  /\ \/ UNCHANGED selected
     \/ /\ pass[p].at = "select" /\ up
        /\ selected' = [selected EXCEPT ![p] = Current(p)]
  /\ UNCHANGED <<run, up, healthy, window>>

(* Run returns once its goroutines have; ReturnAtOnce does not wait for them. *)
ReturnAtOnce ==
  /\ run = "cancelled"
  /\ run' = "returned"
  /\ UNCHANGED <<up, healthy, selected, pass, window>>
Return ==
  /\ run = "cancelled"
  /\ \A p \in Pool : pass[p].at = "gone"
  /\ run' = "returned"
  /\ UNCHANGED <<up, healthy, selected, pass, window>>

(* The network and sing-box.  What they do is noted in every window. *)
Notice ==
  window' = [p \in Pool |-> [seen |-> window[p].seen \cup Reachable',
                             missed |-> window[p].missed \cup (Member \ Reachable')]]

HealthChanges(m) ==
  /\ healthy' = IF m \in healthy THEN healthy \ {m} ELSE healthy \cup {m}
  /\ UNCHANGED <<run, up, selected, pass>>
  /\ Notice

SingBoxStops ==
  /\ up
  /\ up' = FALSE
  /\ UNCHANGED <<run, healthy, selected, pass>>
  /\ Notice

SingBoxStarts ==
  /\ ~up
  /\ up' = TRUE
  /\ selected' = [p \in Pool |-> Default(p)]
  /\ UNCHANGED <<run, healthy, pass>>
  /\ Notice

PoolStep(p) == Delay(p) \/ Selected(p) \/ Select(p) \/ StartPass(p) \/ Leave(p)

Next ==
  \/ \E p \in Pool : PoolStep(p)
  \/ Tick
  \/ Cancel \/ Return
  \/ \E m \in Member : HealthChanges(m)
  \/ SingBoxStops \/ SingBoxStarts

(* Every call has a deadline and every timer fires. *)
Fairness == /\ WF_vars(Tick) /\ WF_vars(Return)
            /\ \A p \in Pool : WF_vars(PoolStep(p))

Spec == Init /\ [][Next]_vars /\ Fairness

-----------------------------------------------------------------------------
Before(p, m) == {b \in Range(Outbounds[p]) :
                   b # m /\ \A i, j \in DOMAIN Outbounds[p] :
                     Outbounds[p][i] = b /\ Outbounds[p][j] = m => i < j}

(* Strict priority (README: pools): the manager switches a pool to a member that  *)
(* could be reached during the pass, and only if each member of higher priority   *)
(* could not at some moment of it.  If no member can be reached, the selection    *)
(* stays (TestCheckKeepsSelectionWhenAllOutboundsFail).                           *)
PriorityKept ==
  [][up /\ up' => \A p \in Pool :
       selected'[p] # selected[p] =>
         /\ selected'[p] \in window[p].seen
         /\ Before(p, selected'[p]) \subseteq window[p].missed]_vars

(* A pool whose check failed is looked at again within RetryCap seconds, however *)
(* long its interval is.                                                         *)
FailureIsRetriedSoon ==
  \A p \in Pool : pass[p].failed /\ pass[p].at = "sleep" => pass[p].wait <= RetryCap

(* Nothing is selected behind the back of a Run that has returned. *)
NothingAfterReturn ==
  [][run = "returned" /\ up /\ up' => selected' = selected]_vars

(* Failover and return: if from some time on the same members are healthy and     *)
(* sing-box stays up, every pool ends up at its first healthy member for good,    *)
(* after any number of restarts, lost answers and failed checks before.           *)
FirstHealthy(p, H) == SelectInSeq(Outbounds[p], LAMBDA m : m \in H)
Converges ==
  \A p \in Pool, H \in SUBSET Member :
    FirstHealthy(p, H) # 0 =>
      (<>[](run = "running" /\ up /\ healthy = H)
         => <>[](selected[p] = Outbounds[p][FirstHealthy(p, H)]))

(* Run returns once it is cancelled. *)
CancelledRunReturns == run = "cancelled" ~> run = "returned"
=============================================================================
