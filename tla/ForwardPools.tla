---------------------------- MODULE ForwardPools ----------------------------
(***************************************************************************)
(* What zakopd promises about its forwarding capacity, and nothing else:   *)
(* every pool has its own limit, a query is admitted only below the limit  *)
(* of its own pool, and it is turned away only when that very pool is      *)
(* full.  Another pool being full is never a reason to turn a query away.  *)
(* DnsProxy is shown to implement this specification.                      *)
(***************************************************************************)
EXTENDS Naturals, FiniteSets

CONSTANTS
  Handler,   \* query handlers (goroutines)
  Pool,      \* forwarding pools
  Capacity   \* the limit of each pool

VARIABLES
  inFlight,  \* inFlight[p]: the handlers that hold a slot of pool p
  refused    \* the handlers that were turned away and have not finished

vars == <<inFlight, refused>>

Init ==
  /\ inFlight = [p \in Pool |-> {}]
  /\ refused = {}

Busy == refused \cup UNION {inFlight[p] : p \in Pool}

Admit(h, p) ==
  /\ h \notin Busy
  /\ Cardinality(inFlight[p]) < Capacity[p]
  /\ inFlight' = [inFlight EXCEPT ![p] = @ \cup {h}]
  /\ UNCHANGED refused

Refuse(h, p) ==
  /\ h \notin Busy
  /\ Cardinality(inFlight[p]) = Capacity[p]
  /\ refused' = refused \cup {h}
  /\ UNCHANGED inFlight

Release(h, p) ==
  /\ h \in inFlight[p]
  /\ inFlight' = [inFlight EXCEPT ![p] = @ \ {h}]
  /\ UNCHANGED refused

Forget(h) ==
  /\ h \in refused
  /\ refused' = refused \ {h}
  /\ UNCHANGED inFlight

\* The process is gone, and with it everything it held.
Reset ==
  /\ inFlight' = [p \in Pool |-> {}]
  /\ refused' = {}

Next ==
  \/ \E h \in Handler, p \in Pool : Admit(h, p) \/ Refuse(h, p) \/ Release(h, p)
  \/ \E h \in Handler : Forget(h)
  \/ Reset

Spec == Init /\ [][Next]_vars
=============================================================================
