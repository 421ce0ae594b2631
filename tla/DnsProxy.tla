------------------------------ MODULE DnsProxy ------------------------------
(***************************************************************************)
(* The DNS forwarder of zakopd (internal/dnsproxy/dnsproxy.go): two accept *)
(* loops, one goroutine per query, two pools of forwarding slots, the      *)
(* deadlines on both sides, and the sing-box DNS listeners behind it.      *)
(*                                                                         *)
(* A query is abstracted to its kind, what localResponse and upstreamFor   *)
(* make of it (module PolicyRouting computes that from a configuration):   *)
(*   "local"      answered by zakopd itself (NXDOMAIN or NODATA)           *)
(*   "fake"       forwarded to the FakeIP listener                         *)
(*   "real"       forwarded to a real-DNS listener (a message that does    *)
(*                not parse is forwarded there, too)                       *)
(* Time is a pair of countdowns per goroutine, in units of Timeout / T.    *)
(***************************************************************************)
EXTENDS Naturals, FiniteSets

CONSTANTS
  Handler,    \* the goroutines that may exist at the same time
  FakeSlots,  \* maxFakeDNSForwards
  RealSlots,  \* maxRealDNSForwards
  T           \* Proxy.Timeout, in ticks

ASSUME HandlerAssumption == IsFiniteSet(Handler)
ASSUME SlotsAssumption == FakeSlots \in Nat \ {0} /\ RealSlots \in Nat \ {0}
ASSUME TimeoutAssumption == T \in Nat \ {0}

Pool == {"fake", "real"}
Capacity == [p \in Pool |-> IF p = "fake" THEN FakeSlots ELSE RealSlots]

Kind == {"local", "fake", "real"}
Transport == {"udp", "tcp"}

\* Where a goroutine is in handleTCP, handleUDP and the forward they call.
Phase == {"idle", "reading", "handling", "dialing", "waiting", "replying"}

\* What it is about to write: zakopd's own answer, the upstream's answer, or a
\* SERVFAIL because no slot was free ("overload") or the forward failed.
Result == {"none", "local", "answer", "overload", "failed"}

VARIABLES
  run,     \* Proxy.Run: "serving", "stopping" (returned, process alive), "down"
  singbox, \* are the sing-box DNS listeners open?
  used,    \* used[p]: the tokens in the channel of pool p
  query    \* query[h]: the local state of goroutine h

vars == <<run, singbox, used, query>>

Handling == [phase : Phase, transport : Transport, kind : Kind,
             connLeft : 0..T,  \* ticks left on the client's TCP connection
             fwdLeft : 0..T,   \* ticks left on the upstream connection
             result : Result]

NoQuery == [phase |-> "idle", transport |-> "udp", kind |-> "local",
            connLeft |-> 0, fwdLeft |-> 0, result |-> "none"]

\* The types of the variables.
TypeOK ==
  /\ run \in {"serving", "stopping", "down"}
  /\ singbox \in BOOLEAN
  /\ used \in [Pool -> Nat]
  /\ query \in [Handler -> Handling]

-----------------------------------------------------------------------------
(* reserveForward's choice of a pool.  SharedPool is what it would be with one *)
(* channel for both paths.                                                     *)
SharedPool(k) == "real"
PoolOf(k) == IF k = "fake" THEN "fake" ELSE "real"

Forwarding(h) == query[h].phase \in {"dialing", "waiting"}
Holders(p) == {h \in Handler : Forwarding(h) /\ PoolOf(query[h].kind) = p}

Goto(h, next) == query' = [query EXCEPT ![h] = next]

-----------------------------------------------------------------------------
(* New: two empty channels, no goroutine. *)
Init ==
  /\ run = "serving"
  /\ singbox = TRUE
  /\ used = [p \in Pool |-> 0]
  /\ query = [h \in Handler |-> NoQuery]

(* serveUDP: one goroutine per datagram. *)
ReceiveUDP(h) ==
  /\ run = "serving"
  /\ query[h].phase = "idle"
  /\ Goto(h, [NoQuery EXCEPT !.phase = "handling"])
  /\ UNCHANGED <<run, singbox, used>>

(* serveTCP and the first lines of handleTCP: one goroutine per connection,  *)
(* whose deadline starts before anything is read.                            *)
AcceptTCP(h) ==
  /\ run = "serving"
  /\ query[h].phase = "idle"
  /\ Goto(h, [NoQuery EXCEPT !.phase = "reading", !.transport = "tcp",
                             !.connLeft = T])
  /\ UNCHANGED <<run, singbox, used>>

(* readTCPDNS: a whole message before the deadline, or the connection is      *)
(* closed without an answer (deadline, end of file, empty message).           *)
ReadTCP(h) ==
  /\ query[h].phase = "reading"
  /\ \/ /\ query[h].connLeft > 0
        /\ Goto(h, [query[h] EXCEPT !.phase = "handling"])
     \/ Goto(h, NoQuery)
  /\ UNCHANGED <<run, singbox, used>>

(* localResponse answers a blocked name or a filtered AAAA query. *)
AnswerLocally(h) ==
  /\ query[h].phase = "handling"
  /\ Goto(h, [query[h] EXCEPT !.phase = "replying", !.kind = "local",
                              !.result = "local"])
  /\ UNCHANGED <<run, singbox, used>>

(* reserveForward found room in the pool of the chosen upstream.  ReserveOneMore *)
(* is off by one at the limit.                                                   *)
ReserveOneMore(h, k) ==
  /\ query[h].phase = "handling"
  /\ used[PoolOf(k)] <= Capacity[PoolOf(k)]
  /\ used' = [used EXCEPT ![PoolOf(k)] = @ + 1]
  /\ Goto(h, [query[h] EXCEPT !.phase = "dialing", !.kind = k])
  /\ UNCHANGED <<run, singbox>>
Reserve(h, k) ==
  /\ query[h].phase = "handling"
  /\ used[PoolOf(k)] < Capacity[PoolOf(k)]
  /\ used' = [used EXCEPT ![PoolOf(k)] = @ + 1]
  /\ Goto(h, [query[h] EXCEPT !.phase = "dialing", !.kind = k])
  /\ UNCHANGED <<run, singbox>>

(* reserveForward found the pool full: it does not wait, the answer is SERVFAIL. *)
Overload(h, k) ==
  /\ query[h].phase = "handling"
  /\ used[PoolOf(k)] = Capacity[PoolOf(k)]
  /\ Goto(h, [query[h] EXCEPT !.phase = "replying", !.kind = k,
                              !.result = "overload"])
  /\ UNCHANGED <<run, singbox, used>>

(* forwardUDP or forwardTCP returned, and with it the handler's deferred release. *)
(* ForwardLeaks forgets the release on the error path.                            *)
ForwardLeaks(h, outcome) ==
  /\ used' = IF outcome = "failed" THEN used
             ELSE [used EXCEPT ![PoolOf(query[h].kind)] = @ - 1]
  /\ Goto(h, [query[h] EXCEPT !.phase = "replying", !.result = outcome,
                              !.fwdLeft = 0])
ForwardReturns(h, outcome) ==
  /\ used' = [used EXCEPT ![PoolOf(query[h].kind)] = @ - 1]
  /\ Goto(h, [query[h] EXCEPT !.phase = "replying", !.result = outcome,
                              !.fwdLeft = 0])

(* DialContext.  A UDP socket is connected at once; a TCP connection needs the   *)
(* listener and has no deadline of its own.  The deadline of the upstream        *)
(* connection starts once it is open.  DialExtends adds it to what the client has *)
(* left.                                                                         *)
DialExtends(h) ==
  /\ query[h].phase = "dialing"
  /\ query[h].transport = "tcp" => singbox
  /\ Goto(h, [query[h] EXCEPT !.phase = "waiting", !.fwdLeft = T + query[h].connLeft])
  /\ UNCHANGED <<run, singbox, used>>
Dial(h) ==
  /\ query[h].phase = "dialing"
  /\ query[h].transport = "tcp" => singbox
  /\ Goto(h, [query[h] EXCEPT !.phase = "waiting", !.fwdLeft = T])
  /\ UNCHANGED <<run, singbox, used>>

(* DialContext failed: connection refused, given up by the kernel, or the context *)
(* was cancelled.                                                                 *)
DialFails(h) ==
  /\ query[h].phase = "dialing"
  /\ ForwardReturns(h, "failed")
  /\ UNCHANGED <<run, singbox>>

UpstreamAnswers(h) ==
  /\ query[h].phase = "waiting"
  /\ singbox
  /\ query[h].fwdLeft > 0
  /\ ForwardReturns(h, "answer")
  /\ UNCHANGED <<run, singbox>>

(* The write or the read on the upstream connection failed: its deadline passed,  *)
(* or nobody listens there any more.  NoForwardDeadline is the same code without  *)
(* the SetDeadline call.                                                          *)
NoForwardDeadline(h) ==
  /\ query[h].phase = "waiting"
  /\ ~singbox
  /\ ForwardReturns(h, "failed")
  /\ UNCHANGED <<run, singbox>>
ForwardFails(h) ==
  /\ query[h].phase = "waiting"
  /\ query[h].fwdLeft = 0 \/ ~singbox
  /\ ForwardReturns(h, "failed")
  /\ UNCHANGED <<run, singbox>>

(* WriteTo or writeTCPDNS, which fails once the socket is closed or the         *)
(* connection's deadline has passed; the goroutine ends either way.             *)
WriteReply(h) ==
  /\ query[h].phase = "replying"
  /\ Goto(h, NoQuery)
  /\ UNCHANGED <<run, singbox, used>>

(* Time passes for every deadline that is set. *)
Tick ==
  /\ \E h \in Handler : query[h].connLeft > 0 \/ query[h].fwdLeft > 0
  /\ query' = [h \in Handler |->
       [query[h] EXCEPT !.connLeft = IF @ > 0 THEN @ - 1 ELSE 0,
                        !.fwdLeft = IF @ > 0 THEN @ - 1 ELSE 0]]
  /\ UNCHANGED <<run, singbox, used>>

-----------------------------------------------------------------------------
(* Run returns: the context is cancelled, or an accept loop reported an error.   *)
(* The deferred closes take the sockets away, the handlers run on.               *)
RunReturns ==
  /\ run = "serving"
  /\ run' = "stopping"
  /\ UNCHANGED <<singbox, used, query>>

(* The process exits, at any time: everything in memory is gone. *)
Exit ==
  /\ run # "down"
  /\ run' = "down"
  /\ used' = [p \in Pool |-> 0]
  /\ query' = [h \in Handler |-> NoQuery]
  /\ UNCHANGED singbox

(* procd starts the daemon again. *)
Respawn ==
  /\ run = "down"
  /\ run' = "serving"
  /\ UNCHANGED <<singbox, used, query>>

(* sing-box stops or comes back. *)
SingBoxChanges ==
  /\ singbox' = ~singbox
  /\ UNCHANGED <<run, used, query>>

HandlerStep(h) ==
  \/ ReadTCP(h)
  \/ AnswerLocally(h)
  \/ \E k \in Kind \ {"local"} : Reserve(h, k) \/ Overload(h, k)
  \/ Dial(h) \/ DialFails(h)
  \/ ForwardFails(h)
  \/ WriteReply(h)

Next ==
  \/ \E h \in Handler : ReceiveUDP(h) \/ AcceptTCP(h) \/ HandlerStep(h)
                         \/ UpstreamAnswers(h)
  \/ Tick
  \/ RunReturns \/ Exit \/ Respawn
  \/ SingBoxChanges

(* A runnable goroutine runs, a blocking call returns once its deadline passed    *)
(* (a TCP connect without one when the kernel gives up), and time passes.  Clients*)
(* and sing-box promise nothing, not even an answer.                              *)
Fairness ==
  /\ WF_vars(Tick)
  /\ \A h \in Handler : WF_vars(HandlerStep(h))

Spec == Init /\ [][Next]_vars /\ Fairness

-----------------------------------------------------------------------------
(* The tokens in a channel are exactly the goroutines between reserveForward and  *)
(* the end of the forward, on every path out of it: no slot is lost, none is      *)
(* returned twice.                                                                *)
SlotAccounting == \A p \in Pool : used[p] = Cardinality(Holders(p))

(* The limit of each pool holds whatever the mix of queries: New's channels never *)
(* carry more tokens than their capacity.                                         *)
WithinCapacity == \A p \in Pool : Cardinality(Holders(p)) <= Capacity[p]

(* A query for the FakeIP listener is refused only while FakeSlots FakeIP queries *)
(* are in flight: "a failed real-DNS path" cannot starve FakeIP (dnsproxy.go:45), *)
(* and FakeIP queries cannot starve real DNS.                                     *)
RefusedByOwnPoolOnly ==
  [][\A h \in Handler :
       query[h].phase = "handling" /\ query'[h].phase = "replying"
         /\ query'[h].result = "overload"
         => LET Same == {g \in Handler : Forwarding(g) /\
                           (query[g].kind = "fake" <=> query'[h].kind = "fake")}
            IN Cardinality(Same) =
                 IF query'[h].kind = "fake" THEN FakeSlots ELSE RealSlots]_vars

(* Every query ends: no goroutine is stuck, even if sing-box never answers, never *)
(* comes back or the client never sends its message.                              *)
QueriesEnd == \A h \in Handler : query[h].phase # "idle" ~> query[h].phase = "idle"

(* A saturated pool does not stay saturated.                                      *)
SaturationEnds ==
  \A p \in Pool : used[p] = Capacity[p] ~> used[p] < Capacity[p]

(* internal/dnsproxy/dnsproxy_test.go:277 (TestForwardFailureReturnsSERVFAIL): a  *)
(* forward that fails is answered with SERVFAIL.  For a TCP client that means its *)
(* connection still has time left when the forward fails.                         *)
FailureIsAnswered ==
  [][\A h \in Handler :
       query[h].phase = "waiting" /\ query'[h].result = "failed"
         /\ query[h].transport = "tcp"
         => query'[h].connLeft > 0]_vars

-----------------------------------------------------------------------------
(* The forwarder implements the two independent pools. *)
Pools == INSTANCE ForwardPools WITH
  inFlight <- [p \in Pool |-> Holders(p)],
  refused <- {h \in Handler : query[h].phase = "replying"
                              /\ query[h].result = "overload"}
PoolsSpec == Pools!Spec
=============================================================================
