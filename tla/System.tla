------------------------------- MODULE System -------------------------------
(***************************************************************************)
(* The whole process: Lifecycle, with the readiness probe of Readiness     *)
(* and, for each connection the server accepts, a request going through    *)
(* RequestPipeline. They share                                             *)
(*   - main, which starts the OIDC authenticator and the probe and, by     *)
(*     ending, ends everything;                                            *)
(*   - the OIDC authenticator, which the probe watches and the handlers    *)
(*     ask (oidcReady of RequestPipeline is oidc = "up");                  *)
(*   - the audit backend, which the handlers report to and which stops     *)
(*     while requests are being drained;                                   *)
(*   - the connections, which draining waits for.                          *)
(* What the administrators do meanwhile is RequestPipeline's concern: RBAC *)
(* is any, and stays as it is.                                             *)
(***************************************************************************)
EXTENDS Lifecycle

CONSTANTS
  Prober, MaxProbeFailures,                           \* of Readiness
  Value, NoValue, None, ExtraName, AllAuthenticated,  \* of RequestPipeline
  ClientAddr, JsonExtras, Arrivals, Configs, Grants

VARIABLES
  oidc, probe, check,  \* of Readiness
  cfg, rbac, req,      \* of RequestPipeline
  assured              \* (history) connections accepted after the probe answered ready

Health   == INSTANCE Readiness
Pipeline == INSTANCE RequestPipeline
              WITH Request <- Connection, oidcReady <- (oidc = "up"),
                   MaxRbacChanges <- 0, rbacChanges <- 0

ASSUME SystemAssumption ==
  /\ MaxProbeFailures \in Nat
  /\ Pipeline!ValueAssumption /\ Pipeline!ArrivalsAssumption
  /\ Pipeline!ConfigsAssumption /\ Pipeline!GrantsAssumption /\ Pipeline!SentAssumption

health     == <<oidc, probe, check>>
requests   == <<cfg, rbac, req>>
systemVars == <<vars, health, requests, assured>>

SystemInit == /\ Init /\ Health!Init /\ Pipeline!Init
              /\ assured = {}

(* RunE: proxy.New and probe.Run leave goroutines behind.                  *)
MainStep ==
  /\ Main
  /\ CASE main = "build" /\ Alive' -> Health!StartOidc
       [] main = "probe" /\ Alive' -> Health!Run
       [] OTHER -> UNCHANGED health
  /\ UNCHANGED <<requests, assured>>

(* Signals, the server's goroutines and the audit backend's.               *)
ServerStep == Surroundings /\ UNCHANGED <<health, requests, assured>>

ProbeStep == Alive /\ Health!Next /\ UNCHANGED <<vars, requests, assured>>

(* The server hands a connection's request to the handlers.                *)
AcceptRequest(c) ==
  /\ Accept(c)
  /\ UNCHANGED health
  /\ Pipeline!Arrive(c)
  /\ assured' = IF probe.ready THEN assured \cup {c} ELSE assured

(* Bug: a refused request is answered without WithUnauthorized.            *)
ReportedHandedOn(before, after) ==
       (IF before.pc = "forward" THEN {"received"} ELSE {})
  \cup (IF after.pc = "done" /\ before.pc \in {"forward", "upstream"}
        THEN {"complete"} ELSE {})

(* Bug: a request is reported again when the API server has answered.      *)
ReportedAgain(before, after) ==
       (IF before.pc \in {"forward", "upstream"} THEN {"received"} ELSE {})
  \cup (IF after.pc = "done" /\ before.pc \in {"forward", "upstream"}
        THEN {"complete"} ELSE {})
  \cup (IF after.code = 401 THEN {"refused"} ELSE {})

(* What a handler reports to the audit backend: WithRequest when a request *)
(* comes past it and when it ends there, a panic included; WithUnauthorized*)
(* when the error handler answers 401.                                     *)
Reported(before, after) ==
       (IF before.pc = "forward" THEN {"received"} ELSE {})
  \cup (IF after.pc = "done" /\ before.pc \in {"forward", "upstream"}
        THEN {"complete"} ELSE {})
  \cup (IF after.code = 401 THEN {"refused"} ELSE {})

(* One step of the goroutine that serves a connection. It goes on while    *)
(* the server drains.                                                      *)
HandlerStep(c) ==
  /\ Alive /\ conn[c] = "active"
  /\ UNCHANGED <<mainVars, signals, listener, acceptor, shutter, overdue,
                 health, assured>>
  /\ Pipeline!Handler(c) \/ Pipeline!ApiServer(c)
  /\ conn' = IF req'[c].pc = "done" THEN [conn EXCEPT ![c] = "answered"]
                                    ELSE conn
  /\ audit' \in Submitted({c} \X Reported(req[c], req'[c]))

SystemNext == \/ MainStep \/ ServerStep \/ ProbeStep
              \/ \E c \in Connection : AcceptRequest(c) \/ HandlerStep(c)

(* The goroutines of probe.Run and of the checks are scheduled, a check    *)
(* has a deadline, and the kubelet goes on probing. Neither the issuer nor *)
(* the API server need answer, and no request need end.                    *)
SystemFairness ==
  /\ Fairness
  /\ WF_health(Alive /\ Health!Serves)
  /\ \A p \in Prober : /\ WF_health(Alive /\ Health!CheckBegins(p))
                       /\ WF_health(Alive /\ Health!CheckEnds(p))

SystemSpec == SystemInit /\ [][SystemNext]_systemVars /\ SystemFairness
-----------------------------------------------------------------------------
(* The type invariant: the three parts keep theirs together, and the       *)
(* history variable names connections.                                     *)
SystemTypeOK == /\ TypeOK /\ Health!TypeOK /\ Pipeline!TypeOK
                /\ assured \subseteq Connection

(* Readiness is a promise to clients: a request with a token of the issuer *)
(* that is accepted after the probe has answered ready is never refused    *)
(* for want of an initialised authenticator; a token the authenticator     *)
(* cannot verify later, for want of a key, is a foreign one. The probe is  *)
(* started before the proxy serves and shares nothing with the handlers but*)
(* the authenticator (run.go:116, probe.go:52-72, handlers.go:38-50).      *)
ReadyMeansServed ==
  \A c \in assured : req[c].in.cred = "oidc" => req[c].code # 401

(* Once the probe has answered ready, no check that begins later answers   *)
(* anything else, although checks read and write h.ready without a lock    *)
(* and may miss each other's write (probe.go:52-72; probe_test.go:88       *)
(* "should always return ready").                                          *)
ReadyStays == \A p \in Prober :
  check[p].sure /\ check[p].pc = "idle" => check[p].answer # "unready"

(* The audit trail survives an orderly exit: of every request that was     *)
(* handed to the API server or refused with 401 the backend has written    *)
(* the event, or counted it as lost for a buffer that was full or closed   *)
(* (handlers.go:21-31,241-252; proxy.go:212-228; run.go:121-132).          *)
Trail(c) == {c} \X (   (IF req[c].sent # None THEN {"received"} ELSE {})
                  \cup (IF req[c].code = 401 THEN {"refused"} ELSE {}))

AuditTrailKept ==
  code = "ok" /\ audit.mode # "off" =>
    \A c \in Connection : Trail(c) \subseteq audit.delivered \cup audit.lost

(* Once the issuer has been reached the probe says so, also if its port    *)
(* was taken for a while: probe.Run's goroutine retries (probe.go:39-47).  *)
EventuallyReady == oidc = "up" ~> probe.ready \/ ~Alive

(* The parts put together are still the parts: what the whole process does *)
(* is a behaviour of Lifecycle, in which requests are opaque and report to *)
(* the audit backend what they please, and a behaviour of RequestPipeline, *)
(* in which the authenticator becomes ready at most once. What holds of    *)
(* either alone holds of the process (run.go:33-134, handlers.go:21-60,    *)
(* proxy.go:212-263).                                                      *)
ImplementsLifecycle == Spec
ImplementsPipeline  == Pipeline!Spec
=============================================================================
