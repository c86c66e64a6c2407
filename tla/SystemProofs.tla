---------------------------- MODULE SystemProofs ----------------------------
(***************************************************************************)
(* Proofs about System, for any number of connections and probers. The     *)
(* process is shown to be a Lifecycle and a RequestPipeline, step by step, *)
(* so that what was proved of them is true of it; what is left to prove is *)
(* what they owe each other.                                               *)
(***************************************************************************)
EXTENDS System, LifecycleProofs

(* RequestPipeline again, with its theorems.                               *)
Chain == INSTANCE GatewayProofs
           WITH Request <- Connection, oidcReady <- (oidc = "up"),
                MaxRbacChanges <- 0, rbacChanges <- 0

-----------------------------------------------------------------------------
(***************************************************************************)
(* The inductive invariant.                                                *)
(***************************************************************************)
(* The authenticator is started by main; a probe that has answered ready   *)
(* has seen it initialised, and a check that is sure came after that.      *)
Probed ==
  /\ main \in {"configure", "bind", "build"} => oidc = "none"
  /\ probe.ready => oidc = "up"
  /\ \A p \in Prober : check[p].sure => probe.ready

(* Nothing has been done for a request that was not accepted.              *)
Fresh(c) == /\ conn[c] \in {"none", "queued"} => req[c].pc = "idle"
            /\ req[c].pc = "idle" => req[c].sent = None /\ req[c].code = 0

Unsent == {"idle", "authenticate", "review", "impersonate", "check", "forward"}

(* The audit backend has been told of a request when it was handed over,   *)
(* not before, and of a refusal with 401.                                  *)
Known == audit.buffer \cup audit.delivered \cup audit.lost

Told(c) == /\ req[c].pc \in Unsent => <<c, "received">> \notin Known
           /\ audit.mode # "off" => Trail(c) \subseteq Known

(* A token of the issuer is accepted once the probe has answered ready.    *)
Welcome(c) ==
  c \in assured => /\ oidc = "up"
                   /\ req[c].in.cred = "oidc" =>
                        req[c].pc # "review" /\ req[c].code # 401

Linked == \A c \in Connection : Fresh(c) /\ Told(c) /\ Welcome(c)

SInv == /\ IInv /\ Chain!IInv /\ Chain!KInv
        /\ Health!TypeOK /\ assured \subseteq Connection
        /\ Probed /\ ReadyStays /\ Linked

-----------------------------------------------------------------------------
(***************************************************************************)
(* Pipeline and Chain are the same specification.                          *)
(***************************************************************************)
LEMMA ChainAssumptions ==
  /\ Chain!ValueAssumption /\ Chain!ArrivalsAssumption /\ Chain!ConfigsAssumption
  /\ Chain!GrantsAssumption /\ Chain!SentAssumption
  BY SystemAssumption
     DEF Pipeline!ValueAssumption, Chain!ValueAssumption, Pipeline!ArrivalsAssumption,
         Chain!ArrivalsAssumption, Pipeline!ConfigsAssumption, Chain!ConfigsAssumption,
         Pipeline!GrantsAssumption, Chain!GrantsAssumption, Pipeline!SentAssumption,
         Chain!SentAssumption, Pipeline!ClientIPKey, Chain!ClientIPKey,
         Pipeline!OriginalUser, Chain!OriginalUser, Pipeline!OriginalGroups,
         Chain!OriginalGroups, Pipeline!OriginalUID, Chain!OriginalUID,
         Pipeline!OriginalExtra, Chain!OriginalExtra, Pipeline!ProxyExtra,
         Chain!ProxyExtra, Pipeline!HeaderKey, Chain!HeaderKey, Pipeline!Claim,
         Chain!Claim, Pipeline!Extras, Chain!Extras, Pipeline!Identity, Chain!Identity,
         Pipeline!Nobody, Chain!Nobody, Pipeline!Headers, Chain!Headers,
         Pipeline!NoHeaders, Chain!NoHeaders, Pipeline!Present, Chain!Present,
         Pipeline!Conf, Chain!Conf, Pipeline!Token, Chain!Token, Pipeline!Sent,
         Chain!Sent

LEMMA SameType == Pipeline!TypeOK <=> Chain!TypeOK
  BY DEF Pipeline!ClientIPKey, Chain!ClientIPKey, Pipeline!OriginalUser,
         Chain!OriginalUser, Pipeline!OriginalGroups, Chain!OriginalGroups,
         Pipeline!OriginalUID, Chain!OriginalUID, Pipeline!OriginalExtra,
         Chain!OriginalExtra, Pipeline!ProxyExtra, Chain!ProxyExtra, Pipeline!HeaderKey,
         Chain!HeaderKey, Pipeline!Claim, Chain!Claim, Pipeline!Extras, Chain!Extras,
         Pipeline!Identity, Chain!Identity, Pipeline!Nobody, Chain!Nobody,
         Pipeline!Headers, Chain!Headers, Pipeline!NoHeaders, Chain!NoHeaders,
         Pipeline!Present, Chain!Present, Pipeline!Conf, Chain!Conf, Pipeline!Token,
         Chain!Token, Pipeline!Sent, Chain!Sent, Pipeline!Handlers, Chain!Handlers,
         Pipeline!Incoming, Chain!Incoming, Pipeline!Status, Chain!Status,
         Pipeline!LogLine, Chain!LogLine, Pipeline!RequestState, Chain!RequestState,
         Pipeline!TypeOK, Chain!TypeOK

LEMMA SameInit == Pipeline!Init <=> Chain!Init
  BY DEF Pipeline!Init, Chain!Init, Pipeline!Idle, Chain!Idle, Pipeline!Nobody,
         Chain!Nobody, Pipeline!NoHeaders, Chain!NoHeaders, Pipeline!HeaderKey,
         Chain!HeaderKey

LEMMA SameSteps ==
  ASSUME NEW c
  PROVE  /\ Pipeline!Arrive(c) <=> Chain!Arrive(c)
         /\ Pipeline!Handler(c) <=> Chain!Handler(c)
         /\ Pipeline!ApiServer(c) <=> Chain!ApiServer(c)
<1> USE DEF Pipeline!ClientIPKey, Chain!ClientIPKey, Pipeline!OriginalUser,
            Chain!OriginalUser, Pipeline!OriginalGroups, Chain!OriginalGroups,
            Pipeline!OriginalUID, Chain!OriginalUID, Pipeline!OriginalExtra,
            Chain!OriginalExtra, Pipeline!ProxyExtra, Chain!ProxyExtra,
            Pipeline!HeaderKey, Chain!HeaderKey, Pipeline!Claim, Chain!Claim,
            Pipeline!Extras, Chain!Extras, Pipeline!Identity, Chain!Identity,
            Pipeline!Nobody, Chain!Nobody, Pipeline!Headers, Chain!Headers,
            Pipeline!NoHeaders, Chain!NoHeaders, Pipeline!Present, Chain!Present,
            Pipeline!Conf, Chain!Conf, Pipeline!Token, Chain!Token, Pipeline!Sent,
            Chain!Sent, Pipeline!Idle, Chain!Idle, Pipeline!Env, Chain!Env, Pipeline!At,
            Chain!At, Pipeline!Refuse, Chain!Refuse, Pipeline!GrantedTo,
            Chain!GrantedTo, Pipeline!Arrive, Chain!Arrive, Pipeline!Authenticate,
            Chain!Authenticate, Pipeline!ReviewToken, Chain!ReviewToken,
            Pipeline!Reviewed, Chain!Reviewed, Pipeline!HasUser, Chain!HasUser,
            Pipeline!ValuesOf, Chain!ValuesOf, Pipeline!TargetOf, Chain!TargetOf,
            Pipeline!OriginalUserExtras, Chain!OriginalUserExtras,
            Pipeline!AddedExtras, Chain!AddedExtras, Pipeline!ActingUser,
            Chain!ActingUser, Pipeline!Merged, Chain!Merged, Pipeline!ConfFor,
            Chain!ConfFor, Pipeline!Impersonate, Chain!Impersonate,
            Pipeline!CheckHeader, Chain!CheckHeader, Pipeline!Allowed, Chain!Allowed,
            Pipeline!ReviewClaim, Chain!ReviewClaim, Pipeline!RemainingHeaders,
            Chain!RemainingHeaders, Pipeline!Authorized, Chain!Authorized,
            Pipeline!BearerToken, Chain!BearerToken, Pipeline!DelegateCredentials,
            Chain!DelegateCredentials, Pipeline!Impersonated, Chain!Impersonated,
            Pipeline!ContextUser, Chain!ContextUser, Pipeline!Forward, Chain!Forward,
            Pipeline!Upstream, Chain!Upstream, Pipeline!Handler, Chain!Handler,
            Pipeline!ApiServer, Chain!ApiServer
<1>1. Pipeline!Arrive(c) <=> Chain!Arrive(c)
  OBVIOUS
<1>2. Pipeline!Handler(c) <=> Chain!Handler(c)
  OBVIOUS
<1>3. Pipeline!ApiServer(c) <=> Chain!ApiServer(c)
  OBVIOUS
<1> QED
  BY <1>1, <1>2, <1>3

LEMMA SameNext ==
  /\ Pipeline!Next <=> Chain!Next
  /\ Pipeline!vars = Chain!vars
<1>1. /\ Pipeline!OidcInitialized <=> Chain!OidcInitialized
      /\ Pipeline!ChangeRbac <=> Chain!ChangeRbac
  BY DEF Pipeline!OidcInitialized, Chain!OidcInitialized, Pipeline!ChangeRbac,
         Chain!ChangeRbac, Pipeline!Claim, Chain!Claim, Pipeline!HeaderKey, Chain!HeaderKey
<1>2. Pipeline!Next <=> Chain!Next
  BY <1>1, SameSteps DEF Pipeline!Next, Chain!Next
<1> QED
  BY <1>2 DEF Pipeline!vars, Chain!vars

-----------------------------------------------------------------------------
(***************************************************************************)
(* The probe.                                                              *)
(***************************************************************************)
Checks == [pc: {"idle", "asking"}, sure: BOOLEAN, answer: {"none", "ready", "unready"}]
Probes == [listener: {"none", "starting", "up", "asleep"},
           failures: 0..MaxProbeFailures, ready: BOOLEAN]

(* A check that ends.                                                      *)
LEMMA AnsweredKeeps ==
  ASSUME Health!TypeOK, Probed, ReadyStays, NEW p \in Prober, NEW sure \in BOOLEAN,
         NEW answer \in {"ready", "unready"}, Health!Answered(p, sure, answer),
         answer = "ready" => oidc = "up", sure => probe.ready /\ answer = "ready",
         oidc' = oidc, main' = main
  PROVE  Health!TypeOK' /\ Probed' /\ ReadyStays'
<1> DEFINE new == [pc |-> "idle", sure |-> sure, answer |-> answer]
<1>1. new \in Checks /\ new.pc = "idle" /\ new.sure = sure /\ new.answer = answer
  BY DEF Checks
<1>2. check' = [check EXCEPT ![p] = new] /\ check \in [Prober -> Checks]
  BY DEF Health!Answered, Health!TypeOK, Checks
<1> HIDE DEF new
<1>3. /\ check' \in [Prober -> Checks]
      /\ \A q \in Prober : check'[q] = IF q = p THEN new ELSE check[q]
  BY <1>1, <1>2
<1>4. probe \in Probes /\ probe' = [probe EXCEPT !.ready = @ \/ answer = "ready"]
  BY DEF Health!Answered, Health!TypeOK, Probes
<1>5. probe.ready \in BOOLEAN
  BY <1>4 DEF Probes
<1>6. (probe.ready \/ answer = "ready") \in BOOLEAN
  BY Zenon
<1>7. probe' \in Probes /\ probe'.ready = (probe.ready \/ answer = "ready")
  BY <1>4, <1>6 DEF Probes
<1>8. Health!TypeOK'
  BY <1>3, <1>7 DEF Health!TypeOK, Checks, Probes
<1>9. Probed'
  BY <1>1, <1>3, <1>5, <1>7 DEF Probed
<1>10. ReadyStays'
  BY <1>1, <1>3 DEF ReadyStays
<1> QED
  BY <1>8, <1>9, <1>10

LEMMA ProbeKeeps ==
  ASSUME Health!TypeOK, Probed, ReadyStays, Health!Next, main' = main
  PROVE  Health!TypeOK' /\ Probed' /\ ReadyStays' /\ (oidc = "up" => oidc' = "up")
<1>0. probe \in Probes /\ check \in [Prober -> Checks] /\ MaxProbeFailures \in Nat
  BY SystemAssumption DEF Health!TypeOK, Probes, Checks
<1>1. CASE Health!OidcInitialized
  <2>1. oidc = "down" /\ oidc' = "up" /\ probe' = probe /\ check' = check
    BY <1>1 DEF Health!OidcInitialized
  <2> QED
    BY <2>1 DEF Health!TypeOK, Probed, ReadyStays
<1>2. CASE Health!Serves \/ Health!ListenerFails
  <2>1. oidc' = oidc /\ check' = check /\ probe' \in Probes /\ probe'.ready = probe.ready
    <3>1. CASE Health!Serves
      BY <1>0, <3>1 DEF Health!Serves, Health!Listens, Health!Retries, Probes
    <3>2. CASE Health!ListenerFails
      <4>1. probe.failures + 1 \in 0..MaxProbeFailures
        BY <1>0, <3>2 DEF Health!ListenerFails, Probes
      <4> QED
        BY <1>0, <3>2, <4>1 DEF Health!ListenerFails, Probes
    <3> QED
      BY <1>2, <3>1, <3>2
  <2> QED
    BY <2>1 DEF Health!TypeOK, Probed, ReadyStays, Probes
<1>3. ASSUME NEW p \in Prober, Health!CheckBegins(p)
      PROVE  Health!TypeOK' /\ Probed' /\ ReadyStays' /\ oidc' = oidc
  <2>1. oidc' = oidc
    BY <1>3 DEF Health!CheckBegins
  <2>2. CASE probe.ready /\ Health!Answered(p, TRUE, "ready")
    BY <2>1, <2>2, AnsweredKeeps DEF Probed
  <2>3. CASE ~(probe.ready /\ Health!Answered(p, TRUE, "ready"))
    <3> DEFINE new == [pc |-> "asking", sure |-> probe.ready, answer |-> "none"]
    <3>1. check' = [check EXCEPT ![p] = new] /\ probe' = probe
      BY <1>3, <2>3 DEF Health!CheckBegins
    <3>2. new \in Checks /\ new.pc = "asking" /\ new.sure = probe.ready
      BY <1>0 DEF Checks, Probes
    <3> HIDE DEF new
    <3>3. /\ check' \in [Prober -> Checks]
          /\ \A q \in Prober : check'[q] = IF q = p THEN new ELSE check[q]
      BY <1>0, <3>1, <3>2
    <3> QED
      BY <2>1, <3>1, <3>2, <3>3 DEF Health!TypeOK, Probed, ReadyStays, Checks
  <2> QED
    BY <2>1, <2>2, <2>3
<1>4. ASSUME NEW p \in Prober, Health!CheckEnds(p)
      PROVE  Health!TypeOK' /\ Probed' /\ ReadyStays' /\ oidc' = oidc
  <2>1. PICK v \in Health!Verdicts :
          Health!Answered(p, check[p].sure, IF Health!Failing(v) THEN "unready" ELSE "ready")
    BY <1>4 DEF Health!CheckEnds
  <2>2. Health!Failing(v) <=> oidc # "up"
    BY DEF Health!Failing, Health!Verdicts
  <2>3. check[p].sure \in BOOLEAN
    BY <1>0 DEF Checks
  <2>4. check[p].sure => probe.ready /\ oidc = "up"
    BY DEF Probed
  <2>5. oidc' = oidc
    BY <1>4 DEF Health!CheckEnds
  <2> QED
    BY <2>1, <2>2, <2>3, <2>4, <2>5, AnsweredKeeps
<1> QED
  BY <1>1, <1>2, <1>3, <1>4 DEF Health!Next

(* What main starts.                                                       *)
LEMMA MainProbes ==
  ASSUME IInv, Health!TypeOK, Probed, ReadyStays, MainStep
  PROVE  /\ Health!TypeOK' /\ Probed' /\ ReadyStays'
         /\ oidc' = oidc \/ (oidc = "none" /\ oidc' = "down")
<1>1. main' \in {"configure", "bind", "build"} => main \in {"configure", "bind"}
  BY StartSteps DEF MainStep, Main, Configure, Bind, Build, StartProbe, RunAuditor, Serve,
     StartUpFails, WaitForServer, RunPreShutdownHooks, Prepare, Done, Exit
<1>2. CASE main = "build" /\ Health!StartOidc
  <2>1. /\ oidc = "none" /\ oidc' = "down" /\ probe' = probe /\ check' = check
        /\ main' \notin {"configure", "bind", "build"}
    BY <1>1, <1>2 DEF Probed, Health!StartOidc
  <2> QED
    BY <2>1 DEF Health!TypeOK, Probed, ReadyStays
<1>3. CASE Health!Run
  <2>1. /\ oidc' = oidc /\ check' = check /\ probe' \in Probes
        /\ probe'.ready = probe.ready
    BY <1>3 DEF Health!Run, Health!TypeOK, Probes
  <2> QED
    BY <1>1, <2>1 DEF Health!TypeOK, Probed, ReadyStays, Probes
<1>4. CASE UNCHANGED health
  <2>1. oidc' = oidc /\ probe' = probe /\ check' = check
    BY <1>4 DEF health
  <2> QED
    BY <1>1, <2>1 DEF Health!TypeOK, Probed, ReadyStays
<1> QED
  BY <1>2, <1>3, <1>4 DEF MainStep

-----------------------------------------------------------------------------
(***************************************************************************)
(* The requests.                                                           *)
(***************************************************************************)
(* One step of the goroutine behind a connection: what becomes of the      *)
(* request, of its connection and of what is reported.                     *)
LEMMA HandlerEffect ==
  ASSUME SInv, NEW c \in Connection, HandlerStep(c)
  PROVE  /\ \A d \in Connection \ {c} : req'[d] = req[d]
         /\ oidc' = oidc /\ req'[c].in = req[c].in
         /\ Chain!Turn(c) \/ Chain!Refusal(c) \/ Chain!HandOver(c) \/ Chain!Reply(c)
         /\ req[c].pc \in Chain!Early \cup {"forward", "upstream"} => req[c].code = 0
<1>1. Chain!TypeOK /\ (Chain!Handler(c) \/ Chain!ApiServer(c))
  BY SameSteps DEF SInv, Chain!IInv, HandlerStep
<1>2. \A d \in Connection \ {c} : req'[d] = req[d]
  BY <1>1, ChainAssumptions, Chain!StepLocal
<1>3. /\ req'[c].in = req[c].in
      /\ Chain!Turn(c) \/ Chain!Refusal(c) \/ Chain!HandOver(c) \/ Chain!Reply(c)
  BY <1>1, ChainAssumptions, Chain!StepShape
<1>4. req[c].pc \in Chain!Early \cup {"forward", "upstream"} => req[c].code = 0
  BY DEF SInv, Chain!KInv, Chain!RecordInv, Chain!Logged
<1>5. oidc' = oidc
  BY DEF HandlerStep, health
<1> QED
  BY <1>2, <1>3, <1>4, <1>5

LEMMA ReportedIs ==
  ASSUME SInv, NEW c \in Connection, HandlerStep(c)
  PROVE  /\ Chain!Turn(c) => Reported(req[c], req'[c]) = {}
         /\ Chain!Refusal(c) => Reported(req[c], req'[c])
                                  = IF req'[c].code = 401 THEN {"refused"} ELSE {}
         /\ Chain!HandOver(c) /\ req'[c].pc = "upstream" =>
              Reported(req[c], req'[c]) = {"received"}
         /\ Chain!HandOver(c) /\ req'[c].pc = "done" =>
              Reported(req[c], req'[c]) = {"received", "complete"}
         /\ Chain!Reply(c) => Reported(req[c], req'[c]) = {"complete"}
  BY HandlerEffect DEF Reported, Chain!Turn, Chain!Refusal, Chain!HandOver, Chain!Reply,
     Chain!Early

(* The backend takes what is reported, or counts it as lost.               *)
LEMMA Reporting ==
  ASSUME SInv, NEW c \in Connection, HandlerStep(c)
  PROVE  LET kinds == Reported(req[c], req'[c])
         IN  /\ audit'.mode = audit.mode
             /\ audit.mode = "off" \/ kinds = {} => audit' = audit
             /\ audit.mode # "off" => Known' = Known \cup ({c} \X kinds)
<1> DEFINE kinds == Reported(req[c], req'[c])
<1>1. kinds \in SUBSET {"received", "complete", "refused"}
  BY DEF Reported
<1>2. audit' \in Submitted({c} \X kinds) /\ TypeOK
  BY DEF HandlerStep, SInv, IInv
<1> HIDE DEF kinds
<1>3. {c} \X kinds \in SUBSET Event /\ IsFiniteSet({c} \X kinds)
  BY <1>1, EventsOf
<1>4. kinds = {} => {c} \X kinds = {}
  OBVIOUS
<1>5. /\ audit'.mode = audit.mode
      /\ audit.mode = "off" \/ kinds = {} => audit' = audit
      /\ audit.mode # "off" =>
           audit'.buffer \cup audit'.delivered \cup audit'.lost
             = audit.buffer \cup audit.delivered \cup audit.lost \cup ({c} \X kinds)
  BY <1>2, <1>3, <1>4, SubmittedEffect
<1> QED
  BY <1>5 DEF Known, kinds

(* A handler does what Lifecycle allows a request.                         *)
LEMMA HandlerLives ==
  ASSUME SInv, NEW c \in Connection, HandlerStep(c)
  PROVE  [Next]_vars
<1> DEFINE kinds == Reported(req[c], req'[c])
<1>1. /\ Alive /\ conn[c] = "active" /\ audit' \in Submitted({c} \X kinds)
      /\ UNCHANGED <<mainVars, signals, listener, acceptor, shutter, overdue>>
      /\ conn' = IF req'[c].pc = "done" THEN [conn EXCEPT ![c] = "answered"] ELSE conn
  BY DEF HandlerStep
<1>2. Received(c) <=> <<c, "received">> \in Known
  BY DEF Received, Known
<1>3. /\ req[c].pc \in Unsent => ~Received(c)
      /\ audit.mode # "off" => Trail(c) \subseteq Known
  BY <1>2 DEF SInv, Linked, Told
<1>4. CASE Chain!Turn(c)
  <2>1. kinds = {} /\ req'[c].pc # "done"
    BY <1>4, ReportedIs DEF Chain!Turn, Chain!Early
  <2>2. audit' = audit
    BY <2>1, Reporting
  <2> QED
    BY <1>1, <2>1, <2>2 DEF vars, serverVars
<1>5. CASE Chain!Refusal(c)
  <2>1. req'[c].pc = "done" /\ ~Received(c) /\ kinds \in {{}, {"refused"}}
    BY <1>3, <1>5, ReportedIs DEF Chain!Refusal, Chain!Early, Unsent
  <2> HIDE DEF kinds
  <2>2. kinds \in Endings(c)
    BY <2>1 DEF Endings
  <2> QED
    BY <1>1, <2>1, <2>2 DEF Answer, Next
<1>6. CASE Chain!HandOver(c)
  <2>1. ~Received(c)
    BY <1>3, <1>6 DEF Chain!HandOver, Unsent
  <2>2. CASE req'[c].pc = "upstream"
    <3>1. kinds = {"received"}
      BY <1>6, <2>2, ReportedIs
    <3>2. {c} \X {"received"} = {<<c, "received">>}
      OBVIOUS
    <3>3. conn' = conn /\ audit' \in Submitted({<<c, "received">>})
      BY <1>1, <2>2, <3>1, <3>2
    <3> QED
      BY <1>1, <2>1, <3>3 DEF Report, AuditOnly, serverVars, Next
  <2>3. CASE req'[c].pc = "done"
    <3>1. kinds = {"received", "complete"}
      BY <1>6, <2>3, ReportedIs
    <3>2. kinds \in Endings(c)
      BY <2>1, <3>1 DEF Endings
    <3> HIDE DEF kinds
    <3> QED
      BY <1>1, <2>3, <3>2 DEF Answer, Next
  <2> QED
    BY <1>6, <2>2, <2>3 DEF Chain!HandOver
<1>7. CASE Chain!Reply(c)
  <2>1. kinds = {"complete"} /\ req'[c].pc = "done" /\ req[c].pc = "upstream"
    BY <1>7, ReportedIs DEF Chain!Reply
  <2>2. CASE audit.mode # "off"
    <3>1. req[c].sent # None
      BY <2>1 DEF SInv, Chain!KInv, Chain!RecordInv, Chain!Exact
    <3>2. Received(c)
      BY <1>2, <1>3, <2>2, <3>1 DEF Trail
    <3>3. kinds \in Endings(c)
      BY <2>1, <3>2 DEF Endings
    <3> HIDE DEF kinds
    <3> QED
      BY <1>1, <2>1, <3>3 DEF Answer, Next
  <2>3. CASE audit.mode = "off"
    <3>1. PICK other : other \in Endings(c)
      BY DEF Endings
    <3>2. audit' \in Submitted({c} \X other)
      BY <1>1, <2>3 DEF Submitted
    <3> QED
      BY <1>1, <2>1, <3>1, <3>2 DEF Answer, Next
  <2> QED
    BY <2>2, <2>3
<1> QED
  BY <1>4, <1>5, <1>6, <1>7, HandlerEffect

(* How the handlers, the backend and the probe stay in step.               *)
LEMMA HandlerLinks ==
  ASSUME SInv, NEW c \in Connection, HandlerStep(c)
  PROVE  Linked'
<1> DEFINE kinds == Reported(req[c], req'[c])
<1>1. /\ \A d \in Connection \ {c} : req'[d] = req[d]
      /\ oidc' = oidc /\ req'[c].in = req[c].in /\ assured' = assured
      /\ Chain!Turn(c) \/ Chain!Refusal(c) \/ Chain!HandOver(c) \/ Chain!Reply(c)
      /\ req[c].pc \in Chain!Early \cup {"forward", "upstream"} => req[c].code = 0
  BY HandlerEffect DEF HandlerStep
<1>2. /\ conn[c] = "active" /\ conn \in [Connection -> ConnStates]
      /\ \A d \in Connection : conn'[d] \in {"none", "queued"} => d # c /\ conn'[d] = conn[d]
  BY DEF HandlerStep, SInv, IInv, TypeOK, ConnStates
<1>3. /\ audit'.mode = audit.mode
      /\ audit.mode = "off" \/ kinds = {} => Known' = Known
      /\ audit.mode # "off" => Known' = Known \cup ({c} \X kinds)
  BY Reporting DEF Known
<1>4. \A d \in Connection : Fresh(d) /\ Told(d) /\ Welcome(d)
  BY DEF SInv, Linked
<1>5. ASSUME NEW d \in Connection \ {c} PROVE Fresh(d)' /\ Told(d)' /\ Welcome(d)'
  <2>1. Fresh(d)' /\ Welcome(d)'
    BY <1>1, <1>2, <1>4 DEF Fresh, Welcome
  <2>2. Trail(d)' = Trail(d)
    BY <1>1 DEF Trail
  <2>3. Known' = Known \/ Known' = Known \cup ({c} \X kinds)
    BY <1>3
  <2> HIDE DEF kinds
  <2>4. Told(d)'
    BY <1>1, <1>3, <1>4, <2>2, <2>3 DEF Told
  <2> QED
    BY <2>1, <2>4
<1>6. Fresh(c)'
  BY <1>1, <1>2 DEF Fresh, Chain!Turn, Chain!Refusal, Chain!HandOver, Chain!Reply, Chain!Early
<1>7. Welcome(c)'
  BY <1>1, <1>4 DEF Welcome, Chain!Turn, Chain!Refusal, Chain!HandOver, Chain!Reply,
     Chain!Early, Chain!Accepted
<1>8. Told(c)'
  <2>1. CASE Chain!Turn(c)
    <3>1. Known' = Known /\ req[c].pc \in Unsent
      BY <1>3, <2>1, ReportedIs DEF Chain!Turn, Chain!Early, Unsent
    <3>2. Trail(c)' = Trail(c)
      BY <2>1 DEF Chain!Turn, Trail
    <3> QED
      BY <1>3, <1>4, <3>1, <3>2 DEF Told
  <2>2. CASE Chain!Refusal(c)
    <3>1. /\ req'[c].pc \notin Unsent /\ req'[c].sent = req[c].sent
          /\ req'[c].code = 401 => kinds = {"refused"}
      BY <2>2, ReportedIs DEF Chain!Refusal, Unsent
    <3>2. Trail(c)' \subseteq Trail(c) \cup ({c} \X kinds)
      BY <3>1 DEF Trail
    <3> QED
      BY <1>3, <1>4, <3>1, <3>2 DEF Told
  <2>3. CASE Chain!HandOver(c)
    <3>1. req'[c].pc \notin Unsent /\ req'[c].code = 0 /\ "received" \in kinds
      BY <1>1, <2>3, ReportedIs DEF Chain!HandOver, Unsent
    <3>2. Trail(c)' \subseteq {c} \X kinds
      BY <3>1 DEF Trail
    <3> QED
      BY <1>3, <3>1, <3>2 DEF Told
  <2>4. CASE Chain!Reply(c)
    <3>1. /\ req'[c].pc \notin Unsent /\ req'[c].sent = req[c].sent
          /\ req'[c].code # 401
      BY <2>4 DEF Chain!Reply, Unsent
    <3>2. Trail(c)' \subseteq Trail(c)
      BY <3>1 DEF Trail
    <3> QED
      BY <1>3, <1>4, <3>1, <3>2 DEF Told
  <2> QED
    BY <1>1, <2>1, <2>2, <2>3, <2>4
<1> QED
  BY <1>5, <1>6, <1>7, <1>8 DEF Linked

LEMMA AcceptLinks ==
  ASSUME SInv, NEW c \in Connection, AcceptRequest(c)
  PROVE  Linked' /\ assured' \subseteq Connection
<1>1. /\ req'[c].pc = "authenticate" /\ req'[c].sent = None /\ req'[c].code = 0
      /\ \A d \in Connection \ {c} : req'[d] = req[d]
  BY SameSteps, ChainAssumptions, Chain!ArriveShape DEF SInv, Chain!IInv, AcceptRequest
<1>2. /\ conn[c] = "queued" /\ conn' = [conn EXCEPT ![c] = "active"]
      /\ conn \in [Connection -> ConnStates]
      /\ audit' = audit /\ oidc' = oidc
      /\ assured' = assured \/ (probe.ready /\ assured' = assured \cup {c})
  BY DEF AcceptRequest, Accept, ServerOnly, health, SInv, IInv, TypeOK, ConnStates
<1>3. Known' = Known /\ audit'.mode = audit.mode
  BY <1>2 DEF Known
<1>4. /\ \A d \in Connection : Fresh(d) /\ Told(d) /\ Welcome(d)
      /\ assured \subseteq Connection /\ (probe.ready => oidc = "up")
  BY DEF SInv, Linked, Probed
<1>5. ASSUME NEW d \in Connection \ {c} PROVE Fresh(d)' /\ Told(d)' /\ Welcome(d)'
  <2>1. Fresh(d)' /\ Welcome(d)'
    BY <1>1, <1>2, <1>4 DEF Fresh, Welcome
  <2>2. Trail(d)' = Trail(d)
    BY <1>1 DEF Trail
  <2> QED
    BY <1>1, <1>3, <1>4, <2>1, <2>2 DEF Told
<1>6. Fresh(c)' /\ Welcome(c)'
  BY <1>1, <1>2, <1>4 DEF Fresh, Welcome
<1>7. <<c, "received">> \notin Known
  BY <1>2, <1>4 DEF Fresh, Told, Unsent
<1>8. Trail(c)' = {}
  BY <1>1 DEF Trail
<1>9. Told(c)'
  BY <1>3, <1>7, <1>8 DEF Told
<1> QED
  BY <1>2, <1>4, <1>5, <1>6, <1>9 DEF Linked

(* The other goroutines hand no request to the handlers, and leave what    *)
(* the backend knows as it is.                                             *)
LEMMA SurroundingsLeave ==
  ASSUME IInv, Main \/ Surroundings
  PROVE  /\ audit'.mode = audit.mode /\ Known' = Known
         /\ \A c \in Connection : conn'[c] \in {"none", "queued"} =>
                                  conn[c] \in {"none", "queued"}
<1> DEFINE Same == audit' = audit
           Calm == \A c \in Connection : conn'[c] \in {"none", "queued"} =>
                                         conn[c] \in {"none", "queued"}
<1>1. /\ audit \in [mode: AuditModes, worker: {"none", "running", "flushing", "gone"},
                     buffer: SUBSET Event, delivered: SUBSET Event, lost: SUBSET Event]
      /\ conn \in [Connection -> ConnStates] /\ TypeOK
  BY DEF IInv, TypeOK, ConnStates
<1>2. ASSUME NEW how, Exit(how) PROVE Same /\ Calm
  <2>1. \A c \in Connection : conn'[c] \in {"none", "queued"} => conn'[c] = conn[c]
    BY <1>2 DEF Exit
  <2> QED
    BY <1>2, <2>1 DEF Exit
<1>3. ASSUME CloseListener PROVE Calm
  BY <1>3 DEF CloseListener
<1>4. CASE RunAuditor
  <2>1. conn' = conn /\ audit' = [audit EXCEPT !.worker = WorkerRun]
    BY <1>4 DEF RunAuditor, serverVars
  <2> QED
    BY <1>1, <2>1 DEF Known
<1>5. CASE Worker
  <2>1. conn' = conn
    BY <1>5 DEF Worker, WorkerCloses, WorkerWrites, WorkerEnds, AuditOnly, serverVars
  <2>2. CASE \E w : audit' = [audit EXCEPT !.worker = w]
    BY <1>1, <2>1, <2>2 DEF Known
  <2>3. CASE \E e \in audit.buffer :
               audit' = [audit EXCEPT !.buffer = @ \ {e}, !.delivered = @ \cup {e}]
    BY <1>1, <2>1, <2>3 DEF Known
  <2> QED
    BY <1>5, <2>2, <2>3 DEF Worker, WorkerCloses, WorkerWrites, WorkerEnds
<1>6. CASE Main /\ ~RunAuditor
  <2>1. Same /\ Calm
    BY <1>2, <1>6 DEF Main, Configure, Bind, Build, StartProbe, Serve, StartUpFails,
       WaitForServer, RunPreShutdownHooks, Prepare, serverVars
  <2> QED
    BY <2>1 DEF Known
<1>7. CASE \E c \in Connection : Connect(c)
  <2>1. Same /\ Calm
    BY <1>1, <1>7 DEF Connect, ServerOnly
  <2> QED
    BY <2>1 DEF Known
<1>8. CASE SendSignal \/ TakeSignal \/ AcceptorStarts \/ AcceptorEnds \/ AcceptorFails
  <2>1. Same /\ Calm
    BY <1>2, <1>3, <1>8 DEF SendSignal, TakeSignal, AcceptorStarts, AcceptorEnds,
       AcceptorFails, ServerOnly, serverVars
  <2> QED
    BY <2>1 DEF Known
<1>9. CASE ShutdownBegins \/ ShutdownEnds \/ Gone
  <2>1. Same /\ Calm
    BY <1>3, <1>9 DEF ShutdownBegins, ShutdownEnds, Gone, ServerOnly, serverVars, vars
  <2> QED
    BY <2>1 DEF Known
<1> QED
  BY <1>4, <1>5, <1>6, <1>7, <1>8, <1>9 DEF Surroundings

LEMMA OthersLink ==
  ASSUME SInv, Main \/ Surroundings \/ UNCHANGED vars, UNCHANGED <<requests, assured>>,
         oidc = "up" => oidc' = "up"
  PROVE  Linked'
<1>1. /\ audit'.mode = audit.mode /\ Known' = Known
      /\ \A c \in Connection : conn'[c] \in {"none", "queued"} =>
                               conn[c] \in {"none", "queued"}
  <2>1. CASE Main \/ Surroundings
    BY <2>1, SurroundingsLeave DEF SInv
  <2>2. CASE UNCHANGED vars
    BY <2>2 DEF vars, serverVars, Known
  <2> QED
    BY <2>1, <2>2
<1>2. req' = req /\ assured' = assured
  BY DEF requests
<1>3. ASSUME NEW c \in Connection PROVE Fresh(c)' /\ Told(c)' /\ Welcome(c)'
  <2>1. Fresh(c) /\ Told(c) /\ Welcome(c)
    BY DEF SInv, Linked
  <2>2. Trail(c)' = Trail(c)
    BY <1>2 DEF Trail
  <2> QED
    BY <1>1, <1>2, <2>1, <2>2 DEF Fresh, Told, Welcome
<1> QED
  BY <1>3 DEF Linked

-----------------------------------------------------------------------------
(***************************************************************************)
(* Every step of the process is one of its parts.                          *)
(***************************************************************************)
LEMMA StepLifecycle ==
  ASSUME SInv, [SystemNext]_systemVars
  PROVE  [Next]_vars
<1>1. CASE UNCHANGED systemVars \/ ProbeStep
  BY <1>1 DEF systemVars, ProbeStep
<1>2. CASE MainStep \/ ServerStep
  BY <1>2 DEF MainStep, ServerStep, Next
<1>3. ASSUME NEW c \in Connection, AcceptRequest(c) PROVE [Next]_vars
  BY <1>3 DEF AcceptRequest, Next
<1>4. ASSUME NEW c \in Connection, HandlerStep(c) PROVE [Next]_vars
  BY <1>4, HandlerLives
<1> QED
  BY <1>1, <1>2, <1>3, <1>4 DEF SystemNext

LEMMA StepPipeline ==
  ASSUME SInv, [SystemNext]_systemVars
  PROVE  [Pipeline!Next]_(Pipeline!vars)
<1>1. ASSUME UNCHANGED requests, (oidc' = "up") <=> (oidc = "up")
      PROVE  UNCHANGED Pipeline!vars
  <2>1. (oidc' = "up") = (oidc = "up")
    BY <1>1, Zenon
  <2> QED
    BY <1>1, <2>1 DEF requests, Pipeline!vars
<1>2. CASE UNCHANGED systemVars \/ ServerStep
  BY <1>1, <1>2 DEF systemVars, health, ServerStep
<1>3. CASE MainStep
  <2>1. (oidc' = "up") <=> (oidc = "up")
    BY <1>3, MainProbes DEF SInv
  <2> QED
    BY <1>1, <1>3, <2>1 DEF MainStep
<1>4. CASE ProbeStep
  <2>1. CASE oidc' = oidc
    BY <1>1, <1>4, <2>1 DEF ProbeStep
  <2>2. CASE Health!OidcInitialized
    <3>1. ~(oidc = "up") /\ oidc' = "up" /\ UNCHANGED <<cfg, rbac, req>>
      BY <1>4, <2>2 DEF Health!OidcInitialized, ProbeStep, requests
    <3>2. (oidc' = "up") = TRUE
      BY <3>1, Zenon
    <3>3. Pipeline!OidcInitialized
      BY <3>1, <3>2 DEF Pipeline!OidcInitialized
    <3> QED
      BY <3>3 DEF Pipeline!Next
  <2> QED
    BY <1>4, <2>1, <2>2 DEF ProbeStep, Health!Next, Health!Serves, Health!Listens,
       Health!Retries, Health!ListenerFails, Health!CheckBegins, Health!CheckEnds
<1>5. ASSUME NEW c \in Connection, AcceptRequest(c) \/ HandlerStep(c)
      PROVE  Pipeline!Next
  BY <1>5 DEF AcceptRequest, HandlerStep, Pipeline!Next
<1> QED
  BY <1>2, <1>3, <1>4, <1>5 DEF SystemNext

LEMMA StepChain ==
  ASSUME SInv, [SystemNext]_systemVars
  PROVE  [Chain!Next]_(Chain!vars)
<1>1. Pipeline!Next \/ UNCHANGED Pipeline!vars
  BY StepPipeline
<1>2. UNCHANGED Pipeline!vars => UNCHANGED Chain!vars
  BY DEF Pipeline!vars, Chain!vars
<1> QED
  BY <1>1, <1>2, SameNext

LEMMA InitSInv == SystemInit => SInv
<1> SUFFICES ASSUME SystemInit PROVE SInv
  OBVIOUS
<1>1. IInv
  BY InitIInv DEF SystemInit
<1>2. Chain!IInv /\ Chain!KInv
  BY SameInit, ChainAssumptions, Chain!InitIInv, Chain!InitKInv DEF SystemInit
<1>3. /\ oidc = "none" /\ probe = [listener |-> "none", failures |-> 0, ready |-> FALSE]
      /\ check = [p \in Prober |-> [pc |-> "idle", sure |-> FALSE, answer |-> "none"]]
      /\ assured = {} /\ MaxProbeFailures \in Nat
  BY SystemAssumption DEF SystemInit, Health!Init
<1>4. probe \in Probes /\ ~probe.ready
  BY <1>3 DEF Probes
<1>5. \A p \in Prober : check[p] \in Checks /\ ~check[p].sure
  BY <1>3 DEF Checks
<1>6. Health!TypeOK /\ Probed /\ ReadyStays
  BY <1>3, <1>4, <1>5 DEF Health!TypeOK, Probed, ReadyStays, Checks, Probes
<1>7. ASSUME NEW c \in Connection PROVE Fresh(c) /\ Told(c) /\ Welcome(c)
  <2>1. req[c].pc = "idle" /\ req[c].sent = None /\ req[c].code = 0
    BY DEF SystemInit, Pipeline!Init, Pipeline!Idle
  <2>2. Known = {}
    BY DEF SystemInit, Init, NewAudit, Known
  <2>3. Trail(c) = {}
    BY <2>1 DEF Trail
  <2> QED
    BY <1>3, <2>1, <2>2, <2>3 DEF Fresh, Told, Welcome
<1> QED
  BY <1>1, <1>2, <1>3, <1>6, <1>7 DEF SInv, Linked

LEMMA NextSInv == SInv /\ [SystemNext]_systemVars => SInv'
<1> SUFFICES ASSUME SInv, [SystemNext]_systemVars PROVE SInv'
  OBVIOUS
<1>1. IInv'
  BY StepLifecycle, NextIInv DEF SInv
<1>2. Chain!IInv' /\ Chain!KInv'
  BY StepChain, ChainAssumptions, Chain!NextIInv, Chain!NextKInv DEF SInv
<1>3. ASSUME UNCHANGED health, main' \in {main, "gone"}
      PROVE  Health!TypeOK' /\ Probed' /\ ReadyStays' /\ oidc' = oidc
  BY <1>3 DEF SInv, health, Health!TypeOK, Probed, ReadyStays
<1>4. CASE MainStep
  BY <1>1, <1>2, <1>4, MainProbes, OthersLink DEF SInv, MainStep
<1>5. CASE ProbeStep
  <2>1. UNCHANGED vars /\ main' = main
    BY <1>5 DEF ProbeStep, vars, mainVars
  <2> QED
    BY <1>1, <1>2, <1>5, <2>1, ProbeKeeps, OthersLink DEF SInv, ProbeStep
<1>6. CASE ServerStep
  <2>1. main' \in {main, "gone"}
    BY <1>6 DEF ServerStep, Surroundings, SendSignal, TakeSignal, AcceptorStarts,
       AcceptorEnds, AcceptorFails, ShutdownBegins, ShutdownEnds, Worker, WorkerCloses,
       WorkerWrites, WorkerEnds, Gone, Connect, Exit, ServerOnly, AuditOnly, mainVars, vars
  <2> QED
    BY <1>1, <1>2, <1>3, <1>6, <2>1, OthersLink DEF SInv, ServerStep
<1>7. CASE UNCHANGED systemVars
  <2>1. main' \in {main, "gone"} /\ UNCHANGED <<vars, health, requests, assured>>
    BY <1>7 DEF systemVars, vars, mainVars
  <2> QED
    BY <1>1, <1>2, <1>3, <2>1, OthersLink DEF SInv
<1>8. ASSUME NEW c \in Connection, AcceptRequest(c) PROVE SInv'
  <2>1. main' = main /\ UNCHANGED health
    BY <1>8 DEF AcceptRequest, Accept, ServerOnly, mainVars
  <2> QED
    BY <1>1, <1>2, <1>3, <1>8, <2>1, AcceptLinks DEF SInv
<1>9. ASSUME NEW c \in Connection, HandlerStep(c) PROVE SInv'
  <2>1. main' = main /\ UNCHANGED health /\ assured' = assured
    BY <1>9 DEF HandlerStep, mainVars, health
  <2> QED
    BY <1>1, <1>2, <1>3, <1>9, <2>1, HandlerLinks DEF SInv
<1> QED
  BY <1>4, <1>5, <1>6, <1>7, <1>8, <1>9 DEF SystemNext

LEMMA SystemInvariant == SystemSpec => []SInv
  BY InitSInv, NextSInv, PTL DEF SystemSpec

-----------------------------------------------------------------------------
(***************************************************************************)
(* Theorems.                                                               *)
(***************************************************************************)
(* The process is a Lifecycle whatever its handlers do: they report to the *)
(* audit backend in the order and at the moments Lifecycle leaves open     *)
(* (handlers.go:21-31,241-252; run.go:33-134).                             *)
THEOREM LifecycleImplemented == SystemSpec => ImplementsLifecycle
<1>1. SystemInit => Init
  BY DEF SystemInit
<1>2. SInv /\ [SystemNext]_systemVars => [Next]_vars
  BY StepLifecycle
<1> QED
  BY <1>1, <1>2, SystemInvariant, PTL DEF SystemSpec, ImplementsLifecycle, Spec

(* The process is a RequestPipeline whatever main, the probe and the       *)
(* server do: the authenticator main starts becomes ready at most once     *)
(* (run.go:33-134, handlers.go:38-60).                                     *)
THEOREM PipelineImplemented == SystemSpec => ImplementsPipeline
<1>1. SystemInit => Pipeline!Init
  BY DEF SystemInit
<1>2. SInv /\ [SystemNext]_systemVars => [Pipeline!Next]_(Pipeline!vars)
  BY StepPipeline
<1> QED
  BY <1>1, <1>2, SystemInvariant, PTL DEF SystemSpec, ImplementsPipeline, Pipeline!Spec

(* The three parts keep their types together.                              *)
THEOREM SystemTypeCorrect == SystemSpec => []SystemTypeOK
<1>1. SInv => SystemTypeOK
  BY SameType DEF SInv, IInv, Chain!IInv, SystemTypeOK
<1> QED
  BY <1>1, SystemInvariant, PTL

(* Readiness is a promise: the probe reports the authenticator the handlers*)
(* use, and that never loses what it has (run.go:116, probe.go:52-72,      *)
(* handlers.go:38-50).                                                     *)
THEOREM ReadyIsServed == SystemSpec => []ReadyMeansServed
<1>1. SInv => ReadyMeansServed
  BY DEF SInv, Linked, Welcome, ReadyMeansServed
<1> QED
  BY <1>1, SystemInvariant, PTL

(* A check that begins after ready was answered answers ready, however     *)
(* many run at once and whatever writes to h.ready they miss               *)
(* (probe.go:52-72).                                                       *)
THEOREM ReadyForGood == SystemSpec => []ReadyStays
<1>1. SInv => ReadyStays
  BY DEF SInv
<1> QED
  BY <1>1, SystemInvariant, PTL

(* An orderly exit accounts for every request that was handed over and for *)
(* every 401, however draining, the worker and the handlers interleave     *)
(* (handlers.go:21-31,241-252; proxy.go:212-228; run.go:121-132).          *)
THEOREM TrailKept == SystemSpec => []AuditTrailKept
<1>1. SInv => AuditTrailKept
  <2> SUFFICES ASSUME SInv, code = "ok", audit.mode # "off", NEW c \in Connection
               PROVE  Trail(c) \subseteq audit.delivered \cup audit.lost
    BY DEF AuditTrailKept
  <2>1. Trail(c) \subseteq Known
    BY DEF SInv, Linked, Told
  <2>2. audit.buffer = {}
    BY DEF SInv, IInv, AuditDrained
  <2> QED
    BY <2>1, <2>2 DEF Known
<1> QED
  BY <1>1, SystemInvariant, PTL

(* What the parts promise, the whole process does: it is a Service, its    *)
(* requests are let through as Gateway says, with no identity that was not *)
(* granted, all that was asked for, or untouched, what is recorded of them *)
(* is true; no request goes in circles and no stop gets stuck              *)
(* (run.go:33-134, handlers.go:39-252, proxy.go:237-263).                  *)
THEOREM PromisesInherited ==
  SystemSpec => /\ ImplementsService /\ []ShutdownNotStuck /\ Chain!ImplementsGateway
                /\ []Chain!IdentityGranted /\ []Chain!ImpersonationComplete
                /\ []Chain!ConfigurationApplied /\ []Chain!PassthroughIntact
                /\ []Chain!OriginalUserRecorded /\ []Chain!AuditNamesForwardedUser
                /\ []Chain!AccessLogTruthful /\ Chain!RequestsAdvance
<1>1. SystemSpec => ImplementsService
  BY LifecycleImplemented, Implementation DEF ImplementsLifecycle
<1>2. SystemSpec => Chain!Spec
  <2>1. SystemInit => Chain!Init
    BY SameInit DEF SystemInit
  <2>2. SInv /\ [SystemNext]_systemVars => [Chain!Next]_(Chain!vars)
    BY StepChain
  <2> QED
    BY <2>1, <2>2, SystemInvariant, PTL DEF SystemSpec, Chain!Spec
<1>3. Chain!Spec => Chain!ImplementsGateway
  BY ChainAssumptions, Chain!Implementation
<1>4. Chain!Spec => []Chain!IdentityGranted
  BY ChainAssumptions, Chain!GrantedOnly
<1>5. Chain!Spec => []Chain!ImpersonationComplete
  BY ChainAssumptions, Chain!AllOrNothing
<1>6. Chain!Spec => []Chain!ConfigurationApplied
  BY ChainAssumptions, Chain!AsConfigured
<1>7. Chain!Spec => []Chain!PassthroughIntact
  BY ChainAssumptions, Chain!PassedUntouched
<1>8. Chain!Spec => []Chain!OriginalUserRecorded
  BY ChainAssumptions, Chain!AskerRecorded
<1>9. Chain!Spec => []Chain!AuditNamesForwardedUser
  BY ChainAssumptions, Chain!AuditAgrees
<1>10. Chain!Spec => []Chain!AccessLogTruthful
  BY ChainAssumptions, Chain!LogAgrees
<1>11. Chain!Spec => Chain!RequestsAdvance
  BY ChainAssumptions, Chain!Progress
<1>12. SystemSpec => []ShutdownNotStuck
  BY LifecycleImplemented, NoStandstill DEF ImplementsLifecycle
<1> QED
  BY <1>1, <1>2, <1>3, <1>4, <1>5, <1>6, <1>7, <1>8, <1>9, <1>10, <1>11, <1>12

=============================================================================
