------------------------------ MODULE Lifecycle ------------------------------
(***************************************************************************)
(* The life of the process (cmd/main.go, cmd/app/run.go, Proxy.Run and     *)
(* Proxy.serve, pkg/util/signals.go, pkg/proxy/hooks, pkg/proxy/audit):    *)
(* start-up in order, serving, signals, draining, the pre-shutdown hook    *)
(* and the exit. It begins with a command line that is meant to start the  *)
(* proxy: Options says which do, and how --help, --version and the flags'  *)
(* errors end the others.                                                  *)
(*                                                                         *)
(* The goroutines are main (RunE), the signal handler, the two of          *)
(* SecureServingInfo.Serve (one accepts, one waits for stopCh and shuts    *)
(* the server down), one per connection, and the worker of a batching      *)
(* audit backend. Requests are opaque here; System puts RequestPipeline in *)
(* their place and adds the readiness probe.                               *)
(***************************************************************************)
EXTENDS Naturals, Sequences, FiniteSets

CONSTANTS
  Connection,      \* connections clients open, one request each
  AuditModes,      \* kinds of audit backend the options ask for
  BufferLimit,     \* how many events a batching audit backend holds
  MaxSignals       \* bound on the signals sent

ASSUME LifecycleAssumption ==
  /\ AuditModes \subseteq {"off", "blocking", "batch"}
  /\ BufferLimit \in Nat /\ MaxSignals \in Nat

VARIABLES
  main,     \* where RunE is
  code,     \* how the process ended
  signals,  \* sent, pending in SignalHandler's channel, taken from it
  hooks,    \* the names in preShutdownHooks
  listener, \* the listening socket
  acceptor, \* the goroutine in http.Server.Serve
  shutter,  \* the goroutine that calls http.Server.Shutdown
  overdue,  \* Shutdown's context has expired
  conn,     \* per connection: where its request is
  audit     \* the audit backend

mainVars   == <<main, code, hooks>>
serverVars == <<listener, acceptor, shutter, overdue, conn>>
vars       == <<mainVars, signals, serverVars, audit>>

Event == Connection \X {"received", "complete", "refused"}

(* audit.New: the backend the options ask for, not running yet.            *)
NewAudit == [mode: AuditModes, worker: {"none"}, buffer: {{}},
             delivered: {{}}, lost: {{}}]

Init ==
  /\ main = "configure" /\ code = "running" /\ hooks = {}
  /\ signals = [sent |-> 0, pending |-> 0, taken |-> 0]
  /\ listener = "none" /\ acceptor = "none" /\ shutter = "none"
  /\ overdue = FALSE /\ conn = [c \in Connection |-> "none"]
  /\ audit \in NewAudit

Alive   == main # "gone"
Stopped == signals.taken >= 1   \* stopCh is closed

(* The process ends, and its sockets with it.                              *)
Exit(how) ==
  /\ main' = "gone" /\ code' = how /\ listener' = "closed"
  /\ conn' = [c \in Connection |-> CASE conn[c] = "queued" -> "dropped"
                                     [] conn[c] = "active" -> "cut"
                                     [] OTHER -> conn[c]]
  /\ UNCHANGED <<hooks, acceptor, shutter, overdue, audit>>

(* The listening socket closes on what has not been accepted.              *)
CloseListener ==
  /\ listener' = "closed"
  /\ conn' = [c \in Connection |->
                IF conn[c] = "queued" THEN "dropped" ELSE conn[c]]

(***************************************************************************)
(* RunE.                                                                   *)
(***************************************************************************)
(* Bug: the auditor is run once the proxy serves.                          *)
ServeFirst == <<"configure", "bind", "build", "probe", "serve", "audit">>

(* The order of RunE, Proxy.Run and Proxy.serve: options and clients; the  *)
(* listener (SecureServing.ApplyTo); proxy.New; the fake JWT and probe.Run;*)
(* transports, handlers and auditor; SecureServingInfo.Serve.              *)
StartOrder == <<"configure", "bind", "build", "probe", "audit", "serve">>

StartUp   == {StartOrder[i] : i \in DOMAIN StartOrder}
After(pc) == LET i == CHOOSE j \in DOMAIN StartOrder : StartOrder[j] = pc
             IN  IF i = Len(StartOrder) THEN "wait" ELSE StartOrder[i + 1]
Done(pc)  == main = pc /\ main' = After(pc) /\ UNCHANGED <<code, signals>>

(* Each part of start-up may return an error, which main prints.           *)
StartUpFails == main \in StartUp /\ Exit("error") /\ UNCHANGED signals

(* The parts that leave the server alone: Validate, where --version, which *)
(* is Options', would end the process, the REST configuration and the token*)
(* reviewer; proxy.New; the fake JWT and probe.Run. Readiness says what the*)
(* last two start.                                                         *)
Prepare(pc) == Done(pc) /\ UNCHANGED <<hooks, serverVars, audit>>
Configure   == Prepare("configure")
Build       == Prepare("build")
StartProbe  == Prepare("probe")

Bind ==
  /\ Done("bind") /\ listener' = "open"
  /\ UNCHANGED <<hooks, acceptor, shutter, overdue, conn, audit>>

(* Bug: nobody adds the hook.                                              *)
NoHooks == {}

(* withHandlers adds the one hook.                                         *)
AddedHooks == {"AuditBackend"}

(* Audit.Run: a batching backend gets its worker.                          *)
WorkerRun == IF audit.mode = "batch" THEN "running" ELSE "none"

RunAuditor ==
  /\ Done("audit") /\ hooks' = hooks \cup AddedHooks
  /\ audit' = [audit EXCEPT !.worker = WorkerRun]
  /\ UNCHANGED serverVars

Serve ==
  /\ Done("serve") /\ acceptor' = "starting" /\ shutter' = "waiting"
  /\ UNCHANGED <<hooks, listener, overdue, conn, audit>>

(* <-waitCh, then <-listenerStoppedCh.                                     *)
ServerStopped == shutter = "done" /\ acceptor = "ended"

WaitForServer ==
  /\ main = "wait" /\ ServerStopped /\ main' = "hooks"
  /\ UNCHANGED <<code, hooks, signals, serverVars, audit>>

(* Audit.Shutdown returns at once unless the backend batches.              *)
AuditShutDown == audit.mode = "batch" => audit.worker = "gone"

(* RunPreShutdownHooks, and main returns: Audit.Shutdown has no error.     *)
RunPreShutdownHooks ==
  /\ main = "hooks" /\ ("AuditBackend" \in hooks => AuditShutDown)
  /\ Exit("ok") /\ UNCHANGED signals

Main == \/ Configure \/ Bind \/ Build \/ StartProbe \/ RunAuditor \/ Serve
        \/ StartUpFails \/ WaitForServer \/ RunPreShutdownHooks

(***************************************************************************)
(* SignalHandler. signal.Notify does not block: it drops what the channel  *)
(* has no room for.                                                        *)
(***************************************************************************)
ChannelSize == 2

SendSignal ==
  /\ Alive /\ signals.sent < MaxSignals
  /\ signals' = [signals EXCEPT !.sent = @ + 1,
                    !.pending = IF @ < ChannelSize THEN @ + 1 ELSE @]
  /\ UNCHANGED <<mainVars, serverVars, audit>>

(* The first closes stopCh; three turns of the loop later the process ends.*)
ForceAt == 4

(* Bug: the loop never ends.                                               *)
TakeSignalForever ==
  /\ Alive /\ signals.pending > 0
  /\ signals' = [signals EXCEPT !.pending = @ - 1, !.taken = @ + 1]
  /\ UNCHANGED <<mainVars, serverVars, audit>>

TakeSignal ==
  /\ Alive /\ signals.pending > 0
  /\ signals' = [signals EXCEPT !.pending = @ - 1, !.taken = @ + 1]
  /\ IF signals.taken + 1 >= ForceAt
     THEN Exit("error")
     ELSE UNCHANGED <<mainVars, serverVars, audit>>

(***************************************************************************)
(* SecureServingInfo.Serve of the API server library, and net/http.        *)
(***************************************************************************)
ServerOnly == <<mainVars, signals, audit>>

Connect(c) ==
  /\ Alive /\ listener = "open" /\ conn[c] = "none"
  /\ conn' = [conn EXCEPT ![c] = "queued"]
  /\ UNCHANGED <<ServerOnly, listener, acceptor, shutter, overdue>>

(* Server.Serve, which returns at once after a Shutdown.                   *)
AcceptorStarts ==
  /\ Alive /\ acceptor = "starting"
  /\ IF shutter \in {"draining", "done"}
     THEN acceptor' = "ended" /\ CloseListener
     ELSE acceptor' = "running" /\ UNCHANGED <<listener, conn>>
  /\ UNCHANGED <<ServerOnly, shutter, overdue>>

Accept(c) ==
  /\ Alive /\ acceptor = "running" /\ listener = "open" /\ conn[c] = "queued"
  /\ conn' = [conn EXCEPT ![c] = "active"]
  /\ UNCHANGED <<ServerOnly, listener, acceptor, shutter, overdue>>

(* Serve returns because of Shutdown, or of an error: a panic then, unless *)
(* stopCh is closed.                                                       *)
AcceptorEnds ==
  /\ Alive /\ acceptor = "running" /\ listener = "closed"
  /\ acceptor' = "ended"
  /\ UNCHANGED <<ServerOnly, listener, shutter, overdue, conn>>
AcceptorFails ==
  /\ Alive /\ acceptor = "running" /\ listener = "open"
  /\ UNCHANGED signals
  /\ IF Stopped
     THEN /\ acceptor' = "ended" /\ CloseListener
          /\ UNCHANGED <<mainVars, audit, shutter, overdue>>
     ELSE Exit("panic")

(* Server.Shutdown closes the listener Serve works on, if it does yet.     *)
ShutdownBegins ==
  /\ Alive /\ shutter = "waiting" /\ Stopped /\ shutter' = "draining"
  /\ IF acceptor = "running" THEN CloseListener
                             ELSE UNCHANGED <<listener, conn>>
  /\ UNCHANGED <<ServerOnly, acceptor, overdue>>

(* Bug: draining has no deadline.                                          *)
NoDeadline == FALSE

(* Proxy.serve asks for a drain of 60 s at most.                           *)
ShutdownTimeout == TRUE

Drained == \A c \in Connection : conn[c] # "active"

(* Shutdown returns and waitCh is closed.                                  *)
ShutdownEnds ==
  /\ Alive /\ shutter = "draining" /\ shutter' = "done"
  /\ \/ Drained /\ UNCHANGED overdue
     \/ ShutdownTimeout /\ overdue' = TRUE
  /\ UNCHANGED <<ServerOnly, listener, acceptor, conn>>

(***************************************************************************)
(* The audit backend of the API server library. A blocking one has written *)
(* an event when ProcessEvents returns. A batching one buffers it, drops   *)
(* it when the buffer is full, and after stopCh is closed has its worker   *)
(* close the buffer, write what is there and end.                          *)
(***************************************************************************)
Submitted(events) ==
  LET room == IF audit.worker \in {"none", "running"}
              THEN BufferLimit - Cardinality(audit.buffer) ELSE 0
      Keep(kept) == [audit EXCEPT !.buffer = @ \cup kept,
                                  !.lost = @ \cup (events \ kept)]
  IN  CASE audit.mode = "off" -> {audit}
        [] audit.mode = "blocking" ->
             {[audit EXCEPT !.delivered = @ \cup events]}
        [] audit.mode = "batch" ->
             {Keep(kept) : kept \in
                {k \in SUBSET events : \/ k = events /\ Cardinality(k) <= room
                                       \/ Cardinality(k) = room}}

AuditOnly == <<mainVars, signals, serverVars>>

WorkerCloses ==
  /\ Alive /\ audit.worker = "running" /\ Stopped
  /\ audit' = [audit EXCEPT !.worker = "flushing"]
  /\ UNCHANGED AuditOnly

WorkerWrites ==
  /\ Alive /\ audit.worker \in {"running", "flushing"}
  /\ \E e \in audit.buffer :
       audit' = [audit EXCEPT !.buffer = @ \ {e}, !.delivered = @ \cup {e}]
  /\ UNCHANGED AuditOnly

WorkerEnds ==
  /\ Alive /\ audit.worker = "flushing" /\ audit.buffer = {}
  /\ audit' = [audit EXCEPT !.worker = "gone"]
  /\ UNCHANGED AuditOnly

Worker == WorkerCloses \/ WorkerWrites \/ WorkerEnds

(* A request: Audit.WithRequest reports it when it comes and when it ends; *)
(* WithUnauthorized reports a 401, and other refusals are not reported.    *)
Received(c) ==
  <<c, "received">> \in audit.buffer \cup audit.delivered \cup audit.lost

Report(c) ==
  /\ Alive /\ conn[c] = "active" /\ ~Received(c)
  /\ audit' \in Submitted({<<c, "received">>})
  /\ UNCHANGED AuditOnly

Endings(c) == IF Received(c) THEN {{"complete"}}
              ELSE {{}, {"refused"}, {"received", "complete"}}

Answer(c) ==
  /\ Alive /\ conn[c] = "active"
  /\ conn' = [conn EXCEPT ![c] = "answered"]
  /\ \E kinds \in Endings(c) : audit' \in Submitted({c} \X kinds)
  /\ UNCHANGED <<mainVars, signals, listener, acceptor, shutter, overdue>>

(***************************************************************************)
(* The specification.                                                      *)
(***************************************************************************)
(* The process is gone and nothing happens any more.                       *)
Gone == ~Alive /\ UNCHANGED vars

(* All that neither main nor a request does.                               *)
Surroundings == \/ SendSignal \/ TakeSignal
                \/ AcceptorStarts \/ AcceptorEnds \/ AcceptorFails
                \/ ShutdownBegins \/ ShutdownEnds \/ Worker \/ Gone
                \/ \E c \in Connection : Connect(c)

Next == \/ Main \/ Surroundings
        \/ \E c \in Connection : Accept(c) \/ Report(c) \/ Answer(c)

(* Goroutines are scheduled, timers fire and the backend writes. Nothing   *)
(* is assumed of clients, of requests in progress or of who sends signals. *)
Fairness ==
  /\ WF_vars(Main) /\ WF_vars(TakeSignal) /\ WF_vars(AcceptorStarts)
  /\ WF_vars(AcceptorEnds) /\ WF_vars(ShutdownBegins) /\ WF_vars(ShutdownEnds)
  /\ WF_vars(Worker)

Spec     == Init /\ [][Next]_vars
FairSpec == Spec /\ Fairness
-----------------------------------------------------------------------------
(***************************************************************************)
(* Properties.                                                             *)
(***************************************************************************)
(* The type invariant: every goroutine is at one of its steps, the channel *)
(* of SignalHandler never holds more than it has room for, and the handler *)
(* takes no signal after the fourth (signals.go:12-33).                    *)
TypeOK ==
  /\ main \in StartUp \cup {"wait", "hooks", "gone"}
  /\ code \in {"running", "ok", "error", "panic"}
  /\ hooks \subseteq {"AuditBackend"}
  /\ signals \in [sent: 0..MaxSignals, pending: 0..ChannelSize,
                  taken: 0..ForceAt]
  /\ listener \in {"none", "open", "closed"}
  /\ acceptor \in {"none", "starting", "running", "ended"}
  /\ shutter \in {"none", "waiting", "draining", "done"}
  /\ overdue \in BOOLEAN
  /\ conn \in [Connection -> {"none", "queued", "active", "answered", "cut",
                              "dropped"}]
  /\ audit \in [mode: AuditModes,
                worker: {"none", "running", "flushing", "gone"},
                buffer: SUBSET Event, delivered: SUBSET Event,
                lost: SUBSET Event]

(* An orderly exit leaves no audit event in the buffer: what the backend   *)
(* had taken when the signal came, and while requests were drained, is     *)
(* written before main returns (run.go:130, handlers.go:28).               *)
AuditDrained == code = "ok" => audit.buffer = {}

(* Nobody waits for nobody: while main waits for the server to stop, its   *)
(* acceptor or its Shutdown has a step to take, a request that never ends  *)
(* notwithstanding, and while it waits for the audit hook the backend's    *)
(* worker has (run.go:121-132, proxy.go:212-228, handlers.go:28).          *)
ShutdownNotStuck ==
  Stopped =>
    /\ main = "wait" /\ ~ServerStopped =>
         \/ acceptor = "starting"
         \/ acceptor = "running" /\ listener = "closed"
         \/ shutter = "waiting"
         \/ shutter = "draining" /\ (Drained \/ ShutdownTimeout)
    /\ main = "hooks" /\ "AuditBackend" \in hooks /\ ~AuditShutDown =>
         audit.worker \in {"running", "flushing"}

(* A process that was asked to stop ends, also when it was asked during    *)
(* start-up and when a request in progress never ends: draining has a      *)
(* deadline (proxy.go:222), and the audit hook returns (run.go:121-132).   *)
StopEnds == Stopped ~> ~Alive

(***************************************************************************)
(* The process implements Service.                                         *)
(***************************************************************************)
Stage == CASE ~Alive -> "stopped"
           [] Alive /\ shutter \in {"draining", "done"} -> "draining"
           [] Alive /\ shutter \notin {"draining", "done"}
                    /\ acceptor \in {"running", "ended"} -> "serving"
           [] OTHER -> "starting"

Work == [c \in Connection |-> CASE conn[c] = "active"   -> "taken"
                                [] conn[c] = "answered" -> "replied"
                                [] conn[c] = "cut"      -> "cut"
                                [] OTHER                -> "none"]

Promise ==
  INSTANCE Service WITH
    Patience <- 4, stage <- Stage, asked <- signals.sent, outcome <- code,
    work <- Work

(* Every behaviour of the process is one of Service: a request that was    *)
(* accepted is cut off only by a broken listener, by a fourth signal or by *)
(* the end of the drain's deadline; an error after the first accept never  *)
(* ends the process, and exit code 0 of a process that was not started for *)
(* --help or --version means it was asked to stop                          *)
(* (run.go:33-134, proxy.go:212-228, signals.go:12-33).                    *)
ImplementsService == Promise!Spec
=============================================================================
