--------------------------- MODULE LifecycleProofs ---------------------------
(***************************************************************************)
(* Proofs about Lifecycle, for any number of connections, any kinds of     *)
(* audit backend, any length of its buffer and any number of signals.      *)
(***************************************************************************)
EXTENDS Lifecycle, FiniteSetTheorems, TLAPS

-----------------------------------------------------------------------------
(***************************************************************************)
(* The inductive invariant.                                                *)
(***************************************************************************)
(* Every signal taken or pending was sent, and the fourth ends the process.*)
SignalsCounted == /\ signals.taken + signals.pending <= signals.sent
                  /\ Alive => signals.taken < ForceAt

(* main starts the server last, waits for both of its goroutines and goes  *)
(* on when they are through; Shutdown has begun only after a signal, has   *)
(* closed a listener that was in use and, when it is over, nothing is in   *)
(* progress unless its deadline has passed.                                *)
Orderly ==
  /\ Alive <=> code = "running"
  /\ main \in StartUp => acceptor = "none" /\ shutter = "none"
  /\ main = "wait" => acceptor # "none" /\ shutter # "none"
  /\ main = "hooks" => ServerStopped
  /\ shutter \in {"draining", "done"} =>
       Stopped /\ (acceptor = "running" => listener = "closed")
  /\ shutter = "done" => overdue \/ Drained

(* The hook is there once the server runs, and a batching backend's worker *)
(* has been started; no other backend buffers, and the worker leaves       *)
(* nothing behind.                                                         *)
Audited ==
  /\ main \in {"serve", "wait", "hooks"} =>
       "AuditBackend" \in hooks /\ (audit.mode = "batch" => audit.worker # "none")
  /\ audit.mode # "batch" => audit.buffer = {} /\ audit.worker = "none"
  /\ audit.worker = "gone" => audit.buffer = {}

IInv == TypeOK /\ SignalsCounted /\ Orderly /\ Audited /\ AuditDrained

-----------------------------------------------------------------------------
(***************************************************************************)
(* Lemmas about the operators.                                             *)
(***************************************************************************)
(* The steps of RunE, in their order.                                      *)
LEMMA StartSteps ==
  /\ StartUp = {"configure", "bind", "build", "probe", "audit", "serve"}
  /\ After("configure") = "bind" /\ After("bind") = "build"
  /\ After("build") = "probe" /\ After("probe") = "audit"
  /\ After("audit") = "serve" /\ After("serve") = "wait"
<1>1. /\ DOMAIN StartOrder = 1..6 /\ Len(StartOrder) = 6
      /\ StartOrder[1] = "configure" /\ StartOrder[2] = "bind"
      /\ StartOrder[3] = "build" /\ StartOrder[4] = "probe"
      /\ StartOrder[5] = "audit" /\ StartOrder[6] = "serve"
  BY DEF StartOrder
<1>2. DOMAIN StartOrder = {1, 2, 3, 4, 5, 6}
  BY <1>1
<1>3. ASSUME NEW i \in DOMAIN StartOrder
      PROVE  (CHOOSE j \in DOMAIN StartOrder : StartOrder[j] = StartOrder[i]) = i
  <2>1. \A j \in DOMAIN StartOrder : StartOrder[j] = StartOrder[i] => j = i
    BY <1>1, <1>2
  <2> QED
    BY <2>1
<1>4. ASSUME NEW i \in DOMAIN StartOrder
      PROVE  After(StartOrder[i]) = IF i = 6 THEN "wait" ELSE StartOrder[i + 1]
  BY <1>1, <1>3 DEF After
<1> QED
  BY <1>1, <1>2, <1>4 DEF StartUp

(* A request reports finitely many events.                                 *)
LEMMA EventsOf ==
  ASSUME NEW c \in Connection, NEW kinds \in SUBSET {"received", "complete", "refused"}
  PROVE  {c} \X kinds \in SUBSET Event /\ IsFiniteSet({c} \X kinds)
<1>1. IsFiniteSet({"received"})
  BY FS_Singleton
<1>2. IsFiniteSet({"received"} \cup {"complete"})
  BY <1>1, FS_AddElement
<1>3. IsFiniteSet(({"received"} \cup {"complete"}) \cup {"refused"})
  BY <1>2, FS_AddElement
<1>4. kinds \subseteq ({"received"} \cup {"complete"}) \cup {"refused"}
  OBVIOUS
<1>5. IsFiniteSet({c}) /\ IsFiniteSet(kinds)
  BY <1>3, <1>4, FS_Subset, FS_Singleton
<1> QED
  BY <1>5, FS_Product DEF Event

(* What a backend does with the events it is handed: none when there is no *)
(* backend; all are delivered, or buffered, or counted as lost; and a      *)
(* worker that is gone takes no more.                                      *)
LEMMA SubmittedEffect ==
  ASSUME TypeOK, NEW events \in SUBSET Event, IsFiniteSet(events),
         NEW after \in Submitted(events)
  PROVE  /\ after \in [mode: AuditModes,
                        worker: {"none", "running", "flushing", "gone"},
                        buffer: SUBSET Event, delivered: SUBSET Event,
                        lost: SUBSET Event]
         /\ after.mode = audit.mode /\ after.worker = audit.worker
         /\ audit.mode # "batch" => after.buffer = audit.buffer
         /\ audit.mode = "batch" /\ audit.worker = "gone" =>
              after.buffer = audit.buffer
         /\ audit.mode # "off" =>
              after.buffer \cup after.delivered \cup after.lost
                = audit.buffer \cup audit.delivered \cup audit.lost \cup events
         /\ audit.mode = "off" \/ events = {} => after = audit
         /\ audit.buffer \subseteq after.buffer
         /\ audit.delivered \subseteq after.delivered /\ audit.lost \subseteq after.lost
<1>1. audit \in [mode: AuditModes, worker: {"none", "running", "flushing", "gone"},
                 buffer: SUBSET Event, delivered: SUBSET Event, lost: SUBSET Event]
  BY DEF TypeOK
<1>2. audit.mode \in {"off", "blocking", "batch"}
  BY <1>1, LifecycleAssumption
<1>3. CASE audit.mode = "off"
  <2>1. after = audit
    BY <1>3 DEF Submitted
  <2> QED
    BY <1>1, <1>3, <2>1
<1>4. CASE audit.mode = "blocking"
  <2>1. after = [audit EXCEPT !.delivered = @ \cup events]
    BY <1>4 DEF Submitted
  <2> QED
    BY <1>1, <1>4, <2>1
<1>5. CASE audit.mode = "batch"
  <2> DEFINE room == IF audit.worker \in {"none", "running"}
                     THEN BufferLimit - Cardinality(audit.buffer) ELSE 0
             Keep(kept) == [audit EXCEPT !.buffer = @ \cup kept,
                                         !.lost = @ \cup (events \ kept)]
             Fits == {k \in SUBSET events : \/ k = events /\ Cardinality(k) <= room
                                           \/ Cardinality(k) = room}
  <2>0. Submitted(events) = {Keep(kept) : kept \in Fits}
    BY <1>5 DEF Submitted
  <2>1. PICK kept \in SUBSET events :
           /\ after = Keep(kept)
           /\ audit.worker = "gone" => Cardinality(kept) <= 0
    <3>1. PICK kept \in Fits : after = Keep(kept)
      BY <2>0
    <3>2. kept \in SUBSET events /\ (Cardinality(kept) <= room \/ Cardinality(kept) = room)
      BY <3>1
    <3>3. audit.worker = "gone" => room = 0
      OBVIOUS
    <3> HIDE DEF room, Keep, Fits
    <3>4. audit.worker = "gone" => Cardinality(kept) <= 0
      BY <3>2, <3>3
    <3> QED
      BY <3>1, <3>2, <3>4
  <2>2. IsFiniteSet(kept) /\ Cardinality(kept) \in Nat
    BY FS_Subset, FS_CardinalityType
  <2>3. audit.worker = "gone" => kept = {}
    BY <2>1, <2>2, FS_EmptySet
  <2> QED
    BY <1>1, <1>5, <2>1, <2>3
<1> QED
  BY <1>2, <1>3, <1>4, <1>5

-----------------------------------------------------------------------------
(***************************************************************************)
(* Each action keeps the invariant. Exit and CloseListener, which several  *)
(* of them share, first.                                                   *)
(***************************************************************************)
ConnStates == {"none", "queued", "active", "answered", "cut", "dropped"}

LEMMA ExitConns ==
  ASSUME TypeOK, NEW how, Exit(how)
  PROVE  /\ conn' \in [Connection -> ConnStates] /\ Drained'
         /\ \A c \in Connection : conn'[c] = "cut" <=> conn[c] \in {"cut", "active"}
         /\ \A c \in Connection : conn'[c] = "answered" <=> conn[c] = "answered"
<1>1. ASSUME NEW c \in Connection
      PROVE  /\ conn'[c] \in ConnStates /\ conn'[c] # "active"
             /\ conn'[c] = "cut" <=> conn[c] \in {"cut", "active"}
             /\ conn'[c] = "answered" <=> conn[c] = "answered"
  <2>1. conn[c] \in ConnStates
    BY DEF TypeOK, ConnStates
  <2>2. conn'[c] = CASE conn[c] = "queued" -> "dropped"
                     [] conn[c] = "active" -> "cut"
                     [] OTHER -> conn[c]
    BY DEF Exit
  <2> QED
    BY <2>1, <2>2 DEF ConnStates
<1>2. conn' = [c \in Connection |-> conn'[c]]
  BY DEF Exit
<1> QED
  BY <1>1, <1>2 DEF Drained

(* The process may end anywhere, but well only with an empty buffer.       *)
LEMMA ExitKeeps ==
  ASSUME IInv, Alive, NEW how \in {"ok", "error", "panic"}, Exit(how),
         signals' \in [sent: 0..MaxSignals, pending: 0..ChannelSize, taken: 0..ForceAt],
         signals'.taken + signals'.pending <= signals'.sent,
         signals'.taken >= signals.taken,
         how = "ok" => audit.buffer = {}
  PROVE  IInv'
<1>1. TypeOK'
  <2>1. main' = "gone" /\ code' = how /\ listener' = "closed"
        /\ UNCHANGED <<hooks, acceptor, shutter, overdue, audit>>
    BY DEF Exit
  <2> QED
    BY <2>1, ExitConns DEF IInv, TypeOK, ConnStates
<1>2. SignalsCounted'
  BY DEF SignalsCounted, Exit, Alive
<1>3. Orderly'
  <2>1. Stopped => Stopped'
    BY DEF IInv, TypeOK, Stopped, ForceAt
  <2>2. Drained'
    BY ExitConns DEF IInv
  <2> QED
    BY <2>1, <2>2, StartSteps DEF IInv, Orderly, Exit, Alive
<1>4. Audited' /\ AuditDrained'
  BY DEF IInv, Audited, AuditDrained, Exit
<1> QED
  BY <1>1, <1>2, <1>3, <1>4 DEF IInv

LEMMA CloseConns ==
  ASSUME TypeOK, CloseListener
  PROVE  /\ conn' \in [Connection -> ConnStates]
         /\ Drained => Drained'
         /\ \A c \in Connection : /\ conn'[c] = "active" <=> conn[c] = "active"
                                  /\ conn'[c] = "answered" <=> conn[c] = "answered"
                                  /\ conn'[c] = "cut" <=> conn[c] = "cut"
<1>1. ASSUME NEW c \in Connection
      PROVE  conn'[c] = IF conn[c] = "queued" THEN "dropped" ELSE conn[c]
  BY DEF CloseListener
<1>2. conn \in [Connection -> ConnStates] /\ conn' = [c \in Connection |-> conn'[c]]
  BY DEF TypeOK, ConnStates, CloseListener
<1> QED
  BY <1>1, <1>2 DEF Drained, ConnStates

(* The steps of start-up.                                                  *)
LEMMA StartKeeps ==
  ASSUME IInv, Configure \/ Build \/ StartProbe \/ Bind \/ RunAuditor \/ Serve
  PROVE  IInv'
<1> USE StartSteps
<1>1. CASE Configure \/ Build \/ StartProbe \/ Bind
  <2>1. /\ main \in {"configure", "build", "probe", "bind"} /\ main' = After(main)
        /\ listener' \in {listener, "open"}
        /\ UNCHANGED <<code, signals, hooks, acceptor, shutter, overdue, conn, audit>>
    BY <1>1 DEF Configure, Build, StartProbe, Bind, Prepare, Done, serverVars
  <2>2. main' \in StartUp \ {"serve"}
    BY <2>1
  <2>3. TypeOK'
    BY <2>1, <2>2 DEF IInv, TypeOK
  <2>4. SignalsCounted' /\ Orderly'
    BY <2>1, <2>2
    DEF IInv, SignalsCounted, Orderly, Alive, Stopped, ServerStopped, Drained
  <2>5. Audited' /\ AuditDrained'
    BY <2>1, <2>2 DEF IInv, Audited, AuditDrained
  <2> QED
    BY <2>3, <2>4, <2>5 DEF IInv
<1>2. CASE RunAuditor
  <2>1. /\ main = "audit" /\ main' = "serve" /\ hooks' = hooks \cup {"AuditBackend"}
        /\ audit' = [audit EXCEPT !.worker = WorkerRun]
        /\ UNCHANGED <<code, signals, listener, acceptor, shutter, overdue, conn>>
    BY <1>2 DEF RunAuditor, Done, AddedHooks, serverVars
  <2>2. /\ audit' \in [mode: AuditModes, worker: {"none", "running", "flushing", "gone"},
                        buffer: SUBSET Event, delivered: SUBSET Event,
                        lost: SUBSET Event]
        /\ audit'.mode = audit.mode /\ audit'.buffer = audit.buffer
        /\ audit'.worker = IF audit.mode = "batch" THEN "running" ELSE "none"
    BY <2>1 DEF IInv, TypeOK, WorkerRun
  <2>3. TypeOK'
    BY <2>1, <2>2 DEF IInv, TypeOK
  <2>4. SignalsCounted' /\ Orderly'
    BY <2>1 DEF IInv, SignalsCounted, Orderly, Alive, Stopped, ServerStopped, Drained
  <2>5. Audited' /\ AuditDrained'
    BY <2>1, <2>2 DEF IInv, Audited, AuditDrained
  <2> QED
    BY <2>3, <2>4, <2>5 DEF IInv
<1>3. CASE Serve
  <2>1. /\ main = "serve" /\ main' = "wait"
        /\ acceptor' = "starting" /\ shutter' = "waiting"
        /\ UNCHANGED <<code, signals, hooks, listener, overdue, conn, audit>>
    BY <1>3 DEF Serve, Done
  <2>2. TypeOK'
    BY <2>1 DEF IInv, TypeOK
  <2>3. SignalsCounted' /\ Orderly' /\ Audited' /\ AuditDrained'
    BY <2>1 DEF IInv, SignalsCounted, Orderly, Audited, AuditDrained, Alive
  <2> QED
    BY <2>2, <2>3 DEF IInv
<1> QED
  BY <1>1, <1>2, <1>3

(* The rest of RunE.                                                       *)
LEMMA MainKeeps ==
  ASSUME IInv, Main
  PROVE  IInv'
<1>1. CASE StartUpFails
  BY <1>1, ExitKeeps, StartSteps DEF StartUpFails, IInv, TypeOK, SignalsCounted, Alive
<1>2. CASE WaitForServer
  <2>1. /\ main = "wait" /\ main' = "hooks" /\ ServerStopped
        /\ UNCHANGED <<code, signals, hooks, listener, acceptor, shutter, overdue, conn,
                       audit>>
    BY <1>2 DEF WaitForServer, serverVars
  <2>2. TypeOK'
    BY <2>1 DEF IInv, TypeOK
  <2>3. SignalsCounted' /\ Orderly' /\ Audited' /\ AuditDrained'
    BY <2>1, StartSteps
    DEF IInv, SignalsCounted, Orderly, Audited, AuditDrained, Alive, Stopped,
        ServerStopped, Drained
  <2> QED
    BY <2>2, <2>3 DEF IInv
<1>3. CASE RunPreShutdownHooks
  <2>1. main = "hooks" /\ Exit("ok") /\ UNCHANGED signals
        /\ ("AuditBackend" \in hooks => AuditShutDown)
    BY <1>3 DEF RunPreShutdownHooks
  <2>2. audit.buffer = {}
    BY <2>1 DEF IInv, Audited, AuditShutDown
  <2> QED
    BY <2>1, <2>2, ExitKeeps DEF IInv, TypeOK, SignalsCounted, Alive
<1> QED
  BY <1>1, <1>2, <1>3, StartKeeps DEF Main

LEMMA SignalKeeps ==
  ASSUME IInv, SendSignal \/ TakeSignal
  PROVE  IInv'
<1> USE DEF ChannelSize, ForceAt
<1>0. /\ signals \in [sent: 0..MaxSignals, pending: 0..2, taken: 0..4]
      /\ MaxSignals \in Nat /\ signals.taken + signals.pending <= signals.sent
  BY LifecycleAssumption DEF IInv, TypeOK, SignalsCounted
<1>1. CASE SendSignal
  <2>1. /\ signals.sent < MaxSignals
        /\ signals' = [signals EXCEPT !.sent = @ + 1,
                          !.pending = IF @ < ChannelSize THEN @ + 1 ELSE @]
        /\ UNCHANGED <<main, code, hooks, listener, acceptor, shutter, overdue, conn,
                       audit>>
    BY <1>1 DEF SendSignal, mainVars, serverVars
  <2>2. /\ signals' \in [sent: 0..MaxSignals, pending: 0..2, taken: 0..4]
        /\ signals'.taken = signals.taken
        /\ signals'.taken + signals'.pending <= signals'.sent
    <3> DEFINE now == IF signals.pending < 2 THEN signals.pending + 1
                      ELSE signals.pending
    <3>1. signals' = [sent |-> signals.sent + 1, taken |-> signals.taken, pending |-> now]
      BY <1>0, <2>1
    <3>2. /\ signals.sent + 1 \in 0..MaxSignals /\ now \in 0..2
          /\ signals.taken \in 0..4 /\ signals.taken + now <= signals.sent + 1
      <4>1. /\ signals.sent \in 0..MaxSignals /\ signals.pending \in 0..2
            /\ signals.taken \in 0..4
        BY <1>0
      <4> QED
        BY <1>0, <2>1, <4>1
    <3> HIDE DEF now
    <3> QED
      BY <3>1, <3>2
  <2>3. TypeOK'
    BY <2>1, <2>2 DEF IInv, TypeOK
  <2> QED
    BY <2>1, <2>2, <2>3
    DEF IInv, SignalsCounted, Orderly, Audited, AuditDrained, Alive, Stopped,
        ServerStopped, Drained
<1>2. CASE TakeSignal
  <2>1. /\ Alive /\ signals.pending > 0
        /\ signals' = [signals EXCEPT !.pending = @ - 1, !.taken = @ + 1]
        /\ IF signals.taken + 1 >= 4 THEN Exit("error")
           ELSE UNCHANGED <<main, code, hooks, listener, acceptor, shutter, overdue,
                            conn, audit>>
    BY <1>2 DEF TakeSignal, mainVars, serverVars
  <2>2. /\ signals' \in [sent: 0..MaxSignals, pending: 0..2, taken: 0..4]
        /\ signals'.taken = signals.taken + 1
        /\ signals'.taken + signals'.pending <= signals'.sent
    <3>1. signals' = [sent |-> signals.sent, pending |-> signals.pending - 1,
                      taken |-> signals.taken + 1]
      BY <1>0, <2>1
    <3>2. /\ signals.sent \in 0..MaxSignals /\ signals.pending \in 0..2
          /\ signals.taken \in 0..4 /\ signals.taken < 4
      BY <1>0, <2>1 DEF IInv, SignalsCounted
    <3> QED
      BY <1>0, <2>1, <3>1, <3>2
  <2>3. CASE signals.taken + 1 >= 4
    BY <1>0, <2>1, <2>2, <2>3, ExitKeeps
  <2>4. CASE ~(signals.taken + 1 >= 4)
    <3>1. TypeOK'
      BY <2>1, <2>2, <2>4 DEF IInv, TypeOK
    <3>2. SignalsCounted' /\ (Stopped => Stopped')
      BY <1>0, <2>1, <2>2, <2>4 DEF IInv, SignalsCounted, Alive, Stopped
    <3> QED
      BY <2>1, <2>4, <3>1, <3>2
      DEF IInv, Orderly, Audited, AuditDrained, Alive, ServerStopped, Drained
  <2> QED
    BY <2>3, <2>4
<1> QED
  BY <1>1, <1>2

(* What follows once a step of the server's goroutines is known to leave   *)
(* main, the signals and the audit backend alone.                          *)
LEMMA ServerOnlyKeeps ==
  ASSUME IInv, UNCHANGED <<main, code, hooks, signals, audit>>,
         listener' \in {"none", "open", "closed"},
         acceptor' \in {"none", "starting", "running", "ended"},
         shutter' \in {"none", "waiting", "draining", "done"},
         overdue' \in BOOLEAN, conn' \in [Connection -> ConnStates], Orderly'
  PROVE  IInv'
<1>1. TypeOK'
  BY DEF IInv, TypeOK, ConnStates
<1>2. SignalsCounted' /\ Audited' /\ AuditDrained'
  BY DEF IInv, SignalsCounted, Audited, AuditDrained, Alive
<1> QED
  BY <1>1, <1>2 DEF IInv

LEMMA ConnectKeeps ==
  ASSUME IInv, NEW c \in Connection, Connect(c) \/ Accept(c)
  PROVE  IInv'
<1>1. /\ conn \in [Connection -> ConnStates] /\ main # "gone" /\ listener = "open"
      /\ conn' = [conn EXCEPT ![c] = conn'[c]] /\ conn'[c] \in {"queued", "active"}
      /\ conn'[c] = "active" => acceptor = "running"
      /\ UNCHANGED <<main, code, hooks, signals, audit, listener, acceptor, shutter,
                     overdue>>
  BY DEF IInv, TypeOK, ConnStates, Connect, Accept, Alive, ServerOnly, mainVars
<1>2. conn' \in [Connection -> ConnStates]
  BY <1>1 DEF ConnStates
<1>3. Orderly'
  <2>1. shutter = "done" /\ Drained => Drained'
    BY <1>1 DEF IInv, Orderly, Drained
  <2> QED
    BY <1>1, <2>1 DEF IInv, Orderly, Alive, Stopped, ServerStopped
<1> QED
  BY <1>1, <1>2, <1>3, ServerOnlyKeeps DEF IInv, TypeOK

LEMMA AcceptorKeeps ==
  ASSUME IInv, AcceptorStarts \/ AcceptorEnds \/ AcceptorFails
  PROVE  IInv'
<1>1. CASE AcceptorFails /\ ~Stopped
  BY <1>1, ExitKeeps DEF AcceptorFails, IInv, TypeOK, SignalsCounted, Alive
<1>2. CASE ~(AcceptorFails /\ ~Stopped)
  <2>1. /\ UNCHANGED <<main, code, hooks, signals, audit, shutter, overdue>>
        /\ \/ acceptor' = "ended" /\ CloseListener
           \/ /\ acceptor' = "ended" \/ shutter \notin {"draining", "done"}
              /\ acceptor' \in {"running", "ended"} /\ UNCHANGED <<listener, conn>>
        /\ acceptor \in {"starting", "running"}
    BY <1>2 DEF AcceptorStarts, AcceptorEnds, AcceptorFails, ServerOnly, mainVars
  <2>2. /\ conn' \in [Connection -> ConnStates] /\ listener' \in {listener, "closed"}
        /\ acceptor' \in {"running", "ended"}
    BY <2>1, CloseConns DEF IInv, TypeOK, ConnStates, CloseListener
  <2>3. Drained => Drained'
    BY <2>1, CloseConns DEF IInv, Drained
  <2>4. Orderly'
    BY <2>1, <2>3 DEF IInv, Orderly, Alive, Stopped, ServerStopped
  <2> QED
    BY <2>1, <2>2, <2>4, ServerOnlyKeeps DEF IInv, TypeOK
<1> QED
  BY <1>1, <1>2

LEMMA ShutdownKeeps ==
  ASSUME IInv, ShutdownBegins \/ ShutdownEnds
  PROVE  IInv'
<1>1. CASE ShutdownBegins
  <2>1. /\ Stopped /\ shutter = "waiting" /\ shutter' = "draining"
        /\ UNCHANGED <<main, code, hooks, signals, audit, acceptor, overdue>>
        /\ IF acceptor = "running" THEN CloseListener ELSE UNCHANGED <<listener, conn>>
    BY <1>1 DEF ShutdownBegins, ServerOnly, mainVars
  <2>2. conn' \in [Connection -> ConnStates] /\ listener' \in {listener, "closed"}
    BY <2>1, CloseConns DEF IInv, TypeOK, ConnStates, CloseListener
  <2>3. Orderly'
    BY <2>1 DEF IInv, Orderly, Alive, Stopped, ServerStopped, CloseListener
  <2> QED
    BY <2>1, <2>2, <2>3, ServerOnlyKeeps DEF IInv, TypeOK
<1>2. CASE ShutdownEnds
  <2>1. /\ shutter = "draining" /\ shutter' = "done"
        /\ (Drained /\ UNCHANGED overdue) \/ overdue' = TRUE
        /\ UNCHANGED <<main, code, hooks, signals, audit, acceptor, listener, conn>>
    BY <1>2 DEF ShutdownEnds, ServerOnly, mainVars
  <2>2. overdue' \in BOOLEAN /\ conn' \in [Connection -> ConnStates]
    BY <2>1 DEF IInv, TypeOK, ConnStates
  <2>3. overdue' \/ Drained'
    BY <2>1 DEF Drained
  <2>4. Orderly'
    BY <2>1, <2>3 DEF IInv, Orderly, Alive, Stopped, ServerStopped
  <2> QED
    BY <2>1, <2>2, <2>4, ServerOnlyKeeps DEF IInv, TypeOK
<1> QED
  BY <1>1, <1>2

(* What follows once a step is known to touch the audit backend alone.     *)
LEMMA AuditOnlyKeeps ==
  ASSUME IInv, Alive, UNCHANGED <<main, code, hooks, signals>>, TypeOK', Orderly',
         Audited'
  PROVE  IInv'
<1>1. SignalsCounted' /\ AuditDrained'
  BY DEF IInv, SignalsCounted, Orderly, AuditDrained, Alive
<1> QED
  BY <1>1 DEF IInv

LEMMA WorkerKeeps ==
  ASSUME IInv, Worker
  PROVE  IInv'
<1> DEFINE Backend == [mode: AuditModes, worker: {"none", "running", "flushing", "gone"},
                       buffer: SUBSET Event, delivered: SUBSET Event, lost: SUBSET Event]
<1>1. /\ Alive /\ audit \in Backend /\ audit.worker \in {"running", "flushing"}
      /\ UNCHANGED <<main, code, hooks, signals, listener, acceptor, shutter, overdue, conn>>
  BY DEF IInv, TypeOK, Worker, WorkerCloses, WorkerWrites, WorkerEnds, AuditOnly, mainVars,
         serverVars
<1>2. audit' \in Backend /\ audit'.mode = audit.mode
      /\ (audit'.worker = "gone" => audit'.buffer = {}) /\ audit'.worker # "none"
  <2>1. CASE WorkerCloses \/ WorkerEnds
    BY <1>1, <2>1 DEF WorkerCloses, WorkerEnds
  <2>2. CASE WorkerWrites
    <3>1. PICK e \in audit.buffer :
            audit' = [audit EXCEPT !.buffer = @ \ {e}, !.delivered = @ \cup {e}]
      BY <2>2 DEF WorkerWrites
    <3>2. /\ audit.buffer \ {e} \in SUBSET Event
          /\ audit.delivered \cup {e} \in SUBSET Event
      BY <1>1
    <3> QED
      BY <1>1, <3>1, <3>2
  <2> QED
    BY <2>1, <2>2 DEF Worker
<1>3. TypeOK'
  BY <1>1, <1>2 DEF IInv, TypeOK
<1>4. Orderly' /\ Audited'
  BY <1>1, <1>2 DEF IInv, Orderly, Audited, Alive, Stopped, ServerStopped, Drained
<1> QED
  BY <1>1, <1>3, <1>4, AuditOnlyKeeps

LEMMA RequestKeeps ==
  ASSUME IInv, NEW c \in Connection, Report(c) \/ Answer(c)
  PROVE  IInv'
<1>1. /\ Alive /\ conn \in [Connection -> ConnStates]
      /\ conn' \in {conn, [conn EXCEPT ![c] = "answered"]}
      /\ UNCHANGED <<main, code, hooks, signals, listener, acceptor, shutter, overdue>>
  BY DEF IInv, TypeOK, ConnStates, Report, Answer, AuditOnly, mainVars, serverVars
<1>2. PICK kinds \in SUBSET {"received", "complete", "refused"} :
        audit' \in Submitted({c} \X kinds)
  <2>1. CASE Report(c)
    <3>1. {<<c, "received">>} = {c} \X {"received"}
      OBVIOUS
    <3> QED
      BY <2>1, <3>1 DEF Report
  <2>2. CASE Answer(c)
    BY <2>2 DEF Answer, Endings
  <2> QED
    BY <2>1, <2>2
<1>3. {c} \X kinds \in SUBSET Event /\ IsFiniteSet({c} \X kinds)
  BY EventsOf
<1>4. TypeOK'
  BY <1>1, <1>2, <1>3, SubmittedEffect DEF IInv, TypeOK, ConnStates
<1>5. Orderly'
  <2>1. Drained => Drained'
    BY <1>1 DEF Drained
  <2> QED
    BY <1>1, <2>1 DEF IInv, Orderly, Alive, Stopped, ServerStopped
<1>6. Audited'
  <2>1. /\ audit'.mode = audit.mode /\ audit'.worker = audit.worker
        /\ audit.mode # "batch" \/ audit.worker = "gone" => audit'.buffer = audit.buffer
    BY <1>2, <1>3, SubmittedEffect DEF IInv
  <2> QED
    BY <1>1, <2>1 DEF IInv, Audited
<1> QED
  BY <1>1, <1>4, <1>5, <1>6, AuditOnlyKeeps

-----------------------------------------------------------------------------
(***************************************************************************)
(* The invariant is inductive.                                             *)
(***************************************************************************)
LEMMA InitIInv == Init => IInv
<1> SUFFICES ASSUME Init PROVE IInv
  OBVIOUS
<1>1. overdue \in BOOLEAN
  BY Zenon DEF Init
<1>2. /\ signals = [sent |-> 0, pending |-> 0, taken |-> 0]
      /\ signals \in [sent: 0..MaxSignals, pending: 0..ChannelSize, taken: 0..ForceAt]
  BY LifecycleAssumption DEF Init, ChannelSize, ForceAt
<1>3. /\ audit \in [mode: AuditModes, worker: {"none", "running", "flushing", "gone"},
                     buffer: SUBSET Event, delivered: SUBSET Event, lost: SUBSET Event]
      /\ audit.worker = "none" /\ audit.buffer = {}
  BY DEF Init, NewAudit
<1>4. TypeOK
  BY <1>1, <1>2, <1>3, StartSteps DEF Init, TypeOK
<1>5. SignalsCounted
  BY <1>2 DEF SignalsCounted, ForceAt
<1> QED
  BY <1>3, <1>4, <1>5 DEF Init, IInv, Orderly, Audited, AuditDrained, Alive

LEMMA NextIInv == IInv /\ [Next]_vars => IInv'
<1> SUFFICES ASSUME IInv, [Next]_vars PROVE IInv'
  OBVIOUS
<1>1. CASE Main
  BY <1>1, MainKeeps
<1>2. CASE SendSignal \/ TakeSignal
  BY <1>2, SignalKeeps
<1>3. CASE AcceptorStarts \/ AcceptorEnds \/ AcceptorFails
  BY <1>3, AcceptorKeeps
<1>4. CASE ShutdownBegins \/ ShutdownEnds
  BY <1>4, ShutdownKeeps
<1>5. CASE Worker
  BY <1>5, WorkerKeeps
<1>6. CASE \E c \in Connection : Connect(c) \/ Accept(c)
  BY <1>6, ConnectKeeps
<1>7. CASE \E c \in Connection : Report(c) \/ Answer(c)
  BY <1>7, RequestKeeps
<1>8. CASE UNCHANGED vars
  <2>1. UNCHANGED <<main, code, hooks, signals, listener, acceptor, shutter, overdue, conn,
                    audit>>
    BY <1>8 DEF vars, mainVars, serverVars
  <2>2. TypeOK'
    BY <2>1 DEF IInv, TypeOK
  <2> QED
    BY <2>1, <2>2
    DEF IInv, SignalsCounted, Orderly, Audited, AuditDrained, Alive, Stopped,
        ServerStopped, Drained
<1> QED
  BY <1>1, <1>2, <1>3, <1>4, <1>5, <1>6, <1>7, <1>8 DEF Next, Surroundings, Gone

LEMMA Invariant == Spec => []IInv
  BY InitIInv, NextIInv, PTL DEF Spec

-----------------------------------------------------------------------------
(***************************************************************************)
(* The process implements Service.                                         *)
(***************************************************************************)
WorkStates == {"taken", "replied", "cut", "none"}

LEMMA StageIs ==
  /\ Stage \in {"stopped", "draining", "serving", "starting"}
  /\ Stage = "stopped" <=> ~Alive
  /\ Stage = "draining" <=> Alive /\ shutter \in {"draining", "done"}
  /\ Stage = "serving" <=> /\ Alive /\ shutter \notin {"draining", "done"}
                           /\ acceptor \in {"running", "ended"}
  BY DEF Stage

LEMMA WorkIs ==
  /\ Work \in [Connection -> WorkStates]
  /\ \A c \in Connection :
       /\ Work[c] \in {"taken", "replied", "cut", "none"}
       /\ Work[c] = "taken" <=> conn[c] = "active"
       /\ Work[c] = "replied" <=> conn[c] = "answered"
       /\ Work[c] = "cut" <=> conn[c] = "cut"
  BY DEF Work, WorkStates

(* The primed versions, for the state after a step.                        *)
LEMMA StageIsNext ==
  /\ Stage' \in {"stopped", "draining", "serving", "starting"}
  /\ Stage' = "stopped" <=> ~Alive'
  /\ Stage' = "draining" <=> Alive' /\ shutter' \in {"draining", "done"}
  /\ Stage' = "serving" <=> /\ Alive' /\ shutter' \notin {"draining", "done"}
                            /\ acceptor' \in {"running", "ended"}
  BY DEF Stage

LEMMA WorkIsNext ==
  /\ Work' \in [Connection -> WorkStates]
  /\ \A c \in Connection :
       /\ Work'[c] \in {"taken", "replied", "cut", "none"}
       /\ Work'[c] = "taken" <=> conn'[c] = "active"
       /\ Work'[c] = "replied" <=> conn'[c] = "answered"
       /\ Work'[c] = "cut" <=> conn'[c] = "cut"
  BY DEF Work, WorkStates

(* Work does not tell which connections are queued, dropped or unopened.   *)
LEMMA WorkSame ==
  ASSUME \A c \in Connection : /\ conn'[c] = "active" <=> conn[c] = "active"
                               /\ conn'[c] = "answered" <=> conn[c] = "answered"
                               /\ conn'[c] = "cut" <=> conn[c] = "cut"
  PROVE  Work' = Work
<1>1. \A c \in Connection : Work'[c] = Work[c]
  BY WorkIs, WorkIsNext
<1>2. Work \in [Connection -> WorkStates] /\ Work' \in [Connection -> WorkStates]
  BY WorkIs, WorkIsNext
<1> QED
  BY <1>1, <1>2

(* A step of one connection's request.                                     *)
LEMMA WorkMoves ==
  ASSUME TypeOK, NEW c \in Connection, NEW to \in {"active", "answered"},
         conn' = [conn EXCEPT ![c] = to]
  PROVE  Work' = [Work EXCEPT ![c] = IF to = "active" THEN "taken" ELSE "replied"]
<1>1. \A d \in Connection : conn'[d] = IF d = c THEN to ELSE conn[d]
  BY DEF TypeOK
<1>2. \A d \in Connection :
        Work'[d] = IF d = c THEN (IF to = "active" THEN "taken" ELSE "replied") ELSE Work[d]
  BY <1>1, WorkIs, WorkIsNext
<1>3. Work \in [Connection -> WorkStates] /\ Work' \in [Connection -> WorkStates]
  BY WorkIs, WorkIsNext
<1> QED
  BY <1>2, <1>3

(* Exit is Service's Stop.                                                 *)
LEMMA ExitStops ==
  ASSUME TypeOK, NEW how, Exit(how), signals'.sent = signals.sent
  PROVE  Promise!Stop(how)
<1>1. \A c \in Connection :
        Work'[c] = IF Work[c] = "taken" THEN "cut" ELSE Work[c]
  BY ExitConns, WorkIs, WorkIsNext DEF Drained
<1>2. Work' = [c \in Connection |-> IF Work[c] = "taken" THEN "cut" ELSE Work[c]]
  BY <1>1, WorkIsNext
<1>3. Stage' = "stopped" /\ code' = how /\ overdue' = overdue
  BY StageIsNext DEF Exit, Alive
<1> QED
  BY <1>2, <1>3 DEF Promise!Stop

LEMMA StepImplements ==
  ASSUME IInv, [Next]_vars
  PROVE  [Promise!Next]_(Promise!serviceVars)
<1> USE DEF Promise!serviceVars
<1>0. TypeOK /\ (conn' = conn => Work' = Work)
  BY WorkSame DEF IInv
<1>1. CASE Configure \/ Build \/ StartProbe \/ Bind \/ RunAuditor \/ Serve
  <2>1. /\ UNCHANGED <<code, signals, overdue, conn>> /\ Alive /\ Alive'
        /\ shutter = "none" /\ acceptor = "none"
        /\ shutter' \in {"none", "waiting"} /\ acceptor' \in {"none", "starting"}
    BY <1>1, StartSteps
    DEF IInv, Orderly, Configure, Build, StartProbe, Bind, RunAuditor, Serve, Prepare,
        Done, serverVars, Alive
  <2>2. Stage' = Stage
    BY <2>1, StageIs, StageIsNext
  <2> QED
    BY <2>1, <2>2, WorkSame
<1>2. CASE StartUpFails
  <2>1. Exit("error") /\ signals' = signals /\ main \in StartUp
    BY <1>2 DEF StartUpFails
  <2>2. Stage = "starting"
    BY <2>1, StartSteps, StageIs DEF IInv, Orderly, Alive
  <2> QED
    BY <1>0, <2>1, <2>2, ExitStops DEF Promise!GiveUp, Promise!Next
<1>3. CASE WaitForServer
  <2>1. UNCHANGED <<code, signals, overdue, conn, shutter, acceptor>> /\ Alive /\ Alive'
    BY <1>3 DEF WaitForServer, serverVars, Alive
  <2> QED
    BY <2>1, WorkSame, StageIs, StageIsNext
<1>4. CASE RunPreShutdownHooks
  <2>1. Exit("ok") /\ signals' = signals /\ main = "hooks" /\ shutter = "done"
    BY <1>4 DEF RunPreShutdownHooks, IInv, Orderly, ServerStopped
  <2>2. Stage = "draining"
    BY <2>1, StageIs DEF Alive
  <2>3. overdue \/ \A c \in Connection : Work[c] # "taken"
    BY <2>1, WorkIs DEF IInv, Orderly, Drained
  <2> QED
    BY <1>0, <2>1, <2>2, <2>3, ExitStops DEF Promise!Finish, Promise!Next
<1>5. CASE SendSignal
  <2>1. /\ UNCHANGED <<main, code, overdue, conn, shutter, acceptor>> /\ Alive
        /\ signals'.sent = signals.sent + 1
    BY <1>0, <1>5 DEF SendSignal, mainVars, serverVars, TypeOK
  <2>2. Stage' = Stage /\ Stage # "stopped"
    BY <2>1, StageIs, StageIsNext DEF Alive
  <2> QED
    BY <2>1, <2>2, WorkSame DEF Promise!AskToStop, Promise!Next
<1>6. CASE TakeSignal
  <2>1. /\ Alive /\ signals'.sent = signals.sent /\ signals.pending > 0
        /\ IF signals.taken + 1 >= 4 THEN Exit("error")
           ELSE UNCHANGED <<main, code, overdue, conn, shutter, acceptor>>
    BY <1>0, <1>6 DEF TakeSignal, mainVars, serverVars, TypeOK, ForceAt
  <2>2. CASE signals.taken + 1 >= 4
    <3>1. signals.sent >= 4
      <4>1. /\ signals.sent \in Nat /\ signals.pending \in Nat /\ signals.taken \in Nat
        BY <1>0, LifecycleAssumption DEF TypeOK, ChannelSize, ForceAt
      <4> QED
        BY <2>1, <2>2, <4>1 DEF IInv, SignalsCounted
    <3> QED
      BY <1>0, <2>1, <2>2, <3>1, ExitStops, StageIs DEF Promise!GiveUp, Promise!Next
  <2>3. CASE ~(signals.taken + 1 >= 4)
    BY <2>1, <2>3, WorkSame, StageIs, StageIsNext DEF Alive
  <2> QED
    BY <2>2, <2>3
<1>7. CASE AcceptorStarts
  <2>1. /\ Alive /\ acceptor = "starting"
        /\ UNCHANGED <<main, code, signals, shutter, overdue>>
    BY <1>7 DEF AcceptorStarts, ServerOnly, mainVars
  <2>2. CASE shutter \in {"draining", "done"}
    <3>1. CloseListener
      BY <1>7, <2>2 DEF AcceptorStarts
    <3> QED
      BY <1>0, <2>1, <2>2, <3>1, CloseConns, WorkSame, StageIs, StageIsNext DEF Alive
  <2>3. CASE shutter \notin {"draining", "done"}
    <3>1. acceptor' = "running" /\ conn' = conn
      BY <1>7, <2>3 DEF AcceptorStarts
    <3>2. Stage = "starting" /\ Stage' = "serving"
      BY <2>1, <2>3, <3>1, StageIs, StageIsNext DEF Alive
    <3> QED
      BY <2>1, <3>1, <3>2, WorkSame DEF Promise!Open, Promise!Next
  <2> QED
    BY <2>2, <2>3
<1>8. CASE AcceptorEnds
  <2>1. /\ UNCHANGED <<main, code, signals, shutter, overdue, conn>>
        /\ acceptor = "running" /\ acceptor' = "ended"
    BY <1>8 DEF AcceptorEnds, ServerOnly, mainVars
  <2> QED
    BY <2>1, WorkSame, StageIs, StageIsNext DEF Alive
<1>9. CASE AcceptorFails
  <2>1. CASE Stopped
    <3>1. /\ UNCHANGED <<main, code, signals, shutter, overdue>> /\ CloseListener
          /\ acceptor = "running" /\ acceptor' = "ended"
      BY <1>9, <2>1 DEF AcceptorFails, mainVars
    <3> QED
      BY <1>0, <3>1, CloseConns, WorkSame, StageIs, StageIsNext DEF Alive
  <2>2. CASE ~Stopped
    <3>1. Alive /\ acceptor = "running" /\ signals' = signals /\ Exit("panic")
      BY <1>9, <2>2 DEF AcceptorFails
    <3>2. Stage = "serving"
      BY <2>2, <3>1, StageIs DEF IInv, Orderly
    <3> QED
      BY <1>0, <3>1, <3>2, ExitStops DEF Promise!Crash, Promise!Next
  <2> QED
    BY <2>1, <2>2
<1>10. CASE ShutdownBegins
  <2>1. /\ Alive /\ shutter = "waiting" /\ Stopped /\ shutter' = "draining"
        /\ UNCHANGED <<main, code, signals, overdue>>
        /\ CloseListener \/ conn' = conn
    BY <1>10 DEF ShutdownBegins, ServerOnly, mainVars
  <2>2. signals.sent > 0
    <3>1. signals.sent \in Nat /\ signals.pending \in Nat /\ signals.taken \in Nat
      BY <1>0, LifecycleAssumption DEF TypeOK, ChannelSize, ForceAt
    <3> QED
      BY <2>1, <3>1 DEF IInv, SignalsCounted, Stopped
  <2>3. Stage \in {"starting", "serving"} /\ Stage' = "draining"
    BY <2>1, StageIs, StageIsNext DEF Alive
  <2>4. Work' = Work
    BY <1>0, <2>1, CloseConns, WorkSame
  <2> QED
    BY <2>1, <2>2, <2>3, <2>4 DEF Promise!Drain, Promise!Next
<1>11. CASE ShutdownEnds
  <2>1. /\ Alive /\ shutter = "draining" /\ shutter' = "done"
        /\ UNCHANGED <<main, code, signals, acceptor, conn>>
        /\ overdue' = overdue \/ overdue' = TRUE
    BY <1>11 DEF ShutdownEnds, ServerOnly, mainVars
  <2>2. Stage = "draining" /\ Stage' = "draining" /\ Work' = Work
    BY <2>1, WorkSame, StageIs, StageIsNext DEF Alive
  <2> QED
    BY <2>1, <2>2 DEF Promise!Expire, Promise!Next
<1>12. CASE Worker \/ (\E c \in Connection : Report(c)) \/ UNCHANGED vars
  <2>1. UNCHANGED <<main, code, signals, shutter, acceptor, overdue, conn>>
    BY <1>12 DEF Worker, WorkerCloses, WorkerWrites, WorkerEnds, Report, AuditOnly, vars,
                 mainVars, serverVars
  <2> QED
    BY <2>1, WorkSame, StageIs, StageIsNext DEF Alive
<1>13. CASE \E c \in Connection : Connect(c)
  <2>1. PICK c \in Connection : Connect(c)
    BY <1>13
  <2>2. /\ UNCHANGED <<main, code, signals, shutter, acceptor, overdue>>
        /\ conn[c] = "none" /\ conn' = [conn EXCEPT ![c] = "queued"]
    BY <2>1 DEF Connect, ServerOnly, mainVars
  <2>3. Work' = Work
    BY <1>0, <2>2, WorkSame DEF TypeOK
  <2> QED
    BY <2>2, <2>3, StageIs, StageIsNext DEF Alive
<1>14. CASE \E c \in Connection : Accept(c)
  <2>1. PICK c \in Connection : Accept(c)
    BY <1>14
  <2>2. /\ UNCHANGED <<main, code, signals, shutter, acceptor, overdue>>
        /\ Alive /\ acceptor = "running" /\ listener = "open" /\ conn[c] = "queued"
        /\ conn' = [conn EXCEPT ![c] = "active"]
    BY <2>1 DEF Accept, ServerOnly, mainVars
  <2>3. Stage = "serving" /\ Stage' = Stage
    BY <2>2, StageIs, StageIsNext DEF IInv, Orderly, Alive
  <2>4. Work[c] = "none" /\ Work' = [Work EXCEPT ![c] = "taken"]
    BY <1>0, <2>2, WorkIs, WorkMoves
  <2>5. Promise!Take(c)
    BY <2>2, <2>3, <2>4 DEF Promise!Take
  <2> QED
    BY <2>5 DEF Promise!Next
<1>15. CASE \E c \in Connection : Answer(c)
  <2>1. PICK c \in Connection : Answer(c)
    BY <1>15
  <2>2. /\ UNCHANGED <<main, code, signals, shutter, acceptor, overdue>>
        /\ Alive /\ conn[c] = "active" /\ conn' = [conn EXCEPT ![c] = "answered"]
    BY <2>1 DEF Answer, mainVars
  <2>3. Stage # "stopped" /\ Stage' = Stage
    BY <2>2, StageIs, StageIsNext DEF Alive
  <2>4. Work[c] = "taken" /\ Work' = [Work EXCEPT ![c] = "replied"]
    BY <1>0, <2>2, WorkIs, WorkMoves
  <2>5. Promise!Reply(c)
    BY <2>2, <2>3, <2>4 DEF Promise!Reply
  <2> QED
    BY <2>5 DEF Promise!Next
<1> QED
  BY <1>1, <1>2, <1>3, <1>4, <1>5, <1>6, <1>7, <1>8, <1>9, <1>10, <1>11, <1>12, <1>13,
     <1>14, <1>15 DEF Next, Main, Surroundings, Gone

-----------------------------------------------------------------------------
(***************************************************************************)
(* Theorems.                                                               *)
(***************************************************************************)
(* Every goroutine is at one of its steps, the channel of SignalHandler    *)
(* holds at most two signals, and no more than four are ever taken         *)
(* (signals.go:12-33).                                                     *)
THEOREM TypeCorrect == Spec => []TypeOK
<1>1. IInv => TypeOK
  BY DEF IInv
<1> QED
  BY <1>1, Invariant, PTL

(* However the worker, the requests, the drain and the signals interleave, *)
(* a process that exits with 0 has written every event its audit backend   *)
(* took (RunPreShutdownHooks, run.go:130).                                 *)
THEOREM NothingBuffered == Spec => []AuditDrained
<1>1. IInv => AuditDrained
  BY DEF IInv
<1> QED
  BY <1>1, Invariant, PTL

(* A stopping process never comes to a standstill: of the goroutines main  *)
(* waits for one can go on, however the signals came and whatever requests *)
(* and the audit backend are at (run.go:121-132, proxy.go:212-228).        *)
THEOREM NoStandstill == Spec => []ShutdownNotStuck
<1>1. ASSUME IInv, Stopped, main = "wait", ~ServerStopped
      PROVE  \/ acceptor = "starting"
             \/ acceptor = "running" /\ listener = "closed"
             \/ shutter = "waiting"
             \/ shutter = "draining" /\ (Drained \/ ShutdownTimeout)
  <2>1. /\ acceptor \in {"starting", "running", "ended"}
        /\ shutter \in {"waiting", "draining", "done"}
    BY <1>1 DEF IInv, TypeOK, Orderly
  <2>2. shutter = "done" /\ acceptor = "running" => listener = "closed"
    BY <1>1 DEF IInv, Orderly
  <2>3. CASE shutter = "done"
    BY <1>1, <2>1, <2>2, <2>3 DEF ServerStopped
  <2>4. CASE shutter # "done"
    BY <2>1, <2>4 DEF ShutdownTimeout
  <2> QED
    BY <2>3, <2>4
<1>2. ASSUME IInv, main = "hooks", ~AuditShutDown
      PROVE  audit.worker \in {"running", "flushing"}
  <2>1. audit.worker \in {"none", "running", "flushing", "gone"}
    BY <1>2 DEF IInv, TypeOK
  <2> QED
    BY <1>2, <2>1 DEF IInv, Audited, AuditShutDown
<1>3. IInv => ShutdownNotStuck
  BY <1>1, <1>2 DEF ShutdownNotStuck
<1> QED
  BY <1>3, Invariant, PTL

(* The process implements Service: it cuts a request off only for a broken *)
(* listener, a fourth signal or the drain's deadline, gives up on its own  *)
(* only before it serves, and exits with 0 only when it was asked to.      *)
THEOREM Implementation == Spec => ImplementsService
<1>1. Init => Promise!Init
  <2> SUFFICES ASSUME Init PROVE Promise!Init
    OBVIOUS
  <2>1. Stage = "starting" /\ signals.sent = 0 /\ overdue = FALSE /\ code = "running"
    BY StageIs DEF Init, Alive
  <2>2. Work = [c \in Connection |-> "none"]
    BY WorkIs DEF Init
  <2> QED
    BY <2>1, <2>2 DEF Promise!Init
<1>2. IInv /\ [Next]_vars => [Promise!Next]_(Promise!serviceVars)
  BY StepImplements
<1> QED
  BY <1>1, <1>2, Invariant, PTL DEF Spec, ImplementsService, Promise!Spec
=============================================================================
