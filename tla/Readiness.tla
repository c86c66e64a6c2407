------------------------------ MODULE Readiness ------------------------------
(***************************************************************************)
(* The readiness probe (pkg/probe/probe.go) and the OIDC authenticator it  *)
(* watches. probe.Run starts a goroutine that serves Check on a port of    *)
(* its own; each request for /ready is a call of Check on a goroutine of   *)
(* its own. h.ready is read and written without a lock: a read may miss    *)
(* another goroutine's write, and no write ever clears it.                 *)
(***************************************************************************)
EXTENDS Naturals

CONSTANTS
  Prober,          \* readiness checks that may run at the same time
  MaxProbeFailures \* bound on how often the probe's listener fails

VARIABLES
  oidc,  \* the initialisation oidc.New has started in the background
  probe, \* its listener, and h.ready: set with the first answer ready
  check  \* per prober: its last call of Check

probeVars == <<oidc, probe, check>>

Init ==
  /\ oidc = "none"
  /\ probe = [listener |-> "none", failures |-> 0, ready |-> FALSE]
  /\ check = [p \in Prober |-> [pc |-> "idle", sure |-> FALSE,
                                answer |-> "none"]]

(* oidc.New goes on to ask the issuer for its discovery document until it  *)
(* has one. Keys come with the first token that is verified; if they cannot*)
(* be had then, that token counts as foreign.                              *)
StartOidc == oidc' = "down" /\ UNCHANGED <<probe, check>>

(* Bug: the authenticator starts over when the issuer stops answering.     *)
OidcLosesIssuer ==
  \/ oidc = "down" /\ oidc' = "up" /\ UNCHANGED <<probe, check>>
  \/ oidc = "up" /\ oidc' = "down" /\ UNCHANGED <<probe, check>>

(* The issuer has answered.                                                *)
OidcInitialized == oidc = "down" /\ oidc' = "up" /\ UNCHANGED <<probe, check>>

(* probe.Run.                                                              *)
Run == /\ probe' = [probe EXCEPT !.listener = "starting"]
       /\ UNCHANGED <<oidc, check>>

Listens ==
  /\ probe.listener = "starting"
  /\ probe' = [probe EXCEPT !.listener = "up"]
  /\ UNCHANGED <<oidc, check>>

ListenerFails ==
  /\ probe.listener \in {"starting", "up"}
  /\ probe.failures < MaxProbeFailures
  /\ probe' = [probe EXCEPT !.listener = "asleep", !.failures = @ + 1]
  /\ UNCHANGED <<oidc, check>>

(* Bug: the goroutine returns after an error.                              *)
ReturnsInstead ==
  /\ probe.listener = "asleep"
  /\ probe' = [probe EXCEPT !.listener = "none"]
  /\ UNCHANGED <<oidc, check>>

(* The loop goes on after five seconds.                                    *)
Retries ==
  /\ probe.listener = "asleep"
  /\ probe' = [probe EXCEPT !.listener = "starting"]
  /\ UNCHANGED <<oidc, check>>

(* What AuthenticateToken may say of the fake JWT: never that it is valid. *)
Verdicts == IF oidc = "up" THEN {"rejected", "late"} ELSE {"uninitialized"}

(* Bug: a check that runs into its deadline fails.                         *)
FailingOrLate(verdict) == verdict \in {"uninitialized", "late"}
(* Bug: the error is not looked at.                                        *)
NeverFailing(verdict) == FALSE

(* Check fails for one error only, known by its text.                      *)
Failing(verdict) == verdict = "uninitialized"

Answered(p, sure, answer) ==
  /\ check' = [check EXCEPT ![p] = [pc |-> "idle", sure |-> sure,
                                    answer |-> answer]]
  /\ probe' = [probe EXCEPT !.ready = @ \/ answer = "ready"]

(* Check up to its call of AuthenticateToken. "sure" remembers that ready  *)
(* had been answered before this call.                                     *)
CheckBegins(p) ==
  /\ probe.listener = "up" /\ check[p].pc = "idle"
  /\ \/ probe.ready /\ Answered(p, TRUE, "ready")
     \/ /\ check' = [check EXCEPT ![p] =
                       [pc |-> "asking", sure |-> probe.ready, answer |-> "none"]]
        /\ UNCHANGED probe
  /\ UNCHANGED oidc

CheckEnds(p) ==
  /\ check[p].pc = "asking"
  /\ \E v \in Verdicts :
       Answered(p, check[p].sure, IF Failing(v) THEN "unready" ELSE "ready")
  /\ UNCHANGED oidc

Serves == Listens \/ Retries

Next == \/ OidcInitialized \/ Serves \/ ListenerFails
        \/ \E p \in Prober : CheckBegins(p) \/ CheckEnds(p)

Spec == Init /\ [][Next]_probeVars
-----------------------------------------------------------------------------
(* The type invariant.                                                     *)
TypeOK ==
  /\ oidc \in {"none", "down", "up"}
  /\ probe \in [listener: {"none", "starting", "up", "asleep"},
                failures: 0..MaxProbeFailures, ready: BOOLEAN]
  /\ check \in [Prober -> [pc: {"idle", "asking"}, sure: BOOLEAN,
                           answer: {"none", "ready", "unready"}]]
=============================================================================
