------------------------------- MODULE Gateway -------------------------------
(***************************************************************************)
(* What the proxy promises about one request, without its handlers: a      *)
(* request is refused, let through as the caller, let through as somebody  *)
(* the caller may impersonate, or handed on untouched where the            *)
(* configuration says so. RequestPipeline is shown to implement this.      *)
(*                                                                         *)
(* The API server's rights change while a request is pending. "could"      *)
(* collects what the caller was allowed to claim at some moment of the     *)
(* request; a request that wants more than that is never admitted.         *)
(***************************************************************************)
CONSTANTS
  Request,  \* slots for requests in progress
  Caller,   \* who may ask: records with a name
  Name,     \* the names of callers
  Nobody,   \* the caller that is refused
  Claim,    \* the parts an identity is made of
  Own(_)    \* the claims that make up a caller's own identity

VARIABLES
  passthrough, \* the configuration allows requests to be handed on untouched
  rights,      \* <<caller's name, claim>> pairs the API server allows now
  gate         \* per request: where it stands, who asks, for which claims

gateVars == <<passthrough, rights, gate>>

Gate == [at: {"closed", "pending", "admitted", "untouched"}, caller: Caller,
         wants: SUBSET Claim, could: SUBSET Claim, as: SUBSET Claim]

May(caller) == {c \in Claim : <<caller.name, c>> \in rights}

Init == /\ passthrough \in BOOLEAN
        /\ rights \in SUBSET (Name \X Claim)
        /\ gate = [r \in Request |-> [at |-> "closed", caller |-> Nobody,
                                      wants |-> {}, could |-> {},
                                      as |-> {}]]

(* A caller asks, to be itself (no wants) or to act as the claims it wants.*)
Ask(r) ==
  /\ gate[r].at # "pending"
  /\ gate' = [gate EXCEPT ![r] = gate'[r]]
  /\ gate'[r] \in Gate
  /\ gate'[r].at = "pending" /\ gate'[r].as = {}
  /\ gate'[r].could = May(gate'[r].caller)
  /\ UNCHANGED <<passthrough, rights>>

Admit(r) ==
  /\ gate[r].at = "pending"
  /\ gate[r].caller # Nobody /\ gate[r].wants \subseteq gate[r].could
  /\ gate' = [gate EXCEPT ![r].at = "admitted",
                          ![r].as = IF gate[r].wants = {}
                                    THEN Own(gate[r].caller)
                                    ELSE gate[r].wants]
  /\ UNCHANGED <<passthrough, rights>>

HandOn(r) ==
  /\ gate[r].at = "pending" /\ passthrough
  /\ gate' = [gate EXCEPT ![r].at = "untouched"]
  /\ UNCHANGED <<passthrough, rights>>

Close(r) ==
  /\ gate[r].at # "closed"
  /\ gate' = [gate EXCEPT ![r].at = "closed"]
  /\ UNCHANGED <<passthrough, rights>>

ChangeRights ==
  /\ rights' \in SUBSET (Name \X Claim)
  /\ gate' = [r \in Request |->
                IF gate[r].at = "closed" THEN gate[r]
                ELSE [gate[r] EXCEPT !.could = @ \cup
                        {c \in Claim : <<gate[r].caller.name, c>> \in rights'}]]
  /\ UNCHANGED passthrough

Next == \/ \E r \in Request : Ask(r) \/ Admit(r) \/ HandOn(r) \/ Close(r)
        \/ ChangeRights

Spec == Init /\ [][Next]_gateVars
=============================================================================
