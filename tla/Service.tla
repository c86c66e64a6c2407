------------------------------- MODULE Service -------------------------------
(***************************************************************************)
(* What a server process promises to its clients and its supervisor,       *)
(* without its goroutines: it takes requests only while it serves, ends    *)
(* well only when it was asked to stop and has replied to every request it *)
(* took (or a deadline has passed), and gives up early only before it      *)
(* serves or when it was asked several times. Lifecycle implements it.     *)
(***************************************************************************)
EXTENDS Naturals

CONSTANTS
  Connection, \* clients' connections
  Patience    \* how many stop requests it takes to make the server give up

VARIABLES
  stage,   \* starting, serving, draining, stopped
  asked,   \* how often the supervisor has asked it to stop
  overdue, \* the deadline for draining has passed
  work,    \* per connection: what became of its request
  outcome  \* how the process ended

serviceVars == <<stage, asked, overdue, work, outcome>>

Init == /\ stage = "starting" /\ asked = 0 /\ overdue = FALSE
        /\ work = [c \in Connection |-> "none"] /\ outcome = "running"

AskToStop ==
  /\ stage # "stopped" /\ asked' = asked + 1
  /\ UNCHANGED <<stage, overdue, work, outcome>>

Open == /\ stage = "starting" /\ stage' = "serving"
        /\ UNCHANGED <<asked, overdue, work, outcome>>

Take(c) == /\ stage = "serving" /\ work[c] = "none"
           /\ work' = [work EXCEPT ![c] = "taken"]
           /\ UNCHANGED <<stage, asked, overdue, outcome>>

Reply(c) == /\ stage # "stopped" /\ work[c] = "taken"
            /\ work' = [work EXCEPT ![c] = "replied"]
            /\ UNCHANGED <<stage, asked, overdue, outcome>>

Drain == /\ stage \in {"starting", "serving"} /\ asked > 0
         /\ stage' = "draining"
         /\ UNCHANGED <<asked, overdue, work, outcome>>

Expire == /\ stage = "draining" /\ overdue' = TRUE
          /\ UNCHANGED <<stage, asked, work, outcome>>

Stop(how) ==
  /\ stage' = "stopped" /\ outcome' = how
  /\ work' = [c \in Connection |->
                IF work[c] = "taken" THEN "cut" ELSE work[c]]
  /\ UNCHANGED <<asked, overdue>>

Finish == /\ stage = "draining"
          /\ overdue \/ \A c \in Connection : work[c] # "taken"
          /\ Stop("ok")

GiveUp == /\ stage = "starting" \/ (stage # "stopped" /\ asked >= Patience)
          /\ Stop("error")

(* The listener breaks.                                                    *)
Crash == stage = "serving" /\ Stop("panic")

Next == \/ AskToStop \/ Open \/ Drain \/ Expire \/ Finish \/ GiveUp \/ Crash
        \/ \E c \in Connection : Take(c) \/ Reply(c)

Spec == Init /\ [][Next]_serviceVars
=============================================================================
