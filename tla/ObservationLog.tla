--------------------------- MODULE ObservationLog ---------------------------
(***************************************************************************)
(* What an engine promises to whoever submits observations, with no queue, *)
(* no owner task and no channel in it: one log that every accepted         *)
(* observation enters at one instant between the call and its return.      *)
(*                                                                         *)
(* An observation is named by its submission, so it is submitted once.  A  *)
(* caller that gets a receipt finds its observation in the log.  A caller  *)
(* that is told the engine stopped will never find it there.  A caller     *)
(* that gave up learns nothing: its observation may still enter the log.   *)
(***************************************************************************)
EXTENDS Sequences, Naturals

CONSTANT Observations

VARIABLES log,      \* the observations in the order they took effect
          outcome,  \* what the submitter of each observation was told
          closed    \* nothing enters the log any more

logVars == <<log, outcome, closed>>

Logged(o) == \E i \in DOMAIN log : log[i] = o

Init ==
  /\ log = <<>>
  /\ outcome = [o \in Observations |-> "unsubmitted"]
  /\ closed = FALSE

Submit(o) ==
  /\ outcome[o] = "unsubmitted"
  /\ outcome' = [outcome EXCEPT ![o] = "pending"]
  /\ UNCHANGED <<log, closed>>

TakeEffect(o) ==
  /\ ~closed
  /\ outcome[o] \in {"pending", "cancelled"}
  /\ ~Logged(o)
  /\ log' = Append(log, o)
  /\ UNCHANGED <<outcome, closed>>

Acknowledge(o) ==
  /\ outcome[o] = "pending"
  /\ Logged(o)
  /\ outcome' = [outcome EXCEPT ![o] = "receipt"]
  /\ UNCHANGED <<log, closed>>

Refuse(o) ==
  /\ closed
  /\ outcome[o] = "pending"
  /\ ~Logged(o)
  /\ outcome' = [outcome EXCEPT ![o] = "stopped"]
  /\ UNCHANGED <<log, closed>>

GiveUp(o) ==
  /\ outcome[o] = "pending"
  /\ outcome' = [outcome EXCEPT ![o] = "cancelled"]
  /\ UNCHANGED <<log, closed>>

Close ==
  /\ ~closed
  /\ closed' = TRUE
  /\ UNCHANGED <<log, outcome>>

Next ==
  \/ \E o \in Observations :
       Submit(o) \/ TakeEffect(o) \/ Acknowledge(o) \/ Refuse(o) \/ GiveUp(o)
  \/ Close

Spec == Init /\ [][Next]_logVars
=============================================================================
