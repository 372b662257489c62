------------------------------- MODULE Engine -------------------------------
(***************************************************************************)
(* The live engine of crates/engine/src/runtime.rs: cloneable Ingress      *)
(* values submit observations into one bounded queue, and one Owner task   *)
(* takes them out, reduces each into the world, publishes the snapshot,    *)
(* broadcasts the event and answers the submitter.                         *)
(*                                                                         *)
(* A client is a thread or task that holds at most one Ingress and has at  *)
(* most one call outstanding on it.  An observation stands for one call of *)
(* Ingress::observe, so it is submitted once; the calls are numbered in    *)
(* the order in which they begin.  What an observation says is irrelevant  *)
(* to the queue and is modelled by the world modules.  A snapshot is named *)
(* by its revision: the world after that many reductions.                  *)
(***************************************************************************)
EXTENDS Naturals, Sequences

CONSTANTS Clients,          \* who may hold an Ingress
          Observations,     \* the calls of observe; bounds every behavior
          CommandCapacity,  \* Config::command_capacity
          NoObservation     \* "no call", "no command in hand"

ASSUME CapacityAssumption == CommandCapacity \in Nat \ {0}
ASSUME ObservationsAssumption == Observations \subseteq Nat
ASSUME NoObservationAssumption == NoObservation \notin Observations

VARIABLES ingress,    \* the clients that hold an Ingress
          pc,         \* where each client is inside observe
          call,       \* the observation each client is submitting
          outcome,    \* what each call returned, so far
          commands,   \* the bounded mpsc queue
          phase,      \* where the Owner is in run
          current,    \* the command the Owner has in hand
          reduced,    \* the observations the reducer has consumed, in order
          published,  \* revision of the snapshot in the watch channel
          emitted,    \* revision of the last event broadcast
          replied,    \* the observations whose reply channel holds a receipt
          accepted    \* history: the observations in the order they were queued

callVars == <<ingress, pc, call, outcome>>
ownerVars == <<phase, current, reduced, published, emitted, replied>>
engineVars == <<callVars, commands, ownerVars, accepted>>

Revision == Len(reduced)
InRange(seq, o) == \E i \in 1..Len(seq) : seq[i] = o
Stopped == phase \in {"finished", "dropped"}

-----------------------------------------------------------------------------
Init ==
  /\ ingress \in {{c} : c \in Clients}
  /\ pc = [c \in Clients |-> "idle"]
  /\ call = [c \in Clients |-> NoObservation]
  /\ outcome = [o \in Observations |-> "unsubmitted"]
  /\ commands = <<>>
  /\ phase = "unstarted"
  /\ current = NoObservation
  /\ reduced = <<>>
  /\ published = 0
  /\ emitted = 0
  /\ replied = {}
  /\ accepted = <<>>

(* Channel::ingress, Running::ingress and the derived Clone. *)
CloneIngress(c, d) ==
  /\ c \in ingress
  /\ d \notin ingress
  /\ ingress' = ingress \cup {d}
  /\ UNCHANGED <<pc, call, outcome, commands, ownerVars, accepted>>

(* An Ingress is borrowed for the whole of observe, so none is dropped then. *)
DropIngress(c) ==
  /\ c \in ingress
  /\ pc[c] = "idle"
  /\ ingress' = ingress \ {c}
  /\ UNCHANGED <<pc, call, outcome, commands, ownerVars, accepted>>

Observe(c, o) ==
  /\ c \in ingress
  /\ pc[c] = "idle"
  /\ outcome[o] = "unsubmitted"
  /\ \A p \in Observations : p < o => outcome[p] # "unsubmitted"
  /\ pc' = [pc EXCEPT ![c] = "sending"]
  /\ call' = [call EXCEPT ![c] = o]
  /\ outcome' = [outcome EXCEPT ![o] = "pending"]
  /\ UNCHANGED <<ingress, commands, ownerVars, accepted>>

(* The send finds room in the queue; otherwise the caller waits for it. *)
Enqueue(c) ==
  /\ pc[c] = "sending"
  /\ ~Stopped
  /\ Len(commands) < CommandCapacity
  /\ commands' = Append(commands, call[c])
  /\ accepted' = Append(accepted, call[c])
  /\ pc' = [pc EXCEPT ![c] = "awaiting"]
  /\ UNCHANGED <<ingress, call, outcome, ownerVars>>

(* observe returns to c with the given result. *)
Return(c, result) ==
  /\ outcome' = [outcome EXCEPT ![call[c]] = result]
  /\ pc' = [pc EXCEPT ![c] = "idle"]
  /\ call' = [call EXCEPT ![c] = NoObservation]
  /\ UNCHANGED <<ingress, commands, ownerVars, accepted>>

SendRefused(c) ==
  /\ pc[c] = "sending"
  /\ Stopped
  /\ Return(c, "stopped")

ReceiveReceipt(c) ==
  /\ pc[c] = "awaiting"
  /\ call[c] \in replied
  /\ Return(c, "receipt")

(* The reply sender was dropped with the queue before it was used. *)
ReplyLost(c) ==
  /\ pc[c] = "awaiting"
  /\ Stopped
  /\ call[c] \notin replied
  /\ Return(c, "stopped")

(* The caller's future is dropped.  What it queued stays queued. *)
CancelObserve(c) ==
  /\ pc[c] \in {"sending", "awaiting"}
  /\ Return(c, "cancelled")
-----------------------------------------------------------------------------
(* Channel::spawn, or Channel::owner followed by run. *)
Start ==
  /\ phase = "unstarted"
  /\ phase' = "receiving"
  /\ UNCHANGED <<callVars, commands, current, reduced, published, emitted,
                 replied, accepted>>

(* Mutant: the caller is answered when its command is taken. *)
ReduceAndReply ==
  /\ phase = "receiving"
  /\ commands # <<>>
  /\ current' = Head(commands)
  /\ commands' = Tail(commands)
  /\ reduced' = Append(reduced, Head(commands))
  /\ replied' = replied \cup {Head(commands)}
  /\ phase' = "publishing"
  /\ UNCHANGED <<callVars, published, emitted, accepted>>

(* Mutant: the queue is a stack. *)
ReduceNewest ==
  /\ phase = "receiving"
  /\ commands # <<>>
  /\ current' = commands[Len(commands)]
  /\ commands' = SubSeq(commands, 1, Len(commands) - 1)
  /\ reduced' = Append(reduced, current')
  /\ phase' = "publishing"
  /\ UNCHANGED <<callVars, published, emitted, replied, accepted>>

(* Mutant: the event is broadcast before the snapshot is published. *)
ReduceAndEmit ==
  /\ phase = "receiving"
  /\ commands # <<>>
  /\ current' = Head(commands)
  /\ commands' = Tail(commands)
  /\ reduced' = Append(reduced, Head(commands))
  /\ emitted' = Len(reduced) + 1
  /\ phase' = "publishing"
  /\ UNCHANGED <<callVars, published, replied, accepted>>

(* recv yields a command, freeing its place, and the reducer consumes it. *)
Reduce ==
  /\ phase = "receiving"
  /\ commands # <<>>
  /\ current' = Head(commands)
  /\ commands' = Tail(commands)
  /\ reduced' = Append(reduced, Head(commands))
  /\ phase' = "publishing"
  /\ UNCHANGED <<callVars, published, emitted, replied, accepted>>

Publish ==
  /\ phase = "publishing"
  /\ published' = Revision
  /\ phase' = "emitting"
  /\ UNCHANGED <<callVars, commands, current, reduced, emitted, replied,
                 accepted>>

Emit ==
  /\ phase = "emitting"
  /\ emitted' = Revision
  /\ phase' = "replying"
  /\ UNCHANGED <<callVars, commands, current, reduced, published, replied,
                 accepted>>

(* Sending to a caller that gave up fails, and the failure is ignored. *)
Reply ==
  /\ phase = "replying"
  /\ replied' = replied \cup {o \in {current} : outcome[o] = "pending"}
  /\ current' = NoObservation
  /\ phase' = "receiving"
  /\ UNCHANGED <<callVars, commands, reduced, published, emitted, accepted>>

(* Mutant: an empty queue is taken for the end of the observations. *)
FinishWhenIdle ==
  /\ phase = "receiving"
  /\ commands = <<>>
  /\ phase' = "finished"
  /\ UNCHANGED <<callVars, commands, current, reduced, published, emitted,
                 replied, accepted>>

(* Mutant: an engine that never reduced anything does not notice the end. *)
FinishAfterWork ==
  /\ phase = "receiving"
  /\ commands = <<>>
  /\ ingress = {}
  /\ Revision > 0
  /\ phase' = "finished"
  /\ UNCHANGED <<callVars, commands, current, reduced, published, emitted,
                 replied, accepted>>

(* recv yields nothing only when the queue is empty and no sender is left. *)
Finish ==
  /\ phase = "receiving"
  /\ commands = <<>>
  /\ ingress = {}
  /\ phase' = "finished"
  /\ UNCHANGED <<callVars, commands, current, reduced, published, emitted,
                 replied, accepted>>

(* Mutant: the owner awaits something between publication and reply. *)
DropOwnerAnywhere ==
  /\ ~Stopped
  /\ commands' = <<>>
  /\ current' = NoObservation
  /\ phase' = "dropped"
  /\ UNCHANGED <<callVars, reduced, published, emitted, replied, accepted>>

(* The Owner is dropped unrun, or its task is cancelled at its only await. *)
DropOwner ==
  /\ phase \in {"unstarted", "receiving"}
  /\ commands' = <<>>
  /\ phase' = "dropped"
  /\ UNCHANGED <<callVars, current, reduced, published, emitted, replied,
                 accepted>>

ClientStep(c) ==
  \/ \E d \in Clients : CloneIngress(c, d)
  \/ DropIngress(c)
  \/ \E o \in Observations : Observe(c, o)
  \/ Enqueue(c)
  \/ SendRefused(c)
  \/ ReceiveReceipt(c)
  \/ ReplyLost(c)
  \/ CancelObserve(c)

OwnerStep == Start \/ Reduce \/ Publish \/ Emit \/ Reply \/ Finish \/ DropOwner

Next == OwnerStep \/ \E c \in Clients : ClientStep(c)

(***************************************************************************)
(* Fairness: the executor polls a runnable owner, a send waiting for room  *)
(* gets its turn (tokio's queue is first come first served) and a caller   *)
(* whose answer is there is woken.  Nobody is obliged to submit, to cancel *)
(* or to drop a capability, and nothing obliges a task to be cancelled.    *)
(***************************************************************************)
Fairness ==
  /\ WF_engineVars(Start)
  /\ WF_engineVars(Reduce \/ Publish \/ Emit \/ Reply \/ Finish)
  /\ \A c \in Clients :
       SF_engineVars(Enqueue(c)) /\
       WF_engineVars(SendRefused(c) \/ ReceiveReceipt(c) \/ ReplyLost(c))

Spec == Init /\ [][Next]_engineVars
FairSpec == Spec /\ Fairness
-----------------------------------------------------------------------------
(* Types, and the capacity of the queue. *)
TypeOK ==
  /\ ingress \subseteq Clients
  /\ pc \in [Clients -> {"idle", "sending", "awaiting"}]
  /\ call \in [Clients -> Observations \cup {NoObservation}]
  /\ outcome \in [Observations -> {"unsubmitted", "pending", "receipt",
                                   "stopped", "cancelled"}]
  /\ commands \in Seq(Observations)
  /\ Len(commands) <= CommandCapacity
  /\ phase \in {"unstarted", "receiving", "publishing", "emitting",
                "replying", "finished", "dropped"}
  /\ current \in Observations \cup {NoObservation}
  /\ reduced \in Seq(Observations)
  /\ published \in Nat
  /\ emitted \in Nat
  /\ replied \subseteq Observations
  /\ accepted \in Seq(Observations)

(* A receipt proves that the observation is already in the snapshot every   *)
(* reader can take and in the event stream ("waits until it is reflected in *)
(* snapshots"): whoever acts on a receipt reads its own write.              *)
ReceiptReflected ==
  \A o \in Observations : outcome[o] = "receipt" =>
     \E i \in 1..published : i <= emitted /\ reduced[i] = o

(* A caller told that the engine stopped can rely on its observation having *)
(* had no effect, whatever the owner was doing when it was dropped: this is *)
(* what makes submitting it again elsewhere safe.                           *)
StoppedUnreduced ==
  \A o \in Observations : outcome[o] = "stopped" => ~InRange(reduced, o)

(* Every accepted observation is reduced once, in the order of acceptance,  *)
(* and none is skipped, whether or not its caller is still there ("drains   *)
(* every accepted observation"); only dropping the owner abandons a tail.   *)
AcceptanceOrder ==
  /\ \A i \in 1..Revision : accepted[i] = reduced[i]
  /\ \A i, j \in 1..Revision : reduced[i] = reduced[j] => i = j
  /\ phase # "dropped" => accepted = reduced \o commands

(* As long as somebody holds an Ingress the engine accepts observations:    *)
(* no call is told "stopped" unless the owner itself was dropped.           *)
NoSpuriousStop ==
  \A o \in Observations : outcome[o] = "stopped" => phase = "dropped"

(* Every call of observe returns: backpressure, a full queue, cancelled     *)
(* neighbours and a stopping owner never leave a caller waiting forever;    *)
(* and the owner "finishes after the last Ingress is dropped", drained.     *)
CallsReturn ==
  /\ \A c \in Clients : pc[c] # "idle" ~> pc[c] = "idle"
  /\ ingress = {} ~> Stopped
-----------------------------------------------------------------------------
(* The inductive invariant behind the four properties above.                *)

(* A client in a call holds an Ingress and owns a pending observation.      *)
CallsInv ==
  \A c \in Clients :
    /\ pc[c] = "idle" <=> call[c] = NoObservation
    /\ pc[c] # "idle" => c \in ingress /\ outcome[call[c]] = "pending"
    /\ pc[c] = "sending" => ~InRange(accepted, call[c])
    /\ pc[c] = "awaiting" => InRange(accepted, call[c])
    /\ \A d \in Clients : call[c] = call[d] /\ c # d => pc[c] = "idle"

(* Reduced observations, then the queued ones, in the order of acceptance.  *)
QueueInv ==
  /\ \A i, j \in 1..Len(accepted) : accepted[i] = accepted[j] => i = j
  /\ Revision + Len(commands) <= Len(accepted)
  /\ phase # "dropped" => Revision + Len(commands) = Len(accepted)
  /\ phase = "dropped" => commands = <<>>
  /\ \A i \in 1..Revision : accepted[i] = reduced[i]
  /\ \A i \in 1..Len(commands) : accepted[Revision + i] = commands[i]

(* How far the command in hand has come.                                    *)
PhaseInv ==
  /\ published = IF phase = "publishing" THEN Revision - 1 ELSE Revision
  /\ emitted = IF phase \in {"publishing", "emitting"} THEN Revision - 1
                                                      ELSE Revision
  /\ IF phase \in {"publishing", "emitting", "replying"}
       THEN Revision > 0 /\ current = reduced[Revision]
       ELSE current = NoObservation
  /\ phase = "unstarted" => Revision = 0
  /\ phase = "finished" => ingress = {}

(* Receipts are for reduced observations, and none is forgotten.            *)
AnswerInv ==
  /\ \A o \in Observations :
       /\ outcome[o] = "unsubmitted" => ~InRange(accepted, o)
       /\ outcome[o] = "receipt" => o \in replied
       /\ outcome[o] = "stopped" =>
            phase = "dropped" /\ ~InRange(reduced, o)
       /\ o \in replied => \E i \in 1..Revision : i <= emitted /\ reduced[i] = o
                              /\ (current # NoObservation => i < Revision)
  /\ \A i \in 1..Revision :
       outcome[reduced[i]] = "pending" =>
         reduced[i] \in replied \/ (i = Revision /\ current = reduced[i])

IInv == TypeOK /\ CallsInv /\ QueueInv /\ PhaseInv /\ AnswerInv
-----------------------------------------------------------------------------
(* The engine implements the log: an observation takes effect at the        *)
(* instant its snapshot is published.                                       *)
Log == INSTANCE ObservationLog
         WITH log <- SubSeq(reduced, 1, published),
              closed <- Stopped

ImplementsLog == Log!Spec
=============================================================================
