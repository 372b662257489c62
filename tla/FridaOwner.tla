----------------------------- MODULE FridaOwner -----------------------------
(***************************************************************************)
(* The attachment of crates/adapter-frida/src/attachment.rs on top of its  *)
(* agent: scripts ask for actions through Control::perform, and one thread *)
(* takes the commands in order and makes one blocking call of the agent at *)
(* a time.                                                                 *)
(***************************************************************************)
EXTENDS AgentTransport, FiniteSets

CONSTANTS Shutdown,  \* Command::Shutdown
          MaxActions \* bound on the actions asked for in a behavior

ASSUME ShutdownAssumption == Shutdown \notin Calls \cup {NoCall}

VARIABLES outcome,   \* what Control::perform answered for each call
          commands,  \* the unbounded channel to the owner thread
          owner,     \* where the thread is in run
          inHand,    \* the action it is performing
          stopping,  \* a shutdown was requested
          attached   \* the client process is there

ownerVars == <<outcome, commands, owner, inHand, stopping, attached>>
vars == <<agentVars, ownerVars>>

Init ==
  /\ AgentInit
  /\ outcome = [c \in Calls |-> "unsent"]
  /\ commands = <<>>
  /\ owner = "receiving"
  /\ inHand = NoCall
  /\ stopping = FALSE
  /\ attached = TRUE
-----------------------------------------------------------------------------
Asked == {c \in Calls : outcome[c] # "unsent"}

(* Control::perform: the command is sent, or the thread has gone. *)
Perform(c) ==
  /\ outcome[c] = "unsent" /\ Cardinality(Asked) < MaxActions
  /\ IF owner = "stopped"
       THEN /\ outcome' = [outcome EXCEPT ![c] = "stopped"]
            /\ UNCHANGED commands
       ELSE /\ outcome' = [outcome EXCEPT ![c] = "waiting"]
            /\ commands' = Append(commands, c)
  /\ UNCHANGED <<agentVars, owner, inHand, stopping, attached>>

(* DISPATCH_TIMEOUT elapses.  Only the waiting is given up. *)
DispatchTimeout(c) ==
  /\ outcome[c] = "waiting"
  /\ outcome' = [outcome EXCEPT ![c] = "timeout"]
  /\ UNCHANGED <<agentVars, commands, owner, inHand, stopping, attached>>

(* Driver::shutdown, or the drop of a Driver. *)
RequestShutdown ==
  /\ ~stopping
  /\ stopping' = TRUE
  /\ commands' = IF owner = "stopped" THEN commands
                                      ELSE Append(commands, Shutdown)
  /\ UNCHANGED <<agentVars, outcome, owner, inHand, attached>>
-----------------------------------------------------------------------------
(* requires_outgoing_session. *)
RequiresSession(c) == Kind[c] # "key"

(* What is told to whoever still waits for c. *)
Answered(c, answer) ==
  [outcome EXCEPT ![c] = IF @ = "waiting" THEN answer ELSE @]

(* The loop takes a command; ensure_action_ready looks for a session. *)
TakeAction ==
  /\ owner = "receiving"
  /\ commands # <<>> /\ Head(commands) # Shutdown
  /\ inHand' = Head(commands)
  /\ commands' = Tail(commands)
  /\ owner' = IF RequiresSession(Head(commands)) /\ ~SessionReady
                THEN "priming"
                ELSE "ready"
  /\ UNCHANGED <<agentVars, outcome, stopping, attached>>

(* One of the refreshes brought traffic. *)
Primed ==
  /\ owner = "priming" /\ attached
  /\ SessionReady
  /\ owner' = "ready"
  /\ UNCHANGED <<agentVars, outcome, commands, inHand, stopping, attached>>

(* The thread is done with the action in its hand. *)
Finish(answer) ==
  /\ outcome' = Answered(inHand, answer)
  /\ owner' = "receiving"
  /\ inHand' = NoCall
  /\ UNCHANGED <<agentVars, commands, stopping, attached>>

(* None did, three times over three seconds. *)
SessionUnavailable == owner = "priming" /\ Finish("refused")

(* perform: the call reaches the agent and the thread waits for its promise.*)
CallAgent ==
  /\ owner = "ready" /\ attached
  /\ Export(inHand)
  /\ owner' = "calling"
  /\ UNCHANGED <<outcome, commands, inHand, stopping, attached>>

CallReturns ==
  /\ owner = "calling" /\ attached
  /\ posting = NoCall
  /\ \/ settled[inHand] = "resolved" /\ Finish("receipt")
     \/ settled[inHand] = "rejected" /\ Finish("refused")

(* A call of a script that is gone may fail; src says nothing of when.      *)
CallBroken ==
  /\ owner \in {"priming", "ready", "calling"} /\ ~attached
  /\ Finish("refused")

(* The thread leaves the loop and drops the commands it has not taken.      *)
Stop ==
  /\ owner = "receiving"
  /\ \/ ~attached
     \/ commands # <<>> /\ Head(commands) = Shutdown
  /\ owner' = "stopped"
  /\ commands' = <<>>
  /\ outcome' = [c \in Calls |->
                   IF outcome[c] = "waiting" THEN "stopped" ELSE outcome[c]]
  /\ AgentGone
  /\ UNCHANGED <<inHand, stopping, attached>>

OwnerStep ==
  \/ TakeAction \/ Primed \/ SessionUnavailable \/ CallAgent \/ CallReturns
  \/ CallBroken \/ Stop

-----------------------------------------------------------------------------
(* The agent runs on while the client does and the script is loaded. *)
AgentDoes(step) ==
  /\ attached /\ owner # "stopped"
  /\ step
  /\ UNCHANGED ownerVars

(* The client process ends. *)
Detach ==
  /\ attached
  /\ attached' = FALSE
  /\ AgentGone
  /\ UNCHANGED <<outcome, commands, owner, inHand, stopping>>

ScriptStep ==
  \/ \E c \in Calls : Perform(c) \/ DispatchTimeout(c)
  \/ RequestShutdown

Next == ScriptStep \/ OwnerStep \/ AgentDoes(AgentStep) \/ Detach

(***************************************************************************)
(* Fairness: the owner thread runs, the native functions return and timers *)
(* fire.  No script is obliged to act, no server to answer a dialog, no    *)
(* client to log in, to log out or to end; nor to drain the queue: while a *)
(* dialog of the client is open, the wake does not reach its network poll  *)
(* ("KNOWN DEFECT" at requestNetworkPoll).                                 *)
(***************************************************************************)
Fairness ==
  /\ WF_vars(OwnerStep /\ attached)
  /\ WF_vars(AgentDoes(WakePosted \/ WakeFails))
  /\ WF_vars(AgentDoes(FlushEnd \/ FlushFails))
  /\ WF_vars(AgentDoes(SettleElapses))

Spec == Init /\ [][Next]_vars
FairSpec == Spec /\ Fairness

(* A client that always comes to drain the queue. *)
DrainingSpec == FairSpec /\ WF_vars(AgentDoes(FlushBegin))
-----------------------------------------------------------------------------
Bodies == [call : Calls, index : Nat, state : {"ready", "waiting", "settling"}]

AgentTypeOK ==
  /\ closing \in BOOLEAN /\ session \in BOOLEAN
  /\ queue \in Seq(Bodies) /\ Len(queue) <= MaxPending
  /\ sending \in Bodies \cup {NoBody}
  /\ posting \in Calls \cup {NoCall}
  /\ settled \in [Calls -> {"none", "pending", "resolved", "rejected"}]
  /\ travel \in {"none", "staged", "observed"}
  /\ link \in {"up", "down"} /\ menu \in {"closed", "received", "open"}
  /\ era \in 0..MaxEra
  /\ eraOf \in [Calls -> 0..MaxEra]
  /\ sent \in [Calls -> Seq(Nat)]
  /\ answers \in [Calls -> Nat]
  /\ staged \in Calls \cup {NoCall}
  /\ lost \subseteq Calls

(* Types, and the limit of the agent's queue. *)
TypeOK ==
  /\ AgentTypeOK
  /\ outcome \in [Calls -> {"unsent", "waiting", "receipt", "refused", "timeout",
                            "stopped"}]
  /\ commands \in Seq(Calls \cup {Shutdown})
  /\ owner \in {"receiving", "priming", "ready", "calling", "stopped"}
  /\ inHand \in Calls \cup {NoCall}
  /\ stopping \in BOOLEAN /\ attached \in BOOLEAN

(* The client takes the bodies of a call in their order and none of them    *)
(* twice, whether by the queue or by an attack of its own; a staged travel  *)
(* selection is submitted at most once.                                     *)
InOrderOnce ==
  \A c \in Calls :
    /\ Len(sent[c]) <= Size[c]
    /\ sent[c] = [i \in 1..Len(sent[c]) |-> i]

(* "the receipt is produced only after the client-owned network thread has  *)
(* accepted every body in the transaction."                                 *)
ReceiptMeansSent ==
  \A c \in Calls :
    outcome[c] = "receipt" /\ Kind[c] \in Queued \cup {"travel"} =>
      Len(sent[c]) = Size[c]

(* Every queued body belongs to the call the owner is blocked in, and so    *)
(* does the body inside the native sender, unless the wake of its batch     *)
(* failed meanwhile: an action whose outcome the owner has decided leaves   *)
(* nothing in the queue, and can still send one body at most, the first of  *)
(* its batch, of which its caller was told that it was refused.             *)
NothingLeftBehind ==
  /\ \A i \in DOMAIN queue :
       /\ owner = "calling" /\ queue[i].call = inHand
       /\ settled[inHand] = "pending"
  /\ sending # NoBody =>
       \/ owner = "calling" /\ sending.call = inHand
       \/ settled[sending.call] = "rejected" /\ sending.index = 1

(* "do not advance response-dependent selections before the server dialog": *)
(* a selection becomes ready only by a dialog that the server opened after  *)
(* the client had taken everything before it.                               *)
DialogsArePaced ==
  \A i \in DOMAIN queue :
    queue[i].state # "waiting" =>
      \/ queue[i].index = 1
      \/ answers[queue[i].call] = queue[i].index - 1

(* A body is only ever sent in the session in which it was accepted: no     *)
(* login, logout or close of the socket lies in between.  And a travel      *)
(* selection staged in one login is never met by a menu of another: it is   *)
(* forgotten at the latest when the client logs in again.                   *)
NothingCrossesALogin ==
  /\ \A i \in DOMAIN queue : eraOf[queue[i].call] = era
  /\ staged # NoCall =>
       travel # "none" /\ (eraOf[staged] = era \/ link = "down")

(* The client leaves the head of the queue where it is, ready to be sent.   *)
Starving == link = "up" /\ ~closing /\ Idle /\ Head0.state = "ready"

(* The owner gets an answer for every action, whatever becomes of the       *)
(* session, and a shutdown ends it, with three exceptions: the call in hand *)
(* is a dialog (which waits for the server), it was dropped by the close of *)
(* the socket, or the client starves the queue for good, as it does behind  *)
(* a modal dialog (agent.js, "KNOWN DEFECT").  No other delay of wakes,     *)
(* sends and timers, no logout and no refusal holds the owner forever.      *)
OwnerIsNotStuck ==
  /\ (owner = "calling" /\ Kind[inHand] # "dialog")
       ~> (owner # "calling" \/ ~attached \/ inHand \in lost \/ []Starving)
  /\ stopping ~> \/ owner = "stopped" \/ ~attached
                 \/ inHand \in lost
                 \/ inHand # NoCall /\ Kind[inHand] = "dialog"
                 \/ []Starving

-----------------------------------------------------------------------------
(* A promise of the comments that the code breaks.                           *)
(* ActionError::DispatchTimeout: "Reporting a timeout lets policy retry or   *)
(* abandon the transaction instead of silently stopping the whole workflow." *)
(* A close of the socket drops the bodies without settling their promise,    *)
(* and the owner never takes another command, Shutdown included, however     *)
(* readily the client drains the queue.                                      *)
RetryIsTaken ==
  \A c \in Calls :
    outcome[c] = "timeout" ~> owner \in {"receiving", "stopped"} \/ ~attached
=============================================================================
