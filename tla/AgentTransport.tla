--------------------------- MODULE AgentTransport ---------------------------
(***************************************************************************)
(* The injected agent of crates/adapter-frida/src/agent.js: the queue of   *)
(* plaintext bodies that waits for the client's own network thread, the    *)
(* session object the hooks capture, and the staged travel selection.      *)
(*                                                                         *)
(* A call is one action the attachment asks the agent for, and settled is  *)
(* the promise the agent answers it with.  JavaScript callbacks exclude    *)
(* each other except while one is inside a native function, so a send and  *)
(* the wake that follows a new batch are two steps each.  The hooks of the *)
(* client's network thread (poll, outgoing, incoming) never overlap a send,*)
(* nor calls and timers a wake, for each kind has one thread of its own;   *)
(* the closing of the socket overlaps either.                              *)
(*                                                                         *)
(* The client is external: menu and link are its window and its connection.*)
(* The last seven variables are history.                                   *)
(***************************************************************************)
EXTENDS Naturals, Sequences

CONSTANTS Calls,
          Kind,        \* of each call, see Kinds
          Size,        \* how many bodies each call submits
          MaxPending,  \* MAX_PENDING_PLAINTEXT_BODIES
          MaxEra,      \* bound on the logins, logouts and closes
          NoCall

(* A key posts window messages only, an attack may be overtaken by one of   *)
(* the client's own, a dialog waits for the server between its bodies.      *)
Queued == {"plain", "attack", "dialog"}
Kinds == Queued \cup {"key", "travel", "travelOnMenu"}

ASSUME NoCallAssumption == NoCall \notin Calls
ASSUME KindAssumption == Kind \in [Calls -> Kinds]
ASSUME SizeAssumption == Size \in [Calls -> Nat \ {0}]
ASSUME OneBodyAssumption == \A c \in Calls : Kind[c] # "dialog" => Size[c] = 1
ASSUME BoundsAssumption == MaxPending \in Nat /\ MaxEra \in Nat

VARIABLES closing,    \* sessionClosing
          session,    \* outgoingSession # null
          queue,      \* pendingPlaintextBodies
          sending,    \* the body inside cryptAndSend
          posting,    \* the call whose wake is inside PostMessageW
          settled,    \* what has become of each call's promise
          travel,     \* pendingTravelSelection: nothing, or menuObserved
          link,       \* the client's socket
          menu,       \* the client's travel menu
          era,        \* how many logins, logouts and closes there were
          eraOf,      \* the era in which each call was accepted
          sent,       \* the bodies of each call the client has taken, in order
          answers,    \* how many bodies were sent at the last dialog response
          staged,     \* the call whose travel selection is pending
          lost        \* the calls whose bodies a close has dropped

endings == <<era, lost>>
historyVars == <<endings, eraOf, sent, answers, staged>>
clientVars == <<link, menu>>
agentVars == <<closing, session, queue, sending, posting, settled, travel,
               clientVars, historyVars>>

NoBody == [call |-> NoCall, index |-> 0, state |-> "none"]
Head0 == IF queue = <<>> THEN NoBody ELSE Head(queue)

(* Mutant: the first selection does not wait for the dialog to open. *)
BatchUnpaced(c) ==
  [i \in 1..Size[c] |->
     [call |-> c, index |-> i, state |-> IF i < 3 THEN "ready" ELSE "waiting"]]

(* The bodies of a batch as they are enqueued. *)
Batch(c) ==
  [i \in 1..Size[c] |->
     [call |-> c, index |-> i, state |-> IF i = 1 THEN "ready" ELSE "waiting"]]

(* The queue without the bodies of c. *)
Without(c) ==
  LET kept[n \in 0..Len(queue)] ==
        IF n = 0 THEN <<>>
        ELSE IF queue[n].call = c THEN kept[n - 1]
        ELSE Append(kept[n - 1], queue[n])
  IN kept[Len(queue)]

Idle == sending = NoBody

AgentInit ==
  /\ closing = FALSE /\ session = FALSE
  /\ queue = <<>> /\ sending = NoBody /\ posting = NoCall
  /\ settled = [c \in Calls |-> "none"]
  /\ travel = "none" /\ staged = NoCall
  /\ link = "up" /\ menu = "closed"
  /\ era = 0 /\ eraOf = [c \in Calls |-> 0]
  /\ sent = [c \in Calls |-> <<>>]
  /\ answers = [c \in Calls |-> 0]
  /\ lost = {}

(* The script is unloaded, or the client process ends: its memory goes, and *)
(* what was sent and answered remains so.                                   *)
AgentGone ==
  /\ closing' = FALSE /\ session' = FALSE
  /\ queue' = <<>> /\ sending' = NoBody /\ posting' = NoCall
  /\ travel' = "none" /\ staged' = NoCall
  /\ link' = "up" /\ menu' = "closed"
  /\ era' = 0 /\ eraOf' = [c \in Calls |-> 0]
  /\ answers' = [c \in Calls |-> 0]
  /\ UNCHANGED <<settled, sent, lost>>

(* clientSessionReady. *)
SessionReady == ~closing /\ session
-----------------------------------------------------------------------------
(* The limit of the queue. *)
Room(c) == Len(queue) + Size[c] <= MaxPending

(* enqueuePlaintextBodies, up to its wake, which lets other callbacks in. *)
Enqueue(c) ==
  /\ Kind[c] \in Queued
  /\ SessionReady /\ Room(c)
  /\ queue' = queue \o Batch(c)
  /\ settled' = [settled EXCEPT ![c] = "pending"]
  /\ posting' = c
  /\ eraOf' = [eraOf EXCEPT ![c] = era]
  /\ UNCHANGED <<closing, session, sending, travel, clientVars, endings, sent,
                 answers, staged>>

EnqueueRefused(c) ==
  /\ Kind[c] \in Queued
  /\ ~(SessionReady /\ Room(c))
  /\ settled' = [settled EXCEPT ![c] = "rejected"]
  /\ UNCHANGED <<closing, session, queue, sending, posting, travel, clientVars,
                 historyVars>>

WakePosted ==
  /\ posting # NoCall
  /\ posting' = NoCall
  /\ UNCHANGED <<closing, session, queue, sending, settled, travel, clientVars,
                 historyVars>>

(* Mutant: the promise is rejected and the bodies stay. *)
RejectOnly(c) ==
  /\ UNCHANGED queue
  /\ settled' = [settled EXCEPT ![c] = IF @ = "pending" THEN "rejected" ELSE @]

(* failPendingPlaintextBatch: a batch that is settled already stays so. *)
Reject(c) ==
  /\ queue' = Without(c)
  /\ settled' = [settled EXCEPT ![c] = IF @ = "pending" THEN "rejected" ELSE @]

WakeFails ==
  /\ posting # NoCall
  /\ Reject(posting)
  /\ posting' = NoCall
  /\ UNCHANGED <<closing, session, sending, travel, clientVars, historyVars>>

(* beginClientStep and the other calls that only post keys.  A step resolves *)
(* whether or not its key is posted; a refresh, a cast and a use of an item *)
(* throw if the window does not take their first key, the last two also     *)
(* while another of their kind is in flight.                                *)
PressKey(c) ==
  /\ Kind[c] = "key"
  /\ \E result \in {"resolved", "rejected"} :
       settled' = [settled EXCEPT ![c] = result]
  /\ UNCHANGED <<closing, session, queue, sending, posting, travel, clientVars,
                 historyVars>>
-----------------------------------------------------------------------------
(* flushPlaintextBatch, at the end of a network poll or of one of the       *)
(* client's own sends: the head leaves the queue before it is sent.         *)
FlushBegin ==
  /\ link = "up"
  /\ ~closing
  /\ sending = NoBody
  /\ Head0.state = "ready"
  /\ sending' = Head(queue)
  /\ queue' = Tail(queue)
  /\ session' = TRUE
  /\ UNCHANGED <<closing, posting, settled, travel, clientVars, historyVars>>

(* Mutant: the first body completes its batch. *)
TakenOnce(body) ==
  /\ sent' = [sent EXCEPT ![body.call] = Append(@, body.index)]
  /\ settled' = [settled EXCEPT ![body.call] =
                   IF @ = "pending" THEN "resolved" ELSE @]

(* The client has taken a body; completePendingPlaintextBody. *)
Taken(body) ==
  /\ sent' = [sent EXCEPT ![body.call] = Append(@, body.index)]
  /\ settled' =
       [settled EXCEPT ![body.call] =
          IF @ = "pending" /\ Len(sent'[body.call]) = Size[body.call]
            THEN "resolved"
            ELSE @]

FlushEnd ==
  /\ sending # NoBody
  /\ Taken(sending)
  /\ sending' = NoBody
  /\ UNCHANGED <<closing, session, queue, posting, travel, clientVars, endings,
                 eraOf, answers, staged>>

(* The native sender throws. *)
FlushFails ==
  /\ sending # NoBody
  /\ Reject(sending.call)
  /\ sending' = NoBody
  /\ UNCHANGED <<closing, session, posting, travel, clientVars, historyVars>>

(* The timer of schedulePlaintextBody. *)
SettleElapses ==
  /\ Head0.state = "settling"
  /\ posting = NoCall
  /\ ~closing
  /\ queue' = [queue EXCEPT ![1].state = "ready"]
  /\ UNCHANGED <<closing, session, sending, posting, settled, travel,
                 clientVars, historyVars>>
-----------------------------------------------------------------------------
(* Mutant: the batches are dropped and nobody is told. *)
DropAll == queue' = <<>> /\ UNCHANGED settled

(* failAllPendingPlaintextBatches. *)
FailAll ==
  /\ queue' = <<>>
  /\ settled' =
       [c \in Calls |-> IF \E i \in DOMAIN queue : queue[i].call = c
                          THEN "rejected"
                          ELSE settled[c]]

(* Mutant: a login carries the queue over. *)
LoginKeepsQueue ==
  /\ Idle /\ era < MaxEra
  /\ era' = era + 1
  /\ closing' = FALSE
  /\ session' = TRUE
  /\ travel' = "none" /\ staged' = NoCall
  /\ link' = "up"
  /\ UNCHANGED <<queue, settled, sending, posting, menu, eraOf, sent, answers,
                 lost>>

(* The outgoing hook, for each kind of body the client sends by itself. *)
NativeLogin ==
  /\ Idle /\ era < MaxEra
  /\ era' = era + 1
  /\ closing' = FALSE
  /\ session' = TRUE
  /\ FailAll
  /\ travel' = "none" /\ staged' = NoCall
  /\ link' = "up"
  /\ UNCHANGED <<sending, posting, menu, eraOf, sent, answers, lost>>

NativeLogout ==
  /\ Idle /\ link = "up" /\ era < MaxEra
  /\ era' = era + 1
  /\ closing' = TRUE
  /\ session' = FALSE
  /\ FailAll
  /\ travel' = "none" /\ staged' = NoCall
  /\ UNCHANGED <<sending, posting, clientVars, eraOf, sent, answers, lost>>

(* Mutant: the queued attack is counted and also kept. *)
NativeAttackKept ==
  /\ Idle /\ link = "up"
  /\ session' = (session \/ ~closing)
  /\ IF Head0 # NoBody /\ Kind[Head0.call] = "attack"
       THEN Taken(Head(queue))
       ELSE UNCHANGED <<settled, sent>>
  /\ UNCHANGED <<closing, queue, sending, posting, travel, clientVars, endings,
                 eraOf, answers, staged>>

(* satisfyPendingNativeBody: the client's own attack does for a queued one. *)
NativeAttack ==
  /\ Idle /\ link = "up"
  /\ session' = (session \/ ~closing)
  /\ IF Head0 # NoBody /\ Kind[Head0.call] = "attack"
       THEN queue' = Tail(queue) /\ Taken(Head(queue))
       ELSE UNCHANGED <<queue, settled, sent>>
  /\ UNCHANGED <<closing, sending, posting, travel, clientVars, endings, eraOf,
                 answers, staged>>

NativeOther ==
  /\ Idle /\ link = "up"
  /\ session' = (session \/ ~closing)
  /\ UNCHANGED <<closing, queue, sending, posting, settled, travel, clientVars,
                 historyVars>>
-----------------------------------------------------------------------------
(* The incoming hook: any body at all establishes the session. *)
Established ==
  /\ Idle /\ link = "up"
  /\ session' = TRUE
  /\ closing' = FALSE

IncomingOther ==
  /\ Established
  /\ UNCHANGED <<queue, sending, posting, settled, travel, clientVars,
                 historyVars>>

(* observePendingTravelMenu. *)
IncomingMenu ==
  /\ Established
  /\ travel' = IF travel = "none" THEN "none" ELSE "observed"
  /\ menu' = "received"
  /\ UNCHANGED <<queue, sending, posting, settled, link, historyVars>>

(* observeDialogResponse: the server opens a dialog with the entity. *)
IncomingDialog ==
  /\ Established
  /\ queue' = IF Head0.state = "waiting"
                THEN [queue EXCEPT ![1].state = "settling"]
                ELSE queue
  /\ answers' = [c \in Calls |->
                   IF settled[c] = "pending" THEN Len(sent[c]) ELSE answers[c]]
  /\ UNCHANGED <<sending, posting, settled, travel, clientVars, endings, eraOf,
                 sent, staged>>

(* The socket closes.  reportTransportClosed, if the socket is the one the  *)
(* agent knows: the queue is dropped, and its promises with it.             *)
TransportClosed ==
  /\ link = "up" /\ era < MaxEra
  /\ link' = "down"
  /\ era' = era + 1
  /\ IF SessionReady
       THEN /\ closing' = TRUE /\ session' = FALSE
            /\ queue' = <<>>
            /\ lost' = lost \cup {queue[i].call : i \in DOMAIN queue}
       ELSE UNCHANGED <<closing, session, queue, lost>>
  /\ UNCHANGED <<sending, posting, settled, travel, menu, eraOf, sent, answers,
                 staged>>
-----------------------------------------------------------------------------
(* invokeClientTravel: what is staged is forgotten; the call succeeds only  *)
(* with a selector that is open and has the row.                            *)
TravelNow(c, hasRow) ==
  LET submits == menu = "open" /\ SessionReady /\ hasRow
  IN /\ Kind[c] = "travel"
     /\ travel' = "none" /\ staged' = NoCall
     /\ settled' =
          [settled EXCEPT ![c] = IF submits THEN "resolved" ELSE "rejected"]
     /\ sent' = IF submits THEN [sent EXCEPT ![c] = Append(@, 1)] ELSE sent
     /\ eraOf' = [eraOf EXCEPT ![c] = era]
     /\ UNCHANGED <<closing, session, queue, sending, posting, clientVars, endings,
                    answers>>

(* stageClientTravelOnMenu: one selection at a time. *)
TravelOnMenu(c) ==
  /\ Kind[c] = "travelOnMenu"
  /\ IF SessionReady /\ travel = "none"
       THEN /\ travel' = "staged" /\ staged' = c
            /\ settled' = [settled EXCEPT ![c] = "resolved"]
            /\ eraOf' = [eraOf EXCEPT ![c] = era]
       ELSE /\ settled' = [settled EXCEPT ![c] = "rejected"]
            /\ UNCHANGED <<travel, staged, eraOf>>
  /\ UNCHANGED <<closing, session, queue, sending, posting, clientVars, endings,
                 sent, answers>>

(* The client builds its selector from the menu it received, and the hook   *)
(* binds and submits a selection that has a row in it; a failure of either  *)
(* also consumes the selection.                                             *)
SelectorConstructed(row) ==
  /\ menu = "received"
  /\ menu' = "open"
  /\ IF travel = "observed" /\ row # "absent"
       THEN /\ travel' = "none" /\ staged' = NoCall
            /\ sent' = IF row = "submitted"
                         THEN [sent EXCEPT ![staged] = Append(@, 1)]
                         ELSE sent
       ELSE UNCHANGED <<travel, staged, sent>>
  /\ UNCHANGED <<closing, session, queue, sending, posting, settled, link, endings,
                 eraOf, answers>>

SelectorDestroyed ==
  /\ menu = "open"
  /\ menu' = "closed"
  /\ UNCHANGED <<closing, session, queue, sending, posting, settled, travel,
                 link, historyVars>>
-----------------------------------------------------------------------------
(* A call as the attachment makes it. *)
Export(c) ==
  /\ posting = NoCall
  /\ \/ Enqueue(c) \/ EnqueueRefused(c)
     \/ PressKey(c)
     \/ \E hasRow \in BOOLEAN : TravelNow(c, hasRow)
     \/ TravelOnMenu(c)

Flush == FlushBegin \/ FlushEnd \/ FlushFails

ClientStep ==
  \/ NativeLogin \/ NativeLogout \/ NativeAttack \/ NativeOther
  \/ IncomingOther \/ IncomingMenu \/ IncomingDialog \/ TransportClosed
  \/ \E row \in {"submitted", "absent", "failed"} : SelectorConstructed(row)
  \/ SelectorDestroyed

AgentStep == WakePosted \/ WakeFails \/ Flush \/ SettleElapses \/ ClientStep
=============================================================================
