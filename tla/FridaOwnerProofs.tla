--------------------------- MODULE FridaOwnerProofs ---------------------------
(***************************************************************************)
(* Theorems about the attachment and its agent, for any number of calls of *)
(* any kinds and sizes: types, the order and the number of the bodies, the *)
(* meaning of a receipt, and what a decided call and a login leave behind. *)
(***************************************************************************)
EXTENDS FridaOwner, WellFoundedInduction, TLAPS

(* The owner has a call in hand exactly while it works on it.  The agent has *)
(* not settled it before it is asked, and only its wake can be under way.    *)
HandInv ==
  /\ inHand = NoCall <=> owner \in {"receiving", "stopped"}
  /\ owner \in {"priming", "ready"} => settled[inHand] = "none"
  /\ inHand # NoCall => outcome[inHand] # "unsent"
  /\ posting # NoCall => owner = "calling" /\ posting = inHand /\ attached

(* Nobody asks for a call twice, nor has the agent seen one that waits. *)
CommandsInv ==
  /\ \A c \in Calls : outcome[c] = "unsent" => settled[c] = "none"
  /\ \A i \in DOMAIN commands : commands[i] # Shutdown =>
       /\ settled[commands[i]] = "none"
       /\ outcome[commands[i]] # "unsent"
       /\ commands[i] # inHand
  /\ \A i, j \in DOMAIN commands :
       commands[i] = commands[j] /\ commands[i] # Shutdown => i = j

BeingSent == IF sending.call = inHand THEN 1 ELSE 0

(* The queue is what remains of the batch of the call in hand. *)
QueueInv ==
  queue # <<>> =>
    /\ owner = "calling" /\ attached /\ SessionReady
    /\ settled[inHand] = "pending"
    /\ Kind[inHand] \in Queued
    /\ eraOf[inHand] = era
    /\ Len(sent[inHand]) + BeingSent + Len(queue) = Size[inHand]
    /\ \A i \in DOMAIN queue :
         /\ queue[i].call = inHand
         /\ queue[i].index = Size[inHand] - Len(queue) + i
         /\ i > 1 => queue[i].state = "waiting"

(* The body being sent is the next of its call; the call may be over. *)
SendingInv ==
  sending # NoBody =>
    /\ attached
    /\ sending.index = Len(sent[sending.call]) + 1
    /\ sending.index <= Size[sending.call]
    /\ Kind[sending.call] \in Queued
    /\ \/ settled[sending.call] = "rejected"
       \/ /\ settled[sending.call] = "pending"
          /\ owner = "calling" /\ sending.call = inHand

(* What the settling of a call says of its bodies, and its outcome of both. *)
SentInv ==
  \A c \in Calls :
    /\ settled[c] = "none" => sent[c] = <<>>
    /\ settled[c] = "resolved" /\ Kind[c] \in Queued \cup {"travel"} =>
         Len(sent[c]) = Size[c]
    /\ outcome[c] = "receipt" => settled[c] = "resolved"

(* The staged selection is of a call that has submitted nothing yet. *)
TravelInv ==
  /\ travel = "none" <=> staged = NoCall
  /\ staged # NoCall =>
       /\ Kind[staged] = "travelOnMenu"
       /\ settled[staged] = "resolved"
       /\ sent[staged] = <<>>

IInv ==
  /\ TypeOK /\ HandInv /\ CommandsInv /\ QueueInv /\ SendingInv /\ SentInv
  /\ TravelInv /\ InOrderOnce /\ DialogsArePaced /\ NothingCrossesALogin
-----------------------------------------------------------------------------
(* Every set of natural numbers but the empty one has a least element. *)
LEMMA LeastNumber ==
  ASSUME NEW T, T \subseteq Nat, T # {}
  PROVE \E n \in T : \A m \in T : n <= m
  <1>1. PICK n \in T : \A k \in T : <<k, n>> \notin OpToRel(<, Nat)
    BY WFMin, NatLessThanWellFounded, Zenon
  <1>2. \A k \in T : ~(k < n)
    BY <1>1, Zenon DEF OpToRel
  <1>3. QED BY <1>2

(* Two functions that agree at 0, and go on agreeing, agree. *)
LEMMA ByInduction ==
  ASSUME NEW N \in Nat, NEW f, NEW g,
         f[0] = g[0],
         \A n \in 1..N : f[n - 1] = g[n - 1] => f[n] = g[n]
  PROVE f[N] = g[N]
  <1> DEFINE Bad == {n \in 0..N : f[n] # g[n]}
  <1>1. SUFFICES ASSUME f[N] # g[N] PROVE FALSE
    OBVIOUS
  <1>2. PICK n \in Bad : \A m \in Bad : n <= m
    <2>1. Bad \subseteq Nat /\ Bad # {}
      BY <1>1
    <2> HIDE DEF Bad
    <2>2. QED BY <2>1, LeastNumber
  <1>3. n # 0 /\ n - 1 \in 0..N /\ n - 1 \notin Bad
    BY <1>2
  <1>4. QED BY <1>2, <1>3

(* Without one call the queue is empty, if it holds no other, or the same,  *)
(* if it holds none of it.                                                  *)
LEMMA WithoutIsFilter ==
  ASSUME NEW S, queue \in Seq(S), NEW c
  PROVE /\ (\A i \in DOMAIN queue : queue[i].call = c) => Without(c) = <<>>
        /\ (\A i \in DOMAIN queue : queue[i].call # c) => Without(c) = queue
  <1> DEFINE N == Len(queue)
             Step(g) == [n \in 0..Len(queue) |->
                 IF n = 0 THEN <<>>
                 ELSE IF queue[n].call = c THEN g[n - 1]
                 ELSE Append(g[n-1], queue[n])]
             f == CHOOSE g : g = Step(g)
  <1>1. Without(c) = f[Len(queue)]
    BY DEF Without
  <1>2. ASSUME \A i \in DOMAIN queue : queue[i].call = c
        PROVE Without(c) = <<>>
    <2> DEFINE none == [n \in 0..N |-> <<>>]
    <2>1. none = Step(none)
      BY <1>2
    <2>2. f = Step(f)
      BY <2>1
    <2> HIDE DEF f
    <2>3. f[0] = <<>> /\ \A n \in 1..N : f[n] = f[n - 1]
      <3>1. f[0] = <<>>
        BY <2>2
      <3>2. ASSUME NEW n \in 1..N PROVE f[n] = f[n - 1]
        <4>1. n \in 0..Len(queue) /\ n # 0 /\ queue[n].call = c
          BY <1>2
        <4>2. f[n] = Step(f)[n]
          BY <2>2
        <4> HIDE DEF f
        <4>3. QED
          BY <4>1, <4>2
      <3>3. QED
        BY <3>1, <3>2
    <2>4. f[N] = none[N]
      <3>1. \A n \in 1..N : f[n - 1] = none[n - 1] => f[n] = none[n]
        BY <2>3
      <3>2. N \in Nat /\ f[0] = none[0]
        BY <2>3
      <3> HIDE DEF none, N
      <3>3. QED BY <3>1, <3>2, ByInduction
    <2>5. QED BY <1>1, <2>4
  <1>3. ASSUME \A i \in DOMAIN queue : queue[i].call # c
        PROVE Without(c) = queue
    <2> DEFINE all == [n \in 0..N |-> SubSeq(queue, 1, n)]
    <2>1. \A n \in 1..N : SubSeq(queue, 1, n) = Append(SubSeq(queue, 1, n - 1), queue[n])
      OBVIOUS
    <2>2. all = Step(all)
      BY <1>3, <2>1
    <2>3. f = Step(f)
      BY <2>2
    <2> HIDE DEF f
    <2>4. f[0] = <<>> /\ \A n \in 1..N : f[n] = Append(f[n - 1], queue[n])
      <3>1. f[0] = <<>>
        BY <2>3
      <3>2. ASSUME NEW n \in 1..N PROVE f[n] = Append(f[n - 1], queue[n])
        <4>1. n \in 0..Len(queue) /\ n # 0 /\ queue[n].call # c
          BY <1>3
        <4>2. f[n] = Step(f)[n]
          BY <2>3
        <4> HIDE DEF N
        <4>3. QED BY <4>1, <4>2
      <3>3. QED BY <3>1, <3>2
    <2>5. f[N] = all[N]
      <3>1. ASSUME NEW n \in 1..N, f[n - 1] = all[n - 1] PROVE f[n] = all[n]
        <4>1. n \in 0..N /\ n - 1 \in 0..N
          OBVIOUS
        <4>2. all[n] = SubSeq(queue, 1, n) /\ all[n - 1] = SubSeq(queue, 1, n - 1)
          BY <4>1
        <4>3. f[n] = Append(f[n - 1], queue[n])
          BY <2>4
        <4>4. SubSeq(queue, 1, n) = Append(SubSeq(queue, 1, n - 1), queue[n])
          BY <2>1
        <4> HIDE DEF all, N
        <4>5. QED BY <3>1, <4>2, <4>3, <4>4
      <3>2. N \in Nat /\ f[0] = all[0]
        BY <2>4
      <3> HIDE DEF all, N
      <3>3. QED BY <3>1, <3>2, ByInduction
    <2>6. all[N] = queue
      OBVIOUS
    <2>7. QED BY <1>1, <2>5, <2>6
  <1>4. QED BY <1>2, <1>3
-----------------------------------------------------------------------------
(* A step that touches neither bodies nor promises, nor ends the session. *)
LEMMA QuietStep ==
  ASSUME IInv, TypeOK',
         UNCHANGED <<ownerVars, queue, sending, settled, staged, sent, era, eraOf,
                     answers, link>>,
         travel' = "none" <=> travel = "none",
         posting' \in {posting, NoCall},
         SessionReady => SessionReady'
  PROVE  IInv'
  <1> USE DEF IInv, ownerVars
  <1>1. HandInv' /\ CommandsInv'
    BY DEF HandInv, CommandsInv
  <1>2. QueueInv'
    BY DEF QueueInv, BeingSent
  <1>3. SendingInv' /\ SentInv' /\ InOrderOnce'
    BY DEF SendingInv, SentInv, InOrderOnce
  <1>4. TravelInv' /\ NothingCrossesALogin'
    BY DEF TravelInv, NothingCrossesALogin
  <1>5. DialogsArePaced'
    BY DEF DialogsArePaced
  <1>6. QED
    BY <1>1, <1>2, <1>3, <1>4, <1>5

(* A step that empties the queue and may refuse the call in hand. *)
LEMMA DropStep ==
  ASSUME IInv, TypeOK',
         UNCHANGED <<ownerVars, sent>>,
         queue' = <<>>,
         sending' \in {sending, NoBody},
         posting' \in {posting, NoCall},
         \A c \in Calls : settled'[c] # settled[c] =>
            /\ settled[c] = "pending" /\ settled'[c] = "rejected"
            /\ c = inHand /\ owner = "calling",
         TravelInv', NothingCrossesALogin'
  PROVE  IInv'
  <1> USE DEF IInv, ownerVars
  <1>1. HandInv'
    BY DEF HandInv, TypeOK
  <1>2. CommandsInv'
    BY DEF CommandsInv, TypeOK
  <1>3. QueueInv' /\ DialogsArePaced'
    BY DEF QueueInv, DialogsArePaced
  <1>4. SendingInv'
    <2>1. CASE sending' = NoBody
      BY <2>1 DEF SendingInv
    <2>2. CASE sending' = sending /\ sending # NoBody
      <3>1. sending.call \in Calls
        BY <2>2 DEF TypeOK, AgentTypeOK, Bodies
      <3>2. QED
        BY <2>2, <3>1 DEF SendingInv
    <2>3. QED
      BY <2>1, <2>2
  <1>5. SentInv' /\ InOrderOnce'
    BY DEF SentInv, InOrderOnce
  <1>6. QED
    BY <1>1, <1>2, <1>3, <1>4, <1>5

(* The client takes the next body of a call: the one being sent, or the     *)
(* last of the queue, which an attack of the client's own has satisfied.    *)
LEMMA TakenStep ==
  ASSUME IInv, TypeOK', NEW body \in Bodies,
         body.call \in Calls, Kind[body.call] \in Queued,
         body.index = Len(sent[body.call]) + 1,
         body.index <= Size[body.call],
         \/ settled[body.call] = "rejected"
         \/ settled[body.call] = "pending" /\ body.call = inHand /\ owner = "calling",
         Taken(body), sending' = NoBody,
         UNCHANGED <<ownerVars, posting, travel, link, staged, era, eraOf, answers>>,
         SessionReady => SessionReady',
         \/ queue' = <<>>
         \/ queue' = queue /\ sending = body
  PROVE  IInv'
  <1> USE DEF IInv, ownerVars
  <1> DEFINE c == body.call
  <1>1. /\ \A d \in Calls \ {c} : sent'[d] = sent[d] /\ settled'[d] = settled[d]
        /\ sent'[c] = Append(sent[c], body.index)
        /\ sent[c] \in Seq(Nat)
        /\ settled[c] = "rejected" => settled'[c] = "rejected"
        /\ settled[c] = "pending" /\ Len(sent'[c]) = Size[c] => settled'[c] = "resolved"
        /\ settled[c] = "pending" /\ Len(sent'[c]) # Size[c] => settled'[c] = "pending"
    BY DEF Taken, TypeOK, AgentTypeOK
  <1>2. Len(sent'[c]) = Len(sent[c]) + 1
    BY <1>1
  <1>3. HandInv'
    BY <1>1 DEF HandInv, TypeOK
  <1>4. CommandsInv'
    <2>1. \A d \in Calls : settled[d] = "none" => settled'[d] = "none"
      BY <1>1
    <2>2. \A i \in DOMAIN commands : commands[i] # Shutdown => commands[i] \in Calls
      BY DEF TypeOK
    <2>3. QED
      BY <2>1, <2>2 DEF CommandsInv
  <1>5. QueueInv'
    <2>1. SUFFICES ASSUME queue' = queue, sending = body, queue # <<>> PROVE QueueInv'
      BY DEF QueueInv
    <2>2. /\ Len(sent[inHand]) + BeingSent + Len(queue) = Size[inHand]
          /\ Len(queue) \in Nat \ {0}
      BY <2>1 DEF QueueInv, TypeOK, AgentTypeOK
    <2>3. /\ settled'[inHand] = "pending"
          /\ Len(sent'[inHand]) + BeingSent' + Len(queue) = Size[inHand]
      <3>1. CASE c = inHand
        <4>1. BeingSent = 1
          BY <2>1, <3>1 DEF BeingSent
        <4>2. inHand # NoCall
          BY <2>1 DEF QueueInv, HandInv
        <4>3. BeingSent' = 0
          BY <4>2 DEF BeingSent, NoBody
        <4>4. settled[c] = "pending"
          BY <2>1, <3>1 DEF QueueInv
        <4>5. Len(sent[c]) \in Nat /\ Size[c] \in Nat
          BY <1>1, SizeAssumption
        <4>6. Len(sent'[c]) # Size[c] /\ Len(sent'[c]) + Len(queue) = Size[c]
          BY <1>2, <2>2, <3>1, <4>1, <4>5
        <4>7. settled'[c] = "pending"
          BY <1>1, <4>4, <4>6
        <4>8. Len(sent'[c]) + BeingSent' + Len(queue) = Size[c]
          BY <1>2, <4>3, <4>5, <4>6
        <4>9. QED
          BY <3>1, <4>7, <4>8
      <3>2. CASE c # inHand
        <4>1. inHand \in Calls /\ settled[inHand] = "pending"
          BY <2>1 DEF QueueInv, HandInv, TypeOK
        <4>2. BeingSent = 0 /\ BeingSent' = 0
          BY <2>1, <3>2, <4>1, NoCallAssumption DEF BeingSent, NoBody
        <4>3. QED
          BY <1>1, <2>2, <3>2, <4>1, <4>2
      <3>3. QED
        BY <3>1, <3>2
    <2>4. QED
      BY <2>1, <2>3 DEF QueueInv
  <1>6. SendingInv'
    BY DEF SendingInv
  <1>7. SentInv'
    BY <1>1, <1>2 DEF SentInv, TypeOK, Queued
  <1>8. InOrderOnce'
    <2>1. ASSUME NEW d \in Calls
          PROVE  Len(sent'[d]) <= Size[d] /\ sent'[d] = [i \in 1..Len(sent'[d]) |-> i]
      <3>1. CASE d = c
        <4> DEFINE s == sent[c]
        <4>1. s = [i \in 1..Len(s) |-> i] /\ s \in Seq(Nat)
          BY <1>1 DEF InOrderOnce
        <4>2. sent'[c] = Append(s, Len(s) + 1)
          BY <1>1
        <4>3. Len(sent'[c]) = Len(s) + 1 /\ Len(s) + 1 <= Size[c]
          BY <1>2
        <4> HIDE DEF s
        <4>4. Append(s, Len(s) + 1) = [i \in 1..(Len(s) + 1) |-> i]
          BY <4>1
        <4> QED
          BY <3>1, <4>2, <4>3, <4>4
      <3>2. CASE d # c
        BY <1>1, <3>2 DEF InOrderOnce
      <3>3. QED
        BY <3>1, <3>2
    <2>2. QED
      BY <2>1 DEF InOrderOnce
  <1>9. TravelInv'
    BY <1>1 DEF TravelInv, TypeOK, AgentTypeOK, Queued
  <1>10. DialogsArePaced' /\ NothingCrossesALogin'
    BY DEF DialogsArePaced, NothingCrossesALogin
  <1>11. QED
    BY <1>3, <1>4, <1>5, <1>6, <1>7, <1>8, <1>9, <1>10
-----------------------------------------------------------------------------
WithState(s) == [queue EXCEPT ![1].state = s]

(* What the steps of the agent do with a queue that is not empty. *)
LEMMA QueueParts ==
  ASSUME TypeOK, queue # <<>>
  PROVE  /\ Len(queue) \in Nat \ {0}
         /\ queue[1] \in Bodies /\ Head(queue) = queue[1]
         /\ Tail(queue) \in Seq(Bodies) /\ Len(Tail(queue)) = Len(queue) - 1
         /\ \A i \in 1..Len(Tail(queue)) : Tail(queue)[i] = queue[i + 1]
         /\ \A s \in {"ready", "settling"} :
              /\ WithState(s) \in Seq(Bodies) /\ Len(WithState(s)) = Len(queue)
              /\ \A i \in 1..Len(queue) :
                   /\ WithState(s)[i].call = queue[i].call
                   /\ WithState(s)[i].index = queue[i].index
                   /\ WithState(s)[i].state = IF i = 1 THEN s ELSE queue[i].state
  <1>1. queue \in Seq(Bodies)
    BY DEF TypeOK, AgentTypeOK
  <1>2. /\ Len(queue) \in Nat \ {0}
        /\ queue[1] \in Bodies /\ Head(queue) = queue[1]
        /\ Tail(queue) \in Seq(Bodies) /\ Len(Tail(queue)) = Len(queue) - 1
        /\ \A i \in 1..Len(Tail(queue)) : Tail(queue)[i] = queue[i + 1]
    BY <1>1
  <1>3. ASSUME NEW s \in {"ready", "settling"}
        PROVE  /\ WithState(s) \in Seq(Bodies) /\ Len(WithState(s)) = Len(queue)
               /\ \A i \in 1..Len(queue) :
                    /\ WithState(s)[i].call = queue[i].call
                    /\ WithState(s)[i].index = queue[i].index
                    /\ WithState(s)[i].state = IF i = 1 THEN s ELSE queue[i].state
    <2> DEFINE next == WithState(s)
    <2>1. [queue[1] EXCEPT !.state = s] \in Bodies
      BY <1>2 DEF Bodies
    <2>2. /\ DOMAIN next = 1..Len(queue)
          /\ next[1] = [queue[1] EXCEPT !.state = s]
          /\ \A i \in 1..Len(queue) : i # 1 => next[i] = queue[i]
      BY <1>1, <1>2 DEF WithState
    <2>3. next \in Seq(Bodies) /\ Len(next) = Len(queue)
      <3>1. next \in [1..Len(queue) -> Bodies]
        BY <1>1, <2>1 DEF WithState
      <3>2. QED
        BY <1>2, <3>1
    <2>4. /\ next[1].call = queue[1].call /\ next[1].index = queue[1].index
          /\ next[1].state = s
      BY <1>2, <2>2 DEF Bodies
    <2> HIDE DEF next
    <2>5. ASSUME NEW i \in 1..Len(queue)
          PROVE  /\ next[i].call = queue[i].call
                 /\ next[i].index = queue[i].index
                 /\ next[i].state = IF i = 1 THEN s ELSE queue[i].state
      BY <2>2, <2>4
    <2>6. QED
      BY <2>3, <2>5 DEF next
  <1>4. QED
    BY <1>2, <1>3

(* The head belongs to the call in hand and is its next body. *)
LEMMA HeadIsNext ==
  ASSUME IInv, queue # <<>>
  PROVE  /\ inHand \in Calls /\ owner = "calling" /\ attached
         /\ settled[inHand] = "pending" /\ Kind[inHand] \in Queued
         /\ queue[1].call = inHand
         /\ queue[1].index + Len(queue) = Size[inHand] + 1
         /\ queue[1].index = Len(sent[inHand]) + BeingSent + 1
         /\ Len(sent[inHand]) \in Nat /\ Len(queue) \in Nat \ {0}
  <1> USE DEF IInv
  <1>1. inHand \in Calls
    BY DEF QueueInv, HandInv, TypeOK
  <1>2. /\ 1 \in DOMAIN queue /\ Len(queue) \in Nat \ {0}
        /\ sent[inHand] \in Seq(Nat) /\ Size[inHand] \in Nat
    BY <1>1, SizeAssumption DEF TypeOK, AgentTypeOK
  <1>3. /\ queue[1].index = Size[inHand] - Len(queue) + 1
        /\ Len(sent[inHand]) + BeingSent + Len(queue) = Size[inHand]
    BY <1>2 DEF QueueInv
  <1>4. BeingSent \in Nat
    BY DEF BeingSent
  <1>5. queue[1].index + Len(queue) = Size[inHand] + 1
    BY <1>2, <1>3
  <1>6. queue[1].index = Len(sent[inHand]) + BeingSent + 1
    BY <1>2, <1>3, <1>4
  <1>7. QED
    BY <1>1, <1>2, <1>5, <1>6 DEF QueueInv

(* The steps of the agent's own queue. *)
LEMMA WakeKeepsInv ==
  ASSUME IInv, AgentDoes(WakePosted) PROVE IInv'
  <1>1. TypeOK'
    BY DEF IInv, AgentDoes, WakePosted, TypeOK, AgentTypeOK, ownerVars, clientVars,
           historyVars, endings
  <1>2. QED
    BY <1>1, QuietStep DEF AgentDoes, WakePosted, clientVars, historyVars, endings,
                           SessionReady

(* Every body of the queue is of the call in hand, so that a rejection      *)
(* empties the queue or leaves it alone.                                    *)
LEMMA RejectClears ==
  ASSUME IInv, NEW c \in Calls, Reject(c)
  PROVE  /\ settled' = [settled EXCEPT ![c] = IF @ = "pending" THEN "rejected" ELSE @]
         /\ c = inHand => queue' = <<>>
         /\ c # inHand => queue' = queue
  <1>1. queue \in Seq(Bodies)
    BY DEF IInv, TypeOK, AgentTypeOK
  <1>2. \A i \in DOMAIN queue : queue[i].call = inHand
    BY <1>1 DEF IInv, QueueInv
  <1>3. CASE c = inHand
    BY <1>1, <1>2, <1>3, WithoutIsFilter DEF Reject
  <1>4. CASE c # inHand
    BY <1>1, <1>2, <1>4, WithoutIsFilter DEF Reject
  <1>5. QED
    BY <1>3, <1>4 DEF Reject

LEMMA WakeFailsKeepsInv ==
  ASSUME IInv, AgentDoes(WakeFails) PROVE IInv'
  <1> USE DEF AgentDoes, WakeFails, clientVars, historyVars, endings
  <1>1. /\ posting \in Calls /\ posting = inHand /\ owner = "calling"
    BY DEF IInv, HandInv, TypeOK, AgentTypeOK
  <1>2. /\ queue' = <<>>
        /\ settled' = [settled EXCEPT ![inHand] = IF @ = "pending" THEN "rejected" ELSE @]
    BY <1>1, RejectClears
  <1>3. TypeOK'
    <2>1. settled' \in [Calls -> {"none", "pending", "resolved", "rejected"}]
      BY <1>2 DEF IInv, TypeOK, AgentTypeOK
    <2>2. queue' \in Seq(Bodies) /\ Len(queue') <= MaxPending
      BY <1>2, BoundsAssumption
    <2>3. QED
      BY SMTT(30), <2>1, <2>2 DEF IInv, TypeOK, AgentTypeOK, ownerVars
  <1>4. \A d \in Calls : settled'[d] # settled[d] =>
          settled[d] = "pending" /\ settled'[d] = "rejected" /\ d = inHand
    BY <1>2 DEF IInv, TypeOK, AgentTypeOK
  <1>5. TravelInv' /\ NothingCrossesALogin'
    BY <1>2, <1>4 DEF IInv, TypeOK, AgentTypeOK, TravelInv, NothingCrossesALogin
  <1>6. QED
    BY <1>1, <1>2, <1>3, <1>4, <1>5, DropStep

-----------------------------------------------------------------------------
LEMMA FlushBeginKeepsInv ==
  ASSUME IInv, AgentDoes(FlushBegin) PROVE IInv'
  <1> USE DEF IInv, AgentDoes, FlushBegin, clientVars, historyVars, endings, ownerVars
  <1>1. queue # <<>> /\ queue[1].state = "ready" /\ BeingSent = 0
    <2>1. queue # <<>>
      BY DEF Head0, NoBody
    <2>2. inHand # NoCall
      BY <2>1 DEF QueueInv, HandInv
    <2>3. QED
      BY <2>1, <2>2, QueueParts DEF Head0, BeingSent, NoBody
  <1>2. /\ sending' = queue[1] /\ queue' = Tail(queue)
        /\ queue' \in Seq(Bodies) /\ Len(queue') = Len(queue) - 1
        /\ \A i \in 1..Len(queue') : queue'[i] = queue[i + 1]
        /\ queue[1] \in Bodies /\ Len(queue) \in Nat \ {0}
    BY <1>1, QueueParts
  <1>3. /\ inHand \in Calls /\ owner = "calling" /\ attached
        /\ settled[inHand] = "pending" /\ Kind[inHand] \in Queued
        /\ queue[1].call = inHand
        /\ queue[1].index = Len(sent[inHand]) + 1
        /\ queue[1].index + Len(queue) = Size[inHand] + 1
        /\ Len(sent[inHand]) \in Nat
    BY <1>1, HeadIsNext
  <1>4. TypeOK'
    <2>1. sending' \in Bodies /\ session' \in BOOLEAN
      BY <1>2
    <2>2. queue' \in Seq(Bodies) /\ Len(queue') <= MaxPending
      BY <1>2, BoundsAssumption DEF TypeOK, AgentTypeOK
    <2>3. QED
      BY <2>1, <2>2 DEF TypeOK, AgentTypeOK
  <1>5. HandInv' /\ CommandsInv' /\ SentInv' /\ TravelInv' /\ InOrderOnce'
    BY DEF HandInv, CommandsInv, SentInv, TravelInv, InOrderOnce
  <1>6. SendingInv'
    <2>1. queue[1].index <= Size[inHand]
      BY <1>2, <1>3, SizeAssumption
    <2>2. QED
      BY <1>2, <1>3, <2>1 DEF SendingInv
  <1>7. \A i \in 1..Len(queue') : i + 1 \in DOMAIN queue /\ i + 1 > 1
    BY <1>2
  <1>8. QueueInv'
    <2>1. BeingSent' = 1
      BY <1>2, <1>3 DEF BeingSent
    <2>2. Len(sent[inHand]) + 1 + Len(queue') = Size[inHand]
      <3> DEFINE n == Len(sent[inHand])
                 m == Len(queue)
      <3>1. n \in Nat /\ m \in Nat /\ Size[inHand] \in Nat
        BY <1>2, <1>3, SizeAssumption
      <3>2. (n + 1) + m = Size[inHand] + 1 /\ Len(queue') = m - 1
        BY <1>2, <1>3
      <3> HIDE DEF n, m
      <3>3. n + 1 + (m - 1) = Size[inHand]
        BY <3>1, <3>2
      <3>4. QED
        BY <3>2, <3>3 DEF n
    <2>3. ASSUME NEW i \in DOMAIN queue'
          PROVE  /\ queue'[i].call = inHand
                 /\ queue'[i].index = Size[inHand] - Len(queue') + i
                 /\ queue'[i].state = "waiting"
      <3>1. i \in 1..Len(queue') /\ i + 1 \in DOMAIN queue /\ i + 1 > 1
        BY <1>2, <1>7
      <3>2. queue'[i] = queue[i + 1] /\ Len(queue') = Len(queue) - 1
        BY <1>2, <3>1
      <3>3. queue[i + 1].index = Size[inHand] - Len(queue) + (i + 1)
        BY <1>1, <3>1 DEF QueueInv
      <3>4. Size[inHand] - Len(queue) + (i + 1) = Size[inHand] - (Len(queue) - 1) + i
        BY <1>2, <1>3, <3>1, SizeAssumption
      <3>5. QED
        BY <1>1, <3>1, <3>2, <3>3, <3>4 DEF QueueInv
    <2>4. SessionReady'
      BY DEF SessionReady
    <2>5. eraOf[inHand] = era
      BY <1>1 DEF QueueInv
    <2>6. QED
      BY <1>3, <2>1, <2>2, <2>3, <2>4, <2>5 DEF QueueInv
  <1>9. DialogsArePaced'
    <2>1. ASSUME NEW i \in DOMAIN queue' PROVE queue'[i].state = "waiting"
      BY <1>1, <1>2, <1>7 DEF QueueInv
    <2>2. QED
      BY <2>1 DEF DialogsArePaced
  <1>10. NothingCrossesALogin'
    BY <1>2, <1>7 DEF NothingCrossesALogin
  <1>11. QED
    BY <1>4, <1>5, <1>6, <1>8, <1>9, <1>10

LEMMA FlushEndKeepsInv ==
  ASSUME IInv, AgentDoes(FlushEnd) PROVE IInv'
  <1> USE DEF IInv, AgentDoes, FlushEnd, clientVars, endings, ownerVars
  <1>1. sending \in Bodies /\ sending.call \in Calls
    BY DEF TypeOK, AgentTypeOK, Bodies
  <1>2. TypeOK'
    <2>1. sending.index \in Nat
      BY <1>1 DEF Bodies
    <2>2. sent' \in [Calls -> Seq(Nat)]
      BY <1>1, <2>1 DEF TypeOK, AgentTypeOK, Taken
    <2>3. settled' \in [Calls -> {"none", "pending", "resolved", "rejected"}]
      BY <1>1 DEF TypeOK, AgentTypeOK, Taken
    <2>4. QED
      BY SMTT(30), <2>2, <2>3 DEF TypeOK, AgentTypeOK
  <1>3. /\ Kind[sending.call] \in Queued
        /\ sending.index = Len(sent[sending.call]) + 1
        /\ sending.index <= Size[sending.call]
        /\ \/ settled[sending.call] = "rejected"
           \/ /\ settled[sending.call] = "pending"
              /\ sending.call = inHand /\ owner = "calling"
    BY DEF SendingInv
  <1>4. UNCHANGED <<posting, travel, link, staged, era, eraOf, answers, queue>>
    OBVIOUS
  <1>5. SessionReady => SessionReady'
    BY DEF SessionReady
  <1> HIDE DEF IInv, ownerVars
  <1>6. Taken(sending) /\ sending' = NoBody /\ UNCHANGED ownerVars
    OBVIOUS
  <1>7. QED
    BY <1>1, <1>2, <1>3, <1>4, <1>5, <1>6, TakenStep

LEMMA FlushFailsKeepsInv ==
  ASSUME IInv, AgentDoes(FlushFails) PROVE IInv'
  <1> USE DEF AgentDoes, FlushFails, clientVars, historyVars, endings
  <1>1. /\ sending.call \in Calls /\ sending # NoBody
        /\ \/ settled[sending.call] = "rejected"
           \/ settled[sending.call] = "pending" /\ sending.call = inHand
              /\ owner = "calling"
    BY DEF IInv, TypeOK, AgentTypeOK, Bodies, SendingInv
  <1>2. /\ settled' = [settled EXCEPT ![sending.call] =
                         IF @ = "pending" THEN "rejected" ELSE @]
        /\ sending.call = inHand => queue' = <<>>
        /\ sending.call # inHand => queue' = queue
    BY <1>1, RejectClears
  <1>3. \A d \in Calls : settled'[d] # settled[d] =>
          /\ settled[d] = "pending" /\ settled'[d] = "rejected"
          /\ d = inHand /\ owner = "calling" /\ sending.call = inHand
    BY <1>1, <1>2 DEF IInv, TypeOK, AgentTypeOK
  <1>4. TypeOK'
    <2>1. settled' \in [Calls -> {"none", "pending", "resolved", "rejected"}]
      BY <1>2 DEF IInv, TypeOK, AgentTypeOK
    <2>2. queue' \in Seq(Bodies) /\ Len(queue') <= MaxPending
      <3>1. queue \in Seq(Bodies) /\ Len(queue) <= MaxPending
        BY DEF IInv, TypeOK, AgentTypeOK
      <3>2. CASE queue' = <<>>
        BY <3>2, BoundsAssumption
      <3>3. CASE queue' = queue
        BY <3>1, <3>3
      <3>4. QED
        BY <1>2, <3>2, <3>3
    <2>3. QED
      BY SMTT(30), <2>1, <2>2 DEF IInv, TypeOK, AgentTypeOK, ownerVars
  <1>5. TravelInv' /\ NothingCrossesALogin'
    BY <1>2, <1>3 DEF IInv, TypeOK, AgentTypeOK, TravelInv, NothingCrossesALogin
  <1>6. CASE sending.call = inHand
    BY <1>2, <1>3, <1>4, <1>5, <1>6, DropStep
  <1>7. CASE sending.call # inHand
    <2>1. settled' = settled
      BY <1>2, <1>3, <1>7 DEF IInv, TypeOK, AgentTypeOK
    <2> USE DEF IInv, ownerVars
    <2>2. HandInv' /\ CommandsInv' /\ SendingInv' /\ SentInv' /\ InOrderOnce'
      BY <2>1 DEF HandInv, CommandsInv, SendingInv, SentInv, InOrderOnce
    <2>3. queue' = queue /\ (queue # <<>> => BeingSent' = BeingSent)
      BY <1>2, <1>7 DEF BeingSent, NoBody, QueueInv, HandInv
    <2>4. QueueInv'
      BY <2>1, <2>3 DEF QueueInv, SessionReady
    <2>5. DialogsArePaced'
      BY <2>3 DEF DialogsArePaced
    <2>6. QED
      BY <1>4, <1>5, <2>2, <2>4, <2>5
  <1>8. QED
    BY <1>6, <1>7

LEMMA SettleKeepsInv ==
  ASSUME IInv, AgentDoes(SettleElapses) PROVE IInv'
  <1> USE DEF IInv, AgentDoes, SettleElapses, clientVars, historyVars, endings, ownerVars
  <1>1. queue # <<>> /\ queue[1].state = "settling"
    BY QueueParts DEF Head0, NoBody
  <1>2. /\ queue' \in Seq(Bodies) /\ Len(queue') = Len(queue)
        /\ DOMAIN queue' = 1..Len(queue) /\ DOMAIN queue = 1..Len(queue)
        /\ \A i \in 1..Len(queue) :
             /\ queue'[i].call = queue[i].call
             /\ queue'[i].index = queue[i].index
             /\ queue'[i].state = IF i = 1 THEN "ready" ELSE queue[i].state
    <2>1. queue' = WithState("ready")
      BY DEF WithState
    <2>2. queue \in Seq(Bodies)
      BY DEF TypeOK, AgentTypeOK
    <2>3. /\ WithState("ready") \in Seq(Bodies)
          /\ Len(WithState("ready")) = Len(queue)
          /\ \A i \in 1..Len(queue) :
               /\ WithState("ready")[i].call = queue[i].call
               /\ WithState("ready")[i].index = queue[i].index
               /\ WithState("ready")[i].state = IF i = 1 THEN "ready" ELSE queue[i].state
      BY <1>1, QueueParts
    <2>4. DOMAIN queue = 1..Len(queue)
      BY <2>2
    <2>5. DOMAIN WithState("ready") = 1..Len(queue)
      BY <2>3
    <2>6. QED
      BY <2>1, <2>3, <2>4, <2>5
  <1>3. TypeOK'
    BY <1>2 DEF TypeOK, AgentTypeOK
  <1>4. HandInv' /\ CommandsInv' /\ SendingInv' /\ SentInv' /\ TravelInv' /\ InOrderOnce'
    BY DEF HandInv, CommandsInv, SendingInv, SentInv, TravelInv, InOrderOnce
  <1>5. QueueInv'
    <2>1. /\ owner = "calling" /\ attached /\ SessionReady'
          /\ settled[inHand] = "pending" /\ Kind[inHand] \in Queued
          /\ eraOf[inHand] = era
          /\ Len(sent[inHand]) + BeingSent' + Len(queue') = Size[inHand]
      BY <1>1, <1>2 DEF QueueInv, BeingSent, SessionReady
    <2>2. ASSUME NEW i \in 1..Len(queue)
          PROVE  /\ queue'[i].call = inHand
                 /\ queue'[i].index = Size[inHand] - Len(queue') + i
                 /\ i > 1 => queue'[i].state = "waiting"
      <3>1. /\ queue[i].call = inHand
            /\ queue[i].index = Size[inHand] - Len(queue) + i
            /\ i > 1 => queue[i].state = "waiting"
        BY <1>1, <1>2 DEF QueueInv
      <3>2. QED
        BY <1>2, <3>1
    <2>3. QED
      BY <1>2, <2>1, <2>2 DEF QueueInv
  <1>6. DialogsArePaced'
    BY <1>1, <1>2 DEF DialogsArePaced
  <1>7. NothingCrossesALogin'
    BY <1>2 DEF NothingCrossesALogin
  <1>8. QED
    BY <1>3, <1>4, <1>5, <1>6, <1>7

-----------------------------------------------------------------------------
(* All that is told off when the queue is dropped is the call in hand. *)
LEMMA FailAllRejects ==
  ASSUME IInv, FailAll
  PROVE  /\ queue' = <<>>
         /\ settled' \in [Calls -> {"none", "pending", "resolved", "rejected"}]
         /\ \A c \in Calls : settled'[c] # settled[c] =>
              /\ settled[c] = "pending" /\ settled'[c] = "rejected"
              /\ c = inHand /\ owner = "calling"
  <1>1. \A i \in DOMAIN queue :
          queue[i].call = inHand /\ settled[inHand] = "pending" /\ owner = "calling"
    BY DEF IInv, QueueInv, TypeOK, AgentTypeOK
  <1>2. QED
    BY <1>1 DEF FailAll, IInv, TypeOK, AgentTypeOK

LEMMA LoginKeepsInv ==
  ASSUME IInv, AgentDoes(NativeLogin \/ NativeLogout) PROVE IInv'
  <1> USE DEF AgentDoes, NativeLogin, NativeLogout, clientVars, endings
  <1>1. /\ FailAll /\ era \in 0..MaxEra /\ era < MaxEra /\ era' = era + 1
        /\ travel' = "none" /\ staged' = NoCall
        /\ link' \in {"up", link} /\ closing' \in BOOLEAN /\ session' \in BOOLEAN
        /\ UNCHANGED <<ownerVars, sending, posting, menu, eraOf, sent, answers, lost>>
    BY DEF IInv, TypeOK, AgentTypeOK
  <1> HIDE DEF AgentDoes, NativeLogin, NativeLogout
  <1>2. /\ queue' = <<>>
        /\ settled' \in [Calls -> {"none", "pending", "resolved", "rejected"}]
        /\ \A c \in Calls : settled'[c] # settled[c] =>
             /\ settled[c] = "pending" /\ settled'[c] = "rejected"
             /\ c = inHand /\ owner = "calling"
    BY <1>1, FailAllRejects
  <1>3. TypeOK'
    <2>1. queue' \in Seq(Bodies) /\ Len(queue') <= MaxPending /\ era' \in 0..MaxEra
      BY <1>1, <1>2, BoundsAssumption
    <2>2. QED
      BY SMTT(30), <1>1, <1>2, <2>1
         DEF IInv, TypeOK, AgentTypeOK, ownerVars
  <1>4. TravelInv' /\ NothingCrossesALogin'
    BY <1>1, <1>2 DEF TravelInv, NothingCrossesALogin
  <1>5. QED
    BY <1>1, <1>2, <1>3, <1>4, DropStep

LEMMA ClosedKeepsInv ==
  ASSUME IInv, AgentDoes(TransportClosed) PROVE IInv'
  <1> USE DEF AgentDoes, TransportClosed, clientVars
  <1>1. queue' = <<>> /\ queue \in Seq(Bodies) /\ era' \in 0..MaxEra
    BY BoundsAssumption DEF IInv, TypeOK, AgentTypeOK, QueueInv
  <1>2. lost' \subseteq Calls
    <2>1. ASSUME NEW i \in DOMAIN queue PROVE queue[i].call \in Calls
      <3>1. queue[i] \in Bodies
        BY <1>1
      <3>2. QED
        BY <3>1 DEF Bodies
    <2>2. lost' \in {lost, lost \cup {queue[i].call : i \in DOMAIN queue}}
      OBVIOUS
    <2>3. lost \subseteq Calls
      BY DEF IInv, TypeOK, AgentTypeOK
    <2> HIDE DEF AgentDoes, TransportClosed
    <2>4. QED
      BY <2>1, <2>2, <2>3
  <1>3. TypeOK'
    <2>1. queue' \in Seq(Bodies) /\ Len(queue') <= MaxPending
      BY <1>1, BoundsAssumption
    <2>2. link' = "down" /\ closing' \in BOOLEAN /\ session' \in BOOLEAN
      BY DEF IInv, TypeOK, AgentTypeOK
    <2>3. UNCHANGED <<ownerVars, sending, posting, settled, travel, menu, eraOf, sent,
                      answers, staged>>
      OBVIOUS
    <2> HIDE DEF AgentDoes, TransportClosed
    <2>4. QED
      BY SMTT(30), <1>1, <1>2, <2>1, <2>2, <2>3
         DEF IInv, TypeOK, AgentTypeOK, ownerVars
  <1>4. TravelInv' /\ NothingCrossesALogin'
    BY <1>1 DEF IInv, TravelInv, NothingCrossesALogin
  <1>5. QED
    BY <1>1, <1>3, <1>4, DropStep

LEMMA OtherTrafficKeepsInv ==
  ASSUME IInv, AgentDoes(\/ NativeOther \/ IncomingOther \/ IncomingMenu
                         \/ SelectorDestroyed)
  PROVE  IInv'
  <1> USE DEF AgentDoes, NativeOther, IncomingOther, IncomingMenu, SelectorDestroyed,
              Established, clientVars, historyVars, endings
  <1>1. /\ UNCHANGED <<ownerVars, queue, sending, settled, staged, sent, era, eraOf,
                       answers, link, posting, lost>>
        /\ travel' \in {travel, "observed"} /\ (travel' = "none" <=> travel = "none")
        /\ closing' \in {closing, FALSE} /\ session' \in {session, TRUE, session \/ ~closing}
        /\ menu' \in {menu, "received", "closed"}
    OBVIOUS
  <1> HIDE DEF AgentDoes, NativeOther, IncomingOther, IncomingMenu, SelectorDestroyed
  <1>2. TypeOK'
    <2>1. session \in BOOLEAN /\ closing \in BOOLEAN
      BY DEF IInv, TypeOK, AgentTypeOK
    <2>2. session' \in BOOLEAN /\ closing' \in BOOLEAN
      BY <1>1, <2>1
    <2>3. /\ travel' \in {travel, "observed"} /\ menu' \in {menu, "received", "closed"}
          /\ UNCHANGED <<queue, sending, posting, settled, link, era, lost, eraOf, sent,
                         answers, staged, outcome, commands, owner, inHand, stopping,
                         attached>>
      BY <1>1 DEF ownerVars
    <2>4. TypeOK
      BY DEF IInv
    <2> HIDE DEF Established, clientVars, historyVars, endings
    <2>5. QED
      BY SMTT(30), <2>2, <2>3, <2>4 DEF TypeOK, AgentTypeOK
  <1>3. SessionReady => SessionReady'
    BY <1>1 DEF SessionReady
  <1>4. QED
    BY <1>1, <1>2, <1>3, QuietStep

LEMMA AttackKeepsInv ==
  ASSUME IInv, AgentDoes(NativeAttack) PROVE IInv'
  <1> USE DEF AgentDoes, NativeAttack, clientVars, endings
  <1>1. CASE Head0 # NoBody /\ Kind[Head0.call] = "attack"
    <2>1. /\ queue # <<>> /\ Head0 = queue[1] /\ queue[1] \in Bodies
          /\ queue' = Tail(queue) /\ Taken(queue[1])
          /\ Len(queue) \in Nat \ {0} /\ Len(queue') = Len(queue) - 1
          /\ queue' \in Seq(Bodies)
      BY <1>1, QueueParts DEF IInv, Head0
    <2>2. /\ inHand \in Calls /\ owner = "calling" /\ attached
          /\ settled[inHand] = "pending" /\ Kind[inHand] \in Queued
          /\ queue[1].call = inHand
          /\ queue[1].index + Len(queue) = Size[inHand] + 1
          /\ queue[1].index = Len(sent[inHand]) + BeingSent + 1
          /\ Len(sent[inHand]) \in Nat
      BY <2>1, HeadIsNext
    <2>3. BeingSent = 0
      BY <2>2, NoCallAssumption DEF Idle, BeingSent, NoBody
    <2>4. Size[inHand] = 1
      BY <1>1, <2>1, <2>2, OneBodyAssumption
    <2>5. queue[1].index = Len(sent[inHand]) + 1
      BY <2>2, <2>3
    <2>6. queue[1].index <= Size[inHand] /\ queue' = <<>> /\ queue[1].index \in Nat
      <3>1. queue[1].index = 1 /\ Len(queue) = 1
        <4> DEFINE n == Len(sent[inHand])
                   m == Len(queue)
        <4>1. n \in Nat /\ m \in Nat \ {0} /\ queue[1].index = n + 1
          BY <2>1, <2>2, <2>5
        <4>2. queue[1].index + m = 1 + 1
          BY <2>2, <2>4
        <4> HIDE DEF n, m
        <4>3. queue[1].index = 1 /\ m = 1
          BY <4>1, <4>2
        <4>4. QED
          BY <4>3 DEF m
      <3>2. QED
        BY <2>1, <2>4, <3>1
    <2>7. TypeOK'
      <3>1. sent' \in [Calls -> Seq(Nat)]
        <4>1. sent' = [sent EXCEPT ![inHand] = Append(@, queue[1].index)]
          BY <2>1, <2>2 DEF Taken
        <4>2. sent \in [Calls -> Seq(Nat)] /\ queue[1].index \in Nat
          BY <2>6 DEF IInv, TypeOK, AgentTypeOK
        <4>3. QED
          BY <2>2, <4>1, <4>2
      <3>2. settled' \in [Calls -> {"none", "pending", "resolved", "rejected"}]
        BY <2>1, <2>2 DEF IInv, TypeOK, AgentTypeOK, Taken
      <3>3. queue' \in Seq(Bodies) /\ Len(queue') <= MaxPending
        BY <2>6, BoundsAssumption
      <3>4. /\ sending' = sending /\ session' = (session \/ ~closing)
            /\ UNCHANGED <<closing, posting, travel, link, menu, era, lost, eraOf,
                           answers, staged, outcome, commands, owner, inHand, stopping,
                           attached>>
        BY DEF ownerVars
      <3>5. TypeOK
        BY DEF IInv
      <3> HIDE DEF AgentDoes, NativeAttack, clientVars, endings
      <3>6. QED
        BY SMTT(30), <3>1, <3>2, <3>3, <3>4, <3>5 DEF TypeOK, AgentTypeOK
    <2>8. SessionReady => SessionReady'
      BY DEF SessionReady
    <2>9. /\ UNCHANGED <<ownerVars, posting, travel, link, staged, era, eraOf, answers>>
          /\ sending' = NoBody
      BY DEF Idle
    <2> HIDE DEF AgentDoes, NativeAttack
    <2>10. QED
      BY <2>1, <2>2, <2>5, <2>6, <2>7, <2>8, <2>9, TakenStep
  <1>2. CASE ~(Head0 # NoBody /\ Kind[Head0.call] = "attack")
    <2>1. /\ UNCHANGED <<ownerVars, queue, sending, settled, staged, sent, era, eraOf,
                         answers, link, posting, lost, travel, menu, closing>>
          /\ SessionReady => SessionReady'
          /\ session' \in BOOLEAN
      BY <1>2 DEF IInv, TypeOK, AgentTypeOK, SessionReady
    <2> HIDE DEF AgentDoes, NativeAttack
    <2>2. TypeOK'
      BY <2>1 DEF IInv, TypeOK, AgentTypeOK, ownerVars
    <2>3. QED
      BY <2>1, <2>2, QuietStep
  <1>3. QED
    BY <1>1, <1>2

LEMMA DialogKeepsInv ==
  ASSUME IInv, AgentDoes(IncomingDialog) PROVE IInv'
  <1> USE DEF IInv, AgentDoes, IncomingDialog, Established, clientVars, endings, ownerVars
  <1>1. queue = <<>> => queue' = <<>>
    BY DEF Head0, NoBody
  <1>2. ASSUME queue # <<>>
        PROVE  /\ queue' \in Seq(Bodies) /\ Len(queue') = Len(queue)
               /\ DOMAIN queue' = 1..Len(queue) /\ DOMAIN queue = 1..Len(queue)
               /\ \A i \in 1..Len(queue) :
                    /\ queue'[i].call = queue[i].call
                    /\ queue'[i].index = queue[i].index
                    /\ i # 1 => queue'[i].state = queue[i].state
    <2>1. queue \in Seq(Bodies) /\ Head0 = queue[1]
      BY <1>2, QueueParts DEF TypeOK, AgentTypeOK, Head0
    <2>2. CASE queue' = queue
      <3>1. DOMAIN queue = 1..Len(queue)
        BY <2>1
      <3> HIDE DEF AgentDoes, IncomingDialog
      <3>2. QED
        BY <2>1, <2>2, <3>1
    <2>3. CASE queue' = WithState("settling")
      <3>1. /\ WithState("settling") \in Seq(Bodies)
            /\ Len(WithState("settling")) = Len(queue)
            /\ \A i \in 1..Len(queue) :
                 /\ WithState("settling")[i].call = queue[i].call
                 /\ WithState("settling")[i].index = queue[i].index
                 /\ WithState("settling")[i].state =
                      IF i = 1 THEN "settling" ELSE queue[i].state
        BY <1>2, QueueParts
      <3>2. DOMAIN queue = 1..Len(queue)
        BY <2>1
      <3>3. DOMAIN WithState("settling") = 1..Len(queue)
        BY <3>1
      <3>4. QED
        BY <2>3, <3>1, <3>2, <3>3
    <2>4. QED
      BY <2>2, <2>3 DEF WithState
  <1>3. TypeOK'
    <2>1. queue' \in Seq(Bodies) /\ Len(queue') <= MaxPending
      BY <1>1, <1>2, BoundsAssumption DEF TypeOK, AgentTypeOK
    <2>2. answers' \in [Calls -> Nat]
      BY DEF TypeOK, AgentTypeOK
    <2>3. /\ session' \in BOOLEAN /\ closing' \in BOOLEAN
          /\ UNCHANGED <<sending, posting, settled, travel, link, menu, era, lost,
                         eraOf, sent, staged, outcome, commands, owner, inHand,
                         stopping, attached>>
      OBVIOUS
    <2>4. TypeOK
      OBVIOUS
    <2> HIDE DEF IInv, AgentDoes, IncomingDialog, Established, clientVars, endings,
                 ownerVars
    <2>5. AgentTypeOK'
      BY SMTT(30), <2>1, <2>2, <2>3, <2>4 DEF TypeOK, AgentTypeOK
    <2>6. QED
      BY <2>3, <2>4, <2>5 DEF TypeOK
  <1>4. HandInv' /\ CommandsInv' /\ SendingInv' /\ SentInv' /\ TravelInv' /\ InOrderOnce'
    BY DEF HandInv, CommandsInv, SendingInv, SentInv, TravelInv, InOrderOnce
  <1>5. QueueInv'
    <2>1. SUFFICES ASSUME queue # <<>> PROVE QueueInv'
      BY <1>1 DEF QueueInv
    <2>2. BeingSent' = BeingSent /\ SessionReady'
      BY DEF BeingSent, SessionReady
    <2>3. QED
      BY <1>2, <2>1, <2>2 DEF QueueInv
  <1>6. DialogsArePaced'
    <2>1. ASSUME NEW i \in DOMAIN queue', queue'[i].state # "waiting"
          PROVE  \/ queue'[i].index = 1
                 \/ answers'[queue'[i].call] = queue'[i].index - 1
      <3>1. queue # <<>>
        BY <1>1, <2>1
      <3>2. i = 1
        BY <1>2, <2>1, <3>1 DEF QueueInv
      <3>3. /\ inHand \in Calls /\ settled[inHand] = "pending"
            /\ queue[1].call = inHand
            /\ queue[1].index = Len(sent[inHand]) + BeingSent + 1
            /\ Len(sent[inHand]) \in Nat /\ Len(queue) \in Nat \ {0}
        BY <3>1, HeadIsNext
      <3>4. BeingSent = 0
        BY <3>3, NoCallAssumption DEF Idle, BeingSent, NoBody
      <3>5. answers'[inHand] = Len(sent[inHand])
        BY <3>3
      <3>6. queue'[1].index = queue[1].index /\ queue'[1].call = queue[1].call
        BY <1>2, <3>1, <3>3
      <3>7. queue[1].index = Len(sent[inHand]) + 1
        BY <3>3, <3>4
      <3>8. QED
        BY <3>2, <3>3, <3>5, <3>6, <3>7
    <2>2. QED
      BY <2>1 DEF DialogsArePaced
  <1>7. NothingCrossesALogin'
    BY <1>1, <1>2 DEF NothingCrossesALogin
  <1>8. QED
    BY <1>3, <1>4, <1>5, <1>6, <1>7

LEMMA SelectorKeepsInv ==
  ASSUME IInv, NEW row, AgentDoes(SelectorConstructed(row)) PROVE IInv'
  <1> USE DEF AgentDoes, SelectorConstructed, clientVars, endings
  <1>1. CASE travel = "observed" /\ row # "absent"
    <2> USE DEF IInv, ownerVars
    <2>1. /\ staged \in Calls /\ Kind[staged] = "travelOnMenu"
          /\ settled[staged] = "resolved" /\ sent[staged] = <<>>
          /\ Size[staged] = 1
      BY <1>1, OneBodyAssumption DEF TravelInv, TypeOK, AgentTypeOK
    <2>2. /\ travel' = "none" /\ staged' = NoCall
          /\ sent' \in {sent, [sent EXCEPT ![staged] = Append(@, 1)]}
          /\ UNCHANGED <<closing, session, queue, sending, posting, settled, link, era,
                         lost, eraOf, answers>>
          /\ menu' = "open"
      BY <1>1
    <2>3. /\ sent' \in [Calls -> Seq(Nat)]
          /\ \A d \in Calls \ {staged} : sent'[d] = sent[d]
          /\ sent'[staged] \in {<<>>, <<1>>}
      <3>1. sent \in [Calls -> Seq(Nat)] /\ Append(<<>>, 1) = <<1>> /\ <<1>> \in Seq(Nat)
        BY DEF TypeOK, AgentTypeOK
      <3>2. CASE sent' = sent
        BY <2>1, <3>1, <3>2
      <3>3. CASE sent' = [sent EXCEPT ![staged] = Append(@, 1)]
        BY <2>1, <3>1, <3>3
      <3>4. QED
        BY <2>2, <3>2, <3>3
    <2>4. TypeOK'
      BY <2>2, <2>3 DEF TypeOK, AgentTypeOK
    <2>5. HandInv' /\ CommandsInv' /\ TravelInv' /\ DialogsArePaced'
      BY <2>2 DEF HandInv, CommandsInv, TravelInv, DialogsArePaced
    <2>6. QueueInv'
      <3>1. queue # <<>> => inHand \in Calls /\ sent'[inHand] = sent[inHand]
        BY <2>1, <2>3, HeadIsNext DEF Queued
      <3>2. BeingSent' = BeingSent /\ (SessionReady => SessionReady')
        BY <2>2 DEF BeingSent, SessionReady
      <3>3. SUFFICES ASSUME queue # <<>> PROVE QueueInv'
        BY <2>2 DEF QueueInv
      <3> HIDE DEF AgentDoes, SelectorConstructed
      <3>4. UNCHANGED <<owner, inHand, attached>>
        BY DEF AgentDoes
      <3>5. QED
        BY <2>2, <3>1, <3>2, <3>3, <3>4 DEF QueueInv
    <2>7. SendingInv'
      <3>1. sending # NoBody => sending.call \in Calls /\ sent'[sending.call] = sent[sending.call]
        BY <2>1, <2>3 DEF SendingInv, TypeOK, AgentTypeOK, Bodies, Queued
      <3>2. QED
        BY <2>2, <3>1 DEF SendingInv
    <2>8. SentInv'
      BY <2>1, <2>2, <2>3 DEF SentInv, Queued
    <2>9. InOrderOnce'
      <3>1. /\ Len(<<>>) = 0 /\ <<>> = [i \in 1..0 |-> i]
            /\ Len(<<1>>) = 1 /\ <<1>> = [i \in 1..1 |-> i]
        OBVIOUS
      <3>2. ASSUME NEW d \in Calls
            PROVE  Len(sent'[d]) <= Size[d] /\ sent'[d] = [i \in 1..Len(sent'[d]) |-> i]
        <4>1. CASE d # staged
          BY <2>3, <4>1 DEF InOrderOnce
        <4>2. CASE d = staged
          <5>1. CASE sent'[d] = <<>>
            BY <2>1, <3>1, <4>2, <5>1
          <5>2. CASE sent'[d] = <<1>>
            BY <2>1, <3>1, <4>2, <5>2
          <5>3. QED
            BY <2>3, <4>2, <5>1, <5>2
        <4>3. QED
          BY <4>1, <4>2
      <3>3. QED
        BY <3>2 DEF InOrderOnce
    <2>10. NothingCrossesALogin'
      BY <2>2 DEF NothingCrossesALogin
    <2>11. QED
      BY <2>4, <2>5, <2>6, <2>7, <2>8, <2>9, <2>10
  <1>2. CASE ~(travel = "observed" /\ row # "absent")
    <2>1. /\ UNCHANGED <<ownerVars, queue, sending, settled, staged, sent, era, eraOf,
                         answers, link, posting, lost, travel, session, closing>>
          /\ menu' = "open"
      BY <1>2
    <2> HIDE DEF AgentDoes, SelectorConstructed
    <2>2. TypeOK'
      BY SMTT(30), <2>1 DEF IInv, TypeOK, AgentTypeOK, ownerVars
    <2>3. QED
      BY <2>1, <2>2, QuietStep DEF SessionReady
  <1>3. QED
    BY <1>1, <1>2

-----------------------------------------------------------------------------
(* The call that the owner is about to make is new to the agent. *)
LEMMA CallIsNew ==
  ASSUME IInv, CallAgent
  PROVE  /\ inHand \in Calls /\ settled[inHand] = "none" /\ sent[inHand] = <<>>
         /\ outcome[inHand] \notin {"unsent", "receipt"}
         /\ queue = <<>> /\ posting = NoCall
         /\ sending # NoBody => sending.call \in Calls \ {inHand}
         /\ staged # inHand
  <1>1. /\ inHand \in Calls /\ settled[inHand] = "none" /\ owner = "ready"
        /\ posting = NoCall
    BY DEF IInv, CallAgent, Export, HandInv, TypeOK
  <1>2. sent[inHand] = <<>> /\ outcome[inHand] \notin {"unsent", "receipt"}
    BY <1>1 DEF IInv, SentInv, HandInv, TypeOK
  <1>3. queue = <<>>
    BY <1>1 DEF IInv, QueueInv
  <1>4. sending # NoBody => sending.call \in Calls \ {inHand}
    BY <1>1 DEF IInv, SendingInv, TypeOK, AgentTypeOK, Bodies
  <1>5. staged # inHand
    BY <1>1, NoCallAssumption DEF IInv, TravelInv
  <1>6. QED
    BY <1>1, <1>2, <1>3, <1>4, <1>5

(* What does not depend on how the agent answers the call. *)
LEMMA CallFrame ==
  ASSUME IInv, CallAgent,
         UNCHANGED sending, posting' \in {NoCall, inHand},
         \A d \in Calls \ {inHand} : settled'[d] = settled[d] /\ sent'[d] = sent[d]
  PROVE  HandInv' /\ CommandsInv' /\ SendingInv'
  <1>1. /\ inHand \in Calls /\ outcome[inHand] # "unsent"
        /\ sending # NoBody => sending.call \in Calls \ {inHand}
    BY CallIsNew
  <1>2. /\ owner' = "calling" /\ attached' /\ inHand' = inHand
        /\ UNCHANGED <<outcome, commands>> /\ attached
    BY DEF CallAgent
  <1>3. \A i \in DOMAIN commands : commands[i] # Shutdown => commands[i] \in Calls
    BY DEF IInv, TypeOK
  <1>4. HandInv'
    BY <1>1, <1>2, NoCallAssumption DEF IInv, HandInv
  <1>5. CommandsInv'
    BY <1>1, <1>2, <1>3 DEF IInv, CommandsInv
  <1>6. SendingInv'
    BY <1>1, <1>2 DEF IInv, SendingInv, HandInv
  <1>7. QED
    BY <1>4, <1>5, <1>6

LEMMA EnqueueKeepsInv ==
  ASSUME IInv, CallAgent, Enqueue(inHand) PROVE IInv'
  <1> DEFINE c == inHand
  <1>1. /\ c \in Calls /\ settled[c] = "none" /\ sent[c] = <<>> /\ queue = <<>>
        /\ outcome[c] \notin {"unsent", "receipt"}
        /\ sending # NoBody => sending.call \in Calls \ {c}
        /\ staged # c
    BY CallIsNew
  <1>2. /\ UNCHANGED <<outcome, commands, inHand, stopping, attached>>
        /\ UNCHANGED <<closing, session, sending, travel, link, menu, era, lost, sent,
                       answers, staged>>
        /\ owner' = "calling" /\ attached /\ SessionReady /\ SessionReady'
        /\ Kind[c] \in Queued /\ posting' = c
        /\ settled' = [settled EXCEPT ![c] = "pending"]
        /\ eraOf' = [eraOf EXCEPT ![c] = era]
    BY DEF CallAgent, Enqueue, clientVars, endings, SessionReady
  <1>3. settled \in [Calls -> {"none", "pending", "resolved", "rejected"}]
        /\ eraOf \in [Calls -> 0..MaxEra] /\ era \in 0..MaxEra
        /\ Size[c] \in Nat \ {0}
    BY <1>1, SizeAssumption DEF IInv, TypeOK, AgentTypeOK
  <1>4. /\ queue' = Batch(c) /\ Batch(c) \in Seq(Bodies) /\ Len(Batch(c)) = Size[c]
        /\ DOMAIN queue' = 1..Size[c]
        /\ Len(queue') <= MaxPending
        /\ \A i \in 1..Size[c] : /\ queue'[i].call = c /\ queue'[i].index = i
                                 /\ i > 1 => queue'[i].state = "waiting"
    <2>1. Batch(c) \in [1..Size[c] -> Bodies]
      BY <1>1, <1>3 DEF Batch, Bodies
    <2>2. Batch(c) \in Seq(Bodies) /\ Len(Batch(c)) = Size[c]
      BY <1>3, <2>1
    <2>3. queue' = Batch(c)
      BY <1>1, <2>2 DEF Enqueue
    <2>4. Size[c] <= MaxPending
      BY <1>1, <1>3, BoundsAssumption DEF Enqueue, Room
    <2>5. \A i \in 1..Size[c] : /\ Batch(c)[i].call = c /\ Batch(c)[i].index = i
                                /\ i > 1 => Batch(c)[i].state = "waiting"
      BY <1>3 DEF Batch
    <2>6. DOMAIN Batch(c) = 1..Size[c]
      BY DEF Batch
    <2> HIDE DEF c
    <2>7. QED
      BY <2>2, <2>3, <2>4, <2>5, <2>6
  <1>5. TypeOK'
    BY SMTT(30), <1>1, <1>2, <1>3, <1>4 DEF IInv, TypeOK, AgentTypeOK
  <1>6. HandInv' /\ CommandsInv' /\ SendingInv'
    BY <1>1, <1>2, <1>3, CallFrame
  <1>7. QueueInv'
    <2>1. BeingSent' = 0
      BY <1>1, <1>2, NoCallAssumption DEF BeingSent, NoBody
    <2>2. Len(sent'[c]) + BeingSent' + Len(queue') = Size[c]
      BY <1>1, <1>2, <1>3, <1>4, <2>1
    <2>3. settled'[c] = "pending" /\ eraOf'[c] = era
      BY <1>1, <1>2, <1>3 DEF IInv, TypeOK, AgentTypeOK
    <2>4. ASSUME NEW i \in DOMAIN queue'
          PROVE  /\ queue'[i].call = c
                 /\ queue'[i].index = Size[c] - Len(queue') + i
                 /\ i > 1 => queue'[i].state = "waiting"
      BY <1>3, <1>4
    <2>5. QED
      BY <1>2, <2>2, <2>3, <2>4 DEF QueueInv
  <1>8. SentInv' /\ InOrderOnce'
    BY <1>1, <1>2, <1>3 DEF IInv, SentInv, InOrderOnce
  <1>9. TravelInv'
    BY <1>1, <1>2, <1>3 DEF IInv, TravelInv, TypeOK, AgentTypeOK
  <1>10. DialogsArePaced'
    BY <1>3, <1>4 DEF DialogsArePaced
  <1>11. NothingCrossesALogin'
    <2>1. \A d \in Calls \ {c} : eraOf'[d] = eraOf[d]
      BY <1>2, <1>3
    <2>2. eraOf'[c] = era
      BY <1>1, <1>2, <1>3
    <2>3. staged # NoCall => staged \in Calls \ {c}
      BY <1>1 DEF IInv, TypeOK, AgentTypeOK
    <2>4. QED
      BY <1>2, <1>4, <2>1, <2>2, <2>3 DEF IInv, NothingCrossesALogin
  <1>12. QED
    BY <1>5, <1>6, <1>7, <1>8, <1>9, <1>10, <1>11 DEF IInv

(* The calls that the agent settles at once. *)
LEMMA AtOnceKeepsInv ==
  ASSUME IInv, CallAgent,
         \/ EnqueueRefused(inHand) \/ PressKey(inHand)
         \/ \E hasRow \in BOOLEAN : TravelNow(inHand, hasRow)
         \/ TravelOnMenu(inHand)
  PROVE  IInv'
  <1> DEFINE c == inHand
  <1>1. /\ c \in Calls /\ settled[c] = "none" /\ sent[c] = <<>> /\ queue = <<>>
        /\ outcome[c] \notin {"unsent", "receipt"} /\ posting = NoCall
        /\ sending # NoBody => sending.call \in Calls \ {c}
        /\ staged # c
    BY CallIsNew
  <1>2. /\ UNCHANGED <<outcome, commands, inHand, stopping, attached>>
        /\ owner' = "calling" /\ attached
    BY DEF CallAgent
  <1>3. /\ settled \in [Calls -> {"none", "pending", "resolved", "rejected"}]
        /\ eraOf \in [Calls -> 0..MaxEra] /\ era \in 0..MaxEra
        /\ sent \in [Calls -> Seq(Nat)]
    BY DEF IInv, TypeOK, AgentTypeOK
  <1>4. /\ UNCHANGED <<closing, session, queue, sending, posting, link, menu, era, lost,
                       answers>>
        /\ \E s \in {"resolved", "rejected"} : settled' = [settled EXCEPT ![c] = s]
        /\ eraOf' \in {eraOf, [eraOf EXCEPT ![c] = era]}
    BY DEF EnqueueRefused, PressKey, TravelNow, TravelOnMenu, clientVars, historyVars,
           endings
  <1>5. /\ settled' \in [Calls -> {"none", "pending", "resolved", "rejected"}]
        /\ settled'[c] \in {"resolved", "rejected"}
        /\ \A d \in Calls \ {c} : settled'[d] = settled[d]
    BY <1>1, <1>3, <1>4
  <1>6. /\ sent' \in [Calls -> Seq(Nat)]
        /\ \A d \in Calls \ {c} : sent'[d] = sent[d]
        /\ \/ /\ sent'[c] = <<>>
              /\ Kind[c] \in Queued \cup {"travel"} => settled'[c] = "rejected"
           \/ sent'[c] = <<1>> /\ Size[c] = 1
    <2>1. Append(<<>>, 1) = <<1>> /\ <<1>> \in Seq(Nat)
      OBVIOUS
    <2>2. CASE EnqueueRefused(c)
      BY <1>1, <1>3, <2>2 DEF EnqueueRefused, historyVars
    <2>3. CASE PressKey(c)
      BY <1>1, <1>3, <2>3 DEF PressKey, historyVars, Queued
    <2>4. CASE TravelOnMenu(c)
      BY <1>1, <1>3, <2>4 DEF TravelOnMenu, Queued
    <2>5. ASSUME NEW hasRow \in BOOLEAN, TravelNow(c, hasRow)
          PROVE  /\ sent' \in [Calls -> Seq(Nat)]
                 /\ \A d \in Calls \ {c} : sent'[d] = sent[d]
                 /\ \/ /\ sent'[c] = <<>>
                       /\ Kind[c] \in Queued \cup {"travel"} => settled'[c] = "rejected"
                    \/ sent'[c] = <<1>> /\ Size[c] = 1
      <3>1. Size[c] = 1
        BY <1>1, <2>5, OneBodyAssumption DEF TravelNow
      <3>2. CASE sent' = sent /\ settled' = [settled EXCEPT ![c] = "rejected"]
        BY <1>1, <1>3, <3>2
      <3>3. CASE sent' = [sent EXCEPT ![c] = Append(@, 1)]
        BY <1>1, <1>3, <2>1, <3>1, <3>3
      <3>4. QED
        BY <2>5, <3>2, <3>3 DEF TravelNow
    <2>6. QED
      BY <2>2, <2>3, <2>4, <2>5
  <1>7. /\ \/ travel' = travel /\ staged' = staged
           \/ travel' = "none" /\ staged' = NoCall
           \/ /\ travel' = "staged" /\ staged' = c /\ Kind[c] = "travelOnMenu"
              /\ settled'[c] = "resolved" /\ sent' = sent /\ eraOf'[c] = era
    BY <1>1, <1>3 DEF EnqueueRefused, PressKey, TravelNow, TravelOnMenu, historyVars
  <1> HIDE DEF c
  <1>8. TypeOK'
    <2>1. eraOf' \in [Calls -> 0..MaxEra]
      BY <1>1, <1>3, <1>4
    <2>2. travel' \in {"none", "staged", "observed"} /\ staged' \in Calls \cup {NoCall}
      BY <1>1, <1>7 DEF IInv, TypeOK, AgentTypeOK
    <2>3. QED
      BY <1>2, <1>4, <1>5, <1>6, <2>1, <2>2 DEF IInv, TypeOK, AgentTypeOK
  <1>9. HandInv' /\ CommandsInv' /\ SendingInv'
    BY <1>1, <1>4, <1>5, <1>6, CallFrame DEF c
  <1>10. QueueInv' /\ DialogsArePaced'
    BY <1>1, <1>4 DEF QueueInv, DialogsArePaced
  <1>11. SentInv'
    <2>1. Len(<<1>>) = 1
      OBVIOUS
    <2>2. QED
      BY <1>1, <1>2, <1>5, <1>6, <2>1 DEF IInv, SentInv
  <1>12. InOrderOnce'
    <2>1. /\ Len(<<>>) = 0 /\ <<>> = [i \in 1..0 |-> i]
          /\ Len(<<1>>) = 1 /\ <<1>> = [i \in 1..1 |-> i]
      OBVIOUS
    <2>2. ASSUME NEW d \in Calls
          PROVE  Len(sent'[d]) <= Size[d] /\ sent'[d] = [i \in 1..Len(sent'[d]) |-> i]
      <3>1. CASE d # c
        BY <1>6, <3>1 DEF IInv, InOrderOnce
      <3>2. CASE d = c /\ sent'[c] = <<>>
        BY <2>1, <3>2, SizeAssumption
      <3>3. CASE d = c /\ sent'[c] = <<1>> /\ Size[c] = 1
        BY <2>1, <3>3
      <3>4. QED
        BY <1>6, <3>1, <3>2, <3>3
    <2>3. QED
      BY <2>2 DEF InOrderOnce
  <1>13. TravelInv'
    <2>1. CASE travel' = travel /\ staged' = staged
      <3>1. staged # NoCall => staged \in Calls \ {c}
        BY <1>1 DEF IInv, TypeOK, AgentTypeOK
      <3>2. QED
        BY <1>5, <1>6, <2>1, <3>1 DEF IInv, TravelInv
    <2>2. CASE travel' = "none" /\ staged' = NoCall
      BY <2>2 DEF TravelInv
    <2>3. CASE /\ travel' = "staged" /\ staged' = c /\ Kind[c] = "travelOnMenu"
               /\ settled'[c] = "resolved" /\ sent' = sent
      BY <1>1, <2>3, NoCallAssumption DEF TravelInv
    <2>4. QED
      BY <1>7, <2>1, <2>2, <2>3
  <1>14. NothingCrossesALogin'
    <2>1. queue' = <<>>
      BY <1>1, <1>4
    <2>2. CASE travel' = travel /\ staged' = staged
      <3>1. staged # NoCall => staged \in Calls /\ eraOf'[staged] = eraOf[staged]
        BY <1>1, <1>3, <1>4 DEF IInv, TypeOK, AgentTypeOK
      <3>2. QED
        BY <1>4, <2>1, <2>2, <3>1 DEF IInv, NothingCrossesALogin
    <2>3. CASE travel' = "none" /\ staged' = NoCall
      BY <2>1, <2>3 DEF NothingCrossesALogin
    <2>4. CASE travel' = "staged" /\ staged' = c /\ eraOf'[c] = era
      BY <1>4, <2>1, <2>4 DEF NothingCrossesALogin
    <2>5. QED
      BY <1>7, <2>2, <2>3, <2>4
  <1>15. QED
    BY <1>8, <1>9, <1>10, <1>11, <1>12, <1>13, <1>14 DEF IInv

LEMMA CallKeepsInv ==
  ASSUME IInv, CallAgent PROVE IInv'
  BY EnqueueKeepsInv, AtOnceKeepsInv DEF CallAgent, Export

-----------------------------------------------------------------------------
(* What a script is told changes nothing else, unless it asks anew. *)
LEMMA OutcomeKeepsInv ==
  ASSUME IInv,
         UNCHANGED <<agentVars, owner, inHand, attached>>,
         stopping' \in BOOLEAN,
         outcome' \in [Calls -> {"unsent", "waiting", "receipt", "refused", "timeout",
                                 "stopped"}],
         \A c \in Calls : /\ outcome'[c] = "unsent" => outcome[c] = "unsent"
                          /\ outcome'[c] = "receipt" => outcome[c] = "receipt"
                          /\ c = inHand => outcome'[c] # "unsent",
         commands' \in Seq(Calls \cup {Shutdown}),
         CommandsInv'
  PROVE  IInv'
  <1> USE DEF IInv, agentVars, clientVars, historyVars, endings
  <1>1. TypeOK'
    BY SMTT(30) DEF TypeOK, AgentTypeOK
  <1>2. HandInv'
    BY DEF HandInv, TypeOK
  <1>3. QueueInv' /\ SendingInv' /\ DialogsArePaced'
    BY DEF QueueInv, SendingInv, BeingSent, SessionReady, DialogsArePaced
  <1>4. SentInv' /\ InOrderOnce'
    BY DEF SentInv, InOrderOnce
  <1>5. TravelInv' /\ NothingCrossesALogin'
    BY DEF TravelInv, NothingCrossesALogin
  <1>6. QED
    BY <1>1, <1>2, <1>3, <1>4, <1>5

LEMMA PerformKeepsInv ==
  ASSUME IInv, NEW c \in Calls, Perform(c) PROVE IInv'
  <1>1. /\ outcome[c] = "unsent" /\ settled[c] = "none" /\ c # inHand
        /\ UNCHANGED <<agentVars, owner, inHand, stopping, attached>>
        /\ UNCHANGED settled
    BY NoCallAssumption DEF IInv, Perform, CommandsInv, HandInv, agentVars
  <1>2. /\ outcome \in [Calls -> {"unsent", "waiting", "receipt", "refused", "timeout",
                                  "stopped"}]
        /\ commands \in Seq(Calls \cup {Shutdown}) /\ stopping \in BOOLEAN
        /\ c # Shutdown
    BY ShutdownAssumption DEF IInv, TypeOK
  <1>3. \E s \in {"stopped", "waiting"} : outcome' = [outcome EXCEPT ![c] = s]
    BY DEF Perform
  <1>4. /\ outcome' \in [Calls -> {"unsent", "waiting", "receipt", "refused", "timeout",
                                   "stopped"}]
        /\ outcome'[c] \in {"stopped", "waiting"}
        /\ \A d \in Calls \ {c} : outcome'[d] = outcome[d]
    BY <1>2, <1>3
  <1>5. commands' \in {commands, Append(commands, c)}
    BY DEF Perform
  <1>6. commands' \in Seq(Calls \cup {Shutdown})
    BY <1>2, <1>5
  <1>7. CommandsInv'
    <2>1. \A d \in Calls : outcome'[d] = "unsent" => settled'[d] = "none"
      BY <1>1, <1>4 DEF IInv, CommandsInv
    <2>2. ASSUME NEW i \in DOMAIN commands, commands[i] # Shutdown
          PROVE  commands[i] \in Calls \ {c}
      <3>1. commands[i] \in Calls
        BY <1>2, <2>2
      <3>2. QED
        BY <1>1, <2>2, <3>1 DEF IInv, CommandsInv
    <2>3. CASE commands' = commands
      <3>1. \A i \in DOMAIN commands : commands[i] # Shutdown =>
                 outcome'[commands[i]] = outcome[commands[i]]
        BY <1>4, <2>2
      <3>2. QED
        BY <1>1, <2>1, <2>3, <3>1 DEF IInv, CommandsInv
    <2>4. CASE commands' = Append(commands, c)
      <3> DEFINE n == Len(commands)
      <3>1. /\ n \in Nat /\ DOMAIN commands' = 1..(n + 1) /\ DOMAIN commands = 1..n
            /\ commands'[n + 1] = c
            /\ \A i \in 1..n : commands'[i] = commands[i]
        BY <1>2, <2>4
      <3> HIDE DEF n
      <3>2. ASSUME NEW i \in DOMAIN commands', commands'[i] # Shutdown
            PROVE  /\ settled'[commands'[i]] = "none"
                   /\ outcome'[commands'[i]] # "unsent"
                   /\ commands'[i] # inHand'
        <4>1. CASE i = n + 1
          BY <1>1, <1>4, <3>1, <4>1
        <4>2. CASE i # n + 1
          <5>1. i \in DOMAIN commands /\ commands'[i] = commands[i]
            BY <3>1, <4>2
          <5>2. QED
            BY <1>1, <1>4, <2>2, <3>2, <5>1 DEF IInv, CommandsInv
        <4>3. QED
          BY <4>1, <4>2
      <3>3. ASSUME NEW i \in DOMAIN commands', NEW j \in DOMAIN commands',
                   commands'[i] = commands'[j], commands'[i] # Shutdown
            PROVE  i = j
        <4>1. CASE i \in DOMAIN commands /\ j \in DOMAIN commands
          BY <3>1, <3>3, <4>1 DEF IInv, CommandsInv
        <4>2. CASE i = n + 1 \/ j = n + 1
          BY <2>2, <3>1, <3>3, <4>2
        <4>3. QED
          BY <3>1, <4>1, <4>2
      <3>4. QED
        BY <2>1, <3>2, <3>3 DEF CommandsInv
    <2>5. QED
      BY <1>5, <2>3, <2>4
  <1>8. ASSUME NEW d \in Calls
        PROVE  /\ outcome'[d] = "unsent" => outcome[d] = "unsent"
               /\ outcome'[d] = "receipt" => outcome[d] = "receipt"
               /\ d = inHand => outcome'[d] # "unsent"
    BY <1>1, <1>4, NoCallAssumption DEF IInv, HandInv
  <1>9. stopping' \in BOOLEAN
    BY <1>1, <1>2
  <1>10. QED
    BY <1>1, <1>4, <1>6, <1>7, <1>8, <1>9, OutcomeKeepsInv

LEMMA TimeoutKeepsInv ==
  ASSUME IInv, NEW c \in Calls, DispatchTimeout(c) PROVE IInv'
  <1>1. /\ outcome[c] = "waiting" /\ outcome' = [outcome EXCEPT ![c] = "timeout"]
        /\ UNCHANGED <<agentVars, commands, owner, inHand, stopping, attached>>
        /\ UNCHANGED settled
    BY DEF DispatchTimeout, agentVars
  <1>2. /\ outcome \in [Calls -> {"unsent", "waiting", "receipt", "refused", "timeout",
                                  "stopped"}]
        /\ commands \in Seq(Calls \cup {Shutdown}) /\ stopping \in BOOLEAN
    BY DEF IInv, TypeOK
  <1>3. /\ outcome' \in [Calls -> {"unsent", "waiting", "receipt", "refused", "timeout",
                                   "stopped"}]
        /\ \A d \in Calls : /\ outcome'[d] = "unsent" <=> outcome[d] = "unsent"
                            /\ outcome'[d] = "receipt" => outcome[d] = "receipt"
    BY <1>1, <1>2
  <1>4. \A d \in Calls : d = inHand => outcome'[d] # "unsent"
    BY <1>3, NoCallAssumption DEF IInv, HandInv
  <1>5. \A i \in DOMAIN commands : commands[i] # Shutdown => commands[i] \in Calls
    BY <1>2
  <1>6. CommandsInv'
    BY <1>1, <1>3, <1>5 DEF IInv, CommandsInv
  <1>7. QED
    BY <1>1, <1>2, <1>3, <1>4, <1>6, OutcomeKeepsInv

LEMMA ShutdownKeepsInv ==
  ASSUME IInv, RequestShutdown PROVE IInv'
  <1>1. /\ UNCHANGED <<agentVars, outcome, owner, inHand, attached>>
        /\ UNCHANGED settled /\ stopping' \in BOOLEAN
        /\ commands' \in {commands, Append(commands, Shutdown)}
    BY DEF RequestShutdown, agentVars
  <1>2. /\ outcome \in [Calls -> {"unsent", "waiting", "receipt", "refused", "timeout",
                                  "stopped"}]
        /\ commands \in Seq(Calls \cup {Shutdown})
    BY DEF IInv, TypeOK
  <1>3. commands' \in Seq(Calls \cup {Shutdown})
    BY <1>1, <1>2
  <1>4. \A i \in DOMAIN commands' : commands'[i] # Shutdown =>
          i \in DOMAIN commands /\ commands'[i] = commands[i]
    BY <1>1, <1>2
  <1>5. CommandsInv'
    BY <1>1, <1>4 DEF IInv, CommandsInv
  <1>6. \A d \in Calls : d = inHand => outcome[d] # "unsent"
    BY NoCallAssumption DEF IInv, HandInv
  <1>7. QED
    BY <1>1, <1>2, <1>3, <1>5, <1>6, OutcomeKeepsInv

LEMMA TakeKeepsInv ==
  ASSUME IInv, TakeAction PROVE IInv'
  <1> USE DEF TakeAction, agentVars, clientVars, historyVars, endings
  <1>1. commands \in Seq(Calls \cup {Shutdown}) /\ commands # <<>>
    BY DEF IInv, TypeOK
  <1>2. /\ inHand' = commands[1] /\ commands[1] \in Calls /\ commands[1] # Shutdown
        /\ commands' \in Seq(Calls \cup {Shutdown})
        /\ Len(commands) \in Nat \ {0}
        /\ DOMAIN commands = 1..Len(commands) /\ DOMAIN commands' = 1..(Len(commands) - 1)
        /\ \A i \in DOMAIN commands' : commands'[i] = commands[i + 1]
    BY <1>1
  <1>3. 1 \in DOMAIN commands /\ \A i \in DOMAIN commands' : i + 1 \in DOMAIN commands
    BY <1>2
  <1>4. /\ settled[commands[1]] = "none" /\ outcome[commands[1]] # "unsent"
        /\ owner' \in {"priming", "ready"} /\ owner = "receiving"
    BY <1>2, <1>3 DEF IInv, CommandsInv
  <1>5. queue = <<>> /\ posting = NoCall
    BY <1>4 DEF IInv, QueueInv, HandInv
  <1>6. TypeOK'
    <2>1. inHand' \in Calls /\ owner' \in {"priming", "ready"}
      BY <1>2, <1>4
    <2>2. UNCHANGED <<agentVars, outcome, stopping, attached>>
      OBVIOUS
    <2>3. commands' \in Seq(Calls \cup {Shutdown})
      BY <1>2
    <2>4. AgentTypeOK'
      BY <2>2 DEF IInv, TypeOK, AgentTypeOK
    <2> HIDE DEF TakeAction
    <2>5. QED
      BY <2>1, <2>2, <2>3, <2>4 DEF IInv, TypeOK
  <1>7. HandInv'
    BY <1>2, <1>4, <1>5, NoCallAssumption DEF HandInv
  <1>8. CommandsInv'
    <2>1. ASSUME NEW i \in DOMAIN commands', commands'[i] # Shutdown
          PROVE  /\ settled[commands'[i]] = "none"
                 /\ outcome[commands'[i]] # "unsent"
                 /\ commands'[i] # commands[1]
      <3>1. i + 1 \in DOMAIN commands /\ commands'[i] = commands[i + 1] /\ i + 1 # 1
        BY <1>2, <1>3
      <3>2. QED
        BY <1>3, <2>1, <3>1 DEF IInv, CommandsInv
    <2>2. ASSUME NEW i \in DOMAIN commands', NEW j \in DOMAIN commands',
                 commands'[i] = commands'[j], commands'[i] # Shutdown
          PROVE  i = j
      <3>1. i + 1 = j + 1
        BY <1>2, <1>3, <2>2 DEF IInv, CommandsInv
      <3>2. QED
        BY <1>2, <3>1
    <2>3. \A c \in Calls : outcome[c] = "unsent" => settled[c] = "none"
      BY DEF IInv, CommandsInv
    <2>4. QED
      BY <1>2, <2>1, <2>2, <2>3 DEF CommandsInv
  <1>9. QueueInv' /\ DialogsArePaced'
    BY <1>5 DEF QueueInv, DialogsArePaced
  <1>10. SendingInv'
    BY <1>4 DEF IInv, SendingInv
  <1>11. SentInv' /\ InOrderOnce' /\ TravelInv' /\ NothingCrossesALogin'
    BY DEF IInv, SentInv, InOrderOnce, TravelInv, NothingCrossesALogin
  <1>12. QED
    BY <1>6, <1>7, <1>8, <1>9, <1>10, <1>11 DEF IInv

LEMMA PrimedKeepsInv ==
  ASSUME IInv, Primed PROVE IInv'
  <1> USE DEF Primed, agentVars, clientVars, historyVars, endings
  <1>1. TypeOK'
    BY DEF IInv, TypeOK, AgentTypeOK
  <1>2. HandInv' /\ CommandsInv'
    BY DEF IInv, HandInv, CommandsInv
  <1>3. QueueInv' /\ DialogsArePaced'
    BY DEF IInv, QueueInv, DialogsArePaced
  <1>4. SendingInv' /\ SentInv' /\ InOrderOnce' /\ TravelInv' /\ NothingCrossesALogin'
    BY DEF IInv, SendingInv, SentInv, InOrderOnce, TravelInv, NothingCrossesALogin
  <1>5. QED
    BY <1>1, <1>2, <1>3, <1>4 DEF IInv

(* The owner lets go of a call that has nothing left in the agent. *)
LEMMA FinishKeepsInv ==
  ASSUME IInv, NEW answer \in {"receipt", "refused"}, Finish(answer),
         owner \in {"priming", "ready", "calling"},
         posting = NoCall, queue = <<>>,
         sending.call = inHand => settled[inHand] # "pending",
         answer = "receipt" => settled[inHand] = "resolved"
  PROVE  IInv'
  <1> USE DEF Finish, agentVars, clientVars, historyVars, endings
  <1>1. /\ inHand \in Calls /\ outcome[inHand] # "unsent"
    BY DEF IInv, HandInv, TypeOK
  <1>2. outcome \in [Calls -> {"unsent", "waiting", "receipt", "refused", "timeout",
                               "stopped"}]
    BY DEF IInv, TypeOK
  <1>3. /\ outcome' \in [Calls -> {"unsent", "waiting", "receipt", "refused", "timeout",
                                   "stopped"}]
        /\ \A d \in Calls : /\ outcome'[d] = "unsent" <=> outcome[d] = "unsent"
                            /\ outcome'[d] = "receipt" =>
                                 outcome[d] = "receipt" \/ settled[d] = "resolved"
    BY <1>1, <1>2 DEF Answered
  <1>4. TypeOK'
    BY <1>3 DEF IInv, TypeOK, AgentTypeOK
  <1>5. HandInv'
    BY DEF HandInv
  <1>6. CommandsInv'
    <2>1. \A i \in DOMAIN commands : commands[i] # Shutdown => commands[i] \in Calls
      BY DEF IInv, TypeOK
    <2>2. QED
      BY <1>3, <2>1, NoCallAssumption DEF IInv, CommandsInv
  <1>7. QueueInv' /\ DialogsArePaced'
    BY DEF QueueInv, DialogsArePaced
  <1>8. SendingInv'
    BY DEF IInv, SendingInv
  <1>9. SentInv'
    BY <1>3 DEF IInv, SentInv
  <1>10. InOrderOnce' /\ TravelInv' /\ NothingCrossesALogin'
    BY DEF IInv, InOrderOnce, TravelInv, NothingCrossesALogin
  <1>11. QED
    BY <1>4, <1>5, <1>6, <1>7, <1>8, <1>9, <1>10 DEF IInv

LEMMA AnswerKeepsInv ==
  ASSUME IInv, SessionUnavailable \/ CallReturns \/ CallBroken PROVE IInv'
  <1>1. CASE SessionUnavailable
    <2>1. owner = "priming" /\ Finish("refused")
      BY <1>1 DEF SessionUnavailable
    <2>2. /\ posting = NoCall /\ queue = <<>>
          /\ sending.call = inHand => settled[inHand] # "pending"
      BY <2>1 DEF IInv, HandInv, QueueInv
    <2>3. QED
      BY <2>1, <2>2, FinishKeepsInv
  <1>2. CASE CallReturns
    <2>1. /\ owner = "calling" /\ posting = NoCall
          /\ settled[inHand] \in {"resolved", "rejected"}
          /\ \/ settled[inHand] = "resolved" /\ Finish("receipt")
             \/ Finish("refused")
      BY <1>2 DEF CallReturns
    <2>2. queue = <<>>
      BY <2>1 DEF IInv, QueueInv
    <2>3. QED
      BY <2>1, <2>2, FinishKeepsInv
  <1>3. CASE CallBroken
    <2>1. owner \in {"priming", "ready", "calling"} /\ ~attached /\ Finish("refused")
      BY <1>3 DEF CallBroken
    <2>2. queue = <<>> /\ posting = NoCall /\ sending = NoBody /\ inHand # NoCall
      BY <2>1 DEF IInv, QueueInv, HandInv, SendingInv
    <2>3. sending.call # inHand
      BY <2>2 DEF NoBody
    <2>4. QED
      BY <2>1, <2>2, <2>3, FinishKeepsInv
  <1>4. QED
    BY <1>1, <1>2, <1>3

(* A script that is gone leaves the agent as it was before it came, and the *)
(* owner with the call it has in hand, if any.                              *)
LEMMA GoneKeepsInv ==
  ASSUME IInv, AgentGone,
         UNCHANGED <<inHand, stopping>>, attached' \in BOOLEAN,
         owner' \in {owner, "stopped"}, owner' # owner => inHand = NoCall,
         commands' \in {commands, <<>>},
         outcome' \in [Calls -> {"unsent", "waiting", "receipt", "refused", "timeout",
                                 "stopped"}],
         \A c \in Calls : /\ outcome'[c] = "unsent" <=> outcome[c] = "unsent"
                          /\ outcome'[c] = "receipt" <=> outcome[c] = "receipt"
  PROVE  IInv'
  <1> USE DEF AgentGone
  <1>1. TypeOK'
    <2>1. queue' \in Seq(Bodies) /\ Len(queue') <= MaxPending /\ era' \in 0..MaxEra
      BY BoundsAssumption
    <2>2. eraOf' \in [Calls -> 0..MaxEra] /\ answers' \in [Calls -> Nat]
      BY BoundsAssumption
    <2>3. commands' \in Seq(Calls \cup {Shutdown})
      <3>1. commands \in Seq(Calls \cup {Shutdown})
        BY DEF IInv, TypeOK
      <3>2. CASE commands' = <<>>
        BY <3>2
      <3>3. CASE commands' = commands
        BY <3>1, <3>3
      <3>4. QED
        BY <3>2, <3>3
    <2>4. QED
      BY <2>1, <2>2, <2>3 DEF IInv, TypeOK, AgentTypeOK
  <1>2. HandInv'
    BY DEF IInv, HandInv, TypeOK
  <1>3. CommandsInv'
    <2>1. \A i \in DOMAIN commands : commands[i] # Shutdown => commands[i] \in Calls
      BY DEF IInv, TypeOK
    <2>2. QED
      BY <2>1 DEF IInv, CommandsInv
  <1>4. QueueInv' /\ SendingInv' /\ DialogsArePaced' /\ TravelInv'
    BY DEF QueueInv, SendingInv, DialogsArePaced, TravelInv
  <1>5. SentInv' /\ InOrderOnce' /\ NothingCrossesALogin'
    BY DEF IInv, SentInv, InOrderOnce, NothingCrossesALogin
  <1>6. QED
    BY <1>1, <1>2, <1>3, <1>4, <1>5 DEF IInv

LEMMA StopKeepsInv ==
  ASSUME IInv, Stop \/ Detach PROVE IInv'
  <1>1. outcome \in [Calls -> {"unsent", "waiting", "receipt", "refused", "timeout",
                               "stopped"}]
        /\ attached \in BOOLEAN
    BY DEF IInv, TypeOK
  <1>2. CASE Stop
    <2>1. /\ AgentGone /\ UNCHANGED <<inHand, stopping, attached>>
          /\ owner' = "stopped" /\ owner = "receiving" /\ commands' = <<>>
          /\ outcome' = [c \in Calls |->
                           IF outcome[c] = "waiting" THEN "stopped" ELSE outcome[c]]
      BY <1>2 DEF Stop
    <2>2. inHand = NoCall
      BY <2>1 DEF IInv, HandInv
    <2>3. /\ outcome' \in [Calls -> {"unsent", "waiting", "receipt", "refused", "timeout",
                                     "stopped"}]
          /\ \A c \in Calls : /\ outcome'[c] = "unsent" <=> outcome[c] = "unsent"
                              /\ outcome'[c] = "receipt" <=> outcome[c] = "receipt"
      BY <1>1, <2>1
    <2>4. QED
      BY <1>1, <2>1, <2>2, <2>3, GoneKeepsInv
  <1>3. CASE Detach
    <2>1. /\ AgentGone /\ UNCHANGED <<outcome, commands, owner, inHand, stopping>>
          /\ attached' = FALSE
      BY <1>3 DEF Detach
    <2>2. QED
      BY <1>1, <2>1, GoneKeepsInv
  <1>4. QED
    BY <1>2, <1>3

-----------------------------------------------------------------------------
(* The inductive invariant: the queue is always what remains of the batch   *)
(* of the one call the owner has in hand.                                   *)
THEOREM InvHolds == Spec => []IInv
  <1>1. Init => IInv
    <2> USE DEF Init, AgentInit
    <2>1. ASSUME Init PROVE TypeOK
      <3>1. queue \in Seq(Bodies) /\ Len(queue) <= MaxPending /\ era \in 0..MaxEra
        BY <2>1, BoundsAssumption
      <3>2. eraOf \in [Calls -> 0..MaxEra] /\ answers \in [Calls -> Nat]
        BY <2>1, BoundsAssumption
      <3>3. sent \in [Calls -> Seq(Nat)] /\ commands \in Seq(Calls \cup {Shutdown})
        BY <2>1
      <3>4. QED
        BY <2>1, <3>1, <3>2, <3>3 DEF TypeOK, AgentTypeOK
    <2>2. ASSUME Init PROVE HandInv /\ CommandsInv /\ QueueInv /\ SendingInv
      BY <2>2 DEF HandInv, CommandsInv, QueueInv, SendingInv
    <2>3. ASSUME Init PROVE SentInv /\ TravelInv /\ DialogsArePaced /\ NothingCrossesALogin
      BY <2>3 DEF SentInv, TravelInv, DialogsArePaced, NothingCrossesALogin
    <2>4. ASSUME Init PROVE InOrderOnce
      <3>1. Len(<<>>) = 0 /\ <<>> = [i \in 1..0 |-> i]
        OBVIOUS
      <3>2. ASSUME NEW c \in Calls
            PROVE  Len(sent[c]) <= Size[c] /\ sent[c] = [i \in 1..Len(sent[c]) |-> i]
        <4>1. sent[c] = <<>> /\ Size[c] \in Nat
          BY <2>4, SizeAssumption
        <4>2. QED
          BY <3>1, <4>1
      <3>3. QED
        BY <3>2 DEF InOrderOnce
    <2>5. QED
      BY <2>1, <2>2, <2>3, <2>4 DEF IInv
  <1>2. IInv /\ [Next]_vars => IInv'
    <2>1. SUFFICES ASSUME IInv, [Next]_vars PROVE IInv'
      OBVIOUS
    <2>2. CASE ScriptStep
      BY <2>1, <2>2, PerformKeepsInv, TimeoutKeepsInv, ShutdownKeepsInv DEF ScriptStep
    <2>3. CASE OwnerStep
      BY <2>1, <2>3, TakeKeepsInv, PrimedKeepsInv, CallKeepsInv, AnswerKeepsInv,
         StopKeepsInv DEF OwnerStep
    <2>4. CASE AgentDoes(AgentStep)
      <3>1. CASE AgentDoes(WakePosted \/ WakeFails \/ Flush \/ SettleElapses)
        BY <2>1, <3>1, WakeKeepsInv, WakeFailsKeepsInv, FlushBeginKeepsInv,
           FlushEndKeepsInv, FlushFailsKeepsInv, SettleKeepsInv DEF AgentDoes, Flush
      <3>2. CASE AgentDoes(ClientStep)
        BY <2>1, <3>2, LoginKeepsInv, ClosedKeepsInv, OtherTrafficKeepsInv,
           AttackKeepsInv, DialogKeepsInv, SelectorKeepsInv DEF AgentDoes, ClientStep
      <3>3. QED
        BY <2>4, <3>1, <3>2 DEF AgentDoes, AgentStep
    <2>5. CASE Detach
      BY <2>1, <2>5, StopKeepsInv
    <2>6. CASE UNCHANGED vars
      <3> USE <2>6 DEF vars, agentVars, clientVars, historyVars, endings, ownerVars
      <3>1. TypeOK'
        BY SMTT(30), <2>1 DEF IInv, TypeOK, AgentTypeOK
      <3>2. QED
        BY <2>1, <3>1, QuietStep DEF SessionReady
    <2>7. QED
      BY <2>1, <2>2, <2>3, <2>4, <2>5, <2>6 DEF Next
  <1>3. QED
    BY <1>1, <1>2, PTL DEF Spec

(* Every variable has its type, and the agent's queue never exceeds         *)
(* MAX_PENDING_PLAINTEXT_BODIES.                                            *)
THEOREM TypesHold == Spec => []TypeOK
  <1>1. IInv => TypeOK
    BY DEF IInv
  <1>2. QED
    BY <1>1, InvHolds, PTL

(* However calls, network hooks, wakes, failures, logins and closes of the  *)
(* socket interleave, the bodies of a call are sent in order and at most    *)
(* once each.                                                               *)
THEOREM SentInOrderOnce == Spec => []InOrderOnce
  <1>1. IInv => InOrderOnce
    BY DEF IInv
  <1>2. QED
    BY <1>1, InvHolds, PTL

(* A receipt of the owner means that the client took every body of the      *)
(* transaction.                                                             *)
THEOREM ReceiptsMeanSent == Spec => []ReceiptMeansSent
  <1>1. IInv => ReceiptMeansSent
    BY DEF IInv, SentInv, ReceiptMeansSent
  <1>2. QED
    BY <1>1, InvHolds, PTL

-----------------------------------------------------------------------------
(* While the wake of a batch is under way, only its first body can become   *)
(* ready or be sent: no timer makes the next one ready before it.  So a     *)
(* rejected body that is still being sent is the first of its batch.        *)
WakeInv ==
  /\ posting # NoCall =>
       /\ \A i \in DOMAIN queue : queue[i].state = "ready" => queue[i].index = 1
       /\ sending.call = posting => sending.index = 1
  /\ sending # NoBody /\ settled[sending.call] = "rejected" => sending.index = 1

(* A step that sends nothing, rejects nothing and starts no wake. *)
LEMMA WakeFrame ==
  ASSUME WakeInv,
         posting' \in {posting, NoCall},
         sending' = NoBody \/ (sending' = sending /\ settled' = settled),
         posting' # NoCall => queue' = <<>> \/ queue' = queue
  PROVE  WakeInv'
  <1>1. sending' = NoBody => sending'.call = NoCall
    BY DEF NoBody
  <1>2. QED
    BY <1>1 DEF WakeInv

(* The calls of the agent: a batch begins with its first body ready. *)
LEMMA CallKeepsWake ==
  ASSUME IInv, WakeInv, CallAgent PROVE WakeInv'
  <1> DEFINE c == inHand
  <1>1. /\ c \in Calls /\ queue = <<>> /\ posting = NoCall
        /\ sending # NoBody => sending.call \in Calls \ {c}
    BY CallIsNew
  <1>2. settled \in [Calls -> {"none", "pending", "resolved", "rejected"}]
    BY DEF IInv, TypeOK, AgentTypeOK
  <1>3. /\ sending' = sending
        /\ \E s \in {"pending", "resolved", "rejected"} :
             settled' = [settled EXCEPT ![c] = s]
    BY DEF CallAgent, Export, Enqueue, EnqueueRefused, PressKey, TravelNow, TravelOnMenu
  <1>4. sending' # NoBody => settled'[sending'.call] = settled[sending.call]
    BY <1>1, <1>2, <1>3
  <1>5. CASE Enqueue(c)
    <2>1. posting' = c /\ queue' = <<>> \o Batch(c)
      BY <1>1, <1>5 DEF Enqueue
    <2>2. Size[c] \in Nat \ {0} /\ c # NoCall
      BY <1>1, SizeAssumption, NoCallAssumption
    <2>3. queue' = Batch(c) /\ DOMAIN queue' = 1..Size[c]
      BY <2>1, <2>2 DEF Batch
    <2>4. \A i \in DOMAIN queue' : queue'[i].state = "ready" => queue'[i].index = 1
      BY <2>3 DEF Batch
    <2>5. sending'.call # c
      BY <1>1, <1>3, <2>2 DEF NoBody
    <2>6. QED
      BY <1>3, <1>4, <2>1, <2>4, <2>5 DEF WakeInv
  <1>6. CASE ~Enqueue(c)
    <2>1. posting' = NoCall
      BY <1>1, <1>6 DEF CallAgent, Export, EnqueueRefused, PressKey, TravelNow,
                        TravelOnMenu
    <2>2. QED
      BY <1>3, <1>4, <2>1 DEF WakeInv
  <1>7. QED
    BY <1>5, <1>6

(* The steps of the agent's own callbacks. *)
LEMMA CallbacksKeepWake ==
  ASSUME IInv, WakeInv,
         AgentDoes(WakePosted \/ WakeFails \/ Flush \/ SettleElapses)
  PROVE  WakeInv'
  <1>1. CASE AgentDoes(WakePosted)
    BY <1>1, WakeFrame DEF AgentDoes, WakePosted
  <1>2. CASE AgentDoes(WakeFails)
    <2>1. posting \in Calls /\ Reject(posting) /\ posting' = NoCall /\ sending' = sending
      BY <1>2 DEF AgentDoes, WakeFails, IInv, TypeOK, AgentTypeOK
    <2>2. settled' = [settled EXCEPT ![posting] =
                        IF @ = "pending" THEN "rejected" ELSE @]
      BY <2>1 DEF Reject
    <2>3. ASSUME sending # NoBody PROVE sending.call \in Calls
      BY <2>3 DEF IInv, TypeOK, AgentTypeOK, Bodies
    <2>4. settled \in [Calls -> {"none", "pending", "resolved", "rejected"}]
      BY DEF IInv, TypeOK, AgentTypeOK
    <2>5. sending # NoBody /\ sending.call # posting =>
            settled'[sending.call] = settled[sending.call]
      BY <2>1, <2>2, <2>3, <2>4
    <2>6. posting # NoCall
      BY <2>1, NoCallAssumption
    <2>7. QED
      BY <2>1, <2>5, <2>6 DEF WakeInv
  <1>3. CASE AgentDoes(FlushBegin)
    <2>1. queue # <<>> /\ queue[1].state = "ready"
      BY <1>3 DEF AgentDoes, FlushBegin, Head0, NoBody
    <2>2. /\ sending' = queue[1] /\ queue' = Tail(queue)
          /\ UNCHANGED <<posting, settled>>
      BY <1>3, <2>1 DEF AgentDoes, FlushBegin
    <2>3. /\ \A i \in DOMAIN queue' : i + 1 \in DOMAIN queue /\ queue'[i] = queue[i + 1]
          /\ 1 \in DOMAIN queue
      BY <2>1, <2>2 DEF IInv, TypeOK, AgentTypeOK
    <2>4. settled[queue[1].call] = "pending"
      BY <2>1, <2>3 DEF IInv, QueueInv
    <2>5. QED
      BY <2>1, <2>2, <2>3, <2>4 DEF WakeInv
  <1>4. CASE AgentDoes(FlushEnd)
    BY <1>4, WakeFrame DEF AgentDoes, FlushEnd
  <1>5. CASE AgentDoes(FlushFails)
    <2>1. sending # NoBody /\ sending.call \in Calls /\ Reject(sending.call)
      BY <1>5 DEF AgentDoes, FlushFails, IInv, TypeOK, AgentTypeOK, Bodies
    <2>2. queue' = <<>> \/ queue' = queue
      BY <2>1, RejectClears
    <2>3. QED
      BY <1>5, <2>2, WakeFrame DEF AgentDoes, FlushFails
  <1>6. CASE AgentDoes(SettleElapses)
    BY <1>6, WakeFrame DEF AgentDoes, SettleElapses
  <1>7. QED
    BY <1>1, <1>2, <1>3, <1>4, <1>5, <1>6 DEF AgentDoes, Flush

(* What client, server and socket do.  All but the socket's close happen    *)
(* while nothing is sent, and none of it makes a body ready.                *)
LEMMA ClientKeepsWake ==
  ASSUME IInv, WakeInv, AgentDoes(ClientStep) PROVE WakeInv'
  <1>1. queue \in Seq(Bodies)
    BY DEF IInv, TypeOK, AgentTypeOK
  <1>2. posting' = posting /\ sending' = sending
    BY DEF AgentDoes, ClientStep, NativeLogin, NativeLogout, NativeAttack, NativeOther,
           Established, IncomingOther, IncomingMenu, IncomingDialog, TransportClosed,
           SelectorConstructed, SelectorDestroyed
  <1>3. CASE NativeLogin \/ NativeLogout
    BY <1>2, <1>3, WakeFrame DEF NativeLogin, NativeLogout, FailAll, Idle
  <1>4. CASE NativeAttack
    <2>1. CASE queue' = queue
      BY <1>2, <1>4, <2>1, WakeFrame DEF NativeAttack, Idle
    <2>2. CASE queue # <<>> /\ queue' = Tail(queue)
      <3>1. \A i \in DOMAIN queue' :
              i + 1 \in DOMAIN queue /\ queue'[i] = queue[i + 1]
        BY <1>1, <2>2
      <3>2. sending' = NoBody /\ sending'.call = NoCall
        BY <1>2, <1>4 DEF NativeAttack, Idle, NoBody
      <3>3. QED
        BY <1>2, <3>1, <3>2 DEF WakeInv
    <2>3. QED
      BY <1>4, <2>1, <2>2 DEF NativeAttack, Head0
  <1>5. CASE IncomingDialog
    <2>1. \A i \in DOMAIN queue' :
            /\ i \in DOMAIN queue
            /\ queue'[i].state = "ready" =>
                 queue[i].state = "ready" /\ queue'[i].index = queue[i].index
      <3>1. CASE queue' = queue
        BY <3>1
      <3>2. CASE queue # <<>> /\ queue' = [queue EXCEPT ![1].state = "settling"]
        <4>1. /\ DOMAIN queue' = DOMAIN queue /\ 1 \in DOMAIN queue
              /\ queue'[1] = [queue[1] EXCEPT !.state = "settling"]
              /\ \A i \in DOMAIN queue \ {1} : queue'[i] = queue[i]
          BY <1>1, <3>2
        <4>2. queue'[1].state = "settling"
          BY <1>1, <4>1 DEF Bodies
        <4>3. QED
          BY <4>1, <4>2
      <3>3. QED
        BY <1>5, <3>1, <3>2 DEF IncomingDialog, Head0, NoBody
    <2>2. sending' = NoBody /\ sending'.call = NoCall
      BY <1>2, <1>5 DEF IncomingDialog, Established, Idle, NoBody
    <2>3. QED
      BY <1>2, <2>1, <2>2 DEF WakeInv
  <1>6. CASE TransportClosed
    BY <1>2, <1>6, WakeFrame DEF TransportClosed
  <1>7. CASE NativeOther \/ IncomingOther \/ IncomingMenu \/ SelectorDestroyed
             \/ \E row \in {"submitted", "absent", "failed"} : SelectorConstructed(row)
    BY <1>2, <1>7, WakeFrame
       DEF NativeOther, IncomingOther, IncomingMenu, SelectorConstructed,
           SelectorDestroyed
  <1>8. QED
    BY <1>3, <1>4, <1>5, <1>6, <1>7 DEF AgentDoes, ClientStep

THEOREM WakeInvHolds == Spec => []WakeInv
  <1>1. Init => WakeInv
    BY DEF Init, AgentInit, WakeInv
  <1>2. IInv /\ WakeInv /\ [Next]_vars => WakeInv'
    <2>1. SUFFICES ASSUME IInv, WakeInv, [Next]_vars PROVE WakeInv'
      OBVIOUS
    <2>2. CASE ScriptStep
      BY <2>1, <2>2, WakeFrame
         DEF ScriptStep, Perform, DispatchTimeout, RequestShutdown, agentVars
    <2>3. CASE OwnerStep
      <3>1. CASE CallAgent
        BY <2>1, <3>1, CallKeepsWake
      <3>2. CASE Stop
        BY <2>1, <3>2, WakeFrame DEF Stop, AgentGone
      <3>3. CASE TakeAction \/ Primed \/ SessionUnavailable \/ CallReturns \/ CallBroken
        BY <2>1, <3>3, WakeFrame
           DEF TakeAction, Primed, SessionUnavailable, CallReturns, CallBroken, Finish,
               agentVars
      <3>4. QED
        BY <2>3, <3>1, <3>2, <3>3 DEF OwnerStep
    <2>4. CASE AgentDoes(AgentStep)
      BY <2>1, <2>4, CallbacksKeepWake, ClientKeepsWake DEF AgentDoes, AgentStep
    <2>5. CASE Detach
      BY <2>1, <2>5, WakeFrame DEF Detach, AgentGone
    <2>6. CASE UNCHANGED vars
      BY <2>1, <2>6, WakeFrame DEF vars, agentVars
    <2>7. QED
      BY <2>1, <2>2, <2>3, <2>4, <2>5, <2>6 DEF Next
  <1>3. QED
    BY <1>1, <1>2, InvHolds, PTL DEF Spec

(* An action the owner has answered has nothing left in the agent's queue;  *)
(* of a refused one the first body can still go out, if it was inside the   *)
(* native sender when its own wake failed, and never another.               *)
THEOREM NothingIsLeftBehind == Spec => []NothingLeftBehind
  <1>1. IInv /\ WakeInv => NothingLeftBehind
    <2>1. SUFFICES ASSUME IInv, WakeInv PROVE NothingLeftBehind
      OBVIOUS
    <2>2. ASSUME NEW i \in DOMAIN queue
          PROVE  /\ owner = "calling" /\ queue[i].call = inHand
                 /\ settled[inHand] = "pending"
      <3>1. queue # <<>>
        BY <2>1, <2>2 DEF IInv, TypeOK, AgentTypeOK
      <3>2. QED
        BY <2>1, <2>2, <3>1 DEF IInv, QueueInv
    <2>3. sending # NoBody =>
            \/ owner = "calling" /\ sending.call = inHand
            \/ settled[sending.call] = "rejected" /\ sending.index = 1
      BY <2>1 DEF IInv, SendingInv, WakeInv
    <2>4. QED
      BY <2>2, <2>3 DEF NothingLeftBehind
  <1>2. QED
    BY <1>1, InvHolds, WakeInvHolds, PTL

(* No selection is sent before the server opened the dialog it answers. *)
THEOREM DialogsPaced == Spec => []DialogsArePaced
  <1>1. IInv => DialogsArePaced
    BY DEF IInv
  <1>2. QED
    BY <1>1, InvHolds, PTL

(* No body outlives the session it was accepted in. *)
THEOREM BodiesStayInTheirSession == Spec => []NothingCrossesALogin
  <1>1. IInv => NothingCrossesALogin
    BY DEF IInv
  <1>2. QED
    BY <1>1, InvHolds, PTL
===============================================================================
