---------------------------- MODULE EngineProofs ----------------------------
(***************************************************************************)
(* Proofs about Engine, for every number of clients, every set of          *)
(* observations and every queue capacity, and then about EngineReaders,    *)
(* for any number of readers, any ring and any queries: the two channels   *)
(* of a subscription meet without a gap or a duplicate, and a stream that  *)
(* ends has handed out everything.                                         *)
(***************************************************************************)
EXTENDS EngineReaders, SequenceTheorems, TLAPS

(* The reduced observations and the queue lie side by side in accepted.     *)
LEMMA QueueLayout ==
  ASSUME IInv
  PROVE  /\ Len(reduced) \in Nat /\ Len(commands) \in Nat
         /\ Len(accepted) \in Nat
         /\ \A i \in 1..Len(reduced) :
              i \in 1..Len(accepted) /\ accepted[i] = reduced[i]
         /\ \A i \in 1..Len(commands) :
              /\ Len(reduced) + i \in 1..Len(accepted)
              /\ accepted[Len(reduced) + i] = commands[i]
         /\ \A i, j \in 1..Len(reduced) : reduced[i] = reduced[j] => i = j
  <1>1. /\ Len(reduced) \in Nat /\ Len(commands) \in Nat
        /\ Len(accepted) \in Nat
    BY LenProperties DEF IInv, TypeOK
  <1>2. Len(reduced) + Len(commands) <= Len(accepted)
    BY DEF IInv, QueueInv, Revision
  <1>3. \A i \in 1..Len(reduced) :
          i \in 1..Len(accepted) /\ accepted[i] = reduced[i]
    BY <1>1, <1>2 DEF IInv, QueueInv, Revision
  <1>4. \A i \in 1..Len(commands) :
          /\ Len(reduced) + i \in 1..Len(accepted)
          /\ accepted[Len(reduced) + i] = commands[i]
    BY <1>1, <1>2 DEF IInv, QueueInv, Revision
  <1>5. \A i, j \in 1..Len(reduced) : reduced[i] = reduced[j] => i = j
    BY <1>3 DEF IInv, QueueInv
  <1>6. QED
    BY <1>1, <1>3, <1>4, <1>5

(* The engine starts in the invariant, whoever holds the first Ingress.     *)
LEMMA InitIInv == Init => IInv
  <1> SUFFICES ASSUME Init PROVE IInv
    OBVIOUS
  <1> USE DEF Init
  <1>1. TypeOK
    BY CapacityAssumption DEF TypeOK
  <1>2. CallsInv
    BY DEF CallsInv
  <1>3. QueueInv
    BY DEF QueueInv, Revision
  <1>4. PhaseInv
    BY DEF PhaseInv, Revision
  <1>5. AnswerInv
    BY DEF AnswerInv, Revision, InRange
  <1>6. QED
    BY <1>1, <1>2, <1>3, <1>4, <1>5 DEF IInv

(* The owner takes a command: the head of the queue is the next accepted    *)
(* observation, and becomes the last reduced one.                           *)
LEMMA ReduceStep == ASSUME IInv, Reduce PROVE IInv'
  <1> USE CapacityAssumption, NoObservationAssumption DEF callVars
  <1>0. /\ Head(commands) = commands[1]
        /\ Head(commands) \in Observations
        /\ Tail(commands) \in Seq(Observations)
        /\ Len(Tail(commands)) = Len(commands) - 1
        /\ \A i \in 1..Len(Tail(commands)) : Tail(commands)[i] = commands[i + 1]
    BY HeadTailProperties DEF IInv, TypeOK, Reduce
  <1>1. /\ Len(reduced') = Len(reduced) + 1
        /\ \A i \in 1..Len(reduced) : reduced'[i] = reduced[i]
        /\ reduced'[Len(reduced')] = commands[1]
    BY <1>0 DEF IInv, TypeOK, Reduce
  <1>2. TypeOK'
    BY <1>0 DEF IInv, TypeOK, Reduce
  <1>3. CallsInv'
    BY DEF IInv, CallsInv, Reduce, InRange
  <1>4. QueueInv'
    BY <1>0, <1>1 DEF IInv, TypeOK, QueueInv, Reduce, Revision
  <1>5. PhaseInv'
    BY <1>0, <1>1 DEF IInv, TypeOK, PhaseInv, Reduce, Revision
  <1>6. AnswerInv'
    <2> USE <1>1 DEF IInv, TypeOK, PhaseInv, AnswerInv, Revision
    <2>1. ASSUME NEW o \in Observations, o \in replied
          PROVE  \E i \in 1..Len(reduced') :
                   i <= emitted /\ reduced'[i] = o /\ i < Len(reduced')
      BY <2>1
    <2>2. ASSUME NEW i \in 1..Len(reduced'), outcome[reduced'[i]] = "pending"
          PROVE  \/ reduced'[i] \in replied
                 \/ i = Len(reduced') /\ current' = reduced'[i]
      BY <1>0, <2>2 DEF Reduce
    <2>3. ASSUME NEW o \in Observations
          PROVE  outcome[o] # "stopped"
      BY DEF Reduce
    <2>4. QED
      BY <2>1, <2>2, <2>3 DEF Reduce, InRange
  <1>7. QED
    BY <1>2, <1>3, <1>4, <1>5, <1>6 DEF IInv

(* The other owner steps move no observation between the queue and the      *)
(* reducer: only the phase, the answers and the fate of the queue change.   *)
LEMMA OwnerStepKeepsIInv == ASSUME IInv, OwnerStep PROVE IInv'
  <1> USE NoObservationAssumption DEF IInv, callVars, Revision
  <1>1. CASE Start \/ Publish \/ Emit \/ Finish
    <2> USE <1>1 DEF Start, Publish, Emit, Finish
    <2>1. TypeOK'
      BY DEF TypeOK
    <2>2. CallsInv'
      BY DEF CallsInv, InRange
    <2>3. QueueInv'
      BY DEF QueueInv
    <2>4. PhaseInv'
      BY DEF TypeOK, PhaseInv
    <2>5. AnswerInv'
      <3>1. /\ outcome' = outcome /\ replied' = replied /\ accepted' = accepted
            /\ reduced' = reduced /\ phase' # "dropped" /\ phase # "dropped"
            /\ emitted <= emitted' /\ emitted' \in Nat /\ emitted \in Nat
        BY DEF TypeOK, PhaseInv
      <3>2. current' = current \/ (current' = NoObservation /\ current = NoObservation)
        BY DEF PhaseInv
      <3>3. QED
        BY <3>1, <3>2 DEF AnswerInv, InRange
    <2>6. QED
      BY <2>1, <2>2, <2>3, <2>4, <2>5
  <1>2. CASE Reply
    <2> USE <1>2 DEF Reply
    <2>1. current = reduced[Len(reduced)] /\ Len(reduced) > 0
          /\ emitted = Len(reduced) /\ current \in Observations
      BY DEF PhaseInv, TypeOK
    <2>2. TypeOK'
      BY <2>1 DEF TypeOK
    <2>3. CallsInv' /\ QueueInv' /\ PhaseInv'
      BY DEF CallsInv, InRange, QueueInv, PhaseInv
    <2>4. AnswerInv'
      <3>1. ASSUME NEW o \in Observations, o \in replied'
            PROVE  \E i \in 1..Len(reduced) : i <= emitted /\ reduced[i] = o
        BY <2>1, <3>1 DEF TypeOK, AnswerInv
      <3>2. ASSUME NEW i \in 1..Len(reduced), outcome[reduced[i]] = "pending"
            PROVE  reduced[i] \in replied'
        BY <2>1, <3>2 DEF AnswerInv
      <3>3. QED
        BY <3>1, <3>2 DEF AnswerInv, InRange
    <2>5. QED
      BY <2>2, <2>3, <2>4
  <1>3. CASE DropOwner
    <2> USE <1>3 DEF DropOwner
    <2>1. TypeOK'
      BY CapacityAssumption DEF TypeOK
    <2>2. CallsInv'
      BY DEF CallsInv, InRange
    <2>3. QueueInv' /\ PhaseInv'
      BY DEF TypeOK, QueueInv, PhaseInv
    <2>4. AnswerInv'
      BY DEF TypeOK, PhaseInv, AnswerInv, InRange
    <2>5. QED
      BY <2>1, <2>2, <2>3, <2>4
  <1>4. CASE Reduce
    BY <1>4, ReduceStep
  <1>5. QED
    BY <1>1, <1>2, <1>3, <1>4 DEF OwnerStep

(* A return from observe changes the fate of one observation that its       *)
(* caller alone was waiting for.                                            *)
LEMMA ReturnStep ==
  ASSUME IInv, NEW c \in Clients, pc[c] # "idle",
         NEW result \in {"receipt", "stopped", "cancelled"}, Return(c, result),
         result = "receipt" => call[c] \in replied,
         result = "stopped" => phase = "dropped" /\ ~InRange(reduced, call[c])
  PROVE  IInv'
  <1> USE NoObservationAssumption DEF IInv, Return, ownerVars, Revision
  <1>1. call[c] \in Observations /\ outcome[call[c]] = "pending"
    BY DEF TypeOK, CallsInv
  <1>2. TypeOK'
    BY <1>1 DEF TypeOK
  <1>3. CallsInv'
    BY <1>1 DEF TypeOK, CallsInv, InRange
  <1>4. QueueInv' /\ PhaseInv'
    BY DEF QueueInv, PhaseInv
  <1>5. AnswerInv'
    <2>1. ASSUME NEW o \in Observations
          PROVE  /\ outcome'[o] = "unsubmitted" => ~InRange(accepted, o)
                 /\ outcome'[o] = "receipt" => o \in replied
                 /\ outcome'[o] = "stopped" =>
                      phase = "dropped" /\ ~InRange(reduced, o)
      BY <1>1 DEF TypeOK, AnswerInv
    <2>2. ASSUME NEW i \in 1..Len(reduced), outcome'[reduced[i]] = "pending"
          PROVE  outcome[reduced[i]] = "pending"
      BY <1>1, <2>2 DEF TypeOK
    <2>3. QED
      BY <2>1, <2>2 DEF AnswerInv, InRange
  <1>6. QED
    BY <1>2, <1>3, <1>4, <1>5

(* The client steps: capabilities, a new call, and the ways out of a call.  *)
LEMMA ClientStepKeepsIInv ==
  ASSUME IInv, NEW c \in Clients, ClientStep(c) PROVE IInv'
  <1> USE NoObservationAssumption DEF IInv, ownerVars, Revision
  <1>1. CASE (\E d \in Clients : CloneIngress(c, d)) \/ DropIngress(c)
    <2> USE <1>1 DEF CloneIngress, DropIngress
    <2>1. TypeOK' /\ CallsInv'
      BY DEF TypeOK, CallsInv, InRange
    <2>2. QueueInv' /\ PhaseInv'
      BY DEF QueueInv, PhaseInv
    <2>3. AnswerInv'
      BY DEF AnswerInv, InRange
    <2>4. QED
      BY <2>1, <2>2, <2>3
  <1>2. ASSUME NEW o \in Observations, Observe(c, o)
        PROVE  IInv'
    <2> USE <1>2 DEF Observe
    <2>1. TypeOK'
      BY DEF TypeOK
    <2>2. ~InRange(accepted, o)
      BY DEF AnswerInv
    <2>3. CallsInv'
      BY <2>2 DEF TypeOK, CallsInv, InRange
    <2>4. QueueInv' /\ PhaseInv'
      BY DEF QueueInv, PhaseInv
    <2>5. AnswerInv'
      <3>1. \A i \in 1..Len(reduced) : reduced[i] # o
        BY <2>2, QueueLayout DEF InRange
      <3>2. ASSUME NEW p \in Observations
            PROVE  /\ outcome'[p] = "unsubmitted" => ~InRange(accepted, p)
                   /\ outcome'[p] = "receipt" => p \in replied
                   /\ outcome'[p] = "stopped" =>
                        phase = "dropped" /\ ~InRange(reduced, p)
        BY DEF TypeOK, AnswerInv
      <3>3. \A i \in 1..Len(reduced) : outcome'[reduced[i]] = outcome[reduced[i]]
        BY <3>1 DEF TypeOK
      <3>4. QED
        BY <3>2, <3>3 DEF AnswerInv, InRange
    <2>6. QED
      BY <2>1, <2>3, <2>4, <2>5
  <1>3. CASE Enqueue(c)
    <2> USE <1>3 DEF Enqueue
    <2>1. /\ call[c] \in Observations
          /\ outcome[call[c]] = "pending"
          /\ ~InRange(accepted, call[c])
      BY DEF TypeOK, CallsInv
    <2>2. /\ accepted' \in Seq(Observations)
          /\ Len(accepted') = Len(accepted) + 1
          /\ \A i \in 1..Len(accepted) : accepted'[i] = accepted[i]
          /\ accepted'[Len(accepted')] = call[c]
      BY <2>1 DEF TypeOK
    <2>3. /\ commands' \in Seq(Observations)
          /\ Len(commands') = Len(commands) + 1
          /\ \A i \in 1..Len(commands) : commands'[i] = commands[i]
          /\ commands'[Len(commands')] = call[c]
      BY <2>1 DEF TypeOK
    <2>4. TypeOK'
      BY <2>2, <2>3, CapacityAssumption DEF TypeOK
    <2>5. \A o : InRange(accepted', o) <=> InRange(accepted, o) \/ o = call[c]
      BY <2>2 DEF InRange, TypeOK
    <2>6. CallsInv'
      BY <2>1, <2>5 DEF TypeOK, CallsInv
    <2>7. QueueInv'
      <3>1. phase # "dropped" /\ phase' # "dropped"
        BY DEF Stopped
      <3>2. ASSUME NEW i \in 1..Len(accepted'), NEW j \in 1..Len(accepted'),
                   accepted'[i] = accepted'[j]
            PROVE  i = j
        <4> HIDE <1>3 DEF Enqueue
        <4>1. \A k \in 1..Len(accepted) : accepted[k] # call[c]
          BY <2>1 DEF InRange
        <4>2. \A k, l \in 1..Len(accepted) : accepted[k] = accepted[l] => k = l
          BY DEF QueueInv
        <4>3. Len(accepted) \in Nat
          BY QueueLayout
        <4>4. QED
          BY <2>2, <3>2, <4>1, <4>2, <4>3
      <3>3. \A i \in 1..Len(reduced) : accepted'[i] = reduced[i]
        BY <2>2 DEF QueueInv, TypeOK
      <3>4. /\ Len(reduced) \in Nat /\ Len(commands) \in Nat
            /\ Len(accepted) = Len(reduced) + Len(commands)
        BY <3>1, QueueLayout DEF QueueInv
      <3> HIDE <1>3 DEF Enqueue
      <3>5. /\ Len(accepted') = Len(reduced) + Len(commands')
            /\ \A i \in 1..Len(commands') :
                 accepted'[Len(reduced) + i] = commands'[i]
        <4>1. Len(accepted') = Len(reduced) + Len(commands')
          BY <2>2, <2>3, <3>4
        <4>2. ASSUME NEW i \in 1..Len(commands')
              PROVE  accepted'[Len(reduced) + i] = commands'[i]
          <5>1. CASE i \in 1..Len(commands)
            <6>1. /\ Len(reduced) + i \in 1..Len(accepted)
                  /\ accepted[Len(reduced) + i] = commands[i]
              BY <5>1, QueueLayout
            <6>2. QED
              BY <2>2, <2>3, <5>1, <6>1
          <5>2. CASE i = Len(commands')
            BY <2>2, <2>3, <4>1, <5>2
          <5>3. QED
            BY <2>3, <3>4, <5>1, <5>2
        <4>3. QED
          BY <4>1, <4>2
      <3>6. Len(accepted') \in Nat
        BY <2>2, LenProperties
      <3>7. reduced' = reduced
        BY <1>3 DEF Enqueue
      <3>8. Len(reduced) + Len(commands') <= Len(accepted')
        BY <3>5, <3>6
      <3>9. QED
        BY <3>1, <3>2, <3>3, <3>5, <3>7, <3>8, Zenon DEF QueueInv
    <2>8. PhaseInv'
      BY DEF PhaseInv
    <2>9. AnswerInv'
      BY <2>1, <2>5 DEF AnswerInv, InRange
    <2>10. QED
      BY <2>4, <2>6, <2>7, <2>8, <2>9
  <1>4. CASE SendRefused(c)
    <2>1. phase = "dropped" /\ ~InRange(reduced, call[c])
      <3>1. pc[c] = "sending" /\ Stopped
        BY <1>4 DEF SendRefused
      <3>2. c \in ingress /\ ~InRange(accepted, call[c])
        BY <3>1 DEF CallsInv
      <3>3. phase = "dropped"
        BY <3>1, <3>2 DEF Stopped, PhaseInv
      <3>4. \A i \in 1..Len(reduced) :
              i \in 1..Len(accepted) /\ accepted[i] = reduced[i]
        BY QueueLayout DEF IInv
      <3>5. QED
        BY <3>2, <3>3, <3>4 DEF InRange
    <2>2. QED
      BY <1>4, <2>1, ReturnStep DEF SendRefused
  <1>5. CASE ReceiveReceipt(c)
    BY <1>5, ReturnStep DEF ReceiveReceipt
  <1>6. CASE ReplyLost(c)
    <2>1. phase = "dropped" /\ current = NoObservation
      BY <1>6 DEF ReplyLost, Stopped, CallsInv, PhaseInv
    <2>2. ~InRange(reduced, call[c])
      BY <1>6, <2>1 DEF ReplyLost, CallsInv, AnswerInv, InRange, TypeOK
    <2>3. QED
      BY <1>6, <2>1, <2>2, ReturnStep DEF ReplyLost
  <1>7. CASE CancelObserve(c)
    BY <1>7, ReturnStep DEF CancelObserve
  <1>8. QED
    BY <1>1, <1>2, <1>3, <1>4, <1>5, <1>6, <1>7 DEF ClientStep

(* Every step of the engine keeps the invariant.                            *)
LEMMA EngineStepKeepsIInv == IInv /\ [Next]_engineVars => IInv'
  <1>1. ASSUME IInv, UNCHANGED engineVars PROVE IInv'
    BY <1>1 DEF engineVars, callVars, ownerVars, IInv, TypeOK, CallsInv,
                QueueInv, PhaseInv, AnswerInv, InRange, Revision
  <1>2. QED
    BY <1>1, OwnerStepKeepsIInv, ClientStepKeepsIInv DEF Next

(* The inductive invariant holds in every behavior of the engine.           *)
THEOREM InductiveInvariant == Spec => []IInv
  BY InitIInv, EngineStepKeepsIInv, PTL DEF Spec

(* Types, and with them the capacity of the queue.                          *)
THEOREM TypeCorrect == Spec => []TypeOK
  BY InductiveInvariant, PTL DEF IInv

(* A receipt reaches its caller only after the snapshot and the event.      *)
THEOREM ReceiptIsReflected == Spec => []ReceiptReflected
  <1>1. IInv => ReceiptReflected
    BY DEF IInv, TypeOK, PhaseInv, AnswerInv, ReceiptReflected, Revision
  <1>2. QED
    BY <1>1, InductiveInvariant, PTL

(* "stopped" means without effect, now and in every later state.            *)
THEOREM StoppedIsUnreduced == Spec => []StoppedUnreduced
  <1>1. IInv => StoppedUnreduced
    BY DEF IInv, AnswerInv, StoppedUnreduced
  <1>2. QED
    BY <1>1, InductiveInvariant, PTL

(* No call is refused while the owner has not been dropped.                 *)
THEOREM StopNeedsDrop == Spec => []NoSpuriousStop
  <1>1. IInv => NoSpuriousStop
    BY DEF IInv, AnswerInv, NoSpuriousStop
  <1>2. QED
    BY <1>1, InductiveInvariant, PTL

(* Exactly once, in the order of acceptance, with nothing left out.         *)
THEOREM ReducedInOrder == Spec => []AcceptanceOrder
  <1>1. IInv => AcceptanceOrder
    <2> SUFFICES ASSUME IInv PROVE AcceptanceOrder
      OBVIOUS
    <2>1. /\ reduced \in Seq(Observations)
          /\ commands \in Seq(Observations)
          /\ accepted \in Seq(Observations)
      BY DEF IInv, TypeOK
    <2>2. ASSUME phase # "dropped"
          PROVE  accepted = reduced \o commands
      <3>1. Len(accepted) = Len(reduced) + Len(commands)
        BY <2>2 DEF IInv, QueueInv, Revision
      <3>2. /\ reduced \o commands \in Seq(Observations)
            /\ Len(reduced \o commands) = Len(accepted)
        BY <2>1, <3>1, ConcatProperties
      <3>3. ASSUME NEW i \in 1..Len(accepted)
            PROVE  accepted[i] = (reduced \o commands)[i]
        <4>1. (reduced \o commands)[i] =
                IF i <= Len(reduced) THEN reduced[i]
                                     ELSE commands[i - Len(reduced)]
          BY <2>1, <3>1, ConcatProperties
        <4>2. CASE i <= Len(reduced)
          BY <4>1, <4>2, QueueLayout
        <4>3. CASE ~(i <= Len(reduced))
          <5>1. /\ i - Len(reduced) \in 1..Len(commands)
                /\ Len(reduced) + (i - Len(reduced)) = i
            BY <3>1, <4>3, QueueLayout
          <5>2. accepted[Len(reduced) + (i - Len(reduced))]
                  = commands[i - Len(reduced)]
            BY <5>1, QueueLayout
          <5>3. QED
            BY <4>1, <4>3, <5>1, <5>2
        <4>4. QED
          BY <4>2, <4>3
      <3>4. QED
        BY <2>1, <3>2, <3>3, SeqEqual
    <2>3. QED
      BY <2>2, QueueLayout DEF AcceptanceOrder, Revision
  <1>2. QED
    BY <1>1, InductiveInvariant, PTL
-----------------------------------------------------------------------------
(* The engine implements ObservationLog.                                    *)

(* A prefix of a sequence.                                                  *)
LEMMA PrefixProperties ==
  ASSUME NEW S, NEW s \in Seq(S), NEW n \in 0..Len(s)
  PROVE  /\ SubSeq(s, 1, n) \in Seq(S)
         /\ Len(SubSeq(s, 1, n)) = n
         /\ \A i \in 1..n : SubSeq(s, 1, n)[i] = s[i]
  <1>1. Len(s) \in Nat /\ \A i \in 1..n : s[i] \in S
    BY LenProperties, ElementOfSeq
  <1>2. /\ SubSeq(s, 1, n) \in Seq(S)
        /\ Len(SubSeq(s, 1, n)) = IF 1 <= n THEN n - 1 + 1 ELSE 0
        /\ \A i \in 1..(n - 1 + 1) : SubSeq(s, 1, n)[i] = s[1 + i - 1]
    BY <1>1, SubSeqProperties
  <1>3. QED
    BY <1>1, <1>2

(* The abstract log is the published prefix of what was reduced.            *)
LEMMA VisibleLog ==
  ASSUME IInv
  PROVE  /\ published \in 0..Len(reduced) /\ Len(reduced) \in Nat
         /\ SubSeq(reduced, 1, published) \in Seq(Observations)
         /\ Len(SubSeq(reduced, 1, published)) = published
         /\ \A i \in 1..published :
              SubSeq(reduced, 1, published)[i] = reduced[i]
         /\ \A o : Log!Logged(o) <=> \E i \in 1..published : reduced[i] = o
  <1>1. published \in 0..Len(reduced) /\ Len(reduced) \in Nat
    BY LenProperties DEF IInv, TypeOK, PhaseInv, Revision
  <1>2. /\ SubSeq(reduced, 1, published) \in Seq(Observations)
        /\ Len(SubSeq(reduced, 1, published)) = published
        /\ \A i \in 1..published : SubSeq(reduced, 1, published)[i] = reduced[i]
    BY <1>1, PrefixProperties DEF IInv, TypeOK
  <1>3. DOMAIN SubSeq(reduced, 1, published) = 1..published
    BY <1>2, LenProperties
  <1>4. QED
    BY <1>1, <1>2, <1>3 DEF Log!Logged

(* Reducing is invisible until the snapshot is published.                   *)
LEMMA ReduceIsInvisible ==
  ASSUME IInv, IInv', Reduce
  PROVE  SubSeq(reduced, 1, published)' = SubSeq(reduced, 1, published)
  <1>1. published' = published /\ published = Len(reduced)
    BY DEF Reduce, IInv, PhaseInv, Revision
  <1>2. \A i \in 1..Len(reduced) : reduced'[i] = reduced[i]
    BY HeadTailProperties DEF Reduce, IInv, TypeOK
  <1>3. /\ SubSeq(reduced', 1, published') \in Seq(Observations)
        /\ Len(SubSeq(reduced', 1, published')) = published'
        /\ \A i \in 1..published' :
             SubSeq(reduced', 1, published')[i] = reduced'[i]
    <2>1. /\ published' \in 0..Len(reduced') /\ Len(reduced') \in Nat
          /\ reduced' \in Seq(Observations)
      BY LenProperties DEF IInv, TypeOK, PhaseInv, Revision
    <2>2. QED
      BY <2>1, PrefixProperties
  <1>4. QED
    BY <1>1, <1>2, <1>3, VisibleLog, SeqEqual

(* Publishing is the instant at which the observation in hand takes effect. *)
LEMMA PublishTakesEffect ==
  ASSUME IInv, IInv', Publish
  PROVE  current \in Observations /\ Log!TakeEffect(current)
  <1>1. /\ phase = "publishing" /\ phase' = "emitting"
        /\ reduced' = reduced /\ outcome' = outcome
        /\ published = Len(reduced) - 1 /\ published' = Len(reduced)
        /\ Len(reduced) \in Nat \ {0} /\ current = reduced[Len(reduced)]
        /\ reduced \in Seq(Observations)
    BY LenProperties DEF Publish, IInv, TypeOK, PhaseInv, Revision, callVars
  <1>2. current \in Observations
    BY <1>1, ElementOfSeq
  <1>3. ~Stopped /\ Stopped' = Stopped
    BY <1>1 DEF Stopped
  <1>4. outcome[current] \in {"pending", "cancelled"}
    <2>1. outcome[current] # "unsubmitted"
      BY <1>1, <1>2, QueueLayout DEF IInv, AnswerInv, InRange
    <2>2. outcome[current] # "stopped"
      BY <1>1, <1>2 DEF IInv, AnswerInv
    <2>3. outcome[current] # "receipt"
      BY <1>1, <1>2, NoObservationAssumption, QueueLayout
      DEF IInv, AnswerInv, Revision
    <2>4. QED
      BY <1>2, <2>1, <2>2, <2>3 DEF IInv, TypeOK
  <1>5. ~Log!Logged(current)
    BY <1>1, VisibleLog, QueueLayout
  <1>6. SubSeq(reduced, 1, published)'
          = Append(SubSeq(reduced, 1, published), current)
    <2>1. SubSeq(reduced, 1, Len(reduced)) = reduced
      BY <1>1, SubSeqFull
    <2>2. Append(SubSeq(reduced, 1, published), current) = reduced
      <3> DEFINE old == SubSeq(reduced, 1, published)
      <3>1. /\ old \in Seq(Observations) /\ Len(old) = Len(reduced) - 1
            /\ \A i \in 1..(Len(reduced) - 1) : old[i] = reduced[i]
        BY <1>1, VisibleLog
      <3> HIDE DEF old
      <3>2. /\ Append(old, current) \in Seq(Observations)
            /\ Len(Append(old, current)) = Len(old) + 1
            /\ \A i \in 1..Len(old) : Append(old, current)[i] = old[i]
            /\ Append(old, current)[Len(old) + 1] = current
        BY <1>2, <3>1, AppendProperties
      <3> DEFINE new == Append(old, current)
      <3>3. /\ new \in Seq(Observations) /\ Len(new) = Len(reduced)
            /\ \A i \in 1..(Len(reduced) - 1) : new[i] = reduced[i]
            /\ new[Len(reduced)] = reduced[Len(reduced)]
        BY <1>1, <3>1, <3>2
      <3> HIDE DEF new
      <3>4. \A i \in 1..Len(new) : new[i] = reduced[i]
        BY <1>1, <3>3
      <3>5. new = reduced
        BY <1>1, <3>3, <3>4, SeqEqual
      <3>6. QED
        BY <3>5 DEF new, old
    <2>3. QED
      BY <1>1, <2>1, <2>2
  <1>7. QED
    BY <1>1, <1>2, <1>3, <1>4, <1>5, <1>6 DEF Log!TakeEffect

(* Every step of the engine is a step of the log or changes nothing of it.  *)
LEMMA StepRefines ==
  ASSUME IInv, IInv', [Next]_engineVars
  PROVE  [Log!Next]_<<SubSeq(reduced, 1, published), outcome, Stopped>>
  <1> DEFINE Same == /\ SubSeq(reduced, 1, published)'
                            = SubSeq(reduced, 1, published)
                     /\ outcome' = outcome
                     /\ Stopped' = Stopped
             Goal == [Log!Next]_<<SubSeq(reduced, 1, published), outcome,
                                  Stopped>>
  <1>0. Same => Goal
    OBVIOUS
  <1>1. CASE UNCHANGED engineVars
    BY <1>0, <1>1 DEF engineVars, callVars, ownerVars, Stopped
  <1>2. CASE Start \/ Emit \/ Reply
    <2>1. reduced' = reduced /\ published' = published /\ outcome' = outcome
      BY <1>2 DEF Start, Emit, Reply, callVars
    <2>2. Stopped' = Stopped
      BY <1>2 DEF Start, Emit, Reply, Stopped
    <2>3. QED
      BY <1>0, <2>1, <2>2
  <1>3. CASE Reduce
    <2>1. Stopped' = Stopped /\ outcome' = outcome
      BY <1>3 DEF Reduce, callVars, Stopped
    <2>2. QED
      BY <1>0, <1>3, <2>1, ReduceIsInvisible
  <1>4. CASE Publish
    BY <1>4, PublishTakesEffect DEF Log!Next
  <1>5. CASE Finish \/ DropOwner
    <2>1. Log!Close
      BY <1>5 DEF Finish, DropOwner, callVars, Stopped, Log!Close
    <2>2. QED
      BY <2>1 DEF Log!Next
  <1>6. ASSUME NEW c \in Clients, ClientStep(c)
        PROVE  Goal
    <2>1. CASE (\E d \in Clients : CloneIngress(c, d)) \/ DropIngress(c)
               \/ Enqueue(c)
      BY <1>0, <2>1 DEF CloneIngress, DropIngress, Enqueue, ownerVars, Stopped
    <2>2. ASSUME NEW o \in Observations, Observe(c, o)
          PROVE  Goal
      <3>1. Log!Submit(o)
        BY <2>2 DEF Observe, ownerVars, Stopped, Log!Submit
      <3>2. QED
        BY <3>1 DEF Log!Next
    <2>3. pc[c] # "idle" =>
            call[c] \in Observations /\ outcome[call[c]] = "pending"
      BY NoObservationAssumption DEF IInv, TypeOK, CallsInv
    <2>4. CASE SendRefused(c) \/ ReplyLost(c)
      <3>1. outcome'[call[c]] = "stopped" /\ call[c] \in Observations
        BY <2>3, <2>4 DEF SendRefused, ReplyLost, Return, IInv, TypeOK
      <3>2. ~InRange(reduced, call[c])
        <4>1. ~InRange(reduced', call[c])
          BY <3>1 DEF IInv, AnswerInv
        <4>2. QED
          BY <2>4, <4>1 DEF SendRefused, ReplyLost, Return, ownerVars, InRange
      <3>3. ~Log!Logged(call[c])
        BY <3>2, VisibleLog DEF InRange
      <3>4. Log!Refuse(call[c])
        BY <2>3, <2>4, <3>3
        DEF SendRefused, ReplyLost, Return, ownerVars, Stopped, Log!Refuse
      <3>5. QED
        BY <3>1, <3>4 DEF Log!Next
    <2>5. CASE ReceiveReceipt(c)
      <3>1. Log!Logged(call[c])
        BY <2>3, <2>5, VisibleLog
        DEF ReceiveReceipt, IInv, TypeOK, PhaseInv, AnswerInv, Revision
      <3>2. Log!Acknowledge(call[c])
        BY <2>3, <2>5, <3>1
        DEF ReceiveReceipt, Return, ownerVars, Stopped, Log!Acknowledge
      <3>3. QED
        BY <2>3, <2>5, <3>2 DEF ReceiveReceipt, Log!Next
    <2>6. CASE CancelObserve(c)
      <3>1. Log!GiveUp(call[c])
        BY <2>3, <2>6 DEF CancelObserve, Return, ownerVars, Stopped, Log!GiveUp
      <3>2. QED
        BY <2>3, <2>6, <3>1 DEF CancelObserve, Log!Next
    <2>7. QED
      BY <1>6, <2>1, <2>2, <2>4, <2>5, <2>6 DEF ClientStep
  <1>7. QED
    BY <1>1, <1>2, <1>3, <1>4, <1>5, <1>6 DEF Next, OwnerStep

(* Submitting to the engine is submitting to one log: every observation     *)
(* takes effect at one instant between its call and its return, and a call  *)
(* that failed has none.                                                    *)
THEOREM EngineImplementsLog == Spec => ImplementsLog
  <1>1. Init => Log!Init
    <2> SUFFICES ASSUME Init PROVE Log!Init
      OBVIOUS
    <2>1. SubSeq(reduced, 1, published) = <<>>
      BY SubSeqEmpty DEF Init
    <2>2. QED
      BY <2>1 DEF Init, Stopped, Log!Init
  <1>2. IInv /\ IInv' /\ [Next]_engineVars => [Log!Next]_(Log!logVars)
    BY StepRefines DEF Log!logVars
  <1>3. QED
    BY <1>1, <1>2, InductiveInvariant, PTL DEF Spec, ImplementsLog, Log!Spec
-----------------------------------------------------------------------------
(* The readers. *)

(* What a reader relies on: the snapshot is published before its event, and *)
(* a stopped owner has finished with both.                                  *)
LEMMA OwnerOrder ==
  ASSUME IInv
  PROVE  /\ published \in Nat /\ emitted \in Nat /\ emitted <= published
         /\ Revision \in Nat
         /\ Stopped => published = Revision /\ emitted = Revision
  <1>1. Revision \in Nat
    BY LenProperties DEF IInv, TypeOK, Revision
  <1>2. QED
    BY <1>1 DEF IInv, TypeOK, PhaseInv, Stopped

(* ... and neither channel goes back, nor moves once the owner has stopped. *)
LEMMA OwnerMovesOn ==
  ASSUME IInv, [Next]_engineVars
  PROVE  /\ published <= published' /\ emitted <= emitted'
         /\ Stopped => Stopped' /\ Revision' = Revision
  <1>1. Revision \in Nat /\ published \in Nat /\ emitted \in Nat
    BY OwnerOrder
  <1>2. CASE OwnerStep
    <2>1. CASE Reduce
      BY <1>1, <2>1 DEF Reduce, Stopped
    <2>2. CASE Publish \/ Emit
      BY <1>1, <2>2
         DEF Publish, Emit, Stopped, Revision, IInv, PhaseInv, callVars
    <2>3. CASE Start \/ Reply \/ Finish \/ DropOwner
      BY <1>1, <2>3
         DEF Start, Reply, Finish, DropOwner, Stopped, Revision, callVars
    <2>4. QED
      BY <1>2, <2>1, <2>2, <2>3 DEF OwnerStep
  <1>3. ASSUME NEW c \in Clients, ClientStep(c)
        PROVE  UNCHANGED ownerVars
    BY <1>3 DEF ClientStep, CloneIngress, DropIngress, Observe, Enqueue,
                SendRefused, ReceiveReceipt, ReplyLost, CancelObserve, Return
  <1>4. CASE UNCHANGED ownerVars
    BY <1>1, <1>4 DEF ownerVars, Stopped, Revision
  <1>5. QED
    BY <1>2, <1>3, <1>4 DEF Next, engineVars
-----------------------------------------------------------------------------
(* One reader.  The cursor is the initial snapshot's revision, or lies at   *)
(* an event already passed: so a skipped event is one the snapshot covers.  *)
ReaderInv(r) ==
  /\ position[r] <= emitted
  /\ stage[r] # "none" /\ ~tap[r] => Stopped
  /\ stage[r] \in {"none", "tapped"} => heard[r] = <<>>
  /\ Subscribed(r) =>
       /\ start[r] <= cursor[r] /\ cursor[r] <= published
       /\ cursor[r] = start[r] \/ cursor[r] <= position[r]
       /\ ~tap[r] => start[r] = Revision
       /\ \A n \in (start[r] + 1)..position[r] : n \in Heard(r) \cup lost[r]
       /\ \A i \in DOMAIN heard[r] :
            start[r] < heard[r][i] /\ heard[r][i] <= cursor[r]
       /\ \A i, j \in DOMAIN heard[r] : i < j => heard[r][i] < heard[r][j]

ReadersInv == ReadersTypeOK /\ \A r \in Readers : ReaderInv(r)

readerState(r) == <<stage[r], tap[r], position[r], cursor[r], latest[r],
                    query[r], start[r], heard[r], lost[r]>>

(* The owner and the other readers leave a reader's invariant alone.        *)
LEMMA OthersKeepReader ==
  ASSUME IInv, IInv', ReadersInv, [Next]_engineVars,
         NEW r \in Readers, readerState(r)' = readerState(r)
  PROVE  ReaderInv(r)'
  <1>1. /\ published \in Nat /\ published' \in Nat /\ published <= published'
        /\ emitted \in Nat /\ emitted' \in Nat /\ emitted <= emitted'
        /\ Stopped => Stopped' /\ Revision' = Revision
    <2>1. IInv' => published' \in Nat /\ emitted' \in Nat
      BY DEF IInv, TypeOK
    <2>2. QED
      BY <2>1, OwnerOrder, OwnerMovesOn
  <1>2. position[r] \in Nat /\ cursor[r] \in Nat /\ start[r] \in Nat
    BY DEF ReadersInv, ReadersTypeOK
  <1>3. ReaderInv(r)
    BY DEF ReadersInv
  <1>4. /\ stage'[r] = stage[r] /\ tap'[r] = tap[r]
        /\ position'[r] = position[r] /\ cursor'[r] = cursor[r]
        /\ start'[r] = start[r] /\ heard'[r] = heard[r] /\ lost'[r] = lost[r]
    BY DEF readerState
  <1>5. Subscribed(r)' = Subscribed(r) /\ Heard(r)' = Heard(r)
    BY <1>4 DEF Subscribed, Heard
  <1>6. stage[r] # "none" /\ ~tap[r] => Stopped
    BY <1>3 DEF ReaderInv
  <1>7. QED
    BY <1>1, <1>2, <1>3, <1>4, <1>5, <1>6 DEF ReaderInv, Subscribed

(* Types survive every step of a reader.                                    *)
LEMMA ReaderTypesStep ==
  ASSUME IInv, ReadersTypeOK, NEW q \in Readers, ReaderStep(q)
  PROVE  ReadersTypeOK'
  <1> USE SlotsAssumption DEF ReadersTypeOK
  <1>1. published \in Nat /\ emitted \in Nat /\ Overwritten \in Nat
    BY OwnerOrder DEF Overwritten
  <1>2. CASE SubscribeEvents(q)
    <2>1. (~Stopped) \in BOOLEAN
      BY Zenon
    <2>2. QED
      BY <1>1, <1>2, <2>1 DEF SubscribeEvents
  <1>3. CASE SubscribeSnapshot(q)
    BY <1>1, <1>3 DEF SubscribeSnapshot
  <1>11. CASE Changed(q) \/ WaitChanged(q)
    BY <1>1, <1>11 DEF Changed, WaitChanged
  <1>4. CASE Unsubscribe(q)
    BY <1>4 DEF Unsubscribe
  <1>5. CASE NextSkip(q)
    BY <1>5 DEF NextSkip
  <1>6. CASE NextDeliver(q)
    <2>1. Append(heard[q], position[q] + 1) \in Seq(Nat)
      BY AppendProperties
    <2>2. QED
      BY <1>6, <2>1 DEF NextDeliver
  <1>7. CASE NextLagged(q)
    <2>1. (lost[q] \cup (position[q] + 1)..Overwritten) \subseteq Nat
      BY <1>1
    <2>2. QED
      BY <1>1, <1>7, <2>1 DEF NextLagged
  <1>8. ASSUME NEW k \in Queries, StartWait(q, k)
        PROVE  ReadersTypeOK'
    BY <1>8, QueriesAssumption DEF StartWait
  <1>9. CASE Resolve(q)
    BY <1>9 DEF Resolve
  <1>10. QED
    BY <1>2, <1>3, <1>4, <1>5, <1>6, <1>7, <1>8, <1>9, <1>11
       DEF ReaderStep, EventStep, WaitStep, WaitReady, WaitClosed, WaitElapsed

(* What a reader's own step does to its invariant.                          *)
LEMMA OwnStep ==
  ASSUME IInv, ReadersInv, NEW q \in Readers, ReaderStep(q)
  PROVE  ReaderInv(q)'
  <1>1. /\ published \in Nat /\ emitted \in Nat /\ emitted <= published
        /\ Revision \in Nat
        /\ Stopped => published = Revision /\ emitted = Revision
    BY OwnerOrder
  <1>2. /\ position[q] \in Nat /\ cursor[q] \in Nat /\ start[q] \in Nat
        /\ heard[q] \in Seq(Nat) /\ lost[q] \subseteq Nat
    BY DEF ReadersInv, ReadersTypeOK
  <1>3. ReaderInv(q)
    BY DEF ReadersInv
  <1>4. Overwritten \in Nat /\ Overwritten <= emitted
    BY <1>1, SlotsAssumption DEF Overwritten
  <1>5. CASE SubscribeEvents(q)
    <2>1. /\ stage'[q] = "tapped" /\ position'[q] = emitted
          /\ heard'[q] = <<>> /\ UNCHANGED <<phase, emitted>>
      BY <1>3, <1>5 DEF ReadersInv, ReadersTypeOK, SubscribeEvents, ReaderInv,
                        engineVars, ownerVars
    <2>2. tap' = [tap EXCEPT ![q] = ~Stopped]
      BY <1>5 DEF SubscribeEvents
    <2>3. ~tap'[q] => Stopped
      BY <2>2, Zenon DEF ReadersInv, ReadersTypeOK
    <2>4. QED
      BY <1>1, <2>1, <2>3 DEF ReaderInv, Subscribed, Stopped
  <1>6. CASE SubscribeSnapshot(q)
    <2>1. /\ stage'[q] = "open" /\ start'[q] = published
          /\ cursor'[q] = published /\ heard'[q] = <<>> /\ stage[q] # "none"
          /\ UNCHANGED <<tap, position, phase, emitted, published, reduced>>
      BY <1>3, <1>6 DEF ReadersInv, ReadersTypeOK, SubscribeSnapshot,
                        ReaderInv, engineVars, ownerVars
    <2>2. (start'[q] + 1)..position'[q] = {}
      BY <1>1, <1>2, <1>3, <2>1 DEF ReaderInv
    <2>3. QED
      BY <1>1, <1>2, <1>3, <2>1, <2>2
         DEF ReaderInv, Stopped, Revision, Subscribed
  <1>7. CASE Unsubscribe(q)
    BY <1>1, <1>7 DEF ReadersInv, ReadersTypeOK, Unsubscribe, ReaderInv,
                      Subscribed, engineVars, ownerVars
  <1>8. CASE NextSkip(q)
    <2>1. /\ stage[q] = "open" /\ position'[q] = position[q] + 1
          /\ position[q] + 1 <= cursor[q] /\ position[q] < emitted
          /\ UNCHANGED <<stage, tap, cursor, start, heard, lost, phase, emitted,
                         published, reduced>>
      BY <1>8 DEF ReadersInv, ReadersTypeOK, NextSkip, Readable, engineVars,
                  ownerVars
    <2>2. cursor[q] = start[q]
      BY <1>2, <1>3, <2>1 DEF ReaderInv, Subscribed
    <2>3. (start'[q] + 1)..position'[q] = {}
      BY <1>2, <2>1, <2>2
    <2>4. QED
      BY <1>1, <1>2, <1>3, <2>1, <2>2, <2>3
         DEF ReaderInv, Subscribed, Stopped, Revision
  <1>9. CASE NextDeliver(q)
    <2> DEFINE n == position[q] + 1
    <2>1. /\ stage[q] = "open" /\ tap[q] /\ position[q] < emitted
          /\ n > cursor[q]
          /\ position'[q] = n /\ cursor'[q] = n
          /\ heard'[q] = Append(heard[q], n)
          /\ UNCHANGED <<stage, tap, start, lost, phase, emitted, published,
                         reduced>>
      BY <1>9 DEF ReadersInv, ReadersTypeOK, NextDeliver, Readable, engineVars,
                  ownerVars
    <2>2. /\ DOMAIN heard'[q] = 1..(Len(heard[q]) + 1)
          /\ DOMAIN heard[q] = 1..Len(heard[q]) /\ Len(heard[q]) \in Nat
          /\ \A i \in 1..Len(heard[q]) : heard'[q][i] = heard[q][i]
          /\ heard'[q][Len(heard[q]) + 1] = n
      BY <1>2, <2>1, AppendProperties, LenProperties
    <2>3. \A i \in 1..Len(heard[q]) :
            /\ heard[q][i] \in Nat
            /\ start[q] < heard[q][i] /\ heard[q][i] <= cursor[q]
      BY <1>2, <1>3, <2>1, <2>2, ElementOfSeq DEF ReaderInv, Subscribed
    <2>4. Heard(q)' = Heard(q) \cup {n}
      BY <2>2 DEF Heard
    <2>5. /\ start[q] <= cursor[q]
          /\ \A k \in (start[q] + 1)..position[q] : k \in Heard(q) \cup lost[q]
          /\ \A i, j \in DOMAIN heard[q] : i < j => heard[q][i] < heard[q][j]
      BY <1>3, <2>1 DEF ReaderInv, Subscribed
    <2>6. \A k \in (start[q] + 1)..n : k \in Heard(q)' \cup lost'[q]
      BY <1>2, <2>1, <2>4, <2>5
    <2>7. \A i \in DOMAIN heard'[q] : start[q] < heard'[q][i] /\ heard'[q][i] <= n
      <3> SUFFICES ASSUME NEW i \in DOMAIN heard'[q]
                   PROVE  start[q] < heard'[q][i] /\ heard'[q][i] <= n
        OBVIOUS
      <3>1. n \in Nat /\ cursor[q] \in Nat /\ start[q] \in Nat /\ cursor[q] < n
        BY <1>2, <2>1
      <3>2. CASE i \in 1..Len(heard[q])
        <4>1. heard'[q][i] = heard[q][i]
          BY <2>2, <3>2
        <4>2. /\ heard[q][i] \in Nat /\ start[q] < heard[q][i]
              /\ heard[q][i] <= cursor[q]
          BY <2>3, <3>2
        <4> HIDE DEF n
        <4>3. QED
          BY <3>1, <4>1, <4>2
      <3>3. CASE i = Len(heard[q]) + 1
        <4>1. heard'[q][i] = n
          BY <2>2, <3>3
        <4> HIDE DEF n
        <4>2. QED
          BY <2>5, <3>1, <4>1
      <3>4. QED
        BY <2>2, <3>2, <3>3
    <2>8. ASSUME NEW i \in DOMAIN heard'[q], NEW j \in DOMAIN heard'[q], i < j
          PROVE  heard'[q][i] < heard'[q][j]
      <3>1. i \in 1..Len(heard[q])
        BY <2>2, <2>8
      <3>2. CASE j \in 1..Len(heard[q])
        BY <2>2, <2>5, <2>8, <3>1, <3>2
      <3>3. CASE j = Len(heard[q]) + 1
        <4>1. heard'[q][j] = n /\ heard'[q][i] = heard[q][i]
          BY <2>2, <3>1, <3>3
        <4>2. heard[q][i] \in Nat /\ heard[q][i] <= cursor[q]
          BY <2>3, <3>1
        <4>3. n \in Nat /\ cursor[q] \in Nat /\ cursor[q] < n
          BY <1>2, <2>1
        <4> HIDE DEF n
        <4>4. QED
          BY <4>1, <4>2, <4>3
      <3>4. QED
        BY <2>2, <3>2, <3>3
    <2>9. /\ position'[q] <= emitted' /\ start'[q] <= cursor'[q]
          /\ cursor'[q] <= published' /\ cursor'[q] = n /\ position'[q] = n
          /\ stage'[q] = "open" /\ tap'[q]
      BY <1>1, <1>2, <2>1, <2>5
    <2> HIDE DEF n
    <2>10. start'[q] = start[q]
      BY <2>1
    <2>11. /\ \A k \in (start'[q] + 1)..position'[q] : k \in Heard(q)' \cup lost'[q]
           /\ \A i \in DOMAIN heard'[q] :
                start'[q] < heard'[q][i] /\ heard'[q][i] <= cursor'[q]
      BY <2>6, <2>7, <2>9, <2>10
    <2>12. \A i, j \in DOMAIN heard'[q] : i < j => heard'[q][i] < heard'[q][j]
      BY <2>8
    <2>13. n <= n
      BY <1>2 DEF n
    <2>14. QED
      BY <2>9, <2>11, <2>12, <2>13 DEF ReaderInv, Subscribed
  <1>10. CASE NextLagged(q)
    <2>1. /\ stage[q] = "open" /\ tap[q] /\ position[q] < Overwritten
          /\ position'[q] = Overwritten
          /\ lost'[q] = lost[q] \cup (position[q] + 1)..Overwritten
          /\ UNCHANGED <<stage, tap, cursor, start, heard, phase, emitted,
                         published, reduced>>
      BY <1>10 DEF ReadersInv, ReadersTypeOK, NextLagged, Lagging, engineVars,
                   ownerVars
    <2>2. Heard(q)' = Heard(q)
      BY <2>1 DEF Heard
    <2>3. \A k \in (start[q] + 1)..Overwritten : k \in Heard(q)' \cup lost'[q]
      BY <1>2, <1>3, <1>4, <2>1, <2>2 DEF ReaderInv, Subscribed
    <2>4. QED
      BY <1>1, <1>2, <1>3, <1>4, <2>1, <2>3 DEF ReaderInv, Subscribed
  <1>11. CASE \/ Changed(q) \/ WaitStep(q) \/ WaitElapsed(q)
              \/ \E k \in Queries : StartWait(q, k)
    <2>1. /\ UNCHANGED <<tap, position, cursor, start, heard, lost, phase,
                         emitted, published, reduced>>
          /\ stage[q] \in {"open", "waiting"} /\ stage'[q] \in {"open", "waiting"}
      BY <1>11 DEF ReadersInv, ReadersTypeOK, Changed, WaitStep, WaitReady,
                   WaitChanged, WaitClosed, WaitElapsed, Exhausted, Resolve,
                   StartWait, engineVars, ownerVars
    <2>2. QED
      BY <1>3, <2>1 DEF ReaderInv, Subscribed, Heard, Stopped, Revision
  <1>12. QED
    BY <1>5, <1>6, <1>7, <1>8, <1>9, <1>10, <1>11
       DEF ReaderStep, EventStep
-----------------------------------------------------------------------------
(* The invariant of the read side.                                          *)
THEOREM ReadersInvariant == ReadersSpec => [](IInv /\ ReadersInv)
  <1>1. InitAll => IInv /\ ReadersInv
    <2> SUFFICES ASSUME InitAll PROVE IInv /\ ReadersInv
      OBVIOUS
    <2>1. IInv
      BY InitIInv DEF InitAll
    <2>2. ReadersTypeOK
      BY DEF InitAll, ReadersInit, ReadersTypeOK
    <2>3. ASSUME NEW r \in Readers PROVE ReaderInv(r)
      BY DEF InitAll, Init, ReadersInit, ReaderInv, Subscribed
    <2>4. QED
      BY <2>1, <2>2, <2>3 DEF ReadersInv
  <1>2. ASSUME IInv, ReadersInv, [NextAll]_vars
        PROVE  IInv' /\ ReadersInv'
    <2>1. [Next]_engineVars
      BY <1>2 DEF NextAll, vars, ReaderStep, SubscribeEvents,
                  SubscribeSnapshot, Unsubscribe, EventStep, NextSkip,
                  NextDeliver, NextLagged, Changed, StartWait, WaitStep,
                  WaitReady, WaitChanged, WaitClosed, WaitElapsed, Resolve
    <2>2. IInv'
      BY <1>2, <2>1, EngineStepKeepsIInv
    <2>3. CASE UNCHANGED readerVars
      <3>1. ReadersTypeOK'
        BY <1>2, <2>3 DEF ReadersInv, ReadersTypeOK, readerVars
      <3>2. ASSUME NEW r \in Readers PROVE ReaderInv(r)'
        <4>1. readerState(r)' = readerState(r)
          BY <2>3 DEF readerVars, readerState
        <4>2. QED
          BY <1>2, <2>1, <2>2, <4>1, OthersKeepReader
      <3>3. QED
        BY <2>2, <3>1, <3>2 DEF ReadersInv
    <2>4. ASSUME NEW q \in Readers, ReaderStep(q)
          PROVE  ReadersInv'
      <3>1. ReadersTypeOK'
        BY <1>2, <2>4, ReaderTypesStep DEF ReadersInv
      <3>2. ASSUME NEW r \in Readers, r # q PROVE ReaderInv(r)'
        <4>1. readerState(r)' = readerState(r)
          BY <1>2, <2>4, <3>2
             DEF readerState, ReadersInv, ReadersTypeOK, ReaderStep,
                 SubscribeEvents, SubscribeSnapshot, Unsubscribe, EventStep,
                 NextSkip, NextDeliver, NextLagged, Changed, StartWait,
                 WaitStep, WaitReady, WaitChanged, WaitClosed, WaitElapsed,
                 Resolve
        <4>2. QED
          BY <1>2, <2>1, <2>2, <4>1, OthersKeepReader
      <3>3. ReaderInv(q)'
        BY <1>2, <2>4, OwnStep
      <3>4. QED
        BY <3>1, <3>2, <3>3 DEF ReadersInv
    <2>5. QED
      BY <1>2, <2>2, <2>3, <2>4 DEF NextAll, vars
  <1>3. QED
    BY <1>1, <1>2, PTL DEF ReadersSpec

(* The two halves of subscribe "meet without a gap or duplicate revision",  *)
(* wherever the owner is between its own three steps.                       *)
THEOREM StreamsMeet == ReadersSpec => []NoGapNoDuplicate
  <1>1. ReadersInv => NoGapNoDuplicate
    <2>1. ASSUME ReadersInv, NEW r \in Readers, ~Subscribed(r)
          PROVE  heard[r] = <<>>
      BY <2>1 DEF ReadersInv, ReadersTypeOK, ReaderInv, Subscribed
    <2>2. QED
      BY <2>1 DEF ReadersInv, ReaderInv, NoGapNoDuplicate
  <1>2. QED
    BY <1>1, ReadersInvariant, PTL

(* An event is never ahead of the snapshot that readers can take.           *)
THEOREM EventsAreInSnapshot == ReadersSpec => []EventInSnapshot
  <1>1. IInv /\ ReadersInv => EventInSnapshot
    <2> SUFFICES ASSUME IInv, ReadersInv, NEW r \in Readers, NEW n \in Heard(r)
                 PROVE  n <= published
      BY DEF EventInSnapshot
    <2>1. PICK i \in DOMAIN heard[r] : n = heard[r][i]
      BY DEF Heard
    <2>2. Subscribed(r)
      BY <2>1 DEF ReadersInv, ReadersTypeOK, ReaderInv, Subscribed
    <2>3. heard[r][i] \in Nat /\ cursor[r] \in Nat /\ published \in Nat
      BY <2>1, ElementOfSeq, OwnerOrder DEF ReadersInv, ReadersTypeOK
    <2>4. QED
      BY <2>1, <2>2, <2>3 DEF ReadersInv, ReaderInv
  <1>2. QED
    BY <1>1, ReadersInvariant, PTL

(* Closed is the end: nothing that was published is left unread.            *)
THEOREM ClosedMeansAll == ReadersSpec => []ClosedIsComplete
  <1>1. IInv /\ ReadersInv => ClosedIsComplete
    <2> SUFFICES ASSUME IInv, ReadersInv, NEW r \in Readers
                 PROVE  /\ EventsClosed(r) =>
                             \A n \in (start[r] + 1)..Revision :
                               n \in Heard(r) \cup lost[r]
                        /\ SnapshotsClosed(r) => latest[r] = Revision
      BY DEF ClosedIsComplete
    <2>1. /\ Revision \in Nat
          /\ Stopped => published = Revision /\ emitted = Revision
      BY OwnerOrder
    <2>2. ReaderInv(r)
      BY DEF ReadersInv
    <2>3. EventsClosed(r) => position[r] = Revision \/ start[r] = Revision
      BY <2>1, <2>2 DEF EventsClosed, ReaderInv, Subscribed
    <2>4. EventsClosed(r) =>
            \A n \in (start[r] + 1)..Revision : n \in Heard(r) \cup lost[r]
      BY <2>1, <2>2, <2>3 DEF EventsClosed, ReaderInv, Subscribed
    <2>5. QED
      BY <2>1, <2>4 DEF SnapshotsClosed
  <1>2. QED
    BY <1>1, ReadersInvariant, PTL
=============================================================================
