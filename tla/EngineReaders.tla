--------------------------- MODULE EngineReaders ----------------------------
(***************************************************************************)
(* The read side of crates/engine/src/runtime.rs on top of Engine: World,  *)
(* Subscription, Events and Wait.  A subscription joins two channels with  *)
(* no common lock: a watch that keeps the newest snapshot and a broadcast  *)
(* ring that keeps the last EventSlots events.                             *)
(*                                                                         *)
(* The owner emits one event per revision, so an event and its place in    *)
(* the ring are both named by the revision; a ring without receivers       *)
(* stores nothing, which no receiver can tell.                             *)
(***************************************************************************)
EXTENDS Engine, FiniteSets

CONSTANTS Readers,     \* who may hold a Subscription
          EventSlots,  \* the ring: Config::event_capacity, rounded up to 2^k
          Queries,     \* each the set of revisions whose snapshot satisfies it
          MaxLoad      \* bound on the calls made and the subscriptions held

ASSUME SlotsAssumption == EventSlots \in Nat \ {0}
ASSUME QueriesAssumption == Queries \subseteq SUBSET Nat

VARIABLES stage,    \* how far each reader's subscription is
          tap,      \* whether it holds a broadcast receiver
          position, \* revision of the last event the receiver has passed
          cursor,   \* Events::cursor
          latest,   \* revision of Subscription::latest, the last one seen
          query,    \* the query of the Wait it is in
          start,    \* history: the cursor at subscription
          heard,    \* history: the revisions next has returned
          lost      \* history: the revisions overwritten before next got there

readerVars == <<stage, tap, position, cursor, latest, query, start, heard,
                lost>>
vars == <<engineVars, readerVars>>

(* A bound: no behavior has more revisions than calls. *)
LastRevision == Cardinality(Observations)

(* The newest revision that is no longer in the ring. *)
Overwritten == IF emitted > EventSlots THEN emitted - EventSlots ELSE 0

ReadersInit ==
  /\ stage = [r \in Readers |-> "none"]
  /\ tap = [r \in Readers |-> FALSE]
  /\ position = [r \in Readers |-> 0]
  /\ cursor = [r \in Readers |-> 0]
  /\ latest = [r \in Readers |-> 0]
  /\ query = [r \in Readers |-> {}]
  /\ start = [r \in Readers |-> 0]
  /\ heard = [r \in Readers |-> <<>>]
  /\ lost = [r \in Readers |-> {}]

InitAll == Init /\ ReadersInit
-----------------------------------------------------------------------------
(* World::subscribe, first half: a receiver at the tail of the ring, or     *)
(* none when the owner and with it the only strong sender is gone.          *)
SubscribeEvents(r) ==
  /\ stage[r] = "none"
  /\ stage' = [stage EXCEPT ![r] = "tapped"]
  /\ tap' = [tap EXCEPT ![r] = ~Stopped]
  /\ position' = [position EXCEPT ![r] = emitted]
  /\ UNCHANGED <<engineVars, cursor, latest, query, start, heard,
                 lost>>

(* World::subscribe, second half: the snapshot and the cursor it sets. *)
SubscribeSnapshot(r) ==
  /\ stage[r] = "tapped"
  /\ stage' = [stage EXCEPT ![r] = "open"]
  /\ latest' = [latest EXCEPT ![r] = published]
  /\ cursor' = [cursor EXCEPT ![r] = published]
  /\ start' = [start EXCEPT ![r] = published]
  /\ UNCHANGED <<engineVars, tap, position, query, heard, lost>>

Unsubscribe(r) ==
  /\ stage[r] = "open"
  /\ stage' = [stage EXCEPT ![r] = "none"]
  /\ tap' = [tap EXCEPT ![r] = FALSE]
  /\ position' = [position EXCEPT ![r] = 0]
  /\ cursor' = [cursor EXCEPT ![r] = 0]
  /\ latest' = [latest EXCEPT ![r] = 0]
  /\ query' = [query EXCEPT ![r] = {}]
  /\ start' = [start EXCEPT ![r] = 0]
  /\ heard' = [heard EXCEPT ![r] = <<>>]
  /\ lost' = [lost EXCEPT ![r] = {}]
  /\ UNCHANGED engineVars
-----------------------------------------------------------------------------
(* The receiver's next event is in the ring. *)
Readable(r) ==
  stage[r] = "open" /\ tap[r] /\ position[r] < emitted
    /\ Overwritten <= position[r]

(* Events::next passes an event the initial snapshot covers. *)
NextSkip(r) ==
  /\ Readable(r)
  /\ position[r] + 1 <= cursor[r]
  /\ position' = [position EXCEPT ![r] = @ + 1]
  /\ UNCHANGED <<engineVars, stage, tap, cursor, latest, query, start,
                 heard, lost>>

(* Mutant: an event that does not follow the cursor directly is passed over.*)
DeliverSuccessorOnly(r) ==
  /\ Readable(r)
  /\ position[r] + 1 > cursor[r]
  /\ position' = [position EXCEPT ![r] = @ + 1]
  /\ IF position[r] = cursor[r]
       THEN /\ cursor' = [cursor EXCEPT ![r] = position[r] + 1]
            /\ heard' = [heard EXCEPT ![r] = Append(@, position[r] + 1)]
       ELSE UNCHANGED <<cursor, heard>>
  /\ UNCHANGED <<engineVars, stage, tap, latest, query, start, lost>>

NextDeliver(r) ==
  /\ Readable(r)
  /\ position[r] + 1 > cursor[r]
  /\ position' = [position EXCEPT ![r] = @ + 1]
  /\ cursor' = [cursor EXCEPT ![r] = position[r] + 1]
  /\ heard' = [heard EXCEPT ![r] = Append(@, position[r] + 1)]
  /\ UNCHANGED <<engineVars, stage, tap, latest, query, start, lost>>

(* The receiver has fallen behind: next reports Lagged and the receiver     *)
(* jumps to the oldest event kept, while the cursor stays.                  *)
Lagging(r) == stage[r] = "open" /\ tap[r] /\ position[r] < Overwritten

(* Mutant: a lagging receiver starts again at the newest event. *)
ResubscribeOnLag(r) ==
  /\ Lagging(r)
  /\ lost' = [lost EXCEPT ![r] = @ \cup (position[r] + 1)..Overwritten]
  /\ position' = [position EXCEPT ![r] = emitted]
  /\ UNCHANGED <<engineVars, stage, tap, cursor, latest, query, start, heard>>

NextLagged(r) ==
  /\ Lagging(r)
  /\ lost' = [lost EXCEPT ![r] = @ \cup (position[r] + 1)..Overwritten]
  /\ position' = [position EXCEPT ![r] = Overwritten]
  /\ UNCHANGED <<engineVars, stage, tap, cursor, latest, query, start, heard>>

(* Mutant: a stopped owner closes the stream at once. *)
ClosedOnStop(r) == stage[r] = "open" /\ (tap[r] => Stopped)

(* When next answers Closed; the answer changes nothing.                    *)
EventsClosed(r) ==
  stage[r] = "open" /\ (tap[r] => Stopped /\ position[r] = emitted)

(* Mutant: a closed watch is reported before an unseen version. *)
ChangedWhileOpen(r) ==
  /\ stage[r] = "open"
  /\ ~Stopped
  /\ latest[r] # published
  /\ latest' = [latest EXCEPT ![r] = published]
  /\ UNCHANGED <<engineVars, stage, tap, position, cursor, query,
                 start, heard, lost>>

(* Subscription::changed with a version it has not seen; a closed watch is  *)
(* reported only when there is none.                                        *)
Changed(r) ==
  /\ stage[r] = "open"
  /\ latest[r] # published
  /\ latest' = [latest EXCEPT ![r] = published]
  /\ UNCHANGED <<engineVars, stage, tap, position, cursor, query,
                 start, heard, lost>>

(* When changed answers Closed.                                             *)
SnapshotsClosed(r) == stage[r] = "open" /\ latest[r] = published /\ Stopped
-----------------------------------------------------------------------------
(* Subscription::wait, then Wait::run or Wait::within. *)
StartWait(r, q) ==
  /\ stage[r] = "open"
  /\ stage' = [stage EXCEPT ![r] = "waiting"]
  /\ query' = [query EXCEPT ![r] = q]
  /\ UNCHANGED <<engineVars, tap, position, cursor, latest, start, heard, lost>>

(* The wait returns and the borrowed subscription is usable again. *)
Resolve(r) ==
  /\ stage' = [stage EXCEPT ![r] = "open"]
  /\ query' = [query EXCEPT ![r] = {}]
  /\ UNCHANGED <<engineVars, tap, position, cursor, latest, start, heard, lost>>

(* Mutant: the snapshot in hand is not looked at, only later ones. *)
ReadyAfterChange(r) ==
  /\ stage[r] = "waiting"
  /\ latest[r] # start[r]
  /\ latest[r] \in query[r]
  /\ Resolve(r)

WaitReady(r) ==
  /\ stage[r] = "waiting"
  /\ latest[r] \in query[r]
  /\ Resolve(r)

WaitChanged(r) ==
  /\ stage[r] = "waiting"
  /\ latest[r] \notin query[r]
  /\ latest[r] # published
  /\ latest' = [latest EXCEPT ![r] = published]
  /\ UNCHANGED <<engineVars, stage, tap, position, cursor, query, start, heard,
                 lost>>

(* The wait has nothing left to look at and answers Closed once the owner   *)
(* has stopped; until then it may elapse, for tokio::time::timeout polls    *)
(* the wait before the deadline.                                            *)
Exhausted(r) ==
  /\ stage[r] = "waiting"
  /\ latest[r] \notin query[r]
  /\ latest[r] = published

WaitClosed(r) == Exhausted(r) /\ Stopped /\ Resolve(r)
WaitElapsed(r) == Exhausted(r) /\ ~Stopped /\ Resolve(r)

EventStep(r) == NextSkip(r) \/ NextDeliver(r) \/ NextLagged(r)
WaitStep(r) == WaitReady(r) \/ WaitChanged(r) \/ WaitClosed(r)

ReaderStep(r) ==
  \/ SubscribeEvents(r) \/ SubscribeSnapshot(r) \/ Unsubscribe(r)
  \/ EventStep(r) \/ Changed(r)
  \/ \E q \in Queries : StartWait(r, q)
  \/ WaitStep(r) \/ WaitElapsed(r)

(* A bound: behaviors with many calls have few readers, and the reverse.    *)
Load == Cardinality({o \in Observations : outcome[o] # "unsubmitted"})
          + Cardinality({r \in Readers : stage[r] # "none"})

NextAll ==
  /\ (Next /\ UNCHANGED readerVars) \/ \E r \in Readers : ReaderStep(r)
  /\ Load' <= MaxLoad

(* A reader inside subscribe or run is polled by its executor; a reader of  *)
(* the two streams is taken to keep calling next and changed.  The owner    *)
(* and the callers progress as in Engine.                                   *)
ReaderFairness ==
  \A r \in Readers :
    /\ WF_vars(SubscribeSnapshot(r))
    /\ SF_vars(EventStep(r))
    /\ SF_vars(Changed(r))
    /\ WF_vars(WaitStep(r))

ReadersSpec == InitAll /\ [][NextAll]_vars
ReadersFairSpec == ReadersSpec /\ Fairness /\ ReaderFairness
-----------------------------------------------------------------------------
ReadersTypeOK ==
  /\ stage \in [Readers -> {"none", "tapped", "open", "waiting"}]
  /\ tap \in [Readers -> BOOLEAN]
  /\ position \in [Readers -> Nat]
  /\ cursor \in [Readers -> Nat]
  /\ latest \in [Readers -> Nat]
  /\ query \in [Readers -> SUBSET Nat]
  /\ start \in [Readers -> Nat]
  /\ heard \in [Readers -> Seq(Nat)]
  /\ lost \in [Readers -> SUBSET Nat]

Subscribed(r) == stage[r] \in {"open", "waiting"}
Heard(r) == {heard[r][i] : i \in DOMAIN heard[r]}

(* "meet without a gap or duplicate revision": whatever the owner does      *)
(* between the two halves of subscribe, every revision after the snapshot   *)
(* that the stream has passed was delivered, or was overwritten and         *)
(* reported as lag; and the stream never repeats, never goes back and never *)
(* returns an event that the initial snapshot already contains.             *)
NoGapNoDuplicate ==
  \A r \in Readers :
    /\ Subscribed(r) =>
         \A n \in (start[r] + 1)..position[r] : n \in Heard(r) \cup lost[r]
    /\ \A i \in DOMAIN heard[r] : heard[r][i] > start[r]
    /\ \A i, j \in DOMAIN heard[r] : i < j => heard[r][i] < heard[r][j]

(* Whoever has received an event finds it in World::latest: the snapshot of *)
(* a revision is published before its event can be delivered.               *)
EventInSnapshot == \A r \in Readers : \A n \in Heard(r) : n <= published

(* When a stream reports Closed nothing is left unread: the events up to    *)
(* the final revision were all delivered or reported lost, and the reader   *)
(* of snapshots holds the final one.                                        *)
ClosedIsComplete ==
  \A r \in Readers :
    /\ EventsClosed(r) =>
         \A n \in (start[r] + 1)..Revision : n \in Heard(r) \cup lost[r]
    /\ SnapshotsClosed(r) => latest[r] = Revision

(* A reader that keeps polling hears of every revision the engine publishes *)
(* after its subscription or is told that it was lost, and comes to hold a  *)
(* snapshot that contains it, even if the owner stops meanwhile.            *)
ReadersCatchUp ==
  \A r \in Readers : \A n \in 1..LastRevision :
    /\ (Subscribed(r) /\ tap[r] /\ n > start[r] /\ n <= emitted)
         ~> (n \in Heard(r) \cup lost[r] \/ stage[r] \in {"none", "waiting"})
    /\ (Subscribed(r) /\ n <= published)
         ~> (n <= latest[r] \/ stage[r] \in {"none", "waiting"})

(* A wait returns once its query holds in every snapshot from now on, even  *)
(* though the watch coalesces revisions, and once the owner has stopped.    *)
StableWaitReturns ==
  \A r \in Readers :
    (stage[r] = "waiting" /\
       (Stopped \/ \A n \in published..LastRevision : n \in query[r]))
      ~> stage[r] # "waiting"
=============================================================================
