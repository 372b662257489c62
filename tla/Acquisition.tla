----------------------------- MODULE Acquisition -----------------------------
(***************************************************************************)
(* From the tap to the world, and from the tap to the capture file and     *)
(* back: an attachment's start-up on its owner thread (run, in             *)
(* adapter-frida/src/attachment.rs), the handler that records and promotes *)
(* each message of the agent on Frida's thread (agent.rs, recording.rs),   *)
(* the capture file over several runs of the program, some of which die or *)
(* tear a row (capture/src), its replay (apps/replay) and a follower that  *)
(* reads it while it grows (apps/live).                                    *)
(*                                                                         *)
(* The file is a sequence of pieces.  A row is written as its JSON, in two *)
(* halves, and a newline: a write that fails may leave any first part of   *)
(* them.  In messages, rows and observations, run and at only identify     *)
(* them (the file has the time of capture for that).  What the start-up    *)
(* reads from the client's memory is observed but never recorded, so only  *)
(* the order of its stages is kept.                                        *)
(***************************************************************************)
EXTENDS Wire, FiniteSets

CONSTANTS Messages,      \* what the agent may report
          Tables,        \* processes: who has the name, who has a window
          EarlierRows,   \* packet rows of another tool, already in the file
          SeedAttempts,  \* INVENTORY_SEED_ATTEMPTS
          MaxMessages,   \* bound: messages, over all runs
          MaxRuns        \* bound: runs of the program

ASSUME AcquisitionAssumption ==
  /\ SeedAttempts \in Nat \ {0} /\ MaxMessages \in Nat /\ MaxRuns \in Nat
  /\ \A t \in Tables : t.visible \subseteq Nat /\ t.named \subseteq Nat

(* What emitPacket of the agent sends: the length of the bytes that go with *)
(* it.  A development agent may leave the length out, which is a negative   *)
(* one here, and name a fault as it likes.                                  *)
ASSUME MessagesAssumption ==
  /\ Messages \subseteq
       [type : {"packet"}, direction : STRING, data : Seq(0..255), length : Int]
         \cup [type : {"transport-closed"}]
         \cup [type : {"transport-fault"}, operation : STRING,
              code : {"an i32", "none"}]
  /\ \A m \in Messages :
       m.type = "packet" => m.length < 0 \/ m.length = Len(m.data)

(* The rows of others are of no run of this program. *)
ASSUME EarlierRowsAssumption ==
  EarlierRows \subseteq Seq([type : {"packet"}, direction : STRING,
                            length : Nat, hex : Seq(0..255), run : {0}, at : {0}])

VARIABLES
  run,       \* the number of the current run
  stage,     \* where its owner thread is
  attempt,   \* readings of the inventory so far
  engine,    \* whether its engine accepts observations
  recorder,  \* Recorder
  warned,    \* "raw JSONL recording stopped" was sent
  hand,      \* the message in the handler, and how far it is
  sent,      \* messages so far
  lived,     \* history: the outcomes of this run, in order
  file,      \* the capture file
  follower   \* live::follow

runVars == <<run, stage, attempt, engine>>
vars == <<runVars, recorder, warned, hand, sent, lived, file, follower>>

Nothing == [type |-> "nothing"]
Loaded == {"seeding", "serving"}
-----------------------------------------------------------------------------
(* Capture rows, and what a reader makes of them.                           *)

StartRow(r) == [type |-> "capture-session-start", run |-> r, at |-> 0]

(* Row::from(Frame) of a message. *)
RowOf(m, at) ==
  IF m.type = "packet"
    THEN [type |-> "packet", direction |-> m.direction,
          length |-> Len(m.data), hex |-> m.data, run |-> run, at |-> at]
    ELSE [type |-> m.type, run |-> run, at |-> at]

(* RowFlow::protocol, and the vocabulary of the handler. *)
FlowOf(direction) ==
  CASE direction \in {"incoming", "clientbound"} -> "clientbound"
    [] direction \in {"outgoing", "serverbound"} -> "serverbound"
    [] OTHER -> "other"

Entry(row, what) == [what |-> what, run |-> row.run, at |-> row.at]
Fact(row, what) == Entry(row, what)
Rejected(row) == Entry(row, "rejected")
Promoted(row, packet) ==
  [what |-> "packet", run |-> row.run, at |-> row.at, packet |-> packet]

(* The whole of a packet row: its flow, its body, its length, its decoder. *)
ClassifyPacket(row) ==
  IF \/ FlowOf(row.direction) = "other"
     \/ row.length # Len(row.hex)
     \/ Decode(FlowOf(row.direction), Len(row.hex), row.hex) = Malformed
    THEN Rejected(row)
    ELSE Promoted(row, Decode(FlowOf(row.direction), Len(row.hex), row.hex))

(* record::classify, by the type of the row. *)
ClassifyRow(row) ==
  CASE row.type = "capture-session-start" -> Fact(row, "SessionStarted")
    [] row.type = "transport-closed" -> Fact(row, "TransportClosed")
    [] row.type = "packet" -> ClassifyPacket(row)
    [] OTHER -> Entry(row, "skipped")

(* One line: JSON only if it is the two halves of one row.                  *)
Classify(line) ==
  IF Len(line) = 2 /\ line[1] = [row |-> line[2].row, part |-> "head"]
                   /\ line[2].part = "rest"
    THEN ClassifyRow(line[1].row)
    ELSE [what |-> "rejected", run |-> 0, at |-> 0]

Newline == [row |-> Nothing, part |-> "newline"]
PiecesOf(row) == <<[row |-> row, part |-> "head"],
                   [row |-> row, part |-> "rest"], Newline>>

(* Codec::decode as long as there is a newline: the records, the remainder. *)
Take(decoded, piece) ==
  IF piece = Newline
    THEN [records |-> Append(decoded.records, Classify(decoded.pending)),
          pending |-> <<>>]
    ELSE [records |-> decoded.records, pending |-> Append(decoded.pending, piece)]
DecodeLines(pieces) ==
  LET after[n \in 0..Len(pieces)] ==
        IF n = 0 THEN [records |-> <<>>, pending |-> <<>>]
        ELSE Take(after[n - 1], pieces[n])
  IN after[Len(pieces)]

(* replay, which ends with decode_eof. *)
Replay(pieces) ==
  LET d == DecodeLines(pieces)
  IN IF d.pending = <<>> THEN d.records
     ELSE Append(d.records, Classify(d.pending))
-----------------------------------------------------------------------------
Init ==
  /\ run = 0 /\ stage = "down" /\ attempt = 1
  /\ engine = "running" /\ recorder = "disabled" /\ warned = FALSE
  /\ hand = Nothing /\ sent = 0 /\ lived = <<>>
  /\ \E rows \in EarlierRows :
       file = [i \in 1..(3 * Len(rows)) |->
                 PiecesOf(rows[(i + 2) \div 3])[((i - 1) % 3) + 1]]
  /\ follower = [at |-> 0, from |-> 0, pending |-> <<>>, seen |-> <<>>,
                 phase |-> "closed"]

(* Active::write: the row, or after a failure some first part of it, with   *)
(* what the dropped BufWriter may still have flushed.                       *)
Written(row, ok) ==
  IF ok THEN file' = file \o PiecesOf(row)
  ELSE \E n \in 0..3 : file' = file \o SubSeq(PiecesOf(row), 1, n)

(* resolve: the only process of that name, or else the only visible one.    *)
Resolved(t) ==
  {pid \in t.named : t.named = {pid} \/ t.named \cap t.visible = {pid}}

Started == [what |-> "SessionStarted", run |-> run, at |-> 0]

(* The thread is gone, with everything that only it and its script hold. *)
Down ==
  /\ stage' = "down" /\ hand' = Nothing /\ lived' = <<>>
  /\ attempt' = 1 /\ engine' = "running"
  /\ recorder' = "disabled" /\ warned' = FALSE
  /\ UNCHANGED <<run, sent, follower>>

(* run up to Recorder::open, which writes the first row of the run.         *)
Open ==
  /\ stage = "down" /\ run < MaxRuns
  /\ run' = run + 1
  /\ \E t \in Tables, recording \in BOOLEAN :
       IF Resolved(t) = {}   \* ProcessNotFound, AmbiguousProcess
         THEN UNCHANGED <<stage, recorder, file>>
       ELSE IF ~recording
         THEN /\ stage' = "opened"
              /\ UNCHANGED <<recorder, file>>
       ELSE \E ok \in BOOLEAN :
              /\ Written(StartRow(run + 1), ok)
              /\ stage' = IF ok THEN "opened" ELSE "down"
              /\ recorder' = IF ok THEN "active" ELSE "disabled"
  /\ UNCHANGED <<attempt, engine, warned, hand, sent, lived, follower>>

(* Frida refuses to attach, to create or to load the script, or a reading   *)
(* of the client, or the engine an observation: the thread ends.            *)
StartupFails ==
  /\ stage \in {"opened", "attached", "seeding"}
  /\ Down
  /\ UNCHANGED file

(* The handler is in place before the session starts in the engine, and the *)
(* script is loaded only then.                                              *)
StartSession ==
  /\ stage = "opened"
  /\ stage' = "attached"
  /\ lived' = Append(lived, Started)
  /\ UNCHANGED <<run, attempt, engine, recorder, warned, hand, sent, file,
                 follower>>

LoadScript ==
  /\ stage = "attached"
  /\ stage' = "seeding"
  /\ UNCHANGED <<run, attempt, engine, recorder, warned, hand, sent, lived,
                 file, follower>>

(* seed_resources, seed_inventory and seed_map_identity: each is observed   *)
(* or ends in a warning.                                                    *)
Seed ==
  /\ stage = "seeding"
  /\ stage' = "serving"
  /\ UNCHANGED <<run, attempt, engine, recorder, warned, hand, sent, lived,
                 file, follower>>

(* seed_inventory: the client has no inventory yet. *)
InventoryUnknown ==
  /\ stage = "seeding" /\ attempt < SeedAttempts
  /\ attempt' = attempt + 1
  /\ UNCHANGED <<run, stage, engine, recorder, warned, hand, sent, lived, file,
                 follower>>

(* The command loop ends and unloads the script (see FridaOwner). *)
Unload == stage = "serving" /\ hand = Nothing /\ Down /\ UNCHANGED file

(* The program is killed. *)
Dies == stage # "down" /\ Down /\ UNCHANGED file

(* The engine's task is gone, and refuses every further observation; only   *)
(* the handler has something to tell it.                                    *)
EngineStops ==
  /\ engine = "running" /\ hand # Nothing /\ hand.phase = "recorded"
  /\ engine' = "stopped"
  /\ UNCHANGED <<run, stage, attempt, recorder, warned, hand, sent, lived,
                 file, follower>>
-----------------------------------------------------------------------------
(* The handler: one message of the agent after the other.                   *)

Arrive(m) ==
  /\ stage \in Loaded /\ hand = Nothing /\ sent < MaxMessages
  /\ sent' = sent + 1
  /\ hand' = [type |-> m.type, message |-> m, at |-> sent + 1,
              phase |-> "arrived"]
  /\ UNCHANGED <<runVars, recorder, warned, lived, file, follower>>

(* The guards of handle_packet (a flow, a body, <<>> is none, and a length) *)
(* and of handle_transport_fault (a socket operation and a code).           *)
Framed(m) ==
  /\ m.type = "packet" => /\ m.direction \in {"incoming", "outgoing"}
                          /\ m.data # <<>> /\ m.length >= 0
  /\ m.type = "transport-fault" => /\ m.operation \in {"receive", "send"}
                                   /\ m.code = "an i32"

RejectUnframed ==
  /\ hand # Nothing /\ hand.phase = "arrived" /\ ~Framed(hand.message)
  /\ hand' = Nothing
  /\ UNCHANGED <<runVars, recorder, warned, sent, lived, file, follower>>

(* Mutant: a body is decoded first and recorded only if it is promoted. *)
RecordPromoted ==
  /\ hand # Nothing /\ hand.phase = "arrived" /\ Framed(hand.message)
  /\ hand' = [hand EXCEPT !.phase = "recorded"]
  /\ IF recorder = "active" /\ ClassifyRow(RowOf(hand.message, hand.at))
                                 # Rejected(RowOf(hand.message, hand.at))
       THEN /\ Written(RowOf(hand.message, hand.at), TRUE)
            /\ UNCHANGED <<recorder, warned>>
       ELSE UNCHANGED <<recorder, warned, file>>
  /\ UNCHANGED <<runVars, sent, lived, follower>>

(* Recorder::packet, transport_closed, transport_fault: before anything is  *)
(* decoded.  The first failure ends the recording with one warning.         *)
Record ==
  /\ hand # Nothing /\ hand.phase = "arrived" /\ Framed(hand.message)
  /\ hand' = [hand EXCEPT !.phase = "recorded"]
  /\ IF recorder = "active"
       THEN \E ok \in BOOLEAN :
              /\ Written(RowOf(hand.message, hand.at), ok)
              /\ recorder' = IF ok THEN "active" ELSE "failed"
              /\ warned' = (warned \/ ~ok)
       ELSE UNCHANGED <<recorder, warned, file>>
  /\ UNCHANGED <<runVars, sent, lived, follower>>

(* What the handler makes of a recorded message, for a running engine.      *)
Outcome(m, at) ==
  LET packet == Decode(FlowOf(m.direction), m.length, m.data)
      here == [run |-> run, at |-> at]
  IN IF m.type = "transport-closed" THEN Fact(here, "TransportClosed")
     ELSE IF m.type = "transport-fault" THEN Entry(here, "skipped")
     ELSE IF packet = Malformed THEN Rejected(here)
     ELSE Promoted(here, packet)

(* The rest of handle_packet, handle_transport_closed, handle_transport_    *)
(* fault; a stopped engine turns an observation into Event::Rejected.       *)
Promote ==
  /\ hand # Nothing /\ hand.phase = "recorded"
  /\ hand' = Nothing
  /\ lived' = Append(lived,
                IF engine = "stopped" /\ hand.type # "transport-fault"
                  THEN Rejected([run |-> run, at |-> hand.at])
                  ELSE Outcome(hand.message, hand.at))
  /\ UNCHANGED <<runVars, recorder, warned, sent, file, follower>>
-----------------------------------------------------------------------------
(* The follower, a program of its own.                                      *)

FollowFrom ==
  /\ follower.phase = "closed"
  /\ \E from \in {0, Len(file)} :
       follower' = [follower EXCEPT !.at = from, !.from = from,
                                    !.phase = "catching up"]
  /\ UNCHANGED <<runVars, recorder, warned, hand, sent, lived, file>>

(* Mutant: one row for each read. *)
ReadOne ==
  /\ follower.phase # "closed" /\ follower.at < Len(file)
  /\ \E n \in (follower.at + 1)..Len(file) :
       LET all == follower.pending \o SubSeq(file, follower.at + 1, n)
           ends == {i \in DOMAIN all : all[i] = Newline}
           cut == IF ends = {} THEN 0
                  ELSE CHOOSE i \in ends : \A j \in ends : i <= j
       IN follower' = [follower EXCEPT
            !.at = n,
            !.pending = SubSeq(all, cut + 1, Len(all)),
            !.seen = @ \o DecodeLines(SubSeq(all, 1, cut)).records]
  /\ UNCHANGED <<runVars, recorder, warned, hand, sent, lived, file>>

(* Mutant: the end of the file ends a row, as it does for a replay. *)
ReadToEnd ==
  /\ follower.phase # "closed" /\ follower.at < Len(file)
  /\ follower' = [follower EXCEPT
       !.at = Len(file),
       !.seen = @ \o Replay(SubSeq(file, follower.at + 1, Len(file)))]
  /\ UNCHANGED <<runVars, recorder, warned, hand, sent, lived, file>>

(* read_buf gets some bytes of what is there; every complete row of them is *)
(* decoded and published.                                                   *)
Read ==
  /\ follower.phase # "closed" /\ follower.at < Len(file)
  /\ \E n \in (follower.at + 1)..Len(file) :
       LET d == DecodeLines(follower.pending
                              \o SubSeq(file, follower.at + 1, n))
       IN follower' = [follower EXCEPT !.at = n, !.pending = d.pending,
                                       !.seen = @ \o d.records]
  /\ UNCHANGED <<runVars, recorder, warned, hand, sent, lived, file>>

Ready ==
  /\ follower.phase = "catching up"
  /\ follower.at = Len(file) /\ follower.pending = <<>>
  /\ follower' = [follower EXCEPT !.phase = "following"]
  /\ UNCHANGED <<runVars, recorder, warned, hand, sent, lived, file>>
-----------------------------------------------------------------------------
Startup == \/ Open \/ StartSession \/ LoadScript \/ InventoryUnknown
           \/ Seed \/ StartupFails \/ Unload \/ Dies \/ EngineStops

Handler == (\E m \in Messages : Arrive(m)) \/ RejectUnframed \/ Record
           \/ Promote

Follow == FollowFrom \/ Read \/ Ready

Next == Startup \/ Handler \/ Follow

Spec == Init /\ [][Next]_vars

(* A follower that runs keeps reading. *)
FairSpec == Spec /\ WF_vars(Read)
-----------------------------------------------------------------------------
TypeOK ==
  /\ run \in 0..MaxRuns /\ attempt \in 0..SeedAttempts
  /\ stage \in {"down", "opened", "attached"} \cup Loaded
  /\ engine \in {"running", "stopped"}
  /\ recorder \in {"disabled", "active", "failed"} /\ warned \in BOOLEAN
  /\ sent \in 0..MaxMessages
  /\ follower.at \in 0..Len(file) /\ follower.from \in 0..follower.at

(* What this run has left in the file, as a replay of the whole file reads  *)
(* it, and what it should have left: everything but the seeds, which come   *)
(* from memory, with the message that is between its record and its world.  *)
Keep(r, kept, entry) ==
  IF entry.run = r THEN Append(kept, entry) ELSE kept
OfRun(r, entries) ==
  LET kept[n \in 0..Len(entries)] ==
        IF n = 0 THEN <<>> ELSE Keep(r, kept[n - 1], entries[n])
  IN kept[Len(entries)]
Replayed == OfRun(run, Replay(file))
InHand ==
  IF hand = Nothing \/ hand.phase = "arrived" THEN <<>>
  ELSE <<Outcome(hand.message, hand.at)>>
Evidence ==
  (IF stage = "opened" THEN <<Started>> ELSE <<>>) \o lived \o InHand

(* A row torn by an earlier run swallows the first row of the next one.     *)
Glued ==
  \E i \in 2..Len(file) :
    /\ file[i] = PiecesOf(file[i].row)[1] /\ file[i - 1] # Newline
    /\ file[i].row.type = "capture-session-start" /\ file[i].row.run = run

(* Recording precedes promotion and is independent of it: as long as a run  *)
(* records, a replay of the file sees just what its engine saw, in the same *)
(* order, a body that is quarantined in one being rejected in the other;    *)
(* when the recording has failed it ends with a warning, and what is there  *)
(* is still a first part.                                                   *)
ReplayIsLive ==
  (stage # "down" /\ engine = "running") =>
    LET expected == IF Glued THEN Tail(Evidence) ELSE Evidence
    IN /\ recorder = "active" => Replayed = expected
       /\ recorder = "failed" => warned /\ IsPrefix(Replayed, expected)

(* However the file grows, wherever the follower begins and however its     *)
(* reads cut the rows, what it has published so far is what a replay from   *)
(* the same place would begin with.                                         *)
FollowerIsReplay ==
  IsPrefix(follower.seen,
           Replay(SubSeq(file, follower.from + 1, Len(file))))

(* Every row that was completed reaches a running follower.                 *)
CompleteRows ==
  Cardinality({i \in (follower.from + 1)..Len(file) : file[i] = Newline})
FollowerCatchesUp ==
  \A n \in 1..(1 + MaxRuns + MaxMessages) :
    (follower.phase # "closed" /\ n <= CompleteRows)
      ~> n <= Len(follower.seen)
=============================================================================
