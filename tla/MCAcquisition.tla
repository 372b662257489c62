--------------------------- MODULE MCAcquisition ----------------------------
(* A small instance of Acquisition: a message of every kind and a capture   *)
(* file that already has a row of another tool.                             *)
EXTENDS Acquisition

Packet(direction, data, length) ==
  [type |-> "packet", direction |-> direction, data |-> data,
   length |-> length]

\* an entity that moves; a turn that is too long; a development agent
\* (config::Agent::File) that gives no length; a close; a fault
\* of Winsock, and one without its code
MCMessages ==
  {Packet("incoming", <<14>> \o OneBytes(8), 9),
   Packet("outgoing", <<17, 2, 0, 0>>, 4),
   Packet("incoming", <<14>> \o OneBytes(8), -1),
   [type |-> "transport-closed"],
   [type |-> "transport-fault", operation |-> "receive", code |-> "an i32"],
   [type |-> "transport-fault", operation |-> "send", code |-> "none"]}

\* one process; none; two of that name, one with a window
MCTables ==
  {[named |-> {7}, visible |-> {}], [named |-> {}, visible |-> {7}],
   [named |-> {7, 8}, visible |-> {8, 9}]}

Foreign(direction, hex, length) ==
  [type |-> "packet", direction |-> direction, hex |-> hex,
   length |-> length, run |-> 0, at |-> 0]

MCEarlierRows ==
  {<<Foreign("sideways", <<19, 0, 0>>, 3)>>}
=============================================================================
