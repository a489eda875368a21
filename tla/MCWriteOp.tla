------------------------------ MODULE MCWriteOp ------------------------------
(***************************************************************************)
(* Writes of real commands, serialized by module Serializer and read back  *)
(* from the wire by the parser of module Protocol.                         *)
(***************************************************************************)
EXTENDS WriteOp

S == INSTANCE Serializer WITH LongMax <- 99, ReserveMax <- 99

\* an argument without bytes, one with a terminator, and one whose length has
\* two digits
Get == << <<"g">>, <<>> >>
Set == << <<"s">>, S!EOL >>
Long == << [i \in 1 .. 10 |-> "l"] >>

MCCommands == {Get, Set, Long}
MCWrappers ==
  {<<>>} \cup {<<c>> : c \in MCCommands} \cup {<<c, d>> : c, d \in MCCommands}

MCByte ==
  {S!CR, S!LF, "*", "$", "g", "s", "l", "NUL"} \cup {S!Digits[d] : d \in 1 .. 10}

\* what is serialized, tabulated once
Serialized == [cmd \in MCCommands |-> S!Serialize(cmd)]
Sizes == [cmd \in MCCommands |-> S!CommandSize(cmd)]
MCBytesOf(cmd) == Serialized[cmd]
MCSizeOf(cmd) == Sizes[cmd]

-----------------------------------------------------------------------------
\* the wires that there can be, each read once
Wires ==
  {S!FoldLeft(LAMBDA bytes, cmd : bytes \o BytesOf(cmd), <<>>, cmds) :
     cmds \in [1 .. MaxCalls -> Commands]}
Prefixes == UNION {{SubSeq(wire_, 1, n) : n \in 0 .. Len(wire_)} : wire_ \in Wires}
Readings == [bytes \in Prefixes |-> S!Commanded(bytes)]
MCReads(bytes) == IF bytes \in Prefixes THEN Readings[bytes] ELSE S!Garbage
=============================================================================
