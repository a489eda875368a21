----------------------------- MODULE Serializer -----------------------------
(***************************************************************************)
(* Protocol::serialize of include/bredis/impl/protocol.ipp: a command as   *)
(* an array of bulk strings, appended to a transmit buffer.  A command is  *)
(* the sequence of its arguments, an argument a sequence of bytes.         *)
(*                                                                         *)
(* The buffer is made longer by command_size() bytes before a byte is      *)
(* copied, and buffer_copy() and commit() silently do nothing beyond it:   *)
(* what is appended is cut off where command_size() ends.                  *)
(***************************************************************************)
EXTENDS Protocol

EOL == <<CR, LF>>

\* what "%zu" prints
Decimal(n) ==
  LET digits[k \in 0 .. n] ==
        IF k < 10 THEN <<Digits[k + 1]>>
                  ELSE Append(digits[k \div 10], Digits[(k % 10) + 1])
  IN  digits[n]

\* mutant: no digit is counted for 0
SizeForIntUnclamped(arg) ==
  LET r[n \in 0 .. arg] == IF n = 0 THEN 0 ELSE 1 + r[n \div 10] IN r[arg]

\* size_for_int: how many digits arg has
SizeForInt(arg) ==
  LET r[n \in 0 .. arg] == IF n = 0 THEN 0 ELSE 1 + r[n \div 10]
  IN  Max({1, r[arg]})

ArgumentSize(arg) == 1 + SizeForInt(Len(arg)) + 2 + Len(arg) + 2

\* command_size: the bytes to make room for
CommandSize(cmd) ==
  LET sz[n \in 0 .. Len(cmd)] ==
        IF n = 0 THEN 1 + SizeForInt(Len(cmd)) + 2 ELSE sz[n - 1] + ArgumentSize(cmd[n])
  IN  sz[Len(cmd)]

SerializeArgument(arg) == <<"$">> \o Decimal(Len(arg)) \o EOL \o arg \o EOL

\* Protocol::serialize: what it appends to the buffer
Serialize(cmd) ==
  LET copied == <<"*">> \o Decimal(Len(cmd)) \o EOL
                  \o FlattenSeq([n \in DOMAIN cmd |-> SerializeArgument(cmd[n])])
  IN  SubSeq(copied, 1, Min({Len(copied), CommandSize(cmd)}))

-----------------------------------------------------------------------------
(* A server that reads commands with the parser of this library.            *)

Garbage == << <<"?">> >>

\* the command of which the parser has made a marker
Told(bytes, marker) ==
  [n \in DOMAIN marker.elements |->
     SubSeq(bytes, marker.elements[n].from + 1, marker.elements[n].to)]

\* the commands from an offset on, given those behind it
ReadAt(bytes, parse, at, commands) ==
  CASE parse[at] = NotEnoughData -> <<>>
    [] parse[at].kind = "positive" /\ parse[at].result.type = "array" ->
         <<Told(bytes, parse[at].result)>> \o commands[at + parse[at].consumed]
    [] OTHER -> Garbage

\* the commands that can be read from some bytes
Commanded(bytes) ==
  LET parse == RawParse(bytes, "keep_result")
      commands[at \in 0 .. Len(bytes)] == ReadAt(bytes, parse, at, commands)
  IN  commands[0]
=============================================================================
