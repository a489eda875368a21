------------------------------ MODULE MCReadOp ------------------------------
(***************************************************************************)
(* Reads over streams of real replies, parsed by module Protocol, which    *)
(* has to pass the unit tests first.                                       *)
(***************************************************************************)
EXTENDS ReadOpInvariant, ProtocolTests, FiniteSets

CONSTANT MaxReplies   (* bound: how many replies a stream has              *)

P == INSTANCE Protocol WITH LongMax <- 99, ReserveMax <- 99

EOL == <<P!CR, P!LF>>

\* a status line, nil, a bulk string that holds a terminator, a nested array
Short == {<<"+">> \o EOL, <<"*", "1">> \o EOL \o <<":">> \o EOL}
Long == <<"$", "2">> \o EOL \o EOL \o EOL
Nil == <<"$", "-", "1">> \o EOL

\* what follows the last reply: nothing, the beginning of another one, or
\* bytes that are not a reply
Tails == {<<>>, <<"$", "1", P!CR>>, <<"?">>}

RECURSIVE Concat(_)
Concat(replies) == IF replies = <<>> THEN <<>> ELSE Head(replies) \o Concat(Tail(replies))

StreamOf(replies, tail) ==
  [bytes |-> Concat(replies) \o tail,
   ends |-> [k \in DOMAIN replies |-> Len(Concat(SubSeq(replies, 1, k)))]]

StreamsOf(kinds, most) ==
  {StreamOf(replies, tail) :
     replies \in UNION {[1 .. n -> kinds] : n \in 0 .. most}, tail \in Tails}

\* short replies in a row, and longer ones that come in many more pieces
MixedStreams ==
  StreamsOf(Short, MaxReplies) \cup StreamsOf({Nil, Long}, MaxReplies - 1)

Windows ==
  UNION {{Window(s, from, to) : from, to \in 0 .. Len(s.bytes)} : s \in Streams}

\* the verdicts of the parser on all windows of the streams, tabulated once
Verdicts == [policy \in Policies |-> [window \in Windows |-> P!Parse(policy, window)]]

\* The parser on streams of status lines, which is all that fairness needs:
\* TLC evaluates it anew for every ENABLED.
Lines == {<<"+">> \o EOL, <<"+", "O", "K">> \o EOL}
LineStreams == StreamsOf(Lines, MaxReplies)
ParseLine(policy, window) ==
  IF window = <<>> THEN P!NotEnoughData
  ELSE IF window[1] \in {"+", "$"} THEN P!LineParser("string", window, 0, policy)
  ELSE P!ProtocolError("wrong_intoduction")

MCParse(policy, window) == Verdicts[policy][window]
=============================================================================
