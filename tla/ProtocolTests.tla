---------------------------- MODULE ProtocolTests ----------------------------
(***************************************************************************)
(* The repository's unit tests of its pure functions, t/05-protocol.cpp to *)
(* t/08-markers.cpp, asked of the model: the modules that translate the    *)
(* parser, the serializer, the extractor and the visitors must give what   *)
(* the tests require of the code.                                          *)
(*                                                                         *)
(* Texts are given as strings, of which TLC can take the characters.  The  *)
(* tests parse with one policy; here each input is parsed with both.       *)
(* LongMax has three digits: of the test inputs only "large int            *)
(* extraction" needs a number between that and LONG_MAX, and is left out.  *)
(***************************************************************************)
EXTENDS Integers, Sequences

X == INSTANCE Extract WITH LongMax <- 999, ReserveMax <- 999
S == INSTANCE Serializer WITH LongMax <- 999, ReserveMax <- 999
H == INSTANCE MarkerHelpers

Chars(text) == [i \in 1 .. Len(text) |-> SubSeq(text, i, i)]

Str(text) == H!StringValue(Chars(text))
Num(text) == H!IntValue(Chars(text))
Err(text) == H!ErrorValue(Chars(text))
NilValue == [type |-> "nil", text |-> Chars("-1")]

\* what the tests see of a result: its type, and the text equality finds
RECURSIVE Seen(_, _)
Seen(bytes, marker) ==
  IF marker.type = "array"
  THEN H!ArrayValue([i \in DOMAIN marker.elements |-> Seen(bytes, marker.elements[i])])
  ELSE [type |-> marker.type, text |-> X!Text(bytes, marker)]

\* the replies of a buffer, each consumed before the next is parsed
RECURSIVE SeenInTurn(_)
SeenInTurn(bytes) ==
  IF bytes = <<>> THEN <<>> ELSE
  LET parsed == X!Parse("keep_result", bytes) IN
  IF parsed.kind # "positive" THEN <<parsed>> ELSE
  <<Seen(bytes, parsed.result)>>
    \o SeenInTurn(SubSeq(bytes, parsed.consumed + 1, Len(bytes)))

-----------------------------------------------------------------------------
(* t/05-protocol.cpp, t/06-fragmented-buffer.cpp.                           *)

NonFinished ==
  {"", "+OK", ":55\r", "-Ooops", "$10\r\nsome\r\n", "$4\r\nsome\r", "$4\r", "*1\r\n", "*1"}

Huge == "36893488147419103232"

\* in the words of Error.hpp
Malformed ==
  { <<"!OK", "wrong_intoduction">>,
    <<"$-5\r\nsome\r\n", "count_range">>,
    <<"*-4\r\nsome\r\n", "count_range">>,
    <<"$1\r\nsome\r\n", "bulk_terminator">>,
    <<"$4\r\nsomemm", "bulk_terminator">>,
    <<"$" \o Huge \o "\r\nsomemm", "count_conversion">>,
    <<"*" \o Huge \o "\r\nsome\r\n", "count_conversion">> }

MessageA1 == "*3\r\n$7\r\nmessage\r\n$13\r\nsome-channel1\r\n$10\r\nmessage-a1\r\n"
MessageA2 == "*3\r\n$7\r\nmessage\r\n$13\r\nsome-channel1\r\n$10\r\nmessage-a2\r\n"
LastMessage == "*3\r\n$7\r\nmessage\r\n$13\r\nsome-channel2\r\n$4\r\nlast\r\n"
MessageOf(channel, payload) == H!ArrayValue(<<Str("message"), Str(channel), Str(payload)>>)

LineReplies ==
  { <<"+OK\r\n", <<Str("OK")>> >>,
    <<":-55abc\r\n", <<Num("-55abc")>> >>,
    <<"-Ooops\r\n", <<Err("Ooops")>> >> }

BulkReplies ==
  { <<"$-1\r\n", <<NilValue>> >>,
    <<"$4\r\nsome\r\n", <<Str("some")>> >>,
    <<"$0\r\n\r\n", <<Str("")>> >> }

ArrayReplies ==
  { <<"*0\r\n", <<H!ArrayValue(<<>>)>> >>,
    <<"*-1\r\n", <<NilValue>> >>,
    <<"*3\r\n$4\r\nsome\r\n:5\r\n$-1\r\n",
      <<H!ArrayValue(<<Str("some"), Num("5"), NilValue>>)>> >>,
    <<"*2\r\n*3\r\n:1\r\n:2\r\n:3\r\n*2\r\n+Foo\r\n-Bar\r\n",
      <<H!ArrayValue(<<H!ArrayValue(<<Num("1"), Num("2"), Num("3")>>),
                       H!ArrayValue(<<Str("Foo"), Err("Bar")>>)>>)>> >> }

\* right consumption, overfilled buffer
Overfilled ==
  { <<MessageA1 \o MessageA1,
      <<MessageOf("some-channel1", "message-a1"),
        MessageOf("some-channel1", "message-a1")>> >>,
    <<MessageA1 \o MessageA2 \o LastMessage,
      <<MessageOf("some-channel1", "message-a1"), MessageOf("some-channel1", "message-a2"),
        MessageOf("some-channel2", "last")>> >> }

Serialized ==
  { << <<"LLEN", "fmm.cheap-travles2">>,
       "*2\r\n$4\r\nLLEN\r\n$18\r\nfmm.cheap-travles2\r\n">>,
    << <<"HSET", "key", "value1", "", "value2", "">>,
       "*6\r\n$4\r\nHSET\r\n$3\r\nkey\r\n$6\r\nvalue1\r\n$0\r\n\r\n"
         \o "$6\r\nvalue2\r\n$0\r\n\r\n">> }

Arguments(cmd) == [i \in DOMAIN cmd |-> Chars(cmd[i])]

\* The model of the parser passes the tests of the parser, and that of the
\* serializer the tests of the serializer: "not enough data" for what is cut
\* short, the code of Error.hpp for what is malformed, and otherwise every
\* reply with its type, text and length, one after another.
ASSUME ParserTestsPass ==
  /\ \A text \in NonFinished, policy \in X!Policies :
       X!Parse(policy, Chars(text)) = X!NotEnoughData
  /\ \A test \in Malformed, policy \in X!Policies :
       X!Parse(policy, Chars(test[1])) = X!ProtocolError(test[2])
  /\ \A test \in LineReplies \cup BulkReplies \cup ArrayReplies \cup Overfilled :
       SeenInTurn(Chars(test[1])) = test[2]
  /\ \A test \in Serialized : S!Serialize(Arguments(test[1])) = Chars(test[2])

-----------------------------------------------------------------------------
(* t/07-extract.cpp.                                                        *)

Whole(type, text) == [type |-> type, from |-> 0, to |-> Len(text)]

Extracted ==
  { <<"string", "src", [type |-> "string", str |-> Chars("src")]>>,
    <<"error", "src", [type |-> "error", str |-> Chars("src")]>>,
    <<"nil", "src", [type |-> "nil"]>>,
    <<"int", "5", [type |-> "int", value |-> 5]>>,
    <<"int", "-123", [type |-> "int", value |-> -123]>>,
    <<"int", "-9ab22", X!BadLexicalCast>>,
    <<"int", "92233720368547758019223372036854775801", X!BadLexicalCast>> }

\* The model of the extractor passes the extractor's tests, those that demand
\* an exception included.
ASSUME ExtractTestsPass ==
  /\ \A test \in Extracted : X!Extract(Chars(test[2]), Whole(test[1], test[2])) = test[3]
  /\ X!Extract(Chars("src5"), X!ArrayMarker(<<X!StringMarker(0, 3),
                                             [type |-> "int", from |-> 3, to |-> 4]>>))
       = [type |-> "array", elements |-> <<[type |-> "string", str |-> Chars("src")],
                                           [type |-> "int", value |-> 5]>>]

-----------------------------------------------------------------------------
(* t/08-markers.cpp.                                                        *)

Reply(first, second, third) == H!ArrayValue(<<first, second, third>>)
Index(n) == H!IntValue(<<n>>)
NoNumber == H!IntValue(<<>>)

Reply1 == Reply(Str("subscribe"), Str("channel1"), Index(1))
Reply2 == Reply(Str("subscribe"), Str("channel2"), Index(1))
Reply3 == Reply(Str("subscribe"), Str("channel2"), Index(2))
WrongReplies ==
  { NoNumber,
    Reply(Str("psubscribe"), Str("channel2"), Index(1)),
    Reply(Index(1), Index(1), Index(1)),
    H!ArrayValue(<<Index(1), Index(1), Index(1), Index(1)>>),
    Reply(Str("psubscribe"), Str("channel2"), Str("psubscribe")),
    Reply(Str("psubscribe"), Str("channel2"), NoNumber),
    Reply(Str("subscribe"), Str("channel1"), Index(5)) }

Subscribe1 == Arguments(<<"subscribe", "channel1">>)
Subscribe2 == Arguments(<<"SUBSCRIBE", "channel2">>)
Subscribe3 == Arguments(<<"SUBSCRIBE", "channel1", "channel2">>)

\* The model of check_subscription passes its tests, whatever stands behind the
\* command's name.
ASSUME MarkersTestsPass ==
  \A behind \in BOOLEAN :
    LET Passes(reply, arguments) == H!CheckSubscription(reply, arguments, behind) IN
    /\ Passes(Reply1, Subscribe1)
    /\ \A reply \in {Reply2} \cup WrongReplies : ~Passes(reply, Subscribe1)
    /\ Passes(Reply2, Subscribe2)
    /\ ~Passes(Reply1, Subscribe2)
    /\ Passes(Reply1, Subscribe3)
    /\ Passes(Reply3, Subscribe3)
    /\ ~Passes(Reply2, Subscribe3)
=============================================================================
