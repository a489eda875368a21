--------------------------- MODULE ProtocolReplies ---------------------------
(***************************************************************************)
(* A server sends replies, byte by byte, one after the other; the client   *)
(* parses what has arrived, extracts the first reply and consumes it, as   *)
(* the handlers of README.md and t/ do.  What the client extracts must be  *)
(* what the server meant.                                                  *)
(***************************************************************************)
EXTENDS Extract, Serializer, MarkerHelpers

CONSTANTS
  Letters,     (* the bytes that texts are made of, besides the protocol's *)
  Replies,     (* the replies a server may send                            *)
  Depth,       (* how deeply arrays are nested in them                     *)
  Sought,      (* the strings that clients compare a reply with            *)
  MaxReplies   (* bound: how many replies it sends                         *)

-----------------------------------------------------------------------------
(* What a server may send: a line without a terminator in it, a number that *)
(* fits a long, a string or an array whose length does.                     *)

Bytes == Range(Digits) \cup {CR, LF, "+", "-", ":", "$", "*"} \cup Letters
Texts == Seq(Bytes)
Lines == {str \in Texts : \A i \in 1 .. Len(str) - 1 : ~ (str[i] = CR /\ str[i + 1] = LF)}
Scalar ==
  [wire : {"+", "-"}, str : Lines]
    \cup [wire : {":"}, value : -LongMax - 1 .. LongMax]
    \cup [wire : {"$"}, str : {str \in Texts : Len(str) <= LongMax}]
    \cup [wire : {"$-1", "*-1"}]

\* the arrays of such replies
ArraysOver(replies) ==
  [wire : {"*"},
   elements : {elements \in Seq(replies) : Len(elements) <= LongMax /\ Len(elements) <= ReserveMax}]

\* the replies whose arrays are nested at most so deeply
Nested(depth) ==
  LET nested[d \in 0 .. depth] ==
        Scalar \cup ArraysOver(IF d = 0 THEN {} ELSE nested[d - 1])
  IN  nested[depth]

ASSUME RepliesAssumption ==
  Depth \in Nat /\ MaxReplies \in Nat /\ Replies \subseteq Nested(Depth)

VARIABLES
  meant,       (* the replies sent whose bytes the client has not consumed *)
  unsent,      (* the bytes of the last of them still to be sent           *)
  buf,         (* rx_buff                                                  *)
  count        (* how many replies the server has begun to send            *)

vars == <<meant, unsent, buf, count>>

-----------------------------------------------------------------------------
(* The Redis serialization protocol, as the server writes it.              *)

IntText(n) == IF n < 0 THEN <<"-">> \o Decimal(-n) ELSE Decimal(n)

\* a reply is put on the wire with its type, an array with the count of its
\* elements; `encode' is what is put there for each of them
Written(reply, encode) ==
  CASE reply.wire = "+" -> <<"+">> \o reply.str \o EOL
    [] reply.wire = "-" -> <<"-">> \o reply.str \o EOL
    [] reply.wire = ":" -> <<":">> \o IntText(reply.value) \o EOL
    [] reply.wire = "$" ->
         <<"$">> \o Decimal(Len(reply.str)) \o EOL \o reply.str \o EOL
    [] reply.wire \in {"$-1", "*-1"} ->
         <<IF reply.wire = "$-1" THEN "$" ELSE "*">> \o IntText(-1) \o EOL
    [] reply.wire = "*" ->
         <<"*">> \o Decimal(Len(reply.elements)) \o EOL
           \o FlattenSeq([i \in DOMAIN reply.elements |-> encode[reply.elements[i]]])

Encode(reply) ==
  LET encode[r \in Nested(Depth)] == Written(r, encode) IN encode[reply]

\* what a client should extract from a reply
Meant(reply, meaning) ==
  CASE reply.wire \in {"+", "$"} -> [type |-> "string", str |-> reply.str]
    [] reply.wire = "-" -> [type |-> "error", str |-> reply.str]
    [] reply.wire = ":" -> [type |-> "int", value |-> reply.value]
    [] reply.wire \in {"$-1", "*-1"} -> [type |-> "nil"]
    [] reply.wire = "*" -> [type |-> "array", elements |->
         [i \in DOMAIN reply.elements |-> meaning[reply.elements[i]]]]

Meaning(reply) ==
  LET meaning[r \in Nested(Depth)] == Meant(r, meaning) IN meaning[reply]

\* the texts that a reply may be said to be equal to
TextsOf(meaning) ==
  CASE meaning.type \in {"string", "error"} -> {meaning.str}
    [] meaning.type = "int" -> {IntText(meaning.value)}
    [] meaning.type = "nil" -> {IntText(-1)}
    [] meaning.type = "array" -> {}

-----------------------------------------------------------------------------
\* equality, as a visitor of the markers of buf
EqualityVisitor(bytes, marker, str) ==
  Equality(IF marker.type = "array" THEN marker
           ELSE [type |-> marker.type, text |-> Text(bytes, marker)], str)

Verdict(policy) == Parse(policy, buf)
Complete == Len(meant) > 1 \/ (Len(meant) = 1 /\ unsent = <<>>)

Init == meant = <<>> /\ unsent = <<>> /\ buf = <<>> /\ count = 0

Begin(reply) ==
  /\ unsent = <<>>
  /\ count < MaxReplies
  /\ count' = count + 1
  /\ meant' = Append(meant, reply)
  /\ unsent' = Encode(reply)
  /\ UNCHANGED buf

Send ==
  /\ unsent # <<>>
  /\ buf' = Append(buf, Head(unsent))
  /\ unsent' = Tail(unsent)
  /\ UNCHANGED <<meant, count>>

\* the handler has extracted the result and calls rx_buff.consume(consumed)
Consume(policy) ==
  /\ Verdict(policy).kind = "positive"
  /\ buf' = SubSeq(buf, Verdict(policy).consumed + 1, Len(buf))
  /\ meant' = Tail(meant)
  /\ UNCHANGED <<unsent, count>>

Next ==
  \/ \E reply \in Replies : Begin(reply)
  \/ Send
  \/ \E policy \in Policies : Consume(policy)

Spec == Init /\ [][Next]_vars

-----------------------------------------------------------------------------
\* A reply that is found has no more bytes than the buffer holds.
TypeOK ==
  /\ meant \in Seq(Replies) /\ count \in 0 .. MaxReplies
  /\ buf \in Texts /\ unsent \in Texts
  /\ \A policy \in Policies :
       Verdict(policy).kind = "positive" => Verdict(policy).consumed \in 1 .. Len(buf)

\* The parser finds a reply in the buffer exactly when all of its bytes have
\* arrived: not before, whatever the reply contains (a terminator inside a
\* bulk string, an empty or nested array, nil), and not later.  Well-formed
\* replies are never refused, and this stays so reply after reply.
AcceptedWhenComplete ==
  \A policy \in Policies :
    Verdict(policy).kind = IF Complete THEN "positive" ELSE "not_enough_data"

\* What the client extracts from the markers is what the server meant, even
\* when bytes of the next reply have already arrived behind it.
ExtractsWhatWasMeant ==
  LET verdict == Verdict("keep_result") IN
  verdict.kind = "positive" => Extract(buf, verdict.result) = Meaning(meant[1])

\* equality, applied to the markers while they are in the buffer, finds exactly
\* the strings that the server meant, an integer by its digits and nil by "-1",
\* and none that only begins like it.
EqualityFindsWhatWasMeant ==
  LET verdict == Verdict("keep_result") IN
  verdict.kind = "positive" =>
    {str \in Sought : EqualityVisitor(buf, verdict.result, str)}
      = Sought \cap TextsOf(Meaning(meant[1]))

\* After any number of replies have been consumed, the buffer starts at the
\* first byte of the next one: nothing of it was taken away with the last
\* reply and nothing of the last reply was left behind.
ConsumedToTheByte ==
  buf \o unsent = FlattenSeq([i \in DOMAIN meant |-> Encode(meant[i])])
=============================================================================
