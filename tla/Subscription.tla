---------------------------- MODULE Subscription ----------------------------
(***************************************************************************)
(* A subscriber: examples/synch-subscription.cpp and, with a shared buffer *)
(* and the markers used in place, examples/stream-parse.cpp.  It writes a  *)
(* (p)subscribe command, has every confirmation checked by the visitor     *)
(* check_subscription, and then prints what is published, for ever.        *)
(*                                                                         *)
(* The server and the publishers are external.  rx_buff is a sequence of   *)
(* replies here: that a read finds the first of them when all its bytes    *)
(* are there, and that consume(consumed) removes it and nothing else, is   *)
(* what ReadOp and ProtocolReplies show.                                   *)
(***************************************************************************)
EXTENDS MarkerHelpers

CONSTANTS
  Names,        (* spellings of subscribe and psubscribe                   *)
  Word(_),      (* what the server calls a command: its word in a reply    *)
  MessageWord(_), (* the word in what is published to its channels         *)
  Patterns(_),  (* whether it is psubscribe                                *)
  Words,        (* the first words of all publish/subscribe replies        *)
  Channels,     (* the channels that may be published to                   *)
  ChannelLists, (* the channels that a command may name, one after another *)
  Payloads,     (* what may be published                                   *)
  Json,         (* the payloads that are JSON                              *)
  MaxPublished  (* bound: how many messages the server sends the client    *)

\* The server's word for a command is the command, in whatever case.
ASSUME SubscriptionAssumption ==
  /\ ChannelLists \subseteq Seq(Channels)
  /\ Json \subseteq Payloads
  /\ \A name \in Names, behind \in BOOLEAN : EqualCommand(Word(name), name, behind)
  /\ \A name \in Names : Patterns(name) \in BOOLEAN

\* the first letter in which two words differ is one that both of them have
Differ(word, name) ==
  \E i \in DOMAIN word \cap DOMAIN name :
    /\ ~SameLetter(word[i], name[i])
    /\ \A j \in 1 .. i - 1 : SameLetter(word[j], name[j])

\* None of the words begins with the name of a command, or is the beginning of one,
\* but for the command's own.
ASSUME VocabularyAssumption ==
  /\ Names \cup Words \subseteq Seq(DOMAIN Upper)
  /\ \A name \in Names, word \in Words : word = Word(name) \/ Differ(word, name)

VARIABLES
  client,       (* the program: "synch" or "stream"                        *)
  arguments,    (* subscribe_cmd.arguments                                 *)
  request,      (* the command on its way to the server, or <<>>           *)
  subscribed,   (* the channels the server has subscribed this client to   *)
  answers,      (* history: what the server has sent, as it was meant      *)
  wire,         (* the replies on their way to the client                  *)
  online,       (* the connection is there                                 *)
  rx_buff,      (* the replies in the receive buffer                       *)
  pc,           (* what the client does next                               *)
  confirmed,    (* history: the channels that it holds to be confirmed     *)
  printed       (* history: the lines it has printed since                 *)

server == <<request, subscribed, answers>>
vars == <<client, arguments, server, wire, online, rx_buff, pc, confirmed, printed>>

IsCommand(args) == \E name \in Names, channels \in ChannelLists : args = <<name>> \o channels
Name == arguments[1]
Named == Tail(arguments)

Init ==
  /\ client \in {"synch", "stream"}
  /\ IsCommand(arguments)
  /\ request = <<>> /\ subscribed = {} /\ answers = <<>>
  /\ wire = <<>> /\ online = TRUE /\ rx_buff = <<>>
  /\ pc = "write" /\ confirmed = <<>> /\ printed = <<>>

-----------------------------------------------------------------------------
(* The server.  A command is answered as a whole, before anything that is   *)
(* published later.                                                         *)

Confirmation(channel) == [kind |-> "confirmation", channel |-> channel]
Refusal == [kind |-> "refusal"]
Published(channel, payload) ==
  [kind |-> "message", channel |-> channel, payload |-> payload]

\* the count that comes with the n-th confirmation: how many channels the
\* client is subscribed to by then
CountAfter(n) == Cardinality({Named[i] : i \in 1 .. n})

\* [ [string] "subscribe", [string] channel_name, [int] subscribes_count ]
ConfirmationReply(n) ==
  ArrayValue(<<StringValue(Word(Name)), StringValue(Named[n]), IntValue(<<CountAfter(n)>>)>>)

MessageReply(channel, payload) ==
  ArrayValue(
    IF Patterns(Name)
    THEN <<StringValue(MessageWord(Name)), StringValue(channel), StringValue(channel),
           StringValue(payload)>>
    ELSE <<StringValue(MessageWord(Name)), StringValue(channel), StringValue(payload)>>)

SendReplies(replies, meaning) ==
  /\ wire' = wire \o replies
  /\ answers' = answers \o meaning

Serve ==
  /\ request # <<>> /\ Named # <<>>
  /\ request' = <<>>
  /\ subscribed' = Range(Named)
  /\ SendReplies([n \in DOMAIN Named |-> ConfirmationReply(n)],
                 [n \in DOMAIN Named |-> Confirmation(Named[n])])
  /\ UNCHANGED <<client, arguments, online, rx_buff, pc, confirmed, printed>>

\* there are no channels, or the client has no permission for one of them
RefuseCommand ==
  /\ request # <<>>
  /\ request' = <<>>
  /\ SendReplies(<<ErrorValue("ERR")>>, <<Refusal>>)
  /\ UNCHANGED <<client, arguments, subscribed, online, rx_buff, pc, confirmed, printed>>

Publish(channel, payload) ==
  /\ channel \in subscribed
  /\ Len(SelectSeq(answers, LAMBDA a : a.kind = "message")) < MaxPublished
  /\ SendReplies(<<MessageReply(channel, payload)>>, <<Published(channel, payload)>>)
  /\ UNCHANGED <<client, arguments, request, subscribed, online, rx_buff, pc, confirmed,
                 printed>>

\* the connection is reset, and what was on its way is lost
Disconnect ==
  /\ online
  /\ online' = FALSE
  /\ request' = <<>> /\ subscribed' = {} /\ wire' = <<>>
  /\ UNCHANGED <<client, arguments, answers, rx_buff, pc, confirmed, printed>>

-----------------------------------------------------------------------------
(* The client.                                                              *)

\* the loop over the channels of the command is not at its end
Confirming == Len(confirmed) < Len(Named)

\* the command is written, whole; a failure shows in the read that follows
WriteCommand ==
  /\ pc = "write"
  /\ pc' = "read"
  /\ request' = IF online THEN arguments ELSE <<>>
  /\ UNCHANGED <<client, arguments, subscribed, answers, wire, online, rx_buff, confirmed,
                 printed>>

\* mutant: the read ends with whatever the socket has brought
ReadSome ==
  /\ pc = "read" /\ online
  /\ pc' = IF Confirming THEN "check" ELSE "print"
  /\ \E n \in 0 .. Len(wire) : /\ rx_buff' = rx_buff \o SubSeq(wire, 1, n)
                                /\ wire' = SubSeq(wire, n + 1, Len(wire))
  /\ UNCHANGED <<client, arguments, server, online, confirmed, printed>>

\* a reply that is already in the buffer is taken without a look at the socket;
\* otherwise the socket gives one reply or more
Read ==
  /\ pc = "read"
  /\ pc' = IF Confirming THEN "check" ELSE "print"
  /\ \/ rx_buff # <<>> /\ UNCHANGED <<wire, rx_buff>>
     \/ /\ rx_buff = <<>>
        /\ \E n \in DOMAIN wire : /\ rx_buff' = SubSeq(wire, 1, n)
                                  /\ wire' = SubSeq(wire, n + 1, Len(wire))
  /\ UNCHANGED <<client, arguments, server, online, confirmed, printed>>

\* the exception, or the error code, of a read without a connection
ReadFails ==
  /\ pc = "read"
  /\ rx_buff = <<>> /\ ~online
  /\ pc' = "stopped"
  /\ UNCHANGED <<client, arguments, server, wire, online, rx_buff, confirmed, printed>>

\* the markers of the parse result lead to the first reply of the buffer
Marked(buffer) == buffer[1]

\* mutant: nothing is consumed
ConfirmForgetful ==
  /\ pc = "check"
  /\ \E behind \in BOOLEAN : CheckSubscription(Marked(rx_buff), arguments, behind)
  /\ confirmed' = Append(confirmed, Named[Len(confirmed) + 1])
  /\ pc' = "read"
  /\ UNCHANGED <<client, arguments, server, wire, online, rx_buff, printed>>

\* the channel of this turn of the loop is confirmed
Confirm ==
  /\ pc = "check"
  /\ \E behind \in BOOLEAN : CheckSubscription(Marked(rx_buff), arguments, behind)
  /\ confirmed' = Append(confirmed, Named[Len(confirmed) + 1])
  /\ rx_buff' = Tail(rx_buff)
  /\ pc' = "read"
  /\ UNCHANGED <<client, arguments, server, wire, online, printed>>

\* `subscription for channel ... was not confirmed': the client ends, and with
\* it the connection
NotConfirmed ==
  /\ pc = "check"
  /\ \E behind \in BOOLEAN : ~CheckSubscription(Marked(rx_buff), arguments, behind)
  /\ pc' = "refused"
  /\ online' = FALSE
  /\ request' = <<>> /\ subscribed' = {} /\ wire' = <<>>
  /\ UNCHANGED <<client, arguments, answers, rx_buff, confirmed, printed>>

SomethingElse == <<>>

\* mutant: the shape of the reply is not looked at
ExtractAnyShape(reply) ==
  IF reply.type = "array" THEN <<reply.elements[2].text, reply.elements[3].text>>
                          ELSE SomethingElse

\* payload_extractor: the channel and the payload of a reply of three elements
PayloadExtractor(reply) ==
  IF /\ reply.type = "array"
     /\ Len(reply.elements) = 3
     /\ reply.elements[2].type = "string" /\ reply.elements[3].type = "string"
  THEN <<reply.elements[2].text, reply.elements[3].text>>
  ELSE SomethingElse

\* json_extractor: the same, and the payload has to be JSON
JsonExtractor(reply) ==
  IF PayloadExtractor(reply) # SomethingElse /\ reply.elements[3].text \in Json
  THEN PayloadExtractor(reply)
  ELSE SomethingElse

ExtractPayload(reply) ==
  IF client = "stream" THEN JsonExtractor(reply) ELSE PayloadExtractor(reply)

\* mutant: the whole buffer is consumed
PrintMessageAll ==
  /\ pc = "print"
  /\ printed' = Append(printed, ExtractPayload(Marked(rx_buff)))
  /\ rx_buff' = <<>>
  /\ pc' = "read"
  /\ UNCHANGED <<client, arguments, server, wire, online, confirmed>>

\* mutant: the markers are used after the buffer has been consumed
PrintMessageConsumed ==
  /\ pc = "print"
  /\ rx_buff' = Tail(rx_buff)
  /\ printed' = Append(printed, IF rx_buff' = <<>> THEN SomethingElse
                                ELSE ExtractPayload(Marked(rx_buff')))
  /\ pc' = "read"
  /\ UNCHANGED <<client, arguments, server, wire, online, confirmed>>

\* a turn of the endless loop.  "synch" extracts, consumes and prints the copy;
\* "stream" uses the markers and consumes last.
PrintMessage ==
  /\ pc = "print"
  /\ printed' = Append(printed, ExtractPayload(Marked(rx_buff)))
  /\ rx_buff' = Tail(rx_buff)
  /\ pc' = "read"
  /\ UNCHANGED <<client, arguments, server, wire, online, confirmed>>

-----------------------------------------------------------------------------
ServerNext ==
  \/ Serve \/ RefuseCommand
  \/ \E channel \in Channels, payload \in Payloads : Publish(channel, payload)
  \/ Disconnect

ClientNext ==
  WriteCommand \/ Read \/ ReadFails \/ Confirm \/ NotConfirmed \/ PrintMessage

Next == ServerNext \/ ClientNext

\* The client is a loop, and the server answers; nobody has to publish.
Fairness == WF_vars(ClientNext) /\ WF_vars(Serve \/ RefuseCommand)

Spec == Init /\ [][Next]_vars /\ Fairness

-----------------------------------------------------------------------------
Answers ==
  {Refusal} \cup {Confirmation(channel) : channel \in Channels}
    \cup {Published(channel, payload) : channel \in Channels, payload \in Payloads}

Replies ==
  {ErrorValue("ERR")} \cup {ConfirmationReply(n) : n \in DOMAIN Named}
    \cup {MessageReply(channel, payload) : channel \in Channels, payload \in Payloads}

Lines == {SomethingElse} \cup (Channels \X Payloads)

\* The types of the variables.  The client uses markers only while there is a
\* reply in the buffer for them to lead to.
TypeOK ==
  /\ client \in {"synch", "stream"} /\ IsCommand(arguments)
  /\ request \in {<<>>, arguments} /\ subscribed \subseteq Range(Named)
  /\ answers \in Seq(Answers) /\ wire \in Seq(Replies)
  /\ online \in BOOLEAN /\ rx_buff \in Seq(Replies)
  /\ pc \in {"write", "read", "check", "print", "stopped", "refused"}
  /\ pc \in {"check", "print"} => rx_buff # <<>>
  /\ confirmed \in Seq(Channels) /\ Len(confirmed) <= Len(Named)
  /\ printed \in Seq(Lines)

\* the line that a reply of the server should give
Line(answer) ==
  IF answer.kind = "message" /\ ~Patterns(Name) /\ (client = "stream" => answer.payload \in Json)
  THEN <<answer.channel, answer.payload>>
  ELSE SomethingElse

\* Every reply of the server is handled once, in the order in which it was
\* sent: the confirmation of a channel in the turn of that channel, and every
\* message printed with its own channel and payload.  Nothing is skipped,
\* printed twice or taken from another reply, however many replies one read of
\* the socket brings and whatever is published meanwhile.
HandledInOrder ==
  /\ Len(confirmed) + Len(printed) <= Len(answers)
  /\ \A n \in DOMAIN confirmed : answers[n] = Confirmation(confirmed[n])
  /\ \A n \in DOMAIN printed : printed[n] = Line(answers[Len(confirmed) + n])

\* A client that listens for messages is subscribed to every channel it named.
ListeningMeansSubscribed ==
  pc \in {"read", "print"} /\ ~Confirming /\ online => subscribed = Range(Named)

NamesEachOnce == \A i, j \in DOMAIN Named : Named[i] = Named[j] => i = j

\* A client that names no channel twice gives up only when the server has
\* refused the command: the server's count of subscriptions leads
\* check_subscription to the channel that is confirmed.
GivesUpOnlyWhenRefused == pc = "refused" /\ NamesEachOnce => answers = <<Refusal>>

\* the replies of a publish/subscribe connection, what other commands on it would
\* be answered and what is published: a word, a channel, and a number (or a text
\* that is none) or a payload
Said(word, channel, last) == ArrayValue(<<StringValue(word), StringValue(channel), last>>)
Lasts ==
  {IntValue(<<n>>) : n \in 0 .. Len(arguments)} \cup {IntValue(<<>>)}
    \cup {StringValue(payload) : payload \in Payloads}

\* Of all the replies of a publish/subscribe connection, check_subscription
\* lets pass only those that confirm a subscription of the command's own kind
\* to the channel that the count stands for.
OnlyConfirmationsPass ==
  pc = "write" =>
    \A word \in Words, channel \in Channels, last \in Lasts, behind \in BOOLEAN :
      CheckSubscription(Said(word, channel, last), arguments, behind) =>
        /\ word = Word(Name)
        /\ \E n \in DOMAIN Named : channel = Named[n] /\ last = IntValue(<<n>>)

\* What the comment on check_subscription says: the first field is checked by
\* string equality.  A word that begins with the command's name and goes on is not
\* equal to it, so it does not pass, whatever stands in memory behind the name.
\* (It does not hold: std::equal is not told where the name ends.)
LongerWordsFail ==
  pc = "write" =>
    \A letter \in DOMAIN Upper, channel \in Channels, last \in Lasts, behind \in BOOLEAN :
      ~CheckSubscription(Said(Append(Name, letter), channel, last), arguments, behind)

\* While the connection is there and the client has not given up, everything
\* the server sends is handled in the end: a reply that came with another one
\* does not wait in the buffer for more data.
EverythingHandled ==
  \A n \in 1 .. MaxPublished + Cardinality(Channels) :
    Len(answers) >= n ~>
      Len(confirmed) + Len(printed) >= n \/ ~online

\* What the comment on check_subscription says: only the first two fields are
\* checked, by string equality.  (It does not hold: the third is an index.)
FirstTwoFieldsDecide ==
  pc = "check" /\ Marked(rx_buff).type = "array" =>
    LET elements == Marked(rx_buff).elements IN
    \A behind \in BOOLEAN :
      /\ EqualCommand(elements[1].text, Name, behind)
      /\ elements[2].text \in Range(Named)
      => CheckSubscription(Marked(rx_buff), arguments, behind)

-----------------------------------------------------------------------------
(* The inductive invariant: what the server has sent and the client has not *)
(* handled is in the receive buffer, then on its way, in that order.        *)

Handled == Len(confirmed) + Len(printed)

\* the server has accepted the command: it has confirmed every channel, and
\* has sent messages since
Accepted ==
  /\ Named # <<>> /\ Len(Named) <= Len(answers)
  /\ \A n \in 1 .. Len(Named) : answers[n] = Confirmation(Named[n])
  /\ \A n \in Len(Named) + 1 .. Len(answers) :
       \E channel \in Channels, payload \in Payloads :
         answers[n] = Published(channel, payload)

AnswersOK == answers = <<>> \/ answers = <<Refusal>> \/ Accepted

ServerOK ==
  /\ request # <<>> => answers = <<>>
  /\ subscribed # {} => Accepted
  /\ online /\ Accepted => subscribed = Range(Named)
  /\ ~online => request = <<>> /\ subscribed = {} /\ wire = <<>>

\* the reply that means the n-th answer
ReplyTo(answer, n) ==
  CASE answer.kind = "refusal" -> ErrorValue("ERR")
    [] answer.kind = "confirmation" -> ConfirmationReply(n)
    [] OTHER -> MessageReply(answer.channel, answer.payload)

InTransitOK ==
  /\ Handled + Len(rx_buff) + Len(wire) <= Len(answers)
  /\ online => Handled + Len(rx_buff) + Len(wire) = Len(answers)
  /\ \A n \in 1 .. Len(rx_buff) : rx_buff[n] = ReplyTo(answers[Handled + n], Handled + n)
  /\ \A n \in 1 .. Len(wire) :
       LET m == Handled + Len(rx_buff) + n IN wire[n] = ReplyTo(answers[m], m)

ClientOK ==
  /\ pc = "write" => request = <<>> /\ answers = <<>>
  /\ pc = "check" => Confirming
  /\ pc = "print" => ~Confirming
  /\ Confirming => printed = <<>>
  /\ pc = "refused" => ~online

IInv ==
  /\ TypeOK /\ AnswersOK /\ ServerOK /\ InTransitOK /\ ClientOK
  /\ HandledInOrder /\ GivesUpOnlyWhenRefused
=============================================================================
