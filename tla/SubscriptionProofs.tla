------------------------- MODULE SubscriptionProofs -------------------------
(***************************************************************************)
(* Proofs about Subscription, for any command, any channels and payloads,  *)
(* any words of the server that name the command, and any vocabulary of    *)
(* other words, none of which begins as a command does.                    *)
(***************************************************************************)
EXTENDS Subscription, SequenceTheorems, FiniteSetTheorems, TLAPS

\* The channels of a command are its arguments but for the first.
LEMMA ChannelsNamed ==
  ASSUME IsCommand(arguments)
  PROVE  /\ Name \in Names
         /\ Named \in Seq(Channels)
         /\ Len(arguments) = Len(Named) + 1
         /\ \A n \in 1 .. Len(Named) : arguments[n + 1] = Named[n]
<1>1. PICK name \in Names, channels \in ChannelLists : arguments = <<name>> \o channels
  BY DEF IsCommand
<1>2. channels \in Seq(Channels)
  BY SubscriptionAssumption
<1>3. channels \in Seq(Channels \cup {name}) /\ <<name>> \in Seq(Channels \cup {name})
  BY <1>2
<1>4. Len(arguments) = Len(channels) + 1 /\ Name = name
      /\ arguments \in Seq(Channels \cup {name})
  BY <1>1, <1>3 DEF Name
<1>5. \A n \in 1 .. Len(channels) : arguments[n + 1] = channels[n]
  BY <1>1, <1>3
<1>6. Named = channels
  <2>1. Named \in Seq(Channels \cup {name}) /\ Len(Named) = Len(channels)
    BY <1>4 DEF Named
  <2>2. \A n \in 1 .. Len(Named) : Named[n] = channels[n]
    BY <1>4, <1>5, <2>1 DEF Named
  <2> QED BY <1>3, <2>1, <2>2, SeqEqual
<1> QED BY <1>1, <1>2, <1>4, <1>5, <1>6

\* When no channel is named twice, n confirmations count n subscriptions.
LEMMA CountsUp ==
  ASSUME IsCommand(arguments), NamesEachOnce, NEW n \in 1 .. Len(Named)
  PROVE  CountAfter(n) = n
<1> DEFINE T == {Named[i] : i \in 1 .. n}
           f == [i \in 1 .. n |-> Named[i]]
<1>1. Named \in Seq(Channels) /\ Len(Named) \in Nat /\ n \in Nat
  BY ChannelsNamed
<1>2. f \in Bijection(1 .. n, T)
  <2>1. f \in [1 .. n -> T]
    OBVIOUS
  <2>2. \A i, j \in 1 .. n : f[i] = f[j] => i = j
    BY <1>1 DEF NamesEachOnce
  <2>3. \A t \in T : \E i \in 1 .. n : f[i] = t
    OBVIOUS
  <2> HIDE DEF f, T
  <2> QED BY <2>1, <2>2, <2>3 DEF Bijection, Injection, Surjection, IsInjective
<1>3. ExistsBijection(1 .. n, T)
  BY <1>2 DEF ExistsBijection
<1>4. Cardinality(T) = n
  <2> HIDE DEF T
  <2> QED BY <1>1, <1>3, FS_CountingElements
<1> QED BY <1>4 DEF CountAfter

-----------------------------------------------------------------------------
(* What the visitors make of the server's replies.                          *)

\* An error is no confirmation, and prints nothing.
LEMMA RefusalSeen ==
  /\ \A behind \in BOOLEAN : ~CheckSubscription(ErrorValue("ERR"), arguments, behind)
  /\ ExtractPayload(ErrorValue("ERR")) = Line(Refusal)
<1>1. ErrorValue("ERR").type = "error"
  BY DEF ErrorValue
<1>2. \A behind \in BOOLEAN : ~CheckSubscription(ErrorValue("ERR"), arguments, behind)
  BY <1>1 DEF CheckSubscription
<1>3. ExtractPayload(ErrorValue("ERR")) = SomethingElse
  BY <1>1 DEF ExtractPayload, JsonExtractor, PayloadExtractor
<1>4. Line(Refusal) = SomethingElse
  BY DEF Line, Refusal
<1> QED BY <1>2, <1>3, <1>4

\* The n-th confirmation of a command that names no channel twice passes.
LEMMA ConfirmationSeen ==
  ASSUME IsCommand(arguments), NamesEachOnce, NEW n \in 1 .. Len(Named)
  PROVE  \A behind \in BOOLEAN : CheckSubscription(ConfirmationReply(n), arguments, behind)
<1> DEFINE reply == ConfirmationReply(n)
<1>1. /\ Named \in Seq(Channels) /\ Name \in Names /\ Name = arguments[1]
      /\ Len(Named) \in Nat /\ Len(arguments) = Len(Named) + 1
      /\ arguments[n + 1] = Named[n]
  BY ChannelsNamed DEF Name
<1>2. CountAfter(n) = n
  BY CountsUp
<1>3. /\ reply.type = "array"
      /\ Len(reply.elements) = 3
      /\ reply.elements[1] = StringValue(Word(Name))
      /\ reply.elements[2] = StringValue(Named[n])
      /\ reply.elements[3] = IntValue(<<n>>)
  BY <1>2 DEF ConfirmationReply, ArrayValue
<1>4. \A behind \in BOOLEAN : EqualCommand(Word(Name), Name, behind)
  BY <1>1, SubscriptionAssumption
<1>5. /\ StringValue(Word(Name)).type = "string"
      /\ StringValue(Word(Name)).text = Word(Name)
      /\ IntValue(<<n>>).type = "int" /\ IntValue(<<n>>).text = <<n>>
  BY DEF StringValue, IntValue
<1>6. Head(<<n>>) = n /\ <<n>> # <<>>
  OBVIOUS
<1> HIDE DEF reply
<1>7. \A behind \in BOOLEAN : CheckSubscription(reply, arguments, behind)
  BY <1>1, <1>3, <1>4, <1>5, <1>6 DEF CheckSubscription
<1> QED BY <1>7 DEF reply

\* A message gives the line that it should.
LEMMA MessageSeen ==
  ASSUME IsCommand(arguments), NEW channel \in Channels, NEW payload \in Payloads
  PROVE  /\ ExtractPayload(MessageReply(channel, payload)) = Line(Published(channel, payload))
         /\ Line(Published(channel, payload)) \in Lines
<1> DEFINE reply == MessageReply(channel, payload)
<1>1. Name \in Names
  BY ChannelsNamed
<1>2. Patterns(Name) \in BOOLEAN
  BY <1>1, SubscriptionAssumption
<1>3. /\ Published(channel, payload).kind = "message"
      /\ Published(channel, payload).channel = channel
      /\ Published(channel, payload).payload = payload
  BY DEF Published
<1>4. CASE Patterns(Name)
  <2>1. reply.type = "array" /\ Len(reply.elements) = 4
    BY <1>4 DEF MessageReply, ArrayValue
  <2>2. ExtractPayload(reply) = SomethingElse
    BY <2>1 DEF ExtractPayload, JsonExtractor, PayloadExtractor
  <2> QED BY <1>4, <2>2 DEF Line, Lines
<1>5. CASE ~Patterns(Name)
  <2>1. /\ reply.type = "array" /\ Len(reply.elements) = 3
        /\ reply.elements[2] = StringValue(channel)
        /\ reply.elements[3] = StringValue(payload)
    BY <1>5 DEF MessageReply, ArrayValue
  <2>2. \A text : StringValue(text).type = "string" /\ StringValue(text).text = text
    BY DEF StringValue
  <2> HIDE DEF reply
  <2>3. PayloadExtractor(reply) = <<channel, payload>>
    BY <2>1, <2>2 DEF PayloadExtractor
  <2>4. <<channel, payload>> # SomethingElse
    BY DEF SomethingElse
  <2>5. JsonExtractor(reply) = IF payload \in Json THEN <<channel, payload>> ELSE SomethingElse
    BY <2>1, <2>2, <2>3, <2>4 DEF JsonExtractor
  <2>6. ExtractPayload(reply) = Line(Published(channel, payload))
    BY <1>3, <1>5, <2>3, <2>5 DEF ExtractPayload, Line
  <2>7. Line(Published(channel, payload)) \in Lines
    BY <1>3, <1>5 DEF Line, Lines
  <2> QED BY <2>6, <2>7 DEF reply
<1> QED BY <1>2, <1>4, <1>5

-----------------------------------------------------------------------------
\* The command is the same for ever, and with it what the replies say.
LEMMA SameCommand ==
  ASSUME arguments' = arguments, client' = client
  PROVE  /\ IsCommand(arguments)' = IsCommand(arguments)
         /\ Name' = Name /\ Named' = Named
         /\ \A n : ConfirmationReply(n)' = ConfirmationReply(n)
         /\ \A channel, payload : MessageReply(channel, payload)' = MessageReply(channel, payload)
         /\ Replies' = Replies
         /\ \A answer : Line(answer)' = Line(answer)
         /\ \A answer, n : ReplyTo(answer, n)' = ReplyTo(answer, n)
<1>1. Name' = Name /\ Named' = Named
  BY DEF Name, Named
<1>2. \A n : CountAfter(n)' = CountAfter(n)
  <2> SUFFICES ASSUME NEW n PROVE CountAfter(n)' = CountAfter(n)
    OBVIOUS
  <2>1. {Named'[i] : i \in 1 .. n} = {Named[i] : i \in 1 .. n}
    BY <1>1
  <2> QED BY <2>1 DEF CountAfter
<1>3. \A n : ConfirmationReply(n)' = ConfirmationReply(n)
  BY <1>1, <1>2 DEF ConfirmationReply
<1>4. \A channel, payload : MessageReply(channel, payload)' = MessageReply(channel, payload)
  BY <1>1 DEF MessageReply
<1>5. Replies' = Replies
  BY <1>1, <1>3, <1>4 DEF Replies
<1>6. \A answer : Line(answer)' = Line(answer)
  BY <1>1 DEF Line
<1>7. IsCommand(arguments)' = IsCommand(arguments)
  BY DEF IsCommand
<1>8. \A answer, n : ReplyTo(answer, n)' = ReplyTo(answer, n)
  BY <1>3, <1>4 DEF ReplyTo
<1> QED BY <1>1, <1>3, <1>4, <1>5, <1>6, <1>7, <1>8

\* Where nothing happens, nothing changes.
LEMMA StutterIInv == IInv /\ UNCHANGED vars => IInv'
<1> SUFFICES ASSUME IInv, UNCHANGED vars PROVE IInv'
  OBVIOUS
<1> USE DEF vars, server, IInv
<1>1. TypeOK'
  BY SameCommand DEF TypeOK
<1>2. AnswersOK' /\ ServerOK'
  BY DEF AnswersOK, ServerOK, Accepted, Named
<1>3. InTransitOK'
  BY SameCommand DEF InTransitOK, Handled
<1>4. ClientOK' /\ GivesUpOnlyWhenRefused'
  BY DEF ClientOK, Confirming, GivesUpOnlyWhenRefused, NamesEachOnce, Named
<1>5. HandledInOrder'
  BY SameCommand DEF HandledInOrder
<1> QED BY <1>1, <1>2, <1>3, <1>4, <1>5

\* At first nothing has been sent.
LEMMA InitIInv == Init => IInv
<1> SUFFICES ASSUME Init PROVE IInv
  OBVIOUS
<1> USE DEF Init
<1>1. /\ Named \in Seq(Channels) /\ Len(Named) \in Nat
  BY ChannelsNamed
<1>2. TypeOK
  <2> \A S : <<>> \in Seq(S)
    BY EmptySeq
  <2> QED BY <1>1 DEF TypeOK
<1>3. AnswersOK /\ ServerOK
  BY DEF AnswersOK, ServerOK, Accepted
<1>4. InTransitOK /\ HandledInOrder
  BY DEF InTransitOK, HandledInOrder, Handled
<1>5. ClientOK /\ GivesUpOnlyWhenRefused
  BY DEF ClientOK, GivesUpOnlyWhenRefused
<1> QED BY <1>2, <1>3, <1>4, <1>5 DEF IInv

-----------------------------------------------------------------------------
(* The server.                                                              *)

\* The lengths that the invariants add up.
LEMMA Lengths ==
  ASSUME TypeOK
  PROVE  /\ Len(answers) \in Nat /\ Len(wire) \in Nat /\ Len(rx_buff) \in Nat
         /\ Len(confirmed) \in Nat /\ Len(printed) \in Nat /\ Handled \in Nat
         /\ Named \in Seq(Channels) /\ Len(Named) \in Nat
BY ChannelsNamed, LenProperties DEF TypeOK, Handled

\* The first n elements of a sequence.
LEMMA First ==
  ASSUME NEW S, NEW s \in Seq(S), NEW n \in 1 .. Len(s)
  PROVE  /\ SubSeq(s, 1, n) \in Seq(S)
         /\ Len(SubSeq(s, 1, n)) = n
         /\ \A k \in 1 .. n : SubSeq(s, 1, n)[k] = s[k]
OBVIOUS

\* What is left of a sequence when its first n elements are taken.
LEMMA Rest ==
  ASSUME NEW S, NEW s \in Seq(S), NEW n \in 1 .. Len(s)
  PROVE  /\ SubSeq(s, n + 1, Len(s)) \in Seq(S)
         /\ Len(SubSeq(s, n + 1, Len(s))) = Len(s) - n
         /\ \A k \in 1 .. Len(s) - n : SubSeq(s, n + 1, Len(s))[k] = s[n + k]
<1> DEFINE t == SubSeq(s, n + 1, Len(s))
<1>1. Len(s) \in Nat /\ n \in Int /\ n >= 1 /\ n <= Len(s)
  OBVIOUS
<1>2. /\ n + 1 \in Int /\ Len(s) \in Int /\ Len(s) - (n + 1) + 1 = Len(s) - n
      /\ \A k \in 1 .. Len(s) - n : (n + 1) + k - 1 = n + k
      /\ n + 1 <= Len(s) \/ Len(s) - n = 0
  BY <1>1
<1>3. \A i \in n + 1 .. Len(s) : s[i] \in S
  BY <1>1
<1>4. /\ t \in Seq(S)
      /\ Len(t) = IF n + 1 <= Len(s) THEN Len(s) - (n + 1) + 1 ELSE 0
      /\ \A k \in 1 .. Len(s) - (n + 1) + 1 : t[k] = s[(n + 1) + k - 1]
  <2>1. \A l \in Int, m \in Int :
          (\A i \in m .. l : s[i] \in S) =>
            /\ SubSeq(s, m, l) \in Seq(S)
            /\ Len(SubSeq(s, m, l)) = IF m <= l THEN l - m + 1 ELSE 0
            /\ \A k \in 1 .. l - m + 1 : SubSeq(s, m, l)[k] = s[m + k - 1]
    BY SubSeqProperties
  <2>2. n + 1 \in Int /\ Len(s) \in Int
    BY <1>2
  <2> QED BY <1>3, <2>1, <2>2
<1> HIDE DEF t
<1>5. Len(t) = Len(s) - n
  BY <1>1, <1>2, <1>4
<1>6. \A k \in 1 .. Len(s) - n : t[k] = s[n + k]
  BY <1>2, <1>4
<1> QED BY <1>4, <1>5, <1>6 DEF t

\* Two sums that grow by the same.
LEMMA Sums ==
  ASSUME NEW h \in Nat, NEW r \in Nat, NEW w \in Nat, NEW a \in Nat, NEW k \in Nat,
         NEW v, NEW b, h + r + w = a, v = w + k, b = a + k
  PROVE  h + r + v = b
OBVIOUS

\* A sequence joined to another.
LEMMA Joined ==
  ASSUME NEW S, NEW s \in Seq(S), NEW t \in Seq(S)
  PROVE  /\ s \o t \in Seq(S)
         /\ Len(s \o t) = Len(s) + Len(t)
         /\ \A n \in 1 .. Len(s) : (s \o t)[n] = s[n]
         /\ \A n \in 1 .. Len(t) : (s \o t)[Len(s) + n] = t[n]
OBVIOUS

\* the replies are sent and mean what is remembered of them
Sends(replies, meaning) ==
  /\ replies \in Seq(Replies) /\ meaning \in Seq(Answers) /\ Len(replies) = Len(meaning)
  /\ \A n \in 1 .. Len(meaning) : replies[n] = ReplyTo(meaning[n], Len(answers) + n)
  /\ SendReplies(replies, meaning)

\* What is sent is appended to what is on its way, and changes nothing of it.
LEMMA SendAppends ==
  ASSUME IInv, online, NEW STATE replies, NEW STATE meaning, Sends(replies, meaning),
         UNCHANGED <<client, arguments, online, rx_buff, confirmed, printed>>
  PROVE  /\ answers' \in Seq(Answers) /\ wire' \in Seq(Replies)'
         /\ Len(answers') = Len(answers) + Len(meaning)
         /\ \A n \in 1 .. Len(answers) : answers'[n] = answers[n]
         /\ \A n \in 1 .. Len(meaning) : answers'[Len(answers) + n] = meaning[n]
         /\ InTransitOK' /\ HandledInOrder'
<1> USE DEF IInv
<1>1. /\ answers \in Seq(Answers) /\ wire \in Seq(Replies)
      /\ Len(answers) \in Nat /\ Len(wire) \in Nat /\ Len(rx_buff) \in Nat
      /\ Len(confirmed) \in Nat /\ Len(printed) \in Nat /\ Handled \in Nat
  BY Lengths DEF TypeOK
<1>2. answers' = answers \o meaning /\ wire' = wire \o replies
  BY DEF Sends, SendReplies
<1>0. /\ replies \in Seq(Replies) /\ meaning \in Seq(Answers)
      /\ Len(meaning) \in Nat /\ Len(replies) \in Nat /\ Len(replies) = Len(meaning)
  BY LenProperties DEF Sends
<1>3. /\ answers' \in Seq(Answers) /\ Len(answers') = Len(answers) + Len(meaning)
      /\ \A n \in 1 .. Len(answers) : answers'[n] = answers[n]
      /\ \A n \in 1 .. Len(meaning) : answers'[Len(answers) + n] = meaning[n]
  BY <1>0, <1>1, <1>2, Joined
<1>4. /\ wire' \in Seq(Replies) /\ Len(wire') = Len(wire) + Len(meaning)
      /\ \A n \in 1 .. Len(wire) : wire'[n] = wire[n]
      /\ \A n \in 1 .. Len(meaning) : wire'[Len(wire) + n] = replies[n]
  <2>1. replies \in Seq(Replies) /\ wire \in Seq(Replies) /\ wire' = wire \o replies
    BY <1>0, <1>1, <1>2
  <2>2. /\ wire' \in Seq(Replies) /\ Len(wire') = Len(wire) + Len(replies)
        /\ \A n \in 1 .. Len(wire) : wire'[n] = wire[n]
        /\ \A n \in 1 .. Len(replies) : wire'[Len(wire) + n] = replies[n]
    BY <2>1, Joined
  <2> QED BY <1>0, <2>2
<1>5. Handled' = Handled
  BY DEF Handled
<1>6. /\ Handled + Len(rx_buff) + Len(wire) = Len(answers)
      /\ \A n \in 1 .. Len(rx_buff) : rx_buff[n] = ReplyTo(answers[Handled + n], Handled + n)
      /\ \A n \in 1 .. Len(wire) :
           wire[n] = ReplyTo(answers[Handled + Len(rx_buff) + n], Handled + Len(rx_buff) + n)
  BY DEF InTransitOK
<1>12. Handled + Len(rx_buff) + Len(wire) = Len(answers)
  BY <1>6
<1>13. Len(answers') = Len(answers) + Len(meaning) /\ Len(wire') = Len(wire) + Len(meaning)
  BY <1>3, <1>4
<1>7. \A n \in 1 .. Len(rx_buff) : rx_buff[n] = ReplyTo(answers'[Handled + n], Handled + n)
  <2> SUFFICES ASSUME NEW n \in 1 .. Len(rx_buff), NEW m, m = Handled + n
               PROVE  rx_buff[n] = ReplyTo(answers'[m], m)
    OBVIOUS
  <2>1. m \in 1 .. Len(answers)
    BY <1>1, <1>6
  <2> QED BY <1>3, <1>6, <2>1
<1>8. \A n \in 1 .. Len(wire') :
        wire'[n] = ReplyTo(answers'[Handled + Len(rx_buff) + n], Handled + Len(rx_buff) + n)
  <2> SUFFICES ASSUME NEW n \in 1 .. Len(wire'), NEW m, m = Handled + Len(rx_buff) + n
               PROVE  wire'[n] = ReplyTo(answers'[m], m)
    OBVIOUS
  <2>1. CASE n <= Len(wire)
    <3>1. n \in 1 .. Len(wire) /\ m \in 1 .. Len(answers)
      BY <1>1, <1>4, <1>6, <2>1
    <3> QED BY <1>3, <1>4, <1>6, <3>1
  <2>2. CASE n > Len(wire)
    <3>1. n - Len(wire) \in 1 .. Len(meaning)
      BY <1>0, <1>1, <1>4, <2>2
    <3>2. n \in Int /\ n = Len(wire) + (n - Len(wire))
      BY <1>1, <1>4
    <3>4. m = Len(answers) + (n - Len(wire))
      BY <1>1, <1>12, <3>2
    <3>3. replies[n - Len(wire)] = ReplyTo(meaning[n - Len(wire)], m)
      BY <3>1, <3>4 DEF Sends
    <3>5. answers'[m] = meaning[n - Len(wire)]
      BY <1>3, <3>1, <3>4
    <3>6. wire'[n] = replies[n - Len(wire)]
      BY <1>4, <3>1, <3>2
    <3> QED BY <3>3, <3>5, <3>6
  <2> QED BY <1>0, <1>1, <1>4, <2>1, <2>2
<1>9. /\ InTransitOK' <=>
           /\ \A n \in 1 .. Len(rx_buff') :
                rx_buff'[n] = ReplyTo(answers'[Handled' + n], Handled' + n)
           /\ \A n \in 1 .. Len(wire') :
                LET m == Handled' + Len(rx_buff') + n IN wire'[n] = ReplyTo(answers'[m], m)
           /\ Handled' + Len(rx_buff') + Len(wire') <= Len(answers')
           /\ online' => Handled' + Len(rx_buff') + Len(wire') = Len(answers')
  BY SameCommand DEF InTransitOK
<1>10. InTransitOK'
  <2>1. rx_buff' = rx_buff /\ online' = online
    OBVIOUS
  <2>2. Handled + Len(rx_buff) + Len(wire') = Len(answers')
    <3>1. Len(answers') = Len(answers) + Len(meaning)
      BY <1>13
    <3>2. Len(wire') = Len(wire) + Len(meaning)
      BY <1>13
    <3>3. Handled + Len(rx_buff) + Len(wire) = Len(answers)
      BY <1>12
    <3>4. Handled \in Nat /\ Len(rx_buff) \in Nat /\ Len(wire) \in Nat
          /\ Len(answers) \in Nat /\ Len(meaning) \in Nat
      BY <1>0, <1>1
    <3> QED BY <3>1, <3>2, <3>3, <3>4, Sums
  <2>3. Handled + Len(rx_buff) + Len(wire') <= Len(answers')
    BY <1>0, <1>1, <1>3, <2>2
  <2> QED BY <1>5, <1>7, <1>8, <1>9, <2>1, <2>2, <2>3
<1>11. HandledInOrder'
  <2>1. confirmed' = confirmed /\ printed' = printed
    OBVIOUS
  <2>2. /\ Len(confirmed) + Len(printed) <= Len(answers)
        /\ \A n \in DOMAIN confirmed : answers[n] = Confirmation(confirmed[n])
        /\ \A n \in DOMAIN printed : printed[n] = Line(answers[Len(confirmed) + n])
    BY DEF HandledInOrder
  <2>3. DOMAIN confirmed = 1 .. Len(confirmed) /\ DOMAIN printed = 1 .. Len(printed)
    BY DEF TypeOK
  <2>4. \A n \in 1 .. Len(confirmed) : n \in 1 .. Len(answers)
    BY <1>1, <2>2
  <2>5. \A n \in DOMAIN confirmed : answers'[n] = Confirmation(confirmed[n])
    BY <1>3, <2>2, <2>3, <2>4
  <2>6. \A n \in DOMAIN printed : printed[n] = Line(answers'[Len(confirmed) + n])
    <3> SUFFICES ASSUME NEW n \in 1 .. Len(printed), NEW m, m = Len(confirmed) + n
                 PROVE  printed[n] = Line(answers'[m])
      BY <2>3
    <3>1. m \in 1 .. Len(answers)
      BY <1>1, <2>2
    <3> QED BY <1>3, <2>2, <2>3, <3>1
  <2>7. Len(confirmed) + Len(printed) <= Len(answers')
    BY <1>0, <1>1, <1>3, <2>2
  <2>8. HandledInOrder' <=>
          /\ Len(confirmed') + Len(printed') <= Len(answers')
          /\ \A n \in DOMAIN confirmed' : answers'[n] = Confirmation(confirmed'[n])
          /\ \A n \in DOMAIN printed' : printed'[n] = Line(answers'[Len(confirmed') + n])
    BY SameCommand DEF HandledInOrder
  <2> QED BY <2>1, <2>5, <2>6, <2>7, <2>8
<1> QED BY <1>3, <1>4, <1>10, <1>11, SameCommand

\* The server confirms every channel of the command.
LEMMA ServeIInv == IInv /\ Serve => IInv'
<1> SUFFICES ASSUME IInv, Serve PROVE IInv'
  OBVIOUS
<1> USE DEF IInv, Serve
<1> DEFINE replies == [n \in DOMAIN Named |-> ConfirmationReply(n)]
           meaning == [n \in DOMAIN Named |-> Confirmation(Named[n])]
<1>1. /\ online /\ answers = <<>> /\ Len(answers) = 0
      /\ Named \in Seq(Channels) /\ Len(Named) \in Nat /\ DOMAIN Named = 1 .. Len(Named)
  BY Lengths DEF ServerOK
<1>2. replies \in Seq(Replies) /\ Len(replies) = Len(Named)
  BY <1>1 DEF Replies
<1>3. meaning \in Seq(Answers) /\ Len(meaning) = Len(Named)
  BY <1>1 DEF Answers
<1>4. SendReplies(replies, meaning)
  OBVIOUS
<1>5. \A n \in 1 .. Len(Named) : answers'[n] = Confirmation(Named[n])
  BY <1>1, <1>3, <1>4 DEF SendReplies
<1>6. \A n \in 1 .. Len(meaning) : replies[n] = ReplyTo(meaning[n], Len(answers) + n)
  <2> SUFFICES ASSUME NEW n \in 1 .. Len(Named)
               PROVE  ConfirmationReply(n) = ReplyTo(Confirmation(Named[n]), n)
    BY <1>1, <1>3
  <2>1. Confirmation(Named[n]).kind = "confirmation"
    BY DEF Confirmation
  <2> QED BY <2>1 DEF ReplyTo
<1> HIDE DEF replies, meaning
<1>7. /\ answers' \in Seq(Answers) /\ wire' \in Seq(Replies)'
      /\ Len(answers') = Len(Named)
      /\ InTransitOK' /\ HandledInOrder'
  <2>1. Sends(replies, meaning)
    BY <1>1, <1>2, <1>3, <1>4, <1>6 DEF Sends
  <2> QED BY <1>1, <1>3, <2>1, SendAppends
<1>8. TypeOK'
  BY <1>1, <1>7, SameCommand DEF TypeOK
<1>9. Accepted'
  BY <1>1, <1>5, <1>7, SameCommand DEF Accepted
<1>10. AnswersOK' /\ ServerOK'
  BY <1>1, <1>9, SameCommand DEF AnswersOK, ServerOK
<1>11. ClientOK' /\ GivesUpOnlyWhenRefused'
  BY <1>1, SameCommand DEF ClientOK, Confirming, GivesUpOnlyWhenRefused
<1> QED BY <1>7, <1>8, <1>10, <1>11

\* The server refuses the command.
LEMMA RefuseCommandIInv == IInv /\ RefuseCommand => IInv'
<1> SUFFICES ASSUME IInv, RefuseCommand PROVE IInv'
  OBVIOUS
<1> USE DEF IInv, RefuseCommand
<1> DEFINE replies == <<ErrorValue("ERR")>>
           meaning == <<Refusal>>
<1>1. /\ online /\ answers = <<>> /\ Len(answers) = 0
      /\ Named \in Seq(Channels) /\ Len(Named) \in Nat
  BY Lengths DEF ServerOK
<1>2. replies \in Seq(Replies) /\ Len(replies) = 1 /\ replies[1] = ErrorValue("ERR")
  BY DEF Replies
<1>3. meaning \in Seq(Answers) /\ Len(meaning) = 1
  BY DEF Answers
<1>4. SendReplies(replies, meaning)
  OBVIOUS
<1>5. answers' = <<Refusal>>
  BY <1>1, <1>4 DEF SendReplies
<1>6. \A n \in 1 .. Len(meaning) : replies[n] = ReplyTo(meaning[n], Len(answers) + n)
  BY <1>2, <1>3 DEF ReplyTo, Refusal
<1> HIDE DEF replies, meaning
<1>7. /\ answers' \in Seq(Answers) /\ wire' \in Seq(Replies)'
      /\ InTransitOK' /\ HandledInOrder'
  <2>1. Sends(replies, meaning)
    BY <1>1, <1>2, <1>3, <1>4, <1>6 DEF Sends
  <2> QED BY <1>1, <1>3, <2>1, SendAppends
<1>8. TypeOK'
  BY <1>1, <1>7, SameCommand DEF TypeOK
<1>9. subscribed = {} /\ ~Accepted'
  <2>1. ~Accepted
    BY <1>1 DEF Accepted
  <2>2. Refusal.kind # "confirmation" /\ \A c : Confirmation(c).kind = "confirmation"
    BY DEF Refusal, Confirmation
  <2>3. ~Accepted'
    BY <1>1, <1>5, <2>2, SameCommand DEF Accepted
  <2> QED BY <2>1, <2>3 DEF ServerOK
<1>10. AnswersOK' /\ ServerOK'
  BY <1>1, <1>5, <1>9 DEF AnswersOK, ServerOK
<1>11. ClientOK' /\ GivesUpOnlyWhenRefused'
  BY <1>1, SameCommand DEF ClientOK, Confirming, GivesUpOnlyWhenRefused
<1> QED BY <1>7, <1>8, <1>10, <1>11

\* A message is published to a channel of a command that has been accepted.
LEMMA PublishIInv ==
  ASSUME IInv, NEW channel \in Channels, NEW payload \in Payloads, Publish(channel, payload)
  PROVE  IInv'
<1> USE DEF IInv, Publish
<1> DEFINE replies == <<MessageReply(channel, payload)>>
           meaning == <<Published(channel, payload)>>
<1>1. /\ online /\ Accepted /\ Named # <<>> /\ Len(Named) <= Len(answers)
      /\ Named \in Seq(Channels) /\ Len(Named) \in Nat /\ Len(answers) \in Nat
  BY Lengths DEF ServerOK, Accepted
<1>2. answers # <<>> /\ request = <<>> /\ pc # "write" /\ pc # "refused"
  <2>1. answers # <<>>
    BY <1>1
  <2> QED BY <1>1, <2>1 DEF ServerOK, ClientOK
<1>3. replies \in Seq(Replies) /\ Len(replies) = 1 /\ replies[1] = MessageReply(channel, payload)
  BY DEF Replies
<1>4. meaning \in Seq(Answers) /\ Len(meaning) = 1 /\ meaning[1] = Published(channel, payload)
  BY DEF Answers
<1>5. SendReplies(replies, meaning)
  OBVIOUS
<1>6. \A n \in 1 .. Len(meaning) : replies[n] = ReplyTo(meaning[n], Len(answers) + n)
  <2>1. /\ Published(channel, payload).kind = "message"
        /\ Published(channel, payload).channel = channel
        /\ Published(channel, payload).payload = payload
    BY DEF Published
  <2> QED BY <1>3, <1>4, <2>1 DEF ReplyTo
<1> HIDE DEF replies, meaning
<1>7. /\ answers' \in Seq(Answers) /\ wire' \in Seq(Replies)'
      /\ Len(answers') = Len(answers) + 1
      /\ \A n \in 1 .. Len(answers) : answers'[n] = answers[n]
      /\ answers'[Len(answers) + 1] = Published(channel, payload)
      /\ InTransitOK' /\ HandledInOrder'
  <2>1. Sends(replies, meaning)
    BY <1>3, <1>4, <1>5, <1>6 DEF Sends
  <2>2. /\ answers' \in Seq(Answers) /\ wire' \in Seq(Replies)'
        /\ Len(answers') = Len(answers) + Len(meaning)
        /\ \A n \in 1 .. Len(answers) : answers'[n] = answers[n]
        /\ \A n \in 1 .. Len(meaning) : answers'[Len(answers) + n] = meaning[n]
        /\ InTransitOK' /\ HandledInOrder'
    BY <1>1, <2>1, SendAppends
  <2>3. Len(answers') = Len(answers) + 1
    BY <1>4, <2>2
  <2>4. answers'[Len(answers) + 1] = Published(channel, payload)
    BY <1>4, <2>2
  <2> QED BY <2>2, <2>3, <2>4
<1>8. TypeOK'
  BY <1>1, <1>7, SameCommand DEF TypeOK
<1>9. Accepted'
  <2>1. Len(Named) <= Len(answers')
    BY <1>1, <1>7
  <2>2. \A n \in 1 .. Len(Named) : answers'[n] = Confirmation(Named[n])
    BY <1>1, <1>7 DEF Accepted
  <2>3. \A n \in Len(Named) + 1 .. Len(answers') :
          \E c \in Channels, p \in Payloads : answers'[n] = Published(c, p)
    <3> SUFFICES ASSUME NEW n \in Len(Named) + 1 .. Len(answers')
                 PROVE  \E c \in Channels, p \in Payloads : answers'[n] = Published(c, p)
      OBVIOUS
    <3>1. CASE n = Len(answers) + 1
      BY <1>7, <3>1
    <3>2. CASE n # Len(answers) + 1
      <4>2. /\ Len(Named) \in Nat /\ Len(answers) \in Nat
            /\ Len(answers') = Len(answers) + 1
        BY <1>1, <1>7
      <4>3. n \in Int /\ n >= Len(Named) + 1 /\ n <= Len(answers) + 1
        BY <4>2
      <4>1. n \in Len(Named) + 1 .. Len(answers) /\ n \in 1 .. Len(answers)
        BY <3>2, <4>2, <4>3
      <4> QED BY <1>1, <1>7, <4>1 DEF Accepted
    <3> QED BY <3>1, <3>2
  <2> QED BY <1>1, <2>1, <2>2, <2>3, SameCommand DEF Accepted
<1>10. AnswersOK' /\ ServerOK'
  BY <1>1, <1>2, <1>9, SameCommand DEF AnswersOK, ServerOK
<1>11. ClientOK' /\ GivesUpOnlyWhenRefused'
  BY <1>1, <1>2, SameCommand DEF ClientOK, Confirming, GivesUpOnlyWhenRefused
<1> QED BY <1>7, <1>8, <1>10, <1>11

\* what a connection that ends leaves behind
Ends ==
  /\ online' = FALSE /\ request' = <<>> /\ subscribed' = {} /\ wire' = <<>>
  /\ UNCHANGED <<client, arguments, answers, rx_buff, confirmed, printed>>

\* Where the connection ends, what the client has read is still to be handled.
LEMMA EndsOK ==
  ASSUME IInv, Ends
  PROVE  /\ AnswersOK' /\ ServerOK' /\ InTransitOK' /\ HandledInOrder'
         /\ wire' \in Seq(Replies)'
<1> USE DEF IInv, Ends
<1>1. wire' \in Seq(Replies)'
  OBVIOUS
<1>2. AnswersOK' /\ ServerOK'
  BY DEF AnswersOK, ServerOK, Accepted, Named
<1>3. InTransitOK'
  <2>1. /\ Handled \in Nat /\ Len(rx_buff) \in Nat /\ Len(wire) \in Nat /\ Len(answers) \in Nat
        /\ Handled' = Handled
    BY Lengths DEF Handled
  <2>2. Handled + Len(rx_buff) + 0 <= Len(answers)
    BY <2>1 DEF InTransitOK
  <2>3. \A n \in 1 .. Len(rx_buff) : rx_buff[n] = ReplyTo(answers[Handled + n], Handled + n)
    BY DEF InTransitOK
  <2>4. Len(wire') = 0 /\ 1 .. 0 = {}
    OBVIOUS
  <2> QED BY <2>1, <2>2, <2>3, <2>4, SameCommand DEF InTransitOK
<1>4. HandledInOrder'
  BY SameCommand DEF HandledInOrder
<1> QED BY <1>1, <1>2, <1>3, <1>4

\* The connection is reset.
LEMMA DisconnectIInv == IInv /\ Disconnect => IInv'
<1> SUFFICES ASSUME IInv, Disconnect PROVE IInv'
  OBVIOUS
<1>1. AnswersOK' /\ ServerOK' /\ InTransitOK' /\ HandledInOrder' /\ wire' \in Seq(Replies)'
  BY EndsOK DEF Disconnect, Ends
<1> USE DEF IInv, Disconnect
<1>2. TypeOK'
  BY <1>1, SameCommand DEF TypeOK
<1>3. ClientOK' /\ GivesUpOnlyWhenRefused'
  BY SameCommand DEF ClientOK, Confirming, GivesUpOnlyWhenRefused, NamesEachOnce
<1> QED BY <1>1, <1>2, <1>3

-----------------------------------------------------------------------------
(* The client.                                                              *)

\* The command is on its way, and nothing has been sent yet.
LEMMA WriteCommandIInv == IInv /\ WriteCommand => IInv'
<1> SUFFICES ASSUME IInv, WriteCommand PROVE IInv'
  OBVIOUS
<1> USE DEF IInv, WriteCommand
<1>1. TypeOK'
  BY SameCommand DEF TypeOK
<1>2. AnswersOK' /\ ServerOK'
  BY DEF AnswersOK, ServerOK, Accepted, Named, ClientOK
<1>3. InTransitOK' /\ HandledInOrder'
  BY SameCommand DEF InTransitOK, Handled, HandledInOrder
<1>4. ClientOK' /\ GivesUpOnlyWhenRefused'
  BY SameCommand DEF ClientOK, Confirming, GivesUpOnlyWhenRefused
<1> QED BY <1>1, <1>2, <1>3, <1>4

\* The socket gives the client what is first on its way.
LEMMA ReadIInv == IInv /\ Read => IInv'
<1> SUFFICES ASSUME IInv, Read PROVE IInv'
  OBVIOUS
<1> USE DEF IInv, Read, server
<1>1. rx_buff' # <<>> /\ rx_buff' \in Seq(Replies)' /\ wire' \in Seq(Replies)' /\ InTransitOK'
  <2>1. CASE rx_buff # <<>> /\ UNCHANGED <<wire, rx_buff>>
    BY <2>1, SameCommand DEF TypeOK, InTransitOK, Handled
  <2>2. CASE /\ rx_buff = <<>>
             /\ \E n \in DOMAIN wire : /\ rx_buff' = SubSeq(wire, 1, n)
                                       /\ wire' = SubSeq(wire, n + 1, Len(wire))
    <3>1. PICK n \in DOMAIN wire : /\ rx_buff' = SubSeq(wire, 1, n)
                                  /\ wire' = SubSeq(wire, n + 1, Len(wire))
      BY <2>2
    <3>2. /\ wire \in Seq(Replies) /\ Len(wire) \in Nat /\ n \in 1 .. Len(wire)
          /\ Handled \in Nat /\ Len(answers) \in Nat /\ Len(rx_buff) = 0 /\ Handled' = Handled
      <4>1. TypeOK /\ wire \in Seq(Replies)
        BY DEF TypeOK
      <4>2. Len(wire) \in Nat /\ Handled \in Nat /\ Len(answers) \in Nat
        BY <4>1, Lengths
      <4>3. n \in 1 .. Len(wire)
        BY <4>1
      <4>4. Len(rx_buff) = 0
        BY <2>2
      <4>5. Handled' = Handled
        BY DEF Handled
      <4> QED BY <4>1, <4>2, <4>3, <4>4, <4>5
    <3>3. /\ rx_buff' \in Seq(Replies) /\ Len(rx_buff') = n
          /\ \A k \in 1 .. n : rx_buff'[k] = wire[k]
      <4>1. wire \in Seq(Replies) /\ n \in 1 .. Len(wire)
        BY <3>2
      <4>2. rx_buff' = SubSeq(wire, 1, n)
        BY <3>1
      <4> QED BY <4>1, <4>2, First
    <3>4. /\ wire' \in Seq(Replies) /\ Len(wire') = Len(wire) - n
          /\ \A k \in 1 .. Len(wire) - n : wire'[k] = wire[n + k]
      <4>1. wire \in Seq(Replies) /\ n \in 1 .. Len(wire)
        BY <3>2
      <4>2. wire' = SubSeq(wire, n + 1, Len(wire))
        BY <3>1
      <4> QED BY <4>1, <4>2, Rest
    <3>5. /\ \A k \in 1 .. Len(wire) : wire[k] = ReplyTo(answers[Handled + k], Handled + k)
          /\ Handled + Len(wire) <= Len(answers)
          /\ online => Handled + Len(wire) = Len(answers)
      BY <3>2 DEF InTransitOK
    <3>6. \A k \in 1 .. Len(rx_buff') :
            rx_buff'[k] = ReplyTo(answers[Handled + k], Handled + k)
      BY <3>2, <3>3, <3>5, SMTT(40)
    <3>7. \A k \in 1 .. Len(wire') :
            wire'[k] = ReplyTo(answers[Handled + n + k], Handled + n + k)
      <4> SUFFICES ASSUME NEW k \in 1 .. Len(wire')
                   PROVE  wire'[k] = ReplyTo(answers[Handled + n + k], Handled + n + k)
        OBVIOUS
      <4>2. /\ Len(wire) \in Nat /\ Handled \in Nat /\ n \in Int /\ n >= 1
            /\ k \in Int /\ k >= 1 /\ k <= Len(wire) - n
        BY <3>2, <3>4
      <4>1. /\ n + k \in 1 .. Len(wire) /\ Handled + (n + k) = Handled + n + k
            /\ k \in 1 .. Len(wire) - n
        BY <4>2
      <4> QED BY <3>4, <3>5, <4>1
    <3>8. Handled + n + Len(wire') = Handled + Len(wire)
      BY <3>2, <3>4
    <3>9. InTransitOK' <=>
            /\ \A k \in 1 .. Len(rx_buff') :
                 rx_buff'[k] = ReplyTo(answers'[Handled' + k], Handled' + k)
            /\ \A k \in 1 .. Len(wire') :
                 LET m == Handled' + Len(rx_buff') + k IN wire'[k] = ReplyTo(answers'[m], m)
            /\ Handled' + Len(rx_buff') + Len(wire') <= Len(answers')
            /\ online' => Handled' + Len(rx_buff') + Len(wire') = Len(answers')
      BY SameCommand DEF InTransitOK
    <3>10. InTransitOK'
      BY <3>2, <3>3, <3>5, <3>6, <3>7, <3>8, <3>9
    <3> QED BY <3>2, <3>3, <3>4, <3>10, SameCommand
  <2> QED BY <2>1, <2>2
<1>2. TypeOK'
  BY <1>1, SameCommand DEF TypeOK
<1>3. ~online => wire' = <<>>
  BY DEF ServerOK
<1>4. AnswersOK' /\ ServerOK'
  BY <1>3 DEF AnswersOK, ServerOK, Accepted, Named
<1>5. HandledInOrder'
  BY SameCommand DEF HandledInOrder
<1>6. ClientOK' /\ GivesUpOnlyWhenRefused'
  BY SameCommand DEF ClientOK, Confirming, GivesUpOnlyWhenRefused
<1> QED BY <1>1, <1>2, <1>4, <1>5, <1>6

\* A read fails, and the client stops.
LEMMA ReadFailsIInv == IInv /\ ReadFails => IInv'
<1> SUFFICES ASSUME IInv, ReadFails PROVE IInv'
  OBVIOUS
<1> USE DEF IInv, ReadFails, server
<1>1. TypeOK'
  BY SameCommand DEF TypeOK
<1>2. AnswersOK' /\ ServerOK'
  BY DEF AnswersOK, ServerOK, Accepted, Named
<1>3. InTransitOK' /\ HandledInOrder'
  BY SameCommand DEF InTransitOK, Handled, HandledInOrder
<1>4. ClientOK' /\ GivesUpOnlyWhenRefused'
  BY SameCommand DEF ClientOK, Confirming, GivesUpOnlyWhenRefused
<1> QED BY <1>1, <1>2, <1>3, <1>4

\* The first reply of the buffer is that to the first answer not handled yet.
LEMMA FirstReply ==
  ASSUME IInv, rx_buff # <<>>
  PROVE  /\ Handled + 1 \in 1 .. Len(answers)
         /\ Marked(rx_buff) = ReplyTo(answers[Handled + 1], Handled + 1)
<1>1. rx_buff \in Seq(Replies) /\ TypeOK /\ InTransitOK
  BY DEF IInv, TypeOK
<1>2. /\ Len(rx_buff) \in Nat /\ Len(wire) \in Nat /\ Len(answers) \in Nat /\ Handled \in Nat
  BY <1>1, Lengths
<1>3. Len(rx_buff) >= 1
  BY <1>1, <1>2
<1>4. Handled + Len(rx_buff) + Len(wire) <= Len(answers)
  BY <1>1 DEF InTransitOK
<1>5. Handled + 1 \in 1 .. Len(answers)
  BY <1>2, <1>3, <1>4
<1>6. 1 \in 1 .. Len(rx_buff)
  BY <1>2, <1>3
<1>7. rx_buff[1] = ReplyTo(answers[Handled + 1], Handled + 1)
  BY <1>1, <1>6 DEF InTransitOK
<1> QED BY <1>5, <1>7 DEF Marked

\* the first reply is handled and consumed
Takes ==
  /\ rx_buff # <<>> /\ rx_buff' = Tail(rx_buff)
  /\ Handled' = Handled + 1
  /\ UNCHANGED <<client, arguments, server, wire, online>>

\* When it is, the next one is that to the next answer.
LEMMA TakesOK ==
  ASSUME IInv, Takes
  PROVE  /\ rx_buff' \in Seq(Replies)' /\ InTransitOK'
         /\ AnswersOK' /\ ServerOK'
<1> USE DEF IInv, Takes, server
<1>1. TypeOK /\ rx_buff \in Seq(Replies)
  BY DEF TypeOK
<1>2. /\ Len(rx_buff) \in Nat /\ Len(wire) \in Nat /\ Len(answers) \in Nat /\ Handled \in Nat
  BY <1>1, Lengths
<1>3. /\ rx_buff' \in Seq(Replies) /\ Len(rx_buff') = Len(rx_buff) - 1
      /\ \A n \in 1 .. Len(rx_buff') : rx_buff'[n] = rx_buff[n + 1]
  BY <1>1, HeadTailProperties
<1>4. /\ \A n \in 1 .. Len(rx_buff) : rx_buff[n] = ReplyTo(answers[Handled + n], Handled + n)
      /\ \A n \in 1 .. Len(wire) :
           wire[n] = ReplyTo(answers[Handled + Len(rx_buff) + n], Handled + Len(rx_buff) + n)
      /\ Handled + Len(rx_buff) + Len(wire) <= Len(answers)
      /\ online => Handled + Len(rx_buff) + Len(wire) = Len(answers)
  BY DEF InTransitOK
<1>5. Handled' = Handled + 1 /\ Handled' + Len(rx_buff') = Handled + Len(rx_buff)
  <2>1. Len(rx_buff') = Len(rx_buff) - 1 /\ Handled' = Handled + 1
    BY <1>3
  <2> QED BY <1>2, <2>1
<1>6. \A n \in 1 .. Len(rx_buff') : rx_buff'[n] = ReplyTo(answers[Handled' + n], Handled' + n)
  <2> SUFFICES ASSUME NEW n \in 1 .. Len(rx_buff')
               PROVE  rx_buff'[n] = ReplyTo(answers[Handled' + n], Handled' + n)
    OBVIOUS
  <2>1. n \in Int /\ n >= 1 /\ n <= Len(rx_buff) - 1
    BY <1>2, <1>3
  <2>2. n + 1 \in 1 .. Len(rx_buff) /\ Handled' + n = Handled + (n + 1)
    BY <1>2, <1>5, <2>1
  <2> QED BY <1>3, <1>4, <2>2
<1>7. InTransitOK' <=>
        /\ \A n \in 1 .. Len(rx_buff') :
             rx_buff'[n] = ReplyTo(answers'[Handled' + n], Handled' + n)
        /\ \A n \in 1 .. Len(wire') :
             LET m == Handled' + Len(rx_buff') + n IN wire'[n] = ReplyTo(answers'[m], m)
        /\ Handled' + Len(rx_buff') + Len(wire') <= Len(answers')
        /\ online' => Handled' + Len(rx_buff') + Len(wire') = Len(answers')
  BY SameCommand DEF InTransitOK
<1>8. wire' = wire /\ answers' = answers /\ online' = online
  OBVIOUS
<1>9. InTransitOK'
  BY <1>4, <1>5, <1>6, <1>7, <1>8
<1>10. AnswersOK' /\ ServerOK'
  BY DEF AnswersOK, ServerOK, Accepted, Named
<1> QED BY <1>3, <1>9, <1>10, SameCommand

\* A channel is confirmed in its turn.
LEMMA ConfirmIInv == IInv /\ Confirm => IInv'
<1> SUFFICES ASSUME IInv, Confirm PROVE IInv'
  OBVIOUS
<1> DEFINE turn == Len(confirmed) + 1
<1>1. /\ TypeOK /\ HandledInOrder /\ Confirming /\ pc = "check"
      /\ rx_buff # <<>> /\ printed = <<>> /\ Len(printed) = 0
  BY DEF IInv, Confirm, ClientOK, TypeOK
<1>2. /\ Len(confirmed) \in Nat /\ Len(answers) \in Nat
      /\ Named \in Seq(Channels) /\ Len(Named) \in Nat
      /\ confirmed \in Seq(Channels)
  BY <1>1, Lengths DEF TypeOK
<1>3. /\ Handled = Len(confirmed) /\ turn \in 1 .. Len(Named) /\ turn = Handled + 1
      /\ Named[turn] \in Channels
  <2>1. Handled = Len(confirmed) /\ Len(confirmed) < Len(Named)
    BY <1>1, <1>2 DEF Handled, Confirming
  <2>2. turn \in 1 .. Len(Named)
    BY <1>2, <2>1
  <2>3. Named[turn] \in Channels
    BY <1>2, <2>2
  <2> QED BY <2>1, <2>2, <2>3
<1>4. turn \in 1 .. Len(answers) /\ answers[turn] = Confirmation(Named[turn])
  <2>1. /\ turn \in 1 .. Len(answers)
        /\ Marked(rx_buff) = ReplyTo(answers[turn], turn)
    BY <1>1, <1>3, FirstReply
  <2>2. CASE answers = <<Refusal>>
    <3>1. turn = 1 /\ answers[turn] = Refusal
      BY <2>1, <2>2
    <3>2. Marked(rx_buff) = ErrorValue("ERR")
      BY <2>1, <3>1 DEF ReplyTo, Refusal
    <3> QED BY <3>2, RefusalSeen DEF Confirm
  <2>3. CASE Accepted
    BY <1>3, <2>1, <2>3 DEF Accepted
  <2>4. answers # <<>>
    BY <2>1
  <2> QED BY <2>2, <2>3, <2>4 DEF IInv, AnswersOK
<1> HIDE DEF turn
<1>5. /\ confirmed' \in Seq(Channels) /\ Len(confirmed') = turn
      /\ \A n \in 1 .. Len(confirmed) : confirmed'[n] = confirmed[n]
      /\ confirmed'[turn] = Named[turn]
  <2>1. confirmed' = Append(confirmed, Named[turn])
    BY DEF Confirm, turn
  <2> QED BY <1>2, <1>3, <2>1, AppendProperties DEF turn
<1>6. Handled' = Handled + 1
  <2>1. printed' = printed
    BY DEF Confirm
  <2> QED BY <1>1, <1>2, <1>3, <1>5, <2>1 DEF Handled
<1>7. rx_buff' \in Seq(Replies)' /\ InTransitOK' /\ AnswersOK' /\ ServerOK'
  <2>1. Takes
    BY <1>1, <1>6 DEF Takes, Confirm
  <2> QED BY <2>1, TakesOK
<1> USE DEF Confirm, server
<1>8. TypeOK'
  <2>1. Len(confirmed') <= Len(Named)
    BY <1>2, <1>3, <1>5
  <2> QED BY <1>1, <1>5, <1>7, <2>1, SameCommand DEF TypeOK
<1>9. HandledInOrder'
  <2>1. DOMAIN confirmed' = 1 .. Len(confirmed') /\ printed' = <<>> /\ answers' = answers
    BY <1>1, <1>5
  <2>2. \A n \in 1 .. Len(confirmed') : answers[n] = Confirmation(confirmed'[n])
    <3> SUFFICES ASSUME NEW n \in 1 .. Len(confirmed')
                 PROVE  answers[n] = Confirmation(confirmed'[n])
      OBVIOUS
    <3>1. CASE n = turn
      BY <1>4, <1>5, <3>1
    <3>2. CASE n # turn
      <4>1. n \in 1 .. Len(confirmed)
        BY <1>2, <1>5, <3>2 DEF turn
      <4> QED BY <1>1, <1>2, <1>5, <4>1 DEF HandledInOrder
    <3> QED BY <3>1, <3>2
  <2>3. Len(confirmed') + Len(printed') <= Len(answers')
    BY <1>2, <1>4, <1>5, <2>1
  <2> QED BY <2>1, <2>2, <2>3 DEF HandledInOrder
<1>10. ClientOK' /\ GivesUpOnlyWhenRefused'
  BY <1>1 DEF ClientOK, GivesUpOnlyWhenRefused
<1> QED BY <1>7, <1>8, <1>9, <1>10 DEF IInv

\* The client gives up: when it names each channel once, the server refused.
LEMMA NotConfirmedIInv == IInv /\ NotConfirmed => IInv'
<1> SUFFICES ASSUME IInv, NotConfirmed PROVE IInv'
  OBVIOUS
<1>1. AnswersOK' /\ ServerOK' /\ InTransitOK' /\ HandledInOrder' /\ wire' \in Seq(Replies)'
  BY EndsOK DEF NotConfirmed, Ends
<1>2. /\ TypeOK /\ Confirming /\ IsCommand(arguments)
      /\ rx_buff # <<>> /\ printed = <<>> /\ Len(printed) = 0
  BY DEF IInv, NotConfirmed, ClientOK, TypeOK
<1>3. TypeOK'
  BY <1>1, <1>2, SameCommand DEF TypeOK, NotConfirmed
<1>4. NamesEachOnce => answers = <<Refusal>>
  <2> SUFFICES ASSUME NamesEachOnce, answers # <<Refusal>> PROVE FALSE
    OBVIOUS
  <2> DEFINE turn == Handled + 1
  <2>1. turn \in 1 .. Len(answers) /\ Marked(rx_buff) = ReplyTo(answers[turn], turn)
    BY <1>2, FirstReply
  <2>2. turn \in 1 .. Len(Named)
    <3>1. /\ Len(confirmed) \in Nat /\ Len(Named) \in Nat /\ Handled = Len(confirmed)
          /\ Len(confirmed) < Len(Named)
      BY <1>2, Lengths DEF Handled, Confirming
    <3> QED BY <3>1
  <2>3. Accepted
    BY <2>1 DEF IInv, AnswersOK
  <2> HIDE DEF turn
  <2>4. answers[turn] = Confirmation(Named[turn])
    BY <2>2, <2>3 DEF Accepted
  <2>5. Marked(rx_buff) = ConfirmationReply(turn)
    BY <2>1, <2>4 DEF ReplyTo, Confirmation
  <2> QED BY <1>2, <2>2, <2>5, ConfirmationSeen DEF NotConfirmed
<1>5. ClientOK' /\ GivesUpOnlyWhenRefused'
  BY <1>2, <1>4, SameCommand
  DEF NotConfirmed, ClientOK, Confirming, GivesUpOnlyWhenRefused, NamesEachOnce
<1> QED BY <1>1, <1>3, <1>5 DEF IInv

\* A message is printed as it was meant.
LEMMA PrintMessageIInv == IInv /\ PrintMessage => IInv'
<1> SUFFICES ASSUME IInv, PrintMessage PROVE IInv'
  OBVIOUS
<1> DEFINE next == Handled + 1
<1>1. /\ TypeOK /\ HandledInOrder /\ ~Confirming /\ IsCommand(arguments)
      /\ rx_buff # <<>> /\ pc = "print"
  BY DEF IInv, PrintMessage, ClientOK, TypeOK
<1>2. /\ Len(confirmed) \in Nat /\ Len(printed) \in Nat /\ Len(answers) \in Nat
      /\ Len(Named) \in Nat /\ printed \in Seq(Lines) /\ Handled \in Nat
      /\ Len(confirmed) = Len(Named) /\ Handled = Len(confirmed) + Len(printed)
  <2>1. /\ Len(confirmed) \in Nat /\ Len(printed) \in Nat /\ Len(answers) \in Nat
        /\ Len(Named) \in Nat /\ Handled \in Nat
    BY <1>1, Lengths
  <2>2. Len(confirmed) <= Len(Named) /\ printed \in Seq(Lines) /\ ~(Len(confirmed) < Len(Named))
    BY <1>1 DEF TypeOK, Confirming
  <2> QED BY <2>1, <2>2 DEF Handled
<1>3. /\ next \in 1 .. Len(answers)
      /\ ExtractPayload(Marked(rx_buff)) = Line(answers[next])
      /\ Line(answers[next]) \in Lines
  <2>1. next \in 1 .. Len(answers) /\ Marked(rx_buff) = ReplyTo(answers[next], next)
    BY <1>1, FirstReply
  <2>2. CASE answers = <<Refusal>>
    <3>1. answers[next] = Refusal
      BY <2>1, <2>2
    <3>2. Marked(rx_buff) = ErrorValue("ERR")
      BY <2>1, <3>1 DEF ReplyTo, Refusal
    <3>3. Line(Refusal) \in Lines
      BY DEF Line, Lines, Refusal
    <3> QED BY <2>1, <3>1, <3>2, <3>3, RefusalSeen
  <2>3. CASE Accepted
    <3>1. next \in Len(Named) + 1 .. Len(answers)
      BY <1>2, <2>1
    <3>2. PICK channel \in Channels, payload \in Payloads :
            answers[next] = Published(channel, payload)
      BY <2>3, <3>1 DEF Accepted
    <3>3. Marked(rx_buff) = MessageReply(channel, payload)
      BY <2>1, <3>2 DEF ReplyTo, Published
    <3> QED BY <1>1, <2>1, <3>2, <3>3, MessageSeen
  <2>4. answers # <<>>
    BY <2>1
  <2> QED BY <2>2, <2>3, <2>4 DEF IInv, AnswersOK
<1> HIDE DEF next
<1>4. /\ printed' \in Seq(Lines) /\ Len(printed') = Len(printed) + 1
      /\ \A n \in 1 .. Len(printed) : printed'[n] = printed[n]
      /\ printed'[Len(printed) + 1] = Line(answers[next])
  <2>1. printed' = Append(printed, Line(answers[next]))
    BY <1>3 DEF PrintMessage
  <2> QED BY <1>2, <1>3, <2>1, AppendProperties
<1>5. Handled' = Handled + 1
  <2>1. confirmed' = confirmed
    BY DEF PrintMessage
  <2>2. Len(printed') = Len(printed) + 1
    BY <1>4
  <2> QED BY <1>2, <2>1, <2>2 DEF Handled
<1>6. rx_buff' \in Seq(Replies)' /\ InTransitOK' /\ AnswersOK' /\ ServerOK'
  <2>1. Takes
    BY <1>1, <1>5 DEF Takes, PrintMessage
  <2> QED BY <2>1, TakesOK
<1> USE DEF PrintMessage, server
<1>7. TypeOK'
  <2>1. Lines' = Lines
    BY DEF Lines, SomethingElse
  <2> QED BY <1>1, <1>4, <1>6, <2>1, SameCommand DEF TypeOK
<1>8. HandledInOrder'
  <2>1. /\ DOMAIN confirmed' = DOMAIN confirmed /\ confirmed' = confirmed /\ answers' = answers
        /\ DOMAIN printed' = 1 .. Len(printed')
    BY <1>4
  <2>2. /\ Len(printed') = Len(printed) + 1 /\ next = Len(confirmed) + Len(printed) + 1
        /\ next <= Len(answers)
    BY <1>2, <1>3, <1>4 DEF next
  <2>3. Len(confirmed) + Len(printed') <= Len(answers)
    BY <1>2, <2>2
  <2>4. \A n \in 1 .. Len(printed') : printed'[n] = Line(answers[Len(confirmed) + n])
    <3> SUFFICES ASSUME NEW n \in 1 .. Len(printed')
                 PROVE  printed'[n] = Line(answers[Len(confirmed) + n])
      OBVIOUS
    <3>1. CASE n = Len(printed) + 1
      <4>1. Len(confirmed) + n = next
        BY <1>2, <2>2, <3>1
      <4> QED BY <1>4, <3>1, <4>1
    <3>2. CASE n # Len(printed) + 1
      <4>1. n \in 1 .. Len(printed) /\ DOMAIN printed = 1 .. Len(printed)
        BY <1>2, <2>2, <3>2
      <4> QED BY <1>1, <1>4, <4>1 DEF HandledInOrder
    <3> QED BY <3>1, <3>2
  <2>5. \A n \in DOMAIN confirmed : answers[n] = Confirmation(confirmed[n])
    BY <1>1 DEF HandledInOrder
  <2> QED BY <2>1, <2>3, <2>4, <2>5, SameCommand DEF HandledInOrder
<1>9. ClientOK' /\ GivesUpOnlyWhenRefused'
  BY <1>1, SameCommand DEF ClientOK, Confirming, GivesUpOnlyWhenRefused
<1> QED BY <1>6, <1>7, <1>8, <1>9 DEF IInv

-----------------------------------------------------------------------------
\* The inductive invariant of a subscriber: what the server has sent and the
\* client has not handled is in the receive buffer and on its way, in order.
THEOREM SubscriptionInvariant == Spec => []IInv
<1>1. IInv /\ [Next]_vars => IInv'
  <2> SUFFICES ASSUME IInv, [Next]_vars PROVE IInv'
    OBVIOUS
  <2>1. CASE Serve
    BY <2>1, ServeIInv
  <2>2. CASE RefuseCommand
    BY <2>2, RefuseCommandIInv
  <2>3. CASE \E channel \in Channels, payload \in Payloads : Publish(channel, payload)
    BY <2>3, PublishIInv
  <2>4. CASE Disconnect
    BY <2>4, DisconnectIInv
  <2>5. CASE WriteCommand
    BY <2>5, WriteCommandIInv
  <2>6. CASE Read
    BY <2>6, ReadIInv
  <2>7. CASE ReadFails
    BY <2>7, ReadFailsIInv
  <2>8. CASE Confirm
    BY <2>8, ConfirmIInv
  <2>9. CASE NotConfirmed
    BY <2>9, NotConfirmedIInv
  <2>10. CASE PrintMessage
    BY <2>10, PrintMessageIInv
  <2>11. CASE UNCHANGED vars
    BY <2>11, StutterIInv
  <2> QED BY <2>1, <2>2, <2>3, <2>4, <2>5, <2>6, <2>7, <2>8, <2>9, <2>10, <2>11
          DEF Next, ServerNext, ClientNext
<1> QED BY <1>1, InitIInv, PTL DEF Spec

\* The markers that the client uses always lead to a reply in its buffer.
THEOREM SubscriptionTypeCorrect == Spec => []TypeOK
<1>1. IInv => TypeOK
  BY DEF IInv
<1> QED BY <1>1, SubscriptionInvariant, PTL

\* A subscriber handles what the server sends once each, in order.
THEOREM SubscriberHandlesInOrder == Spec => []HandledInOrder
<1>1. IInv => HandledInOrder
  BY DEF IInv
<1> QED BY <1>1, SubscriptionInvariant, PTL

\* A subscriber that names no channel twice gives up only when it is refused.
THEOREM SubscriberGivesUpOnlyWhenRefused == Spec => []GivesUpOnlyWhenRefused
<1>1. IInv => GivesUpOnlyWhenRefused
  BY DEF IInv
<1> QED BY <1>1, SubscriptionInvariant, PTL

\* A subscriber that listens is subscribed to all it named: had the command
\* been refused or not answered yet, nothing would be confirmed.
THEOREM SubscriberIsSubscribed == Spec => []ListeningMeansSubscribed
<1>1. IInv => ListeningMeansSubscribed
  <2> SUFFICES ASSUME IInv, ~Confirming, online
               PROVE  subscribed = Range(Named)
    BY DEF ListeningMeansSubscribed
  <2>1. /\ TypeOK /\ AnswersOK /\ ServerOK /\ HandledInOrder
        /\ subscribed \subseteq Range(Named)
    BY DEF IInv, TypeOK
  <2>2. /\ Len(confirmed) \in Nat /\ Len(Named) \in Nat /\ Len(confirmed) >= Len(Named)
        /\ Len(answers) \in Nat /\ Len(printed) \in Nat /\ Named \in Seq(Channels)
    BY <2>1, Lengths DEF Confirming
  <2>3. CASE Len(Named) = 0
    <3>1. Named = <<>>
      BY <2>2, <2>3
    <3>2. DOMAIN Named = {}
      BY <3>1
    <3>3. Range(Named) = {}
      BY <3>2 DEF Range
    <3> QED BY <2>1, <3>3
  <2>4. CASE Len(Named) # 0
    <3>1. 1 \in DOMAIN confirmed
      BY <2>1, <2>2, <2>4 DEF TypeOK
    <3>2. answers[1] = Confirmation(confirmed[1])
      BY <2>1, <3>1 DEF HandledInOrder
    <3>3. Len(answers) >= 1
      BY <2>1, <2>2, <2>4 DEF HandledInOrder
    <3>4. answers # <<>> /\ answers # <<Refusal>>
      <4>1. answers # <<>>
        BY <3>3
      <4>2. answers = <<Refusal>> => Refusal = Confirmation(confirmed[1])
        BY <3>2
      <4> QED BY <4>1, <4>2 DEF Refusal, Confirmation
    <3> QED BY <2>1, <3>4 DEF AnswersOK, ServerOK
  <2> QED BY <2>3, <2>4
<1> QED BY <1>1, SubscriptionInvariant, PTL
-----------------------------------------------------------------------------
(* The vocabulary of a publish/subscribe connection.                        *)

\* check_subscription lets nothing pass that is not a confirmation of the
\* command's own kind, of the channel that its count stands for.
THEOREM ConfirmationsOnly == Spec => []OnlyConfirmationsPass
<1>1. IInv => OnlyConfirmationsPass
  <2> SUFFICES ASSUME IInv, NEW word \in Words, NEW channel \in Channels, NEW last \in Lasts,
                      NEW behind \in BOOLEAN,
                      CheckSubscription(Said(word, channel, last), arguments, behind)
               PROVE  /\ word = Word(Name)
                      /\ \E n \in DOMAIN Named : channel = Named[n] /\ last = IntValue(<<n>>)
    BY DEF OnlyConfirmationsPass
  <2> DEFINE reply == Said(word, channel, last)
             n == Head(last.text)
  <2>1. /\ Name \in Names /\ Name = arguments[1] /\ Named \in Seq(Channels)
        /\ Len(arguments) = Len(Named) + 1
        /\ \A m \in 1 .. Len(Named) : arguments[m + 1] = Named[m]
    BY ChannelsNamed DEF IInv, TypeOK, Name
  <2>2. /\ reply.elements[1].text = word /\ reply.elements[2] = StringValue(channel)
        /\ reply.elements[3] = last
    BY DEF Said, ArrayValue, StringValue
  <2> HIDE DEF reply
  <2>3. /\ EqualCommand(word, Name, behind) /\ last.type = "int" /\ last.text # <<>>
        /\ n >= 1 /\ n < Len(arguments) /\ StringValue(channel) = StringValue(arguments[n + 1])
    BY <2>1, <2>2 DEF CheckSubscription, reply
  <2>4. word = Word(Name)
    <3>1. ~Differ(word, Name)
      BY <2>3 DEF Differ, EqualCommand
    <3> QED BY <2>1, <3>1, VocabularyAssumption
  <2>5. PICK k \in 0 .. Len(arguments) : last = IntValue(<<k>>)
    BY <2>3 DEF Lasts, IntValue, StringValue
  <2>6. n = k
    BY <2>5 DEF IntValue
  <2>7. channel = arguments[n + 1]
    BY <2>3 DEF StringValue
  <2>8. n \in DOMAIN Named /\ channel = Named[n]
    BY <2>1, <2>3, <2>5, <2>6, <2>7
  <2> QED BY <2>4, <2>5, <2>6, <2>8
<1> QED BY <1>1, SubscriptionInvariant, PTL
=============================================================================
