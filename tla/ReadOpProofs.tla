---------------------------- MODULE ReadOpProofs ----------------------------
(***************************************************************************)
(* Proofs about ReadOp, for all streams, parsers that frame them, reply    *)
(* counts and buffer limits.  They rest on the assumptions of ReadOp and   *)
(* on the two conditions of use, CountsPositive and RepliesFitInt, which   *)
(* every theorem that needs them names.                                    *)
(***************************************************************************)
EXTENDS ReadOpInvariant, TLAPS

-----------------------------------------------------------------------------
(* Lemmas about streams and what the parser finds in them.                  *)

\* Every reply has bytes, and ends where the next one starts.
LEMMA StreamsDivided ==
  \A s \in Streams :
    /\ Len(s.bytes) \in Nat
    /\ Len(s.ends) \in Nat
    /\ \A k \in 0 .. Len(s.ends) : End(s, k) \in 0 .. Len(s.bytes)
    /\ \A k \in 0 .. Len(s.ends) : \A j \in 0 .. k - 1 : End(s, j) < End(s, k)
BY StreamsAssumption DEF Divided

\* The parser finds the replies of a stream, and nothing behind them.
LEMMA ParserFrames ==
  \A s \in Streams, policy \in Policies :
    /\ \A k \in 0 .. Len(s.ends) - 1 : \A to \in End(s, k) .. Len(s.bytes) :
         LET verdict == ParseOf(policy, Window(s, End(s, k), to)) IN
         IF to < End(s, k + 1)
         THEN verdict.kind = "not_enough_data"
         ELSE verdict.kind = "positive" /\ verdict.consumed = End(s, k + 1) - End(s, k)
    /\ \A to \in End(s, Len(s.ends)) .. Len(s.bytes) :
         LET rest == Window(s, End(s, Len(s.ends)), to) IN
         /\ ParseOf(policy, rest).kind \in {"not_enough_data", "protocol_error"}
         /\ ParseOf(policy, rest).kind = ParseOf("drop_result", rest).kind
BY FramingAssumption DEF Framed

\* The replies of a stream lie one behind the other inside its bytes.
LEMMA EndsInStream ==
  ASSUME NEW s \in Streams, NEW k \in 0 .. Len(s.ends)
  PROVE  /\ Len(s.bytes) \in Nat /\ Len(s.ends) \in Nat
         /\ End(s, k) \in Nat /\ End(s, k) <= Len(s.bytes)
         /\ \A j \in 0 .. k : End(s, j) \in Nat /\ End(s, j) <= End(s, k)
         /\ \A j \in 0 .. k - 1 : End(s, j) < End(s, k)
<1>1. /\ Len(s.bytes) \in Nat /\ Len(s.ends) \in Nat
      /\ \A j \in 0 .. Len(s.ends) : End(s, j) \in 0 .. Len(s.bytes)
      /\ \A j \in 0 .. k - 1 : End(s, j) < End(s, k)
  BY StreamsDivided
<1>2. ASSUME NEW j \in 0 .. k PROVE End(s, j) \in Nat /\ End(s, j) <= End(s, k)
  <2>1. CASE j = k
    BY <1>1, <2>1
  <2>2. CASE j # k
    <3>1. j \in 0 .. k - 1 /\ j \in 0 .. Len(s.ends)
      BY <1>1, <2>2
    <3> QED BY <1>1, <3>1
  <2> QED BY <2>1, <2>2
<1> QED BY <1>1, <1>2

\* At the start of a reply that has arrived the parser accepts that reply.
LEMMA ParsesArrived ==
  ASSUME NEW s \in Streams, NEW policy \in Policies,
         NEW k \in 0 .. Len(s.ends), k < Len(s.ends),
         NEW to \in 0 .. Len(s.bytes), End(s, k + 1) <= to
  PROVE  LET verdict == ParseOf(policy, Window(s, End(s, k), to)) IN
         verdict.kind = "positive" /\ verdict.consumed = End(s, k + 1) - End(s, k)
<1>1. k + 1 \in 0 .. Len(s.ends) /\ k \in 0 .. Len(s.ends) - 1
  BY EndsInStream
<1>2. End(s, k) < End(s, k + 1) /\ End(s, k) \in Nat /\ End(s, k + 1) \in Nat
  BY <1>1, EndsInStream
<1>3. to \in End(s, k) .. Len(s.bytes) /\ ~(to < End(s, k + 1))
  BY <1>2
<1> QED BY <1>1, <1>3, ParserFrames

\* At the start of a reply that has not arrived it asks for more data.
LEMMA ParsesPartly ==
  ASSUME NEW s \in Streams, NEW policy \in Policies,
         NEW k \in 0 .. Len(s.ends), k < Len(s.ends),
         NEW to \in 0 .. Len(s.bytes), End(s, k) <= to, to < End(s, k + 1)
  PROVE  ParseOf(policy, Window(s, End(s, k), to)).kind = "not_enough_data"
<1>1. k \in 0 .. Len(s.ends) - 1 /\ to \in End(s, k) .. Len(s.bytes)
  BY EndsInStream
<1> QED BY <1>1, ParserFrames

\* Behind the last reply it accepts nothing, and both policies agree.
LEMMA ParsesRest ==
  ASSUME NEW s \in Streams, NEW policy \in Policies,
         NEW to \in 0 .. Len(s.bytes), End(s, Len(s.ends)) <= to
  PROVE  LET rest == Window(s, End(s, Len(s.ends)), to) IN
         /\ ParseOf(policy, rest).kind \in {"not_enough_data", "protocol_error"}
         /\ ParseOf(policy, rest).kind = ParseOf("drop_result", rest).kind
<1>1. Len(s.ends) \in 0 .. Len(s.ends)
  BY StreamsDivided
<1>2. to \in End(s, Len(s.ends)) .. Len(s.bytes)
  BY <1>1, EndsInStream
<1> QED BY <1>2, ParserFrames

\* What an iteration of MatchResult finds: the next reply, in full; that some
\* of it is missing; or, behind the last reply, bytes that are refused.
LEMMA ConsumableFound ==
  ASSUME TypeOK, BufferAtReply, MatchOK, pc = "match", RepliesFitInt
  PROVE  \/ /\ InBuffer(matched + 1)
            /\ Consumable = End(stream, taken + matched + 1) - at
            /\ Consumable \in Nat \ {0}
         \/ ~InBuffer(matched + 1) /\ Consumable = 0
         \/ /\ taken + matched = Len(stream.ends) /\ ~InBuffer(matched + 1)
            /\ Consumable = -1
            /\ ParseOf("drop_result", Window(stream, at, received)).kind = "protocol_error"
<1> DEFINE k == taken + matched
           verdict == ParseOf("drop_result", Window(stream, at, received))
<1>1. /\ stream \in Streams /\ k \in 0 .. Len(stream.ends) /\ Len(stream.ends) \in Nat
      /\ Len(stream.bytes) \in Nat /\ received \in 0 .. Len(stream.bytes)
      /\ at = End(stream, k) /\ at <= received /\ "drop_result" \in Policies
      /\ taken \in Nat /\ matched \in Nat
  BY StreamsDivided DEF TypeOK, MatchOK, Policies
<1> HIDE DEF k
<1>2. CASE k < Len(stream.ends) /\ End(stream, k + 1) <= received
  <2>1. k + 1 \in 1 .. Len(stream.ends) /\ k + 1 \in 0 .. Len(stream.ends)
    BY <1>1, <1>2
  <2>2. verdict.kind = "positive" /\ verdict.consumed = End(stream, k + 1) - at
    BY <1>1, <1>2, ParsesArrived
  <2>3. End(stream, k + 1) \in Nat /\ End(stream, k) \in Nat /\ End(stream, k) < End(stream, k + 1)
    BY <1>1, <2>1, EndsInStream
  <2>4. End(stream, k + 1) - End(stream, k + 1 - 1) <= IntMax
    BY <1>1, <2>1 DEF RepliesFitInt
  <2>5. Consumable = End(stream, k + 1) - at
    BY <1>1, <2>2, <2>4 DEF Consumable, ToInt
  <2>6. InBuffer(matched + 1)
    BY <1>1, <1>2 DEF InBuffer, Sent, k
  <2> QED BY <1>1, <2>3, <2>5, <2>6 DEF k
<1>3. CASE k < Len(stream.ends) /\ received < End(stream, k + 1)
  <2>1. verdict.kind = "not_enough_data"
    BY <1>1, <1>3, ParsesPartly
  <2>2. Consumable = 0
    BY <2>1 DEF Consumable
  <2>3. ~InBuffer(matched + 1)
    <3>1. taken + (matched + 1) = k + 1
      BY <1>1 DEF k
    <3>2. End(stream, k + 1) \in Nat
      BY <1>1, <1>3, EndsInStream
    <3> QED BY <1>1, <1>3, <3>1, <3>2 DEF InBuffer
  <2> QED BY <2>2, <2>3
<1>4. CASE k = Len(stream.ends)
  <2>1. verdict.kind \in {"not_enough_data", "protocol_error"}
    BY <1>1, <1>4, ParsesRest
  <2>2. ~InBuffer(matched + 1)
    BY <1>1, <1>4 DEF InBuffer, Sent, k
  <2>3. CASE verdict.kind = "not_enough_data"
    BY <2>2, <2>3 DEF Consumable
  <2>4. CASE verdict.kind = "protocol_error"
    BY <1>4, <2>2, <2>4 DEF Consumable, k
  <2> QED BY <2>1, <2>3, <2>4
<1>5. k + 1 \in 0 .. Len(stream.ends) => End(stream, k + 1) \in Nat
  BY <1>1, EndsInStream
<1> QED BY <1>1, <1>2, <1>3, <1>4, <1>5

\* An answer of n replies has arrived only when each of them has.
LEMMA InBufferMonotone ==
  ASSUME TypeOK, NEW m \in Nat, NEW n \in Nat, m <= n, InBuffer(n)
  PROVE  InBuffer(m)
<1>1. /\ stream \in Streams /\ taken \in Nat /\ taken + n \in 0 .. Len(stream.ends)
      /\ taken + m \in 0 .. taken + n /\ received \in Nat
      /\ Len(stream.ends) \in Nat /\ Len(stream.bytes) \in Nat
  BY StreamsDivided DEF TypeOK, InBuffer, Sent
<1>2. End(stream, taken + m) <= End(stream, taken + n)
      /\ End(stream, taken + m) \in Nat /\ End(stream, taken + n) \in Nat
  BY <1>1, EndsInStream
<1> QED BY <1>1, <1>2 DEF InBuffer, Sent

\* The next n + 1 replies are the next n and the one behind them.
LEMMA NextRepliesAppend ==
  ASSUME TypeOK, NEW n \in Nat, taken + n + 1 <= Len(stream.ends)
  PROVE  /\ NextReplies(n + 1) =
              Append(NextReplies(n), <<End(stream, taken + n), End(stream, taken + n + 1)>>)
         /\ NextReplies(n) \in Seq(Nat \X Nat)
<1>1. stream \in Streams /\ taken \in Nat /\ Len(stream.ends) \in Nat
  BY StreamsDivided DEF TypeOK
<1>2. \A k \in 0 .. Len(stream.ends) : End(stream, k) \in Nat
  BY <1>1, EndsInStream
<1>3. NextReplies(n) \in Seq(Nat \X Nat)
  <2>1. \A i \in 1 .. n : <<End(stream, taken + i - 1), End(stream, taken + i)>> \in Nat \X Nat
    BY <1>1, <1>2
  <2> QED BY <2>1 DEF NextReplies
<1>4. NextReplies(n + 1) =
        Append(NextReplies(n), <<End(stream, taken + n), End(stream, taken + n + 1)>>)
  <2> DEFINE span(i) == <<End(stream, taken + i - 1), End(stream, taken + i)>>
  <2>1. NextReplies(n) = [i \in 1 .. n |-> span(i)]
        /\ NextReplies(n + 1) = [i \in 1 .. n + 1 |-> span(i)]
    BY DEF NextReplies
  <2>2. span(n + 1) = <<End(stream, taken + n), End(stream, taken + n + 1)>>
    BY <1>1
  <2> HIDE DEF span
  <2>3. Append([i \in 1 .. n |-> span(i)], span(n + 1)) = [i \in 1 .. n + 1 |-> span(i)]
    OBVIOUS
  <2> QED BY <2>1, <2>2, <2>3
<1> QED BY <1>3, <1>4

-----------------------------------------------------------------------------
(* The invariant holds initially and every action preserves it.             *)

\* A new connection, with nothing received and no operation, satisfies IInv.
LEMMA InitIInv == Init => IInv
<1> SUFFICES ASSUME Init PROVE IInv
  OBVIOUS
<1>1. stream \in Streams /\ Len(stream.bytes) \in Nat /\ Len(stream.ends) \in Nat
  BY StreamsDivided DEF Init
<1>2. TypeOK
  <2>1. op \in [kind : {"none", "async", "sync"}, replies_count : Nat, policy : Policies]
    BY DEF Init, NoOperation, Policies
  <2>2. tmp_results \in Seq(Nat \X Nat)
    BY DEF Init
  <2>3. result \in [status : Statuses, ec : Codes, consumed : Nat,
                    shape : {"none", "single", "array"}, replies : Seq(Nat \X Nat)]
    <3>1. <<>> \in Seq(Nat \X Nat)
      OBVIOUS
    <3> QED BY <3>1 DEF Init, NoResult, Statuses, Codes
  <2>4. closed \in BOOLEAN /\ ec \in {"none"} \cup ReadErrors
    BY DEF Init
  <2>5. /\ received \in 0 .. Len(stream.bytes) /\ base \in 0 .. received
        /\ taken \in 0 .. Len(stream.ends)
    BY <1>1 DEF Init
  <2>6. at \in Nat /\ matched \in Nat /\ begin \in Nat /\ count \in Nat /\ cumulative \in Nat
    BY DEF Init
  <2> QED BY <1>1, <2>1, <2>2, <2>3, <2>4, <2>5, <2>6 DEF Init, TypeOK
<1>3. BufferAtReply
  BY DEF Init, BufferAtReply, End
<1>4. NoAbort /\ OperationOK /\ MatchOK /\ WaitOK /\ ErrorOK /\ ParseOK
  BY DEF Init, NoAbort, OperationOK, MatchOK, WaitOK, ErrorOK, ParseOK
<1>5. SuccessExact /\ FailureJustified
  BY DEF Init, SuccessExact, FailureJustified
<1> QED BY <1>2, <1>3, <1>4, <1>5 DEF IInv

\* A new operation starts where the client consumed to, at the next reply.
LEMMA StartIInv ==
  ASSUME IInv, NEW kind \in {"async", "sync"}, NEW n \in Nat, n >= 1,
         NEW policy \in Policies, Start(kind, n, policy)
  PROVE  IInv'
<1>1. TypeOK'
  BY DEF IInv, TypeOK, Start
<1>2. BufferAtReply' /\ NoAbort' /\ OperationOK'
  BY DEF IInv, TypeOK, Start, BufferAtReply, NoAbort, OperationOK
<1>3. MatchOK'
  BY DEF IInv, TypeOK, Start, BufferAtReply, MatchOK
<1>4. WaitOK' /\ ErrorOK' /\ ParseOK' /\ SuccessExact' /\ FailureJustified'
  BY DEF Start, WaitOK, ErrorOK, ParseOK, SuccessExact, FailureJustified
<1> QED BY <1>1, <1>2, <1>3, <1>4 DEF IInv

\* MatchResult goes on to the next reply, or ends behind the last one.
LEMMA MatchReplyIInv ==
  ASSUME IInv, MatchReply, RepliesFitInt
  PROVE  IInv'
<1>1. TypeOK /\ BufferAtReply /\ MatchOK /\ pc = "match" /\ OperationOK
  BY DEF IInv, MatchReply
<1>2. /\ InBuffer(matched + 1)
      /\ Consumable = End(stream, taken + matched + 1) - at
      /\ Consumable \in Nat \ {0}
  BY <1>1, ConsumableFound DEF MatchReply
<1>3. /\ stream \in Streams /\ taken \in Nat /\ matched \in Nat /\ at \in Nat
      /\ received \in Nat /\ base \in Nat /\ Len(stream.ends) \in Nat
      /\ op.replies_count \in Nat /\ matched + 1 <= op.replies_count
      /\ taken + (matched + 1) <= Len(stream.ends)
      /\ taken + (matched + 1) = taken + matched + 1
      /\ at >= base
      /\ End(stream, taken + (matched + 1)) \in Nat
  <2>1. taken \in 0 .. taken + matched /\ taken + matched \in 0 .. Len(stream.ends)
    BY <1>1, StreamsDivided DEF TypeOK, MatchOK
  <2>2. End(stream, taken) <= End(stream, taken + matched)
    BY <1>1, <2>1, EndsInStream DEF TypeOK
  <2>3. taken + (matched + 1) \in 0 .. Len(stream.ends)
    BY <1>1, <1>2, StreamsDivided DEF TypeOK, InBuffer, Sent
  <2>4. End(stream, taken + (matched + 1)) \in Nat
    BY <1>1, <2>3, EndsInStream DEF TypeOK
  <2> QED BY <1>1, <1>2, <2>2, <2>4, StreamsDivided, SMTT(40)
          DEF TypeOK, MatchOK, InBuffer, Sent, BufferAtReply
<1>4. /\ matched' = matched + 1
      /\ at' = End(stream, taken + matched') /\ at' <= received /\ at' > base
      /\ pc' = IF matched' = op.replies_count THEN "parse" ELSE "match"
      /\ UNCHANGED <<stream, closed, received, base, taken, op, ec, begin, count,
                     cumulative, tmp_results, result>>
  <2>1. at' = End(stream, taken + (matched + 1)) /\ matched' = matched + 1
    BY <1>2, <1>3 DEF MatchReply
  <2>2. at' <= received /\ at' > base
    BY <1>2, <1>3, <2>1 DEF InBuffer, MatchReply
  <2> QED BY <1>3, <2>1, <2>2 DEF MatchReply, visitor
<1>5. TypeOK'
  <2>1. at' \in Nat /\ matched' \in Nat
    BY <1>3, <1>4
  <2>2. pc' \in {"match", "parse"}
    BY <1>4
  <2> QED BY <1>1, <1>4, <2>1, <2>2 DEF TypeOK
<1>6. BufferAtReply' /\ NoAbort' /\ OperationOK'
  BY <1>1, <1>4 DEF BufferAtReply, NoAbort, OperationOK
<1>7. MatchOK'
  BY <1>1, <1>3, <1>4 DEF MatchOK
<1>8. ParseOK'
  <2> SUFFICES ASSUME pc' = "parse" PROVE
        /\ count < op.replies_count /\ count <= matched'
        /\ taken + matched' <= Len(stream.ends)
        /\ End(stream, taken + matched') <= received
        /\ begin = End(stream, taken + count)
        /\ cumulative = begin - base
        /\ tmp_results = NextReplies(count)
        /\ matched' = op.replies_count
    BY <1>4 DEF ParseOK, MatchEnded, NextReplies
  <2>1. count = 0 /\ begin = base /\ cumulative = 0 /\ tmp_results = <<>>
    BY <1>1 DEF MatchOK
  <2>2. NextReplies(0) = <<>>
    BY DEF NextReplies
  <2> QED BY <1>1, <1>3, <1>4, <2>1, <2>2 DEF BufferAtReply
<1>9. WaitOK' /\ ErrorOK' /\ SuccessExact' /\ FailureJustified'
  BY <1>1, <1>4 DEF WaitOK, ErrorOK, SuccessExact, FailureJustified, MatchOK
<1> QED BY <1>5, <1>6, <1>7, <1>8, <1>9 DEF IInv

\* MatchResult has not found all replies: read_until waits, or gives up.
LEMMA MatchNeedsDataIInv ==
  ASSUME IInv, MatchNeedsData, RepliesFitInt
  PROVE  IInv'
<1>1. TypeOK /\ BufferAtReply /\ MatchOK /\ pc = "match" /\ OperationOK
  BY DEF IInv, MatchNeedsData
<1>2. ~InBuffer(matched + 1)
  BY <1>1, ConsumableFound DEF MatchNeedsData
<1>3. ~InBuffer(op.replies_count)
  <2>1. matched + 1 \in Nat /\ op.replies_count \in Nat /\ matched + 1 <= op.replies_count
    BY <1>1 DEF TypeOK, MatchOK
  <2> QED BY <1>1, <1>2, <2>1, InBufferMonotone
<1>4. UNCHANGED <<stream, closed, received, base, taken, op, at, matched, begin, count,
                  cumulative, tmp_results, result>>
  BY DEF MatchNeedsData, matching, visitor
<1>5. \/ pc' = "wait" /\ ec' = ec
      \/ pc' = "parse" /\ ec' = "not_found" /\ ~(Size < MaxSize)
  BY DEF MatchNeedsData
<1>6. TypeOK'
  BY <1>1, <1>4, <1>5 DEF TypeOK, ReadErrors
<1>7. BufferAtReply' /\ NoAbort' /\ OperationOK' /\ MatchOK'
  BY <1>1, <1>4, <1>5 DEF BufferAtReply, NoAbort, OperationOK, MatchOK
<1>8. WaitOK' /\ ErrorOK'
  <2>1. Size >= MaxSize <=> ~(Size < MaxSize)
    BY <1>1, ConstantsAssumption DEF TypeOK, Size
  <2> QED BY <1>1, <1>2, <1>3, <1>4, <1>5, <2>1
          DEF WaitOK, ErrorOK, InBuffer, Sent, Size, MatchOK
<1>9. ParseOK' /\ SuccessExact' /\ FailureJustified'
  BY <1>1, <1>4, <1>5 DEF ParseOK, SuccessExact, FailureJustified, MatchOK
<1> QED BY <1>6, <1>7, <1>8, <1>9 DEF IInv

\* MatchResult stops at bytes that are refused, behind the last reply.
LEMMA MatchErrorIInv ==
  ASSUME IInv, MatchError, RepliesFitInt
  PROVE  IInv'
<1>1. TypeOK /\ BufferAtReply /\ MatchOK /\ pc = "match" /\ OperationOK
  BY DEF IInv, MatchError
<1>2. /\ taken + matched = Len(stream.ends)
      /\ ParseOf("drop_result", Window(stream, at, received)).kind = "protocol_error"
  BY <1>1, ConsumableFound DEF MatchError
<1>3. /\ pc' = "parse"
      /\ UNCHANGED <<stream, closed, received, base, taken, op, at, matched, ec, begin,
                     count, cumulative, tmp_results, result>>
  BY DEF MatchError, matching, visitor
<1>4. TypeOK'
  BY <1>1, <1>3 DEF TypeOK
<1>5. BufferAtReply' /\ NoAbort' /\ OperationOK' /\ MatchOK' /\ WaitOK'
  BY <1>1, <1>3 DEF BufferAtReply, NoAbort, OperationOK, MatchOK, WaitOK
<1>6. ParseOK'
  <2>1. NextReplies(0) = <<>> /\ taken + 0 = taken
    BY <1>1 DEF NextReplies, TypeOK
  <2>2. MatchEnded
    BY <1>1, <1>2 DEF MatchEnded, MatchOK
  <2>3. MatchEnded' /\ NextReplies(count)' = NextReplies(count)
    BY <1>3, <2>2 DEF MatchEnded, NextReplies
  <2> QED BY <1>1, <1>3, <2>1, <2>3 DEF ParseOK, MatchOK, BufferAtReply, TypeOK
<1>7. ErrorOK' /\ SuccessExact' /\ FailureJustified'
  BY <1>1, <1>3 DEF ErrorOK, SuccessExact, FailureJustified, MatchOK
<1> QED BY <1>4, <1>5, <1>6, <1>7 DEF IInv

\* More bytes arrive: MatchResult resumes where it stood.
LEMMA DeliverIInv ==
  ASSUME IInv, NEW bytes \in 1 .. MaxSize, Deliver(bytes)
  PROVE  IInv'
<1>1. TypeOK /\ BufferAtReply /\ MatchOK /\ pc = "wait" /\ OperationOK
  BY DEF IInv, Deliver
<1>2. /\ received' = received + bytes /\ received' \in 0 .. Len(stream.bytes)
      /\ received \in Nat /\ base \in 0 .. received' /\ received <= received'
  BY <1>1, StreamsDivided, ConstantsAssumption DEF Deliver, TypeOK
<1>3. /\ pc' = "match"
      /\ UNCHANGED <<stream, closed, base, taken, op, at, matched, ec, begin, count,
                     cumulative, tmp_results, result>>
  BY DEF Deliver, matching, visitor
<1>4. TypeOK'
  BY <1>1, <1>2, <1>3 DEF TypeOK
<1>5. MatchOK'
  BY <1>1, <1>2, <1>3 DEF MatchOK, TypeOK
<1>6. BufferAtReply' /\ NoAbort' /\ OperationOK' /\ WaitOK' /\ ErrorOK' /\ ParseOK'
  BY <1>1, <1>3 DEF BufferAtReply, NoAbort, OperationOK, WaitOK, ErrorOK, ParseOK
<1>7. SuccessExact' /\ FailureJustified'
  BY <1>3 DEF SuccessExact, FailureJustified
<1> QED BY <1>4, <1>5, <1>6, <1>7 DEF IInv

\* What the invariant says does not depend on whether the peer has closed.
LEMMA PeerCloseIInv ==
  ASSUME IInv, closed' \in BOOLEAN,
         UNCHANGED <<stream, received, base, taken, pc, op, at, matched, ec, begin, count,
                     cumulative, tmp_results, result>>
  PROVE  IInv'
<1>1. TypeOK'
  BY DEF IInv, TypeOK
<1>2. (BufferAtReply /\ NoAbort /\ OperationOK /\ MatchOK /\ WaitOK /\ ErrorOK)'
  BY DEF IInv, BufferAtReply, NoAbort, RoomForReplies, OperationOK, MatchOK, WaitOK, ErrorOK,
         InBuffer, Sent, Size
<1>3. ParseOK'
  BY DEF IInv, ParseOK, NextReplies, MatchEnded
<1>4. SuccessExact' /\ FailureJustified'
  BY DEF IInv, SuccessExact, FailureJustified, InBuffer, Sent, Size, NextReplies
<1> QED BY <1>1, <1>2, <1>3, <1>4 DEF IInv

\* A read that waits has not received its answer, so nothing is lost when it
\* ends; at the end of the stream there is no answer to come.
LEMMA ReadFailsIInv ==
  ASSUME IInv, Eof \/ Cancel
  PROVE  IInv'
<1>1. TypeOK /\ BufferAtReply /\ MatchOK /\ WaitOK /\ pc = "wait" /\ OperationOK
  BY DEF IInv, Eof, Cancel, ReadFails
<1>2. ~InBuffer(op.replies_count)
  <2>1. matched + 1 \in Nat /\ op.replies_count \in Nat /\ matched + 1 <= op.replies_count
    BY <1>1 DEF TypeOK, MatchOK
  <2> QED BY <1>1, <2>1, InBufferMonotone DEF WaitOK
<1>3. UNCHANGED <<stream, closed, received, base, taken, op, at, matched, begin, count,
                  cumulative, tmp_results, result>> /\ pc' = "parse"
  BY DEF Eof, Cancel, ReadFails, matching, visitor
<1>4. \/ ec' = "operation_aborted"
      \/ ec' = "eof" /\ received = Len(stream.bytes)
  BY DEF Eof, Cancel, ReadFails
<1>5. ec' = "eof" => ~Sent(op.replies_count)
  <2> SUFFICES ASSUME received = Len(stream.bytes), Sent(op.replies_count) PROVE FALSE
    BY <1>4
  <2>1. taken + op.replies_count \in 0 .. Len(stream.ends)
    BY <1>1, StreamsDivided DEF Sent, TypeOK
  <2>2. End(stream, taken + op.replies_count) <= Len(stream.bytes)
    BY <1>1, <2>1, EndsInStream DEF TypeOK
  <2> QED BY <1>2, <2>2 DEF InBuffer
<1>6. TypeOK'
  BY <1>1, <1>3, <1>4 DEF TypeOK, ReadErrors
<1>7. BufferAtReply' /\ NoAbort' /\ OperationOK' /\ MatchOK' /\ WaitOK'
  BY <1>1, <1>3 DEF BufferAtReply, NoAbort, OperationOK, MatchOK, WaitOK
<1>8. ErrorOK'
  BY <1>2, <1>3, <1>4, <1>5 DEF ErrorOK, InBuffer, Sent
<1>9. ParseOK' /\ SuccessExact' /\ FailureJustified'
  BY <1>3, <1>4 DEF ParseOK, SuccessExact, FailureJustified
<1> QED BY <1>6, <1>7, <1>8, <1>9 DEF IInv

\* The fields of the result that goes with an error code.
LEMMA FailureFields ==
  ASSUME NEW code \in Codes
  PROVE  /\ Failure(code).status = "error" /\ Failure(code).ec = code
         /\ Failure(code).consumed = 0 /\ Failure(code).replies = <<>>
         /\ Failure(code) \in [status : Statuses, ec : Codes, consumed : Nat,
              shape : {"none", "single", "array"}, replies : Seq(Nat \X Nat)]
<1>1. <<>> \in Seq(Nat \X Nat)
  OBVIOUS
<1> QED BY <1>1 DEF Failure, NoResult, Statuses

\* The read error is handed on, with nothing to consume.
LEMMA OpErrorIInv ==
  ASSUME IInv, OpError
  PROVE  IInv'
<1>1. TypeOK /\ BufferAtReply /\ ErrorOK /\ pc = "parse" /\ ec # "none" /\ OperationOK
  BY DEF IInv, OpError
<1>2. /\ pc' = "done" /\ result' = Failure(ec)
      /\ UNCHANGED <<stream, closed, received, base, taken, op, at, matched, ec, begin,
                     count, cumulative, tmp_results>>
  BY DEF OpError, matching, visitor
<1>3. ec \in Codes /\ ec # "protocol_error"
  BY <1>1 DEF TypeOK, Codes, ReadErrors
<1>4. TypeOK'
  BY <1>1, <1>2, <1>3, FailureFields DEF TypeOK
<1>5. BufferAtReply' /\ NoAbort' /\ OperationOK' /\ MatchOK' /\ WaitOK' /\ ErrorOK' /\ ParseOK'
  BY <1>1, <1>2, <1>3, FailureFields
     DEF BufferAtReply, NoAbort, OperationOK, MatchOK, WaitOK, ErrorOK, ParseOK
<1>6. FailureJustified' /\ SuccessExact'
  BY <1>1, <1>2, <1>3, FailureFields
     DEF ErrorOK, FailureJustified, SuccessExact, InBuffer, Sent, Size
<1> QED BY <1>4, <1>5, <1>6 DEF IInv

\* What op() finds: each reply that MatchResult matched, and behind them the
\* bytes that MatchResult refused; never that data is missing.
LEMMA ParseFound ==
  ASSUME TypeOK, BufferAtReply, ParseOK, pc = "parse", ec = "none"
  PROVE  \/ /\ count < matched
            /\ ParseResult.kind = "positive"
            /\ ParseResult.consumed = End(stream, taken + count + 1) - begin
            /\ begin \in Nat /\ End(stream, taken + count + 1) \in Nat
            /\ begin < End(stream, taken + count + 1)
            /\ taken + (count + 1) <= Len(stream.ends)
            /\ End(stream, taken + count + 1) <= received
         \/ ParseResult.kind = "protocol_error" /\ ~Sent(op.replies_count)
<1>1. /\ stream \in Streams /\ taken \in Nat /\ count \in Nat /\ matched \in Nat
      /\ Len(stream.ends) \in Nat /\ Len(stream.bytes) \in Nat
      /\ received \in 0 .. Len(stream.bytes) /\ op.policy \in Policies
      /\ op.replies_count \in Nat
      /\ count <= matched /\ taken + matched \in 0 .. Len(stream.ends)
      /\ End(stream, taken + matched) <= received /\ begin = End(stream, taken + count)
      /\ count < op.replies_count /\ MatchEnded
  BY StreamsDivided DEF TypeOK, ParseOK
<1>2. CASE count < matched
  <2>1. /\ taken + count \in 0 .. Len(stream.ends) /\ taken + count < Len(stream.ends)
        /\ taken + count + 1 \in 0 .. taken + matched
        /\ taken + count \in 0 .. (taken + count + 1) - 1
        /\ taken + count + 1 \in 0 .. Len(stream.ends)
    BY <1>1, <1>2
  <2>2. /\ End(stream, taken + count + 1) <= End(stream, taken + matched)
        /\ End(stream, taken + count + 1) \in Nat /\ End(stream, taken + matched) \in Nat
    BY <1>1, <2>1, EndsInStream
  <2>3. begin < End(stream, taken + count + 1) /\ begin \in Nat
    BY <1>1, <2>1, EndsInStream
  <2>4. End(stream, taken + count + 1) <= received
    BY <1>1, <2>2
  <2>5. /\ ParseResult.kind = "positive"
        /\ ParseResult.consumed = End(stream, taken + count + 1) - begin
    BY <1>1, <2>1, <2>4, ParsesArrived DEF ParseResult
  <2> QED BY <1>1, <1>2, <2>2, <2>3, <2>4, <2>5
<1>3. CASE count = matched
  <2>1. /\ taken + matched = Len(stream.ends) /\ matched < op.replies_count
        /\ ParseOf("drop_result", Window(stream, End(stream, Len(stream.ends)), received)).kind
             = "protocol_error"
    BY <1>1, <1>3 DEF MatchEnded
  <2>2. ParseResult.kind = "protocol_error"
    BY <1>1, <1>3, <2>1, ParsesRest DEF ParseResult
  <2>3. ~Sent(op.replies_count)
    BY <1>1, <2>1 DEF Sent
  <2> QED BY <2>2, <2>3
<1> QED BY <1>1, <1>2, <1>3

\* The fields of a successful result.
LEMMA SuccessFields ==
  ASSUME NEW operation, operation.replies_count \in Nat, operation.replies_count >= 1,
         NEW replies \in Seq(Nat \X Nat), NEW consumed \in Nat
  PROVE  LET r == Success(operation, replies, consumed) IN
         /\ r.status = "ok" /\ r.consumed = consumed
         /\ operation.policy = "keep_result" =>
              /\ r.replies = replies
              /\ (r.shape = "array") = (operation.replies_count > 1)
         /\ operation.policy = "drop_result" => r.replies = <<>>
         /\ r \in [status : Statuses, ec : Codes, consumed : Nat,
                   shape : {"none", "single", "array"}, replies : Seq(Nat \X Nat)]
<1>1. <<>> \in Seq(Nat \X Nat)
  OBVIOUS
<1>2. (operation.replies_count = 1) # (operation.replies_count > 1)
  OBVIOUS
<1> QED BY <1>1, <1>2 DEF Success, Statuses, Codes

\* One more reply is handed to the visitor; behind the last one that was
\* asked for the result is complete.
LEMMA ParseReplyIInv ==
  ASSUME IInv, ParseReply
  PROVE  IInv'
<1>1. TypeOK /\ BufferAtReply /\ ParseOK /\ pc = "parse" /\ ec = "none" /\ OperationOK
      /\ ParseResult.kind = "positive"
  BY DEF IInv, ParseReply
<1>2. PICK end \in Nat, size \in Nat :
        /\ end \in Nat /\ end = End(stream, taken + count + 1)
        /\ size \in Nat /\ size = ParseResult.consumed
        /\ count < matched /\ begin \in Nat /\ begin < end /\ size = end - begin
        /\ end <= received /\ taken + (count + 1) <= Len(stream.ends)
  <2>1. /\ count < matched
        /\ ParseResult.consumed = End(stream, taken + count + 1) - begin
        /\ begin \in Nat /\ End(stream, taken + count + 1) \in Nat
        /\ begin < End(stream, taken + count + 1)
        /\ taken + (count + 1) <= Len(stream.ends)
        /\ End(stream, taken + count + 1) <= received
    BY <1>1, ParseFound
  <2>2. ParseResult.consumed \in Nat
    BY <2>1
  <2> QED BY <2>1, <2>2
<1>3. /\ taken \in Nat /\ count \in Nat /\ matched \in Nat /\ cumulative \in Nat /\ base \in Nat
      /\ op.replies_count \in Nat /\ count < op.replies_count
      /\ cumulative = begin - base
  BY <1>1, StreamsDivided DEF TypeOK, ParseOK
<1>33. /\ begin = End(stream, taken + count) /\ tmp_results = NextReplies(count)
      /\ taken + matched <= Len(stream.ends) /\ End(stream, taken + matched) <= received
      /\ MatchEnded
  BY <1>1 DEF ParseOK
<1>4. /\ count' = count + 1 /\ cumulative' = end - base /\ cumulative' \in Nat
      /\ tmp_results' = Append(tmp_results, <<begin, end>>)
      /\ \/ /\ count + 1 < op.replies_count /\ begin' = end
            /\ pc' = pc /\ result' = result
         \/ /\ count + 1 = op.replies_count /\ begin' = begin
            /\ pc' = "done" /\ result' = Success(op, tmp_results', cumulative')
      /\ UNCHANGED <<stream, closed, received, base, taken, op, at, matched, ec>>
  <2>1. size # 0 /\ begin + size = end /\ begin + 0 = begin
    BY <1>2
  <2>6. cumulative + size = end - base /\ cumulative + size \in Nat
    BY <1>2, <1>3, SMTT(40)
  <2>5. count + 1 < op.replies_count \/ count + 1 = op.replies_count
    BY <1>3
  <2>2. /\ count' = count + 1 /\ cumulative' = cumulative + size
        /\ tmp_results' = Append(tmp_results, <<begin, begin + size>>)
        /\ begin' = begin + (IF count + 1 < op.replies_count THEN size ELSE 0)
        /\ IF (IF count + 1 < op.replies_count THEN size ELSE 0) # 0
           THEN UNCHANGED <<pc, result>>
           ELSE pc' = "done" /\ result' = Success(op, tmp_results', cumulative')
        /\ UNCHANGED <<stream, closed, received, base, taken, op, at, matched, ec>>
    BY <1>2 DEF ParseReply, matching
  <2>3. CASE count + 1 < op.replies_count
    BY <2>1, <2>2, <2>3, <2>6
  <2>4. CASE count + 1 = op.replies_count
    BY <2>1, <2>2, <2>4, <2>6
  <2> QED BY <2>3, <2>4, <2>5
<1>5. tmp_results' = NextReplies(count + 1) /\ tmp_results' \in Seq(Nat \X Nat)
  <2>1. tmp_results' = NextReplies(count + 1) /\ tmp_results \in Seq(Nat \X Nat)
    <3>1. taken + count + 1 <= Len(stream.ends) /\ count \in Nat
      BY <1>2, <1>3
    <3>2. /\ NextReplies(count + 1) = Append(NextReplies(count), <<begin, end>>)
          /\ NextReplies(count) \in Seq(Nat \X Nat)
      BY <1>1, <1>2, <1>33, <3>1, NextRepliesAppend
    <3> QED BY <1>33, <1>4, <3>2
  <2>2. <<begin, end>> \in Nat \X Nat
    BY <1>2
  <2> QED BY <1>4, <2>1, <2>2
<1>6. begin' \in Nat /\ count' \in Nat /\ pc' \in {"parse", "done"}
  <2>1. begin' \in Nat
    BY <1>2, <1>4
  <2>2. count' \in Nat /\ pc' \in {"parse", "done"}
    BY <1>1, <1>3, <1>4
  <2> QED BY <2>1, <2>2
<1>7. pc' = "done" =>
        /\ result'.status = "ok" /\ result'.consumed = end - base
        /\ op.policy = "keep_result" =>
             /\ result'.replies = NextReplies(count + 1)
             /\ (result'.shape = "array") = (op.replies_count > 1)
        /\ result' \in [status : Statuses, ec : Codes, consumed : Nat,
                        shape : {"none", "single", "array"}, replies : Seq(Nat \X Nat)]
  <2> SUFFICES ASSUME pc' = "done" PROVE
        /\ result'.status = "ok" /\ result'.consumed = end - base
        /\ op.policy = "keep_result" =>
             /\ result'.replies = NextReplies(count + 1)
             /\ (result'.shape = "array") = (op.replies_count > 1)
        /\ result' \in [status : Statuses, ec : Codes, consumed : Nat,
                        shape : {"none", "single", "array"}, replies : Seq(Nat \X Nat)]
    OBVIOUS
  <2>1. result' = Success(op, tmp_results', cumulative') /\ op.replies_count >= 1
    BY <1>1, <1>3, <1>4
  <2>2. /\ result'.status = "ok" /\ result'.consumed = cumulative'
        /\ op.policy = "keep_result" =>
             /\ result'.replies = tmp_results'
             /\ (result'.shape = "array") = (op.replies_count > 1)
        /\ result' \in [status : Statuses, ec : Codes, consumed : Nat,
                        shape : {"none", "single", "array"}, replies : Seq(Nat \X Nat)]
    <3>1. op.replies_count \in Nat /\ cumulative' \in Nat
      BY <1>3, <1>4
    <3> DEFINE r == Success(op, tmp_results', cumulative')
    <3>2. r.status = "ok"
      BY <1>5, <2>1, <3>1, SuccessFields
    <3>3. r.consumed = cumulative'
      BY <1>5, <2>1, <3>1, SuccessFields
    <3>4. op.policy = "keep_result" => r.replies = tmp_results'
      BY <1>5, <2>1, <3>1, SuccessFields
    <3>5. op.policy = "keep_result" => ((r.shape = "array") = (op.replies_count > 1))
      BY <1>5, <2>1, <3>1, SuccessFields
    <3>6. r \in [status : Statuses, ec : Codes, consumed : Nat,
                        shape : {"none", "single", "array"}, replies : Seq(Nat \X Nat)]
      BY <1>5, <2>1, <3>1, SuccessFields
    <3>7. result' = r
      BY <2>1
    <3> HIDE DEF r
    <3> QED BY <3>2, <3>3, <3>4, <3>5, <3>6, <3>7
  <2> QED BY <1>4, <1>5, <2>2
<1>8. TypeOK'
  BY <1>1, <1>4, <1>5, <1>6, <1>7 DEF TypeOK
<1>9. BufferAtReply' /\ NoAbort' /\ MatchOK' /\ WaitOK' /\ ErrorOK' /\ OperationOK'
  BY <1>1, <1>4, <1>6, <1>7 DEF BufferAtReply, NoAbort, MatchOK, WaitOK, ErrorOK, OperationOK
<1>10. ParseOK'
  <2> SUFFICES ASSUME pc' = "parse" PROVE
        /\ count' < op.replies_count /\ count' <= matched
        /\ taken + matched <= Len(stream.ends)
        /\ End(stream, taken + matched) <= received
        /\ begin' = End(stream, taken + count')
        /\ cumulative' = begin' - base
        /\ tmp_results' = NextReplies(count')
        /\ MatchEnded
    BY <1>4 DEF ParseOK, MatchEnded, NextReplies
  <2>1. count + 1 < op.replies_count /\ begin' = end
    BY <1>4
  <2>2. begin' = End(stream, taken + count')
    <3>1. taken + count' = taken + count + 1
      BY <1>3, <1>4
    <3> QED BY <1>2, <2>1, <3>1
  <2>3. count' < op.replies_count /\ count' <= matched
    BY <1>2, <1>3, <1>4, <2>1
  <2>4. cumulative' = begin' - base /\ tmp_results' = NextReplies(count')
    BY <1>4, <1>5, <2>1
  <2> QED BY <1>33, <2>2, <2>3, <2>4
<1>11. SuccessExact'
  <2> SUFFICES ASSUME pc' = "done" PROVE
        /\ taken + op.replies_count <= Len(stream.ends)
        /\ End(stream, taken + op.replies_count) <= received
        /\ result'.consumed = End(stream, taken + op.replies_count) - base
        /\ op.policy = "keep_result" =>
             /\ result'.replies = NextReplies(op.replies_count)
             /\ (result'.shape = "array") = (op.replies_count > 1)
    BY <1>4 DEF SuccessExact, InBuffer, Sent, NextReplies
  <2>1. count + 1 = op.replies_count
    BY <1>1, <1>4
  <2>2. taken + op.replies_count = taken + count + 1 /\ taken + op.replies_count = taken + (count + 1)
    BY <1>3, <2>1
  <2> QED BY <1>2, <1>7, <2>1, <2>2
<1>12. FailureJustified'
  BY <1>4, <1>7, <1>1 DEF FailureJustified
<1> QED BY <1>8, <1>9, <1>10, <1>11, <1>12 DEF IInv

\* op() throws only when there is no room for the replies, and nothing is lost.
LEMMA ReserveThrowsIInv ==
  ASSUME IInv, ReserveThrows
  PROVE  IInv'
<1>1. /\ TypeOK /\ BufferAtReply /\ pc = "parse" /\ OperationOK /\ ~RoomForReplies
      /\ pc' = "thrown"
      /\ UNCHANGED <<stream, closed, received, base, taken, op, at, matched, ec, begin,
                     count, cumulative, tmp_results, result>>
  BY DEF IInv, ReserveThrows, matching, visitor
<1>2. TypeOK'
  BY <1>1 DEF TypeOK
<1>3. BufferAtReply' /\ NoAbort' /\ OperationOK'
  BY <1>1 DEF BufferAtReply, NoAbort, OperationOK, RoomForReplies
<1>4. MatchOK' /\ WaitOK' /\ ErrorOK' /\ ParseOK' /\ SuccessExact' /\ FailureJustified'
  BY <1>1 DEF MatchOK, WaitOK, ErrorOK, ParseOK, SuccessExact, FailureJustified
<1> QED BY <1>2, <1>3, <1>4 DEF IInv

\* op() is refused only by a protocol error, which it reports.
LEMMA ParseRefusedIInv ==
  ASSUME IInv, ParseRefused
  PROVE  IInv'
<1>1. TypeOK /\ BufferAtReply /\ ParseOK /\ pc = "parse" /\ ec = "none" /\ OperationOK
      /\ ParseResult.kind # "positive"
  BY DEF IInv, ParseRefused
<1>2. ParseResult.kind = "protocol_error" /\ ~Sent(op.replies_count)
  BY <1>1, ParseFound
<1>3. /\ pc' = "done" /\ result' = Failure("protocol_error")
      /\ UNCHANGED <<stream, closed, received, base, taken, op, at, matched, ec, begin,
                     count, cumulative, tmp_results>>
  BY <1>2 DEF ParseRefused, matching, visitor
<1>4. "protocol_error" \in Codes /\ "protocol_error" # "not_found"
  BY DEF Codes
<1>5. TypeOK'
  BY <1>1, <1>3, <1>4, FailureFields DEF TypeOK
<1>6. BufferAtReply' /\ NoAbort' /\ OperationOK' /\ MatchOK' /\ WaitOK' /\ ErrorOK' /\ ParseOK'
  BY <1>1, <1>3, <1>4, FailureFields
     DEF BufferAtReply, NoAbort, OperationOK, MatchOK, WaitOK, ErrorOK, ParseOK
<1>7. FailureJustified' /\ SuccessExact'
  BY <1>2, <1>3, <1>4, FailureFields
     DEF FailureJustified, SuccessExact, InBuffer, Sent
<1> QED BY <1>5, <1>6, <1>7 DEF IInv

\* Consuming the result moves the buffer to the reply behind those taken; a
\* failure moves nothing.
LEMMA ConsumeIInv ==
  ASSUME IInv, Consume
  PROVE  IInv'
<1>1. /\ TypeOK /\ BufferAtReply /\ pc = "done" /\ SuccessExact /\ FailureJustified
      /\ OperationOK
  BY DEF IInv, Consume
<1>2. /\ pc' = "idle" /\ result' = NoResult
      /\ UNCHANGED <<stream, closed, received, op, at, matched, ec, begin, count,
                     cumulative, tmp_results>>
  BY DEF Consume, matching, visitor
<1>3. stream \in Streams /\ received \in Nat /\ base \in Nat /\ base <= received
      /\ taken \in Nat /\ taken <= Len(stream.ends) /\ Len(stream.ends) \in Nat
      /\ op.replies_count \in Nat
  BY <1>1, StreamsDivided DEF TypeOK
<1>4. /\ base' = End(stream, taken') /\ base' \in 0 .. received
      /\ taken' \in 0 .. Len(stream.ends)
  <2>1. CASE result.status = "ok"
    <3>1. /\ taken + op.replies_count <= Len(stream.ends)
          /\ End(stream, taken + op.replies_count) <= received
          /\ result.consumed = End(stream, taken + op.replies_count) - base
      BY <1>1, <2>1 DEF SuccessExact, InBuffer, Sent
    <3>2. taken + op.replies_count \in 0 .. Len(stream.ends)
      BY <1>3, <3>1
    <3>3. End(stream, taken + op.replies_count) \in Nat
      BY <1>3, <3>2, EndsInStream
    <3>4. result.consumed <= Size
      BY <1>3, <3>1, <3>3 DEF Size
    <3>5. base' = End(stream, taken + op.replies_count) /\ taken' = taken + op.replies_count
      BY <1>3, <2>1, <3>1, <3>3, <3>4 DEF Consume
    <3> QED BY <1>3, <3>1, <3>2, <3>3, <3>5
  <2>2. CASE result.status = "error"
    <3>1. result.consumed = 0 /\ 0 <= Size
      BY <1>1, <1>3, <2>2 DEF FailureJustified, Size
    <3>2. base' = base /\ taken' = taken
      BY <1>3, <2>2, <3>1 DEF Consume
    <3> QED BY <1>1, <1>3, <3>2 DEF BufferAtReply
  <2>3. CASE result.status = "none"
    BY <1>1, <2>3 DEF OperationOK
  <2> QED BY <1>1, <2>1, <2>2, <2>3 DEF TypeOK, Statuses
<1>5. result' \in [status : Statuses, ec : Codes, consumed : Nat,
                   shape : {"none", "single", "array"}, replies : Seq(Nat \X Nat)]
  <2>1. <<>> \in Seq(Nat \X Nat)
    OBVIOUS
  <2> QED BY <1>2, <2>1 DEF NoResult, Statuses, Codes
<1>6. TypeOK'
  BY <1>1, <1>2, <1>4, <1>5 DEF TypeOK
<1>7. BufferAtReply' /\ NoAbort' /\ OperationOK' /\ MatchOK' /\ WaitOK' /\ ErrorOK'
  BY <1>2, <1>4 DEF BufferAtReply, NoAbort, OperationOK, MatchOK, WaitOK, ErrorOK
<1>8. ParseOK' /\ SuccessExact' /\ FailureJustified'
  BY <1>2 DEF ParseOK, SuccessExact, FailureJustified
<1> QED BY <1>6, <1>7, <1>8 DEF IInv

\* Every step of a connection, and of its client and peer, keeps IInv.
LEMMA NextIInv ==
  ASSUME CountsPositive, RepliesFitInt, IInv, [Next]_vars
  PROVE  IInv'
<1>1. ASSUME NEW n \in ReplyCounts, NEW policy \in Policies, AsyncRead(n, policy)
      PROVE  IInv'
  <2>1. n \in Nat /\ n >= 1
    BY ConstantsAssumption DEF CountsPositive
  <2> QED BY <1>1, <2>1, StartIInv DEF AsyncRead
<1>2. CASE Read
  <2>1. "keep_result" \in Policies /\ 1 \in Nat /\ 1 >= 1
    BY DEF Policies
  <2> QED BY <1>2, <2>1, StartIInv DEF Read
<1>3. CASE MatchReply BY <1>3, MatchReplyIInv
<1>4. CASE MatchNeedsData BY <1>4, MatchNeedsDataIInv
<1>5. CASE MatchError BY <1>5, MatchErrorIInv
<1>6. CASE Receive BY <1>6, DeliverIInv DEF Receive
<1>7. CASE PeerClose
  <2>1. /\ closed' \in BOOLEAN
        /\ UNCHANGED <<stream, received, base, taken, pc, op, at, matched, ec, begin, count,
                       cumulative, tmp_results, result>>
    BY <1>7 DEF PeerClose, matching, visitor
  <2> QED BY <2>1, PeerCloseIInv
<1>8. CASE Eof \/ Cancel BY <1>8, ReadFailsIInv
<1>9. CASE OpError BY <1>9, OpErrorIInv
<1>10. CASE ParseReply BY <1>10, ParseReplyIInv
<1>11. CASE ParseRefused BY <1>11, ParseRefusedIInv
<1>12. CASE Consume BY <1>12, ConsumeIInv
<1>13. CASE ReserveThrows BY <1>13, ReserveThrowsIInv
<1>14. CASE UNCHANGED vars
  <2>1. /\ closed' = closed
        /\ UNCHANGED <<stream, received, base, taken, pc, op, at, matched, ec, begin, count,
                       cumulative, tmp_results, result>>
    BY <1>14 DEF vars
  <2>2. closed' \in BOOLEAN
    BY <2>1 DEF IInv, TypeOK
  <2> QED BY <2>1, <2>2, PeerCloseIInv
<1> QED BY <1>1, <1>2, <1>3, <1>4, <1>5, <1>6, <1>7, <1>8, <1>9, <1>10, <1>11, <1>12, <1>13,
        <1>14 DEF Next

-----------------------------------------------------------------------------
(* The theorems.                                                            *)

\* Under the two conditions of use, every phase of every read knows what IInv
\* says it knows: where MatchResult stands, what it waits for, what op() will
\* find, and what the result is worth.
THEOREM Invariant ==
  ASSUME CountsPositive, RepliesFitInt
  PROVE  Spec => []IInv
<1>1. Init => IInv
  BY InitIInv
<1>2. IInv /\ [Next]_vars => IInv'
  BY NextIInv
<1> QED BY <1>1, <1>2, PTL DEF Spec

\* All variables keep their types; no counter or position leaves its range.
THEOREM TypeCorrect ==
  ASSUME CountsPositive, RepliesFitInt
  PROVE  Spec => []TypeOK
<1>1. IInv => TypeOK
  BY DEF IInv
<1> QED BY <1>1, Invariant, PTL

\* The program never reaches std::abort() in base_result_visitor_t, nor an
\* escaping exception in read(): op() finds what MatchResult found.  It throws only
\* when it was asked for more replies than a vector has room for.
THEOREM NeverAborts ==
  ASSUME CountsPositive, RepliesFitInt
  PROVE  Spec => []NoAbort
<1>1. IInv => NoAbort
  BY DEF IInv
<1> QED BY <1>1, Invariant, PTL

\* A successful read gives exactly the next replies_count replies, each with
\* its own bytes, and has the client consume these bytes and no others.
THEOREM SuccessIsExact ==
  ASSUME CountsPositive, RepliesFitInt
  PROVE  Spec => []SuccessExact
<1>1. IInv => SuccessExact
  BY DEF IInv
<1> QED BY <1>1, Invariant, PTL

\* A read fails only when its answer is not in the buffer, and gives and
\* consumes nothing then.
THEOREM FailureIsJustified ==
  ASSUME CountsPositive, RepliesFitInt
  PROVE  Spec => []FailureJustified
<1>1. IInv => FailureJustified
  BY DEF IInv
<1> QED BY <1>1, Invariant, PTL

\* A read whose answer has arrived does not wait for more bytes.
THEOREM AnsweredReadDoesNotWait ==
  ASSUME CountsPositive, RepliesFitInt
  PROVE  Spec => []NeverWaitsWhenAnswered
<1>1. IInv => NeverWaitsWhenAnswered
  <2> SUFFICES ASSUME IInv, pc = "wait" PROVE ~InBuffer(op.replies_count)
    BY DEF NeverWaitsWhenAnswered
  <2>1. matched + 1 \in Nat /\ op.replies_count \in Nat /\ matched + 1 <= op.replies_count
    BY DEF IInv, TypeOK, MatchOK
  <2> QED BY <2>1, InBufferMonotone DEF IInv, WaitOK
<1> QED BY <1>1, Invariant, PTL

\* Between reads, and during them, the buffer starts at the reply that follows
\* those the client was given.
THEOREM BufferStartsAtReply ==
  ASSUME CountsPositive, RepliesFitInt
  PROVE  Spec => []BufferAtReply
<1>1. IInv => BufferAtReply
  BY DEF IInv
<1> QED BY <1>1, Invariant, PTL

-----------------------------------------------------------------------------
(* Reads implement the channel of replies.                                  *)

\* A start asks, the last step of op() answers or refuses, the client's
\* consume takes; every other step of a read is invisible to the client.
LEMMA ChannelStep ==
  ASSUME CountsPositive, RepliesFitInt, IInv, IInv', [Next]_vars
  PROVE  [Channel!Next]_(Channel!vars)
<1> USE DEF Channel!Nothing, Channel!NoAnswer, Channel!Refused
<1>1. ASSUME NEW kind, NEW n \in ReplyCounts \cup {1}, NEW policy \in Policies,
             Start(kind, n, policy)
      PROVE  \E count_ \in ReplyCounts \cup {1}, kept \in BOOLEAN : Channel!Ask(count_, kept)
  <2>1. /\ pc = "idle" /\ pc' = "match" /\ op'.replies_count = n /\ op'.policy = policy
        /\ UNCHANGED <<stream, taken>>
    BY <1>1 DEF Start
  <2>2. Channel!Ask(n, policy = "keep_result")
    BY <2>1 DEF Channel!Ask, Asked, Answered
  <2> QED BY <2>2
<1>2. ASSUME pc \in {"match", "wait", "parse"}, pc' \in {"match", "wait", "parse"},
             UNCHANGED <<stream, taken, op>>
      PROVE  UNCHANGED Channel!vars
  BY <1>2 DEF Channel!vars, Asked, Answered
<1>3. ASSUME pc = "parse", pc' = "done", UNCHANGED <<stream, taken, op>>,
             result'.consumed = 0, result'.replies = <<>>
      PROVE  Channel!Refuse
  <2>1. op.replies_count # -1
    BY DEF IInv, TypeOK
  <2> QED BY <1>3, <2>1 DEF Channel!Refuse, Asked, Answered
<1>4. CASE Read
  <2>1. "keep_result" \in Policies
    BY DEF Policies
  <2> QED BY <1>1, <1>4, <2>1 DEF Read, Channel!Next
<1>5. ASSUME NEW n \in ReplyCounts, NEW policy \in Policies, AsyncRead(n, policy)
      PROVE  Channel!Next
  BY <1>1, <1>5 DEF AsyncRead, Channel!Next
<1>6. CASE MatchReply \/ MatchNeedsData \/ MatchError
  <2>1. /\ pc = "match" /\ UNCHANGED <<stream, taken, op>>
        /\ pc' \in {"match", "wait", "parse", "undefined"}
    BY <1>6 DEF MatchReply, MatchNeedsData, MatchError
  <2>2. pc' # "undefined"
    BY DEF IInv, NoAbort
  <2> QED BY <1>2, <2>1, <2>2
<1>7. CASE Receive \/ Eof \/ Cancel
  BY <1>2, <1>7 DEF Receive, Deliver, Eof, Cancel, ReadFails
<1>8. CASE PeerClose \/ UNCHANGED vars
  <2>1. UNCHANGED <<stream, taken, pc, op, result>>
    BY <1>8 DEF PeerClose, vars
  <2> QED BY <2>1 DEF Channel!vars, Asked, Answered
<1>9. CASE OpError
  <2>1. /\ pc = "parse" /\ pc' = "done" /\ UNCHANGED <<stream, taken, op>>
        /\ result' = Failure(ec)
    BY <1>9 DEF OpError
  <2>2. ec \in Codes
    BY DEF IInv, TypeOK, Codes
  <2>3. result'.consumed = 0 /\ result'.replies = <<>>
    BY <2>1, <2>2, FailureFields
  <2> QED BY <1>3, <2>1, <2>3 DEF Channel!Next
<1>13. CASE ReserveThrows
  <2>1. /\ pc = "parse" /\ pc' = "thrown" /\ UNCHANGED <<stream, taken, op>>
    BY <1>13 DEF ReserveThrows
  <2> QED BY <2>1 DEF Channel!vars, Asked, Answered
<1>10. CASE ParseRefused
  <2>1. ParseResult.kind = "protocol_error"
    BY <1>10, ParseFound DEF ParseRefused, IInv
  <2>2. /\ pc = "parse" /\ pc' = "done" /\ UNCHANGED <<stream, taken, op>>
        /\ result' = Failure("protocol_error")
    BY <1>10, <2>1 DEF ParseRefused
  <2>3. "protocol_error" \in Codes
    BY DEF Codes
  <2>4. result'.consumed = 0 /\ result'.replies = <<>>
    BY <2>2, <2>3, FailureFields
  <2> QED BY <1>3, <2>2, <2>4 DEF Channel!Next
<1>11. CASE ParseReply
  <2>1. /\ pc = "parse" /\ pc' \in {"parse", "done"} /\ UNCHANGED <<stream, taken, op, base, received>>
        /\ pc' = "done" => result' = Success(op, tmp_results', cumulative')
    BY <1>11 DEF ParseReply
  <2>2. CASE pc' = "parse"
    BY <1>2, <2>1, <2>2
  <2>3. CASE pc' = "done"
    <3>1. /\ op.replies_count \in Nat /\ op.replies_count >= 1 /\ op.policy \in Policies
          /\ base = End(stream, taken) /\ tmp_results' \in Seq(Nat \X Nat) /\ cumulative' \in Nat
      BY <2>1, <2>3 DEF IInv, TypeOK, BufferAtReply, OperationOK
    <3>2. result'.status = "ok" /\ (op.policy = "drop_result" => result'.replies = <<>>)
      <4> DEFINE r == Success(op, tmp_results', cumulative')
      <4>1. r.status = "ok"
        BY <3>1, SuccessFields
      <4>2. op.policy = "drop_result" => r.replies = <<>>
        BY <3>1, SuccessFields
      <4>3. result' = r
        BY <2>1, <2>3
      <4> HIDE DEF r
      <4> QED BY <4>1, <4>2, <4>3
    <3>3. /\ taken + op.replies_count <= Len(stream.ends)
          /\ result'.consumed = End(stream, taken + op.replies_count) - base
          /\ op.policy = "keep_result" => result'.replies = NextReplies(op.replies_count)
      BY <2>1, <2>3, <3>2 DEF IInv, SuccessExact, InBuffer, Sent, NextReplies
    <3>4. /\ Channel!End(stream, taken) = End(stream, taken)
          /\ Channel!End(stream, taken + op.replies_count) = End(stream, taken + op.replies_count)
          /\ Channel!Replies(stream, taken, op.replies_count) = NextReplies(op.replies_count)
      BY DEF Channel!End, Channel!Replies, End, NextReplies
    <3>5. op.replies_count # -1
      BY <3>1
    <3>6. Channel!Answer
      BY <2>1, <2>3, <3>1, <3>2, <3>3, <3>4, <3>5
         DEF Channel!Answer, Asked, Answered, Policies
    <3> QED BY <3>6 DEF Channel!Next
  <2> QED BY <2>1, <2>2, <2>3
<1>12. CASE Consume
  <2>1. /\ pc = "done" /\ pc' = "idle" /\ UNCHANGED <<stream, op>>
        /\ taken' = IF result.status = "ok" THEN taken + op.replies_count ELSE taken
    BY <1>12 DEF Consume
  <2>2. result.consumed # -1 /\ result.status \in {"ok", "error"}
    BY <2>1 DEF IInv, TypeOK, OperationOK, Statuses
  <2>3. result.status = "error" => result.consumed = 0 /\ result.replies = <<>>
    BY <2>1 DEF IInv, FailureJustified
  <2>4. result.status = "ok" => result.consumed # 0
    <3> SUFFICES ASSUME result.status = "ok" PROVE result.consumed # 0
      OBVIOUS
    <3>1. /\ taken + op.replies_count <= Len(stream.ends)
          /\ result.consumed = End(stream, taken + op.replies_count) - End(stream, taken)
      BY <2>1 DEF IInv, SuccessExact, InBuffer, Sent, BufferAtReply
    <3>2. /\ stream \in Streams /\ taken + op.replies_count \in 0 .. Len(stream.ends)
          /\ taken \in 0 .. (taken + op.replies_count) - 1
      <4>1. stream \in Streams /\ taken \in 0 .. Len(stream.ends) /\ op.replies_count \in Nat
        BY DEF IInv, TypeOK
      <4>2. op.replies_count >= 1
        BY <2>1 DEF IInv, OperationOK
      <4>3. Len(stream.ends) \in Nat
        BY <4>1, StreamsDivided
      <4> QED BY <3>1, <4>1, <4>2, <4>3
    <3>3. /\ End(stream, taken) < End(stream, taken + op.replies_count)
          /\ End(stream, taken) \in Nat /\ End(stream, taken + op.replies_count) \in Nat
      BY <3>2, EndsInStream
    <3> QED BY <3>1, <3>3
  <2>5. Channel!Take
    BY <2>1, <2>2, <2>3, <2>4 DEF Channel!Take, Asked, Answered
  <2> QED BY <2>5 DEF Channel!Next
<1> QED BY <1>4, <1>5, <1>6, <1>7, <1>8, <1>9, <1>10, <1>11, <1>12, <1>13
        DEF Next

\* What the client is given, read after read, whatever the chunks, failures,
\* retries and policies, are the replies of the stream in their order, none
\* lost and none repeated.
THEOREM ReadsImplementChannel ==
  ASSUME CountsPositive, RepliesFitInt
  PROVE  Spec => ImplementsChannel
<1>1. Init => Channel!Init
  BY DEF Init, Channel!Init, Asked, Answered, Channel!Nothing, Channel!NoAnswer
<1>2. IInv /\ IInv' /\ [Next]_vars => [Channel!Next]_(Channel!vars)
  BY ChannelStep
<1> QED BY <1>1, <1>2, Invariant, PTL DEF Spec, ImplementsChannel, Channel!Spec
=============================================================================
