------------------------- MODULE ProtocolFeedProofs -------------------------
(***************************************************************************)
(* Proofs about ProtocolFeed: whatever bytes arrive, in whatever chunks,   *)
(* well formed or not, and however long the buffer gets.                   *)
(***************************************************************************)
EXTENDS ProtocolFeed, ProtocolProofs

\* the part of the type invariant that is about the variables
BufferOK == feed \in Feeds /\ buf \in Seq(Bytes) /\ extra \in 0 .. Beyond

\* A buffer to which a chunk is appended holds bytes that may arrive.
LEMMA ChunkArrives ==
  ASSUME BufferOK, NEW chunk \in feed.chunks
  PROVE  buf \o chunk \in Seq(Bytes)
<1>1. chunk \in Seq(Range(chunk))
  BY FeedsAssumption DEF BufferOK
<1>2. Range(chunk) \subseteq Bytes
  BY DEF Bytes
<1>3. chunk \in Seq(Bytes)
  BY <1>1, <1>2
<1> QED BY <1>3 DEF BufferOK

\* The buffer only ever holds bytes of the feed.
LEMMA BufferTyped == Spec => []BufferOK
<1>1. Init => BufferOK
  BY FeedsAssumption DEF Init, BufferOK
<1>2. BufferOK /\ [Next]_vars => BufferOK'
  <2> SUFFICES ASSUME BufferOK, [Next]_vars PROVE BufferOK'
    OBVIOUS
  <2>1. ASSUME NEW chunk \in feed.chunks, Arrive(chunk) PROVE BufferOK'
    BY <2>1, ChunkArrives DEF Arrive, BufferOK, Bytes
  <2>2. ASSUME NEW chunk \in feed.chunks, ArriveBeyond(chunk) PROVE BufferOK'
    BY <2>2, ChunkArrives, FeedsAssumption DEF ArriveBeyond, BufferOK, Bytes
  <2>3. CASE UNCHANGED vars
    BY <2>3 DEF vars, BufferOK, Bytes
  <2> QED BY <2>1, <2>2, <2>3 DEF Next
<1> QED BY <1>1, <1>2, PTL DEF Spec

\* The verdict on the buffer is that of raw_parse at its first byte.
LEMMA VerdictWithin ==
  ASSUME BufferOK, NEW policy
  PROVE  Within(buf, 0, policy, Verdict(policy)) /\ Verdict(policy).kind # "count"
<1>1. buf \in Seq(Bytes) /\ 0 \in 0 .. Len(buf)
  BY DEF BufferOK
<1> QED BY <1>1, RawParseWithin DEF Verdict, Parse

\* The parser returns one of the alternatives of parse_result_t whatever bytes
\* have arrived; it can only throw when keep_result is asked to make room for
\* more elements than a vector may have, and fewer than a long may count.
THEOREM FeedTypeOK == Spec => []TypeOK
<1>1. BufferOK => TypeOK
  <2> SUFFICES ASSUME BufferOK PROVE TypeOK
    OBVIOUS
  <2>1. ASSUME NEW policy \in Policies
        PROVE  LET verdict == Verdict(policy) IN
               \/ verdict = NotEnoughData
               \/ verdict.kind = "positive" /\ verdict.consumed \in Nat
               \/ verdict.kind = "protocol_error" /\ verdict.code \in BredisErrors
               \/ policy = "keep_result" /\ ReserveMax < LongMax /\ Throws(verdict)
    <3> DEFINE verdict == Verdict(policy)
    <3>1. Within(buf, 0, policy, verdict) /\ verdict.kind # "count"
      BY VerdictWithin
    <3> HIDE DEF verdict
    <3>2. verdict.kind = "protocol_error" => verdict.code \in BredisErrors
      BY <3>1, WithinCases DEF Codes, BredisErrors, ProtocolError
    <3>3. verdict.kind = "positive" => verdict.consumed \in Nat
      BY <3>1, WithinCases DEF Takes
    <3> QED BY <3>1, <3>2, <3>3, WithinCases DEF verdict, Throws
  <2> QED BY <2>1 DEF TypeOK, BufferOK
<1> QED BY <1>1, BufferTyped, PTL

\* MatchResult, which drops the markers, and the read operation, which may keep
\* them, reach the same verdict on the same bytes, unless the latter throws.
THEOREM FeedPoliciesAgree == Spec => []PoliciesAgree
<1>1. BufferOK => PoliciesAgree
  <2> SUFFICES ASSUME BufferOK, Verdict("keep_result") # LengthError PROVE PoliciesAgree
    BY DEF PoliciesAgree, Throws
  <2> DEFINE keep == Verdict("keep_result")
             drop == Verdict("drop_result")
  <2>1. Agree(keep, drop)
    <3>1. buf \in Seq(Bytes) /\ 0 \in 0 .. Len(buf)
      BY DEF BufferOK
    <3> QED BY <3>1, RawParseAgrees DEF Verdict, Parse
  <2> HIDE DEF keep, drop
  <2>2. keep # LengthError
    BY DEF keep
  <2>3. /\ keep.kind = drop.kind
        /\ keep.kind = "positive" => keep.consumed = drop.consumed
        /\ keep.kind = "protocol_error" => keep.code = drop.code
    BY <2>1, <2>2 DEF Agree
  <2> QED BY <2>3 DEF PoliciesAgree, Accepted, keep, drop
<1> QED BY <1>1, BufferTyped, PTL

\* A part of the buffer from its first byte on is continued by the buffer.
LEMMA PartContinues ==
  ASSUME BufferOK, NEW n \in 0 .. Len(buf)
  PROVE  /\ SubSeq(buf, 1, n) \in Seq(Bytes) /\ Len(SubSeq(buf, 1, n)) = n
         /\ Continues(buf, SubSeq(buf, 1, n))
<1>1. Len(buf) \in Nat /\ buf \in Seq(Bytes)
  BY DEF BufferOK
<1>2. \A i \in 1 .. n : buf[i] \in Bytes
  BY <1>1
<1>3. /\ SubSeq(buf, 1, n) \in Seq(Bytes)
      /\ Len(SubSeq(buf, 1, n)) = IF 1 <= n THEN n - 1 + 1 ELSE 0
      /\ \A i \in 1 .. n - 1 + 1 : SubSeq(buf, 1, n)[i] = buf[1 + i - 1]
  BY <1>1, <1>2, SubSeqProperties
<1>4. Len(SubSeq(buf, 1, n)) = n
  BY <1>1, <1>3
<1> QED BY <1>1, <1>3, <1>4 DEF Continues

\* What raw_parse makes of a part of the buffer, and what it makes of the whole,
\* fit together.
LEMMA PartPersists ==
  ASSUME BufferOK, NEW policy, NEW n \in 0 .. Len(buf)
  PROVE  LET early == Parse(policy, SubSeq(buf, 1, n)) IN
         /\ early # NotEnoughData => Verdict(policy) = early
         /\ Verdict(policy).kind = "positive" /\ Verdict(policy).consumed <= n =>
              early = Verdict(policy)
<1> DEFINE short == SubSeq(buf, 1, n)
<1>1. short \in Seq(Bytes) /\ Len(short) = n /\ Continues(buf, short) /\ buf \in Seq(Bytes)
  BY PartContinues DEF BufferOK
<1> HIDE DEF short
<1>2. 0 \in 0 .. Len(short)
  BY <1>1
<1>3. Persists(short, 0, RawParse(short, policy)[0], RawParse(buf, policy)[0])
  BY <1>1, <1>2, RawParsePersists
<1>4. Persists(short, 0, Parse(policy, short), Verdict(policy))
  BY <1>3 DEF Parse, Verdict
<1>5. Verdict(policy).kind = "positive" => 0 + Verdict(policy).consumed = Verdict(policy).consumed
  BY VerdictWithin, WithinCases DEF Takes
<1> QED BY <1>1, <1>4, <1>5 DEF Persists, short

\* Bytes that arrive behind a reply never change the verdict on it: what the
\* completion condition saw is what the read operation sees.
THEOREM FeedDecisionStable == Spec => []DecisionStable
<1>1. BufferOK => DecisionStable
  <2> SUFFICES ASSUME BufferOK, NEW policy \in Policies, NEW n \in 0 .. Len(buf) - 1
               PROVE  LET early == Parse(policy, SubSeq(buf, 1, n)) IN
                      Decided(early) => Verdict(policy) = early
    BY DEF DecisionStable
  <2>1. n \in 0 .. Len(buf)
    BY DEF BufferOK
  <2> QED BY <2>1, PartPersists DEF Decided
<1> QED BY <1>1, BufferTyped, PTL

\* A reply is accepted on its own bytes, and on no fewer.
THEOREM FeedDecidedByItsOwnBytes == Spec => []DecidedByItsOwnBytes
<1>1. BufferOK => DecidedByItsOwnBytes
  <2> SUFFICES ASSUME BufferOK, NEW policy \in Policies, Accepted(Verdict(policy))
               PROVE  /\ Verdict(policy).consumed \in 1 .. Len(buf)
                      /\ Parse(policy, SubSeq(buf, 1, Verdict(policy).consumed)) = Verdict(policy)
    BY DEF DecidedByItsOwnBytes
  <2> DEFINE n == Verdict(policy).consumed
  <2>1. n \in 1 .. Len(buf) - 0
    BY VerdictWithin, WithinCases DEF Takes, Accepted
  <2>2. n \in 1 .. Len(buf) /\ n \in 0 .. Len(buf) /\ n <= n
    BY <2>1 DEF BufferOK
  <2> QED BY <2>2, PartPersists DEF Accepted
<1> QED BY <1>1, BufferTyped, PTL

-----------------------------------------------------------------------------
(* The bytes that a reply must bring before keep_result has no room for it.  *)

\* Whatever is accepted takes three bytes, one to introduce it and two to end it.
LEMMA HeadTakesThree ==
  ASSUME NEW B, NEW bytes \in Seq(B), NEW at \in 0 .. Len(bytes) - 1, NEW policy
  PROVE  /\ \A type : LET line == LineParser(type, bytes, at, policy) IN
                      line.kind = "positive" => line.consumed >= 3
         /\ LET count == CountParser(bytes, at, policy) IN
            count.kind \in {"positive", "count"} => count.consumed >= 3
         /\ LET bulk == BulkStringParser(bytes, at, policy) IN
            bulk.kind = "positive" => bulk.consumed >= 3
<1> DEFINE line(type, p) == LineParser(type, bytes, at, p)
           count == CountParser(bytes, at, policy)
           bulk == BulkStringParser(bytes, at, policy)
<1>1. Len(bytes) \in Nat /\ at \in Nat
  OBVIOUS
<1>2. \A type, p : line(type, p).kind = "positive" => line(type, p).consumed >= 3
  <2> TAKE type, p
  <2> DEFINE to == SearchTerminator(bytes, at + 1)
  <2>1. \/ line(type, p) = NotEnoughData
        \/ /\ to \in at + 1 .. Len(bytes) - 2
           /\ line(type, p) = Positive(p, to + 2 - at, [type |-> type, from |-> at + 1, to |-> to])
    BY LineTakes
  <2> HIDE DEF line, to
  <2> QED BY <1>1, <2>1 DEF NotEnoughData, Positive
<1>3. count.kind \in {"positive", "count"} => count.consumed >= 3
  <2> DEFINE head == line("string", "keep_result")
  <2>1. count = ParseCount(bytes, head, policy)
    BY DEF CountParser
  <2>2. head.kind = "positive" => head.consumed >= 3
    BY <1>2
  <2> HIDE DEF count, head
  <2>3. CASE head.kind # "positive"
    <3>1. head = NotEnoughData
      BY <2>3 DEF head, LineParser, MarkLine, Positive
    <3> QED BY <2>1, <2>3, <3>1 DEF ParseCount, NotEnoughData
  <2>4. CASE head.kind = "positive"
    BY <2>1, <2>2, <2>4 DEF ParseCount, UnwrapCount, Positive, ProtocolError
  <2> QED BY <2>3, <2>4
<1>4. bulk.kind = "positive" => bulk.consumed >= 3
  <2>1. bulk = MarkBulkString(bytes, at, policy, count)
    BY DEF BulkStringParser
  <2>2. Within(bytes, at, policy, count)
    BY CountWithin
  <2> HIDE DEF count, bulk
  <2>3. CASE count.kind # "count"
    BY <1>3, <2>1, <2>3 DEF MarkBulkString
  <2>4. CASE count.kind = "count"
    <3>1. count.value \in Nat /\ count.consumed \in Nat /\ count.consumed >= 3
      BY <1>3, <2>2, <2>4, WithinCases DEF Takes
    <3>2. bulk.kind = "positive" => bulk.consumed = count.consumed + count.value + 2
      BY <2>1, <2>4 DEF MarkBulkString, Positive, NotEnoughData, ProtocolError
    <3> QED BY <3>1, <3>2
  <2> QED BY <2>3, <2>4
<1> QED BY <1>2, <1>3, <1>4

\* what is accepted takes three bytes, and an array for which keep_result throws
\* those of its head and of one element more than a vector has room for
Heavy(keep, drop) ==
  drop.kind = "positive" =>
    /\ drop.consumed >= 3
    /\ keep = LengthError => drop.consumed >= 3 * (ReserveMax + 2)

\* Every round of the loop takes three bytes more.
LEMMA RoundsTakeThree ==
  ASSUME NEW B, NEW bytes \in Seq(B), NEW at \in 0 .. Len(bytes), NEW policy, NEW parse,
         ParsesBehind(bytes, at, policy, parse),
         \A later \in at + 1 .. Len(bytes) :
           parse[later].kind = "positive" => parse[later].consumed >= 3,
         NEW count, count.kind = "count", Takes(bytes, at, count),
         NEW m, Loop(at, policy, count, parse, m)
  PROVE  \A n \in 0 .. count.value :
           m[n].kind = "positive" => m[n].consumed >= count.consumed + 3 * n
<1> DEFINE N == count.value
           S == {n \in 0 .. N : m[n].kind = "positive" => m[n].consumed >= count.consumed + 3 * n}
<1>1. N \in Nat /\ count.consumed \in Nat /\ Len(bytes) \in Nat /\ at \in Nat
  BY DEF Takes
<1>2. 0 \in S
  <2>1. m[0].consumed = count.consumed
    BY DEF Loop, Positive
  <2> QED BY <1>1, <2>1
<1>3. ASSUME NEW n \in 0 .. N - 1, n \in S PROVE n + 1 \in S
  <2> DEFINE element == parse[at + m[n].consumed]
  <2>1. /\ m[n + 1] = MarkElement(at, policy, m[n], parse) /\ n + 1 \in 0 .. N /\ n \in 0 .. N
        /\ m[n].kind = "positive" => m[n].consumed >= count.consumed + 3 * n
    BY <1>1, <1>3 DEF Loop
  <2>2. SUFFICES ASSUME m[n + 1].kind = "positive"
                 PROVE  m[n + 1].consumed >= count.consumed + 3 * (n + 1)
    BY <2>1
  <2>3. /\ m[n].kind = "positive" /\ element.kind = "positive"
        /\ m[n + 1].consumed = m[n].consumed + element.consumed
    BY <2>1, <2>2 DEF MarkElement, Push, Positive
  <2>4. m[n].consumed \in 1 .. Len(bytes) - at
    <3>1. Within(bytes, at, policy, m[n])
      BY <2>1, LoopWithin
    <3> QED BY <2>3, <3>1, WithinCases DEF Takes
  <2>5. at + m[n].consumed \in at + 1 .. Len(bytes)
    BY <1>1, <2>4
  <2>6. element.consumed \in Nat /\ element.consumed >= 3
    <3>1. Within(bytes, at + m[n].consumed, policy, element)
      BY <2>5 DEF ParsesBehind
    <3>2. element.consumed \in 1 .. Len(bytes) - (at + m[n].consumed)
      BY <2>3, <3>1, WithinCases DEF Takes
    <3> QED BY <2>3, <2>5, <3>2
  <2>7. n \in Nat /\ m[n].consumed \in Nat
    BY <2>4
  <2> HIDE DEF element
  <2> QED BY <1>1, <2>1, <2>3, <2>6, <2>7
<1>4. \A n \in 0 .. N : n \in S
  <2> HIDE DEF S, N
  <2> QED BY <1>1, <1>2, <1>3, Upwards
<1> QED BY <1>4

\* An array for which keep_result throws, itself or one of its elements, takes
\* the bytes of as many elements as a vector cannot hold.
LEMMA ArrayHeavy ==
  ASSUME NEW B, NEW bytes \in Seq(B), NEW at \in 0 .. Len(bytes) - 1, NEW keep, NEW drop,
         ParsesBehind(bytes, at, "keep_result", keep),
         ParsesBehind(bytes, at, "drop_result", drop),
         \A later \in at + 1 .. Len(bytes) :
           Agree(keep[later], drop[later]) /\ Heavy(keep[later], drop[later])
  PROVE  Heavy(ArrayParser(bytes, at, "keep_result", keep),
               ArrayParser(bytes, at, "drop_result", drop))
<1> DEFINE ck == CountParser(bytes, at, "keep_result")
           cd == CountParser(bytes, at, "drop_result")
           k == ArrayParser(bytes, at, "keep_result", keep)
           d == ArrayParser(bytes, at, "drop_result", drop)
           N == ck.value
           Room == 3 * (ReserveMax + 2)
<1>1. k = MarkArray(at, "keep_result", ck, keep) /\ d = MarkArray(at, "drop_result", cd, drop)
  BY DEF ArrayParser
<1>2. /\ Within(bytes, at, "keep_result", ck) /\ Agree(ck, cd) /\ ck # LengthError
      /\ cd.kind \in {"positive", "count"} => cd.consumed >= 3
  BY CountWithin, CountAgrees, HeadTakesThree
<1>3. Len(bytes) \in Nat /\ at \in Nat /\ at \in 0 .. Len(bytes)
  OBVIOUS
<1>4. Room \in Nat /\ Room = 3 * (ReserveMax + 2) /\ ReserveMax \in Nat
  BY LimitsAssumption
<1> HIDE DEF ck, cd, k, d, Room
<1>5. CASE ck.kind # "count"
  <2>1. cd.kind # "count"
    BY <1>2, <1>5 DEF Agree
  <2>2. k = ck /\ d = cd
    BY <1>1, <1>5, <2>1 DEF MarkArray
  <2> QED BY <1>2, <2>2 DEF Heavy, k, d
<1>6. CASE ck.kind = "count"
  <2>1. cd = ck /\ Takes(bytes, at, ck) /\ N \in Nat /\ ck.consumed \in Nat /\ ck.consumed >= 3
    BY <1>2, <1>6, WithinCases DEF Takes, Agree
  <2>2. PICK md : Loop(at, "drop_result", ck, drop, md) /\ d = md[N]
    BY <1>1, <1>6, <2>1, LoopEnds
  <2>3. \A n \in 0 .. N : Within(bytes, at, "drop_result", md[n]) /\ md[n].kind # "count"
    BY <1>3, <1>6, <2>1, <2>2, LoopWithin
  <2>4. \A n \in 0 .. N : md[n].kind = "positive" => md[n].consumed >= ck.consumed + 3 * n
    <3>1. \A later \in at + 1 .. Len(bytes) :
            drop[later].kind = "positive" => drop[later].consumed >= 3
      BY DEF Heavy
    <3> HIDE DEF N
    <3> QED BY <1>3, <1>6, <2>1, <2>2, <3>1, RoundsTakeThree DEF N
  <2>5. d.kind = "positive" => d.consumed \in Nat /\ d.consumed >= ck.consumed + 3 * N
    <3>1. N \in 0 .. N
      BY <2>1
    <3>2. d.kind = "positive" => d.consumed \in 1 .. Len(bytes) - at
      BY <2>2, <2>3, <3>1, WithinCases DEF Takes
    <3> QED BY <2>2, <2>4, <3>1, <3>2
  <2>6. d.kind = "positive" => d.consumed >= 3
    BY <2>1, <2>5
  <2>7. CASE N > ReserveMax
    BY <1>4, <2>1, <2>5, <2>6, <2>7 DEF Heavy, Room, k, d
  <2>8. CASE ~ (N > ReserveMax)
    <3>1. PICK mk : Loop(at, "keep_result", ck, keep, mk) /\ k = mk[N]
      BY <1>1, <1>6, <2>1, <2>8, LoopEnds
    <3>2. \A n \in 0 .. N : Within(bytes, at, "keep_result", mk[n]) /\ mk[n].kind # "count"
      BY <1>3, <1>6, <2>1, <3>1, LoopWithin
    <3> DEFINE Same(a, b) == a.kind = "positive" => b.kind = "positive" /\ a.consumed = b.consumed
               Full(a, b) == a = LengthError /\ b.kind = "positive" => b.consumed >= Room
               S == {n \in 0 .. N : Same(mk[n], md[n]) /\ Full(mk[n], md[n])}
    <3>3. 0 \in S
      <4>1. Same(mk[0], md[0]) /\ Full(mk[0], md[0])
        BY <2>2, <3>1 DEF Loop, Positive, LengthError
      <4> QED BY <2>1, <4>1
    <3>4. ASSUME NEW n \in 0 .. N - 1, n \in S PROVE n + 1 \in S
      <4> DEFINE ek == keep[at + mk[n].consumed]
                 ed == drop[at + md[n].consumed]
      <4>1. /\ mk[n + 1] = MarkElement(at, "keep_result", mk[n], keep)
            /\ md[n + 1] = MarkElement(at, "drop_result", md[n], drop)
        BY <2>2, <3>1 DEF Loop
      <4>2. n \in 0 .. N /\ n + 1 \in 0 .. N /\ Same(mk[n], md[n]) /\ Full(mk[n], md[n])
        BY <2>1, <3>4
      <4>3. md[n + 1].kind = "positive" =>
              /\ md[n].kind = "positive" /\ ed.kind = "positive"
              /\ md[n + 1].consumed = md[n].consumed + ed.consumed
              /\ md[n].consumed \in Nat /\ ed.consumed \in Nat
              /\ at + md[n].consumed \in at + 1 .. Len(bytes)
        <5> SUFFICES ASSUME md[n + 1].kind = "positive"
                     PROVE  /\ md[n].kind = "positive" /\ ed.kind = "positive"
                            /\ md[n + 1].consumed = md[n].consumed + ed.consumed
                            /\ md[n].consumed \in Nat /\ ed.consumed \in Nat
                            /\ at + md[n].consumed \in at + 1 .. Len(bytes)
          OBVIOUS
        <5>1. /\ md[n].kind = "positive" /\ ed.kind = "positive"
              /\ md[n + 1].consumed = md[n].consumed + ed.consumed
          BY <4>1 DEF MarkElement, Push, Positive
        <5>2. md[n].consumed \in 1 .. Len(bytes) - at
          BY <2>3, <4>2, <5>1, WithinCases DEF Takes
        <5>3. at + md[n].consumed \in at + 1 .. Len(bytes)
          BY <1>3, <5>2
        <5>4. Within(bytes, at + md[n].consumed, "drop_result", ed)
          BY <5>3 DEF ParsesBehind
        <5>5. ed.consumed \in 1 .. Len(bytes) - (at + md[n].consumed)
          BY <5>1, <5>4, WithinCases DEF Takes
        <5>6. md[n].consumed \in Nat /\ ed.consumed \in Nat
          BY <5>2, <5>5
        <5> HIDE DEF ed
        <5> QED BY <5>1, <5>3, <5>6
      <4>4. mk[n].kind = "positive" => Agree(ek, ed) /\ Heavy(ek, ed)
        <5> SUFFICES ASSUME mk[n].kind = "positive" PROVE Agree(ek, ed) /\ Heavy(ek, ed)
          OBVIOUS
        <5>1. mk[n].consumed \in 1 .. Len(bytes) - at
          BY <3>2, <4>2, WithinCases DEF Takes
        <5>2. at + mk[n].consumed \in at + 1 .. Len(bytes) /\ mk[n].consumed = md[n].consumed
          BY <1>3, <4>2, <5>1
        <5> QED BY <5>2
      <4> HIDE DEF ek, ed, N
      <4>5. Same(mk[n + 1], md[n + 1])
        <5> SUFFICES ASSUME mk[n + 1].kind = "positive"
                     PROVE  md[n + 1].kind = "positive" /\ mk[n + 1].consumed = md[n + 1].consumed
          OBVIOUS
        <5>1. /\ mk[n].kind = "positive" /\ ek.kind = "positive"
              /\ mk[n + 1].consumed = mk[n].consumed + ek.consumed
          BY <4>1 DEF MarkElement, Push, Positive, ek
        <5>2. md[n].kind = "positive" /\ md[n].consumed = mk[n].consumed
          BY <4>2, <5>1
        <5>3. ed.kind = "positive" /\ ed.consumed = ek.consumed
          BY <4>4, <5>1 DEF Agree, LengthError
        <5>4. md[n + 1] = Push("drop_result", md[n], ed)
          BY <4>1, <5>2, <5>3 DEF MarkElement, ed
        <5> QED BY <5>1, <5>2, <5>3, <5>4 DEF Push, Positive
      <4>6. Full(mk[n + 1], md[n + 1])
        <5> SUFFICES ASSUME mk[n + 1] = LengthError, md[n + 1].kind = "positive"
                     PROVE  md[n + 1].consumed >= Room
          OBVIOUS
        <5>1. CASE mk[n].kind # "positive"
          <6>1. mk[n] = LengthError
            BY <4>1, <5>1 DEF MarkElement
          <6> QED BY <1>4, <4>2, <4>3, <6>1
        <5>2. CASE mk[n].kind = "positive"
          <6>1. mk[n + 1] = IF ek.kind # "positive" THEN ek ELSE Push("keep_result", mk[n], ek)
            BY <4>1, <5>2 DEF MarkElement, ek
          <6>2. ek = LengthError
            BY <6>1 DEF Push, Positive, LengthError
          <6>3. ed.consumed >= Room
            BY <4>3, <4>4, <5>2, <6>2 DEF Heavy, Room
          <6> QED BY <1>4, <4>3, <6>3
        <5> QED BY <5>1, <5>2
      <4> QED BY <4>2, <4>5, <4>6
    <3>5. \A n \in 0 .. N : n \in S
      <4> HIDE DEF S, N
      <4> QED BY <2>1, <3>3, <3>4, Upwards
    <3>6. k = LengthError /\ d.kind = "positive" => d.consumed >= Room
      <4>1. N \in 0 .. N
        BY <2>1
      <4> QED BY <2>2, <3>1, <3>5, <4>1
    <3> QED BY <2>6, <3>6 DEF Heavy, Room, k, d
  <2> QED BY <2>7, <2>8
<1> QED BY <1>5, <1>6

\* So does every reply.
LEMMA RawParseHeavy ==
  ASSUME NEW B, NEW bytes \in Seq(B), NEW at \in 0 .. Len(bytes)
  PROVE  Heavy(RawParse(bytes, "keep_result")[at], RawParse(bytes, "drop_result")[at])
<1> DEFINE pk == RawParse(bytes, "keep_result")
           pd == RawParse(bytes, "drop_result")
           L == Len(bytes)
           S == {x \in 0 .. L : Heavy(pk[x], pd[x])}
<1>1. L \in Nat
  OBVIOUS
<1>2. ASSUME NEW x \in 0 .. L, \A later \in x + 1 .. L : later \in S
      PROVE  x \in S
  <2>1. /\ ParsesBehind(bytes, x, "keep_result", pk) /\ ParsesBehind(bytes, x, "drop_result", pd)
        /\ \A later \in x + 1 .. L : Agree(pk[later], pd[later])
    <3>1. \A later \in x + 1 .. L : later \in 0 .. L
      BY <1>1
    <3> QED BY <3>1, RawParseWithin, RawParseAgrees DEF ParsesBehind
  <2>2. pk[x] = ParseAt(bytes, "keep_result", x, pk) /\ pd[x] = ParseAt(bytes, "drop_result", x, pd)
    BY RawParseEquation
  <2>3. \A later \in x + 1 .. L : Heavy(pk[later], pd[later])
    BY <1>2
  <2> HIDE DEF pk, pd
  <2>4. Heavy(pk[x], pd[x])
    <3>1. CASE x = L
      BY <2>2, <3>1 DEF ParseAt, Heavy, NotEnoughData
    <3>2. CASE x # L
      <4>1. x \in 0 .. Len(bytes) - 1
        BY <1>1, <3>2
      <4>2. \A type : Heavy(LineParser(type, bytes, x, "keep_result"), LineParser(type, bytes, x, "drop_result"))
        <5> TAKE type
        <5>1. LineParser(type, bytes, x, "keep_result") # LengthError
          BY DEF LineParser, MarkLine, Positive, NotEnoughData, LengthError
        <5> QED BY <4>1, <5>1, HeadTakesThree DEF Heavy
      <4>3. Heavy(BulkStringParser(bytes, x, "keep_result"), BulkStringParser(bytes, x, "drop_result"))
        <5>1. BulkStringParser(bytes, x, "keep_result") # LengthError
          <6> DEFINE count == CountParser(bytes, x, "keep_result")
          <6>1. count # LengthError
            BY CountAgrees
          <6> HIDE DEF count
          <6>2. MarkBulkString(bytes, x, "keep_result", count) # LengthError
            BY <6>1 DEF MarkBulkString, Positive, NotEnoughData, ProtocolError, LengthError
          <6> QED BY <6>2 DEF BulkStringParser, count
        <5> QED BY <4>1, <5>1, HeadTakesThree DEF Heavy
      <4>4. Heavy(ArrayParser(bytes, x, "keep_result", pk), ArrayParser(bytes, x, "drop_result", pd))
        BY <2>1, <2>3, <4>1, ArrayHeavy
      <4>5. Heavy(ProtocolError("wrong_intoduction"), ProtocolError("wrong_intoduction"))
        BY DEF Heavy, ProtocolError
      <4> QED BY <2>2, <3>2, <4>2, <4>3, <4>4, <4>5 DEF ParseAt
    <3> QED BY <3>1, <3>2
  <2> QED BY <2>4 DEF pk, pd
<1>3. \A x \in 0 .. L : x \in S
  <2> HIDE DEF S, L
  <2> QED BY <1>1, <1>2, Downwards
<1> QED BY <1>3

\* A reply that the completion condition has accepted never makes the read
\* operation throw, unless it has brought more elements than a vector may have:
\* a count alone, however large, only waits for bytes that do not come.
THEOREM FeedKeepsAccepted == Spec => []AcceptedIsKept
<1>1. BufferOK => AcceptedIsKept
  <2> DEFINE keep == Verdict("keep_result")
             drop == Verdict("drop_result")
  <2> SUFFICES ASSUME BufferOK, Accepted(drop), drop.consumed < 3 * (ReserveMax + 2)
               PROVE  Accepted(keep)
    BY DEF AcceptedIsKept
  <2>1. Agree(keep, drop) /\ Heavy(keep, drop)
    <3>1. buf \in Seq(Bytes) /\ 0 \in 0 .. Len(buf)
      BY DEF BufferOK
    <3> QED BY <3>1, RawParseAgrees, RawParseHeavy DEF Verdict, Parse
  <2>2. drop.consumed \in Nat /\ ReserveMax \in Nat
    BY VerdictWithin, WithinCases, LimitsAssumption DEF Takes, Accepted
  <2> HIDE DEF keep, drop
  <2>3. keep # LengthError
    BY <2>1, <2>2 DEF Heavy, Accepted
  <2> QED BY <2>1, <2>3 DEF Agree, Accepted
<1> QED BY <1>1, BufferTyped, PTL

-----------------------------------------------------------------------------
(* The markers of a reply.                                                  *)

\* Sequences that are rows, one behind the other, make a row when they are
\* flattened.
LEMMA FlattenRow ==
  ASSUME BufferOK, NEW n \in Nat, n # 0, NEW parts, Len(parts) = n, NEW deep \in Int,
         NEW from, NEW to,
         \A i \in 1 .. n : /\ from[i] \in Int /\ to[i] \in Int /\ from[i] <= to[i]
                           /\ Row(buf, parts[i], deep, from[i], to[i]),
         \A i, j \in 1 .. n : i < j => to[i] <= from[j]
  PROVE  Row(buf, FlattenSeq(parts), deep, from[1], to[n])
<1>1. PICK f : /\ FlattenSeq(parts) = f[n] /\ f[1] = parts[1]
               /\ \A i \in 1 .. n - 1 : f[i + 1] = f[i] \o parts[i + 1]
  BY FlattenRounds
<1> DEFINE S == {k \in 0 .. n - 1 : Row(buf, f[k + 1], deep, from[1], to[k + 1])}
<1>2. 0 \in S
  <2>1. 1 \in 1 .. n /\ 0 \in 0 .. n - 1 /\ 0 + 1 = 1
    OBVIOUS
  <2> QED BY <1>1, <2>1
<1>3. ASSUME NEW k \in 0 .. n - 2, k \in S PROVE k + 1 \in S
  <2> DEFINE i == k + 1
             j == k + 2
  <2>1. /\ 1 \in 1 .. n /\ i \in 1 .. n - 1 /\ i \in 1 .. n /\ j \in 1 .. n
        /\ i < j /\ (1 < i \/ 1 = i) /\ 1 < j /\ i + 1 = j /\ i \in 0 .. n - 1
    OBVIOUS
  <2>2. Row(buf, f[i], deep, from[1], to[i])
    BY <1>3
  <2> HIDE DEF i, j, S
  <2>3. Row(buf, parts[j], deep, from[j], to[j]) /\ f[j] = f[i] \o parts[j]
    BY <1>1, <2>1
  <2>4. /\ from[1] \in Int /\ to[1] \in Int /\ to[i] \in Int /\ from[j] \in Int /\ to[j] \in Int
        /\ from[1] <= to[1] /\ to[1] <= from[j] /\ to[i] <= from[j] /\ from[j] <= to[j]
    BY <2>1
  <2>5. from[1] <= from[j] /\ to[i] <= to[j]
    BY <2>4
  <2>6. Row(buf, f[j], deep, from[1], to[j])
    BY <2>2, <2>3, <2>4, <2>5, RowJoin DEF BufferOK
  <2> QED BY <2>1, <2>6 DEF i, j, S
<1>4. \A k \in 0 .. n - 1 : k \in S
  <2>1. n - 1 \in Nat /\ (n - 1) - 1 = n - 2
    OBVIOUS
  <2> HIDE DEF S
  <2> QED BY <1>2, <1>3, <2>1, Upwards
<1>5. n - 1 \in 0 .. n - 1 /\ (n - 1) + 1 = n
  OBVIOUS
<1> QED BY <1>1, <1>4, <1>5

\* A row is still one, nested one deeper, with the elements in the place of
\* every array.
LEMMA UnfoldRow ==
  ASSUME BufferOK, NEW markers, NEW deep \in Int, NEW low \in Int, NEW high \in Int,
         Row(buf, markers, deep, low, high)
  PROVE  Row(buf, Unfold(markers), deep + 1, low, high)
<1> DEFINE n == Len(markers)
           parts == [i \in DOMAIN markers |->
                       IF markers[i].type = "array" THEN markers[i].elements ELSE <<markers[i]>>]
<1>1. n \in Nat /\ DOMAIN markers = 1 .. n /\ Unfold(markers) = FlattenSeq(parts)
  BY DEF Row, Unfold
<1>2. PICK starts : RowAt(buf, markers, starts, deep, low, high)
  BY DEF Row
<1> DEFINE Ends(i) == starts[i] + Parsed(buf, starts[i]).consumed
           to == [i \in 1 .. n |-> Ends(i)]
<1>3. \A i \in 1 .. n : /\ MarkerAt(buf, markers[i], starts[i], high) /\ low <= starts[i]
                        /\ markers[i].type = "array" => deep <= starts[i]
  BY <1>2 DEF RowAt
<1>4. \A i, j \in 1 .. n : i < j => Ends(i) <= starts[j]
  BY <1>2 DEF RowAt
<1>5. Len(parts) = n
  BY <1>1
<1>6. ASSUME NEW i \in 1 .. n
      PROVE  /\ starts[i] \in Int /\ Ends(i) \in Int /\ starts[i] <= Ends(i)
             /\ low <= starts[i] /\ Ends(i) <= high
             /\ Row(buf, parts[i], deep + 1, starts[i], Ends(i))
  <2> DEFINE at == starts[i]
             marker == markers[i]
  <2>1. /\ MarkerAt(buf, marker, at, high) /\ low <= at
        /\ marker.type = "array" => deep <= at
    BY <1>3
  <2>2. at \in Int /\ Parsed(buf, at).consumed \in Nat /\ Ends(i) <= high
    BY <2>1, MarkerEnds DEF BufferOK
  <2>3. /\ at \in 0 .. Len(buf) /\ Parsed(buf, at).kind = "positive"
        /\ marker = Parsed(buf, at).result
    BY <2>1 DEF MarkerAt
  <2>4. parts[i] = IF marker.type = "array" THEN marker.elements ELSE <<marker>>
    BY <1>1
  <2>5. Ends(i) \in Int /\ at <= Ends(i) /\ Ends(i) = at + Parsed(buf, at).consumed
    BY <2>2
  <2>6. CASE marker.type = "array"
    <3>1. Row(buf, marker.elements, at + 1, at + 1, at + Parsed(buf, at).consumed)
      BY <2>3, <2>6, ElementsRow DEF BufferOK
    <3>2. at + 1 \in Int /\ deep + 1 \in Int /\ deep + 1 <= at + 1 /\ at <= at + 1 /\ Ends(i) <= Ends(i)
      BY <2>1, <2>2, <2>5, <2>6, SMTT(40)
    <3> HIDE DEF parts, at, marker, Ends
    <3>3. Row(buf, marker.elements, deep + 1, at, Ends(i))
      BY <2>2, <2>5, <3>1, <3>2, RowWiden DEF BufferOK
    <3> QED BY <2>1, <2>2, <2>4, <2>5, <2>6, <3>3 DEF at
  <2>7. CASE marker.type # "array"
    <3>1. Row(buf, <<marker>>, deep + 1, at, at + Parsed(buf, at).consumed)
      <4> HIDE DEF at, marker
      <4> QED BY <2>3, <2>7, RowOfOne DEF BufferOK
    <3> HIDE DEF parts, marker, Ends
    <3> QED BY <2>1, <2>2, <2>4, <2>5, <2>7, <3>1
  <2> QED BY <2>6, <2>7
<1>7. CASE n = 0
  <2>1. parts = <<>> /\ Len(parts) = 0
    BY <1>1, <1>7
  <2>2. Unfold(markers) = <<>>
    BY <1>1, <2>1 DEF FlattenSeq
  <2> QED BY <2>2, RowOfNone DEF BufferOK
<1>8. CASE n # 0
  <2>1. /\ 1 \in 1 .. n /\ n \in 1 .. n
    BY <1>1, <1>8
  <2> HIDE DEF parts, n
  <2>2. \A i \in 1 .. n : to[i] = Ends(i)
    OBVIOUS
  <2> HIDE DEF to, Ends
  <2>3. Row(buf, FlattenSeq(parts), deep + 1, starts[1], to[n])
    <3>1. \A i \in 1 .. n : /\ starts[i] \in Int /\ to[i] \in Int /\ starts[i] <= to[i]
                            /\ Row(buf, parts[i], deep + 1, starts[i], to[i])
      BY <1>6, <2>2
    <3>2. \A i, j \in 1 .. n : i < j => to[i] <= starts[j]
      BY <1>4, <2>2
    <3>3. n \in Nat /\ deep + 1 \in Int
      BY <1>1
    <3> QED BY <1>5, <1>8, <3>1, <3>2, <3>3, FlattenRow
  <2>4. /\ starts[1] \in Int /\ low <= starts[1] /\ to[n] \in Int /\ to[n] <= high
    BY <1>6, <2>1, <2>2
  <2>5. deep + 1 \in Int /\ deep + 1 <= deep + 1
    OBVIOUS
  <2> QED BY <1>1, <2>3, <2>4, <2>5, RowWiden DEF BufferOK
<1> QED BY <1>7, <1>8

\* The leaves of a marker are what is left when it is unfolded again and again.
LEMMA LeavesRounds ==
  ASSUME BufferOK, NEW marker
  PROVE  \E f : /\ Leaves(marker) = f[Len(buf)] /\ f[0] = <<marker>>
                /\ \A n \in 0 .. Len(buf) - 1 : f[n + 1] = Unfold(f[n])
<1> DEFINE L == Len(buf)
           Unfolded(f, k) ==
             f = [depth \in 0 .. k |-> IF depth = 0 THEN <<marker>> ELSE Unfold(f[depth - 1])]
           S == {k \in 0 .. L : \E f : Unfolded(f, k)}
<1>1. L \in Nat
  BY DEF BufferOK
<1> HIDE DEF L
<1>2. \A k \in 0 .. L : k \in S
  <2>1. 0 \in S
    <3>1. Unfolded([depth \in 0 .. 0 |-> <<marker>>], 0)
      OBVIOUS
    <3> HIDE DEF Unfolded
    <3> QED BY <1>1, <3>1
  <2>2. ASSUME NEW k \in 0 .. L - 1, k \in S PROVE k + 1 \in S
    <3>1. PICK f : Unfolded(f, k)
      BY <2>2
    <3> DEFINE g == [depth \in 0 .. k + 1 |-> IF depth <= k THEN f[depth] ELSE Unfold(f[k])]
    <3>2. ASSUME NEW depth \in 0 .. k + 1
          PROVE  g[depth] = IF depth = 0 THEN <<marker>> ELSE Unfold(g[depth - 1])
      <4>1. k \in Nat /\ depth \in Nat
        BY <1>1
      <4>2. CASE depth = 0
        <5>1. g[depth] = f[depth] /\ depth \in 0 .. k
          BY <4>1, <4>2
        <5> HIDE DEF g
        <5> QED BY <3>1, <4>2, <5>1
      <4>3. CASE depth # 0 /\ depth <= k
        <5>1. g[depth] = f[depth] /\ g[depth - 1] = f[depth - 1] /\ depth \in 0 .. k
          BY <4>1, <4>3
        <5> HIDE DEF g
        <5>2. f[depth] = Unfold(f[depth - 1])
          BY <3>1, <4>3, <5>1
        <5> QED BY <4>3, <5>1, <5>2
      <4>4. CASE depth = k + 1
        <5>1. depth # 0 /\ depth - 1 = k /\ ~ (depth <= k)
          BY <4>1, <4>4
        <5>2. g[depth] = Unfold(f[k]) /\ g[k] = f[k]
          BY <4>1, <5>1
        <5> HIDE DEF g
        <5> QED BY <5>1, <5>2
      <4> QED BY <4>1, <4>2, <4>3, <4>4
    <3>3. Unfolded(g, k + 1)
      BY <3>2, Zenon
    <3>4. k + 1 \in 0 .. L
      BY <1>1
    <3> HIDE DEF g, Unfolded
    <3> QED BY <3>3, <3>4
  <2> HIDE DEF S
  <2> QED BY <1>1, <2>1, <2>2, Upwards
<1> DEFINE unfolded == CHOOSE f : Unfolded(f, L)
<1>3. Leaves(marker) = unfolded[L]
  BY Zenon DEF Leaves, L
<1>4. Unfolded(unfolded, L)
  <2>1. \E f : Unfolded(f, L)
    <3> HIDE DEF Unfolded
    <3> QED BY <1>1, <1>2
  <2> HIDE DEF Unfolded
  <2> QED BY <2>1, Zenon
<1> HIDE DEF unfolded
<1>5. unfolded[0] = <<marker>> /\ \A n \in 0 .. L - 1 : unfolded[n + 1] = Unfold(unfolded[n])
  <2>1. unfolded[0] = <<marker>>
    BY <1>1, <1>4
  <2>2. ASSUME NEW n \in 0 .. L - 1 PROVE unfolded[n + 1] = Unfold(unfolded[n])
    <3>1. n + 1 \in 0 .. L /\ n + 1 # 0 /\ (n + 1) - 1 = n
      BY <1>1
    <3> QED BY <1>4, <3>1
  <2> QED BY <2>1, <2>2
<1> QED BY <1>3, <1>5 DEF L

\* The leaves of an accepted reply are a row of its bytes, none of them an array:
\* an array nested as deeply as the buffer is long would start behind its end.
LEMMA LeavesRow ==
  ASSUME BufferOK, Accepted(Verdict("keep_result"))
  PROVE  LET verdict == Verdict("keep_result") IN
         Row(buf, Leaves(verdict.result), Len(buf), 0, verdict.consumed)
<1> DEFINE verdict == Verdict("keep_result")
           L == Len(buf)
           high == verdict.consumed
<1>1. /\ L \in Nat /\ buf \in Seq(Bytes) /\ 0 \in 0 .. Len(buf)
      /\ verdict = Parsed(buf, 0) /\ verdict.kind = "positive"
  BY DEF BufferOK, Accepted, Verdict, Parse, Parsed
<1>2. verdict.consumed \in 1 .. Len(buf) - 0
  BY <1>1, ParsedTakes
<1>3. high \in Int /\ 0 + Parsed(buf, 0).consumed = high
  BY <1>1, <1>2
<1>4. PICK f : /\ Leaves(verdict.result) = f[L] /\ f[0] = << verdict.result >>
               /\ \A n \in 0 .. L - 1 : f[n + 1] = Unfold(f[n])
  BY LeavesRounds
<1> HIDE DEF verdict, high
<1> DEFINE S == {n \in 0 .. L : Row(buf, f[n], n, 0, high)}
<1>5. 0 \in S
  <2>1. Row(buf, <<Parsed(buf, 0).result>>, 0, 0, 0 + Parsed(buf, 0).consumed)
    <3>1. 0 \in Int /\ 0 <= 0
      OBVIOUS
    <3> QED BY <1>1, <3>1, RowOfOne
  <2> QED BY <1>1, <1>3, <1>4, <2>1
<1>6. ASSUME NEW n \in 0 .. L - 1, n \in S PROVE n + 1 \in S
  <2>1. /\ Row(buf, f[n], n, 0, high) /\ n \in Int /\ 0 \in Int
        /\ f[n + 1] = Unfold(f[n]) /\ n + 1 \in 0 .. L
    BY <1>1, <1>4, <1>6
  <2>2. Row(buf, Unfold(f[n]), n + 1, 0, high)
    BY <1>3, <2>1, UnfoldRow
  <2> QED BY <2>1, <2>2
<1>7. \A n \in 0 .. L : n \in S
  <2> HIDE DEF S, L
  <2> QED BY <1>1, <1>5, <1>6, Upwards
<1> QED BY <1>1, <1>4, <1>7 DEF verdict, high

\* The markers of an accepted reply, however deeply nested, lie one behind the
\* other inside its bytes, each in front of its terminator.
THEOREM FeedMarkersInsideReply == Spec => []MarkersInsideReply
<1>1. BufferOK => MarkersInsideReply
  <2> SUFFICES ASSUME BufferOK, Accepted(Verdict("keep_result")) PROVE MarkersInsideReply
    BY DEF MarkersInsideReply
  <2> DEFINE verdict == Verdict("keep_result")
             leaves == Leaves(verdict.result)
             high == verdict.consumed
             L == Len(buf)
  <2>1. Row(buf, leaves, L, 0, high)
    BY LeavesRow
  <2>2. L \in Nat /\ buf \in Seq(Bytes)
    BY DEF BufferOK
  <2> HIDE DEF verdict, leaves, high
  <2>3. DOMAIN leaves = 1 .. Len(leaves)
    BY <2>1 DEF Row
  <2>4. PICK starts : RowAt(buf, leaves, starts, L, 0, high)
    BY <2>1 DEF Row
  <2> DEFINE Ends(i) == starts[i] + Parsed(buf, starts[i]).consumed
  <2>5. ASSUME NEW i \in DOMAIN leaves
        PROVE  /\ leaves[i].type # "array" /\ starts[i] \in Nat /\ Ends(i) \in Int /\ Ends(i) <= high
               /\ leaves[i].to \in Int /\ leaves[i].from \in Int
               /\ starts[i] < leaves[i].from /\ leaves[i].from <= leaves[i].to
               /\ leaves[i].to + 2 <= Ends(i) /\ TerminatorAt(buf, leaves[i].to)
    <3> DEFINE at == starts[i]
               marker == leaves[i]
    <3>1. /\ MarkerAt(buf, marker, at, high) /\ (marker.type = "array" => L <= at)
      BY <2>3, <2>4 DEF RowAt
    <3>2. /\ at \in 0 .. Len(buf) /\ Parsed(buf, at).kind = "positive"
          /\ marker = Parsed(buf, at).result /\ Ends(i) <= high
      BY <3>1 DEF MarkerAt
    <3>3. Parsed(buf, at).consumed \in 1 .. Len(buf) - at
      BY <2>2, <3>2, ParsedTakes
    <3>4. at \in Nat /\ Ends(i) \in Int /\ ~ (L <= at)
      BY <2>2, <3>2, <3>3
    <3>5. marker.type # "array"
      BY <3>1, <3>4
    <3>6. Inside(buf, at, Parsed(buf, at).consumed, marker)
      BY <2>2, <3>2, <3>5, ScalarInside
    <3> HIDE DEF at, marker
    <3>7. /\ marker.to \in Int /\ marker.from \in at + 1 .. marker.to
          /\ marker.to + 2 <= at + Parsed(buf, at).consumed /\ TerminatorAt(buf, marker.to)
      BY <3>6 DEF Inside
    <3>8. marker.from \in Int /\ at < marker.from /\ marker.from <= marker.to
      BY <3>4, <3>7
    <3> QED BY <3>2, <3>4, <3>5, <3>7, <3>8 DEF at, marker
  <2>6. \A i, j \in DOMAIN leaves : i < j => Ends(i) <= starts[j]
    BY <2>3, <2>4 DEF RowAt
  <2>7. ASSUME NEW i \in DOMAIN leaves
        PROVE  0 < leaves[i].from /\ leaves[i].to + 2 <= high
    <3>1. /\ starts[i] \in Nat /\ Ends(i) \in Int /\ Ends(i) <= high /\ leaves[i].to \in Int
          /\ leaves[i].from \in Int /\ starts[i] < leaves[i].from /\ leaves[i].to + 2 <= Ends(i)
      BY <2>5
    <3>2. high \in Int
      BY <2>2, <2>7, ParsedTakes, VerdictWithin, WithinCases DEF Takes, high, verdict, Accepted
    <3> HIDE DEF Ends
    <3> QED BY <3>1, <3>2
  <2>8. ASSUME NEW i \in DOMAIN leaves, NEW j \in DOMAIN leaves, i < j
        PROVE  leaves[i].to + 2 < leaves[j].from
    <3>1. /\ leaves[i].to \in Int /\ leaves[i].to + 2 <= Ends(i) /\ Ends(i) \in Int
          /\ starts[j] \in Nat /\ leaves[j].from \in Int /\ starts[j] < leaves[j].from
      BY <2>5
    <3>2. Ends(i) <= starts[j]
      BY <2>6, <2>8
    <3> HIDE DEF Ends
    <3> QED BY <3>1, <3>2
  <2> QED BY <2>5, <2>7, <2>8 DEF MarkersInsideReply, verdict, leaves, high
<1> QED BY <1>1, BufferTyped, PTL

=============================================================================
