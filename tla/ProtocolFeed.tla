---------------------------- MODULE ProtocolFeed ----------------------------
(***************************************************************************)
(* The parser over a buffer that grows.  MatchResult (impl/common.ipp) and *)
(* the read operation (impl/async_op.ipp) both call Protocol::parse on     *)
(* whatever part of the stream has been received, again and again, with    *)
(* two different policies.  A connection is only correct when the verdicts *)
(* of all these calls fit together; this module lets arbitrary bytes, well *)
(* formed or not, arrive in arbitrary chunks and says what must fit.       *)
(***************************************************************************)
EXTENDS Protocol

CONSTANTS
  Feeds,     (* records [chunks, max_bytes]: the byte sequences that may    *)
             (* arrive at once and, a bound, how many bytes arrive before a *)
             (* verdict is reached                                          *)
  Beyond     (* bound: how many chunks arrive after it                     *)

ASSUME FeedsAssumption ==
  /\ \A f \in Feeds : \A chunk \in f.chunks : chunk \in Seq(Range(chunk))
  /\ Beyond \in Nat

VARIABLES
  feed,      (* the feed of this behaviour                                 *)
  buf,       (* the bytes received so far                                  *)
  extra      (* how many chunks arrived after the verdict                  *)

vars == <<feed, buf, extra>>

Verdict(policy) == Parse(policy, buf)
Decided(verdict) == verdict # NotEnoughData
Accepted(verdict) == verdict.kind = "positive"

Init == feed \in Feeds /\ buf = <<>> /\ extra = 0

\* the next bytes of a reply that is not complete yet
Arrive(chunk) ==
  /\ ~Decided(Verdict("drop_result"))
  /\ Len(buf) + Len(chunk) <= feed.max_bytes
  /\ buf' = buf \o chunk
  /\ UNCHANGED <<feed, extra>>

\* the bytes that follow a decided reply in the same buffer
ArriveBeyond(chunk) ==
  /\ Decided(Verdict("drop_result"))
  /\ extra < Beyond
  /\ buf' = buf \o chunk
  /\ extra' = extra + 1
  /\ UNCHANGED feed

Next == \E chunk \in feed.chunks : Arrive(chunk) \/ ArriveBeyond(chunk)

Spec == Init /\ [][Next]_vars

-----------------------------------------------------------------------------
\* the bytes that may arrive
Bytes == UNION {Range(chunk) : chunk \in feed.chunks}

BredisErrors ==
  {"wrong_intoduction", "count_conversion", "count_range", "bulk_terminator"}

\* the exception of reserve(): keep_result asked for more than a vector can hold
Throws(verdict) == verdict = LengthError

\* Whatever has arrived, the parser returns one of the three alternatives of
\* parse_result_t, or keep_result throws because an array is announced that has
\* more elements than a vector; drop_result never does.
TypeOK ==
  /\ feed \in Feeds /\ buf \in Seq(Bytes)
  /\ extra \in 0 .. Beyond
  /\ \A policy \in Policies :
       LET verdict == Verdict(policy) IN
       \/ verdict = NotEnoughData
       \/ verdict.kind = "positive" /\ verdict.consumed \in Nat
       \/ verdict.kind = "protocol_error" /\ verdict.code \in BredisErrors
       \/ policy = "keep_result" /\ ReserveMax < LongMax /\ Throws(verdict)

\* Once the parser has accepted or refused the bytes of a buffer, no bytes
\* that arrive behind them change the verdict, the number of bytes consumed or
\* the markers: what MatchResult saw on an early chunk is still what the read
\* operation sees when it parses the whole buffer.
DecisionStable ==
  \A policy \in Policies : \A n \in 0 .. Len(buf) - 1 :
    LET early == Parse(policy, SubSeq(buf, 1, n)) IN
    Decided(early) => Verdict(policy) = early

\* The drop_result instance that MatchResult always uses and the keep_result
\* instance that the read operation may use reach the same verdict on the same
\* bytes, with the same error and the same number of bytes consumed, unless the
\* latter throws.
PoliciesAgree ==
  LET drop == Verdict("drop_result")
      keep == Verdict("keep_result")
  IN  ~Throws(keep) =>
        /\ keep.kind = drop.kind
        /\ Accepted(keep) => keep.consumed = drop.consumed
        /\ keep.kind = "protocol_error" => keep.code = drop.code

\* A reply that MatchResult has accepted does not make the read operation throw,
\* unless it has really brought the elements that a vector has no room for: the
\* head of an array takes three bytes or more, and so does each of its elements.
AcceptedIsKept ==
  LET drop == Verdict("drop_result") IN
  Accepted(drop) /\ drop.consumed < 3 * (ReserveMax + 2) => Accepted(Verdict("keep_result"))

\* An accepted reply is decided by its own bytes: the parser does not read
\* past the bytes it consumes, nor wait for a byte that the server only sends
\* with its next reply.
DecidedByItsOwnBytes ==
  \A policy \in Policies :
    LET verdict == Verdict(policy) IN
    Accepted(verdict) =>
      /\ verdict.consumed \in 1 .. Len(buf)
      /\ Parse(policy, SubSeq(buf, 1, verdict.consumed)) = verdict

\* the elements in the place of every array
Unfold(markers) ==
  FlattenSeq([i \in DOMAIN markers |->
    IF markers[i].type = "array" THEN markers[i].elements ELSE <<markers[i]>>])

\* the markers of a result that hold a range of the buffer, in the order of the
\* elements: no reply is nested as deeply as it has bytes
Leaves(marker) ==
  LET unfolded[depth \in 0 .. Len(buf)] ==
        IF depth = 0 THEN <<marker>> ELSE Unfold(unfolded[depth - 1])
  IN  unfolded[Len(buf)]

\* The markers that keep_result hands to the client lie inside the consumed
\* bytes, in order and without overlap, and each ends where a terminator
\* starts: consuming the reply takes all of a marker's bytes and no marker
\* reaches into the next reply.
MarkersInsideReply ==
  LET verdict == Verdict("keep_result") IN
  Accepted(verdict) =>
    LET leaves == Leaves(verdict.result) IN
    /\ \A i \in DOMAIN leaves :
         /\ leaves[i].type # "array"
         /\ 0 < leaves[i].from /\ leaves[i].from <= leaves[i].to
         /\ leaves[i].to + 2 <= verdict.consumed
         /\ TerminatorAt(buf, leaves[i].to)
    /\ \A i, j \in DOMAIN leaves : i < j => leaves[i].to + 2 < leaves[j].from

\* README.md says of async_read that it reads "until an error (I/O or protocol)
\* is encountered; then read_callback will be invoked": the error on which
\* MatchResult ends the read must be returned to the read operation too.  But
\* the keep_result parser first reserves room for the elements of an array, and
\* throws when their number is beyond what a vector can hold.
ErrorsAreReported ==
  Verdict("drop_result").kind = "protocol_error" =>
    Verdict("keep_result") = Verdict("drop_result")
=============================================================================
