------------------------------- MODULE ReadOp -------------------------------
(***************************************************************************)
(* Reading replies from a bredis connection: Connection::async_read with   *)
(* async_read_op_impl (impl/async_op.ipp), the synchronous Connection::read*)
(* (impl/connection.ipp) and the match condition MatchResult they both     *)
(* give to asio's read_until (impl/common.ipp).                            *)
(*                                                                         *)
(* The buffer is read twice.  While bytes arrive, MatchResult looks for    *)
(* replies_count replies with the drop_result policy, each call resuming   *)
(* where the last one stopped.  When it is satisfied, op() parses the whole*)
(* buffer again from its beginning, with the client's policy, and trusts   *)
(* that it finds what MatchResult found.                                   *)
(*                                                                         *)
(* Positions count the bytes of the stream; the receive buffer holds those *)
(* from base to received.                                                  *)
(***************************************************************************)
EXTENDS Framing

CONSTANTS
  Streams,       (* what servers send                                       *)
  ReplyCounts,   (* the values of replies_count a client uses               *)
  MaxSize,       (* rx_buff.max_size()                                      *)
  IntMax,        (* the largest int                                         *)
  ReserveMax     (* the most replies that vector::reserve can make room for *)

VARIABLES
  stream,        (* what this server sends                                  *)
  closed,        (* the server has closed the connection behind the stream  *)
  received,      (* how many bytes have been committed to rx_buff           *)
  base,          (* how many of them the client has consumed                *)
  taken,         (* history: how many replies the client was given          *)
  pc,            (* what the connection does next                           *)
  op,            (* the operation: [kind, replies_count, policy]            *)
  at,            (* parse_from of MatchResult, between calls search_position*)
  matched,       (* matched_results_                                        *)
  ec,            (* the error code of read_until, "none" if there is none   *)
  begin,         (* where op() parses next                                  *)
  count,         (* result_visitor_t::count                                 *)
  cumulative,    (* result_visitor_t::cumulative_consumption                *)
  tmp_results,   (* result_visitor_t::tmp_results: ranges of the stream     *)
  result         (* what the client's handler is given                      *)

matching == <<at, matched>>
visitor == <<begin, count, cumulative, tmp_results>>
vars == <<stream, closed, received, base, taken, pc, op, at, matched, ec, begin,
          count, cumulative, tmp_results, result>>

ReadErrors == {"eof", "operation_aborted", "not_found"}

ASSUME ConstantsAssumption ==
  /\ ReplyCounts \subseteq Nat
  /\ MaxSize \in Nat
  /\ IntMax \in Nat \ {0}
  /\ ReserveMax \in Nat

ASSUME StreamsAssumption == \A s \in Streams : Divided(s)

\* ProtocolRepliesProofs proves this of module Protocol and of the streams that
\* servers send.
ASSUME FramingAssumption == \A s \in Streams, policy \in Policies : Framed(s, policy)

\* The two conditions on its use under which a read is correct: a client asks
\* for at least one reply, and a reply is no longer than an int can tell.
CountsPositive == 0 \notin ReplyCounts
RepliesFitInt ==
  \A s \in Streams : \A k \in 1 .. Len(s.ends) :
    End(s, k) - End(s, k - 1) <= IntMax

-----------------------------------------------------------------------------
NoOperation == [kind |-> "none", replies_count |-> 0, policy |-> "drop_result"]
NoResult == [status |-> "none", ec |-> "none", consumed |-> 0,
             shape |-> "none", replies |-> <<>>]

\* ResultVisitor::construct() beside an error code, and {{}, 0} of read()
Failure(code) == [NoResult EXCEPT !.status = "error", !.ec = code]

\* complete_result(): a single reply as it is, several as one array; the
\* drop_result policy keeps only the number of bytes
Success(operation, replies, consumed) ==
  [status |-> "ok", ec |-> "none", consumed |-> consumed,
   shape |-> IF operation.policy = "drop_result" THEN "none"
             ELSE IF operation.replies_count = 1 THEN "single" ELSE "array",
   replies |-> IF operation.policy = "drop_result" THEN <<>> ELSE replies]

\* mutant: the cast is to a type that ends at 3
ToNarrowInt(consumed) == IF consumed <= 3 THEN consumed ELSE ((consumed + 4) % 8) - 4

\* static_cast<int>(consumed)
ToInt(consumed) ==
  IF consumed <= IntMax THEN consumed
  ELSE ((consumed + IntMax + 1) % (2 * (IntMax + 1))) - (IntMax + 1)

\* consumed_parse of the bytes from parse_from on
Consumable ==
  LET verdict == ParseOf("drop_result", Window(stream, at, received)) IN
  IF verdict.kind = "positive" THEN ToInt(verdict.consumed)
  ELSE IF verdict.kind = "not_enough_data" THEN 0 ELSE -1

\* what op() finds at the beginning of the bytes it has not yet parsed
ParseResult == ParseOf(op.policy, Window(stream, begin, received))

\* result_visitor_t::init() of keep_result makes room for all replies; read() has
\* no visitor
RoomForReplies ==
  op.kind = "async" /\ op.policy = "keep_result" => op.replies_count <= ReserveMax

Size == received - base

Init ==
  /\ stream \in Streams
  /\ closed = FALSE
  /\ received = 0 /\ base = 0 /\ taken = 0
  /\ pc = "idle" /\ op = NoOperation
  /\ at = 0 /\ matched = 0 /\ ec = "none"
  /\ begin = 0 /\ count = 0 /\ cumulative = 0 /\ tmp_results = <<>>
  /\ result = NoResult

-----------------------------------------------------------------------------
(* Starting an operation.  The client has consumed the last result.         *)

\* mutant: the visitor of the last operation is used again
StartReusesVisitor(kind, replies_count, policy) ==
  /\ pc = "idle"
  /\ pc' = "match"
  /\ op' = [kind |-> kind, replies_count |-> replies_count, policy |-> policy]
  /\ at' = base /\ matched' = 0 /\ ec' = "none"
  /\ begin' = base /\ count' = 0
  /\ UNCHANGED <<stream, closed, received, base, taken, result, cumulative, tmp_results>>

Start(kind, replies_count, policy) ==
  /\ pc = "idle"
  /\ pc' = "match"
  /\ op' = [kind |-> kind, replies_count |-> replies_count, policy |-> policy]
  /\ at' = base /\ matched' = 0 /\ ec' = "none"
  /\ begin' = base /\ count' = 0 /\ cumulative' = 0 /\ tmp_results' = <<>>
  /\ UNCHANGED <<stream, closed, received, base, taken, result>>

\* Connection::async_read, and state_t::init of async_read_op_impl
AsyncRead(replies_count, policy) == Start("async", replies_count, policy)

\* Connection::read
Read == Start("sync", 1, "keep_result")

-----------------------------------------------------------------------------
(* MatchResult::operator(), an action for each way an iteration of its loop *)
(* can go, and read_until around it.                                        *)

\* mutants: the search ends with the wrong reply, or waits for more bytes
\* after each reply it finds
MatchReplyWith(last, more) ==
  /\ pc = "match"
  /\ Consumable \notin {0, -1}
  /\ matched' = matched + 1
  /\ at' = at + Consumable
  /\ pc' = IF matched' = last THEN "parse" ELSE more
  /\ UNCHANGED <<stream, closed, received, base, taken, op, ec, visitor, result>>
MatchReplyShort ==
  MatchReplyWith(IF op.replies_count > 1 THEN op.replies_count - 1 ELSE 1, "match")
MatchReplyOver == MatchReplyWith(op.replies_count + 1, "match")
MatchReplyOnce == MatchReplyWith(op.replies_count, "wait")

\* a reply was found: go on behind it, or stop when it was the last.  A cast
\* that came out negative can send the iterator in front of the buffer, whether
\* there are more replies to find or not.
MatchReply ==
  /\ pc = "match"
  /\ Consumable \notin {0, -1}
  /\ matched' = matched + 1
  /\ at' = at + Consumable
  /\ pc' = IF at' < base THEN "undefined"
           ELSE IF matched' = op.replies_count THEN "parse" ELSE "match"
  /\ UNCHANGED <<stream, closed, received, base, taken, op, ec, visitor, result>>

\* mutant: the position is lost, the number of matched replies is not
MatchNeedsDataRestarts ==
  /\ pc = "match"
  /\ Consumable = 0
  /\ at' = base
  /\ IF Size < MaxSize THEN pc' = "wait" /\ ec' = ec
                       ELSE pc' = "parse" /\ ec' = "not_found"
  /\ UNCHANGED <<stream, closed, received, base, taken, op, matched, visitor, result>>

\* no enough data: read_until reads more, or gives up when the buffer is full
MatchNeedsData ==
  /\ pc = "match"
  /\ Consumable = 0
  /\ IF Size < MaxSize THEN pc' = "wait" /\ ec' = ec
                       ELSE pc' = "parse" /\ ec' = "not_found"
  /\ UNCHANGED <<stream, closed, received, base, taken, op, matching, visitor, result>>

\* parse error: the match is complete, op() will meet the error again
MatchError ==
  /\ pc = "match"
  /\ Consumable = -1
  /\ pc' = "parse"
  /\ UNCHANGED <<stream, closed, received, base, taken, op, matching, ec, visitor, result>>

\* async_read_some or read_some has put some bytes into the buffer
Deliver(bytes) ==
  /\ pc = "wait"
  /\ bytes <= MaxSize - Size
  /\ received + bytes <= Len(stream.bytes)
  /\ received' = received + bytes
  /\ pc' = "match"
  /\ UNCHANGED <<stream, closed, base, taken, op, matching, ec, visitor, result>>

PeerClose ==
  /\ ~closed
  /\ closed' = TRUE
  /\ UNCHANGED <<stream, received, base, taken, pc, op, matching, ec, visitor, result>>

ReadFails(code) ==
  /\ pc = "wait"
  /\ ec' = code
  /\ pc' = "parse"
  /\ UNCHANGED <<stream, closed, received, base, taken, op, matching, visitor, result>>

Eof == closed /\ received = Len(stream.bytes) /\ ReadFails("eof")

\* the client cancels its asynchronous operations
Cancel == op.kind = "async" /\ ReadFails("operation_aborted")

-----------------------------------------------------------------------------
(* async_read_op_impl::op, an iteration of its loop at a time; read() does  *)
(* the same with a single reply.                                            *)

\* read_until failed: the buffer is not looked at
OpError ==
  /\ pc = "parse"
  /\ ec # "none"
  /\ pc' = "done"
  /\ result' = Failure(ec)
  /\ UNCHANGED <<stream, closed, received, base, taken, op, matching, ec, visitor>>

\* visitor.init(): the exception of reserve() leaves op(), and no handler is called
ReserveThrows ==
  /\ pc = "parse"
  /\ ec = "none"
  /\ ~RoomForReplies
  /\ pc' = "thrown"
  /\ UNCHANGED <<stream, closed, received, base, taken, op, matching, ec, visitor, result>>

\* mutant: the consumption is that of the last reply
ParseReplyForgetful ==
  /\ pc = "parse"
  /\ ec = "none"
  /\ RoomForReplies
  /\ ParseResult.kind = "positive"
  /\ LET consumed == ParseResult.consumed
         next == IF count + 1 < op.replies_count THEN consumed ELSE 0
     IN  /\ count' = count + 1
         /\ cumulative' = consumed
         /\ tmp_results' = Append(tmp_results, <<begin, begin + consumed>>)
         /\ begin' = begin + next
         /\ IF next # 0
            THEN UNCHANGED <<pc, result>>
            ELSE pc' = "done" /\ result' = Success(op, tmp_results', cumulative')
  /\ UNCHANGED <<stream, closed, received, base, taken, op, matching, ec>>

ParseReply ==
  /\ pc = "parse"
  /\ ec = "none"
  /\ RoomForReplies
  /\ ParseResult.kind = "positive"
  /\ LET consumed == ParseResult.consumed
         next == IF count + 1 < op.replies_count THEN consumed ELSE 0
     IN  /\ count' = count + 1
         /\ cumulative' = cumulative + consumed
         /\ tmp_results' = Append(tmp_results, <<begin, begin + consumed>>)
         /\ begin' = begin + next
         /\ IF next # 0
            THEN UNCHANGED <<pc, result>>
            ELSE pc' = "done" /\ result' = Success(op, tmp_results', cumulative')
  /\ UNCHANGED <<stream, closed, received, base, taken, op, matching, ec>>

\* mutant: what was parsed before the error is consumed with it
ParseRefusedConsumes ==
  /\ pc = "parse"
  /\ ec = "none"
  /\ RoomForReplies
  /\ ParseResult.kind # "positive"
  /\ IF ParseResult.kind = "protocol_error"
     THEN /\ pc' = "done"
          /\ result' = [Failure("protocol_error") EXCEPT !.consumed = cumulative]
     ELSE /\ pc' = IF op.kind = "async" /\ ParseResult.kind = "not_enough_data"
                   THEN "aborted" ELSE "thrown"
          /\ result' = result
  /\ UNCHANGED <<stream, closed, received, base, taken, op, matching, ec, visitor>>

\* a protocol error is reported; but when there is not enough data after all,
\* base_result_visitor_t aborts the program and read() lets bad_get escape
ParseRefused ==
  /\ pc = "parse"
  /\ ec = "none"
  /\ RoomForReplies
  /\ ParseResult.kind # "positive"
  /\ IF ParseResult.kind = "protocol_error"
     THEN pc' = "done" /\ result' = Failure("protocol_error")
     ELSE /\ pc' = IF op.kind = "async" /\ ParseResult.kind = "not_enough_data"
                   THEN "aborted" ELSE "thrown"
          /\ result' = result
  /\ UNCHANGED <<stream, closed, received, base, taken, op, matching, ec, visitor>>

\* the client's handler, which calls rx_buff.consume(result.consumed)
Consume ==
  /\ pc = "done"
  /\ pc' = "idle"
  /\ base' = IF result.consumed <= Size THEN base + result.consumed ELSE received
  /\ taken' = IF result.status = "ok" THEN taken + op.replies_count ELSE taken
  /\ result' = NoResult
  /\ UNCHANGED <<stream, closed, received, op, matching, ec, visitor>>

-----------------------------------------------------------------------------
Match == MatchReply \/ MatchNeedsData \/ MatchError
Complete == OpError \/ ReserveThrows \/ ParseReply \/ ParseRefused
Receive == \E bytes \in 1 .. MaxSize : Deliver(bytes)

Next ==
  \/ \E n \in ReplyCounts, policy \in Policies : AsyncRead(n, policy)
  \/ Read
  \/ MatchReply \/ MatchNeedsData \/ MatchError
  \/ Receive
  \/ PeerClose \/ Eof \/ Cancel
  \/ OpError \/ ReserveThrows \/ ParseReply \/ ParseRefused
  \/ Consume

Spec == Init /\ [][Next]_vars

\* The thread that runs the io_context, or the caller of read(), goes on; the
\* network delivers what was sent and reports the end of the stream.
Fairness == WF_vars(Match) /\ WF_vars(Complete) /\ WF_vars(Receive) /\ WF_vars(Eof)
FairSpec == Spec /\ Fairness

-----------------------------------------------------------------------------
Statuses == {"none", "ok", "error"}
Codes == {"none", "protocol_error"} \cup ReadErrors

\* The types of the variables: the positions of the buffer stay in the stream,
\* and no cast sends the search position in front of it.
TypeOK ==
  /\ stream \in Streams /\ closed \in BOOLEAN
  /\ received \in 0 .. Len(stream.bytes) /\ base \in 0 .. received
  /\ taken \in 0 .. Len(stream.ends)
  /\ pc \in {"idle", "match", "wait", "parse", "done",
             "aborted", "thrown", "undefined"}
  /\ op \in [kind : {"none", "async", "sync"}, replies_count : Nat, policy : Policies]
  /\ at \in Nat /\ matched \in Nat /\ ec \in {"none"} \cup ReadErrors
  /\ begin \in Nat /\ count \in Nat /\ cumulative \in Nat
  /\ tmp_results \in Seq(Nat \X Nat)
  /\ result \in [status : Statuses, ec : Codes, consumed : Nat,
                 shape : {"none", "single", "array"}, replies : Seq(Nat \X Nat)]

\* the stream has n more replies, and they have all been received
Sent(n) == taken + n <= Len(stream.ends)
InBuffer(n) == Sent(n) /\ End(stream, taken + n) <= received

\* the byte ranges of the next n replies
NextReplies(n) ==
  [i \in 1 .. n |-> <<End(stream, taken + i - 1), End(stream, taken + i)>>]

\* Where MatchResult was satisfied, op() finds every reply that was asked for:
\* the program never reaches std::abort() in base_result_visitor_t, read()
\* lets no exception but its own escape, and no iterator leaves the buffer.  op()
\* throws only when it was asked for more replies than a vector has room for.
NoAbort ==
  /\ pc \notin {"aborted", "undefined"}
  /\ pc = "thrown" => ~RoomForReplies

\* A successful read gives the client exactly the replies it asked for, the
\* next ones of the stream, in order, each with its own bytes, and has it
\* consume these bytes and no others.  README.md: one reply is given as it is,
\* several are always an array.
SuccessExact ==
  pc = "done" /\ result.status = "ok" =>
    /\ InBuffer(op.replies_count)
    /\ result.consumed = End(stream, taken + op.replies_count) - base
    /\ op.policy = "keep_result" =>
         /\ result.replies = NextReplies(op.replies_count)
         /\ (result.shape = "array") = (op.replies_count > 1)

\* A read fails only when the replies it was asked for are not in the buffer,
\* whatever the end of the stream, a cancellation or the limit of the buffer
\* races with: at the end of the stream the server did not send them, at the
\* limit they do not fit, and a protocol error is met behind every reply that
\* could be answered.  It gives and consumes nothing, so a retry finds all.
FailureJustified ==
  pc = "done" /\ result.status = "error" =>
    /\ ~InBuffer(op.replies_count)
    /\ result.ec \in {"eof", "protocol_error"} => ~Sent(op.replies_count)
    /\ result.ec = "not_found" => Size >= MaxSize
    /\ result.consumed = 0 /\ result.replies = <<>>

\* A read whose replies have all been received does not wait for more bytes:
\* pipelined replies that came with the last answer are found without another
\* byte from the server, and MatchResult never stops short of the last reply.
NeverWaitsWhenAnswered == pc = "wait" => ~InBuffer(op.replies_count)

\* Between reads the receive buffer starts at the first byte of the reply
\* that follows those the client was given, whatever reads and failures of
\* either policy came before.
BufferAtReply == base = End(stream, taken)

InProgress == pc \notin {"idle", "done"}

\* A read ends when its replies are sent, or the server closes the connection.
ReadCompletes ==
  (InProgress /\ (closed \/ Sent(op.replies_count))) ~> ~InProgress

\* The client's side of a read, as module ReplyChannel sees it: it has asked
\* from the start of the operation on, and is answered when it is done.
Asked ==
  IF pc = "idle" THEN [count |-> -1, kept |-> FALSE]
  ELSE [count |-> op.replies_count, kept |-> op.policy = "keep_result"]
Answered ==
  IF pc # "done" THEN [consumed |-> -1, replies |-> <<>>]
  ELSE [consumed |-> result.consumed, replies |-> result.replies]

Channel == INSTANCE ReplyChannel WITH
  asked <- Asked, answer <- Answered, ReplyCounts <- ReplyCounts \cup {1}

\* The reads implement the channel of replies: what the client is given, read
\* after read, are the replies of the stream, none lost, repeated or out of
\* order.
ImplementsChannel == Channel!Spec
=============================================================================
