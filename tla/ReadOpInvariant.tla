-------------------------- MODULE ReadOpInvariant --------------------------
(***************************************************************************)
(* The inductive invariant of ReadOp: what each phase of a read knows.     *)
(* ReadOpProofs proves that it is one; TLC checks it on small instances.   *)
(***************************************************************************)
EXTENDS ReadOp

\* an operation in progress was asked for a reply; when it is done, and only
\* then, there is a result
OperationOK ==
  /\ pc # "idle" => op.kind # "none" /\ op.replies_count >= 1
  /\ IF pc = "done" THEN result.status # "none" ELSE result = NoResult

\* MatchResult stands at the end of the replies it has matched, short of the
\* last one, and op() has not begun
MatchOK ==
  pc \in {"match", "wait"} =>
    /\ matched < op.replies_count
    /\ taken + matched <= Len(stream.ends)
    /\ at = End(stream, taken + matched) /\ at <= received
    /\ ec = "none"
    /\ begin = base /\ count = 0 /\ cumulative = 0 /\ tmp_results = <<>>

\* it waits only for a reply that is not there
WaitOK == pc = "wait" => ~InBuffer(matched + 1)

\* read_until failed although nothing of the answer was lost
ErrorOK ==
  pc = "parse" /\ ec # "none" =>
    /\ ~InBuffer(op.replies_count)
    /\ ec = "eof" => ~Sent(op.replies_count)
    /\ ec = "not_found" => Size >= MaxSize

\* MatchResult ended behind all replies, or before bytes that are refused
MatchEnded ==
  \/ matched = op.replies_count
  \/ /\ matched < op.replies_count
     /\ taken + matched = Len(stream.ends)
     /\ ParseOf("drop_result", Window(stream, End(stream, Len(stream.ends)), received)).kind
          = "protocol_error"

\* op() has parsed some of the replies that MatchResult matched
ParseOK ==
  pc = "parse" /\ ec = "none" =>
    /\ count < op.replies_count /\ count <= matched
    /\ taken + matched <= Len(stream.ends)
    /\ End(stream, taken + matched) <= received
    /\ begin = End(stream, taken + count)
    /\ cumulative = begin - base
    /\ tmp_results = NextReplies(count)
    /\ MatchEnded

IInv ==
  /\ TypeOK /\ BufferAtReply /\ NoAbort
  /\ OperationOK /\ MatchOK /\ WaitOK /\ ErrorOK /\ ParseOK
  /\ SuccessExact /\ FailureJustified
=============================================================================
