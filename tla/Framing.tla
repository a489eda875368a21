------------------------------- MODULE Framing -------------------------------
(***************************************************************************)
(* What reading replies needs of the parser: that it finds them in a       *)
(* stream, one behind the other, whatever part of it has arrived.          *)
(*                                                                         *)
(* A stream is a record [bytes, ends], ends[k] being the position at which *)
(* reply k ends; behind the last reply there may be more bytes.            *)
(***************************************************************************)
EXTENDS Integers, Sequences

CONSTANT ParseOf(_, _)   (* Protocol::parse of module Protocol: policy, bytes *)

Policies == {"keep_result", "drop_result"}

\* where reply k of a stream ends: the next one starts there
End(s, k) == IF k = 0 THEN 0 ELSE s.ends[k]

\* the bytes of a stream between two positions
Window(s, from, to) == SubSeq(s.bytes, from + 1, to)

\* every reply has bytes, and ends where the next one starts
Divided(s) ==
  /\ Len(s.bytes) \in Nat
  /\ Len(s.ends) \in Nat
  /\ \A k \in 0 .. Len(s.ends) : End(s, k) \in 0 .. Len(s.bytes)
  /\ \A k \in 0 .. Len(s.ends) : \A j \in 0 .. k - 1 : End(s, j) < End(s, k)

\* How the parser behaves at the start of a reply: it accepts the reply once all
\* its bytes are there, whatever follows, and asks for more data until then.
\* Behind the last reply it never accepts, and both policies refuse the same.
Framed(s, policy) ==
  /\ \A k \in 0 .. Len(s.ends) - 1 : \A to \in End(s, k) .. Len(s.bytes) :
       LET verdict == ParseOf(policy, Window(s, End(s, k), to)) IN
       IF to < End(s, k + 1)
       THEN verdict.kind = "not_enough_data"
       ELSE verdict.kind = "positive" /\ verdict.consumed = End(s, k + 1) - End(s, k)
  /\ \A to \in End(s, Len(s.ends)) .. Len(s.bytes) :
       LET rest == Window(s, End(s, Len(s.ends)), to) IN
       /\ ParseOf(policy, rest).kind \in {"not_enough_data", "protocol_error"}
       /\ ParseOf(policy, rest).kind = ParseOf("drop_result", rest).kind
=============================================================================
