---------------------------- MODULE ReplyChannel ----------------------------
(***************************************************************************)
(* What a client may rely on when it reads replies: it asks for a number   *)
(* of replies and is answered with exactly the next ones of the stream, or *)
(* is refused and has lost nothing.  No buffers, chunks or parsing.        *)
(***************************************************************************)
EXTENDS Integers, Sequences

CONSTANTS
  Streams,      (* the streams of replies a server may send                *)
  ReplyCounts   (* the numbers of replies a client may ask for             *)

VARIABLES
  stream,       (* [bytes, ends]: the bytes, and where each reply ends     *)
  taken,        (* how many replies the client has taken                   *)
  asked,        (* [count, kept] of the request, or Nothing                *)
  answer        (* [consumed, replies] of the answer, Refused or Nothing   *)

vars == <<stream, taken, asked, answer>>

Nothing == [count |-> -1, kept |-> FALSE]
NoAnswer == [consumed |-> -1, replies |-> <<>>]
Refused == [consumed |-> 0, replies |-> <<>>]

\* where reply k of a stream ends: the next one starts there
End(s, k) == IF k = 0 THEN 0 ELSE s.ends[k]

\* the byte ranges of the n replies that follow the first k
Replies(s, k, n) == [i \in 1 .. n |-> <<End(s, k + i - 1), End(s, k + i)>>]

Init ==
  /\ stream \in Streams
  /\ taken = 0
  /\ asked = Nothing
  /\ answer = NoAnswer

Ask(count, kept) ==
  /\ asked = Nothing
  /\ asked' = [count |-> count, kept |-> kept]
  /\ UNCHANGED <<stream, taken, answer>>

Answer ==
  /\ asked # Nothing /\ answer = NoAnswer
  /\ taken + asked.count <= Len(stream.ends)
  /\ answer' = [consumed |-> End(stream, taken + asked.count) - End(stream, taken),
                replies |-> IF asked.kept THEN Replies(stream, taken, asked.count)
                                          ELSE <<>>]
  /\ UNCHANGED <<stream, taken, asked>>

Refuse ==
  /\ asked # Nothing /\ answer = NoAnswer
  /\ answer' = Refused
  /\ UNCHANGED <<stream, taken, asked>>

Take ==
  /\ answer # NoAnswer
  /\ taken' = IF answer = Refused THEN taken ELSE taken + asked.count
  /\ asked' = Nothing
  /\ answer' = NoAnswer
  /\ UNCHANGED stream

Next ==
  \/ \E count \in ReplyCounts, kept \in BOOLEAN : Ask(count, kept)
  \/ Answer \/ Refuse \/ Take

Spec == Init /\ [][Next]_vars
=============================================================================
