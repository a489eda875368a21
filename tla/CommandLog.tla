----------------------------- MODULE CommandLog -----------------------------
(***************************************************************************)
(* What a client may rely on when it writes commands: the server gets them *)
(* whole, in the order of the calls, each once; a write that succeeds      *)
(* leaves none of them behind, and a write that fails is the last one.  No *)
(* bytes, buffers or pieces.                                               *)
(***************************************************************************)
EXTENDS Naturals, Sequences

CONSTANT Commands   (* what a client may write                             *)

VARIABLES
  calls,     (* the commands handed to the connection                      *)
  executed,  (* the commands the server has got                            *)
  answer     (* of the write that ends: "none", "ok" or "error"            *)

vars == <<calls, executed, answer>>

Init == calls = <<>> /\ executed = <<>> /\ answer = "none"

Hand(cmd) ==
  /\ answer = "none"
  /\ calls' = Append(calls, cmd)
  /\ UNCHANGED <<executed, answer>>

Execute(n) ==
  /\ answer = "none"
  /\ Len(executed) < n
  /\ executed' = SubSeq(calls, 1, n)
  /\ UNCHANGED <<calls, answer>>

Succeed ==
  /\ answer = "none"
  /\ executed = calls
  /\ answer' = "ok"
  /\ UNCHANGED <<calls, executed>>

Fail ==
  /\ answer = "none"
  /\ answer' = "error"
  /\ UNCHANGED <<calls, executed>>

Take ==
  /\ answer = "ok"
  /\ answer' = "none"
  /\ UNCHANGED <<calls, executed>>

Next ==
  \/ \E cmd \in Commands : Hand(cmd)
  \/ \E n \in 1 .. Len(calls) : Execute(n)
  \/ Succeed \/ Fail \/ Take

Spec == Init /\ [][Next]_vars
=============================================================================
