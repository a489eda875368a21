---------------------------- MODULE MarkerHelpers ----------------------------
(***************************************************************************)
(* The visitors of include/bredis/MarkerHelpers.hpp, which look at a reply *)
(* in the receive buffer: equality and check_subscription.                 *)
(*                                                                         *)
(* A marker is given with the text between its iterators, a sequence of    *)
(* characters or (a channel, a payload) a value of its own.                *)
(* check_subscription converts the text of an integer: there it is given   *)
(* as the sequence of the number that conversion yields, empty when it     *)
(* fails, because the parser lets any text pass for an integer.            *)
(***************************************************************************)
EXTENDS Integers, Sequences, SequencesExt

StringValue(text) == [type |-> "string", text |-> text]
IntValue(text) == [type |-> "int", text |-> text]
ErrorValue(text) == [type |-> "error", text |-> text]
ArrayValue(elements) == [type |-> "array", elements |-> elements]

LowerCase == <<"a", "b", "c", "d", "e", "f", "g", "h", "i", "j", "k", "l", "m",
               "n", "o", "p", "q", "r", "s", "t", "u", "v", "w", "x", "y", "z">>
UpperCase == <<"A", "B", "C", "D", "E", "F", "G", "H", "I", "J", "K", "L", "M",
               "N", "O", "P", "Q", "R", "S", "T", "U", "V", "W", "X", "Y", "Z">>

\* std::toupper
Upper == [c \in Range(LowerCase) \cup Range(UpperCase) |->
            IF Contains(LowerCase, c)
            THEN UpperCase[SelectInSeq(LowerCase, LAMBDA l : l = c)] ELSE c]

\* mutant: std::equal with three iterators, over the characters of the marker
EqualityOfPrefix(value, str) == value.type # "array" /\ IsPrefix(value.text, str)

\* equality::operator(): nil is what its text says, an array is nothing
Equality(value, str) == value.type # "array" /\ value.text = str

-----------------------------------------------------------------------------
(* check_subscription.                                                      *)

SameLetter(a, b) == Upper[a] = Upper[b]

\* std::equal(cmd->from, cmd->to, arguments[0].cbegin()): as many characters as
\* the reply has are compared, without regard to case, until two differ.  When the
\* reply goes on, so does the comparison, behind the end of the argument, and what
\* stands there is nobody's: `behind' says whether it is like the rest of the text.
EqualCommand(text, arg, behind) ==
  /\ \A i \in DOMAIN text \cap DOMAIN arg : SameLetter(text[i], arg[i])
  /\ Len(text) > Len(arg) => behind

\* mutant: the first element is not looked at
CheckAnyCommand(reply, arguments, behind) ==
  /\ reply.type = "array"
  /\ Len(reply.elements) = 3 /\ Len(arguments) >= 2
  /\ reply.elements[3].type = "int" /\ reply.elements[3].text # <<>>
  /\ reply.elements[3].text[1] \in 1 .. Len(arguments) - 1
  /\ reply.elements[2] = StringValue(arguments[reply.elements[3].text[1] + 1])

\* mutant: the last channel is out of scope
CheckAllButLast(reply, arguments, behind) ==
  CheckAnyCommand(reply, arguments, behind) /\ reply.elements[3].text[1] < Len(arguments) - 1

\* mutant: a reply that is not an array is taken for a confirmation
CheckNotRefused(reply, arguments, behind) ==
  reply.type = "array" => CheckAnyCommand(reply, arguments, behind)

\* check_subscription::operator(): three elements, of which the third is the
\* index (from 1) among the command's channels of the one that is confirmed;
\* `behind' is what EqualCommand says of it
CheckSubscription(reply, arguments, behind) ==
  /\ reply.type = "array"
  /\ Len(reply.elements) = 3 /\ Len(arguments) >= 2
  /\ reply.elements[1].type = "string"
  /\ EqualCommand(reply.elements[1].text, arguments[1], behind)
  /\ reply.elements[3].type = "int"
  /\ reply.elements[3].text # <<>>
  /\ LET idx == Head(reply.elements[3].text) IN
     /\ idx >= 1 /\ idx < Len(arguments)
     /\ reply.elements[2] = StringValue(arguments[idx + 1])
=============================================================================
