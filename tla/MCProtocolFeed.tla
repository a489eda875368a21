--------------------------- MODULE MCProtocolFeed ---------------------------
(* Arbitrary bytes, one at a time, and arbitrary pieces of replies.        *)
EXTENDS ProtocolFeed

\* every introduction byte, the terminator's bytes, a digit and a sign
SingleBytes == {<<c>> : c \in {"+", "-", "$", "*", CR, LF, "1"}}

\* heads and bodies, whole and split, for longer replies and nested arrays
Pieces ==
  { <<"*", "2", CR, LF>>, <<"*", "0", CR>>, <<"$", "1", CR, LF>>,
    <<"$", "-", "1">>, <<":">>, <<CR, LF>>, <<LF>> }

\* whole replies, a count out of range, and arrays up to one of more elements than
\* there is room for
Wholes ==
  { <<"*", "3", CR, LF>>, <<"*", "2", CR, LF>>, <<"*", "1", CR, LF>>,
    <<":", CR, LF>>, <<"$", "-", "1", CR, LF>>, <<"*", "-", "1", CR, LF>>,
    <<"$", "-", "2", CR, LF>> }

\* what each set is fed for: every branch of the parser, nesting, and arrays that
\* are accepted with as many elements as a vector can hold, and with one more
MCFeeds ==
  {[chunks |-> SingleBytes, max_bytes |-> 6], [chunks |-> Pieces, max_bytes |-> 12],
   [chunks |-> Wholes, max_bytes |-> 18]}
ShortFeeds == {[chunks |-> Pieces, max_bytes |-> 9]}
=============================================================================
