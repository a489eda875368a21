-------------------------- MODULE MCProtocolReplies --------------------------
(* Every kind of reply, alone and inside arrays.                           *)
EXTENDS ProtocolReplies

Scalars ==
  { [wire |-> "+", str |-> <<"O">>], [wire |-> "-", str |-> <<>>],
    [wire |-> ":", value |-> -10], [wire |-> "$", str |-> <<CR, LF>>],
    [wire |-> "$", str |-> <<>>],  [wire |-> "$-1"], [wire |-> "*-1"] }

ArraysOf(elements) ==
  {[wire |-> "*", elements |-> <<>>]}
    \cup {[wire |-> "*", elements |-> <<a>>] : a \in elements}
    \cup {[wire |-> "*", elements |-> <<a, b>>] : a, b \in elements}

Some ==
  {[wire |-> "$", str |-> <<CR, LF>>], [wire |-> ":", value |-> 7], [wire |-> "*-1"]}

\* ten elements or bytes: the counts have two digits
Long ==
  { [wire |-> "$", str |-> [i \in 1 .. 10 |-> "x"]],
    [wire |-> "$", str |-> [i \in 1 .. 9 |-> "$"]],
    [wire |-> "*", elements |-> [i \in 1 .. 10 |-> [wire |-> "$-1"]]] }

\* arrays of arrays
Deep ==
  { [wire |-> "*", elements |-> <<a, [wire |-> "*", elements |-> bs]>>] :
      a \in Some, bs \in {<<>>} \cup {<<b>> : b \in Some} }

MCReplies == Scalars \cup Long \cup ArraysOf(Some) \cup Deep
\* texts of some replies, beginnings of others, and texts of none
MCSought ==
  {<<>>, <<"O">>, <<"7">>, <<"-", "1">>, <<"-", "1", "0">>, <<CR, LF>>, <<CR>>,
   [i \in 1 .. 9 |-> "$"]}
=============================================================================
