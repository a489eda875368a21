------------------------------- MODULE Extract -------------------------------
(***************************************************************************)
(* extractor of include/bredis/Extract.hpp: the visitor that copies a      *)
(* marked-up result out of the receive buffer, so that the buffer may be   *)
(* consumed.  An integer is converted by boost::lexical_cast, which throws *)
(* when the text of the marker is not a number.                            *)
(***************************************************************************)
EXTENDS Protocol

BadLexicalCast == [type |-> "bad_lexical_cast"]

\* mutant: the last byte is lost
TextShort(buf, marker) == SubSeq(buf, marker.from + 1, marker.to - 1)

\* the bytes between the two iterators of a marker
Text(buf, marker) == SubSeq(buf, marker.from + 1, marker.to)

\* boost::lexical_cast<int64_t>: a sign at most, then digits and nothing else
Converts(text) ==
  LET digits == IF text # <<>> /\ text[1] \in {"-", "+"}
                THEN Tail(text) ELSE text
  IN  digits # <<>> /\ Range(digits) \subseteq Range(Digits) /\ ~Strtol(text).errno

ExtractInt(text) ==
  IF Converts(text) THEN [type |-> "int", value |-> Strtol(text).value]
                    ELSE BadLexicalCast

\* redis_result_t of a buffer of `size' bytes: no array is nested as deeply as it
\* has bytes
Marked(size) ==
  LET markers[d \in 0 .. size] ==
        [type : {"string", "error", "int", "nil"}, from : 0 .. size, to : 0 .. size]
          \cup [type : {"array"}, elements : IF d = 0 THEN {<<>>} ELSE Seq(markers[d - 1])]
  IN  markers[size]

\* one visit, `extract' being the visits of the elements
Visit(buf, marker, extract) ==
  CASE marker.type \in {"string", "error"} ->
         [type |-> marker.type, str |-> Text(buf, marker)]
    [] marker.type = "int" -> ExtractInt(Text(buf, marker))
    [] marker.type = "nil" -> [type |-> "nil"]
    [] marker.type = "array" ->
         LET elements == [i \in DOMAIN marker.elements |-> extract[marker.elements[i]]]
         IN  IF BadLexicalCast \in Range(elements)
             THEN BadLexicalCast
             ELSE [type |-> "array", elements |-> elements]

\* extractor::operator(); an exception from an element leaves the whole array
Extract(buf, marker) ==
  LET extract[m \in Marked(Len(buf))] == Visit(buf, m, extract)
  IN  extract[marker]
=============================================================================
