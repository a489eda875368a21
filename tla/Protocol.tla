------------------------------ MODULE Protocol ------------------------------
(***************************************************************************)
(* The Redis protocol parser of include/bredis/impl/protocol.ipp:          *)
(* Protocol::parse<Iterator, Policy>(from, to), the pure function on which *)
(* every read of a bredis connection rests.                                *)
(*                                                                         *)
(* A buffer is a sequence of bytes and an iterator into it is an offset    *)
(* (the byte an iterator at offset i points to is buf[i + 1]; `to' is      *)
(* always Len(buf)).  Bytes are one-character strings.  A marker holds     *)
(* offsets, as the markers of Markers.hpp hold iterators.                  *)
(***************************************************************************)
EXTENDS Integers, Sequences, SequencesExt

CONSTANTS
  LongMax,    (* LONG_MAX: what strtol can return                          *)
  ReserveMax  (* the most elements that vector::reserve can make room for  *)

ASSUME LimitsAssumption == LongMax \in Nat /\ ReserveMax \in Nat

CR == "\r"
LF == "\n"
Digits == <<"0", "1", "2", "3", "4", "5", "6", "7", "8", "9">>
Blanks == {" ", "\t", "\f", CR, LF}

Policies == {"keep_result", "drop_result"}

(***************************************************************************)
(* parse_result_t: not enough data, a protocol error, or a positive result.*)
(* The drop_result policy carries only the number of bytes; keep_result    *)
(* also carries the markers.                                               *)
(***************************************************************************)
NotEnoughData == [kind |-> "not_enough_data"]
ProtocolError(code) == [kind |-> "protocol_error", code |-> code]
LengthError == [kind |-> "length_error"]  \* std::length_error, std::bad_alloc

StringMarker(from, to) == [type |-> "string", from |-> from, to |-> to]
ArrayMarker(elements) == [type |-> "array", elements |-> elements]

\* markup_helper_t: what a policy makes of a marker
Positive(policy, consumed, marker) ==
  IF policy = "keep_result"
  THEN [kind |-> "positive", consumed |-> consumed, result |-> marker]
  ELSE [kind |-> "positive", consumed |-> consumed]

-----------------------------------------------------------------------------
\* the offsets in buf at which a terminator starts, not before `from'
Terminators(buf, from) ==
  {i \in from .. Len(buf) - 2 : buf[i + 1] = CR /\ buf[i + 2] = LF}

\* mutant: the last terminator of the buffer instead of the first
SearchLastTerminator(buf, from) ==
  Max(IF Terminators(buf, from) = {} THEN {Len(buf)} ELSE Terminators(buf, from))

\* mutant: half a terminator at the end of the buffer is taken for a whole one
SearchHalfTerminator(buf, from) ==
  Min({Len(buf)} \cup Terminators(buf, from)
        \cup {i \in {Len(buf) - 1} : i >= from /\ buf[i + 1] = CR})

\* static_string_t::search for the terminator: Len(buf) when it is not found
SearchTerminator(buf, from) == Min({Len(buf)} \cup Terminators(buf, from))

\* static_string_t::equal of the two bytes at `tail' and the terminator
TerminatorAt(buf, tail) == buf[tail + 1] = CR /\ buf[tail + 2] = LF

\* the verdict on a line whose text starts at `from', its terminator at `found'
MarkLine(type, buf, from, found, already_consumed, policy) ==
  IF found = Len(buf)
  THEN NotEnoughData
  ELSE Positive(policy, already_consumed + 2 + (found - from),
                [type |-> type, from |-> from, to |-> found])

\* mutant: drop_result forgets already_consumed
LineParserForgetful(type, buf, at, policy) ==
  MarkLine(type, buf, at + 1, SearchTerminator(buf, at + 1),
           IF policy = "drop_result" THEN 0 ELSE 1, policy)

\* string_parser_t, error_parser_t and int_parser_t: a line up to the
\* terminator, the introduction byte included in `consumed'
LineParser(type, buf, at, policy) ==
  MarkLine(type, buf, at + 1, SearchTerminator(buf, at + 1), 1, policy)

(***************************************************************************)
(* strtol(count_ptr, &count_end, 10): blanks, a sign, the longest prefix   *)
(* of digits; 0 when there is no digit.  errno is set when the number does *)
(* not fit a long.  The sum saturates just above what a long can hold.     *)
(***************************************************************************)
EndOfString == "end"  \* the NUL of a C string, no byte of a text
FirstNotIn(text, bytes) ==
  SelectInSeq(text \o <<EndOfString>>, LAMBDA c : c \notin bytes)

SkipBlanks(text) == SubSeq(text, FirstNotIn(text, Blanks), Len(text))
LeadingDigits(text) == SubSeq(text, 1, FirstNotIn(text, Range(Digits)) - 1)

DigitValue(c) == SelectInSeq(Digits, LAMBDA d : d = c) - 1

Number(digits) ==
  LET number[n \in 0 .. Len(digits)] ==
        IF n = 0 THEN 0
        ELSE Min({10 * number[n - 1] + DigitValue(digits[n]), LongMax + 2})
  IN  number[Len(digits)]

Signed(text) ==
  CASE text # <<>> /\ text[1] = "-" -> [sign |-> -1, digits |-> Tail(text)]
    [] text # <<>> /\ text[1] = "+" -> [sign |-> 1, digits |-> Tail(text)]
    [] OTHER -> [sign |-> 1, digits |-> text]

InLong(value) == [errno |-> value > LongMax \/ value < -LongMax - 1, value |-> value]
ToLong(signed) == InLong(signed.sign * Number(LeadingDigits(signed.digits)))

Strtol(text) == ToLong(Signed(SkipBlanks(text)))

\* mutant: a terminator is consumed behind nil, as it is behind a bulk string
UnwrapCountAndSkip(line, count, policy) ==
  CASE count.errno -> ProtocolError("count_conversion")
    [] ~count.errno /\ count.value = -1 ->
         Positive(policy, line.consumed + 2, [line.result EXCEPT !.type = "nil"])
    [] ~count.errno /\ count.value < -1 -> ProtocolError("count_range")
    [] OTHER -> [kind |-> "count", value |-> count.value, consumed |-> line.consumed]

\* unwrap_count_t: -1 is nil; `count' is what strtol makes of the line
UnwrapCount(line, count, policy) ==
  CASE count.errno -> ProtocolError("count_conversion")
    [] ~count.errno /\ count.value = -1 ->
         Positive(policy, line.consumed, [line.result EXCEPT !.type = "nil"])
    [] ~count.errno /\ count.value < -1 -> ProtocolError("count_range")
    [] OTHER -> [kind |-> "count", value |-> count.value, consumed |-> line.consumed]

ParseCount(buf, line, policy) ==
  IF line.kind # "positive" THEN line
  ELSE UnwrapCount(line, Strtol(SubSeq(buf, line.result.from + 1, line.result.to)), policy)

\* count_parser_t with unwrap_count_t: the element or byte count of an array
\* or a bulk string
CountParser(buf, at, policy) ==
  ParseCount(buf, LineParser("string", buf, at, "keep_result"), policy)

\* mutants of a bulk string: `wait' bytes are waited for behind the string, the
\* marker ends `over' bytes late, `skip' bytes are consumed behind the string
MisreadBulkString(buf, at, policy, count, wait, over, skip) ==
  IF count.kind # "count" THEN count ELSE
  LET head == at + count.consumed
      tail == head + count.value
  IN  IF Len(buf) - head < count.value + wait THEN NotEnoughData
      ELSE IF Len(buf) < tail + 2 \/ ~TerminatorAt(buf, tail)
      THEN ProtocolError("bulk_terminator")
      ELSE Positive(policy, count.consumed + count.value + skip,
                    StringMarker(head, tail + over))
BulkStringEarly(buf, at, policy, count) == MisreadBulkString(buf, at, policy, count, 1, 0, 2)
BulkStringLate(buf, at, policy, count) == MisreadBulkString(buf, at, policy, count, 3, 0, 2)
BulkStringWide(buf, at, policy, count) == MisreadBulkString(buf, at, policy, count, 2, 2, 2)
BulkStringShort(buf, at, policy, count) == MisreadBulkString(buf, at, policy, count, 2, 0, 0)

\* the string of `count' bytes behind its head, and its terminator
MarkBulkString(buf, at, policy, count) ==
  IF count.kind # "count" THEN count ELSE
  LET head == at + count.consumed
      tail == head + count.value
  IN  IF Len(buf) - head < count.value + 2 THEN NotEnoughData
      ELSE IF ~TerminatorAt(buf, tail) THEN ProtocolError("bulk_terminator")
      ELSE Positive(policy, count.consumed + count.value + 2, StringMarker(head, tail))

\* bulk_string_parser_t
BulkStringParser(buf, at, policy) ==
  MarkBulkString(buf, at, policy, CountParser(buf, at, policy))

\* mutant: drop_result counts no element
PushForgetful(policy, sofar, element) ==
  IF policy = "keep_result"
  THEN Positive(policy, sofar.consumed + element.consumed,
                ArrayMarker(Append(sofar.result.elements, element.result)))
  ELSE sofar

\* array_helper_t::push
Push(policy, sofar, element) ==
  Positive(policy, sofar.consumed + element.consumed,
           IF policy = "keep_result"
           THEN ArrayMarker(Append(sofar.result.elements, element.result))
           ELSE ArrayMarker(<<>>))

\* one round of the loop over the elements, `parse' being raw_parse: the first
\* element that is no positive result is returned
MarkElement(at, policy, sofar, parse) ==
  IF sofar.kind # "positive" THEN sofar ELSE
  LET element == parse[at + sofar.consumed] IN
  IF element.kind # "positive" THEN element ELSE Push(policy, sofar, element)

\* mutant: room is made for elements that drop_result does not keep
MarkArrayAlwaysReserving(at, policy, count, parse) ==
  IF count.kind # "count" THEN count ELSE
  IF count.value > ReserveMax THEN LengthError ELSE
  LET marked[n \in 0 .. count.value] ==
        IF n = 0 THEN Positive(policy, count.consumed, ArrayMarker(<<>>))
                 ELSE MarkElement(at, policy, marked[n - 1], parse)
  IN  marked[count.value]

\* mutant: the room that is made is one element too large
MarkArrayReserving(at, policy, count, parse) ==
  IF count.kind # "count" THEN count ELSE
  IF policy = "keep_result" /\ count.value + 1 > ReserveMax THEN LengthError ELSE
  LET marked[n \in 0 .. count.value] ==
        IF n = 0 THEN Positive(policy, count.consumed, ArrayMarker(<<>>))
                 ELSE MarkElement(at, policy, marked[n - 1], parse)
  IN  marked[count.value]

\* the loop.  The elements are reserved beforehand when the result is kept.
MarkArray(at, policy, count, parse) ==
  IF count.kind # "count" THEN count ELSE
  IF policy = "keep_result" /\ count.value > ReserveMax THEN LengthError ELSE
  LET marked[n \in 0 .. count.value] ==
        IF n = 0 THEN Positive(policy, count.consumed, ArrayMarker(<<>>))
                 ELSE MarkElement(at, policy, marked[n - 1], parse)
  IN  marked[count.value]

\* array_parser_t
ArrayParser(buf, at, policy, parse) ==
  MarkArray(at, policy, CountParser(buf, at, policy), parse)

\* raw_parse at an offset, with construct_primary_parcer_t: the introduction
\* byte selects the parser; `parse' is raw_parse at the offsets behind it
ParseAt(buf, policy, at, parse) ==
  IF at = Len(buf) THEN NotEnoughData ELSE
  CASE buf[at + 1] = "+" -> LineParser("string", buf, at, policy)
    [] buf[at + 1] = "-" -> LineParser("error", buf, at, policy)
    [] buf[at + 1] = ":" -> LineParser("int", buf, at, policy)
    [] buf[at + 1] = "$" -> BulkStringParser(buf, at, policy)
    [] buf[at + 1] = "*" -> ArrayParser(buf, at, policy, parse)
    [] OTHER -> ProtocolError("wrong_intoduction")

\* raw_parse, at every offset
RawParse(buf, policy) ==
  LET parse[at \in 0 .. Len(buf)] == ParseAt(buf, policy, at, parse) IN parse

\* Protocol::parse<Iterator, Policy>(from, to) on the bytes of [from, to)
Parse(policy, buf) == RawParse(buf, policy)[0]
=============================================================================
