--------------------------- MODULE ProtocolProofs ---------------------------
(***************************************************************************)
(* What Protocol::parse does with every buffer: proofs about the operators *)
(* of module Protocol.                                                     *)
(*                                                                         *)
(* raw_parse and the loop over the elements of an array are recursive.  A  *)
(* recursive function is some function that satisfies its equation, if     *)
(* there is one; so the proofs first show that there is one, and then use  *)
(* nothing but the equation.                                               *)
(***************************************************************************)
EXTENDS Protocol, SequenceTheorems, WellFoundedInduction, TLAPS

(* Induction, over sets of numbers.                                        *)

Lower == {p \in Nat \X Nat : p[1] < p[2]}

\* The natural numbers are well founded.
LEMMA LowerIsWellFounded == IsWellFoundedOn(Lower, Nat)
<1>1. OpToRel(<, Nat) = Lower
  BY Zenon DEF OpToRel, Lower
<1> QED BY <1>1, NatLessThanWellFounded, Zenon

\* A set of natural numbers that is not empty has a least element.
LEMMA Least ==
  ASSUME NEW T \in SUBSET Nat, T # {}
  PROVE  \E x \in T : \A y \in T : x <= y
<1>1. PICK x \in T : \A y \in T : ~ (<<y, x>> \in Lower)
  <2>1. T \subseteq Nat
    OBVIOUS
  <2> QED BY <2>1, LowerIsWellFounded, WFMin, Zenon
<1>2. ASSUME NEW y \in T PROVE x <= y
  <2>1. x \in Nat /\ y \in Nat
    OBVIOUS
  <2>2. <<y, x>> \in Nat \X Nat /\ <<y, x>>[1] = y /\ <<y, x>>[2] = x
    BY <2>1
  <2>3. y < x => <<y, x>> \in Lower
    BY <2>1, <2>2 DEF Lower
  <2> QED BY <1>1, <2>1, <2>3
<1> QED BY <1>2

\* Induction upwards, from 0 to n.
LEMMA Upwards ==
  ASSUME NEW n \in Nat, NEW S, 0 \in S,
         \A i \in 0 .. n - 1 : i \in S => i + 1 \in S
  PROVE  \A i \in 0 .. n : i \in S
<1> DEFINE T == {i \in 0 .. n : i \notin S}
<1> SUFFICES ASSUME T # {} PROVE FALSE
  OBVIOUS
<1>1. PICK x \in T : \A y \in T : x <= y
  <2>1. T \in SUBSET Nat
    OBVIOUS
  <2> HIDE DEF T
  <2> QED BY <2>1, Least, Zenon
<1>2. x \in 0 .. n /\ x \notin S /\ x # 0
  OBVIOUS
<1>3. x - 1 \in 0 .. n - 1 /\ (x - 1) + 1 = x
  BY <1>2
<1>4. x - 1 \notin S
  BY <1>2, <1>3
<1>5. x - 1 \in T
  BY <1>3, <1>4
<1> QED BY <1>1, <1>2, <1>5

\* Induction downwards, from n to 0.
LEMMA Downwards ==
  ASSUME NEW n \in Nat, NEW S,
         \A i \in 0 .. n : (\A j \in i + 1 .. n : j \in S) => i \in S
  PROVE  \A i \in 0 .. n : i \in S
<1> DEFINE T == {k \in 0 .. n : n - k \notin S}
<1> SUFFICES ASSUME T # {} PROVE FALSE
  <2>1. ASSUME NEW i \in 0 .. n, i \notin S PROVE n - i \in T
    BY <2>1
  <2> QED BY <2>1
<1>1. PICK x \in T : \A y \in T : x <= y
  <2>1. T \in SUBSET Nat
    OBVIOUS
  <2> HIDE DEF T
  <2> QED BY <2>1, Least, Zenon
<1>2. n - x \in 0 .. n /\ n - x \notin S
  OBVIOUS
<1>3. ASSUME NEW j \in (n - x) + 1 .. n PROVE j \in S
  <2>1. n - j \in 0 .. n /\ n - j < x /\ n - (n - j) = j /\ j \in Int
    BY <1>2
  <2>2. n - j \notin T
    BY <1>1, <2>1
  <2> QED BY <2>1, <2>2
<1> QED BY <1>2, <1>3

-----------------------------------------------------------------------------
(* The least element of a set, and the first place in a sequence.           *)

\* Min is the least element of a set of natural numbers.
LEMMA MinIsLeast ==
  ASSUME NEW T \in SUBSET Nat, T # {}
  PROVE  Min(T) \in T /\ \A y \in T : Min(T) <= y
BY Least, Zenon DEF Min

\* Min of two integers is one of them.
LEMMA MinOfTwo ==
  ASSUME NEW a \in Int, NEW b \in Int
  PROVE  Min({a, b}) \in Int
<1>1. \E x \in {a, b} : \A y \in {a, b} : x <= y
  BY SMT
<1>2. Min({a, b}) \in {a, b}
  BY <1>1, Zenon DEF Min
<1> QED BY <1>2

-----------------------------------------------------------------------------
(* Sequences.                                                               *)

\* FlattenSeq appends one sequence after the other.
LEMMA FlattenRounds ==
  ASSUME NEW seqs, NEW n \in Nat, Len(seqs) = n, n # 0
  PROVE  \E f : /\ FlattenSeq(seqs) = f[n] /\ f[1] = seqs[1]
                /\ \A i \in 1 .. n - 1 : f[i + 1] = f[i] \o seqs[i + 1]
<1> DEFINE Joined(f, k) == f = [i \in 1 .. k |-> IF i = 1 THEN seqs[i] ELSE f[i - 1] \o seqs[i]]
           S == {k \in 0 .. n - 1 : \E f : Joined(f, k + 1)}
<1>1. \A k \in 0 .. n - 1 : k \in S
  <2>1. 0 \in S
    <3>1. Joined([i \in 1 .. 0 + 1 |-> seqs[i]], 0 + 1)
      OBVIOUS
    <3> HIDE DEF Joined
    <3> QED BY <3>1
  <2>2. ASSUME NEW k \in 0 .. n - 2, k \in S PROVE k + 1 \in S
    <3>1. PICK f : Joined(f, k + 1)
      BY <2>2
    <3> DEFINE g == [i \in 1 .. k + 2 |-> IF i <= k + 1 THEN f[i] ELSE f[k + 1] \o seqs[i]]
    <3>2. ASSUME NEW i \in 1 .. k + 2
          PROVE  g[i] = IF i = 1 THEN seqs[i] ELSE g[i - 1] \o seqs[i]
      <4>1. k \in Nat /\ i \in Nat
        OBVIOUS
      <4>2. CASE i = 1
        <5>1. g[i] = f[i] /\ i \in 1 .. k + 1
          BY <4>1, <4>2
        <5> HIDE DEF g
        <5> QED BY <3>1, <4>2, <5>1
      <4>3. CASE i # 1 /\ i <= k + 1
        <5>1. g[i] = f[i] /\ g[i - 1] = f[i - 1] /\ i \in 1 .. k + 1
          BY <4>1, <4>3
        <5> HIDE DEF g
        <5>2. f[i] = f[i - 1] \o seqs[i]
          BY <3>1, <4>3, <5>1
        <5> QED BY <4>3, <5>1, <5>2
      <4>4. CASE i = k + 2
        <5>1. i # 1 /\ i - 1 = k + 1 /\ ~ (i <= k + 1)
          BY <4>1, <4>4
        <5>2. g[i] = f[k + 1] \o seqs[i]
          BY <4>1, <5>1
        <5>3. k + 1 \in 1 .. k + 2 /\ k + 1 <= k + 1
          BY <4>1
        <5>4. g[k + 1] = f[k + 1]
          BY <5>3
        <5> HIDE DEF g
        <5> QED BY <5>1, <5>2, <5>4
      <4> QED BY <4>1, <4>2, <4>3, <4>4
    <3>3. Joined(g, k + 2)
      BY <3>2, Zenon
    <3>4. k + 1 \in 0 .. n - 1 /\ (k + 1) + 1 = k + 2
      OBVIOUS
    <3> HIDE DEF g, Joined
    <3> QED BY <3>3, <3>4
  <2>3. n - 1 \in Nat /\ (n - 1) - 1 = n - 2
    OBVIOUS
  <2> HIDE DEF S
  <2> QED BY <2>1, <2>2, <2>3, Upwards
<1>2. \E f : Joined(f, n)
  <2>1. n - 1 \in 0 .. n - 1 /\ (n - 1) + 1 = n
    OBVIOUS
  <2> HIDE DEF Joined
  <2> QED BY <1>1, <2>1
<1> DEFINE flatten == CHOOSE f : Joined(f, n)
<1>3. FlattenSeq(seqs) = flatten[n]
  BY Zenon DEF FlattenSeq
<1>4. Joined(flatten, n)
  <2> HIDE DEF Joined
  <2> QED BY <1>2, Zenon
<1> HIDE DEF flatten
<1>5. flatten[1] = seqs[1] /\ \A i \in 1 .. n - 1 : flatten[i + 1] = flatten[i] \o seqs[i + 1]
  <2>1. flatten[1] = seqs[1]
    BY <1>4
  <2>2. ASSUME NEW i \in 1 .. n - 1 PROVE flatten[i + 1] = flatten[i] \o seqs[i + 1]
    <3>1. i + 1 \in 1 .. n /\ i + 1 # 1 /\ (i + 1) - 1 = i
      OBVIOUS
    <3> QED BY <1>4, <3>1
  <2> QED BY <2>1, <2>2
<1> QED BY <1>3, <1>5

-----------------------------------------------------------------------------
(* strtol.                                                                  *)

\* A digit has a value.
LEMMA DigitValueIsInt == \A c : DigitValue(c) \in Int
<1> SUFFICES ASSUME NEW c PROVE DigitValue(c) \in Int
  OBVIOUS
<1> DEFINE I == {i \in 1 .. Len(Digits) : Digits[i] = c}
<1>1. I \in SUBSET Nat
  BY DEF Digits
<1>2. DigitValue(c) = (IF I # {} THEN Min(I) ELSE 0) - 1
  BY Zenon DEF DigitValue, SelectInSeq
<1>3. I # {} => Min(I) \in Nat
  <2> HIDE DEF I
  <2> QED BY <1>1, MinIsLeast
<1> HIDE DEF I
<1> QED BY <1>2, <1>3

\* what a number is after one more digit
WithDigit(v, c) == Min({10 * v + DigitValue(c), LongMax + 2})

\* f[n] is the number that the first n digits make
Sums(digits, f, k) ==
  f = [n \in 0 .. k |-> IF n = 0 THEN 0 ELSE WithDigit(f[n - 1], digits[n])]

\* The loop over the digits has a result.
LEMMA NumberSums ==
  ASSUME NEW digits, Len(digits) \in Nat
  PROVE  \E f : Sums(digits, f, Len(digits)) /\ Number(digits) = f[Len(digits)]
<1> DEFINE N == Len(digits)
           S == {k \in 0 .. N : \E f : Sums(digits, f, k)}
<1>1. N \in Nat
  OBVIOUS
<1>2. \A k \in 0 .. N : k \in S
  <2> HIDE DEF N
  <2>1. 0 \in S
    <3>1. Sums(digits, [n \in 0 .. 0 |-> 0], 0)
      BY DEF Sums
    <3> QED BY <1>1, <3>1
  <2>2. ASSUME NEW k \in 0 .. N - 1, k \in S PROVE k + 1 \in S
    <3>1. PICK f : Sums(digits, f, k)
      BY <2>2
    <3> DEFINE g == [n \in 0 .. k + 1 |-> IF n <= k THEN f[n] ELSE WithDigit(f[k], digits[n])]
    <3>2. ASSUME NEW n \in 0 .. k + 1
          PROVE  g[n] = IF n = 0 THEN 0 ELSE WithDigit(g[n - 1], digits[n])
      <4>1. k \in Nat /\ n \in Nat
        BY <1>1
      <4>2. CASE n = 0
        BY <3>1, <4>1, <4>2 DEF Sums
      <4>3. CASE n # 0 /\ n <= k
        <5>1. n - 1 \in 0 .. k + 1 /\ n - 1 <= k /\ n \in 0 .. k
          BY <4>1, <4>3
        <5>2. g[n] = f[n] /\ g[n - 1] = f[n - 1]
          BY <4>3, <5>1
        <5>3. f[n] = WithDigit(f[n - 1], digits[n])
          BY <3>1, <4>3, <5>1 DEF Sums
        <5> QED BY <4>3, <5>2, <5>3
      <4>4. CASE n = k + 1
        <5>1. n - 1 = k /\ k \in 0 .. k + 1 /\ ~ (n <= k) /\ k <= k /\ n # 0
          BY <4>1, <4>4
        <5>2. g[n] = WithDigit(f[k], digits[n]) /\ g[k] = f[k]
          BY <5>1
        <5> QED BY <5>1, <5>2
      <4> QED BY <4>1, <4>2, <4>3, <4>4
    <3>3. Sums(digits, g, k + 1)
      BY <3>2, Zenon DEF Sums
    <3>4. k + 1 \in 0 .. N
      BY <1>1
    <3> HIDE DEF g
    <3> QED BY <3>3, <3>4
  <2> HIDE DEF S
  <2> QED BY <1>1, <2>1, <2>2, Upwards
<1>3. Number(digits) = (CHOOSE f : Sums(digits, f, N))[N]
  BY Zenon DEF Number, Sums, WithDigit
<1>4. \E f : Sums(digits, f, N)
  <2> HIDE DEF N
  <2> QED BY <1>1, <1>2
<1> HIDE DEF N
<1> QED BY <1>3, <1>4, Zenon DEF N

\* One more digit makes an integer of an integer.
LEMMA WithDigitIsInt == \A v \in Int : \A c : WithDigit(v, c) \in Int
<1> SUFFICES ASSUME NEW v \in Int, NEW c PROVE WithDigit(v, c) \in Int
  OBVIOUS
<1>1. 10 * v + DigitValue(c) \in Int /\ LongMax + 2 \in Int
  BY DigitValueIsInt, LimitsAssumption
<1> QED BY <1>1, MinOfTwo, Zenon DEF WithDigit

\* The sums are integers.
LEMMA SumsAreInt ==
  ASSUME NEW digits, NEW N \in Nat, NEW f, Sums(digits, f, N)
  PROVE  \A k \in 0 .. N : f[k] \in Int
<1> DEFINE T == {k \in 0 .. N : f[k] \in Int}
<1>1. 0 \in T
  BY DEF Sums
<1>2. ASSUME NEW k \in 0 .. N - 1, k \in T PROVE k + 1 \in T
  <2>1. k + 1 \in 0 .. N /\ k + 1 # 0 /\ (k + 1) - 1 = k /\ f[k] \in Int
    BY <1>2
  <2>2. f[k + 1] = WithDigit(f[k], digits[k + 1])
    BY <2>1 DEF Sums
  <2> QED BY <2>1, <2>2, WithDigitIsInt
<1>3. \A k \in 0 .. N : k \in T
  <2> HIDE DEF T
  <2> QED BY <1>1, <1>2, Upwards
<1> QED BY <1>3

\* The number that digits make is an integer.
LEMMA NumberIsInt ==
  ASSUME NEW digits, Len(digits) \in Nat
  PROVE  Number(digits) \in Int
<1>1. PICK f : Sums(digits, f, Len(digits)) /\ Number(digits) = f[Len(digits)]
  BY NumberSums
<1>2. Len(digits) \in 0 .. Len(digits)
  OBVIOUS
<1> QED BY <1>1, <1>2, SumsAreInt

\* The text that strtol reads ends at the latest where the string does.
LEMMA FirstNotInText ==
  ASSUME NEW B, NEW text \in Seq(B), NEW C, EndOfString \notin C
  PROVE  FirstNotIn(text, C) \in 1 .. Len(text) + 1
<1> DEFINE ended == text \o <<EndOfString>>
           I == {i \in 1 .. Len(ended) : ended[i] \notin C}
<1>1. Len(ended) = Len(text) + 1 /\ ended[Len(text) + 1] = EndOfString /\ Len(text) \in Nat
  <2>1. text \in Seq(B \cup {EndOfString}) /\ <<EndOfString>> \in Seq(B \cup {EndOfString})
    OBVIOUS
  <2> QED BY <2>1
<1>2. I \in SUBSET Nat /\ Len(text) + 1 \in I /\ I \subseteq 1 .. Len(text) + 1
  <2> HIDE DEF ended
  <2> QED BY <1>1
<1>3. FirstNotIn(text, C) = IF I # {} THEN Min(I) ELSE 0
  BY Zenon DEF FirstNotIn, SelectInSeq
<1> HIDE DEF I
<1> QED BY <1>2, <1>3, MinIsLeast

\* strtol returns a number, and says whether it fits a long.
LEMMA StrtolType ==
  ASSUME NEW B, NEW text \in Seq(B)
  PROVE  /\ Strtol(text).value \in Int /\ Strtol(text).errno \in BOOLEAN
         /\ ~ Strtol(text).errno => Strtol(text).value <= LongMax
<1> DEFINE skipped == SkipBlanks(text)
           signed == Signed(skipped)
           digits == LeadingDigits(signed.digits)
<1>1. skipped \in Seq(B)
  <2>1. EndOfString \notin Blanks
    BY DEF Blanks, CR, LF, EndOfString
  <2>2. FirstNotIn(text, Blanks) \in 1 .. Len(text) + 1
    BY <2>1, FirstNotInText
  <2> QED BY <2>2, SubSeqProperties DEF SkipBlanks
<1>2. signed.digits \in Seq(B) /\ signed.sign \in {-1, 1}
  <2> HIDE DEF skipped
  <2>1. skipped # <<>> => Tail(skipped) \in Seq(B)
    BY <1>1
  <2> QED BY <1>1, <2>1 DEF Signed
<1>3. Len(digits) \in Nat
  <2> HIDE DEF signed
  <2>1. EndOfString \notin Range(Digits)
    BY DEF Range, Digits, EndOfString
  <2>2. FirstNotIn(signed.digits, Range(Digits)) \in 1 .. Len(signed.digits) + 1
    BY <1>2, <2>1, FirstNotInText
  <2> QED BY <1>2, <2>2, SubSeqProperties DEF LeadingDigits
<1>4. signed.sign * Number(digits) \in Int
  <2>1. Number(digits) \in Int
    <3> HIDE DEF digits
    <3> QED BY <1>3, NumberIsInt
  <2> HIDE DEF digits, signed
  <2> QED BY <1>2, <2>1
<1>5. Strtol(text) = InLong(signed.sign * Number(digits))
  BY Zenon DEF Strtol, ToLong
<1> HIDE DEF signed, digits
<1>6. ASSUME NEW v \in Int
      PROVE  /\ InLong(v).value \in Int /\ InLong(v).errno \in BOOLEAN
             /\ ~ InLong(v).errno => InLong(v).value <= LongMax
  <2>1. InLong(v).value = v /\ (InLong(v).errno <=> (v > LongMax \/ v < -LongMax - 1))
    BY DEF InLong
  <2>2. InLong(v).errno \in BOOLEAN
    BY Zenon DEF InLong
  <2>3. ~ (v > LongMax) => v <= LongMax
    BY LimitsAssumption
  <2> QED BY <2>1, <2>2, <2>3, Zenon
<1> QED BY <1>4, <1>5, <1>6

-----------------------------------------------------------------------------
(* What a verdict on a buffer may be, and how the verdicts on a buffer, on  *)
(* one that continues it, and by the two policies fit together.             *)

Codes == {"wrong_intoduction", "count_conversion", "count_range", "bulk_terminator"}

\* a positive verdict, or a count, that takes some of the bytes from `at' on
Takes(buf, at, verdict) ==
  /\ verdict.kind \in {"positive", "count"}
  /\ verdict.consumed \in 1 .. Len(buf) - at
  /\ verdict.kind = "count" => verdict.value \in 0 .. LongMax

\* what a parser may return for the bytes from `at' on
Within(buf, at, policy, verdict) ==
  \/ verdict = NotEnoughData
  \/ verdict = LengthError /\ policy = "keep_result" /\ ReserveMax < LongMax
  \/ \E code \in Codes : verdict = ProtocolError(code)
  \/ Takes(buf, at, verdict)

\* the bytes of `short' are the first bytes of `long'
Continues(long, short) ==
  Len(short) <= Len(long) /\ \A i \in 1 .. Len(short) : long[i] = short[i]

\* a verdict on `short' stays what it is on `long', and a verdict on `long' that
\* takes no byte beyond `short' is already reached there
Persists(short, at, early, late) ==
  /\ early # NotEnoughData => late = early
  /\ late.kind \in {"positive", "count"} /\ at + late.consumed <= Len(short) => early = late

\* drop_result returns what keep_result does, without the markers
Agree(keep, drop) ==
  keep # LengthError =>
    drop = IF keep.kind = "positive"
           THEN [kind |-> "positive", consumed |-> keep.consumed] ELSE keep

-----------------------------------------------------------------------------
(* Lines.                                                                   *)

\* The search ends at the first terminator, or at the end of the buffer.
LEMMA SearchEnds ==
  ASSUME NEW B, NEW buf \in Seq(B), NEW from \in 0 .. Len(buf)
  PROVE  LET found == SearchTerminator(buf, from) IN
         /\ found \in from .. Len(buf)
         /\ found # Len(buf) => found \in Terminators(buf, from)
         /\ \A i \in Terminators(buf, from) : found <= i
<1> DEFINE places == {Len(buf)} \cup Terminators(buf, from)
<1>1. Len(buf) \in Nat
  OBVIOUS
<1>2. places \in SUBSET Nat /\ places # {} /\ places \subseteq from .. Len(buf)
  BY <1>1 DEF Terminators
<1>3. SearchTerminator(buf, from) = Min(places)
  BY DEF SearchTerminator
<1> HIDE DEF places
<1>4. Min(places) \in places /\ \A i \in places : Min(places) <= i
  BY <1>2, MinIsLeast
<1> QED BY <1>2, <1>3, <1>4 DEF places

\* More bytes behind it do not move the first terminator.
LEMMA SearchPersists ==
  ASSUME NEW B, NEW long \in Seq(B), NEW short \in Seq(B), Continues(long, short),
         NEW from \in 0 .. Len(short)
  PROVE  LET early == SearchTerminator(short, from)
             late == SearchTerminator(long, from)
         IN  /\ early # Len(short) => late = early
             /\ late + 2 <= Len(short) => early = late
<1> DEFINE early == SearchTerminator(short, from)
           late == SearchTerminator(long, from)
<1>1. Len(short) \in Nat /\ Len(long) \in Nat /\ Len(short) <= Len(long) /\ from \in 0 .. Len(long)
  BY DEF Continues
<1>2. \A i \in Int : i + 2 <= Len(short) =>
        (i \in Terminators(long, from) <=> i \in Terminators(short, from))
  BY <1>1 DEF Terminators, Continues
<1>3. \A i \in Terminators(short, from) : i \in Int /\ i + 2 <= Len(short)
  BY <1>1 DEF Terminators
<1>4. /\ early \in from .. Len(short) /\ \A i \in Terminators(short, from) : early <= i
      /\ early # Len(short) => early \in Terminators(short, from)
  BY SearchEnds
<1>5. /\ late \in from .. Len(long) /\ \A i \in Terminators(long, from) : late <= i
      /\ late # Len(long) => late \in Terminators(long, from)
  BY <1>1, SearchEnds
<1> HIDE DEF early, late
<1>6. ASSUME early # Len(short) PROVE late = early
  <2>1. early + 2 <= Len(short) /\ early \in Terminators(long, from) /\ early \in Int
    BY <1>2, <1>3, <1>4, <1>6
  <2>2. late <= early /\ late + 2 <= Len(short) /\ late # Len(long) /\ late \in Int
    BY <1>1, <1>5, <2>1
  <2>3. late \in Terminators(short, from)
    BY <1>2, <1>5, <2>2
  <2> QED BY <1>4, <2>1, <2>2, <2>3
<1>7. ASSUME late + 2 <= Len(short) PROVE early = late
  <2>1. late # Len(long) /\ late \in Int
    BY <1>1, <1>5, <1>7
  <2>2. late \in Terminators(short, from)
    BY <1>2, <1>5, <1>7, <2>1
  <2>3. early <= late /\ early # Len(short) /\ early \in Int
    BY <1>1, <1>4, <1>7, <2>1, <2>2
  <2> QED BY <1>6, <2>3
<1> QED BY <1>6, <1>7 DEF early, late

\* A line that is complete ends at a terminator, and its terminator belongs to
\* what is consumed.
LEMMA LineTakes ==
  ASSUME NEW B, NEW buf \in Seq(B), NEW at \in 0 .. Len(buf) - 1, NEW type, NEW policy
  PROVE  LET to == SearchTerminator(buf, at + 1)
             line == LineParser(type, buf, at, policy)
         IN  \/ line = NotEnoughData /\ to = Len(buf)
             \/ /\ to \in at + 1 .. Len(buf) - 2
                /\ TerminatorAt(buf, to)
                /\ line = Positive(policy, to + 2 - at,
                                   [type |-> type, from |-> at + 1, to |-> to])
<1> DEFINE to == SearchTerminator(buf, at + 1)
<1>1. Len(buf) \in Nat /\ at \in Nat /\ at + 1 \in 0 .. Len(buf)
  OBVIOUS
<1>2. to \in at + 1 .. Len(buf) /\ (to # Len(buf) => to \in Terminators(buf, at + 1))
  BY <1>1, SearchEnds
<1>3. LineParser(type, buf, at, policy)
        = IF to = Len(buf) THEN NotEnoughData
          ELSE Positive(policy, 1 + 2 + (to - (at + 1)),
                        [type |-> type, from |-> at + 1, to |-> to])
  BY DEF LineParser, MarkLine
<1> HIDE DEF to
<1>4. CASE to = Len(buf)
  BY <1>3, <1>4 DEF to
<1>5. CASE to # Len(buf)
  <2>1. to \in at + 1 .. Len(buf) - 2 /\ TerminatorAt(buf, to)
    BY <1>1, <1>2, <1>5 DEF Terminators, TerminatorAt
  <2>2. 1 + 2 + (to - (at + 1)) = to + 2 - at
    BY <1>1, <2>1
  <2> QED BY <1>3, <1>5, <2>1, <2>2 DEF to
<1> QED BY <1>4, <1>5

\* A line takes only bytes that are there.
LEMMA LineWithin ==
  ASSUME NEW B, NEW buf \in Seq(B), NEW at \in 0 .. Len(buf) - 1, NEW type, NEW policy
  PROVE  Within(buf, at, policy, LineParser(type, buf, at, policy))
<1> DEFINE to == SearchTerminator(buf, at + 1)
           line == LineParser(type, buf, at, policy)
<1>1. \/ line = NotEnoughData
      \/ /\ to \in at + 1 .. Len(buf) - 2
         /\ line = Positive(policy, to + 2 - at, [type |-> type, from |-> at + 1, to |-> to])
  BY LineTakes
<1>2. Len(buf) \in Nat /\ at \in Nat
  OBVIOUS
<1> HIDE DEF to, line
<1>3. CASE line = NotEnoughData
  BY <1>3 DEF Within, line
<1>4. CASE line # NotEnoughData
  <2>1. line.kind = "positive" /\ line.consumed = to + 2 - at
    BY <1>1, <1>4 DEF Positive
  <2>2. to + 2 - at \in 1 .. Len(buf) - at
    BY <1>1, <1>2, <1>4
  <2>3. Takes(buf, at, line)
    BY <2>1, <2>2 DEF Takes
  <2> QED BY <2>3 DEF Within, line
<1> QED BY <1>3, <1>4

\* A line is decided by its own bytes.
LEMMA LinePersists ==
  ASSUME NEW B, NEW long \in Seq(B), NEW short \in Seq(B), Continues(long, short),
         NEW at \in 0 .. Len(short) - 1, NEW type, NEW policy
  PROVE  Persists(short, at, LineParser(type, short, at, policy),
                             LineParser(type, long, at, policy))
<1> DEFINE early == SearchTerminator(short, at + 1)
           late == SearchTerminator(long, at + 1)
           found(to) == Positive(policy, to + 2 - at,
                                 [type |-> type, from |-> at + 1, to |-> to])
           a == LineParser(type, short, at, policy)
           b == LineParser(type, long, at, policy)
<1>1. /\ Len(short) \in Nat /\ Len(long) \in Nat /\ Len(short) <= Len(long) /\ at \in Nat
      /\ at \in 0 .. Len(long) - 1 /\ at + 1 \in 0 .. Len(short)
  BY DEF Continues
<1>2. \/ a = NotEnoughData /\ early = Len(short)
      \/ early \in at + 1 .. Len(short) - 2 /\ a = found(early)
  BY LineTakes
<1>3. \/ b = NotEnoughData /\ late = Len(long)
      \/ late \in at + 1 .. Len(long) - 2 /\ b = found(late)
  BY <1>1, LineTakes
<1>4. (early # Len(short) => late = early) /\ (late + 2 <= Len(short) => early = late)
  BY <1>1, SearchPersists
<1>5. \A to : found(to) # NotEnoughData /\ found(to).kind = "positive"
              /\ found(to).consumed = to + 2 - at
  BY DEF Positive, NotEnoughData
<1> HIDE DEF early, late, found, a, b
<1>6. ASSUME a # NotEnoughData PROVE b = a
  <2>1. early # Len(short) /\ a = found(early) /\ early \in at + 1 .. Len(short) - 2
    BY <1>1, <1>2, <1>6
  <2>2. late = early /\ late # Len(long)
    BY <1>1, <1>4, <2>1
  <2> QED BY <1>3, <2>1, <2>2
<1>7. ASSUME b.kind \in {"positive", "count"}, at + b.consumed <= Len(short) PROVE a = b
  <2>1. b # NotEnoughData
    BY <1>7 DEF NotEnoughData
  <2>2. late \in at + 1 .. Len(long) - 2 /\ b = found(late) /\ b.consumed = late + 2 - at
    BY <1>3, <1>5, <2>1
  <2>3. late + 2 <= Len(short)
    BY <1>1, <1>7, <2>2
  <2>4. early = late /\ early # Len(short)
    BY <1>1, <1>4, <2>2, <2>3
  <2> QED BY <1>2, <2>2, <2>4
<1> QED BY <1>6, <1>7 DEF Persists, a, b

\* Both policies find the same line.
LEMMA LineAgrees ==
  ASSUME NEW buf, NEW at, NEW type
  PROVE  Agree(LineParser(type, buf, at, "keep_result"),
               LineParser(type, buf, at, "drop_result"))
BY DEF Agree, LineParser, MarkLine, Positive, NotEnoughData

-----------------------------------------------------------------------------
(* Counts.                                                                  *)

\* What a count may turn a line into: an error, nil, or a number of elements or
\* bytes that is not negative.
LEMMA UnwrapCountWithin ==
  ASSUME NEW B, NEW buf \in Seq(B), NEW at \in 0 .. Len(buf), NEW policy,
         NEW line, line.consumed \in 1 .. Len(buf) - at,
         NEW count, count.value \in Int, count.errno \in BOOLEAN,
         ~ count.errno => count.value <= LongMax
  PROVE  Within(buf, at, policy, UnwrapCount(line, count, policy))
<1> DEFINE verdict == UnwrapCount(line, count, policy)
<1>1. CASE count.errno
  <2>1. verdict = ProtocolError("count_conversion")
    BY <1>1 DEF UnwrapCount
  <2> QED BY <2>1 DEF Within, Codes
<1>2. CASE ~ count.errno /\ count.value = -1
  <2>1. verdict = Positive(policy, line.consumed, [line.result EXCEPT !.type = "nil"])
    BY <1>2 DEF UnwrapCount
  <2>2. Takes(buf, at, verdict)
    BY <2>1 DEF Takes, Positive
  <2> QED BY <2>2 DEF Within
<1>3. CASE ~ count.errno /\ count.value < -1
  <2>1. verdict = ProtocolError("count_range")
    BY <1>3 DEF UnwrapCount
  <2> QED BY <2>1 DEF Within, Codes
<1>4. CASE ~ count.errno /\ count.value \in 0 .. LongMax
  <2>1. verdict = [kind |-> "count", value |-> count.value, consumed |-> line.consumed]
    BY <1>4 DEF UnwrapCount
  <2>2. Takes(buf, at, verdict)
    BY <1>4, <2>1 DEF Takes
  <2> QED BY <2>2 DEF Within
<1> QED BY <1>1, <1>2, <1>3, <1>4, LimitsAssumption

\* A count takes only bytes that are there.
LEMMA CountWithin ==
  ASSUME NEW B, NEW buf \in Seq(B), NEW at \in 0 .. Len(buf) - 1, NEW policy
  PROVE  Within(buf, at, policy, CountParser(buf, at, policy))
<1> DEFINE line == LineParser("string", buf, at, "keep_result")
           to == SearchTerminator(buf, at + 1)
           text == SubSeq(buf, line.result.from + 1, line.result.to)
<1>1. CountParser(buf, at, policy) = ParseCount(buf, line, policy)
  BY DEF CountParser
<1>2. \/ line = NotEnoughData
      \/ /\ to \in at + 1 .. Len(buf) - 2
         /\ line = Positive("keep_result", to + 2 - at,
                            [type |-> "string", from |-> at + 1, to |-> to])
  BY LineTakes
<1>3. Len(buf) \in Nat /\ at \in Nat
  OBVIOUS
<1> HIDE DEF line, to
<1>4. CASE line = NotEnoughData
  BY <1>1, <1>4 DEF ParseCount, NotEnoughData, Within
<1>5. CASE line # NotEnoughData
  <2>1. /\ line.kind = "positive" /\ line.consumed = to + 2 - at
        /\ line.result.from = at + 1 /\ line.result.to = to /\ to \in at + 1 .. Len(buf) - 2
    BY <1>2, <1>5 DEF Positive
  <2>2. text \in Seq(B)
    <3>1. line.result.from + 1 \in Int /\ line.result.to \in Int
      BY <1>3, <2>1
    <3>2. \A i \in line.result.from + 1 .. line.result.to : buf[i] \in B
      BY <1>3, <2>1
    <3> QED BY <3>1, <3>2, SubSeqProperties
  <2>3. /\ Strtol(text).value \in Int /\ Strtol(text).errno \in BOOLEAN
        /\ ~ Strtol(text).errno => Strtol(text).value <= LongMax
    BY <2>2, StrtolType
  <2>4. CountParser(buf, at, policy) = UnwrapCount(line, Strtol(text), policy)
    BY <1>1, <2>1 DEF ParseCount
  <2>5. line.consumed \in 1 .. Len(buf) - at /\ at \in 0 .. Len(buf)
    BY <1>3, <2>1
  <2> HIDE DEF text
  <2> QED BY <2>3, <2>4, <2>5, UnwrapCountWithin
<1> QED BY <1>4, <1>5

\* A count is decided by its own line.
LEMMA CountPersists ==
  ASSUME NEW B, NEW long \in Seq(B), NEW short \in Seq(B), Continues(long, short),
         NEW at \in 0 .. Len(short) - 1, NEW policy
  PROVE  Persists(short, at, CountParser(short, at, policy), CountParser(long, at, policy))
<1> DEFINE early == LineParser("string", short, at, "keep_result")
           late == LineParser("string", long, at, "keep_result")
           to == SearchTerminator(short, at + 1)
           a == CountParser(short, at, policy)
           b == CountParser(long, at, policy)
           text(buf) == SubSeq(buf, early.result.from + 1, early.result.to)
<1>1. a = ParseCount(short, early, policy) /\ b = ParseCount(long, late, policy)
  BY DEF CountParser
<1>2. Persists(short, at, early, late)
  BY LinePersists
<1>3. \/ early = NotEnoughData
      \/ /\ to \in at + 1 .. Len(short) - 2
         /\ early = Positive("keep_result", to + 2 - at,
                             [type |-> "string", from |-> at + 1, to |-> to])
  BY LineTakes
<1>4. late = NotEnoughData \/ late.kind = "positive"
  BY DEF LineParser, MarkLine, Positive
<1>5. /\ Len(short) \in Nat /\ Len(long) \in Nat /\ Len(short) <= Len(long) /\ at \in Nat
  BY DEF Continues
<1> HIDE DEF early, late, to, a, b
<1>6. ASSUME early # NotEnoughData PROVE a = b
  <2>1. /\ early.kind = "positive" /\ early.result.from = at + 1 /\ early.result.to = to
        /\ to \in at + 1 .. Len(short) - 2
    BY <1>3, <1>6 DEF Positive
  <2>2. late = early
    BY <1>2, <1>6 DEF Persists
  <2>3. text(short) = text(long)
    <3>1. \A i \in at + 2 .. to : i \in 1 .. Len(short) /\ i \in 1 .. Len(long)
      BY <1>5, <2>1
    <3>2. \A i \in at + 2 .. to : short[i] \in B /\ long[i] = short[i] /\ long[i] \in B
      BY <3>1 DEF Continues
    <3>3. at + 2 \in Int /\ to \in Int /\ early.result.from + 1 = at + 2
      BY <1>5, <2>1
    <3>4. /\ text(short) \in Seq(B) /\ Len(text(short)) = IF at + 2 <= to THEN to - (at + 2) + 1 ELSE 0
          /\ \A i \in 1 .. to - (at + 2) + 1 : text(short)[i] = short[at + 2 + i - 1]
      BY <2>1, <3>2, <3>3, SubSeqProperties
    <3>5. /\ text(long) \in Seq(B) /\ Len(text(long)) = IF at + 2 <= to THEN to - (at + 2) + 1 ELSE 0
          /\ \A i \in 1 .. to - (at + 2) + 1 : text(long)[i] = long[at + 2 + i - 1]
      BY <2>1, <3>2, <3>3, SubSeqProperties
    <3> HIDE DEF text
    <3>6. \A i \in 1 .. Len(text(short)) : text(short)[i] = text(long)[i]
      <4> TAKE i \in 1 .. Len(text(short))
      <4>1. i \in 1 .. to - (at + 2) + 1 /\ at + 2 + i - 1 \in at + 2 .. to
        BY <1>5, <2>1, <3>4, SMTT(40)
      <4> QED BY <3>2, <3>4, <3>5, <4>1
    <3> QED BY <3>4, <3>5, <3>6, SeqEqual
  <2> HIDE DEF text
  <2> QED BY <1>1, <2>1, <2>2, <2>3 DEF ParseCount, text
<1>7. ASSUME early = NotEnoughData PROVE a = NotEnoughData
  BY <1>1, <1>7 DEF ParseCount, NotEnoughData
<1>8. ASSUME b.kind \in {"positive", "count"}, at + b.consumed <= Len(short) PROVE a = b
  <2>1. late.kind = "positive"
    BY <1>1, <1>4, <1>8 DEF ParseCount, NotEnoughData
  <2>2. b.consumed = late.consumed
    <3> DEFINE count == Strtol(SubSeq(long, late.result.from + 1, late.result.to))
    <3>1. b = UnwrapCount(late, count, policy)
      BY <1>1, <2>1 DEF ParseCount
    <3> HIDE DEF count
    <3> QED BY <1>8, <3>1 DEF UnwrapCount, ProtocolError, Positive
  <2>3. early = late
    BY <1>2, <1>8, <2>1, <2>2 DEF Persists
  <2> QED BY <1>6, <2>1, <2>3 DEF NotEnoughData
<1> QED BY <1>6, <1>7, <1>8 DEF Persists, a, b

\* Both policies read the same count.
LEMMA CountAgrees ==
  ASSUME NEW buf, NEW at
  PROVE  /\ Agree(CountParser(buf, at, "keep_result"), CountParser(buf, at, "drop_result"))
         /\ CountParser(buf, at, "keep_result") # LengthError
<1> DEFINE line == LineParser("string", buf, at, "keep_result")
           count == Strtol(SubSeq(buf, line.result.from + 1, line.result.to))
           counted(policy) ==
             IF line.kind # "positive" THEN line ELSE UnwrapCount(line, count, policy)
<1>1. \A policy : CountParser(buf, at, policy) = counted(policy)
  BY DEF CountParser, ParseCount
<1>2. line = NotEnoughData \/ line.kind = "positive"
  BY DEF LineParser, MarkLine, Positive
<1> HIDE DEF line, count
<1>3. Agree(counted("keep_result"), counted("drop_result")) /\ counted("keep_result") # LengthError
  BY <1>2 DEF Agree, UnwrapCount, Positive, ProtocolError, NotEnoughData, LengthError
<1> HIDE DEF counted
<1> QED BY <1>1, <1>3

-----------------------------------------------------------------------------
(* Bulk strings.                                                            *)

\* A bulk string takes only bytes that are there.
LEMMA BulkStringWithin ==
  ASSUME NEW B, NEW buf \in Seq(B), NEW at \in 0 .. Len(buf) - 1, NEW policy
  PROVE  /\ Within(buf, at, policy, BulkStringParser(buf, at, policy))
         /\ BulkStringParser(buf, at, policy).kind # "count"
<1> DEFINE count == CountParser(buf, at, policy)
           verdict == BulkStringParser(buf, at, policy)
           end == at + count.consumed + count.value
<1>1. verdict = MarkBulkString(buf, at, policy, count)
  BY DEF BulkStringParser
<1>2. Within(buf, at, policy, count)
  BY CountWithin
<1>3. Len(buf) \in Nat /\ at \in Nat
  OBVIOUS
<1> HIDE DEF count, verdict
<1>4. CASE count.kind # "count"
  BY <1>1, <1>2, <1>4 DEF MarkBulkString, verdict
<1>5. CASE count.kind = "count"
  <2>1. count.consumed \in 1 .. Len(buf) - at /\ count.value \in Nat
    BY <1>2, <1>5 DEF Within, Takes, NotEnoughData, LengthError, ProtocolError
  <2>2. CASE Len(buf) - (at + count.consumed) < count.value + 2
    BY <1>1, <1>5, <2>2 DEF MarkBulkString, Within, NotEnoughData, verdict
  <2>3. CASE ~ (Len(buf) - (at + count.consumed) < count.value + 2) /\ ~ TerminatorAt(buf, end)
    <3>1. verdict = ProtocolError("bulk_terminator")
      BY <1>1, <1>5, <2>3 DEF MarkBulkString
    <3>2. verdict.kind # "count"
      BY <3>1 DEF ProtocolError
    <3> QED BY <3>1, <3>2 DEF Within, Codes, verdict
  <2>4. CASE ~ (Len(buf) - (at + count.consumed) < count.value + 2) /\ TerminatorAt(buf, end)
    <3>1. verdict = Positive(policy, count.consumed + count.value + 2,
                             StringMarker(at + count.consumed, end))
      BY <1>1, <1>5, <2>4 DEF MarkBulkString
    <3>2. verdict.kind = "positive" /\ verdict.consumed = count.consumed + count.value + 2
      BY <3>1 DEF Positive
    <3>3. verdict.consumed \in 1 .. Len(buf) - at
      BY <1>3, <2>1, <2>4, <3>2, SMTT(40)
    <3> QED BY <3>2, <3>3 DEF Within, Takes, verdict
  <2> QED BY <2>2, <2>3, <2>4
<1> QED BY <1>4, <1>5

\* A bulk string is decided by its own bytes, whatever they are: the bytes behind
\* its terminator are not looked at.
LEMMA BulkStringPersists ==
  ASSUME NEW B, NEW long \in Seq(B), NEW short \in Seq(B), Continues(long, short),
         NEW at \in 0 .. Len(short) - 1, NEW policy
  PROVE  Persists(short, at, BulkStringParser(short, at, policy),
                             BulkStringParser(long, at, policy))
<1> DEFINE early == CountParser(short, at, policy)
           late == CountParser(long, at, policy)
           a == BulkStringParser(short, at, policy)
           b == BulkStringParser(long, at, policy)
           head == at + late.consumed
           end == head + late.value
<1>1. a = MarkBulkString(short, at, policy, early) /\ b = MarkBulkString(long, at, policy, late)
  BY DEF BulkStringParser
<1>2. Persists(short, at, early, late)
  BY CountPersists
<1>3. Len(short) \in Nat /\ Len(long) \in Nat /\ Len(short) <= Len(long) /\ at \in Nat
  BY DEF Continues
<1>4. late.kind = "count" => late.consumed \in Nat \ {0} /\ late.value \in Nat
  <2>1. at \in 0 .. Len(long) - 1
    BY <1>3
  <2>2. Within(long, at, policy, late)
    BY <2>1, CountWithin
  <2> HIDE DEF late
  <2> QED BY <1>3, <2>2 DEF Within, Takes, NotEnoughData, LengthError, ProtocolError
<1> HIDE DEF early, late, a, b
<1>5. late.kind = "count" /\ Len(short) - head >= late.value + 2 =>
        (TerminatorAt(short, end) <=> TerminatorAt(long, end))
  <2> SUFFICES ASSUME late.kind = "count", Len(short) - head >= late.value + 2
               PROVE  TerminatorAt(short, end) <=> TerminatorAt(long, end)
    OBVIOUS
  <2>1. end + 1 \in 1 .. Len(short) /\ end + 2 \in 1 .. Len(short)
    <3>1. late.consumed \in Nat \ {0} /\ late.value \in Nat
      BY <1>4
    <3>2. head \in Nat
      BY <1>3, <3>1
    <3>3. Len(short) - head >= late.value + 2
      OBVIOUS
    <3> HIDE DEF head
    <3> QED BY <1>3, <3>1, <3>2, <3>3, SMTT(40)
  <2> HIDE DEF end
  <2> QED BY <2>1 DEF TerminatorAt, Continues
<1>6. ASSUME a # NotEnoughData PROVE b = a
  <2>1. early # NotEnoughData
    BY <1>1, <1>6 DEF MarkBulkString, NotEnoughData
  <2>2. late = early
    BY <1>2, <2>1 DEF Persists
  <2>3. CASE early.kind # "count"
    BY <1>1, <2>2, <2>3 DEF MarkBulkString
  <2>4. CASE early.kind = "count"
    <3>1. ~ (Len(short) - head < late.value + 2)
      BY <1>1, <1>6, <2>2, <2>4 DEF MarkBulkString
    <3>2. ~ (Len(long) - head < late.value + 2) /\ Len(short) - head >= late.value + 2
      BY <1>3, <1>4, <2>2, <2>4, <3>1, SMTT(40)
    <3> QED BY <1>1, <1>5, <2>2, <2>4, <3>1, <3>2 DEF MarkBulkString
  <2> QED BY <2>3, <2>4
<1>7. ASSUME b.kind \in {"positive", "count"}, at + b.consumed <= Len(short) PROVE a = b
  <2>1. CASE late.kind # "count"
    <3>1. b = late
      BY <1>1, <2>1 DEF MarkBulkString
    <3>2. early = late
      BY <1>2, <1>7, <3>1 DEF Persists
    <3> QED BY <1>1, <2>1, <3>2 DEF MarkBulkString
  <2>2. CASE late.kind = "count"
    <3>1. /\ ~ (Len(long) - head < late.value + 2) /\ TerminatorAt(long, end)
          /\ b = Positive(policy, late.consumed + late.value + 2, StringMarker(head, end))
      BY <1>1, <1>7, <2>2 DEF MarkBulkString, NotEnoughData, ProtocolError
    <3>2. b.consumed = late.consumed + late.value + 2
      BY <3>1 DEF Positive
    <3>3. Len(short) - head >= late.value + 2 /\ ~ (Len(short) - head < late.value + 2)
          /\ at + late.consumed <= Len(short)
      BY <1>3, <1>4, <1>7, <2>2, <3>2, SMTT(40)
    <3>4. early = late
      BY <1>2, <2>2, <3>3 DEF Persists
    <3> QED BY <1>1, <1>5, <2>2, <3>1, <3>3, <3>4 DEF MarkBulkString
  <2> QED BY <2>1, <2>2
<1> QED BY <1>6, <1>7 DEF Persists, a, b

\* Both policies find the same bulk string.
LEMMA BulkStringAgrees ==
  ASSUME NEW buf, NEW at
  PROVE  Agree(BulkStringParser(buf, at, "keep_result"),
               BulkStringParser(buf, at, "drop_result"))
<1> DEFINE keep == CountParser(buf, at, "keep_result")
           drop == CountParser(buf, at, "drop_result")
<1>1. Agree(keep, drop) /\ keep # LengthError
  BY CountAgrees
<1> HIDE DEF keep, drop
<1>2. Agree(MarkBulkString(buf, at, "keep_result", keep), MarkBulkString(buf, at, "drop_result", drop))
  <2>1. CASE keep.kind = "count"
    BY <1>1, <2>1 DEF Agree, MarkBulkString, Positive, ProtocolError, NotEnoughData, LengthError
  <2>2. CASE keep.kind # "count"
    <3>1. drop.kind # "count"
      BY <1>1, <2>2 DEF Agree
    <3> QED BY <1>1, <2>2, <3>1 DEF Agree, MarkBulkString
  <2> QED BY <2>1, <2>2
<1> QED BY <1>2 DEF BulkStringParser, keep, drop

-----------------------------------------------------------------------------
(* Arrays.                                                                  *)

\* m[n] is what the loop over the elements has after n rounds
Loop(at, policy, count, parse, m) ==
  /\ m[0] = Positive(policy, count.consumed, ArrayMarker(<<>>))
  /\ \A n \in 0 .. count.value - 1 : m[n + 1] = MarkElement(at, policy, m[n], parse)

\* The loop ends, and the array is what its last round leaves.
LEMMA LoopEnds ==
  ASSUME NEW at, NEW policy, NEW parse, NEW count,
         count.kind = "count", count.value \in Nat,
         ~ (policy = "keep_result" /\ count.value > ReserveMax)
  PROVE  \E m : /\ Loop(at, policy, count, parse, m)
               /\ MarkArray(at, policy, count, parse) = m[count.value]
<1> DEFINE N == count.value
           first == Positive(policy, count.consumed, ArrayMarker(<<>>))
           Next(v) == MarkElement(at, policy, v, parse)
           Rounds(f, k) == f = [n \in 0 .. k |-> IF n = 0 THEN first ELSE Next(f[n - 1])]
           S == {k \in 0 .. N : \E f : Rounds(f, k)}
<1>1. \A k \in 0 .. N : k \in S
  <2> HIDE DEF Next, N, first
  <2>1. 0 \in S
    <3>1. Rounds([n \in 0 .. 0 |-> first], 0)
      BY DEF Rounds
    <3>2. 0 \in 0 .. N
      BY DEF N
    <3> HIDE DEF Rounds
    <3> QED BY <3>1, <3>2
  <2>2. ASSUME NEW k \in 0 .. N - 1, k \in S PROVE k + 1 \in S
    <3>0. N \in Nat
      BY DEF N
    <3>1. PICK f : Rounds(f, k)
      BY <2>2
    <3> DEFINE g == [n \in 0 .. k + 1 |-> IF n <= k THEN f[n] ELSE Next(f[k])]
    <3>2. ASSUME NEW n \in 0 .. k + 1
          PROVE  g[n] = IF n = 0 THEN first ELSE Next(g[n - 1])
      <4>1. k \in Nat /\ n \in Nat
        BY <3>0
      <4>2. CASE n = 0
        BY <3>1, <4>1, <4>2 DEF Rounds
      <4>3. CASE n # 0 /\ n <= k
        <5>1. n - 1 \in 0 .. k + 1 /\ n - 1 <= k /\ n \in 0 .. k
          BY <4>1, <4>3
        <5>2. g[n] = f[n] /\ g[n - 1] = f[n - 1]
          BY <4>3, <5>1
        <5>3. f[n] = Next(f[n - 1])
          BY <3>1, <4>3, <5>1 DEF Rounds
        <5> QED BY <4>3, <5>2, <5>3
      <4>4. CASE n = k + 1
        <5>1. n - 1 = k /\ k \in 0 .. k + 1 /\ ~ (n <= k) /\ k <= k /\ n # 0
          BY <4>1, <4>4
        <5>2. g[n] = Next(f[k]) /\ g[k] = f[k]
          BY <5>1
        <5> QED BY <5>1, <5>2
      <4> QED BY <4>1, <4>2, <4>3, <4>4
    <3>3. Rounds(g, k + 1)
      BY <3>2, Zenon DEF Rounds
    <3>4. k + 1 \in 0 .. N
      BY <3>0
    <3> HIDE DEF g, Rounds
    <3> QED BY <3>3, <3>4
  <2>3. N \in Nat
    BY DEF N
  <2> HIDE DEF S
  <2> QED BY <2>1, <2>2, <2>3, Upwards
<1> DEFINE marked == CHOOSE f : Rounds(f, N)
<1>2. MarkArray(at, policy, count, parse) = marked[N]
  BY Zenon DEF MarkArray
<1>3. Rounds(marked, N)
  <2>1. \E f : Rounds(f, N)
    <3>1. N \in 0 .. N
      OBVIOUS
    <3> HIDE DEF Rounds, N
    <3> QED BY <1>1, <3>1
  <2> HIDE DEF Rounds, N
  <2> QED BY <2>1, Zenon
<1>4. Loop(at, policy, count, parse, marked)
  <2> HIDE DEF marked, first, Next
  <2>1. marked[0] = first
    BY <1>3
  <2>2. ASSUME NEW n \in 0 .. N - 1 PROVE marked[n + 1] = Next(marked[n])
    <3>1. n + 1 \in 0 .. N /\ n + 1 # 0 /\ (n + 1) - 1 = n
      OBVIOUS
    <3> HIDE DEF N
    <3> QED BY <1>3, <3>1
  <2> QED BY <2>1, <2>2 DEF Loop, first, Next
<1> HIDE DEF marked
<1> QED BY <1>2, <1>4

\* what raw_parse may return, at the offsets behind `at': never a count
ParsesBehind(buf, at, policy, parse) ==
  \A later \in at + 1 .. Len(buf) :
    Within(buf, later, policy, parse[later]) /\ parse[later].kind # "count"

\* A verdict is one of these four.
LEMMA WithinCases ==
  ASSUME NEW buf, NEW at, NEW policy, NEW verdict, Within(buf, at, policy, verdict)
  PROVE  \/ verdict.kind = "not_enough_data" /\ verdict = NotEnoughData
         \/ /\ verdict.kind = "length_error" /\ verdict = LengthError
            /\ policy = "keep_result" /\ ReserveMax < LongMax
         \/ verdict.kind = "protocol_error" /\ \E code \in Codes : verdict = ProtocolError(code)
         \/ verdict.kind = "positive" /\ Takes(buf, at, verdict)
         \/ verdict.kind = "count" /\ Takes(buf, at, verdict)
BY DEF Within, Takes, NotEnoughData, LengthError, ProtocolError

\* The next element begins where the last one ended, and takes bytes that are
\* there.
LEMMA ElementWithin ==
  ASSUME NEW B, NEW buf \in Seq(B), NEW at \in 0 .. Len(buf), NEW policy, NEW parse,
         ParsesBehind(buf, at, policy, parse),
         NEW sofar, Within(buf, at, policy, sofar), sofar.kind # "count"
  PROVE  /\ Within(buf, at, policy, MarkElement(at, policy, sofar, parse))
         /\ MarkElement(at, policy, sofar, parse).kind # "count"
<1> DEFINE element == parse[at + sofar.consumed]
           next == MarkElement(at, policy, sofar, parse)
<1>1. Len(buf) \in Nat /\ at \in Nat
  OBVIOUS
<1>2. CASE sofar.kind # "positive"
  BY <1>2 DEF MarkElement
<1>3. CASE sofar.kind = "positive"
  <2>1. sofar.consumed \in 1 .. Len(buf) - at
    BY <1>3, WithinCases DEF Takes
  <2>2. at + sofar.consumed \in at + 1 .. Len(buf)
    BY <1>1, <2>1
  <2>3. Within(buf, at + sofar.consumed, policy, element) /\ element.kind # "count"
    BY <2>2 DEF ParsesBehind
  <2>4. next = IF element.kind # "positive" THEN element ELSE Push(policy, sofar, element)
    BY <1>3 DEF MarkElement
  <2> HIDE DEF element, next
  <2>5. CASE element.kind # "positive"
    <3>1. Within(buf, at, policy, element)
      BY <2>3, <2>5, WithinCases DEF Within
    <3> QED BY <2>3, <2>4, <2>5, <3>1 DEF next
  <2>6. CASE element.kind = "positive"
    <3>1. element.consumed \in 1 .. Len(buf) - (at + sofar.consumed)
      BY <2>3, <2>6, WithinCases DEF Takes
    <3>2. next.kind = "positive" /\ next.consumed = sofar.consumed + element.consumed
      BY <2>4, <2>6 DEF Push, Positive
    <3>3. sofar.consumed + element.consumed \in 1 .. Len(buf) - at
      BY <1>1, <2>1, <3>1
    <3> QED BY <3>2, <3>3 DEF Within, Takes, next
  <2> QED BY <2>5, <2>6
<1> QED BY <1>2, <1>3

\* So does what the loop has after any number of rounds.
LEMMA LoopWithin ==
  ASSUME NEW B, NEW buf \in Seq(B), NEW at \in 0 .. Len(buf), NEW policy, NEW parse,
         ParsesBehind(buf, at, policy, parse),
         NEW count, count.kind = "count", Takes(buf, at, count),
         NEW m, Loop(at, policy, count, parse, m)
  PROVE  \A n \in 0 .. count.value :
           Within(buf, at, policy, m[n]) /\ m[n].kind # "count"
<1> DEFINE N == count.value
           S == {n \in 0 .. N : Within(buf, at, policy, m[n]) /\ m[n].kind # "count"}
<1>1. N \in Nat
  BY DEF Takes
<1>2. 0 \in S
  <2>1. m[0].kind = "positive" /\ m[0].consumed = count.consumed
    BY DEF Loop, Positive
  <2>2. Takes(buf, at, m[0])
    BY <2>1 DEF Takes
  <2> QED BY <1>1, <2>1, <2>2 DEF Within
<1>3. ASSUME NEW n \in 0 .. N - 1, n \in S PROVE n + 1 \in S
  <2>1. m[n + 1] = MarkElement(at, policy, m[n], parse) /\ n + 1 \in 0 .. N
    BY <1>1 DEF Loop
  <2>2. Within(buf, at, policy, m[n]) /\ m[n].kind # "count"
    BY <1>3
  <2> HIDE DEF N
  <2> QED BY <2>1, <2>2, ElementWithin
<1>4. \A n \in 0 .. N : n \in S
  <2> HIDE DEF S, N
  <2> QED BY <1>1, <1>2, <1>3, Upwards
<1> QED BY <1>4

\* The rounds of the loop take nothing back.
LEMMA LoopGrows ==
  ASSUME NEW B, NEW buf \in Seq(B), NEW at \in 0 .. Len(buf), NEW policy, NEW parse,
         ParsesBehind(buf, at, policy, parse),
         NEW count, count.kind = "count", Takes(buf, at, count),
         NEW m, Loop(at, policy, count, parse, m)
  PROVE  \A n \in 0 .. count.value :
           m[n].kind = "positive" => count.consumed <= m[n].consumed
<1> DEFINE N == count.value
           S == {n \in 0 .. N : m[n].kind = "positive" => count.consumed <= m[n].consumed}
<1>1. N \in Nat /\ count.consumed \in Nat /\ Len(buf) \in Nat /\ at \in Nat
  BY DEF Takes
<1>2. 0 \in S
  <2>1. m[0].consumed = count.consumed
    BY DEF Loop, Positive
  <2> QED BY <1>1, <2>1
<1>3. ASSUME NEW n \in 0 .. N - 1, n \in S PROVE n + 1 \in S
  <2> DEFINE element == parse[at + m[n].consumed]
  <2>1. /\ m[n + 1] = MarkElement(at, policy, m[n], parse) /\ n + 1 \in 0 .. N /\ n \in 0 .. N
        /\ m[n].kind = "positive" => count.consumed <= m[n].consumed
    BY <1>1, <1>3 DEF Loop
  <2>2. SUFFICES ASSUME m[n + 1].kind = "positive" PROVE count.consumed <= m[n + 1].consumed
    BY <2>1
  <2>3. /\ m[n].kind = "positive" /\ element.kind = "positive"
        /\ m[n + 1].consumed = m[n].consumed + element.consumed
    BY <2>1, <2>2 DEF MarkElement, Push, Positive
  <2>4. m[n].consumed \in 1 .. Len(buf) - at
    <3>1. Within(buf, at, policy, m[n])
      BY <2>1, LoopWithin
    <3> QED BY <2>3, <3>1, WithinCases DEF Takes
  <2>5. at + m[n].consumed \in at + 1 .. Len(buf)
    BY <1>1, <2>4
  <2>6. element.consumed \in Nat
    <3>1. Within(buf, at + m[n].consumed, policy, element)
      BY <2>5 DEF ParsesBehind
    <3>2. element.consumed \in 1 .. Len(buf) - (at + m[n].consumed)
      BY <2>3, <3>1, WithinCases DEF Takes
    <3> QED BY <3>2
  <2> HIDE DEF element
  <2> QED BY <1>1, <2>1, <2>3, <2>4, <2>6
<1>4. \A n \in 0 .. N : n \in S
  <2> HIDE DEF S, N
  <2> QED BY <1>1, <1>2, <1>3, Upwards
<1> QED BY <1>4

\* An array takes only bytes that are there.
LEMMA ArrayWithin ==
  ASSUME NEW B, NEW buf \in Seq(B), NEW at \in 0 .. Len(buf) - 1, NEW policy, NEW parse,
         ParsesBehind(buf, at, policy, parse)
  PROVE  /\ Within(buf, at, policy, ArrayParser(buf, at, policy, parse))
         /\ ArrayParser(buf, at, policy, parse).kind # "count"
<1> DEFINE count == CountParser(buf, at, policy)
           verdict == ArrayParser(buf, at, policy, parse)
<1>1. verdict = MarkArray(at, policy, count, parse)
  BY DEF ArrayParser
<1>2. Within(buf, at, policy, count)
  BY CountWithin
<1> HIDE DEF count, verdict
<1>3. CASE count.kind # "count"
  BY <1>1, <1>2, <1>3 DEF MarkArray, verdict
<1>4. CASE count.kind = "count" /\ policy = "keep_result" /\ count.value > ReserveMax
  <2>1. count.value \in 0 .. LongMax /\ ReserveMax < LongMax
    BY <1>2, <1>4, LimitsAssumption, WithinCases DEF Takes
  <2>2. verdict = LengthError
    BY <1>1, <1>4 DEF MarkArray
  <2> QED BY <1>4, <2>1, <2>2 DEF Within, LengthError, verdict
<1>5. CASE count.kind = "count" /\ ~ (policy = "keep_result" /\ count.value > ReserveMax)
  <2>1. Takes(buf, at, count) /\ count.value \in Nat
    BY <1>2, <1>5, WithinCases DEF Takes
  <2>2. PICK m : Loop(at, policy, count, parse, m)
                 /\ MarkArray(at, policy, count, parse) = m[count.value]
    BY <1>5, <2>1, LoopEnds, SMTT(40)
  <2>3. at \in 0 .. Len(buf) /\ count.value \in 0 .. count.value
    BY <2>1
  <2>4. \A n \in 0 .. count.value : Within(buf, at, policy, m[n]) /\ m[n].kind # "count"
    BY <1>5, <2>1, <2>2, <2>3, LoopWithin
  <2> QED BY <1>1, <2>2, <2>3, <2>4 DEF verdict
<1> QED BY <1>3, <1>4, <1>5

\* An array depends on nothing but the elements behind its head.
LEMMA ArraySame ==
  ASSUME NEW B, NEW buf \in Seq(B), NEW at \in 0 .. Len(buf) - 1, NEW policy,
         NEW g, NEW h, ParsesBehind(buf, at, policy, g),
         \A later \in at + 1 .. Len(buf) : g[later] = h[later]
  PROVE  ArrayParser(buf, at, policy, g) = ArrayParser(buf, at, policy, h)
<1> DEFINE count == CountParser(buf, at, policy)
           N == count.value
<1>1. /\ ArrayParser(buf, at, policy, g) = MarkArray(at, policy, count, g)
      /\ ArrayParser(buf, at, policy, h) = MarkArray(at, policy, count, h)
  BY DEF ArrayParser
<1>2. Within(buf, at, policy, count)
  BY CountWithin
<1> HIDE DEF count
<1>3. CASE count.kind # "count"
  BY <1>1, <1>3 DEF MarkArray
<1>4. CASE count.kind = "count" /\ policy = "keep_result" /\ N > ReserveMax
  BY <1>1, <1>4 DEF MarkArray
<1>5. CASE count.kind = "count" /\ ~ (policy = "keep_result" /\ N > ReserveMax)
  <2>1. Takes(buf, at, count) /\ N \in Nat
    BY <1>2, <1>5, WithinCases DEF Takes
  <2>2. PICK mg : Loop(at, policy, count, g, mg) /\ MarkArray(at, policy, count, g) = mg[N]
    BY <1>5, <2>1, LoopEnds
  <2>3. PICK mh : Loop(at, policy, count, h, mh) /\ MarkArray(at, policy, count, h) = mh[N]
    BY <1>5, <2>1, LoopEnds
  <2>4. \A n \in 0 .. N : Within(buf, at, policy, mg[n]) /\ mg[n].kind # "count"
    <3>1. at \in 0 .. Len(buf)
      OBVIOUS
    <3> QED BY <1>5, <2>1, <2>2, <3>1, LoopWithin
  <2> DEFINE S == {n \in 0 .. N : mg[n] = mh[n]}
  <2>5. 0 \in S
    BY <2>1, <2>2, <2>3 DEF Loop
  <2>6. ASSUME NEW n \in 0 .. N - 1, n \in S PROVE n + 1 \in S
    <3>1. /\ mg[n + 1] = MarkElement(at, policy, mg[n], g)
          /\ mh[n + 1] = MarkElement(at, policy, mh[n], h)
      BY <2>2, <2>3 DEF Loop
    <3>2. mg[n] = mh[n] /\ n \in 0 .. N /\ n + 1 \in 0 .. N
      BY <2>1, <2>6
    <3>3. Within(buf, at, policy, mg[n])
      BY <2>4, <3>2
    <3>4. mg[n].kind = "positive" => at + mg[n].consumed \in at + 1 .. Len(buf)
      <4>1. mg[n].kind = "positive" => mg[n].consumed \in 1 .. Len(buf) - at
        BY <3>3, WithinCases DEF Takes
      <4>2. Len(buf) \in Nat /\ at \in Nat
        OBVIOUS
      <4> QED BY <4>1, <4>2
    <3>5. mg[n].kind = "positive" => g[at + mg[n].consumed] = h[at + mg[n].consumed]
      BY <3>4
    <3>6. mg[n + 1] = mh[n + 1]
      BY <3>1, <3>2, <3>5 DEF MarkElement
    <3> QED BY <3>2, <3>6
  <2>7. \A n \in 0 .. N : n \in S
    <3> HIDE DEF S, N
    <3> QED BY <2>1, <2>5, <2>6, Upwards
  <2>8. N \in 0 .. N
    BY <2>1
  <2> QED BY <1>1, <2>2, <2>3, <2>7, <2>8
<1> QED BY <1>3, <1>4, <1>5

\* An array is decided by its own bytes, when its elements are.
LEMMA ArrayPersists ==
  ASSUME NEW B, NEW long \in Seq(B), NEW short \in Seq(B), Continues(long, short),
         NEW at \in 0 .. Len(short) - 1, NEW policy, NEW parse_short, NEW parse_long,
         ParsesBehind(short, at, policy, parse_short),
         ParsesBehind(long, at, policy, parse_long),
         \A later \in at + 1 .. Len(short) :
           Persists(short, later, parse_short[later], parse_long[later])
  PROVE  Persists(short, at, ArrayParser(short, at, policy, parse_short),
                             ArrayParser(long, at, policy, parse_long))
<1> DEFINE early == CountParser(short, at, policy)
           late == CountParser(long, at, policy)
           a == ArrayParser(short, at, policy, parse_short)
           b == ArrayParser(long, at, policy, parse_long)
           N == late.value
<1>1. a = MarkArray(at, policy, early, parse_short) /\ b = MarkArray(at, policy, late, parse_long)
  BY DEF ArrayParser
<1>2. Persists(short, at, early, late)
  BY CountPersists
<1>3. /\ Len(short) \in Nat /\ Len(long) \in Nat /\ Len(short) <= Len(long)
      /\ at \in Nat /\ at \in 0 .. Len(long) - 1 /\ at \in 0 .. Len(long) /\ at \in 0 .. Len(short)
  BY DEF Continues
<1>4. Within(long, at, policy, late) /\ Within(short, at, policy, early)
  BY <1>3, CountWithin
<1>5. Within(long, at, policy, b) /\ b.kind # "count"
  BY <1>3, ArrayWithin
<1> HIDE DEF early, late, a, b
\* the rounds of the two loops, when both read the same count
<1>6. ASSUME early = late, late.kind = "count", ~ (policy = "keep_result" /\ N > ReserveMax)
      PROVE  Persists(short, at, a, b)
  <2>1. Takes(long, at, late) /\ Takes(short, at, early) /\ N \in Nat
    BY <1>4, <1>6, WithinCases DEF Takes
  <2>2. PICK ms : Loop(at, policy, late, parse_short, ms) /\ a = ms[N]
    BY <1>1, <1>6, <2>1, LoopEnds
  <2>3. PICK ml : Loop(at, policy, late, parse_long, ml) /\ b = ml[N]
    BY <1>1, <1>6, <2>1, LoopEnds
  <2>4. \A n \in 0 .. N : Within(short, at, policy, ms[n]) /\ ms[n].kind # "count"
    BY <1>3, <1>6, <2>1, <2>2, LoopWithin
  <2>5. \A n \in 0 .. N : Within(long, at, policy, ml[n]) /\ ml[n].kind # "count"
    BY <1>3, <1>6, <2>1, <2>3, LoopWithin
  <2> DEFINE S == {n \in 0 .. N : Persists(short, at, ms[n], ml[n])}
  <2>6. 0 \in S
    <3>1. ms[0] = ml[0]
      BY <2>2, <2>3 DEF Loop
    <3> QED BY <2>1, <3>1 DEF Persists
  <2>7. ASSUME NEW n \in 0 .. N - 1, n \in S PROVE n + 1 \in S
    <3> DEFINE s == parse_short[at + ms[n].consumed]
               l == parse_long[at + ml[n].consumed]
    <3>1. /\ ms[n + 1] = MarkElement(at, policy, ms[n], parse_short)
          /\ ml[n + 1] = MarkElement(at, policy, ml[n], parse_long)
      BY <2>2, <2>3 DEF Loop
    <3>2. n \in 0 .. N /\ n + 1 \in 0 .. N /\ Persists(short, at, ms[n], ml[n])
      BY <2>1, <2>7
    <3>3. /\ Within(short, at, policy, ms[n]) /\ ms[n].kind # "count"
          /\ Within(long, at, policy, ml[n]) /\ ml[n].kind # "count"
      BY <2>4, <2>5, <3>2
    <3> HIDE DEF N, S
    <3>5. ASSUME ms[n].kind = "positive"
          PROVE  /\ ml[n] = ms[n] /\ at + ms[n].consumed \in at + 1 .. Len(short)
                 /\ Persists(short, at + ms[n].consumed, s, l)
      <4>1. ms[n].consumed \in 1 .. Len(short) - at
        BY <3>3, <3>5, WithinCases DEF Takes
      <4>2. at + ms[n].consumed \in at + 1 .. Len(short)
        BY <1>3, <4>1
      <4>3. ml[n] = ms[n]
        BY <3>2, <3>5 DEF Persists, NotEnoughData
      <4> QED BY <4>2, <4>3
    <3>6. ml[n].kind = "positive" =>
            /\ ml[n].consumed \in 1 .. Len(long) - at
            /\ l.kind = "positive" => l.consumed \in Nat
      <4> SUFFICES ASSUME ml[n].kind = "positive"
                   PROVE  /\ ml[n].consumed \in 1 .. Len(long) - at
                          /\ l.kind = "positive" => l.consumed \in Nat
        OBVIOUS
      <4>1. ml[n].consumed \in 1 .. Len(long) - at
        BY <3>3, WithinCases DEF Takes
      <4>2. at + ml[n].consumed \in at + 1 .. Len(long)
        BY <1>3, <4>1
      <4>3. Within(long, at + ml[n].consumed, policy, l)
        BY <4>2 DEF ParsesBehind
      <4>4. l.kind = "positive" => l.consumed \in 1 .. Len(long) - (at + ml[n].consumed)
        BY <4>3, WithinCases DEF Takes
      <4> QED BY <4>1, <4>4
    <3> HIDE DEF s, l
    <3>7. ml[n + 1].kind = "positive" =>
            /\ ml[n].kind = "positive" /\ l.kind = "positive"
            /\ ml[n + 1] = Push(policy, ml[n], l)
            /\ ml[n + 1].consumed = ml[n].consumed + l.consumed
      BY <3>1 DEF MarkElement, Push, Positive, l
    <3>8. ASSUME ms[n + 1] # NotEnoughData PROVE ml[n + 1] = ms[n + 1]
      <4>1. CASE ms[n].kind # "positive"
        <5>1. ms[n + 1] = ms[n]
          BY <3>1, <4>1 DEF MarkElement
        <5>2. ml[n] = ms[n]
          BY <3>2, <3>8, <5>1 DEF Persists
        <5> QED BY <3>1, <4>1, <5>1, <5>2 DEF MarkElement
      <4>2. CASE ms[n].kind = "positive"
        <5>1. s # NotEnoughData
          BY <3>1, <3>8, <4>2 DEF MarkElement, NotEnoughData, s
        <5>2. l = s /\ ml[n] = ms[n]
          BY <3>5, <4>2, <5>1 DEF Persists
        <5> QED BY <3>1, <5>2 DEF MarkElement, s, l
      <4> QED BY <4>1, <4>2
    <3>9. ASSUME ml[n + 1].kind \in {"positive", "count"}, at + ml[n + 1].consumed <= Len(short)
          PROVE  ms[n + 1] = ml[n + 1]
      <4>1. ml[n + 1].kind = "positive"
        BY <2>5, <3>2, <3>9
      <4>2. /\ ml[n].kind = "positive" /\ l.kind = "positive"
            /\ ml[n + 1].consumed = ml[n].consumed + l.consumed
            /\ ml[n].consumed \in Nat /\ l.consumed \in Nat
        BY <1>3, <3>6, <3>7, <4>1
      <4>3. at + ml[n].consumed <= Len(short) /\ (at + ml[n].consumed) + l.consumed <= Len(short)
        BY <1>3, <3>9, <4>2
      <4>4. ms[n] = ml[n]
        BY <3>2, <4>2, <4>3 DEF Persists
      <4>5. s = l
        BY <3>5, <4>2, <4>3, <4>4 DEF Persists
      <4> QED BY <3>1, <4>4, <4>5 DEF MarkElement, s, l
    <3>10. Persists(short, at, ms[n + 1], ml[n + 1])
      BY <3>8, <3>9 DEF Persists
    <3> QED BY <3>2, <3>10 DEF S
  <2>8. \A n \in 0 .. N : n \in S
    <3> HIDE DEF S, N
    <3> QED BY <2>1, <2>6, <2>7, Upwards
  <2>9. N \in 0 .. N
    BY <2>1
  <2> QED BY <2>2, <2>3, <2>8, <2>9
\* a count that is not there is no array, and a short count is not a long one
<1>7. CASE early = late
  <2>1. CASE late.kind = "count" /\ ~ (policy = "keep_result" /\ N > ReserveMax)
    BY <1>6, <1>7, <2>1 DEF a, b
  <2>2. CASE ~ (late.kind = "count" /\ ~ (policy = "keep_result" /\ N > ReserveMax))
    <3>1. a = b
      BY <1>1, <1>7, <2>2 DEF MarkArray
    <3> QED BY <3>1 DEF Persists, a, b
  <2> QED BY <2>1, <2>2
<1>8. CASE early # late
  <2>1. early = NotEnoughData
    BY <1>2, <1>8 DEF Persists
  <2>2. a = NotEnoughData
    BY <1>1, <2>1 DEF MarkArray, NotEnoughData
  <2>3. ~ (late.kind \in {"positive", "count"} /\ at + late.consumed <= Len(short))
    BY <1>2, <1>8 DEF Persists
  <2>4. ASSUME b.kind \in {"positive", "count"}, at + b.consumed <= Len(short) PROVE FALSE
    <3>1. CASE late.kind # "count"
      BY <1>1, <2>3, <2>4, <3>1 DEF MarkArray
    <3>2. CASE late.kind = "count" /\ policy = "keep_result" /\ N > ReserveMax
      BY <1>1, <2>4, <3>2 DEF MarkArray, LengthError
    <3>3. CASE late.kind = "count" /\ ~ (policy = "keep_result" /\ N > ReserveMax)
      <4>1. Takes(long, at, late) /\ N \in Nat /\ late.consumed \in Nat
        BY <1>4, <3>3, WithinCases DEF Takes
      <4>2. PICK ml : Loop(at, policy, late, parse_long, ml) /\ b = ml[N]
        BY <1>1, <3>3, <4>1, LoopEnds
      <4>3. \A n \in 0 .. N : ml[n].kind = "positive" => late.consumed <= ml[n].consumed
        BY <1>3, <3>3, <4>1, <4>2, LoopGrows
      <4>4. N \in 0 .. N /\ b.kind = "positive"
        BY <1>5, <2>4, <4>1
      <4>5. b.consumed \in 1 .. Len(long) - at
        BY <1>5, <4>4, WithinCases DEF Takes
      <4>6. late.consumed <= b.consumed /\ b.consumed \in Nat
        BY <1>3, <4>2, <4>3, <4>4, <4>5
      <4> QED BY <1>3, <2>3, <2>4, <3>3, <4>1, <4>6
    <3> QED BY <3>1, <3>2, <3>3
  <2> QED BY <2>2, <2>4 DEF Persists, a, b
<1> QED BY <1>7, <1>8

\* Both policies find the same array, when they find the same elements, and
\* there is room for them.
LEMMA ArrayAgrees ==
  ASSUME NEW B, NEW buf \in Seq(B), NEW at \in 0 .. Len(buf) - 1, NEW keep, NEW drop,
         ParsesBehind(buf, at, "keep_result", keep),
         ParsesBehind(buf, at, "drop_result", drop),
         \A later \in at + 1 .. Len(buf) : Agree(keep[later], drop[later])
  PROVE  Agree(ArrayParser(buf, at, "keep_result", keep),
               ArrayParser(buf, at, "drop_result", drop))
<1> DEFINE ck == CountParser(buf, at, "keep_result")
           cd == CountParser(buf, at, "drop_result")
           k == ArrayParser(buf, at, "keep_result", keep)
           d == ArrayParser(buf, at, "drop_result", drop)
           N == ck.value
<1>1. k = MarkArray(at, "keep_result", ck, keep) /\ d = MarkArray(at, "drop_result", cd, drop)
  BY DEF ArrayParser
<1>2. Within(buf, at, "keep_result", ck) /\ Agree(ck, cd) /\ ck # LengthError
  BY CountWithin, CountAgrees
<1>3. Len(buf) \in Nat /\ at \in Nat /\ at \in 0 .. Len(buf)
  OBVIOUS
<1> HIDE DEF ck, cd, k, d
<1>4. CASE ck.kind # "count"
  <2>1. cd.kind # "count"
    BY <1>2, <1>4 DEF Agree
  <2>2. k = ck /\ d = cd
    BY <1>1, <1>4, <2>1 DEF MarkArray
  <2> QED BY <1>2, <2>2 DEF k, d
<1>5. CASE ck.kind = "count" /\ N > ReserveMax
  BY <1>1, <1>5 DEF MarkArray, Agree, k, d
<1>6. CASE ck.kind = "count" /\ ~ (N > ReserveMax)
  <2>1. cd = ck /\ Takes(buf, at, ck) /\ N \in Nat
    BY <1>2, <1>6, WithinCases DEF Takes, Agree
  <2>2. PICK mk : Loop(at, "keep_result", ck, keep, mk) /\ k = mk[N]
    BY <1>1, <1>6, <2>1, LoopEnds
  <2>3. PICK md : Loop(at, "drop_result", ck, drop, md) /\ d = md[N]
    BY <1>1, <1>6, <2>1, LoopEnds
  <2>4. \A n \in 0 .. N : Within(buf, at, "keep_result", mk[n]) /\ mk[n].kind # "count"
    BY <1>3, <1>6, <2>1, <2>2, LoopWithin
  <2> DEFINE S == {n \in 0 .. N : Agree(mk[n], md[n])}
  <2>5. 0 \in S
    <3>1. Agree(mk[0], md[0])
      BY <2>2, <2>3 DEF Loop, Positive, Agree
    <3> QED BY <2>1, <3>1
  <2>6. ASSUME NEW n \in 0 .. N - 1, n \in S PROVE n + 1 \in S
    <3> DEFINE ek == keep[at + mk[n].consumed]
               ed == drop[at + mk[n].consumed]
    <3>1. /\ mk[n + 1] = MarkElement(at, "keep_result", mk[n], keep)
          /\ md[n + 1] = MarkElement(at, "drop_result", md[n], drop)
      BY <2>2, <2>3 DEF Loop
    <3>2. n \in 0 .. N /\ n + 1 \in 0 .. N /\ Agree(mk[n], md[n])
      BY <2>1, <2>6
    <3> HIDE DEF N, S
    <3>3. CASE mk[n].kind # "positive"
      <4>1. CASE mk[n] = LengthError
        <5>1. mk[n + 1] = LengthError
          BY <3>1, <3>3, <4>1 DEF MarkElement
        <5> QED BY <3>2, <5>1 DEF Agree, S
      <4>2. CASE mk[n] # LengthError
        <5>1. md[n] = mk[n]
          BY <3>2, <3>3, <4>2 DEF Agree
        <5>2. mk[n + 1] = mk[n] /\ md[n + 1] = mk[n]
          BY <3>1, <3>3, <5>1 DEF MarkElement
        <5> QED BY <3>2, <3>3, <5>2 DEF Agree, S
      <4> QED BY <4>1, <4>2
    <3>4. CASE mk[n].kind = "positive"
      <4>1. mk[n].consumed \in 1 .. Len(buf) - at
        <5>1. Within(buf, at, "keep_result", mk[n])
          BY <2>4, <3>2
        <5> QED BY <3>4, <5>1, WithinCases DEF Takes
      <4>2. at + mk[n].consumed \in at + 1 .. Len(buf)
        BY <1>3, <4>1
      <4>3. Agree(ek, ed)
        BY <4>2
      <4>4. md[n].kind = "positive" /\ md[n].consumed = mk[n].consumed
        BY <3>2, <3>4 DEF Agree, LengthError
      <4>5. /\ mk[n + 1] = IF ek.kind # "positive" THEN ek ELSE Push("keep_result", mk[n], ek)
            /\ md[n + 1] = IF ed.kind # "positive" THEN ed ELSE Push("drop_result", md[n], ed)
        BY <3>1, <3>4, <4>4 DEF MarkElement
      <4> HIDE DEF ek, ed
      <4>6. CASE ek.kind # "positive"
        <5>1. mk[n + 1] = ek /\ (ek # LengthError => md[n + 1] = ek)
          BY <4>3, <4>5, <4>6 DEF Agree
        <5>2. Agree(mk[n + 1], md[n + 1])
          BY <4>6, <5>1 DEF Agree
        <5> QED BY <3>2, <5>2 DEF S
      <4>7. CASE ek.kind = "positive"
        <5>1. ed.kind = "positive" /\ ed.consumed = ek.consumed
          BY <4>3, <4>7 DEF Agree, LengthError
        <5>2. Agree(mk[n + 1], md[n + 1])
          BY <4>4, <4>5, <4>7, <5>1 DEF Agree, Push, Positive
        <5> QED BY <3>2, <5>2 DEF S
      <4> QED BY <4>6, <4>7
    <3> QED BY <3>3, <3>4
  <2>7. \A n \in 0 .. N : n \in S
    <3> HIDE DEF S, N
    <3> QED BY <2>1, <2>5, <2>6, Upwards
  <2>8. N \in 0 .. N
    BY <2>1
  <2> QED BY <2>2, <2>3, <2>7, <2>8 DEF k, d
<1> QED BY <1>4, <1>5, <1>6

-----------------------------------------------------------------------------
(* raw_parse.                                                               *)

\* Whatever the introduction byte, raw_parse takes only bytes that are there.
LEMMA ParseAtWithin ==
  ASSUME NEW B, NEW buf \in Seq(B), NEW at \in 0 .. Len(buf), NEW policy, NEW parse,
         ParsesBehind(buf, at, policy, parse)
  PROVE  /\ Within(buf, at, policy, ParseAt(buf, policy, at, parse))
         /\ ParseAt(buf, policy, at, parse).kind # "count"
<1> DEFINE verdict == ParseAt(buf, policy, at, parse)
<1>1. CASE at = Len(buf)
  BY <1>1 DEF ParseAt, Within, NotEnoughData
<1>2. CASE at # Len(buf)
  <2>1. at \in 0 .. Len(buf) - 1
    BY <1>2
  <2>2. \A type : /\ Within(buf, at, policy, LineParser(type, buf, at, policy))
                   /\ LineParser(type, buf, at, policy).kind # "count"
    <3> TAKE type
    <3>1. LineParser(type, buf, at, policy).kind # "count"
      BY DEF LineParser, MarkLine, Positive, NotEnoughData
    <3> QED BY <2>1, <3>1, LineWithin
  <2>3. /\ Within(buf, at, policy, BulkStringParser(buf, at, policy))
        /\ BulkStringParser(buf, at, policy).kind # "count"
    BY <2>1, BulkStringWithin
  <2>4. /\ Within(buf, at, policy, ArrayParser(buf, at, policy, parse))
        /\ ArrayParser(buf, at, policy, parse).kind # "count"
    BY <2>1, ArrayWithin
  <2>5. /\ Within(buf, at, policy, ProtocolError("wrong_intoduction"))
        /\ ProtocolError("wrong_intoduction").kind # "count"
    <3>1. "wrong_intoduction" \in Codes
      BY DEF Codes
    <3> QED BY <3>1 DEF Within, ProtocolError
  <2> QED BY <1>2, <2>2, <2>3, <2>4, <2>5 DEF ParseAt
<1> QED BY <1>1, <1>2

\* raw_parse depends on nothing but what it is at the offsets behind.
LEMMA ParseAtSame ==
  ASSUME NEW B, NEW buf \in Seq(B), NEW at \in 0 .. Len(buf), NEW policy,
         NEW g, NEW h, ParsesBehind(buf, at, policy, g),
         \A later \in at + 1 .. Len(buf) : g[later] = h[later]
  PROVE  ParseAt(buf, policy, at, g) = ParseAt(buf, policy, at, h)
<1>1. CASE at = Len(buf)
  BY <1>1 DEF ParseAt
<1>2. CASE at # Len(buf)
  <2>1. ArrayParser(buf, at, policy, g) = ArrayParser(buf, at, policy, h)
    <3>1. at \in 0 .. Len(buf) - 1
      BY <1>2
    <3> QED BY <3>1, ArraySame
  <2> QED BY <1>2, <2>1 DEF ParseAt
<1> QED BY <1>1, <1>2

IsRawParse(f, buf, policy) ==
  f = [at \in 0 .. Len(buf) |-> ParseAt(buf, policy, at, f)]

\* raw_parse terminates: there is a function that is at every offset what the
\* parser makes of the offsets behind it.
LEMMA RawParseExists ==
  ASSUME NEW B, NEW buf \in Seq(B), NEW policy
  PROVE  \E f : IsRawParse(f, buf, policy)
<1> DEFINE L == Len(buf)
           Step(at, g) == ParseAt(buf, policy, at, g)
           Good(at, v) == Within(buf, at, policy, v) /\ v.kind # "count"
           Solves(g, k) == \A at \in L - k .. L : g[at] = Step(at, g) /\ Good(at, g[at])
           S == {k \in 0 .. L : \E g : Solves(g, k)}
<1>1. L \in Nat
  OBVIOUS
<1>2. \A g, h : \A at \in 0 .. L :
        /\ \A later \in at + 1 .. L : Good(later, g[later])
        /\ \A later \in at + 1 .. L : g[later] = h[later]
        => Step(at, g) = Step(at, h) /\ Good(at, Step(at, g))
  <2> TAKE g, h
  <2> TAKE at \in 0 .. L
  <2> HAVE /\ \A later \in at + 1 .. L : Good(later, g[later])
           /\ \A later \in at + 1 .. L : g[later] = h[later]
  <2>1. ParsesBehind(buf, at, policy, g)
    BY DEF ParsesBehind
  <2>2. Step(at, g) = Step(at, h)
    BY <2>1, ParseAtSame
  <2>3. Good(at, Step(at, g))
    BY <2>1, ParseAtWithin
  <2> QED BY <2>2, <2>3
<1> HIDE DEF Step, Good, L
<1>3. 0 \in S
  <2> DEFINE g == [at \in {L} |-> Step(at, <<>>)]
  <2>1. ASSUME NEW at \in L - 0 .. L PROVE g[at] = Step(at, g) /\ Good(at, g[at])
    <3>1. at = L /\ at \in 0 .. L /\ \A later \in at + 1 .. L : FALSE
      BY <1>1
    <3>2. g[at] = Step(at, <<>>)
      BY <3>1
    <3> HIDE DEF g
    <3>3. Step(at, <<>>) = Step(at, g) /\ Good(at, Step(at, <<>>))
      BY <1>2, <3>1
    <3> QED BY <3>2, <3>3
  <2>2. Solves(g, 0)
    BY <2>1
  <2>3. 0 \in 0 .. L
    BY <1>1
  <2> HIDE DEF Solves, g
  <2> QED BY <2>2, <2>3
<1>4. ASSUME NEW k \in 0 .. L - 1, k \in S PROVE k + 1 \in S
  <2>1. PICK g : Solves(g, k)
    BY <1>4
  <2> DEFINE first == L - (k + 1)
             h == [at \in 0 .. L |-> IF at = first THEN Step(at, g) ELSE g[at]]
  <2>2. first \in 0 .. L /\ first + 1 = L - k
    BY <1>1
  <2>3. \A at \in first + 1 .. L : at \in 0 .. L /\ at # first /\ at \in L - k .. L
    BY <1>1, <2>2
  <2>4. \A at \in first + 1 .. L : h[at] = g[at] /\ Good(at, g[at]) /\ g[at] = Step(at, g)
    BY <2>1, <2>3
  <2>5. h[first] = Step(first, g)
    BY <2>2
  <2> HIDE DEF h
  <2>6. \A at \in first .. L : Step(at, g) = Step(at, h) /\ Good(at, Step(at, g))
    <3> TAKE at \in first .. L
    <3>1. at \in 0 .. L /\ \A later \in at + 1 .. L : later \in first + 1 .. L
      BY <1>1, <2>2
    <3> HIDE DEF first
    <3> QED BY <1>2, <2>4, <3>1
  <2>7. ASSUME NEW at \in first .. L PROVE h[at] = Step(at, h) /\ Good(at, h[at])
    <3>1. at = first \/ at \in first + 1 .. L
      BY <1>1, <2>2
    <3> HIDE DEF first
    <3> QED BY <2>4, <2>5, <2>6, <3>1
  <2>8. Solves(h, k + 1) /\ k + 1 \in 0 .. L
    BY <1>1, <2>7
  <2> HIDE DEF Solves
  <2> QED BY <2>8
<1>5. \A k \in 0 .. L : k \in S
  <2> HIDE DEF S
  <2> QED BY <1>1, <1>3, <1>4, Upwards
<1>6. PICK g : Solves(g, L)
  <2>1. L \in 0 .. L
    BY <1>1
  <2> HIDE DEF Solves
  <2> QED BY <1>5, <2>1
<1> DEFINE f == [at \in 0 .. L |-> g[at]]
<1>7. ASSUME NEW at \in 0 .. L PROVE f[at] = Step(at, f)
  <2>1. \A any \in 0 .. L : any \in L - L .. L
    BY <1>1
  <2>2. \A any \in 0 .. L : g[any] = Step(any, g) /\ Good(any, g[any]) /\ f[any] = g[any]
    BY <1>6, <2>1
  <2>3. \A later \in at + 1 .. L : later \in 0 .. L
    BY <1>1
  <2> HIDE DEF f
  <2>4. Step(at, g) = Step(at, f)
    BY <1>2, <2>2, <2>3
  <2> QED BY <2>2, <2>4
<1>8. f = [at \in 0 .. L |-> Step(at, f)]
  BY <1>7, Zenon
<1> HIDE DEF f
<1>9. IsRawParse(f, buf, policy)
  BY <1>8, Zenon DEF L, Step, IsRawParse
<1> QED BY <1>9

\* raw_parse at an offset is what the parser makes of the offsets behind it.
LEMMA RawParseEquation ==
  ASSUME NEW B, NEW buf \in Seq(B), NEW policy, NEW at \in 0 .. Len(buf)
  PROVE  RawParse(buf, policy)[at] = ParseAt(buf, policy, at, RawParse(buf, policy))
<1> DEFINE f == CHOOSE parse : IsRawParse(parse, buf, policy)
<1>1. RawParse(buf, policy) = f
  BY Zenon DEF RawParse, IsRawParse
<1>2. IsRawParse(f, buf, policy)
  BY RawParseExists
<1> HIDE DEF f
<1>3. f[at] = ParseAt(buf, policy, at, f)
  BY <1>2, Zenon DEF IsRawParse
<1> QED BY <1>1, <1>3

\* raw_parse takes only bytes that are there, and returns what parse_result_t
\* has an alternative for.
THEOREM RawParseWithin ==
  ASSUME NEW B, NEW buf \in Seq(B), NEW policy, NEW at \in 0 .. Len(buf)
  PROVE  /\ Within(buf, at, policy, RawParse(buf, policy)[at])
         /\ RawParse(buf, policy)[at].kind # "count"
<1> DEFINE parse == RawParse(buf, policy)
           L == Len(buf)
           Good(v, x) == Within(buf, x, policy, v) /\ v.kind # "count"
           S == {x \in 0 .. L : Good(parse[x], x)}
<1>1. L \in Nat
  OBVIOUS
<1>2. ASSUME NEW x \in 0 .. L, \A later \in x + 1 .. L : later \in S
      PROVE  x \in S
  <2>1. ParsesBehind(buf, x, policy, parse)
    BY <1>2 DEF ParsesBehind
  <2>2. parse[x] = ParseAt(buf, policy, x, parse)
    BY RawParseEquation
  <2> HIDE DEF parse
  <2>3. Good(parse[x], x)
    BY <2>1, <2>2, ParseAtWithin
  <2> QED BY <2>3
<1>3. \A x \in 0 .. L : x \in S
  <2> HIDE DEF S, L
  <2> QED BY <1>1, <1>2, Downwards
<1> QED BY <1>3

\* The verdict of raw_parse is decided by the bytes that it takes: no bytes that
\* arrive behind change it, and none is waited for.
THEOREM RawParsePersists ==
  ASSUME NEW B, NEW long \in Seq(B), NEW short \in Seq(B), Continues(long, short),
         NEW policy, NEW at \in 0 .. Len(short)
  PROVE  Persists(short, at, RawParse(short, policy)[at], RawParse(long, policy)[at])
<1> DEFINE ps == RawParse(short, policy)
           pl == RawParse(long, policy)
           L == Len(short)
           S == {x \in 0 .. L : Persists(short, x, ps[x], pl[x])}
<1>1. L \in Nat /\ Len(long) \in Nat /\ L <= Len(long)
  BY DEF Continues
<1>2. ASSUME NEW x \in 0 .. L, \A later \in x + 1 .. L : later \in S
      PROVE  x \in S
  <2>1. ParsesBehind(short, x, policy, ps) /\ ParsesBehind(long, x, policy, pl)
    <3>1. (\A later \in x + 1 .. L : later \in 0 .. L) /\ (\A later \in x + 1 .. Len(long) : later \in 0 .. Len(long))
      BY <1>1
    <3> QED BY <3>1, RawParseWithin DEF ParsesBehind
  <2>2. ps[x] = ParseAt(short, policy, x, ps) /\ pl[x] = ParseAt(long, policy, x, pl)
    <3>1. x \in 0 .. Len(long)
      BY <1>1
    <3> QED BY <3>1, RawParseEquation
  <2>3. \A later \in x + 1 .. L : Persists(short, later, ps[later], pl[later])
    BY <1>2
  <2> HIDE DEF ps, pl
  <2>4. Persists(short, x, ps[x], pl[x])
    <3>1. CASE x = L
      <4>1. ps[x] = NotEnoughData
        BY <2>2, <3>1 DEF ParseAt
      <4>2. Within(long, x, policy, pl[x])
        <5>1. x \in 0 .. Len(long)
          BY <1>1
        <5> QED BY <2>1, <2>2, <5>1, ParseAtWithin
      <4>3. pl[x].kind \in {"positive", "count"} => pl[x].consumed \in 1 .. Len(long) - x
        BY <4>2, WithinCases DEF Takes
      <4>4. ~ (pl[x].kind \in {"positive", "count"} /\ x + pl[x].consumed <= L)
        BY <1>1, <3>1, <4>3
      <4> QED BY <4>1, <4>4 DEF Persists
    <3>2. CASE x # L
      <4>1. x \in 0 .. Len(short) - 1 /\ x # Len(long) /\ x # L
        BY <1>1, <3>2
      <4>2. \A type : Persists(short, x, LineParser(type, short, x, policy), LineParser(type, long, x, policy))
        BY <4>1, LinePersists
      <4>3. Persists(short, x, BulkStringParser(short, x, policy), BulkStringParser(long, x, policy))
        BY <4>1, BulkStringPersists
      <4>4. Persists(short, x, ArrayParser(short, x, policy, ps), ArrayParser(long, x, policy, pl))
        BY <2>1, <2>3, <4>1, ArrayPersists
      <4>5. Persists(short, x, ProtocolError("wrong_intoduction"), ProtocolError("wrong_intoduction"))
        BY DEF Persists
      <4>6. short[x + 1] = long[x + 1]
        BY <1>1, <4>1 DEF Continues
      <4> HIDE DEF L
      <4> QED BY <2>2, <4>1, <4>2, <4>3, <4>4, <4>5, <4>6 DEF ParseAt, L
    <3> QED BY <3>1, <3>2
  <2> QED BY <2>4 DEF ps, pl
<1>3. \A x \in 0 .. L : x \in S
  <2> HIDE DEF S, L
  <2> QED BY <1>1, <1>2, Downwards
<1> QED BY <1>3

\* Both policies reach the same verdict, unless there is no room for the markers.
THEOREM RawParseAgrees ==
  ASSUME NEW B, NEW buf \in Seq(B), NEW at \in 0 .. Len(buf)
  PROVE  Agree(RawParse(buf, "keep_result")[at], RawParse(buf, "drop_result")[at])
<1> DEFINE pk == RawParse(buf, "keep_result")
           pd == RawParse(buf, "drop_result")
           L == Len(buf)
           S == {x \in 0 .. L : Agree(pk[x], pd[x])}
<1>1. L \in Nat
  OBVIOUS
<1>2. ASSUME NEW x \in 0 .. L, \A later \in x + 1 .. L : later \in S
      PROVE  x \in S
  <2>1. ParsesBehind(buf, x, "keep_result", pk) /\ ParsesBehind(buf, x, "drop_result", pd)
    <3>1. \A later \in x + 1 .. L : later \in 0 .. L
      BY <1>1
    <3> QED BY <3>1, RawParseWithin DEF ParsesBehind
  <2>2. pk[x] = ParseAt(buf, "keep_result", x, pk) /\ pd[x] = ParseAt(buf, "drop_result", x, pd)
    BY RawParseEquation
  <2>3. \A later \in x + 1 .. L : Agree(pk[later], pd[later])
    BY <1>2
  <2> HIDE DEF pk, pd
  <2>4. Agree(pk[x], pd[x])
    <3>1. CASE x = L
      BY <2>2, <3>1 DEF ParseAt, Agree, NotEnoughData
    <3>2. CASE x # L
      <4>1. x \in 0 .. Len(buf) - 1
        BY <1>1, <3>2
      <4>2. \A type : Agree(LineParser(type, buf, x, "keep_result"), LineParser(type, buf, x, "drop_result"))
        BY LineAgrees
      <4>3. Agree(BulkStringParser(buf, x, "keep_result"), BulkStringParser(buf, x, "drop_result"))
        BY BulkStringAgrees
      <4>4. Agree(ArrayParser(buf, x, "keep_result", pk), ArrayParser(buf, x, "drop_result", pd))
        BY <2>1, <2>3, <4>1, ArrayAgrees
      <4>5. Agree(ProtocolError("wrong_intoduction"), ProtocolError("wrong_intoduction"))
        BY DEF Agree, ProtocolError
      <4> QED BY <2>2, <3>2, <4>2, <4>3, <4>4, <4>5 DEF ParseAt
    <3> QED BY <3>1, <3>2
  <2> QED BY <2>4 DEF pk, pd
<1>3. \A x \in 0 .. L : x \in S
  <2> HIDE DEF S, L
  <2> QED BY <1>1, <1>2, Downwards
<1> QED BY <1>3

-----------------------------------------------------------------------------
(* The markers of keep_result.                                              *)

\* what keep_result makes of the bytes from `at' on, and all of its markers
Parsed(buf, at) == RawParse(buf, "keep_result")[at]
Results(buf) == {Parsed(buf, at).result : at \in 0 .. Len(buf)}

\* `marker' is that of the reply whose bytes are those from `at' to `end'
MarkerAt(buf, marker, at, end) ==
  /\ at \in 0 .. Len(buf) /\ end \in Int
  /\ Parsed(buf, at).kind = "positive"
  /\ marker = Parsed(buf, at).result
  /\ at + Parsed(buf, at).consumed <= end

\* the markers are those of replies at the offsets `starts', one behind the other
\* between `low' and `high'; `deep' bytes precede every array
RowAt(buf, markers, starts, deep, low, high) ==
  /\ \A i \in 1 .. Len(markers) :
       /\ MarkerAt(buf, markers[i], starts[i], high)
       /\ low <= starts[i]
       /\ markers[i].type = "array" => deep <= starts[i]
  /\ \A i, j \in 1 .. Len(markers) :
       i < j => starts[i] + Parsed(buf, starts[i]).consumed <= starts[j]

Row(buf, markers, deep, low, high) ==
  /\ markers \in Seq(Results(buf))
  /\ \E starts : RowAt(buf, markers, starts, deep, low, high)

\* A reply takes some of the bytes from its offset on.
LEMMA ParsedTakes ==
  ASSUME NEW B, NEW buf \in Seq(B), NEW at \in 0 .. Len(buf), Parsed(buf, at).kind = "positive"
  PROVE  /\ Parsed(buf, at).consumed \in 1 .. Len(buf) - at
         /\ Parsed(buf, at).result \in Results(buf)
<1>1. Within(buf, at, "keep_result", Parsed(buf, at))
  BY RawParseWithin DEF Parsed
<1>2. Parsed(buf, at).consumed \in 1 .. Len(buf) - at
  BY <1>1, WithinCases DEF Takes
<1> QED BY <1>2 DEF Results

\* An empty sequence of markers fits anywhere, a marker where it is.
LEMMA RowOfNone ==
  ASSUME NEW B, NEW buf \in Seq(B), NEW deep, NEW low, NEW high
  PROVE  Row(buf, <<>>, deep, low, high)
<1>1. <<>> \in Seq(Results(buf)) /\ Len(<<>>) = 0
  OBVIOUS
<1>2. RowAt(buf, <<>>, <<>>, deep, low, high)
  BY <1>1 DEF RowAt
<1> QED BY <1>1, <1>2 DEF Row

\* A row of one marker.
LEMMA RowOfOne ==
  ASSUME NEW B, NEW buf \in Seq(B), NEW at \in 0 .. Len(buf), Parsed(buf, at).kind = "positive",
         NEW deep \in Int, Parsed(buf, at).result.type = "array" => deep <= at
  PROVE  Row(buf, <<Parsed(buf, at).result>>, deep, at, at + Parsed(buf, at).consumed)
<1> DEFINE kept == Parsed(buf, at).result
           end == at + Parsed(buf, at).consumed
<1>1. kept \in Results(buf) /\ end \in Int /\ at \in Int
  BY ParsedTakes
<1>2. MarkerAt(buf, kept, at, end)
  BY <1>1 DEF MarkerAt
<1>3. kept.type = "array" => deep <= at
  OBVIOUS
<1> HIDE DEF kept, end
<1>4. <<kept>> \in Seq(Results(buf)) /\ Len(<<kept>>) = 1 /\ <<kept>>[1] = kept
  BY <1>1
<1>5. RowAt(buf, <<kept>>, [i \in 1 .. 1 |-> at], deep, at, end)
  BY <1>1, <1>2, <1>3, <1>4 DEF RowAt
<1> QED BY <1>4, <1>5 DEF Row, kept, end

\* A marker of a reply that ends at `end' is one of a reply that ends before `later'.
LEMMA MarkerEnds ==
  ASSUME NEW B, NEW buf \in Seq(B), NEW marker, NEW at, NEW end, MarkerAt(buf, marker, at, end)
  PROVE  /\ at \in Int /\ Parsed(buf, at).consumed \in Nat
         /\ at + Parsed(buf, at).consumed <= end
         /\ \A later \in Int : end <= later => MarkerAt(buf, marker, at, later)
<1>1. /\ at \in 0 .. Len(buf) /\ end \in Int /\ Parsed(buf, at).kind = "positive"
      /\ marker = Parsed(buf, at).result /\ at + Parsed(buf, at).consumed <= end
  BY DEF MarkerAt
<1>2. Parsed(buf, at).consumed \in 1 .. Len(buf) - at
  BY <1>1, ParsedTakes
<1> QED BY <1>1, <1>2 DEF MarkerAt

\* Two rows, one behind the other, are a row.
LEMMA RowJoin ==
  ASSUME NEW B, NEW buf \in Seq(B), NEW a, NEW b, NEW deep \in Int,
         NEW low \in Int, NEW mid \in Int, NEW next \in Int, NEW high \in Int,
         low <= next, mid <= next, mid <= high,
         Row(buf, a, deep, low, mid), Row(buf, b, deep, next, high)
  PROVE  Row(buf, a \o b, deep, low, high)
<1>1. PICK sa : RowAt(buf, a, sa, deep, low, mid)
  BY DEF Row
<1>2. PICK sb : RowAt(buf, b, sb, deep, next, high)
  BY DEF Row
<1> DEFINE la == Len(a)
           lb == Len(b)
           starts == [i \in 1 .. la + lb |-> IF i <= la THEN sa[i] ELSE sb[i - la]]
           ab == a \o b
           Ends(s) == s + Parsed(buf, s).consumed
<1>3. /\ ab \in Seq(Results(buf)) /\ Len(ab) = la + lb /\ la \in Nat /\ lb \in Nat
      /\ \A i \in 1 .. la + lb : ab[i] = IF i <= la THEN a[i] ELSE b[i - la]
  <2>1. a \in Seq(Results(buf)) /\ b \in Seq(Results(buf))
    BY DEF Row
  <2> QED BY <2>1, ConcatProperties
<1>4. \A i \in 1 .. la : /\ MarkerAt(buf, a[i], sa[i], mid) /\ low <= sa[i]
                         /\ a[i].type = "array" => deep <= sa[i]
  BY <1>1 DEF RowAt
<1>5. \A i \in 1 .. lb : /\ MarkerAt(buf, b[i], sb[i], high) /\ next <= sb[i]
                         /\ b[i].type = "array" => deep <= sb[i]
  BY <1>2 DEF RowAt
<1>6. \A i, j \in 1 .. la : i < j => Ends(sa[i]) <= sa[j]
  BY <1>1 DEF RowAt
<1>7. \A i, j \in 1 .. lb : i < j => Ends(sb[i]) <= sb[j]
  BY <1>2 DEF RowAt
<1>8. \A i \in 1 .. la + lb :
        \/ i \in 1 .. la /\ starts[i] = sa[i] /\ ab[i] = a[i]
        \/ i - la \in 1 .. lb /\ i > la /\ starts[i] = sb[i - la] /\ ab[i] = b[i - la]
  BY <1>3
<1>9. \A i \in 1 .. la : Ends(sa[i]) \in Int /\ Ends(sa[i]) <= mid /\ MarkerAt(buf, a[i], sa[i], high)
  <2> TAKE i \in 1 .. la
  <2>1. MarkerAt(buf, a[i], sa[i], mid)
    BY <1>4
  <2> QED BY <2>1, MarkerEnds
<1>10. \A i \in 1 .. lb : sb[i] \in Int
  <2> TAKE i \in 1 .. lb
  <2>1. MarkerAt(buf, b[i], sb[i], high)
    BY <1>5
  <2> QED BY <2>1, MarkerEnds
<1> HIDE DEF starts, ab, la, lb
<1>11. ASSUME NEW i \in 1 .. la + lb
       PROVE  /\ MarkerAt(buf, ab[i], starts[i], high) /\ low <= starts[i]
              /\ ab[i].type = "array" => deep <= starts[i]
  <2>1. CASE i \in 1 .. la /\ starts[i] = sa[i] /\ ab[i] = a[i]
    BY <1>4, <1>9, <2>1
  <2>2. CASE i - la \in 1 .. lb /\ starts[i] = sb[i - la] /\ ab[i] = b[i - la]
    <3> DEFINE k == i - la
    <3>1. k \in 1 .. lb /\ starts[i] = sb[k] /\ ab[i] = b[k]
      BY <2>2
    <3> HIDE DEF k
    <3>2. next <= sb[k] /\ sb[k] \in Int
      BY <1>5, <1>10, <3>1
    <3>3. low <= sb[k]
      BY <3>2
    <3> QED BY <1>5, <3>1, <3>3
  <2> QED BY <1>8, <2>1, <2>2
<1>12. ASSUME NEW i \in 1 .. la + lb, NEW j \in 1 .. la + lb, i < j
       PROVE  Ends(starts[i]) <= starts[j]
  <2>1. CASE i \in 1 .. la /\ j \in 1 .. la /\ starts[i] = sa[i] /\ starts[j] = sa[j]
    BY <1>6, <1>12, <2>1
  <2>2. CASE i \in 1 .. la /\ j - la \in 1 .. lb /\ starts[i] = sa[i] /\ starts[j] = sb[j - la]
    <3> DEFINE l == j - la
    <3>1. l \in 1 .. lb /\ starts[j] = sb[l]
      BY <2>2
    <3> HIDE DEF l
    <3>2. next <= sb[l] /\ sb[l] \in Int
      BY <1>5, <1>10, <3>1
    <3>3. Ends(sa[i]) <= mid /\ Ends(sa[i]) \in Int
      BY <1>9, <2>2
    <3> HIDE DEF Ends
    <3>4. Ends(sa[i]) <= sb[l]
      BY <3>2, <3>3
    <3> QED BY <2>2, <3>1, <3>4
  <2>3. CASE i - la \in 1 .. lb /\ j - la \in 1 .. lb /\ starts[i] = sb[i - la] /\ starts[j] = sb[j - la]
    <3> DEFINE k == i - la
               l == j - la
    <3>1. k < l
      BY <1>3, <1>12
    <3>2. k \in 1 .. lb /\ l \in 1 .. lb /\ starts[i] = sb[k] /\ starts[j] = sb[l]
      BY <2>3
    <3> HIDE DEF k, l
    <3> QED BY <1>7, <3>1, <3>2
  <2>4. i \in 1 .. la \/ j \notin 1 .. la
    BY <1>3, <1>12
  <2>5. ASSUME NEW k \in 1 .. la + lb
        PROVE  \/ k \in 1 .. la /\ starts[k] = sa[k]
               \/ k \notin 1 .. la /\ k - la \in 1 .. lb /\ starts[k] = sb[k - la]
    <3>1. \/ k \in 1 .. la /\ starts[k] = sa[k]
          \/ k > la /\ k - la \in 1 .. lb /\ starts[k] = sb[k - la]
      BY <1>8
    <3> QED BY <1>3, <3>1
  <2> HIDE DEF Ends
  <2> QED BY <2>1, <2>2, <2>3, <2>4, <2>5, Zenon
<1>13. RowAt(buf, ab, starts, deep, low, high)
  BY <1>3, <1>11, <1>12 DEF RowAt
<1> QED BY <1>3, <1>13 DEF Row, ab

\* The bounds of a row may be wider.
LEMMA RowWiden ==
  ASSUME NEW B, NEW buf \in Seq(B), NEW a, NEW deep \in Int, NEW low \in Int, NEW high \in Int,
         Row(buf, a, deep, low, high),
         NEW depth \in Int, depth <= deep, NEW from \in Int, from <= low,
         NEW to \in Int, high <= to
  PROVE  Row(buf, a, depth, from, to)
<1>1. PICK starts : RowAt(buf, a, starts, deep, low, high)
  BY DEF Row
<1>2. ASSUME NEW i \in 1 .. Len(a)
      PROVE  /\ MarkerAt(buf, a[i], starts[i], to) /\ from <= starts[i]
             /\ a[i].type = "array" => depth <= starts[i]
  <2>1. MarkerAt(buf, a[i], starts[i], high) /\ low <= starts[i] /\ (a[i].type = "array" => deep <= starts[i])
    BY <1>1 DEF RowAt
  <2>2. starts[i] \in 0 .. Len(buf) /\ Parsed(buf, starts[i]).kind = "positive"
    BY <2>1 DEF MarkerAt
  <2>3. Parsed(buf, starts[i]).consumed \in 1 .. Len(buf) - starts[i]
    BY <2>2, ParsedTakes
  <2> QED BY <2>1, <2>2, <2>3, SMTT(40) DEF MarkerAt
<1>3. RowAt(buf, a, starts, depth, from, to)
  BY <1>1, <1>2 DEF RowAt
<1> QED BY <1>3 DEF Row

-----------------------------------------------------------------------------
(* Where the markers of keep_result are.                                    *)

\* the range of a marker lies behind the introduction byte at `at', and its
\* terminator belongs to the bytes that are consumed
Inside(buf, at, consumed, marker) ==
  /\ marker.to \in Int /\ marker.from \in at + 1 .. marker.to
  /\ marker.to + 2 <= at + consumed
  /\ TerminatorAt(buf, marker.to)

\* The marker of a line.
LEMMA LineInside ==
  ASSUME NEW B, NEW buf \in Seq(B), NEW at \in 0 .. Len(buf) - 1, NEW type,
         LineParser(type, buf, at, "keep_result").kind = "positive"
  PROVE  LET line == LineParser(type, buf, at, "keep_result") IN
         Inside(buf, at, line.consumed, line.result) /\ line.result.type = type
<1> DEFINE to == SearchTerminator(buf, at + 1)
           line == LineParser(type, buf, at, "keep_result")
<1>1. \/ line = NotEnoughData
      \/ /\ to \in at + 1 .. Len(buf) - 2 /\ TerminatorAt(buf, to)
         /\ line = Positive("keep_result", to + 2 - at,
                            [type |-> type, from |-> at + 1, to |-> to])
  BY LineTakes
<1>2. line.kind = "positive"
  OBVIOUS
<1> HIDE DEF line, to
<1>3. /\ to \in at + 1 .. Len(buf) - 2 /\ TerminatorAt(buf, to)
      /\ line.consumed = to + 2 - at
      /\ line.result.type = type /\ line.result.from = at + 1 /\ line.result.to = to
  BY <1>1, <1>2 DEF Positive, NotEnoughData
<1>4. at \in Nat /\ to \in Int
  BY <1>3
<1> QED BY <1>3, <1>4 DEF Inside, line

\* The marker of a nil, in the place of a count.
LEMMA NilInside ==
  ASSUME NEW B, NEW buf \in Seq(B), NEW at \in 0 .. Len(buf) - 1,
         CountParser(buf, at, "keep_result").kind = "positive"
  PROVE  LET count == CountParser(buf, at, "keep_result") IN
         Inside(buf, at, count.consumed, count.result) /\ count.result.type = "nil"
<1> DEFINE line == LineParser("string", buf, at, "keep_result")
           count == CountParser(buf, at, "keep_result")
           long == Strtol(SubSeq(buf, line.result.from + 1, line.result.to))
<1>1. line.kind = "positive" /\ count = UnwrapCount(line, long, "keep_result")
  BY DEF CountParser, ParseCount
<1>2. Inside(buf, at, line.consumed, line.result)
  BY <1>1, LineInside
<1>3. PICK to : line.result = [type |-> "string", from |-> at + 1, to |-> to]
  <2> DEFINE to == SearchTerminator(buf, at + 1)
  <2>1. \/ line = NotEnoughData
        \/ line = Positive("keep_result", to + 2 - at,
                           [type |-> "string", from |-> at + 1, to |-> to])
    BY LineTakes
  <2> HIDE DEF line, to
  <2>2. line.result = [type |-> "string", from |-> at + 1, to |-> to]
    BY <1>1, <2>1 DEF Positive, NotEnoughData
  <2> QED BY <2>2, Zenon
<1>4. count.kind = "positive"
  OBVIOUS
<1> HIDE DEF line, count, long
<1>5. count = Positive("keep_result", line.consumed, [line.result EXCEPT !.type = "nil"])
  BY <1>1, <1>4 DEF UnwrapCount, ProtocolError
<1>6. /\ count.consumed = line.consumed /\ count.result.type = "nil"
      /\ count.result.from = line.result.from /\ count.result.to = line.result.to
  BY <1>3, <1>5 DEF Positive
<1> QED BY <1>2, <1>6 DEF Inside, count

\* The marker of a bulk string, or of the nil in its place.
LEMMA BulkStringInside ==
  ASSUME NEW B, NEW buf \in Seq(B), NEW at \in 0 .. Len(buf) - 1,
         BulkStringParser(buf, at, "keep_result").kind = "positive"
  PROVE  LET bulk == BulkStringParser(buf, at, "keep_result") IN
         Inside(buf, at, bulk.consumed, bulk.result) /\ bulk.result.type # "array"
<1> DEFINE count == CountParser(buf, at, "keep_result")
           bulk == BulkStringParser(buf, at, "keep_result")
           head == at + count.consumed
           tail == head + count.value
<1>1. bulk = MarkBulkString(buf, at, "keep_result", count) /\ bulk.kind = "positive"
  BY DEF BulkStringParser
<1>2. Within(buf, at, "keep_result", count)
  BY CountWithin
<1>3. count.kind = "positive" =>
        Inside(buf, at, count.consumed, count.result) /\ count.result.type = "nil"
  BY NilInside
<1> HIDE DEF count, bulk
<1>4. CASE count.kind # "count"
  BY <1>1, <1>3, <1>4 DEF MarkBulkString, bulk
<1>5. CASE count.kind = "count"
  <2>1. count.consumed \in 1 .. Len(buf) - at /\ count.value \in Nat
    BY <1>2, <1>5, WithinCases, LimitsAssumption DEF Takes
  <2>2. /\ bulk = Positive("keep_result", count.consumed + count.value + 2, StringMarker(head, tail))
        /\ TerminatorAt(buf, tail)
    BY <1>1, <1>5 DEF MarkBulkString, NotEnoughData, ProtocolError
  <2>3. /\ bulk.consumed = count.consumed + count.value + 2 /\ bulk.result.type = "string"
        /\ bulk.result.from = head /\ bulk.result.to = tail
    BY <2>2 DEF Positive, StringMarker
  <2>4. tail \in Int /\ head \in at + 1 .. tail /\ tail + 2 <= at + (count.consumed + count.value + 2)
    <3>1. at \in Nat /\ Len(buf) \in Nat /\ count.consumed \in Nat /\ 1 <= count.consumed
      BY <2>1
    <3> QED BY <2>1, <3>1, SMTT(40)
  <2> HIDE DEF head, tail
  <2> QED BY <2>2, <2>3, <2>4 DEF Inside, bulk
<1> QED BY <1>4, <1>5

\* An array parser that accepts returns a nil, or has gone through the elements.
LEMMA NilOrElements ==
  ASSUME NEW B, NEW buf \in Seq(B), NEW at \in 0 .. Len(buf) - 1,
         NEW array, array = ArrayParser(buf, at, "keep_result", RawParse(buf, "keep_result")),
         array.kind = "positive"
  PROVE  \/ Inside(buf, at, array.consumed, array.result) /\ array.result.type = "nil"
         \/ /\ array.result.type = "array"
            /\ Row(buf, array.result.elements, at + 1, at + 1, at + array.consumed)
<1> DEFINE count == CountParser(buf, at, "keep_result")
           parse == RawParse(buf, "keep_result")
           N == count.value
<1>1. array = MarkArray(at, "keep_result", count, parse)
  BY DEF ArrayParser
<1>2. Within(buf, at, "keep_result", count)
  BY CountWithin
<1>3. count.kind = "positive" =>
        Inside(buf, at, count.consumed, count.result) /\ count.result.type = "nil"
  BY NilInside
<1>4. ParsesBehind(buf, at, "keep_result", parse)
  <2> SUFFICES ASSUME NEW later \in at + 1 .. Len(buf)
               PROVE  /\ Within(buf, later, "keep_result", parse[later])
                      /\ parse[later].kind # "count"
    BY DEF ParsesBehind
  <2>1. later \in 0 .. Len(buf)
    OBVIOUS
  <2> QED BY <2>1, RawParseWithin
<1> HIDE DEF count
<1>5. CASE count.kind # "count"
  BY <1>1, <1>3, <1>5 DEF MarkArray
<1>6. CASE count.kind = "count"
  <2>1. Takes(buf, at, count) /\ N \in Nat /\ count.consumed \in 1 .. Len(buf) - at
    BY <1>2, <1>6, WithinCases, LimitsAssumption DEF Takes
  <2>2. ~ (count.value > ReserveMax)
    <3> HIDE DEF parse
    <3> QED BY <1>1, <1>6 DEF MarkArray, LengthError
  <2>3. PICK m : Loop(at, "keep_result", count, parse, m) /\ array = m[N]
    <3> HIDE DEF parse
    <3> QED BY <1>1, <1>6, <2>1, <2>2, LoopEnds
  <2>4. at \in 0 .. Len(buf) /\ at \in Nat /\ Len(buf) \in Nat
    OBVIOUS
  <2>5. \A n \in 0 .. N : Within(buf, at, "keep_result", m[n])
    <3> HIDE DEF parse
    <3> QED BY <1>4, <1>6, <2>1, <2>3, <2>4, LoopWithin
  <2> DEFINE Elements(v) == /\ v.result.type = "array"
                            /\ Row(buf, v.result.elements, at + 1, at + 1, at + v.consumed)
             S == {n \in 0 .. N : m[n].kind = "positive" => Elements(m[n])}
  <2>6. 0 \in S
    <3>1. /\ m[0].result.type = "array" /\ m[0].result.elements = <<>>
      BY <2>3 DEF Loop, Positive, ArrayMarker
    <3>2. Elements(m[0])
      BY <3>1, RowOfNone
    <3> QED BY <2>1, <3>2
  <2>7. ASSUME NEW n \in 0 .. N - 1, n \in S PROVE n + 1 \in S
    <3>1. /\ m[n + 1] = MarkElement(at, "keep_result", m[n], parse)
          /\ n \in 0 .. N /\ n + 1 \in 0 .. N /\ (m[n].kind = "positive" => Elements(m[n]))
      BY <2>1, <2>3, <2>7 DEF Loop
    <3>2. CASE m[n].kind # "positive"
      BY <3>1, <3>2 DEF MarkElement
    <3>3. CASE m[n].kind = "positive"
      <4> DEFINE next == at + m[n].consumed
                 element == Parsed(buf, next)
      <4>1. m[n].consumed \in 1 .. Len(buf) - at
        BY <2>5, <3>1, <3>3, WithinCases DEF Takes
      <4>2. next \in at + 1 .. Len(buf) /\ next \in 0 .. Len(buf) /\ next \in Int
        BY <2>4, <4>1
      <4>3. m[n + 1] = IF element.kind # "positive" THEN element
                       ELSE Push("keep_result", m[n], element)
        BY <3>1, <3>3 DEF MarkElement, Parsed
      <4> HIDE DEF element
      <4>4. CASE element.kind # "positive"
        BY <3>1, <4>3, <4>4
      <4>5. CASE element.kind = "positive"
        <5> DEFINE kept == m[n].result.elements
                   end == next + element.consumed
        <5>1. /\ m[n + 1].consumed = m[n].consumed + element.consumed
              /\ m[n + 1].result.type = "array"
              /\ m[n + 1].result.elements = Append(kept, element.result)
          <6> HIDE DEF kept
          <6>1. m[n + 1] = Positive("keep_result", m[n].consumed + element.consumed,
                                    ArrayMarker(Append(kept, element.result)))
            BY <4>3, <4>5 DEF Push, kept
          <6> QED BY <6>1 DEF Positive, ArrayMarker
        <5>2. element.consumed \in 1 .. Len(buf) - next
          BY <4>2, <4>5, ParsedTakes DEF element
        <5>3. end \in Int /\ next <= end /\ end = at + m[n + 1].consumed
          <6>1. element.consumed \in Nat
            BY <5>2
          <6>2. m[n].consumed \in Nat
            BY <4>1
          <6> HIDE DEF Elements, S, parse, N
          <6> QED BY <2>4, <5>1, <6>1, <6>2, SMTT(40)
        <5>4. Row(buf, kept, at + 1, at + 1, next)
          BY <3>1, <3>3
        <5> HIDE DEF next, kept, end
        <5>5. Row(buf, <<element.result>>, at + 1, next, end)
          <6>1. at + 1 <= next /\ at + 1 \in Int
            BY <2>4, <4>2
          <6> QED BY <4>2, <4>5, <6>1, RowOfOne DEF element, end
        <5>6. Row(buf, kept \o <<element.result>>, at + 1, at + 1, end)
          <6>1. at + 1 \in Int /\ at + 1 <= next
            BY <2>4, <4>2
          <6> HIDE DEF Elements, S
          <6> QED BY <4>2, <5>3, <5>4, <5>5, <6>1, RowJoin
        <5>7. Append(kept, element.result) = kept \o <<element.result>>
          <6>1. kept \in Seq(Results(buf)) /\ element.result \in Results(buf)
            BY <4>2, <4>5, <5>4, ParsedTakes DEF Row, element
          <6> HIDE DEF kept
          <6> QED BY <6>1
        <5>8. Elements(m[n + 1])
          BY <5>1, <5>3, <5>6, <5>7
        <5> QED BY <3>1, <5>8
      <4> QED BY <4>4, <4>5
    <3> QED BY <3>2, <3>3
  <2>8. \A n \in 0 .. N : n \in S
    <3> HIDE DEF S, N
    <3> QED BY <2>1, <2>6, <2>7, Upwards
  <2>9. N \in S
    <3> HIDE DEF S
    <3> QED BY <2>1, <2>8
  <2> QED BY <2>3, <2>9
<1> QED BY <1>5, <1>6

\* A marker that is not an array is one of a line, a nil or a bulk string.
LEMMA ScalarInside ==
  ASSUME NEW B, NEW buf \in Seq(B), NEW at \in 0 .. Len(buf),
         Parsed(buf, at).kind = "positive", Parsed(buf, at).result.type # "array"
  PROVE  Inside(buf, at, Parsed(buf, at).consumed, Parsed(buf, at).result)
<1>1. Parsed(buf, at) = ParseAt(buf, "keep_result", at, RawParse(buf, "keep_result"))
  BY RawParseEquation DEF Parsed
<1>2. at \in 0 .. Len(buf) - 1
  BY <1>1 DEF ParseAt, NotEnoughData
<1>3. CASE buf[at + 1] = "*"
  <2>1. Parsed(buf, at) = ArrayParser(buf, at, "keep_result", RawParse(buf, "keep_result"))
    BY <1>1, <1>2, <1>3 DEF ParseAt
  <2> QED BY <1>2, <2>1, NilOrElements
<1>4. CASE buf[at + 1] # "*"
  <2>1. \/ \E type : Parsed(buf, at) = LineParser(type, buf, at, "keep_result")
        \/ Parsed(buf, at) = BulkStringParser(buf, at, "keep_result")
    BY <1>1, <1>2, <1>4 DEF ParseAt, ProtocolError
  <2> QED BY <1>2, <2>1, LineInside, BulkStringInside
<1> QED BY <1>3, <1>4

\* The elements of an array are a row behind its introduction byte.
LEMMA ElementsRow ==
  ASSUME NEW B, NEW buf \in Seq(B), NEW at \in 0 .. Len(buf),
         Parsed(buf, at).kind = "positive", Parsed(buf, at).result.type = "array"
  PROVE  Row(buf, Parsed(buf, at).result.elements, at + 1, at + 1, at + Parsed(buf, at).consumed)
<1>1. Parsed(buf, at) = ParseAt(buf, "keep_result", at, RawParse(buf, "keep_result"))
  BY RawParseEquation DEF Parsed
<1>2. at \in 0 .. Len(buf) - 1
  BY <1>1 DEF ParseAt, NotEnoughData
<1>3. CASE buf[at + 1] = "*"
  <2>1. Parsed(buf, at) = ArrayParser(buf, at, "keep_result", RawParse(buf, "keep_result"))
    BY <1>1, <1>2, <1>3 DEF ParseAt
  <2> QED BY <1>2, <2>1, NilOrElements
<1>4. CASE buf[at + 1] # "*"
  <2>1. \/ \E type \in {"string", "error", "int"} :
             Parsed(buf, at) = LineParser(type, buf, at, "keep_result")
        \/ Parsed(buf, at) = BulkStringParser(buf, at, "keep_result")
    BY <1>1, <1>2, <1>4 DEF ParseAt, ProtocolError
  <2> QED BY <1>2, <2>1, LineInside, BulkStringInside
<1> QED BY <1>3, <1>4


=============================================================================
