--------------------------- MODULE EncodingProofs ---------------------------
(***************************************************************************)
(* What the parser makes of the numbers, lines and strings that a Redis    *)
(* server, or the serializer of this library, puts on the wire.            *)
(***************************************************************************)
EXTENDS Serializer, ProtocolProofs

(* Decimal numbers.                                                        *)

DigitBytes == Range(Digits)

\* The digits are the bytes from "0" to "9".
LEMMA DigitsAre ==
  /\ DigitBytes = {"0", "1", "2", "3", "4", "5", "6", "7", "8", "9"}
  /\ \A d \in 0 .. 9 : Digits[d + 1] \in DigitBytes
  /\ EndOfString \notin DigitBytes
<1>1. DOMAIN Digits = 1 .. 10
  BY DEF Digits
<1>2. DigitBytes = {"0", "1", "2", "3", "4", "5", "6", "7", "8", "9"}
  BY <1>1 DEF DigitBytes, Range, Digits
<1>3. \A d \in 0 .. 9 : d + 1 \in DOMAIN Digits
  BY <1>1
<1>4. \A d \in 0 .. 9 : Digits[d + 1] \in DigitBytes
  BY <1>3 DEF DigitBytes, Range
<1> QED BY <1>2, <1>4 DEF EndOfString

\* A digit has the value of its place.
LEMMA DigitValues == \A d \in 0 .. 9 : DigitValue(Digits[d + 1]) = d
<1> SUFFICES ASSUME NEW d \in 0 .. 9 PROVE DigitValue(Digits[d + 1]) = d
  OBVIOUS
<1> DEFINE I == {i \in 1 .. Len(Digits) : Digits[i] = Digits[d + 1]}
<1>1. Len(Digits) = 10
  BY DEF Digits
<1>2. ASSUME NEW i \in 1 .. 10, Digits[i] = Digits[d + 1] PROVE i = d + 1
  BY <1>2 DEF Digits
<1>3. I = {d + 1} /\ d + 1 \in Nat
  BY <1>1, <1>2
<1>4. DigitValue(Digits[d + 1]) = (IF I # {} THEN Min(I) ELSE 0) - 1
  BY Zenon DEF DigitValue, SelectInSeq
<1>5. Min(I) = d + 1
  BY <1>3, MinIsLeast
<1> QED BY <1>3, <1>4, <1>5

\* One more digit makes the number ten times as large, and the digit larger.
LEMMA NumberAppend ==
  ASSUME NEW B, NEW s \in Seq(B), NEW c \in B
  PROVE  Number(Append(s, c)) = WithDigit(Number(s), c)
<1> DEFINE N == Len(s)
           t == Append(s, c)
<1>1. N \in Nat /\ Len(t) = N + 1 /\ t[N + 1] = c /\ \A n \in 1 .. N : t[n] = s[n]
  OBVIOUS
<1>2. PICK f : Sums(s, f, N) /\ Number(s) = f[N]
  BY NumberSums
<1> HIDE DEF t, N
<1>3. PICK g : Sums(t, g, N + 1) /\ Number(t) = g[N + 1]
  BY <1>1, NumberSums
<1> DEFINE T == {k \in 0 .. N : f[k] = g[k]}
<1>4. 0 \in T
  BY <1>1, <1>2, <1>3 DEF Sums
<1>5. ASSUME NEW k \in 0 .. N - 1, k \in T PROVE k + 1 \in T
  <2>1. k + 1 \in 1 .. N /\ k + 1 # 0 /\ (k + 1) - 1 = k /\ k + 1 \in 0 .. N /\ k + 1 \in 0 .. N + 1
    BY <1>1
  <2>2. f[k + 1] = WithDigit(f[k], s[k + 1]) /\ g[k + 1] = WithDigit(g[k], t[k + 1])
    BY <1>2, <1>3, <2>1 DEF Sums
  <2> QED BY <1>1, <1>5, <2>1, <2>2
<1>6. \A k \in 0 .. N : k \in T
  <2> HIDE DEF T
  <2> QED BY <1>1, <1>4, <1>5, Upwards
<1>7. f[N] = g[N]
  BY <1>1, <1>6
<1>8. N + 1 \in 0 .. N + 1 /\ N + 1 # 0 /\ (N + 1) - 1 = N
  BY <1>1
<1>9. g[N + 1] = WithDigit(g[N], t[N + 1])
  BY <1>3, <1>8 DEF Sums
<1> QED BY <1>1, <1>2, <1>3, <1>7, <1>9 DEF t

\* The number that a digit alone makes.
LEMMA NumberOfOne == \A c : Number(<<c>>) = WithDigit(0, c)
<1> SUFFICES ASSUME NEW c PROVE Number(<<c>>) = WithDigit(0, c)
  OBVIOUS
<1>1. PICK f : Sums(<<c>>, f, 1) /\ Number(<<c>>) = f[1]
  <2>1. Len(<<c>>) = 1 /\ Len(<<c>>) \in Nat
    OBVIOUS
  <2>2. \E f : Sums(<<c>>, f, Len(<<c>>)) /\ Number(<<c>>) = f[Len(<<c>>)]
    BY <2>1, NumberSums, Zenon
  <2> QED BY <2>1, <2>2
<1>2. f[0] = 0 /\ f[1] = WithDigit(f[0], <<c>>[1])
  BY <1>1 DEF Sums
<1> QED BY <1>1, <1>2

\* While the number fits, a digit is added to it.
LEMMA WithDigitFits ==
  ASSUME NEW v \in Nat, NEW d \in 0 .. 9, 10 * v + d <= LongMax + 2
  PROVE  WithDigit(v, Digits[d + 1]) = 10 * v + d
<1>1. 10 * v + d \in Nat /\ LongMax + 2 \in Nat
  BY LimitsAssumption
<1>2. DigitValue(Digits[d + 1]) = d
  BY DigitValues
<1> DEFINE x == 10 * v + d
           y == LongMax + 2
<1>3. WithDigit(v, Digits[d + 1]) = Min({x, y})
  BY <1>2 DEF WithDigit
<1>4. x \in Nat /\ y \in Nat /\ x <= y
  BY <1>1
<1> HIDE DEF x, y
<1>5. Min({x, y}) = x
  <2>1. {x, y} \in SUBSET Nat
    BY <1>4
  <2>2. Min({x, y}) \in {x, y} /\ Min({x, y}) <= x
    BY <2>1, MinIsLeast
  <2> QED BY <1>4, <2>2
<1> QED BY <1>3, <1>5 DEF x

\* the digits of k, as far as they are a number that strtol can tell
Spells(s, k) ==
  /\ s \in Seq(DigitBytes)
  /\ s # <<>>
  /\ k <= LongMax + 1 => Number(s) = k

\* the digits of k, given those of the numbers below it
Spelled(f, k) ==
  IF k < 10 THEN <<Digits[k + 1]>> ELSE Append(f[k \div 10], Digits[(k % 10) + 1])

\* A number is spelled with its last digit behind those of its tenth.
LEMMA SpelledSpells ==
  ASSUME NEW k \in Nat, NEW f, \A j \in 0 .. k - 1 : Spells(f[j], j)
  PROVE  Spells(Spelled(f, k), k)
<1>1. CASE k < 10
  <2>1. k \in 0 .. 9 /\ Spelled(f, k) = <<Digits[k + 1]>>
    BY <1>1 DEF Spelled
  <2>2. <<Digits[k + 1]>> \in Seq(DigitBytes) /\ <<Digits[k + 1]>> # <<>>
    BY <2>1, DigitsAre
  <2>3. k <= LongMax + 1 => Number(<<Digits[k + 1]>>) = k
    <3>1. k <= LongMax + 1 => 10 * 0 + k <= LongMax + 2
      BY LimitsAssumption
    <3> QED BY <2>1, <3>1, NumberOfOne, WithDigitFits
  <2> QED BY <2>1, <2>2, <2>3 DEF Spells
<1>2. CASE k >= 10
  <2> DEFINE q == k \div 10
             r == k % 10
  <2>1. q \in 0 .. k - 1 /\ r \in 0 .. 9 /\ k = 10 * q + r
    BY <1>2
  <2> HIDE DEF q, r
  <2>2. Spells(f[q], q) /\ Digits[r + 1] \in DigitBytes
    BY <2>1, DigitsAre
  <2>3. Spelled(f, k) = Append(f[q], Digits[r + 1])
    BY <1>2 DEF Spelled, q, r
  <2>4. Append(f[q], Digits[r + 1]) \in Seq(DigitBytes) /\ Append(f[q], Digits[r + 1]) # <<>>
    BY <2>2 DEF Spells
  <2>5. ASSUME k <= LongMax + 1 PROVE Number(Append(f[q], Digits[r + 1])) = k
    <3>1. q <= LongMax + 1 /\ 10 * q + r <= LongMax + 2 /\ q \in Nat
      BY <2>1, <2>5, LimitsAssumption
    <3>2. Number(f[q]) = q /\ f[q] \in Seq(DigitBytes)
      BY <2>2, <3>1 DEF Spells
    <3>3. Number(Append(f[q], Digits[r + 1])) = WithDigit(q, Digits[r + 1])
      BY <2>2, <3>2, NumberAppend, Zenon
    <3>4. WithDigit(q, Digits[r + 1]) = 10 * q + r
      BY <2>1, <3>1, WithDigitFits
    <3> QED BY <2>1, <3>3, <3>4
  <2> QED BY <2>3, <2>4, <2>5 DEF Spells
<1> QED BY <1>1, <1>2

\* f spells the numbers from 0 to n
Spelling(f, n) == f = [k \in 0 .. n |-> Spelled(f, k)]

\* The loop over the digits of a number has a result.
LEMMA SpellingExists ==
  ASSUME NEW n \in Nat
  PROVE  \E f : Spelling(f, n) /\ Decimal(n) = f[n]
<1> DEFINE S == {k \in 0 .. n : \E f : Spelling(f, k)}
<1>1. 0 \in S
  <2>1. Spelling([k \in 0 .. 0 |-> <<Digits[1]>>], 0)
    BY DEF Spelling, Spelled
  <2> QED BY <2>1
<1>2. ASSUME NEW k \in 0 .. n - 1, k \in S PROVE k + 1 \in S
  <2>1. PICK f : Spelling(f, k)
    BY <1>2
  <2> DEFINE g == [j \in 0 .. k + 1 |-> IF j <= k THEN f[j] ELSE Spelled(f, j)]
  <2>2. ASSUME NEW j \in 0 .. k + 1 PROVE g[j] = Spelled(g, j)
    <3>1. Spelled(g, j) = Spelled(f, j)
      <4>1. j >= 10 => j \div 10 \in 0 .. k + 1 /\ j \div 10 <= k
        OBVIOUS
      <4>2. j >= 10 => g[j \div 10] = f[j \div 10]
        BY <4>1
      <4> HIDE DEF g
      <4> QED BY <4>2 DEF Spelled
    <3>2. j <= k => f[j] = Spelled(f, j)
      BY <2>1 DEF Spelling
    <3> QED BY <3>1, <3>2
  <2>3. Spelling(g, k + 1)
    BY <2>2, Zenon DEF Spelling
  <2> HIDE DEF g
  <2> QED BY <2>3
<1>3. \A k \in 0 .. n : k \in S
  <2> HIDE DEF S
  <2> QED BY <1>1, <1>2, Upwards
<1>4. Decimal(n) = (CHOOSE f : Spelling(f, n))[n]
  BY Zenon DEF Decimal, Spelling, Spelled
<1>5. \E f : Spelling(f, n)
  BY <1>3
<1> QED BY <1>4, <1>5, Zenon

\* A decimal number consists of digits, one at least, and is read as the number.
LEMMA DecimalSpells == \A n \in Nat : Spells(Decimal(n), n)
<1> SUFFICES ASSUME NEW n \in Nat PROVE Spells(Decimal(n), n)
  OBVIOUS
<1>1. PICK f : Spelling(f, n) /\ Decimal(n) = f[n]
  BY SpellingExists
<1> DEFINE S == {k \in 0 .. n : \A j \in 0 .. k : Spells(f[j], j)}
<1>2. \A k \in 0 .. n : f[k] = Spelled(f, k)
  BY <1>1 DEF Spelling
<1>3. 0 \in S
  <2>1. Spells(f[0], 0)
    BY <1>2, SpelledSpells
  <2> QED BY <2>1
<1>4. ASSUME NEW k \in 0 .. n - 1, k \in S PROVE k + 1 \in S
  <2>1. k + 1 \in 0 .. n /\ k + 1 \in Nat /\ \A j \in 0 .. (k + 1) - 1 : Spells(f[j], j)
    BY <1>4
  <2>2. Spells(f[k + 1], k + 1)
    BY <1>2, <2>1, SpelledSpells
  <2> QED BY <2>1, <2>2
<1>5. n \in S
  <2>1. \A k \in 0 .. n : k \in S
    <3> HIDE DEF S
    <3> QED BY <1>3, <1>4, Upwards
  <2> QED BY <2>1
<1> QED BY <1>1, <1>5

\* how many rounds the loop of size_for_int makes, given those of smaller numbers
Rounds(r, k) == IF k = 0 THEN 0 ELSE 1 + r[k \div 10]

\* size_for_int counts the digits that are printed.
LEMMA SizeCounts == \A n \in Nat : SizeForInt(n) = Len(Decimal(n))
<1> SUFFICES ASSUME NEW n \in Nat PROVE SizeForInt(n) = Len(Decimal(n))
  OBVIOUS
<1> DEFINE Counting(r, k) == r = [j \in 0 .. k |-> Rounds(r, j)]
           S == {k \in 0 .. n : \E r : Counting(r, k)}
<1>1. 0 \in S
  <2>1. Counting([j \in 0 .. 0 |-> 0], 0)
    BY DEF Rounds
  <2> HIDE DEF Counting
  <2> QED BY <2>1
<1>2. ASSUME NEW k \in 0 .. n - 1, k \in S PROVE k + 1 \in S
  <2>1. PICK r : Counting(r, k)
    BY <1>2
  <2> DEFINE g == [j \in 0 .. k + 1 |-> IF j <= k THEN r[j] ELSE Rounds(r, j)]
  <2>2. ASSUME NEW j \in 0 .. k + 1 PROVE g[j] = Rounds(g, j)
    <3>1. Rounds(g, j) = Rounds(r, j)
      <4>1. j # 0 => j \div 10 \in 0 .. k + 1 /\ j \div 10 <= k
        OBVIOUS
      <4>2. j # 0 => g[j \div 10] = r[j \div 10]
        BY <4>1
      <4> HIDE DEF g
      <4> QED BY <4>2 DEF Rounds
    <3>2. j <= k => r[j] = Rounds(r, j)
      BY <2>1
    <3> QED BY <3>1, <3>2
  <2>3. Counting(g, k + 1)
    BY <2>2, Zenon
  <2> HIDE DEF g, Counting
  <2> QED BY <2>3
<1>3. \A k \in 0 .. n : k \in S
  <2> HIDE DEF S
  <2> QED BY <1>1, <1>2, Upwards
<1>4. PICK r : Counting(r, n) /\ SizeForInt(n) = Max({1, r[n]})
  <2>1. SizeForInt(n) = Max({1, (CHOOSE r : Counting(r, n))[n]})
    BY Zenon DEF SizeForInt, Rounds
  <2>2. \E r : Counting(r, n)
    BY <1>3
  <2> QED BY <2>1, <2>2, Zenon
<1>5. PICK f : Spelling(f, n) /\ Decimal(n) = f[n]
  BY SpellingExists
<1>6. \A k \in 0 .. n : r[k] = Rounds(r, k) /\ f[k] = Spelled(f, k)
  BY <1>4, <1>5 DEF Spelling
<1> HIDE DEF Counting, S
<1> DEFINE Counted(k) == Len(f[k]) \in Nat /\ Len(f[k]) >= 1 /\ r[k] = IF k = 0 THEN 0 ELSE Len(f[k])
           T == {k \in 0 .. n : \A j \in 0 .. k : Counted(j)}
<1>7. ASSUME NEW k \in 0 .. n, \A j \in 0 .. k - 1 : Counted(j) PROVE Counted(k)
  <2>1. CASE k < 10
    <3>1. f[k] = <<Digits[k + 1]>> /\ Len(f[k]) = 1
      <4>1. f[k] = Spelled(f, k)
        BY <1>6
      <4>2. Spelled(f, k) = <<Digits[k + 1]>>
        BY <2>1, Zenon DEF Spelled
      <4> QED BY <4>1, <4>2
    <3>2. r[k] = IF k = 0 THEN 0 ELSE 1 + r[0]
      <4>1. k \div 10 = 0
        BY <2>1
      <4> QED BY <1>6, <4>1 DEF Rounds
    <3>3. k # 0 => r[0] = 0
      BY <1>7
    <3> QED BY <3>1, <3>2, <3>3
  <2>2. CASE k >= 10
    <3> DEFINE q == k \div 10
    <3>1. q \in 0 .. k - 1 /\ q # 0
      BY <2>2
    <3>2. f[k] = Append(f[q], Digits[(k % 10) + 1]) /\ r[k] = 1 + r[q]
      <4>1. f[k] = Spelled(f, k) /\ r[k] = Rounds(r, k)
        BY <1>6
      <4>2. ~ (k < 10) /\ k # 0
        BY <2>2
      <4> QED BY <4>1, <4>2, Zenon DEF Spelled, Rounds
    <3> HIDE DEF q
    <3>3. Counted(q)
      BY <1>7, <3>1
    <3>4. Len(f[k]) = Len(f[q]) + 1
      BY <3>2
    <3> QED BY <2>2, <3>1, <3>2, <3>3, <3>4
  <2> QED BY <2>1, <2>2
<1> HIDE DEF Counted
<1>8. n \in T
  <2>1. 0 \in T
    BY <1>7
  <2>2. ASSUME NEW k \in 0 .. n - 1, k \in T PROVE k + 1 \in T
    <3>1. k + 1 \in 0 .. n /\ \A j \in 0 .. (k + 1) - 1 : Counted(j)
      BY <2>2
    <3>2. Counted(k + 1)
      BY <1>7, <3>1
    <3> QED BY <3>1, <3>2
  <2>3. \A k \in 0 .. n : k \in T
    <3> HIDE DEF T
    <3> QED BY <2>1, <2>2, Upwards
  <2> QED BY <2>3
<1>9. Counted(n)
  BY <1>8
<1>10. Max({1, r[n]}) = Len(f[n])
  <2> DEFINE x == r[n]
             len == Len(f[n])
  <2>1. len \in Nat /\ len >= 1 /\ (x = 0 \/ x = len)
    BY <1>9 DEF Counted
  <2>2. n = 0 => len = 1
    BY <1>6 DEF Spelled
  <2>3. n # 0 => x = len
    BY <1>9 DEF Counted
  <2> HIDE DEF x, len
  <2>4. Max({1, x}) \in {1, x} /\ Max({1, x}) >= 1 /\ Max({1, x}) >= x
    <3>1. \E m \in {1, x} : \A y \in {1, x} : m >= y
      BY <2>1
    <3> QED BY <3>1, Zenon DEF Max
  <2>5. Max({1, x}) = len
    BY <2>1, <2>2, <2>3, <2>4
  <2> QED BY <2>5 DEF x, len
<1> QED BY <1>4, <1>5, <1>10

-----------------------------------------------------------------------------
(* strtol reads what "%zu" and "%lld" print.                                *)

\* the digits of a number, behind a sign when it is negative
Printed(n) == IF n < 0 THEN <<"-">> \o Decimal(-n) ELSE Decimal(n)

\* Text that begins with no blank is not skipped.
LEMMA NothingSkipped ==
  ASSUME NEW B, NEW text \in Seq(B), text # <<>>, text[1] \notin Blanks
  PROVE  SkipBlanks(text) = text
<1> DEFINE ended == text \o <<EndOfString>>
           I == {i \in 1 .. Len(ended) : ended[i] \notin Blanks}
<1>1. Len(ended) = Len(text) + 1 /\ ended[1] = text[1] /\ Len(text) \in Nat
  <2>1. text \in Seq(B \cup {EndOfString}) /\ <<EndOfString>> \in Seq(B \cup {EndOfString})
    OBVIOUS
  <2> QED BY <2>1
<1>2. I \in SUBSET Nat /\ 1 \in I /\ \A i \in I : 1 <= i
  <2> HIDE DEF ended
  <2> QED BY <1>1
<1>3. FirstNotIn(text, Blanks) = IF I # {} THEN Min(I) ELSE 0
  BY Zenon DEF FirstNotIn, SelectInSeq
<1> HIDE DEF I
<1>4. Min(I) = 1
  <2>1. I # {}
    BY <1>2
  <2>2. Min(I) \in I /\ Min(I) <= 1
    BY <1>2, <2>1, MinIsLeast, Zenon
  <2>3. Min(I) \in Nat /\ 1 <= Min(I)
    BY <1>2, <2>2
  <2> QED BY <2>2, <2>3
<1>5. FirstNotIn(text, Blanks) = 1
  BY <1>2, <1>3, <1>4
<1> QED BY <1>5 DEF SkipBlanks

\* All the digits of a text of digits are leading digits.
LEMMA OnlyDigits == \A s \in Seq(DigitBytes) : LeadingDigits(s) = s
<1> SUFFICES ASSUME NEW s \in Seq(DigitBytes) PROVE LeadingDigits(s) = s
  OBVIOUS
<1> DEFINE ended == s \o <<EndOfString>>
           I == {i \in 1 .. Len(ended) : ended[i] \notin Range(Digits)}
<1>1. /\ Len(ended) = Len(s) + 1 /\ ended[Len(s) + 1] = EndOfString /\ Len(s) \in Nat
      /\ \A i \in 1 .. Len(s) : ended[i] = s[i]
  <2>1. s \in Seq(DigitBytes \cup {EndOfString}) /\ <<EndOfString>> \in Seq(DigitBytes \cup {EndOfString})
    OBVIOUS
  <2> QED BY <2>1
<1>2. I = {Len(s) + 1}
  <2>1. \A i \in 1 .. Len(s) : s[i] \in DigitBytes
    OBVIOUS
  <2> HIDE DEF ended
  <2>2. ASSUME NEW i \in I PROVE i = Len(s) + 1
    BY <1>1, <2>1 DEF DigitBytes
  <2>3. Len(s) + 1 \in I
    BY <1>1, DigitsAre DEF DigitBytes
  <2> QED BY <2>2, <2>3
<1>3. FirstNotIn(s, Range(Digits)) = IF I # {} THEN Min(I) ELSE 0
  BY Zenon DEF FirstNotIn, SelectInSeq
<1> HIDE DEF I
<1>4. Min(I) = Len(s) + 1
  <2>1. I \in SUBSET Nat /\ I # {}
    BY <1>1, <1>2
  <2>2. Min(I) \in I
    BY <2>1, MinIsLeast, Zenon
  <2> QED BY <1>2, <2>2
<1>5. FirstNotIn(s, Range(Digits)) - 1 = Len(s)
  BY <1>1, <1>2, <1>3, <1>4
<1> QED BY <1>5 DEF LeadingDigits

\* A number that fits a long is read back as it was printed.
LEMMA StrtolOfPrinted ==
  ASSUME NEW n \in -LongMax - 1 .. LongMax
  PROVE  /\ Printed(n) # <<>>
         /\ Printed(n) \in Seq(DigitBytes \cup {"-"})
         /\ Strtol(Printed(n)) = [errno |-> FALSE, value |-> n]
<1> DEFINE m == IF n < 0 THEN -n ELSE n
           s == Decimal(m)
           sign == IF n < 0 THEN -1 ELSE 1
<1>1. n \in Int /\ m \in Nat /\ m <= LongMax + 1 /\ sign * m = n
  BY LimitsAssumption
<1>2. s \in Seq(DigitBytes) /\ s # <<>> /\ Number(s) = m
  BY <1>1, DecimalSpells DEF Spells
<1>3. Printed(n) = IF n < 0 THEN <<"-">> \o s ELSE s
  BY DEF Printed
<1> HIDE DEF m, s, sign
<1>4. s[1] \in DigitBytes
  BY <1>2
<1>5. /\ Printed(n) # <<>> /\ Printed(n) \in Seq(DigitBytes \cup {"-"})
      /\ Printed(n)[1] \in DigitBytes \cup {"-"}
  <2>1. /\ <<"-">> \o s \in Seq(DigitBytes \cup {"-"}) /\ <<"-">> \o s # <<>>
        /\ (<<"-">> \o s)[1] = "-"
    <3>1. <<"-">> \in Seq(DigitBytes \cup {"-"}) /\ s \in Seq(DigitBytes \cup {"-"})
      BY <1>2
    <3> QED BY <3>1
  <2>2. s \in Seq(DigitBytes \cup {"-"})
    BY <1>2
  <2> QED BY <1>2, <1>3, <1>4, <2>1, <2>2
<1>6. SkipBlanks(Printed(n)) = Printed(n)
  <2>1. Printed(n)[1] \notin Blanks
    BY <1>5, DigitsAre DEF Blanks, CR, LF
  <2> QED BY <1>5, <2>1, NothingSkipped
<1>7. Signed(Printed(n)) = [sign |-> sign, digits |-> s]
  <2>1. CASE n < 0
    <3>1. Printed(n) = <<"-">> \o s /\ Printed(n)[1] = "-" /\ Tail(Printed(n)) = s
      BY <1>2, <1>3, <2>1
    <3> QED BY <1>5, <2>1, <3>1 DEF Signed, sign
  <2>2. CASE ~ (n < 0)
    <3>1. Printed(n) = s /\ s[1] # "-" /\ s[1] # "+"
      BY <1>3, <1>4, <2>2, DigitsAre
    <3> QED BY <2>2, <3>1 DEF Signed, sign
  <2> QED BY <2>1, <2>2
<1>8. LeadingDigits(s) = s
  BY <1>2, OnlyDigits
<1>9. Strtol(Printed(n)) = InLong(n)
  <2>1. Strtol(Printed(n)) = InLong(sign * Number(s))
    BY <1>6, <1>7, <1>8 DEF Strtol, ToLong
  <2> QED BY <1>1, <1>2, <2>1
<1>10. InLong(n) = [errno |-> FALSE, value |-> n]
  <2>1. (n > LongMax \/ n < -LongMax - 1) = FALSE
    BY LimitsAssumption
  <2> QED BY <2>1, Zenon DEF InLong
<1> QED BY <1>5, <1>9, <1>10

-----------------------------------------------------------------------------
(* Texts one behind the other.                                              *)

\* It does not matter which two of three texts are joined first.
LEMMA Associates == \A B : \A s, u, v \in Seq(B) : (s \o u) \o v = s \o (u \o v)
<1> SUFFICES ASSUME NEW B, NEW s \in Seq(B), NEW u \in Seq(B), NEW v \in Seq(B)
             PROVE  (s \o u) \o v = s \o (u \o v)
  OBVIOUS
<1> QED BY ConcatAssociative

\* Two texts make one, as long as both.
LEMMA Concatenates ==
  \A B : \A s, u \in Seq(B) : s \o u \in Seq(B) /\ Len(s \o u) = Len(s) + Len(u)
OBVIOUS

\* f[i] are the first i of the texts, one behind the other
Joins(f, texts) ==
  f[0] = <<>> /\ \A i \in 0 .. Len(texts) - 1 : f[i + 1] = f[i] \o texts[i + 1]

\* FlattenSeq appends one text after the other, to no text at first.
LEMMA FlattenJoins ==
  ASSUME NEW B, NEW texts \in Seq(Seq(B))
  PROVE  \E f : /\ Joins(f, texts) /\ f[Len(texts)] = FlattenSeq(texts)
                /\ \A i \in 0 .. Len(texts) : f[i] \in Seq(B)
<1> DEFINE n == Len(texts)
<1>1. n \in Nat /\ \A i \in 1 .. n : texts[i] \in Seq(B)
  OBVIOUS
<1>2. \E f : f[0] = <<>> /\ f[n] = FlattenSeq(texts)
              /\ \A i \in 0 .. n - 1 : f[i + 1] = f[i] \o texts[i + 1]
  <2>1. CASE n = 0
    <3> DEFINE f == [i \in 0 .. 0 |-> <<>>]
    <3>1. texts = <<>> /\ FlattenSeq(texts) = texts
      BY <2>1, Zenon, EmptySeq DEF FlattenSeq
    <3>2. f[0] = <<>> /\ \A i \in 0 .. n - 1 : FALSE
      BY <2>1
    <3> HIDE DEF f
    <3> QED BY <2>1, <3>1, <3>2
  <2>2. CASE n # 0
    <3>1. PICK g : /\ FlattenSeq(texts) = g[n] /\ g[1] = texts[1]
                   /\ \A i \in 1 .. n - 1 : g[i + 1] = g[i] \o texts[i + 1]
      BY <1>1, <2>2, FlattenRounds
    <3> DEFINE f == [i \in 0 .. n |-> IF i = 0 THEN <<>> ELSE g[i]]
    <3>2. f[0] = <<>> /\ f[n] = FlattenSeq(texts)
      BY <1>1, <2>2, <3>1
    <3>3. ASSUME NEW i \in 0 .. n - 1 PROVE f[i + 1] = f[i] \o texts[i + 1]
      <4>1. i + 1 \in 0 .. n /\ i + 1 # 0 /\ i \in 0 .. n /\ i + 1 \in 1 .. n
        BY <1>1
      <4>2. f[i + 1] = g[i + 1]
        BY <4>1
      <4>3. CASE i = 0
        <5>1. f[i] = <<>> /\ texts[1] \in Seq(B) /\ g[i + 1] = texts[1]
          BY <1>1, <3>1, <4>1, <4>3
        <5>2. <<>> \o texts[1] = texts[1]
          BY <5>1, ConcatEmptySeq
        <5> HIDE DEF f
        <5> QED BY <4>2, <4>3, <5>1, <5>2
      <4>4. CASE i # 0
        <5>1. f[i] = g[i] /\ i \in 1 .. n - 1
          BY <4>1, <4>4
        <5> HIDE DEF f
        <5> QED BY <3>1, <4>2, <5>1
      <4> QED BY <4>3, <4>4
    <3> HIDE DEF f
    <3> QED BY <3>2, <3>3
  <2> QED BY <2>1, <2>2
<1>3. PICK f : /\ f[0] = <<>> /\ f[n] = FlattenSeq(texts)
               /\ \A i \in 0 .. n - 1 : f[i + 1] = f[i] \o texts[i + 1]
  BY <1>2
<1> DEFINE S == {i \in 0 .. n : f[i] \in Seq(B)}
<1>4. \A i \in 0 .. n : i \in S
  <2>1. 0 \in S
    <3>1. 0 \in 0 .. n /\ <<>> \in Seq(B)
      BY <1>1, EmptySeq
    <3> HIDE DEF n
    <3> QED BY <1>3, <3>1
  <2>2. ASSUME NEW i \in 0 .. n - 1, i \in S PROVE i + 1 \in S
    <3>1. i + 1 \in 0 .. n /\ i + 1 \in 1 .. n
      BY <1>1
    <3>2. f[i + 1] = f[i] \o texts[i + 1] /\ f[i] \in Seq(B) /\ texts[i + 1] \in Seq(B)
      BY <1>1, <1>3, <2>2, <3>1
    <3> QED BY <3>1, <3>2, ConcatProperties, ZenonT(40)
  <2> HIDE DEF S
  <2> QED BY <1>1, <2>1, <2>2, Upwards
<1> QED BY <1>3, <1>4 DEF Joins

\* FlattenSeq of texts makes a text.
LEMMA FlattenText ==
  ASSUME NEW B, NEW texts \in Seq(Seq(B))
  PROVE  FlattenSeq(texts) \in Seq(B)
<1>1. PICK f : /\ Joins(f, texts) /\ f[Len(texts)] = FlattenSeq(texts)
               /\ \A i \in 0 .. Len(texts) : f[i] \in Seq(B)
  BY FlattenJoins
<1>2. Len(texts) \in 0 .. Len(texts)
  OBVIOUS
<1> QED BY <1>1, <1>2

\* One more text is put behind the others.
LEMMA FlattenAppend ==
  ASSUME NEW B, NEW texts \in Seq(Seq(B)), NEW text \in Seq(B)
  PROVE  FlattenSeq(Append(texts, text)) = FlattenSeq(texts) \o text
<1> DEFINE n == Len(texts)
           more == Append(texts, text)
<1>1. /\ n \in Nat /\ more \in Seq(Seq(B)) /\ Len(more) = n + 1 /\ more[n + 1] = text
      /\ \A i \in 1 .. n : more[i] = texts[i]
  BY AppendProperties
<1>2. PICK f : Joins(f, texts) /\ f[n] = FlattenSeq(texts)
  BY FlattenJoins
<1> HIDE DEF more, n
<1>3. PICK g : Joins(g, more) /\ g[n + 1] = FlattenSeq(more)
  BY <1>1, FlattenJoins
<1> DEFINE S == {i \in 0 .. n : f[i] = g[i]}
<1>4. \A i \in 0 .. n : i \in S
  <2>1. 0 \in S
    BY <1>1, <1>2, <1>3 DEF Joins
  <2>2. ASSUME NEW i \in 0 .. n - 1, i \in S PROVE i + 1 \in S
    <3>1. i + 1 \in 0 .. n /\ i + 1 \in 1 .. n /\ i \in 0 .. Len(more) - 1
      BY <1>1
    <3>2. f[i + 1] = f[i] \o texts[i + 1]
      BY <1>2 DEF Joins, n
    <3>3. g[i + 1] = g[i] \o more[i + 1]
      BY <1>3, <3>1 DEF Joins
    <3> QED BY <1>1, <2>2, <3>1, <3>2, <3>3
  <2> HIDE DEF S
  <2> QED BY <1>1, <2>1, <2>2, Upwards
<1>5. f[n] = g[n]
  <2>1. n \in 0 .. n
    BY <1>1
  <2> QED BY <1>4, <2>1
<1>6. g[n + 1] = g[n] \o more[n + 1]
  <2>1. n \in 0 .. Len(more) - 1
    BY <1>1
  <2> QED BY <1>3, <2>1 DEF Joins
<1> QED BY <1>1, <1>2, <1>3, <1>5, <1>6 DEF more

\* The first text stands before what the others make.
LEMMA FlattenTail ==
  ASSUME NEW B, NEW texts \in Seq(Seq(B))
  PROVE  texts # <<>> => FlattenSeq(texts) = texts[1] \o FlattenSeq(Tail(texts))
<1>0. \A s, u, v \in Seq(B) : (s \o u) \o v = s \o (u \o v)
  BY Associates, SMTT(40)
<1> SUFFICES ASSUME texts # <<>>
             PROVE  FlattenSeq(texts) = texts[1] \o FlattenSeq(Tail(texts))
  OBVIOUS
<1> DEFINE rest == Tail(texts)
           n == Len(rest)
           head == texts[1]
<1>1. /\ n \in Nat /\ rest \in Seq(Seq(B)) /\ Len(texts) = n + 1 /\ head \in Seq(B)
      /\ \A i \in 1 .. n : rest[i] = texts[i + 1] /\ rest[i] \in Seq(B)
  OBVIOUS
<1> HIDE DEF n
<1>2. PICK f : Joins(f, texts) /\ f[n + 1] = FlattenSeq(texts)
  BY <1>1, FlattenJoins
<1> HIDE DEF rest
<1>3. PICK g : Joins(g, rest) /\ g[n] = FlattenSeq(rest) /\ \A i \in 0 .. n : g[i] \in Seq(B)
  BY <1>1, FlattenJoins DEF n
<1> HIDE DEF head
<1> DEFINE S == {i \in 0 .. n : f[i + 1] = head \o g[i]}
<1>4. \A i \in 0 .. n : i \in S
  <2>1. 0 \in S
    <3>1. 0 \in 0 .. Len(texts) - 1 /\ 0 \in 0 .. n /\ 0 + 1 = 1
      BY <1>1
    <3>2. f[1] = <<>> \o head
      BY <1>2, <3>1 DEF Joins, head
    <3>3. <<>> \o head = head /\ head \o <<>> = head /\ g[0] = <<>>
      BY <1>1, <1>3, ConcatEmptySeq DEF Joins
    <3> QED BY <3>1, <3>2, <3>3
  <2>2. ASSUME NEW i \in 0 .. n - 1, i \in S PROVE i + 1 \in S
    <3>1. i + 1 \in 0 .. n /\ i + 1 \in 1 .. n /\ i + 1 \in 0 .. Len(texts) - 1 /\ i \in 0 .. n
      BY <1>1
    <3>2. f[(i + 1) + 1] = f[i + 1] \o rest[i + 1]
      <4>1. texts[(i + 1) + 1] = rest[i + 1]
        BY <1>1, <3>1
      <4> QED BY <1>2, <3>1, <4>1 DEF Joins
    <3>3. g[i + 1] = g[i] \o rest[i + 1]
      BY <1>3 DEF Joins, n
    <3>4. g[i] \in Seq(B) /\ rest[i + 1] \in Seq(B)
      BY <1>1, <1>3, <3>1
    <3>5. (head \o g[i]) \o rest[i + 1] = head \o (g[i] \o rest[i + 1])
      BY <1>0, <1>1, <3>4, ZenonT(40)
    <3> QED BY <2>2, <3>1, <3>2, <3>3, <3>5
  <2> HIDE DEF S
  <2> QED BY <1>1, <2>1, <2>2, Upwards
<1>5. f[n + 1] = head \o g[n]
  <2>1. n \in 0 .. n
    BY <1>1
  <2> QED BY <1>4, <2>1
<1> QED BY <1>2, <1>3, <1>5 DEF head, rest

-----------------------------------------------------------------------------
(* Bytes that a buffer holds.                                               *)

\* the buffer holds these bytes from the offset `at' on
Held(buf, at, bytes) ==
  at + Len(bytes) <= Len(buf) /\ \A i \in 1 .. Len(bytes) : buf[at + i] = bytes[i]

\* What is held in a row is held part by part.
LEMMA HeldParts ==
  ASSUME NEW buf, Len(buf) \in Nat, NEW at \in Nat, NEW B, NEW a \in Seq(B), NEW b \in Seq(B),
         Held(buf, at, a \o b)
  PROVE  Held(buf, at, a) /\ Held(buf, at + Len(a), b)
<1>1. /\ Len(a) \in Nat /\ Len(b) \in Nat /\ Len(a \o b) = Len(a) + Len(b)
      /\ \A i \in 1 .. Len(a) : (a \o b)[i] = a[i]
      /\ \A i \in 1 .. Len(b) : (a \o b)[Len(a) + i] = b[i]
  OBVIOUS
<1> DEFINE ab == a \o b
<1>2. at + Len(a) + Len(b) <= Len(buf) /\ \A i \in 1 .. Len(a) + Len(b) : buf[at + i] = ab[i]
  BY <1>1 DEF Held
<1> HIDE DEF ab
<1>3. \A i \in 1 .. Len(a) : buf[at + i] = a[i]
  BY <1>1, <1>2 DEF ab
<1>4. ASSUME NEW i \in 1 .. Len(b) PROVE buf[(at + Len(a)) + i] = b[i]
  <2>1. Len(a) + i \in 1 .. Len(a) + Len(b) /\ at + (Len(a) + i) = (at + Len(a)) + i
    BY <1>1
  <2>2. buf[at + (Len(a) + i)] = ab[Len(a) + i]
    BY <1>2, <2>1
  <2> QED BY <1>1, <2>1, <2>2 DEF ab
<1> QED BY <1>1, <1>2, <1>3, <1>4 DEF Held

\* The bytes that are held can be copied.
LEMMA HeldCopied ==
  ASSUME NEW B, NEW buf \in Seq(B), NEW at \in Nat, NEW C, NEW bytes \in Seq(C), Held(buf, at, bytes)
  PROVE  SubSeq(buf, at + 1, at + Len(bytes)) = bytes
<1> DEFINE copy == SubSeq(buf, at + 1, at + Len(bytes))
<1>1. /\ Len(buf) \in Nat /\ Len(bytes) \in Nat /\ at + Len(bytes) <= Len(buf)
      /\ \A i \in 1 .. Len(bytes) : buf[at + i] = bytes[i]
  BY DEF Held
<1>2. /\ copy \in Seq(B) /\ Len(copy) = Len(bytes)
      /\ \A i \in 1 .. Len(bytes) : copy[i] = buf[at + i]
  <2> DEFINE m == at + 1
             n == at + Len(bytes)
  <2>1. /\ m \in Int /\ n \in Int /\ m >= 1 /\ n <= Len(buf) /\ n - m + 1 = Len(bytes)
        /\ m <= n \/ Len(bytes) = 0
        /\ \A i \in Int : m + i - 1 = at + i
    BY <1>1
  <2>2. copy = SubSeq(buf, m, n)
    OBVIOUS
  <2> HIDE DEF m, n, copy
  <2>3. ASSUME NEW i \in m .. n PROVE buf[i] \in B
    <3>1. i \in 1 .. Len(buf)
      BY <1>1, <2>1
    <3> QED BY <3>1
  <2>4. /\ SubSeq(buf, m, n) \in Seq(B)
        /\ Len(SubSeq(buf, m, n)) = IF m <= n THEN n - m + 1 ELSE 0
        /\ \A i \in 1 .. n - m + 1 : SubSeq(buf, m, n)[i] = buf[m + i - 1]
    BY <2>1, <2>3, SubSeqProperties
  <2> QED BY <1>1, <2>1, <2>2, <2>4
<1> HIDE DEF copy
<1>3. /\ Len(copy) = Len(bytes) /\ \A i \in 1 .. Len(copy) : copy[i] = bytes[i]
      /\ copy \in Seq(B \cup C) /\ bytes \in Seq(B \cup C)
  BY <1>1, <1>2
<1>4. copy = bytes
  BY <1>3, SeqEqual
<1> QED BY <1>4 DEF copy

\* What is held of a line: the introduction byte, the text and the terminator.
LEMMA LineParts ==
  ASSUME NEW B, NEW c \in B, NEW str \in Seq(B), CR \in B, LF \in B
  PROVE  /\ <<c>> \o str \o EOL \in Seq(B)
         /\ Len(<<c>> \o str \o EOL) = Len(str) + 3
         /\ \A buf : \A at \in Nat : Len(buf) \in Nat /\ Held(buf, at, <<c>> \o str \o EOL) =>
              /\ buf[at + 1] = c /\ at + Len(str) + 3 <= Len(buf)
              /\ Held(buf, at + 1, str) /\ Held(buf, at + 1 + Len(str), EOL)
<1>1. /\ <<c>> \in Seq(B) /\ Len(<<c>>) = 1 /\ <<c>>[1] = c
      /\ EOL \in Seq(B) /\ Len(EOL) = 2 /\ Len(str) \in Nat
  BY DEF EOL
<1> DEFINE begun == <<c>> \o str
           n == Len(str)
<1>2. begun \in Seq(B) /\ Len(begun) = n + 1
  BY <1>1
<1> HIDE DEF begun
<1>3. begun \o EOL \in Seq(B) /\ Len(begun \o EOL) = n + 1 + 2
  <2> DEFINE e == EOL
  <2>1. e \in Seq(B) /\ Len(e) = 2
    BY <1>1
  <2> HIDE DEF e, n
  <2>2. begun \o e \in Seq(B) /\ Len(begun \o e) = Len(begun) + Len(e)
    BY <1>2, <2>1, Concatenates
  <2> QED BY <1>2, <2>1, <2>2 DEF e
<1>4. ASSUME NEW buf, NEW at \in Nat, Len(buf) \in Nat, Held(buf, at, begun \o EOL)
      PROVE  /\ buf[at + 1] = c /\ at + n + 3 <= Len(buf)
             /\ Held(buf, at + 1, str) /\ Held(buf, at + 1 + n, EOL)
  <2>1. Held(buf, at, begun) /\ Held(buf, at + Len(begun), EOL)
    BY <1>1, <1>2, <1>4, HeldParts
  <2>2. Held(buf, at, <<c>>) /\ Held(buf, at + Len(<<c>>), str)
    BY <1>1, <1>4, <2>1, HeldParts DEF begun
  <2>3. buf[at + 1] = c
    BY <1>1, <2>2 DEF Held
  <2> HIDE DEF n
  <2>4. at + (n + 1) + 2 <= Len(buf)
    BY <1>1, <1>2, <2>1 DEF Held
  <2>5. at + (n + 1) = at + 1 + n /\ n \in Nat
    BY <1>1 DEF n
  <2>6. at + n + 3 <= Len(buf)
    BY <1>4, <2>4, <2>5
  <2>7. Held(buf, at + 1 + n, EOL)
    BY <1>2, <2>1, <2>5
  <2> QED BY <1>1, <2>2, <2>3, <2>6, <2>7
<1>5. n + 1 + 2 = n + 3
  BY <1>1
<1> QED BY <1>3, <1>4, <1>5 DEF begun

\* Texts that are held one behind the other are held one by one: `ends' are the
\* offsets behind them.
LEMMA TextsHeld ==
  ASSUME NEW B, NEW texts \in Seq(Seq(B)), NEW buf, Len(buf) \in Nat, NEW at \in Nat,
         Held(buf, at, FlattenSeq(texts))
  PROVE  \E ends :
           /\ ends[0] = 0 /\ ends[Len(texts)] = Len(FlattenSeq(texts))
           /\ \A i \in 0 .. Len(texts) : ends[i] \in Nat
           /\ \A i \in 0 .. Len(texts) - 1 :
                ends[i + 1] = ends[i] + Len(texts[i + 1]) /\ Held(buf, at + ends[i], texts[i + 1])
<1> DEFINE n == Len(texts)
<1>1. n \in Nat /\ \A i \in 1 .. n : texts[i] \in Seq(B)
  OBVIOUS
<1>2. PICK f : /\ Joins(f, texts) /\ f[n] = FlattenSeq(texts)
               /\ \A i \in 0 .. n : f[i] \in Seq(B)
  BY FlattenJoins
<1>3. ASSUME NEW i \in 0 .. n - 1
      PROVE  /\ i \in 0 .. n /\ i + 1 \in 0 .. n /\ f[i + 1] = f[i] \o texts[i + 1]
             /\ f[i] \in Seq(B) /\ texts[i + 1] \in Seq(B)
  <2>1. i \in 0 .. n /\ i + 1 \in 0 .. n /\ i + 1 \in 1 .. n
    BY <1>1
  <2> QED BY <1>1, <1>2, <2>1 DEF Joins
<1> HIDE DEF n
<1> DEFINE S == {i \in 0 .. n : Held(buf, at, f[i])}
<1>4. ASSUME NEW i \in 0 .. n - 1, Held(buf, at, f[i + 1])
      PROVE  Held(buf, at, f[i]) /\ Held(buf, at + Len(f[i]), texts[i + 1])
  <2> DEFINE a == f[i]
             b == texts[i + 1]
  <2>1. a \in Seq(B) /\ b \in Seq(B) /\ Held(buf, at, a \o b)
    BY <1>3, <1>4
  <2> HIDE DEF a, b
  <2>2. Held(buf, at, a) /\ Held(buf, at + Len(a), b)
    BY <2>1, HeldParts
  <2> QED BY <2>2 DEF a, b
<1>5. \A i \in 0 .. n : i \in S
  <2>1. ASSUME NEW i \in 0 .. n, \A j \in i + 1 .. n : j \in S PROVE i \in S
    <3>1. CASE i = n
      BY <1>1, <1>2, <3>1
    <3>2. CASE i # n
      <4>1. i \in 0 .. n - 1 /\ i + 1 \in i + 1 .. n
        BY <1>1, <3>2
      <4>2. Held(buf, at, f[i + 1])
        BY <2>1, <4>1
      <4> QED BY <1>4, <4>1, <4>2
    <3> QED BY <3>1, <3>2
  <2> HIDE DEF S
  <2> QED BY <1>1, <2>1, Downwards
<1> DEFINE ends == [i \in 0 .. n |-> Len(f[i])]
<1>6. ends[0] = 0 /\ ends[n] = Len(FlattenSeq(texts))
  <2>1. 0 \in 0 .. n /\ n \in 0 .. n /\ Len(<<>>) = 0
    BY <1>1
  <2> QED BY <1>2, <2>1 DEF Joins
<1>7. \A i \in 0 .. n : ends[i] \in Nat
  BY <1>2
<1>8. ASSUME NEW i \in 0 .. n - 1
      PROVE  ends[i + 1] = ends[i] + Len(texts[i + 1]) /\ Held(buf, at + ends[i], texts[i + 1])
  <2>1. ends[i] = Len(f[i]) /\ ends[i + 1] = Len(f[i + 1])
    BY <1>3
  <2>2. Len(f[i + 1]) = Len(f[i]) + Len(texts[i + 1])
    <3> DEFINE a == f[i]
               b == texts[i + 1]
    <3>1. a \in Seq(B) /\ b \in Seq(B) /\ f[i + 1] = a \o b
      BY <1>3
    <3> HIDE DEF a, b
    <3>2. Len(a \o b) = Len(a) + Len(b)
      BY <3>1, Concatenates
    <3> QED BY <3>1, <3>2 DEF a, b
  <2>3. Held(buf, at + Len(f[i]), texts[i + 1])
    BY <1>3, <1>4, <1>5
  <2> HIDE DEF ends
  <2> QED BY <2>1, <2>2, <2>3
<1> HIDE DEF ends
<1> QED BY <1>6, <1>7, <1>8 DEF n

\* A line that is held is found: the first terminator is the one behind its text.
LEMMA LineHeld ==
  ASSUME NEW B, NEW buf \in Seq(B), NEW at \in Nat, NEW c, NEW D, NEW str \in Seq(D),
         \A i \in 1 .. Len(str) - 1 : ~ (str[i] = CR /\ str[i + 1] = LF),
         at + Len(str) + 3 <= Len(buf),
         Held(buf, at + 1, str), Held(buf, at + 1 + Len(str), EOL),
         NEW type, NEW policy
  PROVE  LineParser(type, buf, at, policy)
           = Positive(policy, Len(str) + 3,
                      [type |-> type, from |-> at + 1, to |-> at + 1 + Len(str)])
<1> DEFINE L == Len(str)
           to == SearchTerminator(buf, at + 1)
           behind == at + 1 + L
<1>1. /\ L \in Nat /\ Len(buf) \in Nat /\ at + L + 3 <= Len(buf) /\ behind \in Nat
      /\ at \in 0 .. Len(buf) - 1 /\ at + 1 \in 0 .. Len(buf)
  OBVIOUS
<1>2. buf[behind + 1] = CR /\ buf[behind + 2] = LF
  <2>1. Len(EOL) = 2 /\ EOL[1] = CR /\ EOL[2] = LF
    BY DEF EOL
  <2> QED BY <2>1 DEF Held
<1>3. \A i \in 1 .. L : buf[(at + 1) + i] = str[i]
  BY DEF Held
<1> HIDE DEF L, behind
<1>4. behind \in Terminators(buf, at + 1)
  BY <1>1, <1>2 DEF Terminators, behind
<1>5. ASSUME NEW i \in Terminators(buf, at + 1), i < behind PROVE FALSE
  <2>1. i \in Int /\ i >= at + 1 /\ buf[i + 1] = CR /\ buf[i + 2] = LF
    BY <1>1, <1>5 DEF Terminators
  <2> DEFINE j == i - at
  <2>2. j \in 1 .. L /\ i + 1 = (at + 1) + j /\ i + 2 = (at + 1) + (j + 1)
    BY <1>1, <1>5, <2>1 DEF behind
  <2> HIDE DEF j
  <2>3. str[j] = CR
    BY <1>3, <2>1, <2>2
  <2>4. CASE j = L
    <3>1. i + 2 = behind + 1
      BY <1>1, <2>1, <2>2, <2>4 DEF behind
    <3> QED BY <1>2, <2>1, <3>1 DEF CR, LF
  <2>5. CASE j # L
    <3>1. j \in 1 .. L - 1 /\ j + 1 \in 1 .. L
      BY <1>1, <2>2, <2>5
    <3>2. str[j + 1] = LF
      BY <1>3, <2>1, <2>2, <3>1
    <3> QED BY <2>3, <3>1, <3>2 DEF L
  <2> QED BY <2>4, <2>5
<1>6. to = behind
  <2>1. /\ to \in at + 1 .. Len(buf)
        /\ to # Len(buf) => to \in Terminators(buf, at + 1)
        /\ \A i \in Terminators(buf, at + 1) : to <= i
    BY <1>1, SearchEnds
  <2> HIDE DEF to
  <2>2. to <= behind /\ to # Len(buf)
    BY <1>1, <1>4, <2>1 DEF behind
  <2> QED BY <1>1, <1>5, <2>1, <2>2
<1>7. behind # Len(buf) /\ 1 + 2 + (behind - (at + 1)) = L + 3
  BY <1>1 DEF behind
<1> HIDE DEF to
<1> QED BY <1>6, <1>7 DEF LineParser, MarkLine, to, behind, L

\* What the parser makes of a line with a number in it, which is read as a count.
LEMMA CountLineHeld ==
  ASSUME NEW B, NEW buf \in Seq(B), NEW at \in Nat, NEW n \in -LongMax - 1 .. LongMax,
         at + Len(Printed(n)) + 3 <= Len(buf),
         Held(buf, at + 1, Printed(n)), Held(buf, at + 1 + Len(Printed(n)), EOL), NEW policy
  PROVE  CountParser(buf, at, policy)
           = UnwrapCount(Positive("keep_result", Len(Printed(n)) + 3,
                                  [type |-> "string", from |-> at + 1,
                                   to |-> at + 1 + Len(Printed(n))]),
                         [errno |-> FALSE, value |-> n], policy)
<1> DEFINE s == Printed(n)
           line == LineParser("string", buf, at, "keep_result")
<1>1. s \in Seq(DigitBytes \cup {"-"}) /\ Strtol(s) = [errno |-> FALSE, value |-> n]
  BY StrtolOfPrinted
<1>2. \A i \in 1 .. Len(s) - 1 : ~ (s[i] = CR /\ s[i + 1] = LF)
  <2>1. \A c \in DigitBytes \cup {"-"} : c # CR
    BY DigitsAre DEF CR
  <2> HIDE DEF s
  <2>2. ASSUME NEW i \in 1 .. Len(s) - 1 PROVE s[i] # CR
    <3>1. i \in 1 .. Len(s)
      BY <1>1
    <3>2. s[i] \in DigitBytes \cup {"-"}
      BY <1>1, <3>1
    <3> QED BY <2>1, <3>2
  <2> QED BY <2>2
<1>3. line = Positive("keep_result", Len(s) + 3,
                      [type |-> "string", from |-> at + 1, to |-> at + 1 + Len(s)])
  BY <1>1, <1>2, LineHeld
<1>4. SubSeq(buf, (at + 1) + 1, (at + 1) + Len(s)) = s
  BY <1>1, HeldCopied
<1>5. CountParser(buf, at, policy) = ParseCount(buf, line, policy)
  BY DEF CountParser
<1> HIDE DEF s, line
<1>6. /\ line.kind = "positive" /\ line.consumed = Len(s) + 3
      /\ line.result = [type |-> "string", from |-> at + 1, to |-> at + 1 + Len(s)]
  BY <1>3 DEF Positive
<1>7. ParseCount(buf, line, policy) = UnwrapCount(line, Strtol(s), policy)
  <2>1. SubSeq(buf, line.result.from + 1, line.result.to) = s
    BY <1>4, <1>6
  <2> QED BY <1>6, <2>1 DEF ParseCount
<1> QED BY <1>1, <1>3, <1>5, <1>7 DEF s

\* A count that fits a long is read as it was printed.
LEMMA CountHeld ==
  ASSUME NEW B, NEW buf \in Seq(B), NEW at \in Nat, NEW n \in 0 .. LongMax,
         at + Len(Decimal(n)) + 3 <= Len(buf),
         Held(buf, at + 1, Decimal(n)), Held(buf, at + 1 + Len(Decimal(n)), EOL), NEW policy
  PROVE  CountParser(buf, at, policy)
           = [kind |-> "count", value |-> n, consumed |-> Len(Decimal(n)) + 3]
<1>1. n \in -LongMax - 1 .. LongMax /\ n \in Nat /\ ~ (n < 0) /\ n # -1 /\ ~ (n < -1)
  BY LimitsAssumption
<1>2. Printed(n) = Decimal(n)
  BY <1>1 DEF Printed
<1> DEFINE line == Positive("keep_result", Len(Decimal(n)) + 3,
                            [type |-> "string", from |-> at + 1, to |-> at + 1 + Len(Decimal(n))])
<1>3. CountParser(buf, at, policy) = UnwrapCount(line, [errno |-> FALSE, value |-> n], policy)
  <2>1. /\ at + Len(Printed(n)) + 3 <= Len(buf) /\ Held(buf, at + 1, Printed(n))
        /\ Held(buf, at + 1 + Len(Printed(n)), EOL)
    BY <1>2
  <2>2. CountParser(buf, at, policy)
          = UnwrapCount(Positive("keep_result", Len(Printed(n)) + 3,
                                 [type |-> "string", from |-> at + 1,
                                  to |-> at + 1 + Len(Printed(n))]),
                        [errno |-> FALSE, value |-> n], policy)
    BY <1>1, <2>1, CountLineHeld
  <2> QED BY <1>2, <2>2
<1>4. line.consumed = Len(Decimal(n)) + 3
  BY DEF Positive
<1> HIDE DEF line
<1> QED BY <1>1, <1>3, <1>4 DEF UnwrapCount

\* One is spelled with one digit.
LEMMA One == Decimal(1) = <<"1">>
<1>1. PICK f : Spelling(f, 1) /\ Decimal(1) = f[1]
  BY SpellingExists
<1>2. f[1] = Spelled(f, 1)
  BY <1>1 DEF Spelling
<1>3. Spelled(f, 1) = <<Digits[2]>>
  BY DEF Spelled
<1> QED BY <1>1, <1>2, <1>3 DEF Digits

\* A byte behind a byte.
LEMMA OneAndOne == \A a, b : <<a>> \o <<b>> = <<a, b>>
<1> SUFFICES ASSUME NEW a, NEW b PROVE <<a>> \o <<b>> = <<a, b>>
  OBVIOUS
<1> DEFINE s == <<a>> \o <<b>>
           t == <<a, b>>
<1>1. s \in Seq({a, b}) /\ Len(s) = 2 /\ s[1] = a /\ s[2] = b
  <2>1. <<a>> \in Seq({a, b}) /\ <<b>> \in Seq({a, b}) /\ Len(<<a>>) = 1 /\ Len(<<b>>) = 1
    OBVIOUS
  <2> QED BY <2>1
<1>2. t \in Seq({a, b}) /\ Len(t) = 2 /\ t[1] = a /\ t[2] = b
  OBVIOUS
<1> HIDE DEF s, t
<1>3. \A i \in 1 .. Len(s) : s[i] = t[i]
  BY <1>1, <1>2
<1>4. s = t
  BY <1>1, <1>2, <1>3, SeqEqual
<1> QED BY <1>4 DEF s, t

\* Minus one is printed with a sign and a digit.
LEMMA PrintedNil == Printed(-1) = <<"-", "1">> /\ Len(Printed(-1)) = 2
<1>1. \A n \in Int : n + 1 = 0 => n < 0 /\ -n = 1
  OBVIOUS
<1>2. Printed(-1) = <<"-">> \o Decimal(1)
  <2>1. -1 \in Int /\ -1 + 1 = 0
    OBVIOUS
  <2>2. \A n \in Int : n + 1 = 0 => Printed(n) = <<"-">> \o Decimal(1)
    BY <1>1 DEF Printed
  <2> QED BY <2>1, <2>2
<1>3. <<"-">> \o <<"1">> = <<"-", "1">>
  BY OneAndOne
<1>4. Len(<<"-", "1">>) = 2
  OBVIOUS
<1> QED BY <1>2, <1>3, <1>4, One

\* A count of -1 is nil.
LEMMA NilHeld ==
  ASSUME NEW B, NEW buf \in Seq(B), NEW at \in Nat, at + 5 <= Len(buf),
         Held(buf, at + 1, Printed(-1)), Held(buf, at + 3, EOL), NEW policy
  PROVE  CountParser(buf, at, policy)
           = Positive(policy, 5, [type |-> "nil", from |-> at + 1, to |-> at + 3])
<1>1. -1 \in -LongMax - 1 .. LongMax
  BY LimitsAssumption
<1>2. Len(Printed(-1)) = 2
  BY PrintedNil
<1>3. at + 2 + 3 = at + 5 /\ at + 1 + 2 = at + 3
  OBVIOUS
<1> DEFINE line == Positive("keep_result", 5, [type |-> "string", from |-> at + 1, to |-> at + 3])
<1>4. CountParser(buf, at, policy) = UnwrapCount(line, [errno |-> FALSE, value |-> -1], policy)
  <2> DEFINE x == Len(Printed(-1))
  <2>1. x = 2
    BY <1>2
  <2> HIDE DEF x
  <2>2. at + x + 3 <= Len(buf) /\ x + 3 = 5 /\ at + 1 + x = at + 3
    BY <2>1
  <2>3. Held(buf, at + 1 + x, EOL)
    BY <2>2
  <2> QED BY <1>1, <2>2, <2>3, CountLineHeld DEF x
<1>5. UnwrapCount(line, [errno |-> FALSE, value |-> -1], policy)
        = Positive(policy, line.consumed, [line.result EXCEPT !.type = "nil"])
  BY DEF UnwrapCount
<1>6. /\ line.consumed = 5
      /\ [line.result EXCEPT !.type = "nil"] = [type |-> "nil", from |-> at + 1, to |-> at + 3]
  BY DEF Positive
<1> QED BY <1>4, <1>5, <1>6

\* A bulk string that is held is found, whatever is in it.
LEMMA BulkStringHeld ==
  ASSUME NEW B, NEW buf \in Seq(B), NEW at \in Nat, NEW n \in 0 .. LongMax, NEW policy,
         NEW digits, digits = Decimal(n), NEW head, head = Len(digits) + 3,
         NEW tail, tail = at + head + n, tail + 2 <= Len(buf),
         Held(buf, at + 1, digits), Held(buf, at + 1 + Len(digits), EOL), Held(buf, tail, EOL)
  PROVE  BulkStringParser(buf, at, policy)
           = Positive(policy, head + n + 2, StringMarker(at + head, tail))
<1>1. n \in Nat /\ Len(buf) \in Nat /\ head \in Nat /\ at + head + n + 2 <= Len(buf)
  <2>1. n \in Nat /\ Len(digits) \in Nat
    BY LimitsAssumption, DecimalSpells DEF Spells
  <2> QED BY <2>1
<1>0. /\ Held(buf, at + 1, Decimal(n)) /\ Held(buf, at + 1 + Len(Decimal(n)), EOL)
      /\ Held(buf, at + head + n, EOL) /\ head = Len(Decimal(n)) + 3
  OBVIOUS
<1>2. CountParser(buf, at, policy) = [kind |-> "count", value |-> n, consumed |-> head]
  <2>1. at + Len(Decimal(n)) + 3 <= Len(buf)
    <3> DEFINE x == Len(Decimal(n))
    <3>1. x = head - 3
      <4>1. x \in Nat /\ head = x + 3
        BY <1>0, <1>1, DecimalSpells DEF Spells
      <4> HIDE DEF x
      <4> QED BY <4>1
    <3> HIDE DEF x
    <3>2. at + x + 3 <= Len(buf)
      BY <1>1, <3>1
    <3> QED BY <3>2 DEF x
  <2> QED BY <1>0, <2>1, CountHeld
<1>3. TerminatorAt(buf, at + head + n)
  <2>1. Len(EOL) = 2 /\ EOL[1] = CR /\ EOL[2] = LF
    BY DEF EOL
  <2>2. \A i \in 1 .. 2 : buf[(at + head + n) + i] = EOL[i]
    BY <1>0, <2>1 DEF Held
  <2> QED BY <2>1, <2>2 DEF TerminatorAt
<1>4. ~ (Len(buf) - (at + head) < n + 2)
  BY <1>1
<1> DEFINE count == [kind |-> "count", value |-> n, consumed |-> head]
<1>5. count.kind = "count" /\ count.value = n /\ count.consumed = head
  OBVIOUS
<1> HIDE DEF count
<1>6. MarkBulkString(buf, at, policy, count)
        = Positive(policy, head + n + 2, StringMarker(at + head, at + head + n))
  BY <1>3, <1>4, <1>5 DEF MarkBulkString
<1> QED BY <1>2, <1>6 DEF BulkStringParser, count

\* The results of elements found one behind the other: `ends' are the offsets
\* behind them, counted from the beginning of the array.
ElementsFound(parse, at, ends, results) ==
  /\ \A i \in 0 .. Len(results) : ends[i] \in Nat
  /\ \A i \in 0 .. Len(results) - 1 :
       parse[at + ends[i]] = Positive("keep_result", ends[i + 1] - ends[i], results[i + 1])

\* With its result kept, an array whose elements are found behind its count is
\* marked with their results.
LEMMA ArrayHeld ==
  ASSUME NEW at, NEW parse, NEW ends, NEW results, NEW R, results \in Seq(R),
         Len(results) \in 0 .. LongMax, Len(results) <= ReserveMax,
         ElementsFound(parse, at, ends, results),
         NEW number, number.kind = "count", number.value = Len(results),
         number.consumed = ends[0]
  PROVE  MarkArray(at, "keep_result", number, parse)
           = Positive("keep_result", ends[Len(results)], ArrayMarker(results))
<1> DEFINE n == Len(results)
           policy == "keep_result"
           marked(i) == ArrayMarker(SubSeq(results, 1, i))
<1>1. policy = "keep_result" /\ Len(results) = n /\ n \in Nat /\ n <= ReserveMax
  BY LimitsAssumption
<1>2. /\ \A i \in 0 .. n : ends[i] \in Nat
      /\ \A i \in 0 .. n - 1 :
           parse[at + ends[i]] = Positive(policy, ends[i + 1] - ends[i], results[i + 1])
  BY DEF ElementsFound
<1>3. number.kind = "count" /\ number.value = n /\ number.consumed = ends[0]
  OBVIOUS
<1> DEFINE array == MarkArray(at, policy, number, parse)
<1> HIDE DEF n, policy
<1>4. PICK m : Loop(at, policy, number, parse, m) /\ array = m[n]
  <2>1. array = MarkArray(at, policy, number, parse)
    OBVIOUS
  <2> HIDE DEF array
  <2>2. ~ (policy = "keep_result" /\ number.value > ReserveMax) /\ number.value \in Nat
    BY <1>1, <1>3, LimitsAssumption
  <2> QED BY <1>3, <2>1, <2>2, LoopEnds
<1> DEFINE S == {i \in 0 .. n : m[i] = Positive(policy, ends[i], marked(i))}
<1>5. 0 \in S
  <2>1. SubSeq(results, 1, 0) = <<>>
    BY SubSeqEmpty
  <2>2. m[0] = Positive(policy, ends[0], ArrayMarker(<<>>))
    BY <1>3, <1>4 DEF Loop
  <2>3. marked(0) = ArrayMarker(<<>>)
    BY <2>1
  <2> HIDE DEF marked
  <2> QED BY <1>1, <2>2, <2>3
<1>6. ASSUME NEW i \in 0 .. n - 1, i \in S PROVE i + 1 \in S
  <2> DEFINE element == Positive(policy, ends[i + 1] - ends[i], results[i + 1])
             sofar == Positive(policy, ends[i], marked(i))
  <2>1. /\ m[i] = sofar /\ m[i + 1] = MarkElement(at, policy, m[i], parse)
        /\ parse[at + ends[i]] = element
    BY <1>2, <1>3, <1>4, <1>6 DEF Loop
  <2>2. sofar.kind = "positive" /\ sofar.consumed = ends[i] /\ sofar.result = marked(i)
    BY <1>1 DEF Positive
  <2>3. /\ element.kind = "positive" /\ element.consumed = ends[i + 1] - ends[i]
        /\ element.result = results[i + 1]
    BY <1>1 DEF Positive
  <2> HIDE DEF element, sofar
  <2>4. m[i + 1] = Push(policy, sofar, element)
    BY <2>1, <2>2, <2>3 DEF MarkElement
  <2>5. sofar.consumed + element.consumed = ends[i + 1]
    <3>1. i \in 0 .. n /\ i + 1 \in 0 .. n
      BY <1>1
    <3>2. ends[i] \in Nat /\ ends[i + 1] \in Nat
      BY <1>2, <3>1
    <3> QED BY <2>2, <2>3, <3>2
  <2>6. ArrayMarker(Append(sofar.result.elements, element.result)) = marked(i + 1)
    <3>1. sofar.result.elements = SubSeq(results, 1, i)
      BY <2>2 DEF ArrayMarker
    <3>2. SubSeq(results, 1, i + 1) = Append(SubSeq(results, 1, i), results[i + 1])
      <4>1. i + 1 \in 1 .. Len(results) /\ (i + 1) - 1 = i /\ 1 \in 1 .. Len(results)
        BY <1>1
      <4> QED BY <1>1, <4>1, SubSeqRecursiveSecond
    <3> QED BY <2>3, <3>1, <3>2
  <2>7. Push(policy, sofar, element) = Positive(policy, ends[i + 1], marked(i + 1))
    BY <1>1, <2>5, <2>6 DEF Push
  <2> HIDE DEF marked
  <2> QED BY <1>1, <2>4, <2>7
<1>7. n \in S
  <2>1. \A i \in 0 .. n : i \in S
    <3> HIDE DEF S
    <3> QED BY <1>1, <1>5, <1>6, Upwards
  <2> HIDE DEF S
  <2> QED BY <1>1, <2>1
<1>8. SubSeq(results, 1, n) = results
  BY <1>1, SubSeqFull
<1>9. array = Positive(policy, ends[n], marked(n))
  BY <1>4, <1>7
<1> QED BY <1>8, <1>9 DEF n, policy

\* Nothing is made of no texts.
LEMMA FlattenNone == FlattenSeq(<<>>) = <<>>
<1> DEFINE none == <<>>
<1>1. none \in Seq(Seq({})) /\ Len(none) = 0
  OBVIOUS
<1> HIDE DEF none
<1>2. PICK f : Joins(f, none) /\ f[Len(none)] = FlattenSeq(none)
  BY <1>1, FlattenJoins
<1>3. FlattenSeq(none) = <<>>
  BY <1>1, <1>2 DEF Joins
<1> QED BY <1>3 DEF none

\* Of two texts and more, the first and the last are apart.
LEMMA FlattenEnds ==
  ASSUME NEW B, NEW texts \in Seq(Seq(B))
  PROVE  Len(texts) > 1 =>
           Len(FlattenSeq(texts)) >= Len(texts[1]) + Len(texts[Len(texts)])
<1> SUFFICES ASSUME Len(texts) > 1
             PROVE  Len(FlattenSeq(texts)) >= Len(texts[1]) + Len(texts[Len(texts)])
  OBVIOUS
<1> DEFINE n == Len(texts)
           front == SubSeq(texts, 1, n - 1)
           first == texts[1]
           last == texts[n]
           rest == Tail(front)
<1>1. /\ n \in Nat /\ n > 1 /\ first \in Seq(B) /\ last \in Seq(B)
      /\ 1 \in 1 .. n /\ n \in 1 .. n
  OBVIOUS
<1>2. texts = Append(front, last)
  <2>1. SubSeq(texts, 1, n) = texts
    BY SubSeqFull
  <2>2. SubSeq(texts, 1, n) = Append(SubSeq(texts, 1, n - 1), texts[n])
    BY <1>1, SubSeqRecursiveSecond
  <2> QED BY <2>1, <2>2
<1>3. front \in Seq(Seq(B)) /\ Len(front) = n - 1 /\ front[1] = first
  <2> DEFINE C == Seq(B)
             m == n - 1
  <2>1. \A i \in 1 .. m : texts[i] \in C
    BY <1>1
  <2>2. 1 \in Int /\ m \in Int /\ m >= 1 /\ m - 1 + 1 = n - 1
    BY <1>1
  <2> HIDE DEF C, m, n
  <2>3. /\ SubSeq(texts, 1, m) \in Seq(C)
        /\ Len(SubSeq(texts, 1, m)) = IF 1 <= m THEN m - 1 + 1 ELSE 0
        /\ \A i \in 1 .. m - 1 + 1 : SubSeq(texts, 1, m)[i] = texts[1 + i - 1]
    BY <2>1, <2>2, SubSeqProperties
  <2>4. 1 \in 1 .. m - 1 + 1 /\ 1 + 1 - 1 = 1
    BY <2>2
  <2> QED BY <2>2, <2>3, <2>4 DEF C, m
<1> HIDE DEF n, first, last
<1>4. front # <<>> /\ rest \in Seq(Seq(B))
  <2> HIDE DEF front
  <2> QED BY <1>1, <1>3
<1> HIDE DEF front, rest
<1>5. FlattenSeq(front) = first \o FlattenSeq(rest)
  BY <1>3, <1>4, FlattenTail DEF rest
<1>6. FlattenSeq(texts) = FlattenSeq(front) \o last
  BY <1>1, <1>2, <1>3, FlattenAppend
<1>7. FlattenSeq(front) \in Seq(B) /\ FlattenSeq(rest) \in Seq(B)
  BY <1>3, <1>4, FlattenText
<1> DEFINE ff == FlattenSeq(front)
           fr == FlattenSeq(rest)
<1>8. /\ ff \in Seq(B) /\ fr \in Seq(B) /\ ff = first \o fr /\ FlattenSeq(texts) = ff \o last
  BY <1>5, <1>6, <1>7
<1> HIDE DEF ff, fr
<1>9. /\ Len(ff) = Len(first) + Len(fr) /\ Len(FlattenSeq(texts)) = Len(ff) + Len(last)
      /\ Len(first) \in Nat /\ Len(fr) \in Nat /\ Len(last) \in Nat
  BY <1>1, <1>8, Concatenates
<1>10. Len(FlattenSeq(texts)) >= Len(first) + Len(last)
  BY <1>9
<1> QED BY <1>10 DEF first, last, n

\* What is behind the same text is the same.
LEMMA Cancels == \A B : \A s, u, v \in Seq(B) : s \o u = s \o v => u = v
<1> SUFFICES ASSUME NEW B, NEW s \in Seq(B), NEW u \in Seq(B), NEW v \in Seq(B), s \o u = s \o v
             PROVE  u = v
  OBVIOUS
<1>1. Len(u) = Len(v)
  <2>1. Len(s \o u) = Len(s) + Len(u) /\ Len(s \o v) = Len(s) + Len(v)
    BY Concatenates
  <2>2. Len(s) \in Nat /\ Len(u) \in Nat /\ Len(v) \in Nat
    OBVIOUS
  <2> QED BY <2>1, <2>2
<1>2. ASSUME NEW i \in 1 .. Len(u) PROVE u[i] = v[i]
  <2>1. (s \o u)[Len(s) + i] = u[i] /\ (s \o v)[Len(s) + i] = v[i]
    BY <1>1
  <2> QED BY <2>1
<1> QED BY <1>1, <1>2, SeqEqual

\* what is left of `sent' behind `first'
Behind(sent, first) == SubSeq(sent, Len(first) + 1, Len(sent))

\* A stream, of which `sent' has arrived, begins with `first': it is held, or
\* what has arrived is the beginning of it.
LEMMA StreamBegins ==
  ASSUME NEW B, NEW sent \in Seq(B), NEW unsent \in Seq(B), NEW first \in Seq(B), NEW rest \in Seq(B),
         sent \o unsent = first \o rest
  PROVE  /\ Len(first) <= Len(sent) => Held(sent, 0, first)
         /\ Len(sent) <= Len(first) => Continues(first, sent)
<1> DEFINE stream == sent \o unsent
<1>1. /\ Len(sent) \in Nat /\ Len(first) \in Nat
      /\ \A i \in 1 .. Len(sent) : stream[i] = sent[i]
  OBVIOUS
<1>2. \A i \in 1 .. Len(first) : stream[i] = first[i]
  <2>1. \A i \in 1 .. Len(first) : (first \o rest)[i] = first[i]
    OBVIOUS
  <2> QED BY <2>1
<1> HIDE DEF stream
<1>3. ASSUME Len(first) <= Len(sent) PROVE Held(sent, 0, first)
  BY <1>1, <1>2, <1>3 DEF Held
<1>4. ASSUME Len(sent) <= Len(first) PROVE Continues(first, sent)
  BY <1>1, <1>2, <1>4 DEF Continues
<1> QED BY <1>3, <1>4

\* What has arrived behind it belongs to the rest of the stream.
LEMMA StreamBehind ==
  \A B : \A sent, unsent, first, rest \in Seq(B) :
    sent \o unsent = first \o rest =>
      (Len(first) <= Len(sent) => Behind(sent, first) \o unsent = rest)
<1> SUFFICES ASSUME NEW B, NEW sent \in Seq(B), NEW unsent \in Seq(B), NEW first \in Seq(B),
                    NEW rest \in Seq(B)
             PROVE  sent \o unsent = first \o rest =>
                      (Len(first) <= Len(sent) => Behind(sent, first) \o unsent = rest)
  OBVIOUS
<1> DEFINE k == Len(first)
           copy == SubSeq(sent, 1, k)
           behind == SubSeq(sent, k + 1, Len(sent))
<1>1. Len(sent) \in Nat /\ k \in Nat
  OBVIOUS
<1>2. behind \in Seq(B)
  <2> DEFINE m == k + 1
             n == Len(sent)
  <2>1. m \in Int /\ n \in Int /\ \A i \in m .. n : sent[i] \in B
    BY <1>1
  <2> HIDE DEF m, n
  <2>2. SubSeq(sent, m, n) \in Seq(B)
    BY <2>1, SubSeqProperties
  <2> QED BY <2>2 DEF m, n
<1>3. k <= Len(sent) => copy \o behind = sent
  <2> SUFFICES ASSUME k <= Len(sent) PROVE copy \o behind = sent
    OBVIOUS
  <2>1. 1 \in 1 .. Len(sent) + 1 /\ k \in 1 - 1 .. Len(sent) /\ Len(sent) \in k .. Len(sent)
    BY <1>1
  <2> HIDE DEF k
  <2>2. SubSeq(sent, 1, k) \o SubSeq(sent, k + 1, Len(sent)) = SubSeq(sent, 1, Len(sent))
    BY <2>1, ConcatAdjacentSubSeq
  <2> QED BY <2>2, SubSeqFull
<1> HIDE DEF behind
<1>4. (first \o behind) \o unsent = first \o (behind \o unsent) /\ behind \o unsent \in Seq(B)
  BY <1>2, Associates, Concatenates, SMTT(40)
<1>5. ASSUME sent \o unsent = first \o rest, k <= Len(sent) PROVE behind \o unsent = rest
  <2>1. copy = first
    <3>1. Held(sent, 0, first)
      BY <1>5, StreamBegins
    <3>2. SubSeq(sent, 0 + 1, 0 + Len(first)) = first
      BY <3>1, HeldCopied
    <3>3. 0 + 1 = 1 /\ 0 + Len(first) = k
      BY <1>1
    <3> QED BY <3>2, <3>3
  <2> HIDE DEF copy
  <2>2. first \o (behind \o unsent) = first \o rest
    BY <1>3, <1>4, <1>5, <2>1
  <2> QED BY <1>4, <2>2, Cancels
<1> QED BY <1>5 DEF behind, Behind
=============================================================================
