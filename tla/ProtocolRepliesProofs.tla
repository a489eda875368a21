----------------------- MODULE ProtocolRepliesProofs -----------------------
(***************************************************************************)
(* Proofs about ProtocolReplies, for any set of replies of any length,     *)
(* nested as deeply as Depth says, and any number of them.                 *)
(***************************************************************************)
EXTENDS ProtocolReplies, EncodingProofs

(* The replies, level by level.                                            *)

\* f[d] is the set of the replies that are nested at most d deep
Levels(f, depth) ==
  f = [d \in 0 .. depth |-> Scalar \cup ArraysOver(IF d = 0 THEN {} ELSE f[d - 1])]

\* There are such levels.
LEMMA LevelsExist == \E f : Levels(f, Depth) /\ Nested(Depth) = f[Depth]
<1> DEFINE Level(f, d) == Scalar \cup ArraysOver(IF d = 0 THEN {} ELSE f[d - 1])
           S == {k \in 0 .. Depth : \E f : Levels(f, k)}
<1>1. Depth \in Nat
  BY RepliesAssumption
<1>2. \A f, k : Levels(f, k) <=> f = [d \in 0 .. k |-> Level(f, d)]
  BY Zenon DEF Levels
<1>3. \A f, g, d : f[d - 1] = g[d - 1] => Level(f, d) = Level(g, d)
  OBVIOUS
<1> HIDE DEF Level
<1>4. 0 \in S
  <2> DEFINE f == [d \in 0 .. 0 |-> Level(<<>>, 0)]
  <2>1. Level(f, 0) = Level(<<>>, 0)
    BY DEF Level
  <2>2. f = [d \in 0 .. 0 |-> Level(f, d)]
    <3> HIDE DEF Level
    <3>1. \A d \in 0 .. 0 : d = 0
      OBVIOUS
    <3> QED BY <2>1, <3>1
  <2> HIDE DEF f
  <2> QED BY <1>1, <1>2, <2>2
<1>5. ASSUME NEW k \in 0 .. Depth - 1, k \in S PROVE k + 1 \in S
  <2>1. PICK f : Levels(f, k)
    BY <1>5
  <2> DEFINE g == [d \in 0 .. k + 1 |-> IF d <= k THEN f[d] ELSE Level(f, d)]
  <2>2. ASSUME NEW d \in 0 .. k + 1 PROVE g[d] = Level(g, d)
    <3>1. Level(g, d) = Level(f, d)
      <4>1. CASE d = 0
        BY <4>1 DEF Level
      <4>2. CASE d # 0
        <5>1. d - 1 \in 0 .. k + 1 /\ d - 1 <= k
          BY <1>1, <4>2
        <5>2. g[d - 1] = f[d - 1]
          BY <5>1
        <5> QED BY <1>3, <5>2, SMTT(40)
      <4> QED BY <4>1, <4>2
    <3>2. d <= k => f[d] = Level(f, d)
      BY <1>2, <2>1
    <3> QED BY <3>1, <3>2
  <2>3. g = [d \in 0 .. k + 1 |-> Level(g, d)]
    BY <2>2, Zenon
  <2>4. k + 1 \in 0 .. Depth
    BY <1>1
  <2> HIDE DEF g
  <2> QED BY <1>2, <2>3, <2>4
<1>6. \A k \in 0 .. Depth : k \in S
  <2> HIDE DEF S
  <2> QED BY <1>1, <1>4, <1>5, Upwards
<1>7. Nested(Depth) = (CHOOSE f : Levels(f, Depth))[Depth]
  BY Zenon DEF Nested, Levels
<1>8. \E f : Levels(f, Depth)
  BY <1>1, <1>6
<1> QED BY <1>7, <1>8, Zenon

\* Each level is on the next.
LEMMA LevelsRise ==
  ASSUME NEW f, Levels(f, Depth)
  PROVE  /\ f[0] = Scalar \cup ArraysOver({})
         /\ \A d \in 0 .. Depth - 1 :
              f[d + 1] = Scalar \cup ArraysOver(f[d]) /\ f[d] \subseteq f[d + 1]
<1>1. Depth \in Nat /\ 0 \in 0 .. Depth
  BY RepliesAssumption
<1>2. f[0] = Scalar \cup ArraysOver({})
  BY <1>1 DEF Levels
<1>3. ASSUME NEW d \in 0 .. Depth - 1 PROVE f[d + 1] = Scalar \cup ArraysOver(f[d])
  <2>1. d + 1 \in 0 .. Depth /\ d + 1 # 0 /\ (d + 1) - 1 = d
    BY <1>1
  <2> QED BY <2>1 DEF Levels
<1>4. ASSUME NEW S, NEW T, S \subseteq T PROVE ArraysOver(S) \subseteq ArraysOver(T)
  <2>1. Seq(S) \subseteq Seq(T)
    BY <1>4
  <2> QED BY <2>1 DEF ArraysOver
<1> DEFINE S == {d \in 0 .. Depth - 1 : f[d] \subseteq f[d + 1]}
<1>5. ASSUME Depth # 0 PROVE \A d \in 0 .. Depth - 1 : d \in S
  <2>1. Depth - 1 \in Nat /\ 0 \in 0 .. Depth - 1
    BY <1>1, <1>5
  <2>2. 0 \in S
    <3>1. f[0 + 1] = Scalar \cup ArraysOver(f[0]) /\ ArraysOver({}) \subseteq ArraysOver(f[0])
      BY <1>3, <1>4, <2>1
    <3> QED BY <1>2, <2>1, <3>1
  <2>3. ASSUME NEW d \in 0 .. (Depth - 1) - 1, d \in S PROVE d + 1 \in S
    <3>1. d + 1 \in 0 .. Depth - 1 /\ d \in 0 .. Depth - 1 /\ f[d] \subseteq f[d + 1]
      BY <1>1, <2>3
    <3>2. f[d + 1] = Scalar \cup ArraysOver(f[d]) /\ f[(d + 1) + 1] = Scalar \cup ArraysOver(f[d + 1])
      BY <1>3, <3>1
    <3>3. ArraysOver(f[d]) \subseteq ArraysOver(f[d + 1])
      BY <1>4, <3>1
    <3> QED BY <3>1, <3>2, <3>3
  <2> HIDE DEF S
  <2> QED BY <2>1, <2>2, <2>3, Upwards
<1>6. ASSUME NEW d \in 0 .. Depth - 1 PROVE f[d] \subseteq f[d + 1]
  <2>1. Depth # 0
    BY <1>1
  <2> QED BY <1>5, <2>1
<1> QED BY <1>2, <1>3, <1>6

\* The elements of an array that a server may send are replies it may send.
LEMMA ReplyCases ==
  ASSUME NEW r \in Nested(Depth)
  PROVE  r \in Scalar \/ r \in ArraysOver(Nested(Depth))
<1>1. PICK f : Levels(f, Depth) /\ Nested(Depth) = f[Depth]
  BY LevelsExist
<1>2. Depth \in Nat
  BY RepliesAssumption
<1>3. PICK S : S \subseteq f[Depth] /\ f[Depth] = Scalar \cup ArraysOver(S)
  <2>1. CASE Depth = 0
    BY <1>1, <2>1, LevelsRise
  <2>2. CASE Depth # 0
    <3>1. Depth - 1 \in 0 .. Depth - 1 /\ (Depth - 1) + 1 = Depth
      BY <1>2, <2>2
    <3> QED BY <1>1, <3>1, LevelsRise
  <2> QED BY <2>1, <2>2
<1>4. Seq(S) \subseteq Seq(f[Depth])
  BY <1>3
<1> QED BY <1>1, <1>3, <1>4 DEF ArraysOver

\* The wire tells what a reply is.
LEMMA ScalarWire ==
  /\ \A r \in Scalar : r.wire \in {"+", "-", ":", "$", "$-1", "*-1"}
  /\ \A S : \A r \in ArraysOver(S) :
       /\ r.wire = "*" /\ r.elements \in Seq(S) /\ Len(r.elements) \in 0 .. LongMax
       /\ Len(r.elements) <= ReserveMax /\ DOMAIN r.elements = 1 .. Len(r.elements)
       /\ \A i \in DOMAIN r.elements : r.elements[i] \in S
<1>1. \A r \in Scalar : r.wire \in {"+", "-", ":", "$", "$-1", "*-1"}
  BY DEF Scalar
<1>2. ASSUME NEW S, NEW r \in ArraysOver(S)
      PROVE  /\ r.wire = "*" /\ r.elements \in Seq(S) /\ Len(r.elements) <= LongMax
             /\ Len(r.elements) <= ReserveMax
  BY DEF ArraysOver
<1>3. ASSUME NEW S, NEW e \in Seq(S), Len(e) <= LongMax
      PROVE  /\ Len(e) \in 0 .. LongMax /\ DOMAIN e = 1 .. Len(e)
             /\ \A i \in DOMAIN e : e[i] \in S
  BY <1>3, LimitsAssumption
<1> QED BY <1>1, <1>2, <1>3

\* What is written of a reply depends on nothing but its elements.
LEMMA WrittenSame ==
  ASSUME NEW r, NEW g, NEW h,
         r.wire = "*" => \A i \in DOMAIN r.elements : g[r.elements[i]] = h[r.elements[i]]
  PROVE  Written(r, g) = Written(r, h)
<1>1. CASE r.wire = "*"
  <2>1. [i \in DOMAIN r.elements |-> g[r.elements[i]]] = [i \in DOMAIN r.elements |-> h[r.elements[i]]]
    BY <1>1
  <2> QED BY <1>1, <2>1 DEF Written
<1>2. CASE r.wire # "*"
  BY <1>2 DEF Written
<1> QED BY <1>1, <1>2

\* What is meant by a reply depends on nothing but its elements.
LEMMA MeantSame ==
  ASSUME NEW r, NEW g, NEW h,
         r.wire = "*" => \A i \in DOMAIN r.elements : g[r.elements[i]] = h[r.elements[i]]
  PROVE  Meant(r, g) = Meant(r, h)
<1>1. CASE r.wire = "*"
  <2>1. [i \in DOMAIN r.elements |-> g[r.elements[i]]] = [i \in DOMAIN r.elements |-> h[r.elements[i]]]
    BY <1>1
  <2> QED BY <1>1, <2>1 DEF Meant
<1>2. CASE r.wire # "*"
  BY <1>2 DEF Meant
<1> QED BY <1>1, <1>2

\* The recursion over the elements of a reply has a result.
LEMMA EncodeExists ==
  \E g : g = [r \in Nested(Depth) |-> Written(r, g)]
<1>1. PICK f : Levels(f, Depth) /\ Nested(Depth) = f[Depth]
  BY LevelsExist
<1>2. Depth \in Nat
  BY RepliesAssumption
<1>3. /\ f[0] = Scalar \cup ArraysOver({})
      /\ \A d \in 0 .. Depth - 1 : f[d + 1] = Scalar \cup ArraysOver(f[d]) /\ f[d] \subseteq f[d + 1]
  BY <1>1, LevelsRise
<1> DEFINE S == {d \in 0 .. Depth : \E g : g = [r \in f[d] |-> Written(r, g)]}
<1>4. 0 \in S
  <2> DEFINE g == [r \in f[0] |-> Written(r, <<>>)]
  <2>1. ASSUME NEW r \in f[0] PROVE Written(r, <<>>) = Written(r, g)
    <3> HIDE DEF g
    <3>1. r.wire = "*" => \A i \in DOMAIN r.elements : <<>>[r.elements[i]] = g[r.elements[i]]
      BY <1>3, ScalarWire
    <3> QED BY <3>1, WrittenSame
  <2>2. g = [r \in f[0] |-> Written(r, g)]
    BY <2>1, Zenon
  <2> HIDE DEF g
  <2> QED BY <1>2, <2>2
<1>5. ASSUME NEW d \in 0 .. Depth - 1, d \in S PROVE d + 1 \in S
  <2>1. PICK g : g = [r \in f[d] |-> Written(r, g)]
    BY <1>5
  <2> DEFINE h == [r \in f[d + 1] |-> Written(r, g)]
  <2>2. ASSUME NEW e \in f[d] PROVE g[e] = h[e]
    <3>1. g[e] = Written(e, g)
      BY <2>1, Zenon
    <3>2. e \in f[d + 1]
      BY <1>3
    <3> QED BY <3>1, <3>2, Zenon
  <2>3. ASSUME NEW r \in f[d + 1] PROVE Written(r, g) = Written(r, h)
    <3> HIDE DEF h
    <3>1. r.wire = "*" => \A i \in DOMAIN r.elements : g[r.elements[i]] = h[r.elements[i]]
      <4>1. r.wire = "*" => \A i \in DOMAIN r.elements : r.elements[i] \in f[d]
        BY <1>3, ScalarWire
      <4> QED BY <2>2, <4>1
    <3> QED BY <3>1, WrittenSame
  <2>4. h = [r \in f[d + 1] |-> Written(r, h)]
    BY <2>3, Zenon
  <2>5. d + 1 \in 0 .. Depth
    BY <1>2
  <2> HIDE DEF h
  <2> QED BY <2>4, <2>5
<1>6. Depth \in S
  <2>1. \A d \in 0 .. Depth : d \in S
    <3> HIDE DEF S
    <3> QED BY <1>2, <1>4, <1>5, Upwards
  <2> HIDE DEF S
  <2> QED BY <1>2, <2>1
<1> QED BY <1>1, <1>6

\* The recursion over the meaning of a reply has a result.
LEMMA MeaningExists ==
  \E g : g = [r \in Nested(Depth) |-> Meant(r, g)]
<1>1. PICK f : Levels(f, Depth) /\ Nested(Depth) = f[Depth]
  BY LevelsExist
<1>2. Depth \in Nat
  BY RepliesAssumption
<1>3. /\ f[0] = Scalar \cup ArraysOver({})
      /\ \A d \in 0 .. Depth - 1 : f[d + 1] = Scalar \cup ArraysOver(f[d]) /\ f[d] \subseteq f[d + 1]
  BY <1>1, LevelsRise
<1> DEFINE S == {d \in 0 .. Depth : \E g : g = [r \in f[d] |-> Meant(r, g)]}
<1>4. 0 \in S
  <2> DEFINE g == [r \in f[0] |-> Meant(r, <<>>)]
  <2>1. ASSUME NEW r \in f[0] PROVE Meant(r, <<>>) = Meant(r, g)
    <3> HIDE DEF g
    <3>1. r.wire = "*" => \A i \in DOMAIN r.elements : <<>>[r.elements[i]] = g[r.elements[i]]
      BY <1>3, ScalarWire
    <3> QED BY <3>1, MeantSame
  <2>2. g = [r \in f[0] |-> Meant(r, g)]
    BY <2>1, Zenon
  <2> HIDE DEF g
  <2> QED BY <1>2, <2>2
<1>5. ASSUME NEW d \in 0 .. Depth - 1, d \in S PROVE d + 1 \in S
  <2>1. PICK g : g = [r \in f[d] |-> Meant(r, g)]
    BY <1>5
  <2> DEFINE h == [r \in f[d + 1] |-> Meant(r, g)]
  <2>2. ASSUME NEW e \in f[d] PROVE g[e] = h[e]
    <3>1. g[e] = Meant(e, g)
      BY <2>1, Zenon
    <3>2. e \in f[d + 1]
      BY <1>3
    <3> QED BY <3>1, <3>2, Zenon
  <2>3. ASSUME NEW r \in f[d + 1] PROVE Meant(r, g) = Meant(r, h)
    <3> HIDE DEF h
    <3>1. r.wire = "*" => \A i \in DOMAIN r.elements : g[r.elements[i]] = h[r.elements[i]]
      <4>1. r.wire = "*" => \A i \in DOMAIN r.elements : r.elements[i] \in f[d]
        BY <1>3, ScalarWire
      <4> QED BY <2>2, <4>1
    <3> QED BY <3>1, MeantSame
  <2>4. h = [r \in f[d + 1] |-> Meant(r, h)]
    BY <2>3, Zenon
  <2>5. d + 1 \in 0 .. Depth
    BY <1>2
  <2> HIDE DEF h
  <2> QED BY <2>4, <2>5
<1>6. Depth \in S
  <2>1. \A d \in 0 .. Depth : d \in S
    <3> HIDE DEF S
    <3> QED BY <1>2, <1>4, <1>5, Upwards
  <2> HIDE DEF S
  <2> QED BY <1>2, <2>1
<1> QED BY <1>1, <1>6

\* The bytes and the meaning of a reply, from those of its elements.
LEMMA EncodeEquation ==
  ASSUME NEW r \in Nested(Depth)
  PROVE  /\ Encode(r) = Written(r, [e \in Nested(Depth) |-> Encode(e)])
         /\ Meaning(r) = Meant(r, [e \in Nested(Depth) |-> Meaning(e)])
<1> DEFINE g == CHOOSE encode : encode = [e \in Nested(Depth) |-> Written(e, encode)]
           h == CHOOSE meaning : meaning = [e \in Nested(Depth) |-> Meant(e, meaning)]
<1>1. \A e : Encode(e) = g[e] /\ Meaning(e) = h[e]
  BY Zenon DEF Encode, Meaning
<1>2. g = [e \in Nested(Depth) |-> Written(e, g)]
  BY EncodeExists, Zenon
<1>3. h = [e \in Nested(Depth) |-> Meant(e, h)]
  BY MeaningExists, Zenon
<1> HIDE DEF g, h
<1>4. g = [e \in Nested(Depth) |-> Encode(e)] /\ h = [e \in Nested(Depth) |-> Meaning(e)]
  <2>1. g = [e \in Nested(Depth) |-> g[e]] /\ h = [e \in Nested(Depth) |-> h[e]]
    BY <1>2, <1>3, Zenon
  <2> QED BY <1>1, <2>1, Zenon
<1>5. g[r] = Written(r, g) /\ h[r] = Meant(r, h)
  BY <1>2, <1>3, Zenon
<1> QED BY <1>1, <1>4, <1>5, Zenon
-----------------------------------------------------------------------------
(* The markers, level by level.                                             *)

Scalars(size) ==
  [type : {"string", "error", "int", "nil"}, from : 0 .. size, to : 0 .. size]
ArraysOf(lists) == [type : {"array"}, elements : lists]

\* f[d] is the set of the markers that are nested at most d deep
MarkerLevels(f, size, depth) ==
  f = [d \in 0 .. depth |-> Scalars(size) \cup ArraysOf(IF d = 0 THEN {<<>>} ELSE Seq(f[d - 1]))]

\* There are such levels.
LEMMA MarkerLevelsExist ==
  ASSUME NEW size \in Nat
  PROVE  \E f : MarkerLevels(f, size, size) /\ Marked(size) = f[size]
<1> DEFINE Level(f, d) == Scalars(size) \cup ArraysOf(IF d = 0 THEN {<<>>} ELSE Seq(f[d - 1]))
           S == {k \in 0 .. size : \E f : MarkerLevels(f, size, k)}
<1>1. \A f, k : MarkerLevels(f, size, k) <=> f = [d \in 0 .. k |-> Level(f, d)]
  BY Zenon DEF MarkerLevels
<1>2. \A f, g, d : f[d - 1] = g[d - 1] => Level(f, d) = Level(g, d)
  OBVIOUS
<1>3. \A f, g : Level(f, 0) = Level(g, 0)
  OBVIOUS
<1> HIDE DEF Level
<1>4. 0 \in S
  <2> DEFINE f == [d \in 0 .. 0 |-> Level(<<>>, 0)]
  <2>1. Level(f, 0) = Level(<<>>, 0)
    BY <1>3, Zenon
  <2>2. f = [d \in 0 .. 0 |-> Level(f, d)]
    <3>1. \A d \in 0 .. 0 : d = 0
      OBVIOUS
    <3> QED BY <2>1, <3>1
  <2> HIDE DEF f
  <2>3. MarkerLevels(f, size, 0)
    BY <1>1, <2>2, Zenon
  <2> QED BY <2>3
<1>5. ASSUME NEW k \in 0 .. size - 1, k \in S PROVE k + 1 \in S
  <2>1. PICK f : MarkerLevels(f, size, k)
    BY <1>5
  <2> DEFINE g == [d \in 0 .. k + 1 |-> IF d <= k THEN f[d] ELSE Level(f, d)]
  <2>2. ASSUME NEW d \in 0 .. k + 1 PROVE g[d] = Level(g, d)
    <3>1. Level(g, d) = Level(f, d)
      <4>1. CASE d = 0
        BY <1>3, <4>1, Zenon
      <4>2. CASE d # 0
        <5>1. d - 1 \in 0 .. k + 1 /\ d - 1 <= k
          BY <4>2
        <5>2. g[d - 1] = f[d - 1]
          BY <5>1
        <5> QED BY <1>2, <5>2, SMTT(40)
      <4> QED BY <4>1, <4>2
    <3>2. d <= k => f[d] = Level(f, d)
      BY <1>1, <2>1
    <3> QED BY <3>1, <3>2
  <2>3. g = [d \in 0 .. k + 1 |-> Level(g, d)]
    BY <2>2, Zenon
  <2> HIDE DEF g
  <2> QED BY <1>1, <2>3
<1>6. \A k \in 0 .. size : k \in S
  <2> HIDE DEF S
  <2> QED BY <1>4, <1>5, Upwards
<1>7. Marked(size) = (CHOOSE f : MarkerLevels(f, size, size))[size]
  BY Zenon DEF Marked, MarkerLevels, Scalars, ArraysOf
<1>8. \E f : MarkerLevels(f, size, size)
  BY <1>6
<1> QED BY <1>7, <1>8, Zenon

\* Each level is on the next.
LEMMA MarkerLevelsRise ==
  ASSUME NEW size \in Nat, NEW f, MarkerLevels(f, size, size)
  PROVE  /\ f[0] = Scalars(size) \cup ArraysOf({<<>>})
         /\ \A d \in 0 .. size - 1 :
              f[d + 1] = Scalars(size) \cup ArraysOf(Seq(f[d])) /\ f[d] \subseteq f[d + 1]
         /\ \A d, e \in 0 .. size : d <= e => f[d] \subseteq f[e]
<1>1. f[0] = Scalars(size) \cup ArraysOf({<<>>})
  BY DEF MarkerLevels
<1>2. ASSUME NEW d \in 0 .. size - 1 PROVE f[d + 1] = Scalars(size) \cup ArraysOf(Seq(f[d]))
  <2>1. d + 1 \in 0 .. size /\ d + 1 # 0 /\ (d + 1) - 1 = d
    OBVIOUS
  <2> QED BY <2>1 DEF MarkerLevels
<1>3. ASSUME NEW S, NEW T, S \subseteq T PROVE ArraysOf(S) \subseteq ArraysOf(T)
  BY <1>3 DEF ArraysOf
<1>4. ASSUME NEW S, NEW T, S \subseteq T PROVE Seq(S) \subseteq Seq(T)
  BY <1>4
<1> DEFINE S == {d \in 0 .. size - 1 : f[d] \subseteq f[d + 1]}
<1>5. ASSUME size # 0 PROVE \A d \in 0 .. size - 1 : d \in S
  <2>1. size - 1 \in Nat /\ 0 \in 0 .. size - 1
    BY <1>5
  <2>2. 0 \in S
    <3>1. f[0 + 1] = Scalars(size) \cup ArraysOf(Seq(f[0]))
      BY <1>2, <2>1
    <3>2. {<<>>} \subseteq Seq(f[0])
      OBVIOUS
    <3>3. ArraysOf({<<>>}) \subseteq ArraysOf(Seq(f[0]))
      BY <1>3, <3>2
    <3> QED BY <1>1, <2>1, <3>1, <3>3
  <2>3. ASSUME NEW d \in 0 .. (size - 1) - 1, d \in S PROVE d + 1 \in S
    <3>1. d + 1 \in 0 .. size - 1 /\ d \in 0 .. size - 1 /\ f[d] \subseteq f[d + 1]
      BY <2>3
    <3>2. /\ f[d + 1] = Scalars(size) \cup ArraysOf(Seq(f[d]))
          /\ f[(d + 1) + 1] = Scalars(size) \cup ArraysOf(Seq(f[d + 1]))
      BY <1>2, <3>1
    <3>3. Seq(f[d]) \subseteq Seq(f[d + 1])
      BY <1>4, <3>1
    <3>4. ArraysOf(Seq(f[d])) \subseteq ArraysOf(Seq(f[d + 1]))
      BY <1>3, <3>3
    <3> QED BY <3>1, <3>2, <3>4
  <2> HIDE DEF S
  <2> QED BY <2>1, <2>2, <2>3, Upwards
<1>6. ASSUME NEW d \in 0 .. size - 1 PROVE f[d] \subseteq f[d + 1]
  <2>1. size # 0
    OBVIOUS
  <2> QED BY <1>5, <2>1
<1>7. ASSUME NEW d \in 0 .. size, NEW e \in 0 .. size, d <= e PROVE f[d] \subseteq f[e]
  <2> DEFINE n == e - d
             T == {k \in 0 .. n : f[d] \subseteq f[d + k]}
  <2>1. n \in Nat /\ d + n = e /\ n \in 0 .. n
    BY <1>7
  <2>2. 0 \in T
    BY <2>1
  <2>3. ASSUME NEW k \in 0 .. n - 1, k \in T PROVE k + 1 \in T
    <3>1. d + k \in 0 .. size - 1 /\ (d + k) + 1 = d + (k + 1) /\ k + 1 \in 0 .. n
      BY <2>1
    <3>2. f[d + k] \subseteq f[d + (k + 1)]
      BY <1>6, <3>1
    <3> QED BY <2>3, <3>1, <3>2
  <2>4. \A k \in 0 .. n : k \in T
    <3> HIDE DEF T, n
    <3> QED BY <2>1, <2>2, <2>3, Upwards
  <2> HIDE DEF n
  <2> QED BY <2>1, <2>4
<1> QED BY <1>1, <1>2, <1>6, <1>7

\* What a marker holds when it is on a level, and what is on the next level.
LEMMA MarkerCases ==
  \A size, lists :
    /\ \A m \in Scalars(size) : m.type \in {"string", "error", "int", "nil"}
    /\ \A m \in ArraysOf(lists) : m.type = "array" /\ m.elements \in lists
    /\ \A elements \in lists : ArrayMarker(elements) \in ArraysOf(lists)
BY DEF Scalars, ArraysOf, ArrayMarker

\* The visit of a marker depends on nothing but the visits of its elements.
LEMMA VisitSame ==
  ASSUME NEW bytes, NEW m, NEW g, NEW h,
         m.type = "array" => \A i \in DOMAIN m.elements : g[m.elements[i]] = h[m.elements[i]]
  PROVE  Visit(bytes, m, g) = Visit(bytes, m, h)
<1>1. CASE m.type = "array"
  <2>1. [i \in DOMAIN m.elements |-> g[m.elements[i]]] = [i \in DOMAIN m.elements |-> h[m.elements[i]]]
    BY <1>1
  <2> QED BY <1>1, <2>1 DEF Visit
<1>2. CASE m.type # "array"
  BY <1>2 DEF Visit
<1> QED BY <1>1, <1>2

\* The recursion over the elements of a marker has a result.
LEMMA ExtractExists ==
  ASSUME NEW bytes, Len(bytes) \in Nat
  PROVE  \E g : g = [m \in Marked(Len(bytes)) |-> Visit(bytes, m, g)]
<1> DEFINE size == Len(bytes)
<1>1. PICK f : MarkerLevels(f, size, size) /\ Marked(size) = f[size]
  BY MarkerLevelsExist
<1>2. size \in Nat
  OBVIOUS
<1>3. /\ f[0] = Scalars(size) \cup ArraysOf({<<>>})
      /\ \A d \in 0 .. size - 1 :
           f[d + 1] = Scalars(size) \cup ArraysOf(Seq(f[d])) /\ f[d] \subseteq f[d + 1]
  BY <1>1, MarkerLevelsRise
<1> HIDE DEF size
<1> DEFINE S == {d \in 0 .. size : \E g : g = [m \in f[d] |-> Visit(bytes, m, g)]}
<1>4. 0 \in S
  <2> DEFINE g == [m \in f[0] |-> Visit(bytes, m, <<>>)]
  <2>1. ASSUME NEW m \in f[0] PROVE Visit(bytes, m, <<>>) = Visit(bytes, m, g)
    <3> HIDE DEF g
    <3>1. m.type = "array" => \A i \in DOMAIN m.elements : <<>>[m.elements[i]] = g[m.elements[i]]
      <4>1. m.type = "array" => m.elements \in {<<>>}
        BY <1>3, MarkerCases
      <4> QED BY <4>1
    <3> QED BY <3>1, VisitSame
  <2>2. g = [m \in f[0] |-> Visit(bytes, m, g)]
    BY <2>1, Zenon
  <2> HIDE DEF g
  <2> QED BY <1>2, <2>2
<1>5. ASSUME NEW d \in 0 .. size - 1, d \in S PROVE d + 1 \in S
  <2>1. PICK g : g = [m \in f[d] |-> Visit(bytes, m, g)]
    BY <1>5
  <2> DEFINE h == [m \in f[d + 1] |-> Visit(bytes, m, g)]
  <2>2. ASSUME NEW e \in f[d] PROVE g[e] = h[e]
    <3>1. g[e] = Visit(bytes, e, g)
      BY <2>1, Zenon
    <3>2. e \in f[d + 1]
      BY <1>3
    <3> QED BY <3>1, <3>2, Zenon
  <2>3. ASSUME NEW m \in f[d + 1] PROVE Visit(bytes, m, g) = Visit(bytes, m, h)
    <3> HIDE DEF h
    <3>1. m.type = "array" => \A i \in DOMAIN m.elements : g[m.elements[i]] = h[m.elements[i]]
      <4>1. m.type = "array" => m.elements \in Seq(f[d])
        BY <1>3, MarkerCases
      <4>2. m.type = "array" => \A i \in DOMAIN m.elements : m.elements[i] \in f[d]
        BY <4>1
      <4> QED BY <2>2, <4>2
    <3> QED BY <3>1, VisitSame
  <2>4. h = [m \in f[d + 1] |-> Visit(bytes, m, h)]
    BY <2>3, Zenon
  <2>5. d + 1 \in 0 .. size
    BY <1>2
  <2> HIDE DEF h
  <2> QED BY <2>4, <2>5
<1>6. size \in S
  <2>1. \A d \in 0 .. size : d \in S
    <3> HIDE DEF S
    <3> QED BY <1>2, <1>4, <1>5, Upwards
  <2> HIDE DEF S
  <2> QED BY <1>2, <2>1
<1> QED BY <1>1, <1>6 DEF size

\* What is extracted from a marker, from what is extracted from its elements.
LEMMA ExtractEquation ==
  ASSUME NEW bytes, Len(bytes) \in Nat, NEW m \in Marked(Len(bytes))
  PROVE  Extract(bytes, m) = Visit(bytes, m, [e \in Marked(Len(bytes)) |-> Extract(bytes, e)])
<1> DEFINE g == CHOOSE extract :
                  extract = [e \in Marked(Len(bytes)) |-> Visit(bytes, e, extract)]
<1>1. \A e : Extract(bytes, e) = g[e]
  BY Zenon DEF Extract
<1>2. g = [e \in Marked(Len(bytes)) |-> Visit(bytes, e, g)]
  BY ExtractExists, Zenon
<1> HIDE DEF g
<1>3. g = [e \in Marked(Len(bytes)) |-> Extract(bytes, e)]
  <2>1. g = [e \in Marked(Len(bytes)) |-> g[e]]
    BY <1>2, Zenon
  <2> QED BY <1>1, <2>1, Zenon
<1>4. g[m] = Visit(bytes, m, g)
  BY <1>2, Zenon
<1> QED BY <1>1, <1>3, <1>4, Zenon

-----------------------------------------------------------------------------
(* What is put on the wire.                                                 *)

\* A reply is of one of six kinds.
LEMMA ReplyKinds ==
  ASSUME NEW r \in Nested(Depth)
  PROVE  \/ r.wire \in {"+", "-"} /\ r.str \in Lines
         \/ r.wire = ":" /\ r.value \in -LongMax - 1 .. LongMax
         \/ r.wire = "$" /\ r.str \in Texts /\ Len(r.str) \in 0 .. LongMax
         \/ r.wire \in {"$-1", "*-1"}
         \/ /\ r.wire = "*" /\ r.elements \in Seq(Nested(Depth))
            /\ Len(r.elements) \in 0 .. LongMax /\ Len(r.elements) <= ReserveMax
            /\ DOMAIN r.elements = 1 .. Len(r.elements)
            /\ \A i \in DOMAIN r.elements : r.elements[i] \in Nested(Depth)
<1>1. CASE r \in Scalar
  <2>1. ASSUME NEW str \in Texts, Len(str) <= LongMax PROVE Len(str) \in 0 .. LongMax
    BY <2>1, LimitsAssumption DEF Texts
  <2> QED BY <1>1, <2>1 DEF Scalar
<1>2. CASE r \in ArraysOver(Nested(Depth))
  BY <1>2, ScalarWire
<1> QED BY <1>1, <1>2, ReplyCases

\* What holds of a reply whenever it holds of its elements holds of all replies.
LEMMA ReplyInduction ==
  ASSUME NEW P,
         \A r \in Nested(Depth) :
           (r.wire = "*" => \A i \in DOMAIN r.elements : r.elements[i] \in P) => r \in P
  PROVE  Nested(Depth) \subseteq P
<1>1. PICK f : Levels(f, Depth) /\ Nested(Depth) = f[Depth]
  BY LevelsExist
<1>2. Depth \in Nat
  BY RepliesAssumption
<1>3. /\ f[0] = Scalar \cup ArraysOver({})
      /\ \A d \in 0 .. Depth - 1 : f[d + 1] = Scalar \cup ArraysOver(f[d]) /\ f[d] \subseteq f[d + 1]
  BY <1>1, LevelsRise
<1> DEFINE T == {d \in 0 .. Depth : f[d] \subseteq f[Depth]}
           S == {d \in 0 .. Depth : f[d] \subseteq P}
<1>4. \A d \in 0 .. Depth : d \in T
  <2>1. ASSUME NEW d \in 0 .. Depth, \A e \in d + 1 .. Depth : e \in T PROVE d \in T
    <3>1. CASE d = Depth
      BY <3>1
    <3>2. CASE d # Depth
      <4>1. d \in 0 .. Depth - 1 /\ d + 1 \in d + 1 .. Depth
        BY <1>2, <3>2
      <4>2. f[d] \subseteq f[d + 1] /\ f[d + 1] \subseteq f[Depth]
        BY <1>3, <2>1, <4>1
      <4> QED BY <4>2
    <3> QED BY <3>1, <3>2
  <2> HIDE DEF T
  <2> QED BY <1>2, <2>1, Downwards
<1>5. 0 \in S
  <2>1. ASSUME NEW r \in f[0] PROVE r \in P
    <3>1. r.wire = "*" => \A i \in DOMAIN r.elements : r.elements[i] \in {}
      BY <1>3, ScalarWire
    <3>2. r \in Nested(Depth)
      BY <1>1, <1>2, <1>4
    <3> QED BY <3>1, <3>2
  <2> QED BY <1>2, <2>1
<1>6. ASSUME NEW d \in 0 .. Depth - 1, d \in S PROVE d + 1 \in S
  <2>1. d + 1 \in 0 .. Depth
    BY <1>2
  <2>2. ASSUME NEW r \in f[d + 1] PROVE r \in P
    <3>1. r.wire = "*" => \A i \in DOMAIN r.elements : r.elements[i] \in f[d]
      BY <1>3, ScalarWire
    <3>2. r \in Nested(Depth) /\ f[d] \subseteq P
      BY <1>1, <1>4, <1>6, <2>1
    <3> QED BY <3>1, <3>2
  <2> QED BY <2>1, <2>2
<1>7. \A d \in 0 .. Depth : d \in S
  <2> HIDE DEF S
  <2> QED BY <1>2, <1>5, <1>6, Upwards
<1> QED BY <1>1, <1>2, <1>7

\* Terminators and digits are bytes.
LEMMA BytesAre ==
  /\ {CR, LF, "+", "-", ":", "$", "*"} \subseteq Bytes /\ EOL \in Texts /\ Len(EOL) = 2
  /\ \A n \in Nat : Decimal(n) \in Texts
  /\ \A n \in -LongMax - 1 .. LongMax : Printed(n) \in Texts /\ IntText(n) = Printed(n)
<1>1. DigitBytes \cup {"-"} \subseteq Bytes
  BY DEF DigitBytes, Bytes
<1>2. CR \in Bytes /\ LF \in Bytes
  BY DEF Bytes
<1>3. EOL \in Texts /\ Len(EOL) = 2
  BY <1>2 DEF EOL, Texts
<1>4. ASSUME NEW n \in Nat PROVE Decimal(n) \in Texts
  <2>1. Decimal(n) \in Seq(DigitBytes)
    BY DecimalSpells DEF Spells
  <2> QED BY <1>1, <2>1 DEF Texts
<1>5. ASSUME NEW n \in -LongMax - 1 .. LongMax PROVE Printed(n) \in Texts
  <2>1. Printed(n) \in Seq(DigitBytes \cup {"-"})
    BY StrtolOfPrinted
  <2> QED BY <1>1, <2>1 DEF Texts
<1>6. \A n : IntText(n) = Printed(n)
  BY DEF IntText, Printed
<1>7. {CR, LF, "+", "-", ":", "$", "*"} \subseteq Bytes
  BY DEF Bytes
<1> QED BY <1>3, <1>4, <1>5, <1>6, <1>7

\* what is put on the wire for the elements of an array
Elements(r) == [i \in DOMAIN r.elements |-> Encode(r.elements[i])]

\* The bytes of each kind of reply.
LEMMA EncodeCases ==
  ASSUME NEW r \in Nested(Depth)
  PROVE  /\ r.wire \in {"+", "-"} => Encode(r) = <<r.wire>> \o r.str \o EOL
         /\ r.wire = ":" => Encode(r) = <<":">> \o Printed(r.value) \o EOL
         /\ r.wire = "$" =>
              Encode(r) = <<"$">> \o Decimal(Len(r.str)) \o EOL \o r.str \o EOL
         /\ r.wire = "$-1" => Encode(r) = <<"$">> \o Printed(-1) \o EOL
         /\ r.wire = "*-1" => Encode(r) = <<"*">> \o Printed(-1) \o EOL
         /\ r.wire = "*" =>
              Encode(r) = <<"*">> \o Decimal(Len(r.elements)) \o EOL \o FlattenSeq(Elements(r))
<1> DEFINE encode == [e \in Nested(Depth) |-> Encode(e)]
<1>1. Encode(r) = Written(r, encode)
  BY EncodeEquation
<1>2. \A n : IntText(n) = Printed(n)
  BY DEF IntText, Printed
<1>3. r.wire = "*" => [i \in DOMAIN r.elements |-> encode[r.elements[i]]] = Elements(r)
  <2>1. r.wire = "*" => \A i \in DOMAIN r.elements : r.elements[i] \in Nested(Depth)
    BY ReplyKinds
  <2> QED BY <2>1 DEF Elements
<1> HIDE DEF encode
<1>4. CASE r.wire \in {"+", "-"}
  BY <1>1, <1>4 DEF Written
<1>5. CASE r.wire = ":"
  BY <1>1, <1>2, <1>5 DEF Written
<1>6. CASE r.wire = "$"
  BY <1>1, <1>6 DEF Written
<1>7. CASE r.wire = "$-1"
  BY <1>1, <1>2, <1>7 DEF Written
<1>8. CASE r.wire = "*-1"
  BY <1>1, <1>2, <1>8 DEF Written
<1>9. CASE r.wire = "*"
  BY <1>1, <1>3, <1>9 DEF Written
<1> QED BY <1>4, <1>5, <1>6, <1>7, <1>8, <1>9

\* Every reply is put on the wire as a text.
LEMMA EncodeText == \A r \in Nested(Depth) : Encode(r) \in Texts
<1> DEFINE P == {r \in Nested(Depth) : Encode(r) \in Texts}
<1>1. ASSUME NEW r \in Nested(Depth),
             r.wire = "*" => \A i \in DOMAIN r.elements : r.elements[i] \in P
      PROVE  Encode(r) \in Texts
  <2>1. \A c \in {"+", "-", ":", "$", "*"} : \A str \in Texts : <<c>> \o str \o EOL \in Texts
    BY BytesAre, LineParts DEF Texts
  <2>2. CASE r.wire \in {"+", "-"}
    BY <2>1, <2>2, EncodeCases, ReplyKinds DEF Lines
  <2>3. CASE r.wire = ":"
    BY <2>1, <2>3, EncodeCases, ReplyKinds, BytesAre
  <2>4. CASE r.wire = "$"
    <3> DEFINE head == <<"$">> \o Decimal(Len(r.str)) \o EOL
               str == r.str
               e == EOL
    <3>1. str \in Texts /\ Len(str) \in Nat /\ e \in Texts
      BY <2>4, ReplyKinds, BytesAre DEF Texts
    <3>2. head \in Texts
      BY <2>1, <3>1, BytesAre
    <3>3. Encode(r) = head \o str \o e
      BY <2>4, EncodeCases
    <3> HIDE DEF head, str, e
    <3>4. head \o str \in Texts
      BY <3>1, <3>2, Concatenates DEF Texts
    <3>5. head \o str \o e \in Texts
      BY <3>1, <3>4, Concatenates DEF Texts
    <3> QED BY <3>3, <3>5
  <2>5. CASE r.wire \in {"$-1", "*-1"}
    <3>1. Printed(-1) \in Texts
      <4>1. -1 \in -LongMax - 1 .. LongMax
        BY LimitsAssumption
      <4> QED BY <4>1, BytesAre
    <3> QED BY <2>1, <2>5, <3>1, EncodeCases
  <2>6. CASE r.wire = "*"
    <3> DEFINE head == <<"*">> \o Decimal(Len(r.elements)) \o EOL
               n == Len(r.elements)
               flat == FlattenSeq(Elements(r))
    <3>1. n \in Nat /\ DOMAIN r.elements = 1 .. n
      BY <2>6, ReplyKinds, LimitsAssumption
    <3>2. head \in Texts
      BY <2>1, <3>1, BytesAre
    <3>3. \A i \in 1 .. n : Encode(r.elements[i]) \in Texts
      BY <1>1, <2>6, <3>1
    <3>4. Elements(r) \in Seq(Texts)
      <4>1. Elements(r) = [i \in 1 .. n |-> Encode(r.elements[i])]
        BY <3>1 DEF Elements
      <4> HIDE DEF n
      <4> QED BY <3>1, <3>3, <4>1
    <3>5. flat \in Texts
      BY <3>4, FlattenText DEF Texts
    <3>6. Encode(r) = head \o flat
      BY <2>6, EncodeCases
    <3> HIDE DEF head, flat
    <3> QED BY <3>2, <3>5, <3>6, Concatenates DEF Texts
  <2> QED BY <2>2, <2>3, <2>4, <2>5, <2>6, ReplyKinds
<1>2. Nested(Depth) \subseteq P
  <2>1. \A r \in Nested(Depth) :
          (r.wire = "*" => \A i \in DOMAIN r.elements : r.elements[i] \in P) => r \in P
    BY <1>1
  <2> HIDE DEF P
  <2> QED BY <2>1, ReplyInduction
<1> QED BY <1>2

\* The texts of the elements of an array.
LEMMA ElementsAre ==
  ASSUME NEW r \in Nested(Depth), r.wire = "*"
  PROVE  /\ Elements(r) \in Seq(Seq(Bytes)) /\ Len(Elements(r)) = Len(r.elements)
         /\ \A i \in 1 .. Len(r.elements) :
              r.elements[i] \in Nested(Depth) /\ Elements(r)[i] = Encode(r.elements[i])
<1> DEFINE n == Len(r.elements)
<1>1. /\ n \in Nat /\ DOMAIN r.elements = 1 .. n
      /\ \A i \in 1 .. n : r.elements[i] \in Nested(Depth)
  BY ReplyKinds, LimitsAssumption
<1>2. Elements(r) = [i \in 1 .. n |-> Encode(r.elements[i])]
  BY <1>1 DEF Elements
<1>3. \A i \in 1 .. n : Encode(r.elements[i]) \in Seq(Bytes)
  BY <1>1, EncodeText DEF Texts
<1> HIDE DEF n
<1>4. Elements(r) \in Seq(Seq(Bytes)) /\ Len(Elements(r)) = n
  BY <1>1, <1>2, <1>3
<1> QED BY <1>1, <1>2, <1>4 DEF n

\* boost::lexical_cast makes of a printed number the number.
LEMMA PrintedConverts ==
  ASSUME NEW n \in -LongMax - 1 .. LongMax
  PROVE  ExtractInt(Printed(n)) = [type |-> "int", value |-> n]
<1> DEFINE m == IF n < 0 THEN -n ELSE n
           s == Decimal(m)
           text == Printed(n)
<1>1. m \in Nat
  BY LimitsAssumption
<1>2. s \in Seq(DigitBytes) /\ s # <<>>
  BY <1>1, DecimalSpells DEF Spells
<1>3. text = IF n < 0 THEN <<"-">> \o s ELSE s
  BY DEF Printed
<1>4. Strtol(text) = [errno |-> FALSE, value |-> n]
  BY StrtolOfPrinted
<1> HIDE DEF m, s, text
<1>5. Range(s) \subseteq Range(Digits)
  BY <1>2 DEF Range, DigitBytes
<1>6. s[1] \in DigitBytes
  BY <1>2
<1>7. (IF text # <<>> /\ text[1] \in {"-", "+"} THEN Tail(text) ELSE text) = s
  <2>1. CASE n < 0
    <3>1. text = <<"-">> \o s
      BY <1>3, <2>1
    <3>2. <<"-">> \o s # <<>> /\ (<<"-">> \o s)[1] = "-" /\ Tail(<<"-">> \o s) = s
      BY <1>2
    <3> QED BY <3>1, <3>2
  <2>2. CASE ~ (n < 0)
    BY <1>3, <1>6, <2>2, DigitsAre
  <2> QED BY <2>1, <2>2
<1>8. Converts(text)
  <2> DEFINE digits == IF text # <<>> /\ text[1] \in {"-", "+"} THEN Tail(text) ELSE text
  <2>1. Converts(text) = (/\ digits # <<>> /\ Range(digits) \subseteq Range(Digits)
                          /\ ~Strtol(text).errno)
    BY DEF Converts
  <2>2. digits = s
    BY <1>7
  <2> HIDE DEF digits
  <2>3. ~Strtol(text).errno
    BY <1>4
  <2> QED BY <1>2, <1>5, <2>1, <2>2, <2>3
<1> QED BY <1>4, <1>8 DEF ExtractInt, text

-----------------------------------------------------------------------------
(* What is found of a reply that is held, and what is extracted.            *)

\* What is meant by each kind of reply.
LEMMA MeaningCases ==
  ASSUME NEW r \in Nested(Depth)
  PROVE  /\ r.wire \in {"+", "$"} => Meaning(r) = [type |-> "string", str |-> r.str]
         /\ r.wire = "-" => Meaning(r) = [type |-> "error", str |-> r.str]
         /\ r.wire = ":" => Meaning(r) = [type |-> "int", value |-> r.value]
         /\ r.wire \in {"$-1", "*-1"} => Meaning(r) = [type |-> "nil"]
         /\ r.wire = "*" =>
              Meaning(r) = [type |-> "array",
                            elements |-> [i \in 1 .. Len(r.elements) |-> Meaning(r.elements[i])]]
<1> DEFINE meaning == [e \in Nested(Depth) |-> Meaning(e)]
<1>1. Meaning(r) = Meant(r, meaning)
  BY EncodeEquation
<1>2. r.wire = "*" =>
        [i \in DOMAIN r.elements |-> meaning[r.elements[i]]]
          = [i \in 1 .. Len(r.elements) |-> Meaning(r.elements[i])]
  <2>1. r.wire = "*" => /\ DOMAIN r.elements = 1 .. Len(r.elements)
                        /\ \A i \in DOMAIN r.elements : r.elements[i] \in Nested(Depth)
    BY ReplyKinds
  <2> QED BY <2>1
<1> HIDE DEF meaning
<1>3. CASE r.wire \in {"+", "$"}
  BY <1>1, <1>3 DEF Meant
<1>4. CASE r.wire = "-"
  BY <1>1, <1>4 DEF Meant
<1>5. CASE r.wire = ":"
  BY <1>1, <1>5 DEF Meant
<1>6. CASE r.wire \in {"$-1", "*-1"}
  BY <1>1, <1>6 DEF Meant
<1>7. CASE r.wire = "*"
  BY <1>1, <1>2, <1>7 DEF Meant
<1> QED BY <1>3, <1>4, <1>5, <1>6, <1>7

\* What is extracted from a marker that is no array.
LEMMA ScalarExtract ==
  ASSUME NEW bytes, Len(bytes) \in Nat, NEW m \in Scalars(Len(bytes))
  PROVE  /\ m.type \in {"string", "error"} =>
              Extract(bytes, m) = [type |-> m.type, str |-> Text(bytes, m)]
         /\ m.type = "int" => Extract(bytes, m) = ExtractInt(Text(bytes, m))
         /\ m.type = "nil" => Extract(bytes, m) = [type |-> "nil"]
<1>1. m \in Marked(Len(bytes))
  <2> DEFINE size == Len(bytes)
  <2>1. PICK f : MarkerLevels(f, size, size) /\ Marked(size) = f[size]
    BY MarkerLevelsExist
  <2>2. size \in Nat /\ 0 \in 0 .. size /\ size \in 0 .. size /\ 0 <= size
    OBVIOUS
  <2>3. f[0] \subseteq f[size] /\ f[0] = Scalars(size) \cup ArraysOf({<<>>})
    BY <2>1, <2>2, MarkerLevelsRise
  <2> QED BY <2>1, <2>3
<1>2. Extract(bytes, m) = Visit(bytes, m, [e \in Marked(Len(bytes)) |-> Extract(bytes, e)])
  BY <1>1, ExtractEquation
<1> QED BY <1>2 DEF Visit

\* the marker m tells what was meant by r
Tells(bytes, m, r) ==
  /\ Extract(bytes, m) = Meaning(r)
  /\ m.type = Meaning(r).type
  /\ m.type # "array" => TextsOf(Meaning(r)) = {Text(bytes, m)}

\* keep_result finds r at the offset `at', no more and no less of the bytes
Found(bytes, at, r) ==
  LET verdict == Parsed(bytes, at) IN
  /\ verdict = Positive("keep_result", Len(Encode(r)), verdict.result)
  /\ Tells(bytes, verdict.result, r)

\* A line is found.
LEMMA LineFound ==
  ASSUME NEW B, NEW bytes \in Seq(B), NEW at \in 0 .. Len(bytes),
         NEW r \in Nested(Depth), r.wire \in {"+", "-", ":"}, Held(bytes, at, Encode(r))
  PROVE  Found(bytes, at, r) /\ Parsed(bytes, at).result \in Scalars(Len(bytes))
<1> DEFINE str == IF r.wire = ":" THEN Printed(r.value) ELSE r.str
           type == CASE r.wire = "+" -> "string" [] r.wire = "-" -> "error" [] r.wire = ":" -> "int"
           c == r.wire
           m == [type |-> type, from |-> at + 1, to |-> at + 1 + Len(str)]
<1>1. Encode(r) = <<c>> \o str \o EOL
  BY EncodeCases
<1>2. /\ str \in Seq(Bytes)
      /\ \A i \in 1 .. Len(str) - 1 : ~ (str[i] = CR /\ str[i + 1] = LF)
  <2>1. CASE r.wire = ":"
    <3>1. r.value \in -LongMax - 1 .. LongMax
      BY <2>1, ReplyKinds
    <3>2. Printed(r.value) \in Seq(DigitBytes \cup {"-"})
      BY <3>1, StrtolOfPrinted
    <3>3. Printed(r.value) \in Seq(Bytes)
      BY <3>1, BytesAre DEF Texts
    <3>4. \A x \in DigitBytes \cup {"-"} : x # CR
      BY DigitsAre DEF CR
    <3>5. str = Printed(r.value)
      BY <2>1
    <3> HIDE DEF str
    <3>6. ASSUME NEW i \in 1 .. Len(str) - 1 PROVE str[i] # CR
      <4>1. i \in 1 .. Len(str) /\ str \in Seq(DigitBytes \cup {"-"})
        BY <3>2, <3>5
      <4> QED BY <3>4, <4>1
    <3> QED BY <3>3, <3>5, <3>6
  <2>2. CASE r.wire # ":"
    <3>1. r.str \in Lines /\ str = r.str
      BY <2>2, ReplyKinds
    <3> HIDE DEF str
    <3> QED BY <3>1 DEF Lines, Texts
  <2> QED BY <2>1, <2>2
<1> HIDE DEF str, c
<1>3. /\ Len(Encode(r)) = Len(str) + 3 /\ bytes[at + 1] = c
      /\ at + Len(str) + 3 <= Len(bytes)
      /\ Held(bytes, at + 1, str) /\ Held(bytes, at + 1 + Len(str), EOL)
  <2>1. c \in Bytes /\ CR \in Bytes /\ LF \in Bytes
    BY BytesAre DEF c
  <2>2. Len(bytes) \in Nat /\ at \in Nat
    OBVIOUS
  <2> QED BY <1>1, <1>2, <2>1, <2>2, LineParts
<1>4. at # Len(bytes) /\ at \in Nat /\ Len(str) \in Nat /\ Len(bytes) \in Nat
  BY <1>2, <1>3
<1>5. LineParser(type, bytes, at, "keep_result") = Positive("keep_result", Len(Encode(r)), m)
  <2> HIDE DEF type
  <2> QED BY <1>2, <1>3, <1>4, LineHeld, SMTT(40)
<1>6. Parsed(bytes, at) = LineParser(type, bytes, at, "keep_result")
  <2>1. Parsed(bytes, at) = ParseAt(bytes, "keep_result", at, RawParse(bytes, "keep_result"))
    BY RawParseEquation DEF Parsed
  <2> QED BY <1>3, <1>4, <2>1 DEF ParseAt, c
<1> HIDE DEF m
<1>7. Parsed(bytes, at) = Positive("keep_result", Len(Encode(r)), m) /\ Parsed(bytes, at).result = m
  BY <1>5, <1>6 DEF Positive
<1>8. m \in Scalars(Len(bytes)) /\ m.type = type
  <2>1. at + 1 \in 0 .. Len(bytes) /\ at + 1 + Len(str) \in 0 .. Len(bytes)
    BY <1>3, <1>4
  <2>2. type \in {"string", "error", "int", "nil"}
    OBVIOUS
  <2> HIDE DEF type
  <2> QED BY <2>1, <2>2 DEF Scalars, m
<1>9. Text(bytes, m) = str
  <2>1. m.from + 1 = (at + 1) + 1 /\ m.to = (at + 1) + Len(str)
    BY DEF m
  <2> QED BY <1>2, <1>3, <1>4, <2>1, HeldCopied DEF Text
<1>10. Tells(bytes, m, r)
  <2>1. CASE r.wire = ":"
    <3>1. r.value \in -LongMax - 1 .. LongMax /\ Meaning(r) = [type |-> "int", value |-> r.value]
      BY <2>1, ReplyKinds, MeaningCases
    <3>2. str = Printed(r.value) /\ IntText(r.value) = Printed(r.value) /\ m.type = "int"
      BY <1>8, <2>1, <3>1, BytesAre DEF str
    <3>3. Extract(bytes, m) = ExtractInt(Text(bytes, m))
      BY <1>4, <1>8, <3>2, ScalarExtract
    <3>4. Extract(bytes, m) = [type |-> "int", value |-> r.value]
      BY <1>9, <3>1, <3>2, <3>3, PrintedConverts
    <3>5. TextsOf(Meaning(r)) = {IntText(r.value)}
      BY <3>1 DEF TextsOf
    <3> QED BY <1>9, <3>1, <3>2, <3>4, <3>5 DEF Tells
  <2>2. CASE r.wire # ":"
    <3>1. Meaning(r) = [type |-> type, str |-> r.str] /\ str = r.str /\ m.type = type
      BY <1>8, <2>2, MeaningCases DEF str
    <3>2. type \in {"string", "error"}
      BY <2>2
    <3> HIDE DEF type
    <3>3. Extract(bytes, m) = [type |-> m.type, str |-> Text(bytes, m)]
      BY <1>4, <1>8, <3>1, <3>2, ScalarExtract
    <3>4. TextsOf(Meaning(r)) = {r.str}
      BY <3>1, <3>2 DEF TextsOf
    <3> QED BY <1>9, <3>1, <3>3, <3>4 DEF Tells
  <2> QED BY <2>1, <2>2
<1> QED BY <1>7, <1>8, <1>10 DEF Found

\* Nil is found.
LEMMA NilFound ==
  ASSUME NEW B, NEW bytes \in Seq(B), NEW at \in 0 .. Len(bytes),
         NEW r \in Nested(Depth), r.wire \in {"$-1", "*-1"}, Held(bytes, at, Encode(r))
  PROVE  Found(bytes, at, r) /\ Parsed(bytes, at).result \in Scalars(Len(bytes))
<1> DEFINE c == IF r.wire = "$-1" THEN "$" ELSE "*"
           str == Printed(-1)
           m == [type |-> "nil", from |-> at + 1, to |-> at + 3]
           parse == RawParse(bytes, "keep_result")
<1>1. Encode(r) = <<c>> \o str \o EOL
  BY EncodeCases
<1>2. str \in Seq(Bytes) /\ Len(str) = 2 /\ IntText(-1) = str
  <2>1. -1 \in -LongMax - 1 .. LongMax
    BY LimitsAssumption
  <2> QED BY <2>1, BytesAre, PrintedNil DEF Texts
<1> HIDE DEF str, c, parse
<1>3. /\ Len(Encode(r)) = 5 /\ bytes[at + 1] = c /\ at + 5 <= Len(bytes)
      /\ Held(bytes, at + 1, str) /\ Held(bytes, at + 3, EOL)
  <2>1. c \in Bytes /\ CR \in Bytes /\ LF \in Bytes
    BY BytesAre DEF c
  <2>2. Len(bytes) \in Nat /\ at \in Nat
    OBVIOUS
  <2>3. /\ Len(Encode(r)) = Len(str) + 3 /\ bytes[at + 1] = c
        /\ at + Len(str) + 3 <= Len(bytes)
        /\ Held(bytes, at + 1, str) /\ Held(bytes, at + 1 + Len(str), EOL)
    <3>1. str \in Seq(Bytes)
      BY <1>2
    <3> QED BY <1>1, <2>1, <2>2, <3>1, LineParts
  <2>4. at + 2 + 3 = at + 5 /\ at + 1 + 2 = at + 3
    OBVIOUS
  <2> QED BY <1>2, <2>3, <2>4
<1>4. at # Len(bytes) /\ at \in Nat /\ Len(bytes) \in Nat
  BY <1>3
<1>5. CountParser(bytes, at, "keep_result") = Positive("keep_result", 5, m)
  BY <1>3, <1>4, NilHeld DEF str
<1>6. Parsed(bytes, at) = Positive("keep_result", 5, m)
  <2> HIDE DEF m
  <2>1. Parsed(bytes, at) = ParseAt(bytes, "keep_result", at, parse)
    BY RawParseEquation DEF Parsed, parse
  <2>2. Positive("keep_result", 5, m).kind # "count"
    BY DEF Positive
  <2>3. CASE r.wire = "$-1"
    <3>1. Parsed(bytes, at) = BulkStringParser(bytes, at, "keep_result")
      BY <1>3, <1>4, <2>1, <2>3 DEF ParseAt, c
    <3> QED BY <1>5, <2>2, <3>1 DEF BulkStringParser, MarkBulkString
  <2>4. CASE r.wire = "*-1"
    <3>1. Parsed(bytes, at) = ArrayParser(bytes, at, "keep_result", parse)
      BY <1>3, <1>4, <2>1, <2>4 DEF ParseAt, c
    <3> QED BY <1>5, <2>2, <3>1 DEF ArrayParser, MarkArray
  <2> QED BY <2>3, <2>4
<1> HIDE DEF m
<1>7. Parsed(bytes, at).result = m
  BY <1>6 DEF Positive
<1>8. m \in Scalars(Len(bytes)) /\ m.type = "nil"
  <2>1. at + 1 \in 0 .. Len(bytes) /\ at + 3 \in 0 .. Len(bytes)
    BY <1>3, <1>4
  <2> QED BY <2>1 DEF Scalars, m
<1>9. Text(bytes, m) = str
  <2>1. m.from + 1 = (at + 1) + 1 /\ m.to = (at + 1) + 2 /\ at + 1 \in Nat
    BY DEF m
  <2>2. SubSeq(bytes, (at + 1) + 1, (at + 1) + Len(str)) = str
    BY <1>2, <1>3, <2>1, HeldCopied
  <2> QED BY <1>2, <2>1, <2>2 DEF Text
<1>10. Meaning(r) = [type |-> "nil"] /\ Extract(bytes, m) = [type |-> "nil"]
  BY <1>4, <1>8, MeaningCases, ScalarExtract
<1>11. TextsOf(Meaning(r)) = {IntText(-1)}
  BY <1>10 DEF TextsOf
<1>12. Tells(bytes, m, r)
  BY <1>2, <1>8, <1>9, <1>10, <1>11 DEF Tells
<1> QED BY <1>3, <1>6, <1>7, <1>8, <1>12 DEF Found

\* A bulk string is found, with whatever is in it.
LEMMA BulkStringFound ==
  ASSUME NEW B, NEW bytes \in Seq(B), NEW at \in 0 .. Len(bytes),
         NEW r \in Nested(Depth), r.wire = "$", Held(bytes, at, Encode(r))
  PROVE  Found(bytes, at, r) /\ Parsed(bytes, at).result \in Scalars(Len(bytes))
<1> DEFINE str == r.str
           n == Len(r.str)
           digits == Decimal(n)
           begun == <<"$">> \o digits \o EOL
           head == Len(digits) + 3
           m == StringMarker(at + head, at + head + n)
<1>1. str \in Seq(Bytes) /\ n \in 0 .. LongMax /\ n \in Nat /\ n = Len(str)
  BY ReplyKinds, LimitsAssumption DEF Texts
<1>2. digits \in Seq(Bytes) /\ Len(digits) \in Nat /\ EOL \in Seq(Bytes) /\ Len(EOL) = 2
  <2> HIDE DEF n
  <2>1. digits \in Seq(Bytes)
    BY <1>1, BytesAre DEF Texts
  <2>2. EOL \in Seq(Bytes) /\ Len(EOL) = 2
    BY BytesAre DEF Texts
  <2> HIDE DEF digits
  <2> QED BY <2>1, <2>2
<1>3. Encode(r) = begun \o str \o EOL
  BY EncodeCases
<1>4. /\ begun \in Seq(Bytes) /\ Len(begun) = head /\ head \in Nat
      /\ Held(bytes, at, begun) =>
           /\ bytes[at + 1] = "$" /\ Held(bytes, at + 1, digits)
           /\ Held(bytes, at + 1 + Len(digits), EOL)
  <2>1. "$" \in Bytes /\ CR \in Bytes /\ LF \in Bytes
    BY BytesAre
  <2>2. Len(bytes) \in Nat /\ at \in Nat
    OBVIOUS
  <2> HIDE DEF digits, n
  <2> QED BY <1>2, <2>1, <2>2, LineParts
<1> HIDE DEF str, n, digits, begun, head
<1>5. begun \o str \in Seq(Bytes) /\ Len(begun \o str) = head + n
  BY <1>1, <1>4, Concatenates
<1>6. Len(Encode(r)) = head + n + 2
  <2> DEFINE e == EOL
             a == begun \o str
  <2>1. e \in Seq(Bytes) /\ Len(e) = 2 /\ a \in Seq(Bytes) /\ Len(a) = head + n
    BY <1>2, <1>5
  <2> HIDE DEF e, a
  <2>2. Len(a \o e) = Len(a) + Len(e)
    BY <2>1, Concatenates
  <2> QED BY <1>3, <2>1, <2>2 DEF e, a
<1>7. /\ Held(bytes, at, begun) /\ Held(bytes, at + head, str)
      /\ Held(bytes, at + head + n, EOL)
  <2>1. Len(bytes) \in Nat /\ at \in Nat
    OBVIOUS
  <2>2. Held(bytes, at, begun \o str) /\ Held(bytes, at + Len(begun \o str), EOL)
    BY <1>2, <1>3, <1>5, <2>1, HeldParts
  <2>3. Held(bytes, at, begun) /\ Held(bytes, at + Len(begun), str)
    BY <1>1, <1>4, <2>1, <2>2, HeldParts
  <2>4. at + (head + n) = at + head + n
    BY <1>1, <1>4
  <2> QED BY <1>4, <1>5, <2>2, <2>3, <2>4
<1>8. at + head + n + 2 <= Len(bytes) /\ at # Len(bytes) /\ at \in Nat /\ Len(bytes) \in Nat
  <2>1. at + (head + n + 2) <= Len(bytes)
    BY <1>6 DEF Held
  <2>2. Len(bytes) \in Nat /\ at \in Nat
    OBVIOUS
  <2> QED BY <1>1, <1>4, <2>1, <2>2
<1>9. BulkStringParser(bytes, at, "keep_result") = Positive("keep_result", head + n + 2, m)
  <2>1. digits = Decimal(n) /\ head = Len(digits) + 3
    BY DEF head, digits
  <2>2. Held(bytes, at + 1, digits) /\ Held(bytes, at + 1 + Len(digits), EOL)
    BY <1>4, <1>7
  <2>3. /\ at \in Nat /\ n \in 0 .. LongMax /\ at + head + n + 2 <= Len(bytes)
        /\ Held(bytes, at + head + n, EOL)
    BY <1>1, <1>7, <1>8
  <2> QED BY <2>1, <2>2, <2>3, BulkStringHeld, SMTT(40)
<1>10. Parsed(bytes, at) = Positive("keep_result", head + n + 2, m)
  <2>1. Parsed(bytes, at) = ParseAt(bytes, "keep_result", at, RawParse(bytes, "keep_result"))
    BY RawParseEquation DEF Parsed
  <2> QED BY <1>4, <1>7, <1>8, <1>9, <2>1 DEF ParseAt
<1>11. m.type = "string" /\ m.from = at + head /\ m.to = at + head + n
  BY DEF StringMarker
<1>12. m \in Scalars(Len(bytes))
  <2>1. at + head \in 0 .. Len(bytes) /\ at + head + n \in 0 .. Len(bytes)
    BY <1>1, <1>4, <1>8
  <2> QED BY <2>1 DEF Scalars, StringMarker
<1> HIDE DEF m
<1>13. Parsed(bytes, at).result = m
  BY <1>10 DEF Positive
<1>14. Text(bytes, m) = str
  <2>1. at + head \in Nat
    BY <1>4, <1>8
  <2>2. SubSeq(bytes, (at + head) + 1, (at + head) + Len(str)) = str
    BY <1>1, <1>7, <2>1, HeldCopied
  <2> QED BY <1>1, <1>11, <2>2 DEF Text
<1>15. Meaning(r) = [type |-> "string", str |-> str]
  BY MeaningCases DEF str
<1>16. Extract(bytes, m) = [type |-> "string", str |-> str]
  BY <1>8, <1>11, <1>12, <1>14, ScalarExtract
<1>17. TextsOf(Meaning(r)) = {str}
  BY <1>15 DEF TextsOf
<1>18. Tells(bytes, m, r)
  BY <1>11, <1>14, <1>15, <1>16, <1>17 DEF Tells
<1> QED BY <1>6, <1>10, <1>12, <1>13, <1>18 DEF Found

\* No reply means that a number could not be converted.
LEMMA MeaningIsNoError ==
  \A r \in Nested(Depth) :
    /\ Meaning(r) # BadLexicalCast
    /\ Meaning(r).type = "array" <=> r.wire = "*"
<1> SUFFICES ASSUME NEW r \in Nested(Depth)
             PROVE  /\ Meaning(r).type # "bad_lexical_cast"
                    /\ Meaning(r).type = "array" <=> r.wire = "*"
  BY DEF BadLexicalCast
<1> QED BY ReplyKinds, MeaningCases

\* What is extracted from the marker of an array whose elements tell what was meant.
LEMMA ArrayTells ==
  ASSUME NEW B, NEW bytes \in Seq(B), NEW at \in 0 .. Len(bytes) - 1,
         NEW r \in Nested(Depth), r.wire = "*",
         NEW f, MarkerLevels(f, Len(bytes), Len(bytes)), Marked(Len(bytes)) = f[Len(bytes)],
         NEW results \in Seq(f[Len(bytes) - at - 1]), Len(results) = Len(r.elements),
         \A i \in 1 .. Len(r.elements) : Extract(bytes, results[i]) = Meaning(r.elements[i])
  PROVE  ArrayMarker(results) \in f[Len(bytes) - at] /\ Tells(bytes, ArrayMarker(results), r)
<1> DEFINE size == Len(bytes)
           n == Len(r.elements)
           m == ArrayMarker(results)
           extract == [e \in Marked(size) |-> Extract(bytes, e)]
           elements == [i \in DOMAIN results |-> extract[results[i]]]
           meanings == [i \in 1 .. n |-> Meaning(r.elements[i])]
<1>1. size \in Nat /\ size - at - 1 \in 0 .. size - 1 /\ (size - at - 1) + 1 = size - at
  OBVIOUS
<1>2. /\ f[size - at] = Scalars(size) \cup ArraysOf(Seq(f[size - at - 1]))
      /\ f[size - at] \subseteq f[size] /\ f[size - at - 1] \subseteq f[size]
  <2>1. /\ size - at \in 0 .. size /\ size - at <= size /\ size - at - 1 \in 0 .. size
        /\ size - at - 1 <= size /\ size \in 0 .. size
    BY <1>1
  <2> QED BY <1>1, <2>1, MarkerLevelsRise
<1>3. m \in f[size - at]
  BY <1>2, MarkerCases
<1>4. Extract(bytes, m) = Visit(bytes, m, extract)
  <2>1. m \in Marked(size)
    BY <1>2, <1>3
  <2> QED BY <1>1, <2>1, ExtractEquation
<1>5. elements = meanings
  <2>1. n \in Nat /\ DOMAIN results = 1 .. n
    <3>1. n \in Nat
      BY ReplyKinds, LimitsAssumption
    <3> HIDE DEF n
    <3> QED BY <3>1 DEF n
  <2>2. ASSUME NEW i \in 1 .. n PROVE extract[results[i]] = Meaning(r.elements[i])
    <3>1. results[i] \in f[size - at - 1]
      BY <2>1
    <3>2. results[i] \in Marked(size)
      BY <1>2, <3>1
    <3> QED BY <3>2
  <2> HIDE DEF extract, n
  <2> QED BY <2>1, <2>2
<1>6. BadLexicalCast \notin Range(elements)
  <2>1. \A i \in 1 .. n : meanings[i] # BadLexicalCast
    BY ReplyKinds, MeaningIsNoError
  <2>2. DOMAIN meanings = 1 .. n
    OBVIOUS
  <2> HIDE DEF meanings, elements
  <2> QED BY <1>5, <2>1, <2>2 DEF Range
<1>7. m.type = "array" /\ m.elements = results
  BY DEF ArrayMarker
<1> HIDE DEF m
<1>8. Visit(bytes, m, extract) = [type |-> "array", elements |-> elements]
  <2> DEFINE visits == [i \in DOMAIN m.elements |-> extract[m.elements[i]]]
  <2>1. visits = elements
    BY <1>7
  <2>2. Visit(bytes, m, extract)
          = IF BadLexicalCast \in Range(visits) THEN BadLexicalCast
            ELSE [type |-> "array", elements |-> visits]
    BY <1>7 DEF Visit
  <2> HIDE DEF visits, elements, extract
  <2> QED BY <1>6, <2>1, <2>2
<1>9. Meaning(r) = [type |-> "array", elements |-> meanings]
  BY MeaningCases
<1> HIDE DEF meanings, elements, extract
<1>10. Tells(bytes, m, r)
  BY <1>4, <1>5, <1>7, <1>8, <1>9 DEF Tells
<1> QED BY <1>3, <1>10 DEF m

\* the reply is found at the offset `at', and its marker is nested no deeper than
\* there are bytes from there on
FoundOn(f, bytes, at, r) ==
  Found(bytes, at, r) /\ Parsed(bytes, at).result \in f[Len(bytes) - at]

\* Every reply held behind `at' is found there.
FoundBehind(f, bytes, at) ==
  \A later \in at + 1 .. Len(bytes) : \A e \in Nested(Depth) :
    Held(bytes, later, Encode(e)) => FoundOn(f, bytes, later, e)

\* An array is found, when the replies behind its head are.
LEMMA ArrayFound ==
  ASSUME NEW B, NEW bytes \in Seq(B), NEW at \in 0 .. Len(bytes),
         NEW r \in Nested(Depth), r.wire = "*", Held(bytes, at, Encode(r)),
         NEW f, MarkerLevels(f, Len(bytes), Len(bytes)), Marked(Len(bytes)) = f[Len(bytes)],
         FoundBehind(f, bytes, at)
  PROVE  FoundOn(f, bytes, at, r)
<1> DEFINE size == Len(bytes)
           n == Len(r.elements)
           digits == Decimal(n)
           begun == <<"*">> \o digits \o EOL
           head == Len(digits) + 3
           flat == FlattenSeq(Elements(r))
           parse == RawParse(bytes, "keep_result")
<1>1. /\ n \in 0 .. LongMax /\ n \in Nat /\ n <= ReserveMax /\ size \in Nat /\ at \in Nat
      /\ Len(Elements(r)) = n /\ Elements(r) \in Seq(Seq(Bytes))
      /\ \A i \in 1 .. n : /\ r.elements[i] \in Nested(Depth)
                           /\ Elements(r)[i] = Encode(r.elements[i])
  <2>1. /\ Len(r.elements) \in 0 .. LongMax /\ Len(r.elements) <= ReserveMax
        /\ \A i \in 1 .. n : r.elements[i] \in Nested(Depth)
    BY ReplyKinds
  <2>2. /\ Len(Elements(r)) = n /\ Elements(r) \in Seq(Seq(Bytes))
        /\ \A i \in 1 .. n : Elements(r)[i] = Encode(r.elements[i])
    BY ElementsAre DEF Texts
  <2> QED BY <2>1, <2>2, LimitsAssumption
<1> HIDE DEF n
<1>2. digits \in Seq(Bytes) /\ Len(digits) \in Nat /\ head \in Nat /\ head >= 3
  <2>1. digits \in Seq(Bytes)
    BY <1>1, BytesAre DEF Texts
  <2> HIDE DEF digits
  <2> QED BY <2>1
<1>3. flat \in Seq(Bytes) /\ Len(flat) \in Nat
  <2>1. flat \in Seq(Bytes)
    BY <1>1, FlattenText
  <2> HIDE DEF flat
  <2> QED BY <2>1
<1>4. /\ begun \in Seq(Bytes) /\ Len(begun) = head
      /\ Held(bytes, at, begun) =>
           /\ bytes[at + 1] = "*" /\ at + Len(digits) + 3 <= size
           /\ Held(bytes, at + 1, digits) /\ Held(bytes, at + 1 + Len(digits), EOL)
  <2>1. "*" \in Bytes /\ CR \in Bytes /\ LF \in Bytes
    BY BytesAre
  <2> HIDE DEF digits
  <2> QED BY <1>1, <1>2, <2>1, LineParts
<1>5. Encode(r) = begun \o flat
  BY EncodeCases DEF n
<1> HIDE DEF digits, begun, flat, head
<1>6. Len(Encode(r)) = head + Len(flat)
  BY <1>3, <1>4, <1>5, Concatenates
<1>7. Held(bytes, at, begun) /\ Held(bytes, at + head, flat)
  BY <1>1, <1>3, <1>4, <1>5, HeldParts
<1>8. PICK steps :
        /\ steps[0] = 0 /\ steps[n] = Len(flat) /\ \A i \in 0 .. n : steps[i] \in Nat
        /\ \A i \in 0 .. n - 1 : /\ steps[i + 1] = steps[i] + Len(Elements(r)[i + 1])
                                 /\ Held(bytes, at + head + steps[i], Elements(r)[i + 1])
  <2> DEFINE texts == Elements(r)
             where == at + head
  <2>1. /\ texts \in Seq(Seq(Bytes)) /\ Len(texts) = n /\ flat = FlattenSeq(texts)
        /\ where \in Nat /\ Held(bytes, where, flat) /\ Len(bytes) \in Nat
    BY <1>1, <1>2, <1>7 DEF flat
  <2> HIDE DEF texts, where
  <2>2. \E ends :
          /\ ends[0] = 0 /\ ends[Len(texts)] = Len(FlattenSeq(texts))
          /\ \A i \in 0 .. Len(texts) : ends[i] \in Nat
          /\ \A i \in 0 .. Len(texts) - 1 :
               ends[i + 1] = ends[i] + Len(texts[i + 1]) /\ Held(bytes, where + ends[i], texts[i + 1])
    BY <2>1, TextsHeld
  <2> QED BY <2>1, <2>2 DEF texts, where
<1> DEFINE ends == [i \in 0 .. n |-> head + steps[i]]
           results == [i \in 1 .. n |-> Parsed(bytes, at + ends[i - 1]).result]
<1>9. ends[0] = head /\ ends[n] = Len(Encode(r)) /\ \A i \in 0 .. n : ends[i] \in Nat
  <2>1. 0 \in 0 .. n /\ n \in 0 .. n
    BY <1>1
  <2>2. \A i \in 0 .. n : ends[i] = head + steps[i] /\ steps[i] \in Nat
    BY <1>8
  <2> HIDE DEF ends
  <2>3. ends[0] = head + 0 /\ ends[n] = head + Len(flat)
    BY <1>8, <2>1, <2>2
  <2> QED BY <1>2, <1>6, <2>2, <2>3
<1>10. ASSUME NEW i \in 0 .. n - 1
       PROVE  /\ Parsed(bytes, at + ends[i])
                   = Positive("keep_result", ends[i + 1] - ends[i], Parsed(bytes, at + ends[i]).result)
              /\ Parsed(bytes, at + ends[i]).result \in f[size - at - 1]
              /\ Extract(bytes, Parsed(bytes, at + ends[i]).result) = Meaning(r.elements[i + 1])
  <2> DEFINE e == r.elements[i + 1]
             where == at + ends[i]
  <2>1. i \in 0 .. n /\ i + 1 \in 0 .. n /\ i + 1 \in 1 .. n
    BY <1>1
  <2>2. e \in Nested(Depth) /\ Elements(r)[i + 1] = Encode(e)
    BY <1>1, <2>1
  <2>3. /\ ends[i] = head + steps[i] /\ ends[i + 1] = head + steps[i + 1]
        /\ steps[i] \in Nat /\ steps[i + 1] \in Nat
    BY <1>8, <2>1
  <2> HIDE DEF e, ends
  <2>4. where = at + head + steps[i]
    BY <1>1, <1>2, <2>3, SMTT(40)
  <2>5. Held(bytes, where, Encode(e)) /\ steps[i + 1] = steps[i] + Len(Encode(e))
    BY <1>8, <2>2, <2>4
  <2>6. where \in at + 1 .. size /\ where \in Nat
    <3>1. Len(Encode(e)) = steps[i + 1] - steps[i] /\ Len(Encode(e)) \in Nat
      <4>1. Len(Encode(e)) \in Nat
        BY <2>2, EncodeText DEF Texts
      <4> QED BY <2>3, <2>5, <4>1
    <3>2. where + Len(Encode(e)) <= size
      BY <2>5 DEF Held
    <3> DEFINE len == Len(Encode(e))
               step == steps[i]
    <3>3. /\ len \in Nat /\ where + len <= size /\ step \in Nat /\ where = at + head + step
          /\ at \in Nat /\ head \in Nat /\ head >= 3 /\ size \in Nat
      BY <1>1, <1>2, <2>3, <2>4, <3>1, <3>2
    <3> HIDE DEF len, step, size, where
    <3> QED BY <3>3
  <2>7. FoundOn(f, bytes, where, e)
    BY <2>2, <2>5, <2>6 DEF FoundBehind
  <2>8. Len(Encode(e)) = ends[i + 1] - ends[i]
    <3>1. Len(Encode(e)) \in Nat
      BY <2>2, EncodeText DEF Texts
    <3> QED BY <1>2, <2>3, <2>5, <3>1, SMTT(40)
  <2>9. f[size - where] \subseteq f[size - at - 1]
    <3> HIDE DEF where
    <3> DEFINE a == size - where
               b == size - at - 1
    <3>1. a \in 0 .. size /\ b \in 0 .. size /\ a <= b
      BY <1>1, <2>6
    <3>2. \A d, g \in 0 .. size : d <= g => f[d] \subseteq f[g]
      BY <1>1, MarkerLevelsRise
    <3> HIDE DEF a, b
    <3>3. f[a] \subseteq f[b]
      BY <3>1, <3>2
    <3> QED BY <3>3 DEF a, b
  <2> HIDE DEF where
  <2> QED BY <2>7, <2>8, <2>9 DEF FoundOn, Found, Tells, e, where
<1> HIDE DEF ends, parse
<1>11. /\ results \in Seq(f[size - at - 1]) /\ Len(results) = n
       /\ \A i \in 0 .. n - 1 : results[i + 1] = Parsed(bytes, at + ends[i]).result
  <2>1. ASSUME NEW i \in 1 .. n PROVE Parsed(bytes, at + ends[i - 1]).result \in f[size - at - 1]
    <3>1. i - 1 \in 0 .. n - 1
      BY <1>1
    <3> QED BY <1>10, <3>1
  <2>2. results \in Seq(f[size - at - 1]) /\ Len(results) = n
    <3> DEFINE L == f[size - at - 1]
    <3>1. \A i \in 1 .. n : results[i] \in L
      BY <2>1
    <3>2. results = [i \in 1 .. n |-> results[i]]
      OBVIOUS
    <3> HIDE DEF results, L
    <3>3. n \in Nat
      BY <1>1
    <3>4. results \in Seq(L) /\ Len(results) = n
      BY <3>1, <3>2, <3>3
    <3> QED BY <3>4 DEF L
  <2>3. ASSUME NEW i \in 0 .. n - 1 PROVE results[i + 1] = Parsed(bytes, at + ends[i]).result
    <3>1. i + 1 \in 1 .. n /\ (i + 1) - 1 = i
      BY <1>1
    <3> QED BY <3>1
  <2> QED BY <2>2, <2>3
<1>12. \A i \in 1 .. n : Extract(bytes, results[i]) = Meaning(r.elements[i])
  <2>1. ASSUME NEW i \in 1 .. n PROVE Extract(bytes, results[i]) = Meaning(r.elements[i])
    <3>1. i - 1 \in 0 .. n - 1 /\ (i - 1) + 1 = i
      BY <1>1
    <3>2. results[i] = Parsed(bytes, at + ends[i - 1]).result
      OBVIOUS
    <3> HIDE DEF results
    <3> QED BY <1>10, <3>1, <3>2
  <2> QED BY <2>1
<1> HIDE DEF results
<1>13. \A i \in 0 .. n - 1 :
         parse[at + ends[i]] = Positive("keep_result", ends[i + 1] - ends[i], results[i + 1])
  BY <1>10, <1>11 DEF Parsed, parse
<1>14. ArrayParser(bytes, at, "keep_result", parse)
         = Positive("keep_result", ends[n], ArrayMarker(results))
  <2> DEFINE number == [kind |-> "count", value |-> n, consumed |-> head]
             L == f[size - at - 1]
  <2>1. /\ at + Len(Decimal(n)) + 3 <= Len(bytes) /\ Held(bytes, at + 1, Decimal(n))
        /\ Held(bytes, at + 1 + Len(Decimal(n)), EOL) /\ head = Len(Decimal(n)) + 3
    BY <1>4, <1>7 DEF digits, head
  <2>2. CountParser(bytes, at, "keep_result") = number
    BY <1>1, <2>1, CountHeld
  <2>3. results \in Seq(L) /\ Len(results) = n
    BY <1>11
  <2>4. number.kind = "count" /\ number.value = n /\ number.consumed = ends[0]
    BY <1>9
  <2> HIDE DEF L, number
  <2>5. MarkArray(at, "keep_result", number, parse)
          = Positive("keep_result", ends[n], ArrayMarker(results))
    <3>1. n \in 0 .. LongMax /\ n <= ReserveMax
      BY <1>1
    <3>2. ElementsFound(parse, at, ends, results)
      BY <1>9, <1>13, <2>3 DEF ElementsFound
    <3> QED BY <2>3, <2>4, <3>1, <3>2, ArrayHeld
  <2> QED BY <2>2, <2>5 DEF ArrayParser
<1>15. at # size /\ bytes[at + 1] = "*" /\ at \in 0 .. size - 1
  BY <1>1, <1>2, <1>4, <1>7
<1>16. Parsed(bytes, at) = Positive("keep_result", Len(Encode(r)), ArrayMarker(results))
  <2>1. Parsed(bytes, at) = ParseAt(bytes, "keep_result", at, parse)
    BY RawParseEquation DEF Parsed, parse
  <2> QED BY <1>9, <1>14, <1>15, <2>1 DEF ParseAt
<1>17. Parsed(bytes, at).result = ArrayMarker(results)
  BY <1>16 DEF Positive
<1>18. ArrayMarker(results) \in f[size - at] /\ Tells(bytes, ArrayMarker(results), r)
  BY <1>11, <1>12, <1>15, ArrayTells DEF n
<1> QED BY <1>16, <1>17, <1>18 DEF FoundOn, Found

\* Wherever a reply is held, it is found.
LEMMA ReplyFoundOn ==
  ASSUME NEW B, NEW bytes \in Seq(B),
         NEW f, MarkerLevels(f, Len(bytes), Len(bytes)), Marked(Len(bytes)) = f[Len(bytes)]
  PROVE  \A at \in 0 .. Len(bytes) : \A r \in Nested(Depth) :
           Held(bytes, at, Encode(r)) => FoundOn(f, bytes, at, r)
<1> DEFINE size == Len(bytes)
           S == {at \in 0 .. size :
                   \A r \in Nested(Depth) : Held(bytes, at, Encode(r)) => FoundOn(f, bytes, at, r)}
<1>1. size \in Nat
  OBVIOUS
<1>2. ASSUME NEW at \in 0 .. size, \A later \in at + 1 .. size : later \in S
      PROVE  at \in S
  <2>1. ASSUME NEW r \in Nested(Depth), Held(bytes, at, Encode(r))
        PROVE  FoundOn(f, bytes, at, r)
    <3>1. FoundBehind(f, bytes, at)
      BY <1>2 DEF FoundBehind
    <3>2. Scalars(size) \subseteq f[size - at]
      <4> DEFINE d == size - at
      <4>1. d \in 0 .. size /\ 0 \in 0 .. size /\ 0 <= d
        BY <1>1
      <4> HIDE DEF d
      <4>2. f[0] \subseteq f[d] /\ f[0] = Scalars(size) \cup ArraysOf({<<>>})
        BY <1>1, <4>1, MarkerLevelsRise
      <4> QED BY <4>2 DEF d
    <3>3. \/ r.wire \in {"+", "-", ":"} \/ r.wire \in {"$-1", "*-1"}
          \/ r.wire = "$" \/ r.wire = "*"
      BY ReplyKinds
    <3>4. r.wire # "*" => Found(bytes, at, r) /\ Parsed(bytes, at).result \in Scalars(size)
      BY <2>1, <3>3, LineFound, NilFound, BulkStringFound
    <3>5. r.wire = "*" => FoundOn(f, bytes, at, r)
      BY <2>1, <3>1, ArrayFound
    <3> QED BY <3>2, <3>4, <3>5 DEF FoundOn
  <2> QED BY <2>1
<1>3. \A at \in 0 .. size : at \in S
  <2> HIDE DEF S, size
  <2> QED BY <1>1, <1>2, Downwards
<1> QED BY <1>3

\* keep_result finds the reply that the bytes begin with.
LEMMA ReplyFound ==
  ASSUME NEW B, NEW bytes \in Seq(B), NEW r \in Nested(Depth), Held(bytes, 0, Encode(r))
  PROVE  Found(bytes, 0, r)
<1>1. Len(bytes) \in Nat /\ 0 \in 0 .. Len(bytes)
  OBVIOUS
<1>2. PICK f : MarkerLevels(f, Len(bytes), Len(bytes)) /\ Marked(Len(bytes)) = f[Len(bytes)]
  BY <1>1, MarkerLevelsExist
<1>3. FoundOn(f, bytes, 0, r)
  BY <1>1, <1>2, ReplyFoundOn
<1> QED BY <1>3 DEF FoundOn

\* Both policies find the reply that the bytes begin with.
LEMMA ReplyParsed ==
  ASSUME NEW B, NEW bytes \in Seq(B), NEW r \in Nested(Depth), Held(bytes, 0, Encode(r)),
         NEW policy \in Policies
  PROVE  /\ Parse(policy, bytes).kind = "positive"
         /\ Parse(policy, bytes).consumed = Len(Encode(r))
         /\ policy = "keep_result" => Tells(bytes, Parse(policy, bytes).result, r)
<1> DEFINE keep == RawParse(bytes, "keep_result")[0]
           drop == RawParse(bytes, "drop_result")[0]
<1>1. /\ keep = Positive("keep_result", Len(Encode(r)), keep.result)
      /\ Tells(bytes, keep.result, r)
  BY ReplyFound DEF Found, Parsed
<1>2. Agree(keep, drop)
  BY RawParseAgrees
<1> HIDE DEF keep, drop
<1>3. keep.kind = "positive" /\ keep.consumed = Len(Encode(r)) /\ keep # LengthError
  BY <1>1 DEF Positive, LengthError
<1>4. drop.kind = "positive" /\ drop.consumed = Len(Encode(r))
  BY <1>2, <1>3 DEF Agree
<1>5. Parse("keep_result", bytes) = keep /\ Parse("drop_result", bytes) = drop
  BY DEF Parse, keep, drop
<1> QED BY <1>1, <1>3, <1>4, <1>5 DEF Policies

\* As long as the last bytes of a reply are missing, it is waited for.
LEMMA ReplyAwaited ==
  ASSUME NEW bytes \in Texts, NEW r \in Nested(Depth),
         Continues(Encode(r), bytes), Len(bytes) < Len(Encode(r)), NEW policy \in Policies
  PROVE  Parse(policy, bytes).kind = "not_enough_data"
<1> DEFINE long == Encode(r)
           early == RawParse(bytes, policy)[0]
           late == RawParse(long, policy)[0]
<1>1. /\ long \in Seq(Bytes) /\ Len(long) \in Nat
      /\ bytes \in Seq(Bytes) /\ Len(bytes) \in Nat /\ 0 \in 0 .. Len(bytes)
  <2>1. long \in Seq(Bytes)
    BY EncodeText DEF Texts
  <2> HIDE DEF long
  <2> QED BY <2>1 DEF Texts
<1>2. late.kind = "positive" /\ late.consumed = Len(long)
  <2>1. Held(long, 0, Encode(r))
    BY <1>1 DEF Held
  <2> QED BY <1>1, <2>1, ReplyParsed DEF Parse
<1>3. Persists(bytes, 0, early, late)
  BY <1>1, RawParsePersists
<1>4. Within(bytes, 0, policy, early)
  BY <1>1, RawParseWithin
<1> HIDE DEF early, late
<1>5. early.kind = "positive" => early.consumed \in 1 .. Len(bytes) - 0
  BY <1>4, WithinCases DEF Takes
<1>6. ~ (early.kind = "positive" /\ early.consumed = Len(long))
  <2> HIDE DEF long
  <2>1. Len(bytes) < Len(long)
    BY DEF long
  <2> QED BY <1>1, <1>5, <2>1
<1>7. early = NotEnoughData
  BY <1>2, <1>3, <1>6 DEF Persists
<1> QED BY <1>7 DEF NotEnoughData, Parse, early

-----------------------------------------------------------------------------
(* The server and the client.                                               *)

\* the bytes of the replies that the client has not consumed
Encoded(replies) == [i \in DOMAIN replies |-> Encode(replies[i])]

\* What the runs check of the values, without the verdicts.
ValuesOK ==
  /\ meant \in Seq(Replies) /\ count \in 0 .. MaxReplies
  /\ buf \in Texts /\ unsent \in Texts

\* Only bytes of the last reply are unsent: it is begun when all before it are
\* sent.
UnsentOfLast == meant # <<>> => Len(unsent) <= Len(Encode(meant[Len(meant)]))

IInv == ValuesOK /\ ConsumedToTheByte /\ UnsentOfLast

\* The replies are written as texts, one of them more or less.
LEMMA EncodedTexts ==
  ASSUME NEW replies \in Seq(Replies)
  PROVE  /\ Encoded(replies) \in Seq(Seq(Bytes)) /\ Len(Encoded(replies)) = Len(replies)
         /\ \A i \in 1 .. Len(replies) :
              /\ replies[i] \in Nested(Depth) /\ Encode(replies[i]) \in Seq(Bytes)
              /\ Encoded(replies)[i] = Encode(replies[i])
<1> DEFINE n == Len(replies)
<1>1. n \in Nat /\ DOMAIN replies = 1 .. n /\ \A i \in 1 .. n : replies[i] \in Nested(Depth)
  BY RepliesAssumption
<1>2. \A i \in 1 .. n : Encode(replies[i]) \in Seq(Bytes)
  BY <1>1, EncodeText DEF Texts
<1>3. Encoded(replies) = [i \in 1 .. n |-> Encode(replies[i])]
  BY <1>1 DEF Encoded
<1> HIDE DEF n
<1>4. Encoded(replies) \in Seq(Seq(Bytes)) /\ Len(Encoded(replies)) = n
  BY <1>1, <1>2, <1>3
<1> QED BY <1>1, <1>2, <1>3, <1>4 DEF n

\* One reply more is begun.
LEMMA EncodedAppend ==
  ASSUME NEW replies \in Seq(Replies), NEW reply \in Replies
  PROVE  Encoded(Append(replies, reply)) = Append(Encoded(replies), Encode(reply))
<1> DEFINE more == Append(replies, reply)
           n == Len(replies)
           one == Append(Encoded(replies), Encode(reply))
           all == Encoded(more)
<1>1. more \in Seq(Replies) /\ n \in Nat /\ Len(more) = n + 1
  BY AppendProperties
<1>2. more[n + 1] = reply /\ \A i \in 1 .. n : more[i] = replies[i]
  BY AppendProperties
<1>3. Encode(reply) \in Seq(Bytes)
  BY RepliesAssumption, EncodeText DEF Texts
<1>4. /\ one \in Seq(Seq(Bytes)) /\ Len(one) = n + 1 /\ one[n + 1] = Encode(reply)
      /\ \A i \in 1 .. n : one[i] = Encode(replies[i])
  <2> DEFINE texts == Encoded(replies)
             text == Encode(reply)
  <2>1. texts \in Seq(Seq(Bytes)) /\ Len(texts) = n /\ text \in Seq(Bytes)
    BY <1>3, EncodedTexts
  <2>2. \A i \in 1 .. n : texts[i] = Encode(replies[i])
    BY EncodedTexts
  <2> HIDE DEF texts, text
  <2>3. /\ Append(texts, text) \in Seq(Seq(Bytes)) /\ Len(Append(texts, text)) = n + 1
        /\ Append(texts, text)[n + 1] = text
        /\ \A i \in 1 .. n : Append(texts, text)[i] = texts[i]
    BY <2>1, AppendProperties
  <2> QED BY <2>2, <2>3 DEF texts, text
<1>5. all \in Seq(Seq(Bytes)) /\ Len(all) = n + 1
  BY <1>1, EncodedTexts
<1>6. \A i \in 1 .. n + 1 : all[i] = Encode(more[i])
  BY <1>1, EncodedTexts
<1> HIDE DEF more, one, all, n
<1>7. \A i \in 1 .. n + 1 : all[i] = one[i]
  <2>1. ASSUME NEW i \in 1 .. n + 1 PROVE all[i] = one[i]
    <3>1. CASE i = n + 1
      BY <1>1, <1>2, <1>4, <1>6, <3>1
    <3>2. CASE i \in 1 .. n
      BY <1>2, <1>4, <1>6, <3>2
    <3> QED BY <1>1, <3>1, <3>2
  <2> QED BY <2>1
<1>8. all = one
  BY <1>1, <1>4, <1>5, <1>7, SeqEqual
<1> QED BY <1>8 DEF all, one, more

\* The first reply is consumed.
LEMMA EncodedTail ==
  ASSUME NEW replies \in Seq(Replies)
  PROVE  replies # <<>> => Encoded(Tail(replies)) = Tail(Encoded(replies))
<1> SUFFICES ASSUME replies # <<>> PROVE Encoded(Tail(replies)) = Tail(Encoded(replies))
  OBVIOUS
<1> DEFINE rest == Tail(replies)
           n == Len(rest)
           texts == Encoded(replies)
           all == Encoded(rest)
<1>1. rest \in Seq(Replies) /\ n \in Nat /\ Len(replies) = n + 1
  OBVIOUS
<1>2. \A i \in 1 .. n : rest[i] = replies[i + 1]
  OBVIOUS
<1>3. texts \in Seq(Seq(Bytes)) /\ Len(texts) = n + 1 /\ all \in Seq(Seq(Bytes)) /\ Len(all) = n
  BY <1>1, EncodedTexts
<1>4. \A i \in 1 .. n : all[i] = Encode(rest[i])
  BY <1>1, EncodedTexts
<1>5. \A i \in 1 .. n + 1 : texts[i] = Encode(replies[i])
  BY <1>1, EncodedTexts
<1> HIDE DEF rest, texts, all, n
<1>6. /\ Tail(texts) \in Seq(Seq(Bytes)) /\ Len(Tail(texts)) = n
      /\ \A i \in 1 .. n : Tail(texts)[i] = texts[i + 1]
  BY <1>1, <1>3
<1>7. \A i \in 1 .. n : all[i] = Tail(texts)[i]
  <2>1. ASSUME NEW i \in 1 .. n PROVE all[i] = Tail(texts)[i]
    <3>1. i + 1 \in 1 .. n + 1
      BY <1>1
    <3> QED BY <1>2, <1>4, <1>5, <1>6, <3>1
  <2> QED BY <2>1
<1>8. all = Tail(texts)
  BY <1>3, <1>6, <1>7, SeqEqual
<1> QED BY <1>8 DEF all, texts, rest

\* The stream is the first reply with the others behind it, and what the client
\* holds begins it.
LEMMA StreamOfReplies ==
  ASSUME IInv, meant # <<>>
  PROVE  LET first == Encode(meant[1])
             rest == FlattenSeq(Encoded(Tail(meant)))
         IN  /\ meant[1] \in Nested(Depth) /\ first \in Seq(Bytes) /\ rest \in Seq(Bytes)
             /\ buf \o unsent = first \o rest
             /\ Len(buf) + Len(unsent) = Len(FlattenSeq(Encoded(meant)))
             /\ Len(FlattenSeq(Encoded(meant))) = Len(first) + Len(rest)
<1> DEFINE texts == Encoded(meant)
           first == Encode(meant[1])
           rest == FlattenSeq(Encoded(Tail(meant)))
           flat == FlattenSeq(Encoded(meant))
<1>1. /\ meant \in Seq(Replies) /\ Len(meant) \in Nat /\ 1 \in 1 .. Len(meant)
      /\ Tail(meant) \in Seq(Replies) /\ buf \in Seq(Bytes) /\ unsent \in Seq(Bytes)
  BY DEF IInv, ValuesOK, Texts
<1>2. /\ texts \in Seq(Seq(Bytes)) /\ Len(texts) = Len(meant) /\ texts[1] = first
      /\ meant[1] \in Nested(Depth) /\ first \in Seq(Bytes)
  BY <1>1, EncodedTexts
<1>3. texts # <<>>
  <2> HIDE DEF texts
  <2> QED BY <1>1, <1>2
<1>4. Encoded(Tail(meant)) \in Seq(Seq(Bytes)) /\ Encoded(Tail(meant)) = Tail(texts)
  BY <1>1, EncodedTexts, EncodedTail
<1>5. rest \in Seq(Bytes)
  BY <1>4, FlattenText
<1> HIDE DEF texts, first
<1>6. FlattenSeq(texts) = first \o rest
  BY <1>2, <1>3, <1>4, FlattenTail
<1>7. flat = first \o rest
  BY <1>6 DEF texts
<1>8. buf \o unsent = flat
  BY DEF IInv, ConsumedToTheByte, Encoded
<1> HIDE DEF rest, flat
<1>9. Len(buf) + Len(unsent) = Len(flat) /\ Len(flat) = Len(first) + Len(rest)
  BY <1>1, <1>2, <1>5, <1>7, <1>8, Concatenates
<1> QED BY <1>2, <1>5, <1>7, <1>8, <1>9 DEF first, rest, flat

\* The first reply is held when it is complete, and its beginning until then.
LEMMA FirstReply ==
  ASSUME IInv, meant # <<>>
  PROVE  /\ Complete => Len(Encode(meant[1])) <= Len(buf)
         /\ ~ Complete => Len(buf) < Len(Encode(meant[1]))
<1> DEFINE n == Len(meant)
           first == Encode(meant[1])
           last == Encode(meant[n])
           rest == FlattenSeq(Encoded(Tail(meant)))
           flat == FlattenSeq(Encoded(meant))
<1>1. /\ meant \in Seq(Replies) /\ n \in Nat /\ n >= 1 /\ 1 \in 1 .. n /\ n \in 1 .. n
      /\ buf \in Seq(Bytes) /\ unsent \in Seq(Bytes)
      /\ Len(buf) \in Nat /\ Len(unsent) \in Nat /\ (unsent = <<>> <=> Len(unsent) = 0)
  BY DEF IInv, ValuesOK, Texts
<1>2. /\ first \in Seq(Bytes) /\ rest \in Seq(Bytes)
      /\ Len(buf) + Len(unsent) = Len(flat) /\ Len(flat) = Len(first) + Len(rest)
  BY StreamOfReplies
<1>3. last \in Seq(Bytes) /\ Len(unsent) <= Len(last)
  BY <1>1, EncodedTexts DEF IInv, UnsentOfLast
<1>4. n > 1 => Len(flat) >= Len(first) + Len(last)
  <2> DEFINE texts == Encoded(meant)
  <2>1. /\ texts \in Seq(Seq(Bytes)) /\ Len(texts) = n
        /\ texts[1] = first /\ texts[n] = last
    BY <1>1, EncodedTexts
  <2> HIDE DEF texts, first, last, n
  <2>2. n > 1 => Len(FlattenSeq(texts)) >= Len(texts[1]) + Len(texts[n])
    BY <2>1, FlattenEnds
  <2> QED BY <2>1, <2>2 DEF texts
<1>5. n = 1 => rest = <<>>
  <2>1. n = 1 => Tail(meant) = <<>>
    <3> DEFINE tail == Tail(meant)
    <3>1. meant # <<>> => tail \in Seq(Replies) /\ Len(tail) = n - 1
      BY <1>1, HeadTailProperties
    <3> HIDE DEF tail, n
    <3>2. n = 1 => tail = <<>>
      BY <1>1, <3>1
    <3> QED BY <3>2 DEF tail
  <2>2. Encoded(<<>>) = <<>>
    BY DEF Encoded
  <2> QED BY <2>1, <2>2, FlattenNone
<1>6. /\ Len(first) \in Nat /\ Len(rest) \in Nat /\ Len(last) \in Nat /\ Len(flat) \in Nat
      /\ (n = 1 => Len(rest) = 0)
  <2>1. n = 1 => Len(rest) = 0
    BY <1>5
  <2> HIDE DEF first, last, rest, flat, n
  <2> QED BY <1>1, <1>2, <1>3, <2>1
<1>7. Complete <=> n > 1 \/ Len(unsent) = 0
  <2>1. Complete <=> n > 1 \/ (n = 1 /\ unsent = <<>>)
    BY DEF Complete
  <2> HIDE DEF n
  <2> QED BY <1>1, <2>1
<1> HIDE DEF n, first, last, rest, flat
<1>8. Complete => Len(first) <= Len(buf)
  <2>1. CASE n > 1
    BY <1>1, <1>2, <1>3, <1>4, <1>6, <2>1
  <2>2. CASE n = 1
    BY <1>1, <1>2, <1>6, <1>7, <2>2
  <2> QED BY <1>1, <2>1, <2>2
<1>9. ~ Complete => Len(buf) < Len(first)
  BY <1>1, <1>2, <1>6, <1>7
<1> QED BY <1>8, <1>9 DEF first

\* Behind the first reply come the others.
LEMMA FirstBehind ==
  ASSUME IInv, meant # <<>>, Len(Encode(meant[1])) <= Len(buf)
  PROVE  Behind(buf, Encode(meant[1])) \o unsent = FlattenSeq(Encoded(Tail(meant)))
<1> DEFINE first == Encode(meant[1])
           rest == FlattenSeq(Encoded(Tail(meant)))
<1>1. buf \in Seq(Bytes) /\ unsent \in Seq(Bytes) /\ Len(first) <= Len(buf)
  BY DEF IInv, ValuesOK, Texts
<1>2. first \in Seq(Bytes) /\ rest \in Seq(Bytes) /\ buf \o unsent = first \o rest
  BY StreamOfReplies
<1> HIDE DEF first, rest
<1>3. Behind(buf, first) \o unsent = rest
  BY <1>1, <1>2, StreamBehind
<1> QED BY <1>3 DEF first, rest

\* What the client's parser returns, in whatever state.
LEMMA Verdicts ==
  ASSUME IInv, NEW policy \in Policies
  PROVE  /\ Complete =>
              /\ Verdict(policy).kind = "positive"
              /\ Verdict(policy).consumed = Len(Encode(meant[1]))
              /\ Len(Encode(meant[1])) <= Len(buf)
              /\ policy = "keep_result" => Tells(buf, Verdict(policy).result, meant[1])
         /\ ~ Complete => Verdict(policy).kind = "not_enough_data"
<1>1. /\ meant \in Seq(Replies) /\ buf \in Seq(Bytes) /\ unsent \in Seq(Bytes)
      /\ Len(buf) \in Nat
  BY DEF IInv, ValuesOK, Texts
<1>2. CASE meant = <<>>
  <2>1. ~ Complete
    BY <1>2 DEF Complete
  <2>2. buf \o unsent = <<>>
    <3>1. Encoded(<<>>) = <<>>
      BY DEF Encoded
    <3>2. buf \o unsent = FlattenSeq(Encoded(meant))
      BY DEF IInv, ConsumedToTheByte, Encoded
    <3> QED BY <1>2, <3>1, <3>2, FlattenNone
  <2>3. Len(buf) = 0
    <3>1. Len(buf \o unsent) = Len(buf) + Len(unsent) /\ Len(unsent) \in Nat
      BY <1>1, Concatenates
    <3> QED BY <1>1, <2>2, <3>1
  <2>4. Parse(policy, buf) = ParseAt(buf, policy, 0, RawParse(buf, policy))
    <3>1. 0 \in 0 .. Len(buf)
      BY <2>3
    <3>2. RawParse(buf, policy)[0] = ParseAt(buf, policy, 0, RawParse(buf, policy))
      BY <1>1, <3>1, RawParseEquation
    <3> QED BY <3>2 DEF Parse
  <2>5. Verdict(policy) = NotEnoughData
    BY <2>3, <2>4 DEF ParseAt, Verdict
  <2> QED BY <2>1, <2>5 DEF NotEnoughData
<1>3. CASE meant # <<>>
  <2> DEFINE r == meant[1]
             first == Encode(meant[1])
             rest == FlattenSeq(Encoded(Tail(meant)))
  <2>1. /\ r \in Nested(Depth) /\ first \in Seq(Bytes) /\ rest \in Seq(Bytes)
        /\ buf \o unsent = first \o rest
    BY <1>3, StreamOfReplies
  <2>2. Complete => Len(first) <= Len(buf)
    BY <1>3, FirstReply
  <2>3. ~ Complete => Len(buf) < Len(first)
    BY <1>3, FirstReply
  <2> HIDE DEF rest
  <2>4. /\ Len(first) <= Len(buf) => Held(buf, 0, first)
        /\ Len(buf) <= Len(first) => Continues(first, buf)
    BY <1>1, <2>1, StreamBegins
  <2>5. ASSUME Complete
        PROVE  /\ Parse(policy, buf).kind = "positive"
               /\ Parse(policy, buf).consumed = Len(Encode(r))
               /\ policy = "keep_result" => Tells(buf, Parse(policy, buf).result, r)
    <3>1. Held(buf, 0, Encode(r))
      BY <2>2, <2>4, <2>5
    <3> HIDE DEF r, first
    <3> QED BY <1>1, <2>1, <3>1, ReplyParsed
  <2>6. ASSUME ~ Complete PROVE Parse(policy, buf).kind = "not_enough_data"
    <3>1. Len(first) \in Nat
      BY <2>1
    <3>2. Continues(Encode(r), buf) /\ Len(buf) < Len(Encode(r)) /\ buf \in Texts
      BY <1>1, <2>3, <2>4, <2>6, <3>1 DEF Texts
    <3> HIDE DEF r, first
    <3> QED BY <2>1, <3>2, ReplyAwaited
  <2> QED BY <2>2, <2>5, <2>6 DEF Verdict
<1> QED BY <1>2, <1>3

\* Nothing is sent at first.
LEMMA InitInv == Init => IInv
<1> SUFFICES ASSUME Init PROVE IInv
  OBVIOUS
<1>1. ValuesOK
  BY RepliesAssumption DEF Init, ValuesOK, Texts
<1>2. ConsumedToTheByte
  <2>1. buf \o unsent = <<>> /\ [i \in DOMAIN meant |-> Encode(meant[i])] = <<>>
    BY DEF Init
  <2> QED BY <2>1, FlattenNone DEF ConsumedToTheByte
<1>3. UnsentOfLast
  BY DEF Init, UnsentOfLast
<1> QED BY <1>1, <1>2, <1>3 DEF IInv

\* A reply is begun behind the others, when all of them are sent.
LEMMA BeginInv ==
  ASSUME IInv, NEW reply \in Replies, Begin(reply)
  PROVE  IInv'
<1> DEFINE text == Encode(reply)
           texts == Encoded(meant)
<1>1. /\ meant \in Seq(Replies) /\ buf \in Seq(Bytes) /\ text \in Seq(Bytes)
      /\ texts \in Seq(Seq(Bytes)) /\ unsent = <<>> /\ buf' = buf /\ unsent' = text
      /\ meant' = Append(meant, reply)
  BY RepliesAssumption, EncodedTexts, EncodeText DEF IInv, ValuesOK, Texts, Begin
<1> DEFINE n == Len(meant)
<1>2. /\ meant' \in Seq(Replies) /\ n \in Nat /\ Len(meant') = n + 1 /\ meant'[n + 1] = reply
  BY <1>1, AppendProperties
<1>3. ValuesOK'
  BY <1>1, <1>2, RepliesAssumption DEF IInv, ValuesOK, Begin, Texts
<1>4. ConsumedToTheByte'
  <2>1. Encoded(meant') = Append(texts, text)
    BY <1>1, EncodedAppend
  <2>2. FlattenSeq(texts) = buf
    <3>1. buf \o unsent = FlattenSeq(texts)
      BY DEF IInv, ConsumedToTheByte, Encoded
    <3>2. buf \o <<>> = buf
      BY <1>1, ConcatEmptySeq
    <3> QED BY <1>1, <3>1, <3>2
  <2> HIDE DEF texts, text
  <2>3. FlattenSeq(Append(texts, text)) = FlattenSeq(texts) \o text
    BY <1>1, FlattenAppend
  <2>4. buf' \o unsent' = FlattenSeq(Encoded(meant'))
    BY <1>1, <2>1, <2>2, <2>3
  <2> QED BY <2>4 DEF ConsumedToTheByte, Encoded
<1>5. UnsentOfLast'
  <2>1. Len(text) \in Nat
    BY <1>1
  <2>2. Encode(meant'[Len(meant')]) = text
    BY <1>2
  <2> HIDE DEF text
  <2> QED BY <1>1, <2>1, <2>2 DEF UnsentOfLast
<1> QED BY <1>3, <1>4, <1>5 DEF IInv

\* The next byte goes from the server to the client.
LEMMA SendInv ==
  ASSUME IInv, Send
  PROVE  IInv'
<1> DEFINE byte == Head(unsent)
           later == Tail(unsent)
<1>1. /\ buf \in Seq(Bytes) /\ unsent \in Seq(Bytes) /\ unsent # <<>>
      /\ buf' = Append(buf, byte) /\ unsent' = later /\ meant' = meant /\ count' = count
  BY DEF IInv, ValuesOK, Texts, Send
<1>2. byte \in Bytes /\ later \in Seq(Bytes) /\ Len(later) = Len(unsent) - 1
  BY <1>1, HeadTailProperties
<1>3. unsent = <<byte>> \o later
  BY <1>1
<1> HIDE DEF byte, later
<1>4. buf' \in Seq(Bytes) /\ buf' = buf \o <<byte>>
  BY <1>1, <1>2, AppendProperties, AppendIsConcat
<1>5. ValuesOK'
  BY <1>1, <1>2, <1>4 DEF IInv, ValuesOK, Texts
<1>6. buf' \o unsent' = buf \o unsent
  <2> DEFINE one == <<byte>>
  <2>1. one \in Seq(Bytes)
    BY <1>2
  <2> HIDE DEF one
  <2>2. (buf \o one) \o later = buf \o (one \o later)
    BY <1>1, <1>2, <2>1, Associates, SMTT(40)
  <2> QED BY <1>1, <1>3, <1>4, <2>2 DEF one
<1>7. ConsumedToTheByte'
  BY <1>1, <1>6 DEF IInv, ConsumedToTheByte
<1>8. UnsentOfLast'
  <2>1. ASSUME meant # <<>> PROVE Len(later) <= Len(Encode(meant[Len(meant)]))
    <3> DEFINE last == Encode(meant[Len(meant)])
    <3>1. meant \in Seq(Replies) /\ Len(meant) \in 1 .. Len(meant)
      BY <2>1 DEF IInv, ValuesOK
    <3>2. last \in Seq(Bytes)
      BY <3>1, EncodedTexts
    <3>3. Len(unsent) <= Len(last)
      BY <2>1 DEF IInv, UnsentOfLast
    <3> HIDE DEF last
    <3>4. Len(unsent) \in Nat /\ Len(later) \in Nat /\ Len(last) \in Nat
      BY <1>1, <1>2, <3>2
    <3>5. Len(later) <= Len(last)
      BY <1>2, <3>3, <3>4
    <3> QED BY <3>5 DEF last
  <2> QED BY <1>1, <2>1 DEF UnsentOfLast
<1> QED BY <1>5, <1>7, <1>8 DEF IInv

\* Exactly the first reply is consumed.
LEMMA ConsumeInv ==
  ASSUME IInv, NEW policy \in Policies, Consume(policy)
  PROVE  IInv'
<1> DEFINE n == Len(meant)
           first == Encode(meant[1])
           rest == FlattenSeq(Encoded(Tail(meant)))
           behind == SubSeq(buf, Len(first) + 1, Len(buf))
<1>1. Complete /\ Verdict(policy).consumed = Len(first) /\ Len(first) <= Len(buf)
  <2>1. Verdict(policy).kind = "positive"
    BY DEF Consume
  <2> QED BY <2>1, Verdicts
<1>2. /\ meant \in Seq(Replies) /\ meant # <<>> /\ n \in Nat /\ n >= 1
      /\ buf \in Seq(Bytes) /\ unsent \in Seq(Bytes)
      /\ buf' = behind /\ unsent' = unsent /\ meant' = Tail(meant) /\ count' = count
  BY <1>1 DEF IInv, ValuesOK, Texts, Consume, Complete
<1>3. /\ first \in Seq(Bytes) /\ rest \in Seq(Bytes) /\ buf \o unsent = first \o rest
  BY <1>2, StreamOfReplies
<1>4. behind \in Seq(Bytes)
  <2> DEFINE from == Len(first) + 1
             to == Len(buf)
  <2>1. Len(first) \in Nat
    BY <1>3
  <2>2. from \in Int /\ to \in Int /\ \A i \in from .. to : buf[i] \in Bytes
    <3>1. to \in Nat /\ \A i \in 1 .. to : buf[i] \in Bytes
      BY <1>2
    <3> HIDE DEF first
    <3> QED BY <2>1, <3>1
  <2> HIDE DEF from, to
  <2>3. SubSeq(buf, from, to) \in Seq(Bytes)
    BY <2>2, SubSeqProperties
  <2> QED BY <2>3 DEF from, to
<1>5. behind \o unsent = rest
  <2>1. Behind(buf, first) \o unsent = rest
    BY <1>1, <1>2, FirstBehind
  <2> QED BY <2>1 DEF Behind
<1> HIDE DEF behind, first
<1>6. /\ Tail(meant) \in Seq(Replies) /\ Len(Tail(meant)) = n - 1
      /\ \A i \in 1 .. n - 1 : Tail(meant)[i] = meant[i + 1]
  BY <1>2, HeadTailProperties
<1>7. ValuesOK'
  BY <1>2, <1>4, <1>6 DEF IInv, ValuesOK, Texts
<1>8. ConsumedToTheByte'
  BY <1>2, <1>5 DEF ConsumedToTheByte, Encoded
<1>9. UnsentOfLast'
  <2> DEFINE tail == Tail(meant)
  <2>1. tail # <<>> => n > 1 /\ tail[Len(tail)] = meant[n]
    <3>1. tail \in Seq(Replies) /\ Len(tail) = n - 1
      BY <1>6
    <3>2. n > 1 => n - 1 \in 1 .. n - 1 /\ (n - 1) + 1 = n
      BY <1>2
    <3>3. \A i \in 1 .. n - 1 : tail[i] = meant[i + 1]
      BY <1>6
    <3> HIDE DEF tail, n
    <3> QED BY <1>2, <3>1, <3>2, <3>3
  <2>2. Len(unsent) <= Len(Encode(meant[n]))
    BY <1>2 DEF IInv, UnsentOfLast
  <2> QED BY <1>2, <2>1, <2>2 DEF UnsentOfLast
<1> QED BY <1>7, <1>8, <1>9 DEF IInv

\* The client holds and awaits the replies that it has not consumed, and of
\* those that are begun only the last is not sent.
THEOREM RepliesInv == Spec => []IInv
<1>1. IInv /\ [Next]_vars => IInv'
  <2> SUFFICES ASSUME IInv, [Next]_vars PROVE IInv'
    OBVIOUS
  <2>1. CASE UNCHANGED vars
    BY <2>1 DEF vars, IInv, ValuesOK, ConsumedToTheByte, UnsentOfLast
  <2>2. ASSUME NEW reply \in Replies, Begin(reply) PROVE IInv'
    BY <2>2, BeginInv
  <2>3. CASE Send
    BY <2>3, SendInv
  <2>4. ASSUME NEW policy \in Policies, Consume(policy) PROVE IInv'
    BY <2>4, ConsumeInv
  <2> QED BY <2>1, <2>2, <2>3, <2>4 DEF Next
<1> QED BY <1>1, InitInv, PTL DEF Spec

-----------------------------------------------------------------------------
(* What follows for the client.                                             *)

\* A reply that is found has no more bytes than the buffer holds.
THEOREM RepliesTypeOK == Spec => []TypeOK
<1>1. IInv => TypeOK
  <2> SUFFICES ASSUME IInv, NEW policy \in Policies, Verdict(policy).kind = "positive"
               PROVE  Verdict(policy).consumed \in 1 .. Len(buf)
    BY DEF IInv, ValuesOK, TypeOK
  <2>1. buf \in Seq(Bytes) /\ Len(buf) \in Nat /\ 0 \in 0 .. Len(buf)
    BY DEF IInv, ValuesOK, Texts
  <2>2. Within(buf, 0, policy, Verdict(policy))
    BY <2>1, RawParseWithin DEF Verdict, Parse
  <2>3. Takes(buf, 0, Verdict(policy))
    BY <2>2, WithinCases
  <2> QED BY <2>1, <2>3 DEF Takes
<1> QED BY <1>1, RepliesInv, PTL

\* The parser finds a reply exactly when all of its bytes have arrived, whatever
\* is in it and whatever is behind it, under both policies.
THEOREM RepliesAccepted == Spec => []AcceptedWhenComplete
<1>1. IInv => AcceptedWhenComplete
  BY Verdicts DEF AcceptedWhenComplete
<1> QED BY <1>1, RepliesInv, PTL

\* The markers of a reply lead to what the server meant, as deeply as it is nested.
THEOREM RepliesExtracted == Spec => []ExtractsWhatWasMeant
<1>1. ASSUME IInv, Verdict("keep_result").kind = "positive"
      PROVE  Extract(buf, Verdict("keep_result").result) = Meaning(meant[1])
  <2>1. "keep_result" \in Policies
    BY DEF Policies
  <2>2. Tells(buf, Verdict("keep_result").result, meant[1])
    BY <1>1, <2>1, Verdicts
  <2> QED BY <2>2 DEF Tells
<1>2. IInv => ExtractsWhatWasMeant
  BY <1>1 DEF ExtractsWhatWasMeant
<1> QED BY <1>2, RepliesInv, PTL

\* equality finds a reply by its text and by nothing else, and an array by none.
THEOREM RepliesEquality == Spec => []EqualityFindsWhatWasMeant
<1>1. ASSUME IInv, Verdict("keep_result").kind = "positive", NEW str
      PROVE  EqualityVisitor(buf, Verdict("keep_result").result, str)
               <=> str \in TextsOf(Meaning(meant[1]))
  <2> DEFINE marker == Verdict("keep_result").result
             meaning == Meaning(meant[1])
  <2>1. Tells(buf, marker, meant[1])
    <3>1. "keep_result" \in Policies
      BY DEF Policies
    <3> QED BY <1>1, <3>1, Verdicts
  <2>2. /\ marker.type = meaning.type
        /\ marker.type # "array" => TextsOf(meaning) = {Text(buf, marker)}
    BY <2>1 DEF Tells
  <2> HIDE DEF marker, meaning
  <2>3. CASE marker.type = "array"
    <3>1. ~ EqualityVisitor(buf, marker, str)
      BY <2>3 DEF EqualityVisitor, Equality
    <3>2. TextsOf(meaning) = {}
      BY <2>2, <2>3 DEF TextsOf
    <3> QED BY <3>1, <3>2 DEF marker, meaning
  <2>4. CASE marker.type # "array"
    <3>1. EqualityVisitor(buf, marker, str) <=> Text(buf, marker) = str
      BY <2>4 DEF EqualityVisitor, Equality
    <3> QED BY <2>2, <2>4, <3>1 DEF marker, meaning
  <2> QED BY <2>3, <2>4
<1>2. IInv => EqualityFindsWhatWasMeant
  BY <1>1 DEF EqualityFindsWhatWasMeant
<1> QED BY <1>2, RepliesInv, PTL

\* What consume() takes out of the buffer ends where the reply ends: the next one
\* begins at the first byte of the buffer, for ever.
THEOREM RepliesConsumed == Spec => []ConsumedToTheByte
<1>1. IInv => ConsumedToTheByte
  BY DEF IInv
<1> QED BY <1>1, RepliesInv, PTL

-----------------------------------------------------------------------------
(* What reading relies on: module Framing, of Parse.                        *)

Reading == INSTANCE Framing WITH ParseOf <- Parse

\* s is the stream of the replies, with `tail' behind the last of them
StreamOf(s, replies, tail) ==
  /\ s.bytes = FlattenSeq(Encoded(replies)) \o tail
  /\ Len(s.ends) = Len(replies)
  /\ \A k \in 0 .. Len(replies) - 1 :
       Reading!End(s, k + 1) = Reading!End(s, k) + Len(Encode(replies[k + 1]))

\* No reply is found in the tail: it is the beginning of one, or refused.
NoReply(tail) == Parse("keep_result", tail).kind \in {"not_enough_data", "protocol_error"}

\* A reply has bytes.
LEMMA EncodeIsSome == \A r \in Nested(Depth) : Len(Encode(r)) \in Nat /\ Len(Encode(r)) > 0
<1> SUFFICES ASSUME NEW r \in Nested(Depth) PROVE Len(Encode(r)) \in Nat /\ Len(Encode(r)) > 0
  OBVIOUS
<1> DEFINE text == Encode(r)
           verdict == RawParse(text, "keep_result")[0]
<1>1. text \in Seq(Bytes) /\ Len(text) \in Nat
  <2>1. text \in Seq(Bytes)
    BY EncodeText DEF Texts
  <2> HIDE DEF text
  <2> QED BY <2>1
<1>2. verdict.kind = "positive" /\ verdict.consumed = Len(text)
  <2>1. Held(text, 0, Encode(r)) /\ "keep_result" \in Policies
    BY <1>1 DEF Held, Policies
  <2> QED BY <1>1, <2>1, ReplyParsed DEF Parse
<1> HIDE DEF text
<1>3. Within(text, 0, "keep_result", verdict)
  <2>1. 0 \in 0 .. Len(text)
    BY <1>1
  <2> QED BY <1>1, <2>1, RawParseWithin
<1> HIDE DEF verdict
<1>4. verdict.consumed \in 1 .. Len(text) - 0
  BY <1>2, <1>3, WithinCases DEF Takes
<1>5. Len(text) > 0
  BY <1>1, <1>2, <1>4
<1> QED BY <1>1, <1>5 DEF text

\* Behind the last reply neither policy finds one, however much of the tail has
\* arrived, and both return the same.
LEMMA TailRefused ==
  ASSUME NEW tail \in Texts, NEW rest \in Texts, Continues(tail, rest), NoReply(tail)
  PROVE  NoReply(rest) /\ Parse("drop_result", rest) = Parse("keep_result", rest)
<1> DEFINE late == RawParse(tail, "keep_result")[0]
           keep == RawParse(rest, "keep_result")[0]
           drop == RawParse(rest, "drop_result")[0]
<1>1. /\ tail \in Seq(Bytes) /\ rest \in Seq(Bytes) /\ 0 \in 0 .. Len(rest)
  BY DEF Texts
<1>2. Persists(rest, 0, keep, late)
  BY <1>1, RawParsePersists
<1>3. Agree(keep, drop)
  BY <1>1, RawParseAgrees
<1>4. late.kind \in {"not_enough_data", "protocol_error"}
  BY DEF NoReply, Parse
<1> HIDE DEF late, keep, drop
<1>5. keep = NotEnoughData \/ keep = late
  BY <1>2 DEF Persists
<1>6. keep.kind \in {"not_enough_data", "protocol_error"}
  BY <1>4, <1>5 DEF NotEnoughData
<1>7. drop = keep
  BY <1>3, <1>6 DEF Agree, LengthError
<1> QED BY <1>6, <1>7 DEF NoReply, Parse, keep, drop

\* The part of a stream from an offset on.
LEMMA WindowHolds ==
  ASSUME NEW bytes \in Texts, NEW at \in 0 .. Len(bytes), NEW to \in at .. Len(bytes),
         NEW text \in Texts, Held(bytes, at, text)
  PROVE  LET window == SubSeq(bytes, at + 1, to) IN
         /\ window \in Texts /\ Len(window) = to - at
         /\ at + Len(text) <= to => Held(window, 0, text)
         /\ to < at + Len(text) => Continues(text, window) /\ Len(window) < Len(text)
<1> DEFINE window == SubSeq(bytes, at + 1, to)
           m == at + 1
<1>1. /\ Len(bytes) \in Nat /\ Len(text) \in Nat /\ at \in Nat /\ to \in Nat /\ at <= to
      /\ to <= Len(bytes) /\ \A i \in 1 .. Len(bytes) : bytes[i] \in Bytes
  BY DEF Texts
<1>2. \A i \in 1 .. Len(text) : bytes[at + i] = text[i]
  BY DEF Held
<1>3. /\ SubSeq(bytes, m, to) \in Seq(Bytes)
      /\ Len(SubSeq(bytes, m, to)) = IF m <= to THEN to - m + 1 ELSE 0
      /\ \A i \in 1 .. to - m + 1 : SubSeq(bytes, m, to)[i] = bytes[m + i - 1]
  <2>1. m \in Int /\ to \in Int /\ \A i \in m .. to : bytes[i] \in Bytes
    BY <1>1
  <2> HIDE DEF m
  <2> QED BY <2>1, SubSeqProperties
<1>4. /\ window \in Texts /\ Len(window) = to - at
      /\ \A i \in 1 .. to - at : window[i] = bytes[at + i]
  <2>1. to - m + 1 = to - at /\ (m <= to <=> to - at # 0)
    BY <1>1
  <2>2. \A i \in 1 .. to - at : m + i - 1 = at + i
    BY <1>1
  <2> QED BY <1>1, <1>3, <2>1, <2>2 DEF Texts
<1> HIDE DEF window
<1>5. ASSUME at + Len(text) <= to PROVE Held(window, 0, text)
  <2>1. \A i \in 1 .. Len(text) : i \in 1 .. to - at /\ 0 + i = i
    BY <1>1, <1>5
  <2> QED BY <1>1, <1>2, <1>4, <1>5, <2>1 DEF Held
<1>6. ASSUME to < at + Len(text) PROVE Continues(text, window) /\ Len(window) < Len(text)
  <2>1. \A i \in 1 .. to - at : i \in 1 .. Len(text)
    BY <1>1, <1>6
  <2> QED BY <1>1, <1>2, <1>4, <1>6, <2>1 DEF Continues
<1> QED BY <1>4, <1>5, <1>6 DEF window

\* The replies of a stream are held where they end one behind the other, and the
\* tail is held behind them.
LEMMA StreamHolds ==
  ASSUME NEW replies \in Seq(Replies), NEW tail \in Texts, NEW s, StreamOf(s, replies, tail)
  PROVE  LET n == Len(replies) IN
         /\ s.bytes \in Texts /\ Len(s.bytes) \in Nat /\ n \in Nat
         /\ Reading!End(s, 0) = 0
         /\ \A k \in 0 .. n : Reading!End(s, k) \in 0 .. Len(s.bytes)
         /\ \A k \in 0 .. n - 1 :
              /\ Held(s.bytes, Reading!End(s, k), Encode(replies[k + 1]))
              /\ Reading!End(s, k + 1) = Reading!End(s, k) + Len(Encode(replies[k + 1]))
         /\ Held(s.bytes, Reading!End(s, n), tail)
         /\ Reading!End(s, n) + Len(tail) = Len(s.bytes)
<1> DEFINE n == Len(replies)
           texts == Encoded(replies)
           flat == FlattenSeq(texts)
           bytes == s.bytes
           end(k) == Reading!End(s, k)
<1>1. /\ texts \in Seq(Seq(Bytes)) /\ Len(texts) = n /\ n \in Nat
      /\ \A i \in 1 .. n : texts[i] = Encode(replies[i]) /\ texts[i] \in Seq(Bytes)
  BY EncodedTexts
<1>2. /\ flat \in Seq(Bytes) /\ tail \in Seq(Bytes) /\ bytes = flat \o tail
      /\ end(0) = 0 /\ \A k \in 0 .. n - 1 : end(k + 1) = end(k) + Len(Encode(replies[k + 1]))
  BY <1>1, FlattenText DEF StreamOf, Texts, Reading!End
<1> HIDE DEF texts, flat, n, end, bytes
<1>3. /\ bytes \in Seq(Bytes) /\ Len(bytes) = Len(flat) + Len(tail)
      /\ Len(flat) \in Nat /\ Len(tail) \in Nat /\ Len(bytes) \in Nat
  BY <1>2, Concatenates
<1>4. Held(bytes, 0, flat) /\ Held(bytes, Len(flat), tail)
  <2>1. Held(bytes, 0, flat \o tail)
    BY <1>2, <1>3 DEF Held
  <2>2. Held(bytes, 0, flat) /\ Held(bytes, 0 + Len(flat), tail)
    BY <1>2, <1>3, <2>1, HeldParts
  <2>3. 0 + Len(flat) = Len(flat)
    BY <1>3
  <2> QED BY <2>2, <2>3
<1>5. PICK e : /\ e[0] = 0 /\ e[Len(texts)] = Len(FlattenSeq(texts))
               /\ \A i \in 0 .. Len(texts) : e[i] \in Nat
               /\ \A i \in 0 .. Len(texts) - 1 :
                    e[i + 1] = e[i] + Len(texts[i + 1]) /\ Held(bytes, 0 + e[i], texts[i + 1])
  <2>1. Held(bytes, 0, FlattenSeq(texts))
    BY <1>4 DEF flat
  <2> QED BY <1>1, <1>3, <2>1, TextsHeld
<1>6. /\ e[0] = 0 /\ e[n] = Len(flat) /\ \A k \in 0 .. n : e[k] \in Nat
      /\ \A k \in 0 .. n - 1 :
           /\ e[k + 1] = e[k] + Len(Encode(replies[k + 1]))
           /\ Held(bytes, e[k], Encode(replies[k + 1]))
  <2>1. ASSUME NEW k \in 0 .. n - 1
        PROVE  /\ e[k + 1] = e[k] + Len(Encode(replies[k + 1]))
               /\ Held(bytes, e[k], Encode(replies[k + 1]))
    <3>1. k + 1 \in 1 .. n /\ k \in 0 .. n
      BY <1>1
    <3>2. 0 + e[k] = e[k]
      BY <1>1, <1>5, <3>1
    <3> QED BY <1>1, <1>5, <3>1, <3>2
  <2> QED BY <1>1, <1>5, <2>1 DEF flat
<1> DEFINE S == {k \in 0 .. n : end(k) = e[k]}
<1>7. \A k \in 0 .. n : k \in S
  <2>1. 0 \in S
    BY <1>1, <1>2, <1>6
  <2>2. ASSUME NEW k \in 0 .. n - 1, k \in S PROVE k + 1 \in S
    BY <1>1, <1>2, <1>6, <2>2
  <2> HIDE DEF S
  <2> QED BY <1>1, <2>1, <2>2, Upwards
<1>8. \A k \in 0 .. n : end(k) = e[k]
  BY <1>7
<1>9. end(n) = Len(flat)
  <2>1. n \in 0 .. n
    BY <1>1
  <2> QED BY <1>6, <1>8, <2>1
<1>10. ASSUME NEW k \in 0 .. n PROVE end(k) \in 0 .. Len(bytes)
  <2>1. end(k) \in Nat
    BY <1>6, <1>8
  <2>2. CASE k = n
    BY <1>3, <1>9, <2>2
  <2>3. CASE k \in 0 .. n - 1
    <3>1. Held(bytes, end(k), Encode(replies[k + 1])) /\ Len(Encode(replies[k + 1])) \in Nat
      <4>1. k + 1 \in 1 .. n
        BY <1>1, <2>3
      <4>2. Len(Encode(replies[k + 1])) \in Nat
        BY <1>1, <4>1
      <4> QED BY <1>6, <1>8, <2>3, <4>2
    <3> DEFINE len == Len(Encode(replies[k + 1]))
    <3>2. end(k) + len <= Len(bytes)
      BY <3>1 DEF Held
    <3> QED BY <1>3, <2>1, <3>1, <3>2
  <2> QED BY <1>1, <2>2, <2>3
<1>11. ASSUME NEW k \in 0 .. n - 1
       PROVE  /\ Held(bytes, end(k), Encode(replies[k + 1]))
              /\ end(k + 1) = end(k) + Len(Encode(replies[k + 1]))
  <2>1. k \in 0 .. n
    BY <1>1
  <2> QED BY <1>2, <1>6, <1>8, <2>1
<1>12. /\ Held(bytes, end(n), tail) /\ end(n) + Len(tail) = Len(bytes)
       /\ bytes \in Texts
  BY <1>3, <1>4, <1>9 DEF Texts
<1> QED BY <1>1, <1>2, <1>3, <1>10, <1>11, <1>12 DEF n, end, bytes

\* The replies of a stream, which end one behind the other, divide it, and the
\* parser finds them there whatever part of it has arrived: the assumptions
\* on which the theorems about reading rest hold of Protocol!Parse, and of every
\* stream of replies with the beginning of one, or anything that is refused, behind.
THEOREM RepliesAreFramed ==
  ASSUME NEW replies \in Seq(Replies), NEW tail \in Texts, NoReply(tail),
         NEW s, StreamOf(s, replies, tail), NEW policy \in Policies
  PROVE  Reading!Divided(s) /\ Reading!Framed(s, policy)
<1> DEFINE n == Len(replies)
           bytes == s.bytes
           end(k) == Reading!End(s, k)
<1>1. /\ bytes \in Texts /\ Len(bytes) \in Nat /\ n \in Nat /\ end(0) = 0
      /\ Len(s.ends) = n
      /\ \A k \in 0 .. n : end(k) \in 0 .. Len(bytes)
      /\ \A k \in 0 .. n - 1 :
           /\ Held(bytes, end(k), Encode(replies[k + 1]))
           /\ end(k + 1) = end(k) + Len(Encode(replies[k + 1]))
      /\ Held(bytes, end(n), tail) /\ end(n) + Len(tail) = Len(bytes)
  BY StreamHolds, ZenonT(40) DEF StreamOf
<1>2. ASSUME NEW k \in 0 .. n - 1
      PROVE  /\ replies[k + 1] \in Nested(Depth) /\ Encode(replies[k + 1]) \in Texts
             /\ Len(Encode(replies[k + 1])) \in Nat /\ Len(Encode(replies[k + 1])) > 0
             /\ end(k) < end(k + 1)
  <2>1. k + 1 \in 1 .. n /\ k \in 0 .. n
    BY <1>1
  <2>2. replies[k + 1] \in Nested(Depth)
    BY <2>1, EncodedTexts
  <2> DEFINE len == Len(Encode(replies[k + 1]))
  <2>3. len \in Nat /\ len > 0 /\ Encode(replies[k + 1]) \in Texts
    BY <2>2, EncodeIsSome, EncodeText
  <2>4. end(k) \in Nat /\ end(k + 1) = end(k) + len
    BY <1>1, <2>1
  <2> HIDE DEF end, len
  <2>5. end(k) < end(k + 1)
    BY <2>3, <2>4
  <2> QED BY <2>2, <2>3, <2>5 DEF len
<1> HIDE DEF n, end, bytes
<1>3. \A k \in 0 .. n : \A j \in 0 .. k - 1 : end(j) < end(k)
  <2> DEFINE S == {k \in 0 .. n : \A j \in 0 .. k - 1 : end(j) < end(k)}
  <2>1. 0 \in S
    BY <1>1
  <2>2. ASSUME NEW k \in 0 .. n - 1, k \in S PROVE k + 1 \in S
    <3>1. ASSUME NEW j \in 0 .. (k + 1) - 1 PROVE end(j) < end(k + 1)
      <4>1. end(j) \in Nat /\ end(k) \in Nat /\ end(k + 1) \in Nat /\ end(k) < end(k + 1)
        <5>1. j \in 0 .. n /\ k \in 0 .. n /\ k + 1 \in 0 .. n
          BY <1>1
        <5> QED BY <1>1, <1>2, <5>1
      <4>2. CASE j = k
        BY <4>1, <4>2
      <4>3. CASE j \in 0 .. k - 1
        <5>1. end(j) < end(k)
          BY <2>2, <4>3
        <5> QED BY <4>1, <5>1
      <4> QED BY <1>1, <4>2, <4>3
    <3> QED BY <1>1, <3>1
  <2>3. \A k \in 0 .. n : k \in S
    <3> HIDE DEF S
    <3> QED BY <1>1, <2>1, <2>2, Upwards
  <2> QED BY <2>3
<1>4. Reading!Divided(s)
  BY <1>1, <1>3 DEF Reading!Divided, bytes, end
<1>5. ASSUME NEW k \in 0 .. n - 1, NEW to \in end(k) .. Len(bytes)
      PROVE  LET verdict == Parse(policy, SubSeq(bytes, end(k) + 1, to)) IN
             IF to < end(k + 1)
             THEN verdict.kind = "not_enough_data"
             ELSE verdict.kind = "positive" /\ verdict.consumed = end(k + 1) - end(k)
  <2> DEFINE r == replies[k + 1]
             at == end(k)
             text == Encode(r)
             window == SubSeq(bytes, at + 1, to)
  <2>1. k \in 0 .. n
    BY <1>1
  <2>2. /\ r \in Nested(Depth) /\ text \in Texts /\ Len(text) \in Nat
        /\ at \in 0 .. Len(bytes) /\ to \in at .. Len(bytes)
        /\ end(k + 1) = at + Len(text) /\ Held(bytes, at, text)
    BY <1>1, <1>2, <2>1
  <2> HIDE DEF r, at, text
  <2>3. /\ window \in Texts
        /\ at + Len(text) <= to => Held(window, 0, text)
        /\ to < at + Len(text) => Continues(text, window) /\ Len(window) < Len(text)
    BY <1>1, <2>2, WindowHolds
  <2> HIDE DEF window
  <2>4. to \in Nat /\ at \in Nat /\ end(k + 1) - at = Len(text)
    <3> DEFINE len == Len(text)
               size == Len(bytes)
               next == end(k + 1)
    <3>1. size \in Nat
      BY <1>1
    <3>2. len \in Nat /\ at \in 0 .. size /\ to \in at .. size /\ next = at + len
      BY <2>2
    <3> HIDE DEF len, size, next
    <3>3. to \in Nat /\ at \in Nat /\ next - at = len
      BY <3>1, <3>2
    <3> QED BY <3>3 DEF next, len
  <2>5. CASE to < end(k + 1)
    <3>1. Continues(Encode(r), window) /\ Len(window) < Len(Encode(r))
      BY <2>2, <2>3, <2>5 DEF text
    <3>2. Parse(policy, window).kind = "not_enough_data"
      BY <2>2, <2>3, <3>1, ReplyAwaited
    <3> QED BY <2>5, <3>2 DEF window, at
  <2>6. CASE ~ (to < end(k + 1))
    <3>1. Held(window, 0, Encode(r)) /\ window \in Seq(Bytes)
      BY <2>2, <2>3, <2>4, <2>6 DEF text, Texts
    <3>2. Parse(policy, window).kind = "positive" /\ Parse(policy, window).consumed = Len(Encode(r))
      BY <2>2, <3>1, ReplyParsed
    <3> QED BY <2>4, <2>6, <3>2 DEF window, at, text
  <2> QED BY <2>5, <2>6
<1>6. ASSUME NEW to \in end(n) .. Len(bytes)
      PROVE  LET rest == SubSeq(bytes, end(n) + 1, to) IN
             /\ Parse(policy, rest).kind \in {"not_enough_data", "protocol_error"}
             /\ Parse(policy, rest).kind = Parse("drop_result", rest).kind
  <2> DEFINE at == end(n)
             window == SubSeq(bytes, at + 1, to)
  <2>1. /\ at \in 0 .. Len(bytes) /\ to \in at .. Len(bytes) /\ at \in Nat /\ to \in Nat
        /\ Held(bytes, at, tail) /\ at + Len(tail) = Len(bytes)
    <3>1. n \in 0 .. n
      BY <1>1
    <3> QED BY <1>1, <3>1
  <2> HIDE DEF at
  <2>2. /\ window \in Texts
        /\ Len(window) = to - at
        /\ at + Len(tail) <= to => Held(window, 0, tail)
        /\ to < at + Len(tail) => Continues(tail, window)
    BY <1>1, <2>1, WindowHolds
  <2>3. Continues(tail, window)
    <3> DEFINE len == Len(tail)
               size == Len(bytes)
    <3>1. size \in Nat /\ len \in Nat
      BY <1>1 DEF Texts
    <3>2. /\ at \in Nat /\ to \in Nat /\ to <= size /\ at + len = size
          /\ Len(window) = to - at /\ window \in Texts
      BY <2>1, <2>2, <3>1
    <3>3. CASE to < at + len
      BY <2>2, <3>3
    <3>4. CASE at + len <= to
      <4>1. Held(window, 0, tail)
        BY <2>2, <3>4
      <4> HIDE DEF len, size, window
      <4>2. Len(window) = len
        BY <3>1, <3>2, <3>4
      <4>3. Len(window) = Len(tail) /\ Len(tail) \in Nat
        BY <3>1, <4>2 DEF len
      <4> QED BY <4>1, <4>3 DEF Held, Continues
    <3> HIDE DEF len, size, window
    <3> QED BY <3>1, <3>2, <3>3, <3>4
  <2> HIDE DEF window
  <2>4. NoReply(window) /\ Parse("drop_result", window) = Parse("keep_result", window)
    BY <2>2, <2>3, TailRefused
  <2>5. policy = "keep_result" \/ policy = "drop_result"
    BY DEF Policies
  <2> QED BY <2>4, <2>5 DEF NoReply, window, at
<1>7. Reading!Framed(s, policy)
  BY <1>1, <1>5, <1>6 DEF Reading!Framed, Reading!Window, bytes, end
<1> QED BY <1>4, <1>7

-----------------------------------------------------------------------------
(* Commands, which are written like replies, and a server that reads them.  *)

\* the commands of which the parser can make an array of bulk strings
Sendable ==
  {cmd \in Seq(Texts) :
     /\ Len(cmd) <= LongMax /\ Len(cmd) <= ReserveMax
     /\ \A n \in DOMAIN cmd : Len(cmd[n]) <= LongMax}

\* a command as a reply
CommandReply(cmd) ==
  [wire |-> "*", elements |-> [n \in DOMAIN cmd |-> [wire |-> "$", str |-> cmd[n]]]]

\* A command is an array of as many bulk strings as it has arguments.
LEMMA CommandIsReply ==
  ASSUME Depth > 0, NEW cmd \in Sendable
  PROVE  /\ CommandReply(cmd) \in Nested(Depth) /\ CommandReply(cmd).wire = "*"
         /\ Len(CommandReply(cmd).elements) = Len(cmd) /\ Len(cmd) \in Nat
         /\ \A n \in 1 .. Len(cmd) :
              /\ cmd[n] \in Texts /\ Len(cmd[n]) \in Nat
              /\ CommandReply(cmd).elements[n] = [wire |-> "$", str |-> cmd[n]]
<1> DEFINE N == Len(cmd)
           elements == [n \in 1 .. N |-> [wire |-> "$", str |-> cmd[n]]]
<1>1. /\ N \in Nat /\ DOMAIN cmd = 1 .. N /\ N <= LongMax /\ N <= ReserveMax
      /\ \A n \in 1 .. N : cmd[n] \in Texts /\ Len(cmd[n]) <= LongMax
  BY DEF Sendable
<1>2. \A text \in Texts : Len(text) \in Nat
  BY DEF Texts
<1> HIDE DEF N
<1>3. CommandReply(cmd) = [wire |-> "*", elements |-> elements]
  BY <1>1 DEF CommandReply
<1>4. PICK f : Levels(f, Depth) /\ Nested(Depth) = f[Depth]
  BY LevelsExist
<1>5. Depth \in Nat /\ Depth - 1 \in 0 .. Depth - 1 /\ (Depth - 1) + 1 = Depth
  BY RepliesAssumption
<1>6. f[Depth] = Scalar \cup ArraysOver(f[Depth - 1])
  BY <1>4, <1>5, LevelsRise
<1>7. Scalar \subseteq f[Depth - 1]
  <2>1. f[0] = Scalar \cup ArraysOver({})
    BY <1>4, LevelsRise
  <2>2. CASE Depth - 1 = 0
    BY <2>1, <2>2
  <2>3. CASE Depth - 1 # 0
    <3>1. Depth - 2 \in 0 .. Depth - 1 /\ (Depth - 2) + 1 = Depth - 1
      BY <1>5, <2>3
    <3>2. f[Depth - 1] = Scalar \cup ArraysOver(f[Depth - 2])
      BY <1>4, <3>1, LevelsRise
    <3> QED BY <3>2
  <2> QED BY <2>2, <2>3
<1>8. elements \in Seq(Scalar) /\ Len(elements) = N
  <2>1. ASSUME NEW n \in 1 .. N PROVE [wire |-> "$", str |-> cmd[n]] \in Scalar
    BY <1>1, <2>1 DEF Scalar
  <2> QED BY <1>1, <2>1
<1>9. elements \in Seq(f[Depth - 1])
  BY <1>7, <1>8
<1> HIDE DEF elements
<1>10. CommandReply(cmd) \in ArraysOver(f[Depth - 1])
  BY <1>1, <1>3, <1>8, <1>9 DEF ArraysOver
<1>11. CommandReply(cmd).wire = "*" /\ CommandReply(cmd).elements = elements
  BY <1>3
<1>12. \A n \in 1 .. N : elements[n] = [wire |-> "$", str |-> cmd[n]]
  BY DEF elements
<1> QED BY <1>1, <1>2, <1>4, <1>6, <1>8, <1>10, <1>11, <1>12 DEF N

\* An argument is serialized like a bulk string, in as many bytes as there is
\* room made for.
LEMMA ArgumentWritten ==
  ASSUME NEW arg \in Texts
  PROVE  SerializeArgument(arg) \in Texts /\ Len(SerializeArgument(arg)) = ArgumentSize(arg)
<1> DEFINE digits == Decimal(Len(arg))
           size == SizeForInt(Len(arg))
           a == <<"$">> \o digits
           b == a \o EOL
           c == b \o arg
           d == c \o EOL
<1>1. Len(arg) \in Nat /\ arg \in Seq(Bytes)
  BY DEF Texts
<1>2. digits \in Seq(Bytes) /\ size = Len(digits) /\ Len(digits) \in Nat
  BY <1>1, BytesAre, SizeCounts DEF Texts
<1>3. EOL \in Seq(Bytes) /\ Len(EOL) = 2 /\ <<"$">> \in Seq(Bytes) /\ Len(<<"$">>) = 1
  BY BytesAre DEF Texts
<1>4. SerializeArgument(arg) = d
  BY DEF SerializeArgument
<1>5. ArgumentSize(arg) = 1 + size + 2 + Len(arg) + 2
  BY DEF ArgumentSize
<1> HIDE DEF digits, size
<1>6. a \in Seq(Bytes) /\ Len(a) = 1 + Len(digits)
  BY <1>2, <1>3, Concatenates
<1> HIDE DEF a
<1>7. b \in Seq(Bytes) /\ Len(b) = Len(a) + 2
  <2>1. b \in Seq(Bytes) /\ Len(b) = Len(a) + Len(EOL)
    BY <1>3, <1>6, Concatenates, ZenonT(40)
  <2> QED BY <1>3, <2>1
<1> HIDE DEF b
<1>8. c \in Seq(Bytes) /\ Len(c) = Len(b) + Len(arg)
  BY <1>1, <1>7, Concatenates
<1> HIDE DEF c
<1>9. d \in Seq(Bytes) /\ Len(d) = Len(c) + 2
  <2>1. d \in Seq(Bytes) /\ Len(d) = Len(c) + Len(EOL)
    BY <1>3, <1>8, Concatenates, ZenonT(40)
  <2> QED BY <1>3, <2>1
<1> HIDE DEF d
<1>10. Len(d) = 1 + size + 2 + Len(arg) + 2
  BY <1>1, <1>2, <1>6, <1>7, <1>8, <1>9
<1> QED BY <1>4, <1>5, <1>9, <1>10 DEF Texts

\* the bytes to make room for, for the first n arguments
Room(sz, cmd, n) ==
  IF n = 0 THEN 1 + SizeForInt(Len(cmd)) + 2 ELSE sz[n - 1] + ArgumentSize(cmd[n])

\* The loop of command_size over the arguments has a result.
LEMMA RoomExists ==
  ASSUME NEW cmd, Len(cmd) \in Nat
  PROVE  \E sz : /\ CommandSize(cmd) = sz[Len(cmd)]
                 /\ \A n \in 0 .. Len(cmd) : sz[n] = Room(sz, cmd, n)
<1> DEFINE N == Len(cmd)
           Made(sz, k) == sz = [n \in 0 .. k |-> Room(sz, cmd, n)]
           S == {k \in 0 .. N : \E sz : Made(sz, k)}
<1>1. N \in Nat
  OBVIOUS
<1>2. CommandSize(cmd) = (CHOOSE sz : Made(sz, N))[N]
  BY Zenon DEF CommandSize, Room
<1> HIDE DEF N
<1>3. 0 \in S
  <2> DEFINE g == [n \in 0 .. 0 |-> Room(<<>>, cmd, 0)]
  <2>1. g = [n \in 0 .. 0 |-> Room(g, cmd, n)]
    <3> HIDE DEF g
    <3>1. Room(g, cmd, 0) = Room(<<>>, cmd, 0)
      BY DEF Room
    <3>2. \A n \in 0 .. 0 : n = 0
      OBVIOUS
    <3> QED BY <3>1, <3>2 DEF g
  <2> HIDE DEF g
  <2>2. Made(g, 0)
    BY <2>1
  <2> HIDE DEF Made
  <2> QED BY <1>1, <2>2
<1>4. ASSUME NEW k \in 0 .. N - 1, k \in S PROVE k + 1 \in S
  <2>1. PICK sz : Made(sz, k)
    BY <1>4
  <2> DEFINE g == [n \in 0 .. k + 1 |-> IF n <= k THEN sz[n] ELSE Room(sz, cmd, n)]
  <2>2. ASSUME NEW n \in 0 .. k + 1 PROVE g[n] = Room(g, cmd, n)
    <3>1. Room(g, cmd, n) = Room(sz, cmd, n)
      <4>1. n # 0 => n - 1 \in 0 .. k + 1 /\ n - 1 <= k
        BY <1>1
      <4>2. n # 0 => g[n - 1] = sz[n - 1]
        BY <4>1
      <4> HIDE DEF g
      <4> QED BY <4>2 DEF Room
    <3>2. n <= k => sz[n] = Room(sz, cmd, n)
      BY <1>1, <2>1
    <3> QED BY <3>1, <3>2
  <2>3. Made(g, k + 1)
    BY <2>2, Zenon
  <2>4. k + 1 \in 0 .. N
    BY <1>1
  <2> HIDE DEF g, Made
  <2> QED BY <2>3, <2>4
<1>5. \A k \in 0 .. N : k \in S
  <2> HIDE DEF S
  <2> QED BY <1>1, <1>3, <1>4, Upwards
<1>6. PICK sz : Made(sz, N) /\ CommandSize(cmd) = sz[N]
  <2>1. \E sz : Made(sz, N)
    BY <1>1, <1>5
  <2> HIDE DEF Made
  <2> QED BY <1>2, <2>1, Zenon
<1>7. \A n \in 0 .. N : sz[n] = Room(sz, cmd, n)
  BY <1>6
<1> QED BY <1>6, <1>7 DEF N

\* What serialize puts on the wire for a command are the bytes of the array of
\* bulk strings, to the last one: command_size has made room for all of them.
THEOREM CommandsAreReplies ==
  ASSUME Depth > 0, NEW cmd \in Sendable
  PROVE  /\ Serialize(cmd) = Encode(CommandReply(cmd))
         /\ CommandSize(cmd) = Len(Serialize(cmd))
<1> DEFINE r == CommandReply(cmd)
           N == Len(cmd)
           texts == [n \in DOMAIN cmd |-> SerializeArgument(cmd[n])]
           head == <<"*">> \o Decimal(N) \o EOL
           copied == head \o FlattenSeq(texts)
<1>1. /\ r \in Nested(Depth) /\ r.wire = "*" /\ Len(r.elements) = N /\ N \in Nat
      /\ \A n \in 1 .. N : /\ cmd[n] \in Texts /\ Len(cmd[n]) \in Nat
                           /\ r.elements[n] = [wire |-> "$", str |-> cmd[n]]
  BY CommandIsReply
<1>2. DOMAIN cmd = 1 .. N
  BY DEF Sendable
<1>3. ASSUME NEW n \in 1 .. N PROVE Elements(r)[n] = SerializeArgument(cmd[n])
  <2> DEFINE e == [wire |-> "$", str |-> cmd[n]]
  <2>1. e.wire = "$" /\ e.str = cmd[n]
    OBVIOUS
  <2>2. e \in Nested(Depth) /\ Elements(r)[n] = Encode(e)
    BY <1>1, ElementsAre
  <2> HIDE DEF e
  <2>3. Encode(e) = <<"$">> \o Decimal(Len(cmd[n])) \o EOL \o cmd[n] \o EOL
    BY <2>1, <2>2, EncodeCases
  <2> QED BY <2>2, <2>3 DEF SerializeArgument
<1>4. texts \in Seq(Seq(Bytes)) /\ Len(texts) = N
  <2>1. \A n \in 1 .. N : SerializeArgument(cmd[n]) \in Seq(Bytes)
    BY <1>1, ArgumentWritten DEF Texts
  <2> HIDE DEF N
  <2> QED BY <1>1, <1>2, <2>1
<1>5. Elements(r) = texts
  <2>1. Elements(r) \in Seq(Seq(Bytes)) /\ Len(Elements(r)) = N
    BY <1>1, ElementsAre
  <2>2. \A n \in 1 .. N : texts[n] = SerializeArgument(cmd[n])
    BY <1>2
  <2> HIDE DEF texts, r, N
  <2>3. \A n \in 1 .. Len(texts) : Elements(r)[n] = texts[n]
    BY <1>3, <1>4, <2>2
  <2> QED BY <1>4, <2>1, <2>3, SeqEqual
<1>6. Encode(r) = copied
  <2>1. Encode(r) = <<"*">> \o Decimal(Len(r.elements)) \o EOL \o FlattenSeq(Elements(r))
    BY <1>1, EncodeCases
  <2>2. Len(r.elements) = N
    BY <1>1
  <2> HIDE DEF r, N, texts
  <2> QED BY <1>5, <2>1, <2>2
<1>7. Serialize(cmd) = SubSeq(copied, 1, Min({Len(copied), CommandSize(cmd)}))
  BY DEF Serialize
<1> HIDE DEF texts
<1>8. PICK f : /\ Joins(f, texts) /\ f[Len(texts)] = FlattenSeq(texts)
               /\ \A i \in 0 .. Len(texts) : f[i] \in Seq(Bytes)
  BY <1>4, FlattenJoins
<1>9. PICK sz : /\ CommandSize(cmd) = sz[N] /\ \A n \in 0 .. N : sz[n] = Room(sz, cmd, n)
  BY <1>1, RoomExists
<1>10. head \in Seq(Bytes) /\ Len(head) = 1 + SizeForInt(N) + 2
  <2> DEFINE digits == Decimal(N)
             star == <<"*">>
             a == star \o digits
  <2>1. digits \in Seq(Bytes) /\ Len(digits) = SizeForInt(N) /\ EOL \in Seq(Bytes) /\ Len(EOL) = 2
    BY <1>1, BytesAre, SizeCounts DEF Texts
  <2>2. star \in Seq(Bytes) /\ Len(star) = 1
    BY BytesAre
  <2>3. head = a \o EOL
    OBVIOUS
  <2> HIDE DEF digits, star, head
  <2>4. a \in Seq(Bytes) /\ Len(a) = 1 + Len(digits)
    BY <2>1, <2>2, Concatenates
  <2> HIDE DEF a
  <2>5. head \in Seq(Bytes) /\ Len(head) = Len(a) + Len(EOL)
    BY <2>1, <2>3, <2>4, Concatenates, ZenonT(40)
  <2>6. SizeForInt(N) \in Nat
    BY <2>1
  <2> QED BY <2>1, <2>4, <2>5, <2>6
<1> HIDE DEF head, r, N, copied
<1> DEFINE S == {n \in 0 .. N : sz[n] = Len(head) + Len(f[n])}
<1>11. \A n \in 0 .. N : n \in S
  <2>1. 0 \in S
    <3>1. sz[0] = Room(sz, cmd, 0) /\ f[0] = <<>> /\ Len(f[0]) = 0
      BY <1>1, <1>8, <1>9 DEF Joins
    <3>2. Room(sz, cmd, 0) = 1 + SizeForInt(N) + 2
      BY DEF Room, N
    <3>3. Len(head) \in Nat
      BY <1>10
    <3>4. sz[0] = Len(head) + Len(f[0])
      BY <1>10, <3>1, <3>2, <3>3
    <3> QED BY <1>1, <3>4
  <2>2. ASSUME NEW n \in 0 .. N - 1, n \in S PROVE n + 1 \in S
    <3>1. n + 1 \in 1 .. N /\ n + 1 \in 0 .. N /\ n \in 0 .. N /\ n + 1 # 0 /\ (n + 1) - 1 = n
      BY <1>1
    <3>2. sz[n + 1] = sz[n] + ArgumentSize(cmd[n + 1])
      BY <1>9, <3>1 DEF Room
    <3>3. texts[n + 1] = SerializeArgument(cmd[n + 1]) /\ texts[n + 1] \in Seq(Bytes)
      <4>1. texts[n + 1] = SerializeArgument(cmd[n + 1])
        BY <1>2, <3>1 DEF texts
      <4> QED BY <1>4, <3>1, <4>1
    <3>4. Len(texts[n + 1]) = ArgumentSize(cmd[n + 1])
      BY <1>1, <3>1, <3>3, ArgumentWritten
    <3>5. f[n + 1] = f[n] \o texts[n + 1] /\ f[n] \in Seq(Bytes)
      BY <1>4, <1>8, <3>1 DEF Joins
    <3> DEFINE s == f[n]
               t == texts[n + 1]
    <3>6. Len(f[n + 1]) = Len(s) + Len(t) /\ Len(s) \in Nat /\ Len(t) \in Nat
      <4>1. s \in Seq(Bytes) /\ t \in Seq(Bytes) /\ f[n + 1] = s \o t
        BY <3>3, <3>5
      <4> HIDE DEF s, t
      <4> QED BY <4>1, Concatenates
    <3>7. sz[n] = Len(head) + Len(s)
      BY <2>2
    <3>8. Len(head) \in Nat
      BY <1>10
    <3>9. sz[n + 1] = Len(head) + Len(f[n + 1])
      BY <3>2, <3>4, <3>6, <3>7, <3>8
    <3> QED BY <3>1, <3>9
  <2> HIDE DEF S
  <2> QED BY <1>1, <2>1, <2>2, Upwards
<1>12. copied \in Seq(Bytes) /\ CommandSize(cmd) = Len(copied)
  <2> DEFINE flat == FlattenSeq(texts)
  <2>1. N \in 0 .. N
    BY <1>1
  <2>2. sz[N] = Len(head) + Len(f[N])
    BY <1>11, <2>1
  <2>3. f[N] = flat /\ f[N] \in Seq(Bytes)
    BY <1>4, <1>8, <2>1
  <2>4. copied = head \o flat
    BY DEF copied
  <2> HIDE DEF flat
  <2> QED BY <1>9, <1>10, <2>2, <2>3, <2>4, Concatenates
<1>13. Serialize(cmd) = copied
  <2> DEFINE len == Len(copied)
  <2>1. len \in Nat /\ CommandSize(cmd) = len
    BY <1>12
  <2>2. Min({len, len}) = len
    <3> HIDE DEF len
    <3>1. {len, len} \in SUBSET Nat /\ {len, len} # {}
      BY <2>1
    <3>2. Min({len, len}) \in {len, len}
      BY <3>1, MinIsLeast, Zenon
    <3> QED BY <3>2
  <2>3. SubSeq(copied, 1, len) = copied
    BY <1>12, SubSeqFull
  <2>4. Serialize(cmd) = SubSeq(copied, 1, Min({len, len}))
    BY <1>7, <2>1
  <2> HIDE DEF len
  <2> QED BY <2>2, <2>3, <2>4
<1> QED BY <1>6, <1>12, <1>13 DEF r

-----------------------------------------------------------------------------
(* What writing relies on: module CommandStream, of a server that parses    *)
(* what is serialized.                                                      *)

Server == INSTANCE CommandStream WITH BytesOf <- Serialize, Reads <- Commanded

\* the commands from an offset on, given those behind it
CommandsAt(bytes, at, commands) == ReadAt(bytes, RawParse(bytes, "keep_result"), at, commands)

\* What the server reads at an offset depends on nothing but what is behind it.
LEMMA CommandsAtSame ==
  ASSUME NEW B, NEW bytes \in Seq(B), NEW at \in 0 .. Len(bytes), NEW g, NEW h,
         \A later \in at + 1 .. Len(bytes) : g[later] = h[later]
  PROVE  CommandsAt(bytes, at, g) = CommandsAt(bytes, at, h)
<1> DEFINE verdict == Parsed(bytes, at)
           next == at + verdict.consumed
<1>1. CASE verdict.kind = "positive"
  <2>1. Within(bytes, at, "keep_result", verdict)
    BY RawParseWithin DEF Parsed
  <2> HIDE DEF verdict
  <2>2. verdict.consumed \in 1 .. Len(bytes) - at
    BY <1>1, <2>1, WithinCases DEF Takes
  <2>3. next \in at + 1 .. Len(bytes)
    BY <2>2
  <2>4. g[next] = h[next]
    BY <2>3
  <2> HIDE DEF next
  <2> QED BY <2>4, Zenon DEF CommandsAt, ReadAt, Parsed, verdict, next
<1>2. CASE verdict.kind # "positive"
  BY <1>2, Zenon DEF CommandsAt, ReadAt, Parsed
<1> QED BY <1>1, <1>2

\* The server comes to the end of the bytes.
LEMMA CommandedExists ==
  ASSUME NEW B, NEW bytes \in Seq(B)
  PROVE  \E g : /\ Commanded(bytes) = g[0]
                /\ \A at \in 0 .. Len(bytes) : g[at] = CommandsAt(bytes, at, g)
<1> DEFINE L == Len(bytes)
           Step(at, g) == CommandsAt(bytes, at, g)
           Ends(g) == g = [at \in 0 .. L |-> Step(at, g)]
           Solves(g, k) == \A at \in L - k .. L : g[at] = Step(at, g)
           S == {k \in 0 .. L : \E g : Solves(g, k)}
<1>1. L \in Nat
  OBVIOUS
<1>2. Commanded(bytes) = (CHOOSE g : Ends(g))[0]
  BY Zenon DEF Commanded, CommandsAt
<1>3. \A g, h : \A at \in 0 .. L :
        (\A later \in at + 1 .. L : g[later] = h[later]) => Step(at, g) = Step(at, h)
  BY CommandsAtSame
<1> HIDE DEF Step, L
<1>4. 0 \in S
  <2> DEFINE g == [at \in {L} |-> Step(at, <<>>)]
  <2>1. ASSUME NEW at \in L - 0 .. L PROVE g[at] = Step(at, g)
    <3>1. at = L /\ at \in 0 .. L /\ \A later \in at + 1 .. L : FALSE
      BY <1>1
    <3>2. g[at] = Step(at, <<>>)
      BY <3>1
    <3> HIDE DEF g
    <3>3. Step(at, <<>>) = Step(at, g)
      BY <1>3, <3>1
    <3> QED BY <3>2, <3>3
  <2>2. Solves(g, 0)
    BY <2>1
  <2>3. 0 \in 0 .. L
    BY <1>1
  <2> HIDE DEF Solves, g
  <2> QED BY <2>2, <2>3
<1>5. ASSUME NEW k \in 0 .. L - 1, k \in S PROVE k + 1 \in S
  <2>1. PICK g : Solves(g, k)
    BY <1>5
  <2> DEFINE first == L - (k + 1)
             h == [at \in 0 .. L |-> IF at = first THEN Step(at, g) ELSE g[at]]
  <2>2. first \in 0 .. L /\ first + 1 = L - k
    BY <1>1
  <2>3. \A at \in first + 1 .. L : at \in 0 .. L /\ at # first /\ at \in L - k .. L
    BY <1>1, <2>2
  <2>4. \A at \in first + 1 .. L : h[at] = g[at] /\ g[at] = Step(at, g)
    BY <2>1, <2>3
  <2>5. h[first] = Step(first, g)
    BY <2>2
  <2> HIDE DEF h
  <2>6. \A at \in first .. L : Step(at, g) = Step(at, h)
    <3> TAKE at \in first .. L
    <3>1. at \in 0 .. L /\ \A later \in at + 1 .. L : later \in first + 1 .. L
      BY <1>1, <2>2
    <3> HIDE DEF first
    <3> QED BY <1>3, <2>4, <3>1
  <2>7. ASSUME NEW at \in first .. L PROVE h[at] = Step(at, h)
    <3>1. at = first \/ at \in first + 1 .. L
      BY <1>1, <2>2
    <3> HIDE DEF first
    <3> QED BY <2>4, <2>5, <2>6, <3>1
  <2>8. Solves(h, k + 1) /\ k + 1 \in 0 .. L
    BY <1>1, <2>7
  <2> HIDE DEF Solves
  <2> QED BY <2>8
<1>6. \A k \in 0 .. L : k \in S
  <2> HIDE DEF S
  <2> QED BY <1>1, <1>4, <1>5, Upwards
<1>7. PICK g : Solves(g, L)
  <2>1. L \in 0 .. L
    BY <1>1
  <2> HIDE DEF Solves
  <2> QED BY <1>6, <2>1
<1> DEFINE f == [at \in 0 .. L |-> g[at]]
<1>8. ASSUME NEW at \in 0 .. L PROVE f[at] = Step(at, f)
  <2>1. \A any \in 0 .. L : any \in L - L .. L
    BY <1>1
  <2>2. \A any \in 0 .. L : g[any] = Step(any, g) /\ f[any] = g[any]
    BY <1>7, <2>1
  <2>3. \A later \in at + 1 .. L : later \in 0 .. L
    BY <1>1
  <2> HIDE DEF f
  <2>4. Step(at, g) = Step(at, f)
    BY <1>3, <2>2, <2>3
  <2> QED BY <2>2, <2>4
<1>9. Ends(f)
  BY <1>8, Zenon
<1> HIDE DEF f, Ends
<1>10. PICK c : Ends(c) /\ Commanded(bytes) = c[0]
  BY <1>2, <1>9, Zenon
<1>11. \A at \in 0 .. L : c[at] = Step(at, c)
  BY <1>10 DEF Ends
<1> QED BY <1>10, <1>11 DEF L, Step

\* A marker from which a string is extracted is that of the string.
LEMMA StringMarked ==
  ASSUME NEW bytes, Len(bytes) \in Nat, NEW m \in Marked(Len(bytes)), NEW str,
         Extract(bytes, m) = [type |-> "string", str |-> str]
  PROVE  SubSeq(bytes, m.from + 1, m.to) = str
<1> DEFINE size == Len(bytes)
           extract == [e \in Marked(size) |-> Extract(bytes, e)]
<1>1. Visit(bytes, m, extract) = [type |-> "string", str |-> str]
  BY ExtractEquation
<1>2. m.type \in {"string", "error", "int", "nil", "array"}
  <2>1. PICK f : MarkerLevels(f, size, size) /\ Marked(size) = f[size]
    BY MarkerLevelsExist
  <2>2. \E lists : f[size] = Scalars(size) \cup ArraysOf(lists)
    <3>1. size \in 0 .. size
      OBVIOUS
    <3>2. f[size] = Scalars(size) \cup ArraysOf(IF size = 0 THEN {<<>>} ELSE Seq(f[size - 1]))
      BY <2>1, <3>1 DEF MarkerLevels
    <3> QED BY <3>2
  <2> QED BY <2>1, <2>2, MarkerCases
<1> HIDE DEF extract
<1> DEFINE v == [type |-> "string", str |-> str]
<1>3. v.type = "string" /\ v.str = str
  OBVIOUS
<1> HIDE DEF v
<1>4. m.type \in {"string", "error"} => Text(bytes, m) = v.str
  BY <1>1, <1>3 DEF Visit, v
<1>5. m.type # "int"
  BY <1>1, <1>3 DEF Visit, ExtractInt, BadLexicalCast, v
<1>6. m.type # "nil"
  BY <1>1, <1>3 DEF Visit, v
<1>7. m.type # "array"
  BY <1>1, <1>3 DEF Visit, BadLexicalCast, v
<1> QED BY <1>2, <1>3, <1>4, <1>5, <1>6, <1>7 DEF Text

\* An array of markers from which strings are extracted is that of the command of
\* these strings.
LEMMA CommandTold ==
  ASSUME Depth > 0, NEW cmd \in Sendable, NEW bytes, Len(bytes) \in Nat, NEW m \in Marked(Len(bytes)),
         Tells(bytes, m, CommandReply(cmd))
  PROVE  m.type = "array" /\ Told(bytes, m) = cmd
<1> DEFINE r == CommandReply(cmd)
           N == Len(cmd)
           size == Len(bytes)
           extract == [e \in Marked(size) |-> Extract(bytes, e)]
           found == [i \in DOMAIN m.elements |-> extract[m.elements[i]]]
           wanted == [i \in 1 .. N |-> Meaning(r.elements[i])]
<1>1. /\ r \in Nested(Depth) /\ r.wire = "*" /\ Len(r.elements) = N /\ N \in Nat
      /\ \A n \in 1 .. N : r.elements[n] = [wire |-> "$", str |-> cmd[n]]
  BY CommandIsReply
<1>2. \A n \in 1 .. N : r.elements[n] \in Nested(Depth)
  BY <1>1, ElementsAre
<1>3. Meaning(r) = [type |-> "array", elements |-> wanted]
  BY <1>1, MeaningCases
<1>4. Extract(bytes, m) = [type |-> "array", elements |-> wanted] /\ m.type = "array"
  BY <1>3 DEF Tells
<1>5. /\ DOMAIN m.elements = 1 .. Len(m.elements)
      /\ \A i \in DOMAIN m.elements : m.elements[i] \in Marked(size)
  <2>1. PICK f : MarkerLevels(f, size, size) /\ Marked(size) = f[size]
    BY MarkerLevelsExist
  <2> DEFINE lists == IF size = 0 THEN {<<>>} ELSE Seq(f[size - 1])
  <2>2. f[size] = Scalars(size) \cup ArraysOf(lists)
    <3>1. size \in 0 .. size
      OBVIOUS
    <3> QED BY <2>1, <3>1 DEF MarkerLevels
  <2>3. lists \subseteq Seq(f[size])
    <3>1. <<>> \in Seq(f[size]) /\ (size = 0 \/ size # 0)
      OBVIOUS
    <3>2. size # 0 => f[size - 1] \subseteq f[size]
      <4>1. size # 0 => size - 1 \in 0 .. size - 1 /\ (size - 1) + 1 = size
        OBVIOUS
      <4>2. \A d \in 0 .. size - 1 : f[d] \subseteq f[d + 1]
        BY <2>1, MarkerLevelsRise
      <4> QED BY <4>1, <4>2
    <3>3. CASE size = 0
      BY <3>1, <3>3
    <3>4. CASE size # 0
      <4> DEFINE lower == f[size - 1]
                 upper == f[size]
      <4>1. lists = Seq(lower) /\ lower \subseteq upper
        BY <3>2, <3>4
      <4> HIDE DEF lists, lower, upper
      <4>2. lists \subseteq Seq(upper)
        BY <4>1
      <4> QED BY <4>2 DEF upper
    <3> QED BY <3>3, <3>4
  <2> HIDE DEF lists
  <2>4. m.elements \in lists
    BY <1>4, <2>1, <2>2, MarkerCases
  <2>5. m.elements \in Seq(Marked(size))
    BY <2>1, <2>3, <2>4
  <2> QED BY <2>5
<1>6. Visit(bytes, m, extract) = [type |-> "array", elements |-> wanted]
  BY <1>4, ExtractEquation
<1> HIDE DEF extract, r, N, wanted
<1>7. found = wanted
  <2> DEFINE v == [type |-> "array", elements |-> wanted]
  <2>1. v.type = "array" /\ v.elements = wanted /\ Visit(bytes, m, extract) = v
    BY <1>6
  <2>2. Visit(bytes, m, extract) =
          IF BadLexicalCast \in Range(found) THEN BadLexicalCast
          ELSE [type |-> "array", elements |-> found]
    BY <1>4 DEF Visit
  <2> HIDE DEF v, found
  <2> QED BY <2>1, <2>2 DEF BadLexicalCast
<1>8. DOMAIN m.elements = 1 .. N
  <2>1. DOMAIN found = DOMAIN m.elements /\ DOMAIN wanted = 1 .. N
    BY DEF wanted
  <2> HIDE DEF found
  <2> QED BY <1>7, <2>1
<1>9. ASSUME NEW n \in 1 .. N PROVE SubSeq(bytes, m.elements[n].from + 1, m.elements[n].to) = cmd[n]
  <2> DEFINE e == m.elements[n]
  <2>1. e \in Marked(size)
    BY <1>5, <1>8
  <2>2. Extract(bytes, e) = Meaning(r.elements[n])
    <3>1. found[n] = wanted[n]
      BY <1>7
    <3>2. found[n] = extract[e] /\ wanted[n] = Meaning(r.elements[n])
      BY <1>8 DEF wanted
    <3>3. extract[e] = Extract(bytes, e)
      BY <2>1 DEF extract
    <3> QED BY <3>1, <3>2, <3>3
  <2>3. Meaning(r.elements[n]) = [type |-> "string", str |-> cmd[n]]
    <3> DEFINE a == [wire |-> "$", str |-> cmd[n]]
    <3>1. r.elements[n] = a /\ a \in Nested(Depth) /\ a.wire = "$" /\ a.str = cmd[n]
      BY <1>1, <1>2
    <3> HIDE DEF a
    <3> QED BY <3>1, MeaningCases
  <2> HIDE DEF e
  <2>4. SubSeq(bytes, e.from + 1, e.to) = cmd[n]
    BY <2>1, <2>2, <2>3, StringMarked
  <2> QED BY <2>4 DEF e
<1>10. Told(bytes, m) = [n \in 1 .. N |-> cmd[n]]
  BY <1>8, <1>9 DEF Told
<1>11. cmd = [n \in 1 .. N |-> cmd[n]]
  BY DEF Sendable, N
<1> QED BY <1>4, <1>10, <1>11

\* A command that is held is read, and then what is behind it.
LEMMA CommandRead ==
  ASSUME Depth > 0, NEW cmd \in Sendable, NEW B, NEW bytes \in Seq(B), NEW at \in 0 .. Len(bytes),
         Held(bytes, at, Serialize(cmd)), NEW commands
  PROVE  CommandsAt(bytes, at, commands) = <<cmd>> \o commands[at + Len(Serialize(cmd))]
<1> DEFINE r == CommandReply(cmd)
           size == Len(bytes)
           verdict == Parsed(bytes, at)
<1>1. r \in Nested(Depth) /\ Serialize(cmd) = Encode(r) /\ size \in Nat
  BY CommandIsReply, CommandsAreReplies
<1>2. PICK f : MarkerLevels(f, size, size) /\ Marked(size) = f[size]
  BY <1>1, MarkerLevelsExist
<1>3. FoundOn(f, bytes, at, r)
  BY <1>1, <1>2, ReplyFoundOn
<1> HIDE DEF r
<1>4. /\ verdict = Positive("keep_result", Len(Encode(r)), verdict.result)
      /\ Tells(bytes, verdict.result, r) /\ verdict.result \in f[size - at]
  BY <1>3 DEF FoundOn, Found
<1> HIDE DEF verdict
<1>5. verdict.kind = "positive" /\ verdict.consumed = Len(Serialize(cmd)) /\ verdict # NotEnoughData
  BY <1>1, <1>4 DEF Positive, NotEnoughData
<1>6. verdict.result \in Marked(size)
  <2> DEFINE d == size - at
  <2>1. d \in 0 .. size /\ size \in 0 .. size /\ d <= size
    BY <1>1
  <2> HIDE DEF d
  <2>2. f[d] \subseteq f[size]
    BY <1>1, <1>2, <2>1, MarkerLevelsRise
  <2> QED BY <1>2, <1>4, <2>2 DEF d
<1>7. verdict.result.type = "array" /\ Told(bytes, verdict.result) = cmd
  BY <1>1, <1>4, <1>6, CommandTold DEF r
<1> QED BY <1>5, <1>7, Zenon DEF CommandsAt, ReadAt, Parsed, verdict

\* At the end of the bytes, and where the last bytes of a command are missing, the
\* server reads nothing.
LEMMA CommandAwaited ==
  ASSUME Depth > 0, NEW B, NEW long \in Seq(B), NEW bytes \in Seq(B), Continues(long, bytes),
         NEW at \in 0 .. Len(bytes), NEW commands,
         \/ at = Len(bytes)
         \/ \E cmd \in Sendable : /\ Held(long, at, Serialize(cmd))
                                  /\ Len(bytes) < at + Len(Serialize(cmd))
  PROVE  CommandsAt(bytes, at, commands) = <<>>
<1> DEFINE early == RawParse(bytes, "keep_result")[at]
           late == RawParse(long, "keep_result")[at]
<1>1. CASE at = Len(bytes)
  <2>1. early = NotEnoughData
    BY <1>1, RawParseEquation DEF ParseAt
  <2> HIDE DEF early
  <2>2. early.kind # "positive"
    BY <2>1 DEF NotEnoughData
  <2> QED BY <2>1, <2>2, Zenon DEF CommandsAt, ReadAt, early
<1>2. CASE \E cmd \in Sendable : /\ Held(long, at, Serialize(cmd))
                                 /\ Len(bytes) < at + Len(Serialize(cmd))
  <2>1. PICK cmd \in Sendable : /\ Held(long, at, Serialize(cmd))
                                /\ Len(bytes) < at + Len(Serialize(cmd))
    BY <1>2
  <2> DEFINE r == CommandReply(cmd)
             len == Len(Serialize(cmd))
             size == Len(long)
  <2>2. r \in Nested(Depth) /\ Serialize(cmd) = Encode(r)
    BY CommandIsReply, CommandsAreReplies
  <2>3. Len(bytes) \in Nat /\ size \in Nat /\ at \in 0 .. size /\ len \in Nat
    <3>1. Len(bytes) \in Nat /\ size \in Nat /\ Len(bytes) <= size
      BY DEF Continues
    <3> QED BY <2>2, <3>1, EncodeIsSome
  <2>4. PICK f : MarkerLevels(f, size, size) /\ Marked(size) = f[size]
    BY <2>3, MarkerLevelsExist
  <2>5. FoundOn(f, long, at, r)
    BY <2>1, <2>2, <2>3, <2>4, ReplyFoundOn
  <2>6. late = Positive("keep_result", len, late.result)
    BY <2>2, <2>5 DEF FoundOn, Found, Parsed
  <2>7. Persists(bytes, at, early, late)
    BY RawParsePersists
  <2>8. Within(bytes, at, "keep_result", early)
    BY RawParseWithin
  <2> HIDE DEF early, late, r, len, size
  <2>9. late.kind = "positive" /\ late.consumed = len
    BY <2>6 DEF Positive
  <2>10. early.kind = "positive" => early.consumed \in 1 .. Len(bytes) - at
    BY <2>8, WithinCases DEF Takes
  <2>11. early = NotEnoughData
    <3>1. early # NotEnoughData => early = late
      BY <2>7 DEF Persists
    <3>2. Len(bytes) < at + len
      BY <2>1 DEF len
    <3> QED BY <2>3, <2>9, <2>10, <3>1, <3>2
  <2>12. early.kind # "positive"
    BY <2>11 DEF NotEnoughData
  <2> QED BY <2>11, <2>12, Zenon DEF CommandsAt, ReadAt, early
<1> QED BY <1>1, <1>2

\* The commands are held where their bytes are one behind the other.
LEMMA StreamedParts ==
  ASSUME Depth > 0, NEW cmds \in Seq(Sendable), NEW f, Server!Streamed(f, cmds)
  PROVE  LET N == Len(cmds) IN
         /\ N \in Nat /\ f[0] = <<>>
         /\ \A k \in 0 .. N : f[k] \in Seq(Bytes) /\ Held(f[N], 0, f[k])
         /\ \A k \in 0 .. N - 1 :
              /\ cmds[k + 1] \in Sendable /\ Len(Serialize(cmds[k + 1])) \in Nat
              /\ Len(f[k + 1]) = Len(f[k]) + Len(Serialize(cmds[k + 1]))
              /\ Held(f[N], Len(f[k]), Serialize(cmds[k + 1]))
         /\ \A k \in 0 .. N : \A j \in 0 .. k : Len(f[j]) <= Len(f[k])
<1> DEFINE N == Len(cmds)
           long == f[N]
<1>1. N \in Nat /\ \A k \in 1 .. N : cmds[k] \in Sendable
  OBVIOUS
<1>2. /\ f[0] = <<>>
      /\ \A k \in 0 .. N - 1 : f[k + 1] = f[k] \o Serialize(cmds[k + 1])
  BY DEF Server!Streamed
<1> HIDE DEF N
<1>3. ASSUME NEW k \in 0 .. N - 1
      PROVE  cmds[k + 1] \in Sendable /\ Serialize(cmds[k + 1]) \in Seq(Bytes)
  <2>1. cmds[k + 1] \in Sendable
    BY <1>1
  <2> DEFINE cmd == cmds[k + 1]
  <2> HIDE DEF cmd
  <2>2. cmd \in Sendable
    BY <2>1 DEF cmd
  <2>3. Serialize(cmd) = Encode(CommandReply(cmd)) /\ CommandReply(cmd) \in Nested(Depth)
    BY <2>2, CommandIsReply, CommandsAreReplies
  <2>4. Serialize(cmd) \in Seq(Bytes)
    BY <2>3, EncodeText DEF Texts
  <2> QED BY <2>1, <2>4 DEF cmd
<1> DEFINE T == {k \in 0 .. N : f[k] \in Seq(Bytes)}
<1>4. \A k \in 0 .. N : k \in T
  <2>1. 0 \in T
    <3>1. <<>> \in Seq(Bytes) /\ 0 \in 0 .. N
      BY <1>1
    <3>2. f[0] \in Seq(Bytes)
      BY <1>2, <3>1, Zenon
    <3> QED BY <3>1, <3>2
  <2>2. ASSUME NEW k \in 0 .. N - 1, k \in T PROVE k + 1 \in T
    <3>1. f[k + 1] = f[k] \o Serialize(cmds[k + 1])
      BY <1>2, Zenon
    <3>2. f[k + 1] \in Seq(Bytes)
      BY <1>3, <2>2, <3>1, Concatenates, ZenonT(40)
    <3>3. k + 1 \in 0 .. N
      BY <1>1
    <3> QED BY <3>2, <3>3
  <2> HIDE DEF T
  <2> QED BY <1>1, <2>1, <2>2, Upwards
<1>5. \A k \in 0 .. N : f[k] \in Seq(Bytes) /\ Len(f[k]) \in Nat
  <2>1. \A s \in Seq(Bytes) : Len(s) \in Nat
    OBVIOUS
  <2> QED BY <1>4, <2>1
<1> HIDE DEF T
<1>6. ASSUME NEW k \in 0 .. N - 1
      PROVE  /\ k \in 0 .. N /\ k + 1 \in 0 .. N
             /\ Len(Serialize(cmds[k + 1])) \in Nat
             /\ Len(f[k + 1]) = Len(f[k]) + Len(Serialize(cmds[k + 1]))
  <2>1. k \in 0 .. N /\ k + 1 \in 0 .. N
    BY <1>1
  <2> DEFINE a == f[k]
             b == Serialize(cmds[k + 1])
  <2>2. a \in Seq(Bytes) /\ b \in Seq(Bytes) /\ f[k + 1] = a \o b
    BY <1>2, <1>3, <1>5, <2>1
  <2> HIDE DEF a, b
  <2>3. Len(b) \in Nat /\ Len(f[k + 1]) = Len(a) + Len(b)
    BY <2>2, Concatenates
  <2> QED BY <2>1, <2>3 DEF a, b
<1>7. ASSUME NEW k \in 0 .. N - 1, Held(long, 0, f[k + 1])
      PROVE  Held(long, 0, f[k]) /\ Held(long, Len(f[k]), Serialize(cmds[k + 1]))
  <2> DEFINE a == f[k]
             b == Serialize(cmds[k + 1])
  <2>1. N \in 0 .. N
    BY <1>1
  <2>2. a \in Seq(Bytes) /\ b \in Seq(Bytes) /\ Held(long, 0, a \o b) /\ Len(long) \in Nat
    BY <1>2, <1>3, <1>5, <1>6, <1>7, <2>1
  <2> HIDE DEF a, b, long
  <2>3. Held(long, 0, a) /\ Held(long, 0 + Len(a), b)
    BY <2>2, HeldParts
  <2>4. 0 + Len(a) = Len(a)
    BY <2>2
  <2> QED BY <2>3, <2>4 DEF a, b
<1> DEFINE S == {k \in 0 .. N : Held(long, 0, f[k])}
<1>8. \A k \in 0 .. N : k \in S
  <2>1. ASSUME NEW k \in 0 .. N, \A j \in k + 1 .. N : j \in S PROVE k \in S
    <3>1. CASE k = N
      <4>1. Len(long) \in Nat
        BY <1>5, <3>1
      <4>2. Held(long, 0, long)
        <5> HIDE DEF long
        <5> QED BY <4>1 DEF Held
      <4> QED BY <3>1, <4>2
    <3>2. CASE k # N
      <4>1. k \in 0 .. N - 1 /\ k + 1 \in k + 1 .. N
        BY <1>1, <3>2
      <4>2. Held(long, 0, f[k + 1])
        BY <2>1, <4>1
      <4> QED BY <1>7, <4>1, <4>2
    <3> QED BY <3>1, <3>2
  <2> HIDE DEF S
  <2> QED BY <1>1, <2>1, Downwards
<1>9. ASSUME NEW k \in 0 .. N - 1 PROVE Held(long, Len(f[k]), Serialize(cmds[k + 1]))
  <2>1. k + 1 \in S
    BY <1>6, <1>8
  <2> QED BY <1>7, <2>1
<1> DEFINE U == {k \in 0 .. N : \A j \in 0 .. k : Len(f[j]) <= Len(f[k])}
<1>10. \A k \in 0 .. N : k \in U
  <2>1. 0 \in U
    <3>1. 0 \in 0 .. N /\ \A j \in 0 .. 0 : j = 0
      BY <1>1
    <3>2. Len(f[0]) <= Len(f[0])
      BY <1>5, <3>1
    <3> QED BY <3>1, <3>2
  <2>2. ASSUME NEW k \in 0 .. N - 1, k \in U PROVE k + 1 \in U
    <3>1. ASSUME NEW j \in 0 .. k + 1 PROVE Len(f[j]) <= Len(f[k + 1])
      <4>1. /\ Len(f[k]) \in Nat /\ Len(f[k + 1]) \in Nat /\ Len(f[j]) \in Nat
            /\ Len(f[k]) <= Len(f[k + 1])
        <5>1. j \in 0 .. N
          BY <1>1
        <5> DEFINE len == Len(Serialize(cmds[k + 1]))
                   low == Len(f[k])
                   high == Len(f[k + 1])
        <5>2. low \in Nat /\ high \in Nat /\ len \in Nat /\ high = low + len /\ Len(f[j]) \in Nat
          BY <1>5, <1>6, <5>1
        <5> HIDE DEF len, low, high
        <5>3. low <= high
          BY <5>2
        <5> QED BY <5>2, <5>3 DEF low, high
      <4>2. CASE j = k + 1
        BY <4>1, <4>2
      <4>3. CASE j \in 0 .. k
        <5>1. Len(f[j]) <= Len(f[k])
          BY <2>2, <4>3
        <5> QED BY <4>1, <5>1
      <4> QED BY <1>1, <4>2, <4>3
    <3> QED BY <1>6, <3>1
  <2> HIDE DEF U
  <2> QED BY <1>1, <2>1, <2>2, Upwards
<1> QED BY <1>1, <1>2, <1>3, <1>5, <1>6, <1>8, <1>9, <1>10 DEF N

\* From the first n bytes of the commands, the server reads those of them whose
\* last byte is among these.
LEMMA CommandsOfBytes ==
  ASSUME Depth > 0, NEW cmds \in Seq(Sendable), NEW f, Server!Streamed(f, cmds),
         NEW k \in 0 .. Len(cmds), NEW n \in Len(f[k]) .. Len(f[Len(cmds)]),
         k < Len(cmds) => n < Len(f[k + 1])
  PROVE  Commanded(SubSeq(f[Len(cmds)], 1, n)) = SubSeq(cmds, 1, k)
<1> DEFINE N == Len(cmds)
           long == f[N]
           bytes == SubSeq(long, 1, n)
           size(j) == Len(f[j])
<1>1. /\ N \in Nat /\ f[0] = <<>>
      /\ \A j \in 0 .. N : f[j] \in Seq(Bytes)
      /\ \A j \in 0 .. N - 1 :
           /\ cmds[j + 1] \in Sendable /\ Len(Serialize(cmds[j + 1])) \in Nat
           /\ size(j + 1) = size(j) + Len(Serialize(cmds[j + 1]))
           /\ Held(long, size(j), Serialize(cmds[j + 1]))
      /\ \A j \in 0 .. N : \A i \in 0 .. j : size(i) <= size(j)
  BY StreamedParts, ZenonT(40)
<1>2. \A j \in 0 .. N : size(j) \in Nat
  <2>1. \A s \in Seq(Bytes) : Len(s) \in Nat
    OBVIOUS
  <2> QED BY <1>1, <2>1
<1>3. /\ long \in Seq(Bytes) /\ Len(long) \in Nat /\ n \in Nat /\ size(k) <= n /\ n <= Len(long)
      /\ size(0) = 0 /\ N \in 0 .. N
  <2>1. N \in 0 .. N /\ 0 \in 0 .. N /\ k \in 0 .. N
    BY <1>1
  <2>2. long \in Seq(Bytes) /\ Len(long) \in Nat /\ size(k) \in Nat /\ size(0) = 0
    BY <1>1, <1>2, <2>1
  <2> QED BY <2>1, <2>2
<1>4. k < N => n < size(k + 1)
  OBVIOUS
<1>5. k = N => n = Len(long)
  <2>1. k = N => size(k) = Len(long)
    OBVIOUS
  <2> HIDE DEF long, size
  <2> QED BY <1>3, <2>1
<1>0. k \in 0 .. N /\ cmds \in Seq(Sendable)
  OBVIOUS
<1> HIDE DEF N, long, size
<1>6. /\ bytes \in Seq(Bytes) /\ Len(bytes) = n
      /\ \A i \in 1 .. n : bytes[i] = long[i]
  <2>1. 1 \in Int /\ n \in Int /\ \A i \in 1 .. n : long[i] \in Bytes
    BY <1>3
  <2>2. /\ SubSeq(long, 1, n) \in Seq(Bytes)
        /\ Len(SubSeq(long, 1, n)) = IF 1 <= n THEN n - 1 + 1 ELSE 0
        /\ \A i \in 1 .. n - 1 + 1 : SubSeq(long, 1, n)[i] = long[1 + i - 1]
    BY <2>1, SubSeqProperties
  <2> QED BY <1>3, <2>2
<1> HIDE DEF bytes
<1>7. Continues(long, bytes)
  BY <1>3, <1>6 DEF Continues
<1>8. PICK g : /\ Commanded(bytes) = g[0]
               /\ \A at \in 0 .. Len(bytes) : g[at] = CommandsAt(bytes, at, g)
  BY <1>6, CommandedExists
<1> DEFINE S == {i \in 0 .. k : g[size(i)] = SubSeq(cmds, i + 1, k)}
<1>9. k \in S
  <2>0. k \in 0 .. k /\ SubSeq(cmds, k + 1, k) = <<>>
    <3>1. k \in Int /\ k + 1 \in Int /\ k < k + 1 /\ k \in 0 .. k
      BY <1>0, <1>1
    <3> QED BY <3>1, SubSeqEmpty
  <2>1. size(k) \in 0 .. Len(bytes) /\ g[size(k)] = CommandsAt(bytes, size(k), g)
    BY <1>0, <1>2, <1>3, <1>6, <1>8
  <2>2. CASE k = N
    <3>1. size(k) = Len(bytes)
      BY <1>3, <1>5, <1>6, <2>2 DEF size, long
    <3>2. g[size(k)] = <<>>
      BY <1>3, <1>6, <1>7, <2>1, <3>1, CommandAwaited
    <3> QED BY <2>0, <3>2
  <2>3. CASE k # N
    <3>1. k \in 0 .. N - 1 /\ k < N
      BY <1>0, <1>1, <2>3
    <3>2. /\ cmds[k + 1] \in Sendable /\ Held(long, size(k), Serialize(cmds[k + 1]))
          /\ Len(bytes) < size(k) + Len(Serialize(cmds[k + 1]))
      BY <1>1, <1>4, <1>6, <3>1
    <3>3. g[size(k)] = <<>>
      BY <1>3, <1>6, <1>7, <2>1, <3>2, CommandAwaited
    <3> QED BY <2>0, <3>3
  <2> QED BY <2>2, <2>3
<1>10. ASSUME NEW i \in 0 .. k - 1, i + 1 \in S PROVE i \in S
  <2> DEFINE cmd == cmds[i + 1]
             text == Serialize(cmd)
             at == size(i)
  <2>1. i \in 0 .. N - 1 /\ i \in 0 .. N /\ i + 1 \in 0 .. k /\ (i + 1) + 1 = i + 2 /\ i \in 0 .. k
    BY <1>0, <1>1
  <2>2. /\ cmd \in Sendable /\ Len(text) \in Nat /\ Held(long, at, text)
        /\ size(i + 1) = at + Len(text) /\ at \in Nat /\ size(i + 1) <= size(k)
    BY <1>0, <1>1, <1>2, <2>1
  <2>3. size(k) \in Nat
    BY <1>0, <1>2
  <2>4. g[size(i + 1)] = SubSeq(cmds, i + 2, k)
    BY <1>10, <2>1
  <2> HIDE DEF at, text, cmd
  <2>5. at \in 0 .. Len(bytes) /\ at + Len(text) <= Len(bytes)
    BY <1>3, <1>6, <2>2, <2>3
  <2>6. Held(bytes, at, text)
    <3>1. ASSUME NEW j \in 1 .. Len(text) PROVE bytes[at + j] = text[j]
      <4>1. at + j \in 1 .. n
        BY <1>3, <1>6, <2>2, <2>5
      <4>2. long[at + j] = text[j]
        BY <2>2 DEF Held
      <4> QED BY <1>6, <4>1, <4>2
    <3> QED BY <2>5, <3>1 DEF Held
  <2>7. g[at] = <<cmd>> \o g[at + Len(text)]
    <3>1. g[at] = CommandsAt(bytes, at, g)
      BY <1>8, <2>5
    <3> QED BY <1>6, <2>2, <2>5, <2>6, <3>1, CommandRead DEF text
  <2>8. g[at] = SubSeq(cmds, i + 1, k)
    <3>1. <<cmds[i + 1]>> \o SubSeq(cmds, i + 2, k) = SubSeq(cmds, i + 1, k)
      <4>1. i + 1 \in 1 .. Len(cmds) /\ k \in i + 1 .. Len(cmds) /\ (i + 1) + 1 = i + 2
        BY <1>0, <1>1 DEF N
      <4> QED BY <1>0, <4>1, SubSeqRecursiveFirst
    <3> QED BY <2>2, <2>4, <2>7, <3>1 DEF cmd
  <2> QED BY <2>1, <2>8 DEF at
<1>11. 0 \in S
  <2>1. ASSUME NEW i \in 0 .. k, \A j \in i + 1 .. k : j \in S PROVE i \in S
    <3>1. CASE i = k
      BY <1>9, <3>1
    <3>2. CASE i # k
      <4>1. i \in 0 .. k - 1 /\ i + 1 \in i + 1 .. k
        BY <1>0, <3>2
      <4>2. i + 1 \in S
        BY <2>1, <4>1
      <4> QED BY <1>10, <4>1, <4>2
    <3> QED BY <3>1, <3>2
  <2>2. k \in Nat /\ 0 \in 0 .. k
    BY <1>0, <1>1
  <2> HIDE DEF S
  <2>3. \A i \in 0 .. k : i \in S
    BY <2>1, <2>2, Downwards
  <2> QED BY <2>2, <2>3
<1>12. g[0] = SubSeq(cmds, 1, k)
  <2>1. g[size(0)] = SubSeq(cmds, 0 + 1, k)
    BY <1>11
  <2> QED BY <1>3, <2>1
<1> QED BY <1>8, <1>12 DEF bytes, long, N

\* A server that parses what this library serializes reads every sequence of
\* commands, each as soon as its last byte has arrived: the hypothesis ServerReads
\* of the theorem about writing holds of Protocol::serialize and Protocol::parse,
\* whatever bytes the commands consist of.
THEOREM CommandsAreRead ==
  Depth > 0 =>
    \A cmds \in Seq(Sendable) : \A f : Server!Streamed(f, cmds) => Server!Understood(f, cmds)
BY CommandsOfBytes DEF Server!Understood
=============================================================================
