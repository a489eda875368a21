---------------------------- MODULE WriteOpProofs ----------------------------
(***************************************************************************)
(* Proofs about WriteOp, for all commands, containers, serializations,     *)
(* sizes of the buffer and pieces that the network takes.                  *)
(***************************************************************************)
EXTENDS WriteOp, SequenceTheorems, WellFoundedInduction, TLAPS

-----------------------------------------------------------------------------
(* Lemmas about the parts of a buffer.                                      *)

\* What is left of a buffer are bytes, all of them at first, none at the end.
LEMMA RestOf ==
  ASSUME NEW s \in Seq(Byte), NEW n \in 0 .. Len(s)
  PROVE  /\ Rest(s, n) \in Seq(Byte)
         /\ Len(Rest(s, n)) = Len(s) - n
         /\ Rest(s, 0) = s
         /\ n = Len(s) => Rest(s, n) = <<>>
<1>1. Len(s) \in Nat /\ \A i \in n + 1 .. Len(s) : s[i] \in Byte
  BY LenProperties, ElementOfSeq
<1>2. /\ SubSeq(s, n + 1, Len(s)) \in Seq(Byte)
      /\ Len(SubSeq(s, n + 1, Len(s)))
           = IF n + 1 <= Len(s) THEN Len(s) - (n + 1) + 1 ELSE 0
  <2> n + 1 \in Int /\ Len(s) \in Int
    BY <1>1
  <2> QED BY <1>1, SubSeqProperties
<1>3. Rest(s, 0) = s
  BY SubSeqFull DEF Rest
<1>4. n = Len(s) => Rest(s, n) = <<>>
  <2> n = Len(s) => SubSeq(s, n + 1, Len(s)) = <<>>
    BY <1>1, SubSeqEmpty
  <2> QED BY DEF Rest
<1>5. Rest(s, n) \in Seq(Byte) /\ Len(Rest(s, n)) = Len(s) - n
  <2>1. n + 1 <= Len(s) \/ n = Len(s)
    BY <1>1
  <2>2. (IF n + 1 <= Len(s) THEN Len(s) - (n + 1) + 1 ELSE 0) = Len(s) - n
    BY <1>1, <2>1
  <2> QED BY <1>2, <2>2 DEF Rest
<1> QED BY <1>3, <1>4, <1>5

\* The pieces that the next layer takes make up what was to be sent.
LEMMA TakePiece ==
  ASSUME NEW s \in Seq(Byte), NEW n \in 0 .. Len(s), NEW k \in Nat, n + k <= Len(s)
  PROVE  /\ SubSeq(s, n + 1, n + k) \in Seq(Byte)
         /\ Rest(s, n) = SubSeq(s, n + 1, n + k) \o Rest(s, n + k)
<1>1. Len(s) \in Nat /\ \A i \in n + 1 .. n + k : s[i] \in Byte
  BY LenProperties, ElementOfSeq
<1>2. SubSeq(s, n + 1, n + k) \in Seq(Byte)
  BY <1>1, SubSeqProperties
<1>3. /\ n + 1 \in 1 .. Len(s) + 1
      /\ n + k \in (n + 1) - 1 .. Len(s)
      /\ Len(s) \in n + k .. Len(s)
  BY <1>1
<1>4. SubSeq(s, n + 1, n + k) \o SubSeq(s, (n + k) + 1, Len(s)) = SubSeq(s, n + 1, Len(s))
  BY <1>3, ConcatAdjacentSubSeq
<1> QED BY <1>2, <1>4 DEF Rest

\* What is appended to the end of a sequence is appended to the whole.
LEMMA Appended ==
  ASSUME NEW s \in Seq(Byte), NEW t \in Seq(Byte), NEW u \in Seq(Byte), NEW v, v = s \o t
  PROVE  v \o u = s \o (t \o u)
<1>1. (s \o t) \o u = s \o (t \o u)
  BY ConcatAssociative
<1> QED BY <1>1

\* A beginning that something follows is a beginning of the whole.
LEMMA Beginning ==
  ASSUME NEW s \in Seq(Byte), NEW t \in Seq(Byte)
  PROVE  Len(s) <= Len(s \o t) /\ s = SubSeq(s \o t, 1, Len(s))
<1>1. /\ s \o t \in Seq(Byte) /\ Len(s \o t) = Len(s) + Len(t)
      /\ Len(s) \in Nat /\ Len(t) \in Nat
  BY ConcatProperties, LenProperties
<1>2. CASE s = <<>>
  BY <1>1, <1>2, SubSeqEmpty
<1>3. CASE s # <<>>
  <2>1. 1 \in 1 .. Len(s) /\ Len(s) \in 1 .. Len(s)
    BY <1>1, <1>3, EmptySeq
  <2>2. SubSeq(s \o t, 1, Len(s)) = SubSeq(s, 1, Len(s))
    BY <2>1, SubSeqOfConcat1
  <2> QED BY <1>1, <2>2, SubSeqFull
<1> QED BY <1>2, <1>3

\* When the buffer object knows how long its string is, a command is appended
\* to the string as it is.
LEMMA PutAppends ==
  ASSUME TypeOK, readable = Len(backend), NEW bytes \in Seq(Byte), Put(bytes)
  PROVE  /\ backend' = backend \o bytes /\ backend' \in Seq(Byte)
         /\ readable' = Len(backend') /\ readable' \in Nat
<1> DEFINE padding == [i \in 1 .. (readable - AtMost(Len(backend), readable)) |-> NUL]
<1>1. backend \in Seq(Byte) /\ Len(backend) \in Nat /\ Len(bytes) \in Nat
  BY LenProperties DEF TypeOK
<1>2. padding = <<>>
  <2>1. readable - AtMost(Len(backend), readable) = 0
    BY <1>1 DEF AtMost
  <2>2. padding = [i \in 1 .. 0 |-> NUL]
    BY <2>1
  <2>3. 1 .. 0 = {}
    OBVIOUS
  <2> QED BY <2>2, <2>3
<1>3. SubSeq(backend \o padding, 1, readable) = backend
  <2>1. backend \o padding = backend
    BY <1>1, <1>2, ConcatEmptySeq
  <2> QED BY <1>1, <2>1, SubSeqFull
<1>4. backend' = backend \o bytes /\ readable' = readable + Len(bytes)
  BY <1>3 DEF Put
<1> QED BY <1>1, <1>4, ConcatProperties

-----------------------------------------------------------------------------
(* The inductive invariant: one lemma per action.                           *)

\* At first nothing is promised and nothing is sent.
LEMMA InitIInv == Init => IInv
<1> SUFFICES ASSUME Init PROVE IInv
  OBVIOUS
<1>1. <<>> \in Seq(Byte) /\ <<>> \in Seq(Commands) /\ Len(<<>>) = 0
  BY EmptySeq
<1>2. <<>> \o <<>> = <<>>
  BY <1>1, ConcatEmptySeq
<1> QED BY <1>1, <1>2 DEF Init, IInv, TypeOK, NoResult, IdleOK, SerializeOK, WriteOK,
                          DoneOK, AbandonedOK

\* A write is called between writes; the buffer is as the last one left it.
LEMMA StartIInv ==
  ASSUME IInv, NEW cmds \in Wrappers, AsyncWrite(cmds) \/ Write(cmds)
  PROVE  IInv'
<1> USE DEF IInv
<1>1. /\ pc = "idle" /\ pc' = "serialize" /\ todo' = cmds /\ data' = <<>> /\ sent' = 0
      /\ interface' \in {"async", "sync"}
      /\ interface' = "sync" => readable = 0
      /\ UNCHANGED <<buffer, wire, tx_buff, result, history>>
  BY DEF AsyncWrite, Write, Start
<1>2. <<>> \in Seq(Byte) /\ Len(<<>>) = 0
  BY EmptySeq
<1>3. TypeOK'
  BY <1>1, <1>2, WriteAssumption DEF TypeOK, tx_buff, history
<1>4. promised = wire \o backend /\ readable = Len(backend)
  BY <1>1 DEF IdleOK
<1>5. SerializeOK'
  <2>1. readable = 0 => backend = <<>>
    BY <1>4, EmptySeq DEF TypeOK
  <2> QED BY <1>1, <1>2, <1>4, <2>1 DEF SerializeOK, OwnBuffer, tx_buff, history
<1> QED BY <1>1, <1>3, <1>5 DEF IdleOK, WriteOK, DoneOK, AbandonedOK

\* A command is serialized behind those that were promised before.
LEMMA SerializeCommandIInv ==
  ASSUME IInv, SerializeCommand
  PROVE  IInv'
<1> USE DEF IInv
<1> DEFINE cmd == Head(todo)
           bytes == BytesOf(cmd)
<1>1. /\ pc = "serialize" /\ pc' = "serialize" /\ todo # <<>>
      /\ calls' = Append(calls, cmd) /\ promised' = promised \o bytes
      /\ todo' = Tail(todo)
      /\ UNCHANGED <<buffer, wire, interface, sent, result>>
  BY DEF SerializeCommand
<1>2. cmd \in Commands /\ Tail(todo) \in Seq(Commands)
  BY <1>1, HeadTailProperties DEF TypeOK
<1>3. bytes \in Seq(Byte)
  BY <1>2, WriteAssumption
<1>4. Append(calls, cmd) \in Seq(Commands)
  BY <1>2, AppendProperties DEF TypeOK
<1>5. promised \o bytes \in Seq(Byte)
  BY <1>3, ConcatProperties DEF TypeOK
<1>6. OwnBuffer /\ sent = 0
  BY <1>1 DEF SerializeOK
<1>7. CASE interface = "async"
  <2>1. promised = wire \o backend /\ readable = Len(backend)
    BY <1>1, <1>7 DEF SerializeOK
  <2>2. Put(bytes) /\ data' = data
    BY <1>7 DEF SerializeCommand
  <2>3. /\ backend' = backend \o bytes /\ backend' \in Seq(Byte)
        /\ readable' = Len(backend') /\ readable' \in Nat
    BY <1>3, <2>1, <2>2, PutAppends
  <2>4. promised' = wire' \o backend'
    <3>1. wire \in Seq(Byte) /\ backend \in Seq(Byte)
      BY DEF TypeOK
    <3>2. promised \o bytes = wire \o (backend \o bytes)
      <4> HIDE DEF bytes
      <4> QED BY <1>3, <2>1, <3>1, Appended
    <3> QED BY <1>1, <2>3, <3>2
  <2>5. TypeOK'
    BY <1>1, <1>2, <1>4, <1>5, <2>2, <2>3 DEF TypeOK
  <2> QED BY <1>1, <1>6, <1>7, <2>3, <2>4, <2>5
          DEF IdleOK, SerializeOK, OwnBuffer, WriteOK, DoneOK, AbandonedOK
<1>8. CASE interface = "sync"
  <2>1. promised = wire \o data
    BY <1>1, <1>8 DEF SerializeOK
  <2>2. data' = data \o bytes /\ UNCHANGED tx_buff
    BY <1>8 DEF SerializeCommand
  <2>3. data' \in Seq(Byte) /\ Len(data') \in Nat
    BY <1>3, <2>2, ConcatProperties, LenProperties DEF TypeOK
  <2>4. promised' = wire' \o data'
    <3>1. wire \in Seq(Byte) /\ data \in Seq(Byte)
      BY DEF TypeOK
    <3>2. promised \o bytes = wire \o (data \o bytes)
      <4> HIDE DEF bytes
      <4> QED BY <1>3, <2>1, <3>1, Appended, SMTT(40)
    <3> QED BY <1>1, <2>2, <3>2
  <2>5. sent' \in 0 .. Len(data')
    BY <1>1, <1>6, <2>3
  <2>6. TypeOK'
    BY <1>1, <1>2, <1>4, <1>5, <2>2, <2>3, <2>5 DEF TypeOK, tx_buff
  <2> QED BY <1>1, <1>6, <1>8, <2>2, <2>4, <2>6
          DEF IdleOK, SerializeOK, OwnBuffer, WriteOK, DoneOK, AbandonedOK, tx_buff
<1> QED BY <1>7, <1>8 DEF TypeOK

\* An exception of prepare() leaves whole commands in tx_buff.
LEMMA PrepareThrowsIInv ==
  ASSUME IInv, PrepareThrows
  PROVE  IInv'
<1> USE DEF IInv
<1>1. <<>> \in Seq(Commands)
  BY EmptySeq
<1>2. TypeOK'
  BY <1>1 DEF PrepareThrows, TypeOK, tx_buff, history
<1>3. IdleOK'
  BY DEF PrepareThrows, IdleOK, SerializeOK, tx_buff, history
<1> QED BY <1>2, <1>3 DEF PrepareThrows, SerializeOK, WriteOK, DoneOK, AbandonedOK

\* What asio is given is all that is promised and not yet sent.
LEMMA InitiateIInv ==
  ASSUME IInv, Initiate
  PROVE  IInv'
<1> USE DEF IInv
<1>1. /\ pc = "serialize" /\ pc' = "write" /\ sent = 0
      /\ data' = IF interface = "async" THEN backend ELSE data
      /\ UNCHANGED <<buffer, wire, tx_buff, interface, todo, sent, result, history>>
  BY DEF Initiate, SerializeOK
<1>2. data' \in Seq(Byte) /\ Len(data') \in Nat
  BY <1>1, LenProperties DEF TypeOK
<1>3. TypeOK'
  <2>1. sent' \in 0 .. Len(data')
    BY <1>1, <1>2
  <2> QED BY <1>1, <1>2, <2>1 DEF TypeOK, tx_buff, history
<1>4. WriteOK'
  <2>1. promised' = wire' \o data'
    BY <1>1 DEF TypeOK, SerializeOK, tx_buff, history
  <2>2. Rest(data', sent') = data'
    BY <1>1, <1>2, RestOf
  <2>3. OwnBuffer'
    BY <1>1 DEF SerializeOK, OwnBuffer, tx_buff
  <2>4. interface' = "async" => data' = backend' /\ readable' = Len(backend')
    BY <1>1 DEF SerializeOK, tx_buff
  <2> QED BY <2>1, <2>2, <2>3, <2>4 DEF WriteOK
<1> QED BY <1>1, <1>3, <1>4 DEF IdleOK, SerializeOK, DoneOK, AbandonedOK

\* A piece moves from what is yet to be sent to the wire.
LEMMA TransferIInv ==
  ASSUME IInv, NEW bytes \in 1 .. Len(data), Transfer(bytes)
  PROVE  IInv'
<1> USE DEF IInv
<1> DEFINE piece == SubSeq(data, sent + 1, sent + bytes)
<1>1. /\ pc = "write" /\ sent + bytes <= Len(data)
      /\ wire' = wire \o piece /\ sent' = sent + bytes
      /\ UNCHANGED <<buffer, tx_buff, pc, interface, todo, data, result, history>>
  BY DEF Transfer
<1>2. data \in Seq(Byte) /\ sent \in 0 .. Len(data) /\ bytes \in Nat /\ Len(data) \in Nat
  BY LenProperties DEF TypeOK
<1>3. piece \in Seq(Byte) /\ Rest(data, sent) = piece \o Rest(data, sent + bytes)
  BY <1>1, <1>2, TakePiece
<1>4. sent + bytes \in 0 .. Len(data)
  BY <1>1, <1>2
<1>5. Rest(data, sent + bytes) \in Seq(Byte)
  BY <1>2, <1>4, RestOf
<1>6. TypeOK'
  <2>1. wire \o piece \in Seq(Byte)
    BY <1>3, ConcatProperties DEF TypeOK
  <2> QED BY <1>1, <1>4, <2>1 DEF TypeOK, tx_buff, history
<1>7. WriteOK'
  <2>1. promised = wire \o (piece \o Rest(data, sent + bytes))
    BY <1>1, <1>3 DEF WriteOK
  <2>2. promised = (wire \o piece) \o Rest(data, sent + bytes)
    <3>1. wire \in Seq(Byte)
      BY DEF TypeOK
    <3>2. (wire \o piece) \o Rest(data, sent + bytes)
            = wire \o (piece \o Rest(data, sent + bytes))
      <4> HIDE DEF piece
      <4> QED BY <1>3, <1>5, <3>1, Appended
    <3> QED BY <2>1, <3>2
  <2>3. OwnBuffer'
    BY <1>1 DEF WriteOK, OwnBuffer, tx_buff
  <2> QED BY <1>1, <2>2, <2>3 DEF WriteOK, tx_buff, history
<1> QED BY <1>1, <1>6, <1>7 DEF IdleOK, SerializeOK, DoneOK, AbandonedOK

\* The operation ends, with success when nothing is left to be sent, and asio
\* consumes what was transferred.
LEMMA EndIInv ==
  ASSUME IInv, Finish \/ Fail
  PROVE  IInv'
<1> USE DEF IInv
<1>1. /\ pc = "write" /\ pc' = "done"
      /\ result' = [ec |-> IF sent = Len(data) THEN "none" ELSE "error",
                    bytes_transferred |-> sent]
      /\ UNCHANGED <<buffer, wire, interface, todo, data, sent, history>>
  BY DEF Finish, Fail, End, TypeOK
<1>2. data \in Seq(Byte) /\ sent \in 0 .. Len(data) /\ Len(data) \in Nat /\ sent \in Nat
  BY LenProperties DEF TypeOK
<1>3. Rest(data, sent) \in Seq(Byte) /\ Len(Rest(data, sent)) = Len(data) - sent
  BY <1>2, RestOf
<1>4. interface = "async" =>
        /\ backend' = Rest(data, sent)
        /\ readable' = IF buffer = "streambuf" THEN Len(data) - sent ELSE Len(data)
  BY <1>1 DEF Finish, Fail, End, WriteOK
<1>5. interface = "sync" => UNCHANGED tx_buff
  BY DEF Finish, Fail, End
<1>6. backend' \in Seq(Byte) /\ readable' \in Nat
  <2>1. CASE interface = "async"
    BY <1>2, <1>3, <1>4, <2>1
  <2>2. CASE interface = "sync"
    BY <1>5, <2>2 DEF TypeOK, tx_buff
  <2> QED BY <2>1, <2>2 DEF TypeOK
<1>7. TypeOK'
  <2>1. result' \in [ec : {"none", "error"}, bytes_transferred : Nat]
    BY <1>1, <1>2
  <2> QED BY <1>1, <1>6, <2>1 DEF TypeOK, history
<1>8. DoneOK'
  <2>1. OwnBuffer' /\ promised' = wire' \o Rest(data', sent')
    BY <1>1, <1>5 DEF WriteOK, OwnBuffer, tx_buff, history
  <2>2. result'.bytes_transferred = sent'
        /\ result'.ec = IF sent' = Len(data') THEN "none" ELSE "error"
    BY <1>1
  <2>3. interface' = "async" =>
          /\ backend' = Rest(data', sent')
          /\ readable' = IF buffer' = "streambuf" THEN Len(backend') ELSE Len(data')
    BY <1>1, <1>3, <1>4
  <2> QED BY <2>1, <2>2, <2>3 DEF DoneOK
<1> QED BY <1>1, <1>7, <1>8 DEF IdleOK, SerializeOK, WriteOK, AbandonedOK

\* The callback leaves a buffer that is empty, in the eyes of its object too,
\* when the write has succeeded; after a failure nothing more is sent.
LEMMA WriteCallbackIInv ==
  ASSUME IInv, WriteCallback
  PROVE  IInv'
<1> USE DEF IInv
<1> DEFINE bytes == AtMost(result.bytes_transferred, readable)
<1>1. /\ pc = "done"
      /\ pc' = IF result.ec = "none" THEN "idle" ELSE "abandoned"
      /\ result' = NoResult
      /\ interface = "sync" => UNCHANGED tx_buff
      /\ interface = "async" => /\ backend' = Rest(backend, AtMost(bytes, Len(backend)))
                               /\ readable' = readable - bytes
      /\ UNCHANGED <<buffer, wire, interface, todo, data, sent, history>>
  BY DEF WriteCallback
<1>2. /\ data \in Seq(Byte) /\ sent \in 0 .. Len(data) /\ Len(data) \in Nat /\ sent \in Nat
      /\ backend \in Seq(Byte) /\ Len(backend) \in Nat /\ readable \in Nat
      /\ promised \in Seq(Byte) /\ wire \in Seq(Byte)
  BY LenProperties DEF TypeOK
<1>3. /\ bytes \in 0 .. readable /\ AtMost(bytes, Len(backend)) \in 0 .. Len(backend)
  BY <1>1, <1>2 DEF DoneOK, AtMost
<1>4. backend' \in Seq(Byte) /\ readable' \in Nat
  <2>1. CASE interface = "async"
    BY <1>1, <1>2, <1>3, <2>1, RestOf
  <2>2. CASE interface = "sync"
    BY <1>1, <1>2, <2>2 DEF tx_buff
  <2> QED BY <2>1, <2>2 DEF TypeOK
<1>5. TypeOK'
  <2>1. pc' \in {"idle", "serialize", "write", "done", "abandoned"}
    BY <1>1
  <2>2. result' \in [ec : {"none", "error"}, bytes_transferred : Nat]
    BY <1>1 DEF NoResult
  <2> QED BY <1>1, <1>4, <2>1, <2>2 DEF TypeOK, history
<1>6. promised = wire \o Rest(data, sent) /\ Rest(data, sent) \in Seq(Byte)
  BY <1>1, <1>2, RestOf DEF DoneOK
<1>7. IdleOK'
  <2> SUFFICES ASSUME pc' = "idle"
               PROVE  promised' = wire' \o backend' /\ readable' = Len(backend')
    BY DEF IdleOK
  <2>1. sent = Len(data) /\ Rest(data, sent) = <<>>
    BY <1>1, <1>2, RestOf DEF DoneOK
  <2>2. Len(<<>>) = 0
    BY EmptySeq
  <2>3. backend' = <<>> /\ readable' = 0
    <3>1. CASE interface = "async"
      <4>1. backend = <<>> /\ Len(backend) = 0
        BY <1>1, <2>1, <2>2, <3>1 DEF DoneOK
      <4>2. result.bytes_transferred = sent
        BY <1>1 DEF DoneOK
      <4>3. readable = IF buffer = "streambuf" THEN 0 ELSE sent
        BY <1>1, <2>1, <3>1, <4>1 DEF DoneOK
      <4>4. bytes = readable /\ AtMost(bytes, Len(backend)) = 0
        BY <1>2, <4>1, <4>2, <4>3 DEF AtMost
      <4>5. Rest(backend, 0) = backend
        BY <1>2, RestOf
      <4> QED BY <1>1, <1>2, <3>1, <4>1, <4>4, <4>5
    <3>2. CASE interface = "sync"
      BY <1>1, <3>2 DEF DoneOK, OwnBuffer, tx_buff
    <3> QED BY <3>1, <3>2 DEF TypeOK
  <2>4. promised' = wire' \o <<>>
    BY <1>1, <1>6, <2>1 DEF history
  <2> QED BY <2>2, <2>3, <2>4
<1>8. AbandonedOK'
  <2>1. Len(wire) <= Len(promised) /\ wire = SubSeq(promised, 1, Len(wire))
    BY <1>2, <1>6, Beginning
  <2> QED BY <1>1, <2>1 DEF AbandonedOK, WireIsWhole, history
<1> QED BY <1>1, <1>5, <1>7, <1>8 DEF SerializeOK, WriteOK, DoneOK

\* Nothing changes in a step of somebody else.
LEMMA StutterIInv == IInv /\ UNCHANGED vars => IInv'
BY DEF vars, IInv, TypeOK, IdleOK, SerializeOK, WriteOK, DoneOK, AbandonedOK, OwnBuffer,
       WireIsWhole

\* The inductive invariant: in every state of every behaviour, the bytes on the
\* wire and the bytes the connection has yet to send make up what was promised.
THEOREM WriteInvariant == Spec => []IInv
<1>1. IInv /\ [Next]_vars => IInv'
  <2> SUFFICES ASSUME IInv, [Next]_vars PROVE IInv'
    OBVIOUS
  <2>1. CASE \E cmds \in Wrappers : AsyncWrite(cmds) \/ Write(cmds)
    BY <2>1, StartIInv
  <2>2. CASE SerializeCommand
    BY <2>2, SerializeCommandIInv
  <2>3. CASE PrepareThrows
    BY <2>3, PrepareThrowsIInv
  <2>4. CASE Initiate
    BY <2>4, InitiateIInv
  <2>5. CASE \E bytes \in 1 .. Len(data) : Transfer(bytes)
    BY <2>5, TransferIInv
  <2>6. CASE Finish \/ Fail
    BY <2>6, EndIInv
  <2>7. CASE WriteCallback
    BY <2>7, WriteCallbackIInv
  <2>8. CASE UNCHANGED vars
    BY <2>8, StutterIInv
  <2> QED BY <2>1, <2>2, <2>3, <2>4, <2>5, <2>6, <2>7, <2>8 DEF Next
<1> QED BY <1>1, InitIInv, PTL DEF Spec

-----------------------------------------------------------------------------
\* Type correctness: no count leaves the bytes it counts.
THEOREM WriteTypeCorrect == Spec => []TypeOK
<1>1. IInv => TypeOK
  BY DEF IInv
<1> QED BY <1>1, WriteInvariant, PTL

\* What the invariant says of the wire in each phase.
LEMMA IInvImpliesWhole == IInv => WireIsWhole
<1> SUFFICES ASSUME IInv PROVE WireIsWhole
  OBVIOUS
<1>1. /\ wire \in Seq(Byte) /\ backend \in Seq(Byte) /\ data \in Seq(Byte)
      /\ sent \in 0 .. Len(data)
  BY DEF IInv, TypeOK
<1>2. Rest(data, sent) \in Seq(Byte)
  BY <1>1, RestOf
<1>3. CASE promised = wire \o backend
  BY <1>1, <1>3, Beginning DEF WireIsWhole
<1>4. CASE promised = wire \o data
  BY <1>1, <1>4, Beginning DEF WireIsWhole
<1>5. CASE promised = wire \o Rest(data, sent)
  BY <1>1, <1>2, <1>5, Beginning DEF WireIsWhole
<1>6. \/ promised = wire \o backend \/ promised = wire \o data
      \/ promised = wire \o Rest(data, sent) \/ WireIsWhole
  BY DEF IInv, TypeOK, IdleOK, SerializeOK, WriteOK, DoneOK, AbandonedOK
<1> QED BY <1>3, <1>4, <1>5, <1>6

\* No byte of a command is lost, sent twice or sent inside another command,
\* for whatever commands, containers, pieces, buffers and exceptions.
THEOREM CommandsArriveWhole == Spec => []WireIsWhole
BY WriteInvariant, IInvImpliesWhole, PTL

\* A write that succeeds has sent everything.
THEOREM SuccessIsSent == Spec => []SuccessMeansSent
<1>1. IInv => SuccessMeansSent
  <2> SUFFICES ASSUME IInv, pc = "done", result.ec = "none" PROVE wire = promised
    BY DEF SuccessMeansSent
  <2>1. /\ data \in Seq(Byte) /\ sent \in 0 .. Len(data) /\ wire \in Seq(Byte)
        /\ promised = wire \o Rest(data, sent) /\ sent = Len(data)
    BY DEF IInv, TypeOK, DoneOK
  <2>2. Rest(data, sent) = <<>>
    BY <2>1, RestOf
  <2> QED BY <2>1, <2>2, ConcatEmptySeq
<1> QED BY <1>1, WriteInvariant, PTL

\* A write that fails tells how much was sent.
THEOREM FailureIsExact == Spec => []FailureTellsHowFar
<1>1. IInv => FailureTellsHowFar
  <2> SUFFICES ASSUME IInv, pc = "done", result.ec = "error"
               PROVE  /\ result.bytes_transferred < Len(data)
                      /\ Len(promised) - Len(wire) = Len(data) - result.bytes_transferred
    BY DEF FailureTellsHowFar
  <2>1. /\ data \in Seq(Byte) /\ sent \in 0 .. Len(data) /\ wire \in Seq(Byte)
        /\ promised = wire \o Rest(data, sent) /\ sent # Len(data)
        /\ result.bytes_transferred = sent
    BY DEF IInv, TypeOK, DoneOK
  <2>2. Rest(data, sent) \in Seq(Byte) /\ Len(Rest(data, sent)) = Len(data) - sent
    BY <2>1, RestOf
  <2>3. Len(promised) = Len(wire) + (Len(data) - sent)
    <3>1. Len(wire \o Rest(data, sent)) = Len(wire) + Len(Rest(data, sent))
      BY <2>1, <2>2, ConcatProperties
    <3> QED BY <2>1, <2>2, <3>1
  <2>4. Len(wire) \in Nat /\ Len(data) \in Nat
    BY <2>1, LenProperties
  <2> QED BY <2>1, <2>3, <2>4
<1> QED BY <1>1, WriteInvariant, PTL

\* The buffer is ready for the next command.
THEOREM BufferIsReady == Spec => []BufferBetweenWrites
<1>1. IInv => BufferBetweenWrites
  BY DEF IInv, IdleOK, BufferBetweenWrites
<1> QED BY <1>1, WriteInvariant, PTL

-----------------------------------------------------------------------------
(* The log of commands.                                                     *)

\* The server reads what the clients of this library write: the commands, each
\* as soon as its last byte has arrived, whatever follows.
ServerReads == \A cmds \in Seq(Commands) : \A f : Streamed(f, cmds) => Understood(f, cmds)

\* What is promised are the bytes of the commands of the calls.
Promised == \E f : Streamed(f, calls) /\ promised = f[Len(calls)]

\* At first no command is promised, then one more whenever one is serialized.
LEMMA PromisedKept ==
  /\ Init => Promised
  /\ IInv /\ Promised /\ [Next]_vars => Promised'
<1>1. ASSUME Init PROVE Promised
  <2> DEFINE f == [i \in 0 .. 0 |-> <<>>]
  <2>1. calls = <<>> /\ promised = <<>> /\ Len(calls) = 0
    BY <1>1 DEF Init
  <2>2. Streamed(f, calls) /\ promised = f[Len(calls)]
    BY <2>1 DEF Streamed
  <2> QED BY <2>2 DEF Promised
<1>2. ASSUME Promised, UNCHANGED history PROVE Promised'
  BY <1>2 DEF Promised, history
<1>3. ASSUME IInv, Promised, SerializeCommand PROVE Promised'
  <2> DEFINE cmd == Head(todo)
             n == Len(calls)
  <2>1. /\ calls' = Append(calls, cmd) /\ promised' = promised \o BytesOf(cmd)
        /\ calls \in Seq(Commands)
    BY <1>3 DEF SerializeCommand, IInv, TypeOK
  <2>2. /\ n \in Nat /\ Len(calls') = n + 1 /\ calls'[n + 1] = cmd
        /\ \A k \in 1 .. n : calls'[k] = calls[k]
    BY <2>1
  <2>3. PICK f : Streamed(f, calls) /\ promised = f[n]
    BY <1>3 DEF Promised
  <2> DEFINE g == [k \in 0 .. n + 1 |-> IF k <= n THEN f[k] ELSE promised \o BytesOf(cmd)]
  <2> HIDE DEF n, cmd
  <2>4. g[0] = <<>> /\ g[n + 1] = promised'
    BY <2>1, <2>2, <2>3 DEF Streamed
  <2>5. ASSUME NEW k \in 0 .. n PROVE g[k + 1] = g[k] \o BytesOf(calls'[k + 1])
    <3>1. g[k] = f[k] /\ k + 1 \in 0 .. n + 1
      BY <2>2
    <3>2. CASE k = n
      <4>1. g[n + 1] = promised \o BytesOf(cmd) /\ g[n] = promised
        BY <2>2, <2>3
      <4> HIDE DEF g
      <4>2. g[k + 1] = promised \o BytesOf(cmd) /\ g[k] = promised /\ calls'[k + 1] = cmd
        BY <2>2, <3>2, <4>1
      <4> QED BY <4>2, Zenon
    <3>3. CASE k < n
      <4>1. g[k + 1] = f[k + 1] /\ k \in 0 .. n - 1 /\ calls'[k + 1] = calls[k + 1]
        BY <2>2, <3>3
      <4>2. f[k + 1] = f[k] \o BytesOf(calls[k + 1])
        BY <2>3, <4>1 DEF Streamed, n
      <4> HIDE DEF g
      <4> QED BY <3>1, <4>1, <4>2
    <3>4. k = n \/ k < n
      BY <2>2
    <3> QED BY <3>2, <3>3, <3>4, Zenon
  <2> HIDE DEF g
  <2>6. Streamed(g, calls') /\ promised' = g[Len(calls')]
    <3>1. Len(calls') - 1 = n
      BY <2>2
    <3> QED BY <2>2, <2>4, <2>5, <3>1 DEF Streamed
  <2> QED BY <2>6 DEF Promised
<1>4. ASSUME [Next]_vars PROVE SerializeCommand \/ UNCHANGED history
  BY <1>4 DEF Next, vars, AsyncWrite, Write, Start, PrepareThrows, Initiate, Transfer,
              Finish, Fail, End, WriteCallback, history
<1> QED BY <1>1, <1>2, <1>3, <1>4

Lower == {p \in Nat \X Nat : p[1] < p[2]}

\* A set of natural numbers that is not empty has a least element.
LEMMA Least ==
  ASSUME NEW T \in SUBSET Nat, T # {}
  PROVE  \E x \in T : \A y \in T : x <= y
<1>1. IsWellFoundedOn(Lower, Nat)
  <2>1. OpToRel(<, Nat) = Lower
    BY Zenon DEF OpToRel, Lower
  <2> QED BY <2>1, NatLessThanWellFounded, Zenon
<1>2. PICK x \in T : \A y \in T : ~ (<<y, x>> \in Lower)
  <2>1. T \subseteq Nat
    OBVIOUS
  <2> QED BY <1>1, <2>1, WFMin, Zenon
<1>3. ASSUME NEW y \in T PROVE x <= y
  <2>1. x \in Nat /\ y \in Nat
    OBVIOUS
  <2>2. <<y, x>> \in Nat \X Nat /\ <<y, x>>[1] = y /\ <<y, x>>[2] = x
    BY <2>1
  <2>3. y < x => <<y, x>> \in Lower
    BY <2>1, <2>2 DEF Lower
  <2> QED BY <1>2, <2>1, <2>3
<1> QED BY <1>3

\* the numbers of commands behind which the n-th byte comes before the next ends
Behind(f, most, n) == {k \in 0 .. most : k = most \/ n < Len(f[k + 1])}

\* the first n bytes hold k whole commands, and not the whole of another one
Whole(f, most, n, k) == k \in Behind(f, most, n) /\ \A j \in Behind(f, most, n) : k <= j

\* Some number of commands is whole; with more bytes, no less of them.
LEMMA WholeExists ==
  ASSUME NEW most \in Nat, NEW f, NEW n \in Nat
  PROVE  \E k : Whole(f, most, n, k)
<1>1. Behind(f, most, n) \in SUBSET Nat /\ most \in Behind(f, most, n)
  BY DEF Behind
<1> QED BY <1>1, Least DEF Whole

\* Of the bytes promised, the server has read the commands that are whole in them,
\* and when it has all of the bytes, all commands.
LEMMA Executed ==
  ASSUME IInv, Promised, ServerReads
  PROVE  \E f : /\ \A n \in 0 .. Len(promised), k \in Nat :
                     Whole(f, Len(calls), n, k) =>
                       /\ Reads(SubSeq(promised, 1, n)) = SubSeq(calls, 1, k)
                       /\ k \in 0 .. Len(calls)
                /\ Reads(promised) = calls
<1> DEFINE most == Len(calls)
<1>1. /\ calls \in Seq(Commands) /\ promised \in Seq(Byte) /\ most \in Nat
      /\ Len(promised) \in Nat
  BY DEF IInv, TypeOK
<1>2. PICK f : Streamed(f, calls) /\ promised = f[most]
  BY DEF Promised
<1>3. Understood(f, calls)
  BY <1>1, <1>2 DEF ServerReads
<1>4. ASSUME NEW n \in 0 .. Len(promised), NEW k \in Nat, Whole(f, most, n, k)
      PROVE  Reads(SubSeq(promised, 1, n)) = SubSeq(calls, 1, k) /\ k \in 0 .. most
  <2>1. k \in 0 .. most /\ (k < most => n < Len(f[k + 1]))
    BY <1>1, <1>4 DEF Whole, Behind
  <2>2. Len(f[k]) <= n
    <3>1. CASE k = 0
      BY <1>2, <3>1 DEF Streamed
    <3>2. CASE k # 0
      <4>1. k - 1 \in 0 .. most /\ ~ (k <= k - 1) /\ k - 1 # most /\ (k - 1) + 1 = k
        BY <1>1, <2>1, <3>2
      <4>2. k - 1 \notin Behind(f, most, n)
        BY <1>4, <4>1 DEF Whole
      <4>3. ~ (n < Len(f[k]))
        BY <4>1, <4>2 DEF Behind
      <4> QED BY <4>3
    <3> QED BY <3>1, <3>2
  <2> QED BY <1>2, <1>3, <2>1, <2>2 DEF Understood
<1>5. Reads(promised) = calls
  <2>1. Reads(SubSeq(promised, 1, Len(promised))) = SubSeq(calls, 1, most)
    BY <1>1, <1>2, <1>3 DEF Understood
  <2>2. SubSeq(promised, 1, Len(promised)) = promised /\ SubSeq(calls, 1, most) = calls
    BY <1>1, SubSeqFull
  <2> QED BY <2>1, <2>2
<1> QED BY <1>4, <1>5

\* The first k of the commands are k.
LEMMA FirstOf ==
  ASSUME NEW cmds \in Seq(Commands), NEW k \in 0 .. Len(cmds)
  PROVE  Len(SubSeq(cmds, 1, k)) = k
<1>1. \A i \in 1 .. k : cmds[i] \in Commands
  OBVIOUS
<1>2. Len(SubSeq(cmds, 1, k)) = IF 1 <= k THEN k - 1 + 1 ELSE 0
  BY <1>1, SubSeqProperties
<1> QED BY <1>2

\* Whole commands are on the wire after a step, too.
LEMMA WholeAfter == IInv' => WireIsWhole'
BY IInvImpliesWhole, PTL

\* When the next layer takes a piece, the server may read some commands more.
LEMMA TransferExecutes ==
  ASSUME IInv, Promised, ServerReads, NEW bytes \in 1 .. Len(data), Transfer(bytes)
  PROVE  \/ \E n \in 1 .. Len(calls) : Log!Execute(n)
         \/ UNCHANGED Log!vars
<1>1. /\ pc = "write" /\ UNCHANGED <<pc, result, calls, promised>> /\ IInv'
      /\ wire' = wire \o SubSeq(data, sent + 1, sent + bytes) /\ sent + bytes <= Len(data)
  BY TransferIInv DEF Transfer, history
<1>2. /\ calls \in Seq(Commands) /\ Len(calls) \in Nat
      /\ data \in Seq(Byte) /\ sent \in 0 .. Len(data) /\ wire \in Seq(Byte) /\ wire' \in Seq(Byte)
  <2>1. TypeOK /\ TypeOK'
    BY <1>1 DEF IInv
  <2> QED BY <2>1, SMTT(40) DEF TypeOK
<1>3. /\ wire = SubSeq(promised, 1, Len(wire)) /\ Len(wire) \in 0 .. Len(promised)
      /\ wire' = SubSeq(promised, 1, Len(wire')) /\ Len(wire') \in 0 .. Len(promised)
  <2>1. WireIsWhole /\ WireIsWhole'
    BY <1>1, IInvImpliesWhole, WholeAfter
  <2> QED BY <1>1, <1>2, <2>1 DEF WireIsWhole
<1>4. Len(wire) <= Len(wire')
  <2>1. SubSeq(data, sent + 1, sent + bytes) \in Seq(Byte)
    BY <1>1, <1>2, TakePiece
  <2> QED BY <1>1, <1>2, <2>1, ConcatProperties
<1>5. PICK f : \A n \in 0 .. Len(promised), k \in Nat :
                 Whole(f, Len(calls), n, k) =>
                   /\ Reads(SubSeq(promised, 1, n)) = SubSeq(calls, 1, k)
                   /\ k \in 0 .. Len(calls)
  BY Executed
<1> DEFINE most == Len(calls)
           n == Len(wire)
           m == Len(wire')
<1>6. most \in Nat /\ n \in 0 .. Len(promised) /\ m \in 0 .. Len(promised) /\ n <= m
      /\ n \in Nat /\ m \in Nat
  BY <1>2, <1>3, <1>4
<1>7. wire = SubSeq(promised, 1, n) /\ wire' = SubSeq(promised, 1, m)
  BY <1>3
<1> HIDE DEF n, m
<1>8. PICK k, j : Whole(f, most, n, k) /\ Whole(f, most, m, j)
  <2>1. (\E k : Whole(f, most, n, k)) /\ (\E j : Whole(f, most, m, j))
    BY <1>6, WholeExists
  <2> QED BY <2>1
<1>9. k \in 0 .. most /\ j \in 0 .. most /\ k \in Nat /\ j \in Nat
  BY <1>6, <1>8 DEF Whole, Behind
<1>10. k <= j
  <2>1. j \in Behind(f, most, m)
    BY <1>8 DEF Whole
  <2>2. j \in Behind(f, most, n)
    BY <1>6, <2>1 DEF Behind
  <2> QED BY <1>8, <2>2 DEF Whole
<1>11. Reads(wire) = SubSeq(calls, 1, k) /\ Reads(wire') = SubSeq(calls, 1, j)
  <2>1. /\ Reads(SubSeq(promised, 1, n)) = SubSeq(calls, 1, k)
        /\ Reads(SubSeq(promised, 1, m)) = SubSeq(calls, 1, j)
    BY <1>5, <1>6, <1>8, <1>9
  <2> QED BY <1>7, <2>1, Zenon
<1>12. Answered = "none" /\ Answered' = "none" /\ UNCHANGED calls
  BY <1>1 DEF Answered
<1>13. CASE k = j
  <2>1. UNCHANGED Reads(wire)
    BY <1>11, <1>13
  <2> QED BY <1>12, <2>1 DEF Log!vars
<1>14. CASE k < j
  <2>1. j \in 1 .. Len(calls) /\ Len(Reads(wire)) < j
    <3>1. Len(SubSeq(calls, 1, k)) = k
      BY <1>2, <1>9, FirstOf
    <3> QED BY <1>9, <1>11, <1>14, <3>1
  <2>2. Log!Execute(j)
    BY <1>11, <1>12, <2>1 DEF Log!Execute
  <2> QED BY <2>1, <2>2
<1>15. k = j \/ k < j
  BY <1>9, <1>10
<1> QED BY <1>13, <1>14, <1>15

\* A write that ends without an error has brought all commands to the server;
\* one that ends with an error is the last.
LEMMA EndAnswers ==
  ASSUME IInv, Promised, ServerReads, Finish \/ Fail
  PROVE  Log!Succeed \/ Log!Fail
<1>1. /\ pc = "write" /\ pc' = "done" /\ UNCHANGED <<calls, wire>>
      /\ (result'.ec = "none" /\ sent = Len(data)) \/ result'.ec = "error"
  BY DEF Finish, Fail, End, history
<1>2. /\ Answered = "none" /\ UNCHANGED <<calls, Reads(wire)>>
      /\ result'.ec = "none" => Answered' = "ok"
      /\ result'.ec = "error" => Answered' = "error"
  BY <1>1 DEF Answered
<1>3. CASE result'.ec = "none" /\ sent = Len(data)
  <2>1. /\ promised = wire \o Rest(data, sent) /\ data \in Seq(Byte) /\ wire \in Seq(Byte)
        /\ sent \in 0 .. Len(data)
    BY <1>1 DEF IInv, TypeOK, WriteOK
  <2>2. Rest(data, sent) = <<>>
    BY <1>3, <2>1, RestOf
  <2>3. wire = promised
    BY <2>1, <2>2, ConcatEmptySeq
  <2>4. Reads(wire) = calls
    BY <2>3, Executed
  <2> QED BY <1>2, <1>3, <2>4 DEF Log!Succeed
<1>4. CASE result'.ec = "error"
  BY <1>2, <1>4 DEF Log!Fail
<1> QED BY <1>1, <1>3, <1>4

\* A step of a write is a step of the log, or changes nothing there.
LEMMA StepOfLog ==
  ASSUME IInv, Promised, ServerReads, [Next]_vars
  PROVE  [Log!Next]_Log!vars
<1>1. CASE \E cmds \in Wrappers : AsyncWrite(cmds) \/ Write(cmds)
  <2>1. pc = "idle" /\ pc' = "serialize" /\ UNCHANGED <<calls, wire>>
    BY <1>1 DEF AsyncWrite, Write, Start, history
  <2> QED BY <2>1 DEF Log!vars, Answered
<1>2. CASE SerializeCommand
  <2>1. /\ pc = "serialize" /\ pc' = pc /\ UNCHANGED wire
        /\ calls' = Append(calls, Head(todo)) /\ todo # <<>>
    BY <1>2 DEF SerializeCommand
  <2>2. Head(todo) \in Commands
    BY <2>1, HeadTailProperties DEF IInv, TypeOK
  <2>3. Answered = "none" /\ UNCHANGED <<Reads(wire), Answered>>
    BY <2>1 DEF Answered
  <2>4. Log!Hand(Head(todo))
    BY <2>1, <2>3 DEF Log!Hand
  <2> QED BY <2>2, <2>4 DEF Log!Next
<1>3. CASE PrepareThrows \/ Initiate
  <2>1. pc = "serialize" /\ pc' \in {"idle", "write"} /\ UNCHANGED <<calls, wire>>
    BY <1>3 DEF PrepareThrows, Initiate, history
  <2> QED BY <2>1 DEF Log!vars, Answered
<1>4. CASE \E bytes \in 1 .. Len(data) : Transfer(bytes)
  BY <1>4, TransferExecutes DEF Log!Next
<1>5. CASE Finish \/ Fail
  BY <1>5, EndAnswers DEF Log!Next
<1>6. CASE WriteCallback
  <2>1. /\ pc = "done" /\ pc' = IF result.ec = "none" THEN "idle" ELSE "abandoned"
        /\ UNCHANGED <<calls, wire>>
    BY <1>6 DEF WriteCallback, history
  <2>2. CASE result.ec = "none"
    <3>1. Log!Take
      BY <2>1, <2>2 DEF Log!Take, Answered
    <3> QED BY <3>1 DEF Log!Next
  <2>3. CASE result.ec # "none"
    BY <2>1, <2>3 DEF Log!vars, Answered
  <2> QED BY <2>2, <2>3
<1>7. CASE UNCHANGED vars
  BY <1>7 DEF vars, Log!vars, Answered
<1> QED BY <1>1, <1>2, <1>3, <1>4, <1>5, <1>6, <1>7 DEF Next

\* The writes implement the log of commands, whatever commands, containers, buffers
\* and pieces there are: a server that reads what the serializer writes gets the
\* commands of the calls, in order, each once, and all of them when a write succeeds.
THEOREM WritesImplementLog ==
  ASSUME ServerReads
  PROVE  Spec => ImplementsLog
<1>1. Init => Log!Init
  <2> SUFFICES ASSUME Init PROVE Log!Init
    OBVIOUS
  <2>1. IInv /\ Promised
    BY InitIInv, PromisedKept
  <2>2. calls = <<>> /\ wire = <<>> /\ pc = "idle"
    BY DEF Init
  <2>3. wire = promised
    BY DEF Init
  <2>4. Reads(wire) = <<>>
    BY <2>1, <2>2, <2>3, Executed
  <2> QED BY <2>2, <2>4 DEF Log!Init, Answered
<1>2. IInv /\ Promised /\ [Next]_vars => [Log!Next]_Log!vars
  BY StepOfLog
<1>3. Init => Promised
  BY PromisedKept
<1>4. IInv /\ Promised /\ [Next]_vars => Promised'
  BY PromisedKept
<1>5. Spec => []IInv
  BY WriteInvariant
<1> QED BY <1>1, <1>2, <1>3, <1>4, <1>5, PTL DEF Spec, ImplementsLog, Log!Spec
=============================================================================
