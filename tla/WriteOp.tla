------------------------------ MODULE WriteOp ------------------------------
(***************************************************************************)
(* Writing commands to a bredis connection: Connection::async_write and    *)
(* Connection::write (impl/connection.ipp) with the visitor that           *)
(* serializes one command or a container of them (impl/common.ipp), and    *)
(* the client's write callback.                                            *)
(*                                                                         *)
(* async_write() serializes into the client's tx_buff and gives asio the   *)
(* whole buffer; write() uses a buffer of its own.  asio hands the buffer  *)
(* to the next layer piece by piece and consumes at the end what was       *)
(* transferred.  The client's callback consumes it as well, as README.md   *)
(* demands.  Whether that is needed depends on the buffer: a streambuf is  *)
(* passed by reference, and asio has consumed it already; of a dynamic     *)
(* string buffer asio has a copy, which shares the string but not the size.*)
(***************************************************************************)
EXTENDS CommandStream

CONSTANTS
  Byte,         (* what commands are made of                               *)
  Commands,     (* the single commands that clients write                  *)
  Wrappers,     (* what they give to a write: sequences of commands        *)
  SizeOf(_),    (* command_size(): the bytes it makes room for             *)
  MaxSize,      (* tx_buff.max_size()                                      *)
  NUL,          (* the byte that std::string::resize() appends             *)
  MaxCalls      (* bound: how many commands a client writes                *)

ASSUME WriteAssumption ==
  /\ Wrappers \subseteq Seq(Commands)
  /\ MaxSize \in Nat
  /\ MaxCalls \in Nat
  /\ NUL \in Byte
  /\ \A cmd \in Commands : BytesOf(cmd) \in Seq(Byte) /\ SizeOf(cmd) \in Nat

VARIABLES
  buffer,       (* the type of tx_buff: "streambuf" or "dynamic"           *)
  wire,         (* the bytes that the next layer has taken                 *)
  backend,      (* the bytes stored in tx_buff                             *)
  readable,     (* tx_buff.size(), as the client's buffer object knows it  *)
  pc,           (* what the connection does next                           *)
  interface,    (* of the write in progress: "async" or "sync"             *)
  todo,         (* the commands of the wrapper not yet serialized          *)
  data,         (* the bytes being written                                 *)
  sent,         (* how many of them the next layer has taken               *)
  result,       (* [ec, bytes_transferred] for the client                  *)
  calls,        (* history: the commands serialized, in order              *)
  promised      (* history: their bytes                                    *)

tx_buff == <<backend, readable>>
history == <<calls, promised>>
vars == <<buffer, wire, backend, readable, pc, interface, todo, data, sent, result,
          calls, promised>>

NoResult == [ec |-> "none", bytes_transferred |-> 0]

\* what is left of a sequence without its first n elements
Rest(s, n) == SubSeq(s, n + 1, Len(s))
AtMost(n, bound) == IF n <= bound THEN n ELSE bound

Init ==
  /\ buffer \in {"streambuf", "dynamic"}
  /\ wire = <<>> /\ backend = <<>> /\ readable = 0
  /\ pc = "idle" /\ interface = "async"
  /\ todo = <<>> /\ data = <<>> /\ sent = 0 /\ result = NoResult
  /\ calls = <<>> /\ promised = <<>>

-----------------------------------------------------------------------------
(* Serializing.                                                             *)

\* mutant: the count of the last write is not reset
StartStale(kind, cmds) ==
  /\ Len(calls) + Len(cmds) <= MaxCalls
  /\ pc' = "serialize"
  /\ interface' = kind
  /\ todo' = cmds
  /\ data' = <<>>
  /\ UNCHANGED <<buffer, wire, tx_buff, sent, result, history>>

\* a write is called: `cmds' is what the wrapper holds
Start(kind, cmds) ==
  /\ Len(calls) + Len(cmds) <= MaxCalls
  /\ pc' = "serialize"
  /\ interface' = kind
  /\ todo' = cmds
  /\ data' = <<>>
  /\ sent' = 0
  /\ UNCHANGED <<buffer, wire, tx_buff, result, history>>

\* mutant: a client that does not wait for the end of the last write
AsyncWriteOverlapping(cmds) == pc \in {"idle", "write"} /\ Start("async", cmds)

\* Connection::async_write, which a client does not call before the last write
\* has ended
AsyncWrite(cmds) == pc = "idle" /\ Start("async", cmds)

\* Connection::write.  A client whose tx_buff still holds commands that an
\* exception left there goes on with async_write, which sends them first.
Write(cmds) == pc = "idle" /\ readable = 0 /\ Start("sync", cmds)

\* prepare(), the copies and commit(): resize() pads a string that is shorter
\* than the buffer object believes
Put(bytes) ==
  LET padding == [i \in 1 .. (readable - AtMost(Len(backend), readable)) |-> NUL]
  IN  /\ backend' = SubSeq(backend \o padding, 1, readable) \o bytes
      /\ readable' = readable + Len(bytes)

\* mutant: room is made, and committed, for a part of the command at a time
SerializeByParts ==
  /\ pc = "serialize"
  /\ todo # <<>>
  /\ LET bytes == BytesOf(Head(todo)) IN
     IF interface = "async" /\ readable + SizeOf(Head(todo)) > MaxSize
     THEN /\ Put(SubSeq(bytes, 1, AtMost(Len(bytes), MaxSize - readable)))
          /\ pc' = "idle" /\ todo' = <<>>
          /\ UNCHANGED <<data, history>>
     ELSE /\ calls' = Append(calls, Head(todo))
          /\ promised' = promised \o bytes
          /\ todo' = Tail(todo)
          /\ IF interface = "async" THEN Put(bytes) /\ data' = data
             ELSE data' = data \o bytes /\ UNCHANGED tx_buff
          /\ pc' = pc
  /\ UNCHANGED <<buffer, wire, interface, sent, result>>

\* command_serializer_visitor, one command of the container at a time
SerializeCommand ==
  /\ pc = "serialize"
  /\ todo # <<>>
  /\ interface = "async" => readable + SizeOf(Head(todo)) <= MaxSize
  /\ calls' = Append(calls, Head(todo))
  /\ promised' = promised \o BytesOf(Head(todo))
  /\ todo' = Tail(todo)
  /\ IF interface = "async"
     THEN Put(BytesOf(Head(todo))) /\ data' = data
     ELSE data' = data \o BytesOf(Head(todo)) /\ UNCHANGED tx_buff
  /\ UNCHANGED <<buffer, wire, pc, interface, sent, result>>

\* tx_buff has no room: prepare() throws std::length_error through
\* async_write; the commands before this one stay in the buffer
PrepareThrows ==
  /\ pc = "serialize"
  /\ todo # <<>>
  /\ interface = "async"
  /\ readable + SizeOf(Head(todo)) > MaxSize
  /\ pc' = "idle"
  /\ todo' = <<>>
  /\ UNCHANGED <<buffer, wire, tx_buff, interface, data, sent, result, history>>

\* mutant: asio is given as many bytes as the first command has
InitiateShort ==
  /\ pc = "serialize"
  /\ todo = <<>>
  /\ pc' = "write"
  /\ data' = IF interface = "sync" \/ calls = <<>> THEN data
             ELSE SubSeq(backend, 1, AtMost(SizeOf(Head(calls)), Len(backend)))
  /\ UNCHANGED <<buffer, wire, tx_buff, interface, todo, sent, result, history>>

\* asio is given the buffer
Initiate ==
  /\ pc = "serialize"
  /\ todo = <<>>
  /\ pc' = "write"
  /\ data' = IF interface = "async" THEN backend ELSE data
  /\ UNCHANGED <<buffer, wire, tx_buff, interface, todo, sent, result, history>>

-----------------------------------------------------------------------------
(* asio's write and async_write.                                            *)

\* the next layer takes some bytes
Transfer(bytes) ==
  /\ pc = "write"
  /\ sent + bytes <= Len(data)
  /\ wire' = wire \o SubSeq(data, sent + 1, sent + bytes)
  /\ sent' = sent + bytes
  /\ UNCHANGED <<buffer, tx_buff, pc, interface, todo, data, result, history>>

\* the end of the operation: what was transferred is consumed, from a
\* streambuf or from the string that asio's copy of the buffer shares
End(ec) ==
  /\ pc = "write"
  /\ pc' = "done"
  /\ result' = [ec |-> ec, bytes_transferred |-> sent]
  /\ IF interface = "sync" THEN UNCHANGED tx_buff
     ELSE /\ backend' = Rest(backend, sent)
          /\ readable' = IF buffer = "streambuf" THEN readable - sent ELSE readable
  /\ UNCHANGED <<buffer, wire, interface, todo, data, sent, history>>

Finish == sent = Len(data) /\ End("none")

\* the connection is reset or closed, or the operation is cancelled
Fail == sent < Len(data) /\ End("error")

-----------------------------------------------------------------------------
(* The client.                                                              *)

\* mutant: the callback does not consume
WriteCallbackForgetful ==
  /\ pc = "done"
  /\ pc' = IF result.ec = "none" THEN "idle" ELSE "abandoned"
  /\ result' = NoResult
  /\ UNCHANGED <<buffer, wire, tx_buff, interface, todo, data, sent, history>>

\* mutant: the connection is used again after an error
WriteCallbackGoesOn ==
  /\ pc = "done"
  /\ pc' = "idle"
  /\ result' = NoResult
  /\ IF interface = "sync" THEN UNCHANGED tx_buff
     ELSE LET bytes == AtMost(result.bytes_transferred, readable) IN
          /\ backend' = Rest(backend, AtMost(bytes, Len(backend)))
          /\ readable' = readable - bytes
  /\ UNCHANGED <<buffer, wire, interface, todo, data, sent, history>>

\* the write callback, or the caller of write(): tx_buff.consume() of the bytes
\* transferred.  After an error the connection is given up.
WriteCallback ==
  /\ pc = "done"
  /\ pc' = IF result.ec = "none" THEN "idle" ELSE "abandoned"
  /\ result' = NoResult
  /\ IF interface = "sync" THEN UNCHANGED tx_buff
     ELSE LET bytes == AtMost(result.bytes_transferred, readable) IN
          /\ backend' = Rest(backend, AtMost(bytes, Len(backend)))
          /\ readable' = readable - bytes
  /\ UNCHANGED <<buffer, wire, interface, todo, data, sent, history>>

-----------------------------------------------------------------------------
Next ==
  \/ \E cmds \in Wrappers : AsyncWrite(cmds) \/ Write(cmds)
  \/ SerializeCommand \/ PrepareThrows \/ Initiate
  \/ \E bytes \in 1 .. Len(data) : Transfer(bytes)
  \/ Finish \/ Fail
  \/ WriteCallback

Spec == Init /\ [][Next]_vars

-----------------------------------------------------------------------------
\* The types of the variables.  No position leaves the bytes it counts.
TypeOK ==
  /\ buffer \in {"streambuf", "dynamic"}
  /\ pc \in {"idle", "serialize", "write", "done", "abandoned"}
  /\ interface \in {"async", "sync"}
  /\ todo \in Seq(Commands) /\ calls \in Seq(Commands)
  /\ wire \in Seq(Byte) /\ promised \in Seq(Byte)
  /\ backend \in Seq(Byte) /\ readable \in Nat
  /\ data \in Seq(Byte)
  /\ sent \in 0 .. Len(data)
  /\ result \in [ec : {"none", "error"}, bytes_transferred : Nat]

\* The next layer has taken whole commands and the beginning of one more, in
\* the order of the calls: whatever types of buffer, interfaces, containers,
\* pieces and exceptions of prepare() came before, no byte of a command is
\* lost, sent twice, or sent in the middle of another command.
WireIsWhole == Len(wire) <= Len(promised) /\ wire = SubSeq(promised, 1, Len(wire))

\* When a write succeeds, every byte of every command written so far has been
\* taken by the next layer, those that an exception had left in tx_buff too.
SuccessMeansSent == pc = "done" /\ result.ec = "none" => wire = promised

\* When a write fails, bytes_transferred tells how far it came: what was not
\* transferred of the buffer is what the server does not get.
FailureTellsHowFar ==
  pc = "done" /\ result.ec = "error" =>
    /\ result.bytes_transferred < Len(data)
    /\ Len(promised) - Len(wire) = Len(data) - result.bytes_transferred

\* Between writes tx_buff is as long as the client's buffer object believes,
\* and holds the whole commands that an exception of prepare() left there, and
\* nothing else: the next command is serialized behind a whole command.
BufferBetweenWrites ==
  pc = "idle" =>
    /\ readable = Len(backend)
    /\ promised = wire \o backend

-----------------------------------------------------------------------------
(* The inductive invariant: the wire and the bytes yet to be sent make up   *)
(* the commands that were promised.                                         *)

OwnBuffer == interface = "sync" => backend = <<>> /\ readable = 0

IdleOK == pc = "idle" => promised = wire \o backend /\ readable = Len(backend)

SerializeOK ==
  pc = "serialize" =>
    /\ sent = 0
    /\ OwnBuffer
    /\ interface = "async" => promised = wire \o backend /\ readable = Len(backend)
    /\ interface = "sync" => promised = wire \o data

WriteOK ==
  pc = "write" =>
    /\ OwnBuffer
    /\ promised = wire \o Rest(data, sent)
    /\ interface = "async" => data = backend /\ readable = Len(backend)

DoneOK ==
  pc = "done" =>
    /\ OwnBuffer
    /\ promised = wire \o Rest(data, sent)
    /\ result.bytes_transferred = sent
    /\ result.ec = IF sent = Len(data) THEN "none" ELSE "error"
    /\ interface = "async" =>
         /\ backend = Rest(data, sent)
         /\ readable = IF buffer = "streambuf" THEN Len(backend) ELSE Len(data)

AbandonedOK == pc = "abandoned" => WireIsWhole

IInv == TypeOK /\ IdleOK /\ SerializeOK /\ WriteOK /\ DoneOK /\ AbandonedOK

-----------------------------------------------------------------------------
(* What the client may rely on.                                             *)

Answered ==
  CASE pc = "abandoned" -> "error"
    [] pc = "done" -> IF result.ec = "none" THEN "ok" ELSE "error"
    [] OTHER -> "none"

Log == INSTANCE CommandLog WITH executed <- Reads(wire), answer <- Answered

\* The writes implement the log of commands: a server that reads the wire gets
\* the commands of the calls, each with its arguments as they were given, in
\* order, each once, and all of them when the last write has succeeded.
ImplementsLog == Log!Spec
=============================================================================
