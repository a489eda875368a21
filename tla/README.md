# bredis in TLA+

A verification project for [bredis](../src/README.md), a header-only C++ client
library for Redis on top of Boost.Asio. This directory holds TLA+ modules
translated from `src/include/bredis` and from the example programs that use it,
TLC configurations that check them on small instances, and TLAPS proofs of what
matters most:

- reading replies gives the client the replies of the stream, in order, each
  exactly once, whatever the network does to the bytes;
- writing commands puts whole commands on the wire, in order, each once;
- a subscriber handles everything the server sends once, in order, and knows
  whether it is subscribed;
- a connection that several threads share through a strand is used by one of
  them at a time, and loses no command and no reply.

Contents:

- [Inventory](#inventory): the system's parts, their state, what is hard
- [Modules](#modules): which module models which part, and how
- [Runs](#runs): what TLC checks, the bounds, the fairness
- [Proofs](#proofs): what holds for every value of the constants, and why
- [Divergences](#divergences): where code and documentation disagree
- [Not modelled](#not-modelled) and [What could follow](#what-could-follow)

`tlc -config Reads.cfg MCReadOp` runs a check, `tlapm ReadOpProofs.tla` the
proofs. `PROJECT.json` lists all runs, the mutated definitions that each
property must refute, the source lines of every definition, and the hazards.

## Inventory

| part | source | state | operations |
|---|---|---|---|
| protocol parser | `impl/protocol.ipp` 21-437, `Result.hpp`, `Markers.hpp` | none (pure) | `Protocol::parse<Iterator, Policy>` |
| match condition | `impl/common.ipp` 25-75 | `matched_results_`; the search position is kept by `read_until` | `MatchResult::operator()` |
| read operation | `impl/async_op.ipp`, `impl/connection.ipp` 37-52, 74-118 | `state_`, the visitor's `count`, `cumulative_consumption`, `tmp_results`; the client's `rx_buff` | `async_read`, `read`, `op` |
| extraction | `Extract.hpp` | none (pure) | `extractor` |
| serializer | `impl/protocol.ipp` 439-491, `Command.hpp` | none (pure) | `command_size`, `serialize` |
| write operation | `impl/common.ipp` 77-93, `impl/connection.ipp` 20-35, 54-72 | the client's `tx_buff`, the bytes in flight | `async_write`, `write`, the client's callback |
| marker helpers | `MarkerHelpers.hpp` | the command given to `check_subscription` | `equality`, `check_subscription`, `stringizer` |
| error codes | `Error.hpp` | none | `make_error_code` |
| connection object | `Connection.hpp` | `stream_`, the next layer | construction, `next_layer` |
| asio, buffers | external | `rx_buff`, `tx_buff` as bytes, `max_size`, the strand's queue | `read_until`, `write`, `consume`, `cancel`, `io.run` |
| subscribers | `examples/synch-subscription.cpp`, `examples/stream-parse.cpp` | the command, `rx_buff`, the loop over the channels | subscribe, check, print |
| multi-thread example | `examples/multi-threads-1.cpp` | `ping_count`, `pong_count`, three chains of handlers, the strand | `produce`, `consume`, `watch` |
| speed test | `examples/speed_test_async_multi.cpp` | `tx_buff`, `rx_buff` | one write of many commands, one read |
| tests | `t/` | none of their own | |

**How the parts interact.** The client calls `async_read(rx_buff, n, policy)`.
The operation hands a `MatchResult(n)` to asio's `read_until`, which calls it
after every chunk; the match condition parses with the `drop_result` policy,
one reply after another, resuming behind the last reply it found. When it has
found `n` replies, or met bytes that are no reply, `op()` parses the *whole*
buffer again, now with the client's policy, and calls the client's handler with
markers into `rx_buff` and the number of bytes to consume. The handler
inspects or extracts the result, calls `rx_buff.consume(result.consumed)` and
starts the next read. `read` is the same with one reply, on the caller's
thread.

`async_write(tx_buff, commands)` makes room for each command by `command_size`,
serializes it, commits, and gives asio the whole buffer; asio hands it to the
socket piece by piece and calls the client's callback, which consumes what was
transferred. `write` does the same with a buffer of its own, on the caller's
thread. The subscribers write one command, read the replies one by one, give
the confirmations to `check_subscription` and the rest to a visitor of their
own. In the multi-thread example a chain of writes, a chain of reads and a
timer share a connection and two counters; their handlers are bound to a strand.

**What is hard.** Nothing in the library itself is multi-threaded; its README
asks for a strand. What is hard in reading is the agreement of computations made
at different times on a growing buffer. `op()` calls `std::abort()` when it does
not find what `MatchResult` found. The two use different instantiations of the
parser, which count consumed bytes in different code. Chunks split replies and
terminators at any byte, pipelined replies come in one chunk, and the end of
the stream, a cancellation, a full buffer or a protocol error may come between
any two of them. A mistake by one byte shows many reads later. In writing it is
who consumes what, and when: asio consumes a streambuf, but of a dynamic string
buffer only its own copy; the callback consumes again; an exception of
`prepare()` leaves commands behind; a failed write leaves half a command on the
wire. In the subscribers it is what one read brings along with the reply it was
started for, and what the count in a confirmation stands for. In the
multi-thread example it is the order of handlers, threads and a full network.

**What makes each part correct.**

- *parser*: a verdict once reached is final; both policies agree; a reply is
  recognised as soon as it is complete and by its own bytes; markers stay
  inside the reply.
- *reading*: no abort; a success is exactly the next `n` replies; a failure
  has a reason and loses nothing; a read does not wait for what it already has,
  and ends.
- *extraction, equality*: what is copied, or compared in place, is what the
  server meant.
- *writing*: the wire holds whole commands in the order of the calls, and a
  server that parses it gets them back; a success has sent everything, a failure
  tells how far it came; between writes the buffer is what the client thinks.
- *subscribing*: `check_subscription` confirms the subscriptions that were asked
  for and no others; every reply is handled once, in order, in the end; whoever
  listens is subscribed, whoever gives up was refused.
- *sharing a connection*: no two threads start an operation of the socket at
  once; no reply is lost or counted twice; every PING is answered.

## Modules

| module | role |
|---|---|
| `Protocol` | the parser, as functions on byte sequences |
| `ProtocolProofs` | the theorems about the parser: it ends, its verdicts persist, both policies agree |
| `Extract` | the extractor |
| `ProtocolFeed`, `MCProtocolFeed` | arbitrary bytes arrive in arbitrary chunks |
| `ProtocolFeedProofs` | the theorems about `ProtocolFeed` |
| `ProtocolReplies`, `MCProtocolReplies` | a server sends replies, the client parses, compares, extracts and consumes |
| `EncodingProofs` | the lemmas about numbers, lines and strings as they are written and read |
| `ProtocolRepliesProofs` | the theorems about `ProtocolReplies`, and what reading and writing need of the parser and the serializer |
| `ProtocolTests` | the repository's unit tests of the parser, the serializer, the extractor and `check_subscription`, asked of the model |
| `ReplyChannel` | the abstract specification of reading: ask, answer or refuse, take |
| `Framing` | what reading needs of the parser |
| `ReadOp` | the read operation, `MatchResult` and `read_until` |
| `ReadOpInvariant` | the inductive invariant of `ReadOp` |
| `MCReadOp` | instances of `ReadOp` that parse with `Protocol` |
| `ReadOpProofs` | the theorems about `ReadOp` |
| `Serializer` | `serialize` and `command_size`; the commands that a server reads from bytes |
| `CommandLog` | the abstract specification of writing: commands handed over, commands executed |
| `CommandStream` | what writing needs of the serializer and a server |
| `WriteOp` | the write operation, the client's `tx_buff` and callback |
| `MCWriteOp` | `WriteOp` with real commands, and a server that parses the wire |
| `WriteOpProofs` | the theorems about `WriteOp` |
| `MarkerHelpers` | `equality` and `check_subscription` |
| `Subscription`, `MCSubscription` | the two subscriber programs, a server and publishers |
| `SubscriptionProofs` | the theorems about `Subscription` |
| `PingPong`, `MCPingPong` | the multi-thread example |
| `PingPongProofs` | the theorems about `PingPong` |

The modules build on each other by what they hand up, not by one product of all
states. `ReadOp` takes the parser as a constant and knows of it what
`FramingAssumption` says, which `RepliesAreFramed` proves of `Protocol`; `WriteOp` takes
the serializer and a server likewise (`CommandStream`, `CommandsAreRead`);
`Subscription` and `PingPong` count in whole replies and commands, which is what
`ReadOp`, `ProtocolReplies` and `WriteOp` show them to be.

**`Protocol`.** A buffer is a sequence of one-character strings, an iterator an
offset, a marker the pair of offsets that the C++ marker holds as iterators.
`RawParse(buf, policy)` is the recursive function from offsets to verdicts; it
is written as a function so that it can be used from modules with theorems.
`strtol`, which is external, is modelled with its blanks, its sign, the empty
number and the saturation with `errno`. `LongMax` stands for `LONG_MAX` and
`ReserveMax` for the number of elements that `vector::reserve` can make room
for: `array_helper_t<keep_result>` reserves them before it has seen one, and a
count beyond that throws (`LengthError`).

**`ProtocolFeed`** says how the verdicts on the prefixes of a stream must fit
together, for bytes of any kind: `DecisionStable` (no later byte changes a
verdict), `PoliciesAgree` (unless `keep_result` throws), `AcceptedIsKept` (where
`drop_result` has accepted a reply, `keep_result` does not throw, unless the reply has
really brought more elements than there is room for), `DecidedByItsOwnBytes` (the
verdict needs all the bytes it consumes and none behind them), `MarkersInsideReply`. **`ProtocolReplies`**
says that the parser does what the Redis protocol means: `AcceptedWhenComplete`,
`ExtractsWhatWasMeant`, `EqualityFindsWhatWasMeant` (of a set of strings,
`equality` finds the one that was meant, and no other), `ConsumedToTheByte`. The
server's `Encode` is written independently of the parser.

**`ProtocolTests`** repeats `t/05-protocol.cpp` to `t/08-markers.cpp` on the
model, as three assumptions that TLC evaluates in the runs of `MCReadOp`: the inputs
that are cut short, malformed, well formed or more than one reply, the commands
that are serialized, the extractions and their exceptions, the confirmations
that pass and those that do not. It is how the translation itself is tested.

**`ReadOp`.** Positions count the bytes of the stream; `rx_buff` holds those
from `base` to `received`. `pc` is what the connection does next:

| `pc` | code | actions |
|---|---|---|
| `idle` | the client, between reads | `AsyncRead`, `Read` |
| `match` | `MatchResult::operator()`, an iteration of its loop per step | `MatchReply`, `MatchNeedsData`, `MatchError` |
| `wait` | `async_read_some` or `read_some` inside `read_until` | `Receive`, `Eof`, `Cancel` |
| `parse` | `op()`, an iteration of its loop per step; `read()` behind `read_until` | `OpError`, `ReserveThrows`, `ParseReply`, `ParseRefused` |
| `done` | the client's handler has the result | `Consume` |
| `aborted`, `thrown`, `undefined` | `std::abort()`; an exception other than the reported error escapes; an iterator in front of the buffer | none |

`PeerClose` is always possible. `at` and `matched` are the search position of
`read_until` and `matched_results_`; `begin`, `count`, `cumulative`,
`tmp_results` are the locals of `op()` and its visitor; `taken` is a history
variable, the number of replies the client was given. Before it parses, `op()` makes
room for all replies of a `keep_result` read; where there is none
(`ReserveThrows`: more than `ReserveMax` were asked for), the exception of
`reserve` leaves `op()` and the handler is not called. The parser is the
constant operator `ParseOf`: the `MC` module gives `Protocol!Parse`, the proofs
know of it only `FramingAssumption` (below). A client that does not consume its
results, which the README forbids, is not modelled here.

**`ReplyChannel`** is what a client may rely on: it asks for a number of
replies and is answered with exactly the next ones of the stream, or is refused
and has lost nothing. `ReadOp` implements it (`ImplementsChannel`) with
`asked` mapped to the operation while it is not idle and `answer` to its result
when it is done.

**`Serializer`** gives the bytes of a command and, apart from them, the size
that `command_size` computes (`SizeForInt` from the number of digits). `serialize` copies with
`buffer_copy`, which stops at the end of the room that was made, so
`Serialize` is the bytes cut to `CommandSize`.

**`WriteOp`.** `backend` is the string or memory behind `tx_buff`, `readable`
the size that the client's buffer object believes it has: the two are the same
for a streambuf, which asio takes by reference, and can differ for a dynamic
string buffer, of which asio has a copy that shares only the string.

| `pc` | code | actions |
|---|---|---|
| `idle` | the client, between writes | `AsyncWrite`, `Write` |
| `serialize` | `command_serializer_visitor`, one command of the container per step | `SerializeCommand`, `PrepareThrows`, `Initiate` |
| `write` | asio's `write` or `async_write` on the next layer | `Transfer`, `Finish`, `Fail` |
| `done` | the callback has the result | `WriteCallback` |
| `abandoned` | the client has given the connection up after an error | none |

The client obeys `README.md` 739-742 (no second write before the first has
ended) and consumes in its callback as the examples do, which is right for both kinds of
buffer: `consume` takes no more than there is. A client whose `tx_buff` holds what an exception left
behind goes on with `async_write`, which sends it first. `calls` and `promised`
are history variables. **`CommandLog`** is what that client may rely on;
`ImplementsLog` maps `executed` to what a server `Reads` from the wire. The `MC` module
gives `Serializer!Commanded`, which parses with `Protocol`: writing is checked
against the parser of the same library.

**`Subscription`.** `rx_buff` and `wire` are sequences of replies. The server
answers the command as a whole, with one confirmation per channel and the count
of the channels subscribed to by then, or refuses it with an error; publishers
publish at any time after that; the connection may be lost at any time. `Read`
takes what is in the buffer, or one reply *or more* from the socket. `pc` is
`write`, `read`, `check` (a confirmation is due: `Confirm`, `NotConfirmed`),
`print` (`PrintMessage`), and in the end `stopped` or `refused`. `client` is
the program: `stream-parse` prints only JSON payloads and uses the markers in
place, `synch-subscription` prints a copy. `check_subscription` compares the server's
word with the command's name by `std::equal`, which is not told where the name ends:
if the word begins with the name and goes on, it goes on comparing with whatever
stands in memory behind the name, which is a nondeterministic choice (`behind`). `answers`, `confirmed` and `printed`
are history variables.

**`PingPong`.** Each of the three chains is in one of the phases `waiting` (an
operation is in progress), `done` or `failed` (its handler is queued or
begins), `again` (the handler has counted and is about to start the next
operation) and `stopped`. A thread takes any chain in `ready`, one whose handler is
bound to the strand only while no other bound handler runs (`PickUp`): a thread
that has taken a completion from asio's queue may be overtaken by another before it
enters the strand, so that a PONG can be counted before its PING. `CountPing`/`Produce`,
`CountPong`/`Consume`, `WatchPings`/`WatchPongs` are the two halves of the
handlers; the other threads may step in between. The network holds `Capacity`
commands and as many replies; the server reads a command only when there is room
for its answer, the strictest server there is. `main` starts the chains before
it starts the threads, so in the first state all three wait.

## Runs

| run | shows | instance |
|---|---|---|
| `protocol_feed` | the verdicts on all prefixes of all byte strings fit together | all strings of up to 6 bytes over 7 bytes, and up to 12 bytes put together from pieces of 1 to 4, and up to 18 of whole replies, one chunk beyond a verdict; a vector holds two elements |
| `replies` | the client extracts, and finds by comparison, what the server meant, as soon as it is complete, reply after reply | two replies of some 35 kinds, byte by byte |
| `reads` | the read operation: all safety properties, the inductive invariant, the refinement; the unit tests | streams of up to three replies, with every tail; reads of 1 to 4 replies, of which a vector holds three |
| `read_live` | a read ends | streams of up to two status lines |
| `writes` | the write operation: all safety properties, the inductive invariant, the refinement | up to three commands in writes of 0 to 2, both interfaces, both buffers, every split into pieces |
| `subscribe` | the subscribers: confirmations, messages, refusals, loss of the connection, liveness | commands of 0 to 3 channels in three spellings, two messages |
| `ping_pong` | the multi-thread example: no race, nothing lost, every PING answered | three threads, a network of 2 and 2, six PINGs |
| `reserve_limit`, `read_zero`, `read_long_reply`, `repeated_channel`, `longer_word` | the [divergences](#divergences) | |

**Why the bounds are enough.** The parser tells apart the introduction bytes,
CR, LF, digits, signs and the rest; `protocol_feed` has one or two of each, so
that every branch of a line, a count, nil, a conversion error
(`LongMax = 9` makes two digits overflow), a bulk string of no bytes and its
terminator occurs within six bytes, with every split. What needs more bytes, an
array with elements, is what its second feed, of pieces, is for; the third brings a
count out of range, and puts arrays of one to three whole elements into each other, where `ReserveMax = 2` has room for two: 13 bytes are an
array of three that is accepted by one policy and makes the other throw. In `replies`
counts have one and two digits, bulk strings contain a terminator, and arrays contain
empty arrays and arrays. In `reads` the replies have between 3 and 8 bytes and
the buffer 12, so that some answers fit exactly, some overflow it, a buffer can
hold more than one reply, a reply can be cut at every byte, and a read of
two or three can end in the middle of a chunk, before a reply that is cut
short, or before bytes that are refused. In `writes` the commands have an
argument without bytes, one with a terminator and one whose length has two
digits; `MaxSize = 35` is room for two of the shorter ones and not for all pairs, so that
`prepare()` throws with and without a command in the buffer; three commands are
enough for what is left behind to meet a later write through either interface.
In `subscribe` three channels give the confirmations an order, and two messages may arrive
with the last confirmation or behind it. In `ping_pong` six PINGs are more than
the four that the network holds in both directions, so that the producer must
wait for the consumer; two of the three threads can contend for the strand while
the third returns.

**Deadlock** is checked in `read_live` and `ping_pong`: there the
system never stops (in `ping_pong` the timer goes on). The other runs say
`CHECK_DEADLOCK FALSE`: the parser runs stop at their bound on bytes, `reads` when an
exception leaves `op()` (`NoAbort` says that it is only the one of `reserve`), `writes`
after its last command or an error, `subscribe` when the client has ended or
nobody publishes.

**Named bounds.** `max_bytes` of each of `Feeds`, `Beyond` (`ProtocolFeed`),
`MaxReplies` (`ProtocolReplies`, `ReadOp`), `MaxCalls` (`WriteOp`),
`MaxPublished` (`Subscription`) and `MaxPings` (`PingPong`) bound the
input. `MaxSize` of `ReadOp` and `WriteOp`, `IntMax` of
`ReadOp`, `LongMax`, `ReserveMax` of `Protocol` and `Capacity` of `PingPong` are
limits of the program or its surroundings,
scaled down. `protocol_feed` and `reads` take a `ReserveMax` that is reached, as a count in
the stream and as the number of replies of a read. In `replies` the arrays fit a vector, and
the passing runs of `ReadOp` take a large `IntMax`: they say what holds where a length fits
an int; the violating runs show what happens otherwise.

**Fairness.** It is weak, except for `PickUp`: what has become possible stays so until it
is taken, or the operation ends otherwise.

- `read_live`: `Match` and `Complete` are steps of the thread that
  runs the `io_context`, or of the caller of `read`; `Receive` is a chunk that
  asio delivers when bytes have been sent, `Eof` the end of the stream when the
  server has closed. No fairness is assumed of the client, of `PeerClose` or of
  `Cancel`, and none of the server: `ReadCompletes` speaks only of reads whose
  replies are sent, or whose server has closed. Streams are of status lines
  there because TLC parses anew for every `ENABLED`.
- `subscribe`: the client is a loop on one thread (`ClientNext`), and a server
  answers what it has received. Nobody has to publish and nothing has to fail.
- `ping_pong`: the network moves what it can, the server answers, and each thread
  goes on with the handler it runs. The handlers of each chain are taken up under *strong*
  fairness: a bound handler can be taken only when the strand is free, which it is again
  and again and not all the time; asio's queue and that of the strand are first in, first
  out, so that a thread may be overtaken on the way from one to the other, but not for
  ever. The timer may be late for ever.

**Mutants.** Each property of each passing run is refuted by a definition
changed as a slip in the code would change it: `BulkStringEarly` waits for
one byte too few, `MatchNeedsDataRestarts` loses the position and keeps
the count, `PushForgetful` forgets to count in one of the two policies,
`AsyncWriteOverlapping` does not wait for the last write, `BoundButConsumer`
leaves one handler outside the strand, and so on.
They stand before the definition they change, marked `mutant`.

## Proofs

Eight modules hold theorems. Three are about the parser alone, which has no state:
`ProtocolProofs`, `ProtocolFeedProofs` and `EncodingProofs` rest on inductions over
the buffer. In the other five none of the properties is inductive as it stands; each
of them rests on an inductive invariant `IInv`, with one lemma per action,
and derives the properties from it.

### Parsing

`ProtocolProofs` is about `Protocol` alone, for every buffer, policy, `LongMax`
and `ReserveMax`:

| theorem | |
|---|---|
| `RawParseWithin` | at every offset `raw_parse` returns what `parse_result_t` has an alternative for, takes at least one byte and only bytes that are there; or it throws, in `keep_result`, for a count beyond `ReserveMax` |
| `RawParsePersists` | a verdict on a buffer is the verdict on every buffer that continues it; and what a longer buffer accepts is accepted as soon as its own bytes are there |
| `RawParseAgrees` | `drop_result` says what `keep_result` says, unless the latter throws |

`ProtocolFeedProofs` derives from them the properties that `protocol_feed` checks
on short strings, for bytes of any kind and length, in any chunks, nested as deeply
as they come: `FeedTypeOK`, `FeedPoliciesAgree`,
`FeedDecisionStable`, `FeedDecidedByItsOwnBytes`, `FeedMarkersInsideReply`. The first
two hold for any `LongMax` and `ReserveMax`, and allow that `keep_result` throws.
`FeedKeepsAccepted` says when it does not: where `drop_result` has accepted a reply of
less than `3 * (ReserveMax + 2)` bytes. A count that throws is thus refused or
still waited for by `MatchResult`, unless its elements are really there; `reserve_limit`
shows the former.

**Along which argument.** `RawParse` is a recursive function from offsets, of which
`parse[at]` uses `parse` at later offsets. The library's induction theorems
cannot be used here (below), but the well-foundedness of the natural numbers can,
which is a fact without operator parameters: `Least`, `Upwards` and `Downwards` are
induction over a *set* of numbers. `RawParseExists` constructs the function
downwards from the end of the buffer, and only then `RawParseEquation` may use its
equation; likewise for the loops of an array (`LoopEnds`) and of a number
(`NumberIsInt`). Then there is a lemma for each kind of reply and each claim
(`LineWithin`, `CountPersists`, `BulkStringAgrees`, ...), which for an array takes
the claim at the later offsets for granted (`ParsesBehind`), and each theorem is one
induction downwards from the end of the buffer. The loop over the elements grows with each of
them by at least a byte (`LoopGrows`), so a count that no buffer can hold is
`not_enough_data`.

`MarkersInsideReply` speaks of the leaves of a result, that is, of flattening it
once for every byte of the buffer. `Row` describes what is left after some rounds: a row
of markers, each inside the bytes of its own element, in order and apart from each
other, where those that are still arrays start `deep` bytes into the buffer at
least (`RowJoin` puts rows behind each other, `ElementsRow` unfolds an array into a
row one byte further in). An array that is still there after as many rounds as the buffer has bytes would
start behind its end, so there is none (`LeavesRow`).

`AcceptedIsKept` weighs the bytes: the head of a reply takes three bytes or more
(`HeadTakesThree`), and so does each element of an array. A reply is `Heavy` if it has as
many bytes as a head and more elements than a vector holds; `RoundsTakeThree` counts the
rounds of an array's loop, and `RawParseHeavy` is the induction: where `keep_result` throws
and `drop_result` accepts, the reply is heavy, for the array whose count throws is, and whatever
it is nested in.

### What was meant

`ProtocolRepliesProofs` proves the five properties of `ProtocolReplies`, for every set
of replies, of any number, that fit the limits: the length of a string and the count
of an array fit a `long`, an array has no more elements than `vector::reserve` makes
room for, a line has no terminator in it (`Scalar`, `ArraysOver`).

| theorem | |
|---|---|
| `RepliesInv` | `Spec => []IInv`: what is in the buffer and what is unsent are, one behind the other, the encodings of the replies not consumed, and only bytes of the last one are unsent |
| `RepliesAccepted` | either policy accepts exactly what is complete |
| `RepliesExtracted`, `RepliesEquality` | the markers lead the extractor and `equality` to what the server meant |
| `RepliesConsumed`, `RepliesTypeOK` | what is consumed ends where the reply ends |
| `RepliesAreFramed` | what `ReadOp` assumes of the parser holds of `Protocol!Parse` |
| `CommandsAreReplies` | a command is serialized as the array of bulk strings that it is, and `command_size` makes room for exactly these bytes |
| `CommandsAreRead` | what the theorem about writing assumes of a server holds of one that parses with `Protocol` |

**From what.** `RepliesAssumption` says that the replies are such replies, in arrays
nested at most `Depth` deep, for any `Depth`; `LimitsAssumption` that `LongMax` and
`ReserveMax` are numbers. Nothing is assumed of the parser: the theorems are about
`Protocol`, `Extract` and `MarkerHelpers` as they stand. (`Letters` are the bytes of
texts besides those of the protocol. They are a constant since the characters of a
string cannot be told apart in a proof.)

**Along which argument.** The invariant is short; what is long is that the parser
undoes the encoding. `EncodingProofs` has the parts: the digits that are printed for
a number are read as that number by `strtol` (`DecimalSpells`, `StrtolOfPrinted`), and a text
that is `Held` by the buffer at an offset, with a terminator behind it, is found by
the line parser (`LineHeld`), as are a count, a bulk string and the elements of
an array behind their head (`CountHeld`, `BulkStringHeld`, `ArrayHeld`). `FlattenSeq`, a
fold, is unfolded at both ends (`FlattenTail`, `FlattenAppend`).

`Encode`, `Meaning` and `Extract` go down the nesting of a reply or of a marker. They
are recursive functions on sets that are built in levels (`Nested`, `Marked`), so that their
equations can be had from an induction over the level, a number (`LevelsExist`,
`EncodeExists`, `EncodeEquation`, `ExtractEquation`); `ReplyInduction` is then
induction over replies. `Found` says that `keep_result` finds a reply at an offset, with its
length and a marker that `Tells` what was meant; one lemma per kind of
reply (`LineFound`, `NilFound`, `BulkStringFound`, `ArrayFound`), of which the last takes
for granted that the elements are found behind (`FoundBehind`), and one induction
downwards from the end of the buffer (`ReplyFoundOn`). `RawParseAgrees` carries it to
`drop_result` (`ReplyParsed`), and `RawParsePersists` says that nothing is found before the last
byte is there (`ReplyAwaited`). `Verdicts` puts these together for the states of
`ProtocolReplies`. `RepliesAreFramed` puts them together for the windows of a
stream (`StreamOf`): replies one behind the other, and behind them a tail in which
either policy, for the same reason, finds no reply (`NoReply`), however little of it has
arrived (`TailRefused`).

Commands are replies too (`CommandReply`), if they are `Sendable`: their arguments are
texts whose lengths fit a `long`, no more of them than a `long` and `vector::reserve`
can take; and `Depth > 0`, so that there are arrays of strings. The digits that `size_for_int` counts are those
that are printed (`SizeCounts`), so nothing of a command is cut off. `CommandRead` says
what the parser, and the server's `Commanded`, make of a command that is held,
`CommandAwaited` that nothing is read where its last byte is missing, and
`CommandsOfBytes` goes over the commands backwards, from the last one that has arrived.

### Reading

`ReadOpProofs` proves, for every set of streams, every chunking, `MaxSize`,
number of reads, `ReplyCounts` and policy:

| theorem | |
|---|---|
| `Invariant` | `Spec => []IInv` |
| `TypeCorrect`, `NeverAborts`, `SuccessIsExact`, `FailureIsJustified`, `AnsweredReadDoesNotWait`, `BufferStartsAtReply` | the safety properties that `reads` checks |
| `ReadsImplementChannel` | `Spec => ImplementsChannel`: `ReadOp` implements `ReplyChannel` |

**From what.** Three assumptions are in `ReadOp`, and TLC evaluates them on
every run of `MCReadOp`, that is with the parser of `Protocol`:

- `ConstantsAssumption`: types.
- `StreamsAssumption`: a reply ends behind its beginning, inside the stream.
- `FramingAssumption`: at the start of a reply the parser says
  `not_enough_data` until the reply is complete and then accepts exactly its
  bytes, whatever follows; behind the last reply it never accepts, and both
  policies refuse the same.

The last two are not taken on trust: `RepliesAreFramed` proves them (`Divided`,
`Framed`) of `Protocol!Parse` for every stream of encoded replies, behind which
there may be the beginning of a reply or anything that both policies refuse alike. The
streams of `MCReadOp` are of that kind.

Two conditions are hypotheses of the theorems and not assumptions of the
module, since the code does not establish them: `CountsPositive` (nobody reads
zero replies) and `RepliesFitInt` (no reply is longer than an int can tell).
`read_zero` and `read_long_reply` show that each is needed.

**Along which argument.** That `op()` does
not abort depends on what `MatchResult` established before, which depends on
where it resumed after every chunk. `IInv` has one conjunct per phase:
`MatchOK` (the search position is the end of the `matched` replies behind those
taken), `WaitOK` (it waits only for a reply that is not there), `ErrorOK` (a
failure came although nothing of the answer was lost), `MatchEnded` (matching
ended behind all replies, or before bytes that are refused) and `ParseOK`
(`op()` has parsed a prefix of what was matched). The key lemma, `ParsesRest`,
turns `MatchEnded` into what `op()` will meet: a reply where one was matched, a
protocol error otherwise, never `not_enough_data`. `SuccessFields` and
`FailureFields` state the results the client is given; there is one lemma per
action (`StartIInv`, `MatchReplyIInv`, ...), and `ChannelStep` maps each step to
a step of `ReplyChannel` or to a stutter. `NeverAborts` is proved for every
`ReserveMax`; where a client asks for more, `NoAbort` lets the exception of `reserve`
escape, and the channel never answers.

### Writing

`WriteOpProofs` proves, for every set of commands, serialization, container, size limit,
kind of buffer and split into pieces:

| theorem | |
|---|---|
| `WriteInvariant` | `Spec => []IInv` |
| `WriteTypeCorrect`, `CommandsArriveWhole`, `SuccessIsSent`, `FailureIsExact`, `BufferIsReady` | the safety properties that `writes` checks |
| `WritesImplementLog` | `Spec => ImplementsLog`: `WriteOp` implements `CommandLog` |

**From what.** `WriteAssumption` is of types only: it does *not* say that
`command_size` is right, since `BytesOf` is what `serialize` leaves in the room that was
made. The refinement alone has a hypothesis, `ServerReads`: from the first
bytes of any sequence of commands (`Streamed`), a server reads those commands that
have arrived to their last byte (`Understood`, of module `CommandStream`). This is where
a wrong `command_size` would show. It is not taken on trust: `CommandsAreRead` proves it of
`Serializer!Serialize` and `Serializer!Commanded`.

**Along which argument.** The invariant says in every phase that *the wire and what is
yet to be sent make up what was promised* (`promised = wire \o Rest(data, sent)`), and
where `tx_buff` stands: untouched while asio writes, ahead of the callback by what asio
has consumed in `done`, and exactly as long as the client's object believes in
`idle`. Lemmas on sequences (`RestOf`, `TakePiece`) carry the pieces. For the
refinement, `Promised` adds that what was promised are the bytes of the commands of the
calls. The wire is a prefix of them (`CommandsArriveWhole`), of which the server has
read the commands that are `Whole` in it (`Executed`): a piece that the next layer takes
brings it some commands more, or none (`TransferExecutes`), and a write that
succeeds, all of them (`EndAnswers`).

### Subscribing

`SubscriptionProofs` proves `SubscriptionInvariant`, `SubscriptionTypeCorrect`,
`SubscriberHandlesInOrder`, `SubscriberIsSubscribed` and
`SubscriberGivesUpOnlyWhenRefused`, for every command, channels, payloads and
number of messages, from `SubscriptionAssumption`: the server's word for a
command is the command, in whatever case. `ConfirmationsOnly` is
about whatever a server may say, well timed or not, and whatever stands in memory behind
the name, under `VocabularyAssumption`: no word of the server's vocabulary begins with
the command's name or is the beginning of it, but the name itself, in whatever case.
Redis has no such words, but the library does not check it: `longer_word` shows what
happens with one. The invariant: `AnswersOK` (the server
has sent nothing, a refusal, or all confirmations and then messages), `ServerOK`
(who is subscribed when), `InTransitOK` (the replies in `rx_buff` and
then those on the wire are the replies to the answers not handled yet, all of them while the connection
is there), `ClientOK` (what the client's position says). `SendAppends` covers
whatever the server sends, `TakesOK` whatever the client handles, `EndsOK` the
end of the connection. `ConfirmationSeen` and `CountsUp` say why
`check_subscription` recognises the confirmations: a command that names no
channel twice has subscribed to n channels after n confirmations. Without that,
the property fails (`repeated_channel`).

### Sharing a connection

`PingPongProofs` proves `PingPongInvariant`, `PingPongTypeCorrect`,
`SocketIsUsedByOne`, `CountsFollow` and `ReportIsConsistent`, for any number of
threads, any capacity and number of PINGs (`PingPongAssumption`: these are
positive). The invariant: `Alone` (a handler that has begun is the only one, and
a chain is in the middle of its handler only while a thread runs it), `CountsOK`
(every PING is in the network, in the buffer or counted) and `WatcherOK` (no
PING is counted while the watcher is between its two reads).

### Only model-checked

Liveness (`ReadCompletes`, `EverythingHandled`, `EveryPingAnswered`), which is
out of the prover's reach.

## Divergences

- `reserve_limit`: the README says that the callback is invoked when a protocol
  error is met; with `keep_result`, an array count that no vector can hold in
  front of the error makes the parser throw instead.
- `read_zero`: a read of zero replies never completes, for the count is
  compared after an increment.
- `read_long_reply`: a reply longer than `INT_MAX` is cast to a negative number
  or to 0; in the latter case the read waits although it has its answer.
- `repeated_channel`: the comment on `check_subscription` says that only the
  first two fields of a confirmation are checked. The comment is wrong: the third, the number of
  subscriptions, is taken for the index of the channel in the command, as
  `README.md` 628 and `t/08-markers.cpp` 41-46 take for granted. A command
  that names a channel twice, or a connection that has earlier subscriptions,
  gets confirmations that are not recognised.
- `longer_word`: the same comment says that the first field is checked by string
  equality. `std::equal` is given the whole of the server's word and only the beginning of
  the command's name: a word that begins with the name and goes on is compared with
  what stands in memory behind the name, and may pass.

One more has no run, for the unit tests show it (`t/07-extract.cpp`, repeated by
`ProtocolTests`): `README.md` 569-571 gives an integer that cannot be converted as the
example of a `protocol_error_t`, but the parser accepts any text between `:` and the
terminator, and it is the extractor that throws.

## Not modelled

- `stringizer`, error messages and the error category, logging,
  `SocketWithLogging`: wording and layout.
- Completion tokens (futures, coroutines): asio's; the operation completes
  the same way for all of them. TLS and unix-socket layers: pass-through.
- The connection tests (`t/10` to `t/24`) as programs: each runs one path of
  operations that `ReadOp`, `WriteOp` and `Subscription` contain, through a
  redis-server and one of asio's interfaces; they have no state of their own.
- `t/catch.hpp` and `examples/picojson.h`: third-party code, 70% of the
  repository's lines.
- A client that breaks the README's rules: one that writes again before
  its last write has ended, keeps markers over a `consume`, or does not consume.
  These appear as mutants (`AsyncWriteOverlapping`, `PrintMessageConsumed`,
  `ConfirmForgetful`, `CountPongAndKeep`), which the properties refute.
- A client that uses a connection again after a failed write: `async_write`
  gives it no way to send the rest of a command alone (`WriteCallbackGoesOn`
  shows what happens), and no example tries.
- The lifetime of the strings that a command refers to (`string_ref`): the
  command is serialized before `async_write` returns.

## What could follow

- `Session`: `WriteOp` and `ReadOp` composed with a server that answers commands
  in order, with transactions; the n-th reply answers the n-th command.
