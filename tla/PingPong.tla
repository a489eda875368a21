------------------------------ MODULE PingPong ------------------------------
(***************************************************************************)
(* examples/multi-threads-1.cpp: a connection that several threads use.    *)
(*                                                                         *)
(* A producer writes PING after PING and a consumer reads the answers, both*)
(* for ever, and a watcher reports the counts every second.  Each of the   *)
(* three is a chain of asynchronous operations, whose completion handlers  *)
(* are bound to one strand and run by whichever thread is free; main has   *)
(* started the chains before it starts the threads.  A handler takes two   *)
(* steps here, between which the other threads go on.                      *)
(*                                                                         *)
(* Commands and replies are counted: that each of them is sent and found   *)
(* whole, piece by piece, is what WriteOp and ReadOp show.                 *)
(***************************************************************************)
EXTENDS Naturals

CONSTANTS
  Workers,      (* the threads that call io.run()                          *)
  Capacity,     (* how many commands, and how many replies, the network holds *)
  MaxPings      (* bound: how many PINGs are sent                          *)

ASSUME PingPongAssumption == Capacity \in Nat \ {0} /\ MaxPings \in Nat \ {0}

VARIABLES
  thread,       (* the chain whose handler a thread runs, or "idle"        *)
  pc,           (* where a chain is                                        *)
  ready,        (* the chains with a completion that no thread runs yet    *)
  up, down,     (* the commands and the replies in the network             *)
  online,       (* the connection is there                                 *)
  rx_buff,      (* the replies in redis.rx_buff                            *)
  ping_count, pong_count,
  seen,         (* ping_count, as the watcher has read it                  *)
  reported      (* the pings and pongs that the watcher has printed last   *)

network == <<up, down, online>>
counts == <<ping_count, pong_count>>
vars == <<thread, pc, ready, network, rx_buff, counts, seen, reported>>

Chains == {"write", "read", "watch"}

Init ==
  /\ thread = [w \in Workers |-> "idle"]
  /\ pc = [c \in Chains |-> "waiting"]
  /\ ready = {}
  /\ up = 0 /\ down = 0 /\ online = TRUE /\ rx_buff = 0
  /\ ping_count = 0 /\ pong_count = 0
  /\ seen = 0 /\ reported = [pings |-> 0, pongs |-> 0]

Completes(c, how) ==
  /\ pc' = [pc EXCEPT ![c] = how]
  /\ ready' = ready \cup {c}

-----------------------------------------------------------------------------
(* The operations in progress: asio, the network and the server.            *)

\* the network takes the PING
NetworkTakes ==
  /\ pc["write"] = "waiting"
  /\ online /\ up < Capacity
  /\ up' = up + 1
  /\ Completes("write", "done")
  /\ UNCHANGED <<thread, down, online, rx_buff, counts, seen, reported>>

\* the network gives one reply or more
NetworkGives ==
  /\ pc["read"] = "waiting"
  /\ \E n \in 1 .. down : down' = down - n /\ rx_buff' = rx_buff + n
  /\ Completes("read", "done")
  /\ UNCHANGED <<thread, up, online, counts, seen, reported>>

TimerExpires ==
  /\ pc["watch"] = "waiting"
  /\ Completes("watch", "done")
  /\ UNCHANGED <<thread, network, rx_buff, counts, seen, reported>>

\* a server that reads the next command only when there is room for its answer
Pong ==
  /\ up > 0 /\ down < Capacity
  /\ up' = up - 1 /\ down' = down + 1
  /\ UNCHANGED <<thread, pc, ready, online, rx_buff, counts, seen, reported>>

Disconnect ==
  /\ online
  /\ online' = FALSE /\ up' = 0 /\ down' = 0
  /\ UNCHANGED <<thread, pc, ready, rx_buff, counts, seen, reported>>

OperationFails(c) ==
  /\ pc[c] = "waiting" /\ ~online
  /\ Completes(c, "failed")
  /\ UNCHANGED <<thread, network, rx_buff, counts, seen, reported>>

-----------------------------------------------------------------------------
(* The threads.                                                             *)

\* mutant: the consumer's handler is not bound to the strand
BoundButConsumer == {"write", "watch"}

\* mutant: the watcher's handler is not bound to the strand
BoundButWatcher == {"write", "read"}

\* the handlers bound to redis.strand
Bound == {"write", "read", "watch"}

\* A free thread runs a handler; the strand runs one at a time.  Completions are
\* queued in the order in which they happen, but a thread that has taken one may
\* be overtaken by the others before it enters the strand.
PickUp(w, c) ==
  /\ c \in ready
  /\ thread[w] = "idle"
  /\ c \in Bound => \A v \in Workers : thread[v] \notin Bound
  /\ thread' = [thread EXCEPT ![w] = c]
  /\ ready' = ready \ {c}
  /\ UNCHANGED <<pc, network, rx_buff, counts, seen, reported>>

Goes(c, how) == pc' = [pc EXCEPT ![c] = how]
Returns(w) == thread' = [thread EXCEPT ![w] = "idle"]

\* an error: the chain ends
HandleError(w) ==
  /\ thread[w] \in {"write", "read"}
  /\ pc[thread[w]] = "failed"
  /\ Goes(thread[w], "stopped")
  /\ Returns(w)
  /\ UNCHANGED <<ready, network, rx_buff, counts, seen, reported>>

\* the write callback counts (and consumes the PING)
CountPing(w) ==
  /\ thread[w] = "write" /\ pc["write"] = "done"
  /\ ping_count' = ping_count + 1
  /\ Goes("write", "again")
  /\ UNCHANGED <<thread, ready, network, rx_buff, pong_count, seen, reported>>

\* produce(): the next PING, as long as the bound allows
Produce(w) ==
  /\ thread[w] = "write" /\ pc["write"] = "again"
  /\ Goes("write", IF ping_count < MaxPings THEN "waiting" ELSE "stopped")
  /\ Returns(w)
  /\ UNCHANGED <<ready, network, rx_buff, counts, seen, reported>>

\* mutant: the reply is not consumed
CountPongAndKeep(w) ==
  /\ thread[w] = "read" /\ pc["read"] = "done"
  /\ pong_count' = pong_count + 1
  /\ Goes("read", "again")
  /\ UNCHANGED <<thread, ready, network, rx_buff, ping_count, seen, reported>>

\* the read callback counts and consumes the first reply
CountPong(w) ==
  /\ thread[w] = "read" /\ pc["read"] = "done"
  /\ pong_count' = pong_count + 1
  /\ rx_buff' = rx_buff - 1
  /\ Goes("read", "again")
  /\ UNCHANGED <<thread, ready, network, ping_count, seen, reported>>

\* mutant: the next read waits for the network, whatever is in the buffer
ConsumeWaiting(w) ==
  /\ thread[w] = "read" /\ pc["read"] = "again"
  /\ Goes("read", "waiting") /\ ready' = ready
  /\ Returns(w)
  /\ UNCHANGED <<network, rx_buff, counts, seen, reported>>

\* mutant: the next read ends at once
ConsumeEager(w) ==
  /\ thread[w] = "read" /\ pc["read"] = "again"
  /\ Completes("read", "done")
  /\ Returns(w)
  /\ UNCHANGED <<network, rx_buff, counts, seen, reported>>

\* consume(): the next read, which ends at once if there is a reply in the buffer
Consume(w) ==
  /\ thread[w] = "read" /\ pc["read"] = "again"
  /\ \/ rx_buff > 0 /\ Completes("read", "done")
     \/ rx_buff = 0 /\ Goes("read", "waiting") /\ ready' = ready
  /\ Returns(w)
  /\ UNCHANGED <<network, rx_buff, counts, seen, reported>>

\* the watcher reads the counts one after the other
WatchPings(w) ==
  /\ thread[w] = "watch" /\ pc["watch"] = "done"
  /\ seen' = ping_count
  /\ Goes("watch", "again")
  /\ UNCHANGED <<thread, ready, network, rx_buff, counts, reported>>

WatchPongs(w) ==
  /\ thread[w] = "watch" /\ pc["watch"] = "again"
  /\ reported' = [pings |-> seen, pongs |-> pong_count]
  /\ Goes("watch", "waiting")
  /\ Returns(w)
  /\ UNCHANGED <<ready, network, rx_buff, counts, seen>>

-----------------------------------------------------------------------------
RunHandler(w) ==
  \/ HandleError(w)
  \/ CountPing(w) \/ Produce(w)
  \/ CountPong(w) \/ Consume(w)
  \/ WatchPings(w) \/ WatchPongs(w)

Next ==
  \/ NetworkTakes \/ NetworkGives \/ TimerExpires \/ Pong \/ Disconnect
  \/ \E c \in {"write", "read"} : OperationFails(c)
  \/ \E w \in Workers, c \in Chains : PickUp(w, c)
  \/ \E w \in Workers : RunHandler(w)

\* The threads run what is ready, the network moves what it can and the server
\* answers; nothing has to fail and the timer may be late.  The strand is free
\* again and again, and no completion is overtaken for ever: a thread that has
\* taken it enters the strand in the end, whose own queue is first in, first out.
Fairness ==
  /\ WF_vars(NetworkTakes) /\ WF_vars(NetworkGives) /\ WF_vars(Pong)
  /\ \A c \in Chains : SF_vars(\E w \in Workers : PickUp(w, c))
  /\ \A w \in Workers : WF_vars(RunHandler(w))

Spec == Init /\ [][Next]_vars /\ Fairness

-----------------------------------------------------------------------------
\* The types of the variables.  No reply is consumed that is not in the buffer,
\* and the network holds no more than it can.
TypeOK ==
  /\ thread \in [Workers -> Chains \cup {"idle"}]
  /\ pc \in [Chains -> {"waiting", "done", "failed", "again", "stopped"}]
  /\ ready \subseteq Chains
  /\ up \in 0 .. Capacity /\ down \in 0 .. Capacity /\ online \in BOOLEAN
  /\ rx_buff \in Nat
  /\ ping_count \in Nat /\ pong_count \in Nat /\ seen \in Nat
  /\ reported \in [pings : Nat, pongs : Nat]

\* No two threads start an operation of the socket, which is not thread-safe,
\* at the same time: the strand keeps the handlers of the two chains apart.
SocketUsedByOne ==
  \A v, w \in Workers : thread[v] = "read" /\ thread[w] = "write" =>
    ~(pc["read"] = "again" /\ pc["write"] = "again")

\* Every PING that the network has taken is in it, in the buffer as its answer,
\* or counted as a pong, once, as long as the connection is there; and never
\* are more pongs counted than PINGs, but for the one that may be answered
\* before the handler of its own write has counted it.
PongsFollowPings ==
  /\ pong_count <= ping_count + 1
  /\ online => ping_count + (IF pc["write"] = "done" THEN 1 ELSE 0)
                 = pong_count + up + down + rx_buff

\* In what the watcher reports there is never more than one pong more than
\* PINGs, as at any one moment, although it reads the counts one after the
\* other while other threads run.
WatcherSeesOneMoment == reported.pongs <= reported.pings + 1

\* As long as the connection is there, every PING is answered and the answer is
\* counted: the network may be full in both directions, but then the consumer
\* makes room.
EveryPingAnswered ==
  \A n \in 1 .. MaxPings : ping_count >= n ~> pong_count >= n \/ ~online

-----------------------------------------------------------------------------
(* The inductive invariant: a handler that has begun is the only one.       *)

\* a chain is between the two steps of its handler only while a thread runs it,
\* and then no other thread runs a handler
Alone ==
  /\ \A v, w \in Workers : thread[v] # "idle" /\ thread[w] # "idle" => v = w
  /\ \A c \in Chains : pc[c] = "again" => \E w \in Workers : thread[w] = c

CountsOK ==
  /\ ping_count + (IF pc["write"] = "done" THEN 1 ELSE 0)
       >= pong_count + up + down + rx_buff
  /\ online => ping_count + (IF pc["write"] = "done" THEN 1 ELSE 0)
                 = pong_count + up + down + rx_buff
  /\ pc["read"] = "done" => rx_buff > 0

\* while the watcher is between its two steps, no PING is counted
WatcherOK ==
  /\ pc["watch"] = "again" => seen = ping_count
  /\ WatcherSeesOneMoment

IInv == TypeOK /\ Alone /\ CountsOK /\ WatcherOK
=============================================================================
