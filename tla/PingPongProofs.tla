--------------------------- MODULE PingPongProofs ---------------------------
(***************************************************************************)
(* Proofs about PingPong, for any threads, any capacity of the network and *)
(* any number of PINGs.                                                    *)
(***************************************************************************)
EXTENDS PingPong, TLAPS

\* The completion of a chain is ready to run.
LEMMA CompletesType ==
  ASSUME ready \subseteq Chains, pc \in [Chains -> {"waiting", "done", "failed", "again",
                                                   "stopped"}],
         NEW c \in Chains, NEW how \in {"done", "failed"}, Completes(c, how)
  PROVE  /\ ready' \subseteq Chains
         /\ pc' \in [Chains -> {"waiting", "done", "failed", "again", "stopped"}]
         /\ pc'[c] = how
         /\ \A d \in Chains : d # c => pc'[d] = pc[d]
BY DEF Completes

\* Where nothing happens, nothing changes.
LEMMA StutterIInv == IInv /\ UNCHANGED vars => IInv'
BY DEF vars, network, counts, IInv, TypeOK, Alone, CountsOK, WatcherOK, WatcherSeesOneMoment

\* At first every chain waits and nothing is counted.
LEMMA InitIInv == Init => IInv
<1> SUFFICES ASSUME Init PROVE IInv
  OBVIOUS
<1>1. TypeOK
  BY PingPongAssumption DEF Init, TypeOK, Chains
<1>2. Alone
  BY DEF Init, Alone, Chains
<1>3. CountsOK /\ WatcherOK
  BY DEF Init, CountsOK, WatcherOK, WatcherSeesOneMoment, Chains
<1> QED BY <1>1, <1>2, <1>3 DEF IInv

\* What the network, the server and the timer do: replies and commands change
\* place, and no handler runs.
LEMMA NetworkIInv ==
  ASSUME IInv,
         \/ NetworkTakes \/ NetworkGives \/ TimerExpires \/ Pong \/ Disconnect
         \/ \E c \in {"write", "read"} : OperationFails(c)
  PROVE  IInv'
<1> USE DEF IInv
<1>1. CASE NetworkTakes
  <2>1. Completes("write", "done") /\ pc["write"] = "waiting"
    BY <1>1 DEF NetworkTakes
  <2>2. /\ ready' \subseteq Chains
        /\ pc' \in [Chains -> {"waiting", "done", "failed", "again", "stopped"}]
        /\ pc'["write"] = "done" /\ pc'["read"] = pc["read"] /\ pc'["watch"] = pc["watch"]
    BY <2>1, CompletesType DEF TypeOK, Chains
  <2>3. TypeOK'
    BY <1>1, <2>2, PingPongAssumption DEF NetworkTakes, TypeOK, counts
  <2>4. Alone'
    BY <1>1, <2>2 DEF NetworkTakes, Alone, Chains
  <2>5. CountsOK'
    BY <1>1, <2>1, <2>2 DEF NetworkTakes, CountsOK, counts, TypeOK
  <2>6. WatcherOK'
    BY <1>1, <2>2 DEF NetworkTakes, WatcherOK, WatcherSeesOneMoment, counts
  <2> QED BY <2>3, <2>4, <2>5, <2>6
<1>2. CASE NetworkGives
  <2>1. Completes("read", "done") /\ pc["read"] = "waiting"
    BY <1>2 DEF NetworkGives
  <2>2. /\ ready' \subseteq Chains
        /\ pc' \in [Chains -> {"waiting", "done", "failed", "again", "stopped"}]
        /\ pc'["read"] = "done" /\ pc'["write"] = pc["write"] /\ pc'["watch"] = pc["watch"]
    BY <2>1, CompletesType DEF TypeOK, Chains
  <2>3. PICK n \in 1 .. down : down' = down - n /\ rx_buff' = rx_buff + n
    BY <1>2 DEF NetworkGives
  <2>4. n \in Nat /\ n > 0 /\ down \in Nat /\ n <= down /\ rx_buff \in Nat
    BY <2>3 DEF TypeOK
  <2>5. TypeOK'
    BY <1>2, <2>2, <2>3, <2>4, PingPongAssumption DEF NetworkGives, TypeOK, counts
  <2>6. Alone'
    BY <1>2, <2>2 DEF NetworkGives, Alone, Chains
  <2>7. CountsOK'
    BY <1>2, <2>2, <2>3, <2>4 DEF NetworkGives, CountsOK, counts, TypeOK
  <2>8. WatcherOK'
    BY <1>2, <2>2 DEF NetworkGives, WatcherOK, WatcherSeesOneMoment, counts
  <2> QED BY <2>5, <2>6, <2>7, <2>8
<1>3. CASE TimerExpires
  <2>1. Completes("watch", "done")
    BY <1>3 DEF TimerExpires
  <2>2. /\ ready' \subseteq Chains
        /\ pc' \in [Chains -> {"waiting", "done", "failed", "again", "stopped"}]
        /\ pc'["watch"] = "done" /\ pc'["read"] = pc["read"] /\ pc'["write"] = pc["write"]
    BY <2>1, CompletesType DEF TypeOK, Chains
  <2> QED BY <1>3, <2>2 DEF TimerExpires, TypeOK, Alone, CountsOK, WatcherOK,
                            WatcherSeesOneMoment, Chains, network, counts
<1>4. CASE Pong
  <2>1. up' \in 0 .. Capacity /\ down' \in 0 .. Capacity
    BY <1>4, PingPongAssumption DEF Pong, TypeOK
  <2>2. TypeOK'
    BY <1>4, <2>1 DEF Pong, TypeOK, counts
  <2> QED BY <1>4, <2>2 DEF Pong, TypeOK, Alone, CountsOK, WatcherOK, WatcherSeesOneMoment,
                            counts
<1>5. CASE Disconnect
  <2>1. TypeOK'
    <3>1. 0 \in 0 .. Capacity
      BY PingPongAssumption
    <3>2. up' \in 0 .. Capacity /\ down' \in 0 .. Capacity /\ online' \in BOOLEAN
      BY <1>5, <3>1 DEF Disconnect
    <3> QED BY <1>5, <3>2 DEF Disconnect, TypeOK, counts
  <2> QED BY <1>5, <2>1 DEF Disconnect, TypeOK, Alone, CountsOK, WatcherOK,
                            WatcherSeesOneMoment, counts
<1>6. ASSUME NEW c \in {"write", "read"}, OperationFails(c) PROVE IInv'
  <2>1. Completes(c, "failed") /\ pc[c] = "waiting" /\ c \in Chains
    BY <1>6 DEF OperationFails, Chains
  <2>2. /\ ready' \subseteq Chains
        /\ pc' \in [Chains -> {"waiting", "done", "failed", "again", "stopped"}]
        /\ pc'[c] = "failed" /\ \A d \in Chains : d # c => pc'[d] = pc[d]
    BY <2>1, CompletesType DEF TypeOK
  <2>3. TypeOK'
    BY <1>6, <2>2 DEF OperationFails, TypeOK, network, counts
  <2>4. Alone'
    BY <1>6, <2>2 DEF OperationFails, Alone
  <2>5. CountsOK' /\ WatcherOK'
    BY <1>6, <2>1, <2>2 DEF OperationFails, CountsOK, WatcherOK, WatcherSeesOneMoment,
                            network, counts, Chains
  <2> QED BY <2>3, <2>4, <2>5
<1> QED BY <1>1, <1>2, <1>3, <1>4, <1>5, <1>6

\* A thread takes a handler only when the strand is free.
LEMMA PickUpIInv ==
  ASSUME IInv, NEW w \in Workers, NEW c \in Chains, PickUp(w, c)
  PROVE  IInv'
<1> USE DEF IInv
<1>1. ready' \subseteq Chains
  BY DEF PickUp, TypeOK
<1>2. \A v \in Workers : thread[v] = "idle"
  BY DEF PickUp, TypeOK, Chains, Bound
<1>3. /\ thread' = [thread EXCEPT ![w] = c]
      /\ UNCHANGED <<pc, network, rx_buff, counts, seen, reported>>
  BY DEF PickUp
<1>4. TypeOK'
  BY <1>1, <1>3 DEF PickUp, TypeOK, network, counts
<1>5. Alone'
  <2>1. \A v \in Workers : v # w => thread'[v] = "idle"
    BY <1>2, <1>3 DEF TypeOK
  <2>2. \A d \in Chains : pc[d] # "again"
    BY <1>2 DEF Alone, Chains
  <2> QED BY <1>3, <2>1, <2>2 DEF Alone
<1> QED BY <1>3, <1>4, <1>5 DEF CountsOK, WatcherOK, WatcherSeesOneMoment, network, counts

\* While a thread runs the handler of a chain, no other chain is between the
\* two steps of its own.
LEMMA OthersWait ==
  ASSUME TypeOK, Alone, NEW w \in Workers, thread[w] # "idle",
         NEW c \in Chains, c # thread[w]
  PROVE  pc[c] # "again"
BY DEF Alone, Chains

\* The end of a handler: the thread is free, and so is the strand.
LEMMA ReturnsAlone ==
  ASSUME IInv, NEW w \in Workers, thread[w] # "idle", Returns(w),
         pc' \in [Chains -> {"waiting", "done", "failed", "again", "stopped"}],
         pc'[thread[w]] # "again",
         \A c \in Chains : c # thread[w] => pc'[c] = pc[c]
  PROVE  Alone' /\ thread' \in [Workers -> Chains \cup {"idle"}]
<1> USE DEF IInv
<1>1. thread' = [thread EXCEPT ![w] = "idle"]
  BY DEF Returns
<1>2. \A c \in Chains : pc'[c] # "again"
  BY OthersWait
<1>3. thread' \in [Workers -> Chains \cup {"idle"}]
  BY <1>1 DEF TypeOK
<1>4. \A v \in Workers : thread'[v] = "idle"
  BY <1>1 DEF Alone, TypeOK
<1> QED BY <1>2, <1>3, <1>4 DEF Alone

\* The first step of a handler leaves the thread with it.
LEMMA GoesAlone ==
  ASSUME IInv, NEW w \in Workers, thread[w] \in Chains, UNCHANGED thread,
         pc' = [pc EXCEPT ![thread[w]] = "again"]
  PROVE  Alone'
<1> USE DEF IInv
<1>1. \A c \in Chains : c # thread[w] => pc'[c] = pc[c]
  BY DEF TypeOK
<1>2. \A c \in Chains : pc'[c] = "again" => \E v \in Workers : thread'[v] = c
  BY <1>1 DEF Alone
<1> QED BY <1>2 DEF Alone

\* The handlers of the producer: a PING is counted once, and never while the
\* watcher reads the counts.
LEMMA ProducerIInv ==
  ASSUME IInv, NEW w \in Workers, CountPing(w) \/ Produce(w)
  PROVE  IInv'
<1> USE DEF IInv
<1>0. thread[w] = "write" /\ thread[w] \in Chains /\ thread[w] # "idle"
  BY DEF CountPing, Produce, Chains
<1>1. pc["watch"] # "again" /\ pc["read"] # "again"
  BY <1>0, OthersWait DEF Chains
<1>2. CASE CountPing(w)
  <2>1. /\ pc' = [pc EXCEPT !["write"] = "again"] /\ pc["write"] = "done"
        /\ ping_count' = ping_count + 1
        /\ UNCHANGED <<thread, ready, network, rx_buff, pong_count, seen, reported>>
    BY <1>2 DEF CountPing, Goes
  <2>2. Alone'
    BY <1>0, <2>1, GoesAlone
  <2>3. TypeOK'
    <3>1. pc' \in [Chains -> {"waiting", "done", "failed", "again", "stopped"}]
      BY <2>1 DEF TypeOK
    <3>2. ping_count' \in Nat
      BY <2>1 DEF TypeOK
    <3> QED BY <2>1, <3>1, <3>2 DEF TypeOK, network
  <2>4. pc'["write"] = "again" /\ pc'["read"] = pc["read"] /\ pc'["watch"] = pc["watch"]
    BY <2>1 DEF TypeOK, Chains
  <2>5. CountsOK'
    BY <2>1, <2>4 DEF CountsOK, TypeOK, network
  <2>6. WatcherOK'
    BY <1>1, <2>1, <2>4 DEF WatcherOK, WatcherSeesOneMoment
  <2> QED BY <2>2, <2>3, <2>5, <2>6
<1>3. CASE Produce(w)
  <2>1. /\ pc' = [pc EXCEPT !["write"] = IF ping_count < MaxPings THEN "waiting"
                                                                  ELSE "stopped"]
        /\ pc["write"] = "again" /\ Returns(w)
        /\ UNCHANGED <<ready, network, rx_buff, counts, seen, reported>>
    BY <1>3 DEF Produce, Goes
  <2>2. /\ pc' \in [Chains -> {"waiting", "done", "failed", "again", "stopped"}]
        /\ pc'["write"] \in {"waiting", "stopped"}
        /\ pc'["read"] = pc["read"] /\ pc'["watch"] = pc["watch"]
    BY <2>1 DEF TypeOK, Chains
  <2>3. Alone' /\ thread' \in [Workers -> Chains \cup {"idle"}]
    BY <1>0, <2>1, <2>2, ReturnsAlone DEF Chains
  <2>4. TypeOK'
    BY <2>1, <2>2, <2>3 DEF TypeOK, network, counts
  <2>5. CountsOK' /\ WatcherOK'
    BY <2>1, <2>2 DEF CountsOK, WatcherOK, WatcherSeesOneMoment, TypeOK, network, counts
  <2> QED BY <2>3, <2>4, <2>5
<1> QED BY <1>2, <1>3

\* The handlers of the consumer: a reply leaves the buffer when it is counted.
LEMMA ConsumerIInv ==
  ASSUME IInv, NEW w \in Workers, CountPong(w) \/ Consume(w)
  PROVE  IInv'
<1> USE DEF IInv
<1>0. thread[w] = "read" /\ thread[w] \in Chains /\ thread[w] # "idle"
  BY DEF CountPong, Consume, Chains
<1>1. pc["watch"] # "again" /\ pc["write"] # "again"
  BY <1>0, OthersWait DEF Chains
<1>2. CASE CountPong(w)
  <2>1. /\ pc' = [pc EXCEPT !["read"] = "again"] /\ pc["read"] = "done"
        /\ pong_count' = pong_count + 1 /\ rx_buff' = rx_buff - 1
        /\ UNCHANGED <<thread, ready, network, ping_count, seen, reported>>
    BY <1>2 DEF CountPong, Goes
  <2>2. Alone'
    BY <1>0, <2>1, GoesAlone
  <2>3. rx_buff > 0
    BY <2>1 DEF CountsOK
  <2>4. TypeOK'
    <3>1. pc' \in [Chains -> {"waiting", "done", "failed", "again", "stopped"}]
      BY <2>1 DEF TypeOK
    <3>2. pong_count' \in Nat /\ rx_buff' \in Nat
      BY <2>1, <2>3 DEF TypeOK
    <3> QED BY <2>1, <3>1, <3>2 DEF TypeOK, network
  <2>5. pc'["read"] = "again" /\ pc'["write"] = pc["write"] /\ pc'["watch"] = pc["watch"]
    BY <2>1 DEF TypeOK, Chains
  <2>6. CountsOK'
    BY <2>1, <2>5 DEF CountsOK, TypeOK, network
  <2>7. WatcherOK'
    BY <1>1, <2>1, <2>5 DEF WatcherOK, WatcherSeesOneMoment
  <2> QED BY <2>2, <2>4, <2>6, <2>7
<1>3. CASE Consume(w)
  <2>1. /\ pc["read"] = "again" /\ Returns(w)
        /\ UNCHANGED <<network, rx_buff, counts, seen, reported>>
    BY <1>3 DEF Consume
  <2>2. /\ ready' \subseteq Chains
        /\ pc' \in [Chains -> {"waiting", "done", "failed", "again", "stopped"}]
        /\ pc'["read"] \in {"waiting", "done"} /\ (pc'["read"] = "done" => rx_buff > 0)
        /\ pc'["write"] = pc["write"] /\ pc'["watch"] = pc["watch"]
    <3>1. CASE rx_buff > 0 /\ Completes("read", "done")
      BY <3>1, CompletesType DEF TypeOK, Chains
    <3>2. CASE Goes("read", "waiting") /\ ready' = ready
      BY <3>2 DEF Goes, TypeOK, Chains
    <3> QED BY <1>3, <3>1, <3>2 DEF Consume
  <2>3. Alone' /\ thread' \in [Workers -> Chains \cup {"idle"}]
    BY <1>0, <2>1, <2>2, ReturnsAlone DEF Chains
  <2>4. TypeOK'
    BY <2>1, <2>2, <2>3 DEF TypeOK, network, counts
  <2>5. CountsOK' /\ WatcherOK'
    BY <2>1, <2>2 DEF CountsOK, WatcherOK, WatcherSeesOneMoment, TypeOK, network, counts
  <2> QED BY <2>3, <2>4, <2>5
<1> QED BY <1>2, <1>3

\* The handler of the watcher: the counts it reads belong together.
LEMMA WatcherIInv ==
  ASSUME IInv, NEW w \in Workers, WatchPings(w) \/ WatchPongs(w)
  PROVE  IInv'
<1> USE DEF IInv
<1>0. thread[w] = "watch" /\ thread[w] \in Chains /\ thread[w] # "idle"
  BY DEF WatchPings, WatchPongs, Chains
<1>2. CASE WatchPings(w)
  <2>1. /\ pc' = [pc EXCEPT !["watch"] = "again"] /\ seen' = ping_count
        /\ UNCHANGED <<thread, ready, network, rx_buff, counts, reported>>
    BY <1>2 DEF WatchPings, Goes
  <2>2. Alone'
    BY <1>0, <2>1, GoesAlone
  <2>3. TypeOK'
    BY <2>1 DEF TypeOK, network, counts
  <2>4. pc'["read"] = pc["read"] /\ pc'["write"] = pc["write"]
    BY <2>1 DEF TypeOK, Chains
  <2>5. CountsOK' /\ WatcherOK'
    BY <2>1, <2>4 DEF CountsOK, WatcherOK, WatcherSeesOneMoment, network, counts
  <2> QED BY <2>2, <2>3, <2>5
<1>3. CASE WatchPongs(w)
  <2>1. /\ pc' = [pc EXCEPT !["watch"] = "waiting"] /\ pc["watch"] = "again"
        /\ reported' = [pings |-> seen, pongs |-> pong_count] /\ Returns(w)
        /\ UNCHANGED <<ready, network, rx_buff, counts, seen>>
    BY <1>3 DEF WatchPongs, Goes
  <2>2. /\ pc' \in [Chains -> {"waiting", "done", "failed", "again", "stopped"}]
        /\ pc'["watch"] = "waiting"
        /\ pc'["read"] = pc["read"] /\ pc'["write"] = pc["write"]
    BY <2>1 DEF TypeOK, Chains
  <2>3. Alone' /\ thread' \in [Workers -> Chains \cup {"idle"}]
    BY <1>0, <2>1, <2>2, ReturnsAlone DEF Chains
  <2>4. TypeOK'
    BY <2>1, <2>2, <2>3 DEF TypeOK, network, counts
  <2>5. CountsOK'
    BY <2>1, <2>2 DEF CountsOK, network, counts
  <2>6. pong_count <= seen + 1
    BY <2>1 DEF CountsOK, WatcherOK, TypeOK
  <2>7. WatcherOK'
    BY <2>1, <2>2, <2>6 DEF WatcherOK, WatcherSeesOneMoment
  <2> QED BY <2>3, <2>4, <2>5, <2>7
<1> QED BY <1>2, <1>3

\* An error ends the chain and frees the strand.
LEMMA HandleErrorIInv ==
  ASSUME IInv, NEW w \in Workers, HandleError(w)
  PROVE  IInv'
<1> USE DEF IInv
<1>1. /\ thread[w] \in {"write", "read"} /\ thread[w] \in Chains /\ thread[w] # "idle"
      /\ pc' = [pc EXCEPT ![thread[w]] = "stopped"] /\ pc[thread[w]] = "failed"
      /\ Returns(w)
      /\ UNCHANGED <<ready, network, rx_buff, counts, seen, reported>>
  BY DEF HandleError, Goes, Chains
<1>2. /\ pc' \in [Chains -> {"waiting", "done", "failed", "again", "stopped"}]
      /\ pc'[thread[w]] = "stopped"
      /\ \A c \in Chains : c # thread[w] => pc'[c] = pc[c]
  BY <1>1 DEF TypeOK
<1>3. Alone' /\ thread' \in [Workers -> Chains \cup {"idle"}]
  BY <1>1, <1>2, ReturnsAlone
<1>4. TypeOK'
  BY <1>1, <1>2, <1>3 DEF TypeOK, network, counts
<1>5. CountsOK' /\ WatcherOK'
  BY <1>1, <1>2 DEF CountsOK, WatcherOK, WatcherSeesOneMoment, network, counts, Chains
<1> QED BY <1>3, <1>4, <1>5

\* The inductive invariant, for any number of threads.
THEOREM PingPongInvariant == Spec => []IInv
<1>1. IInv /\ [Next]_vars => IInv'
  <2> SUFFICES ASSUME IInv, [Next]_vars PROVE IInv'
    OBVIOUS
  <2>1. CASE \/ NetworkTakes \/ NetworkGives \/ TimerExpires \/ Pong \/ Disconnect
             \/ \E c \in {"write", "read"} : OperationFails(c)
    BY <2>1, NetworkIInv
  <2>2. ASSUME NEW w \in Workers, NEW c \in Chains, PickUp(w, c) PROVE IInv'
    BY <2>2, PickUpIInv
  <2>3. ASSUME NEW w \in Workers, RunHandler(w) PROVE IInv'
    BY <2>3, ProducerIInv, ConsumerIInv, WatcherIInv, HandleErrorIInv DEF RunHandler
  <2>4. CASE UNCHANGED vars
    BY <2>4, StutterIInv
  <2> QED BY <2>1, <2>2, <2>3, <2>4 DEF Next
<1> QED BY <1>1, InitIInv, PTL DEF Spec

\* Type correctness: no reply is consumed that is not there.
THEOREM PingPongTypeCorrect == Spec => []TypeOK
<1>1. IInv => TypeOK
  BY DEF IInv
<1> QED BY <1>1, PingPongInvariant, PTL

\* The strand keeps the two users of the socket apart, whatever the number of
\* threads.
THEOREM SocketIsUsedByOne == Spec => []SocketUsedByOne
<1>1. IInv => SocketUsedByOne
  BY DEF IInv, Alone, SocketUsedByOne
<1> QED BY <1>1, PingPongInvariant, PTL

\* No PING and no answer is lost or counted twice.
THEOREM CountsFollow == Spec => []PongsFollowPings
<1>1. IInv => PongsFollowPings
  BY DEF IInv, TypeOK, CountsOK, PongsFollowPings
<1> QED BY <1>1, PingPongInvariant, PTL

\* The watcher's counts are related as those of any one moment.
THEOREM ReportIsConsistent == Spec => []WatcherSeesOneMoment
<1>1. IInv => WatcherSeesOneMoment
  BY DEF IInv, WatcherOK
<1> QED BY <1>1, PingPongInvariant, PTL
=============================================================================
