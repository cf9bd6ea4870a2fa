---------------------------- MODULE BenchProofs ----------------------------
(***************************************************************************)
(* Theorems about the programs of the test bench on a Linux host.  Module  *)
(* Bench: the FIFO bridge and the listeners around a broker that stops and *)
(* comes back, for every size and number of datagrams, runs of the broker  *)
(* and refusals.  Module BusPirate: the radio's register accesses through  *)
(* a Bus Pirate, for lines that do any of the three things they can do and *)
(* for any number of empty reads.                                          *)
(***************************************************************************)
EXTENDS Bench, BusPirate, SequenceTheorems, TLAPS

-----------------------------------------------------------------------------
(* Sequences *)

\* Which datagram and which of its bytes position q * Size + i of a stream is.
LEMMA Position ==
    ASSUME NEW q \in Nat, NEW i \in 1..Size
    PROVE  /\ ((q * Size + i) - 1) \div Size = q
           /\ ((q * Size + i) - 1) % Size = i - 1
<1> DEFINE n == (q * Size + i) - 1
           d == n \div Size
           m == n % Size
<1>1. Size \in Nat /\ Size > 0 /\ q * Size \in Nat
  BY FifoBridgeAssumption
<1>2. n \in Nat /\ n = q * Size + (i - 1) /\ i - 1 \in 0..Size - 1
  BY <1>1
<1>3. d \in Nat /\ m \in 0..Size - 1 /\ n = Size * d + m
  BY <1>1, <1>2
<1> HIDE DEF n, d, m
<1>4. d = q
  <2>1. ASSUME d < q PROVE FALSE
    <3>1. Size * (d + 1) <= Size * q
      BY <1>1, <1>3, <2>1
    <3>2. Size * (d + 1) = Size * d + Size
      BY <1>1, <1>3
    <3>. QED  BY <1>1, <1>2, <1>3, <3>1, <3>2
  <2>2. ASSUME q < d PROVE FALSE
    <3>1. Size * (q + 1) <= Size * d
      BY <1>1, <1>3, <2>2
    <3>2. Size * (q + 1) = Size * q + Size
      BY <1>1
    <3>. QED  BY <1>1, <1>2, <1>3, <3>1, <3>2
  <2>. QED  BY <1>3, <2>1, <2>2
<1>5. m = i - 1
  BY <1>1, <1>2, <1>3, <1>4
<1>. QED  BY <1>4, <1>5 DEF d, m, n

\* Every position of a stream of n datagrams is one of those.
LEMMA PositionOf ==
    ASSUME NEW n \in Nat, NEW k \in 1..Size * n
    PROVE  \E q \in 0..n - 1, i \in 1..Size : k = q * Size + i
<1> DEFINE q == (k - 1) \div Size
           m == (k - 1) % Size
<1>1. Size \in Nat /\ Size > 0 /\ Size * n \in Nat
  BY FifoBridgeAssumption
<1>2. q \in Nat /\ m \in 0..Size - 1 /\ k - 1 = Size * q + m
  BY <1>1
<1> HIDE DEF q, m
<1>3. q < n
  <2>1. ASSUME q >= n PROVE FALSE
    <3>1. Size * q >= Size * n
      BY <1>1, <1>2, <2>1
    <3>. QED  BY <1>1, <1>2, <3>1
  <2>. QED  BY <1>2, <2>1
<1>4. k = q * Size + (m + 1) /\ q \in 0..n - 1 /\ m + 1 \in 1..Size
  BY <1>1, <1>2, <1>3
<1>. QED  BY <1>4

\* A datagram is Size bytes, numbered.
LEMMA BytesType ==
    ASSUME NEW d \in Datagram
    PROVE  /\ Bytes(d) \in Seq(Datagram \X (1..Size))
           /\ Len(Bytes(d)) = Size
           /\ \A i \in 1..Size : Bytes(d)[i] = <<d, i>>
BY FifoBridgeAssumption DEF Bytes

\* A stream has the bytes of its datagrams, Size of each, in their places.
LEMMA StreamType ==
    ASSUME NEW ds \in Seq(Datagram)
    PROVE  /\ Stream(ds) \in Seq(Datagram \X (1..Size))
           /\ Len(Stream(ds)) = Size * Len(ds)
           /\ \A q \in 0..Len(ds) - 1, i \in 1..Size :
                 Stream(ds)[q * Size + i] = <<ds[1 + q], i>>
<1>1. Size \in Nat /\ Size > 0 /\ Len(ds) \in Nat /\ Size * Len(ds) \in Nat
  BY FifoBridgeAssumption
<1>2. ASSUME NEW q \in 0..Len(ds) - 1, NEW i \in 1..Size
      PROVE  /\ q * Size + i \in 1..Size * Len(ds)
             /\ Stream(ds)[q * Size + i] = <<ds[1 + q], i>>
  <2>1. q * Size + i \in 1..Size * Len(ds)
    <3>1. q * Size \in Nat /\ (q + 1) * Size = q * Size + Size
      BY <1>1
    <3>2. (q + 1) * Size <= Size * Len(ds)
      BY <1>1
    <3>. QED  BY <1>1, <3>1, <3>2
  <2>2. 1 + (i - 1) = i
    OBVIOUS
  <2>3. Stream(ds)[q * Size + i] =
          <<ds[1 + (((q * Size + i) - 1) \div Size)], 1 + (((q * Size + i) - 1) % Size)>>
    BY <2>1, Zenon DEF Stream
  <2>4. q \in Nat
    BY <1>1
  <2>5. /\ ((q * Size + i) - 1) \div Size = q
        /\ ((q * Size + i) - 1) % Size = i - 1
    BY <2>4, Position
  <2>. QED  BY <2>1, <2>2, <2>3, <2>5, Zenon
<1>3. ASSUME NEW k \in 1..Size * Len(ds)
      PROVE  Stream(ds)[k] \in Datagram \X (1..Size)
  <2>1. PICK q \in 0..Len(ds) - 1, i \in 1..Size : k = q * Size + i
    BY <1>1, <1>3, PositionOf
  <2>2. Stream(ds)[k] = <<ds[1 + q], i>>
    BY <1>2, <2>1
  <2>3. ds[1 + q] \in Datagram
    BY <1>1
  <2>. QED  BY <2>2, <2>3
<1>4. /\ DOMAIN Stream(ds) = 1..Size * Len(ds)
      /\ Stream(ds) = [k \in 1..Size * Len(ds) |-> Stream(ds)[k]]
  BY Zenon DEF Stream
<1>5. Stream(ds) \in Seq(Datagram \X (1..Size)) /\ Len(Stream(ds)) = Size * Len(ds)
  BY <1>1, <1>3, <1>4
<1>. QED  BY <1>2, <1>5

\* A datagram more is its bytes more.
LEMMA StreamAppend ==
    ASSUME NEW ds \in Seq(Datagram), NEW d \in Datagram
    PROVE  Stream(Append(ds, d)) = Stream(ds) \o Bytes(d)
<1> DEFINE es == Append(ds, d)
           T == Datagram \X (1..Size)
<1>1. /\ es \in Seq(Datagram) /\ Len(es) = Len(ds) + 1
      /\ \A j \in 1..Len(ds) : es[j] = ds[j]
      /\ es[Len(ds) + 1] = d
  BY AppendProperties
<1> HIDE DEF es
<1>2. Size \in Nat /\ Size > 0 /\ Len(ds) \in Nat /\ Size * Len(ds) \in Nat
  BY FifoBridgeAssumption
<1>3. /\ Stream(ds) \in Seq(T) /\ Len(Stream(ds)) = Size * Len(ds)
      /\ Stream(es) \in Seq(T) /\ Len(Stream(es)) = Size * Len(es)
      /\ Bytes(d) \in Seq(T) /\ Len(Bytes(d)) = Size
  BY <1>1, StreamType, BytesType, Zenon
<1> HIDE DEF T
<1>4. /\ Stream(ds) \o Bytes(d) \in Seq(T)
      /\ Len(Stream(ds) \o Bytes(d)) = Size * Len(ds) + Size
      /\ Size * Len(es) = Size * Len(ds) + Size
  <2>1. Size * (Len(ds) + 1) = Size * Len(ds) + Size
    BY <1>2
  <2>2. /\ Stream(ds) \o Bytes(d) \in Seq(T)
        /\ Len(Stream(ds) \o Bytes(d)) = Len(Stream(ds)) + Len(Bytes(d))
    BY <1>3, ConcatProperties, Zenon
  <2>. QED  BY <1>1, <1>3, <2>1, <2>2, Zenon
<1>5. ASSUME NEW k \in 1..Size * Len(es)
      PROVE  Stream(es)[k] = (Stream(ds) \o Bytes(d))[k]
  <2>1. Len(es) \in Nat
    BY <1>1, <1>2
  <2>2. PICK q \in 0..Len(es) - 1, i \in 1..Size : k = q * Size + i
    BY <1>5, <2>1, PositionOf, Zenon
  <2>3. Stream(es)[k] = <<es[1 + q], i>>
    BY <1>1, <2>2, StreamType, Zenon
  <2>4. CASE q < Len(ds)
    <3>1. q \in 0..Len(ds) - 1 /\ 1 + q \in 1..Len(ds)
      BY <1>2, <2>2, <2>4
    <3>2. k \in 1..Size * Len(ds)
      <4>1. q * Size \in Nat /\ (q + 1) * Size = q * Size + Size
        BY <1>2
      <4>2. (q + 1) * Size <= Size * Len(ds)
        BY <1>2, <3>1
      <4>. QED  BY <1>2, <2>2, <4>1, <4>2
    <3>3. Stream(ds)[k] = <<ds[1 + q], i>>
      BY <2>2, <3>1, StreamType, Zenon
    <3>4. (Stream(ds) \o Bytes(d))[k] = Stream(ds)[k]
      BY <1>3, <3>2, ConcatProperties
    <3>. QED  BY <1>1, <2>3, <3>1, <3>3, <3>4
  <2>5. CASE q >= Len(ds)
    <3>1. q = Len(ds) /\ 1 + q = Len(ds) + 1
      BY <1>1, <1>2, <2>2, <2>5
    <3>2. k = Size * Len(ds) + i
      BY <1>2, <2>2, <3>1
    <3>3. (Stream(ds) \o Bytes(d))[k] = Bytes(d)[i]
      <4>1. \A j \in 1..Len(Stream(ds)) + Len(Bytes(d)) :
              (Stream(ds) \o Bytes(d))[j] =
                 IF j <= Len(Stream(ds)) THEN Stream(ds)[j]
                 ELSE Bytes(d)[j - Len(Stream(ds))]
        BY <1>3, ConcatProperties, Zenon
      <4>2. /\ k \in 1..Size * Len(ds) + Size
            /\ ~(k <= Size * Len(ds))
            /\ k - Size * Len(ds) = i
        BY <1>2, <3>2
      <4>. QED  BY <1>3, <4>1, <4>2, Zenon
    <3>4. Bytes(d)[i] = <<d, i>>
      BY BytesType
    <3>. QED  BY <1>1, <2>3, <3>1, <3>3, <3>4, Zenon
  <2>6. q < Len(ds) \/ q >= Len(ds)
    BY <1>2
  <2>. QED  BY <2>4, <2>5, <2>6, Zenon
<1>6. Len(Stream(es)) = Len(Stream(ds) \o Bytes(d))
  BY <1>3, <1>4, Zenon
<1>7. \A k \in 1..Len(Stream(es)) : Stream(es)[k] = (Stream(ds) \o Bytes(d))[k]
  BY <1>3, <1>5, Zenon
<1>8. Stream(es) = Stream(ds) \o Bytes(d)
  BY <1>3, <1>4, <1>6, <1>7, SeqEqual, Zenon
<1>. QED  BY <1>8 DEF es

-----------------------------------------------------------------------------
(* The library *)

\* No connection is a connection that brought no CONNACK.
LEMMA NoConnType == NoConn \in Connection /\ NoConn.accepted = FALSE
BY DEF NoConn, Connection

\* Connecting yields a connection.
LEMMA ConnectFacts == mosquitto_connect[2] \in Connection
<1>1. [NoConn EXCEPT !.socket = TRUE, !.alive = TRUE, !.out = <<"CONNECT">>] \in Connection
  <2>1. <<"CONNECT">> \in Seq(Request)
    BY DEF Request
  <2>. QED  BY <2>1, NoConnType, Zenon DEF Connection
<1>. QED  BY <1>1, NoConnType DEF mosquitto_connect

\* So does subscribing, whether it succeeds or not.
LEMMA SubscribeFacts ==
    ASSUME conn \in Connection, NEW r \in mosquitto_subscribe
    PROVE  r[2] \in Connection
<1> DEFINE c == [conn EXCEPT !.out = Append(@, "SUBSCRIBE")]
<1>1. c \in Connection
  <2>1. Append(conn.out, "SUBSCRIBE") \in Seq(Request)
    BY DEF Connection, Request
  <2>. QED  BY <2>1, Zenon DEF Connection
<1> HIDE DEF c
<1>2. r \in {<<"NO_CONN", conn>>, <<"SUCCESS", conn>>, <<"CONN_LOST", conn>>, <<"SUCCESS", c>>}
  BY Zenon DEF mosquitto_subscribe, c
<1>. QED  BY <1>1, <1>2

\* What mosquitto_loop may do to the connection.
LEMMA LoopFacts ==
    ASSUME conn \in Connection, NEW r \in mosquitto_loop
    PROVE  /\ r[2] \in Connection
           /\ r[1] = "accepted" => r[2].accepted
           /\ r[1] \notin {"refused", "CONN_LOST"} /\ conn.accepted => r[2].accepted
<1>1. CASE r = <<"NO_CONN", conn>> \/ r = <<"SUCCESS", conn>>
  <2>1. r[2] = conn /\ r[1] # "accepted"
    BY <1>1
  <2>. QED  BY <2>1
<1>2. CASE r = <<"CONN_LOST", NoConn>>
  <2>1. r[2] = NoConn /\ r[1] = "CONN_LOST"
    BY <1>2
  <2>. QED  BY <2>1, NoConnType
<1>3. CASE conn.in # <<>> /\ r = <<Head(conn.in), Taken(Head(conn.in))>>
  <2>1. /\ r[1] = Head(conn.in) /\ r[2] = Taken(Head(conn.in))
        /\ Head(conn.in) \in Reply /\ Tail(conn.in) \in Seq(Reply)
    BY <1>3 DEF Connection
  <2>2. CASE r[1] = "refused"
    BY <2>1, <2>2, NoConnType DEF Taken
  <2>3. CASE r[1] # "refused"
    <3>1. r[2] = [conn EXCEPT !.in = Tail(@), !.accepted = @ \/ r[1] = "accepted"]
      BY <2>1, <2>3, Zenon DEF Taken
    <3>2. (conn.accepted \/ r[1] = "accepted") \in BOOLEAN
      BY Zenon
    <3>3. /\ r[2] \in Connection
          /\ r[2].accepted = (conn.accepted \/ r[1] = "accepted")
      BY <2>1, <3>1, <3>2, Zenon DEF Connection
    <3>. QED  BY <3>3, Zenon
  <2>. QED  BY <2>2, <2>3
<1>4. \/ r = <<"NO_CONN", conn>> \/ r = <<"SUCCESS", conn>>
      \/ r = <<"CONN_LOST", NoConn>>
      \/ conn.in # <<>> /\ r = <<Head(conn.in), Taken(Head(conn.in))>>
  BY DEF mosquitto_loop
<1>. QED  BY <1>1, <1>2, <1>3, <1>4, Zenon

-----------------------------------------------------------------------------
(* The listeners *)

\* A listener that starts has no CONNACK.
LEMMA ClientInitInv == ClientInit => ClientInv
<1> SUFFICES ASSUME ClientInit PROVE ClientInv
  OBVIOUS
<1>1. /\ client \in [program : Programs, pc : {"connect"}, connack : {"NONE"}]
      /\ conn = NoConn /\ refusals = 0
  BY DEF ClientInit
<1>2. ClientTypeOK
  BY <1>1, NoConnType, MqttClientAssumption DEF ClientTypeOK
<1>3. client.connack # "HAVE"
  BY <1>1
<1>. QED  BY <1>2, <1>3, Zenon DEF ClientInv, ConnackOrigin

\* discard2 takes its CONNACK from the connection it listens to.
LEMMA Discard2Inv ==
    ASSUME ClientInv, Discard2
    PROVE  ClientInv'
<1>1. ClientTypeOK /\ conn \in Connection /\ client.program = "discard2"
  BY DEF ClientInv, ClientTypeOK, Discard2, Connect, Subscribe, PollHandled, PollLost
<1>2. CASE Connect
  <2>1. /\ conn' = mosquitto_connect[2]
        /\ \E pc \in {"subscribe", "exit"} :
              client' = [client EXCEPT !.connack = "WANT", !.pc = pc]
        /\ refusals' = refusals
    BY <1>2 DEF Connect
  <2>2. ClientTypeOK'
    BY <1>1, <2>1, ConnectFacts DEF ClientTypeOK
  <2>3. client'.connack # "HAVE"
    BY <1>1, <2>1 DEF ClientTypeOK
  <2>. QED  BY <2>2, <2>3, Zenon DEF ClientInv, ConnackOrigin
<1>3. CASE Subscribe
  <2>1. PICK r \in mosquitto_subscribe :
          /\ conn' = r[2]
          /\ client' = [client EXCEPT !.pc = IF r[1] = "SUCCESS" THEN "loop" ELSE "exit"]
    BY <1>3, Zenon DEF Subscribe
  <2>2. refusals' = refusals /\ client.pc = "subscribe"
    BY <1>3 DEF Subscribe
  <2>3. conn' \in Connection
    BY <1>1, <2>1, SubscribeFacts
  <2>4. ClientTypeOK'
    BY <1>1, <2>1, <2>2, <2>3 DEF ClientTypeOK
  <2>5. client.connack # "HAVE"
    BY <2>2, Zenon DEF ClientInv, ConnackOrigin
  <2>6. client'.connack # "HAVE"
    BY <1>1, <2>1, <2>5 DEF ClientTypeOK
  <2>. QED  BY <2>4, <2>6, Zenon DEF ClientInv, ConnackOrigin
<1>4. CASE PollHandled
  <2>1. PICK r \in mosquitto_loop :
          /\ r[1] # "CONN_LOST"
          /\ conn' = r[2]
          /\ client' = [client EXCEPT
                !.connack = IF r[1] \in {"accepted", "refused"} THEN OnConnect(r[1]) ELSE @,
                !.pc = IF r[1] \in {"refused", "NO_CONN"} THEN "exit" ELSE @]
    BY <1>4, Zenon DEF PollHandled
  <2>2. refusals' = refusals /\ client.pc = "loop"
    BY <1>4 DEF PollHandled
  <2>3. /\ conn' \in Connection
        /\ r[1] = "accepted" => conn'.accepted
        /\ r[1] # "refused" /\ conn.accepted => conn'.accepted
    BY <1>1, <2>1, LoopFacts
  <2>4. OnConnect("accepted") \in {"NONE", "WANT", "HAVE", "ERROR"} /\ OnConnect("refused") = "ERROR"
    BY <1>1 DEF OnConnect, ClientTypeOK
  <2>5. /\ client' \in [program : Programs,
                        pc : {"connect", "subscribe", "loop", "reconnect", "exit"},
                        connack : {"NONE", "WANT", "HAVE", "ERROR"}]
        /\ client'.program = client.program
        /\ client'.pc \in {"loop", "exit"}
        /\ client'.pc = "loop" /\ client'.connack = "HAVE" =>
              r[1] # "refused" /\ (r[1] = "accepted" \/ client.connack = "HAVE")
    BY <1>1, <2>1, <2>2, <2>4 DEF ClientTypeOK
  <2>6. ClientTypeOK'
    BY <1>1, <2>2, <2>3, <2>5 DEF ClientTypeOK
  <2>7. ConnackOrigin'
    BY <1>1, <2>2, <2>3, <2>5, Zenon DEF ClientInv, ConnackOrigin
  <2>. QED  BY <2>6, <2>7 DEF ClientInv
<1>5. CASE PollLost
  <2>1. /\ conn' = mosquitto_connect[2]
        /\ \E pc \in {"loop", "exit"} :
              client' = [client EXCEPT !.connack = "WANT", !.pc = pc]
        /\ refusals' = refusals
    BY <1>5 DEF PollLost
  <2>2. ClientTypeOK'
    BY <1>1, <2>1, ConnectFacts DEF ClientTypeOK
  <2>3. client'.connack # "HAVE"
    BY <1>1, <2>1 DEF ClientTypeOK
  <2>. QED  BY <2>2, <2>3, Zenon DEF ClientInv, ConnackOrigin
<1>. QED  BY <1>2, <1>3, <1>4, <1>5 DEF Discard2

\* discard never touches what the wrapper knows.
LEMMA DiscardInv ==
    ASSUME ClientInv, Discard
    PROVE  ClientInv'
<1>1. ClientTypeOK /\ conn \in Connection /\ client.connack # "HAVE"
  <2>1. client.program = "discard"
    BY DEF Discard, DiscardStart, DiscardSubscribe, DiscardLoop, DiscardReconnect
  <2>2. client.connack # "HAVE"
    BY <2>1 DEF ClientInv, ConnackOrigin
  <2>. QED  BY <2>2 DEF ClientInv, ClientTypeOK
<1>2. conn' \in Connection
  <2>1. CASE DiscardStart \/ DiscardReconnect
    BY <2>1, ConnectFacts DEF DiscardStart, DiscardReconnect
  <2>2. CASE DiscardSubscribe
    BY <1>1, <2>2, SubscribeFacts DEF DiscardSubscribe
  <2>3. CASE DiscardLoop
    <3>1. PICK r \in mosquitto_loop : conn' = r[2]
      BY <2>3, Zenon DEF DiscardLoop
    <3>. QED  BY <1>1, <3>1, LoopFacts
  <2>. QED  BY <2>1, <2>2, <2>3 DEF Discard
<1>3. /\ \E pc \in {"subscribe", "loop", "reconnect"} : client' = [client EXCEPT !.pc = pc]
      /\ refusals' = refusals
  <2>1. CASE DiscardLoop
    <3>1. PICK r \in mosquitto_loop :
            client' = [client EXCEPT !.pc =
                IF r[1] \in {"CONN_LOST", "NO_CONN", "refused"} THEN "reconnect" ELSE @]
      BY <2>1, Zenon DEF DiscardLoop
    <3>2. client.pc = "loop" /\ refusals' = refusals
      BY <2>1 DEF DiscardLoop
    <3>. QED  BY <3>1, <3>2
  <2>2. CASE DiscardStart \/ DiscardSubscribe \/ DiscardReconnect
    BY <2>2 DEF DiscardStart, DiscardSubscribe, DiscardReconnect
  <2>. QED  BY <2>1, <2>2 DEF Discard
<1>4. ClientTypeOK' /\ client'.connack # "HAVE"
  BY <1>1, <1>2, <1>3 DEF ClientTypeOK
<1>. QED  BY <1>4, Zenon DEF ClientInv, ConnackOrigin

\* The broker's end changes what is under way, not what was taken from it.
LEMMA BrokerEndInv ==
    ASSUME ClientInv, BrokerHandles \/ BrokerPublishes \/ (conn' = Severed /\ UNCHANGED <<client, refusals>>)
    PROVE  ClientInv'
<1>1. ClientTypeOK /\ conn \in Connection
  BY DEF ClientInv, ClientTypeOK
<1>2. Severed \in Connection /\ Severed.accepted = conn.accepted /\ Severed.in = conn.in
  <2>1. <<>> \in Seq(Request)
    OBVIOUS
  <2>. QED  BY <1>1, <2>1, Zenon DEF Severed, Connection
<1>3. \A x \in Reply : Append(conn.in, x) \in Seq(Reply)
  BY <1>1 DEF Connection
<1>4. conn.out # <<>> => Tail(conn.out) \in Seq(Request)
  BY <1>1 DEF Connection
<1>5. /\ conn' \in Connection /\ conn'.accepted = conn.accepted
      /\ refusals' \in 0..MaxRefusals
      /\ client' = client
  <2>1. CASE BrokerAccepts
    <3>1. Append(conn.in, "accepted") \in Seq(Reply)
      BY <1>3 DEF Reply
    <3>2. UNCHANGED <<client, refusals>>
      BY <2>1 DEF BrokerAccepts
    <3>3. conn' \in Connection /\ conn'.accepted = conn.accepted
      BY <1>1, <1>4, <2>1, <3>1, Zenon DEF BrokerAccepts, Connection
    <3>. QED  BY <1>1, <3>2, <3>3 DEF ClientTypeOK
  <2>2. CASE BrokerRefuses
    <3>1. Append(Severed.in, "refused") \in Seq(Reply)
      BY <1>2, <1>3 DEF Reply
    <3>2. client' = client /\ refusals' \in 0..MaxRefusals
      BY <1>1, <2>2, MqttClientAssumption DEF BrokerRefuses, ClientTypeOK
    <3>3. conn' = [Severed EXCEPT !.in = Append(@, "refused")]
      BY <2>2 DEF BrokerRefuses
    <3>4. conn' \in Connection /\ conn'.accepted = Severed.accepted
      BY <1>2, <3>1, <3>3, Zenon DEF Connection
    <3>. QED  BY <1>2, <3>2, <3>4
  <2>3. CASE BrokerSubscribes
    <3>1. UNCHANGED <<client, refusals>>
      BY <2>3 DEF BrokerSubscribes
    <3>2. conn' \in Connection /\ conn'.accepted = conn.accepted
      BY <1>1, <1>4, <2>3, Zenon DEF BrokerSubscribes, Connection
    <3>. QED  BY <1>1, <3>1, <3>2 DEF ClientTypeOK
  <2>4. CASE BrokerPublishes
    <3>1. Append(conn.in, "PUBLISH") \in Seq(Reply)
      BY <1>3 DEF Reply
    <3>2. UNCHANGED <<client, refusals>>
      BY <2>4 DEF BrokerPublishes
    <3>3. conn' \in Connection /\ conn'.accepted = conn.accepted
      BY <1>1, <2>4, <3>1, Zenon DEF BrokerPublishes, Connection
    <3>. QED  BY <1>1, <3>2, <3>3 DEF ClientTypeOK
  <2>5. CASE conn' = Severed /\ UNCHANGED <<client, refusals>>
    BY <1>1, <1>2, <2>5 DEF ClientTypeOK
  <2>. QED  BY <2>1, <2>2, <2>3, <2>4, <2>5 DEF BrokerHandles
<1>6. ClientTypeOK'
  BY <1>1, <1>5 DEF ClientTypeOK
<1>7. ConnackOrigin'
  BY <1>5, Zenon DEF ClientInv, ConnackOrigin
<1>. QED  BY <1>6, <1>7 DEF ClientInv

-----------------------------------------------------------------------------
(* The bridge *)

\* A bridge that starts holds nothing.
LEMMA BridgeInitInv == BridgeInit => BridgeInv
<1> SUFFICES ASSUME BridgeInit PROVE BridgeInv
  OBVIOUS
<1>1. BridgeTypeOK
  <2>1. shared \in [address : Address, mx : {"free", "outward", "inward"}]
    BY BrokerAssumption DEF BridgeInit, Address
  <2>2. outward \in [pc : {"rcvfrom", "lock", "ip", "port", "write", "finish"},
                     from : 0..MaxRuns, rest : Seq(Datagram \X (1..Size))]
    BY BrokerAssumption DEF BridgeInit
  <2>3. inward \in [pc : {"read", "lock", "ip", "port", "sndto"}, address : Address]
    BY BrokerAssumption DEF BridgeInit, Address
  <2>4. fifo \in [open : BOOLEAN, read : BOOLEAN, killed : BOOLEAN,
                  written : Seq(Datagram \X (1..Size))]
    <3>1. PICK o \in Opened :
             fifo = [open |-> o, read |-> TRUE, killed |-> FALSE, written |-> <<>>]
      BY Zenon DEF BridgeInit
    <3>2. o \in BOOLEAN
      BY FifoBridgeAssumption, Zenon
    <3>3. <<>> \in Seq(Datagram \X (1..Size))
      OBVIOUS
    <3>. QED  BY <3>1, <3>2, <3>3, Zenon
  <2>5. net \in [sent : 0..MaxDatagrams, buffer : Seq(Run \X Datagram), taken : Seq(Datagram)]
    BY FifoBridgeAssumption DEF BridgeInit
  <2>6. stale \in Nat
    BY DEF BridgeInit
  <2>. QED  BY <2>1, <2>2, <2>3, <2>4, <2>5, <2>6 DEF BridgeTypeOK
<1>2. MutexHeld /\ SharedWhole /\ AddressWhole /\ AtMostOneStale /\ AstrayOnce /\ WrittenToEnd
  BY DEF BridgeInit, MutexHeld, SharedWhole, AddressWhole, AtMostOneStale, AstrayOnce, WrittenToEnd
<1>3. FifoIsStream
  <2>1. /\ fifo.written = <<>> /\ outward.rest = <<>> /\ net.taken = <<>>
    BY DEF BridgeInit
  <2>2. /\ <<>> \in Seq(Datagram) /\ <<>> \in Seq(Datagram \X (1..Size))
        /\ Len(<<>>) = 0 /\ Size * 0 = 0
    BY FifoBridgeAssumption
  <2>3. Stream(<<>>) \in Seq(Datagram \X (1..Size)) /\ Len(Stream(<<>>)) = 0
    BY <2>2, StreamType
  <2>4. Stream(<<>>) = <<>>
    BY <2>3
  <2>5. <<>> \o <<>> = <<>>
    BY <2>2
  <2>. QED  BY <2>1, <2>4, <2>5 DEF FifoIsStream
<1>. QED  BY <1>1, <1>2, <1>3 DEF BridgeInv

\* The bridge is not touched by the listeners.
LEMMA BridgeKept ==
    ASSUME BridgeInv, UNCHANGED bridgeVars
    PROVE  BridgeInv'
BY Zenon DEF bridgeVars, BridgeInv, BridgeTypeOK, MutexHeld, SharedWhole, AddressWhole,
     AtMostOneStale, AstrayOnce, WrittenToEnd, FifoIsStream

\* The listeners are not touched by the bridge.
LEMMA ClientKept ==
    ASSUME ClientInv, UNCHANGED clientVars
    PROVE  ClientInv'
BY Zenon DEF clientVars, ClientInv, ClientTypeOK, ConnackOrigin

\* The part of the invariant that is about mutex and address.
AddressInv ==
    MutexHeld /\ SharedWhole /\ AddressWhole /\ AtMostOneStale /\ AstrayOnce

\* The part that is about the bytes.
StreamInv == WrittenToEnd /\ FifoIsStream

\* Taking a datagram puts its bytes behind those that are written.
LEMMA rcvfromInv ==
    ASSUME BridgeInv, rcvfrom
    PROVE  BridgeInv'
<1>1. BridgeTypeOK
  BY DEF BridgeInv
<1> DEFINE d == Head(net.buffer)
<1>2. /\ outward.pc = "rcvfrom" /\ net.buffer # <<>>
      /\ outward' = [pc |-> "lock", from |-> d[1], rest |-> Bytes(d[2])]
      /\ net' = [net EXCEPT !.buffer = Tail(@), !.taken = Append(@, d[2])]
      /\ UNCHANGED <<shared, inward, fifo, stale>>
  BY Zenon DEF rcvfrom
<1>3. /\ d[1] \in Run /\ d[2] \in Datagram
      /\ Tail(net.buffer) \in Seq(Run \X Datagram)
      /\ net.taken \in Seq(Datagram)
      /\ Append(net.taken, d[2]) \in Seq(Datagram)
  BY <1>1, <1>2 DEF BridgeTypeOK
<1> HIDE DEF d
<1>4. /\ Bytes(d[2]) \in Seq(Datagram \X (1..Size))
      /\ d[1] \in 0..MaxRuns
  BY <1>3, BytesType DEF Run
<1>5. net' \in [sent : 0..MaxDatagrams, buffer : Seq(Run \X Datagram), taken : Seq(Datagram)]
      /\ net'.taken = Append(net.taken, d[2])
  BY <1>1, <1>2, <1>3, Zenon DEF BridgeTypeOK
<1>6. BridgeTypeOK'
  <2>1. outward' \in [pc : {"rcvfrom", "lock", "ip", "port", "write", "finish"},
                      from : 0..MaxRuns, rest : Seq(Datagram \X (1..Size))]
    BY <1>2, <1>4
  <2>. QED  BY <1>1, <1>2, <1>5, <2>1, Zenon DEF BridgeTypeOK
<1>7. AddressInv'
  BY <1>1, <1>2 DEF BridgeInv, BridgeTypeOK, AddressInv, MutexHeld, SharedWhole, AddressWhole,
       AtMostOneStale, AstrayOnce
<1>8. StreamInv'
  <2>1. /\ outward'.rest = Bytes(d[2]) /\ outward'.pc = "lock" /\ fifo' = fifo
    BY <1>2
  <2>2. fifo.written \in Seq(Datagram \X (1..Size))
    BY <1>1 DEF BridgeTypeOK
  <2>3. fifo.written = Stream(net.taken)
    <3>1. outward.rest = <<>> /\ fifo.written \o outward.rest = Stream(net.taken)
      BY <1>2 DEF BridgeInv, WrittenToEnd, FifoIsStream
    <3>. QED  BY <2>2, <3>1, ConcatEmptySeq, Zenon
  <2>4. Stream(Append(net.taken, d[2])) = Stream(net.taken) \o Bytes(d[2])
    BY <1>3, StreamAppend
  <2>. QED  BY <1>5, <2>1, <2>3, <2>4, Zenon DEF StreamInv, WrittenToEnd, FifoIsStream
<1>. QED  BY <1>6, <1>7, <1>8 DEF BridgeInv, AddressInv, StreamInv

\* Update and Get: the bytes stay where they are.
LEMMA AddressSteps ==
    ASSUME BridgeInv,
           UpdateLock \/ UpdateIp \/ UpdatePort
             \/ read \/ GetLock \/ GetIp \/ GetPort \/ sndto
    PROVE  BridgeInv'
<1>1. BridgeTypeOK
  BY DEF BridgeInv
<1>2. /\ UNCHANGED <<fifo, net>>
      /\ outward'.rest = outward.rest
      /\ outward'.pc = "rcvfrom" => outward.pc = "rcvfrom"
  <2>1. CASE UpdateLock \/ UpdateIp \/ UpdatePort
    BY <1>1, <2>1 DEF BridgeTypeOK, UpdateLock, UpdateIp, UpdatePort
  <2>2. CASE read \/ GetLock \/ GetIp \/ GetPort \/ sndto
    <3>1. UNCHANGED <<fifo, net>> /\ UNCHANGED outward
      BY <2>2, Zenon DEF read, GetLock, GetIp, GetPort, sndto
    <3>. QED  BY <3>1
  <2>. QED  BY <2>1, <2>2
<1>3. StreamInv'
  BY <1>2 DEF BridgeInv, StreamInv, WrittenToEnd, FifoIsStream
<1>4. BridgeTypeOK'
  <2>1. shared' \in [address : Address, mx : {"free", "outward", "inward"}]
    <3>1. CASE UpdateLock \/ GetLock \/ GetPort
      BY <1>1, <3>1, Zenon DEF BridgeTypeOK, UpdateLock, GetLock, GetPort
    <3>3. CASE UpdateIp
      BY <1>1, <3>3 DEF BridgeTypeOK, Address, UpdateIp
    <3>4. CASE UpdatePort
      BY <1>1, <3>4 DEF BridgeTypeOK, Address, UpdatePort
    <3>2. CASE read \/ GetIp \/ sndto
      BY <1>1, <3>2, Zenon DEF BridgeTypeOK, read, GetIp, sndto
    <3>. QED  BY <3>1, <3>2, <3>3, <3>4
  <2>2. outward' \in [pc : {"rcvfrom", "lock", "ip", "port", "write", "finish"},
                      from : 0..MaxRuns, rest : Seq(Datagram \X (1..Size))]
    <3>1. CASE UpdateLock \/ UpdateIp \/ UpdatePort
      BY <1>1, <3>1 DEF BridgeTypeOK, UpdateLock, UpdateIp, UpdatePort
    <3>2. CASE read \/ GetLock \/ GetIp \/ GetPort \/ sndto
      BY <1>1, <3>2, Zenon DEF BridgeTypeOK, read, GetLock, GetIp, GetPort, sndto
    <3>. QED  BY <3>1, <3>2
  <2>3. inward' \in [pc : {"read", "lock", "ip", "port", "sndto"}, address : Address]
    <3>1. CASE UpdateLock \/ UpdateIp \/ UpdatePort
      BY <1>1, <3>1, Zenon DEF BridgeTypeOK, UpdateLock, UpdateIp, UpdatePort
    <3>2. CASE read \/ GetLock \/ sndto
      BY <1>1, <3>2, Zenon DEF BridgeTypeOK, read, GetLock, sndto
    <3>3. CASE GetIp
      BY <1>1, <3>3 DEF BridgeTypeOK, Address, GetIp
    <3>4. CASE GetPort
      BY <1>1, <3>4 DEF BridgeTypeOK, Address, GetPort
    <3>. QED  BY <3>1, <3>2, <3>3, <3>4
  <2>4. stale' \in Nat
    BY <1>1 DEF BridgeTypeOK, UpdateLock, UpdateIp, UpdatePort, read, GetLock, GetIp, GetPort, sndto
  <2>. QED  BY <1>1, <1>2, <2>1, <2>2, <2>3, <2>4, Zenon DEF BridgeTypeOK
<1>5. AddressInv'
  <2> USE DEF BridgeInv, BridgeTypeOK, Address, AddressInv, MutexHeld, SharedWhole,
              AddressWhole, AtMostOneStale, AstrayOnce
  <2>1. CASE UpdateLock
    BY <1>1, <2>1 DEF UpdateLock
  <2>2. CASE UpdateIp
    BY <1>1, <2>2 DEF UpdateIp
  <2>3. CASE UpdatePort
    BY <1>1, <2>3 DEF UpdatePort
  <2>4. CASE read
    BY <1>1, <2>4 DEF read
  <2>5. CASE GetLock
    BY <1>1, <2>5 DEF GetLock
  <2>6. CASE GetIp
    BY <1>1, <2>6 DEF GetIp
  <2>7. CASE GetPort
    BY <1>1, <2>7 DEF GetPort
  <2>8. CASE sndto
    BY <1>1, <2>8 DEF sndto
  <2>. QED  BY <2>1, <2>2, <2>3, <2>4, <2>5, <2>6, <2>7, <2>8, Zenon
<1>. QED  BY <1>3, <1>4, <1>5 DEF BridgeInv, AddressInv, StreamInv

\* What does not touch the address, the mutex or either thread's place in them.
LEMMA AddressKept ==
    ASSUME BridgeInv,
           UNCHANGED <<shared, inward, stale>>,
           outward'.from = outward.from,
           \/ outward'.pc = outward.pc
           \/ outward.pc \in {"rcvfrom", "write"} /\ outward'.pc \in {"rcvfrom", "finish"}
    PROVE  AddressInv'
BY DEF BridgeInv, AddressInv, MutexHeld, SharedWhole, AddressWhole, AtMostOneStale, AstrayOnce

\* The r bytes that the kernel takes move from the buffer to the FIFO.
LEMMA writeInv ==
    ASSUME BridgeInv, write
    PROVE  BridgeInv'
<1>1. BridgeTypeOK
  BY DEF BridgeInv
<1> DEFINE rest == outward.rest
           B == Datagram \X (1..Size)
<1>2. PICK r \in 1..Len(rest) :
         /\ fifo' = [fifo EXCEPT !.written = @ \o SubSeq(rest, 1, r)]
         /\ outward' = [outward EXCEPT
               !.rest = SubSeq(@, r + 1, Len(@)),
               !.pc = IF r = Len(rest) THEN "rcvfrom" ELSE @]
  BY DEF write
<1>3. /\ outward.pc = "write" /\ UNCHANGED <<shared, inward, net, stale>>
  BY DEF write
<1>4. /\ rest \in Seq(B) /\ fifo.written \in Seq(B)
      /\ Len(rest) \in Nat /\ r \in Nat
  BY <1>1 DEF BridgeTypeOK
<1> HIDE DEF B
<1>5. /\ SubSeq(rest, 1, r) \in Seq(B) /\ SubSeq(rest, r + 1, Len(rest)) \in Seq(B)
  BY <1>4
<1>6. fifo.written \o SubSeq(rest, 1, r) \in Seq(B)
  BY <1>4, <1>5
<1>7. SubSeq(rest, 1, r) \o SubSeq(rest, r + 1, Len(rest)) = rest
  <2>1. SubSeq(rest, 1, r) \o SubSeq(rest, r + 1, Len(rest)) = SubSeq(rest, 1, Len(rest))
    BY <1>4, ConcatAdjacentSubSeq
  <2>2. SubSeq(rest, 1, Len(rest)) = rest
    BY <1>4, SubSeqFull
  <2>. QED  BY <2>1, <2>2
<1>8. /\ outward'.rest = SubSeq(rest, r + 1, Len(rest))
      /\ outward'.from = outward.from
      /\ outward'.pc = IF r = Len(rest) THEN "rcvfrom" ELSE "write"
      /\ outward' \in [pc : {"rcvfrom", "lock", "ip", "port", "write", "finish"},
                        from : 0..MaxRuns, rest : Seq(B)]
  BY <1>1, <1>2, <1>3, <1>5 DEF BridgeTypeOK, B
<1>9. /\ fifo'.written = fifo.written \o SubSeq(rest, 1, r)
      /\ fifo' \in [open : BOOLEAN, read : BOOLEAN, killed : BOOLEAN, written : Seq(B)]
  BY <1>1, <1>2, <1>6, Zenon DEF BridgeTypeOK, B
<1>10. BridgeTypeOK'
  BY <1>1, <1>3, <1>8, <1>9, Zenon DEF BridgeTypeOK, B
<1>11. AddressInv'
  BY <1>3, <1>8, AddressKept
<1>12. WrittenToEnd'
  <2>1. SUFFICES ASSUME r = Len(rest) PROVE outward'.rest = <<>>
    BY <1>8 DEF WrittenToEnd
  <2>. QED  BY <1>4, <1>8, <2>1, SubSeqEmpty
<1>13. FifoIsStream'
  <2>1. fifo.written \o rest = Stream(net.taken)
    BY DEF BridgeInv, FifoIsStream
  <2>2. fifo'.written \o outward'.rest
          = fifo.written \o (SubSeq(rest, 1, r) \o SubSeq(rest, r + 1, Len(rest)))
    <3>1. (fifo.written \o SubSeq(rest, 1, r)) \o SubSeq(rest, r + 1, Len(rest))
            = fifo.written \o (SubSeq(rest, 1, r) \o SubSeq(rest, r + 1, Len(rest)))
      <4> DEFINE w == fifo.written
                 x == SubSeq(rest, 1, r)
                 y == SubSeq(rest, r + 1, Len(rest))
      <4>1. w \in Seq(B) /\ x \in Seq(B) /\ y \in Seq(B)
        BY <1>4, <1>5
      <4> HIDE DEF w, x, y
      <4>2. (w \o x) \o y = w \o (x \o y)
        BY <4>1, ConcatAssociative
      <4>. QED  BY <4>2 DEF w, x, y
    <3>. QED  BY <1>8, <1>9, <3>1, Zenon
  <2>3. net' = net
    BY <1>3
  <2>. QED  BY <1>7, <2>1, <2>2, <2>3, Zenon DEF FifoIsStream
<1>. QED  BY <1>10, <1>11, <1>12, <1>13 DEF BridgeInv, AddressInv

\* A write that fails keeps the bytes that were written and those that are
\* left.
LEMMA writeFailsInv ==
    ASSUME BridgeInv, writeFails
    PROVE  BridgeInv'
<1>1. BridgeTypeOK
  BY DEF BridgeInv
<1>2. /\ outward.pc = "write"
      /\ UNCHANGED <<shared, inward, net, stale>>
      /\ \/ fifo' = [fifo EXCEPT !.killed = TRUE] /\ UNCHANGED outward
         \/ outward' = [outward EXCEPT !.pc = "finish"] /\ UNCHANGED fifo
  BY DEF writeFails
<1>3. /\ outward' \in [pc : {"rcvfrom", "lock", "ip", "port", "write", "finish"},
                        from : 0..MaxRuns, rest : Seq(Datagram \X (1..Size))]
      /\ outward'.from = outward.from /\ outward'.rest = outward.rest
      /\ outward'.pc = outward.pc \/ outward'.pc = "finish"
  BY <1>1, <1>2 DEF BridgeTypeOK
<1>4. /\ fifo' \in [open : BOOLEAN, read : BOOLEAN, killed : BOOLEAN,
                     written : Seq(Datagram \X (1..Size))]
      /\ fifo'.written = fifo.written
  BY <1>1, <1>2, Zenon DEF BridgeTypeOK
<1>5. BridgeTypeOK'
  BY <1>1, <1>2, <1>3, <1>4, Zenon DEF BridgeTypeOK
<1>6. AddressInv'
  BY <1>2, <1>3, AddressKept
<1>7. StreamInv'
  BY <1>2, <1>3, <1>4 DEF BridgeInv, StreamInv, WrittenToEnd, FifoIsStream
<1>. QED  BY <1>5, <1>6, <1>7 DEF BridgeInv, AddressInv, StreamInv

\* An error of the socket ends the thread between two datagrams.
LEMMA rcvfromThrowsInv ==
    ASSUME BridgeInv, rcvfromThrows
    PROVE  BridgeInv'
<1>1. BridgeTypeOK
  BY DEF BridgeInv
<1>2. /\ outward.pc = "rcvfrom"
      /\ outward' = [outward EXCEPT !.pc = "finish"]
      /\ UNCHANGED <<shared, inward, fifo, net, stale>>
  BY DEF rcvfromThrows
<1>3. /\ outward' \in [pc : {"rcvfrom", "lock", "ip", "port", "write", "finish"},
                        from : 0..MaxRuns, rest : Seq(Datagram \X (1..Size))]
      /\ outward'.from = outward.from /\ outward'.rest = outward.rest
      /\ outward'.pc = "finish"
  BY <1>1, <1>2 DEF BridgeTypeOK
<1>4. BridgeTypeOK'
  BY <1>1, <1>2, <1>3, Zenon DEF BridgeTypeOK
<1>5. AddressInv'
  BY <1>2, <1>3, AddressKept
<1>6. StreamInv'
  BY <1>2, <1>3 DEF BridgeInv, StreamInv, WrittenToEnd, FifoIsStream
<1>. QED  BY <1>4, <1>5, <1>6 DEF BridgeInv, AddressInv, StreamInv

\* The broker that sends, and the reader that closes, touch neither address
\* nor stream.
LEMMA OtherEndsInv ==
    ASSUME BrokerTypeOK, BridgeInv, BrokerSends \/ ReaderCloses
    PROVE  BridgeInv'
<1>1. BridgeTypeOK
  BY DEF BridgeInv
<1>2. UNCHANGED <<shared, outward, inward, stale>>
  BY DEF BrokerSends, ReaderCloses
<1>3. /\ net' \in [sent : 0..MaxDatagrams, buffer : Seq(Run \X Datagram), taken : Seq(Datagram)]
      /\ net'.taken = net.taken
  <2>1. CASE BrokerSends
    <3>1. broker.run \in Run
      BY <2>1 DEF BrokerTypeOK, BrokerSends
    <3>2. net.sent + 1 \in Datagram /\ net.sent + 1 \in 0..MaxDatagrams
      BY <1>1, <2>1, FifoBridgeAssumption DEF BridgeTypeOK, BrokerSends, Datagram
    <3>3. Append(net.buffer, <<broker.run, net.sent + 1>>) \in Seq(Run \X Datagram)
      BY <1>1, <3>1, <3>2 DEF BridgeTypeOK
    <3>. QED  BY <1>1, <2>1, <3>2, <3>3, Zenon DEF BridgeTypeOK, BrokerSends
  <2>2. CASE ReaderCloses
    <3>1. net' = net
      BY <2>2 DEF ReaderCloses
    <3>. QED  BY <1>1, <3>1 DEF BridgeTypeOK
  <2>. QED  BY <2>1, <2>2
<1>4. /\ fifo' \in [open : BOOLEAN, read : BOOLEAN, killed : BOOLEAN,
                     written : Seq(Datagram \X (1..Size))]
      /\ fifo'.written = fifo.written
  BY <1>1, Zenon DEF BridgeTypeOK, BrokerSends, ReaderCloses
<1>5. BridgeTypeOK'
  BY <1>1, <1>2, <1>3, <1>4, Zenon DEF BridgeTypeOK
<1>6. AddressInv'
  BY <1>2, AddressKept
<1>7. StreamInv'
  BY <1>2, <1>3, <1>4 DEF BridgeInv, StreamInv, WrittenToEnd, FifoIsStream
<1>. QED  BY <1>5, <1>6, <1>7 DEF BridgeInv, AddressInv, StreamInv

-----------------------------------------------------------------------------
(* The bench *)

\* Listener and bridge share nothing but the broker, so that each step is one
\* of the two parts, or the broker's.
THEOREM BenchInvariance == Spec => []IndInv
<1>1. Init => IndInv
  <2>1. BrokerInit => BrokerTypeOK
    BY BrokerAssumption DEF BrokerInit, BrokerTypeOK, Run
  <2>. QED  BY <2>1, ClientInitInv, BridgeInitInv, Zenon DEF Init, IndInv
<1>2. IndInv /\ [Next]_vars => IndInv'
  <2> SUFFICES ASSUME IndInv, [Next]_vars PROVE IndInv'
    OBVIOUS
  <2>0. BrokerTypeOK /\ ClientInv /\ BridgeInv
    BY DEF IndInv
  <2>1. CASE ClientNext /\ UNCHANGED bridgeVars
    <3>1. ClientInv'
      BY <2>0, <2>1, Discard2Inv, DiscardInv, BrokerEndInv DEF ClientNext
    <3>2. BridgeInv'
      BY <2>0, <2>1, BridgeKept
    <3>3. broker' = broker
      BY <2>1 DEF ClientNext, Discard2, Connect, Subscribe, PollHandled, PollLost,
           Discard, DiscardStart, DiscardSubscribe, DiscardLoop, DiscardReconnect,
           BrokerHandles, BrokerAccepts, BrokerRefuses, BrokerSubscribes, BrokerPublishes
    <3>. QED  BY <2>0, <3>1, <3>2, <3>3 DEF IndInv, BrokerTypeOK
  <2>2. CASE BridgeNext /\ UNCHANGED clientVars
    <3>1. ClientInv'
      BY <2>0, <2>2, ClientKept
    <3>2. BridgeInv'
      BY <2>0, <2>2, rcvfromInv, rcvfromThrowsInv, AddressSteps, writeInv, writeFailsInv, OtherEndsInv
         DEF BridgeNext, OutLoop, InLoop
    <3>3. broker' = broker
      BY <2>2 DEF BridgeNext, OutLoop, InLoop, rcvfrom, rcvfromThrows, UpdateLock, UpdateIp,
           UpdatePort, write, writeFails, read, GetLock, GetIp, GetPort, sndto, BrokerSends, ReaderCloses
    <3>. QED  BY <2>0, <3>1, <3>2, <3>3 DEF IndInv, BrokerTypeOK
  <2>3. CASE BrokerStops
    <3>1. ClientInv' /\ BridgeInv'
      BY <2>0, <2>3, BrokerEndInv, BridgeKept DEF BrokerStops
    <3>2. BrokerTypeOK'
      BY <2>0, <2>3 DEF BrokerStops, Stop, BrokerTypeOK
    <3>. QED  BY <3>1, <3>2 DEF IndInv
  <2>4. CASE BrokerStarts
    <3>1. ClientInv' /\ BridgeInv'
      BY <2>0, <2>4, ClientKept, BridgeKept DEF BrokerStarts
    <3>2. BrokerTypeOK'
      BY <2>0, <2>4, BrokerAssumption DEF BrokerStarts, Start, BrokerTypeOK, Run
    <3>. QED  BY <3>1, <3>2 DEF IndInv
  <2>5. CASE UNCHANGED vars
    <3>1. ClientInv' /\ BridgeInv' /\ broker' = broker
      BY <2>0, <2>5, ClientKept, BridgeKept DEF vars
    <3>. QED  BY <2>0, <3>1 DEF IndInv, BrokerTypeOK
  <2>. QED  BY <2>1, <2>2, <2>3, <2>4, <2>5 DEF Next
<1>. QED  BY <1>1, <1>2, PTL DEF Spec

\* have_connack() is about the connection that the wrapper has now, for any
\* number of restarts of the broker and of refusals.
THEOREM ConnackStaysCurrent == Spec => []ConnackIsCurrent
<1>1. IndInv => ConnackIsCurrent
  BY DEF IndInv, ClientInv, ConnackOrigin, ConnackIsCurrent
<1>. QED  BY <1>1, BenchInvariance, PTL

\* No message goes to the host of one broker and the port of another, although
\* Update and Get copy the two strings one at a time.
THEOREM AddressIsWhole == Spec => []AddressWhole
<1>1. IndInv => AddressWhole
  BY DEF IndInv, BridgeInv
<1>. QED  BY <1>1, BenchInvariance, PTL

\* A change of the noted address costs at most one message of InLoop.
THEOREM OneStaleAtMost == Spec => []AtMostOneStale
<1>1. IndInv => AtMostOneStale
  BY DEF IndInv, BridgeInv
<1>. QED  BY <1>1, BenchInvariance, PTL

\* The out-path carries the datagrams byte for byte in the order of recvfrom,
\* for datagrams of any size and writes cut short anywhere.
THEOREM OutPathIsStream == Spec => []FifoIsStream
<1>1. IndInv => FifoIsStream
  BY DEF IndInv, BridgeInv
<1>. QED  BY <1>1, BenchInvariance, PTL

-----------------------------------------------------------------------------
(* The Bus Pirate: helpers of an access *)

\* The smaller of two numbers.
LEMMA MinOfTwo ==
    ASSUME NEW a \in Nat, NEW b \in Nat
    PROVE  Min({a, b}) = IF a <= b THEN a ELSE b
<1> DEFINE m == IF a <= b THEN a ELSE b
           P(x) == x \in {a, b} /\ \A y \in {a, b} : x =< y
<1>1. P(m)
  OBVIOUS
<1>2. \A x : P(x) => x = m
  OBVIOUS
<1>3. P(CHOOSE x : P(x))
  BY <1>1, Zenon
<1>4. Min({a, b}) = CHOOSE x : P(x)
  BY Zenon DEF Min
<1>. QED  BY <1>2, <1>3, <1>4, Zenon

\* Bytes put behind one another.
LEMMA BothTogether ==
    ASSUME NEW s \in Seq(Byte), NEW t \in Seq(Byte)
    PROVE  s \o t \in Seq(Byte) /\ Len(s \o t) = Len(s) + Len(t)
OBVIOUS

\* An answer starts with the acknowledgement; that of a read ends with the
\* register.
LEMMA AnswerFacts ==
    ASSUME BpTypeOK, NEW access
    PROVE  /\ Answer(access) \in Seq(Byte)
           /\ Len(Answer(access)) = Wanted(access)
           /\ Answer(access)[1] = Ack
           /\ access = "read" => Answer(access)[2] = IF chip.held THEN 0 ELSE chip.reg
           /\ Wanted(access) \in 1..2
<1>1. (IF chip.held THEN 0 ELSE chip.reg) \in Byte
  BY DEF BpTypeOK, Byte
<1> DEFINE v == IF chip.held THEN 0 ELSE chip.reg
<1>2. Ack \in Byte
  BY DEF Ack, Byte
<1>3. CASE access = "read"
  <2>1. Answer(access) = <<Ack, v>>
    BY <1>3 DEF Answer
  <2> HIDE DEF v
  <2>2. Answer(access) \in Seq(Byte) /\ Len(Answer(access)) = 2
        /\ Answer(access)[1] = Ack /\ Answer(access)[2] = v
    BY <1>1, <1>2, <2>1 DEF v
  <2>. QED  BY <1>3, <2>2 DEF v, Wanted
<1>4. CASE access # "read"
  BY <1>2, <1>4 DEF Answer, Wanted
<1>. QED  BY <1>3, <1>4

\* A flip keeps the number of bytes.
LEMMA GarbledFacts ==
    ASSUME NEW s \in Seq(Byte), NEW g \in Garbled(s)
    PROVE  g \in Seq(Byte) /\ Len(g) = Len(s)
<1>1. PICK i \in 1..Len(s) : g \in {[s EXCEPT ![i] = b] : b \in Byte \ {s[i]}}
  BY Zenon DEF Garbled
<1>2. PICK b \in Byte : g = [s EXCEPT ![i] = b]
  BY <1>1, Zenon
<1>. QED  BY <1>2

\* What a command does to the chip: only a write or a reset changes it, and a
\* write sets the register.
LEMMA PerformedFacts ==
    ASSUME BpTypeOK, NEW access, NEW value \in Byte
    PROVE  /\ Performed(access, value) \in [reg : Byte, held : BOOLEAN]
           /\ access \in {"read", "none"} => Performed(access, value) = chip
           /\ access = "write" =>
                /\ Performed(access, value).held = chip.held
                /\ chip.held \/ Performed(access, value).reg = value
<1>1. 0 \in Byte
  BY DEF Byte
<1>2. chip \in [reg : Byte, held : BOOLEAN]
  BY DEF BpTypeOK
<1>3. CASE access = "write"
  <2> DEFINE v == IF chip.held THEN chip.reg ELSE value
  <2>1. v \in Byte
    BY <1>2
  <2>2. Performed(access, value) = [chip EXCEPT !.reg = v]
    BY <1>3 DEF Performed
  <2>3. /\ Performed(access, value) \in [reg : Byte, held : BOOLEAN]
        /\ Performed(access, value).held = chip.held
        /\ Performed(access, value).reg = v
    <3> HIDE DEF v
    <3>. QED  BY <1>2, <2>1, <2>2, Zenon
  <2>. QED  BY <1>3, <2>3
<1>4. CASE access = "assert"
  <2>1. Performed(access, value) = [reg |-> 0, held |-> TRUE]
    BY <1>4 DEF Performed
  <2>2. [reg |-> 0, held |-> TRUE] \in [reg : Byte, held : BOOLEAN]
    BY <1>1, Zenon
  <2>. QED  BY <1>4, <2>1, <2>2
<1>5. CASE access = "release"
  <2>1. Performed(access, value) = [chip EXCEPT !.held = FALSE]
    BY <1>5 DEF Performed
  <2>. QED  BY <1>2, <1>5, <2>1
<1>6. CASE access \notin {"write", "assert", "release"}
  BY <1>2, <1>6 DEF Performed
<1>. QED  BY <1>3, <1>4, <1>5, <1>6

-----------------------------------------------------------------------------
(* The steps *)

\* Between two calls there is a call record too.
LEMMA NoCallType == NoCall \in Call
<1>1. /\ 0 \in Byte /\ 0 \in 0..3 /\ 0 \in 0..2
      /\ <<Opcode, 0>> \in (Byte \cup {Opcode}) \X Byte
  BY DEF Byte
<1>. QED  BY <1>1, Zenon DEF NoCall, Call

Returned == [op : {"none", "verify", "harder", "reset"}, ok : BOOLEAN,
             value : Byte, flipped : BOOLEAN]

\* The line is in step when the device has been opened.
LEMMA BpInitInv == BpInit => BpInv
<1> SUFFICES ASSUME BpInit PROVE BpInv
  OBVIOUS
<1>1. BpTypeOK
  <2>1. 0 \in Byte /\ early \in 0..MaxEarly
    BY BusPirateAssumption DEF BpInit, Byte
  <2>2. chip \in [reg : Byte, held : BOOLEAN] /\ returned \in Returned
    BY <2>1, Zenon DEF BpInit, Returned
  <2>3. wire \in Seq(Byte) /\ line \in Seq(Byte) /\ mode \in Modes
    BY DEF BpInit
  <2>4. call \in Call
    BY NoCallType DEF BpInit
  <2>. QED  BY <2>1, <2>2, <2>3, <2>4 DEF BpTypeOK, Returned
<1>2. /\ call.op = "none" /\ call.issued = FALSE /\ call.retry = 0
      /\ wire = <<>> /\ line = <<>> /\ returned.op = "none"
  BY DEF BpInit, NoCall
<1>3. AccessOK /\ InStep /\ Written /\ OneFlip /\ VerifiedIsWritten /\ FlipFailsNone
  BY <1>2 DEF AccessOK, InStep, Steady, Written, WritePerformed, OneFlip, VerifiedIsWritten,
       FlipFailsNone
<1>. QED  BY <1>1, <1>3 DEF BpInv

\* A method begins: nothing is issued, nothing was tried yet.
Begun(op, access, value, tries) ==
    [op |-> op, value |-> value, tries |-> tries, access |-> access,
     issued |-> FALSE, flipped |-> FALSE, n |-> 0, retry |-> 0, cmd |-> <<Opcode, 0>>]

\* A call begins in step and without a flip.
LEMMA BegunInv ==
    ASSUME BpInv,
           NEW op \in {"verify", "harder", "reset"}, NEW access \in {"write", "read", "assert"},
           NEW value \in Byte, NEW tries \in 1..3,
           call.op = "none", UNCHANGED <<mode, chip, wire, line, returned, early>>,
           call' = Begun(op, access, value, tries),
           op = "verify" => access = "write" /\ tries = 2,
           op = "harder" => access = "read" /\ tries = 3
    PROVE  BpInv'
<1>1. BpTypeOK /\ AccessOK /\ InStep
  BY DEF BpInv
<1>2. call' \in Call
  <2>1. /\ tries \in 0..3 /\ 0 \in 0..3 /\ 0 \in 0..2 /\ <<Opcode, 0>> \in (Byte \cup {Opcode}) \X Byte
    BY DEF Byte
  <2>. QED  BY <2>1, Zenon DEF Call, Begun
<1>3. BpTypeOK'
  BY <1>1, <1>2, Zenon DEF BpTypeOK
<1>4. /\ call'.op = op /\ call'.access = access /\ call'.tries = tries
      /\ ~call'.issued /\ ~call'.flipped /\ call'.retry = 0
  BY Zenon DEF Begun
<1>5. AccessOK'
  BY <1>4 DEF AccessOK
<1>6. Written'
  BY <1>4 DEF Written, WritePerformed
<1>7. OneFlip'
  BY <1>4 DEF OneFlip, Again, WritePerformed
<1>8. InStep'
  BY <1>1, <1>4 DEF AccessOK, InStep, Steady
<1>9. VerifiedIsWritten' /\ FlipFailsNone'
  BY <1>4 DEF VerifiedIsWritten, FlipFailsNone
<1>. QED  BY <1>3, <1>5, <1>6, <1>7, <1>8, <1>9, Zenon DEF BpInv

\* This holds for all three methods.
LEMMA BeginInv ==
    ASSUME BpInv,
           (\E value \in Byte : WriteRegisterVerify(value))
             \/ ReadRegisterHarder \/ ResetSX1276
    PROVE  BpInv'
<1>1. 0 \in Byte
  BY DEF Byte
<1>2. ASSUME NEW value \in Byte, WriteRegisterVerify(value) PROVE BpInv'
  <2>1. call' = Begun("verify", "write", value, 2)
    BY <1>2 DEF WriteRegisterVerify, NoCall, Begun
  <2>2. call.op = "none" /\ UNCHANGED <<mode, chip, wire, line, returned, early>>
    BY <1>2 DEF WriteRegisterVerify
  <2>. QED  BY <2>1, <2>2, BegunInv
<1>3. CASE ReadRegisterHarder
  <2>1. call' = Begun("harder", "read", 0, 3)
    BY <1>3 DEF ReadRegisterHarder, NoCall, Begun
  <2>2. call.op = "none" /\ UNCHANGED <<mode, chip, wire, line, returned, early>>
    BY <1>3 DEF ReadRegisterHarder
  <2>. QED  BY <1>1, <2>1, <2>2, BegunInv
<1>4. CASE ResetSX1276
  <2>1. call' = Begun("reset", "assert", 0, 1)
    BY <1>4 DEF ResetSX1276, NoCall, Begun
  <2>2. call.op = "none" /\ UNCHANGED <<mode, chip, wire, line, returned, early>>
    BY <1>4 DEF ResetSX1276
  <2>. QED  BY <1>1, <2>1, <2>2, BegunInv
<1>. QED  BY <1>2, <1>3, <1>4

\* What Issue and IssueFlipped do to the call.
LEMMA IssuedFacts ==
    ASSUME BpTypeOK
    PROVE  /\ Issued \in Call
           /\ Issued.op = call.op /\ Issued.value = call.value /\ Issued.tries = call.tries
           /\ Issued.access = call.access /\ Issued.issued = TRUE
           /\ Issued.flipped = call.flipped
           /\ Issued.n = Wanted(call.access) /\ Issued.retry = 0
           /\ Issued.cmd[2] = 0
<1>1. /\ Wanted(call.access) \in 0..2 /\ 0 \in 0..3
      /\ <<Opcode, 0>> \in (Byte \cup {Opcode}) \X Byte
  BY DEF Wanted, Byte
<1>2. call \in Call
  BY DEF BpTypeOK
<1> DEFINE w == Wanted(call.access)
           c == <<Opcode, 0>>
<1>3. c[2] = 0
  OBVIOUS
<1> HIDE DEF w, c
<1>4. Issued = [call EXCEPT !.issued = TRUE, !.n = w, !.retry = 0, !.cmd = c]
  BY Zenon DEF Issued, w, c
<1>5. w \in 0..2 /\ 0 \in 0..3 /\ c \in (Byte \cup {Opcode}) \X Byte
  BY <1>1 DEF w, c
<1>6. Issued \in Call
  BY <1>2, <1>4, <1>5, Zenon DEF Call
<1>7. /\ Issued.op = call.op /\ Issued.value = call.value /\ Issued.tries = call.tries
      /\ Issued.access = call.access /\ Issued.issued = TRUE
      /\ Issued.flipped = call.flipped
      /\ Issued.n = w /\ Issued.retry = 0 /\ Issued.cmd = c
  BY <1>2, <1>4, Zenon DEF Call
<1>. QED  BY <1>3, <1>6, <1>7 DEF w

\* What a step that issues an access has in common, spoilt or not.
LEMMA IssueTypes ==
    ASSUME BpInv, call.op # "none", ~call.issued,
           NEW v \in Byte, NEW g \in Seq(Byte), NEW flipped \in BOOLEAN,
           chip' = Performed(call.access, v),
           wire' = wire \o g, Len(g) = Wanted(call.access),
           call' = [Issued EXCEPT !.flipped = flipped],
           UNCHANGED <<mode, line, returned, early>>
    PROVE  /\ BpTypeOK' /\ AccessOK' /\ InStep'
           /\ VerifiedIsWritten' /\ FlipFailsNone'
           /\ call'.op = call.op /\ call'.value = call.value /\ call'.tries = call.tries
           /\ call'.access = call.access /\ call'.issued = TRUE /\ call'.flipped = flipped
           /\ call'.n = Wanted(call.access)
<1>1. BpTypeOK /\ AccessOK /\ InStep
  BY DEF BpInv
<1>2. /\ call' \in Call
      /\ call'.op = call.op /\ call'.value = call.value /\ call'.tries = call.tries
      /\ call'.access = call.access /\ call'.issued = TRUE /\ call'.flipped = flipped
      /\ call'.n = Wanted(call.access) /\ call'.retry = 0
  <2>1. /\ Issued \in Call
        /\ Issued.op = call.op /\ Issued.value = call.value /\ Issued.tries = call.tries
        /\ Issued.access = call.access /\ Issued.issued = TRUE
        /\ Issued.n = Wanted(call.access) /\ Issued.retry = 0
    BY <1>1, IssuedFacts
  <2>. QED  BY <2>1, Zenon DEF Call
<1>3. wire' \in Seq(Byte) /\ Len(wire') = Len(wire) + Wanted(call.access)
  <2>1. wire \in Seq(Byte)
    BY <1>1 DEF BpTypeOK
  <2>2. wire \o g \in Seq(Byte) /\ Len(wire \o g) = Len(wire) + Len(g)
    BY <2>1, BothTogether, Zenon
  <2>. QED  BY <2>2, Zenon
<1>4. BpTypeOK'
  BY <1>1, <1>2, <1>3, PerformedFacts, Zenon DEF BpTypeOK
<1>5. AccessOK'
  BY <1>1, <1>2 DEF AccessOK
<1>6. InStep'
  <2>1. Len(wire) \in Nat /\ Len(line) \in Nat /\ Wanted(call.access) \in Nat
    BY <1>1 DEF BpTypeOK, Wanted
  <2>. QED  BY <1>1, <1>2, <1>3, <2>1 DEF InStep, Steady
<1>7. VerifiedIsWritten' /\ FlipFailsNone'
  BY <1>2 DEF VerifiedIsWritten, FlipFailsNone
<1>. QED  BY <1>2, <1>4, <1>5, <1>6, <1>7

\* A command that arrives as it was sent: its answer is the only one under
\* way, unless some are late.
LEMMA IssueInv ==
    ASSUME BpInv, Issue
    PROVE  BpInv'
<1>1. BpTypeOK /\ AccessOK /\ InStep /\ Written /\ OneFlip
  BY DEF BpInv
<1>2. /\ call.op # "none" /\ ~call.issued
      /\ chip' = Performed(call.access, call.value)
      /\ wire' = wire \o Answer(call.access)
      /\ call' = Issued
      /\ UNCHANGED <<mode, line, returned, early>>
  BY DEF Issue
<1>3. /\ call.value \in Byte /\ call.flipped \in BOOLEAN /\ call \in Call
  BY <1>1, Zenon DEF BpTypeOK, Call
<1>4. call' = [Issued EXCEPT !.flipped = call.flipped]
  BY <1>1, <1>2, IssuedFacts DEF Call
<1>5. /\ BpTypeOK' /\ AccessOK' /\ InStep'
      /\ VerifiedIsWritten' /\ FlipFailsNone'
      /\ call'.op = call.op /\ call'.value = call.value /\ call'.tries = call.tries
      /\ call'.access = call.access /\ call'.issued = TRUE /\ call'.flipped = call.flipped
      /\ call'.n = Wanted(call.access)
  BY <1>1, <1>2, <1>3, <1>4, AnswerFacts, IssueTypes, Zenon
<1>6. /\ call.access = "read" => chip' = chip
      /\ call.access = "write" => chip'.held = chip.held /\ (chip.held \/ chip'.reg = call.value)
  BY <1>1, <1>2, <1>3, PerformedFacts
<1>7. mode = {"flip"} /\ call.op \in {"verify", "harder"} => Unspoilt'
  <2> SUFFICES ASSUME mode = {"flip"}, call.op \in {"verify", "harder"} PROVE Unspoilt'
    OBVIOUS
  <2>1. wire = <<>> /\ line = <<>>
    <3>1. Len(wire) + Len(line) = 0
      BY <1>1, <1>2 DEF InStep, Steady
    <3>. QED  BY <1>1, <3>1 DEF BpTypeOK
  <2>2. wire' = Answer(call.access) /\ line' = <<>>
    <3>1. Answer(call.access) \in Seq(Byte)
      BY <1>1, AnswerFacts
    <3>. QED  BY <1>2, <2>1, <3>1
  <2>3. Answer(call.access) = Answer(call.access)'
    BY <1>1, <1>5, <1>6 DEF Answer, AccessOK
  <2>4. call'.n # 0
    BY <1>5 DEF Wanted
  <2>. QED  BY <2>2, <2>3, <2>4, Zenon DEF Unspoilt
<1>8. Written'
  <2> SUFFICES ASSUME call.op = "verify" PROVE Written'
    BY <1>5 DEF Written, WritePerformed
  <2>1. CASE call.access = "write"
    BY <1>5, <1>6, <2>1 DEF Written, WritePerformed, AsWanted
  <2>2. CASE call.access = "read"
    BY <1>1, <1>2, <1>5, <1>6, <1>7, <2>2 DEF Written, WritePerformed, AsWanted
  <2>. QED  BY <1>1, <2>1, <2>2 DEF AccessOK
<1>9. OneFlip'
  <2>1. CASE call.op = "harder"
    BY <1>1, <1>2, <1>5, <1>7, <2>1 DEF OneFlip, Again, WritePerformed
  <2>2. CASE call.op = "verify"
    <3>1. chip'.held = chip.held
      BY <1>1, <1>6, <2>2 DEF AccessOK
    <3>2. AsWanted' \/ (call.access = "read" /\ AsWanted' = AsWanted)
      BY <1>1, <1>5, <1>6, <2>2 DEF AccessOK, AsWanted
    <3>. QED  BY <1>1, <1>2, <1>5, <1>7, <2>2, <3>1, <3>2 DEF OneFlip, Again, WritePerformed
  <2>3. CASE call.op \notin {"harder", "verify"}
    BY <1>5, <2>3 DEF OneFlip
  <2>. QED  BY <2>1, <2>2, <2>3
<1>. QED  BY <1>5, <1>8, <1>9, Zenon DEF BpInv

\* A flip, on the way to the chip or on the way back, uses up the flip of the
\* call.
LEMMA IssueFlippedInv ==
    ASSUME BpInv, IssueFlipped
    PROVE  BpInv'
<1>1. BpTypeOK /\ AccessOK /\ InStep /\ Written /\ OneFlip
  BY DEF BpInv
<1>2. /\ call.op # "none" /\ ~call.issued /\ "flip" \in mode /\ ~call.flipped
      /\ call' = [Issued EXCEPT !.flipped = TRUE]
      /\ UNCHANGED <<mode, line, returned, early>>
  BY DEF IssueFlipped
<1>3. PICK v \in Byte, g \in Seq(Byte) :
         /\ chip' = Performed(call.access, v) /\ wire' = wire \o g
         /\ Len(g) = Wanted(call.access)
  <2>1. CASE /\ call.access = "write"
             /\ \E b \in (Byte \ {call.value}) \cup {chip.reg} :
                   chip' = Performed("write", b)
             /\ wire' = wire \o Answer("write")
    <3>1. chip.reg \in Byte
      BY <1>1 DEF BpTypeOK
    <3>. QED  BY <1>1, <2>1, <3>1, AnswerFacts
  <2>2. CASE /\ chip' = Performed(call.access, call.value)
             /\ \E s \in Garbled(Answer(call.access)) : wire' = wire \o s
    <3>1. PICK s \in Garbled(Answer(call.access)) : wire' = wire \o s
      BY <2>2
    <3>2. s \in Seq(Byte) /\ Len(s) = Wanted(call.access)
      BY <1>1, <3>1, AnswerFacts, GarbledFacts
    <3>3. call.value \in Byte
      BY <1>1 DEF BpTypeOK, Call
    <3>. QED  BY <2>2, <3>1, <3>2, <3>3
  <2>. QED  BY <2>1, <2>2, Zenon DEF IssueFlipped
<1>4. /\ BpTypeOK' /\ AccessOK' /\ InStep'
      /\ VerifiedIsWritten' /\ FlipFailsNone'
      /\ call'.op = call.op /\ call'.value = call.value /\ call'.tries = call.tries
      /\ call'.access = call.access /\ call'.issued = TRUE /\ call'.flipped = TRUE
      /\ call'.n = Wanted(call.access)
  BY <1>2, <1>3, IssueTypes, Zenon
<1>5. /\ call.access = "read" => chip' = chip
      /\ call.access = "write" => chip'.held = chip.held
  BY <1>1, <1>3, PerformedFacts
<1>6. Written'
  BY <1>1, <1>2, <1>4, <1>5 DEF Written, WritePerformed, AsWanted, AccessOK
<1>7. OneFlip'
  BY <1>1, <1>2, <1>4, <1>5 DEF OneFlip, Again, AccessOK
<1>. QED  BY <1>4, <1>6, <1>7, Zenon DEF BpInv

\* The line delivers.
LEMMA ArriveInv ==
    ASSUME BpInv, Arrive
    PROVE  BpInv'
<1>1. BpTypeOK /\ AccessOK /\ InStep /\ Written /\ OneFlip
  BY DEF BpInv
<1>2. wire # <<>> /\ UNCHANGED <<mode, chip, call, returned, early>>
  BY DEF Arrive
<1>3. wire \in Seq(Byte) /\ line \in Seq(Byte) /\ Len(wire) \in Nat /\ Len(line) \in Nat
  BY <1>1 DEF BpTypeOK
<1>4. /\ wire' \in Seq(Byte) /\ line' \in Seq(Byte)
      /\ Len(wire') + Len(line') = Len(wire) + Len(line)
  <2>1. CASE line' = Append(line, Head(wire)) /\ wire' = Tail(wire)
    <3>1. Head(wire) \in Byte
      BY <1>2, <1>3
    <3>2. /\ wire' \in Seq(Byte) /\ line' \in Seq(Byte)
          /\ Len(wire') = Len(wire) - 1 /\ Len(line') = Len(line) + 1
      BY <1>2, <1>3, <2>1, <3>1
    <3>. QED  BY <1>3, <3>2
  <2>2. CASE line' = line \o wire /\ wire' = <<>>
    BY <1>3, <2>2
  <2>. QED  BY <2>1, <2>2 DEF Arrive
<1>5. mode = {"flip"} /\ Unspoilt => Unspoilt'
  <2> SUFFICES ASSUME mode = {"flip"}, Unspoilt PROVE Unspoilt'
    OBVIOUS
  <2>1. CASE call.n = 0
    BY <1>2, <2>1 DEF Unspoilt, Acked
  <2>2. CASE call.n # 0
    <3>1. wire = Answer(call.access) /\ line = <<>>
      BY <1>2, <2>2 DEF Unspoilt
    <3>2. line' = line \o wire /\ wire' = <<>>
      <4>1. mode \cap {"split", "late"} = {}
        OBVIOUS
      <4>. QED  BY <4>1, Zenon DEF Arrive
    <3>3. line' = wire
      BY <1>3, <3>1, <3>2
    <3>4. Answer(call.access) = Answer(call.access)'
      BY <1>2 DEF Answer
    <3>. QED  BY <1>2, <2>2, <3>1, <3>2, <3>3, <3>4, Zenon DEF Unspoilt
  <2>. QED  BY <2>1, <2>2
<1>6. BpTypeOK'
  BY <1>1, <1>2, <1>4, Zenon DEF BpTypeOK
<1>7. AccessOK'
  BY <1>1, <1>2 DEF AccessOK
<1>8. InStep'
  BY <1>1, <1>2, <1>4 DEF InStep, Steady
<1>9. Written' /\ OneFlip'
  BY <1>1, <1>2, <1>5 DEF Written, OneFlip, WritePerformed, AsWanted, Again
<1>10. VerifiedIsWritten' /\ FlipFailsNone'
  BY <1>2, Zenon DEF BpInv, VerifiedIsWritten, FlipFailsNone
<1>. QED  BY <1>6, <1>7, <1>8, <1>9, <1>10, Zenon DEF BpInv

\* One read of the driver: in step it takes the whole of an answer.
LEMMA ReadSomeInv ==
    ASSUME BpInv, ReadSome
    PROVE  BpInv'
<1>1. BpTypeOK /\ AccessOK /\ InStep /\ Written /\ OneFlip
  BY DEF BpInv
<1> DEFINE er == Min({call.n, Len(line)})
           c == <<line[1], IF er = 2 THEN line[2] ELSE call.cmd[2]>>
<1>2. /\ call.issued /\ call.n > 0 /\ line # <<>>
      /\ call' = [call EXCEPT !.n = @ - er, !.cmd = c]
      /\ line' = SubSeq(line, er + 1, Len(line))
      /\ UNCHANGED <<mode, chip, wire, returned, early>>
  BY Zenon DEF ReadSome, Waiting
<1>3. /\ line \in Seq(Byte) /\ wire \in Seq(Byte) /\ Len(line) \in Nat /\ Len(wire) \in Nat
      /\ call \in Call /\ call.n \in 0..2 /\ call.cmd \in (Byte \cup {Opcode}) \X Byte
      /\ Len(line) > 0
  BY <1>1, <1>2 DEF BpTypeOK, Call
<1>4. er = (IF call.n <= Len(line) THEN call.n ELSE Len(line)) /\ er \in 1..2
  <2>1. call.n \in Nat
    BY <1>3
  <2>2. er = IF call.n <= Len(line) THEN call.n ELSE Len(line)
    BY <1>3, <2>1, MinOfTwo, Zenon
  <2>3. call.n \in 1..2 /\ Len(line) \in Nat \ {0}
    BY <1>2, <1>3
  <2> HIDE DEF er
  <2>4. er \in 1..2
    BY ONLY <2>2, <2>3
  <2>. QED  BY <2>2, <2>4, Zenon
<1> HIDE DEF er
<1>5. c \in (Byte \cup {Opcode}) \X Byte /\ c[1] = line[1] /\ (er = 2 => c[2] = line[2])
  <2>1. line[1] \in Byte /\ (er = 2 => line[2] \in Byte) /\ call.cmd[2] \in Byte
    BY <1>3, <1>4
  <2>. QED  BY <2>1
<1> HIDE DEF c
<1>6. call.n - er \in 0..2
  BY <1>3, <1>4
<1>7. /\ call' \in Call /\ call'.n = call.n - er /\ call'.cmd = c
      /\ call'.op = call.op /\ call'.value = call.value /\ call'.tries = call.tries
      /\ call'.access = call.access /\ call'.issued = call.issued
      /\ call'.flipped = call.flipped /\ call'.retry = call.retry
  BY <1>2, <1>3, <1>5, <1>6, Zenon DEF Call
<1>8. line' \in Seq(Byte) /\ Len(line') = Len(line) - er
  BY <1>2, <1>3, <1>4
<1>9. mode = {"flip"} /\ Unspoilt => Unspoilt'
  <2> SUFFICES ASSUME mode = {"flip"}, Unspoilt PROVE Unspoilt'
    OBVIOUS
  <2>1. wire = <<>> /\ line = Answer(call.access)
    BY <1>2 DEF Unspoilt
  <2>2. Len(line) = call.n /\ call.n = Wanted(call.access)
    <3>1. Len(wire) + Len(line) = call.n
      BY <1>1, <1>2 DEF InStep, Steady
    <3>. QED  BY <1>1, <1>3, <2>1, <3>1, AnswerFacts
  <2>3. call'.n = 0 /\ er = call.n
    BY <1>3, <1>4, <1>7, <2>2
  <2>4. call'.cmd[1] = Ack
    BY <1>1, <1>5, <1>7, <2>1, AnswerFacts
  <2>5. call.access = "read" => call'.cmd[2] = IF chip.held THEN 0 ELSE chip.reg
    <3> SUFFICES ASSUME call.access = "read"
                 PROVE  call'.cmd[2] = IF chip.held THEN 0 ELSE chip.reg
      OBVIOUS
    <3>1. er = 2
      BY <2>2, <2>3 DEF Wanted
    <3>2. line[2] = IF chip.held THEN 0 ELSE chip.reg
      BY <1>1, <2>1, AnswerFacts
    <3>. QED  BY <1>5, <1>7, <3>1, <3>2
  <2>. QED  BY <1>2, <1>7, <2>3, <2>4, <2>5, Zenon DEF Unspoilt, Acked
<1>10. BpTypeOK'
  BY <1>1, <1>2, <1>7, <1>8, Zenon DEF BpTypeOK
<1>11. AccessOK'
  BY <1>1, <1>7 DEF AccessOK
<1>12. InStep'
  BY <1>1, <1>2, <1>3, <1>4, <1>7, <1>8 DEF InStep, Steady
<1>13. Written'
  BY <1>1, <1>2, <1>7, <1>9, Zenon DEF Written, WritePerformed, AsWanted
<1>14. OneFlip'
  BY <1>1, <1>2, <1>7, <1>9 DEF OneFlip, WritePerformed, AsWanted, Again
<1>15. VerifiedIsWritten' /\ FlipFailsNone'
  BY <1>2, <1>7 DEF BpInv, VerifiedIsWritten, FlipFailsNone
<1>. QED  BY <1>10, <1>11, <1>12, <1>13, <1>14, <1>15, Zenon DEF BpInv

\* An empty read leaves the line as it is.
LEMMA ReadNothingInv ==
    ASSUME BpInv, ReadNothing
    PROVE  BpInv'
<1>1. BpTypeOK /\ AccessOK /\ InStep /\ Written /\ OneFlip
  BY DEF BpInv
<1>2. /\ call.issued /\ call.retry < 3 /\ "late" \in mode
      /\ call' = [call EXCEPT !.retry = @ + 1]
      /\ UNCHANGED <<mode, chip, wire, line, returned>>
  BY DEF ReadNothing, Waiting
<1>3. call \in Call /\ call.retry + 1 \in 0..3
  BY <1>1, <1>2 DEF BpTypeOK, Call
<1>4. /\ call' \in Call
      /\ call'.op = call.op /\ call'.value = call.value /\ call'.tries = call.tries
      /\ call'.access = call.access /\ call'.issued = call.issued
  BY <1>2, <1>3, Zenon DEF Call
<1>5. early' \in 0..MaxEarly
  BY <1>1, BusPirateAssumption DEF BpTypeOK, ReadNothing
<1>6. BpTypeOK'
  BY <1>1, <1>2, <1>4, <1>5, Zenon DEF BpTypeOK
<1>7. AccessOK' /\ InStep'
  BY <1>1, <1>2, <1>4 DEF AccessOK, InStep, Steady
<1>8. mode # {"flip"}
  BY <1>2
<1>9. Written' /\ OneFlip'
  BY <1>1, <1>2, <1>4, <1>8 DEF Written, WritePerformed, AsWanted, OneFlip
<1>10. VerifiedIsWritten' /\ FlipFailsNone'
  BY <1>2, <1>4 DEF BpInv, VerifiedIsWritten, FlipFailsNone
<1>. QED  BY <1>6, <1>7, <1>9, <1>10, Zenon DEF BpInv

\* A read that fails leaves the line as it is too, out of step.
LEMMA ReadFailsInv ==
    ASSUME BpInv, ReadFails
    PROVE  BpInv'
<1>1. BpTypeOK /\ AccessOK /\ InStep /\ Written /\ OneFlip
  BY DEF BpInv
<1> DEFINE c == <<Opcode, 0>>
<1>2. /\ call.issued /\ "error" \in mode
      /\ call' = [call EXCEPT !.n = 0, !.cmd = c]
      /\ UNCHANGED <<mode, chip, wire, line, returned>>
  BY DEF ReadFails, Waiting
<1>3. call \in Call /\ 0 \in 0..2 /\ c \in (Byte \cup {Opcode}) \X Byte
  BY <1>1 DEF BpTypeOK, Byte
<1> HIDE DEF c
<1>4. /\ call' \in Call
      /\ call'.op = call.op /\ call'.value = call.value /\ call'.tries = call.tries
      /\ call'.access = call.access /\ call'.issued = call.issued
  BY <1>2, <1>3, Zenon DEF Call
<1>5. early' \in 0..MaxEarly
  BY <1>1, BusPirateAssumption DEF BpTypeOK, ReadFails
<1>6. BpTypeOK'
  BY <1>1, <1>2, <1>4, <1>5, Zenon DEF BpTypeOK
<1>7. AccessOK' /\ InStep'
  BY <1>1, <1>2, <1>4 DEF AccessOK, InStep, Steady
<1>8. mode # {"flip"}
  BY <1>2
<1>9. Written' /\ OneFlip'
  BY <1>1, <1>2, <1>4, <1>8 DEF Written, WritePerformed, AsWanted, OneFlip
<1>10. VerifiedIsWritten' /\ FlipFailsNone'
  BY <1>2, <1>4 DEF BpInv, VerifiedIsWritten, FlipFailsNone
<1>. QED  BY <1>6, <1>7, <1>9, <1>10, Zenon DEF BpInv

-----------------------------------------------------------------------------
(* After an access *)

\* The fields of the call that goes on.
LEMMA GoesOn ==
    ASSUME BpTypeOK, NEW access \in {"write", "read", "release"}, NEW tries \in 0..3,
           call' = [call EXCEPT !.access = access, !.issued = FALSE, !.tries = tries]
    PROVE  /\ call' \in Call
           /\ call'.op = call.op /\ call'.value = call.value /\ call'.tries = tries
           /\ call'.access = access /\ call'.issued = FALSE
           /\ call'.flipped = call.flipped /\ call'.retry = call.retry
<1>1. call \in Call
  BY DEF BpTypeOK
<1>. QED  BY <1>1, Zenon DEF Call

\* No bytes are left when nothing was late.
LEMMA AnsweredFacts ==
    ASSUME BpInv, Answered
    PROVE  /\ call.issued
           /\ Steady => call.n = 0 /\ call.retry = 0 /\ Len(wire) + Len(line) = 0
           /\ mode = {"flip"} => call.n = 0
<1>1. call.issued /\ ~(call.n > 0 /\ call.retry < 3) /\ call.n \in 0..2
  BY DEF BpInv, Answered, BpTypeOK, Call
<1>2. InStep
  BY DEF BpInv
<1>. QED  BY <1>1, <1>2 DEF InStep, Steady

\* The next access of a call, or the same one again.
LEMMA GoesOnInv ==
    ASSUME BpInv, Answered, call.op # "none",
           NEW access \in {"write", "read", "release"}, NEW tries \in 1..3,
           call' = [call EXCEPT !.access = access, !.issued = FALSE, !.tries = tries],
           call.op = "verify" => access \in {"write", "read"},
           call.op = "harder" => access = "read",
           UNCHANGED <<mode, chip, wire, line, returned, early>>,
           Written', OneFlip'
    PROVE  BpInv'
<1>1. BpTypeOK /\ AccessOK /\ InStep
  BY DEF BpInv
<1>2. /\ call' \in Call
      /\ call'.op = call.op /\ call'.value = call.value /\ call'.tries = tries
      /\ call'.access = access /\ call'.issued = FALSE
      /\ call'.flipped = call.flipped /\ call'.retry = call.retry
  <2>1. tries \in 0..3
    OBVIOUS
  <2>. QED  BY <1>1, <2>1, GoesOn, Zenon
<1>3. BpTypeOK'
  BY <1>1, <1>2, Zenon DEF BpTypeOK
<1>4. AccessOK'
  BY <1>1, <1>2 DEF AccessOK
<1>5. InStep'
  BY <1>1, <1>2, AnsweredFacts DEF InStep, Steady
<1>6. VerifiedIsWritten' /\ FlipFailsNone'
  BY <1>2 DEF VerifiedIsWritten, FlipFailsNone
<1>. QED  BY <1>3, <1>4, <1>5, <1>6, Zenon DEF BpInv

\* A call that returns leaves the line in step, with a result that is worth
\* what it says.
LEMMA ReturnInv ==
    ASSUME BpInv, Answered, call.op # "none", NEW ok \in BOOLEAN, Return(ok),
           UNCHANGED <<mode, chip, wire, line, early>>,
           call.op = "verify" /\ ok /\ (mode = {"flip"} \/ "flip" \notin mode) => AsWanted,
           call.op \in {"verify", "harder"} /\ mode = {"flip"} => ok \/ chip.held
    PROVE  BpInv'
<1>1. BpTypeOK /\ AccessOK /\ InStep
  BY DEF BpInv
<1>2. /\ call' = NoCall
      /\ call'.op = "none" /\ call'.issued = FALSE /\ call'.retry = 0
  BY DEF Return, NoCall
<1> DEFINE v == IF call.op = "harder" THEN call.cmd[2] ELSE call.value
<1>3. call.op \in {"none", "verify", "harder", "reset"} /\ call.flipped \in BOOLEAN /\ v \in Byte
  BY <1>1 DEF BpTypeOK, Call
<1>4. (call.op # "harder" => v = call.value)
  OBVIOUS
<1> HIDE DEF v
<1>5. returned' = [op |-> call.op, ok |-> ok, flipped |-> call.flipped, value |-> v]
  BY Zenon DEF Return, v
<1>6. returned' \in Returned /\ returned'.op = call.op /\ returned'.ok = ok /\ returned'.value = v
  BY <1>3, <1>5, Zenon DEF Returned
<1>7. BpTypeOK'
  BY <1>1, <1>2, <1>6, NoCallType, Zenon DEF BpTypeOK, Returned
<1>8. AccessOK' /\ Written' /\ OneFlip'
  BY <1>2 DEF AccessOK, Written, WritePerformed, OneFlip
<1>9. InStep'
  BY <1>1, <1>2, AnsweredFacts DEF InStep, Steady
<1>10. VerifiedIsWritten'
  BY <1>4, <1>6, Zenon DEF VerifiedIsWritten, AsWanted
<1>11. FlipFailsNone'
  BY <1>6, Zenon DEF FlipFailsNone
<1>. QED  BY <1>7, <1>8, <1>9, <1>10, <1>11, Zenon DEF BpInv

\* WriteRegisterVerify compares what it reads with what it wrote.
LEMMA VerifyAnsweredInv ==
    ASSUME BpInv, VerifyAnswered
    PROVE  BpInv'
<1>1. BpTypeOK /\ AccessOK /\ InStep /\ Written /\ OneFlip
  BY DEF BpInv
<1>2. /\ Answered /\ call.op = "verify" /\ call.op # "none"
      /\ UNCHANGED <<mode, chip, wire, line, early>>
  BY DEF VerifyAnswered
<1>3. /\ call.issued /\ WritePerformed
      /\ mode = {"flip"} => call.n = 0
      /\ call.tries \in 1..3 /\ call \in Call
  BY <1>1, <1>2, AnsweredFacts DEF WritePerformed, AccessOK, BpTypeOK, Call
\* A clean attempt succeeds.
<1>4. mode = {"flip"} /\ ~chip.held /\ (~call.flipped \/ Again) =>
        Acked /\ (call.access = "read" => Checked)
  BY <1>1, <1>2, <1>3 DEF OneFlip, Unspoilt, AsWanted, Checked
<1>5. CASE call.access = "write" /\ Acked /\ Continue("read")
  <2>1. call' = [call EXCEPT !.access = "read", !.issued = FALSE, !.tries = call.tries]
    BY <1>3, <1>5 DEF Continue, Call
  <2>2. /\ call'.op = call.op /\ call'.value = call.value /\ call'.tries = call.tries
        /\ call'.access = "read" /\ call'.issued = FALSE /\ call'.flipped = call.flipped
    BY <1>1, <1>3, <2>1, GoesOn
  <2>3. Written'
    BY <1>1, <1>2, <1>3, <1>5, <2>2 DEF Written, WritePerformed, AsWanted
  <2>4. OneFlip'
    BY <1>1, <1>2, <1>3, <2>2 DEF OneFlip, WritePerformed, AsWanted, Again
  <2>5. UNCHANGED returned
    BY <1>5 DEF Continue
  <2>. QED  BY <1>2, <1>3, <2>1, <2>3, <2>4, <2>5, GoesOnInv
<1>6. CASE call.access = "read" /\ Checked /\ Return(TRUE)
  <2>1. mode = {"flip"} \/ "flip" \notin mode => AsWanted
    BY <1>1, <1>3, <1>6 DEF Written, Unspoilt, AsWanted, Checked
  <2>. QED  BY <1>2, <1>6, <2>1, ReturnInv
<1>7. CASE /\ ~(call.access = "write" /\ Acked) /\ ~(call.access = "read" /\ Checked)
           /\ TryAgain("write")
  <2>1. mode = {"flip"} /\ ~chip.held => call.flipped /\ ~Again
    BY <1>1, <1>2, <1>4, <1>7 DEF AccessOK
  <2>2. CASE call.tries > 1
    <3>1. /\ call' = [call EXCEPT !.access = "write", !.issued = FALSE, !.tries = call.tries - 1]
          /\ UNCHANGED returned
      BY <1>7, <2>2 DEF TryAgain
    <3>2. call.tries - 1 \in 1..3 /\ call.tries - 1 \in 0..3
      BY <1>3, <2>2
    <3>3. /\ call'.op = call.op /\ call'.tries = call.tries - 1
          /\ call'.access = "write" /\ call'.issued = FALSE /\ call'.flipped = call.flipped
      BY <1>1, <3>1, <3>2, GoesOn
    <3>4. Written'
      BY <3>3 DEF Written, WritePerformed
    <3>5. OneFlip'
      BY <1>2, <2>1, <3>3 DEF OneFlip, WritePerformed
    <3>. QED  BY <1>2, <3>1, <3>2, <3>4, <3>5, GoesOnInv
  <2>3. CASE ~(call.tries > 1)
    <3>1. Return(FALSE)
      BY <1>7, <2>3 DEF TryAgain
    <3>2. Again
      BY <1>2, <1>3, <2>3 DEF Again
    <3>. QED  BY <1>2, <2>1, <3>1, <3>2, ReturnInv
  <2>. QED  BY <2>2, <2>3
<1>. QED  BY <1>5, <1>6, <1>7, Zenon DEF VerifyAnswered

\* ReadRegisterHarder tries again until a read is acknowledged.
LEMMA HarderAnsweredInv ==
    ASSUME BpInv, HarderAnswered
    PROVE  BpInv'
<1>1. BpTypeOK /\ AccessOK /\ InStep /\ Written /\ OneFlip
  BY DEF BpInv
<1>2. /\ Answered /\ call.op = "harder" /\ call.op # "none"
      /\ UNCHANGED <<mode, chip, wire, line, early>>
  BY DEF HarderAnswered
<1>3. /\ call.issued /\ call.tries \in 1..3
      /\ mode = {"flip"} => call.n = 0
  BY <1>1, <1>2, AnsweredFacts DEF AccessOK, BpTypeOK, Call
<1>4. CASE Acked /\ Return(TRUE)
  BY <1>2, <1>4, ReturnInv
<1>5. CASE ~Acked /\ TryAgain("read")
  <2>1. mode = {"flip"} => call.flipped /\ ~Again
    BY <1>1, <1>2, <1>3, <1>5 DEF OneFlip, Unspoilt
  <2>2. CASE call.tries > 1
    <3>1. /\ call' = [call EXCEPT !.access = "read", !.issued = FALSE, !.tries = call.tries - 1]
          /\ UNCHANGED returned
      BY <1>5, <2>2 DEF TryAgain
    <3>2. call.tries - 1 \in 1..3 /\ call.tries - 1 \in 0..3
      BY <1>3, <2>2
    <3>3. /\ call'.op = call.op /\ call'.tries = call.tries - 1
          /\ call'.access = "read" /\ call'.issued = FALSE /\ call'.flipped = call.flipped
      BY <1>1, <3>1, <3>2, GoesOn
    <3>4. Written'
      BY <1>2, <3>3 DEF Written, WritePerformed
    <3>5. OneFlip'
      BY <1>2, <1>3, <2>1, <3>3 DEF OneFlip, WritePerformed, Again
    <3>. QED  BY <1>2, <3>1, <3>2, <3>4, <3>5, GoesOnInv
  <2>3. CASE ~(call.tries > 1)
    <3>1. Return(FALSE)
      BY <1>5, <2>3 DEF TryAgain
    <3>2. mode # {"flip"}
      BY <1>1, <1>2, <2>3 DEF OneFlip
    <3>. QED  BY <1>2, <3>1, <3>2, ReturnInv
  <2>. QED  BY <2>2, <2>3
<1>. QED  BY <1>4, <1>5, Zenon DEF HarderAnswered

\* The reset goes on to its second command, or fails with the chip in reset.
LEMMA ResetAnsweredInv ==
    ASSUME BpInv, ResetAnswered
    PROVE  BpInv'
<1>1. BpTypeOK /\ AccessOK
  BY DEF BpInv
<1>2. /\ Answered /\ call.op = "reset" /\ call.op # "none"
      /\ UNCHANGED <<mode, chip, wire, line, early>>
  BY DEF ResetAnswered
<1>3. call.tries \in 1..3 /\ call.tries \in 0..3 /\ call \in Call
  BY <1>1, <1>2 DEF AccessOK, BpTypeOK, Call
<1>4. CASE Continue("release")
  <2>1. call' = [call EXCEPT !.access = "release", !.issued = FALSE, !.tries = call.tries]
    BY <1>3, <1>4 DEF Continue, Call
  <2>2. call'.op = "reset"
    BY <1>1, <1>2, <1>3, <2>1, GoesOn
  <2>3. Written' /\ OneFlip'
    BY <2>2 DEF Written, WritePerformed, OneFlip
  <2>4. UNCHANGED returned
    BY <1>4 DEF Continue
  <2>. QED  BY <1>2, <1>3, <2>1, <2>3, <2>4, GoesOnInv
<1>5. CASE Return(Acked)
  <2>1. Acked \in BOOLEAN
    BY DEF Acked
  <2>. QED  BY <1>2, <1>5, <2>1, ReturnInv
<1>. QED  BY <1>4, <1>5 DEF ResetAnswered

-----------------------------------------------------------------------------
(* The theorems *)

\* The invariant that the other theorems follow from: which bytes of the serial
\* line belong to the access in progress, and what the retries leave behind.
THEOREM BusPirateInvariance == BpSpec => []BpInv
<1>1. BpInit => BpInv
  BY BpInitInv
<1>2. BpInv /\ [BpNext]_bpVars => BpInv'
  <2> SUFFICES ASSUME BpInv, [BpNext]_bpVars PROVE BpInv'
    OBVIOUS
  <2>1. CASE (\E value \in Byte : WriteRegisterVerify(value)) \/ ReadRegisterHarder \/ ResetSX1276
    BY <2>1, BeginInv
  <2>2. CASE Issue \/ IssueFlipped
    BY <2>2, IssueInv, IssueFlippedInv
  <2>3. CASE Arrive \/ Poll
    BY <2>3, ArriveInv, ReadSomeInv, ReadNothingInv, ReadFailsInv DEF Poll
  <2>4. CASE CallAnswered
    BY <2>4, VerifyAnsweredInv, HarderAnsweredInv, ResetAnsweredInv DEF CallAnswered
  <2>5. CASE UNCHANGED bpVars
    BY <2>5 DEF bpVars, BpInv, BpTypeOK, AccessOK, InStep, Steady, Unspoilt, Acked, Answer,
         WritePerformed, AsWanted, Written, Again, OneFlip, VerifiedIsWritten, FlipFailsNone
  <2>. QED  BY <2>1, <2>2, <2>3, <2>4, <2>5 DEF BpNext
<1>. QED  BY <1>1, <1>2, PTL DEF BpSpec

\* A value that WriteRegisterVerify has verified is in the register, unless the
\* chip is held in reset.
THEOREM VerifiedWasWritten == BpSpec => []VerifiedIsWritten
<1>1. BpInv => VerifiedIsWritten
  BY DEF BpInv
<1>. QED  BY <1>1, BusPirateInvariance, PTL

\* WriteRegisterVerify copes with one flipped byte in a call: it writes the
\* register, and says so.
THEOREM WriteCopes == BpSpec => []WriteCopesWithFlip
<1>1. BpInv => WriteCopesWithFlip
  BY Zenon DEF BpInv, VerifiedIsWritten, FlipFailsNone, WriteCopesWithFlip
<1>. QED  BY <1>1, BusPirateInvariance, PTL

\* Without late answers and failing reads every call finds the line empty,
\* whatever was garbled or cut in the calls before.
THEOREM CallsBeginInStep == BpSpec => []BeginsInStep
<1>1. BpInv => BeginsInStep
  <2> SUFFICES ASSUME BpInv, Steady, call.op = "none"
               PROVE  wire = <<>> /\ line = <<>>
    BY DEF BeginsInStep
  <2>1. Len(wire) + Len(line) = 0
    BY DEF BpInv, AccessOK, InStep, Steady
  <2>. QED  BY <2>1 DEF BpInv, BpTypeOK
<1>. QED  BY <1>1, BusPirateInvariance, PTL
=============================================================================
