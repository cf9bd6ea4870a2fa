----------------------------- MODULE NodeProofs -----------------------------
(***************************************************************************)
(* Theorems about the older node application, for every environment, both  *)
(* boards and all constants: one batch per boot, under a granted topic id. *)
(*                                                                         *)
(* IndInv adds to the two properties why they hold: the flag for the batch *)
(* can be reset only before the CONNECT, the pauses of the batch make the  *)
(* report due in every later pass, and before the batch the topic table is *)
(* non-empty only within the pass that received the REGACK.                *)
(***************************************************************************)
EXTENDS Node, MqttSnLemmas

-----------------------------------------------------------------------------
(* The steps of the application *)

\* The fields of the client that the invariants speak of.
SameTalk(c, d) ==
    /\ d.waiting_for_response = c.waiting_for_response
    /\ d.response_to_wait_for = c.response_to_wait_for
    /\ d.message_buffer = c.message_buffer
    /\ d.message_id = c.message_id
    /\ d.topic_count = c.topic_count
    /\ d.topic_table = c.topic_table

\* The globals that time and the timers leave alone.
SameFlags(n, o) ==
    /\ o.board = n.board
    /\ o.need_connect = n.need_connect
    /\ o.sent_connect = n.sent_connect
    /\ o.all_done_nearly = n.all_done_nearly
    /\ o.rx_ok = n.rx_ok

\* A saturating timer stays in its range, and a long step takes it past its
\* limit.
LEMMA LaterFacts ==
    ASSUME NEW limit \in Nat, NEW t \in 0..limit + 1, NEW k \in Nat
    PROVE  /\ Later(t, k, limit) \in 0..limit + 1
           /\ t > limit \/ k > limit => Later(t, k, limit) > limit
BY DEF Later

\* The passing of time ages the response timer and nothing else of the client.
LEMMA WaitedFacts ==
    ASSUME NEW c \in Client, NEW k \in Nat
    PROVE  Waited(c, k) \in Client /\ SameTalk(c, Waited(c, k))
<1> DEFINE t == Later(c.response_timer, k, TRetry)
<1>1. t \in 0..TRetry + 1
  <2>1. c.response_timer \in 0..TRetry + 1 /\ TRetry \in Nat
    BY MqttSnAssumption, Zenon DEF Client
  <2>. QED  BY <2>1, LaterFacts
<1>2. Waited(c, k) = [c EXCEPT !.response_timer = t]
  BY Zenon DEF Waited
<1> HIDE DEF t
<1>3. Waited(c, k) \in Client
  BY <1>1, <1>2, ZenonT(60) DEF Client
<1>. QED  BY <1>2, <1>3, ZenonT(60) DEF Client, SameTalk

\* The passing of time ages timeElapsed and nothing else of the application.
LEMMA PassedFacts ==
    ASSUME NEW n \in NodeState, NEW k \in Nat
    PROVE  /\ Passed(n, k) \in NodeState
           /\ SameFlags(n, Passed(n, k))
           /\ Passed(n, k).pc = n.pc
           /\ n.timeElapsed > ReportInterval \/ k > ReportInterval =>
                 Passed(n, k).timeElapsed > ReportInterval
<1> DEFINE t == Later(n.timeElapsed, k, ReportInterval)
<1>1. /\ t \in 0..ReportInterval + 1
      /\ n.timeElapsed > ReportInterval \/ k > ReportInterval => t > ReportInterval
  <2>1. n.timeElapsed \in 0..ReportInterval + 1 /\ ReportInterval \in Nat
    BY NodeAssumption, Zenon DEF NodeState
  <2>. QED  BY <2>1, LaterFacts
<1>2. Passed(n, k) = [n EXCEPT !.timeElapsed = t]
  BY Zenon DEF Passed
<1> HIDE DEF t
<1>3. Passed(n, k) \in NodeState
  BY <1>1, <1>2, ZenonT(60) DEF NodeState
<1>4. SameFlags(n, Passed(n, k)) /\ Passed(n, k).pc = n.pc /\ Passed(n, k).timeElapsed = t
  BY <1>2, ZenonT(60) DEF NodeState, SameFlags
<1>. QED  BY <1>1, <1>3, <1>4, Zenon

\* Moving to another place in loop() keeps the flags and the timer.
LEMMA MovedFacts ==
    ASSUME NEW n \in NodeState, NEW pc \in {"asleep", "rx", "tail"}
    PROVE  LET o == [n EXCEPT !.pc = pc]
           IN  /\ o \in NodeState
               /\ SameFlags(n, o)
               /\ o.pc = pc
               /\ o.timeElapsed = n.timeElapsed
<1> DEFINE o == [n EXCEPT !.pc = pc]
<1>1. o \in NodeState
  BY ZenonT(60) DEF NodeState
<1>. QED  BY <1>1, ZenonT(60) DEF NodeState, SameFlags

\* The report keeps everything but its timer.
LEMMA ReportedFacts ==
    ASSUME TypeOK
    PROVE  /\ Reported \in NodeState
           /\ SameFlags(node, Reported)
           /\ Reported.pc = node.pc
           /\ ~Due => Reported.timeElapsed = node.timeElapsed
<1> DEFINE t == IF Due THEN 0 ELSE node.timeElapsed
<1>0. node \in NodeState
  BY DEF TypeOK
<1>1. t \in 0..ReportInterval + 1
  <2>1. node.timeElapsed \in 0..ReportInterval + 1
    BY <1>0, Zenon DEF NodeState
  <2>. QED  BY <2>1, NodeAssumption
<1>2. Reported = [node EXCEPT !.timeElapsed = t]
  BY Zenon DEF Reported
<1>3. ~Due => t = node.timeElapsed
  OBVIOUS
<1> HIDE DEF t
<1>4. Reported \in NodeState
  BY <1>0, <1>1, <1>2, ZenonT(60) DEF NodeState
<1>5. SameFlags(node, Reported) /\ Reported.pc = node.pc /\ Reported.timeElapsed = t
  BY <1>0, <1>2, ZenonT(60) DEF NodeState, SameFlags
<1>. QED  BY <1>3, <1>4, <1>5, Zenon

\* A response ends the search for a gateway, and keeps the other flags.
LEMMA RespondedFacts ==
    ASSUME TypeOK
    PROVE  /\ Responded \in NodeState
           /\ Responded.board = node.board
           /\ Responded.sent_connect = node.sent_connect
           /\ Responded.all_done_nearly = node.all_done_nearly
           /\ ~Due => Responded.timeElapsed = node.timeElapsed
<1> DEFINE r == Reported
<1>1. /\ r \in NodeState
      /\ SameFlags(node, r)
      /\ ~Due => r.timeElapsed = node.timeElapsed
  BY ReportedFacts, Zenon
<1>2. Responded = [r EXCEPT !.need_connect = FALSE, !.wait_regack = FALSE]
  BY Zenon DEF Responded
<1> HIDE DEF r
<1>3. Responded \in NodeState
  BY <1>1, <1>2, ZenonT(60) DEF NodeState
<1>4. /\ Responded.board = r.board
      /\ Responded.sent_connect = r.sent_connect
      /\ Responded.all_done_nearly = r.all_done_nearly
      /\ Responded.timeElapsed = r.timeElapsed
  BY <1>1, <1>2, ZenonT(60) DEF NodeState
<1>. QED  BY <1>1, <1>3, <1>4, Zenon DEF SameFlags

\* A publication at QoS 0 leaves an idle client idle.
LEMMA Qos0Facts ==
    ASSUME NEW c \in Client, ~c.waiting_for_response, Topic \in Id
    PROVE  publish_qos0(c) \in Client /\ ~publish_qos0(c).waiting_for_response
<1> DEFINE n == NextId(c)
           b == [c EXCEPT !.message_id = n]
           m == Msg("PUBLISH", Topic, n, 0)
<1>1. n \in Id
  <2>1. c.message_id \in Id
    BY Zenon DEF Client
  <2>. QED  BY <2>1, IdTypes DEF NextId
<1>2. m \in Message
  <2>1. "PUBLISH" \in MsgType /\ 0 \in 0..1
    BY DEF MsgType, Unsolicited
  <2> HIDE DEF n
  <2>. QED  BY <1>1, <2>1, Zenon DEF Msg, Message
<1>3. publish_qos0(c) = Send(b, m)
  BY Zenon DEF publish_qos0
<1> HIDE DEF n, m
<1>4. b \in Client /\ b.waiting_for_response = c.waiting_for_response
  <2>1. b \in Client
    BY <1>1, ZenonT(60) DEF Client
  <2>. QED  BY <2>1, ZenonT(60) DEF Client
<1> HIDE DEF b
<1>5. Send(b, m) \in Client /\ Send(b, m).waiting_for_response = b.waiting_for_response
  BY <1>2, <1>4, SendFacts, SMT
<1>. QED  BY <1>3, <1>4, <1>5, Zenon

\* So do the three of a batch.
LEMMA BatchFacts ==
    ASSUME NEW c \in Client, ~c.waiting_for_response, Topic \in Id
    PROVE  Batch(c) \in Client /\ ~Batch(c).waiting_for_response
<1> DEFINE d == publish_qos0(c)
           e == publish_qos0(d)
<1>1. d \in Client /\ ~d.waiting_for_response
  BY Qos0Facts, Zenon
<1> HIDE DEF d
<1>2. e \in Client /\ ~e.waiting_for_response
  BY <1>1, Qos0Facts, Zenon
<1> HIDE DEF e
<1>3. publish_qos0(e) \in Client /\ ~publish_qos0(e).waiting_for_response
  BY <1>2, Qos0Facts, Zenon
<1>. QED  BY <1>3, Zenon DEF Batch, d, e

-----------------------------------------------------------------------------
(* The inductive invariant *)

\* What is known of a node in the tail of a pass.
LEMMA TailFacts ==
    ASSUME IndInv, node.pc = "tail"
    PROVE  /\ node.sent_connect
           /\ node.all_done_nearly => Due /\ history.batches = 1
           /\ ~node.all_done_nearly => history.batches = 0
<1>1. Awake
  BY DEF Awake
<1>. QED  BY <1>1 DEF IndInv, ConnectsFirst, BatchMakesDue

\* A boot that ends leaves the account of its batch as it is.
LEMMA AsleepInv ==
    ASSUME IndInv, TypeOK', node'.pc = "asleep", history' = history
    PROVE  IndInv'
<1>1. ~Awake'
  BY DEF Awake
<1>2. PublishedOnce' /\ BatchUnderGrantedTopic'
  BY DEF IndInv, PublishedOnce, BatchUnderGrantedTopic
<1>. QED  BY <1>1, <1>2 DEF IndInv, ConnectsFirst, BatchMakesDue, AwaitsItsRegack, TopicOrigin

\* A pass that ends without a batch: the next one starts with the same account
\* and, unless the account is closed, with an empty table.
LEMMA ResumeInv ==
    ASSUME IndInv, TypeOK', history' = history,
           node'.sent_connect,
           node'.all_done_nearly = node.all_done_nearly,
           node.pc # "asleep",
           node'.all_done_nearly => node'.timeElapsed > ReportInterval,
           AwaitsItsRegack',
           history.batches = 0 /\ NoTopic \notin history.granted
               => ~(client'.topic_count > 0)
    PROVE  IndInv'
<1>1. Awake
  BY DEF Awake
<1>2. ConnectsFirst'
  BY DEF ConnectsFirst
<1>3. BatchMakesDue'
  BY <1>1 DEF IndInv, BatchMakesDue, Due
<1>4. TopicOrigin'
  BY DEF TopicOrigin
<1>5. PublishedOnce' /\ BatchUnderGrantedTopic'
  BY DEF IndInv, PublishedOnce, BatchUnderGrantedTopic
<1>. QED  BY <1>2, <1>3, <1>4, <1>5 DEF IndInv

\* go_to_sleep, where it resets the board and where it is a delay.
LEMMA GoToSleepInv ==
    ASSUME IndInv, node.pc = "tail", history' = history,
           NEW n \in NodeState, NEW c \in Client, NEW k \in Nat,
           go_to_sleep(n, c, k),
           n.sent_connect,
           n.all_done_nearly = node.all_done_nearly,
           n.all_done_nearly => k > ReportInterval,
           ~(c.waiting_for_response /\ c.response_to_wait_for = "REGACK")
              \/ (/\ c.message_buffer.type = "REGISTER"
                  /\ c.message_buffer.message_id = c.message_id),
           history.batches = 0 /\ NoTopic \notin history.granted
               => ~(c.topic_count > 0)
    PROVE  IndInv'
<1>0. history' \in [granted : SUBSET Id, batches : Nat, topic : Id]
  BY DEF IndInv, TypeOK
<1>1. CASE n.board = "esp"
  <2>1. node' = [n EXCEPT !.pc = "asleep"] /\ client' = MQTTSN
    BY <1>1 DEF go_to_sleep
  <2>2. node' \in NodeState /\ node'.pc = "asleep"
    BY <2>1, "asleep" \in {"asleep", "rx", "tail"}, MovedFacts, Zenon
  <2>. QED  BY <1>0, <2>1, <2>2, MQTTSNType, AsleepInv DEF TypeOK
<1>2. CASE n.board # "esp"
  <2> DEFINE p == Passed(n, k)
  <2>1. node' = [p EXCEPT !.pc = "rx"] /\ client' = Waited(c, k)
    BY <1>2 DEF go_to_sleep
  <2>2. /\ p \in NodeState
        /\ SameFlags(n, p)
        /\ k > ReportInterval => p.timeElapsed > ReportInterval
    BY PassedFacts, SMT
  <2> HIDE DEF p
  <2>3. /\ node' \in NodeState
        /\ SameFlags(p, node')
        /\ node'.timeElapsed = p.timeElapsed
    BY <2>1, <2>2, "rx" \in {"asleep", "rx", "tail"}, MovedFacts, Zenon
  <2>4. client' \in Client /\ SameTalk(c, client')
    BY <2>1, WaitedFacts, SMT
  <2>5. TypeOK'
    BY <1>0, <2>3, <2>4 DEF TypeOK
  <2>6. AwaitsItsRegack'
    BY <2>4 DEF AwaitsItsRegack, SameTalk
  <2>7. /\ node'.sent_connect = n.sent_connect
        /\ node'.all_done_nearly = n.all_done_nearly
        /\ k > ReportInterval => node'.timeElapsed > ReportInterval
    BY <2>2, <2>3, Zenon DEF SameFlags
  <2>8. client'.topic_count = c.topic_count
    BY <2>4 DEF SameTalk
  <2>. QED  BY <2>5, <2>6, <2>7, <2>8, ResumeInv
<1>. QED  BY <1>1, <1>2

\* A node that sleeps before its first boot has done nothing.
LEMMA InitInv == Init => IndInv
<1> SUFFICES ASSUME Init PROVE IndInv
  OBVIOUS
<1>1. PICK board \in Boards : node = [Started(board, TRUE, 0) EXCEPT !.pc = "asleep"]
  BY DEF Init
<1> DEFINE s == Started(board, TRUE, 0)
<1>2. s \in NodeState
  <2>1. board \in {"esp", "teensy"} /\ 0 \in 0..ReportInterval + 1
    BY NodeAssumption
  <2>. QED  BY <2>1, ZenonT(60) DEF Started, NodeState
<1> HIDE DEF s
<1>3. node \in NodeState /\ node.pc = "asleep"
  BY <1>1, <1>2, "asleep" \in {"asleep", "rx", "tail"}, MovedFacts, Zenon DEF s
<1>4. history \in [granted : SUBSET Id, batches : Nat, topic : Id]
  BY IdTypes DEF Init, Fresh
<1>5. history.batches = 0
  BY DEF Init, Fresh
<1>6. TypeOK
  BY <1>3, <1>4, MQTTSNType DEF Init, TypeOK
<1>7. PublishedOnce /\ BatchUnderGrantedTopic
  BY <1>5 DEF PublishedOnce, BatchUnderGrantedTopic
<1>8. ~Awake
  BY <1>3 DEF Awake
<1>. QED  BY <1>6, <1>7, <1>8 DEF IndInv, ConnectsFirst, BatchMakesDue, AwaitsItsRegack, TopicOrigin

\* After setup() nothing is connected, registered or published.
LEMMA BootInv == IndInv /\ Boot => IndInv'
<1> SUFFICES ASSUME IndInv, Boot PROVE IndInv'
  OBVIOUS
<1>1. PICK ok \in BOOLEAN, t \in 0..SetupTicks :
         node' = Started(node.board, ok, t) /\ client' = Waited(MQTTSN, t)
  BY DEF Boot
<1>2. t \in Nat /\ t \in 0..ReportInterval + 1
  BY NodeAssumption
<1>3. node' \in NodeState
  <2>1. node.board \in {"esp", "teensy"}
    BY Zenon DEF IndInv, TypeOK, NodeState
  <2>. QED  BY <1>1, <1>2, <2>1, ZenonT(60) DEF Started, NodeState
<1>4. /\ node'.pc = "rx" /\ node'.need_connect
      /\ ~node'.all_done_nearly
  BY <1>1, Zenon DEF Started
<1>5. client' \in Client /\ SameTalk(MQTTSN, client')
  BY <1>1, <1>2, MQTTSNType, WaitedFacts, SMT
<1>6. client'.response_to_wait_for = "ADVERTISE" /\ client'.topic_count = 0
  <2>1. MQTTSN.response_to_wait_for = "ADVERTISE" /\ MQTTSN.topic_count = 0
    BY Zenon DEF MQTTSN
  <2>. QED  BY <1>5, <2>1, Zenon DEF SameTalk
<1>7. /\ history' \in [granted : SUBSET Id, batches : Nat, topic : Id]
      /\ history'.batches = 0
  BY IdTypes DEF Boot, Fresh
<1>8. TypeOK'
  BY <1>3, <1>5, <1>7 DEF TypeOK
<1>9. ConnectsFirst'
  BY <1>4 DEF ConnectsFirst
<1>10. BatchMakesDue'
  BY <1>4, <1>7 DEF BatchMakesDue
<1>11. AwaitsItsRegack' /\ TopicOrigin'
  BY <1>6 DEF AwaitsItsRegack, TopicOrigin
<1>12. PublishedOnce' /\ BatchUnderGrantedTopic'
  BY <1>7 DEF PublishedOnce, BatchUnderGrantedTopic
<1>. QED  BY <1>8, <1>9, <1>10, <1>11, <1>12 DEF IndInv

\* The CONNECT is the only step that resets all_done_nearly, and it comes first.
LEMMA ConnectInv == IndInv /\ Connect => IndInv'
<1> SUFFICES ASSUME IndInv, Connect PROVE IndInv'
  OBVIOUS
<1>0. /\ client \in Client /\ node \in NodeState /\ Awake
      /\ node.pc = "rx" /\ ~node.sent_connect /\ history' = history
  BY Zenon DEF IndInv, TypeOK, Connect, MustConnect, Awake
<1> DEFINE q == Quiet(client)
           m == Msg("CONNECT", 0, 0, 0)
<1>1. client' = Request(q, m, "CONNACK")
  BY Zenon DEF Connect, connect
<1>2. q \in Client /\ q.topic_count = client.topic_count
  BY <1>0, QuietFacts, Zenon
<1>3. m \in Message /\ "CONNACK" \in MsgType
  <2>1. /\ "CONNECT" \in MsgType /\ "CONNACK" \in MsgType
        /\ 0 \in Id /\ 0 \in 0..1
    BY IdTypes DEF MsgType, Others, Replies
  <2>. QED  BY <2>1, MsgFacts, Zenon
<1> HIDE DEF q, m
<1>4. /\ client' \in Client /\ client'.response_to_wait_for = "CONNACK"
      /\ client'.topic_count = client.topic_count
  <2> DEFINE r == Request(q, m, "CONNACK")
  <2>1. r \in Client /\ r.response_to_wait_for = "CONNACK" /\ r.topic_count = q.topic_count
    BY <1>2, <1>3, RequestFacts, SMT
  <2>. QED  BY <1>1, <1>2, <2>1, Zenon
<1>5. node' = [node EXCEPT !.sent_connect = TRUE, !.all_done_nearly = FALSE]
  BY Zenon DEF Connect
<1>6. node' \in NodeState
  BY <1>0, <1>5, ZenonT(60) DEF NodeState
<1>7. /\ node'.pc = "rx" /\ node'.sent_connect /\ ~node'.all_done_nearly
  BY <1>0, <1>5, ZenonT(60) DEF NodeState
<1>8. history.batches = 0
  BY <1>0 DEF IndInv, BatchMakesDue
<1>9. TypeOK'
  BY <1>0, <1>4, <1>6 DEF IndInv, TypeOK
<1>10. ConnectsFirst'
  BY <1>7 DEF ConnectsFirst
<1>11. BatchMakesDue'
  BY <1>0, <1>7, <1>8 DEF BatchMakesDue
<1>12. AwaitsItsRegack'
  BY <1>4 DEF AwaitsItsRegack
<1>13. TopicOrigin'
  BY <1>0, <1>4, <1>7 DEF IndInv, TopicOrigin
<1>14. PublishedOnce' /\ BatchUnderGrantedTopic'
  BY <1>0, <1>8 DEF PublishedOnce, BatchUnderGrantedTopic
<1>. QED  BY <1>9, <1>10, <1>11, <1>12, <1>13, <1>14 DEF IndInv

-----------------------------------------------------------------------------
(* The first half of a pass *)

\* Whatever was heard, the account of the batch is as before, and a topic that
\* has been entered is one that has been granted.
LEMMA HearInv ==
    ASSUME IndInv, Listens, NEW m \in Message, Heard(client, m, client'),
           history' = [history EXCEPT !.granted = @ \cup Grants(client, m)],
           Received(TRUE)
    PROVE  IndInv'
<1>0. /\ client \in Client /\ node \in NodeState /\ Awake /\ node.pc = "rx"
      /\ history \in [granted : SUBSET Id, batches : Nat, topic : Id]
  BY Zenon DEF IndInv, TypeOK, Listens, Awake
<1>1. node.sent_connect
  BY <1>0 DEF IndInv, ConnectsFirst, Listens, MustConnect
<1>2. node' = [node EXCEPT !.pc = "tail", !.rx_ok = TRUE]
  BY Zenon DEF Received
<1>3. node' \in NodeState
  BY <1>0, <1>2, ZenonT(60) DEF NodeState
<1>4. /\ node'.pc = "tail" /\ node'.rx_ok
      /\ node'.sent_connect = node.sent_connect
      /\ node'.all_done_nearly = node.all_done_nearly
      /\ node'.timeElapsed = node.timeElapsed
  BY <1>0, <1>2, ZenonT(60) DEF NodeState
<1>5. /\ history'.granted = history.granted \cup Grants(client, m)
      /\ history'.batches = history.batches
      /\ history'.topic = history.topic
  BY <1>0, Zenon
<1>6. history' \in [granted : SUBSET Id, batches : Nat, topic : Id]
  <2>1. history.granted \cup Grants(client, m) \in SUBSET Id
    BY <1>0, GrantsType
  <2>. QED  BY <1>0, <2>1, Zenon
<1>7. TypeOK'
  BY <1>3, <1>6 DEF TypeOK, Heard
<1>8. ConnectsFirst'
  BY <1>1, <1>4, Zenon DEF ConnectsFirst
<1>9. BatchMakesDue'
  BY <1>0, <1>4, <1>5, Zenon DEF IndInv, BatchMakesDue, Due
<1>10. AwaitsItsRegack'
  BY <1>0, Zenon DEF IndInv, AwaitsItsRegack, Heard, SameExchange
<1>11. TopicOrigin'
  <2> SUFFICES ASSUME history'.batches = 0, NoTopic \notin history'.granted,
                      client'.topic_count > 0
               PROVE  /\ ~client'.waiting_for_response
                      /\ client'.topic_table[0] \in history'.granted
    BY <1>4, Zenon DEF TopicOrigin
  <2>1. ~(client.topic_count > 0)
    BY <1>0, <1>5 DEF IndInv, TopicOrigin
  <2>2. client'.topic_count # client.topic_count /\ client.topic_count = 0
    <3>1. client.topic_count \in 0..MaxTopics
      BY <1>0, Zenon DEF Client
    <3>. QED  BY <2>1, <3>1, MqttSnAssumption
  <2>3. /\ ~client'.waiting_for_response
        /\ client.waiting_for_response
        /\ client.response_to_wait_for = "REGACK"
        /\ m.type = "REGACK" /\ m.code = 0
        /\ m.message_id = client.message_id
        /\ client'.topic_table[0] = m.topic_id
    BY <2>2, Zenon DEF Heard
  <2>4. /\ client.message_buffer.type = "REGISTER"
        /\ client.message_buffer.message_id = client.message_id
    BY <1>0, <2>3, Zenon DEF IndInv, AwaitsItsRegack
  <2>5. m.topic_id \in Grants(client, m)
    BY <2>3, <2>4 DEF Grants
  <2>. QED  BY <1>5, <2>3, <2>5
<1>12. PublishedOnce'
  BY <1>5 DEF IndInv, PublishedOnce
<1>13. BatchUnderGrantedTopic'
  BY <1>5 DEF IndInv, BatchUnderGrantedTopic
<1>. QED  BY <1>7, <1>8, <1>9, <1>10, <1>11, <1>12, <1>13 DEF IndInv

\* The three outcomes of TryReceive.
LEMMA TryReceiveInv == IndInv /\ TryReceive => IndInv'
<1> SUFFICES ASSUME IndInv, TryReceive PROVE IndInv'
  OBVIOUS
<1>0. client \in Client /\ node \in NodeState
  BY DEF IndInv, TypeOK
<1>1. CASE HearMessage
  <2>1. PICK m \in Inputs, index \in Index :
           /\ client' = parse(Quiet(client), m, index)
           /\ history' = [history EXCEPT !.granted = @ \cup Grants(client, m)]
    BY <1>1 DEF HearMessage
  <2>2. m \in Message
    BY NodeAssumption
  <2>3. Heard(client, m, client')
    BY <1>0, <2>1, <2>2, ParseFacts, Zenon
  <2>. QED  BY <1>1, <2>1, <2>2, <2>3, HearInv DEF HearMessage
<1>2. CASE HearHello
  <2>1. PICK index \in Index : client' = parse_stale(Quiet(client), index)
    BY <1>2 DEF HearHello
  <2> DEFINE m == client.response_buffer
  <2>2. m \in Message
    BY <1>0, Zenon DEF Client
  <2>3. Heard(client, m, client')
    BY <1>0, <2>1, <2>2, ParseFacts, Zenon
  <2>4. /\ Listens /\ Received(TRUE)
        /\ history' = [history EXCEPT !.granted = @ \cup Grants(client, m)]
    BY <1>2, Zenon DEF HearHello
  <2> HIDE DEF m
  <2>. QED  BY <2>2, <2>3, <2>4, HearInv
<1>3. CASE HearNothing
  <2>1. /\ Awake /\ node.pc = "rx" /\ client' = Quiet(client) /\ history' = history
        /\ node' = [node EXCEPT !.pc = "tail", !.rx_ok = FALSE]
    BY <1>3, Zenon DEF HearNothing, Listens, Received, Awake
  <2>2. node' \in NodeState
    BY <1>0, <2>1, ZenonT(60) DEF NodeState
  <2>3. /\ node'.sent_connect = node.sent_connect
        /\ node'.all_done_nearly = node.all_done_nearly
        /\ node'.timeElapsed = node.timeElapsed
    BY <1>0, <2>1, ZenonT(60) DEF NodeState
  <2>4. node.sent_connect
    BY <1>3, <2>1 DEF IndInv, ConnectsFirst, HearNothing, Listens, MustConnect
  <2>5. client' \in Client /\ SameTalk(client, client')
    BY <1>0, <2>1, QuietFacts, Zenon DEF SameTalk
  <2>6. node'.all_done_nearly => node'.timeElapsed > ReportInterval
    BY <2>1, <2>3, Zenon DEF IndInv, BatchMakesDue, Due
  <2>7. TypeOK'
    BY <2>1, <2>2, <2>5 DEF IndInv, TypeOK
  <2>8. AwaitsItsRegack'
    BY <2>1, <2>5, Zenon DEF IndInv, AwaitsItsRegack, SameTalk
  <2>9. history.batches = 0 /\ NoTopic \notin history.granted => ~(client'.topic_count > 0)
    BY <2>1, <2>5 DEF IndInv, TopicOrigin, SameTalk
  <2>. QED  BY <2>1, <2>3, <2>4, <2>6, <2>7, <2>8, <2>9, ResumeInv
<1>. QED  BY <1>1, <1>2, <1>3 DEF TryReceive

-----------------------------------------------------------------------------
(* The second half of a pass *)

\* What the check of the retry timer leaves alone: everything the properties
\* speak of, unless it ends the wait.
LEMMA CheckedTalk ==
    ASSUME NEW c \in Client
    PROVE  LET d == Checked(c)
           IN  /\ d \in Client
               /\ d.response_to_wait_for = c.response_to_wait_for
               /\ d.message_buffer = c.message_buffer
               /\ d.message_id = c.message_id
               /\ d.topic_count = c.topic_count
               /\ d.topic_table = c.topic_table
               /\ d.waiting_for_response => c.waiting_for_response
<1> DEFINE d == Checked(c)
<1>1. /\ d \in Client
      /\ d.response_to_wait_for = c.response_to_wait_for
      /\ d.message_buffer = c.message_buffer
      /\ d.message_id = c.message_id
      /\ d.topic_count = c.topic_count
      /\ d.topic_table = c.topic_table
  BY CheckedFacts, SMT
<1>2. d.waiting_for_response => c.waiting_for_response
  BY CheckedFacts, SMT
<1> HIDE DEF d
<1>. QED  BY <1>1, <1>2, Zenon DEF d

\* Before the batch a topic that is found is a granted one.
LEMMA FoundTopic ==
    ASSUME IndInv, node.pc = "tail"
    PROVE  /\ Topic \in Id
           /\ history.batches = 0 /\ NoTopic \notin history.granted =>
                 \/ Topic = NoTopic /\ ~(client.topic_count > 0)
                 \/ Topic # NoTopic /\ Topic \in history.granted
<1> DEFINE d == Checked(client)
<1>0. client \in Client /\ Awake
  BY DEF IndInv, TypeOK, Awake
<1>1. /\ d \in Client /\ d.topic_count = client.topic_count
      /\ d.topic_table = client.topic_table
  BY <1>0, CheckedTalk, SMT
<1>2. Topic = find_topic_id(d)
  BY Zenon DEF Topic
<1> HIDE DEF d
<1>3. Topic \in Id
  BY <1>1, <1>2, FindFacts, Zenon
<1>4. ASSUME history.batches = 0, NoTopic \notin history.granted
      PROVE  \/ Topic = NoTopic /\ ~(client.topic_count > 0)
             \/ Topic # NoTopic /\ Topic \in history.granted
  <2>1. CASE client.topic_count > 0
    <3>1. Topic = client.topic_table[0]
      BY <1>1, <1>2, <2>1, Zenon DEF find_topic_id
    <3>2. client.topic_table[0] \in history.granted
      BY <1>0, <1>4, <2>1, Zenon DEF IndInv, TopicOrigin
    <3>. QED  BY <1>4, <3>1, <3>2, Zenon
  <2>2. CASE ~(client.topic_count > 0)
    BY <1>1, <1>2, <2>2, Zenon DEF find_topic_id
  <2>. QED  BY <2>1, <2>2
<1>. QED  BY <1>3, <1>4, Zenon

\* A node that has sent its batch goes to sleep here, and no further.
LEMMA DoneSleepsInv == IndInv /\ DoneSleeps => IndInv'
<1> SUFFICES ASSUME IndInv, DoneSleeps PROVE IndInv'
  OBVIOUS
<1> DEFINE n == Reported
           c == Quiet(client)
<1>0. client \in Client /\ TypeOK /\ Awake
  BY DEF IndInv, TypeOK, DoneSleeps, Awake
<1>1. /\ node.pc = "tail" /\ node.all_done_nearly /\ history' = history
      /\ go_to_sleep(n, c, SleepTicks)
  BY Zenon DEF DoneSleeps
<1>2. n \in NodeState /\ SameFlags(node, n)
  BY <1>0, ReportedFacts, Zenon
<1>3. c \in Client /\ SameTalk(client, c)
  BY <1>0, QuietFacts, Zenon DEF SameTalk
<1> HIDE DEF n, c
<1>4. node.sent_connect /\ history.batches = 1
  BY <1>1, TailFacts, Zenon
<1>5. n.sent_connect /\ n.all_done_nearly = node.all_done_nearly
  BY <1>2, <1>4, Zenon DEF SameFlags
<1>6. SleepTicks \in Nat /\ SleepTicks > ReportInterval
  BY NodeAssumption
<1>7. ~(c.waiting_for_response /\ c.response_to_wait_for = "REGACK")
        \/ (/\ c.message_buffer.type = "REGISTER"
            /\ c.message_buffer.message_id = c.message_id)
  BY <1>0, <1>3, Zenon DEF IndInv, AwaitsItsRegack, SameTalk
<1>8. history.batches # 0
  BY <1>4
<1>. QED  BY <1>1, <1>2, <1>3, <1>5, <1>6, <1>7, <1>8, GoToSleepInv

\* A node that goes on after the report has not sent its batch.
LEMMA ContinuesFacts ==
    ASSUME IndInv, Continues
    PROVE  /\ client \in Client /\ TypeOK /\ Awake /\ node.pc = "tail"
           /\ node.sent_connect /\ ~node.all_done_nearly /\ history.batches = 0
<1>1. TypeOK /\ client \in Client /\ node.pc = "tail" /\ Awake
  BY DEF IndInv, TypeOK, Continues, Awake
<1>2. ~node.all_done_nearly /\ node.sent_connect
  BY <1>1, TailFacts, Zenon DEF Continues
<1>. QED  BY <1>1, <1>2, TailFacts, Zenon

\* Silence ends the pass.
LEMMA IgnoreInv == IndInv /\ Ignore => IndInv'
<1> SUFFICES ASSUME IndInv, Ignore PROVE IndInv'
  OBVIOUS
<1>0. /\ client \in Client /\ TypeOK /\ Awake /\ node.pc = "tail"
      /\ node.sent_connect /\ ~node.all_done_nearly /\ history.batches = 0
  BY ContinuesFacts, Zenon DEF Ignore
<1>1. /\ ~node.rx_ok /\ client' = Quiet(client) /\ history' = history
      /\ node' = [Reported EXCEPT !.pc = "rx"]
  BY Zenon DEF Ignore
<1>2. Reported \in NodeState /\ SameFlags(node, Reported)
  BY <1>0, ReportedFacts, Zenon
<1>3. node' \in NodeState /\ SameFlags(Reported, node')
  BY <1>1, <1>2, "rx" \in {"asleep", "rx", "tail"}, MovedFacts, Zenon
<1>4. node'.sent_connect /\ node'.all_done_nearly = node.all_done_nearly
  BY <1>0, <1>2, <1>3, Zenon DEF SameFlags
<1>5. client' \in Client /\ SameTalk(client, client')
  BY <1>0, <1>1, QuietFacts, Zenon DEF SameTalk
<1>6. TypeOK'
  BY <1>0, <1>1, <1>3, <1>5, Zenon DEF TypeOK
<1>7. AwaitsItsRegack'
  BY <1>0, <1>5, Zenon DEF IndInv, AwaitsItsRegack, SameTalk
<1>8. NoTopic \notin history.granted => ~(client'.topic_count > 0)
  BY <1>0, <1>1, <1>5, Zenon DEF IndInv, TopicOrigin, SameTalk
<1>. QED  BY <1>0, <1>1, <1>4, <1>6, <1>7, <1>8, ResumeInv

\* A node that still waits keeps waiting for the same reply.
LEMMA KeepWaitingInv == IndInv /\ KeepWaiting => IndInv'
<1> SUFFICES ASSUME IndInv, KeepWaiting PROVE IndInv'
  OBVIOUS
<1>0. /\ client \in Client /\ TypeOK /\ Awake /\ node.pc = "tail"
      /\ node.sent_connect /\ ~node.all_done_nearly /\ history.batches = 0
  BY ContinuesFacts, Zenon DEF KeepWaiting
<1> DEFINE c == Checked(client)
           r == Reported
           n == [r EXCEPT !.wait_regack = FALSE]
<1>1. /\ c.waiting_for_response /\ history' = history
      /\ \/ go_to_sleep(n, c, 0)
         \/ client' = c /\ node' = [r EXCEPT !.pc = "rx", !.wait_regack = FALSE]
  BY Zenon DEF KeepWaiting
<1>2. /\ c \in Client
      /\ c.response_to_wait_for = client.response_to_wait_for
      /\ c.message_buffer = client.message_buffer
      /\ c.message_id = client.message_id
      /\ c.topic_count = client.topic_count
      /\ c.waiting_for_response => client.waiting_for_response
  BY <1>0, CheckedTalk, SMT
<1>3. r \in NodeState /\ SameFlags(node, r)
  BY <1>0, ReportedFacts, Zenon
<1> HIDE DEF c, r
<1>4. NoTopic \notin history.granted => ~(c.topic_count > 0)
  BY <1>0, <1>1, <1>2, Zenon DEF IndInv, TopicOrigin
<1>5. ~(c.waiting_for_response /\ c.response_to_wait_for = "REGACK")
        \/ (/\ c.message_buffer.type = "REGISTER"
            /\ c.message_buffer.message_id = c.message_id)
  BY <1>0, <1>2, Zenon DEF IndInv, AwaitsItsRegack
<1>6. CASE go_to_sleep(n, c, 0)
  <2>1. n \in NodeState
    BY <1>3, ZenonT(60) DEF NodeState
  <2>2. n.sent_connect = r.sent_connect /\ n.all_done_nearly = r.all_done_nearly
    BY <1>3, ZenonT(60) DEF NodeState
  <2>3. n.sent_connect /\ n.all_done_nearly = node.all_done_nearly
    BY <1>0, <1>3, <2>2, Zenon DEF SameFlags
  <2> HIDE DEF n
  <2>. QED  BY <1>0, <1>1, <1>2, <1>4, <1>5, <1>6, <2>1, <2>3, GoToSleepInv
<1>7. CASE client' = c /\ node' = [r EXCEPT !.pc = "rx", !.wait_regack = FALSE]
  <2>1. node' \in NodeState
    BY <1>3, <1>7, ZenonT(60) DEF NodeState
  <2>2. node'.sent_connect = r.sent_connect /\ node'.all_done_nearly = r.all_done_nearly
    BY <1>3, <1>7, ZenonT(60) DEF NodeState
  <2>3. node'.sent_connect /\ node'.all_done_nearly = node.all_done_nearly
    BY <1>0, <1>3, <2>2, Zenon DEF SameFlags
  <2>4. TypeOK'
    BY <1>0, <1>1, <1>2, <1>7, <2>1, Zenon DEF TypeOK
  <2>5. AwaitsItsRegack'
    BY <1>5, <1>7, Zenon DEF AwaitsItsRegack
  <2>. QED  BY <1>0, <1>1, <1>4, <1>7, <2>3, <2>4, <2>5, ResumeInv
<1>. QED  BY <1>1, <1>6, <1>7

\* A REGISTER is sent for an empty table, or after the reserved id was granted.
LEMMA RegisterInv == IndInv /\ Register => IndInv'
<1> SUFFICES ASSUME IndInv, Register PROVE IndInv'
  OBVIOUS
<1>0. /\ client \in Client /\ TypeOK /\ Awake /\ node.pc = "tail"
      /\ node.sent_connect /\ ~node.all_done_nearly /\ history.batches = 0
  BY ContinuesFacts, Zenon DEF Register, Proceeds
<1> DEFINE c == Checked(client)
           r == Responded
<1>1. /\ Topic = NoTopic /\ CanRegister(c) /\ client' = register_topic(c)
      /\ node' = [r EXCEPT !.pc = "rx", !.wait_regack = TRUE] /\ history' = history
  BY Zenon DEF Register
<1>2. c \in Client /\ c.topic_count = client.topic_count
  BY <1>0, CheckedTalk, SMT
<1>3. /\ r \in NodeState /\ r.sent_connect = node.sent_connect
      /\ r.all_done_nearly = node.all_done_nearly
  BY <1>0, RespondedFacts, Zenon
<1> HIDE DEF c, r
<1>4. /\ client' \in Client
      /\ client'.message_buffer.type = "REGISTER"
      /\ client'.message_buffer.message_id = client'.message_id
      /\ Keeps(c, client')
  BY <1>1, <1>2, RegisterFacts, SMT
<1>5. NoTopic \notin history.granted => ~(client'.topic_count > 0)
  BY <1>0, <1>1, <1>2, <1>4, FoundTopic, Zenon DEF Keeps
<1>6. node' \in NodeState
  BY <1>1, <1>3, ZenonT(60) DEF NodeState
<1>7. node'.sent_connect = r.sent_connect /\ node'.all_done_nearly = r.all_done_nearly
  BY <1>1, <1>3, ZenonT(60) DEF NodeState
<1>8. TypeOK'
  BY <1>0, <1>1, <1>4, <1>6, Zenon DEF TypeOK
<1>9. AwaitsItsRegack'
  BY <1>4, Zenon DEF AwaitsItsRegack
<1>. QED  BY <1>0, <1>1, <1>3, <1>5, <1>7, <1>8, <1>9, ResumeInv

\* "Register error": with the table full of the reserved id.
LEMMA RegisterFailsInv == IndInv /\ RegisterFails => IndInv'
<1> SUFFICES ASSUME IndInv, RegisterFails PROVE IndInv'
  OBVIOUS
<1>0. /\ client \in Client /\ TypeOK /\ Awake /\ node.pc = "tail"
      /\ node.sent_connect /\ ~node.all_done_nearly /\ history.batches = 0
  BY ContinuesFacts, Zenon DEF RegisterFails, Proceeds
<1> DEFINE c == Checked(client)
           r == Responded
<1>1. /\ Topic = NoTopic /\ ~c.waiting_for_response
      /\ go_to_sleep(r, c, 0) /\ history' = history
  BY Zenon DEF RegisterFails, Proceeds
<1>2. c \in Client /\ c.topic_count = client.topic_count
  BY <1>0, CheckedTalk, SMT
<1>3. /\ r \in NodeState /\ r.sent_connect = node.sent_connect
      /\ r.all_done_nearly = node.all_done_nearly
  BY <1>0, RespondedFacts, Zenon
<1> HIDE DEF c, r
<1>4. NoTopic \notin history.granted => ~(c.topic_count > 0)
  BY <1>0, <1>1, <1>2, FoundTopic, Zenon
<1>5. r.sent_connect /\ ~r.all_done_nearly
  BY <1>0, <1>3, Zenon
<1>. QED  BY <1>0, <1>1, <1>2, <1>3, <1>4, <1>5, GoToSleepInv

\* The batch: once, under the topic found, and with the report due after it.
LEMMA PublishInv == IndInv /\ Publish => IndInv'
<1> SUFFICES ASSUME IndInv, Publish PROVE IndInv'
  OBVIOUS
<1>0. /\ client \in Client /\ TypeOK /\ Awake /\ node.pc = "tail"
      /\ node.sent_connect /\ ~node.all_done_nearly /\ history.batches = 0
  BY ContinuesFacts, Zenon DEF Publish, Proceeds
<1>00. history \in [granted : SUBSET Id, batches : Nat, topic : Id]
  BY <1>0 DEF TypeOK
<1> DEFINE c == Checked(client)
           r == Responded
           p == Passed(r, 0)
           q == Passed(p, PublishTicks)
<1>1. /\ Topic # NoTopic /\ ~c.waiting_for_response
      /\ client' = Batch(c)
      /\ node' = BatchSent(p)
      /\ history' = [history EXCEPT !.batches = @ + 1, !.topic = Topic]
  BY <1>0, Zenon DEF Publish, Proceeds
<1>2. c \in Client
  BY <1>0, CheckedTalk, SMT
<1>3. r \in NodeState /\ r.sent_connect = node.sent_connect
  BY <1>0, RespondedFacts, Zenon
<1>4. node' = [q EXCEPT !.pc = "rx", !.all_done_nearly = TRUE]
  BY <1>1, Zenon DEF BatchSent
<1> HIDE DEF c, r
<1>5. p \in NodeState /\ SameFlags(r, p)
  BY <1>3, PassedFacts, SMT
<1> HIDE DEF p
<1>6. q \in NodeState /\ SameFlags(p, q) /\ q.timeElapsed > ReportInterval
  <2>1. PublishTicks \in Nat /\ PublishTicks > ReportInterval
    BY NodeAssumption
  <2>. QED  BY <1>5, <2>1, PassedFacts, SMT
<1> HIDE DEF q
<1>7. node' \in NodeState
  BY <1>4, <1>6, ZenonT(60) DEF NodeState
<1>8. /\ node'.all_done_nearly
      /\ node'.sent_connect = q.sent_connect
      /\ node'.timeElapsed = q.timeElapsed
  BY <1>4, <1>6, ZenonT(60) DEF NodeState
<1>9. node'.sent_connect
  BY <1>0, <1>3, <1>5, <1>6, <1>8, Zenon DEF SameFlags
<1>10. Topic \in Id /\ (NoTopic \notin history.granted => Topic \in history.granted)
  BY <1>0, <1>1, FoundTopic, Zenon
<1>11. client' \in Client /\ ~client'.waiting_for_response
  BY <1>1, <1>2, <1>10, BatchFacts, Zenon
<1>12. /\ history' \in [granted : SUBSET Id, batches : Nat, topic : Id]
       /\ history'.batches = 1 /\ history'.topic = Topic
       /\ history'.granted = history.granted
  <2> DEFINE b == history.batches + 1
             t == Topic
  <2>1. b = 1 /\ b \in Nat /\ t \in Id
    BY <1>0, <1>10
  <2>2. history' = [history EXCEPT !.batches = b, !.topic = t]
    BY <1>1, Zenon
  <2> HIDE DEF b, t
  <2>3. /\ history' \in [granted : SUBSET Id, batches : Nat, topic : Id]
        /\ history'.batches = b /\ history'.topic = t
        /\ history'.granted = history.granted
    BY <1>00, <2>1, <2>2, Zenon
  <2>. QED  BY <2>1, <2>3, Zenon DEF t
<1>13. TypeOK'
  BY <1>7, <1>11, <1>12, Zenon DEF TypeOK
<1>14. ConnectsFirst'
  BY <1>9, Zenon DEF ConnectsFirst
<1>15. BatchMakesDue'
  BY <1>6, <1>8, <1>9, <1>12, Zenon DEF BatchMakesDue, Due
<1>16. AwaitsItsRegack'
  BY <1>11, Zenon DEF AwaitsItsRegack
<1>17. TopicOrigin' /\ PublishedOnce'
  BY <1>12 DEF TopicOrigin, PublishedOnce
<1>18. BatchUnderGrantedTopic'
  BY <1>10, <1>12, Zenon DEF BatchUnderGrantedTopic
<1>. QED  BY <1>13, <1>14, <1>15, <1>16, <1>17, <1>18 DEF IndInv

\* Time passes for the two timers only.
LEMMA TickInv == IndInv /\ Tick => IndInv'
<1> SUFFICES ASSUME IndInv, Tick PROVE IndInv'
  OBVIOUS
<1>0. client \in Client /\ node \in NodeState /\ Awake
  BY DEF IndInv, TypeOK, Tick, Awake
<1> DEFINE q == Quiet(client)
<1>1. client' = Waited(q, 1) /\ node' = Passed(node, 1) /\ history' = history
  BY Zenon DEF Tick
<1>2. q \in Client /\ SameTalk(client, q)
  BY <1>0, QuietFacts, Zenon DEF SameTalk
<1> HIDE DEF q
<1>3. client' \in Client /\ SameTalk(q, client')
  BY <1>1, <1>2, WaitedFacts, SMT
<1>4. /\ node' \in NodeState /\ SameFlags(node, node') /\ node'.pc = node.pc
      /\ node.timeElapsed > ReportInterval => node'.timeElapsed > ReportInterval
  BY <1>0, <1>1, PassedFacts, SMT
<1>5. SameTalk(client, client')
  BY <1>2, <1>3, Zenon DEF SameTalk
<1>6. TypeOK'
  BY <1>1, <1>3, <1>4 DEF IndInv, TypeOK
<1>7. ConnectsFirst' /\ BatchMakesDue'
  BY <1>0, <1>1, <1>4, Zenon
     DEF IndInv, ConnectsFirst, BatchMakesDue, Due, SameFlags, Awake
<1>8. AwaitsItsRegack' /\ TopicOrigin'
  BY <1>0, <1>1, <1>4, <1>5, Zenon
     DEF IndInv, AwaitsItsRegack, TopicOrigin, SameTalk, SameFlags
<1>9. PublishedOnce' /\ BatchUnderGrantedTopic'
  BY <1>1 DEF IndInv, PublishedOnce, BatchUnderGrantedTopic
<1>. QED  BY <1>6, <1>7, <1>8, <1>9 DEF IndInv

-----------------------------------------------------------------------------
(* Theorems *)

\* Every step of the node preserves the inductive invariant.
LEMMA NextInv == IndInv /\ [Next]_vars => IndInv'
<1> SUFFICES ASSUME IndInv, [Next]_vars PROVE IndInv'
  OBVIOUS
<1>1. CASE UNCHANGED vars
  BY <1>1 DEF vars, IndInv, TypeOK, ConnectsFirst, BatchMakesDue, AwaitsItsRegack,
              TopicOrigin, PublishedOnce, BatchUnderGrantedTopic, Awake, Due
<1>2. CASE Tail
  BY <1>2, DoneSleepsInv, IgnoreInv, KeepWaitingInv, RegisterInv, RegisterFailsInv,
     PublishInv DEF Tail
<1>. QED
  BY <1>1, <1>2, BootInv, ConnectInv, TryReceiveInv, TickInv DEF Next

\* The older node's state keeps its type, and the account of its batch and of
\* its topic is kept, in every behaviour of loop().
THEOREM NodeInvariance == Spec => []IndInv
BY InitInv, NextInv, PTL DEF Spec

\* One batch per boot, on both boards and whatever is heard: a node that has
\* sent it sleeps in the next pass, before it looks at a message.
THEOREM OneBatchPerBoot == Spec => []PublishedOnce
<1>1. IndInv => PublishedOnce
  BY DEF IndInv
<1>. QED  BY <1>1, NodeInvariance, PTL

\* The batch goes out under a topic id that a REGACK granted to the node's own
\* REGISTER, as long as the broker does not grant the reserved id.
THEOREM BatchTopicGranted == Spec => []BatchUnderGrantedTopic
<1>1. IndInv => BatchUnderGrantedTopic
  BY DEF IndInv
<1>. QED  BY <1>1, NodeInvariance, PTL
=============================================================================
