---------------------------- MODULE MqttSnLemmas ----------------------------
(***************************************************************************)
(* What the operations of the MQTT-SN client compute, for all constants.   *)
(* The proofs about both applications, LeafProofs and NodeProofs, cite     *)
(* these lemmas instead of the definitions.                                *)
(***************************************************************************)
EXTENDS MqttSn, TLAPS

-----------------------------------------------------------------------------
(* Ids *)

\* An id stays within its two bytes when these are swapped, and when the
\* counter of message ids wraps around.
LEMMA IdTypes ==
    /\ IdMod \in Nat \ {0}
    /\ 0 \in Id
    /\ NoTopic \in Id
    /\ \A v \in Id : bswap(v) \in Id /\ (v + 1) % IdMod \in Id
<1>1. IdMod \in Nat /\ IdMod > 1 /\ IdMod = Radix * Radix
  BY MqttSnAssumption DEF IdMod
<1>2. ASSUME NEW v \in Id PROVE bswap(v) \in Id
  <2> DEFINE q == v \div Radix
             r == v % Radix
  <2>1. v \in Nat /\ v < Radix * Radix
    BY <1>1 DEF Id
  <2>2. r \in 0..Radix - 1 /\ q \in Nat /\ v = Radix * q + r
    BY <2>1, MqttSnAssumption
  <2> HIDE DEF q, r
  <2>3. q < Radix
    <3>1. SUFFICES ASSUME q >= Radix PROVE FALSE
      BY <2>2, MqttSnAssumption
    <3>2. Radix * q >= Radix * Radix
      BY <2>2, <3>1, MqttSnAssumption
    <3>. QED  BY <2>1, <2>2, <3>2, MqttSnAssumption
  <2>4. r * Radix \in Nat /\ r * Radix <= (Radix - 1) * Radix
    BY <2>2, MqttSnAssumption
  <2>5. (Radix - 1) * Radix = Radix * Radix - Radix
    BY MqttSnAssumption
  <2>6. r * Radix + q \in 0..Radix * Radix - 1
    BY <2>2, <2>3, <2>4, <2>5, MqttSnAssumption
  <2>. QED  BY <1>1, <2>6 DEF bswap, Id, q, r
<1>. QED  BY <1>1, <1>2 DEF NoTopic, Id

-----------------------------------------------------------------------------
(* The client library *)

\* Sending replaces message_buffer, and arms the timer and the retry budget
\* exactly when nothing was awaited; nothing else of the client changes.
LEMMA SendFacts ==
    ASSUME NEW c \in Client, NEW m \in Message
    PROVE  /\ Send(c, m) \in Client
           /\ Send(c, m).message_buffer = m
           /\ Send(c, m).waiting_for_response = c.waiting_for_response
           /\ Send(c, m).response_to_wait_for = c.response_to_wait_for
           /\ Send(c, m).message_id = c.message_id
           /\ Send(c, m).topic_count = c.topic_count
           /\ Send(c, m).topic_table = c.topic_table
           /\ Send(c, m).response_buffer = c.response_buffer
           /\ Send(c, m).got_puback = c.got_puback
           /\ c.waiting_for_response =>
                 /\ Send(c, m).response_timer = c.response_timer
                 /\ Send(c, m).response_retries = c.response_retries
           /\ ~c.waiting_for_response =>
                 /\ Send(c, m).response_timer = 0
                 /\ Send(c, m).response_retries = NRetry
<1> DEFINE t == IF c.waiting_for_response THEN c.response_timer ELSE 0
           r == IF c.waiting_for_response THEN c.response_retries ELSE NRetry
           s == c.sent \cup {m}
<1>1. t \in 0..TRetry + 1 /\ r \in 0..255 /\ s \in SUBSET Message
  BY MqttSnAssumption DEF Client
<1>2. Send(c, m) = [c EXCEPT !.message_buffer = m, !.sent = s,
                             !.response_timer = t, !.response_retries = r]
  BY Zenon DEF Send
<1> HIDE DEF t, r, s
<1>3. Send(c, m) \in Client
  BY <1>1, <1>2, ZenonT(180) DEF Client
<1>4. /\ Send(c, m).message_buffer = m
      /\ Send(c, m).response_timer = t
      /\ Send(c, m).response_retries = r
  BY <1>2, Zenon DEF Client
<1>5. /\ Send(c, m).waiting_for_response = c.waiting_for_response
      /\ Send(c, m).response_to_wait_for = c.response_to_wait_for
      /\ Send(c, m).message_id = c.message_id
      /\ Send(c, m).topic_count = c.topic_count
      /\ Send(c, m).topic_table = c.topic_table
      /\ Send(c, m).response_buffer = c.response_buffer
      /\ Send(c, m).got_puback = c.got_puback
  BY <1>2, Zenon DEF Client
<1>6. /\ c.waiting_for_response => t = c.response_timer /\ r = c.response_retries
      /\ ~c.waiting_for_response => t = 0 /\ r = NRetry
  BY Zenon DEF t, r
<1>. QED  BY <1>3, <1>4, <1>5, <1>6, Zenon

\* A message built from values of the right types is a message with them.
LEMMA MsgFacts ==
    ASSUME NEW type \in MsgType, NEW t \in Id, NEW i \in Id, NEW code \in 0..1
    PROVE  /\ Msg(type, t, i, code) \in Message
           /\ Msg(type, t, i, code).type = type
           /\ Msg(type, t, i, code).message_id = i
BY Zenon DEF Msg, Message

\* A request leaves the client waiting for its reply with the request itself
\* in message_buffer, and does not touch the topic table or the PUBACK flag.
LEMMA RequestFacts ==
    ASSUME NEW c \in Client, NEW m \in Message, NEW reply \in MsgType
    PROVE  LET d == Request(c, m, reply)
           IN  /\ d \in Client
               /\ d.waiting_for_response
               /\ d.response_to_wait_for = reply
               /\ d.message_buffer = m
               /\ d.message_id = c.message_id
               /\ d.topic_count = c.topic_count
               /\ d.topic_table = c.topic_table
               /\ d.response_buffer = c.response_buffer
               /\ d.got_puback = c.got_puback
               /\ ~c.waiting_for_response =>
                     d.response_timer = 0 /\ d.response_retries = NRetry
<1> DEFINE s == Send(c, m)
           d == Request(c, m, reply)
<1>1. d = [s EXCEPT !.waiting_for_response = TRUE, !.response_to_wait_for = reply]
  BY Zenon DEF Request
<1>2. s \in Client
  BY SendFacts, Zenon
<1>3. /\ s.message_buffer = m
      /\ s.message_id = c.message_id
      /\ s.topic_count = c.topic_count
      /\ s.topic_table = c.topic_table
      /\ s.response_buffer = c.response_buffer
      /\ s.got_puback = c.got_puback
      /\ ~c.waiting_for_response =>
            s.response_timer = 0 /\ s.response_retries = NRetry
  BY SendFacts, Zenon
<1> HIDE DEF s, d
<1>4. d \in Client
  BY <1>1, <1>2, ZenonT(60) DEF Client
<1>5. /\ d.waiting_for_response
      /\ d.response_to_wait_for = reply
      /\ d.message_buffer = s.message_buffer
      /\ d.message_id = s.message_id
      /\ d.topic_count = s.topic_count
      /\ d.topic_table = s.topic_table
      /\ d.response_buffer = s.response_buffer
      /\ d.got_puback = s.got_puback
      /\ d.response_timer = s.response_timer
      /\ d.response_retries = s.response_retries
  BY <1>1, <1>2, Zenon DEF Client
<1>6. QED  BY <1>3, <1>4, <1>5, Zenon DEF d

\* Forgetting what was put on the air leaves the client as it was.
LEMMA QuietFacts ==
    ASSUME NEW c \in Client
    PROVE  /\ Quiet(c) \in Client
           /\ Quiet(c).waiting_for_response = c.waiting_for_response
           /\ Quiet(c).response_to_wait_for = c.response_to_wait_for
           /\ Quiet(c).message_buffer = c.message_buffer
           /\ Quiet(c).message_id = c.message_id
           /\ Quiet(c).topic_count = c.topic_count
           /\ Quiet(c).topic_table = c.topic_table
           /\ Quiet(c).response_buffer = c.response_buffer
           /\ Quiet(c).got_puback = c.got_puback
           /\ Quiet(c).response_timer = c.response_timer
           /\ Quiet(c).response_retries = c.response_retries
<1>1. {} \in SUBSET Message
  OBVIOUS
<1>2. Quiet(c) \in Client
  BY <1>1, ZenonT(60) DEF Quiet, Client
<1>. QED  BY <1>2, ZenonT(60) DEF Quiet, Client

\* What wait_for_response leaves alone, and what each of its outcomes does to
\* the timer and to the retry budget.
LEMMA WaitFacts ==
    ASSUME NEW c \in Client
    PROVE  LET d == wait_for_response(c)
           IN  /\ d \in Client
               /\ d.response_to_wait_for = c.response_to_wait_for
               /\ d.message_buffer = c.message_buffer
               /\ d.message_id = c.message_id
               /\ d.topic_count = c.topic_count
               /\ d.topic_table = c.topic_table
               /\ d.response_buffer = c.response_buffer
               /\ d.got_puback = c.got_puback
               /\ d.waiting_for_response =>
                     /\ c.waiting_for_response
                     /\ \/ /\ d.response_timer = c.response_timer
                           /\ d.response_retries = c.response_retries
                        \/ /\ c.response_timer > TRetry
                           /\ d.response_timer = 0
                           /\ c.response_retries # 0
                           /\ d.response_retries = c.response_retries - 1
<1> DEFINE d == wait_for_response(c)
           b == [c EXCEPT !.response_timer = 0]
           g == [b EXCEPT !.waiting_for_response = FALSE, !.got_disconnect = TRUE]
           s == send_message(b)
           r(x) == (x.response_retries + 255) % 256
<1>1. CASE ~(c.waiting_for_response /\ c.response_timer > TRetry)
  <2>1. d = c
    BY <1>1, Zenon DEF wait_for_response
  <2>. QED  BY <2>1, Zenon
<1>2. CASE c.waiting_for_response /\ c.response_timer > TRetry
  <2>1. 0 \in 0..TRetry + 1
    BY MqttSnAssumption
  <2>2. b \in Client
    BY <2>1, ZenonT(60) DEF Client
  <2>3. /\ b.waiting_for_response = c.waiting_for_response
        /\ b.response_to_wait_for = c.response_to_wait_for
        /\ b.message_buffer = c.message_buffer
        /\ b.message_id = c.message_id
        /\ b.topic_count = c.topic_count
        /\ b.topic_table = c.topic_table
        /\ b.response_buffer = c.response_buffer
        /\ b.got_puback = c.got_puback
        /\ b.response_timer = 0
        /\ b.response_retries = c.response_retries
    BY ZenonT(60) DEF Client
  <2>4. CASE c.response_retries = 0
    <3>1. d = [g EXCEPT !.response_retries = r(g)]
      BY <1>2, <2>4, Zenon DEF wait_for_response
    <3> HIDE DEF b
    <3>2. g \in Client
      BY <2>2, ZenonT(60) DEF Client
    <3>3. /\ ~g.waiting_for_response
          /\ g.response_to_wait_for = b.response_to_wait_for
          /\ g.message_buffer = b.message_buffer
          /\ g.message_id = b.message_id
          /\ g.topic_count = b.topic_count
          /\ g.topic_table = b.topic_table
          /\ g.response_buffer = b.response_buffer
          /\ g.got_puback = b.got_puback
      BY <2>2, ZenonT(60) DEF Client
    <3> HIDE DEF g
    <3>4. r(g) \in 0..255
      <4>1. g.response_retries \in 0..255
        BY <3>2, Zenon DEF Client
      <4>. QED  BY <4>1
    <3> HIDE DEF r
    <3>5. d \in Client
      BY <3>1, <3>2, <3>4, ZenonT(180) DEF Client
    <3>6. /\ ~d.waiting_for_response
          /\ d.response_to_wait_for = g.response_to_wait_for
          /\ d.message_buffer = g.message_buffer
          /\ d.message_id = g.message_id
          /\ d.topic_count = g.topic_count
          /\ d.topic_table = g.topic_table
          /\ d.response_buffer = g.response_buffer
          /\ d.got_puback = g.got_puback
      BY <3>1, <3>2, <3>3, ZenonT(60) DEF Client
    <3>. QED  BY <2>3, <3>3, <3>5, <3>6, Zenon
  <2>5. CASE c.response_retries # 0
    <3>1. d = [s EXCEPT !.response_retries = r(s)]
      BY <1>2, <2>5, Zenon DEF wait_for_response
    <3> HIDE DEF b
    <3>2. b.message_buffer \in Message
      BY <2>2, Zenon DEF Client
    <3>3. /\ s \in Client
          /\ s.waiting_for_response = b.waiting_for_response
          /\ s.response_to_wait_for = b.response_to_wait_for
          /\ s.message_buffer = b.message_buffer
          /\ s.message_id = b.message_id
          /\ s.topic_count = b.topic_count
          /\ s.topic_table = b.topic_table
          /\ s.response_buffer = b.response_buffer
          /\ s.got_puback = b.got_puback
          /\ s.response_timer = 0
          /\ s.response_retries = b.response_retries
      <4>1. b.waiting_for_response
        BY <1>2, <2>3, Zenon
      <4>2. s = Send(b, b.message_buffer)
        BY Zenon DEF send_message
      <4> HIDE DEF s
      <4>3. /\ s.response_timer = b.response_timer
            /\ s.response_retries = b.response_retries
        BY <4>1, <4>2, <2>2, <3>2, SendFacts, Zenon
      <4>4. s \in Client
        BY <4>2, <2>2, <3>2, SendFacts, Zenon
      <4>. QED  BY <4>2, <4>3, <4>4, <2>2, <2>3, <3>2, SendFacts, Zenon
    <3> HIDE DEF s
    <3>4. r(s) \in 0..255 /\ r(s) = c.response_retries - 1
      <4>1. s.response_retries \in 1..255
        BY <2>3, <2>5, <3>3, SMT DEF Client
      <4>. QED  BY <4>1, <2>3, <3>3
    <3> HIDE DEF r
    <3>5. d \in Client
      <4>1. r(s) \in 0..255 /\ s \in Client
        BY <3>3, <3>4, Zenon
      <4>. QED  BY ONLY <3>1, <4>1, ZenonT(120) DEF Client
    <3>6. /\ d.waiting_for_response = s.waiting_for_response
          /\ d.response_to_wait_for = s.response_to_wait_for
          /\ d.message_buffer = s.message_buffer
          /\ d.message_id = s.message_id
          /\ d.topic_count = s.topic_count
          /\ d.topic_table = s.topic_table
          /\ d.response_buffer = s.response_buffer
          /\ d.got_puback = s.got_puback
          /\ d.response_timer = s.response_timer
          /\ d.response_retries = r(s)
      BY <3>1, <3>3, ZenonT(180) DEF Client
    <3>. QED  BY <1>2, <2>3, <2>5, <3>3, <3>4, <3>5, <3>6, Zenon
  <2>. QED  BY <2>4, <2>5
<1>. QED  BY <1>1, <1>2

\* ResetDisconnect() and wait_for_response(): the client stops waiting only if
\* the timer has run out; a retransmission uses up one retry and restarts it.
LEMMA CheckedFacts ==
    ASSUME NEW c \in Client
    PROVE  LET d == Checked(c)
           IN  /\ d \in Client
               /\ d.response_to_wait_for = c.response_to_wait_for
               /\ d.message_buffer = c.message_buffer
               /\ d.message_id = c.message_id
               /\ d.topic_count = c.topic_count
               /\ d.topic_table = c.topic_table
               /\ d.response_buffer = c.response_buffer
               /\ d.got_puback = c.got_puback
               /\ d.waiting_for_response =>
                     /\ c.waiting_for_response
                     /\ \/ /\ d.response_timer = c.response_timer
                           /\ d.response_retries = c.response_retries
                        \/ /\ c.response_timer > TRetry
                           /\ d.response_timer = 0
                           /\ c.response_retries # 0
                           /\ d.response_retries = c.response_retries - 1
<1> DEFINE q == Quiet(c)
           e == [q EXCEPT !.got_disconnect = FALSE]
<1>1. q \in Client
  BY QuietFacts, Zenon
<1>2. /\ q.waiting_for_response = c.waiting_for_response
      /\ q.response_to_wait_for = c.response_to_wait_for
      /\ q.message_buffer = c.message_buffer
      /\ q.message_id = c.message_id
      /\ q.topic_count = c.topic_count
      /\ q.topic_table = c.topic_table
      /\ q.response_buffer = c.response_buffer
      /\ q.got_puback = c.got_puback
      /\ q.response_timer = c.response_timer
      /\ q.response_retries = c.response_retries
  BY QuietFacts, Zenon
<1>3. Checked(c) = wait_for_response(e)
  BY Zenon DEF Checked
<1> HIDE DEF q
<1>4. e \in Client
  BY <1>1, ZenonT(60) DEF Client
<1>5. /\ e.waiting_for_response = q.waiting_for_response
      /\ e.response_to_wait_for = q.response_to_wait_for
      /\ e.message_buffer = q.message_buffer
      /\ e.message_id = q.message_id
      /\ e.topic_count = q.topic_count
      /\ e.topic_table = q.topic_table
      /\ e.response_buffer = q.response_buffer
      /\ e.got_puback = q.got_puback
      /\ e.response_timer = q.response_timer
      /\ e.response_retries = q.response_retries
  BY <1>1, ZenonT(60) DEF Client
<1> DEFINE w == Checked(c)
<1> HIDE DEF e, w
<1>6. w = wait_for_response(e)
  BY <1>3, Zenon DEF w
<1>7. /\ w \in Client
      /\ w.response_to_wait_for = e.response_to_wait_for
      /\ w.message_buffer = e.message_buffer
      /\ w.message_id = e.message_id
      /\ w.topic_count = e.topic_count
      /\ w.topic_table = e.topic_table
      /\ w.response_buffer = e.response_buffer
      /\ w.got_puback = e.got_puback
  BY <1>4, <1>6, WaitFacts, Zenon
<1>8. w.waiting_for_response =>
        /\ e.waiting_for_response
        /\ \/ /\ w.response_timer = e.response_timer
              /\ w.response_retries = e.response_retries
           \/ /\ e.response_timer > TRetry
              /\ w.response_timer = 0
              /\ e.response_retries # 0
              /\ w.response_retries = e.response_retries - 1
  BY <1>4, <1>6, WaitFacts, Zenon
<1>9. /\ w.response_to_wait_for = c.response_to_wait_for
      /\ w.message_buffer = c.message_buffer
      /\ w.message_id = c.message_id
      /\ w.topic_count = c.topic_count
      /\ w.topic_table = c.topic_table
      /\ w.response_buffer = c.response_buffer
      /\ w.got_puback = c.got_puback
  BY <1>2, <1>5, <1>7, Zenon
<1>10. /\ e.waiting_for_response = c.waiting_for_response
       /\ e.response_timer = c.response_timer
       /\ e.response_retries = c.response_retries
  BY <1>2, <1>5, Zenon
<1>11. w.waiting_for_response =>
        /\ c.waiting_for_response
        /\ \/ /\ w.response_timer = c.response_timer
              /\ w.response_retries = c.response_retries
           \/ /\ c.response_timer > TRetry
              /\ w.response_timer = 0
              /\ c.response_retries # 0
              /\ w.response_retries = c.response_retries - 1
  BY <1>8, <1>10, Zenon
<1>. QED  BY <1>7, <1>9, <1>11, Zenon DEF w

\* The fields that none of the sending operations touches.
Keeps(c, d) ==
    /\ d.topic_count = c.topic_count
    /\ d.response_buffer = c.response_buffer
    /\ d.got_puback = c.got_puback

\* register_topic leaves the client waiting for the REGACK of the REGISTER in
\* message_buffer, under the current message id and with a fresh budget.
LEMMA RegisterFacts ==
    ASSUME NEW c \in Client, CanRegister(c)
    PROVE  LET d == register_topic(c)
           IN  /\ d \in Client
               /\ d.waiting_for_response
               /\ d.response_to_wait_for = "REGACK"
               /\ d.message_buffer.type = "REGISTER"
               /\ d.message_buffer.message_id = d.message_id
               /\ d.response_timer = 0
               /\ d.response_retries = NRetry
               /\ Keeps(c, d)
<1> DEFINE n == NextId(c)
           t == [c.topic_table EXCEPT ![c.topic_count] = 0]
           b == [c EXCEPT !.message_id = n, !.topic_table = t]
           m == Msg("REGISTER", 0, n, 0)
           d == register_topic(c)
<1>1. n \in Id
  <2>1. c.message_id \in Id
    BY Zenon DEF Client
  <2>. QED  BY <2>1, IdTypes DEF NextId
<1>2. t \in [0..MaxTopics - 1 -> Id]
  <2>1. c.topic_table \in [0..MaxTopics - 1 -> Id]
    BY Zenon DEF Client
  <2>. QED  BY <2>1, IdTypes
<1>3. d = Request(b, m, "REGACK")
  BY Zenon DEF register_topic
<1> HIDE DEF n, t, d
<1>4. b \in Client
  BY <1>1, <1>2, ZenonT(60) DEF Client
<1>5. /\ b.waiting_for_response = c.waiting_for_response
      /\ b.message_id = n
      /\ b.topic_count = c.topic_count
      /\ b.response_buffer = c.response_buffer
      /\ b.got_puback = c.got_puback
  BY ZenonT(60) DEF Client
<1> HIDE DEF b
<1>6. m \in Message /\ m.type = "REGISTER" /\ m.message_id = n
  <2>1. "REGISTER" \in MsgType /\ 0 \in Id /\ 0 \in 0..1
    BY IdTypes DEF MsgType, Unsolicited
  <2>. QED  BY <1>1, <2>1, Zenon DEF Msg, Message
<1> HIDE DEF m
<1>7. "REGACK" \in MsgType
  BY DEF MsgType, Replies
<1>8. ~b.waiting_for_response
  BY <1>5, Zenon DEF CanRegister
<1>9. /\ d \in Client
      /\ d.waiting_for_response
      /\ d.response_to_wait_for = "REGACK"
      /\ d.message_buffer = m
      /\ d.message_id = b.message_id
      /\ d.topic_count = b.topic_count
      /\ d.response_buffer = b.response_buffer
      /\ d.got_puback = b.got_puback
      /\ d.response_timer = 0
      /\ d.response_retries = NRetry
  <2> DEFINE e == Request(b, m, "REGACK")
  <2>1. b \in Client /\ m \in Message
    BY <1>4, <1>6, Zenon
  <2>2. /\ e \in Client
        /\ e.waiting_for_response
        /\ e.response_to_wait_for = "REGACK"
        /\ e.message_buffer = m
    BY <2>1, <1>7, RequestFacts, SMT
  <2>3. /\ e.message_id = b.message_id
        /\ e.topic_count = b.topic_count
        /\ e.response_buffer = b.response_buffer
        /\ e.got_puback = b.got_puback
    BY <2>1, <1>7, RequestFacts, SMT
  <2>4. e.response_timer = 0 /\ e.response_retries = NRetry
    BY <2>1, <1>7, <1>8, RequestFacts, SMT
  <2>5. e = d
    BY <1>3, Zenon
  <2> HIDE DEF e
  <2>. QED  BY <2>2, <2>3, <2>4, <2>5, Zenon
<1>. QED  BY <1>5, <1>6, <1>9, Zenon DEF Keeps, d

\* The same for publish, called when nothing is being waited for.
LEMMA PublishFacts ==
    ASSUME NEW c \in Client, NEW t \in Id, ~c.waiting_for_response
    PROVE  LET d == publish(c, t)
           IN  /\ d \in Client
               /\ d.waiting_for_response
               /\ d.response_to_wait_for = "PUBACK"
               /\ d.message_buffer.type = "PUBLISH"
               /\ d.message_buffer.message_id = d.message_id
               /\ d.response_timer = 0
               /\ d.response_retries = NRetry
               /\ Keeps(c, d)
<1> DEFINE n == NextId(c)
           b == [c EXCEPT !.message_id = n]
           m == Msg("PUBLISH", t, n, 1)
           d == publish(c, t)
<1>1. n \in Id
  <2>1. c.message_id \in Id
    BY Zenon DEF Client
  <2>. QED  BY <2>1, IdTypes DEF NextId
<1>3. d = Request(b, m, "PUBACK")
  BY Zenon DEF publish
<1> HIDE DEF n, d
<1>4. b \in Client
  BY <1>1, ZenonT(60) DEF Client
<1>5. /\ b.waiting_for_response = c.waiting_for_response
      /\ b.message_id = n
      /\ b.topic_count = c.topic_count
      /\ b.response_buffer = c.response_buffer
      /\ b.got_puback = c.got_puback
  BY ZenonT(60) DEF Client
<1> HIDE DEF b
<1>6. m \in Message /\ m.type = "PUBLISH" /\ m.message_id = n
  <2>1. "PUBLISH" \in MsgType /\ 1 \in 0..1
    BY DEF MsgType, Unsolicited
  <2>. QED  BY <1>1, <2>1, Zenon DEF Msg, Message
<1> HIDE DEF m
<1>7. "PUBACK" \in MsgType
  BY DEF MsgType, Replies
<1>8. ~b.waiting_for_response
  BY <1>5, Zenon
<1>9. /\ d \in Client
      /\ d.waiting_for_response
      /\ d.response_to_wait_for = "PUBACK"
      /\ d.message_buffer = m
      /\ d.message_id = b.message_id
      /\ d.topic_count = b.topic_count
      /\ d.response_buffer = b.response_buffer
      /\ d.got_puback = b.got_puback
      /\ d.response_timer = 0
      /\ d.response_retries = NRetry
  <2> DEFINE e == Request(b, m, "PUBACK")
  <2>1. b \in Client /\ m \in Message
    BY <1>4, <1>6, Zenon
  <2>2. /\ e \in Client
        /\ e.waiting_for_response
        /\ e.response_to_wait_for = "PUBACK"
        /\ e.message_buffer = m
    BY <2>1, <1>7, RequestFacts, SMT
  <2>3. /\ e.message_id = b.message_id
        /\ e.topic_count = b.topic_count
        /\ e.response_buffer = b.response_buffer
        /\ e.got_puback = b.got_puback
    BY <2>1, <1>7, RequestFacts, SMT
  <2>4. e.response_timer = 0 /\ e.response_retries = NRetry
    BY <2>1, <1>7, <1>8, RequestFacts, SMT
  <2>5. e = d
    BY <1>3, Zenon
  <2> HIDE DEF e
  <2>. QED  BY <2>2, <2>3, <2>4, <2>5, Zenon
<1>. QED  BY <1>5, <1>6, <1>9, Zenon DEF Keeps, d

-----------------------------------------------------------------------------
(* Receiving *)

\* A REGACK adds at most one topic, and only if it accepts the last message id.
LEMMA RegackFacts ==
    ASSUME NEW c \in Client, NEW m \in Message
    PROVE  LET h == regack_handler(c, m)
           IN  /\ h \in Client
               /\ h.response_buffer = c.response_buffer
               /\ h.got_puback = c.got_puback
               /\ \/ h.topic_count = c.topic_count
                  \/ /\ m.code = 0
                     /\ m.message_id = c.message_id
                     /\ h.topic_table = [c.topic_table EXCEPT ![c.topic_count] = m.topic_id]
<1> DEFINE h == regack_handler(c, m)
           t == [c.topic_table EXCEPT ![c.topic_count] = m.topic_id]
           n == c.topic_count + 1
           cond == /\ m.code = 0
                   /\ c.topic_count < MaxTopics
                   /\ m.message_id = c.message_id
                   /\ ~Registered(c, m.topic_id)
<1>1. CASE cond
  <2>1. c.topic_count \in 0..MaxTopics /\ c.topic_table \in [0..MaxTopics - 1 -> Id]
    BY Zenon DEF Client
  <2>2. m.topic_id \in Id
    BY Zenon DEF Message
  <2>3. n \in 0..MaxTopics
    BY <1>1, <2>1, MqttSnAssumption
  <2>4. t \in [0..MaxTopics - 1 -> Id]
    BY <2>1, <2>2
  <2>5. h = [c EXCEPT !.topic_table = t, !.topic_count = n]
    BY <1>1, Zenon DEF regack_handler
  <2> HIDE DEF h, t, n
  <2>6. h \in Client
    BY <2>3, <2>4, <2>5, ZenonT(120) DEF Client
  <2>7. /\ h.response_buffer = c.response_buffer
        /\ h.got_puback = c.got_puback
        /\ h.topic_table = t
    BY <2>5, ZenonT(60) DEF Client
  <2>. QED  BY <1>1, <2>6, <2>7, Zenon DEF t, h
<1>2. CASE ~cond
  <2>1. h = c
    BY <1>2, Zenon DEF regack_handler
  <2>. QED  BY <2>1, Zenon
<1>. QED  BY <1>1, <1>2

\* What an incoming message may do to the fields the properties speak of: no
\* handler but puback_handler sets the PUBACK flag, none but regack_handler
\* lengthens the table, and none overwrites response_buffer.
LEMMA HandlerFacts ==
    ASSUME NEW c \in Client, NEW m \in Message, NEW index \in Index
    PROVE  LET h == Handler(c, m, index)
           IN  /\ h \in Client
               /\ h.response_buffer = c.response_buffer
               /\ m.type # "PUBACK" => h.got_puback = c.got_puback
               /\ m.type # "REGACK" => h.topic_count = c.topic_count
               /\ m.type = "REGACK" => h = regack_handler(c, m)
<1> DEFINE h == Handler(c, m, index)
<1>0. /\ m.type \in MsgType /\ m.topic_id \in Id
      /\ m.message_id \in Id /\ m.code \in 0..1
  BY Zenon DEF Message
<1>1. CASE m.type = "CONNACK"
  <2>1. h = [c EXCEPT !.connack_possible = TRUE]
    BY <1>1, Zenon DEF Handler
  <2> HIDE DEF h
  <2>2. h \in Client
    BY <2>1, ZenonT(60) DEF Client
  <2>3. Keeps(c, h)
    BY <2>1, ZenonT(60) DEF Client, Keeps
  <2>. QED  BY <1>1, <2>2, <2>3 DEF Keeps, h
<1>2. CASE m.type = "REGACK"
  <2>1. h = regack_handler(c, m)
    BY <1>2, Zenon DEF Handler
  <2>2. /\ regack_handler(c, m) \in Client
        /\ regack_handler(c, m).response_buffer = c.response_buffer
        /\ regack_handler(c, m).got_puback = c.got_puback
    BY RegackFacts, Zenon
  <2>. QED  BY <1>2, <2>1, <2>2, Zenon
<1>3. CASE m.type = "PUBACK"
  <2>1. h = [c EXCEPT !.got_puback = TRUE]
    BY <1>3, Zenon DEF Handler
  <2> HIDE DEF h
  <2>2. h \in Client
    BY <2>1, ZenonT(60) DEF Client
  <2>3. h.response_buffer = c.response_buffer /\ h.topic_count = c.topic_count
    BY <2>1, ZenonT(60) DEF Client
  <2>. QED  BY <1>3, <2>2, <2>3 DEF h
<1>4. CASE m.type = "REGISTER"
  <2> DEFINE t == [i \in 0..MaxTopics - 1 |->
                     IF i = index THEN m.topic_id ELSE c.topic_table[i]]
             b == [c EXCEPT !.topic_table = t]
             x == Msg("REGACK", bswap(m.topic_id), bswap(m.message_id), 0)
  <2>1. h = Send(b, x)
    BY <1>4, Zenon DEF Handler, register_handler, Acknowledge
  <2>2. t \in [0..MaxTopics - 1 -> Id]
    <3>1. c.topic_table \in [0..MaxTopics - 1 -> Id]
      BY Zenon DEF Client
    <3>. QED  BY <1>0, <3>1
  <2>3. x \in Message
    <3>1. "REGACK" \in MsgType /\ 0 \in 0..1
      BY DEF MsgType, Replies
    <3>2. bswap(m.topic_id) \in Id /\ bswap(m.message_id) \in Id
      BY <1>0, IdTypes, Zenon
    <3>. QED  BY <3>1, <3>2, Zenon DEF Msg, Message
  <2> HIDE DEF t, x, h
  <2>4. b \in Client
    BY <2>2, ZenonT(60) DEF Client
  <2>5. Keeps(c, b)
    BY <2>2, ZenonT(60) DEF Client, Keeps
  <2> HIDE DEF b
  <2>6. h \in Client /\ Keeps(b, h)
    BY <2>1, <2>3, <2>4, SendFacts, SMT DEF Keeps
  <2>. QED  BY <1>4, <2>5, <2>6 DEF Keeps, h
<1>5. CASE m.type = "PUBLISH"
  <2> DEFINE code == IF Registered(c, m.topic_id) THEN 0 ELSE 1
             x == Msg("PUBACK", bswap(m.topic_id), bswap(m.message_id), code)
  <2>1. x \in Message
    <3>1. "PUBACK" \in MsgType /\ code \in 0..1
      BY DEF MsgType, Replies
    <3>2. bswap(m.topic_id) \in Id /\ bswap(m.message_id) \in Id
      BY <1>0, IdTypes, Zenon
    <3>. QED  BY <3>1, <3>2, Zenon DEF Msg, Message
  <2>2. h = Send(c, x) \/ h = c
    BY <1>5, Zenon DEF Handler, publish_handler, Acknowledge
  <2> HIDE DEF x, h
  <2>3. h \in Client /\ Keeps(c, h)
    BY <2>1, <2>2, SendFacts, SMT DEF Keeps
  <2>. QED  BY <1>5, <2>3 DEF Keeps, h
<1>6. CASE m.type \in {"WILLMSGREQ", "PINGREQ"}
  <2> DEFINE x == Msg("WILLMSG", 0, 0, 0)
             y == Msg("PINGRESP", 0, 0, 0)
  <2>1. x \in Message /\ y \in Message
    <3>1. "WILLMSG" \in MsgType /\ "PINGRESP" \in MsgType /\ 0 \in 0..1 /\ 0 \in Id
      BY IdTypes DEF MsgType, Replies, Others
    <3>. QED  BY <3>1, MsgFacts, SMT
  <2>2. h = Send(c, x) \/ h = Send(c, y)
    BY <1>6, Zenon DEF Handler
  <2> HIDE DEF x, y, h
  <2>3. h \in Client /\ Keeps(c, h)
    BY <2>1, <2>2, SendFacts, SMT DEF Keeps
  <2>. QED  BY <1>6, <2>3 DEF Keeps, h
<1>7. CASE m.type = "DISCONNECT"
  <2>1. h = [c EXCEPT !.got_disconnect = TRUE]
    BY <1>7, Zenon DEF Handler
  <2> HIDE DEF h
  <2>2. h \in Client
    BY <2>1, ZenonT(60) DEF Client
  <2>3. Keeps(c, h)
    BY <2>1, ZenonT(60) DEF Client, Keeps
  <2>. QED  BY <1>7, <2>2, <2>3 DEF Keeps, h
<1>8. CASE m.type \notin {"CONNACK", "REGACK", "PUBACK", "REGISTER", "PUBLISH",
                          "WILLMSGREQ", "PINGREQ", "DISCONNECT"}
  <2>1. h = c
    BY <1>8, Zenon DEF Handler
  <2>. QED  BY <1>8, <2>1, Zenon
<1>. QED  BY <1>1, <1>2, <1>3, <1>4, <1>5, <1>6, <1>7, <1>8, Zenon

\* dispatch either ignores the message or ends the wait.  A PUBACK is counted
\* only while one is awaited, and the first topic is entered only by a REGACK
\* that accepts the REGISTER being waited for.
LEMMA DispatchFacts ==
    ASSUME NEW c \in Client, NEW index \in Index
    PROVE  LET d == dispatch(c, index)
               m == c.response_buffer
           IN  /\ d \in Client
               /\ d.response_buffer = m
               /\ d = c \/ ~d.waiting_for_response
               /\ d.got_puback /\ ~c.got_puback =>
                     /\ c.waiting_for_response
                     /\ c.response_to_wait_for = "PUBACK"
                     /\ m.type = "PUBACK"
               /\ d.topic_count # c.topic_count =>
                     /\ c.waiting_for_response
                     /\ c.response_to_wait_for = "REGACK"
                     /\ m.type = "REGACK"
                     /\ m.code = 0
                     /\ m.message_id = c.message_id
                     /\ c.topic_count = 0 => d.topic_table[0] = m.topic_id
<1> DEFINE d == dispatch(c, index)
           m == c.response_buffer
           h == Handler(c, m, index)
<1>1. CASE ~Accepts(c, m)
  <2>1. d = c
    BY <1>1, Zenon DEF dispatch
  <2>. QED  BY <2>1, Zenon
<1>2. CASE Accepts(c, m)
  <2>1. d = [h EXCEPT !.waiting_for_response = FALSE]
    BY <1>2, Zenon DEF dispatch
  <2>2. m \in Message
    BY Zenon DEF Client
  <2>3. /\ h \in Client
        /\ h.response_buffer = m
        /\ m.type # "PUBACK" => h.got_puback = c.got_puback
        /\ m.type # "REGACK" => h.topic_count = c.topic_count
        /\ m.type = "REGACK" => h = regack_handler(c, m)
    BY <2>2, HandlerFacts, Zenon
  <2>4. \/ regack_handler(c, m).topic_count = c.topic_count
        \/ /\ m.code = 0
           /\ m.message_id = c.message_id
           /\ regack_handler(c, m).topic_table
                 = [c.topic_table EXCEPT ![c.topic_count] = m.topic_id]
    BY <2>2, RegackFacts, Zenon
  <2>5. /\ m.type = "PUBACK" => c.waiting_for_response /\ c.response_to_wait_for = "PUBACK"
        /\ m.type = "REGACK" => c.waiting_for_response /\ c.response_to_wait_for = "REGACK"
    BY <1>2, Zenon DEF Accepts, Unsolicited
  <2> HIDE DEF d, h, m
  <2>6. d \in Client
    BY <2>1, <2>3, ZenonT(180) DEF Client
  <2>7. /\ ~d.waiting_for_response
        /\ d.response_buffer = h.response_buffer
        /\ d.got_puback = h.got_puback
        /\ d.topic_count = h.topic_count
        /\ d.topic_table = h.topic_table
    BY <2>1, <2>3, ZenonT(60) DEF Client
  <2>8. d.topic_count # c.topic_count =>
          /\ m.type = "REGACK"
          /\ m.code = 0
          /\ m.message_id = c.message_id
          /\ d.topic_table = [c.topic_table EXCEPT ![c.topic_count] = m.topic_id]
    BY <2>3, <2>4, <2>7, Zenon
  <2>9. c.topic_count = 0 =>
          [c.topic_table EXCEPT ![c.topic_count] = m.topic_id][0] = m.topic_id
    <3>1. c.topic_table \in [0..MaxTopics - 1 -> Id]
      BY Zenon DEF Client
    <3>2. 0 \in 0..MaxTopics - 1
      BY MqttSnAssumption
    <3>. QED  BY <3>1, <3>2
  <2>10. d.got_puback /\ ~c.got_puback =>
          /\ c.waiting_for_response
          /\ c.response_to_wait_for = "PUBACK"
          /\ m.type = "PUBACK"
    BY <2>3, <2>5, <2>7, Zenon
  <2>11. d.topic_count # c.topic_count =>
          /\ c.waiting_for_response
          /\ c.response_to_wait_for = "REGACK"
          /\ m.type = "REGACK"
          /\ m.code = 0
          /\ m.message_id = c.message_id
          /\ c.topic_count = 0 => d.topic_table[0] = m.topic_id
    BY <2>5, <2>8, <2>9, Zenon
  <2>. QED  BY <2>3, <2>6, <2>7, <2>10, <2>11, Zenon DEF d, m
<1>. QED  BY <1>1, <1>2

\* Everything the outcome of a dispatch depends on, but the message.
SameExchange(c, d) ==
    /\ d.waiting_for_response = c.waiting_for_response
    /\ d.response_to_wait_for = c.response_to_wait_for
    /\ d.message_buffer = c.message_buffer
    /\ d.message_id = c.message_id
    /\ d.topic_count = c.topic_count
    /\ d.got_puback = c.got_puback
    /\ d.response_timer = c.response_timer
    /\ d.response_retries = c.response_retries

\* What hearing message m may have done to client c, now d.
Heard(c, m, d) ==
    /\ d \in Client
    /\ d.response_buffer = m
    /\ \/ ~d.waiting_for_response
       \/ SameExchange(c, d)
    /\ d.got_puback /\ ~c.got_puback =>
          /\ ~d.waiting_for_response
          /\ c.waiting_for_response
          /\ c.response_to_wait_for = "PUBACK"
          /\ m.type = "PUBACK"
    /\ d.topic_count # c.topic_count =>
          /\ ~d.waiting_for_response
          /\ c.waiting_for_response
          /\ c.response_to_wait_for = "REGACK"
          /\ m.type = "REGACK"
          /\ m.code = 0
          /\ m.message_id = c.message_id
          /\ c.topic_count = 0 => d.topic_table[0] = m.topic_id

\* Hearing a message, in terms of the client before TryReceive cleared or
\* filled its buffers.
LEMMA HearFacts ==
    ASSUME NEW c \in Client, NEW b \in Client, SameExchange(c, b), NEW index \in Index
    PROVE  Heard(c, b.response_buffer, dispatch(b, index))
<1> DEFINE d == dispatch(b, index)
<1>1. /\ d \in Client
      /\ d.response_buffer = b.response_buffer
      /\ d = b \/ ~d.waiting_for_response
  BY DispatchFacts, SMT
<1>2. d.got_puback /\ ~b.got_puback =>
        /\ b.waiting_for_response
        /\ b.response_to_wait_for = "PUBACK"
        /\ b.response_buffer.type = "PUBACK"
  BY DispatchFacts, SMT
<1>3. d.topic_count # b.topic_count =>
        /\ b.waiting_for_response
        /\ b.response_to_wait_for = "REGACK"
        /\ b.response_buffer.type = "REGACK"
        /\ b.response_buffer.code = 0
        /\ b.response_buffer.message_id = b.message_id
        /\ b.topic_count = 0 => d.topic_table[0] = b.response_buffer.topic_id
  BY DispatchFacts, SMT
<1> HIDE DEF d
<1>. QED  BY <1>1, <1>2, <1>3 DEF Heard, SameExchange, d

\* The two ways a frame is dispatched: with its own message, or (a HELLO) with
\* the message left over from the previous frame.
LEMMA ParseFacts ==
    ASSUME NEW c \in Client, NEW m \in Message, NEW index \in Index
    PROVE  /\ Heard(c, m, parse(Quiet(c), m, index))
           /\ Heard(c, c.response_buffer, parse_stale(Quiet(c), index))
<1> DEFINE q == Quiet(c)
           b == [q EXCEPT !.response_buffer = m]
<1>1. q \in Client /\ SameExchange(c, q) /\ q.response_buffer = c.response_buffer
  BY QuietFacts, Zenon DEF SameExchange
<1>2. parse_stale(q, index) = dispatch(q, index)
  BY Zenon DEF parse_stale
<1>3. parse(q, m, index) = dispatch(b, index)
  BY Zenon DEF parse
<1> HIDE DEF q
<1>4. b \in Client
  BY <1>1, ZenonT(60) DEF Client
<1>5. b.response_buffer = m /\ SameExchange(q, b)
  BY <1>1, ZenonT(60) DEF Client, SameExchange
<1> HIDE DEF b
<1>6. SameExchange(c, b)
  BY <1>1, <1>5, Zenon DEF SameExchange
<1>7. Heard(c, m, parse(q, m, index))
  BY <1>3, <1>4, <1>5, <1>6, HearFacts, SMT
<1>8. Heard(c, c.response_buffer, parse_stale(q, index))
  BY <1>1, <1>2, HearFacts, SMT
<1>. QED  BY <1>7, <1>8, Zenon DEF q

-----------------------------------------------------------------------------
(* The object as a whole *)

\* The constructors produce a well-formed client.
LEMMA MQTTSNType == MQTTSN \in Client
<1>1. Zeroed \in Message
  <2>1. "ADVERTISE" \in MsgType /\ 0 \in Id /\ 0 \in 0..1
    BY IdTypes DEF MsgType, Replies
  <2>. QED  BY <2>1, Zenon DEF Zeroed, Msg, Message
<1>2. /\ "ADVERTISE" \in MsgType
      /\ 0 \in Id
      /\ 0 \in 0..MaxTopics
      /\ [i \in 0..MaxTopics - 1 |-> 0] \in [0..MaxTopics - 1 -> Id]
      /\ 0 \in 0..TRetry + 1
      /\ 0 \in 0..255
      /\ {} \in SUBSET Message
  BY IdTypes, MqttSnAssumption DEF MsgType, Replies
<1>. QED  BY <1>1, <1>2, ZenonT(60) DEF MQTTSN, Client

\* A topic id that the client returns is a number.
LEMMA FindFacts ==
    ASSUME NEW c \in Client
    PROVE  find_topic_id(c) \in Id
<1>1. c.topic_table \in [0..MaxTopics - 1 -> Id]
  BY Zenon DEF Client
<1>. QED  BY <1>1, IdTypes, MqttSnAssumption DEF find_topic_id

\* The history variable stays a set of ids.
LEMMA GrantsType ==
    ASSUME NEW c, NEW m \in Message
    PROVE  Grants(c, m) \subseteq Id
<1>1. m.topic_id \in Id
  BY Zenon DEF Message
<1>. QED  BY <1>1 DEF Grants

-----------------------------------------------------------------------------
(* What is put on the air *)

\* Between c and d nothing but messages of S was transmitted, or written into
\* message_buffer, from which it could be transmitted later.
Airs(c, d, S) ==
    /\ d.sent \subseteq c.sent \cup S
    /\ d.message_buffer \in S \cup {c.message_buffer}

\* What the handlers send on their own.
Courtesies ==
    [type : {"WILLMSG", "PINGRESP"}, topic_id : {0}, message_id : {0}, code : {0}]
    \cup [type : {"REGACK", "PUBACK"}, topic_id : Id, message_id : Id, code : 0..1]

\* Sending transmits exactly the message, and so does a request.
LEMMA SendAirs ==
    ASSUME NEW c \in Client, NEW m, NEW reply
    PROVE  /\ Airs(c, Send(c, m), {m})
           /\ Airs(c, Request(c, m, reply), {m})
<1> DEFINE s == Send(c, m)
           r == Request(c, m, reply)
           v == c.sent \cup {m}
           t == IF c.waiting_for_response THEN c.response_timer ELSE 0
           k == IF c.waiting_for_response THEN c.response_retries ELSE NRetry
<1>1. s = [c EXCEPT !.message_buffer = m, !.sent = v,
                    !.response_timer = t, !.response_retries = k]
  BY Zenon DEF Send
<1>2. r = [s EXCEPT !.waiting_for_response = TRUE, !.response_to_wait_for = reply]
  BY Zenon DEF Request
<1> HIDE DEF s, r, v, t, k
<1>3. s.sent = v /\ s.message_buffer = m
  BY <1>1, ZenonT(60) DEF Client
<1>4. r.sent = v /\ r.message_buffer = m
  <2>1. r = [c EXCEPT !.message_buffer = m, !.sent = v,
                      !.response_timer = t, !.response_retries = k,
                      !.waiting_for_response = TRUE, !.response_to_wait_for = reply]
    BY <1>1, <1>2, ZenonT(60) DEF Client
  <2>. QED  BY <2>1, ZenonT(60) DEF Client
<1>. QED  BY <1>3, <1>4 DEF Airs, v, s, r

\* The periodic check repeats message_buffer or is silent.
LEMMA CheckedAirs ==
    ASSUME NEW c \in Client
    PROVE  Checked(c).sent \subseteq {c.message_buffer}
<1> DEFINE q == [Quiet(c) EXCEPT !.got_disconnect = FALSE]
           b == [q EXCEPT !.response_timer = 0]
           g == [b EXCEPT !.waiting_for_response = FALSE, !.got_disconnect = TRUE]
           s == send_message(b)
           e == IF q.response_retries = 0 THEN g ELSE s
           d == Checked(c)
           n == (e.response_retries + 255) % 256
<1>1. d = q \/ d = [e EXCEPT !.response_retries = n]
  BY Zenon DEF Checked, wait_for_response
<1>2. Quiet(c) \in Client
  BY QuietFacts, Zenon
<1>3. q \in Client
  BY <1>2, ZenonT(60) DEF Client
<1>4. q.sent = {} /\ q.message_buffer = c.message_buffer
  <2>1. Quiet(c).sent = {} /\ Quiet(c).message_buffer = c.message_buffer
    BY ZenonT(60) DEF Quiet, Client
  <2>. QED  BY <1>2, <2>1, ZenonT(60) DEF Client
<1> HIDE DEF q
<1>5. b \in Client /\ b.sent = {} /\ b.message_buffer = c.message_buffer
  <2>1. 0 \in 0..TRetry + 1
    BY MqttSnAssumption
  <2>2. b \in Client
    BY <1>3, <2>1, ZenonT(60) DEF Client
  <2>3. b.sent = q.sent /\ b.message_buffer = q.message_buffer
    BY <1>3, ZenonT(60) DEF Client
  <2>. QED  BY <1>4, <2>2, <2>3, Zenon
<1> HIDE DEF b
<1>6. b.message_buffer \in Message
  BY <1>5, Zenon DEF Client
<1>7. g \in Client /\ g.sent \subseteq {c.message_buffer}
  <2>1. g \in Client
    BY <1>5, ZenonT(60) DEF Client
  <2>2. g.sent = b.sent
    BY <1>5, ZenonT(60) DEF Client
  <2>. QED  BY <1>5, <2>1, <2>2, Zenon
<1> HIDE DEF g
<1>8. s \in Client /\ s.sent \subseteq {c.message_buffer}
  <2>1. s = Send(b, b.message_buffer)
    BY Zenon DEF send_message
  <2>2. s \in Client
    BY <1>5, <1>6, <2>1, SendFacts, Zenon
  <2>3. Airs(b, s, {b.message_buffer})
    BY <1>5, <2>1, SendAirs, Zenon
  <2>. QED  BY <1>5, <2>2, <2>3 DEF Airs
<1> HIDE DEF s
<1>9. e \in Client /\ e.sent \subseteq {c.message_buffer}
  BY <1>7, <1>8, Zenon
<1> HIDE DEF e, n
<1>10. [e EXCEPT !.response_retries = n].sent = e.sent
  BY <1>9, ZenonT(60) DEF Client
<1>. QED  BY <1>1, <1>4, <1>9, <1>10, Zenon DEF d

\* register_topic transmits a REGISTER under the next message id.
LEMMA RegisterAirs ==
    ASSUME NEW c \in Client
    PROVE  /\ NextId(c) \in Id
           /\ Airs(c, register_topic(c), {Msg("REGISTER", 0, NextId(c), 0)})
<1> DEFINE n == NextId(c)
           t == [c.topic_table EXCEPT ![c.topic_count] = 0]
           b == [c EXCEPT !.message_id = n, !.topic_table = t]
           m == Msg("REGISTER", 0, n, 0)
           d == register_topic(c)
<1>1. n \in Id
  <2>1. c.message_id \in Id
    BY Zenon DEF Client
  <2>. QED  BY <2>1, IdTypes DEF NextId
<1>2. t \in [0..MaxTopics - 1 -> Id]
  <2>1. c.topic_table \in [0..MaxTopics - 1 -> Id]
    BY Zenon DEF Client
  <2>. QED  BY <2>1, IdTypes
<1>3. d = Request(b, m, "REGACK")
  <2>1. b = [c EXCEPT !.message_id = n, !.topic_table[c.topic_count] = 0]
    BY ZenonT(60) DEF Client
  <2>. QED  BY <2>1, Zenon DEF register_topic
<1> HIDE DEF n, t, d
<1>4. b \in Client
  BY <1>1, <1>2, ZenonT(60) DEF Client
<1>5. b.sent = c.sent /\ b.message_buffer = c.message_buffer
  BY ZenonT(60) DEF Client
<1> HIDE DEF b, m
<1>6. Airs(b, d, {m})
  BY <1>3, <1>4, SendAirs, Zenon
<1>. QED  BY <1>1, <1>5, <1>6, Zenon DEF Airs, d, n, m

\* publish transmits a PUBLISH under the given topic id.
LEMMA PublishAirs ==
    ASSUME NEW c \in Client, NEW t
    PROVE  /\ NextId(c) \in Id
           /\ Airs(c, publish(c, t), {Msg("PUBLISH", t, NextId(c), 1)})
<1> DEFINE n == NextId(c)
           b == [c EXCEPT !.message_id = n]
           m == Msg("PUBLISH", t, n, 1)
           d == publish(c, t)
<1>1. n \in Id
  <2>1. c.message_id \in Id
    BY Zenon DEF Client
  <2>. QED  BY <2>1, IdTypes DEF NextId
<1>2. d = Request(b, m, "PUBACK")
  BY Zenon DEF publish
<1> HIDE DEF n, d
<1>3. b \in Client
  BY <1>1, ZenonT(60) DEF Client
<1>4. b.sent = c.sent /\ b.message_buffer = c.message_buffer
  BY ZenonT(60) DEF Client
<1> HIDE DEF b, m
<1>5. Airs(b, d, {m})
  BY <1>2, <1>3, SendAirs, Zenon
<1>. QED  BY <1>1, <1>4, <1>5, Zenon DEF Airs, d, n, m

\* A handler answers with a courtesy or keeps silent.
LEMMA HandlerAirs ==
    ASSUME NEW c \in Client, NEW m \in Message, NEW index \in Index
    PROVE  Airs(c, Handler(c, m, index), Courtesies)
<1> DEFINE h == Handler(c, m, index)
<1>0. m.topic_id \in Id /\ m.message_id \in Id
  BY Zenon DEF Message
<1>00. bswap(m.topic_id) \in Id /\ bswap(m.message_id) \in Id
  BY <1>0, IdTypes, Zenon
<1>1. CASE h.sent = c.sent /\ h.message_buffer = c.message_buffer
  BY <1>1, Zenon DEF Airs
<1>2. ASSUME NEW b \in Client, NEW x \in Courtesies, h = Send(b, x),
             b.sent = c.sent, b.message_buffer = c.message_buffer
      PROVE  Airs(c, h, Courtesies)
  <2>1. Airs(b, h, {x})
    BY <1>2, SendAirs, Zenon
  <2>. QED  BY <1>2, <2>1 DEF Airs
<1>3. CASE m.type \in {"CONNACK", "PUBACK", "DISCONNECT"}
  <2>1. \/ h = [c EXCEPT !.connack_possible = TRUE]
        \/ h = [c EXCEPT !.got_puback = TRUE]
        \/ h = [c EXCEPT !.got_disconnect = TRUE]
    BY <1>3, Zenon DEF Handler
  <2> HIDE DEF h
  <2>2. h.sent = c.sent /\ h.message_buffer = c.message_buffer
    BY <2>1, ZenonT(60) DEF Client
  <2>. QED  BY <1>1, <2>2 DEF h
<1>4. CASE m.type = "REGACK"
  <2> DEFINE t == [c.topic_table EXCEPT ![c.topic_count] = m.topic_id]
             n == c.topic_count + 1
  <2>1. h = regack_handler(c, m)
    BY <1>4, Zenon DEF Handler
  <2>2. h = c \/ h = [c EXCEPT !.topic_table = t, !.topic_count = n]
    <3>1. [c EXCEPT !.topic_table = t, !.topic_count = n]
            = [c EXCEPT !.topic_table[c.topic_count] = m.topic_id, !.topic_count = @ + 1]
      BY ZenonT(60) DEF Client
    <3>. QED  BY <2>1, <3>1, Zenon DEF regack_handler
  <2> HIDE DEF h, t, n
  <2>3. h.sent = c.sent /\ h.message_buffer = c.message_buffer
    BY <2>2, ZenonT(60) DEF Client
  <2>. QED  BY <1>1, <2>3 DEF h
<1>5. CASE m.type = "REGISTER"
  <2> DEFINE t == [i \in 0..MaxTopics - 1 |->
                     IF i = index THEN m.topic_id ELSE c.topic_table[i]]
             b == [c EXCEPT !.topic_table = t]
             x == Msg("REGACK", bswap(m.topic_id), bswap(m.message_id), 0)
  <2>1. h = Send(b, x)
    BY <1>5, Zenon DEF Handler, register_handler, Acknowledge
  <2>2. t \in [0..MaxTopics - 1 -> Id]
    <3>1. c.topic_table \in [0..MaxTopics - 1 -> Id]
      BY Zenon DEF Client
    <3>. QED  BY <1>0, <3>1
  <2>3. x \in Courtesies
    <3>1. "REGACK" \in {"REGACK", "PUBACK"} /\ 0 \in 0..1
      OBVIOUS
    <3>. QED  BY <1>00, <3>1, Zenon DEF Msg, Courtesies
  <2> HIDE DEF t, x, h
  <2>4. b \in Client
    BY <2>2, ZenonT(60) DEF Client
  <2>5. b.sent = c.sent /\ b.message_buffer = c.message_buffer
    BY ZenonT(60) DEF Client
  <2>. QED  BY <1>2, <2>1, <2>3, <2>4, <2>5, Zenon DEF h
<1>6. CASE m.type = "PUBLISH"
  <2> DEFINE code == IF Registered(c, m.topic_id) THEN 0 ELSE 1
             x == Msg("PUBACK", bswap(m.topic_id), bswap(m.message_id), code)
  <2>1. x \in Courtesies
    <3>1. "PUBACK" \in {"REGACK", "PUBACK"} /\ code \in 0..1
      OBVIOUS
    <3> HIDE DEF code
    <3>. QED  BY <1>00, <3>1, Zenon DEF Msg, Courtesies
  <2>2. h = Send(c, x) \/ h = c
    BY <1>6, Zenon DEF Handler, publish_handler, Acknowledge
  <2> HIDE DEF x, h
  <2>. QED  BY <1>1, <1>2, <2>1, <2>2, Zenon DEF h
<1>7. CASE m.type \in {"WILLMSGREQ", "PINGREQ"}
  <2> DEFINE x == Msg("WILLMSG", 0, 0, 0)
             y == Msg("PINGRESP", 0, 0, 0)
  <2>1. x \in Courtesies /\ y \in Courtesies
    BY Zenon DEF Msg, Courtesies
  <2>2. h = Send(c, x) \/ h = Send(c, y)
    BY <1>7, Zenon DEF Handler
  <2> HIDE DEF x, y, h
  <2>. QED  BY <1>2, <2>1, <2>2, Zenon DEF h
<1>8. CASE m.type \notin {"CONNACK", "REGACK", "PUBACK", "REGISTER", "PUBLISH",
                          "WILLMSGREQ", "PINGREQ", "DISCONNECT"}
  <2>1. h = c
    BY <1>8, Zenon DEF Handler
  <2>. QED  BY <1>1, <2>1, Zenon
<1>. QED  BY <1>3, <1>4, <1>5, <1>6, <1>7, <1>8, Zenon

\* Hearing a frame makes the client transmit a courtesy at most.
LEMMA ParseAirs ==
    ASSUME NEW c \in Client, NEW m \in Message, NEW index \in Index
    PROVE  /\ Airs(Quiet(c), parse(Quiet(c), m, index), Courtesies)
           /\ Airs(Quiet(c), parse_stale(Quiet(c), index), Courtesies)
<1> DEFINE q == Quiet(c)
           b == [q EXCEPT !.response_buffer = m]
<1>1. ASSUME NEW e \in Client
      PROVE  Airs(e, dispatch(e, index), Courtesies)
  <2> DEFINE h == Handler(e, e.response_buffer, index)
             d == dispatch(e, index)
  <2>1. d = e \/ d = [h EXCEPT !.waiting_for_response = FALSE]
    BY Zenon DEF dispatch
  <2>2. e.response_buffer \in Message
    BY <1>1, Zenon DEF Client
  <2>3. h \in Client /\ Airs(e, h, Courtesies)
    BY <1>1, <2>2, HandlerAirs, HandlerFacts, Zenon
  <2> HIDE DEF h
  <2>4. /\ [h EXCEPT !.waiting_for_response = FALSE].sent = h.sent
        /\ [h EXCEPT !.waiting_for_response = FALSE].message_buffer = h.message_buffer
    BY <2>3, ZenonT(60) DEF Client
  <2> HIDE DEF d
  <2>5. (d.sent = e.sent /\ d.message_buffer = e.message_buffer)
        \/ (d.sent = h.sent /\ d.message_buffer = h.message_buffer)
    BY <2>1, <2>4, Zenon
  <2>. QED  BY <2>3, <2>5, Zenon DEF Airs, d
<1>2. q \in Client
  BY QuietFacts, Zenon
<1>3. parse_stale(q, index) = dispatch(q, index)
  BY Zenon DEF parse_stale
<1>4. parse(q, m, index) = dispatch(b, index)
  BY Zenon DEF parse
<1> HIDE DEF q
<1>5. b \in Client
  BY <1>2, ZenonT(60) DEF Client
<1>6. b.sent = q.sent /\ b.message_buffer = q.message_buffer
  BY <1>2, ZenonT(60) DEF Client
<1> HIDE DEF b
<1>7. Airs(b, parse(q, m, index), Courtesies)
  BY <1>1, <1>4, <1>5, Zenon
<1>. QED  BY <1>1, <1>2, <1>3, <1>6, <1>7, Zenon DEF Airs, q

\* Publishing yields a client that knows the same topics and has received the
\* same answers, whatever it was waiting for.
LEMMA PublishType ==
    ASSUME NEW c \in Client, NEW t \in Id
    PROVE  publish(c, t) \in Client /\ Keeps(c, publish(c, t))
<1> DEFINE n == NextId(c)
           b == [c EXCEPT !.message_id = n]
           m == Msg("PUBLISH", t, n, 1)
<1>1. n \in Id
  <2>1. c.message_id \in Id
    BY Zenon DEF Client
  <2>. QED  BY <2>1, IdTypes DEF NextId
<1>2. publish(c, t) = Request(b, m, "PUBACK")
  BY Zenon DEF publish
<1> HIDE DEF n
<1>3. b \in Client
  BY <1>1, ZenonT(60) DEF Client
<1>4. "PUBLISH" \in MsgType /\ "PUBACK" \in MsgType /\ 1 \in 0..1
  BY DEF MsgType, Unsolicited, Replies
<1>5. m \in Message
  BY <1>1, <1>4, MsgFacts, Zenon
<1>6. /\ b.topic_count = c.topic_count
      /\ b.response_buffer = c.response_buffer
      /\ b.got_puback = c.got_puback
  BY ZenonT(60) DEF Client
<1> HIDE DEF b, m
<1> DEFINE r == Request(b, m, "PUBACK")
<1>7. /\ r \in Client
      /\ r.topic_count = b.topic_count
      /\ r.response_buffer = b.response_buffer
      /\ r.got_puback = b.got_puback
  BY <1>3, <1>4, <1>5, RequestFacts, SMT
<1> HIDE DEF r
<1>. QED  BY <1>2, <1>6, <1>7, Zenon DEF Keeps, r
=============================================================================
