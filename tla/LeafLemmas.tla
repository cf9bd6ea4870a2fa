----------------------------- MODULE LeafLemmas -----------------------------
(***************************************************************************)
(* What the steps of leaf.ino do to its globals and to the client, for all *)
(* constants.  The proofs about one leaf (LeafProofs) and about leaves     *)
(* that share a channel with the gateway (FieldProofs) cite these lemmas   *)
(* instead of the definitions.                                             *)
(***************************************************************************)
EXTENDS LeafApp, MqttSnLemmas

-----------------------------------------------------------------------------
(* The steps of the application *)

\* A tick of the clock ages the response timer and nothing else.
LEMMA AgedFacts ==
    ASSUME NEW c \in Client
    PROVE  /\ Aged(c) \in Client
           /\ Aged(c).waiting_for_response = c.waiting_for_response
           /\ Aged(c).response_to_wait_for = c.response_to_wait_for
           /\ Aged(c).message_buffer = c.message_buffer
           /\ Aged(c).message_id = c.message_id
           /\ Aged(c).topic_count = c.topic_count
           /\ Aged(c).topic_table = c.topic_table
           /\ Aged(c).response_buffer = c.response_buffer
           /\ Aged(c).got_puback = c.got_puback
           /\ Aged(c).response_retries = c.response_retries
           /\ Aged(c).response_timer = Age(c.response_timer, TRetry)
<1> DEFINE q == Quiet(c)
           t == Age(q.response_timer, TRetry)
           d == Aged(c)
<1>1. q \in Client
  BY QuietFacts, Zenon
<1>2. t \in 0..TRetry + 1
  <2>1. q.response_timer \in 0..TRetry + 1
    BY <1>1, Zenon DEF Client
  <2>. QED  BY <2>1, MqttSnAssumption DEF Age
<1>3. d = [q EXCEPT !.response_timer = t]
  BY Zenon DEF Aged
<1>4. t = Age(c.response_timer, TRetry)
  BY QuietFacts, Zenon
<1> HIDE DEF q, t, d
<1>5. d \in Client
  BY <1>1, <1>2, <1>3, ZenonT(60) DEF Client
<1>6. /\ d.waiting_for_response = q.waiting_for_response
      /\ d.response_to_wait_for = q.response_to_wait_for
      /\ d.message_buffer = q.message_buffer
      /\ d.message_id = q.message_id
      /\ d.topic_count = q.topic_count
      /\ d.topic_table = q.topic_table
      /\ d.response_buffer = q.response_buffer
      /\ d.got_puback = q.got_puback
      /\ d.response_retries = q.response_retries
      /\ d.response_timer = t
  BY <1>1, <1>3, ZenonT(60) DEF Client
<1>. QED  BY <1>4, <1>5, <1>6, QuietFacts, Zenon DEF q, d

\* setup() leaves a client that waits for the CONNACK of its CONNECT.
LEMMA SetupFacts ==
    ASSUME NEW dead \in BOOLEAN, NEW t \in 0..SetupTicks
    PROVE  LET d == Setup(dead, t)
           IN  /\ d \in Client
               /\ d.response_to_wait_for = "CONNACK"
               /\ d.message_buffer.type = "CONNECT"
               /\ d.topic_count = 0
               /\ d.response_buffer = Zeroed
               /\ ~d.got_puback
<1> DEFINE b == [MQTTSN EXCEPT !.response_timer = t]
           m == Msg("CONNECT", 0, 0, 0)
           r == Request(b, m, "CONNACK")
           s == IF dead THEN {} ELSE r.sent
           d == Setup(dead, t)
<1>2. m \in Message /\ m.type = "CONNECT"
  <2>1. "CONNECT" \in MsgType /\ 0 \in Id /\ 0 \in 0..1
    BY IdTypes DEF MsgType, Others
  <2>. QED  BY <2>1, Zenon DEF Msg, Message
<1>3. MQTTSN \in Client
  BY MQTTSNType
<1>4. t \in 0..TRetry + 1
  BY LeafAppAssumption, MqttSnAssumption
<1>5. b \in Client
  BY <1>3, <1>4, ZenonT(60) DEF Client
<1>6. b.topic_count = 0 /\ b.response_buffer = Zeroed /\ ~b.got_puback
  BY ZenonT(60) DEF MQTTSN
<1>7. d = [r EXCEPT !.sent = s]
  BY Zenon DEF Setup, connect
<1> HIDE DEF b, m, s, d
<1>8. "CONNACK" \in MsgType
  BY DEF MsgType, Replies
<1>9. /\ r \in Client
      /\ r.response_to_wait_for = "CONNACK"
      /\ r.message_buffer = m
      /\ r.topic_count = b.topic_count
      /\ r.response_buffer = b.response_buffer
      /\ r.got_puback = b.got_puback
  BY <1>2, <1>5, <1>8, RequestFacts, SMT
<1> HIDE DEF r
<1>10. s \in SUBSET Message
  <2>1. r.sent \in SUBSET Message
    BY <1>9, Zenon DEF Client
  <2>. QED  BY <2>1 DEF s
<1>11. d \in Client
  BY <1>7, <1>9, <1>10, ZenonT(60) DEF Client
<1>12. /\ d.response_to_wait_for = r.response_to_wait_for
       /\ d.message_buffer = r.message_buffer
       /\ d.topic_count = r.topic_count
       /\ d.response_buffer = r.response_buffer
       /\ d.got_puback = r.got_puback
  BY <1>7, <1>9, ZenonT(60) DEF Client
<1>. QED  BY <1>2, <1>6, <1>9, <1>11, <1>12, Zenon DEF d

\* What the steps of loop() do to the globals.
LEMMA DeepSleepFacts ==
    ASSUME NEW a \in App, NEW kind \in SleepKind
    PROVE  LET b == DeepSleep(a, kind)
           IN  /\ b \in App
               /\ b.pc = "asleep"
               /\ b.slept = kind
               /\ b.state = a.state
               /\ b.dead = a.dead
BY ZenonT(60) DEF DeepSleep, App

\* The globals after setup() are those of a boot that has published nothing.
LEMMA StartedFacts ==
    ASSUME NEW dead \in BOOLEAN
    PROVE  LET b == Started(dead)
           IN  /\ b \in App
               /\ b.pc = "rx"
               /\ b.state = "SENT_CONNECT"
               /\ b.puback_pass_hack = 0
<1>1. /\ NoTopic \in Id
      /\ 0 \in 0..3
      /\ 0 \in 0..RuntimeTimeout + 1
  BY IdTypes, LeafAppAssumption
<1>. QED  BY <1>1, ZenonT(60) DEF Started, App, SleepKind

\* Steps that move on to the rest of the pass, or to the next one.
LEMMA PassFacts ==
    ASSUME NEW a \in App, NEW ok \in BOOLEAN
    PROVE  /\ LET b == Received(a, ok)
              IN  /\ b \in App
                  /\ b.pc = "tail"
                  /\ b.rx_ok = ok
                  /\ b.state = a.state
                  /\ b.dead = a.dead
                  /\ b.puback_pass_hack = a.puback_pass_hack
                  /\ b.runtime = a.runtime
                  /\ b.registered_topic_id = a.registered_topic_id
           /\ LET b == NextPass(a)
              IN  /\ b \in App
                  /\ b.pc = "rx"
                  /\ b.state = a.state
                  /\ b.dead = a.dead
                  /\ b.puback_pass_hack = a.puback_pass_hack
                  /\ b.runtime = a.runtime
                  /\ b.registered_topic_id = a.registered_topic_id
<1>1. ASSUME NEW b, b = Received(a, ok)
      PROVE  /\ b \in App
             /\ b.pc = "tail"
             /\ b.rx_ok = ok
             /\ b.state = a.state
             /\ b.dead = a.dead
             /\ b.puback_pass_hack = a.puback_pass_hack
             /\ b.runtime = a.runtime
             /\ b.registered_topic_id = a.registered_topic_id
  BY <1>1, ZenonT(60) DEF Received, App
<1>2. ASSUME NEW b, b = NextPass(a)
      PROVE  /\ b \in App
             /\ b.pc = "rx"
             /\ b.state = a.state
             /\ b.dead = a.dead
             /\ b.puback_pass_hack = a.puback_pass_hack
             /\ b.runtime = a.runtime
             /\ b.registered_topic_id = a.registered_topic_id
  BY <1>2, ZenonT(60) DEF NextPass, App
<1>. QED  BY <1>1, <1>2, Zenon

\* A tick ages the boot and nothing else.
LEMMA OlderFacts ==
    ASSUME NEW a \in App
    PROVE  LET b == Older(a)
           IN  /\ b \in App
               /\ b.pc = a.pc
               /\ b.rx_ok = a.rx_ok
               /\ b.state = a.state
               /\ b.dead = a.dead
               /\ b.puback_pass_hack = a.puback_pass_hack
               /\ b.registered_topic_id = a.registered_topic_id
               /\ b.runtime = Age(a.runtime, RuntimeTimeout)
<1> DEFINE r == Age(a.runtime, RuntimeTimeout)
           b == Older(a)
<1>1. r \in 0..RuntimeTimeout + 1
  <2>1. a.runtime \in 0..RuntimeTimeout + 1
    BY Zenon DEF App
  <2>. QED  BY <2>1, LeafAppAssumption DEF Age
<1>2. b = [a EXCEPT !.runtime = r]
  BY Zenon DEF Older
<1> HIDE DEF r, b
<1>3. b \in App
  BY <1>1, <1>2, ZenonT(60) DEF App
<1>4. /\ b.pc = a.pc
      /\ b.rx_ok = a.rx_ok
      /\ b.state = a.state
      /\ b.dead = a.dead
      /\ b.puback_pass_hack = a.puback_pass_hack
      /\ b.registered_topic_id = a.registered_topic_id
      /\ b.runtime = r
  BY <1>2, ZenonT(60) DEF App
<1>. QED  BY <1>3, <1>4, Zenon DEF b, r

\* Publishing restarts the deadline and enters the second half of the boot.
LEMMA PublishedFacts ==
    ASSUME NEW c \in Client, NEW a \in App
    PROVE  LET b == Published(c, a)
           IN  /\ b \in App
               /\ b.pc = "rx"
               /\ b.state = "WAIT_PUBACK"
               /\ b.dead = a.dead
               /\ b.puback_pass_hack = a.puback_pass_hack
               /\ b.registered_topic_id = find_topic_id(Checked(c))
<1> DEFINE t == find_topic_id(Checked(c))
           b == Published(c, a)
<1>1. t \in Id
  <2>1. Checked(c) \in Client
    BY CheckedFacts, SMT
  <2>. QED  BY <2>1, FindFacts, SMT
<1>2. 0 \in 0..RuntimeTimeout + 1
  BY LeafAppAssumption
<1>3. b = [a EXCEPT !.pc = "rx", !.registered_topic_id = t,
                    !.state = "WAIT_PUBACK", !.runtime = 0]
  BY Zenon DEF Published
<1> HIDE DEF t, b
<1>4. b \in App
  BY <1>1, <1>2, <1>3, ZenonT(60) DEF App
<1>5. /\ b.pc = "rx"
      /\ b.state = "WAIT_PUBACK"
      /\ b.dead = a.dead
      /\ b.puback_pass_hack = a.puback_pass_hack
      /\ b.registered_topic_id = t
  BY <1>3, ZenonT(60) DEF App
<1>. QED  BY <1>4, <1>5, Zenon DEF b, t

\* A pass without a PUBACK is counted; the third one, or a PUBACK, ends the boot.
LEMMA PassCountedFacts ==
    ASSUME NEW c \in Client, NEW a \in App, a.puback_pass_hack < 3
    PROVE  LET b == PassCounted(c, a)
           IN  /\ b \in App
               /\ b.state = a.state
               /\ b.dead = a.dead
               /\ \/ /\ b.pc = "asleep"
                     /\ b.slept = "routine"
                  \/ /\ b.pc = "rx"
                     /\ ~Checked(c).got_puback
                     /\ b.puback_pass_hack < 3
                     /\ b.runtime = a.runtime
                     /\ b.registered_topic_id = a.registered_topic_id
<1> DEFINE n == a.puback_pass_hack + 1
           e == [a EXCEPT !.puback_pass_hack = n]
           b == PassCounted(c, a)
<1>1. n \in 0..3
  <2>1. a.puback_pass_hack \in 0..3
    BY Zenon DEF App
  <2>. QED  BY <2>1
<1>2. b = IF Checked(c).got_puback \/ e.puback_pass_hack > 2
          THEN DeepSleep(e, "routine") ELSE NextPass(e)
  BY Zenon DEF PassCounted
<1> HIDE DEF n, b
<1>3. e \in App
  BY <1>1, ZenonT(60) DEF App
<1>4. /\ e.puback_pass_hack = n
      /\ e.state = a.state
      /\ e.dead = a.dead
      /\ e.runtime = a.runtime
      /\ e.registered_topic_id = a.registered_topic_id
  BY ZenonT(60) DEF App
<1> HIDE DEF e
<1>5. CASE Checked(c).got_puback \/ e.puback_pass_hack > 2
  <2>1. b = DeepSleep(e, "routine")
    BY <1>2, <1>5, Zenon
  <2>2. "routine" \in SleepKind
    BY DEF SleepKind
  <2>3. /\ b \in App
        /\ b.pc = "asleep"
        /\ b.slept = "routine"
        /\ b.state = e.state
        /\ b.dead = e.dead
    BY <1>3, <2>1, <2>2, DeepSleepFacts, SMT
  <2>. QED  BY <1>4, <2>3, Zenon DEF b
<1>6. CASE ~(Checked(c).got_puback \/ e.puback_pass_hack > 2)
  <2>1. b = NextPass(e)
    BY <1>2, <1>6, Zenon
  <2>2. /\ b \in App
        /\ b.pc = "rx"
        /\ b.state = e.state
        /\ b.dead = e.dead
        /\ b.puback_pass_hack = e.puback_pass_hack
        /\ b.runtime = e.runtime
        /\ b.registered_topic_id = e.registered_topic_id
    BY <1>3, <2>1, PassFacts, Zenon
  <2>3. n < 3
    BY <1>1, <1>4, <1>6
  <2>. QED  BY <1>4, <1>6, <2>2, <2>3, Zenon DEF b
<1>. QED  BY <1>5, <1>6

\* setup() transmits the CONNECT at most.
LEMMA SetupAirs ==
    ASSUME NEW dead \in BOOLEAN, NEW t \in 0..SetupTicks
    PROVE  LET d == Setup(dead, t)
               m == Msg("CONNECT", 0, 0, 0)
           IN  d.sent \subseteq {m} /\ d.message_buffer = m
<1> DEFINE b == [MQTTSN EXCEPT !.response_timer = t]
           m == Msg("CONNECT", 0, 0, 0)
           r == Request(b, m, "CONNACK")
           s == IF dead THEN {} ELSE r.sent
           d == Setup(dead, t)
<1>1. t \in 0..TRetry + 1
  BY LeafAppAssumption, MqttSnAssumption
<1>2. b \in Client
  BY <1>1, MQTTSNType, ZenonT(60) DEF Client
<1>3. b.sent = {}
  BY ZenonT(60) DEF MQTTSN
<1>4. d = [r EXCEPT !.sent = s]
  BY Zenon DEF Setup, connect
<1> HIDE DEF b, s, d
<1>5. "CONNACK" \in MsgType /\ "CONNECT" \in MsgType /\ 0 \in Id /\ 0 \in 0..1
  BY IdTypes DEF MsgType, Replies, Others
<1>6. m \in Message
  BY <1>5, MsgFacts, Zenon
<1> HIDE DEF m
<1>7. r \in Client /\ r.message_buffer = m
  BY <1>2, <1>5, <1>6, RequestFacts, SMT
<1>8. r.sent \subseteq {m}
  <2>1. Airs(b, r, {m})
    BY <1>2, SendAirs, Zenon
  <2>. QED  BY <1>3, <2>1 DEF Airs
<1> HIDE DEF r
<1>9. d.sent = s /\ d.message_buffer = r.message_buffer
  BY <1>4, <1>7, ZenonT(60) DEF Client
<1>10. s \subseteq {m}
  BY <1>8, Zenon DEF s
<1>. QED  BY <1>7, <1>9, <1>10, Zenon DEF d, m
=============================================================================
