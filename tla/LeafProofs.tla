----------------------------- MODULE LeafProofs -----------------------------
(***************************************************************************)
(* Theorems about one leaf node, for every environment and all constants.  *)
(*                                                                         *)
(* IndInv is the inductive invariant: the type invariant and the property  *)
(* that message_buffer holds the awaited request, strengthened by Phase    *)
(* (which exchange the application is in) and Timing (how the retry budget *)
(* and the boot's deadline are spent together).                            *)
(***************************************************************************)
EXTENDS Leaf, LeafLemmas

-----------------------------------------------------------------------------
(* The inductive invariant *)

\* The requests of the three exchanges of a boot.
LEMMA RequestForFacts ==
    /\ DOMAIN RequestFor = {"CONNACK", "REGACK", "PUBACK"}
    /\ RequestFor["CONNACK"] = "CONNECT"
    /\ RequestFor["REGACK"] = "REGISTER"
    /\ RequestFor["PUBACK"] = "PUBLISH"
BY Zenon DEF RequestFor

\* A boot that ends in the right kind of sleep reestablishes the invariant.
LEMMA SleepStep ==
    ASSUME TypeOK, NEW kind \in SleepKind, Sleep(kind),
           kind = "routine" <=> app.state = "WAIT_PUBACK"
    PROVE  IndInv'
<1>1. /\ client' \in Client
      /\ app' \in App
      /\ app'.pc = "asleep"
      /\ app'.slept = kind
      /\ app'.state = app.state
      /\ app'.dead = app.dead
      /\ granted' \subseteq Id
  BY MQTTSNType, DeepSleepFacts, SMT DEF TypeOK, Sleep
<1>. QED
  BY <1>1, Zenon DEF IndInv, TypeOK, RetransmitsTheRequest, Phase, Timing,
                     RoutineSleepIffPublished, Awake

\* Init => IndInv.
LEMMA InitInv == Init => IndInv
<1> SUFFICES ASSUME Init PROVE IndInv
  OBVIOUS
<1> DEFINE b == Started(FALSE)
<1>1. b \in App
  BY StartedFacts, Zenon
<1>2. app = DeepSleep(b, "none") /\ client = MQTTSN /\ granted = {}
  BY Zenon DEF Init
<1> HIDE DEF b
<1>3. "none" \in SleepKind
  BY DEF SleepKind
<1>4. app \in App /\ app.pc = "asleep" /\ app.slept = "none"
  BY <1>1, <1>2, <1>3, DeepSleepFacts, SMT
<1>5. client \in Client /\ granted \subseteq Id
  BY <1>2, MQTTSNType, SMT
<1>. QED
  BY <1>4, <1>5, Zenon DEF IndInv, TypeOK, RetransmitsTheRequest, Phase, Timing,
                           RoutineSleepIffPublished, Awake

\* setup() starts the CONNECT exchange.
LEMMA BootInv == IndInv /\ Boot => IndInv'
<1> SUFFICES ASSUME IndInv, Boot PROVE IndInv'
  OBVIOUS
<1> PICK dead \in BOOLEAN, t \in 0..SetupTicks :
        client' = Setup(dead, t) /\ app' = Started(dead)
  BY Zenon DEF Boot
<1>1. /\ client' \in Client
      /\ client'.response_to_wait_for = "CONNACK"
      /\ client'.message_buffer.type = "CONNECT"
      /\ ~client'.got_puback
  BY SetupFacts, SMT
<1>2. /\ app' \in App
      /\ app'.pc = "rx"
      /\ app'.state = "SENT_CONNECT"
      /\ app'.puback_pass_hack = 0
  BY StartedFacts, Zenon
<1>3. granted' \subseteq Id
  BY DEF Boot
<1>4. RetransmitsTheRequest'
  BY <1>1, RequestForFacts, SMT DEF RetransmitsTheRequest
<1>5. Phase' /\ Timing' /\ RoutineSleepIffPublished'
  BY <1>1, <1>2, SMT DEF Phase, Timing, RoutineSleepIffPublished, Awake
<1>. QED  BY <1>1, <1>2, <1>3, <1>4, <1>5, Zenon DEF IndInv, TypeOK

\* A received frame ends the wait or leaves the exchange as it was.
LEMMA HearInv ==
    ASSUME IndInv, Listens, NEW m \in Message, Heard(client, m, client'),
           NEW ok \in BOOLEAN, app' = Received(app, ok), ok,
           granted' \subseteq Id
    PROVE  IndInv'
<1>1. client \in Client /\ app \in App /\ app.pc = "rx" /\ ~app.dead
  BY Zenon DEF IndInv, TypeOK, Listens
<1>2. /\ app' \in App
      /\ app'.pc = "tail"
      /\ app'.rx_ok
      /\ app'.state = app.state
      /\ app'.dead = app.dead
      /\ app'.puback_pass_hack = app.puback_pass_hack
      /\ app'.runtime = app.runtime
  BY <1>1, PassFacts, Zenon
<1>3. TypeOK'
  BY <1>2, Zenon DEF TypeOK, Heard
<1>4. RetransmitsTheRequest'
  BY <1>1, Zenon DEF IndInv, RetransmitsTheRequest, Heard, SameExchange, Awake
<1>5. Phase'
  BY <1>1, <1>2, Zenon DEF IndInv, Phase, Heard, SameExchange, Awake
<1>6. Timing'
  BY <1>1, <1>2, Zenon DEF IndInv, Timing, Heard, SameExchange, Awake
<1>7. RoutineSleepIffPublished'
  BY <1>2, Zenon DEF RoutineSleepIffPublished
<1>. QED  BY <1>3, <1>4, <1>5, <1>6, <1>7, Zenon DEF IndInv

\* TryReceive, whatever it hears.
LEMMA TryReceiveInv == IndInv /\ TryReceive => IndInv'
<1> SUFFICES ASSUME IndInv, TryReceive PROVE IndInv'
  OBVIOUS
<1>0. client \in Client /\ app \in App /\ granted \subseteq Id
  BY Zenon DEF IndInv, TypeOK
<1>1. CASE HearMessage
  <2>1. PICK m \in Inputs, index \in Index :
            /\ client' = parse(Quiet(client), m, index)
            /\ granted' = granted \cup Grants(client, m)
    BY <1>1, Zenon DEF HearMessage
  <2>2. m \in Message
    BY InputsAssumption
  <2>3. Heard(client, m, client')
    <3>1. Heard(client, m, parse(Quiet(client), m, index))
      BY <1>0, <2>2, ParseFacts, Zenon
    <3>. QED  BY <2>1, <3>1, Zenon
  <2>4. granted' \subseteq Id
    <3>1. Grants(client, m) \subseteq Id
      BY <2>2, GrantsType, Zenon
    <3>. QED  BY <1>0, <2>1, <3>1
  <2>5. Listens /\ app' = Received(app, TRUE)
    BY <1>1, Zenon DEF HearMessage
  <2>. QED  BY <2>2, <2>3, <2>4, <2>5, HearInv, Zenon
<1>2. CASE HearHello
  <2>1. PICK index \in Index : client' = parse_stale(Quiet(client), index)
    BY <1>2, Zenon DEF HearHello
  <2>2. client.response_buffer \in Message
    BY <1>0, Zenon DEF Client
  <2>3. Heard(client, client.response_buffer, client')
    <3>1. Heard(client, client.response_buffer, parse_stale(Quiet(client), index))
      BY <1>0, <2>2, ParseFacts, Zenon
    <3>. QED  BY <2>1, <3>1, Zenon
  <2>4. granted' \subseteq Id
    <3>1. Grants(client, client.response_buffer) \subseteq Id
      BY <2>2, GrantsType, Zenon
    <3>. QED  BY <1>0, <1>2, <3>1 DEF HearHello
  <2>5. Listens /\ app' = Received(app, TRUE)
    BY <1>2, Zenon DEF HearHello
  <2>. QED  BY <2>2, <2>3, <2>4, <2>5, HearInv, Zenon
<1>3. CASE HearNothing
  <2>1. /\ app.pc = "rx"
        /\ ~app.dead
        /\ client' = Quiet(client)
        /\ app' = Received(app, FALSE)
        /\ granted' = granted
    BY <1>3, Zenon DEF HearNothing, Listens
  <2>2. client' \in Client /\ SameExchange(client, client')
    BY <1>0, <2>1, QuietFacts, Zenon DEF SameExchange
  <2>3. /\ app' \in App
        /\ app'.pc = "tail"
        /\ app'.state = app.state
        /\ app'.dead = app.dead
        /\ app'.puback_pass_hack = app.puback_pass_hack
        /\ app'.runtime = app.runtime
    BY <1>0, <2>1, PassFacts, Zenon
  <2>4. TypeOK'
    BY <1>0, <2>1, <2>2, <2>3, Zenon DEF TypeOK
  <2>5. RetransmitsTheRequest'
    BY <2>1, <2>2, Zenon DEF IndInv, RetransmitsTheRequest, SameExchange, Awake
  <2>6. Phase'
    BY <2>1, <2>2, <2>3, Zenon DEF IndInv, Phase, SameExchange, Awake
  <2>7. Timing'
    BY <2>1, <2>2, <2>3, Zenon DEF IndInv, Timing, SameExchange, Awake
  <2>8. RoutineSleepIffPublished'
    BY <2>3, Zenon DEF RoutineSleepIffPublished
  <2>. QED  BY <2>4, <2>5, <2>6, <2>7, <2>8, Zenon DEF IndInv
<1>. QED  BY <1>1, <1>2, <1>3, Zenon DEF TryReceive

\* A tail that does nothing, because nothing usable was received.
LEMMA IgnoreInv == IndInv /\ Ignore => IndInv'
<1> SUFFICES ASSUME IndInv, Ignore PROVE IndInv'
  OBVIOUS
<1>0. client \in Client /\ app \in App /\ granted \subseteq Id
  BY Zenon DEF IndInv, TypeOK
<1>1. /\ app.pc = "tail"
      /\ ~app.rx_ok
      /\ client' = Quiet(client)
      /\ app' = NextPass(app)
      /\ granted' = granted
  BY Zenon DEF Ignore, Ignores
<1>2. client' \in Client /\ SameExchange(client, client')
  BY <1>0, <1>1, QuietFacts, Zenon DEF SameExchange
<1>3. /\ app' \in App
      /\ app'.pc = "rx"
      /\ app'.state = app.state
      /\ app'.dead = app.dead
      /\ app'.puback_pass_hack = app.puback_pass_hack
      /\ app'.runtime = app.runtime
  BY <1>0, <1>1, PassFacts, Zenon
<1>4. TypeOK'
  BY <1>0, <1>1, <1>2, <1>3, Zenon DEF TypeOK
<1>5. RetransmitsTheRequest'
  BY <1>1, <1>2, Zenon DEF IndInv, RetransmitsTheRequest, SameExchange, Awake
<1>6. Phase'
  BY <1>1, <1>2, <1>3, Zenon DEF IndInv, Phase, SameExchange, Awake
<1>7. Timing'
  BY <1>1, <1>2, <1>3, Zenon DEF IndInv, Timing, SameExchange, Awake
<1>8. RoutineSleepIffPublished'
  BY <1>3, Zenon DEF RoutineSleepIffPublished
<1>. QED  BY <1>4, <1>5, <1>6, <1>7, <1>8, Zenon DEF IndInv

\* What the periodic check of a tail leaves of the exchange.  A retransmission
\* is the first one, and it happens in the second half of the deadline.
LEMMA CheckedInv ==
    ASSUME IndInv, Awake, ~TooLong(app), Checked(client).waiting_for_response
    PROVE  /\ client.waiting_for_response
           /\ client.response_to_wait_for # "CONNACK" =>
                 /\ Checked(client).response_retries \in {NRetry - 1, NRetry}
                 /\ Checked(client).response_timer <= app.runtime
                 /\ Checked(client).response_retries = NRetry - 1 =>
                       app.runtime >= Checked(client).response_timer + TRetry + 1
<1> DEFINE d == Checked(client)
<1>0. client \in Client /\ app \in App
  BY Zenon DEF IndInv, TypeOK
<1>1. /\ client.waiting_for_response
      /\ \/ /\ d.response_timer = client.response_timer
            /\ d.response_retries = client.response_retries
         \/ /\ client.response_timer > TRetry
            /\ d.response_timer = 0
            /\ d.response_retries = client.response_retries - 1
  BY <1>0, CheckedFacts, SMT
<1>2. /\ client.response_timer \in 0..TRetry + 1
      /\ app.runtime \in 0..RuntimeTimeout + 1
      /\ client.response_retries \in 0..255
  BY <1>0, Zenon DEF Client, App
<1>3. client.response_to_wait_for # "CONNACK" =>
        /\ client.response_retries \in {NRetry - 1, NRetry}
        /\ client.response_timer <= app.runtime
        /\ client.response_retries = NRetry - 1 =>
              \/ app.runtime > RuntimeTimeout
              \/ app.runtime >= client.response_timer + TRetry + 1
  BY <1>1, Zenon DEF IndInv, Timing
<1>4. ~(app.runtime > RuntimeTimeout)
  BY Zenon DEF TooLong
<1> HIDE DEF d
<1>5. client.response_to_wait_for # "CONNACK" =>
        /\ d.response_retries \in {NRetry - 1, NRetry}
        /\ d.response_timer <= app.runtime
        /\ d.response_retries = NRetry - 1 =>
              app.runtime >= d.response_timer + TRetry + 1
  BY <1>1, <1>2, <1>3, <1>4, MqttSnAssumption, LeafAppAssumption, SMT
<1>. QED  BY <1>1, <1>5, Zenon DEF d

\* A tail in which the awaited response is still missing.
LEMMA KeepWaitingInv == IndInv /\ KeepWaiting => IndInv'
<1> SUFFICES ASSUME IndInv, KeepWaiting PROVE IndInv'
  OBVIOUS
<1>0. client \in Client /\ app \in App /\ granted \subseteq Id
  BY Zenon DEF IndInv, TypeOK
<1>1. /\ app.pc = "tail"
      /\ ~TooLong(app)
      /\ client' = Checked(client)
      /\ client'.waiting_for_response
      /\ app' = NextPass(app)
      /\ granted' = granted
  BY Zenon DEF KeepWaiting, Waits, StillWaiting
<1>2. /\ client' \in Client
      /\ client'.response_to_wait_for = client.response_to_wait_for
      /\ client'.message_buffer = client.message_buffer
      /\ client'.message_id = client.message_id
      /\ client'.got_puback = client.got_puback
  BY <1>0, <1>1, CheckedFacts, SMT
<1>3. /\ app' \in App
      /\ app'.pc = "rx"
      /\ app'.state = app.state
      /\ app'.dead = app.dead
      /\ app'.puback_pass_hack = app.puback_pass_hack
      /\ app'.runtime = app.runtime
  BY <1>0, <1>1, PassFacts, Zenon
<1>4. Awake
  BY <1>1, Zenon DEF Awake
<1>5. /\ client.waiting_for_response
      /\ client'.response_to_wait_for # "CONNACK" =>
            /\ client'.response_retries \in {NRetry - 1, NRetry}
            /\ client'.response_timer <= app.runtime
            /\ client'.response_retries = NRetry - 1 =>
                  app.runtime >= client'.response_timer + TRetry + 1
  BY <1>1, <1>2, <1>4, CheckedInv, Zenon
<1>6. TypeOK'
  BY <1>0, <1>1, <1>2, <1>3, Zenon DEF TypeOK
<1>7. RetransmitsTheRequest'
  BY <1>2, <1>4, <1>5, Zenon DEF IndInv, RetransmitsTheRequest
<1>8. Phase'
  BY <1>2, <1>3, <1>4, <1>5, Zenon DEF IndInv, Phase, Awake
<1>9. Timing'
  BY <1>3, <1>5, Zenon DEF Timing
<1>10. RoutineSleepIffPublished'
  BY <1>3, Zenon DEF RoutineSleepIffPublished
<1>. QED  BY <1>6, <1>7, <1>8, <1>9, <1>10, Zenon DEF IndInv

\* The REGISTER exchange.
LEMMA RegisterInv == IndInv /\ Register => IndInv'
<1> SUFFICES ASSUME IndInv, Register PROVE IndInv'
  OBVIOUS
<1> DEFINE d == Checked(client)
<1>0. client \in Client /\ app \in App /\ granted \subseteq Id
  BY Zenon DEF IndInv, TypeOK
<1>1. /\ app.pc = "tail"
      /\ app.state = "SENT_CONNECT"
      /\ CanRegister(d)
      /\ client' = register_topic(d)
      /\ app' = NextPass(app)
      /\ granted' = granted
  BY Zenon DEF Register, MustRegister
<1>2. d \in Client /\ d.got_puback = client.got_puback
  BY <1>0, CheckedFacts, SMT
<1> HIDE DEF d
<1>3. /\ client' \in Client
      /\ client'.response_to_wait_for = "REGACK"
      /\ client'.message_buffer.type = "REGISTER"
      /\ client'.message_buffer.message_id = client'.message_id
      /\ client'.response_timer = 0
      /\ client'.response_retries = NRetry
      /\ client'.got_puback = d.got_puback
  BY <1>1, <1>2, RegisterFacts, SMT DEF Keeps
<1>4. /\ app' \in App
      /\ app'.pc = "rx"
      /\ app'.state = app.state
      /\ app'.dead = app.dead
      /\ app'.puback_pass_hack = app.puback_pass_hack
      /\ app'.runtime = app.runtime
  BY <1>0, <1>1, PassFacts, Zenon
<1>5. TypeOK'
  BY <1>0, <1>1, <1>3, <1>4, Zenon DEF TypeOK
<1>6. RetransmitsTheRequest'
  BY <1>3, RequestForFacts, SMT DEF RetransmitsTheRequest
<1>7. Phase'
  <2>1. ~client.got_puback /\ app.puback_pass_hack = 0 /\ ~app.dead
    BY <1>1, SMT DEF IndInv, Phase, Awake
  <2>. QED  BY <1>1, <1>2, <1>3, <1>4, <2>1, SMT DEF Phase
<1>8. Timing'
  <2>1. app.runtime \in 0..RuntimeTimeout + 1
    BY <1>0, Zenon DEF App
  <2>. QED  BY <1>3, <1>4, <2>1, MqttSnAssumption, LeafAppAssumption, SMT DEF Timing
<1>9. RoutineSleepIffPublished'
  BY <1>4, Zenon DEF RoutineSleepIffPublished
<1>. QED  BY <1>5, <1>6, <1>7, <1>8, <1>9, Zenon DEF IndInv

\* The PUBLISH exchange.  It is only started when nothing is awaited: a PUBACK
\* cannot have cut an earlier wait short, because none has been counted yet.
LEMMA PublishInv == IndInv /\ Publish => IndInv'
<1> SUFFICES ASSUME IndInv, Publish PROVE IndInv'
  OBVIOUS
<1> DEFINE d == Checked(client)
           t == find_topic_id(d)
<1>0. client \in Client /\ app \in App /\ granted \subseteq Id
  BY Zenon DEF IndInv, TypeOK
<1>1. /\ app.pc = "tail"
      /\ app.state = "SENT_CONNECT"
      /\ ~StillWaiting(client)
      /\ client' = publish(d, t)
      /\ app' = Published(client, app)
      /\ granted' = granted
  BY Zenon DEF Publish, MustPublish, Proceeds
<1>2. d \in Client /\ d.got_puback = client.got_puback
  BY <1>0, CheckedFacts, SMT
<1>3. ~client.got_puback /\ app.puback_pass_hack = 0 /\ ~app.dead
  BY <1>1, SMT DEF IndInv, Phase, Awake
<1>4. ~d.waiting_for_response
  BY <1>1, <1>2, <1>3, Zenon DEF StillWaiting
<1> HIDE DEF d
<1>5. t \in Id
  BY <1>2, FindFacts, SMT
<1> HIDE DEF t
<1>6. /\ client' \in Client
      /\ client'.response_to_wait_for = "PUBACK"
      /\ client'.message_buffer.type = "PUBLISH"
      /\ client'.message_buffer.message_id = client'.message_id
      /\ client'.response_timer = 0
      /\ client'.response_retries = NRetry
      /\ client'.got_puback = d.got_puback
  BY <1>1, <1>2, <1>4, <1>5, PublishFacts, SMT DEF Keeps
<1>7. /\ app' \in App
      /\ app'.pc = "rx"
      /\ app'.state = "WAIT_PUBACK"
      /\ app'.dead = app.dead
      /\ app'.puback_pass_hack = app.puback_pass_hack
  BY <1>0, <1>1, PublishedFacts, SMT
<1>8. TypeOK'
  BY <1>0, <1>1, <1>6, <1>7, Zenon DEF TypeOK
<1>9. RetransmitsTheRequest'
  BY <1>6, RequestForFacts, SMT DEF RetransmitsTheRequest
<1>10. Phase'
  BY <1>2, <1>3, <1>6, <1>7, SMT DEF Phase
<1>11. Timing'
  <2>1. app'.runtime \in 0..RuntimeTimeout + 1
    BY <1>7, Zenon DEF App
  <2>. QED  BY <1>6, <2>1, MqttSnAssumption, LeafAppAssumption, SMT DEF Timing
<1>12. RoutineSleepIffPublished'
  BY <1>7, Zenon DEF RoutineSleepIffPublished
<1>. QED  BY <1>8, <1>9, <1>10, <1>11, <1>12, Zenon DEF IndInv

\* A pass after the PUBLISH.
LEMMA CountPassInv == IndInv /\ CountPass => IndInv'
<1> SUFFICES ASSUME IndInv, CountPass PROVE IndInv'
  OBVIOUS
<1> DEFINE d == Checked(client)
<1>0. client \in Client /\ app \in App /\ granted \subseteq Id
  BY Zenon DEF IndInv, TypeOK
<1>1. /\ app.pc = "tail"
      /\ app.state = "WAIT_PUBACK"
      /\ ~TooLong(app)
      /\ app' = PassCounted(client, app)
      /\ client' = IF app'.pc = "asleep" THEN MQTTSN ELSE d
      /\ granted' = granted
  BY Zenon DEF CountPass, CountsPass, Proceeds
<1>2. Awake
  BY <1>1, Zenon DEF Awake
<1>3. app.puback_pass_hack < 3
  BY <1>2, Zenon DEF IndInv, Phase
<1>4. /\ app' \in App
      /\ app'.state = app.state
      /\ app'.dead = app.dead
      /\ \/ /\ app'.pc = "asleep"
            /\ app'.slept = "routine"
         \/ /\ app'.pc = "rx"
            /\ ~d.got_puback
            /\ app'.puback_pass_hack < 3
            /\ app'.runtime = app.runtime
  BY <1>0, <1>1, <1>3, PassCountedFacts, SMT
<1>5. CASE app'.pc = "asleep"
  <2>1. client' \in Client /\ app'.slept = "routine"
    BY <1>1, <1>4, <1>5, MQTTSNType, Zenon
  <2>. QED
    BY <1>0, <1>1, <1>4, <1>5, <2>1, Zenon
    DEF IndInv, TypeOK, RetransmitsTheRequest, Phase, Timing,
        RoutineSleepIffPublished, Awake
<1>6. CASE app'.pc # "asleep"
  <2>1. /\ client' = d
        /\ app'.pc = "rx"
        /\ app'.puback_pass_hack < 3
        /\ app'.runtime = app.runtime
        /\ ~client'.got_puback
    BY <1>1, <1>4, <1>6, Zenon
  <2>2. /\ d \in Client
        /\ d.response_to_wait_for = client.response_to_wait_for
        /\ d.message_buffer = client.message_buffer
        /\ d.message_id = client.message_id
    BY <1>0, CheckedFacts, SMT
  <2>3. client'.waiting_for_response =>
          /\ client.waiting_for_response
          /\ client'.response_to_wait_for # "CONNACK" =>
                /\ client'.response_retries \in {NRetry - 1, NRetry}
                /\ client'.response_timer <= app.runtime
                /\ client'.response_retries = NRetry - 1 =>
                      app.runtime >= client'.response_timer + TRetry + 1
    BY <1>1, <1>2, <2>1, <2>2, CheckedInv, Zenon
  <2> HIDE DEF d
  <2>4. TypeOK'
    BY <1>0, <1>1, <1>4, <2>1, <2>2, Zenon DEF TypeOK
  <2>5. RetransmitsTheRequest'
    BY <1>2, <2>1, <2>2, <2>3, Zenon DEF IndInv, RetransmitsTheRequest
  <2>6. Phase'
    BY <1>1, <1>2, <1>4, <2>1, <2>2, <2>3, Zenon DEF IndInv, Phase
  <2>7. Timing'
    BY <2>1, <2>3, Zenon DEF Timing
  <2>8. RoutineSleepIffPublished'
    BY <1>6, Zenon DEF RoutineSleepIffPublished
  <2>. QED  BY <2>4, <2>5, <2>6, <2>7, <2>8, Zenon DEF IndInv
<1>. QED  BY <1>5, <1>6

\* Time ages the response timer and the boot together.
LEMMA TickInv == IndInv /\ Tick => IndInv'
<1> SUFFICES ASSUME IndInv, Tick PROVE IndInv'
  OBVIOUS
<1>0. client \in Client /\ app \in App /\ granted \subseteq Id
  BY Zenon DEF IndInv, TypeOK
<1>1. Awake /\ client' = Aged(client) /\ app' = Older(app) /\ granted' = granted
  BY Zenon DEF Tick, Awake
<1>2. /\ client' \in Client
      /\ client'.waiting_for_response = client.waiting_for_response
      /\ client'.response_to_wait_for = client.response_to_wait_for
      /\ client'.message_buffer = client.message_buffer
      /\ client'.message_id = client.message_id
      /\ client'.got_puback = client.got_puback
      /\ client'.response_retries = client.response_retries
      /\ client'.response_timer = Age(client.response_timer, TRetry)
  BY <1>0, <1>1, AgedFacts, SMT
<1>3. /\ app' \in App
      /\ app'.pc = app.pc
      /\ app'.rx_ok = app.rx_ok
      /\ app'.state = app.state
      /\ app'.dead = app.dead
      /\ app'.puback_pass_hack = app.puback_pass_hack
      /\ app'.runtime = Age(app.runtime, RuntimeTimeout)
  BY <1>0, <1>1, OlderFacts, SMT
<1>4. TypeOK'
  BY <1>0, <1>1, <1>2, <1>3, Zenon DEF TypeOK
<1>5. RetransmitsTheRequest'
  BY <1>1, <1>2, Zenon DEF IndInv, RetransmitsTheRequest
<1>6. Phase'
  BY <1>1, <1>2, <1>3, Zenon DEF IndInv, Phase
<1>7. Timing'
  <2>1. SUFFICES ASSUME client'.waiting_for_response,
                        client'.response_to_wait_for # "CONNACK"
                 PROVE  /\ client'.response_retries \in {NRetry - 1, NRetry}
                        /\ client'.response_timer <= app'.runtime
                        /\ client'.response_retries = NRetry - 1 =>
                              \/ app'.runtime > RuntimeTimeout
                              \/ app'.runtime >= client'.response_timer + TRetry + 1
    BY Zenon DEF Timing
  <2>2. /\ client.response_retries \in {NRetry - 1, NRetry}
        /\ client.response_timer <= app.runtime
        /\ client.response_retries = NRetry - 1 =>
              \/ app.runtime > RuntimeTimeout
              \/ app.runtime >= client.response_timer + TRetry + 1
    BY <1>1, <1>2, <2>1, Zenon DEF IndInv, Timing
  <2>3. client.response_timer \in 0..TRetry + 1 /\ app.runtime \in 0..RuntimeTimeout + 1
    BY <1>0, Zenon DEF Client, App
  <2>. QED
    BY <1>2, <1>3, <2>2, <2>3, MqttSnAssumption, LeafAppAssumption, SMT DEF Age
<1>8. RoutineSleepIffPublished'
  BY <1>1, <1>3, Zenon DEF RoutineSleepIffPublished, Awake
<1>. QED  BY <1>4, <1>5, <1>6, <1>7, <1>8, Zenon DEF IndInv

\* The steps that end a boot other than by its third pass.
LEMMA EndInv == IndInv /\ (NoRadio \/ GiveUpBoot \/ RegisterFails) => IndInv'
<1> SUFFICES ASSUME IndInv, NoRadio \/ GiveUpBoot \/ RegisterFails PROVE IndInv'
  OBVIOUS
<1>0. TypeOK /\ app \in App
  BY Zenon DEF IndInv, TypeOK
<1>1. app.state \in {"SENT_CONNECT", "WAIT_PUBACK"}
  BY <1>0, Zenon DEF App
<1>2. CASE NoRadio
  <2>1. "noradio" \in SleepKind
    BY DEF SleepKind
  <2>2. Sleep("noradio")
    BY <1>2, Zenon DEF NoRadio
  <2>3. app.state # "WAIT_PUBACK"
    BY <1>2, Zenon DEF NoRadio, IndInv, Phase, Awake
  <2>. QED  BY <1>0, <2>1, <2>2, <2>3, SleepStep, Zenon
<1>3. CASE GiveUpBoot
  <2> DEFINE kind == TooLongKind(app)
  <2>1. kind \in SleepKind
    BY DEF SleepKind, TooLongKind
  <2>2. app.pc = "tail" /\ Sleep(kind)
    BY <1>3, Zenon DEF GiveUpBoot
  <2>3. app.state = "SENT_CONNECT" => app.puback_pass_hack = 0
    BY <2>2, Zenon DEF IndInv, Phase, Awake
  <2>4. kind = "routine" <=> app.state = "WAIT_PUBACK"
    BY <1>1, <2>3, SMT DEF TooLongKind
  <2> HIDE DEF kind
  <2>. QED  BY <1>0, <2>1, <2>2, <2>4, SleepStep, Zenon
<1>4. CASE RegisterFails
  <2>1. "fault" \in SleepKind
    BY DEF SleepKind
  <2>2. Sleep("fault") /\ app.state = "SENT_CONNECT"
    BY <1>4, Zenon DEF RegisterFails, MustRegister
  <2>. QED  BY <1>0, <2>1, <2>2, SleepStep, Zenon
<1>. QED  BY <1>2, <1>3, <1>4

\* IndInv is inductive.
LEMMA NextInv == IndInv /\ [Next]_vars => IndInv'
<1> SUFFICES ASSUME IndInv, [Next]_vars PROVE IndInv'
  OBVIOUS
<1>1. CASE Boot
  BY <1>1, BootInv
<1>2. CASE TryReceive
  BY <1>2, TryReceiveInv
<1>3. CASE NoRadio \/ GiveUpBoot \/ RegisterFails
  BY <1>3, EndInv
<1>4. CASE Ignore
  BY <1>4, IgnoreInv
<1>5. CASE KeepWaiting
  BY <1>5, KeepWaitingInv
<1>6. CASE Register
  BY <1>6, RegisterInv
<1>7. CASE Publish
  BY <1>7, PublishInv
<1>8. CASE CountPass
  BY <1>8, CountPassInv
<1>9. CASE Tick
  BY <1>9, TickInv
<1>10. CASE UNCHANGED vars
  BY <1>10, Zenon DEF vars, IndInv, TypeOK, RetransmitsTheRequest, Phase, Timing,
                      RoutineSleepIffPublished, Awake
<1>. QED
  BY <1>1, <1>2, <1>3, <1>4, <1>5, <1>6, <1>7, <1>8, <1>9, <1>10, Zenon DEF Next, Tail

\* Every reachable state of a leaf node satisfies the inductive invariant,
\* whatever messages its radio hears and in whatever order.
THEOREM Invariance == Spec => []IndInv
<1>1. Init => IndInv
  BY InitInv
<1>2. IndInv /\ [Next]_vars => IndInv'
  BY NextInv
<1>. QED  BY <1>1, <1>2, PTL DEF Spec

\* The client object and the globals of leaf.ino keep their types: in
\* particular the topic table is never indexed past its end by regack_handler,
\* and puback_pass_hack never exceeds three.
THEOREM TypeCorrect == Spec => []TypeOK
<1>1. IndInv => TypeOK
  BY DEF IndInv
<1>. QED  BY <1>1, Invariance, PTL

\* As long as the client waits for a response, message_buffer holds the request
\* that this response answers, so wait_for_response retransmits that request
\* and regack_handler compares with its message id.
THEOREM RequestKept == Spec => []RetransmitsTheRequest
<1>1. IndInv => RetransmitsTheRequest
  BY DEF IndInv
<1>. QED  BY <1>1, Invariance, PTL

\* A REGISTER or PUBLISH is retransmitted at most once before the deadline of
\* the boot strikes, and its budget neither runs out nor wraps.
THEOREM RetriesBounded == Spec => []OneRetransmission
<1>1. IndInv => OneRetransmission
  BY Zenon DEF IndInv, Timing, OneRetransmission
<1>. QED  BY <1>1, Invariance, PTL

\* A counted PUBACK came after this boot's PUBLISH and cannot be missed by the
\* early returns of loop().
THEOREM PubackSound == Spec => []PubackEndsTheBoot
<1>1. IndInv => PubackEndsTheBoot
  <2> SUFFICES ASSUME IndInv, Awake, client.got_puback
               PROVE  app.state = "WAIT_PUBACK" /\ ~client.waiting_for_response
    BY Zenon DEF PubackEndsTheBoot
  <2>1. app.state \in {"SENT_CONNECT", "WAIT_PUBACK"}
    BY Zenon DEF IndInv, TypeOK, App
  <2>. QED  BY <2>1, Zenon DEF IndInv, Phase
<1>. QED  BY <1>1, Invariance, PTL

\* The long routine sleep is taken exactly by the boots that published.
THEOREM SleepKinds == Spec => []RoutineSleepIffPublished
<1>1. IndInv => RoutineSleepIffPublished
  BY DEF IndInv
<1>. QED  BY <1>1, Invariance, PTL

-----------------------------------------------------------------------------
(* Where a published topic id comes from *)

\* Only a REGACK for the outstanding REGISTER enters the first topic.
LEMMA HearTopic ==
    ASSUME IndInv, TopicOrigin, Listens, NEW m \in Message, m.topic_id # NoTopic,
           Heard(client, m, client'), app' = Received(app, TRUE),
           granted' = granted \cup Grants(client, m)
    PROVE  TopicOrigin'
<1>1. client \in Client /\ app \in App /\ app.pc = "rx" /\ Awake
  BY Zenon DEF IndInv, TypeOK, Listens, Awake
<1>2. /\ app'.pc = "tail"
      /\ app'.rx_ok
      /\ app'.state = app.state
      /\ app'.registered_topic_id = app.registered_topic_id
  BY <1>1, PassFacts, Zenon
<1>3. client'.response_buffer.topic_id # NoTopic
  BY SMT DEF Heard
<1>4. ASSUME app.state = "SENT_CONNECT", client'.topic_count > 0
      PROVE  /\ ~client'.waiting_for_response
             /\ client'.topic_table[0] \in granted'
             /\ client'.topic_table[0] # NoTopic
  <2>1. client.topic_count = 0
    <3>1. client.topic_count \in 0..MaxTopics
      BY <1>1, Zenon DEF Client
    <3>2. ~(client.topic_count > 0)
      BY <1>1, <1>4, Zenon DEF TopicOrigin
    <3>. QED  BY <3>1, <3>2, MqttSnAssumption
  <2>2. client'.topic_count # client.topic_count
    BY <1>4, <2>1
  <2>3. /\ ~client'.waiting_for_response
        /\ client.waiting_for_response
        /\ client.response_to_wait_for = "REGACK"
        /\ m.type = "REGACK"
        /\ m.code = 0
        /\ m.message_id = client.message_id
        /\ client'.topic_table[0] = m.topic_id
    BY <2>1, <2>2, Zenon DEF Heard
  <2>4. /\ client.message_buffer.type = "REGISTER"
        /\ client.message_buffer.message_id = client.message_id
    BY <1>1, <2>3, RequestForFacts, SMT DEF IndInv, RetransmitsTheRequest
  <2>5. Grants(client, m) = {m.topic_id}
    BY <2>3, <2>4, Zenon DEF Grants
  <2>. QED  BY <2>3, <2>5
<1>5. app.state = "WAIT_PUBACK" => app.registered_topic_id \in granted'
  <2>1. app.state = "WAIT_PUBACK" => app.registered_topic_id \in granted
    BY <1>1, Zenon DEF TopicOrigin
  <2>. QED  BY <2>1
<1>. QED  BY <1>2, <1>3, <1>4, <1>5, Zenon DEF TopicOrigin, Awake

\* A step that leaves the topics alone, taken when there is none to publish.
LEMMA NoTopicYet ==
    ASSUME TopicOrigin, Awake, granted' = granted,
           client'.topic_count = client.topic_count,
           client'.response_buffer = client.response_buffer,
           app'.state = app.state,
           app'.registered_topic_id = app.registered_topic_id,
           app.state = "SENT_CONNECT" => ~(client.topic_count > 0)
    PROVE  TopicOrigin'
BY Zenon DEF TopicOrigin

\* Against peers that do not use the reserved id, TopicOrigin is inductive
\* together with IndInv.
LEMMA TopicStep ==
    ASSUME HonestIds, IndInv, TopicOrigin, [Next]_vars
    PROVE  TopicOrigin'
<1>0. client \in Client /\ app \in App
  BY Zenon DEF IndInv, TypeOK
<1>1. CASE app'.pc = "asleep"
  BY <1>1, Zenon DEF TopicOrigin, Awake
<1>2. CASE Boot
  <2>1. PICK dead \in BOOLEAN, t \in 0..SetupTicks :
            client' = Setup(dead, t) /\ app' = Started(dead)
    BY <1>2, Zenon DEF Boot
  <2>2. client'.topic_count = 0 /\ client'.response_buffer = Zeroed
    BY <2>1, SetupFacts, SMT
  <2>3. app'.state = "SENT_CONNECT"
    BY <2>1, StartedFacts, Zenon
  <2>4. client'.response_buffer.topic_id # NoTopic
    <3>1. Zeroed.topic_id = 0
      BY Zenon DEF Zeroed, Msg
    <3>2. NoTopic # 0
      <4>1. Radix * Radix >= 2 * Radix
        BY MqttSnAssumption
      <4>. QED  BY <4>1, MqttSnAssumption DEF NoTopic, IdMod
    <3>. QED  BY <2>2, <3>1, <3>2, Zenon
  <2>5. ~(client'.topic_count > 0)
    BY <2>2
  <2>. QED  BY <2>3, <2>4, <2>5, Zenon DEF TopicOrigin
<1>3. CASE HearMessage
  <2>1. PICK m \in Inputs, index \in Index :
            /\ client' = parse(Quiet(client), m, index)
            /\ granted' = granted \cup Grants(client, m)
    BY <1>3, Zenon DEF HearMessage
  <2>2. m \in Message /\ m.topic_id # NoTopic
    BY InputsAssumption DEF HonestIds
  <2>3. Heard(client, m, client')
    <3>1. Heard(client, m, parse(Quiet(client), m, index))
      BY <1>0, <2>2, ParseFacts, Zenon
    <3>. QED  BY <2>1, <3>1, Zenon
  <2>4. Listens /\ app' = Received(app, TRUE)
    BY <1>3, Zenon DEF HearMessage
  <2>. QED  BY <2>1, <2>2, <2>3, <2>4, HearTopic, Zenon
<1>4. CASE HearHello
  <2> DEFINE m == client.response_buffer
  <2>1. PICK index \in Index : client' = parse_stale(Quiet(client), index)
    BY <1>4, Zenon DEF HearHello
  <2>2. /\ Listens /\ app' = Received(app, TRUE)
        /\ granted' = granted \cup Grants(client, m)
    BY <1>4, Zenon DEF HearHello
  <2>3. m \in Message
    BY <1>0, Zenon DEF Client
  <2>4. m.topic_id # NoTopic
    BY <2>2, Zenon DEF TopicOrigin, Listens, Awake
  <2>5. Heard(client, m, client')
    <3>1. Heard(client, m, parse_stale(Quiet(client), index))
      BY <1>0, <2>3, ParseFacts, Zenon
    <3>. QED  BY <2>1, <3>1, Zenon
  <2> HIDE DEF m
  <2>. QED  BY <2>2, <2>3, <2>4, <2>5, HearTopic, Zenon
<1>5. CASE HearNothing
  <2>1. /\ app.pc = "rx"
        /\ client' = Quiet(client)
        /\ app' = Received(app, FALSE)
        /\ granted' = granted
    BY <1>5, Zenon DEF HearNothing, Listens
  <2>2. /\ client'.topic_count = client.topic_count
        /\ client'.response_buffer = client.response_buffer
    BY <1>0, <2>1, QuietFacts, Zenon
  <2>3. /\ app'.state = app.state
        /\ app'.registered_topic_id = app.registered_topic_id
    BY <1>0, <2>1, PassFacts, Zenon
  <2>4. Awake /\ (app.state = "SENT_CONNECT" => ~(client.topic_count > 0))
    BY <2>1, Zenon DEF TopicOrigin, Awake
  <2>. QED  BY <2>1, <2>2, <2>3, <2>4, NoTopicYet, Zenon
<1>6. CASE Ignore
  <2>1. /\ app.pc = "tail"
        /\ ~app.rx_ok
        /\ client' = Quiet(client)
        /\ app' = NextPass(app)
        /\ granted' = granted
    BY <1>6, Zenon DEF Ignore, Ignores
  <2>2. /\ client'.topic_count = client.topic_count
        /\ client'.response_buffer = client.response_buffer
    BY <1>0, <2>1, QuietFacts, Zenon
  <2>3. /\ app'.state = app.state
        /\ app'.registered_topic_id = app.registered_topic_id
    BY <1>0, <2>1, PassFacts, Zenon
  <2>4. Awake /\ (app.state = "SENT_CONNECT" => ~(client.topic_count > 0))
    BY <2>1, Zenon DEF TopicOrigin, Awake
  <2>. QED  BY <2>1, <2>2, <2>3, <2>4, NoTopicYet, Zenon
<1>7. CASE KeepWaiting
  <2>1. /\ app.pc = "tail"
        /\ ~TooLong(app)
        /\ Checked(client).waiting_for_response
        /\ client' = Checked(client)
        /\ app' = NextPass(app)
        /\ granted' = granted
    BY <1>7, Zenon DEF KeepWaiting, Waits, StillWaiting
  <2>2. /\ client'.topic_count = client.topic_count
        /\ client'.response_buffer = client.response_buffer
    BY <1>0, <2>1, CheckedFacts, SMT
  <2>3. /\ app'.state = app.state
        /\ app'.registered_topic_id = app.registered_topic_id
    BY <1>0, <2>1, PassFacts, Zenon
  <2>4. Awake
    BY <2>1, Zenon DEF Awake
  <2>5. client.waiting_for_response
    BY <2>1, <2>4, CheckedInv, Zenon
  <2>6. app.state = "SENT_CONNECT" => ~(client.topic_count > 0)
    BY <2>4, <2>5, Zenon DEF TopicOrigin
  <2>. QED  BY <2>1, <2>2, <2>3, <2>4, <2>6, NoTopicYet, Zenon
<1>8. CASE Register
  <2> DEFINE d == Checked(client)
  <2>1. /\ app.pc = "tail"
        /\ find_topic_id(d) = NoTopic
        /\ CanRegister(d)
        /\ client' = register_topic(d)
        /\ app' = NextPass(app)
        /\ granted' = granted
    BY <1>8, Zenon DEF Register, MustRegister
  <2>2. /\ d \in Client
        /\ d.topic_count = client.topic_count
        /\ d.topic_table = client.topic_table
        /\ d.response_buffer = client.response_buffer
    BY <1>0, CheckedFacts, SMT
  <2> HIDE DEF d
  <2>3. Keeps(d, client')
    BY <2>1, <2>2, RegisterFacts, SMT
  <2>4. /\ client'.topic_count = client.topic_count
        /\ client'.response_buffer = client.response_buffer
    BY <2>2, <2>3, Zenon DEF Keeps
  <2>5. /\ app'.state = app.state
        /\ app'.registered_topic_id = app.registered_topic_id
    BY <1>0, <2>1, PassFacts, Zenon
  <2>6. Awake
    BY <2>1, Zenon DEF Awake
  <2>7. app.state = "SENT_CONNECT" => ~(client.topic_count > 0)
    <3>1. client.topic_count > 0 => client.topic_table[0] = NoTopic
      BY <2>1, <2>2, Zenon DEF find_topic_id
    <3>. QED  BY <2>6, <3>1, Zenon DEF TopicOrigin
  <2>. QED  BY <2>1, <2>4, <2>5, <2>6, <2>7, NoTopicYet, Zenon
<1>9. CASE Publish
  <2> DEFINE d == Checked(client)
  <2>1. /\ app.pc = "tail"
        /\ app.state = "SENT_CONNECT"
        /\ ~StillWaiting(client)
        /\ find_topic_id(d) # NoTopic
        /\ client' = publish(d, find_topic_id(d))
        /\ app' = Published(client, app)
        /\ granted' = granted
    BY <1>9, Zenon DEF Publish, MustPublish, Proceeds
  <2>2. /\ d \in Client
        /\ d.topic_count = client.topic_count
        /\ d.topic_table = client.topic_table
        /\ d.response_buffer = client.response_buffer
        /\ d.got_puback = client.got_puback
    BY <1>0, CheckedFacts, SMT
  <2>3. app'.state = "WAIT_PUBACK" /\ app'.registered_topic_id = find_topic_id(d)
    BY <1>0, <2>1, PublishedFacts, SMT
  <2>4. Awake /\ ~client.got_puback
    BY <2>1, Zenon DEF Awake, IndInv, Phase
  <2>5. ~d.waiting_for_response
    BY <2>1, <2>2, <2>4, Zenon DEF StillWaiting
  <2> HIDE DEF d
  <2>6. client'.response_buffer = client.response_buffer
    <3>1. find_topic_id(d) \in Id
      BY <2>2, FindFacts, SMT
    <3>2. Keeps(d, client')
      BY <2>1, <2>2, <2>5, <3>1, PublishFacts, SMT
    <3>. QED  BY <2>2, <3>2, Zenon DEF Keeps
  <2>7. find_topic_id(d) \in granted
    <3>1. client.topic_count > 0 /\ find_topic_id(d) = client.topic_table[0]
      BY <2>1, <2>2, Zenon DEF find_topic_id
    <3>. QED  BY <2>1, <2>4, <3>1, Zenon DEF TopicOrigin
  <2>8. client'.response_buffer.topic_id # NoTopic
    BY <2>4, <2>6, Zenon DEF TopicOrigin
  <2>9. app'.state # "SENT_CONNECT"
    BY <2>3
  <2>. QED  BY <2>1, <2>3, <2>7, <2>8, <2>9, Zenon DEF TopicOrigin
<1>10. CASE CountPass /\ app'.pc # "asleep"
  <2>1. /\ app.pc = "tail"
        /\ app.state = "WAIT_PUBACK"
        /\ app' = PassCounted(client, app)
        /\ client' = Checked(client)
        /\ granted' = granted
    BY <1>10, Zenon DEF CountPass, CountsPass
  <2>2. Awake
    BY <2>1, Zenon DEF Awake
  <2>3. app.puback_pass_hack < 3
    BY <2>2, Zenon DEF IndInv, Phase
  <2>4. /\ app'.state = app.state
        /\ app'.registered_topic_id = app.registered_topic_id
    BY <1>0, <1>10, <2>1, <2>3, PassCountedFacts, SMT
  <2>5. /\ client'.topic_count = client.topic_count
        /\ client'.response_buffer = client.response_buffer
    BY <1>0, <2>1, CheckedFacts, SMT
  <2>6. app.state # "SENT_CONNECT"
    BY <2>1
  <2>. QED  BY <2>1, <2>2, <2>4, <2>5, <2>6, NoTopicYet, Zenon
<1>11. CASE Tick
  <2>1. Awake /\ client' = Aged(client) /\ app' = Older(app) /\ granted' = granted
    BY <1>11, Zenon DEF Tick, Awake
  <2>2. /\ client'.waiting_for_response = client.waiting_for_response
        /\ client'.topic_count = client.topic_count
        /\ client'.topic_table = client.topic_table
        /\ client'.response_buffer = client.response_buffer
    BY <1>0, <2>1, AgedFacts, SMT
  <2>3. /\ app'.pc = app.pc
        /\ app'.rx_ok = app.rx_ok
        /\ app'.state = app.state
        /\ app'.registered_topic_id = app.registered_topic_id
    BY <1>0, <2>1, OlderFacts, SMT
  <2>. QED  BY <2>1, <2>2, <2>3, Zenon DEF TopicOrigin
<1>12. CASE UNCHANGED vars
  BY <1>12, Zenon DEF vars, TopicOrigin, Awake
<1>13. CASE NoRadio \/ GiveUpBoot \/ RegisterFails
  <2>1. PICK kind \in SleepKind : Sleep(kind)
    BY <1>13, SMT DEF NoRadio, GiveUpBoot, RegisterFails, TooLongKind, SleepKind
  <2>2. app'.pc = "asleep"
    BY <1>0, <2>1, DeepSleepFacts, SMT DEF Sleep
  <2>. QED  BY <1>1, <2>2
<1>. QED
  BY <1>1, <1>2, <1>3, <1>4, <1>5, <1>6, <1>7, <1>8, <1>9, <1>10, <1>11, <1>12,
     <1>13, Zenon DEF Next, TryReceive, Tail

\* A node that sleeps has no topic to account for.
LEMMA InitTopic == Init => TopicOrigin
<1> SUFFICES ASSUME Init PROVE TopicOrigin
  OBVIOUS
<1>1. Started(FALSE) \in App
  BY StartedFacts, Zenon
<1>2. app.pc = "asleep"
  <2>1. app = DeepSleep(Started(FALSE), "none") /\ "none" \in SleepKind
    BY Zenon DEF Init, SleepKind
  <2>. QED  BY <1>1, <2>1, DeepSleepFacts, Zenon
<1>. QED  BY <1>2, Zenon DEF TopicOrigin, Awake

\* A leaf whose peers do not use the reserved id 0xffff publishes only under a
\* topic id that a REGACK granted to the REGISTER it had outstanding.
THEOREM TopicGranted == HonestIds => (Spec => []PublishesGrantedTopic)
<1> SUFFICES ASSUME HonestIds PROVE Spec => []PublishesGrantedTopic
  OBVIOUS
<1>1. Init => TopicOrigin
  BY InitTopic
<1>2. IndInv /\ TopicOrigin /\ [Next]_vars => TopicOrigin'
  BY TopicStep
<1>3. TopicOrigin => PublishesGrantedTopic
  BY Zenon DEF TopicOrigin, PublishesGrantedTopic
<1>. QED  BY <1>1, <1>2, <1>3, Invariance, PTL DEF Spec

-----------------------------------------------------------------------------
(* Refinement: what a leaf does is what LeafCycle promises *)

\* What the steps of loop() do to the fields that LeafCycle sees.
LEMMA SeenFacts ==
    ASSUME NEW a \in App, NEW ok \in BOOLEAN, NEW kind \in SleepKind
    PROVE  /\ Received(a, ok).slept = a.slept
           /\ NextPass(a).slept = a.slept
           /\ Older(a).slept = a.slept
           /\ DeepSleep(a, kind).registered_topic_id = a.registered_topic_id
<1>1. Received(a, ok).slept = a.slept
  BY Zenon DEF Received, App
<1>2. NextPass(a).slept = a.slept
  BY Zenon DEF NextPass, App
<1>3. Older(a).slept = a.slept
  <2> DEFINE r == Age(a.runtime, RuntimeTimeout)
  <2> HIDE DEF r
  <2>1. Older(a) = [a EXCEPT !.runtime = r]
    BY Zenon DEF Older, r
  <2>. QED  BY <2>1, Zenon DEF App
<1>4. DeepSleep(a, kind).registered_topic_id = a.registered_topic_id
  BY Zenon DEF DeepSleep, App
<1>. QED  BY <1>1, <1>2, <1>3, <1>4

\* Publishing is not the end of the boot: the kind of sleep stays open.
LEMMA SeenPublished ==
    ASSUME NEW c, NEW a \in App
    PROVE  Published(c, a).slept = a.slept
<1> DEFINE t == find_topic_id(Checked(c))
<1> HIDE DEF t
<1>1. Published(c, a) = [a EXCEPT !.pc = "rx", !.registered_topic_id = t,
                                  !.state = "WAIT_PUBACK", !.runtime = 0]
  BY Zenon DEF Published, t
<1>. QED  BY <1>1, Zenon DEF App

\* A counted pass keeps the topic of the reading, and decides on the sleep only
\* when it ends the boot.
LEMMA SeenPassCounted ==
    ASSUME NEW c, NEW a \in App, a.puback_pass_hack < 3
    PROVE  LET b == PassCounted(c, a)
           IN  /\ b.registered_topic_id = a.registered_topic_id
               /\ b.pc # "asleep" => b.slept = a.slept
<1> DEFINE n == a.puback_pass_hack + 1
           e == [a EXCEPT !.puback_pass_hack = n]
<1>1. n \in 0..3
  <2>1. a.puback_pass_hack \in 0..3
    BY Zenon DEF App
  <2>. QED  BY <2>1
<1>2. \/ PassCounted(c, a) = DeepSleep(e, "routine")
      \/ PassCounted(c, a) = NextPass(e)
  BY Zenon DEF PassCounted
<1> HIDE DEF n
<1>3. /\ e \in App /\ e.registered_topic_id = a.registered_topic_id /\ e.slept = a.slept
  BY <1>1, ZenonT(60) DEF App
<1>4. "routine" \in SleepKind
  BY DEF SleepKind
<1> HIDE DEF e
<1>5. TRUE \in BOOLEAN
  OBVIOUS
<1>6. CASE PassCounted(c, a) = DeepSleep(e, "routine")
  <2>1. DeepSleep(e, "routine").pc = "asleep"
    BY <1>3, <1>4, DeepSleepFacts, SMT
  <2>2. DeepSleep(e, "routine").registered_topic_id = e.registered_topic_id
    BY <1>3, <1>4, <1>5, SeenFacts, Zenon
  <2>. QED  BY <1>3, <1>6, <2>1, <2>2, Zenon
<1>7. CASE PassCounted(c, a) = NextPass(e)
  <2>1. NextPass(e).registered_topic_id = e.registered_topic_id
    BY <1>3, <1>5, PassFacts, Zenon
  <2>2. NextPass(e).slept = e.slept
    BY <1>3, <1>4, <1>5, SeenFacts, Zenon
  <2>. QED  BY <1>3, <1>7, <2>1, <2>2, Zenon
<1>. QED  BY <1>2, <1>6, <1>7

\* A step that only adds to the offers, or adds nothing.
LEMMA OfferStep ==
    ASSUME app.pc # "asleep", app'.pc # "asleep", app'.state = app.state,
           app'.registered_topic_id = app.registered_topic_id,
           app'.slept = app.slept, granted \subseteq granted'
    PROVE  Cycle!Next
BY DEF Cycle!Next, Cycle!Offer

\* Every step of the leaf is a step of the cycle, or none.
LEMMA CycleStep ==
    ASSUME IndInv, TopicOrigin', [Next]_vars
    PROVE  [Cycle!Next]_(Cycle!vars)
<1>0. /\ client \in Client /\ app \in App /\ Phase
      /\ app.state \in {"SENT_CONNECT", "WAIT_PUBACK"}
      /\ app.puback_pass_hack \in 0..3
  BY Zenon DEF IndInv, TypeOK, App
<1>1. CASE Boot
  <2>1. PICK dead \in BOOLEAN : app' = Started(dead)
    BY <1>1, Zenon DEF Boot
  <2>2. /\ app'.pc = "rx" /\ app'.state = "SENT_CONNECT"
        /\ app'.registered_topic_id = NoTopic /\ app'.slept = "none"
    BY <2>1, Zenon DEF Started
  <2>3. app.pc = "asleep" /\ granted' = {}
    BY <1>1 DEF Boot
  <2>. QED  BY <2>2, <2>3 DEF Cycle!Next, Cycle!Wake
<1>2. CASE TryReceive
  <2>1. /\ app.pc = "rx" /\ granted \subseteq granted'
        /\ \E ok \in BOOLEAN : app' = Received(app, ok)
    <3>1. CASE HearMessage \/ HearHello
      BY <3>1 DEF HearMessage, HearHello, Listens
    <3>2. CASE HearNothing
      BY <3>2 DEF HearNothing, Listens
    <3>. QED  BY <1>2, <3>1, <3>2 DEF TryReceive
  <2>2. PICK ok \in BOOLEAN : app' = Received(app, ok)
    BY <2>1
  <2>3. /\ app'.pc = "tail" /\ app'.state = app.state
        /\ app'.registered_topic_id = app.registered_topic_id
    BY <1>0, <2>2, PassFacts, Zenon
  <2>4. "none" \in SleepKind
    BY DEF SleepKind
  <2>5. app'.slept = app.slept
    BY <1>0, <2>2, <2>4, SeenFacts, Zenon
  <2>. QED  BY <2>1, <2>3, <2>5, OfferStep
<1>3. CASE Ignore \/ KeepWaiting \/ Register
  <2>1. app.pc = "tail" /\ app' = NextPass(app) /\ granted' = granted
    BY <1>3, Zenon DEF Ignore, KeepWaiting, Register
  <2>2. TRUE \in BOOLEAN /\ "none" \in SleepKind
    BY DEF SleepKind
  <2>3. /\ app'.pc = "rx" /\ app'.state = app.state
        /\ app'.registered_topic_id = app.registered_topic_id /\ app'.slept = app.slept
    BY <1>0, <2>1, <2>2, PassFacts, SeenFacts, Zenon
  <2>. QED  BY <2>1, <2>3, OfferStep
<1>4. CASE NoRadio \/ GiveUpBoot \/ RegisterFails
  <2>1. PICK kind \in SleepKind :
           /\ Sleep(kind) /\ app.pc # "asleep"
           /\ \/ app.state = "WAIT_PUBACK" /\ kind = "routine"
              \/ app.state = "SENT_CONNECT" /\ kind \in SleepKind \ {"none", "routine"}
    <3>1. CASE NoRadio
      BY <1>0, <3>1, SMT DEF NoRadio, Phase, Awake, SleepKind
    <3>2. CASE GiveUpBoot
      BY <1>0, <3>2, SMT DEF GiveUpBoot, TooLongKind, Phase, Awake, SleepKind
    <3>3. CASE RegisterFails
      BY <3>3, SMT DEF RegisterFails, MustRegister, SleepKind
    <3>. QED  BY <1>4, <3>1, <3>2, <3>3
  <2>2. app' = DeepSleep(app, kind) /\ granted' = granted
    BY <2>1, Zenon DEF Sleep
  <2>3. /\ app'.pc = "asleep" /\ app'.slept = kind
        /\ app'.registered_topic_id = app.registered_topic_id
    <3>1. app'.pc = "asleep" /\ app'.slept = kind
      BY <1>0, <2>2, DeepSleepFacts, SMT
    <3>2. TRUE \in BOOLEAN
      OBVIOUS
    <3>3. app'.registered_topic_id = app.registered_topic_id
      BY <1>0, <2>2, <3>2, SeenFacts, Zenon
    <3>. QED  BY <3>1, <3>3
  <2>. QED  BY <2>1, <2>2, <2>3 DEF Cycle!Next, Cycle!Finish, Cycle!Abandon
<1>5. CASE Publish
  <2>1. app.pc = "tail" /\ app' = Published(client, app) /\ granted' = granted
    BY <1>5, Zenon DEF Publish
  <2>2. app.state = "SENT_CONNECT"
    BY <1>5, Zenon DEF Publish, MustPublish
  <2>3. app'.pc = "rx" /\ app'.state = "WAIT_PUBACK" /\ app'.slept = app.slept
    BY <1>0, <2>1, PublishedFacts, SeenPublished, SMT
  <2>4. app'.registered_topic_id \in granted
    BY <2>1, <2>3 DEF TopicOrigin, Awake
  <2>. QED  BY <2>1, <2>2, <2>3, <2>4 DEF Cycle!Next, Cycle!PublishReading
<1>6. CASE CountPass
  <2>1. app.pc = "tail" /\ app' = PassCounted(client, app) /\ granted' = granted
    BY <1>6, Zenon DEF CountPass
  <2>2. app.state = "WAIT_PUBACK"
    BY <1>6, Zenon DEF CountPass, CountsPass
  <2>3. app.puback_pass_hack < 3
    BY <1>0, <2>1 DEF Phase, Awake
  <2>4. /\ app'.state = app.state /\ app'.registered_topic_id = app.registered_topic_id
        /\ \/ app'.pc = "asleep" /\ app'.slept = "routine"
           \/ app'.pc = "rx" /\ app'.slept = app.slept
    <3>1. /\ app'.state = app.state
          /\ \/ app'.pc = "asleep" /\ app'.slept = "routine"
             \/ app'.pc = "rx"
      BY <1>0, <2>1, <2>3, PassCountedFacts, Zenon
    <3>2. /\ app'.registered_topic_id = app.registered_topic_id
          /\ app'.pc # "asleep" => app'.slept = app.slept
      BY <1>0, <2>1, <2>3, SeenPassCounted, Zenon
    <3>. QED  BY <3>1, <3>2
  <2>5. CASE app'.pc = "asleep"
    BY <2>1, <2>2, <2>4, <2>5 DEF Cycle!Next, Cycle!Finish
  <2>6. CASE app'.pc = "rx"
    BY <2>1, <2>4, <2>6, OfferStep
  <2>. QED  BY <2>4, <2>5, <2>6
<1>7. CASE Tick
  <2>1. app.pc # "asleep" /\ app' = Older(app) /\ granted' = granted
    BY <1>7, Zenon DEF Tick
  <2>2. TRUE \in BOOLEAN /\ "none" \in SleepKind
    BY DEF SleepKind
  <2>3. /\ app'.pc = app.pc /\ app'.state = app.state
        /\ app'.registered_topic_id = app.registered_topic_id /\ app'.slept = app.slept
    BY <1>0, <2>1, <2>2, OlderFacts, SeenFacts, Zenon
  <2>. QED  BY <2>1, <2>3, OfferStep
<1>8. CASE UNCHANGED vars
  BY <1>8 DEF vars, Cycle!vars
<1>. QED
  BY <1>1, <1>2, <1>3, <1>4, <1>5, <1>6, <1>7, <1>8, Zenon DEF Next, Tail

\* leaf.ino and the MQTT-SN client implement the safety of LeafCycle for every
\* environment that does not use the reserved id: one reading at most per
\* boot, under an offered topic id, and the sleep that belongs to it.
THEOREM ImplementsCycle == HonestIds => (Spec => Cycle!Safety)
<1> SUFFICES ASSUME HonestIds PROVE Spec => Cycle!Safety
  OBVIOUS
<1>1. Init => Cycle!Init
  <2> SUFFICES ASSUME Init PROVE Cycle!Init
    OBVIOUS
  <2>1. FALSE \in BOOLEAN /\ "none" \in SleepKind
    BY DEF SleepKind
  <2>2. Started(FALSE) \in App /\ Started(FALSE).registered_topic_id = NoTopic
    BY <2>1, StartedFacts, Zenon DEF Started
  <2>3. app = DeepSleep(Started(FALSE), "none") /\ granted = {}
    BY Zenon DEF Init
  <2>4. app.pc = "asleep" /\ app.slept = "none" /\ app.registered_topic_id = NoTopic
    BY <2>1, <2>2, <2>3, DeepSleepFacts, SeenFacts, Zenon
  <2>. QED  BY <2>3, <2>4 DEF Cycle!Init
<1>2. Init => TopicOrigin
  BY InitTopic
<1>3. IndInv /\ TopicOrigin /\ [Next]_vars => TopicOrigin'
  BY TopicStep
<1>4. IndInv /\ TopicOrigin' /\ [Next]_vars => [Cycle!Next]_(Cycle!vars)
  BY CycleStep
<1>. QED  BY <1>1, <1>2, <1>3, <1>4, Invariance, PTL DEF Spec, Cycle!Safety
=============================================================================
