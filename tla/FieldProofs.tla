---------------------------- MODULE FieldProofs ----------------------------
(***************************************************************************)
(* Theorems about leaves that share a channel with the gateway: for any    *)
(* number of them, whatever is lost, sent unasked or misread, an arbitrary *)
(* one of them behaves as module Leaf says; and one leaf alone publishes   *)
(* under its own topic and counts a PUBACK only for a PUBLISH that the     *)
(* broker took, provided no frame is misread as an acknowledgement.        *)
(***************************************************************************)
EXTENDS Field, LeafLemmas

-----------------------------------------------------------------------------
(* The channel *)

\* What travels over the channel are messages, and HELLO is none.
LEMMA TrafficFacts ==
    /\ Traffic \subseteq Message
    /\ Courtesies \subseteq Traffic
    /\ Hello \notin Message
    /\ \A m \in Chatter \cup Misread : m \in Traffic \cup {Hello}
<1>1. /\ {"CONNECT", "CONNACK", "PINGRESP", "WILLMSG", "REGISTER", "PUBLISH",
          "REGACK", "PUBACK"} \subseteq MsgType
      /\ "HELLO" \notin MsgType
  BY DEF MsgType, Unsolicited, Replies, Others
<1>2. {0} \subseteq Id /\ {0} \subseteq 0..1
  BY IdTypes
<1>3. (Chatter \cup Misread) \ {Hello} \subseteq Message
  BY FieldAssumption
<1>4. Traffic \subseteq Message
  BY <1>1, <1>2, <1>3 DEF Traffic, Message
<1>5. Courtesies \subseteq Traffic
  BY DEF Courtesies, Traffic
<1>6. Hello \notin Message
  BY <1>1 DEF Hello, Msg, Message
<1>7. \A m \in Chatter \cup Misread : m \in Traffic \cup {Hello}
  BY DEF Traffic
<1>. QED  BY <1>4, <1>5, <1>6, <1>7

\* What the gateway answers is traffic.  It sends a REGACK with the leaf's own
\* topic id, and a PUBACK only to a PUBLISH.
LEMMA AnswerFacts ==
    ASSUME NEW l \in Leaves, NEW m \in Message, NEW x \in Answer(l, m)
    PROVE  /\ x \in Traffic
           /\ x.type = "REGACK" => x.topic_id = TopicOf[l]
           /\ x.type = "PUBACK" => m.type = "PUBLISH"
<1>1. /\ TopicOf[l] \in Id /\ 0 \in Id /\ 0 \in 0..1
      /\ m.topic_id \in Id /\ m.message_id \in Id
  BY FieldAssumption, IdTypes DEF Message
<1>2. CASE m.type = "CONNECT"
  <2>1. x = Msg("CONNACK", 0, 0, 0)
    BY <1>2, Zenon DEF Answer
  <2>. QED  BY <2>1 DEF Msg, Traffic
<1>3. CASE m.type = "REGISTER"
  <2>1. x = Msg("REGACK", TopicOf[l], m.message_id, 0)
    BY <1>3, Zenon DEF Answer
  <2>. QED  BY <1>1, <2>1 DEF Msg, Traffic
<1>4. CASE m.type = "PUBLISH"
  <2>1. x = Msg("PUBACK", m.topic_id, m.message_id, 0)
    BY <1>4, Zenon DEF Answer
  <2>. QED  BY <1>1, <1>4, <2>1 DEF Msg, Traffic
<1>5. CASE m.type \notin {"CONNECT", "REGISTER", "PUBLISH"}
  BY <1>5, Zenon DEF Answer
<1>. QED  BY <1>2, <1>3, <1>4, <1>5

\* Frames taken by radios, given that they were at most one per radio before.
FramesOK(h) ==
    /\ h \in [Leaves -> SUBSET (Traffic \cup {Hello})]
    /\ \A k \in Leaves : h[k] # {} =>
          /\ app[k].pc = "rx"
          /\ ~app[k].dead
          /\ \E f \in Traffic \cup {Hello} : h[k] = {f}

\* A transmission reaches only radios that listen, and fills them.
LEMMA HeardByFacts ==
    ASSUME NEW h, FramesOK(h), NEW from, NEW audience \in Audiences(from),
           NEW f \in Traffic \cup {Hello}
    PROVE  /\ FramesOK(HeardBy(h, audience, f))
           /\ \A k \in Leaves : \/ HeardBy(h, audience, f)[k] = h[k]
                                \/ /\ HeardBy(h, audience, f)[k] = {f}
                                   /\ k \notin from
<1>1. \A k \in audience : k \in Leaves /\ k \notin from /\ Listening(k)
  BY DEF Audiences
<1> DEFINE g == HeardBy(h, audience, f)
<1>2. g = [k \in Leaves |-> IF k \in audience THEN {f} ELSE h[k]]
  BY DEF HeardBy
<1> HIDE DEF g
<1>3. g \in [Leaves -> SUBSET (Traffic \cup {Hello})]
  BY <1>2 DEF FramesOK
<1>4. ASSUME NEW k \in Leaves
      PROVE  \/ g[k] = h[k]
             \/ g[k] = {f} /\ k \notin from /\ app[k].pc = "rx" /\ ~app[k].dead
  BY <1>1, <1>2 DEF Listening
<1>. QED  BY <1>3, <1>4 DEF FramesOK, g

\* What a transmission of leaf l leaves behind.
LEMMA AirFacts ==
    ASSUME NEW l \in Leaves, NEW sent \in SUBSET Traffic, NEW h, NEW t,
           FramesOK(h), owed \subseteq Traffic, t \in [Leaves -> SUBSET Id],
           Air(l, sent, h, t)
    PROVE  /\ FramesOK(heard')
           /\ heard'[l] = h[l]
           /\ owed' \subseteq Traffic
           /\ took' \in [Leaves -> SUBSET Id]
<1>1. FramesOK(heard') /\ heard'[l] = h[l]
  <2>1. CASE sent = {}
    BY <2>1 DEF Air
  <2>2. CASE sent # {}
    <3> DEFINE f == CHOOSE m \in sent : TRUE
    <3>1. f \in Traffic \cup {Hello}
      BY <2>2
    <3>2. PICK audience \in Audiences({l}) : heard' = HeardBy(h, audience, f)
      BY <2>2 DEF Air
    <3> HIDE DEF f
    <3>. QED  BY <3>1, <3>2, HeardByFacts
  <2>. QED  BY <2>1, <2>2
<1>2. PICK up \in SUBSET sent :
        /\ owed' = owed \cup UNION {Answer(l, m) : m \in up}
        /\ took' = [t EXCEPT ![l] = @ \cup
              {m.topic_id : m \in {x \in up : x.type = "PUBLISH"}}]
  BY DEF Air
<1>3. \A m \in up : m \in Message
  BY TrafficFacts
<1>4. owed' \subseteq Traffic
  BY <1>2, <1>3, AnswerFacts
<1>5. took' \in [Leaves -> SUBSET Id]
  <2>1. \A m \in up : m.topic_id \in Id
    BY <1>3 DEF Message
  <2>. QED  BY <1>2, <2>1
<1>. QED  BY <1>1, <1>4, <1>5

-----------------------------------------------------------------------------
(* The leaves *)

\* The tail of a pass takes exactly one of its branches.
LEMMA TailBranches ==
    ASSUME NEW c, NEW a \in App
    PROVE  \/ /\ TooLong(a)
              /\ TailClient(c, a) = MQTTSN
              /\ TailApp(c, a) = DeepSleep(a, TooLongKind(a))
           \/ /\ Ignores(a)
              /\ TailClient(c, a) = Quiet(c)
              /\ TailApp(c, a) = NextPass(a)
           \/ /\ Waits(c, a)
              /\ TailClient(c, a) = Checked(c)
              /\ TailApp(c, a) = NextPass(a)
           \/ /\ MustRegister(c, a)
              /\ CanRegister(Checked(c))
              /\ TailClient(c, a) = register_topic(Checked(c))
              /\ TailApp(c, a) = NextPass(a)
           \/ /\ MustRegister(c, a)
              /\ ~CanRegister(Checked(c))
              /\ TailClient(c, a) = MQTTSN
              /\ TailApp(c, a) = DeepSleep(a, "fault")
           \/ /\ MustPublish(c, a)
              /\ TailClient(c, a) = publish(Checked(c), find_topic_id(Checked(c)))
              /\ TailApp(c, a) = Published(c, a)
           \/ /\ CountsPass(c, a)
              /\ TailClient(c, a) = IF PassCounted(c, a).pc = "asleep"
                                    THEN MQTTSN ELSE Checked(c)
              /\ TailApp(c, a) = PassCounted(c, a)
<1>1. a.state \in {"SENT_CONNECT", "WAIT_PUBACK"}
  BY Zenon DEF App
<1>2. "SENT_CONNECT" # "WAIT_PUBACK"
  OBVIOUS
<1> DEFINE late == TooLong(a)
           none == Ignores(a)
           wait == Waits(c, a)
           reg == MustRegister(c, a)
           can == CanRegister(Checked(c))
           pub == MustPublish(c, a)
           cnt == CountsPass(c, a)
<1>3. /\ late \/ none \/ wait \/ reg \/ pub \/ cnt
      /\ late => ~none /\ ~wait /\ ~reg /\ ~pub /\ ~cnt
      /\ none => ~wait /\ ~reg /\ ~pub /\ ~cnt
      /\ wait => ~reg /\ ~pub /\ ~cnt
      /\ reg => ~pub /\ ~cnt
      /\ pub => ~cnt
  BY <1>1, <1>2, Zenon DEF Ignores, Waits, Proceeds, MustRegister, MustPublish, CountsPass
<1>4. TailClient(c, a) =
        CASE late -> MQTTSN
          [] none -> Quiet(c)
          [] wait -> Checked(c)
          [] reg /\ can -> register_topic(Checked(c))
          [] reg /\ ~can -> MQTTSN
          [] pub -> publish(Checked(c), find_topic_id(Checked(c)))
          [] cnt -> IF PassCounted(c, a).pc = "asleep" THEN MQTTSN ELSE Checked(c)
  BY Zenon DEF TailClient
<1>5. TailApp(c, a) =
        CASE late -> DeepSleep(a, TooLongKind(a))
          [] none \/ wait -> NextPass(a)
          [] reg /\ can -> NextPass(a)
          [] reg /\ ~can -> DeepSleep(a, "fault")
          [] pub -> Published(c, a)
          [] cnt -> PassCounted(c, a)
  BY Zenon DEF TailApp
<1> HIDE DEF late, none, wait, reg, can, pub, cnt
<1>6. CASE late
  BY <1>3, <1>4, <1>5, <1>6, Zenon DEF late
<1>7. CASE none
  BY <1>3, <1>4, <1>5, <1>7, Zenon DEF none
<1>8. CASE wait
  BY <1>3, <1>4, <1>5, <1>8, Zenon DEF wait
<1>9. CASE reg /\ can
  BY <1>3, <1>4, <1>5, <1>9, Zenon DEF reg, can
<1>10. CASE reg /\ ~can
  BY <1>3, <1>4, <1>5, <1>10, Zenon DEF reg, can
<1>11. CASE pub
  BY <1>3, <1>4, <1>5, <1>11, Zenon DEF pub
<1>12. CASE cnt
  BY <1>3, <1>4, <1>5, <1>12, Zenon DEF cnt
<1>. QED  BY <1>3, <1>6, <1>7, <1>8, <1>9, <1>10, <1>11, <1>12, Zenon

\* A leaf keeps its types and what it transmits is traffic.
Healthy(c, a) ==
    /\ c \in Client
    /\ a \in App
    /\ c.sent \subseteq Traffic
    /\ a.pc # "asleep" =>
          c.message_buffer \in Traffic /\ a.puback_pass_hack < 3

\* A leaf that goes to sleep loses its memory.
LEMMA AsleepHealthy ==
    ASSUME NEW a \in App, a.pc = "asleep"
    PROVE  Healthy(MQTTSN, a)
<1>1. MQTTSN.sent = {}
  BY Zenon DEF MQTTSN
<1>. QED  BY <1>1, MQTTSNType DEF Healthy

\* A request for a topic id, and a publication, are traffic.
LEMMA RequestTraffic ==
    ASSUME NEW i \in Id, NEW t \in Id
    PROVE  /\ Msg("REGISTER", 0, i, 0) \in Traffic
           /\ Msg("PUBLISH", t, i, 1) \in Traffic
           /\ Msg("CONNECT", 0, 0, 0) \in Traffic
BY DEF Msg, Traffic

\* The tail of a pass keeps a leaf healthy.
LEMMA TailHealthy ==
    ASSUME NEW c \in Client, NEW a \in App,
           c.message_buffer \in Traffic, a.puback_pass_hack < 3
    PROVE  Healthy(TailClient(c, a), TailApp(c, a))
<1> DEFINE d == Checked(c)
           tc == TailClient(c, a)
           ta == TailApp(c, a)
<1>1. d \in Client /\ d.message_buffer = c.message_buffer /\ d.sent \subseteq Traffic
  BY CheckedFacts, CheckedAirs, SMT
<1>2. /\ NextPass(a) \in App
      /\ NextPass(a).puback_pass_hack = a.puback_pass_hack
  BY PassFacts, TRUE \in BOOLEAN, Zenon
<1>3. ASSUME NEW kind \in SleepKind
      PROVE  DeepSleep(a, kind) \in App /\ DeepSleep(a, kind).pc = "asleep"
  BY DeepSleepFacts, SMT
<1>4. TooLongKind(a) \in SleepKind /\ "fault" \in SleepKind
  BY DEF TooLongKind, SleepKind
<1>5. Healthy(d, NextPass(a))
  BY <1>1, <1>2 DEF Healthy
<1>6. CASE \/ tc = MQTTSN /\ ta = DeepSleep(a, TooLongKind(a))
           \/ tc = MQTTSN /\ ta = DeepSleep(a, "fault")
  BY <1>3, <1>4, <1>6, AsleepHealthy
<1>7. CASE tc = Quiet(c) /\ ta = NextPass(a)
  <2>1. Quiet(c) \in Client /\ Quiet(c).message_buffer = c.message_buffer
    BY QuietFacts, Zenon
  <2>2. Quiet(c).sent = {}
    BY ZenonT(60) DEF Quiet, Client
  <2>. QED  BY <1>2, <1>7, <2>1, <2>2 DEF Healthy
<1>8. CASE tc = d /\ ta = NextPass(a)
  BY <1>5, <1>8
<1>9. CASE CanRegister(d) /\ tc = register_topic(d) /\ ta = NextPass(a)
  <2>1. register_topic(d) \in Client
    BY <1>1, <1>9, RegisterFacts, SMT
  <2>2. NextId(d) \in Id /\ Airs(d, register_topic(d), {Msg("REGISTER", 0, NextId(d), 0)})
    BY <1>1, RegisterAirs, Zenon
  <2>3. Msg("REGISTER", 0, NextId(d), 0) \in Traffic
    BY <2>2, RequestTraffic
  <2>. QED  BY <1>1, <1>2, <1>9, <2>1, <2>2, <2>3 DEF Healthy, Airs
<1>10. CASE MustPublish(c, a) /\ tc = publish(d, find_topic_id(d)) /\ ta = Published(c, a)
  <2>1. find_topic_id(d) \in Id
    BY <1>1, FindFacts
  <2>2. NextId(d) \in Id /\ Airs(d, tc, {Msg("PUBLISH", find_topic_id(d), NextId(d), 1)})
    BY <1>1, <1>10, PublishAirs, Zenon
  <2>3. Msg("PUBLISH", find_topic_id(d), NextId(d), 1) \in Traffic
    BY <2>1, <2>2, RequestTraffic
  <2>4. publish(d, find_topic_id(d)) \in Client
    BY <1>1, <2>1, PublishType, Zenon
  <2>5. /\ Published(c, a) \in App
        /\ Published(c, a).puback_pass_hack = a.puback_pass_hack
    BY PublishedFacts, SMT
  <2>. QED  BY <1>1, <1>10, <2>2, <2>3, <2>4, <2>5 DEF Healthy, Airs
<1>11. CASE /\ tc = IF PassCounted(c, a).pc = "asleep" THEN MQTTSN ELSE d
            /\ ta = PassCounted(c, a)
  <2>1. ta \in App /\ (ta.pc # "asleep" => ta.puback_pass_hack < 3)
    BY <1>11, PassCountedFacts, SMT
  <2>2. CASE ta.pc = "asleep"
    BY <1>11, <2>1, <2>2, AsleepHealthy
  <2>3. CASE ta.pc # "asleep"
    <3>1. tc = d
      BY <1>11, <2>3, Zenon
    <3>. QED  BY <1>1, <2>1, <3>1 DEF Healthy
  <2>. QED  BY <2>2, <2>3
<1>. QED  BY <1>6, <1>7, <1>8, <1>9, <1>10, <1>11, TailBranches, Zenon

-----------------------------------------------------------------------------
(* The inductive invariant *)

\* Only leaf l is changed by this step.
OnlyLeaf(l) ==
    /\ client' = [client EXCEPT ![l] = client'[l]]
    /\ app' = [app EXCEPT ![l] = app'[l]]
    /\ granted' = [granted EXCEPT ![l] = granted'[l]]

\* What the model keeps besides the leaves stays within its bounds.
MarksOK == moved' \in [Leaves -> BOOLEAN] /\ chats' \in 0..MaxChatter

\* A step of one leaf that ends with its transmission.
LEMMA LeafStep ==
    ASSUME IndInv, NEW l \in Leaves, OnlyLeaf(l), Healthy(client'[l], app'[l]),
           granted'[l] \subseteq Id, NEW h, FramesOK(h), h[l] = {}, NEW t,
           t \in [Leaves -> SUBSET Id], Air(l, client'[l].sent, h, t), MarksOK
    PROVE  IndInv'
<1>1. /\ FramesOK(heard')
      /\ heard'[l] = {}
      /\ owed' \subseteq Traffic
      /\ took' \in [Leaves -> SUBSET Id]
  <2>1. client'[l].sent \in SUBSET Traffic
    BY DEF Healthy
  <2>2. owed \subseteq Traffic
    BY DEF IndInv, TypeOK
  <2>. QED  BY <2>1, <2>2, AirFacts
<1>2. /\ client' \in [Leaves -> Client]
      /\ app' \in [Leaves -> App]
      /\ granted' \in [Leaves -> SUBSET Id]
  BY DEF IndInv, TypeOK, OnlyLeaf, Healthy
<1>3. \A k \in Leaves : k # l => client'[k] = client[k] /\ app'[k] = app[k]
  BY DEF IndInv, TypeOK, OnlyLeaf
<1>4. TypeOK'
  <2>1. busy' \in BOOLEAN /\ calm' \in BOOLEAN
    BY Zenon DEF IndInv, TypeOK, Air
  <2>. QED  BY <1>1, <1>2, <2>1, Zenon DEF TypeOK, FramesOK, MarksOK
<1>5. OneFrame'
  BY <1>1, <1>3 DEF OneFrame, FramesOK
<1>6. Repeatable'
  BY <1>3 DEF IndInv, Repeatable, Healthy, Awake
<1>. QED  BY <1>4, <1>5, <1>6 DEF IndInv

\* The frames of the radios, and none for a leaf that is not listening.
LEMMA FramesNow ==
    ASSUME IndInv
    PROVE  /\ FramesOK(heard)
           /\ \A l \in Leaves : app[l].pc # "rx" \/ app[l].dead => heard[l] = {}
           /\ \A l \in Leaves : FramesOK([heard EXCEPT ![l] = {}])
           /\ \A l \in Leaves : [heard EXCEPT ![l] = {}][l] = {}
BY DEF IndInv, TypeOK, OneFrame, FramesOK

\* Before the first boot every node sleeps and the channel is empty.
LEMMA InitInv == Init => IndInv
<1> SUFFICES ASSUME Init PROVE IndInv
  OBVIOUS
<1> DEFINE a == DeepSleep(Started(FALSE), "none")
<1>1. a \in App /\ a.pc = "asleep"
  <2>1. Started(FALSE) \in App
    BY StartedFacts, FALSE \in BOOLEAN, Zenon
  <2>2. "none" \in SleepKind
    BY DEF SleepKind
  <2> HIDE DEF a
  <2>3. ASSUME NEW b \in App
        PROVE  DeepSleep(b, "none") \in App /\ DeepSleep(b, "none").pc = "asleep"
    BY <2>2, DeepSleepFacts, SMT
  <2>. QED  BY <2>1, <2>3, Zenon DEF a
<1>2. app = [l \in Leaves |-> a]
  BY DEF Init
<1> HIDE DEF a
<1>3. TypeOK
  <2>1. /\ client \in [Leaves -> Client]
        /\ app \in [Leaves -> App]
        /\ granted \in [Leaves -> SUBSET Id]
        /\ heard \in [Leaves -> SUBSET (Traffic \cup {Hello})]
        /\ owed \subseteq Traffic
        /\ took \in [Leaves -> SUBSET Id]
    BY <1>1, <1>2, MQTTSNType DEF Init
  <2>2. moved \in [Leaves -> BOOLEAN] /\ busy \in BOOLEAN /\ calm \in BOOLEAN
    BY Zenon DEF Init
  <2>3. chats \in 0..MaxChatter
    BY FieldAssumption DEF Init
  <2>. QED  BY <2>1, <2>2, <2>3 DEF TypeOK
<1>4. OneFrame /\ Repeatable
  BY <1>1, <1>2 DEF Init, OneFrame, Repeatable, Awake
<1>. QED  BY <1>3, <1>4 DEF IndInv

\* A boot transmits the CONNECT, and starts with its radio empty.
LEMMA BootInv ==
    ASSUME IndInv, NEW l \in Leaves, NEW dead \in BOOLEAN, Boot(l, dead)
    PROVE  IndInv'
<1>0. client \in [Leaves -> Client] /\ app \in [Leaves -> App]
      /\ granted \in [Leaves -> SUBSET Id] /\ took \in [Leaves -> SUBSET Id]
  BY DEF IndInv, TypeOK
<1>1. PICK t \in 0..SetupTicks : client' = [client EXCEPT ![l] = Setup(dead, t)]
  BY DEF Boot
<1>2. client'[l] = Setup(dead, t) /\ app'[l] = Started(dead) /\ granted'[l] = {}
  BY <1>0, <1>1 DEF Boot
<1>3. OnlyLeaf(l)
  BY <1>0, <1>1, <1>2 DEF Boot, OnlyLeaf
<1>4. Healthy(client'[l], app'[l])
  <2>1. Setup(dead, t) \in Client
    BY SetupFacts, SMT
  <2>2. /\ Setup(dead, t).sent \subseteq {Msg("CONNECT", 0, 0, 0)}
        /\ Setup(dead, t).message_buffer = Msg("CONNECT", 0, 0, 0)
    BY SetupAirs, Zenon
  <2>3. Msg("CONNECT", 0, 0, 0) \in Traffic
    BY IdTypes, RequestTraffic
  <2>4. Started(dead) \in App /\ Started(dead).puback_pass_hack = 0
    BY StartedFacts, SMT
  <2>. QED  BY <1>2, <2>1, <2>2, <2>3, <2>4 DEF Healthy
<1>5. [took EXCEPT ![l] = {}] \in [Leaves -> SUBSET Id]
  BY <1>0
<1>6. app[l].pc = "asleep" /\ Air(l, client'[l].sent, heard, [took EXCEPT ![l] = {}])
  BY DEF Boot
<1>7. heard[l] = {} /\ FramesOK(heard)
  BY <1>6, FramesNow
<1>8. MarksOK
  BY FieldAssumption DEF IndInv, TypeOK, Boot, MarksOK
<1>. QED  BY <1>2, <1>3, <1>4, <1>5, <1>6, <1>7, <1>8, LeafStep

\* A leaf without a radio goes back to sleep and transmits nothing.
LEMMA NoRadioInv ==
    ASSUME IndInv, NEW l \in Leaves, NoRadio(l)
    PROVE  IndInv'
<1>0. client \in [Leaves -> Client] /\ app \in [Leaves -> App]
  BY DEF IndInv, TypeOK
<1>1. client'[l] = MQTTSN /\ app'[l] = DeepSleep(app[l], "noradio")
  BY <1>0 DEF NoRadio
<1>2. DeepSleep(app[l], "noradio") \in App /\ DeepSleep(app[l], "noradio").pc = "asleep"
  <2>1. "noradio" \in SleepKind
    BY DEF SleepKind
  <2>2. app[l] \in App
    BY <1>0
  <2>. QED  BY <2>1, <2>2, DeepSleepFacts, SMT
<1>3. \A k \in Leaves : k # l => client'[k] = client[k] /\ app'[k] = app[k]
  BY <1>0 DEF NoRadio
<1>4. heard[l] = {}
  BY FramesNow DEF NoRadio
<1>5. TypeOK'
  BY <1>0, <1>2, MQTTSNType DEF IndInv, TypeOK, NoRadio
<1>6. OneFrame'
  BY <1>3, <1>4 DEF IndInv, OneFrame, NoRadio
<1>7. Repeatable'
  BY <1>1, <1>2, <1>3 DEF IndInv, Repeatable, Awake
<1>. QED  BY <1>5, <1>6, <1>7 DEF IndInv

\* The three ways a receive can end: nothing was heard, a HELLO made the
\* client dispatch its previous message again, or a message was heard.  Frames
\* that were misread are among them.
HearsNothing(l) ==
    /\ client'[l] = Quiet(client[l])
    /\ granted'[l] = granted[l]
    /\ app'[l] = Received(app[l], FALSE)

HearsHello(l) ==
    /\ \E index \in Index : client'[l] = parse_stale(Quiet(client[l]), index)
    /\ granted'[l] = granted[l] \cup Grants(client[l], client[l].response_buffer)
    /\ app'[l] = Received(app[l], TRUE)

Hears(l, m) ==
    /\ m \in heard[l] \cup Misread
    /\ \E index \in Index : client'[l] = parse(Quiet(client[l]), m, index)
    /\ granted'[l] = granted[l] \cup Grants(client[l], m)
    /\ app'[l] = Received(app[l], TRUE)

\* A receive ends in one of the three ways, and what the handlers then send
\* goes on the air while the radio is empty again.
LEMMA HearCases ==
    ASSUME IndInv, NEW l \in Leaves, TryReceive(l)
    PROVE  /\ OnlyLeaf(l)
           /\ MarksOK
           /\ Air(l, client'[l].sent, [heard EXCEPT ![l] = {}], took)
           /\ HearsNothing(l) \/ HearsHello(l) \/ \E m \in Traffic : Hears(l, m)
<1>0. client \in [Leaves -> Client] /\ app \in [Leaves -> App]
      /\ granted \in [Leaves -> SUBSET Id]
  BY DEF IndInv, TypeOK
<1>1. PICK got \in Read(l), index \in Index : Hear(l, got, index)
  BY Zenon DEF TryReceive
<1> DEFINE G == UNION {Grants(client[l],
                              IF f = Hello THEN client[l].response_buffer ELSE f)
                         : f \in got}
           C == IF got = {} THEN Quiet(client[l])
                ELSE IF got = {Hello} THEN parse_stale(Quiet(client[l]), index)
                ELSE parse(Quiet(client[l]), CHOOSE m \in got : TRUE, index)
<1>2. /\ client' = [client EXCEPT ![l] = C]
      /\ granted' = [granted EXCEPT ![l] = granted[l] \cup G]
      /\ app' = [app EXCEPT ![l] = Received(app[l], got # {})]
  BY <1>1 DEF Hear
<1>3. /\ got = {} \/ got = {Hello} \/ \E m \in Traffic : got = {m}
      /\ \A m \in got : m \in heard[l] \cup Misread
  <2>1. heard[l] = {} \/ \E f \in Traffic \cup {Hello} : heard[l] = {f}
    BY DEF IndInv, OneFrame
  <2>2. got = heard[l] \/ \E m \in Misread : got = {m}
    BY <1>1 DEF Read
  <2>. QED  BY <2>1, <2>2, TrafficFacts
<1> HIDE DEF G, C
<1>4. /\ client'[l] = C
      /\ granted'[l] = granted[l] \cup G
      /\ app'[l] = Received(app[l], got # {})
  BY <1>0, <1>2
<1>5. OnlyLeaf(l)
  BY <1>2, <1>4 DEF OnlyLeaf
<1>6. Air(l, client'[l].sent, [heard EXCEPT ![l] = {}], took)
  BY DEF TryReceive
<1>7. MarksOK
  <2>1. moved' \in [Leaves -> BOOLEAN]
    BY <1>1 DEF Hear, IndInv, TypeOK
  <2>. QED  BY <2>1 DEF TryReceive, MarksOK, IndInv, TypeOK
<1>8. CASE got = {}
  <2>1. C = Quiet(client[l]) /\ G = {}
    BY <1>8 DEF C, G
  <2>2. (got # {}) = FALSE
    BY <1>8
  <2>. QED  BY <1>4, <1>5, <1>6, <1>7, <2>1, <2>2, Zenon DEF HearsNothing
<1>9. CASE got = {Hello}
  <2>1. C = parse_stale(Quiet(client[l]), index)
    BY <1>9 DEF C
  <2>2. G = Grants(client[l], client[l].response_buffer)
    BY <1>9 DEF G
  <2>3. (got # {}) = TRUE
    BY <1>9
  <2>. QED  BY <1>4, <1>5, <1>6, <1>7, <2>1, <2>2, <2>3, Zenon DEF HearsHello
<1>10. ASSUME NEW m \in Traffic, got = {m}
       PROVE  Hears(l, m)
  <2>1. m # Hello
    BY TrafficFacts
  <2>2. C = parse(Quiet(client[l]), m, index)
    <3>1. (CHOOSE x \in got : TRUE) = m
      BY <1>10
    <3>2. got # {} /\ got # {Hello}
      BY <1>10, <2>1
    <3>. QED  BY <3>1, <3>2, Zenon DEF C
  <2>3. G = Grants(client[l], m)
    BY <1>10, <2>1 DEF G
  <2>4. (got # {}) = TRUE
    BY <1>10
  <2>5. m \in heard[l] \cup Misread
    BY <1>3, <1>10
  <2>. QED  BY <1>4, <2>2, <2>3, <2>4, <2>5, Zenon DEF Hears
<1>. QED  BY <1>3, <1>5, <1>6, <1>7, <1>8, <1>9, <1>10, Zenon

\* What a receive makes of the client: message m, its own or the one left over
\* from before, has been dispatched, and only courtesies were sent.
LEMMA HearHealthy ==
    ASSUME IndInv, NEW l \in Leaves, app[l].pc = "rx",
           NEW c, NEW m \in Message, NEW index \in Index,
           \/ c = Quiet(client[l])
           \/ c = parse(Quiet(client[l]), m, index)
           \/ c = parse_stale(Quiet(client[l]), index)
    PROVE  /\ c \in Client
           /\ c.sent \subseteq Courtesies
           /\ c.message_buffer \in Courtesies \cup {client[l].message_buffer}
           /\ c.message_buffer \in Traffic
<1>1. client[l] \in Client /\ client[l].message_buffer \in Traffic
  BY DEF IndInv, TypeOK, Repeatable, Awake
<1> DEFINE q == Quiet(client[l])
<1>2. q \in Client /\ q.message_buffer = client[l].message_buffer
  BY <1>1, QuietFacts, Zenon
<1>3. q.sent = {}
  BY <1>1, ZenonT(60) DEF Quiet, Client
<1>4. Courtesies \subseteq Traffic
  BY TrafficFacts
<1>5. CASE c = q
  BY <1>1, <1>2, <1>3, <1>5
<1>6. CASE c = parse(q, m, index) \/ c = parse_stale(q, index)
  <2>1. Heard(client[l], m, parse(q, m, index)) /\ Airs(q, parse(q, m, index), Courtesies)
    BY <1>1, ParseFacts, ParseAirs, Zenon
  <2>2. /\ Heard(client[l], client[l].response_buffer, parse_stale(q, index))
        /\ Airs(q, parse_stale(q, index), Courtesies)
    BY <1>1, ParseFacts, ParseAirs, Zenon
  <2>3. c \in Client
    BY <1>6, <2>1, <2>2, Zenon DEF Heard
  <2>4. Airs(q, c, Courtesies)
    BY <1>6, <2>1, <2>2, Zenon
  <2> HIDE DEF q
  <2>. QED  BY <1>1, <1>2, <1>3, <1>4, <2>3, <2>4 DEF Airs
<1>. QED  BY <1>5, <1>6

\* Hearing and handling a frame.
LEMMA TryReceiveInv ==
    ASSUME IndInv, NEW l \in Leaves, TryReceive(l)
    PROVE  IndInv'
<1>1. /\ OnlyLeaf(l)
      /\ MarksOK
      /\ Air(l, client'[l].sent, [heard EXCEPT ![l] = {}], took)
      /\ HearsNothing(l) \/ HearsHello(l) \/ \E m \in Traffic : Hears(l, m)
  BY HearCases
<1>2. /\ client[l] \in Client /\ app[l] \in App /\ granted[l] \subseteq Id
      /\ took \in [Leaves -> SUBSET Id] /\ app[l].pc = "rx"
      /\ app[l].puback_pass_hack < 3
  BY DEF IndInv, TypeOK, TryReceive, Repeatable, Awake
<1>3. FramesOK([heard EXCEPT ![l] = {}]) /\ [heard EXCEPT ![l] = {}][l] = {}
  BY FramesNow
<1>4. ASSUME NEW ok \in BOOLEAN, app'[l] = Received(app[l], ok)
      PROVE  app'[l] \in App /\ app'[l].puback_pass_hack = app[l].puback_pass_hack
  <2>1. app[l] \in App
    BY <1>2
  <2>2. /\ Received(app[l], ok) \in App
        /\ Received(app[l], ok).puback_pass_hack = app[l].puback_pass_hack
    BY <2>1, PassFacts, Zenon
  <2>. QED  BY <1>4, <2>2, Zenon
<1>5. client[l].response_buffer \in Message
  BY <1>2, Zenon DEF Client
<1>6. Courtesies \subseteq Traffic /\ Traffic \subseteq Message /\ 0 \in Index
  BY TrafficFacts, MqttSnAssumption DEF Index
<1>7. CASE HearsNothing(l)
  <2>1. client'[l] = Quiet(client[l]) /\ granted'[l] = granted[l]
    BY <1>7 DEF HearsNothing
  <2>2. app'[l] \in App /\ app'[l].puback_pass_hack = app[l].puback_pass_hack
    BY <1>4, <1>7, FALSE \in BOOLEAN, Zenon DEF HearsNothing
  <2>3. /\ client'[l] \in Client
        /\ client'[l].sent \subseteq Courtesies
        /\ client'[l].message_buffer \in Traffic
    BY <1>2, <1>5, <1>6, <2>1, HearHealthy, Zenon
  <2>4. Healthy(client'[l], app'[l])
    BY <1>2, <1>6, <2>2, <2>3 DEF Healthy
  <2>. QED  BY <1>1, <1>2, <1>3, <2>1, <2>4, LeafStep
<1>8. CASE HearsHello(l)
  <2>1. PICK index \in Index : client'[l] = parse_stale(Quiet(client[l]), index)
    BY <1>8, Zenon DEF HearsHello
  <2>2. app'[l] \in App /\ app'[l].puback_pass_hack = app[l].puback_pass_hack
    BY <1>4, <1>8, TRUE \in BOOLEAN, Zenon DEF HearsHello
  <2>3. /\ client'[l] \in Client
        /\ client'[l].sent \subseteq Courtesies
        /\ client'[l].message_buffer \in Traffic
    BY <1>2, <1>5, <1>6, <2>1, HearHealthy, Zenon
  <2>4. Healthy(client'[l], app'[l])
    BY <1>2, <1>6, <2>2, <2>3 DEF Healthy
  <2>5. granted'[l] \subseteq Id
    BY <1>2, <1>5, <1>8, GrantsType DEF HearsHello
  <2>. QED  BY <1>1, <1>2, <1>3, <2>4, <2>5, LeafStep
<1>9. ASSUME NEW m \in Traffic, Hears(l, m)
      PROVE  IndInv'
  <2>0. m \in Message
    BY <1>6
  <2>1. PICK index \in Index : client'[l] = parse(Quiet(client[l]), m, index)
    BY <1>9, Zenon DEF Hears
  <2>2. app'[l] \in App /\ app'[l].puback_pass_hack = app[l].puback_pass_hack
    BY <1>4, <1>9, TRUE \in BOOLEAN, Zenon DEF Hears
  <2>3. /\ client'[l] \in Client
        /\ client'[l].sent \subseteq Courtesies
        /\ client'[l].message_buffer \in Traffic
    BY <1>2, <2>0, <2>1, HearHealthy, Zenon
  <2>4. Healthy(client'[l], app'[l])
    BY <1>2, <1>6, <2>2, <2>3 DEF Healthy
  <2>5. granted'[l] \subseteq Id
    BY <1>2, <1>9, <2>0, GrantsType DEF Hears
  <2>. QED  BY <1>1, <1>2, <1>3, <2>4, <2>5, LeafStep
<1>. QED  BY <1>1, <1>7, <1>8, <1>9

\* The tail of a pass.
LEMMA TailInv ==
    ASSUME IndInv, NEW l \in Leaves, Tail(l)
    PROVE  IndInv'
<1>0. client \in [Leaves -> Client] /\ app \in [Leaves -> App]
      /\ granted \in [Leaves -> SUBSET Id] /\ took \in [Leaves -> SUBSET Id]
  BY DEF IndInv, TypeOK
<1>1. /\ client'[l] = TailClient(client[l], app[l])
      /\ app'[l] = TailApp(client[l], app[l])
      /\ granted' = granted
  BY <1>0 DEF Tail
<1>2. OnlyLeaf(l)
  BY <1>0, <1>1 DEF Tail, OnlyLeaf
<1>3. Healthy(client'[l], app'[l])
  <2>1. client[l].message_buffer \in Traffic /\ app[l].puback_pass_hack < 3
    BY DEF IndInv, Repeatable, Awake, Tail
  <2>. QED  BY <1>0, <1>1, <2>1, TailHealthy
<1>4. heard[l] = {} /\ FramesOK(heard)
  BY FramesNow DEF Tail
<1>5. Air(l, client'[l].sent, heard, took)
  BY DEF Tail
<1>6. granted'[l] \subseteq Id
  BY <1>0, <1>1
<1>7. MarksOK
  BY DEF Tail, MarksOK, IndInv, TypeOK
<1>. QED  BY <1>0, <1>2, <1>3, <1>4, <1>5, <1>6, <1>7, LeafStep

\* The gateway fills radios that listen and changes no leaf.
LEMMA GatewayInv ==
    ASSUME IndInv, GatewayAnswers \/ GatewayChatters
    PROVE  IndInv'
<1>1. PICK f \in Traffic \cup {Hello} : Transmit(f) /\ owed' \subseteq Traffic
  BY TrafficFacts DEF GatewayAnswers, GatewayChatters, IndInv, TypeOK
<1>2. PICK audience \in Audiences({}) : heard' = HeardBy(heard, audience, f)
  BY <1>1 DEF Transmit
<1>3. FramesOK(heard')
  BY <1>2, FramesNow, HeardByFacts
<1>4. UNCHANGED <<client, app, granted, took>>
  BY <1>1 DEF Transmit
<1>5. TypeOK'
  <2>1. /\ client' \in [Leaves -> Client]
        /\ app' \in [Leaves -> App]
        /\ granted' \in [Leaves -> SUBSET Id]
        /\ took' \in [Leaves -> SUBSET Id]
    BY <1>4 DEF IndInv, TypeOK
  <2>2. moved' \in [Leaves -> BOOLEAN] /\ calm' \in BOOLEAN
    BY <1>1, Zenon DEF IndInv, TypeOK, Transmit
  <2>3. busy' \in BOOLEAN
    BY Zenon DEF GatewayAnswers, GatewayChatters, IndInv, TypeOK
  <2>4. chats' \in 0..MaxChatter
    BY FieldAssumption DEF GatewayAnswers, GatewayChatters, IndInv, TypeOK
  <2>. QED  BY <1>1, <1>3, <2>1, <2>2, <2>3, <2>4 DEF TypeOK, FramesOK
<1>6. OneFrame'
  BY <1>3, <1>4 DEF OneFrame, FramesOK
<1>7. Repeatable'
  BY <1>4 DEF IndInv, Repeatable, Awake
<1>. QED  BY <1>5, <1>6, <1>7 DEF IndInv

\* Time leaves everything in place but the timers.
LEMMA TickInv ==
    ASSUME IndInv, Tick
    PROVE  IndInv'
<1>0. client \in [Leaves -> Client] /\ app \in [Leaves -> App]
  BY DEF IndInv, TypeOK
<1>1. ASSUME NEW l \in Leaves
      PROVE  /\ client'[l] \in Client
             /\ client'[l].message_buffer = client[l].message_buffer
             /\ app'[l] \in App
             /\ app'[l].pc = app[l].pc
             /\ app'[l].dead = app[l].dead
             /\ app'[l].puback_pass_hack = app[l].puback_pass_hack
  <2>0. client[l] \in Client /\ app[l] \in App
    BY <1>0
  <2>1. CASE app[l].pc = "asleep"
    <3>1. client'[l] = client[l] /\ app'[l] = app[l]
      BY <2>1 DEF Tick
    <3>. QED  BY <2>0, <3>1
  <2>2. CASE app[l].pc # "asleep"
    <3>1. client'[l] = Aged(client[l]) /\ app'[l] = Older(app[l])
      BY <2>2 DEF Tick
    <3>2. Aged(client[l]) \in Client /\ Aged(client[l]).message_buffer = client[l].message_buffer
      BY <2>0, AgedFacts, Zenon
    <3>3. /\ Older(app[l]) \in App
          /\ Older(app[l]).pc = app[l].pc
          /\ Older(app[l]).dead = app[l].dead
          /\ Older(app[l]).puback_pass_hack = app[l].puback_pass_hack
      BY <2>0, OlderFacts, Zenon
    <3>. QED  BY <3>1, <3>2, <3>3, Zenon
  <2>. QED  BY <2>1, <2>2, Zenon
<1>2. client' \in [Leaves -> Client] /\ app' \in [Leaves -> App]
  <2>1. client' = [l \in Leaves |-> client'[l]] /\ app' = [l \in Leaves |-> app'[l]]
    BY DEF Tick
  <2>. QED  BY <1>1, <2>1
<1>3. UNCHANGED <<granted, heard, moved, owed, took, chats, calm>> /\ busy' = FALSE
  BY DEF Tick
<1>4. TypeOK'
  BY <1>2, <1>3, Zenon DEF IndInv, TypeOK
<1>5. OneFrame'
  BY <1>1, <1>3 DEF IndInv, OneFrame
<1>6. Repeatable'
  BY <1>1 DEF IndInv, Repeatable, Awake
<1>. QED  BY <1>4, <1>5, <1>6 DEF IndInv

\* So does the channel when it calms down.
LEMMA CalmInv ==
    ASSUME IndInv, CalmsDown
    PROVE  IndInv'
<1>1. UNCHANGED <<client, app, granted, heard, moved, owed, busy, took, chats>>
      /\ calm' = TRUE
  BY DEF CalmsDown
<1>. QED  BY <1>1, Zenon DEF IndInv, TypeOK, OneFrame, Repeatable, Awake

\* Every step keeps the invariant.
LEMMA NextInv == IndInv /\ [Next]_vars => IndInv'
<1> SUFFICES ASSUME IndInv, [Next]_vars PROVE IndInv'
  OBVIOUS
<1>1. CASE UNCHANGED vars
  BY <1>1 DEF vars, IndInv, TypeOK, OneFrame, Repeatable, Awake
<1>. QED  BY <1>1, BootInv, NoRadioInv, TryReceiveInv, TailInv, GatewayInv, CalmInv, TickInv
          DEF Next

\* Of any number of leaves, on any channel and with any chatter: every radio
\* keeps at most one frame, and only while its leaf listens; what it keeps,
\* what the gateway owes, and what any leaf could retransmit are messages that
\* leaves or gateway really send.
THEOREM FieldInvariance == Spec => []IndInv
<1>. QED  BY InitInv, NextInv, PTL DEF Spec

-----------------------------------------------------------------------------
(* One leaf alone with its gateway *)

\* Answers, when t is what the broker took from leaf l.
Fits(l, m, t) ==
    /\ m.type = "REGACK" => m.topic_id = TopicOf[l]
    /\ m.type = "PUBACK" => t # {}

\* The last part of AnswersItsLeaf, for client c and globals a.
Own(l, c, a, t) ==
    a.pc # "asleep" =>
        /\ Fits(l, c.response_buffer, t)
        /\ c.got_puback => t # {}
        /\ c.message_buffer.type = "PUBLISH" =>
              c.message_buffer.topic_id = TopicOf[l]
        /\ a.state = "SENT_CONNECT" /\ c.topic_count > 0 =>
              /\ a.pc = "tail"
              /\ a.rx_ok
              /\ ~c.waiting_for_response
              /\ c.topic_table[0] = TopicOf[l]

\* AnswersItsLeaf in terms of these two.
LEMMA OwnFacts ==
    /\ AnswersItsLeaf <=>
          \A l \in Leaves :
              /\ \A m \in owed \cup heard[l] : Fits(l, m, took[l])
              /\ took[l] \subseteq {TopicOf[l]}
              /\ Own(l, client[l], app[l], took[l])
    /\ AnswersItsLeaf' <=>
          \A l \in Leaves :
              /\ \A m \in owed' \cup heard'[l] : Fits(l, m, took'[l])
              /\ took'[l] \subseteq {TopicOf[l]}
              /\ Own(l, client'[l], app'[l], took'[l])
BY Zenon DEF AnswersItsLeaf, Own, Fits, Answers, Awake

\* A step of the only leaf that ends with its transmission: the gateway owes
\* answers to what was transmitted and to nothing else.
LEMMA AloneStep ==
    ASSUME Alone, IndInv, NEW l \in Leaves, client'[l].sent \subseteq Traffic,
           NEW h, FramesOK(h), h[l] = {}, NEW t, t \in [Leaves -> SUBSET Id],
           Air(l, client'[l].sent, h, t),
           t[l] \subseteq {TopicOf[l]},
           \A m \in owed : Fits(l, m, t[l]),
           \A m \in client'[l].sent : m.type = "PUBLISH" => m.topic_id = TopicOf[l],
           Own(l, client'[l], app'[l], t[l])
    PROVE  AnswersItsLeaf'
<1>1. \A k \in Leaves : k = l
  BY DEF Alone
<1>2. heard'[l] = {}
  <2>1. owed \subseteq Traffic
    BY DEF IndInv, TypeOK
  <2>. QED  BY <2>1, AirFacts
<1>3. PICK up \in SUBSET (client'[l].sent) :
        /\ owed' = owed \cup UNION {Answer(l, m) : m \in up}
        /\ took' = [t EXCEPT ![l] = @ \cup
              {m.topic_id : m \in {x \in up : x.type = "PUBLISH"}}]
  BY DEF Air
<1>4. took'[l] = t[l] \cup {m.topic_id : m \in {x \in up : x.type = "PUBLISH"}}
  BY <1>3
<1>5. took'[l] \subseteq {TopicOf[l]}
  BY <1>4
<1>6. ASSUME NEW m \in owed'
      PROVE  Fits(l, m, took'[l])
  <2>1. CASE m \in owed
    BY <1>4, <2>1 DEF Fits
  <2>2. CASE m \notin owed
    <3>1. PICK x \in up : m \in Answer(l, x)
      BY <1>3, <2>2
    <3>2. x \in Message
      BY TrafficFacts
    <3>3. /\ m.type = "REGACK" => m.topic_id = TopicOf[l]
          /\ m.type = "PUBACK" => x.type = "PUBLISH"
      BY <3>1, <3>2, AnswerFacts
    <3>. QED  BY <1>4, <3>3 DEF Fits
  <2>. QED  BY <2>1, <2>2
<1>7. Own(l, client'[l], app'[l], took'[l])
  <2>1. t[l] # {} => took'[l] # {}
    BY <1>4
  <2>. QED  BY <2>1, Zenon DEF Own, Fits
<1>. QED  BY <1>1, <1>2, <1>5, <1>6, <1>7, OwnFacts

\* The boot before may still have been granted answers, but a prompt gateway
\* has sent them.
LEMMA BootAlone ==
    ASSUME Alone, IndInv, AnswersItsLeaf, NEW l \in Leaves, NEW dead \in BOOLEAN,
           Boot(l, dead)
    PROVE  AnswersItsLeaf'
<1>0. client \in [Leaves -> Client] /\ app \in [Leaves -> App]
      /\ took \in [Leaves -> SUBSET Id]
  BY DEF IndInv, TypeOK
<1>1. PICK t \in 0..SetupTicks : client' = [client EXCEPT ![l] = Setup(dead, t)]
  BY DEF Boot
<1>2. client'[l] = Setup(dead, t)
  BY <1>0, <1>1
<1>3. /\ Setup(dead, t).sent \subseteq {Msg("CONNECT", 0, 0, 0)}
      /\ Setup(dead, t).message_buffer = Msg("CONNECT", 0, 0, 0)
  BY SetupAirs, Zenon
<1>4. /\ Setup(dead, t).response_buffer = Zeroed
      /\ Setup(dead, t).topic_count = 0
      /\ ~Setup(dead, t).got_puback
  BY SetupFacts, Zenon
<1>5. Msg("CONNECT", 0, 0, 0) \in Traffic /\ Msg("CONNECT", 0, 0, 0).type # "PUBLISH"
  BY IdTypes, RequestTraffic DEF Msg
<1>6. Zeroed.type # "REGACK" /\ Zeroed.type # "PUBACK"
  BY DEF Zeroed, Msg
<1> DEFINE none == [took EXCEPT ![l] = {}]
<1>7. none \in [Leaves -> SUBSET Id] /\ none[l] = {}
  BY <1>0
<1>8. Air(l, client'[l].sent, heard, none) /\ owed = {} /\ app[l].pc = "asleep"
  BY DEF Boot, Alone
<1>9. heard[l] = {} /\ FramesOK(heard)
  BY <1>8, FramesNow
<1> HIDE DEF none
<1>10. Own(l, client'[l], app'[l], none[l])
  <2>1. ~(Setup(dead, t).topic_count > 0)
    BY <1>4
  <2>. QED  BY <1>2, <1>3, <1>4, <1>5, <1>6, <2>1, Zenon DEF Own, Fits
<1>11. client'[l].sent \subseteq Traffic
  BY <1>2, <1>3, <1>5
<1>12. \A m \in client'[l].sent : m.type = "PUBLISH" => m.topic_id = TopicOf[l]
  BY <1>2, <1>3, <1>5
<1>. QED  BY <1>7, <1>8, <1>9, <1>10, <1>11, <1>12, AloneStep

\* Hearing m, an answer to this leaf or no answer at all.
LEMMA HearOwn ==
    ASSUME NEW l, NEW t, NEW c \in Client, NEW d \in Client, NEW a \in App,
           NEW m, a.pc = "rx", Own(l, c, a, t), Fits(l, m, t), Heard(c, m, d),
           d.message_buffer \in Courtesies \cup {c.message_buffer}
    PROVE  Own(l, d, Received(a, TRUE), t)
<1>1. /\ Received(a, TRUE).pc = "tail"
      /\ Received(a, TRUE).rx_ok = TRUE
      /\ Received(a, TRUE).state = a.state
  BY PassFacts, TRUE \in BOOLEAN, Zenon
<1>2. /\ c.got_puback => t # {}
      /\ c.message_buffer.type = "PUBLISH" => c.message_buffer.topic_id = TopicOf[l]
      /\ a.state = "SENT_CONNECT" => ~(c.topic_count > 0)
  BY Zenon, "rx" # "tail", "rx" # "asleep" DEF Own
<1>3. c.topic_count \in 0..MaxTopics /\ d.topic_count \in 0..MaxTopics
  BY Zenon DEF Client
<1>4. Fits(l, d.response_buffer, t)
  BY Zenon DEF Heard
<1>5. d.got_puback => t # {}
  BY <1>2, Zenon DEF Heard, Fits
<1>6. d.message_buffer.type = "PUBLISH" => d.message_buffer.topic_id = TopicOf[l]
  BY <1>2 DEF Courtesies
<1>7. a.state = "SENT_CONNECT" /\ d.topic_count > 0 =>
        ~d.waiting_for_response /\ d.topic_table[0] = TopicOf[l]
  <2> SUFFICES ASSUME a.state = "SENT_CONNECT", d.topic_count > 0
               PROVE  ~d.waiting_for_response /\ d.topic_table[0] = TopicOf[l]
    OBVIOUS
  <2>1. c.topic_count = 0 /\ d.topic_count # c.topic_count
    BY <1>2, <1>3, MqttSnAssumption
  <2>. QED  BY <2>1, Zenon DEF Heard, Fits
<1>. QED  BY <1>1, <1>4, <1>5, <1>6, <1>7, Zenon DEF Own

\* A receive by the only leaf.
LEMMA TryReceiveAlone ==
    ASSUME Alone, IndInv, AnswersItsLeaf, NEW l \in Leaves, TryReceive(l)
    PROVE  AnswersItsLeaf'
<1>1. /\ Air(l, client'[l].sent, [heard EXCEPT ![l] = {}], took)
      /\ HearsNothing(l) \/ HearsHello(l) \/ \E m \in Traffic : Hears(l, m)
  BY HearCases
<1>2. /\ client[l] \in Client /\ app[l] \in App /\ app[l].pc = "rx"
      /\ took \in [Leaves -> SUBSET Id]
  BY DEF IndInv, TypeOK, TryReceive
<1>3. FramesOK([heard EXCEPT ![l] = {}]) /\ [heard EXCEPT ![l] = {}][l] = {}
  BY FramesNow
<1>4. /\ \A m \in owed \cup heard[l] : Fits(l, m, took[l])
      /\ took[l] \subseteq {TopicOf[l]}
      /\ Own(l, client[l], app[l], took[l])
  BY OwnFacts
<1>5. client[l].response_buffer \in Message
  BY <1>2, Zenon DEF Client
<1>6. /\ Courtesies \subseteq Traffic /\ Traffic \subseteq Message /\ 0 \in Index
      /\ \A m \in Courtesies : m.type # "PUBLISH"
  BY TrafficFacts, MqttSnAssumption DEF Index, Courtesies
<1>7. ASSUME client'[l].sent \subseteq Courtesies,
             Own(l, client'[l], app'[l], took[l])
      PROVE  AnswersItsLeaf'
  <2>1. client'[l].sent \subseteq Traffic
    BY <1>6, <1>7
  <2>2. \A m \in client'[l].sent : m.type = "PUBLISH" => m.topic_id = TopicOf[l]
    BY <1>6, <1>7
  <2>3. \A m \in owed : Fits(l, m, took[l])
    BY <1>4
  <2>. QED  BY <1>1, <1>2, <1>3, <1>4, <1>7, <2>1, <2>2, <2>3, AloneStep
<1>8. CASE HearsNothing(l)
  <2> DEFINE c == Quiet(client[l])
             a == Received(app[l], FALSE)
  <2>1. client'[l] = c /\ app'[l] = a
    BY <1>8 DEF HearsNothing
  <2>2. c.sent \subseteq Courtesies
    BY <1>2, <1>5, <1>6, HearHealthy, Zenon
  <2>3. /\ c.response_buffer = client[l].response_buffer
        /\ c.got_puback = client[l].got_puback
        /\ c.message_buffer = client[l].message_buffer
        /\ c.topic_count = client[l].topic_count
    BY <1>2, QuietFacts, Zenon
  <2>4. a.state = app[l].state
    BY <1>2, PassFacts, FALSE \in BOOLEAN, Zenon
  <2> HIDE DEF c, a
  <2>5. Own(l, c, a, took[l])
    BY <1>2, <1>4, <2>3, <2>4, "rx" # "tail", "rx" # "asleep", Zenon DEF Own
  <2>. QED  BY <1>7, <2>1, <2>2, <2>5
<1>9. CASE HearsHello(l)
  <2>1. PICK index \in Index : client'[l] = parse_stale(Quiet(client[l]), index)
    BY <1>9, Zenon DEF HearsHello
  <2> DEFINE c == parse_stale(Quiet(client[l]), index)
             m == client[l].response_buffer
  <2>2. /\ c \in Client
        /\ c.sent \subseteq Courtesies
        /\ c.message_buffer \in Courtesies \cup {client[l].message_buffer}
    BY <1>2, <1>5, HearHealthy, Zenon
  <2>3. Heard(client[l], m, c)
    BY <1>2, <1>5, ParseFacts, Zenon
  <2>4. Fits(l, m, took[l])
    BY <1>2, <1>4, "rx" # "asleep", Zenon DEF Own
  <2> HIDE DEF c, m
  <2>5. Own(l, c, Received(app[l], TRUE), took[l])
    BY <1>2, <1>4, <2>2, <2>3, <2>4, HearOwn, Zenon
  <2>6. client'[l] = c /\ app'[l] = Received(app[l], TRUE)
    BY <1>9, <2>1, Zenon DEF HearsHello, c
  <2>. QED  BY <1>7, <2>2, <2>5, <2>6
<1>10. ASSUME NEW m \in Traffic, Hears(l, m)
       PROVE  AnswersItsLeaf'
  <2>0. m \in Message
    BY <1>6
  <2>1. PICK index \in Index : client'[l] = parse(Quiet(client[l]), m, index)
    BY <1>10, Zenon DEF Hears
  <2> DEFINE c == parse(Quiet(client[l]), m, index)
  <2>2. /\ c \in Client
        /\ c.sent \subseteq Courtesies
        /\ c.message_buffer \in Courtesies \cup {client[l].message_buffer}
    BY <1>2, <2>0, HearHealthy, Zenon
  <2>3. Heard(client[l], m, c)
    BY <1>2, <2>0, ParseFacts, Zenon
  <2>4. Fits(l, m, took[l])
    <3>1. m \in heard[l] \cup Misread
      BY <1>10 DEF Hears
    <3>2. m \in Misread => m.type # "REGACK" /\ m.type # "PUBACK"
      BY DEF Alone
    <3>. QED  BY <1>4, <3>1, <3>2 DEF Fits
  <2> HIDE DEF c
  <2>5. Own(l, c, Received(app[l], TRUE), took[l])
    BY <1>2, <1>4, <2>2, <2>3, <2>4, HearOwn, Zenon
  <2>6. client'[l] = c /\ app'[l] = Received(app[l], TRUE)
    BY <1>10, <2>1, Zenon DEF Hears, c
  <2>. QED  BY <1>7, <2>2, <2>5, <2>6
<1>. QED  BY <1>1, <1>8, <1>9, <1>10

\* The fields that Own looks at and the periodic check leaves alone.
LEMMA CheckedOwn ==
    ASSUME NEW l, NEW t, NEW c \in Client, NEW a, NEW b, a.pc # "asleep",
           Own(l, c, a, t),
           b.state = "SENT_CONNECT" => a.state = "SENT_CONNECT" /\ ~(c.topic_count > 0)
    PROVE  Own(l, Quiet(c), b, t) /\ Own(l, Checked(c), b, t)
<1>1. /\ Quiet(c).response_buffer = c.response_buffer
      /\ Quiet(c).got_puback = c.got_puback
      /\ Quiet(c).message_buffer = c.message_buffer
      /\ Quiet(c).topic_count = c.topic_count
  BY QuietFacts, Zenon
<1>2. /\ Checked(c).response_buffer = c.response_buffer
      /\ Checked(c).got_puback = c.got_puback
      /\ Checked(c).message_buffer = c.message_buffer
      /\ Checked(c).topic_count = c.topic_count
  BY CheckedFacts, Zenon
<1>3. Own(l, Quiet(c), b, t)
  BY <1>1, Zenon DEF Own
<1>4. Own(l, Checked(c), b, t)
  BY <1>2, Zenon DEF Own
<1>. QED  BY <1>3, <1>4

\* What the tail of a pass leaves behind and transmits: the leaf registers only
\* with an empty topic table, and publishes under the id that it was granted.
LEMMA TailOwn ==
    ASSUME NEW l \in Leaves, NEW t, NEW c \in Client, NEW a \in App,
           a.pc = "tail", a.puback_pass_hack < 3, Own(l, c, a, t),
           TopicOf[l] # NoTopic
    PROVE  /\ Own(l, TailClient(c, a), TailApp(c, a), t)
           /\ \A m \in TailClient(c, a).sent :
                 m.type = "PUBLISH" => m.topic_id = TopicOf[l]
<1> DEFINE d == Checked(c)
           tc == TailClient(c, a)
           ta == TailApp(c, a)
           P(s) == \A m \in s : m.type = "PUBLISH" => m.topic_id = TopicOf[l]
<1>1. /\ d \in Client
      /\ d.message_buffer = c.message_buffer
      /\ d.topic_count = c.topic_count
      /\ d.topic_table = c.topic_table
      /\ d.response_buffer = c.response_buffer
      /\ d.got_puback = c.got_puback
  BY CheckedFacts, Zenon
<1>2. d.waiting_for_response => c.waiting_for_response
  BY CheckedFacts, Zenon
<1>3. /\ Fits(l, c.response_buffer, t)
      /\ c.got_puback => t # {}
      /\ c.message_buffer.type = "PUBLISH" => c.message_buffer.topic_id = TopicOf[l]
      /\ a.state = "SENT_CONNECT" /\ c.topic_count > 0 =>
            a.rx_ok /\ ~c.waiting_for_response /\ c.topic_table[0] = TopicOf[l]
  BY "tail" # "asleep", Zenon DEF Own
<1>4. P(d.sent)
  BY <1>3, CheckedAirs
<1>5. NextPass(a).pc = "rx" /\ NextPass(a).state = a.state
  BY PassFacts, TRUE \in BOOLEAN, Zenon
<1>6. ASSUME NEW kind \in SleepKind
      PROVE  DeepSleep(a, kind).pc = "asleep"
  BY DeepSleepFacts, SMT
<1>7. TooLongKind(a) \in SleepKind /\ "fault" \in SleepKind
  BY DEF TooLongKind, SleepKind
<1>8. MQTTSN.sent = {} /\ Quiet(c).sent = {}
  BY ZenonT(60) DEF MQTTSN, Quiet, Client
<1>9. find_topic_id(d) = IF c.topic_count > 0 THEN c.topic_table[0] ELSE NoTopic
  BY <1>1, Zenon DEF find_topic_id
<1>10. ASSUME ~(a.state = "SENT_CONNECT" /\ c.topic_count > 0)
       PROVE  Own(l, Quiet(c), NextPass(a), t) /\ Own(l, d, NextPass(a), t)
  BY <1>5, <1>10, CheckedOwn, "tail" # "asleep", Zenon
<1>11. CASE tc = MQTTSN /\ ta.pc = "asleep"
  BY <1>8, <1>11 DEF Own
<1>12. CASE Ignores(a) /\ tc = Quiet(c) /\ ta = NextPass(a)
  <2>1. ~(a.state = "SENT_CONNECT" /\ c.topic_count > 0)
    BY <1>3, <1>12, Zenon DEF Ignores
  <2>. QED  BY <1>8, <1>10, <1>12, <2>1
<1>13. CASE Waits(c, a) /\ tc = d /\ ta = NextPass(a)
  <2>1. ~(a.state = "SENT_CONNECT" /\ c.topic_count > 0)
    BY <1>2, <1>3, <1>13, Zenon DEF Waits, StillWaiting
  <2>. QED  BY <1>4, <1>10, <1>13, <2>1
<1>14. CASE /\ MustRegister(c, a) /\ CanRegister(d)
            /\ tc = register_topic(d) /\ ta = NextPass(a)
  <2> DEFINE r == register_topic(d)
             m == Msg("REGISTER", 0, NextId(d), 0)
  <2>1. ~(a.state = "SENT_CONNECT" /\ c.topic_count > 0)
    BY <1>3, <1>9, <1>14, Zenon DEF MustRegister
  <2>2. Keeps(d, r) /\ r.message_buffer.type = "REGISTER"
    BY <1>1, <1>14, RegisterFacts, Zenon
  <2>3. Airs(d, r, {m})
    BY <1>1, RegisterAirs, Zenon
  <2>4. m.type # "PUBLISH"
    BY DEF Msg
  <2> HIDE DEF d, r, m
  <2>5. P(r.sent)
    BY <1>4, <2>3, <2>4 DEF Airs
  <2>6. /\ r.topic_count = c.topic_count
        /\ r.response_buffer = c.response_buffer
        /\ r.got_puback = c.got_puback
    BY <1>1, <2>2, Zenon DEF Keeps
  <2>7. Own(l, r, NextPass(a), t)
    BY <1>3, <1>5, <2>1, <2>2, <2>6, "REGISTER" # "PUBLISH", Zenon DEF Own
  <2>. QED  BY <1>14, <2>5, <2>7 DEF r
<1>15. CASE /\ MustPublish(c, a)
            /\ tc = publish(d, find_topic_id(d)) /\ ta = Published(c, a)
  <2>0. find_topic_id(d) = TopicOf[l]
    BY <1>3, <1>9, <1>15, Zenon DEF MustPublish
  <2> DEFINE r == publish(d, find_topic_id(d))
             m == Msg("PUBLISH", find_topic_id(d), NextId(d), 1)
  <2>1. Airs(d, r, {m})
    BY <1>1, PublishAirs, Zenon
  <2>2. m.topic_id = TopicOf[l]
    BY <2>0 DEF Msg
  <2>3. find_topic_id(d) \in Id
    BY <1>1, FindFacts, Zenon
  <2>4. Keeps(d, r)
    BY <1>1, <2>3, PublishType, Zenon
  <2>6. Published(c, a).state = "WAIT_PUBACK"
    BY PublishedFacts, Zenon
  <2> HIDE DEF d, r, m
  <2>7. P(r.sent)
    BY <1>4, <2>1, <2>2 DEF Airs
  <2>8. r.message_buffer.type = "PUBLISH" => r.message_buffer.topic_id = TopicOf[l]
    BY <1>1, <1>3, <2>1, <2>2 DEF Airs
  <2>9. r.response_buffer = c.response_buffer /\ r.got_puback = c.got_puback
    BY <1>1, <2>4, Zenon DEF Keeps
  <2>10. Own(l, r, Published(c, a), t)
    BY <1>3, <2>6, <2>8, <2>9, "SENT_CONNECT" # "WAIT_PUBACK", Zenon DEF Own
  <2>. QED  BY <1>15, <2>7, <2>10 DEF r
<1>16. CASE /\ CountsPass(c, a) /\ ta = PassCounted(c, a)
            /\ tc = IF PassCounted(c, a).pc = "asleep" THEN MQTTSN ELSE d
  <2>1. CASE ta.pc = "asleep"
    BY <1>11, <1>16, <2>1, Zenon
  <2>2. CASE ta.pc # "asleep"
    <3>1. tc = d
      BY <1>16, <2>2, Zenon
    <3>2. a.state = "WAIT_PUBACK"
      BY <1>16 DEF CountsPass
    <3>3. ta.state = a.state
      BY <1>16, PassCountedFacts, SMT
    <3>4. Own(l, d, ta, t)
      BY <3>2, <3>3, CheckedOwn, "tail" # "asleep", "SENT_CONNECT" # "WAIT_PUBACK", Zenon
    <3>. QED  BY <1>4, <3>1, <3>4
  <2>. QED  BY <2>1, <2>2
<1>17. \/ TooLong(a) /\ tc = MQTTSN /\ ta = DeepSleep(a, TooLongKind(a))
       \/ MustRegister(c, a) /\ ~CanRegister(d) /\ tc = MQTTSN /\ ta = DeepSleep(a, "fault")
       => tc = MQTTSN /\ ta.pc = "asleep"
  BY <1>6, <1>7
<1>. QED  BY <1>11, <1>12, <1>13, <1>14, <1>15, <1>16, <1>17, TailBranches, Zenon

\* The tail of a pass of the only leaf.
LEMMA TailAlone ==
    ASSUME Alone, IndInv, AnswersItsLeaf, NEW l \in Leaves, Tail(l)
    PROVE  AnswersItsLeaf'
<1>0. client \in [Leaves -> Client] /\ app \in [Leaves -> App]
      /\ took \in [Leaves -> SUBSET Id]
  BY DEF IndInv, TypeOK
<1> DEFINE tc == TailClient(client[l], app[l])
           ta == TailApp(client[l], app[l])
<1>1. client'[l] = tc /\ app'[l] = ta /\ app[l].pc = "tail"
  BY <1>0 DEF Tail
<1>2. client[l].message_buffer \in Traffic /\ app[l].puback_pass_hack < 3
  BY <1>1 DEF IndInv, Repeatable, Awake
<1>3. tc.sent \subseteq Traffic
  BY <1>0, <1>2, TailHealthy DEF Healthy
<1>4. /\ \A m \in owed : Fits(l, m, took[l])
      /\ took[l] \subseteq {TopicOf[l]}
      /\ Own(l, client[l], app[l], took[l])
  BY OwnFacts
<1>5. TopicOf[l] # NoTopic
  BY DEF Alone
<1>6. /\ Own(l, tc, ta, took[l])
      /\ \A m \in tc.sent : m.type = "PUBLISH" => m.topic_id = TopicOf[l]
  <2>1. client[l] \in Client /\ app[l] \in App
    BY <1>0
  <2>. QED  BY <1>1, <1>2, <1>4, <1>5, <2>1, TailOwn, Zenon
<1>7. heard[l] = {} /\ FramesOK(heard)
  BY <1>1, FramesNow
<1>8. Air(l, client'[l].sent, heard, took)
  BY DEF Tail
<1> HIDE DEF tc, ta
<1>. QED  BY <1>0, <1>1, <1>3, <1>4, <1>6, <1>7, <1>8, AloneStep

\* A leaf without a radio, a channel that calms down and the passing of time
\* touch nothing that AnswersItsLeaf looks at.
LEMMA QuietAlone ==
    ASSUME IndInv, AnswersItsLeaf,
           (\E l \in Leaves : NoRadio(l)) \/ CalmsDown \/ Tick
    PROVE  AnswersItsLeaf'
<1>0. client \in [Leaves -> Client] /\ app \in [Leaves -> App]
  BY DEF IndInv, TypeOK
<1>1. UNCHANGED <<heard, owed, took>>
  BY DEF NoRadio, CalmsDown, Tick
<1>2. ASSUME NEW k \in Leaves
      PROVE  /\ \A m \in owed \cup heard[k] : Fits(k, m, took[k])
             /\ took[k] \subseteq {TopicOf[k]}
             /\ Own(k, client[k], app[k], took[k])
  BY OwnFacts
<1>3. ASSUME NEW k \in Leaves
      PROVE  Own(k, client'[k], app'[k], took[k])
  <2>0. client[k] \in Client /\ app[k] \in App
    BY <1>0
  <2>1. CASE client'[k] = client[k] /\ app'[k] = app[k]
    BY <1>2, <2>1
  <2>2. CASE app'[k] = DeepSleep(app[k], "noradio")
    <3>1. "noradio" \in SleepKind
      BY DEF SleepKind
    <3>2. DeepSleep(app[k], "noradio").pc = "asleep"
      BY <2>0, <3>1, DeepSleepFacts, SMT
    <3>. QED  BY <2>2, <3>2, Zenon DEF Own
  <2>3. CASE client'[k] = Aged(client[k]) /\ app'[k] = Older(app[k])
    <3> DEFINE c == Aged(client[k])
               a == Older(app[k])
    <3>1. /\ c.waiting_for_response = client[k].waiting_for_response
          /\ c.message_buffer = client[k].message_buffer
          /\ c.topic_count = client[k].topic_count
          /\ c.topic_table = client[k].topic_table
          /\ c.response_buffer = client[k].response_buffer
          /\ c.got_puback = client[k].got_puback
      BY <2>0, AgedFacts, Zenon
    <3>2. a.pc = app[k].pc /\ a.rx_ok = app[k].rx_ok /\ a.state = app[k].state
      BY <2>0, OlderFacts, Zenon
    <3> HIDE DEF c, a
    <3>3. Own(k, c, a, took[k])
      BY <1>2, <3>1, <3>2, Zenon DEF Own
    <3>. QED  BY <2>3, <3>3, Zenon DEF c, a
  <2>4. \/ client'[k] = client[k] /\ app'[k] = app[k]
        \/ app'[k] = DeepSleep(app[k], "noradio")
        \/ client'[k] = Aged(client[k]) /\ app'[k] = Older(app[k])
    BY <1>0 DEF NoRadio, CalmsDown, Tick
  <2>. QED  BY <2>1, <2>2, <2>3, <2>4
<1>. QED  BY <1>1, <1>2, <1>3, OwnFacts

\* What the gateway sends is an answer that it owes, or chatter.
LEMMA GatewayAlone ==
    ASSUME Alone, IndInv, AnswersItsLeaf, GatewayAnswers \/ GatewayChatters
    PROVE  AnswersItsLeaf'
<1>1. PICK f \in Traffic \cup {Hello} :
        /\ Transmit(f)
        /\ owed' \subseteq owed
        /\ f \in owed \/ f \in Chatter
  BY TrafficFacts DEF GatewayAnswers, GatewayChatters, IndInv, TypeOK
<1>2. PICK audience \in Audiences({}) : heard' = HeardBy(heard, audience, f)
  BY <1>1 DEF Transmit
<1>3. \A k \in Leaves : heard'[k] = heard[k] \/ heard'[k] = {f}
  BY <1>2, FramesNow, HeardByFacts
<1>4. UNCHANGED <<client, app, granted, took>>
  BY <1>1 DEF Transmit
<1>5. ASSUME NEW k \in Leaves
      PROVE  /\ \A m \in owed \cup heard[k] : Fits(k, m, took[k])
             /\ took[k] \subseteq {TopicOf[k]}
             /\ Own(k, client[k], app[k], took[k])
  BY OwnFacts
<1>6. ASSUME NEW k \in Leaves
      PROVE  Fits(k, f, took[k])
  <2>1. CASE f \in owed
    BY <1>5, <2>1
  <2>2. CASE f \in Chatter
    BY <2>2 DEF Alone, Fits
  <2>. QED  BY <1>1, <2>1, <2>2
<1>. QED  BY <1>1, <1>3, <1>4, <1>5, <1>6, OwnFacts

\* Before the first boot nothing is on its way.
LEMMA InitAlone == Init => AnswersItsLeaf
<1> SUFFICES ASSUME Init PROVE AnswersItsLeaf
  OBVIOUS
<1>1. IndInv
  BY InitInv
<1> DEFINE a == DeepSleep(Started(FALSE), "none")
<1>2. a.pc = "asleep"
  <2>1. Started(FALSE) \in App
    BY StartedFacts, FALSE \in BOOLEAN, Zenon
  <2>2. "none" \in SleepKind
    BY DEF SleepKind
  <2> HIDE DEF a
  <2>3. ASSUME NEW b \in App
        PROVE  DeepSleep(b, "none").pc = "asleep"
    BY <2>2, DeepSleepFacts, SMT
  <2>. QED  BY <2>1, <2>3, Zenon DEF a
<1>3. app = [l \in Leaves |-> a]
  BY DEF Init
<1> HIDE DEF a
<1>4. \A l \in Leaves : ~Awake(l)
  BY <1>2, <1>3 DEF Awake
<1>. QED  BY <1>4 DEF Init, AnswersItsLeaf

\* Alone with its gateway, a leaf only ever hears answers to its own requests.
LEMMA NextAlone == Alone /\ IndInv /\ AnswersItsLeaf /\ [Next]_vars => AnswersItsLeaf'
<1> SUFFICES ASSUME Alone, IndInv, AnswersItsLeaf, [Next]_vars PROVE AnswersItsLeaf'
  OBVIOUS
<1>1. CASE UNCHANGED vars
  BY <1>1, Zenon DEF vars, AnswersItsLeaf, Answers, Awake
<1>. QED  BY <1>1, BootAlone, TryReceiveAlone, TailAlone, QuietAlone, GatewayAlone DEF Next

\* The invariant behind the next two theorems.
THEOREM AloneInvariance == Alone => (Spec => []AnswersItsLeaf)
<1> SUFFICES ASSUME Alone PROVE Spec => []AnswersItsLeaf
  OBVIOUS
<1>1. Init => AnswersItsLeaf
  BY InitAlone
<1>2. IndInv /\ AnswersItsLeaf /\ [Next]_vars => AnswersItsLeaf'
  BY NextAlone
<1>. QED  BY <1>1, <1>2, FieldInvariance, PTL DEF Spec

\* One leaf alone with a gateway that answers promptly counts a PUBACK only
\* when the broker took a PUBLISH of this boot, whatever the channel loses and
\* however often a HELLO makes the client handle an old message again, as long
\* as no frame is misread as a REGACK or PUBACK (Alone): puback_handler gets
\* away with comparing no message id.
THEOREM PubackTaken == Alone => (Spec => []PubackMeansTaken)
<1> SUFFICES ASSUME Alone PROVE Spec => []PubackMeansTaken
  OBVIOUS
<1>1. AnswersItsLeaf => PubackMeansTaken
  BY Zenon DEF AnswersItsLeaf, PubackMeansTaken, Awake
<1>2. Spec => []AnswersItsLeaf
  BY AloneInvariance
<1>. QED  BY <1>1, <1>2, PTL

\* And the broker files its readings under its own topic only, although the
\* client finds topic ids by the address of a name.
THEOREM OwnTopicOnly == Alone => (Spec => []PublishesOwnTopic)
<1> SUFFICES ASSUME Alone PROVE Spec => []PublishesOwnTopic
  OBVIOUS
<1>1. AnswersItsLeaf => PublishesOwnTopic
  BY Zenon DEF AnswersItsLeaf, PublishesOwnTopic
<1>2. Spec => []AnswersItsLeaf
  BY AloneInvariance
<1>. QED  BY <1>1, <1>2, PTL

-----------------------------------------------------------------------------
(* Each leaf of the field is a leaf of module Leaf.  TheLeaf is an instance  *)
(* with copies of the operators of LeafApp; they depend on no variable, so   *)
(* that each copy is the operator itself.                                    *)

\* The library, seen through the instance.
LEMMA SameSending ==
    /\ TheLeaf!MQTTSN = MQTTSN
    /\ TheLeaf!Index = Index
    /\ \A c : TheLeaf!Quiet(c) = Quiet(c)
    /\ \A c : TheLeaf!Checked(c) = Checked(c)
    /\ \A c : TheLeaf!find_topic_id(c) = find_topic_id(c)
    /\ \A c : TheLeaf!CanRegister(c) = CanRegister(c)
    /\ \A c : TheLeaf!register_topic(c) = register_topic(c)
    /\ \A c, t : TheLeaf!publish(c, t) = publish(c, t)
    /\ \A dead, t : TheLeaf!Setup(dead, t) = Setup(dead, t)
    /\ \A c, m : TheLeaf!Grants(c, m) = Grants(c, m)
<1>1. TheLeaf!MQTTSN = MQTTSN /\ TheLeaf!Index = Index
  BY Zenon DEF TheLeaf!MQTTSN, MQTTSN, TheLeaf!Zeroed, Zeroed, TheLeaf!Msg, Msg,
               TheLeaf!Index, Index
<1>2. \A c : TheLeaf!Quiet(c) = Quiet(c)
  BY Zenon DEF TheLeaf!Quiet, Quiet
<1>3. \A c : TheLeaf!Checked(c) = Checked(c)
  BY Zenon DEF TheLeaf!Checked, Checked, TheLeaf!Quiet, Quiet,
               TheLeaf!wait_for_response, wait_for_response,
               TheLeaf!send_message, send_message, TheLeaf!Send, Send
<1>4. \A c : TheLeaf!find_topic_id(c) = find_topic_id(c)
  BY Zenon DEF TheLeaf!find_topic_id, find_topic_id, TheLeaf!NoTopic, NoTopic,
               TheLeaf!IdMod, IdMod
<1>5. \A c : TheLeaf!CanRegister(c) = CanRegister(c)
  BY Zenon DEF TheLeaf!CanRegister, CanRegister
<1>6. \A c : TheLeaf!register_topic(c) = register_topic(c)
  BY Zenon DEF TheLeaf!register_topic, register_topic, TheLeaf!Request, Request,
               TheLeaf!Send, Send, TheLeaf!NextId, NextId, TheLeaf!IdMod, IdMod,
               TheLeaf!Msg, Msg
<1>7. \A c, t : TheLeaf!publish(c, t) = publish(c, t)
  BY Zenon DEF TheLeaf!publish, publish, TheLeaf!Request, Request, TheLeaf!Send, Send,
               TheLeaf!NextId, NextId, TheLeaf!IdMod, IdMod, TheLeaf!Msg, Msg
<1>8. \A dead, t : TheLeaf!Setup(dead, t) = Setup(dead, t)
  BY Zenon DEF TheLeaf!Setup, Setup, TheLeaf!connect, connect,
               TheLeaf!Request, Request, TheLeaf!Send, Send, TheLeaf!Msg, Msg,
               TheLeaf!MQTTSN, MQTTSN, TheLeaf!Zeroed, Zeroed
<1>9. \A c, m : TheLeaf!Grants(c, m) = Grants(c, m)
  BY Zenon DEF TheLeaf!Grants, Grants
<1>. QED  BY <1>1, <1>2, <1>3, <1>4, <1>5, <1>6, <1>7, <1>8, <1>9, Zenon

\* Receiving, seen through the instance.
LEMMA SameReceiving ==
    \A c, m, i : /\ TheLeaf!parse(c, m, i) = parse(c, m, i)
                 /\ TheLeaf!parse_stale(c, i) = parse_stale(c, i)
<1>1. \A c, m : TheLeaf!Accepts(c, m) = Accepts(c, m)
  BY Zenon DEF TheLeaf!Accepts, Accepts, TheLeaf!Unsolicited, Unsolicited,
               TheLeaf!Replies, Replies
<1>2. \A c, m, i : TheLeaf!Handler(c, m, i) = Handler(c, m, i)
  <2>1. \A c, m : TheLeaf!regack_handler(c, m) = regack_handler(c, m)
    BY Zenon DEF TheLeaf!regack_handler, regack_handler, TheLeaf!Registered, Registered
  <2>2. \A c, m : TheLeaf!publish_handler(c, m) = publish_handler(c, m)
    BY Zenon DEF TheLeaf!publish_handler, publish_handler,
                 TheLeaf!Acknowledge, Acknowledge, TheLeaf!Send, Send,
                 TheLeaf!Registered, Registered, TheLeaf!Msg, Msg, TheLeaf!bswap, bswap
  <2>3. \A c, m, i : TheLeaf!register_handler(c, m, i) = register_handler(c, m, i)
    BY Zenon DEF TheLeaf!register_handler, register_handler,
                 TheLeaf!Acknowledge, Acknowledge, TheLeaf!Send, Send,
                 TheLeaf!Msg, Msg, TheLeaf!bswap, bswap
  <2>4. \A c, m : TheLeaf!Send(c, m) = Send(c, m)
    BY Zenon DEF TheLeaf!Send, Send
  <2>5. \A t, k, i, o : TheLeaf!Msg(t, k, i, o) = Msg(t, k, i, o)
    BY Zenon DEF TheLeaf!Msg, Msg
  <2>. QED  BY <2>1, <2>2, <2>3, <2>4, <2>5, Zenon DEF TheLeaf!Handler, Handler
<1>3. \A c, i : TheLeaf!dispatch(c, i) = dispatch(c, i)
  BY <1>1, <1>2, Zenon DEF TheLeaf!dispatch, dispatch
<1>. QED  BY <1>3, Zenon DEF TheLeaf!parse, parse, TheLeaf!parse_stale, parse_stale

\* The application, seen through the instance.
LEMMA SameApp ==
    \A a, c, ok, kind :
        /\ TheLeaf!Started(ok) = Started(ok)
        /\ TheLeaf!DeepSleep(a, kind) = DeepSleep(a, kind)
        /\ TheLeaf!Received(a, ok) = Received(a, ok)
        /\ TheLeaf!NextPass(a) = NextPass(a)
        /\ TheLeaf!TooLong(a) = TooLong(a)
        /\ TheLeaf!TooLongKind(a) = TooLongKind(a)
        /\ TheLeaf!Older(a) = Older(a)
        /\ TheLeaf!Aged(c) = Aged(c)
        /\ TheLeaf!Ignores(a) = Ignores(a)
        /\ TheLeaf!Waits(c, a) = Waits(c, a)
        /\ TheLeaf!MustRegister(c, a) = MustRegister(c, a)
        /\ TheLeaf!MustPublish(c, a) = MustPublish(c, a)
        /\ TheLeaf!CountsPass(c, a) = CountsPass(c, a)
        /\ TheLeaf!Published(c, a) = Published(c, a)
        /\ TheLeaf!PassCounted(c, a) = PassCounted(c, a)
<1> TAKE a, c, ok, kind
<1>1. TheLeaf!NoTopic = NoTopic
  BY Zenon DEF TheLeaf!NoTopic, NoTopic, TheLeaf!IdMod, IdMod
<1>2. /\ TheLeaf!Started(ok) = Started(ok)
      /\ TheLeaf!DeepSleep(a, kind) = DeepSleep(a, kind)
      /\ TheLeaf!Received(a, ok) = Received(a, ok)
      /\ TheLeaf!NextPass(a) = NextPass(a)
      /\ TheLeaf!TooLong(a) = TooLong(a)
      /\ TheLeaf!TooLongKind(a) = TooLongKind(a)
      /\ TheLeaf!Older(a) = Older(a)
      /\ TheLeaf!Aged(c) = Aged(c)
      /\ TheLeaf!Ignores(a) = Ignores(a)
  BY <1>1, Zenon DEF TheLeaf!Started, Started, TheLeaf!DeepSleep, DeepSleep,
       TheLeaf!Received, Received, TheLeaf!NextPass, NextPass, TheLeaf!TooLong, TooLong,
       TheLeaf!TooLongKind, TooLongKind, TheLeaf!Older, Older, TheLeaf!Aged, Aged,
       TheLeaf!Ignores, Ignores, TheLeaf!Quiet, Quiet, TheLeaf!Age, Age
<1>3. /\ TheLeaf!Checked(c) = Checked(c)
      /\ TheLeaf!find_topic_id(Checked(c)) = find_topic_id(Checked(c))
  BY SameSending, Zenon
<1>4. /\ TheLeaf!Waits(c, a) = Waits(c, a)
      /\ TheLeaf!MustRegister(c, a) = MustRegister(c, a)
      /\ TheLeaf!MustPublish(c, a) = MustPublish(c, a)
      /\ TheLeaf!CountsPass(c, a) = CountsPass(c, a)
  BY <1>1, <1>2, <1>3, Zenon DEF TheLeaf!Waits, Waits, TheLeaf!Proceeds, Proceeds,
       TheLeaf!StillWaiting, StillWaiting, TheLeaf!MustRegister, MustRegister,
       TheLeaf!MustPublish, MustPublish, TheLeaf!CountsPass, CountsPass
<1>5. /\ TheLeaf!Published(c, a) = Published(c, a)
      /\ TheLeaf!PassCounted(c, a) = PassCounted(c, a)
  BY <1>3, Zenon DEF TheLeaf!Published, Published, TheLeaf!PassCounted, PassCounted,
       TheLeaf!DeepSleep, DeepSleep, TheLeaf!NextPass, NextPass
<1>. QED  BY <1>2, <1>4, <1>5, Zenon

\* The initial state of the field is, for one leaf, that of module Leaf.
LEMMA InitLeaf == Init => TheLeaf!Init
<1> SUFFICES ASSUME Init PROVE TheLeaf!Init
  OBVIOUS
<1>1. ALeaf \in Leaves
  BY FieldAssumption DEF ALeaf
<1>2. /\ client[ALeaf] = MQTTSN
      /\ app[ALeaf] = DeepSleep(Started(FALSE), "none")
      /\ granted[ALeaf] = {}
  BY <1>1, Zenon DEF Init
<1>3. TheLeaf!DeepSleep(TheLeaf!Started(FALSE), "none") = DeepSleep(Started(FALSE), "none")
  BY SameApp, Zenon
<1>. QED  BY <1>2, <1>3, SameSending, Zenon DEF TheLeaf!Init

\* A boot of the leaf.
LEMMA BootLeaf ==
    ASSUME IndInv, NEW dead \in BOOLEAN, Boot(ALeaf, dead)
    PROVE  TheLeaf!Boot
<1>0. ALeaf \in Leaves
  BY FieldAssumption DEF ALeaf
<1>1. client \in [Leaves -> Client] /\ app \in [Leaves -> App]
      /\ granted \in [Leaves -> SUBSET Id]
  BY DEF IndInv, TypeOK
<1>2. PICK t \in 0..SetupTicks : client'[ALeaf] = Setup(dead, t)
  BY <1>0, <1>1 DEF Boot
<1>3. app[ALeaf].pc = "asleep" /\ app'[ALeaf] = Started(dead) /\ granted'[ALeaf] = {}
  BY <1>0, <1>1 DEF Boot
<1>4. TheLeaf!Setup(dead, t) = Setup(dead, t) /\ TheLeaf!Started(dead) = Started(dead)
  BY SameSending, SameApp, Zenon
<1>. QED  BY <1>2, <1>3, <1>4, Zenon DEF TheLeaf!Boot

\* A boot without a radio ends.
LEMMA NoRadioLeaf ==
    ASSUME IndInv, NoRadio(ALeaf)
    PROVE  TheLeaf!NoRadio
<1>0. ALeaf \in Leaves
  BY FieldAssumption DEF ALeaf
<1>1. client \in [Leaves -> Client] /\ app \in [Leaves -> App]
  BY DEF IndInv, TypeOK
<1>2. /\ app[ALeaf].pc = "rx" /\ app[ALeaf].dead
      /\ client'[ALeaf] = MQTTSN
      /\ app'[ALeaf] = DeepSleep(app[ALeaf], "noradio")
      /\ granted'[ALeaf] = granted[ALeaf]
  BY <1>0, <1>1 DEF NoRadio
<1>3. TheLeaf!DeepSleep(app[ALeaf], "noradio") = DeepSleep(app[ALeaf], "noradio")
  BY SameApp, Zenon
<1>. QED  BY <1>2, <1>3, SameSending, Zenon DEF TheLeaf!NoRadio, TheLeaf!Sleep

\* Whatever the channel delivers is an input of module Leaf.
LEMMA TryReceiveLeaf ==
    ASSUME IndInv, TryReceive(ALeaf)
    PROVE  TheLeaf!TryReceive
<1>0. ALeaf \in Leaves
  BY FieldAssumption DEF ALeaf
<1>1. HearsNothing(ALeaf) \/ HearsHello(ALeaf) \/ \E m \in Traffic : Hears(ALeaf, m)
  BY <1>0, HearCases
<1>2. TheLeaf!Listens
  BY Zenon DEF TheLeaf!Listens, TryReceive
<1> DEFINE q == Quiet(client[ALeaf])
<1>3. TheLeaf!Quiet(client[ALeaf]) = q /\ TheLeaf!Index = Index
  BY SameSending, Zenon
<1>4. /\ TheLeaf!Received(app[ALeaf], TRUE) = Received(app[ALeaf], TRUE)
      /\ TheLeaf!Received(app[ALeaf], FALSE) = Received(app[ALeaf], FALSE)
  BY SameApp, Zenon
<1>5. \A m : TheLeaf!Grants(client[ALeaf], m) = Grants(client[ALeaf], m)
  BY SameSending, Zenon
<1>6. \A m, i : /\ TheLeaf!parse(q, m, i) = parse(q, m, i)
                /\ TheLeaf!parse_stale(q, i) = parse_stale(q, i)
  BY SameReceiving, Zenon
<1> HIDE DEF q
<1>7. CASE HearsNothing(ALeaf)
  <2>1. TheLeaf!HearNothing
    BY <1>2, <1>3, <1>4, <1>7, Zenon DEF TheLeaf!HearNothing, HearsNothing, q
  <2>. QED  BY <2>1 DEF TheLeaf!TryReceive
<1>8. CASE HearsHello(ALeaf)
  <2>1. PICK i \in Index : client'[ALeaf] = parse_stale(q, i)
    BY <1>8, Zenon DEF HearsHello, q
  <2>2. /\ granted'[ALeaf] =
              granted[ALeaf] \cup Grants(client[ALeaf], client[ALeaf].response_buffer)
        /\ app'[ALeaf] = Received(app[ALeaf], TRUE)
    BY <1>8, Zenon DEF HearsHello
  <2>3. TheLeaf!HearHello
    BY <1>2, <1>3, <1>4, <1>5, <1>6, <2>1, <2>2, Zenon DEF TheLeaf!HearHello
  <2>. QED  BY <2>3 DEF TheLeaf!TryReceive
<1>9. ASSUME NEW m \in Traffic, Hears(ALeaf, m)
      PROVE  TheLeaf!TryReceive
  <2>1. PICK i \in Index : client'[ALeaf] = parse(q, m, i)
    BY <1>9, Zenon DEF Hears, q
  <2>2. /\ granted'[ALeaf] = granted[ALeaf] \cup Grants(client[ALeaf], m)
        /\ app'[ALeaf] = Received(app[ALeaf], TRUE)
    BY <1>9, Zenon DEF Hears
  <2>3. TheLeaf!HearMessage
    BY <1>2, <1>3, <1>4, <1>5, <1>6, <2>1, <2>2, Zenon DEF TheLeaf!HearMessage
  <2>. QED  BY <2>3 DEF TheLeaf!TryReceive
<1>. QED  BY <1>1, <1>7, <1>8, <1>9

\* The tail of a pass takes the same branch in both specifications.
LEMMA TailLeaf ==
    ASSUME IndInv, Tail(ALeaf)
    PROVE  TheLeaf!Tail
<1>0. ALeaf \in Leaves
  BY FieldAssumption DEF ALeaf
<1>1. client \in [Leaves -> Client] /\ app \in [Leaves -> App]
  BY DEF IndInv, TypeOK
<1> DEFINE c == client[ALeaf]
           a == app[ALeaf]
           d == Checked(c)
           tc == TailClient(c, a)
           ta == TailApp(c, a)
<1>2. /\ a.pc = "tail"
      /\ client'[ALeaf] = tc
      /\ app'[ALeaf] = ta
      /\ granted'[ALeaf] = granted[ALeaf]
  BY <1>0, <1>1 DEF Tail
<1>3. /\ TheLeaf!MQTTSN = MQTTSN
      /\ TheLeaf!Quiet(c) = Quiet(c)
      /\ TheLeaf!Checked(c) = d
      /\ TheLeaf!find_topic_id(d) = find_topic_id(d)
      /\ TheLeaf!CanRegister(d) = CanRegister(d)
      /\ TheLeaf!register_topic(d) = register_topic(d)
      /\ TheLeaf!publish(d, find_topic_id(d)) = publish(d, find_topic_id(d))
  BY SameSending, Zenon
<1>4. /\ TheLeaf!TooLong(a) = TooLong(a)
      /\ TheLeaf!TooLongKind(a) = TooLongKind(a)
      /\ TheLeaf!DeepSleep(a, TooLongKind(a)) = DeepSleep(a, TooLongKind(a))
      /\ TheLeaf!DeepSleep(a, "fault") = DeepSleep(a, "fault")
      /\ TheLeaf!NextPass(a) = NextPass(a)
      /\ TheLeaf!Ignores(a) = Ignores(a)
      /\ TheLeaf!Waits(c, a) = Waits(c, a)
      /\ TheLeaf!MustRegister(c, a) = MustRegister(c, a)
      /\ TheLeaf!MustPublish(c, a) = MustPublish(c, a)
      /\ TheLeaf!CountsPass(c, a) = CountsPass(c, a)
      /\ TheLeaf!Published(c, a) = Published(c, a)
      /\ TheLeaf!PassCounted(c, a) = PassCounted(c, a)
  BY SameApp, Zenon
<1>5. a \in App
  BY <1>0, <1>1
<1> HIDE DEF d, tc, ta
<1>6. CASE TooLong(a) /\ tc = MQTTSN /\ ta = DeepSleep(a, TooLongKind(a))
  <2>1. TheLeaf!GiveUpBoot
    BY <1>2, <1>3, <1>4, <1>6, Zenon DEF TheLeaf!GiveUpBoot, TheLeaf!Sleep
  <2>. QED  BY <2>1 DEF TheLeaf!Tail
<1>7. CASE Ignores(a) /\ tc = Quiet(c) /\ ta = NextPass(a)
  <2>1. TheLeaf!Ignore
    BY <1>2, <1>3, <1>4, <1>7, Zenon DEF TheLeaf!Ignore
  <2>. QED  BY <2>1 DEF TheLeaf!Tail
<1>8. CASE Waits(c, a) /\ tc = d /\ ta = NextPass(a)
  <2>1. TheLeaf!KeepWaiting
    BY <1>2, <1>3, <1>4, <1>8, Zenon DEF TheLeaf!KeepWaiting
  <2>. QED  BY <2>1 DEF TheLeaf!Tail
<1>9. CASE /\ MustRegister(c, a) /\ CanRegister(d)
           /\ tc = register_topic(d) /\ ta = NextPass(a)
  <2>1. TheLeaf!Register
    BY <1>2, <1>3, <1>4, <1>9, Zenon DEF TheLeaf!Register
  <2>. QED  BY <2>1 DEF TheLeaf!Tail
<1>10. CASE /\ MustRegister(c, a) /\ ~CanRegister(d)
            /\ tc = MQTTSN /\ ta = DeepSleep(a, "fault")
  <2>1. TheLeaf!RegisterFails
    BY <1>2, <1>3, <1>4, <1>10, Zenon DEF TheLeaf!RegisterFails, TheLeaf!Sleep
  <2>. QED  BY <2>1 DEF TheLeaf!Tail
<1>11. CASE /\ MustPublish(c, a)
            /\ tc = publish(d, find_topic_id(d)) /\ ta = Published(c, a)
  <2>1. TheLeaf!Publish
    BY <1>2, <1>3, <1>4, <1>11, Zenon DEF TheLeaf!Publish
  <2>. QED  BY <2>1 DEF TheLeaf!Tail
<1>12. CASE /\ CountsPass(c, a) /\ ta = PassCounted(c, a)
            /\ tc = IF PassCounted(c, a).pc = "asleep" THEN MQTTSN ELSE d
  <2>1. TheLeaf!CountPass
    BY <1>2, <1>3, <1>4, <1>12, Zenon DEF TheLeaf!CountPass
  <2>. QED  BY <2>1 DEF TheLeaf!Tail
<1>. QED  BY <1>5, <1>6, <1>7, <1>8, <1>9, <1>10, <1>11, <1>12, TailBranches, Zenon
             DEF d, tc, ta

\* A tick of the field is a tick of the leaf, or none while it sleeps.
LEMMA TickLeaf ==
    ASSUME Tick
    PROVE  TheLeaf!Tick \/ UNCHANGED TheLeaf!vars
<1>0. ALeaf \in Leaves
  BY FieldAssumption DEF ALeaf
<1>1. granted'[ALeaf] = granted[ALeaf]
  BY DEF Tick
<1>2. CASE app[ALeaf].pc = "asleep"
  <2>1. client'[ALeaf] = client[ALeaf] /\ app'[ALeaf] = app[ALeaf]
    BY <1>0, <1>2 DEF Tick
  <2>. QED  BY <1>1, <2>1, Zenon DEF TheLeaf!vars
<1>3. CASE app[ALeaf].pc # "asleep"
  <2>1. client'[ALeaf] = Aged(client[ALeaf]) /\ app'[ALeaf] = Older(app[ALeaf])
    BY <1>0, <1>3 DEF Tick
  <2>2. TheLeaf!Aged(client[ALeaf]) = Aged(client[ALeaf])
        /\ TheLeaf!Older(app[ALeaf]) = Older(app[ALeaf])
    BY SameApp, Zenon
  <2>. QED  BY <1>1, <1>3, <2>1, <2>2, Zenon DEF TheLeaf!Tick
<1>. QED  BY <1>2, <1>3

\* Every step of the field is a step of the leaf or leaves it alone.
LEMMA NextLeaf == IndInv /\ [Next]_vars => [TheLeaf!Next]_(TheLeaf!vars)
<1> SUFFICES ASSUME IndInv, [Next]_vars PROVE TheLeaf!Next \/ UNCHANGED TheLeaf!vars
  OBVIOUS
<1>0. ALeaf \in Leaves
  BY FieldAssumption DEF ALeaf
<1>1. client \in [Leaves -> Client] /\ app \in [Leaves -> App]
      /\ granted \in [Leaves -> SUBSET Id]
  BY DEF IndInv, TypeOK
<1>2. ASSUME client'[ALeaf] = client[ALeaf], app'[ALeaf] = app[ALeaf],
             granted'[ALeaf] = granted[ALeaf]
      PROVE  UNCHANGED TheLeaf!vars
  BY <1>2, Zenon DEF TheLeaf!vars
<1>3. CASE \E l \in Leaves : l # ALeaf /\ (\/ \E dead \in BOOLEAN : Boot(l, dead)
                                           \/ NoRadio(l)
                                           \/ TryReceive(l)
                                           \/ Tail(l))
  <2>1. PICK l \in Leaves : l # ALeaf /\ (\/ \E dead \in BOOLEAN : Boot(l, dead)
                                          \/ NoRadio(l)
                                          \/ TryReceive(l)
                                          \/ Tail(l))
    BY <1>3
  <2>2. PICK c, a, g : /\ client' = [client EXCEPT ![l] = c]
                       /\ app' = [app EXCEPT ![l] = a]
                       /\ granted' = [granted EXCEPT ![l] = g] \/ granted' = granted
    <3>1. CASE \E dead \in BOOLEAN : Boot(l, dead)
      BY <3>1, Zenon DEF Boot
    <3>2. CASE NoRadio(l)
      BY <3>2, Zenon DEF NoRadio
    <3>3. CASE TryReceive(l)
      <4>1. OnlyLeaf(l)
        BY <2>1, <3>3, HearCases, Zenon
      <4> DEFINE c0 == client'[l]
                 a0 == app'[l]
                 g0 == granted'[l]
      <4>2. /\ client' = [client EXCEPT ![l] = c0]
            /\ app' = [app EXCEPT ![l] = a0]
            /\ granted' = [granted EXCEPT ![l] = g0]
        BY <4>1 DEF OnlyLeaf
      <4> HIDE DEF c0, a0, g0
      <4>. QED  BY <4>2, Zenon
    <3>4. CASE Tail(l)
      BY <3>4, Zenon DEF Tail
    <3>. QED  BY <2>1, <3>1, <3>2, <3>3, <3>4
  <2>3. /\ client'[ALeaf] = client[ALeaf]
        /\ app'[ALeaf] = app[ALeaf]
        /\ granted'[ALeaf] = granted[ALeaf]
    BY <1>0, <1>1, <2>1, <2>2
  <2>. QED  BY <1>2, <2>3
<1>4. CASE GatewayAnswers \/ GatewayChatters \/ CalmsDown \/ UNCHANGED vars
  BY <1>2, <1>4 DEF GatewayAnswers, GatewayChatters, CalmsDown, Transmit, vars
<1>5. CASE \E dead \in BOOLEAN : Boot(ALeaf, dead)
  BY <1>5, BootLeaf DEF TheLeaf!Next
<1>6. CASE NoRadio(ALeaf)
  BY <1>6, NoRadioLeaf DEF TheLeaf!Next
<1>7. CASE TryReceive(ALeaf)
  BY <1>7, TryReceiveLeaf DEF TheLeaf!Next
<1>8. CASE Tail(ALeaf)
  BY <1>8, TailLeaf DEF TheLeaf!Next
<1>9. CASE Tick
  BY <1>9, TickLeaf DEF TheLeaf!Next
<1>. QED  BY <1>3, <1>4, <1>5, <1>6, <1>7, <1>8, <1>9 DEF Next

\* However many leaves share the channel, whatever it loses and whatever the
\* gateway adds, what happens to one of them is a behaviour of module Leaf: the
\* arbitrary environment of that module covers every deployment.
THEOREM LeafOfTheField == Spec => FieldImplementsLeaf
<1>1. Init => TheLeaf!Init
  BY InitLeaf
<1>2. IndInv /\ [Next]_vars => [TheLeaf!Next]_(TheLeaf!vars)
  BY NextLeaf
<1>. QED  BY <1>1, <1>2, FieldInvariance, PTL DEF Spec, FieldImplementsLeaf, TheLeaf!Spec
=============================================================================
