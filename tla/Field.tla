------------------------------- MODULE Field -------------------------------
(***************************************************************************)
(* Several leaf nodes, the radio channel they share, and the gateway       *)
(* (bridge and broker) that answers them.                                  *)
(*                                                                         *)
(* A frame carries no address.  Whatever a leaf or the gateway transmits   *)
(* can be heard by every leaf whose radio is receiving at that moment, and *)
(* by the gateway; who really hears it is decided by the channel.  A radio *)
(* in single receive mode takes one frame and then stops listening.  The   *)
(* driver stays warm after a frame (module McuRadio): unless the leaf has  *)
(* transmitted in between, the next one is read from where the FIFO        *)
(* pointer stands, and is taken for anything.                              *)
(*                                                                         *)
(* The broker is external.  It is modelled by what the leaf needs of it:   *)
(* it acknowledges CONNECT, REGISTER and PUBLISH, grants each leaf's topic *)
(* name its own id, and may send messages of Chatter on its own.  The      *)
(* bridge adds a HELLO frame when it restarts.                             *)
(***************************************************************************)
EXTENDS LeafApp

CONSTANTS
    Leaves,     \* the leaf nodes
    TopicOf,    \* the topic id the broker grants to each leaf's topic name
    Chatter,    \* frames the gateway may send unasked
    MaxChatter, \* how many of them it sends between two boots (bounds the model)
    Misread,    \* what a frame read from the moved FIFO pointer is taken for
    Rough,      \* may the channel lose frames, and the gateway chatter, at first?
    Prompt      \* does the gateway keep up with what it owes?

\* The frame TransmitHello sends.
Hello == Msg("HELLO", 0, 0, 0)

ASSUME FieldAssumption ==
    /\ Leaves # {}
    /\ TopicOf \in [Leaves -> Id]
    /\ Chatter \subseteq Message \cup {Hello}
    /\ MaxChatter \in Nat
    /\ Misread \subseteq Message \cup {Hello}
    /\ Misread # {}
    /\ Rough \in BOOLEAN
    /\ Prompt \in BOOLEAN

VARIABLES
    client,    \* per leaf, the MQTTSX1276 object
    app,       \* per leaf, the globals of leaf.ino
    granted,   \* per leaf, the history variable of module Leaf
    heard,     \* per leaf, the frames its radio took and has not delivered
    moved,     \* per leaf, was a frame read since it last transmitted?
    owed,      \* answers the gateway has yet to transmit
    busy,      \* has it transmitted one since the last tick, and owes more?
    took,      \* per leaf, topic ids of this boot's PUBLISHes the broker took
    chats,     \* frames the gateway sent unasked since a leaf booted
    calm       \* has the channel stopped losing frames, and the chatter?

vars == <<client, app, granted, heard, moved, owed, busy, took, chats, calm>>

Answer(l, m) ==
    CASE m.type = "CONNECT"  -> {Msg("CONNACK", 0, 0, 0)}
      [] m.type = "REGISTER" -> {Msg("REGACK", TopicOf[l], m.message_id, 0)}
      [] m.type = "PUBLISH"  -> {Msg("PUBACK", m.topic_id, m.message_id, 0)}
      [] OTHER               -> {}

Init ==
    /\ client = [l \in Leaves |-> MQTTSN]
    /\ app = [l \in Leaves |-> DeepSleep(Started(FALSE), "none")]
    /\ granted = [l \in Leaves |-> {}]
    /\ heard = [l \in Leaves |-> {}]
    /\ moved = [l \in Leaves |-> FALSE]
    /\ owed = {}
    /\ busy = FALSE
    /\ took = [l \in Leaves |-> {}]
    /\ chats = 0
    /\ calm = ~Rough

-----------------------------------------------------------------------------
(* The channel *)

Listening(l) == app[l].pc = "rx" /\ ~app[l].dead /\ heard[l] = {}

\* The sets of leaves that can hear a frame sent by someone else than l.
Audiences(from) ==
    LET near == {k \in Leaves \ from : Listening(k)}
    IN  IF calm THEN {near} ELSE SUBSET near

\* heard when the leaves of audience take frame f, and h is it otherwise.
HeardBy(h, audience, f) ==
    [k \in Leaves |-> IF k \in audience THEN {f} ELSE h[k]]

\* Leaf l transmits the messages of sent; h and t are heard and took without
\* them.
Air(l, sent, h, t) ==
    /\ \E audience \in Audiences({l}) :
          heard' = IF sent = {} THEN h
                   ELSE HeardBy(h, audience, CHOOSE m \in sent : TRUE)
    /\ \E up \in IF calm THEN {sent} ELSE SUBSET sent :
          /\ owed' = owed \cup UNION {Answer(l, m) : m \in up}
          /\ took' = [t EXCEPT ![l] = @ \cup
                {m.topic_id : m \in {x \in up : x.type = "PUBLISH"}}]
    /\ UNCHANGED <<busy, calm>>

\* The channel is quiet enough for the gateway: without loss it transmits
\* when every leaf that is awake listens.
Clear == ~calm \/ \A l \in Leaves : app[l].pc = "asleep" \/ Listening(l)

Transmit(f) ==
    /\ \E audience \in Audiences({}) : heard' = HeardBy(heard, audience, f)
    /\ UNCHANGED <<client, app, granted, moved, took, calm>>

GatewayAnswers ==
    /\ Clear
    /\ \E m \in owed :
          Transmit(m) /\ owed' = owed \ {m} /\ busy' = (owed' # {})
    /\ UNCHANGED chats

GatewayChatters ==
    /\ ~calm
    /\ chats < MaxChatter
    /\ chats' = chats + 1
    /\ \E m \in Chatter : Transmit(m)
    /\ UNCHANGED <<owed, busy>>

\* From now on no frame gets lost, and the gateway only answers.
CalmsDown ==
    /\ ~calm
    /\ calm' = TRUE
    /\ UNCHANGED <<client, app, granted, heard, moved, owed, busy, took, chats>>

-----------------------------------------------------------------------------
(* The leaves *)

Boot(l, dead) ==
    /\ app[l].pc = "asleep"
    /\ Prompt => owed = {}
    /\ \E t \in 0..SetupTicks : client' = [client EXCEPT ![l] = Setup(dead, t)]
    /\ app' = [app EXCEPT ![l] = Started(dead)]
    /\ granted' = [granted EXCEPT ![l] = {}]
    /\ moved' = [moved EXCEPT ![l] = FALSE]
    /\ chats' = 0
    /\ Air(l, client'[l].sent, heard, [took EXCEPT ![l] = {}])

NoRadio(l) ==
    /\ app[l].pc = "rx"
    /\ app[l].dead
    /\ client' = [client EXCEPT ![l] = MQTTSN]
    /\ app' = [app EXCEPT ![l] = DeepSleep(@, "noradio")]
    /\ UNCHANGED <<granted, heard, moved, owed, busy, took, chats, calm>>

\* What ReceiveMessage may return of the frame that the radio took, if any.
Read(l) == IF moved[l] /\ heard[l] # {} THEN {{m} : m \in Misread} ELSE {heard[l]}

\* The leaf hears got: parses it, dispatches it, and perhaps answers.
Hear(l, got, index) ==
    /\ client' = [client EXCEPT ![l] =
          IF got = {} THEN Quiet(@)
          ELSE IF got = {Hello} THEN parse_stale(Quiet(@), index)
          ELSE parse(Quiet(@), CHOOSE m \in got : TRUE, index)]
    /\ granted' = [granted EXCEPT ![l] = @ \cup
          UNION {Grants(client[l],
                        IF f = Hello THEN client[l].response_buffer ELSE f)
                   : f \in got}]
    /\ app' = [app EXCEPT ![l] = Received(@, got # {})]
    /\ moved' = [moved EXCEPT ![l] = (@ \/ got # {}) /\ client'[l].sent = {}]

TryReceive(l) ==
    /\ app[l].pc = "rx"
    /\ ~app[l].dead
    /\ \E got \in Read(l), index \in Index : Hear(l, got, index)
    /\ UNCHANGED chats
    /\ Air(l, client'[l].sent, [heard EXCEPT ![l] = {}], took)

\* Mutant: every pass that still waits retransmits, without asking the timer.
TailClient_Hasty(c, a) ==
    CASE TooLong(a) -> MQTTSN
      [] Ignores(a) -> Quiet(c)
      [] Waits(c, a) -> send_message(Quiet(c))
      [] MustRegister(c, a) /\ CanRegister(Checked(c)) -> register_topic(Checked(c))
      [] MustRegister(c, a) /\ ~CanRegister(Checked(c)) -> MQTTSN
      [] MustPublish(c, a) -> publish(Checked(c), find_topic_id(Checked(c)))
      [] CountsPass(c, a) ->
            IF PassCounted(c, a).pc = "asleep" THEN MQTTSN ELSE Checked(c)

\* The client and the globals after the tail of a pass of loop().
TailClient(c, a) ==
    CASE TooLong(a) -> MQTTSN
      [] Ignores(a) -> Quiet(c)
      [] Waits(c, a) -> Checked(c)
      [] MustRegister(c, a) /\ CanRegister(Checked(c)) -> register_topic(Checked(c))
      [] MustRegister(c, a) /\ ~CanRegister(Checked(c)) -> MQTTSN
      [] MustPublish(c, a) -> publish(Checked(c), find_topic_id(Checked(c)))
      [] CountsPass(c, a) ->
            IF PassCounted(c, a).pc = "asleep" THEN MQTTSN ELSE Checked(c)

TailApp(c, a) ==
    CASE TooLong(a) -> DeepSleep(a, TooLongKind(a))
      [] Ignores(a) \/ Waits(c, a) -> NextPass(a)
      [] MustRegister(c, a) /\ CanRegister(Checked(c)) -> NextPass(a)
      [] MustRegister(c, a) /\ ~CanRegister(Checked(c)) -> DeepSleep(a, "fault")
      [] MustPublish(c, a) -> Published(c, a)
      [] CountsPass(c, a) -> PassCounted(c, a)

Tail(l) ==
    /\ app[l].pc = "tail"
    /\ client' = [client EXCEPT ![l] = TailClient(@, app[l])]
    /\ app' = [app EXCEPT ![l] = TailApp(client[l], @)]
    /\ moved' = [moved EXCEPT ![l] = @ /\ client'[l].sent = {}]
    /\ UNCHANGED <<granted, chats>>
    /\ Air(l, client'[l].sent, heard, took)

\* Time passes for every node that is awake.  A prompt gateway owes nothing
\* over a tick unless it was busy with other answers, and a leaf leaves no
\* received frame pending.
Tick ==
    /\ Prompt => (owed = {} \/ busy) /\ \A l \in Leaves : heard[l] = {} /\ app[l].pc # "tail"
    /\ client' = [l \in Leaves |->
          IF app[l].pc = "asleep" THEN client[l] ELSE Aged(client[l])]
    /\ app' = [l \in Leaves |->
          IF app[l].pc = "asleep" THEN app[l] ELSE Older(app[l])]
    /\ busy' = FALSE
    /\ UNCHANGED <<granted, heard, moved, owed, took, chats, calm>>

Next ==
    \/ \E l \in Leaves :
          \/ \E dead \in BOOLEAN : Boot(l, dead)
          \/ NoRadio(l)
          \/ TryReceive(l)
          \/ Tail(l)
    \/ GatewayAnswers
    \/ GatewayChatters
    \/ CalmsDown
    \/ Tick

Spec == Init /\ [][Next]_vars

\* Every node keeps running, the gateway transmits what it owes, time passes,
\* and the radio does not fail to start at every boot.
Fairness ==
    /\ \A l \in Leaves :
          /\ SF_vars(Boot(l, FALSE))
          /\ WF_vars(NoRadio(l))
          /\ WF_vars(TryReceive(l))
          /\ WF_vars(Tail(l))
    /\ SF_vars(GatewayAnswers)
    /\ SF_vars(Tick)

FairSpec == Spec /\ Fairness
-----------------------------------------------------------------------------
(* Properties *)

\* Any one of the leaves (they differ in nothing but their topic).
ALeaf == CHOOSE l \in Leaves : TRUE

\* The messages that leaves and gateway transmit.
Traffic ==
    [type : {"CONNECT", "CONNACK", "PINGRESP", "WILLMSG"},
     topic_id : {0}, message_id : {0}, code : {0}]
    \cup [type : {"REGISTER"}, topic_id : {0}, message_id : Id, code : {0}]
    \cup [type : {"PUBLISH", "REGACK", "PUBACK"},
          topic_id : Id, message_id : Id, code : 0..1]
    \cup ((Chatter \cup Misread) \ {Hello})

TheLeaf ==
    INSTANCE Leaf WITH
        client <- client[ALeaf], app <- app[ALeaf], granted <- granted[ALeaf],
        Inputs <- Traffic

\* Seen from one node, the field is an environment of module Leaf: every step
\* of the composition is, for that leaf, a step of Leaf or none at all, also
\* when other leaves and the gateway talk into its exchanges.
FieldImplementsLeaf == TheLeaf!Spec

\* A leaf that counts a PUBACK has had its PUBLISH of this boot taken by the
\* broker, although puback_handler compares no message id.
PubackMeansTaken ==
    \A l \in Leaves :
        app[l].pc # "asleep" /\ client[l].got_puback => took[l] # {}

\* The broker files the readings of a leaf under that leaf's own topic, the
\* one named after its MAC address, and under no other leaf's.
PublishesOwnTopic == \A l \in Leaves : took[l] \subseteq {TopicOf[l]}

\* Whatever state losses, chatter and misread frames have brought a node to, once
\* they stop, and as long as its radio starts now and then, its readings get
\* through to the broker again and again (calm never ends).
ReadingsGetThrough == \A l \in Leaves : calm ~> took[l] # {}

-----------------------------------------------------------------------------
(* The inductive strengthening that the proofs use *)

TypeOK ==
    /\ client \in [Leaves -> Client]
    /\ app \in [Leaves -> App]
    /\ granted \in [Leaves -> SUBSET Id]
    /\ heard \in [Leaves -> SUBSET (Traffic \cup {Hello})]
    /\ moved \in [Leaves -> BOOLEAN]
    /\ owed \subseteq Traffic
    /\ busy \in BOOLEAN
    /\ took \in [Leaves -> SUBSET Id]
    /\ chats \in 0..MaxChatter
    /\ calm \in BOOLEAN

Awake(l) == app[l].pc # "asleep"

\* A radio keeps one frame, and only while its leaf waits for one.
OneFrame ==
    \A l \in Leaves : heard[l] # {} =>
        /\ app[l].pc = "rx"
        /\ ~app[l].dead
        /\ \E f \in Traffic \cup {Hello} : heard[l] = {f}

\* What can be retransmitted is a message that was transmitted before.
Repeatable ==
    \A l \in Leaves : Awake(l) =>
        /\ client[l].message_buffer \in Traffic
        /\ app[l].puback_pass_hack < 3

IndInv == TypeOK /\ OneFrame /\ Repeatable

\* One leaf in range of a prompt gateway, which grants no reserved id and sends
\* no acknowledgement that nobody asked for; nor is a frame misread as one.
Alone ==
    /\ Prompt
    /\ \A l, k \in Leaves : l = k
    /\ \A l \in Leaves : TopicOf[l] # NoTopic
    /\ \A m \in Chatter \cup Misread : m.type \notin {"REGACK", "PUBACK"}

\* Message m, heard by leaf l, answers a request of l.
Answers(l, m) ==
    /\ m.type = "REGACK" => m.topic_id = TopicOf[l]
    /\ m.type = "PUBACK" => took[l] # {}

\* Whose request every answer belongs to, wherever it is on its way to the
\* client: at the gateway, in the radio, or left over in response_buffer.  The
\* topic table is as in module Leaf, but what it holds is the leaf's own topic.
AnswersItsLeaf ==
    \A l \in Leaves :
        /\ \A m \in owed \cup heard[l] : Answers(l, m)
        /\ took[l] \subseteq {TopicOf[l]}
        /\ Awake(l) =>
              /\ Answers(l, client[l].response_buffer)
              /\ client[l].got_puback => took[l] # {}
              /\ client[l].message_buffer.type = "PUBLISH" =>
                    client[l].message_buffer.topic_id = TopicOf[l]
              /\ app[l].state = "SENT_CONNECT" /\ client[l].topic_count > 0 =>
                    /\ app[l].pc = "tail"
                    /\ app[l].rx_ok
                    /\ ~client[l].waiting_for_response
                    /\ client[l].topic_table[0] = TopicOf[l]
=============================================================================
