-------------------------------- MODULE Leaf --------------------------------
(***************************************************************************)
(* One leaf node against an arbitrary environment: at any time its radio   *)
(* may hear any message of Inputs, a HELLO, or nothing.  No order, no      *)
(* broker and no addressing is assumed (radio frames carry no address, and *)
(* every leaf hears every other one), so what holds here holds in every    *)
(* deployment.                                                             *)
(***************************************************************************)
EXTENDS LeafApp

CONSTANT Inputs    \* messages that may be heard

ASSUME InputsAssumption == Inputs \subseteq Message

VARIABLES
    client,    \* the MQTTSX1276 object
    app,       \* the globals of leaf.ino
    granted    \* history: topic ids accepted for this boot's last REGISTER

vars == <<client, app, granted>>

TypeOK ==
    /\ client \in Client
    /\ app \in App
    /\ granted \subseteq Id

\* Power is off, or the node sleeps, before the first boot.
Init ==
    /\ client = MQTTSN
    /\ app = DeepSleep(Started(FALSE), "none")
    /\ granted = {}

Sleep(kind) ==
    /\ client' = MQTTSN
    /\ app' = DeepSleep(app, kind)
    /\ UNCHANGED granted

Boot ==
    /\ app.pc = "asleep"
    /\ \E dead \in BOOLEAN, t \in 0..SetupTicks :
          /\ client' = Setup(dead, t)
          /\ app' = Started(dead)
    /\ granted' = {}

NoRadio ==
    /\ app.pc = "rx"
    /\ app.dead
    /\ Sleep("noradio")

-----------------------------------------------------------------------------
(* TryReceive *)

Listens == app.pc = "rx" /\ ~app.dead

HearMessage ==
    /\ Listens
    /\ app' = Received(app, TRUE)
    /\ \E m \in Inputs, index \in Index :
          /\ client' = parse(Quiet(client), m, index)
          /\ granted' = granted \cup Grants(client, m)

HearHello ==
    /\ Listens
    /\ app' = Received(app, TRUE)
    /\ \E index \in Index : client' = parse_stale(Quiet(client), index)
    /\ granted' = granted \cup Grants(client, client.response_buffer)

\* Symbol timeout, or a frame the driver rejects.
HearNothing ==
    /\ Listens
    /\ client' = Quiet(client)
    /\ app' = Received(app, FALSE)
    /\ UNCHANGED granted

-----------------------------------------------------------------------------
(* The tail of the pass *)

GiveUpBoot ==
    /\ app.pc = "tail"
    /\ TooLong(app)
    /\ Sleep(TooLongKind(app))

Ignore ==
    /\ app.pc = "tail"
    /\ Ignores(app)
    /\ client' = Quiet(client)
    /\ app' = NextPass(app)
    /\ UNCHANGED granted

KeepWaiting ==
    /\ app.pc = "tail"
    /\ Waits(client, app)
    /\ client' = Checked(client)
    /\ app' = NextPass(app)
    /\ UNCHANGED granted

Register ==
    /\ app.pc = "tail"
    /\ MustRegister(client, app)
    /\ CanRegister(Checked(client))
    /\ client' = register_topic(Checked(client))
    /\ app' = NextPass(app)
    /\ UNCHANGED granted

RegisterFails ==
    /\ app.pc = "tail"
    /\ MustRegister(client, app)
    /\ ~CanRegister(Checked(client))
    /\ Sleep("fault")

Publish ==
    /\ app.pc = "tail"
    /\ MustPublish(client, app)
    /\ client' = publish(Checked(client), find_topic_id(Checked(client)))
    /\ app' = Published(client, app)
    /\ UNCHANGED granted

CountPass ==
    /\ app.pc = "tail"
    /\ CountsPass(client, app)
    /\ app' = PassCounted(client, app)
    /\ client' = IF app'.pc = "asleep" THEN MQTTSN ELSE Checked(client)
    /\ UNCHANGED granted

Tail ==
    \/ GiveUpBoot
    \/ Ignore
    \/ KeepWaiting
    \/ Register
    \/ RegisterFails
    \/ Publish
    \/ CountPass

-----------------------------------------------------------------------------
Tick ==
    /\ app.pc # "asleep"
    /\ client' = Aged(client)
    /\ app' = Older(app)
    /\ UNCHANGED granted

TryReceive == HearMessage \/ HearHello \/ HearNothing

Next == Boot \/ NoRadio \/ TryReceive \/ Tail \/ Tick

Spec == Init /\ [][Next]_vars

\* loop() runs again and again, time passes, and a sleeping node wakes up.
Fairness ==
    /\ WF_vars(Boot)
    /\ WF_vars(NoRadio)
    /\ WF_vars(TryReceive)
    /\ WF_vars(Tail)
    /\ WF_vars(Tick)

FairSpec == Spec /\ Fairness

-----------------------------------------------------------------------------
(* Properties *)

Awake == app.pc # "asleep"

\* The request each awaited response answers.
RequestFor == [CONNACK |-> "CONNECT", REGACK |-> "REGISTER", PUBACK |-> "PUBLISH"]

\* message_buffer is shared by requests, retransmissions and the answers the
\* handlers send on their own.  As long as the client waits for a response it
\* still holds the request that this response answers, with the message id
\* that regack_handler will compare: a retransmission by wait_for_response
\* repeats that request, never a PINGRESP, a WILLMSG or an acknowledgement
\* that was sent in between.
RetransmitsTheRequest ==
    Awake /\ client.waiting_for_response =>
        /\ client.response_to_wait_for \in DOMAIN RequestFor
        /\ client.message_buffer.type = RequestFor[client.response_to_wait_for]
        /\ client.message_buffer.type # "CONNECT" =>
              client.message_buffer.message_id = client.message_id

\* N_RETRY grants five retransmissions, but wait_for_response is only reached
\* before RUNTIME_TIMEOUT: a REGISTER or PUBLISH is retransmitted at most
\* once, and its budget neither runs out nor wraps around below zero.
OneRetransmission ==
    /\ Awake
    /\ client.waiting_for_response
    /\ client.response_to_wait_for # "CONNACK"
    => client.response_retries \in {NRetry - 1, NRetry}

\* A leaf publishes under a topic id that a REGACK granted to the REGISTER it
\* had outstanding at that time in this boot: never under 0xffff, under the
\* id of a refused or an outdated REGISTER, or under one that register_handler
\* wrote through its uninitialised index.
PublishesGrantedTopic ==
    Awake /\ app.state = "WAIT_PUBACK" => app.registered_topic_id \in granted

\* DidPuback() is sticky and not tied to a message id.  It is still sound: it
\* can only become true after this boot's PUBLISH, and when it has, the client
\* is no longer waiting, so loop() cannot miss it behind its early returns.
PubackEndsTheBoot ==
    Awake /\ client.got_puback =>
        app.state = "WAIT_PUBACK" /\ ~client.waiting_for_response

\* The node takes the long routine sleep exactly when the boot got as far as
\* publishing; a boot that did not is retried after one of the short sleeps.
RoutineSleepIffPublished ==
    app.pc = "asleep" /\ app.slept # "none" =>
        (app.slept = "routine" <=> app.state = "WAIT_PUBACK")

\* However often messages of any kind interrupt it, every boot ends in deep
\* sleep: elapsedRuntime is only reset by the one PUBLISH of the boot.
EveryBootEnds == []<>(app.pc = "asleep")

\* The life of the node as module LeafCycle sees it.
Cycle ==
    INSTANCE LeafCycle WITH
        phase <- IF app.pc = "asleep" THEN "asleep"
                 ELSE IF app.state = "WAIT_PUBACK" THEN "published" ELSE "joining",
        offered <- granted,
        topic <- app.registered_topic_id,
        rest <- app.slept,
        ShortSleeps <- SleepKind \ {"none", "routine"}

\* The whole of leaf.ino and the MQTT-SN client implement that cycle: one
\* reading at most per boot, under a granted topic id, the right sleep
\* after it, and no boot that never ends.
ImplementsLeafCycle == Cycle!Spec

-----------------------------------------------------------------------------
(* The inductive strengthening that the proofs use *)

\* Which exchange the state variable of leaf.ino stands for.
Phase ==
    Awake =>
        /\ app.state = "SENT_CONNECT" =>
              /\ ~client.got_puback
              /\ app.puback_pass_hack = 0
              /\ client.waiting_for_response =>
                    client.response_to_wait_for # "PUBACK"
        /\ app.state = "WAIT_PUBACK" /\ client.waiting_for_response =>
              client.response_to_wait_for = "PUBACK"
        /\ client.got_puback =>
              /\ ~client.waiting_for_response
              /\ app.pc = "tail"
              /\ app.rx_ok
        /\ app.puback_pass_hack < 3
        /\ app.dead => app.pc = "rx" /\ app.state = "SENT_CONNECT"

\* A retransmission uses up more than half of the boot's deadline.
Timing ==
    Awake /\ client.waiting_for_response /\ client.response_to_wait_for # "CONNACK" =>
        /\ client.response_retries \in {NRetry - 1, NRetry}
        /\ client.response_timer <= app.runtime
        /\ client.response_retries = NRetry - 1 =>
              \/ app.runtime > RuntimeTimeout
              \/ app.runtime >= client.response_timer + TRetry + 1

IndInv ==
    /\ TypeOK
    /\ RetransmitsTheRequest
    /\ Phase
    /\ Timing
    /\ RoutineSleepIffPublished

\* No peer uses the reserved id 0xffff.
HonestIds == \A m \in Inputs : m.topic_id # NoTopic

\* Where the topic id that will be published under comes from.  The table is
\* non-empty before the PUBLISH only between the REGACK and the tail of the
\* same pass, too short a time for register_handler to overwrite its entry.
TopicOrigin ==
    Awake =>
        /\ client.response_buffer.topic_id # NoTopic
        /\ app.state = "SENT_CONNECT" /\ client.topic_count > 0 =>
              /\ app.pc = "tail"
              /\ app.rx_ok
              /\ ~client.waiting_for_response
              /\ client.topic_table[0] \in granted
              /\ client.topic_table[0] # NoTopic
        /\ app.state = "WAIT_PUBACK" => app.registered_topic_id \in granted
=============================================================================
