-------------------------------- MODULE Node --------------------------------
(***************************************************************************)
(* The older node application, node.ino, against an arbitrary environment. *)
(* It runs on the client library of the leaf, but drives it with a handful *)
(* of flags instead of a state, has no deadline for a boot, and publishes  *)
(* a batch of three messages at QoS 0.                                     *)
(*                                                                         *)
(* On an ESP8266 go_to_sleep ends in a reset.  On a Teensy it is a mere    *)
(* delay: the function returns and loop() is called again with everything  *)
(* as it was.  As in module Leaf a pass is cut after TryReceive.           *)
(***************************************************************************)
EXTENDS MqttSn

CONSTANTS
    Boards,          \* the boards under consideration
    Inputs,          \* messages that may be heard
    SetupTicks,      \* longest setup()
    ReportInterval,  \* ticks between two reports (6 s)
    PublishTicks,    \* the four delays of 1.5 s around the publications
    SleepTicks       \* go_to_sleep(10000) where it is a delay

\* The publications come on top of their four delays: together they take
\* longer than a report interval.
ASSUME NodeAssumption ==
    /\ Boards \subseteq {"esp", "teensy"}
    /\ Inputs \subseteq Message
    /\ ReportInterval \in Nat
    /\ SetupTicks \in 0..ReportInterval
    /\ SetupTicks <= TRetry + 1
    /\ PublishTicks \in Nat /\ PublishTicks > ReportInterval
    /\ SleepTicks \in Nat /\ SleepTicks > ReportInterval

VARIABLES
    client,    \* the MQTTSX1276 object
    node,      \* the globals of node.ino
    history    \* since the boot: topic ids granted, batches, their topic

vars == <<client, node, history>>

NodeState ==
    [board           : {"esp", "teensy"},
     pc              : {"asleep", "rx", "tail"},
     started_ok      : BOOLEAN,
     need_connect    : BOOLEAN,
     sent_connect    : BOOLEAN,
     wait_regack     : BOOLEAN,
     all_done_nearly : BOOLEAN,
     rx_ok           : BOOLEAN,
     timeElapsed     : 0..ReportInterval + 1]

TypeOK ==
    /\ client \in Client
    /\ node \in NodeState
    /\ history \in [granted : SUBSET Id, batches : Nat, topic : Id]

\* The globals when setup() returns, t ticks after power on.
Started(board, ok, t) ==
    [board |-> board, pc |-> "rx", started_ok |-> ok, need_connect |-> TRUE,
     sent_connect |-> FALSE, wait_regack |-> TRUE, all_done_nearly |-> FALSE,
     rx_ok |-> FALSE, timeElapsed |-> t]

Fresh == [granted |-> {}, batches |-> 0, topic |-> NoTopic]

Init ==
    /\ client = MQTTSN
    /\ \E board \in Boards :
          node = [Started(board, TRUE, 0) EXCEPT !.pc = "asleep"]
    /\ history = Fresh

\* k ticks later, saturating just above the limit.
Later(t, k, limit) == IF t + k > limit THEN limit + 1 ELSE t + k

Waited(c, k) == [c EXCEPT !.response_timer = Later(@, k, TRetry)]
Passed(n, k) == [n EXCEPT !.timeElapsed = Later(@, k, ReportInterval)]

\* go_to_sleep, followed by return: n and c are the globals and the client
\* before it, k the ticks that it takes where it is a delay.
go_to_sleep(n, c, k) ==
    IF n.board = "esp"
    THEN /\ node' = [n EXCEPT !.pc = "asleep"]
         /\ client' = MQTTSN
    ELSE /\ node' = [Passed(n, k) EXCEPT !.pc = "rx"]
         /\ client' = Waited(c, k)

Boot ==
    /\ node.pc = "asleep"
    /\ \E ok \in BOOLEAN, t \in 0..SetupTicks :
          /\ node' = Started(node.board, ok, t)
          /\ client' = Waited(MQTTSN, t)
    /\ history' = Fresh

-----------------------------------------------------------------------------
(* The first half of loop().  A node whose radio did not start only blinks. *)

MustConnect == node.need_connect /\ ~node.sent_connect

Connect ==
    /\ node.pc = "rx"
    /\ node.started_ok
    /\ MustConnect
    /\ client' = connect(Quiet(client))
    /\ node' = [node EXCEPT !.sent_connect = TRUE, !.all_done_nearly = FALSE]
    /\ UNCHANGED history

Listens == node.pc = "rx" /\ node.started_ok /\ ~MustConnect

Received(ok) == node' = [node EXCEPT !.pc = "tail", !.rx_ok = ok]

HearMessage ==
    /\ Listens
    /\ \E m \in Inputs, index \in Index :
          /\ client' = parse(Quiet(client), m, index)
          /\ history' = [history EXCEPT !.granted = @ \cup Grants(client, m)]
    /\ Received(TRUE)

HearHello ==
    /\ Listens
    /\ \E index \in Index : client' = parse_stale(Quiet(client), index)
    /\ history' = [history EXCEPT !.granted =
                      @ \cup Grants(client, client.response_buffer)]
    /\ Received(TRUE)

HearNothing ==
    /\ Listens
    /\ client' = Quiet(client)
    /\ Received(FALSE)
    /\ UNCHANGED history

TryReceive == HearMessage \/ HearHello \/ HearNothing

-----------------------------------------------------------------------------
(* The second half of loop() *)

Due == node.timeElapsed > ReportInterval

\* The globals after the report: its timer starts again when it was due.
Reported == [node EXCEPT !.timeElapsed = IF Due THEN 0 ELSE @]

\* Mutant: silence is ignored before the report is due.
DoneSleeps_Heard ==
    /\ node.pc = "tail"
    /\ node.rx_ok
    /\ Due
    /\ node.all_done_nearly
    /\ go_to_sleep(Reported, Quiet(client), SleepTicks)
    /\ UNCHANGED history

\* "work around bug where response get very delayed"
DoneSleeps ==
    /\ node.pc = "tail"
    /\ Due
    /\ node.all_done_nearly
    /\ go_to_sleep(Reported, Quiet(client), SleepTicks)
    /\ UNCHANGED history

Continues == node.pc = "tail" /\ ~(Due /\ node.all_done_nearly)

Ignore ==
    /\ Continues
    /\ ~node.rx_ok
    /\ client' = Quiet(client)
    /\ node' = [Reported EXCEPT !.pc = "rx"]
    /\ UNCHANGED history

\* The branch that restarts after a disconnect is in here and cannot be taken:
\* when wait_for_response gives up, it no longer waits and returns false.
KeepWaiting ==
    /\ Continues
    /\ node.rx_ok
    /\ Checked(client).waiting_for_response
    /\ IF Checked(client).got_disconnect
       THEN go_to_sleep([Reported EXCEPT !.wait_regack = FALSE],
                        Checked(client), 0)
       ELSE /\ client' = Checked(client)
            /\ node' = [Reported EXCEPT !.pc = "rx", !.wait_regack = FALSE]
    /\ UNCHANGED history

Proceeds == Continues /\ node.rx_ok /\ ~Checked(client).waiting_for_response

\* The globals once some kind of response was got.
Responded == [Reported EXCEPT !.need_connect = FALSE, !.wait_regack = FALSE]

Topic == find_topic_id(Checked(client))

Register ==
    /\ Proceeds
    /\ Topic = NoTopic
    /\ CanRegister(Checked(client))
    /\ client' = register_topic(Checked(client))
    /\ node' = [Responded EXCEPT !.pc = "rx", !.wait_regack = TRUE]
    /\ UNCHANGED history

RegisterFails ==
    /\ Proceeds
    /\ Topic = NoTopic
    /\ ~CanRegister(Checked(client))
    /\ go_to_sleep(Responded, Checked(client), 0)
    /\ UNCHANGED history

\* publish() with FLAG_QOS_0: nothing is waited for.
publish_qos0(c) ==
    Send([c EXCEPT !.message_id = NextId(c)], Msg("PUBLISH", Topic, NextId(c), 0))

Batch(c) == publish_qos0(publish_qos0(publish_qos0(c)))

\* Mutant: the batch is sent without pauses.
BatchSent_Hasty(n) == [n EXCEPT !.pc = "rx", !.all_done_nearly = TRUE]

BatchSent(n) == [Passed(n, PublishTicks) EXCEPT !.pc = "rx", !.all_done_nearly = TRUE]

\* A node that is here for the second time sleeps first, and publishes again
\* where sleeping is a delay.
Publish ==
    /\ Proceeds
    /\ Topic # NoTopic
    /\ IF node.all_done_nearly /\ node.board = "esp"
       THEN /\ go_to_sleep(Responded, Checked(client), 0)
            /\ UNCHANGED history
       ELSE /\ client' = Batch(Checked(client))
            /\ node' = BatchSent(Passed(Responded,
                          IF node.all_done_nearly THEN SleepTicks ELSE 0))
            /\ history' = [history EXCEPT !.batches = @ + 1, !.topic = Topic]

Tail == DoneSleeps \/ Ignore \/ KeepWaiting \/ Register \/ RegisterFails \/ Publish

-----------------------------------------------------------------------------
Tick ==
    /\ node.pc # "asleep"
    /\ client' = Waited(Quiet(client), 1)
    /\ node' = Passed(node, 1)
    /\ UNCHANGED history

Next == Boot \/ Connect \/ TryReceive \/ Tail \/ Tick

Spec == Init /\ [][Next]_vars

\* loop() runs again and again, time passes, and a sleeping node wakes up.
Fairness ==
    /\ WF_vars(Boot)
    /\ WF_vars(Connect)
    /\ WF_vars(TryReceive)
    /\ WF_vars(Tail)
    /\ WF_vars(Tick)

FairSpec == Spec /\ Fairness

-----------------------------------------------------------------------------
(* Properties *)

\* One batch per power on or wake up, also where go_to_sleep returns and
\* messages keep arriving: the delays around the batch make the next report
\* due, which sends the node to sleep before it can look at the message.
PublishedOnce == history.batches <= 1

\* A node that can sleep does so after its batch, whether it hears something
\* or nothing.
BatchThenSleep ==
    node.all_done_nearly /\ node.board = "esp" ~> node.pc = "asleep"

\* A batch is published under a topic id that a REGACK granted to the REGISTER
\* outstanding at that time, and not under one that another node's REGISTER
\* wrote through the uninitialised index, unless the broker has granted the
\* reserved id 0xffff.  (On a Teensy "Register error" then returns with the
\* table non-empty, and the next REGISTER heard overwrites its entry.)
BatchUnderGrantedTopic ==
    history.batches > 0 /\ NoTopic \notin history.granted
        => history.topic \in history.granted

Overdue ==
    /\ node.pc # "asleep"
    /\ client.waiting_for_response
    /\ node.sent_connect
    /\ client.response_timer > TRetry

\* What the comment in loop() claims, "if connect / register / needs response
\* and havent got it yet try again", as far as it is true: a request whose
\* retry interval is over is sent again or given up if the node keeps hearing
\* something, whatever it is.  In silence it is not.
RetriedWhenHeard ==
    []<>(node.pc = "tail" /\ node.rx_ok) => (Overdue ~> ~Overdue)

-----------------------------------------------------------------------------
(* Why the two invariants hold: what the proofs in NodeProofs show of every *)
(* step.                                                                    *)

Awake == node.pc # "asleep"

\* loop() looks at what it received only once it has sent its CONNECT.
ConnectsFirst ==
    Awake /\ (~node.need_connect \/ node.pc = "tail") => node.sent_connect

\* all_done_nearly stands for the batch, cannot be reset any more, and finds
\* the report due in every pass.
BatchMakesDue ==
    Awake =>
        /\ history.batches = (IF node.all_done_nearly THEN 1 ELSE 0)
        /\ node.all_done_nearly => node.sent_connect /\ Due

\* A REGACK is awaited only for the REGISTER that message_buffer holds.
AwaitsItsRegack ==
    /\ Awake
    /\ client.waiting_for_response
    /\ client.response_to_wait_for = "REGACK"
    => /\ client.message_buffer.type = "REGISTER"
       /\ client.message_buffer.message_id = client.message_id

\* Before the batch the table is non-empty only between the REGACK and the
\* tail of the same pass, too short a time for register_handler to overwrite
\* its entry.
TopicOrigin ==
    /\ Awake
    /\ history.batches = 0
    /\ NoTopic \notin history.granted
    /\ client.topic_count > 0
    => /\ node.pc = "tail"
       /\ node.rx_ok
       /\ ~client.waiting_for_response
       /\ client.topic_table[0] \in history.granted

IndInv ==
    /\ TypeOK
    /\ ConnectsFirst
    /\ BatchMakesDue
    /\ AwaitsItsRegack
    /\ TopicOrigin
    /\ PublishedOnce
    /\ BatchUnderGrantedTopic
=============================================================================
