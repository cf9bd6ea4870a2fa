------------------------------- MODULE MqttSn -------------------------------
(***************************************************************************)
(* The MQTT-SN client library of a leaf node (class MQTTSN) together with  *)
(* the handlers its radio subclass MQTTSX1276 overrides.                   *)
(*                                                                         *)
(* The library is a set of functions on one object; here the object is a   *)
(* record c and every method an operator that returns the record after the *)
(* call.  c.sent collects the messages handed to send_message_impl, in     *)
(* other words what the call put on the air.  A method that reads an       *)
(* uninitialised variable takes the value it happened to read as an extra  *)
(* parameter, over which its caller quantifies.                            *)
(***************************************************************************)
EXTENDS Naturals

CONSTANTS
    MaxTopics,   \* MAX_TOPICS, entries of topic_table (10)
    NRetry,      \* N_RETRY, retransmissions granted to a request (5)
    TRetry,      \* T_RETRY in clock ticks: silence before a retransmission
    Radix        \* values of a byte (256): ids are two bytes on the wire

ASSUME MqttSnAssumption ==
    /\ MaxTopics \in Nat \ {0, 1}
    /\ NRetry \in 1..255
    /\ TRetry \in Nat \ {0}
    /\ Radix \in Nat \ {0, 1}

-----------------------------------------------------------------------------
(* Messages.  topic_id and message_id are the numbers the fields decode to *)
(* in network byte order.  code is the return code of an acknowledgement   *)
(* (0 accepted, 1 any rejection) and the QoS level of a PUBLISH.           *)

\* Handled whenever they arrive, whatever the client is waiting for.
Unsolicited == {"GWINFO", "WILLTOPICREQ", "WILLMSGREQ", "REGISTER",
                "PUBLISH", "PINGREQ", "DISCONNECT"}

\* Handled only while the client waits for exactly this type.
Replies == {"ADVERTISE", "CONNACK", "REGACK", "PUBACK", "SUBACK",
            "UNSUBACK", "PINGRESP", "WILLTOPICRESP", "WILLMSGRESP"}

\* The types dispatch falls through on (its default case).
Others == {"CONNECT", "WILLMSG"}

MsgType == Unsolicited \cup Replies \cup Others

\* The numbers that two bytes can hold.
IdMod == Radix * Radix
Id == 0..IdMod - 1

Message == [type : MsgType, topic_id : Id, message_id : Id, code : 0..1]

Msg(type, topic_id, message_id, code) ==
    [type |-> type, topic_id |-> topic_id,
     message_id |-> message_id, code |-> code]

\* A zero-filled buffer reads as type 0, which is ADVERTISE.
Zeroed == Msg("ADVERTISE", 0, 0, 0)

\* Exchange the two bytes of an id.
bswap(val) == (val % Radix) * Radix + val \div Radix

\* What find_topic_id returns for a name it does not find (0xffff).
NoTopic == IdMod - 1

-----------------------------------------------------------------------------
(* The object.  response_timer is the age of the code's _response_timer in *)
(* ticks, saturating just above the only value it is compared with.        *)

Client ==
    [waiting_for_response : BOOLEAN,
     response_to_wait_for : MsgType,
     message_id           : Id,
     topic_count          : 0..MaxTopics,
     topic_table          : [0..MaxTopics - 1 -> Id],
     message_buffer       : Message,
     response_buffer      : Message,
     response_timer       : 0..TRetry + 1,
     response_retries     : 0..255,
     connack_possible     : BOOLEAN,
     got_puback           : BOOLEAN,
     got_disconnect       : BOOLEAN,
     sent                 : SUBSET Message]

\* The constructors of MQTTSN and MQTTSX1276.
MQTTSN ==
    [waiting_for_response |-> TRUE,
     response_to_wait_for |-> "ADVERTISE",
     message_id           |-> 0,
     topic_count          |-> 0,
     topic_table          |-> [i \in 0..MaxTopics - 1 |-> 0],
     message_buffer       |-> Zeroed,
     response_buffer      |-> Zeroed,
     response_timer       |-> 0,
     response_retries     |-> 0,
     connack_possible     |-> FALSE,
     got_puback           |-> FALSE,
     got_disconnect       |-> FALSE,
     sent                 |-> {}]

-----------------------------------------------------------------------------
(* Sending *)

\* Put m into message_buffer and transmit it.  The timer and the retry budget
\* are armed only when nothing is being waited for at the time of the call.
Send(c, m) ==
    [c EXCEPT !.message_buffer = m,
              !.sent = @ \cup {m},
              !.response_timer = IF c.waiting_for_response THEN @ ELSE 0,
              !.response_retries = IF c.waiting_for_response THEN @ ELSE NRetry]

\* Transmit what message_buffer holds.
send_message(c) == Send(c, c.message_buffer)

Request(c, m, reply) ==
    [Send(c, m) EXCEPT !.waiting_for_response = TRUE,
                       !.response_to_wait_for = reply]

connect(c) == Request(c, Msg("CONNECT", 0, 0, 0), "CONNACK")

\* ++_message_id on a 16 bit counter.
NextId(c) == (c.message_id + 1) % IdMod

CanRegister(c) ==
    /\ ~c.waiting_for_response
    /\ c.topic_count < MaxTopics - 1

register_topic(c) ==
    Request([c EXCEPT !.message_id = NextId(c),
                      !.topic_table[c.topic_count] = 0],
            Msg("REGISTER", 0, NextId(c), 0), "REGACK")

\* publish() with FLAG_QOS_1, the only level the leaf application uses.
publish(c, topic_id) ==
    Request([c EXCEPT !.message_id = NextId(c)],
            Msg("PUBLISH", topic_id, NextId(c), 1), "PUBACK")

\* Mutant: the topic count is not looked at.
find_topic_id_Unchecked(c) == c.topic_table[0]

\* The name is looked up by strcmp against stored POINTERS.  The leaf stores
\* the address of the one stack buffer it also searches with, so that every
\* entry below topic_count matches and the first one is returned.
find_topic_id(c) == IF c.topic_count > 0 THEN c.topic_table[0] ELSE NoTopic

\* Periodic check: give up when the budget is spent, else retransmit.  The
\* budget is a uint8_t and is decremented in both cases.
wait_for_response(c) ==
    LET d == [c EXCEPT !.response_timer = 0]
        e == IF c.response_retries = 0
             THEN [d EXCEPT !.waiting_for_response = FALSE,
                            !.got_disconnect = TRUE]
             ELSE send_message(d)
    IN  IF c.waiting_for_response /\ c.response_timer > TRetry
        THEN [e EXCEPT !.response_retries = (@ + 255) % 256]
        ELSE c

-----------------------------------------------------------------------------
(* Receiving *)

Registered(c, topic_id) ==
    \E i \in 0..MaxTopics - 1 : i < c.topic_count /\ c.topic_table[i] = topic_id

\* Mutant: the message id is not compared.
regack_handler_AnyId(c, m) ==
    IF m.code = 0 /\ c.topic_count < MaxTopics /\ ~Registered(c, m.topic_id)
    THEN [c EXCEPT !.topic_table[c.topic_count] = m.topic_id,
                   !.topic_count = @ + 1]
    ELSE c

regack_handler(c, m) ==
    IF /\ m.code = 0
       /\ c.topic_count < MaxTopics
       /\ m.message_id = c.message_id
       /\ ~Registered(c, m.topic_id)
    THEN [c EXCEPT !.topic_table[c.topic_count] = m.topic_id,
                   !.topic_count = @ + 1]
    ELSE c

\* regack() and puback() swap ids that are still in network order.
Acknowledge(c, type, m, code) ==
    Send(c, Msg(type, bswap(m.topic_id), bswap(m.message_id), code))

publish_handler(c, m) ==
    IF m.code = 1
    THEN Acknowledge(c, "PUBACK", m, IF Registered(c, m.topic_id) THEN 0 ELSE 1)
    ELSE c

\* The values an uninitialised index can have; MaxTopics stands for every
\* value past the end of the table.
Index == 0..MaxTopics

\* index is an uninitialised byte, and the names it could be set from point
\* into a dead stack frame: any entry may be overwritten, or memory outside
\* the table (index = MaxTopics).  The test that should reject an unknown
\* topic is always true.
register_handler(c, m, index) ==
    Acknowledge([c EXCEPT !.topic_table =
                    [i \in 0..MaxTopics - 1 |->
                        IF i = index THEN m.topic_id ELSE c.topic_table[i]]],
                "REGACK", m, 0)

\* Mutant: no break after case PUBLISH, which falls through into case PUBACK.
Handler_FallsThrough(c, m, index) ==
    CASE m.type = "CONNACK"    -> [c EXCEPT !.connack_possible = TRUE]
      [] m.type = "REGACK"     -> regack_handler(c, m)
      [] m.type = "PUBACK"     -> [c EXCEPT !.got_puback = TRUE]
      [] m.type = "REGISTER"   -> register_handler(c, m, index)
      [] m.type = "PUBLISH"    ->
            [publish_handler(c, m) EXCEPT !.got_puback =
                @ \/ (c.waiting_for_response /\ c.response_to_wait_for = "PUBACK")]
      [] OTHER                 -> c

Handler(c, m, index) ==
    CASE m.type = "CONNACK"    -> [c EXCEPT !.connack_possible = TRUE]
      [] m.type = "REGACK"     -> regack_handler(c, m)
      [] m.type = "PUBACK"     -> [c EXCEPT !.got_puback = TRUE]
      [] m.type = "REGISTER"   -> register_handler(c, m, index)
      [] m.type = "PUBLISH"    -> publish_handler(c, m)
      [] m.type = "WILLMSGREQ" -> Send(c, Msg("WILLMSG", 0, 0, 0))
      [] m.type = "PINGREQ"    -> Send(c, Msg("PINGRESP", 0, 0, 0))
      [] m.type = "DISCONNECT" -> [c EXCEPT !.got_disconnect = TRUE]
      [] OTHER                 -> c

\* Mutant: any reply is taken for the awaited one.
Accepts_AnyReply(c, m) ==
    \/ m.type \in Unsolicited
    \/ m.type \in Replies /\ c.waiting_for_response

Accepts(c, m) ==
    \/ m.type \in Unsolicited
    \/ /\ m.type \in Replies
       /\ c.waiting_for_response
       /\ c.response_to_wait_for = m.type

\* Mutant: waiting_for_response is not reset.
dispatch_KeepsWaiting(c, index) ==
    IF Accepts(c, c.response_buffer)
    THEN Handler(c, c.response_buffer, index)
    ELSE c

\* Whatever was handled, the client stops waiting afterwards.
dispatch(c, index) ==
    LET m == c.response_buffer
    IN  IF Accepts(c, m)
        THEN [Handler(c, m, index) EXCEPT !.waiting_for_response = FALSE]
        ELSE c

\* A data frame overwrites response_buffer.  A HELLO, or a frame too short to
\* hold a header, does not, and what is dispatched is the previous message.
parse(c, m, index) == dispatch([c EXCEPT !.response_buffer = m], index)
parse_stale(c, index) == dispatch(c, index)

Age(t, limit) == IF t > limit THEN t ELSE t + 1

-----------------------------------------------------------------------------
(* What both applications do with the object *)

\* A step starts with nothing on the air.
Quiet(c) == [c EXCEPT !.sent = {}]

\* Mutant: the retry timer is not looked at.
Checked_Timeless(c) == [Quiet(c) EXCEPT !.got_disconnect = FALSE]

\* The client after ResetDisconnect() and wait_for_response().
Checked(c) == wait_for_response([Quiet(c) EXCEPT !.got_disconnect = FALSE])

\* The topic ids that message m, as a positive answer to the REGISTER in
\* message_buffer, grants (bookkeeping for the properties).
Grants(c, m) ==
    IF /\ c.waiting_for_response
       /\ c.message_buffer.type = "REGISTER"
       /\ m.type = "REGACK"
       /\ m.code = 0
       /\ m.message_id = c.message_buffer.message_id
    THEN {m.topic_id}
    ELSE {}
=============================================================================
