----------------------------- MODULE MqttClient -----------------------------
(***************************************************************************)
(* The wrapper of the MQTT library (class MoqsuittoMQTTClient) and the two *)
(* programs that listen to everything the broker publishes: discard2,      *)
(* which uses the wrapper, and discard, which uses the library itself.     *)
(*                                                                         *)
(* The library is external.  It is polled: mosquitto_loop handles at most  *)
(* one packet.  It reports a lost connection once, as such; afterwards it  *)
(* has no connection, which is another error.  Sessions are clean: with    *)
(* the connection the broker forgets the subscription.                     *)
(***************************************************************************)
EXTENDS Broker, Sequences

CONSTANTS
    Programs,       \* of {"discard", "discard2"}
    MaxRefusals     \* bound on the connections that the broker refuses

ASSUME MqttClientAssumption ==
    /\ Programs \subseteq {"discard", "discard2"}
    /\ MaxRefusals \in Nat

VARIABLES
    client,     \* the program, where it is, the wrapper's connack_state_
    conn,       \* the connection of the library, seen from both ends
    refusals    \* connections refused so far

clientVars == <<client, conn, refusals>>

\* Packets to the broker, and from it: a CONNACK by its code.
Request == {"CONNECT", "SUBSCRIBE"}
Reply == {"accepted", "refused", "PUBLISH"}

\* socket: does the library have one; alive: is there somebody at the other
\* end; session: what the broker knows of us; accepted: history, a CONNACK
\* was taken from this connection.
Connection ==
    [socket : BOOLEAN, alive : BOOLEAN, accepted : BOOLEAN,
     session : {"none", "connected", "subscribed"},
     out : Seq(Request), in : Seq(Reply)]

ClientTypeOK ==
    /\ client \in [program : Programs,
                   pc : {"connect", "subscribe", "loop", "reconnect", "exit"},
                   connack : {"NONE", "WANT", "HAVE", "ERROR"}]
    /\ conn \in Connection
    /\ refusals \in 0..MaxRefusals

NoConn == [socket |-> FALSE, alive |-> FALSE, accepted |-> FALSE,
           session |-> "none", out |-> <<>>, in |-> <<>>]

ClientInit ==
    /\ client \in [program : Programs, pc : {"connect"}, connack : {"NONE"}]
    /\ conn = NoConn
    /\ refusals = 0

\* The broker goes down with its end of the connection.
Severed == [conn EXCEPT !.alive = FALSE, !.session = "none", !.out = <<>>]

-----------------------------------------------------------------------------
(* The library: the connections that a call may leave, with its result *)

mosquitto_connect ==
    IF broker.up
    THEN <<"SUCCESS", [NoConn EXCEPT !.socket = TRUE, !.alive = TRUE, !.out = <<"CONNECT">>]>>
    ELSE <<"ERRNO", NoConn>>

mosquitto_subscribe ==
    IF ~conn.socket THEN {<<"NO_CONN", conn>>}
    ELSE IF conn.alive THEN {<<"SUCCESS", [conn EXCEPT !.out = Append(@, "SUBSCRIBE")]>>}
    ELSE {<<"SUCCESS", conn>>, <<"CONN_LOST", conn>>}

\* A packet, nothing for a second, or the end of the connection.  What was
\* under way when the other end went away may be lost.  After the callback
\* for a refusal the library closes the socket and returns an error.
Taken(packet) ==
    IF packet = "refused" THEN NoConn
    ELSE [conn EXCEPT !.in = Tail(@), !.accepted = @ \/ packet = "accepted"]

mosquitto_loop ==
    IF ~conn.socket THEN {<<"NO_CONN", conn>>}
    ELSE (IF conn.in # <<>> THEN {<<Head(conn.in), Taken(Head(conn.in))>>}
          ELSE {<<"SUCCESS", conn>>})
         \cup (IF ~conn.alive THEN {<<"CONN_LOST", NoConn>>} ELSE {})

-----------------------------------------------------------------------------
(* The wrapper *)

\* OnConnect for code 0, which must be wanted, and for the others.  (Codes
\* above 3 are for brokers with user names.)
OnConnect(code) ==
    IF code = "refused" THEN "ERROR"
    ELSE IF client.connack = "WANT" THEN "HAVE" ELSE client.connack

\* main of discard2: "if we cant connect now then die".
Connect ==
    /\ client.program = "discard2"
    /\ client.pc = "connect"
    /\ LET r == mosquitto_connect
       IN  /\ conn' = r[2]
           /\ client' = [client EXCEPT !.connack = "WANT",
                            !.pc = IF r[1] = "SUCCESS" THEN "subscribe" ELSE "exit"]
    /\ UNCHANGED <<broker, refusals>>

Subscribe ==
    /\ client.program = "discard2"
    /\ client.pc = "subscribe"
    /\ \E r \in mosquitto_subscribe :
          /\ conn' = r[2]
          /\ client' = [client EXCEPT !.pc = IF r[1] = "SUCCESS" THEN "loop" ELSE "exit"]
    /\ UNCHANGED <<broker, refusals>>

\* One callback, or none.  Any error but a lost connection ends the program.
PollHandled ==
    /\ client.program = "discard2"
    /\ client.pc = "loop"
    /\ \E r \in mosquitto_loop :
          /\ r[1] # "CONN_LOST"
          /\ conn' = r[2]
          /\ client' = [client EXCEPT
                !.connack = IF r[1] \in {"accepted", "refused"} THEN OnConnect(r[1]) ELSE @,
                !.pc = IF r[1] \in {"refused", "NO_CONN"} THEN "exit" ELSE @]
    /\ UNCHANGED <<broker, refusals>>

\* Mutant: it is forgotten that a CONNACK is due again.
PollLost_KeepsConnack ==
    /\ client.program = "discard2"
    /\ client.pc = "loop"
    /\ \E r \in mosquitto_loop : r[1] = "CONN_LOST"
    /\ LET r == mosquitto_connect
       IN  /\ conn' = r[2]
           /\ client' = [client EXCEPT !.pc = IF r[1] = "SUCCESS" THEN @ ELSE "exit"]
    /\ UNCHANGED <<broker, refusals>>

\* The connection was lost: one attempt to reconnect.  When that fails Poll
\* returns false, and the program ends.
PollLost ==
    /\ client.program = "discard2"
    /\ client.pc = "loop"
    /\ \E r \in mosquitto_loop : r[1] = "CONN_LOST"
    /\ LET r == mosquitto_connect
       IN  /\ conn' = r[2]
           /\ client' = [client EXCEPT !.connack = "WANT",
                            !.pc = IF r[1] = "SUCCESS" THEN @ ELSE "exit"]
    /\ UNCHANGED <<broker, refusals>>

-----------------------------------------------------------------------------
(* main of discard: whatever fails is only reported *)

DiscardStart ==
    /\ client.program = "discard"
    /\ client.pc = "connect"
    /\ conn' = mosquitto_connect[2]
    /\ client' = [client EXCEPT !.pc = "subscribe"]
    /\ UNCHANGED <<broker, refusals>>

DiscardSubscribe ==
    /\ client.program = "discard"
    /\ client.pc = "subscribe"
    /\ \E r \in mosquitto_subscribe : conn' = r[2]
    /\ client' = [client EXCEPT !.pc = "loop"]
    /\ UNCHANGED <<broker, refusals>>

DiscardLoop ==
    /\ client.program = "discard"
    /\ client.pc = "loop"
    /\ \E r \in mosquitto_loop :
          /\ conn' = r[2]
          /\ client' = [client EXCEPT !.pc =
                IF r[1] \in {"CONN_LOST", "NO_CONN", "refused"} THEN "reconnect" ELSE @]
    /\ UNCHANGED <<broker, refusals>>

\* Mutant: only once.
DiscardReconnect_Once ==
    /\ client.program = "discard"
    /\ client.pc = "reconnect"
    /\ conn' = mosquitto_connect[2]
    /\ client' = [client EXCEPT !.pc = IF broker.up THEN "loop" ELSE "exit"]
    /\ UNCHANGED <<broker, refusals>>

\* After 20 seconds.
DiscardReconnect ==
    /\ client.program = "discard"
    /\ client.pc = "reconnect"
    /\ conn' = mosquitto_connect[2]
    /\ client' = [client EXCEPT !.pc = "loop"]
    /\ UNCHANGED <<broker, refusals>>

-----------------------------------------------------------------------------
(* The broker's side of the connection *)

BrokerAccepts ==
    /\ conn.alive
    /\ conn.out # <<>> /\ Head(conn.out) = "CONNECT"
    /\ conn' = [conn EXCEPT !.out = Tail(@), !.in = Append(@, "accepted"),
                            !.session = "connected"]
    /\ UNCHANGED <<broker, client, refusals>>

BrokerRefuses ==
    /\ conn.alive
    /\ conn.out # <<>> /\ Head(conn.out) = "CONNECT"
    /\ refusals < MaxRefusals
    /\ refusals' = refusals + 1
    /\ conn' = [Severed EXCEPT !.in = Append(@, "refused")]
    /\ UNCHANGED <<broker, client>>

BrokerSubscribes ==
    /\ conn.alive
    /\ conn.out # <<>> /\ Head(conn.out) = "SUBSCRIBE"
    /\ conn' = [conn EXCEPT !.out = Tail(@), !.session = "subscribed"]
    /\ UNCHANGED <<broker, client, refusals>>

\* Something is published.  One message at a time is under way.
BrokerPublishes ==
    /\ conn.alive
    /\ conn.session = "subscribed"
    /\ "PUBLISH" \notin {conn.in[i] : i \in 1..Len(conn.in)}
    /\ conn' = [conn EXCEPT !.in = Append(@, "PUBLISH")]
    /\ UNCHANGED <<broker, client, refusals>>

-----------------------------------------------------------------------------
Discard2 == Connect \/ Subscribe \/ PollHandled \/ PollLost

Discard == DiscardStart \/ DiscardSubscribe \/ DiscardLoop \/ DiscardReconnect

BrokerHandles == BrokerAccepts \/ BrokerRefuses \/ BrokerSubscribes

ClientNext == Discard2 \/ Discard \/ BrokerHandles \/ BrokerPublishes

\* The programs run; the library finds out in the end that a connection is
\* lost; the broker handles what it is sent.
ClientFairness ==
    /\ WF_<<broker, clientVars>>(Connect \/ Subscribe)
    /\ WF_<<broker, clientVars>>(PollHandled /\ conn.in # <<>>)
    /\ WF_<<broker, clientVars>>(PollLost)
    /\ WF_<<broker, clientVars>>(DiscardStart \/ DiscardSubscribe \/ DiscardReconnect)
    /\ WF_<<broker, clientVars>>(DiscardLoop /\ conn' # conn)
    /\ WF_<<broker, clientVars>>(DiscardLoop /\ client' # client)
    /\ WF_<<broker, clientVars>>(BrokerHandles)

-----------------------------------------------------------------------------
(* Properties *)

\* have_connack() is about the connection that the wrapper has now, not about
\* one that was lost: "Success does not guarantee broker session; check
\* have_connack() to confirm".
ConnackIsCurrent ==
    client.connack = "HAVE" /\ client.pc = "loop" => conn.accepted

\* Once the broker stays up, discard2 has ended or is told so, and discard is
\* connected again: neither waits for ever for a connection that is gone.
ListenersSettle ==
    <>[]broker.up =>
        <>[]( \/ client.program = "discard2" /\ client.pc = "exit"
              \/ client.program = "discard2" /\ client.connack = "HAVE"
              \/ client.program = "discard" /\ conn.session # "none")

-----------------------------------------------------------------------------
(* The inductive strengthening that the proofs use *)

\* discard leaves the wrapper's state alone; discard2 has a CONNACK only while
\* it listens to the connection that brought it, or when it has ended.
ConnackOrigin ==
    client.connack = "HAVE" =>
        /\ client.program = "discard2"
        /\ client.pc \in {"loop", "exit"}
        /\ client.pc = "loop" => conn.accepted

ClientInv == ClientTypeOK /\ ConnackOrigin
=============================================================================
