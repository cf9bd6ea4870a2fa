------------------------------ MODULE LeafApp ------------------------------
(***************************************************************************)
(* The leaf application: the globals of leaf.ino as a record a, next to    *)
(* the MQTT-SN client object c, and what one pass of loop() does to both.  *)
(*                                                                         *)
(* loop() is cut at the only place where it waits for the outside world,   *)
(* the blocking receive: first TryReceive (which parses and dispatches     *)
(* what was heard), then the rest of the pass, called the tail.  A tail    *)
(* takes exactly one of the branches below; each branch has a guard, the   *)
(* client after it and the globals after it.                               *)
(***************************************************************************)
EXTENDS MqttSn

CONSTANTS
    RuntimeTimeout,  \* RUNTIME_TIMEOUT in ticks (20 s; T_RETRY is 15 s)
    SetupTicks       \* longest setup(), which runs before elapsedRuntime = 0

\* 15 s and 20 s: one retransmission fits into the deadline, two do not.
ASSUME LeafAppAssumption ==
    /\ RuntimeTimeout \in Nat
    /\ TRetry <= RuntimeTimeout
    /\ RuntimeTimeout <= 2 * TRetry + 1
    /\ SetupTicks \in 0..TRetry + 1

\* Which deep_sleep_and_reset call ended the boot: ROUTINE_SLEEP_INTERVAL_MS,
\* FAULT_SLEEP_INTERVAL_MS, 10 s after a timeout, 15 s without a radio.
SleepKind == {"none", "routine", "fault", "timeout", "noradio"}

App ==
    [pc                  : {"asleep", "rx", "tail"},
     state               : {"SENT_CONNECT", "WAIT_PUBACK"},
     registered_topic_id : Id,
     puback_pass_hack    : 0..3,
     runtime             : 0..RuntimeTimeout + 1,
     rx_ok               : BOOLEAN,
     dead                : BOOLEAN,
     slept               : SleepKind]

\* The globals when setup() returns; dead is SX1276Radio::fault().
Started(dead) ==
    [pc |-> "rx", state |-> "SENT_CONNECT", registered_topic_id |-> NoTopic,
     puback_pass_hack |-> 0, runtime |-> 0, rx_ok |-> FALSE, dead |-> dead,
     slept |-> "none"]

\* setup(): construct the client and send the first CONNECT.  _response_timer
\* is 0, so its age is the time since power on, t ticks.  Without a working
\* radio nothing is put on the air.
Setup(dead, t) ==
    LET c == connect([MQTTSN EXCEPT !.response_timer = t])
    IN  [c EXCEPT !.sent = IF dead THEN {} ELSE @]

\* deep_sleep_and_reset: memory is lost, only the reset remains.
DeepSleep(a, kind) == [a EXCEPT !.pc = "asleep", !.slept = kind]

Received(a, ok) == [a EXCEPT !.pc = "tail", !.rx_ok = ok]

-----------------------------------------------------------------------------
(* The tail of loop() *)

TooLong(a) == a.runtime > RuntimeTimeout

\* Mutant: only the passes are looked at, not the state.
TooLongKind_PassesOnly(a) ==
    IF a.puback_pass_hack = 0 THEN "timeout" ELSE "routine"

TooLongKind(a) ==
    IF a.puback_pass_hack = 0 /\ a.state # "WAIT_PUBACK"
    THEN "timeout" ELSE "routine"

\* The early returns taken while a response is still awaited.
StillWaiting(c) ==
    /\ Checked(c).waiting_for_response
    /\ Checked(c).got_disconnect \/ ~Checked(c).got_puback

\* The guards of the branches, in the order the code tests them.
Ignores(a) == ~TooLong(a) /\ ~a.rx_ok
Waits(c, a) == ~TooLong(a) /\ a.rx_ok /\ StillWaiting(c)
Proceeds(c, a) == ~TooLong(a) /\ a.rx_ok /\ ~StillWaiting(c)

MustRegister(c, a) ==
    /\ Proceeds(c, a)
    /\ a.state = "SENT_CONNECT"
    /\ find_topic_id(Checked(c)) = NoTopic

MustPublish(c, a) ==
    /\ Proceeds(c, a)
    /\ a.state = "SENT_CONNECT"
    /\ find_topic_id(Checked(c)) # NoTopic

CountsPass(c, a) == Proceeds(c, a) /\ a.state = "WAIT_PUBACK"

\* Mutant: every pass restarts the deadline.
NextPass_Restarts(a) == [a EXCEPT !.pc = "rx", !.runtime = 0]

\* Nothing usable was received, or the client still waits: next pass.
NextPass(a) == [a EXCEPT !.pc = "rx"]

\* Mutant: the state is not advanced.
Published_SameState(c, a) ==
    [a EXCEPT !.pc = "rx",
              !.registered_topic_id = find_topic_id(Checked(c)),
              !.runtime = 0]

\* register_topic() found the id; publish, and restart the boot's deadline.
Published(c, a) ==
    [a EXCEPT !.pc = "rx",
              !.registered_topic_id = find_topic_id(Checked(c)),
              !.state = "WAIT_PUBACK",
              !.runtime = 0]

\* Mutant: one pass too many.
PassCounted_Late(c, a) ==
    LET b == [a EXCEPT !.puback_pass_hack = @ + 1]
    IN  IF Checked(c).got_puback \/ b.puback_pass_hack > 3
        THEN DeepSleep(b, "routine")
        ELSE NextPass(b)

\* case WAIT_PUBACK: a PUBACK, or the third message of any kind, ends the boot.
PassCounted(c, a) ==
    LET b == [a EXCEPT !.puback_pass_hack = @ + 1]
    IN  IF Checked(c).got_puback \/ b.puback_pass_hack > 2
        THEN DeepSleep(b, "routine")
        ELSE NextPass(b)

\* One tick of millis() while awake.
Aged(c) == [Quiet(c) EXCEPT !.response_timer = Age(@, TRetry)]
Older(a) == [a EXCEPT !.runtime = Age(@, RuntimeTimeout)]
=============================================================================
