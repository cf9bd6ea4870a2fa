# Sentrifarm: TLA+ models and proofs

Sentrifarm is a low-power sensor network for farms. A *leaf node* (ESP8266 or
Teensy) wakes up, reads its sensors, publishes one reading over MQTT-SN and goes
back to deep sleep. Frames travel over a LoRa radio (SX1276) to a *gateway*,
where a *bridge* process on Linux passes them on to an MQTT-SN broker (RSMB).

This directory models the programs that carry the protocol, the leaf, the older
node and the bridge, what happens between them on the air, the two radio
drivers below them, the programs of the test bench, and the ground sensor that came
before the leaf. Source paths below are relative to `src/software/`, those of the
ground sensor to `src/attic/ground-sensor/code/src/`; `PROJECT.json` maps every definition to its lines.

## 1. Inventory

| Part | State it keeps | Operations | Talks to |
|---|---|---|---|
| MQTT-SN client, class `MQTTSN` (`mcu/libraries/arduino-mqtt-sn/`) | `waiting_for_response`, `response_to_wait_for`, `_message_id`, topic table, one message buffer, one response buffer, retry timer and budget | `connect`, `register_topic`, `publish`, `wait_for_response`, `parse`/`dispatch` and a handler per message type | subclass for I/O, application by polling |
| Radio transport, class `MQTTSX1276` (`mcu/libraries/sentrifarm/sx1276mqttsn.*`) | flags `got_puback_`, `got_disconnect_`, `connack_possible_`, frame counter | `TryReceive`, `parse_impl`, `send_message_impl`, overridden handlers | MCU radio driver |
| Leaf application (`mcu/leaf/src/leaf.ino`) | `state`, `registered_topic_id`, `puback_pass_hack`, `elapsedRuntime` | `setup`, `loop`, `register_topic`, `publish_data`, deep sleep | client, board library |
| MCU radio driver (`mcu/libraries/SX1276lib`) | `dead_`, `rx_warm_`, modem settings | `Begin`, `SetCarrier`, `TransmitMessage`, `ReceiveMessage`, `PredictTimeOnAir` | chip over SPI |
| Bridge (`sx1276/sx1276_mqttsn_bridge.cpp`) | radio mutex, rolling counters, statistics, broker port | `Restart`, `TransmitHello`, `Transmit`, `TryReceive`, threads `OutLoop` and `InLoop` | Linux driver, UDP socket |
| Linux radio driver (`sx1276/sx1276.cpp`) | sticky `fault_`, carrier, receive mode | `ChangeCarrier`, `ApplyDefaultLoraConfiguration`, `SendSimpleMessage`, `ReceiveSimpleMessage` | chip over SPI |
| Bus Pirate backend (`sx1276/buspirate_*`) | a serial line, with whatever is still on it | reset, read and write a register | Bus Pirate, retried by the Linux driver |
| spidev backend and platforms (`sx1276/spidev_spi.cpp`, `*platform*`) | device handles | reset, register access | hardware |
| Older node application (`mcu/sx1276-mqttsn-node/src/node.ino`) | flags `need_connect`, `sent_connect`, `wait_regack`, `all_done_nearly`, report timer | `setup`, `loop`, `go_to_sleep` | client |
| FIFO bridge (`sx1276/fifo_mqttsn_bridge.cpp`) | the broker's address under a mutex | `Get`, `Update`, threads `OutLoop` and `InLoop` | UDP socket, two FIFOs |
| MQTT client wrapper and listeners (`sx1276/mqttclient.*`, `test_mqtt_discard*.cpp`) | `connack_state_`, the library's connection | `Connect`, `Subscribe`, `Poll`, `OnConnect` | libmosquitto, broker |
| Init script (`openwrt/files/etc/init.d/zz-radio`) | | runs broker and bridge again when they end | |
| Ground sensor (`sentrifarm.c`, `tcp_push.c`, `ds18b20.c`, `entry.c`) | `my_state`, one timer for the chain of states, a heap block and a timer per report, the console lock, the state of the 1-Wire search | boot and scan, one timer callback per state, `execute_tcp_push_u`, four TCP callbacks, `exec_ds18b20` | WiFi station, TCP library, thermometers |
| test sketches and tools, rest of the attic | | | see `PROJECT.json` |

What is hard in this code:

* **Unaddressed broadcast.** Every leaf hears every frame, uses the same client
  id and numbers its messages from 1.
* **One flag for many exchanges.** Any handled message ends the wait for *the*
  response; requests, answers and retransmissions share one buffer; a HELLO
  makes the client dispatch its previous message again.
* **Timers that race.** A retry interval of 15 s against a deadline of 20 s per
  boot, restarted by the publication, and a retry check that is only reached in
  a pass that received something.
* **Undefined values.** An uninitialised index, a pointer into a dead frame.
* **Two threads and a mutex** held over receives of several seconds; a sticky
  fault flag that one thread sets and the other clears; a restart in three steps
  of which each may fail.
* **Counters of one byte** that wrap around and restart with the peer, often unannounced.
* **Flags that outlive their frame.** Both drivers clear the chip's flags, or prepare its
  receiver, by accesses that may be lost or skipped, and then read an old frame, or the
  wrong place.
* **A timeout that is computed.** The microcontroller stops its transmitter after
  a predicted time on air, which integer arithmetic makes too small.
* **Answers without a name.** The Bus Pirate's answers are told apart only by
  their place in a stream that may lose its place.
* **Callbacks between timers.** The ground sensor frees memory that the TCP library
  still points to, by a timer, and polls flags that callbacks set.
* **A broker that comes and goes** while sockets, connections and noted
  addresses outlive it.

What makes each part correct:

* client: a retransmission repeats the awaited request; the retry budget neither
  runs out nor wraps while it matters;
* leaf: at most one reading per boot, published under a granted topic id; a PUBACK is
  counted only for it and never missed; the sleep fits the outcome; every boot ends;
* node: one batch per boot, under a granted topic id, then sleep;
* field: what the leaf believes (a PUBACK, a topic id) is what the broker did, and its
  readings arrive once the channel lets them;
* bridge: its estimate of lost frames is off by no more than can be said, receiving
  does not starve transmitting, and no fault is permanent;
* microcontroller radio: no frame is cut short, the first frame after a
  transmission is read from where it is, and every call returns;
* Bus Pirate: a verified write is in the register, and a flipped bit is coped with;
* bench: whole addresses, an exact stream, and listeners that settle;
* ground sensor: every boot ends, no callback finds its memory freed, the console
  is open where it is all that is left, and every thermometer is found and read right.

## 2. Modules

| Module | Models | How |
|---|---|---|
| `MqttSn` | client library and radio transport | the object as a record, one operator per method; messages are records, ids are numbers below `Radix^2`, and byte swaps are computed |
| `LeafApp` | globals of `leaf.ino` and one pass of `loop()` | guard and effect of every branch |
| `Leaf` | one leaf against any environment | one action per way through `loop()`; variables `client`, `app` and the history `granted` |
| `LeafCycle` | abstract specification of a leaf | wake, be offered topic ids, publish at most once, sleep |
| `Field` | leaves, the channel and the gateway composed | uses the operators of `LeafApp`; the broker and the channel are external |
| `Node` | older node application against any environment | one action per way through `loop()`, on an ESP8266 and on a Teensy, where `go_to_sleep` is a delay |
| `SX1276` | Linux radio driver | each method is the set of its outcomes over an SPI bus that may fail |
| `RadioBridge` | bridge, both threads | `inward` and `outward` are the program counters; the mutex is held exactly while `inward = "rx"` |
| `McuRadio` | microcontroller radio driver with its chip | the calls `Begin`, `Standby`, `TransmitMessage`, `ReceiveMessage` in any order; the polling loops are actions; a tick of the transmit loop is 10 ms of the chip's time |
| `BusPirate` | Bus Pirate backend and the retrying methods above it | bytes on a line; a method is a sequence of accesses, an access a command and up to two reads |
| `Broker` | the broker on the bench | up or down, another address in every run (external) |
| `MqttClient` | MQTT wrapper and both listeners | each library call is the set of its outcomes; the broker's end of the connection included |
| `FifoBridge` | FIFO bridge, both threads | `Get` and `Update` in steps under the mutex, writes that take a part |
| `Bench` | composition of the last three | they share the broker |
| `OneWire` | 1-Wire search and conversion of measurements | pure operators: a set of addresses answers bit by bit, and a 0 wins |
| `GroundSensor` | ground sensor against any network | one action per state of the chain, one per callback; the status of the station and the fate of a connection are chosen |
| `MCLeaf`, `MCField`, `MCNode`, `MCMcuRadio` | instances for TLC | sets of messages, leaves and lengths |
| `MqttSnLemmas`, `LeafLemmas` | | what the operators of `MqttSn` return, for the proofs about `Leaf`, `Node` and `Field`; what those of `LeafApp` do, for `Leaf` and `Field` |
| `LeafProofs`, `NodeProofs`, `FieldProofs`, `RadioProofs`, `BenchProofs`, `GroundSensorProofs` | proofs | section 5; both radio programs are in `RadioProofs`, the Bus Pirate is in `BenchProofs` |

`loop()` is cut in two steps at the blocking receive, the only place where the
leaf waits for the world: first `TryReceive` with everything that parsing and
dispatching does, then the tail of the pass. Within the tail nothing can
interleave. Time is a `Tick` action; the ages of the two timers saturate just
above the only values they are compared with. Deep sleep loses all memory, so it
resets the client record.

Undefined behaviour: `register_handler` writes through an index that is not
initialised. Its value is chosen from every entry of the table and one value
outside it. `find_topic_id` compares pointers into a stack frame that has been
left; the leaf always searches with the same stack buffer, so every entry below
`topic_count` matches, and the model returns the first one.

In `Field` a leaf's radio hands over the frame it took, unless the leaf has read one
since it last transmitted. The receiver is then still warm and is not prepared
again (`SX1276lib/sx1276.cpp:387`), the FIFO pointer has moved, and the frame is taken for a
member of `Misread` (`moved`, `Read`). This is what happens to the first answer after a HELLO
or an advertisement, which the leaf ignores without transmitting or going to
standby (`leaf.ino:405-419`). A channel that loses nothing does not help a leaf
whose every answer comes after such a frame. Losses and chatter are therefore
there at first, if `Rough`, and end at an arbitrary moment (`CalmsDown`).

In the bridge, what a thread does under the mutex is one step, except receiving,
which is cut so that the mutex is visibly held while the other thread waits. To
read a datagram, to note its sender and to transmit it are three steps. A peer is
modelled by the counter it puts in its frames; frames may be lost, and the peer may
restart, with a HELLO that is heard or without one: a leaf and the older node start
counting at 0 after every deep sleep and say nothing. The write that clears the
chip's flags is not verified; where it is lost the frame before is read once
more (`"again"` in module `SX1276`, `ReceiveDataAgain`). The flag
`timeout` of `TryReceive` lives over several receives, and so it is a variable:
when a chip hangs until the 20 s timeout of the driver itself, which sets no
flag, either the flag is still set from the receive before, or the program takes
an empty frame for a real one, computes `0 - 1` as an unsigned number and
crashes (`ReceiveCrash`), to be run again by its init script. The broker may stop
and start; on a connected UDP socket a frame that is sent while it is down
comes back as an error of the next `rcvfrom`.

In `McuRadio` a frame is its length and the chip is its FIFO pointer, its
interrupt flags and its transmitter. The time on air is the data sheet's
formula, which the driver quotes in a comment (`sx1276.cpp:285`; the preamble is
the 8 symbols the driver sets); `PredictTimeOnAir` is the driver's integer
arithmetic. Assumed of the hardware: `delay(10)` waits at least 10 ms, a
single receive ends by the symbol timeout, and only the driver moves the FIFO
pointer.

In `BusPirate` the character of a line is a set of faults: it may flip one byte in a
call, split answers, deliver them after the driver gave up, and make `read()` fail.
What can flip is the value or the register number of a command and any byte of an
answer. Opcode and counts do not: what the Bus Pirate makes of a command it does not
know is not in the repository. Nor does the bit that tells a write from a read; a
read-back that it turns into a write would write the right value and verify it
all the same. Nothing is lost: a lost byte would be a late one that never comes.

In `FifoBridge` the socket may report an error at any `rcvfrom`; `Run` catches it
and the outward thread is over.

In `GroundSensor` callbacks are atomic, as they are on the chip, and may come
between any two timers. A delay only says when a timer fires, and the 50 ms after
which a report is freed may end before or after the next timer of the chain, so
delays are left out. What the code relies on is assumed of the TCP library:
after `disconnected` or `reconnect` it does not call back again. If the peer
closes before the data is acknowledged, `disconnected` arms a timer whose
function nobody has set; the jump to address 0 is a reset (`CheckerCrashes`).
`system_restart` and `system_deep_sleep` end the boot at once.

Names ending in an underscore and a word (`dispatch_KeepsWaiting`) are mutants:
plausible mistakes in the definition that follows them. `PROJECT.json` says which
property notices which.

## 3. Runs

In the runs of the client ids have two digits of base 2 (`Radix = 2`), so
that ids 0 to 3 exist, 3 being the reserved 0xffff, and wrap-around happens
within a few steps; `MaxTopics = 2` makes the table fill up. One tick is 5 s:
`TRetry = 3` and `RuntimeTimeout = 4` are the 15 s and 20 s of the code, with the
same order between one interval, the deadline and two intervals. `NRetry = 5` is
the code's. In `node` a tick is 3 s (`TRetry = 5`, report interval 2).

| Run | Checks | Shows |
|---|---|---|
| `leaf` | `TypeOK`, `RetransmitsTheRequest`, `OneRetransmission`, `PubackEndsTheBoot`, `RoutineSleepIffPublished`, `PublishesGrantedTopic`, `EveryBootEnds`, `ImplementsLeafCycle` | one leaf that may hear one message of every kind, with every id, at any time; every boot ends; the leaf implements `LeafCycle`, liveness included |
| `field_one` | `PubackMeansTaken`, `PublishesOwnTopic`, `FieldImplementsLeaf`, `ReadingsGetThrough` | one leaf and a lossy channel with a gateway that also restarts, pings and forwards, a REGISTER of somebody else, and frames that are misread: what the leaf believes is true; its every step is a step of `Leaf`; and from every state that this can bring it to, readings arrive again and again once losses and chatter have ended |
| `bridge` | `DroppedEstimate`, `DatagramsGetTheirTurn`, `FaultsClear` | both threads in both socket modes, failing SPI, a hanging chip, crashes, frames lost and read twice, restarting peers and brokers: how far the estimate of lost frames can be off, no starvation of the transmitting thread, no permanent fault |
| `node` | `PublishedOnce`, `BatchUnderGrantedTopic`, `BatchThenSleep`, `RetriedWhenHeard` | the older application on both boards: one batch per boot although `go_to_sleep` may return, because the pauses around the batch make the report due first; requests are retried as long as anything is heard |
| `mcu_radio` | `McuTypeOK`, `NoFrameCutShort`, `FirstFrameIntact`, `CallsReturn` | any order of radio calls, a chip that may stall: no frame is cut short although the prediction is too small for most lengths |
| `buspirate` | `VerifiedIsWritten`, `WriteCopesWithFlip`, `BeginsInStep`, `MethodsReturn` | what the verification after a write is worth on a line that flips, splits, flips and splits, splits and delays, or on which reads fail |
| `bench` | `ConnackIsCurrent`, `AddressWhole`, `AtMostOneStale`, `FifoIsStream`, `ListenersSettle`, `DatagramsComeThrough` | FIFO bridge and listeners around a broker that stops, refuses, and comes back elsewhere |
| `ground` | `LeftInOrder` (`LeftOnPurpose`, `ConsoleIsOpen`), `NoCallbackOnFreed`, `NapMeansOutcome`, `SensorsRight` (`SensorsFound`, `ReadingExact`), `SleepsAgain` | the ground sensor with any devices on its wire and a network that may do anything or nothing |

Two runs check the types of the variables (`TypeOK`, `McuTypeOK`). In the other modules
they are part of an invariant that is proved (`GroundTypes` for the ground sensor).

Runs that are expected to find a violation; each states what a comment or a
document says of the program (details under "findings" in `PROJECT.json`):

| Run | Property | Finding |
|---|---|---|
| `cross_topic` | `PublishesOwnTopic` | with two leaves, one takes the other's REGACK and publishes under the other's topic |
| `bridge_carrier` | `NoFaultMeansHome` | `Restart` sets the carrier and then clears the fault that this may have raised |
| `broker_restart` | `ServiceResumes` | a frame forwarded while the broker is down ends the outward thread for good, although the init script starts the broker again |
| `buspirate_flip` | `ReadCopesWithFlip` | `ReadRegisterHarder` tries again only after a wrong acknowledgement: a flipped value is returned as a success (`sx1276.cpp:158-164`) |

`PubackMeansTaken` and the passing run of `PublishesOwnTopic` assume one leaf in
range, a gateway that answers within a tick (`Prompt`), and that a misread frame
does not look like a REGACK or a PUBACK. A PUBACK that is delayed into the next boot,
meant for another leaf, or read from the wrong place of the FIFO, would be taken as
well, since no message id is compared and the leaf checks no checksum. The run of
`FieldImplementsLeaf` has one leaf; the theorem is about any number.

`ReadingsGetThrough` says what follows when losses and chatter have ended, and nothing
about how long they last. While they last nothing can be said: an advertisement
before every answer has every answer misread, and the boot ends at its deadline.
Nor is the leaf's own recovery quick: a leaf that has registered twice takes the REGACK of its
first REGISTER for a wrong one and registers again, one step behind its answers, until
`RUNTIME_TIMEOUT` ends the boot. The next boot begins with an empty table and a cold receiver.

`DroppedEstimate` is about one peer and fewer than 256 frames lost in a row. The code
keeps one counter for all nodes it hears, so that with several of them, or after a
frame with another's counter, `dropped_` is not even a lower bound; it is called an
estimate (`sx1276_mqttsn_bridge.cpp:214`), for which the property gives the terms.

Bounds. *Field*: two frames of chatter in a boot (`MaxChatter`) break into two of
its three exchanges, or into one of them twice, and every boot has its own; a
misread frame is one that is ignored or one that is answered. *Bridge*: with
counters of base 3 (`Radix`) a few frames take them past a wrap; one frame is lost
and one read again, before, between or after each other and a restart of the peer,
announced or not; one datagram. (With two lost frames, or with two datagrams, the
properties hold as well; these instances take more than three minutes each.) A gap
of `Radix` or more frames in a row is not seen by the code; `PeerUnheard` excludes
it and the property says so. *Microcontroller radio*: every length from 4 to 130
bytes; frames that are received are empty, as short as can be, ordinary, or as long
as can be. *Bus Pirate*: registers hold 0, 1 (also the acknowledgement) or 2; six
empty reads are two accesses that time out, after which the line stays out of step;
a read that fails counts as three. *Bench*: two runs of the broker, two datagrams of
two bytes, one refused connection; both programs may end, so that deadlock is not
checked there. *Ground sensor*: addresses of three bits with a family code of two,
hence every set of six devices, two of them of a foreign family that the search
meets first; room for two thermometers; measurements of both signs and -2048
degrees; both counts of polls run out after three polls instead of 24 and 22. A
sensor that is left to its console may stop, so that deadlock is not checked.

What the models show besides:

* `node.ino:359` says of a pending response "havent got it yet try again": in
  silence the check is never reached, and the node, which has no deadline either,
  waits for ever when a request or its answer is lost. `RetriedWhenHeard` is what is left
  of the comment.
* The design of the ground sensor ends every boot in deep sleep, also after an error
  (`sentrifarm.c:30-31`). A network that does not come up in time, or a wrong password,
  which is not looked at, ends it at the console instead, with the processor
  running; a report without an answer waits for half an hour, awake, before the
  restart. With the button held and a silent peer, the console that is left stays locked.
* If contacts on the 1-Wire bus come loose between two searches, the same
  thermometer may be found twice.
* `leaf.ino:423` says "if we got here, then we processed a CONNACK": a leaf gets
  there after any unsolicited message as well, and after the first timeout of
  the CONNECT, whose retry budget is never armed.
* Both radio drivers test the CRC flag with `(flags & (1 << 5)) == 1`, which never
  holds. `num_crc_errors_` of the bridge stays 0; the bridge has a xor byte
  against damaged frames, a leaf has nothing.
* `SX1276lib/sx1276.h:66` promises the time on air in "rounded up milliseconds". It is
  rounded down, by up to 2 ms, and frames shorter than 4 bytes, which no program sends,
  would be cut off.
* A second frame that the microcontroller receives without transmitting or
  going to standby in between is read from the wrong place in the FIFO. A leaf that
  ignores a frame does neither.
* `num_tx_`, the "Number of transmitted MQTT-SN messages" (`sx1276_mqttsn_bridge.cpp:209`),
  counts too much when the clear of the flags is lost (`sx1276.cpp:465`) and the TxDone
  of an earlier frame is taken for the frame's own, and too little when the frame
  was sent and reading the flag failed. It is only printed, and not in the model.
* `ds18b20.c:120` says that "tVal and tFract are in 1/10 °C". They are whole degrees and
  hundredths of a degree, and are printed so (`sentrifarm.c:320`, `:392`); `ReadingExact`
  states this, not the comment (under "findings").
* `WriteRegisterVerifyMask` reads the bits it is to retain with `ReadRegisterHarder`: a flip
  in this answer is written to the register and verified (`sx1276.cpp:198`).
* An answer of the Bus Pirate that arrives in two parts makes a register that
  holds 1 read as 0, with success (`buspirate_binary.c:34`). One late answer leaves the
  line out of step until the device is opened again. A lost acknowledgement
  of the first reset command leaves the radio in reset (`:166`).
* `WriteRegisterVerify` stands a flipped byte, and it stands split and late answers, but
  not both: if the value is flipped on its way to the register and the answer
  that should show it comes in two parts, the byte that is compared may be a zero
  of the command instead, and a write of 0 is verified although it failed. The search for
  an inductive invariant showed this; `VerifiedIsWritten` says which lines it is about.
* `discard2` ends when its one attempt to reconnect fails, and hears nothing more
  when it succeeds, since the session is clean and nothing subscribes again.
* `MosqErrStr` has the texts for "no connection" and "out of memory" swapped
  (`mqttclient.cpp:169-174`); the port argument of both bridges is
  compared before it is assigned (`fifo_mqttsn_bridge.cpp:122`).

## 4. Fairness

* `Leaf`, `Node`, `Field`: `loop()` is called for ever by the Arduino core and every
  receive ends by the symbol timeout (weak fairness of each step of the leaf);
  time passes; a sleeping node is woken by its timer. That the channel calms down is
  not assumed but the condition of `ReadingsGetThrough`. `Field` uses strong
  fairness for the gateway's answers, which wait for a quiet channel, for
  `Tick`, which waits for a prompt gateway, and for a boot with a working radio.
* `RadioBridge`: both threads run (weak). Strong fairness of `Transmit` stands for
  a mutex that the outward thread gets in the end. The inward thread releases it
  after every receive that does not end in a HELLO, but only after a timeout or
  junk does it sleep, for 50 microseconds, before it asks again; after data it
  forwards them first, after an error it asks again at once, for the restart. A
  mutex promises nobody his turn, so this is an assumption. A HELLO keeps the
  lock, but a peer says only finitely many, and the clear whose loss has one read
  again is not lost for ever. Strong
  fairness of a successful `Restart` or `Start`: the SPI bus does not fail for ever, and the init
  script runs the bridge again after it exits. Weak fairness of `BrokerStarts`: the
  same script runs the broker again.
* `McuRadio`: the program runs, and a single receive ends by the symbol timeout
  (weak). Nothing is assumed of a transmission.
* `BusPirate`: the driver runs, and what the Bus Pirate sent arrives in the end (weak).
* `Bench`: the programs run, the library notices a lost connection in the end
  (keep-alive), the broker handles what it is sent (weak). Strong fairness of `UpdateLock`: a
  mutex that the inward thread takes once for every message is got in the end.
* `GroundSensor`: timers fire, a scan comes to an end and a sleeping chip wakes up
  (weak). Nothing is assumed of the network.

## 5. Proofs

Every safety invariant that a run checks, and the safety part of every refinement, is
a theorem `Spec => []P` (or `Spec => P`), proved for all values of the constants
within the named assumptions. None of the properties is
inductive alone: every module has a conjunction `IndInv` of its properties
with what they rest on, each part under a name of its own, and one theorem
`...Invariance` for `Spec => []IndInv`, with one step per action. TLC checked
every `IndInv` on the instance of the run, or a wider one, before it was proved.

| Module | Theorems | For the properties |
|---|---|---|
| `LeafProofs` | `TypeCorrect`, `RequestKept`, `RetriesBounded`, `PubackSound`, `SleepKinds`, `TopicGranted` | `TypeOK`, `RetransmitsTheRequest`, `OneRetransmission`, `PubackEndsTheBoot`, `RoutineSleepIffPublished`, `PublishesGrantedTopic` |
| | `ImplementsCycle` | the safety part of `ImplementsLeafCycle` |
| `NodeProofs` | `OneBatchPerBoot`, `BatchTopicGranted` | `PublishedOnce`, `BatchUnderGrantedTopic` |
| `FieldProofs` | `PubackTaken`, `OwnTopicOnly`, `LeafOfTheField` | `PubackMeansTaken`, `PublishesOwnTopic`, `FieldImplementsLeaf` |
| `RadioProofs` | `RadioTypeCorrect`, `NeverCutShort`, `FirstIsIntact` | `McuTypeOK`, `NoFrameCutShort`, `FirstFrameIntact` |
| | `DroppedIsEstimated` | `DroppedEstimate` |
| `BenchProofs` | `AddressIsWhole`, `OneStaleAtMost`, `OutPathIsStream`, `ConnackStaysCurrent` | `AddressWhole`, `AtMostOneStale`, `FifoIsStream`, `ConnackIsCurrent` |
| `GroundSensorProofs` | `CallbacksFindMemory`, `NapHasOutcome`, `ChainLeftInOrder`, `ReadingsAreExact` | `NoCallbackOnFreed`, `NapMeansOutcome`, `LeftInOrder`, and `ReadingExact` of `SensorsRight` |
| | `ThermometersRight`, `SearchTerminates`, `GroundTypes` | `SensorsRight`, `SearchEnds`, `TypeOK` |
| `BenchProofs` | `VerifiedWasWritten`, `WriteCopes`, `CallsBeginInStep` | `VerifiedIsWritten`, `WriteCopesWithFlip`, `BeginsInStep` |

**Leaf** (`MqttSnAssumption`, `LeafAppAssumption`, `InputsAssumption`). The only
assumption about time is `TRetry <= RuntimeTimeout <= 2 * TRetry + 1`: one
retransmission fits into the deadline of a boot, two do not. `Phase` says which
exchange the variable `state` stands for: before the PUBLISH no PUBACK is
awaited and none has been counted; after it nothing else is awaited; a counted
PUBACK is seen in the tail of the same pass. `Timing` relates retry timer, budget
and deadline: the timer never runs ahead of `elapsedRuntime`, and once a retry
was used `elapsedRuntime` is at least one interval ahead of it, so that the
second retry would come after the deadline. `TopicGranted` assumes that no peer
uses the reserved id (`HonestIds`). It needs `TopicOrigin`: before the PUBLISH the
topic table is non-empty only between a REGACK and the tail of the same pass, too
short a time for `register_handler` to overwrite the entry through its
uninitialised index.

`ImplementsCycle` shows under `HonestIds` that every step of a leaf is, seen through the
mapping of module `Leaf`, one step of `LeafCycle` or none: `TryReceive` offers,
`Publish` publishes under an offered id (this is `TopicOrigin` again), and the
ways to sleep are `Finish` after a reading and `Abandon` before it (`Phase`).

**Field** (`FieldAssumption`: any number of leaves, any topic ids, any chatter, any misread frames). `OneFrame`: a radio keeps
at most one frame, and only while its leaf listens. `Repeatable`: what a leaf might
retransmit is a message that was sent before, so that nothing but `Traffic` is ever on the
air. `LeafOfTheField` follows: a step of the field is for a leaf (an arbitrary one of
them, `ALeaf`) a step of `Leaf` or none, since whatever its radio takes is among the inputs of
that module. So what `LeafProofs` says of a leaf in an arbitrary environment holds of a leaf
in the field. The provers cannot cite the theorems of an instantiated module, and they are not restated.

`PubackTaken` and `OwnTopicOnly` have a hypothesis, `Alone`: one leaf, a gateway that
answers within a tick, no reserved topic id, and no acknowledgement that nobody asked for,
neither sent nor misread.
The run `cross_topic` shows that with two leaves the second is false. `AnswersItsLeaf` says
for every place where an answer may be (owed by the gateway, in the radio, left over in
`response_buffer`, where a HELLO has it handled once more) that it answers a
request of this boot; a boot must find none of the last one, which is why
the gateway has to be prompt.

**Older node** (`NodeAssumption`: the pauses of a batch, and a sleep, take longer than a
report interval). `ConnectsFirst`: a pass looks at what it received only after the CONNECT,
the one step that resets `all_done_nearly`. `BatchMakesDue`: that flag stands for the batch,
and finds the report due in every later pass, on a Teensy also after
`go_to_sleep` has returned. `AwaitsItsRegack` and `TopicOrigin` are the node's form of the
argument about the topic table.

**Microcontroller radio** (`McuRadioAssumption`: frames of 4 to 255 bytes, a chip that may
stall). The lemma `TimeoutCoversAirtime` has the arithmetic: for every length up
to 128 the ticks of `TransmitMessage`, 10 ms each, are at least the time on air.
`OnTheAir` adds that while the chip is sending a call is waiting for it, its
TxDone is not set yet and the ticks that are left cover the rest of the frame;
`Pointer`, that a warm receiver from which nothing was read has its pointer at
the start of the FIFO.

**Bridge** (`RadioBridgeAssumption`: any counter width from 2 values on). `Numbering`: as long as the
peer does not restart, the counter heard last, the gap since and the counter that comes
next agree, around the wrap; the code's flag for the first frame is set exactly when one was
heard. `Standing`: a frame whose flag still stands, and which may be read again, is the
one whose counter was noted last.

**Bench** (`FifoBridgeAssumption`, `MqttClientAssumption`). `MutexHeld` and `SharedWhole`: the
shared address is torn only while `Update` holds the mutex, and what `Get` has
copied is still what it is. `AstrayOnce`: after a message that went astray the
address has been looked up anew. `WrittenToEnd`: a datagram is written to its end before
the next is taken; the lemmas about `Stream` say that appending a datagram appends its bytes.
`ConnackOrigin`: only `discard2` has a CONNACK, and only while it listens to the
connection that brought it, or when it has ended.

**Ground sensor** (`GroundAssumption`). `CheckerIsLast`: the timer that frees the report runs only behind
a closed connection. `SlotMeansOutcome`: a slot is closed by a callback. `LockHolder`: after the
scan only a report under way locks the console. `ControlOK` has the types of the control
state and `DataOK` those of the rest, with the counts of polls.

`ThermometersRight` is about two nested computations, and the provers have no induction
over data. What they have is a theorem that `<` is well founded, stated with
a set instead of a predicate; from it follow `Least` and `Induction`, for sets of
numbers, and `Recursion`, which says that a computation in steps goes through some values.
With these a recursive function of the model is unfolded (`WalkUnfolds`, `LoopUnfolds`) and an
invariant is carried from pass to pass:

* `WalkInv`, after b bits of `ds_search`: the devices that still answer are those
  with the first b bits of the address; the bit noted in `last_zero` is the last one at which
  they differed and 0 was chosen (`LastFork`); behind `LastDiscrepancy` a 1 was taken only
  without a choice (`LeastFrom`); up to it the last address is followed, and left at it
  (`Turns`).
* So one search finds the first device (`FirstIsLeast`) or the one next to the last
  (`NextIsSuccessor`), and a search without a discrepancy was at the last (`LastIsGreatest`),
  in the order `Before` of the bits.
* `LoopInv` and `OrderInv`, after k passes of `exec_ds18b20`: at least k devices were met
  (k - 1 if some came loose after the first pass), every thermometer met is among the
  results, in order. `SearchTerminates`: the loop ends after one pass more than there are
  devices. Of a family code only matters that it is not 0, so that devices of other
  families, which continue the loop without counting, are covered.

**Bus Pirate** (`BusPirateAssumption`: any combination of faults). `InStep`: without late answers and
failing reads, what is
under way is what is waited for. `Written`: after the write of a verified
access the register has the value, unless the flip was on the way to it, and then the
answer that shows it is unspoilt. `OneFlip`: the attempt after a flip succeeds.

Only model-checked is everything under fairness (`EveryBootEnds`, `ReadingsGetThrough`,
`DatagramsGetTheirTurn`, `FaultsClear`, `BatchThenSleep`, `RetriedWhenHeard`, `SleepsAgain`, `CallsReturn`,
`MethodsReturn`, `ListenersSettle`, `DatagramsComeThrough`) and with it the liveness part of
`ImplementsLeafCycle`: the proof system has no rules for `WF_` and `SF_`.

## 6. Not modelled

* The broker, libmosquitto, the Bus Pirate, the chips and the radio channel are
  external and modelled by what the code needs of them.
* Sensor readings, formatting and checksums: no decision of the leaf depends on
  them. A reading of more than 85 bytes overruns `message_buffer` into
  `response_buffer`; what is overwritten is the REGACK that was handled in the
  same pass and would be ignored from then on, so control flow does not change.
* Client methods that no program of the repository calls (`searchgw`,
  `subscribe`, `disconnect`, `pingreq`, the serial transport), beacon and log
  mode of the leaf, continuous receive mode, `Unsubscribe` of the wrapper.
* The spidev backend (one ioctl per access), opening devices, GPIO, and register
  settings that only tune the radio.
* Test sketches and command line tools around the drivers: what they call is
  modelled, what they add is printing.
* Of the ground sensor: configuration, LED, printing, the checksum of an address,
  which is only printed, and the timing of single bits.
* The rest of the attic: trials, an exception dump, and a vendored copy of lwIP with the headers
  of a vendor SDK. It is most of the lines of the repository, third-party code
  of which this project changes nothing, and no part of the present system.

## 7. State of the work

Done: the client, the leaf and its life cycle, the field, the older node, the
bridge with its driver, the microcontroller radio, the Bus Pirate backend, the
bench and the ground sensor; proofs of all safety invariants, of the refinement of
`Leaf` by `Field`, and of the safety part of the life cycle.

Left open:

1. Several leaves in range: which properties of `Field` survive there, under
   which discipline of the gateway, once the client compares message ids.
2. The liveness properties, beyond the instances of the runs.
