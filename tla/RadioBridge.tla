---------------------------- MODULE RadioBridge ----------------------------
(***************************************************************************)
(* The gateway's bridge between radio and broker: class RadioManager and   *)
(* the two threads of sx1276_mqttsn_bridge.                                *)
(*                                                                         *)
(* The outward thread reads datagrams of the broker and transmits them;    *)
(* the inward thread receives frames, forwards their payload to the broker *)
(* and restarts the radio after an error.  radio_mutex_ is held by the     *)
(* inward thread exactly while inward = "rx"; what the outward thread and  *)
(* Restart do under the lock is one step, since nobody can interleave.     *)
(*                                                                         *)
(* The peer on the air is external: a node that numbers its frames and     *)
(* begins again when it restarts.  Another bridge says HELLO then; a leaf  *)
(* and a node do not, and HELLOs get lost too.  So is the broker: a        *)
(* source of datagrams, whose address a listening bridge learns from the   *)
(* first one, and which its init script runs again whenever it ends.  A    *)
(* datagram to a broker that is down comes back as an error of a connected *)
(* socket, at the next call that uses it.                                  *)
(***************************************************************************)
EXTENDS SX1276, Integers

CONSTANTS
    Radix,          \* values of a counter byte (256)
    Hellos,         \* HELLO frames sent by a starting bridge (5)
    MaxDatagrams,   \* bound on the datagrams of the broker
    MaxLost,        \* bound on the frames of the peer that get lost
    MaxRestarts,    \* bound on the restarts of the peer
    MaxOdd,         \* bound on the counters heard out of order
    LongDatagrams,  \* may a datagram exceed the FIFO with its header?
    Modes           \* how the bridge may be started: listen, connect

ASSUME RadioBridgeAssumption ==
    /\ Radix \in Nat \ {0, 1}
    /\ Hellos \in Nat \ {0}
    /\ MaxDatagrams \in Nat
    /\ MaxLost \in Nat
    /\ MaxRestarts \in Nat
    /\ MaxOdd \in Nat
    /\ LongDatagrams \in BOOLEAN
    /\ Modes \subseteq {"listen", "connect"}

VARIABLES
    radio,      \* the SX1276Radio object and its chip
    inward,     \* where the inward thread is
    timeout,    \* its flag, which outlives a receive within TryReceive
    outward,    \* where the outward thread is, the datagram it holds, the mode
    manager,    \* the other fields of RadioManager
    broker,     \* is it up; is an error pending on the socket
    peer,       \* the next counter of the peer, frames lost since it was heard
    count       \* history: what really happened

vars == <<radio, inward, timeout, outward, manager, broker, peer, count>>

Byte == 0..Radix - 1

Manager ==
    [rolling_counter_rx : Byte, have_rx : BOOLEAN, dropped : Nat, have_port : BOOLEAN]

\* Members of count: datagrams read; restarts of the peer; heard: does the
\* counter that was heard last belong to this run of the peer or to an earlier
\* one; and in this run of the program: frames lost between two of one run of
\* the peer that were heard, and odd, the data frames whose counter did not
\* come after the one before, because the peer restarted or because the frame
\* was read twice.
TypeOK ==
    /\ radio \in Radio
    /\ inward \in {"down", "want", "rx", "deliver", "restart"}
    /\ timeout \in BOOLEAN
    /\ outward \in [pc : {"udp", "note", "want", "ended"}, long : BOOLEAN, mode : Modes]
    /\ manager \in Manager
    /\ broker \in [up : BOOLEAN, refused : BOOLEAN]
    /\ peer \in [next : Byte, gap : 0..MaxLost]
    /\ count \in [read : 0..MaxDatagrams, restarts : 0..MaxRestarts,
                  heard : {"none", "this", "earlier"}, lost : Nat, odd : Nat]

RadioManager ==
    [rolling_counter_rx |-> Radix - 1, have_rx |-> FALSE,
     dropped |-> 0, have_port |-> FALSE]

Init ==
    /\ radio \in SX1276Radio
    /\ inward = "down"
    /\ timeout = FALSE
    /\ outward \in [pc : {"udp"}, long : {FALSE}, mode : Modes]
    /\ manager = RadioManager
    /\ broker = [up |-> TRUE, refused |-> FALSE]
    /\ peer = [next |-> 0, gap |-> 0]
    /\ count = [read |-> 0, restarts |-> 0, heard |-> "none", lost |-> 0, odd |-> 0]

\* Mutant: the default configuration is not applied again.
Restarted_NoConfiguration(r) == ChangeCarrier(ResetSX1276(r))

Restarted(r) ==
    UNION {ApplyDefaultLoraConfiguration(q) : q \in ChangeCarrier(ResetSX1276(r))}

\* Five frames.  Nobody looks at what TransmitHello's transmissions come to, and
\* what one of them may leave behind is what all of them may.
HelloSent(r) == SendSimpleMessage(r, FALSE)

\* main() restarts the radio, gives up if it has a fault (it is run again
\* by its init script), says HELLO and starts the threads.
Start ==
    /\ inward = "down"
    /\ \E r \in Restarted(radio) :
          IF r.fault
          THEN radio' = r /\ inward' = inward
          ELSE radio' \in HelloSent(r) /\ inward' = "want"
    /\ UNCHANGED <<timeout, outward, manager, peer, count, broker>>

-----------------------------------------------------------------------------
(* The outward thread *)

SetPort(m) == [m EXCEPT !.have_port = TRUE]

\* rcvfrom returns a datagram.
ReadDatagram ==
    /\ inward # "down"
    /\ outward.pc = "udp"
    /\ broker.up
    /\ ~broker.refused
    /\ count.read < MaxDatagrams
    /\ \E long \in IF LongDatagrams THEN BOOLEAN ELSE {FALSE} :
          outward' = [outward EXCEPT !.pc = "note", !.long = long]
    /\ count' = [count EXCEPT !.read = @ + 1]
    /\ UNCHANGED <<radio, inward, timeout, manager, peer, broker>>

\* Its sender is noted before the lock is asked for.  (The counter that Transmit
\* puts into the frame is left out: no leaf or node looks at it.)  A frame
\* of the peer that is delivered before goes nowhere.
NoteSender ==
    /\ outward.pc = "note"
    /\ outward' = [outward EXCEPT !.pc = "want"]
    /\ manager' = SetPort(manager)
    /\ UNCHANGED <<radio, inward, timeout, peer, count, broker>>

\* rcvfrom throws on a connected socket (the broker's port is closed): the
\* thread ends for good, and main() goes on waiting for the other one.
SocketFails ==
    /\ inward # "down"
    /\ outward.pc = "udp"
    /\ broker.refused
    /\ outward' = [outward EXCEPT !.pc = "ended"]
    /\ broker' = [broker EXCEPT !.refused = FALSE]
    /\ UNCHANGED <<radio, inward, timeout, manager, peer, count>>

\* What the transmission came to is printed and counted, and changes nothing.
Transmit ==
    /\ outward.pc = "want"
    /\ inward # "rx"
    /\ radio' \in SendSimpleMessage(radio, outward.long)
    /\ outward' = [outward EXCEPT !.pc = "udp"]
    /\ UNCHANGED <<inward, timeout, manager, peer, count, broker>>

-----------------------------------------------------------------------------
(* The inward thread *)

\* TryReceive takes the lock, at its start or after it let transmissions pass.
TryReceive ==
    /\ inward = "want"
    /\ inward' = "rx"
    /\ UNCHANGED <<radio, timeout, outward, manager, peer, count, broker>>

ReceiveError ==
    /\ inward = "rx"
    /\ \E x \in ReceiveSimpleMessage(radio) : x[1] = "error" /\ radio' = x[2]
    /\ inward' = "restart"
    /\ UNCHANGED <<timeout, outward, manager, peer, count, broker>>

ReceiveTimeout ==
    /\ inward = "rx"
    /\ \E x \in ReceiveSimpleMessage(radio) : x[1] = "timeout" /\ radio' = x[2]
    /\ inward' = "want"
    /\ timeout' = TRUE
    /\ UNCHANGED <<outward, manager, peer, count, broker>>

\* No frame, and the flag is still set from the receive before.
ReceiveNothing ==
    /\ inward = "rx"
    /\ timeout
    /\ \E x \in ReceiveSimpleMessage(radio) : x[1] = "nothing" /\ radio' = x[2]
    /\ inward' = "want"
    /\ UNCHANGED <<timeout, outward, manager, peer, count, broker>>

\* No frame, but no flag that says so either: the size is 0, and the loop over
\* its bytes runs to 0 - 1 as an unsigned number and out of the stack.  The
\* program is gone, with everything it knew.
ReceiveCrash ==
    /\ inward = "rx"
    /\ ~timeout
    /\ \E x \in ReceiveSimpleMessage(radio) : x[1] = "nothing"
    /\ radio' \in {r \in SX1276Radio : r.carrier = radio.carrier /\ r.rxdone = "none"}
    /\ inward' = "down"
    /\ outward' = [outward EXCEPT !.pc = "udp", !.long = FALSE]
    /\ manager' = RadioManager
    /\ count' = [count EXCEPT !.heard = "none", !.lost = 0, !.odd = 0]
    /\ broker' = [broker EXCEPT !.refused = FALSE]
    /\ UNCHANGED <<timeout, peer>>

\* A frame of this kind is received, or the frame before is read again.
Hears(kind) ==
    /\ inward = "rx"
    /\ \E x \in ReceiveSimpleMessage(radio) :
          x[1] = "frame" /\ x[2].rxdone = kind /\ radio' = x[2]

HearsAgain(kinds) ==
    /\ inward = "rx"
    /\ \E x \in ReceiveSimpleMessage(radio) :
          x[1] = "again" /\ x[2].rxdone \in kinds /\ radio' = x[2]

\* A frame with a wrong checksum or of an unknown type, or one that was spoiled
\* when it was read again.  (A damaged frame whose checksum is right by chance
\* is left out, and so is a frame that only its second reading gets right.)
ReceiveJunk ==
    /\ Hears("junk") \/ HearsAgain(Kind)
    /\ inward' = "want"
    /\ timeout' = FALSE
    /\ UNCHANGED <<outward, manager, peer, count, broker>>

\* Mutant: a HELLO does not restart the numbering.
ReceiveHello_KeepsCounting ==
    /\ Hears("hello")
    /\ count.restarts < MaxRestarts
    /\ \E h \in 0..Hellos - 1 :
          manager' = [manager EXCEPT !.rolling_counter_rx = h % Radix]
    /\ peer' = [next |-> Hellos % Radix, gap |-> 0]
    /\ count' = [count EXCEPT !.restarts = @ + 1, !.heard = "none"]
    /\ timeout' = FALSE
    /\ UNCHANGED <<inward, outward, broker>>

\* The peer restarts and one or more of its HELLOs are heard, the last one
\* with counter h.  The lock is kept and the next frame waited for.
ReceiveHello ==
    /\ Hears("hello")
    /\ count.restarts < MaxRestarts
    /\ \E h \in 0..Hellos - 1 :
          manager' = [manager EXCEPT !.rolling_counter_rx = h % Radix,
                                     !.have_rx = FALSE]
    /\ peer' = [next |-> Hellos % Radix, gap |-> 0]
    /\ count' = [count EXCEPT !.restarts = @ + 1, !.heard = "none"]
    /\ timeout' = FALSE
    /\ UNCHANGED <<inward, outward, broker>>

\* The same HELLO once more, with the counter that was noted last.
ReceiveHelloAgain ==
    /\ HearsAgain({"hello"})
    /\ manager' = [manager EXCEPT !.have_rx = FALSE]
    /\ timeout' = FALSE
    /\ UNCHANGED <<inward, outward, peer, count, broker>>

\* How many frames a received counter says were skipped.
Skipped(m, received) ==
    LET expected == IF m.rolling_counter_rx = Radix - 1 THEN 0
                    ELSE m.rolling_counter_rx + 1
        skipped == received - expected
    IN  IF ~m.have_rx \/ received = expected THEN 0
        ELSE IF skipped < 1 THEN skipped + Radix ELSE skipped

\* The bookkeeping of a data frame with this counter.
Counted(received) ==
    manager' = [manager EXCEPT !.dropped = @ + Skipped(manager, received),
                               !.have_rx = TRUE,
                               !.rolling_counter_rx = received]

\* Mutant: data is queued and the next frame waited for with the lock held.
ReceiveData_KeepsLock ==
    /\ Hears("data")
    /\ Counted(peer.next)
    /\ peer' = [next |-> (peer.next + 1) % Radix, gap |-> 0]
    /\ count' = [count EXCEPT
                    !.heard = "this",
                    !.lost = IF count.heard = "this" THEN @ + peer.gap ELSE @,
                    !.odd = IF count.heard = "earlier" THEN @ + 1 ELSE @]
    /\ timeout' = FALSE
    /\ UNCHANGED <<inward, outward, broker>>

ReceiveData ==
    /\ Hears("data")
    /\ Counted(peer.next)
    /\ peer' = [next |-> (peer.next + 1) % Radix, gap |-> 0]
    /\ count' = [count EXCEPT
                    !.heard = "this",
                    !.lost = IF count.heard = "this" THEN @ + peer.gap ELSE @,
                    !.odd = IF count.heard = "earlier" THEN @ + 1 ELSE @]
    /\ inward' = "deliver"
    /\ timeout' = FALSE
    /\ UNCHANGED <<outward, broker>>

\* The same data once more, with the counter that was noted last: to the broker
\* it goes a second time, to the statistics as almost a whole round of frames.
ReceiveDataAgain ==
    /\ HearsAgain({"data"})
    /\ count.odd < MaxOdd
    /\ Counted(manager.rolling_counter_rx)
    /\ count' = [count EXCEPT !.odd = @ + 1]
    /\ inward' = "deliver"
    /\ timeout' = FALSE
    /\ UNCHANGED <<outward, peer, broker>>

\* TryReceive has returned: the payload goes to the sender that SetPort noted
\* last, to the broker that the socket is connected to, or nowhere.  A
\* pending error is thrown, and caught, instead.
Deliver ==
    /\ inward = "deliver"
    /\ inward' = "want"
    /\ broker' = [broker EXCEPT !.refused =
                     outward.mode = "connect" /\ ~broker.up /\ ~broker.refused]
    /\ UNCHANGED <<radio, timeout, outward, manager, peer, count>>

Restart ==
    /\ inward = "restart"
    /\ radio' \in Restarted(radio)
    /\ inward' = "want"
    /\ timeout' = FALSE
    /\ UNCHANGED <<outward, manager, peer, count, broker>>

\* The peer sends a frame that nobody takes.  A gap of Radix frames would not
\* be seen at all.
PeerUnheard ==
    /\ peer.gap < Radix - 1
    /\ count.lost + peer.gap < MaxLost
    /\ peer' = [next |-> (peer.next + 1) % Radix, gap |-> peer.gap + 1]
    /\ UNCHANGED <<radio, inward, timeout, outward, manager, count, broker>>

\* The peer restarts, and no HELLO of it is heard.
PeerRestarts ==
    /\ count.restarts < MaxRestarts
    /\ peer' = [next |-> 0, gap |-> 0]
    /\ count' = [count EXCEPT
                    !.restarts = @ + 1,
                    !.heard = IF count.heard = "none" THEN "none" ELSE "earlier"]
    /\ UNCHANGED <<radio, inward, timeout, outward, manager, broker>>

\* The broker ends, and is run again.  To a socket that is not connected it
\* makes no difference.
BrokerStops ==
    /\ broker.up
    /\ outward.mode = "connect"
    /\ broker' = [broker EXCEPT !.up = FALSE]
    /\ UNCHANGED <<radio, inward, timeout, outward, manager, peer, count>>

BrokerStarts ==
    /\ ~broker.up
    /\ broker' = [broker EXCEPT !.up = TRUE]
    /\ UNCHANGED <<radio, inward, timeout, outward, manager, peer, count>>

Receive ==
    \/ ReceiveError \/ ReceiveTimeout \/ ReceiveNothing \/ ReceiveCrash
    \/ ReceiveJunk \/ ReceiveHello \/ ReceiveHelloAgain
    \/ ReceiveData \/ ReceiveDataAgain

Next ==
    \/ Start
    \/ ReadDatagram \/ NoteSender \/ SocketFails \/ Transmit
    \/ TryReceive \/ Receive \/ Deliver \/ Restart
    \/ PeerUnheard \/ PeerRestarts
    \/ BrokerStops \/ BrokerStarts

Spec == Init /\ [][Next]_vars

\* Both threads run.  A receive ends by the symbol timeout at the latest.  That
\* the outward thread gets the lock in the end is an assumption about the mutex
\* (strong fairness of Transmit): the inward thread leaves it for 50
\* microseconds after a timeout or junk, for the delivery of data and between
\* an error and the restart, and a mutex promises nobody his turn.  A restart of
\* the radio, tried again and again, succeeds in the end, and the clear of a flag
\* that makes a HELLO be read again is not lost forever.  The init scripts run
\* both programs again.
Fairness ==
    /\ WF_vars(BrokerStarts)
    /\ WF_vars(NoteSender)
    /\ WF_vars(TryReceive)
    /\ WF_vars(Receive)
    /\ WF_vars(Deliver)
    /\ WF_vars(Restart)
    /\ SF_vars(Transmit)
    /\ SF_vars(Start /\ inward' # "down")
    /\ SF_vars(Restart /\ ~radio'.fault)

FairSpec == Spec /\ Fairness

-----------------------------------------------------------------------------
(* Properties *)

\* dropped_ ("Estimated number of lost messages in transit") counts every frame
\* of the peer that got lost between two of one run that were heard, over all
\* wrap-arounds of the one byte counter; what it counts too many is less than
\* one round of the counter for each restart of the peer that no HELLO announced
\* and each frame that was read twice.  (One peer, and fewer than 256 frames
\* lost in a row.)
DroppedEstimate ==
    /\ count.lost <= manager.dropped
    /\ manager.dropped <= count.lost + (Radix - 1) * count.odd

\* A datagram that the outward thread has read gets its turn on the radio (or
\* goes down with the program), although the inward thread keeps the lock over
\* every receive and over every HELLO.
DatagramsGetTheirTurn ==
    outward.pc \in {"note", "want"} ~> outward.pc \notin {"note", "want"}

\* The flag that any radio operation of either thread may have set is cleared
\* in the end: the inward thread notices it at its next receive and restarts
\* the radio, also when it was a transmission that failed.
FaultsClear == radio.fault ~> ~radio.fault

\* A radio without a fault is on the carrier of the network: "True if the
\* fault flag was set by a prior operation", setting the carrier included.
NoFaultMeansHome == inward # "down" /\ ~radio.fault => radio.carrier = "home"

\* Datagrams of the broker get out again after whatever stopped the thread that
\* reads them: "every 10 seconds there should be a topic message", for
\* which the nodes need the answers.
ServiceResumes == outward.pc = "ended" ~> outward.pc # "ended"

-----------------------------------------------------------------------------
(* The inductive strengthening that the proofs use *)

\* The counter that was heard last, the gap since and the counter that comes
\* next agree, around the wrap, as long as the peer does not restart; the flag
\* that says whether one was heard is set exactly when it was.
Numbering ==
    /\ manager.have_rx <=> count.heard # "none"
    /\ peer.gap < Radix
    /\ count.heard = "this" =>
          LET next == manager.rolling_counter_rx + 1 + peer.gap
          IN  peer.next \in {next, next - Radix}

\* A frame that may be read again is the one that was taken last.
Standing ==
    /\ radio.rxdone = "data" /\ inward # "down" => count.heard # "none"
    /\ radio.rxdone = "hello" /\ inward # "down" => count.heard = "none"

IndInv ==
    /\ TypeOK
    /\ Numbering
    /\ Standing
    /\ DroppedEstimate
=============================================================================
