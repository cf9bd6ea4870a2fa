----------------------------- MODULE FifoBridge -----------------------------
(***************************************************************************)
(* fifo_mqttsn_bridge: datagrams of the broker are written to one FIFO,    *)
(* what is read from another goes to the broker.  The outward thread notes *)
(* the address each datagram comes from; the inward thread sends to the    *)
(* address noted last.  The strings of the address are shared, under the   *)
(* mutex mx, and neither is assigned atomically.                           *)
(*                                                                         *)
(* The programs at the far ends of the FIFOs are external, and so is the   *)
(* kernel: a write takes some of what it is given, or fails.               *)
(***************************************************************************)
EXTENDS Broker, Sequences

CONSTANTS
    Size,           \* bytes of a datagram
    MaxDatagrams,   \* bound on the datagrams of the broker
    Opened          \* the outcomes of opening the out-path

ASSUME FifoBridgeAssumption ==
    /\ Size \in Nat \ {0}
    /\ MaxDatagrams \in Nat
    /\ Opened \subseteq BOOLEAN

VARIABLES
    shared,     \* struct Shared
    outward,    \* OutLoop: where it is, the run heard from, the bytes left
    inward,     \* InLoop: where it is, its copy of the address
    fifo,       \* the out-path: is it open, is it read, the bytes written
    net,        \* datagrams in the socket's buffer, and those taken from it
    stale       \* messages sent to another address than the one just noted

bridgeVars == <<shared, outward, inward, fifo, net, stale>>

\* A host and a port, both those of a run of the broker; 0 is the empty string.
Address == [ip : 0..MaxRuns, port : 0..MaxRuns]

\* The bytes of a datagram, told apart by the datagram they belong to.
Datagram == 1..MaxDatagrams

Bytes(d) == [i \in 1..Size |-> <<d, i>>]

BridgeTypeOK ==
    /\ shared \in [address : Address, mx : {"free", "outward", "inward"}]
    /\ outward \in [pc : {"rcvfrom", "lock", "ip", "port", "write", "finish"},
                    from : 0..MaxRuns, rest : Seq(Datagram \X (1..Size))]
    /\ inward \in [pc : {"read", "lock", "ip", "port", "sndto"}, address : Address]
    /\ fifo \in [open : BOOLEAN, read : BOOLEAN, killed : BOOLEAN,
                 written : Seq(Datagram \X (1..Size))]
    /\ net \in [sent : 0..MaxDatagrams, buffer : Seq(Run \X Datagram), taken : Seq(Datagram)]
    /\ stale \in Nat

BridgeInit ==
    /\ shared = [address |-> [ip |-> 0, port |-> 0], mx |-> "free"]
    /\ outward = [pc |-> "rcvfrom", from |-> 0, rest |-> <<>>]
    /\ inward = [pc |-> "read", address |-> [ip |-> 0, port |-> 0]]
    /\ fifo \in [open : Opened, read : {TRUE}, killed : {FALSE}, written : {<<>>}]
    /\ net = [sent |-> 0, buffer |-> <<>>, taken |-> <<>>]
    /\ stale = 0

-----------------------------------------------------------------------------
(* OutLoop, with Update *)

rcvfrom ==
    /\ outward.pc = "rcvfrom" /\ ~fifo.killed
    /\ net.buffer # <<>>
    /\ LET d == Head(net.buffer)
       IN  /\ outward' = [pc |-> "lock", from |-> d[1], rest |-> Bytes(d[2])]
           /\ net' = [net EXCEPT !.buffer = Tail(@), !.taken = Append(@, d[2])]
    /\ UNCHANGED <<broker, shared, inward, fifo, stale>>

\* The socket reports an error: Run catches it, and the thread ends.
rcvfromThrows ==
    /\ outward.pc = "rcvfrom" /\ ~fifo.killed
    /\ outward' = [outward EXCEPT !.pc = "finish"]
    /\ UNCHANGED <<broker, shared, inward, fifo, net, stale>>

UpdateLock ==
    /\ outward.pc = "lock" /\ ~fifo.killed
    /\ shared.mx = "free"
    /\ shared' = [shared EXCEPT !.mx = "outward"]
    /\ outward' = [outward EXCEPT !.pc = "ip"]
    /\ stale' = IF shared.address.ip # outward.from THEN 0 ELSE stale
    /\ UNCHANGED <<broker, inward, fifo, net>>

UpdateIp ==
    /\ outward.pc = "ip" /\ ~fifo.killed
    /\ shared' = [shared EXCEPT !.address.ip = outward.from]
    /\ outward' = [outward EXCEPT !.pc = "port"]
    /\ UNCHANGED <<broker, inward, fifo, net, stale>>

UpdatePort ==
    /\ outward.pc = "port" /\ ~fifo.killed
    /\ shared' = [shared EXCEPT !.address.port = outward.from, !.mx = "free"]
    /\ outward' = [outward EXCEPT !.pc = "write"]
    /\ UNCHANGED <<broker, inward, fifo, net, stale>>

\* Mutant: what is left is written again from the start of the buffer.
write_Restarts ==
    /\ outward.pc = "write" /\ ~fifo.killed
    /\ fifo.open /\ fifo.read
    /\ \E r \in 1..Len(outward.rest) :
          /\ fifo' = [fifo EXCEPT !.written = @ \o SubSeq(outward.rest, 1, r)]
          /\ outward' = [outward EXCEPT
                !.rest = SubSeq(@, 1, Len(@) - r),
                !.pc = IF r = Len(outward.rest) THEN "rcvfrom" ELSE @]
    /\ UNCHANGED <<broker, shared, inward, net, stale>>

\* write() takes r bytes, which the loop steps over.
write ==
    /\ outward.pc = "write" /\ ~fifo.killed
    /\ fifo.open /\ fifo.read
    /\ \E r \in 1..Len(outward.rest) :
          /\ fifo' = [fifo EXCEPT !.written = @ \o SubSeq(outward.rest, 1, r)]
          /\ outward' = [outward EXCEPT
                !.rest = SubSeq(@, r + 1, Len(@)),
                !.pc = IF r = Len(outward.rest) THEN "rcvfrom" ELSE @]
    /\ UNCHANGED <<broker, shared, inward, net, stale>>

\* EBADF when the out-path could not be opened: the thread ends.  A FIFO
\* that nobody reads any more raises SIGPIPE, which ends the process.
writeFails ==
    /\ outward.pc = "write" /\ ~fifo.killed
    /\ ~(fifo.open /\ fifo.read)
    /\ IF fifo.open
       THEN fifo' = [fifo EXCEPT !.killed = TRUE] /\ UNCHANGED outward
       ELSE outward' = [outward EXCEPT !.pc = "finish"] /\ UNCHANGED fifo
    /\ UNCHANGED <<broker, shared, inward, net, stale>>

-----------------------------------------------------------------------------
(* InLoop, with Get.  A read that fails or finds the end is repeated. *)

\* Mutant: the address is looked up for the first message only.
read_Remembers ==
    /\ inward.pc = "read" /\ ~fifo.killed
    /\ inward' = [inward EXCEPT !.pc = IF inward.address.port = 0 THEN "lock" ELSE "sndto"]
    /\ UNCHANGED <<broker, shared, outward, fifo, net, stale>>

read ==
    /\ inward.pc = "read" /\ ~fifo.killed
    /\ inward' = [inward EXCEPT !.pc = "lock"]
    /\ UNCHANGED <<broker, shared, outward, fifo, net, stale>>

\* Mutant: Get does not wait for the mutex.
GetLock_Skipped ==
    /\ inward.pc = "lock" /\ ~fifo.killed
    /\ inward' = [inward EXCEPT !.pc = "ip"]
    /\ UNCHANGED <<broker, shared, outward, fifo, net, stale>>

GetLock ==
    /\ inward.pc = "lock" /\ ~fifo.killed
    /\ shared.mx = "free"
    /\ shared' = [shared EXCEPT !.mx = "inward"]
    /\ inward' = [inward EXCEPT !.pc = "ip"]
    /\ UNCHANGED <<broker, outward, fifo, net, stale>>

GetIp ==
    /\ inward.pc = "ip" /\ ~fifo.killed
    /\ inward' = [inward EXCEPT !.address.ip = shared.address.ip, !.pc = "port"]
    /\ UNCHANGED <<broker, shared, outward, fifo, net, stale>>

\* Mutant: Get returns with the mutex held.
GetPort_KeepsLock ==
    /\ inward.pc = "port" /\ ~fifo.killed
    /\ inward' = [inward EXCEPT !.address.port = shared.address.port, !.pc = "sndto"]
    /\ UNCHANGED <<broker, shared, outward, fifo, net, stale>>

GetPort ==
    /\ inward.pc = "port" /\ ~fifo.killed
    /\ inward' = [inward EXCEPT !.address.port = shared.address.port, !.pc = "sndto"]
    /\ shared' = [shared EXCEPT !.mx = "free"]
    /\ UNCHANGED <<broker, outward, fifo, net, stale>>

\* Whether the message arrives or the call throws is the same to the program.
sndto ==
    /\ inward.pc = "sndto" /\ ~fifo.killed
    /\ inward' = [inward EXCEPT !.pc = "read"]
    /\ stale' = IF inward.address # shared.address THEN stale + 1 ELSE stale
    /\ UNCHANGED <<broker, shared, outward, fifo, net>>

-----------------------------------------------------------------------------
(* The other ends *)

BrokerSends ==
    /\ broker.up
    /\ net.sent < MaxDatagrams
    /\ net' = [net EXCEPT !.sent = @ + 1,
                          !.buffer = Append(@, <<broker.run, net.sent + 1>>)]
    /\ UNCHANGED <<broker, shared, outward, inward, fifo, stale>>

ReaderCloses ==
    /\ fifo.open /\ fifo.read
    /\ fifo' = [fifo EXCEPT !.read = FALSE]
    /\ UNCHANGED <<broker, shared, outward, inward, net, stale>>

-----------------------------------------------------------------------------
OutLoop == rcvfrom \/ UpdateLock \/ UpdateIp \/ UpdatePort \/ write \/ writeFails

InLoop == read \/ GetLock \/ GetIp \/ GetPort \/ sndto

BridgeNext == OutLoop \/ rcvfromThrows \/ InLoop \/ BrokerSends \/ ReaderCloses

\* The threads run.  Fairness of the mutex: the inward thread, which takes it
\* once for every message, does not keep the outward one from it for ever.
BridgeFairness ==
    /\ WF_<<broker, bridgeVars>>(OutLoop)
    /\ SF_<<broker, bridgeVars>>(UpdateLock)
    /\ WF_<<broker, bridgeVars>>(InLoop)

-----------------------------------------------------------------------------
(* Properties *)

\* A message goes to an address that the broker really had: never the host of
\* one run with the port of another, although Update assigns the two strings
\* one after the other while messages are being sent.
AddressWhole == inward.pc = "sndto" => inward.address.ip = inward.address.port

\* When the address that Update notes changes, at most one message, whose
\* address was looked up before, still goes to the one noted before.  (Of a
\* broker that moves the bridge learns only by its next datagram.)
AtMostOneStale == stale <= 1

\* The bytes of the datagrams ds, one after the other.
Stream(ds) ==
    [k \in 1..Size * Len(ds) |-> <<ds[1 + ((k - 1) \div Size)], 1 + ((k - 1) % Size)>>]

\* The FIFO is a stream without message boundaries: what was written, with
\* what the thread still holds, is the datagrams in the order they were taken,
\* each complete and once, however the kernel cuts the writes.
FifoIsStream == fifo.written \o outward.rest = Stream(net.taken)

\* Every datagram that reaches the socket is taken from it and written, unless
\* the out-path is lost or an error of the socket has ended the thread: sending
\* never locks the outward thread out.
DatagramsComeThrough ==
    \A d \in Datagram :
        net.sent >= d ~> \/ <<d, Size>> \in {fifo.written[i] : i \in 1..Len(fifo.written)}
                         \/ ~fifo.open \/ ~fifo.read \/ outward.pc = "finish"

-----------------------------------------------------------------------------
(* The inductive strengthening that the proofs use *)

\* The mutex is held exactly between the lock and the second string.
MutexHeld ==
    /\ shared.mx = "outward" <=> outward.pc \in {"ip", "port"}
    /\ shared.mx = "inward" <=> inward.pc \in {"ip", "port"}

\* The shared address is torn only while Update is between its assignments;
\* what Get has copied of it is still what it is.
SharedWhole ==
    /\ outward.pc # "port" => shared.address.ip = shared.address.port
    /\ outward.pc = "port" => shared.address.ip = outward.from
    /\ inward.pc = "port" => inward.address.ip = shared.address.ip

\* After a message that went astray the inward thread has looked the address up
\* anew, or will before it sends again.
AstrayOnce ==
    stale = 1 /\ inward.pc = "sndto" =>
        /\ inward.address = shared.address
        /\ outward.pc = "ip" => outward.from = shared.address.ip

\* A datagram is written to its end before the next one is taken.
WrittenToEnd == outward.pc = "rcvfrom" => outward.rest = <<>>

BridgeInv ==
    /\ BridgeTypeOK
    /\ MutexHeld
    /\ SharedWhole
    /\ AddressWhole
    /\ AtMostOneStale
    /\ AstrayOnce
    /\ WrittenToEnd
    /\ FifoIsStream
=============================================================================
