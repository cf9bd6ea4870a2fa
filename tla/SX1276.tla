------------------------------- MODULE SX1276 -------------------------------
(***************************************************************************)
(* The Linux radio driver (class SX1276Radio) as the bridge uses it: single*)
(* receive mode, one carrier.                                               *)
(*                                                                          *)
(* The object is reduced to its sticky fault flag, and the chip behind it   *)
(* to its carrier and to its RxDone flag, with the kind of the frame that   *)
(* set it: a hardware reset leaves the chip on its default carrier, on which*)
(* no node of the network is.  A method that talks to the chip over SPI has *)
(* several outcomes; the operator is the set of all of them.                *)
(***************************************************************************)
EXTENDS Naturals

CONSTANTS
    Flaky,    \* may accesses over SPI fail?
    Hangs     \* may the chip neither receive nor time out in a receive?

ASSUME SX1276Assumption == Flaky \in BOOLEAN /\ Hangs \in BOOLEAN

\* What a frame on the air may be.
Kind == {"hello", "data", "junk"}

Radio == [fault : BOOLEAN, carrier : {"default", "home"}, rxdone : Kind \cup {"none"}]

\* Did all of a group of register accesses succeed?
Spi == IF Flaky THEN BOOLEAN ELSE {TRUE}

\* ReadRegisterHarder and WriteRegisterVerify: the retries are spent, and all
\* that is left of the failure is the flag.
Access(r, ok) == [r EXCEPT !.fault = @ \/ ~ok]

\* The constructor.  Nothing is known about the carrier of a running chip.
SX1276Radio == [fault : {~ok : ok \in Spi}, carrier : {"default", "home"},
                rxdone : Kind \cup {"none"}]

ResetSX1276(r) == [r EXCEPT !.carrier = "default", !.rxdone = "none"]

\* IrqFlags are cleared by writing ones, once and without verification: the
\* write may be lost, and nobody notices.
Clear(r) == {[r EXCEPT !.rxdone = "none"]} \cup (IF Flaky THEN {r} ELSE {})

\* Three register writes.  If one of them cannot be verified the carrier may
\* or may not have been changed.
ChangeCarrier(r) ==
    {[r EXCEPT !.carrier = "home"]}
    \cup [fault : {~ok : ok \in Spi \ {TRUE}}, carrier : {r.carrier, "home"},
          rxdone : {r.rxdone}]

\* Begins by clearing the flag, whoever set it.
ApplyDefaultLoraConfiguration(r) ==
    {Access([r EXCEPT !.fault = FALSE], ok) : ok \in Spi}

\* The radio after an attempt to send a frame.  A frame of 128 bytes or more
\* (long) wraps the FIFO pointer, which is taken for a failed write, before
\* any flag is cleared.  With the fault flag already set the chip is still put
\* into transmit mode before the method returns false.  What it returns is
\* left out, since the bridge only prints and counts it; true says that TxDone
\* stands, and where the clear was lost that may be an earlier frame's.
SendSimpleMessage(r, long) ==
    IF long THEN {Access(r, FALSE)}
    ELSE UNION {{Access(q, ok) : ok \in Spi} : q \in Clear(r)}

\* What waiting for a frame can come to: "error" (false was returned),
\* "timeout" (the symbol timeout of the chip), "nothing" (the method's own
\* timeout, which is told by no flag: the caller's is left as it was), "frame"
\* (rxdone says of which kind) or, where the clear was lost and RxDone still
\* stands, "again": the frame before is read once more from the FIFO.  Reading
\* the signal strength after a timeout may set the fault flag without returning
\* an error.  The test for a CRC error compares a masked bit 5 with 1 and never
\* holds: a damaged frame is a frame, of kind "junk".
Waited(q) ==
    IF q.fault THEN {<<"error", q>>}
    ELSE {<<"error", Access(q, ok)>> : ok \in Spi \ {TRUE}}
         \cup IF q.rxdone # "none" THEN {<<"again", q>>}
              ELSE {<<"frame", [q EXCEPT !.rxdone = kind]>> : kind \in Kind}
                   \cup {<<"timeout", Access(q, ok)>> : ok \in Spi}
                   \cup {<<"nothing", Access(q, ok)>> : ok \in IF Hangs THEN Spi ELSE {}}

ReceiveSimpleMessage(r) == UNION {Waited(q) : q \in Clear(r)}
=============================================================================
