------------------------------ MODULE McuRadio ------------------------------
(***************************************************************************)
(* The radio driver of the microcontroller boards (library SX1276lib) with *)
(* the chip behind it, as the leaf, the older node and the test sketches   *)
(* use it.                                                                 *)
(*                                                                         *)
(* The driver polls: TransmitMessage looks for TxDone every 10 ms until a  *)
(* timeout that it computes from a prediction of the time on air, and its  *)
(* callers put the radio into standby when it returns, finished or not.    *)
(* ReceiveMessage prepares the chip only when it is not "warm".            *)
(*                                                                         *)
(* Of a frame only its length matters, and where in the FIFO it is.  The   *)
(* chip is external: its time on air follows the formula of the data sheet *)
(* that the driver quotes, and only accesses by the driver move its FIFO   *)
(* pointer.  Times on air are in microseconds.                             *)
(***************************************************************************)
EXTENDS Integers

CONSTANTS
    Lengths,    \* of the frames that the programs transmit
    Sizes,      \* of the frames that the chip receives (FifoRxNbBytes)
    Stalls      \* may the chip fail to finish a transmission?

ASSUME McuRadioAssumption ==
    /\ Lengths \subseteq 4..255
    /\ Sizes \subseteq 0..128
    /\ Stalls \in BOOLEAN

VARIABLES
    rx_warm,    \* of the SX1276Radio object: the receiver is set up
    chip,       \* the SX1276
    call,       \* the method in progress, with its local variables
    got,        \* the last frame that was returned
    fate,       \* history: what became of the frames sent so far
    taken       \* history: a frame was returned since the caller last
                \* transmitted or went to standby

mcuVars == <<rx_warm, chip, call, got, fate, taken>>

max_payload_bytes == 128

-----------------------------------------------------------------------------
(* Time on air *)

spreading_factor == 9
coding_rate == 6
bandwidth_hz == 125000
preamble == 8

\* 1 << spreading_factor
Chips == 512

\* Microseconds per symbol.
SymbolTime == (Chips * 1000000) \div bandwidth_hz

CeilDiv(n, d) == (n + d - 1) \div d

\* The formula of the data sheet, in the form in which the driver quotes it.
TimeOnAir(len) ==
    LET groups == CeilDiv(8 * len - 4 * spreading_factor + 28 + 16, 4 * spreading_factor)
        symbols == 8 + groups * coding_rate
    IN  ((4 * preamble + 17) * SymbolTime) \div 4 + symbols * SymbolTime

\* Mutant: the groups of symbols are rounded down.
PredictTimeOnAir_RoundsDown(len) ==
    LET N == (8 * len - 4 * spreading_factor + 28 + 16) \div (4 * spreading_factor)
        symbols == 8 + N * coding_rate
        Tpreamble == ((1000 * preamble + 4250) * Chips) \div bandwidth_hz
        Tpayload == (1000 * symbols * Chips) \div bandwidth_hz
    IN  Tpreamble + Tpayload

\* In milliseconds.  The remainder is taken of the quotient, so that any
\* quotient that is no multiple of the divisor is rounded up, and both parts
\* of the sum are rounded down.
PredictTimeOnAir(len) ==
    LET D == 4 * spreading_factor
        N == (8 * len - D + 28 + 16) \div D
        groups == IF N % D # 0 THEN N + 1 ELSE N
        symbols == 8 + groups * coding_rate
        Tpreamble == ((1000 * preamble + 4250) * Chips) \div bandwidth_hz
        Tpayload == (1000 * symbols * Chips) \div bandwidth_hz
    IN  Tpreamble + Tpayload

Truncated(len) == IF len > max_payload_bytes THEN max_payload_bytes ELSE len

\* How often TransmitMessage waits 10 ms for a frame of length len.
Ticks(len) == 1 + PredictTimeOnAir(len) \div 10

-----------------------------------------------------------------------------
\* FifoAddrPtr (at FifoRxBaseAddr, where the first frame is stored, in the
\* transmit half of the FIFO, or behind bytes that were read), the size of the
\* received frame, the interrupt flags, the state of the transmitter, and what
\* is left to send.
Chip == [ptr : {"base", "transmit", "behind"}, nb : 0..255,
         irq : SUBSET {"TxDone", "RxDone", "RxTimeout"},
         tx : {"off", "sending", "stuck"}, left : Nat]

Call == [pc : {"off", "idle", "tx", "rx"}, ticks : Nat]

\* Where the frame was read from, and whether it was the first one since the
\* caller last transmitted or went to standby.
Got == [received : 0..255, from : {"base", "transmit", "behind"},
        turn : {"none", "first", "later"}]

McuTypeOK ==
    /\ rx_warm \in BOOLEAN
    /\ chip \in Chip
    /\ call \in Call
    /\ got \in Got
    /\ fate \in {"fine", "cut"}
    /\ taken \in BOOLEAN

\* reset_radio
ResetChip == [ptr |-> "base", nb |-> 0, irq |-> {}, tx |-> "off", left |-> 0]

Nothing == [received |-> 0, from |-> "base", turn |-> "none"]

McuInit ==
    /\ rx_warm = FALSE
    /\ chip = ResetChip
    /\ call = [pc |-> "off", ticks |-> 0]
    /\ got = Nothing
    /\ fate = "fine"
    /\ taken = FALSE

\* Writing standby to OpMode stops a transmission.
OpModeStandby(c) == [c EXCEPT !.tx = "off", !.left = 0]

\* What such a write makes of the frames sent so far.
FateAfter(c) == IF c.tx = "sending" THEN "cut" ELSE fate

-----------------------------------------------------------------------------
(* setup() of every program *)

\* Begin, then SetCarrier.  If Begin does not find the chip in LoRa mode the
\* program tries again after a sleep, or never: no step.
Begin ==
    /\ call.pc = "off"
    /\ rx_warm' = FALSE
    /\ chip' = OpModeStandby(chip)
    /\ call' = [call EXCEPT !.pc = "idle"]
    /\ UNCHANGED <<got, fate, taken>>

\* deep_sleep_and_reset: everything starts again.
DeepSleep ==
    /\ call.pc = "idle"
    /\ rx_warm' = FALSE
    /\ chip' = ResetChip
    /\ call' = [pc |-> "off", ticks |-> 0]
    /\ got' = Nothing
    /\ fate' = FateAfter(chip)
    /\ taken' = FALSE

-----------------------------------------------------------------------------
(* Standby and TransmitMessage *)

Standby ==
    /\ call.pc = "idle"
    /\ rx_warm' = FALSE
    /\ chip' = OpModeStandby(chip)
    /\ fate' = FateAfter(chip)
    /\ taken' = FALSE
    /\ UNCHANGED <<call, got>>

\* Mutant: the receiver is taken for warm after a transmission.
TransmitMessage_StaysWarm(len) ==
    /\ call.pc = "idle"
    /\ \E tx \in IF Stalls THEN {"sending", "stuck"} ELSE {"sending"} :
          chip' = [chip EXCEPT !.ptr = "transmit", !.irq = {},
                               !.tx = tx, !.left = TimeOnAir(Truncated(len))]
    /\ call' = [pc |-> "tx", ticks |-> Ticks(Truncated(len))]
    /\ fate' = FateAfter(chip)
    /\ taken' = FALSE
    /\ UNCHANGED <<rx_warm, got>>

\* Standby, the payload written to the upper half of the FIFO, the flags
\* cleared, transmit mode.
TransmitMessage(len) ==
    /\ call.pc = "idle"
    /\ rx_warm' = FALSE
    /\ \E tx \in IF Stalls THEN {"sending", "stuck"} ELSE {"sending"} :
          chip' = [chip EXCEPT !.ptr = "transmit", !.irq = {},
                               !.tx = tx, !.left = TimeOnAir(Truncated(len))]
    /\ call' = [pc |-> "tx", ticks |-> Ticks(Truncated(len))]
    /\ fate' = FateAfter(chip)
    /\ taken' = FALSE
    /\ UNCHANGED got

Returned == [pc |-> "idle", ticks |-> 0]

\* The chip after 10 ms more.
Sending(c) ==
    IF c.tx = "stuck" THEN c
    ELSE IF c.left > 10000 THEN [c EXCEPT !.left = @ - 10000]
    ELSE [c EXCEPT !.left = 0, !.tx = "off", !.irq = @ \cup {"TxDone"}]

\* It returns true, or false: nobody looks.
TransmitDone ==
    /\ call.pc = "tx"
    /\ "TxDone" \in chip.irq
    /\ call' = Returned
    /\ UNCHANGED <<rx_warm, chip, got, fate, taken>>

TransmitTimeout ==
    /\ call.pc = "tx"
    /\ "TxDone" \notin chip.irq
    /\ call.ticks = 0
    /\ call' = Returned
    /\ UNCHANGED <<rx_warm, chip, got, fate, taken>>

\* Mutant: the loop does not count.
TransmitDelay_Endless ==
    /\ call.pc = "tx"
    /\ "TxDone" \notin chip.irq
    /\ call.ticks > 0
    /\ chip' = Sending(chip)
    /\ UNCHANGED <<rx_warm, call, got, fate, taken>>

\* delay(10); the chip goes on sending.
TransmitDelay ==
    /\ call.pc = "tx"
    /\ "TxDone" \notin chip.irq
    /\ call.ticks > 0
    /\ call' = [call EXCEPT !.ticks = @ - 1]
    /\ chip' = Sending(chip)
    /\ UNCHANGED <<rx_warm, got, fate, taken>>

-----------------------------------------------------------------------------
(* ReceiveMessage *)

\* The chip is prepared unless it still is, and put into single receive mode.
ReceiveMessage ==
    /\ call.pc = "idle"
    /\ rx_warm' = TRUE
    /\ chip' = [OpModeStandby(chip) EXCEPT !.ptr = IF rx_warm THEN @ ELSE "base",
                                           !.irq = {}]
    /\ call' = [call EXCEPT !.pc = "rx"]
    /\ fate' = FateAfter(chip)
    /\ UNCHANGED <<got, taken>>

ChipReceives ==
    /\ call.pc = "rx"
    /\ chip.irq = {}
    /\ \E nb \in Sizes : chip' = [chip EXCEPT !.irq = {"RxDone"}, !.nb = nb]
    /\ UNCHANGED <<rx_warm, call, got, fate, taken>>

ChipTimesOut ==
    /\ call.pc = "rx"
    /\ chip.irq = {}
    /\ chip' = [chip EXCEPT !.irq = {"RxTimeout"}]
    /\ UNCHANGED <<rx_warm, call, got, fate, taken>>

ReceiveGivesUp ==
    /\ call.pc = "rx"
    /\ "RxTimeout" \in chip.irq
    /\ call' = Returned
    /\ UNCHANGED <<rx_warm, chip, got, fate, taken>>

\* Mutant: no byte, so that it does not wrap around.
payloadSizeBytes_Int == chip.nb - 1

\* A byte, and one less than the chip says.
payloadSizeBytes == (chip.nb - 1) % 256

ReceiveTooLong ==
    /\ call.pc = "rx"
    /\ "RxDone" \in chip.irq
    /\ payloadSizeBytes > max_payload_bytes
    /\ call' = Returned
    /\ UNCHANGED <<rx_warm, chip, got, fate, taken>>

\* The frame is read byte by byte from where the FIFO pointer is.  One byte
\* less than the chip stored: the pointer is not at the next frame afterwards,
\* whether the chip stores that at FifoRxBaseAddr or behind this one.  (A CRC
\* error makes no difference: its flag is masked and compared with 1.)
ReceiveFrame ==
    /\ call.pc = "rx"
    /\ "RxDone" \in chip.irq
    /\ payloadSizeBytes <= max_payload_bytes
    /\ chip' = [chip EXCEPT !.ptr = IF payloadSizeBytes = 0 THEN @ ELSE "behind"]
    /\ call' = Returned
    /\ got' = [received |-> payloadSizeBytes, from |-> chip.ptr,
               turn |-> IF taken THEN "later" ELSE "first"]
    /\ taken' = TRUE
    /\ UNCHANGED <<rx_warm, fate>>

-----------------------------------------------------------------------------
TransmitPoll == TransmitDone \/ TransmitTimeout \/ TransmitDelay

ReceivePoll == ReceiveGivesUp \/ ReceiveTooLong \/ ReceiveFrame

ChipStops == ChipReceives \/ ChipTimesOut

McuNext ==
    \/ Begin \/ DeepSleep
    \/ Standby
    \/ \E len \in Lengths : TransmitMessage(len)
    \/ TransmitPoll
    \/ ReceiveMessage \/ ChipStops \/ ReceivePoll

McuSpec == McuInit /\ [][McuNext]_mcuVars

\* The program runs, and a single receive ends by the symbol timeout.
McuFairness == WF_mcuVars(TransmitPoll) /\ WF_mcuVars(ReceivePoll) /\ WF_mcuVars(ChipStops)

McuFairSpec == McuSpec /\ McuFairness

-----------------------------------------------------------------------------
(* Properties *)

\* No frame is cut short by what follows TransmitMessage, standby or the next
\* transmission: it neither takes the TxDone of an earlier frame for its own,
\* nor gives up before the frame is out, although for most lengths the
\* prediction is below the time on air and the margin as little as 0.1 ms.
NoFrameCutShort == fate # "cut"

\* The first frame that is received after a transmission or a standby is the
\* one that is returned, however many receives timed out before it.
FirstFrameIntact == got.turn = "first" => got.from = "base"

\* Every call returns, also when the chip never finishes a transmission.
CallsReturn == call.pc \in {"tx", "rx"} ~> call.pc = "idle"
-----------------------------------------------------------------------------
(* The inductive strengthening that the proofs use *)

\* As long as the chip sends, enough ticks are left for the rest of the frame.
OnTheAir ==
    /\ chip.tx = "sending" =>
          /\ call.pc = "tx"
          /\ "TxDone" \notin chip.irq
          /\ chip.left > 0
          /\ chip.left <= 10000 * call.ticks
    /\ call.pc = "tx" /\ chip.tx # "sending" =>
          (chip.tx = "stuck" <=> "TxDone" \notin chip.irq)

\* A warm receiver that has not read anything yet reads from the right place.
Pointer ==
    /\ rx_warm /\ ~taken => chip.ptr = "base"
    /\ call.pc = "rx" => rx_warm

McuInv == McuTypeOK /\ OnTheAir /\ Pointer /\ NoFrameCutShort /\ FirstFrameIntact
=============================================================================
