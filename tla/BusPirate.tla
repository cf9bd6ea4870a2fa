----------------------------- MODULE BusPirate -----------------------------
(***************************************************************************)
(* The Bus Pirate backend of the Linux radio driver: register accesses as  *)
(* commands over a serial line, and the two methods of SX1276Radio that    *)
(* try them again, ReadRegisterHarder and WriteRegisterVerify.             *)
(*                                                                         *)
(* Every command is answered, an access that writes with one byte, one     *)
(* that reads with two.  Nothing ties an answer to its command but its     *)
(* place in the stream.  Callers hold the mutex of the radio, so one call  *)
(* at a time.                                                              *)
(*                                                                         *)
(* The Bus Pirate and the line are external.  The line may turn a byte     *)
(* into another (flip), deliver an answer in two parts (split), deliver it *)
(* after the driver gave up waiting (late), or make read() fail (error).   *)
(* Of the chip there is one register, and whether it is held in reset.     *)
(* The bytes that can flip are the value and the register number of a      *)
(* command and those of an answer; opcode, counts and the bit that tells a *)
(* write from a read arrive as they were sent.                             *)
(***************************************************************************)
EXTENDS Integers, Sequences, FiniteSetsExt

CONSTANTS
    Modes,      \* what the line may do: sets of "flip", "split", "late", "error"
    MaxEarly    \* bound on the reads that come back empty; one that fails
                \* counts as three, as many as make an access give up

ASSUME BusPirateAssumption ==
    /\ Modes \subseteq SUBSET {"flip", "split", "late", "error"}
    /\ MaxEarly \in Nat

VARIABLES
    mode,       \* what this line does
    chip,       \* the register, and the reset line
    wire,       \* bytes that the Bus Pirate has sent
    line,       \* bytes that have arrived and were not read
    call,       \* the method in progress, with its local variables
    returned,   \* what the last method returned
    early       \* empty and failed reads with an answer on its way

bpVars == <<mode, chip, wire, line, call, returned, early>>

\* 1 acknowledges a command.  The command is in the buffer that the answer
\* is read into.
Byte == 0..2
Ack == 1
Opcode == 4

Call ==
    [op : {"none", "verify", "harder", "reset"}, value : Byte, tries : 0..3,
     access : {"none", "write", "read", "assert", "release"},
     issued : BOOLEAN, flipped : BOOLEAN,
     n : 0..2, retry : 0..3, cmd : (Byte \cup {Opcode}) \X Byte]

BpTypeOK ==
    /\ mode \in Modes
    /\ chip \in [reg : Byte, held : BOOLEAN]
    /\ wire \in Seq(Byte)
    /\ line \in Seq(Byte)
    /\ call \in Call
    /\ returned \in [op : {"none", "verify", "harder", "reset"}, ok : BOOLEAN,
                     value : Byte, flipped : BOOLEAN]
    /\ early \in 0..MaxEarly

NoCall ==
    [op |-> "none", value |-> 0, tries |-> 0, access |-> "none",
     issued |-> FALSE, flipped |-> FALSE, n |-> 0, retry |-> 0, cmd |-> <<Opcode, 0>>]

\* After Open: the line is flushed, the radio out of reset.
BpInit ==
    /\ mode \in Modes
    /\ chip = [reg |-> 0, held |-> FALSE]
    /\ wire = <<>> /\ line = <<>>
    /\ call = NoCall
    /\ returned = [op |-> "none", ok |-> FALSE, value |-> 0, flipped |-> FALSE]
    /\ early = 0

-----------------------------------------------------------------------------
(* The methods *)

\* Mutant: only one attempt.
WriteRegisterVerify_Once(value) ==
    /\ call.op = "none"
    /\ call' = [NoCall EXCEPT !.op = "verify", !.access = "write",
                              !.value = value, !.tries = 1]
    /\ UNCHANGED <<mode, chip, wire, line, returned, early>>

WriteRegisterVerify(value) ==
    /\ call.op = "none"
    /\ call' = [NoCall EXCEPT !.op = "verify", !.access = "write",
                              !.value = value, !.tries = 2]
    /\ UNCHANGED <<mode, chip, wire, line, returned, early>>

ReadRegisterHarder ==
    /\ call.op = "none"
    /\ call' = [NoCall EXCEPT !.op = "harder", !.access = "read", !.tries = 3]
    /\ UNCHANGED <<mode, chip, wire, line, returned, early>>

\* bp_power_on
ResetSX1276 ==
    /\ call.op = "none"
    /\ call' = [NoCall EXCEPT !.op = "reset", !.access = "assert", !.tries = 1]
    /\ UNCHANGED <<mode, chip, wire, line, returned, early>>

-----------------------------------------------------------------------------
(* One access *)

\* What the chip makes of it, and what the Bus Pirate answers.  A chip that is
\* held in reset takes nothing and gives zeros.
Performed(access, value) ==
    CASE access = "write" -> [chip EXCEPT !.reg = IF chip.held THEN @ ELSE value]
      [] access = "assert" -> [reg |-> 0, held |-> TRUE]
      [] access = "release" -> [chip EXCEPT !.held = FALSE]
      [] OTHER -> chip

Answer(access) ==
    IF access = "read" THEN <<Ack, IF chip.held THEN 0 ELSE chip.reg>> ELSE <<Ack>>

Garbled(s) == UNION {{[s EXCEPT ![i] = b] : b \in Byte \ {s[i]}} : i \in 1..Len(s)}

\* Mutant: the value is not asked for.
Wanted_Short(access) == 1

\* Bytes that an access reads.
Wanted(access) == IF access = "read" THEN 2 ELSE 1

Issued == [call EXCEPT !.issued = TRUE, !.n = Wanted(call.access),
                       !.retry = 0, !.cmd = <<Opcode, 0>>]

\* The command is written, performed and answered.
Issue ==
    /\ call.op # "none"
    /\ ~call.issued
    /\ chip' = Performed(call.access, call.value)
    /\ wire' = wire \o Answer(call.access)
    /\ call' = Issued
    /\ UNCHANGED <<mode, line, returned, early>>

\* The same with one byte turned into another, once in a call: on the way there
\* the value of a write, or the register number, so that this register stays as
\* it was; on the way back any byte.  (A read of the wrong register is among the
\* answers with another value.)
IssueFlipped ==
    /\ call.op # "none"
    /\ ~call.issued
    /\ "flip" \in mode
    /\ ~call.flipped
    /\ \/ /\ call.access = "write"
          /\ \E b \in (Byte \ {call.value}) \cup {chip.reg} :
                chip' = Performed("write", b)
          /\ wire' = wire \o Answer("write")
       \/ /\ chip' = Performed(call.access, call.value)
          /\ \E s \in Garbled(Answer(call.access)) : wire' = wire \o s
    /\ call' = [Issued EXCEPT !.flipped = TRUE]
    /\ UNCHANGED <<mode, line, returned, early>>

\* The line delivers.
Arrive ==
    /\ wire # <<>>
    /\ IF mode \cap {"split", "late"} # {}
       THEN line' = Append(line, Head(wire)) /\ wire' = Tail(wire)
       ELSE line' = line \o wire /\ wire' = <<>>
    /\ UNCHANGED <<mode, chip, call, returned, early>>

Waiting == call.issued /\ call.n > 0 /\ call.retry < 3

\* bp_serial_readto: read what is there, up to n bytes, always to the start of
\* the buffer.
ReadSome ==
    /\ Waiting
    /\ line # <<>>
    /\ LET er == Min({call.n, Len(line)})
       IN  /\ call' = [call EXCEPT
                !.n = @ - er, !.cmd = <<line[1], IF er = 2 THEN line[2] ELSE @[2]>>]
           /\ line' = SubSeq(line, er + 1, Len(line))
    /\ UNCHANGED <<mode, chip, wire, returned, early>>

\* A tenth of a second without a byte.
ReadNothing ==
    /\ Waiting
    /\ line = <<>>
    /\ "late" \in mode
    /\ early < MaxEarly
    /\ call' = [call EXCEPT !.retry = @ + 1]
    /\ early' = early + 1
    /\ UNCHANGED <<mode, chip, wire, line, returned>>

\* read() fails: no access takes this for an answer.  What is under way stays.
ReadFails ==
    /\ Waiting
    /\ "error" \in mode
    /\ early + 3 <= MaxEarly
    /\ call' = [call EXCEPT !.n = 0, !.cmd = <<Opcode, 0>>]
    /\ early' = early + 3
    /\ UNCHANGED <<mode, chip, wire, line, returned>>

-----------------------------------------------------------------------------
(* After an access.  That fewer bytes came than were asked for shows in no   *)
(* return value, only in the byte that should be the acknowledgement.        *)

Answered == call.issued /\ ~(call.n > 0 /\ call.retry < 3)

Acked == call.cmd[1] = Ack

Return(ok) ==
    /\ call' = NoCall
    /\ returned' = [op |-> call.op, ok |-> ok, flipped |-> call.flipped,
                    value |-> IF call.op = "harder" THEN call.cmd[2] ELSE call.value]

Continue(access) ==
    /\ call' = [call EXCEPT !.access = access, !.issued = FALSE]
    /\ UNCHANGED returned

\* Mutant: the tries are not counted.
TryAgain_Endless(access) ==
    /\ call' = [call EXCEPT !.access = access, !.issued = FALSE]
    /\ UNCHANGED returned

TryAgain(access) ==
    IF call.tries > 1
    THEN /\ call' = [call EXCEPT !.access = access, !.issued = FALSE, !.tries = @ - 1]
         /\ UNCHANGED returned
    ELSE Return(FALSE)

\* Mutant: it is enough that the register can be read.
Checked_Acked == Acked

\* The value that was read back is the one that was written.
Checked == Acked /\ call.cmd[2] = call.value

VerifyAnswered ==
    /\ Answered
    /\ call.op = "verify"
    /\ CASE call.access = "write" /\ Acked -> Continue("read")
         [] call.access = "read" /\ Checked -> Return(TRUE)
         [] OTHER -> TryAgain("write")
    /\ UNCHANGED <<mode, chip, wire, line, early>>

HarderAnswered ==
    /\ Answered
    /\ call.op = "harder"
    /\ IF Acked THEN Return(TRUE) ELSE TryAgain("read")
    /\ UNCHANGED <<mode, chip, wire, line, early>>

\* When the first command seems to have failed the reset is not released.
ResetAnswered ==
    /\ Answered
    /\ call.op = "reset"
    /\ IF Acked /\ call.access = "assert" THEN Continue("release") ELSE Return(Acked)
    /\ UNCHANGED <<mode, chip, wire, line, early>>

-----------------------------------------------------------------------------
Poll == ReadSome \/ ReadNothing \/ ReadFails

CallAnswered == VerifyAnswered \/ HarderAnswered \/ ResetAnswered

BpNext ==
    \/ \E value \in Byte : WriteRegisterVerify(value)
    \/ ReadRegisterHarder
    \/ ResetSX1276
    \/ Issue \/ IssueFlipped
    \/ Arrive \/ Poll
    \/ CallAnswered

BpSpec == BpInit /\ [][BpNext]_bpVars

\* The driver runs, and what was sent arrives.
BpFairness ==
    /\ WF_bpVars(Issue \/ IssueFlipped)
    /\ WF_bpVars(Arrive)
    /\ WF_bpVars(Poll)
    /\ WF_bpVars(CallAnswered)

BpFairSpec == BpSpec /\ BpFairness

-----------------------------------------------------------------------------
(* Properties *)

\* A register that WriteRegisterVerify has verified holds the value, unless
\* the chip is held in reset: neither one flipped byte, nor answers that come in
\* parts, nor answers to earlier commands that are read in place of its own,
\* get a wrong value past the check.  (Together they do: when the value is
\* flipped on its way to the chip and the answer of the read comes in parts,
\* the byte that is compared is a zero of the command.)
VerifiedIsWritten ==
    /\ returned.op = "verify" /\ returned.ok /\ call.op = "none"
    /\ mode = {"flip"} \/ "flip" \notin mode
    => chip.held \/ chip.reg = returned.value

\* WriteRegisterVerify copes with one flipped byte by trying again: it succeeds,
\* and the register holds the value, unless the chip is held in reset.
WriteCopesWithFlip ==
    returned.op = "verify" /\ call.op = "none" /\ mode = {"flip"}
        => chip.held \/ (returned.ok /\ chip.reg = returned.value)

\* What is said of ReadRegisterHarder, "we seem to be able to cope with that by
\* trying again": whatever byte is flipped, it returns the value of the
\* register.  It does not: an acknowledged answer with a flipped value is
\* returned as it is.
ReadCopesWithFlip ==
    returned.op = "harder" /\ call.op = "none" /\ mode = {"flip"}
        => chip.held \/ (returned.ok /\ returned.value = chip.reg)

\* Answers come before the driver gives up on them.
Steady == "late" \notin mode /\ "error" \notin mode

\* As long as no answer is late and no read fails, every call begins in step:
\* nothing of an earlier answer is left to be taken for its own, however often
\* it was tried.
BeginsInStep ==
    Steady /\ call.op = "none" => wire = <<>> /\ line = <<>>

\* Every method returns, also when the line is out of step for good.
MethodsReturn == call.op # "none" ~> call.op = "none"

-----------------------------------------------------------------------------
(* The inductive strengthening that the proofs use *)

\* The accesses that belong to each method.
AccessOK ==
    /\ call.op = "none" => ~call.issued
    /\ call.op = "verify" => call.access \in {"write", "read"}
    /\ call.op = "harder" => call.access = "read"
    /\ call.op # "none" => call.tries > 0

\* Without late answers and errors, what is under way is what is waited for.
InStep ==
    Steady =>
        /\ call.retry = 0
        /\ Len(wire) + Len(line) = IF call.issued THEN call.n ELSE 0

\* The answer of the access in progress is whole, and as the chip gave it.
Unspoilt ==
    IF call.n = 0
    THEN Acked /\ (call.access = "read" => call.cmd[2] = IF chip.held THEN 0 ELSE chip.reg)
    ELSE \/ wire = Answer(call.access) /\ line = <<>>
         \/ wire = <<>> /\ line = Answer(call.access)

\* The write of WriteRegisterVerify has been performed.
WritePerformed == call.op = "verify" /\ (call.access = "read" \/ call.issued)

AsWanted == chip.held \/ chip.reg = call.value

\* The register has the value, unless the flip was on the way to it: then no
\* other spoils the answer that shows it.
Written ==
    WritePerformed =>
        /\ "flip" \notin mode => AsWanted
        /\ mode = {"flip"} =>
             \/ AsWanted
             \/ call.flipped /\ (call.access = "read" /\ call.issued => Unspoilt)

\* The first attempt of this call is over.
Again == call.tries < IF call.op = "verify" THEN 2 ELSE 3

\* The attempt after a flip, and every attempt without one, succeeds.
OneFlip ==
    mode = {"flip"} /\ (call.op = "harder" \/ (call.op = "verify" /\ ~chip.held)) =>
        /\ call.op = "harder" => call.tries > 1
        /\ Again => call.flipped
        /\ ~call.flipped \/ Again =>
              /\ call.issued => Unspoilt
              /\ WritePerformed => AsWanted

\* One flip makes neither method fail.
FlipFailsNone ==
    returned.op \in {"verify", "harder"} /\ call.op = "none" /\ mode = {"flip"}
        => returned.ok \/ chip.held

BpInv ==
    /\ BpTypeOK
    /\ AccessOK
    /\ InStep
    /\ Written
    /\ OneFlip
    /\ VerifiedIsWritten
    /\ FlipFailsNone
=============================================================================
