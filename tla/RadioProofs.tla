---------------------------- MODULE RadioProofs ----------------------------
(***************************************************************************)
(* Theorems about the two programs that drive an SX1276: the gateway's     *)
(* bridge with its Linux driver (module RadioBridge), for every width of   *)
(* the counters and every bound, and the driver of the microcontroller     *)
(* boards (module McuRadio), for every set of lengths and sizes.           *)
(***************************************************************************)
EXTENDS RadioBridge, McuRadio, TLAPS

-----------------------------------------------------------------------------
(* The driver *)

\* An access to the chip, whether it succeeds or not, yields a radio and does
\* not touch its flags.
LEMMA AccessType ==
    ASSUME NEW r \in Radio, NEW ok \in BOOLEAN
    PROVE  Access(r, ok) \in Radio /\ Access(r, ok).rxdone = r.rxdone
BY DEF Access, Radio

\* What an SPI bus may do is succeed or fail.
LEMMA SpiType == Spi \subseteq BOOLEAN
BY SX1276Assumption DEF Spi

\* Construction yields a radio too.
LEMMA ConstructorType == SX1276Radio \subseteq Radio
BY SpiType DEF SX1276Radio, Radio

\* Clearing the flags clears them, or leaves them as they were.
LEMMA ClearFacts ==
    ASSUME NEW r \in Radio, NEW q \in Clear(r)
    PROVE  q \in Radio /\ q.rxdone \in {"none", r.rxdone}
<1>1. q = [r EXCEPT !.rxdone = "none"] \/ q = r
  BY DEF Clear
<1>2. CASE q = r
  BY <1>2
<1>3. CASE q = [r EXCEPT !.rxdone = "none"]
  BY <1>3 DEF Radio
<1>. QED  BY <1>1, <1>2, <1>3

\* SendSimpleMessage never sets RxDone, whatever its outcome.
LEMMA SendFacts ==
    ASSUME NEW r \in Radio, NEW long \in BOOLEAN,
           NEW s \in SendSimpleMessage(r, long)
    PROVE  s \in Radio /\ s.rxdone \in {"none", r.rxdone}
<1>1. CASE long
  <2>1. s = Access(r, FALSE)
    BY <1>1, Zenon DEF SendSimpleMessage
  <2>. QED  BY <2>1, AccessType
<1>2. CASE ~long
  <2>1. PICK q \in Clear(r) : s \in {Access(q, ok) : ok \in Spi}
    BY <1>2, Zenon DEF SendSimpleMessage
  <2>3. PICK ok \in Spi : s = Access(q, ok)
    BY <2>1
  <2>2. q \in Radio /\ q.rxdone \in {"none", r.rxdone} /\ ok \in BOOLEAN
    BY ClearFacts, SpiType
  <2>. QED  BY <2>2, <2>3, AccessType
<1>. QED  BY <1>1, <1>2

\* A receive sets RxDone only for a frame, and reads a frame again only when
\* RxDone stood before.
LEMMA ReceiveFacts ==
    ASSUME NEW r \in Radio, NEW x \in ReceiveSimpleMessage(r)
    PROVE  /\ x[2] \in Radio
           /\ x[1] # "frame" => x[2].rxdone \in {"none", r.rxdone}
           /\ x[1] = "again" => x[2].rxdone = r.rxdone
<1>1. PICK q \in Clear(r) : x \in Waited(q)
  BY Zenon DEF ReceiveSimpleMessage
<1>2. q \in Radio /\ q.rxdone \in {"none", r.rxdone}
  BY ClearFacts
<1>3. \/ x = <<"error", q>>
      \/ \E ok \in Spi : x = <<"error", Access(q, ok)>>
      \/ x = <<"again", q>> /\ q.rxdone # "none"
      \/ \E kind \in Kind : x = <<"frame", [q EXCEPT !.rxdone = kind]>>
      \/ \E ok \in Spi : x = <<"timeout", Access(q, ok)>>
      \/ \E ok \in Spi : x = <<"nothing", Access(q, ok)>>
  BY <1>1 DEF Waited
<1>4. ASSUME NEW ok \in Spi
      PROVE  Access(q, ok) \in Radio /\ Access(q, ok).rxdone = q.rxdone
  BY <1>2, <1>4, SpiType, AccessType
<1>5. ASSUME NEW kind \in Kind
      PROVE  [q EXCEPT !.rxdone = kind] \in Radio
  BY <1>2 DEF Radio
<1>. QED  BY <1>2, <1>3, <1>4, <1>5

\* A restart ends with no flag standing, whatever step of it fails.
LEMMA RestartedFacts ==
    ASSUME NEW r \in Radio, NEW s \in Restarted(r)
    PROVE  s \in Radio /\ s.rxdone = "none"
<1> DEFINE z == ResetSX1276(r)
<1>1. z \in Radio /\ z.rxdone = "none"
  BY DEF ResetSX1276, Radio
<1>2. PICK q \in ChangeCarrier(z) : s \in ApplyDefaultLoraConfiguration(q)
  BY Zenon DEF Restarted
<1> HIDE DEF z
<1>3. q \in Radio /\ q.rxdone = "none"
  BY <1>1, <1>2, SpiType DEF ChangeCarrier, Radio
<1>4. [q EXCEPT !.fault = FALSE] \in Radio /\ [q EXCEPT !.fault = FALSE].rxdone = "none"
  BY <1>3 DEF Radio
<1>5. PICK ok \in Spi : s = Access([q EXCEPT !.fault = FALSE], ok)
  BY <1>2 DEF ApplyDefaultLoraConfiguration
<1>. QED  BY <1>4, <1>5, AccessType, SpiType

-----------------------------------------------------------------------------
(* Counters *)

\* A counter that wraps stays a byte.
LEMMA ByteMod ==
    ASSUME NEW n \in Nat
    PROVE  n % Radix \in Byte
BY RadioBridgeAssumption DEF Byte

\* One more on a counter byte is one more, or 0 after the last.
LEMMA ByteSucc ==
    ASSUME NEW n \in Byte
    PROVE  (n + 1) % Radix = IF n = Radix - 1 THEN 0 ELSE n + 1
<1>1. Radix \in Nat /\ Radix > 1 /\ n \in 0..Radix - 1
  BY RadioBridgeAssumption DEF Byte
<1>2. CASE n = Radix - 1
  BY <1>1, <1>2
<1>3. CASE n # Radix - 1
  BY <1>1, <1>3
<1>. QED  BY <1>2, <1>3

\* The distance between two counters, around the wrap.
LEMMA Distance ==
    ASSUME NEW r \in Nat, r > 1, NEW c \in 0..r - 1, NEW p \in 0..r - 1,
           NEW g \in Nat, g < r, p = c + 1 + g \/ p = (c + 1 + g) - r
    PROVE  LET e == IF c = r - 1 THEN 0 ELSE c + 1
           IN  (IF p = e THEN 0 ELSE IF p - e < 1 THEN p - e + r ELSE p - e) = g
<1>1. CASE c = r - 1
  BY <1>1
<1>2. CASE c # r - 1
  BY <1>2
<1>. QED  BY <1>1, <1>2

\* A byte is enough to tell how many frames are missing, for any gap of fewer
\* frames than a byte has values.
LEMMA SkippedExact ==
    ASSUME TypeOK, Numbering, count.heard = "this"
    PROVE  Skipped(manager, peer.next) = peer.gap
<1>1. /\ Radix \in Nat /\ Radix > 1
      /\ manager.rolling_counter_rx \in 0..Radix - 1
      /\ peer.next \in 0..Radix - 1
      /\ peer.gap \in Nat /\ peer.gap < Radix
  BY RadioBridgeAssumption DEF TypeOK, Manager, Byte, Numbering
<1> DEFINE c == manager.rolling_counter_rx
           e == IF c = Radix - 1 THEN 0 ELSE c + 1
           p == peer.next
           g == peer.gap
<1>2. p = c + 1 + g \/ p = (c + 1 + g) - Radix
  <2> DEFINE n == manager.rolling_counter_rx + 1 + peer.gap
  <2>1. peer.next \in {n, n - Radix}
    BY Zenon DEF Numbering
  <2>. QED  BY <2>1, Zenon
<1>3. manager.have_rx
  <2>1. count.heard # "none"
    OBVIOUS
  <2>. QED  BY <2>1, Zenon DEF Numbering
<1>4. Skipped(manager, p) =
         (IF p = e THEN 0 ELSE IF p - e < 1 THEN p - e + Radix ELSE p - e)
  BY <1>3, Zenon DEF Skipped
<1>5. (IF p = e THEN 0 ELSE IF p - e < 1 THEN p - e + Radix ELSE p - e) = g
  <2> HIDE DEF c, p, g
  <2>1. /\ Radix \in Nat /\ Radix > 1 /\ c \in 0..Radix - 1 /\ p \in 0..Radix - 1
        /\ g \in Nat /\ g < Radix
    BY <1>1, Zenon DEF c, p, g
  <2>. QED  BY ONLY <1>2, <2>1, Distance
<1> HIDE DEF e
<1>. QED  BY <1>4, <1>5

\* Whatever two counters are compared, less than a round is skipped.
LEMMA SkippedBound ==
    ASSUME NEW m \in Manager, NEW p \in Byte
    PROVE  /\ Skipped(m, p) \in 0..Radix - 1
           /\ ~m.have_rx => Skipped(m, p) = 0
<1> DEFINE c == m.rolling_counter_rx
           e == IF c = Radix - 1 THEN 0 ELSE c + 1
           d == IF p = e THEN 0 ELSE IF p - e < 1 THEN p - e + Radix ELSE p - e
<1>1. Radix \in Nat /\ Radix > 1 /\ c \in 0..Radix - 1 /\ p \in 0..Radix - 1
  BY RadioBridgeAssumption DEF Manager, Byte
<1>2. d \in 0..Radix - 1 /\ 0 \in 0..Radix - 1
  <2> HIDE DEF c
  <2>. QED  BY <1>1
<1>3. CASE m.have_rx
  <2>1. Skipped(m, p) = d
    BY <1>3, Zenon DEF Skipped
  <2>. QED  BY <1>2, <1>3, <2>1, Zenon
<1>4. CASE ~m.have_rx
  <2>1. Skipped(m, p) = 0
    BY <1>4, Zenon DEF Skipped
  <2>. QED  BY <1>2, <2>1, Zenon
<1>. QED  BY <1>3, <1>4

-----------------------------------------------------------------------------
(* The invariant *)

\* The manager starts with counters in range.
LEMMA ConstructedType == RadioManager \in Manager
BY RadioBridgeAssumption DEF RadioManager, Manager, Byte

\* A bridge that has not started has counted nothing.
LEMMA InitInv == Init => IndInv
<1> SUFFICES ASSUME Init PROVE IndInv
  OBVIOUS
<1>1. TypeOK
  <2>1. /\ radio \in Radio /\ manager \in Manager
        /\ inward = "down" /\ timeout = FALSE
        /\ broker = [up |-> TRUE, refused |-> FALSE]
    BY ConstructorType, ConstructedType DEF Init
  <2>2. outward \in [pc : {"udp", "note", "want", "ended"}, long : BOOLEAN, mode : Modes]
    BY DEF Init
  <2>3. peer \in [next : Byte, gap : 0..MaxLost]
    BY RadioBridgeAssumption DEF Init, Byte
  <2>4. count \in [read : 0..MaxDatagrams, restarts : 0..MaxRestarts,
                   heard : {"none", "this", "earlier"}, lost : Nat, odd : Nat]
    BY RadioBridgeAssumption DEF Init
  <2>. QED  BY <2>1, <2>2, <2>3, <2>4 DEF TypeOK
<1>2. Numbering
  <2>1. peer.gap < Radix
    BY RadioBridgeAssumption DEF Init
  <2>2. manager.have_rx = FALSE
    BY DEF Init, RadioManager
  <2>3. count.heard = "none"
    BY DEF Init
  <2>. QED  BY <2>1, <2>2, <2>3 DEF Numbering
<1>3. Standing
  BY DEF Init, Standing
<1>4. DroppedEstimate
  BY RadioBridgeAssumption DEF Init, RadioManager, DroppedEstimate
<1>. QED  BY <1>1, <1>2, <1>3, <1>4 DEF IndInv

\* Nothing but the threads' places, the broker and the radio changes, and no
\* frame that counts is newly received.
LEMMA StatisticsKept ==
    ASSUME IndInv, TypeOK',
           UNCHANGED <<manager, peer, count>>,
           \/ radio'.rxdone \in {"none", "junk"}
           \/ radio'.rxdone = radio.rxdone /\ inward # "down"
           \/ inward' = "down"
    PROVE  IndInv'
<1>1. Numbering'
  BY Zenon DEF IndInv, Numbering
<1>2. DroppedEstimate'
  BY Zenon DEF IndInv, DroppedEstimate
<1>3. Standing'
  BY DEF IndInv, Standing
<1>. QED  BY <1>1, <1>2, <1>3 DEF IndInv

\* The start of the program leaves no flag standing.
LEMMA StartInv ==
    ASSUME IndInv, Start
    PROVE  IndInv'
<1>1. TypeOK
  BY DEF IndInv
<1>2. PICK r \in Restarted(radio) :
        IF r.fault
        THEN radio' = r /\ inward' = inward
        ELSE radio' \in HelloSent(r) /\ inward' = "want"
  BY Zenon DEF Start
<1>3. r \in Radio /\ r.rxdone = "none"
  BY <1>1, <1>2, RestartedFacts DEF TypeOK
<1>4. UNCHANGED <<timeout, outward, manager, peer, count, broker>>
  BY Zenon DEF Start
<1>5. radio' \in Radio /\ radio'.rxdone = "none" /\ inward' \in {inward, "want"}
  <2>1. CASE r.fault
    BY <1>2, <1>3, <2>1, Zenon
  <2>2. CASE ~r.fault
    <3>1. radio' \in SendSimpleMessage(r, FALSE) /\ inward' = "want"
      BY <1>2, <2>2, Zenon DEF HelloSent
    <3>. QED  BY <1>3, <3>1, SendFacts
  <2>. QED  BY <2>1, <2>2
<1>6. TypeOK'
  BY <1>1, <1>4, <1>5 DEF TypeOK
<1>. QED  BY <1>4, <1>5, <1>6, StatisticsKept

\* The outward thread.
LEMMA ReadDatagramInv ==
    ASSUME IndInv, ReadDatagram
    PROVE  IndInv'
<1>1. TypeOK
  BY DEF IndInv
<1>2. /\ count.read < MaxDatagrams
      /\ count' = [count EXCEPT !.read = @ + 1]
      /\ UNCHANGED <<radio, inward, timeout, manager, peer, broker>>
  BY Zenon DEF ReadDatagram
<1>3. outward' \in [pc : {"udp", "note", "want", "ended"}, long : BOOLEAN, mode : Modes]
  <2>1. PICK long \in BOOLEAN : outward' = [outward EXCEPT !.pc = "note", !.long = long]
    BY DEF ReadDatagram
  <2>. QED  BY <1>1, <2>1 DEF TypeOK
<1>4. TypeOK'
  <2>1. count.read + 1 \in 0..MaxDatagrams
    BY <1>1, <1>2, RadioBridgeAssumption DEF TypeOK
  <2>. QED  BY <1>1, <1>2, <1>3, <2>1 DEF TypeOK
<1>5. /\ count'.heard = count.heard
      /\ count'.lost = count.lost
      /\ count'.odd = count.odd
  BY <1>1, <1>2 DEF TypeOK
<1>6. Numbering' /\ Standing' /\ DroppedEstimate'
  BY <1>2, <1>5, Zenon DEF IndInv, Numbering, Standing, DroppedEstimate
<1>. QED  BY <1>4, <1>6 DEF IndInv

\* Noting the sender does not touch the counters.
LEMMA NoteSenderInv ==
    ASSUME IndInv, NoteSender
    PROVE  IndInv'
<1>1. TypeOK
  BY DEF IndInv
<1>2. /\ outward' = [outward EXCEPT !.pc = "want"]
      /\ manager' = [manager EXCEPT !.have_port = TRUE]
      /\ UNCHANGED <<radio, inward, timeout, peer, count, broker>>
  BY DEF NoteSender, SetPort
<1>3. /\ manager' \in Manager
      /\ manager'.rolling_counter_rx = manager.rolling_counter_rx
      /\ manager'.have_rx = manager.have_rx
      /\ manager'.dropped = manager.dropped
  BY <1>1, <1>2, Zenon DEF TypeOK, Manager
<1>4. TypeOK'
  BY <1>1, <1>2, <1>3 DEF TypeOK
<1>5. Numbering' /\ Standing' /\ DroppedEstimate'
  BY <1>2, <1>3, Zenon DEF IndInv, Numbering, Standing, DroppedEstimate
<1>. QED  BY <1>4, <1>5 DEF IndInv

\* A transmission may leave RxDone standing, and no more.
LEMMA TransmitInv ==
    ASSUME IndInv, Transmit
    PROVE  IndInv'
<1>1. TypeOK
  BY DEF IndInv
<1>2. /\ outward' = [outward EXCEPT !.pc = "udp"]
      /\ radio' \in SendSimpleMessage(radio, outward.long)
      /\ UNCHANGED <<inward, timeout, manager, peer, count, broker>>
  BY Zenon DEF Transmit
<1>3. radio' \in Radio /\ radio'.rxdone \in {"none", radio.rxdone}
  <2>1. radio \in Radio /\ outward.long \in BOOLEAN
    BY <1>1 DEF TypeOK
  <2>. QED  BY <1>2, <2>1, SendFacts
<1>4. TypeOK'
  BY <1>1, <1>2, <1>3 DEF TypeOK
<1>5. Numbering' /\ DroppedEstimate'
  BY <1>2, Zenon DEF IndInv, Numbering, DroppedEstimate
<1>6. Standing'
  BY <1>2, <1>3 DEF IndInv, Standing
<1>. QED  BY <1>4, <1>5, <1>6 DEF IndInv

\* The inward thread, where it hears no frame of the peer.
LEMMA ReceiveNoFrameInv ==
    ASSUME IndInv,
           ReceiveError \/ ReceiveTimeout \/ ReceiveNothing \/ ReceiveJunk
    PROVE  IndInv'
<1>1. TypeOK
  BY DEF IndInv
<1>2. PICK x \in ReceiveSimpleMessage(radio) :
        /\ radio' = x[2]
        /\ x[1] # "frame" \/ x[2].rxdone = "junk"
  BY Zenon DEF ReceiveError, ReceiveTimeout, ReceiveNothing, ReceiveJunk, Hears, HearsAgain
<1>3. /\ radio' \in Radio
      /\ radio'.rxdone \in {"none", "junk", radio.rxdone}
  BY <1>1, <1>2, ReceiveFacts DEF TypeOK
<1>4. /\ UNCHANGED <<outward, manager, peer, count, broker>>
      /\ inward = "rx"
      /\ inward' \in {"want", "restart"}
      /\ timeout' \in BOOLEAN
  BY <1>1 DEF TypeOK, ReceiveError, ReceiveTimeout, ReceiveNothing, ReceiveJunk,
              Hears, HearsAgain
<1>5. TypeOK'
  BY <1>1, <1>3, <1>4 DEF TypeOK
<1>. QED  BY <1>3, <1>4, <1>5, StatisticsKept

\* The program crashes: everything it counted begins again.
LEMMA ReceiveCrashInv ==
    ASSUME IndInv, ReceiveCrash
    PROVE  IndInv'
<1>1. TypeOK
  BY DEF IndInv
<1>2. /\ inward' = "down"
      /\ outward' = [outward EXCEPT !.pc = "udp", !.long = FALSE]
      /\ manager' = RadioManager
      /\ count' = [count EXCEPT !.heard = "none", !.lost = 0, !.odd = 0]
      /\ broker' = [broker EXCEPT !.refused = FALSE]
      /\ UNCHANGED <<timeout, peer>>
  BY Zenon DEF ReceiveCrash
<1>3. radio' \in Radio
  BY ConstructorType DEF ReceiveCrash
<1>4. TypeOK'
  BY <1>1, <1>2, <1>3, ConstructedType DEF TypeOK
<1>5. /\ count'.heard = "none" /\ count'.lost = 0 /\ count'.odd = 0
      /\ manager'.have_rx = FALSE
      /\ manager'.dropped = 0
  BY <1>1, <1>2 DEF TypeOK, RadioManager
<1>6. Numbering'
  <2>1. peer'.gap < Radix
    BY <1>2 DEF IndInv, Numbering
  <2>2. count'.heard # "this"
    BY <1>5
  <2>. QED  BY <1>5, <2>1, <2>2, Zenon DEF Numbering
<1>7. Standing'
  BY <1>2 DEF Standing
<1>8. DroppedEstimate'
  BY <1>5, RadioBridgeAssumption DEF DroppedEstimate
<1>. QED  BY <1>4, <1>6, <1>7, <1>8 DEF IndInv

\* A HELLO: the numbering begins again, at both ends.
LEMMA ReceiveHelloInv ==
    ASSUME IndInv, ReceiveHello
    PROVE  IndInv'
<1>1. TypeOK
  BY DEF IndInv
<1>2. PICK h \in 0..Hellos - 1 :
        manager' = [manager EXCEPT !.rolling_counter_rx = h % Radix, !.have_rx = FALSE]
  BY Zenon DEF ReceiveHello
<1>3. /\ count.restarts < MaxRestarts
      /\ peer' = [next |-> Hellos % Radix, gap |-> 0]
      /\ count' = [count EXCEPT !.restarts = @ + 1, !.heard = "none"]
      /\ timeout' = FALSE
      /\ UNCHANGED <<inward, outward, broker>>
  BY Zenon DEF ReceiveHello
<1>4. h % Radix \in Byte /\ Hellos % Radix \in Byte
  BY ByteMod, RadioBridgeAssumption
<1>5. /\ manager' \in Manager
      /\ manager'.have_rx = FALSE
      /\ manager'.dropped = manager.dropped
  BY <1>1, <1>2, <1>4, Zenon DEF TypeOK, Manager
<1>6. /\ count'.heard = "none"
      /\ count'.lost = count.lost
      /\ count'.odd = count.odd
  BY <1>1, <1>3 DEF TypeOK
<1>7. radio' \in Radio /\ radio'.rxdone = "hello"
  <2>1. PICK x \in ReceiveSimpleMessage(radio) : radio' = x[2] /\ x[2].rxdone = "hello"
    BY Zenon DEF ReceiveHello, Hears
  <2>. QED  BY <1>1, <2>1, ReceiveFacts DEF TypeOK
<1>8. TypeOK'
  <2>1. peer' \in [next : Byte, gap : 0..MaxLost]
    BY <1>3, <1>4, RadioBridgeAssumption
  <2>2. count.restarts + 1 \in 0..MaxRestarts
    BY <1>1, <1>3, RadioBridgeAssumption DEF TypeOK
  <2>. QED  BY <1>1, <1>3, <1>5, <1>7, <2>1, <2>2 DEF TypeOK
<1>9. Numbering'
  <2>1. peer'.gap < Radix
    BY <1>3, RadioBridgeAssumption
  <2>2. count'.heard # "this"
    BY <1>6
  <2>. QED  BY <1>5, <1>6, <2>1, <2>2, Zenon DEF Numbering
<1>10. Standing'
  BY <1>6, <1>7 DEF Standing
<1>11. DroppedEstimate'
  BY <1>5, <1>6, Zenon DEF IndInv, DroppedEstimate
<1>. QED  BY <1>8, <1>9, <1>10, <1>11 DEF IndInv

\* The same HELLO read again changes nothing.
LEMMA ReceiveHelloAgainInv ==
    ASSUME IndInv, ReceiveHelloAgain
    PROVE  IndInv'
<1>1. TypeOK
  BY DEF IndInv
<1>2. /\ manager' = [manager EXCEPT !.have_rx = FALSE]
      /\ timeout' = FALSE
      /\ UNCHANGED <<inward, outward, peer, count, broker>>
      /\ inward = "rx"
  BY Zenon DEF ReceiveHelloAgain, HearsAgain
<1>3. radio' \in Radio /\ radio'.rxdone = "hello" /\ radio.rxdone = "hello"
  <2>1. PICK x \in ReceiveSimpleMessage(radio) :
          x[1] = "again" /\ x[2].rxdone \in {"hello"} /\ radio' = x[2]
    BY Zenon DEF ReceiveHelloAgain, HearsAgain
  <2>. QED  BY <1>1, <2>1, ReceiveFacts DEF TypeOK
<1>4. count.heard = "none"
  BY <1>2, <1>3 DEF IndInv, Standing
<1>5. /\ manager' \in Manager
      /\ manager'.have_rx = FALSE
      /\ manager'.dropped = manager.dropped
  BY <1>1, <1>2, Zenon DEF TypeOK, Manager
<1>6. TypeOK'
  BY <1>1, <1>2, <1>3, <1>5 DEF TypeOK
<1>7. Numbering'
  <2>1. peer'.gap < Radix
    BY <1>2 DEF IndInv, Numbering
  <2>2. count'.heard = "none" /\ count'.heard # "this"
    BY <1>2, <1>4
  <2>. QED  BY <1>5, <2>1, <2>2, Zenon DEF Numbering
<1>8. Standing'
  BY <1>2, <1>3, <1>4 DEF Standing
<1>9. DroppedEstimate'
  BY <1>2, <1>5, Zenon DEF IndInv, DroppedEstimate
<1>. QED  BY <1>6, <1>7, <1>8, <1>9 DEF IndInv

\* What the estimate gains from a frame that is counted with k skipped frames: it
\* stays between its bounds if they were lost, or if the frame is odd.
LEMMA EstimateStep ==
    ASSUME NEW d \in Nat, NEW l \in Nat, NEW o \in Nat, NEW k \in 0..Radix - 1,
           l <= d, d <= l + (Radix - 1) * o
    PROVE  /\ l + k <= d + k /\ d + k <= l + k + (Radix - 1) * o
           /\ l <= d + k /\ d + k <= l + (Radix - 1) * (o + 1)
<1> DEFINE a == (Radix - 1) * o
           b == (Radix - 1) * (o + 1)
<1>1. Radix \in Nat /\ Radix > 1
  BY RadioBridgeAssumption
<1>2. a \in Nat /\ b \in Nat /\ b = a + (Radix - 1)
  BY <1>1
<1> HIDE DEF a, b
<1>3. d <= l + a
  BY DEF a
<1>4. l + k <= d + k /\ d + k <= l + k + a /\ l <= d + k /\ d + k <= l + b
  BY <1>1, <1>2, <1>3
<1>. QED  BY <1>4 DEF a, b

\* A data frame: what the counter says was skipped is what was lost, or the
\* frame is odd.
LEMMA ReceiveDataInv ==
    ASSUME IndInv, ReceiveData
    PROVE  IndInv'
<1>1. TypeOK /\ Numbering /\ DroppedEstimate
  BY DEF IndInv
<1> DEFINE k == Skipped(manager, peer.next)
           l == IF count.heard = "this" THEN count.lost + peer.gap ELSE count.lost
           o == IF count.heard = "earlier" THEN count.odd + 1 ELSE count.odd
<1>2. /\ manager' = [manager EXCEPT !.dropped = @ + k,
                                    !.have_rx = TRUE,
                                    !.rolling_counter_rx = peer.next]
      /\ peer' = [next |-> (peer.next + 1) % Radix, gap |-> 0]
      /\ count' = [count EXCEPT !.heard = "this", !.lost = l, !.odd = o]
      /\ inward' = "deliver"
      /\ timeout' = FALSE
      /\ UNCHANGED <<outward, broker>>
  BY Zenon DEF ReceiveData, Counted
<1>3. /\ peer.gap \in Nat /\ peer.next \in Byte /\ (peer.next + 1) % Radix \in Byte
      /\ manager \in Manager /\ manager.dropped \in Nat
      /\ count.lost \in Nat /\ count.odd \in Nat
      /\ count.heard \in {"none", "this", "earlier"}
  <2>1. /\ peer.next \in Byte /\ peer.gap \in Nat /\ manager \in Manager
        /\ count.lost \in Nat /\ count.odd \in Nat
        /\ count.heard \in {"none", "this", "earlier"}
    BY <1>1 DEF TypeOK
  <2>2. peer.next + 1 \in Nat
    BY <2>1, RadioBridgeAssumption DEF Byte
  <2>3. manager.dropped \in Nat
    BY <2>1 DEF Manager
  <2>. QED  BY <2>1, <2>2, <2>3, ByteMod
<1>4. k \in 0..Radix - 1 /\ (~manager.have_rx => k = 0)
  BY <1>3, SkippedBound, Zenon
<1>5. /\ count.heard = "this" => k = peer.gap
      /\ count.heard = "none" => k = 0
  <2>1. ASSUME count.heard = "this" PROVE k = peer.gap
    BY <1>1, <2>1, SkippedExact
  <2>2. ASSUME count.heard = "none" PROVE k = 0
    BY <1>1, <1>4, <2>2, Zenon DEF Numbering
  <2>. QED  BY <2>1, <2>2
<1> HIDE DEF k
<1>6. /\ k \in Nat /\ l \in Nat /\ o \in Nat
      /\ l <= manager.dropped + k
      /\ manager.dropped + k <= l + (Radix - 1) * o
  <2> DEFINE d == manager.dropped
             l0 == count.lost
             o0 == count.odd
  <2>1. /\ d \in Nat /\ l0 \in Nat /\ o0 \in Nat
        /\ l0 <= d /\ d <= l0 + (Radix - 1) * o0
    BY <1>1, <1>3 DEF DroppedEstimate
  <2> HIDE DEF d, l0, o0
  <2>2. /\ l0 + k <= d + k /\ d + k <= l0 + k + (Radix - 1) * o0
        /\ l0 <= d + k /\ d + k <= l0 + (Radix - 1) * (o0 + 1)
    BY <1>4, <2>1, EstimateStep
  <2>3. CASE count.heard = "this"
    <3>1. l = l0 + k /\ o = o0
      BY <1>5, <2>3 DEF l0, o0
    <3>2. k \in Nat
      BY <1>4, RadioBridgeAssumption
    <3> HIDE DEF l, o
    <3>3. l <= d + k /\ d + k <= l + (Radix - 1) * o
      BY <2>2, <3>1, Zenon
    <3>4. l \in Nat /\ o \in Nat
      BY <2>1, <3>1, <3>2
    <3>. QED  BY <3>2, <3>3, <3>4 DEF d
  <2>4. CASE count.heard = "earlier"
    <3>1. l = l0 /\ o = o0 + 1
      BY <2>4 DEF l0, o0
    <3>2. k \in Nat
      BY <1>4, RadioBridgeAssumption
    <3> HIDE DEF l, o
    <3>3. l <= d + k /\ d + k <= l + (Radix - 1) * o
      BY <2>2, <3>1, Zenon
    <3>4. l \in Nat /\ o \in Nat
      BY <2>1, <3>1
    <3>. QED  BY <3>2, <3>3, <3>4 DEF d
  <2>5. CASE count.heard = "none"
    <3>1. l = l0 /\ o = o0 /\ k = 0
      BY <1>5, <2>5 DEF l0, o0
    <3> HIDE DEF l, o
    <3>2. d + k = d
      BY <2>1, <3>1
    <3>3. l <= d + k /\ d + k <= l + (Radix - 1) * o
      BY <2>1, <3>1, <3>2, Zenon
    <3>. QED  BY <2>1, <3>1, <3>3 DEF d
  <2>. QED  BY <1>3, <2>3, <2>4, <2>5
<1> HIDE DEF l, o
<1>7. /\ manager' \in Manager
      /\ manager'.dropped = manager.dropped + k
      /\ manager'.have_rx = TRUE
      /\ manager'.rolling_counter_rx = peer.next
  <2>1. manager.dropped + k \in Nat
    BY <1>3, <1>6
  <2>. QED  BY <1>2, <1>3, <2>1, Zenon DEF Manager
<1>8. /\ count'.heard = "this" /\ count'.lost = l /\ count'.odd = o
      /\ count' \in [read : 0..MaxDatagrams, restarts : 0..MaxRestarts,
                     heard : {"none", "this", "earlier"}, lost : Nat, odd : Nat]
  <2>1. count \in [read : 0..MaxDatagrams, restarts : 0..MaxRestarts,
                   heard : {"none", "this", "earlier"}, lost : Nat, odd : Nat]
    BY <1>1, Zenon DEF TypeOK
  <2>. QED  BY <1>2, <1>6, <2>1
<1>9. radio' \in Radio /\ radio'.rxdone = "data"
  <2>1. PICK x \in ReceiveSimpleMessage(radio) : radio' = x[2] /\ x[2].rxdone = "data"
    BY Zenon DEF ReceiveData, Hears
  <2>. QED  BY <1>1, <2>1, ReceiveFacts DEF TypeOK
<1>10. TypeOK'
  <2>1. peer' \in [next : Byte, gap : 0..MaxLost]
    BY <1>2, <1>3, RadioBridgeAssumption
  <2>. QED  BY <1>1, <1>2, <1>7, <1>8, <1>9, <2>1 DEF TypeOK
<1>11. Numbering'
  <2>1. /\ peer'.gap < Radix
        /\ peer'.next = IF peer.next = Radix - 1 THEN 0 ELSE peer.next + 1
        /\ peer'.gap = 0
    BY <1>2, <1>3, ByteSucc, RadioBridgeAssumption
  <2>2. peer'.next \in {manager'.rolling_counter_rx + 1 + peer'.gap,
                        (manager'.rolling_counter_rx + 1 + peer'.gap) - Radix}
    BY <1>3, <1>7, <2>1, RadioBridgeAssumption DEF Byte
  <2>3. count'.heard # "none"
    BY <1>8
  <2>. QED  BY <1>7, <2>1, <2>2, <2>3, Zenon DEF Numbering
<1>12. Standing'
  BY <1>8, <1>9 DEF Standing
<1>13. DroppedEstimate'
  BY <1>6, <1>7, <1>8, Zenon DEF DroppedEstimate
<1>. QED  BY <1>10, <1>11, <1>12, <1>13 DEF IndInv

\* The same data read again: one odd frame more.
LEMMA ReceiveDataAgainInv ==
    ASSUME IndInv, ReceiveDataAgain
    PROVE  IndInv'
<1>1. TypeOK /\ Numbering /\ DroppedEstimate
  BY DEF IndInv
<1> DEFINE c == manager.rolling_counter_rx
           k == Skipped(manager, c)
<1>2. /\ manager' = [manager EXCEPT !.dropped = @ + k,
                                    !.have_rx = TRUE,
                                    !.rolling_counter_rx = c]
      /\ count' = [count EXCEPT !.odd = @ + 1]
      /\ inward = "rx"
      /\ inward' = "deliver"
      /\ timeout' = FALSE
      /\ UNCHANGED <<outward, peer, broker>>
  BY Zenon DEF ReceiveDataAgain, Counted, HearsAgain
<1>3. /\ c \in Byte /\ manager \in Manager /\ manager.dropped \in Nat
      /\ count.lost \in Nat /\ count.odd \in Nat
  BY <1>1 DEF TypeOK, Manager
<1>4. k \in 0..Radix - 1
  BY <1>3, SkippedBound, Zenon
<1> HIDE DEF k
<1>5. /\ k \in Nat
      /\ count.lost <= manager.dropped + k
      /\ manager.dropped + k <= count.lost + (Radix - 1) * (count.odd + 1)
  <2> DEFINE d == manager.dropped
             l0 == count.lost
             o0 == count.odd
  <2>1. /\ d \in Nat /\ l0 \in Nat /\ o0 \in Nat
        /\ l0 <= d /\ d <= l0 + (Radix - 1) * o0
    BY <1>1, <1>3 DEF DroppedEstimate
  <2>2. k \in Nat
    BY <1>4, RadioBridgeAssumption
  <2> HIDE DEF d, l0, o0
  <2>3. l0 <= d + k /\ d + k <= l0 + (Radix - 1) * (o0 + 1)
    BY <1>4, <2>1, EstimateStep
  <2>. QED  BY <2>2, <2>3 DEF d, l0, o0
<1>6. /\ manager' \in Manager
      /\ manager'.dropped = manager.dropped + k
      /\ manager'.have_rx = TRUE
      /\ manager'.rolling_counter_rx = manager.rolling_counter_rx
  <2>1. manager.dropped + k \in Nat
    BY <1>3, <1>5
  <2>. QED  BY <1>2, <1>3, <2>1, Zenon DEF Manager
<1>7. /\ count'.heard = count.heard /\ count'.lost = count.lost
      /\ count'.odd = count.odd + 1
      /\ count' \in [read : 0..MaxDatagrams, restarts : 0..MaxRestarts,
                     heard : {"none", "this", "earlier"}, lost : Nat, odd : Nat]
  <2>1. count \in [read : 0..MaxDatagrams, restarts : 0..MaxRestarts,
                   heard : {"none", "this", "earlier"}, lost : Nat, odd : Nat]
    BY <1>1, Zenon DEF TypeOK
  <2>. QED  BY <1>2, <2>1
<1>8. radio' \in Radio /\ radio'.rxdone = "data" /\ radio.rxdone = "data"
  <2>1. PICK x \in ReceiveSimpleMessage(radio) :
          x[1] = "again" /\ x[2].rxdone \in {"data"} /\ radio' = x[2]
    BY Zenon DEF ReceiveDataAgain, HearsAgain
  <2>. QED  BY <1>1, <2>1, ReceiveFacts DEF TypeOK
<1>9. count.heard # "none"
  BY <1>2, <1>8 DEF IndInv, Standing
<1>10. TypeOK'
  BY <1>1, <1>2, <1>6, <1>7, <1>8 DEF TypeOK
<1>11. Numbering'
  <2>1. ASSUME count.heard = "this"
        PROVE  peer.next \in {manager.rolling_counter_rx + 1 + peer.gap,
                              (manager.rolling_counter_rx + 1 + peer.gap) - Radix}
    BY <1>1, <2>1, Zenon DEF Numbering
  <2>2. peer'.gap < Radix /\ count'.heard # "none"
    BY <1>1, <1>2, <1>7, <1>9 DEF Numbering
  <2>. QED  BY <1>2, <1>6, <1>7, <2>1, <2>2, Zenon DEF Numbering
<1>12. Standing'
  BY <1>7, <1>8, <1>9 DEF Standing
<1>13. DroppedEstimate'
  BY <1>5, <1>6, <1>7, Zenon DEF DroppedEstimate
<1>. QED  BY <1>10, <1>11, <1>12, <1>13 DEF IndInv

\* The inward thread between two receives.
LEMMA TryReceiveInv ==
    ASSUME IndInv, TryReceive
    PROVE  IndInv'
<1>1. /\ UNCHANGED <<radio, timeout, outward, manager, peer, count, broker>>
      /\ inward = "want" /\ inward' = "rx"
  BY DEF TryReceive
<1>2. TypeOK'
  BY <1>1 DEF IndInv, TypeOK
<1>. QED  BY <1>1, <1>2, StatisticsKept

\* A restart of the radio does not touch the counters.
LEMMA RestartInv ==
    ASSUME IndInv, Restart
    PROVE  IndInv'
<1>1. /\ UNCHANGED <<outward, manager, peer, count, broker>>
      /\ inward' = "want" /\ timeout' = FALSE
      /\ radio' \in Restarted(radio)
  BY DEF Restart
<1>2. radio' \in Radio /\ radio'.rxdone = "none"
  BY <1>1, RestartedFacts DEF IndInv, TypeOK
<1>3. TypeOK'
  BY <1>1, <1>2 DEF IndInv, TypeOK
<1>. QED  BY <1>1, <1>2, <1>3, StatisticsKept

\* Neither does a delivery.
LEMMA DeliverInv ==
    ASSUME IndInv, Deliver
    PROVE  IndInv'
<1>1. TypeOK
  BY DEF IndInv
<1>2. /\ inward = "deliver" /\ inward' = "want"
      /\ broker' = [broker EXCEPT !.refused =
                       outward.mode = "connect" /\ ~broker.up /\ ~broker.refused]
      /\ UNCHANGED <<radio, timeout, outward, manager, peer, count>>
  BY Zenon DEF Deliver
<1>3. broker' \in [up : BOOLEAN, refused : BOOLEAN]
  <2>1. (outward.mode = "connect" /\ ~broker.up /\ ~broker.refused) \in BOOLEAN
    BY Zenon
  <2>. QED  BY <1>1, <1>2, <2>1, Zenon DEF TypeOK
<1>4. TypeOK'
  BY <1>1, <1>2, <1>3 DEF TypeOK
<1>. QED  BY <1>2, <1>4, StatisticsKept

\* A frame of the peer that nobody takes: both its counter and the gap grow.
LEMMA PeerUnheardInv ==
    ASSUME IndInv, PeerUnheard
    PROVE  IndInv'
<1>1. TypeOK /\ Numbering
  BY DEF IndInv
<1>2. /\ peer.gap < Radix - 1
      /\ count.lost + peer.gap < MaxLost
      /\ peer' = [next |-> (peer.next + 1) % Radix, gap |-> peer.gap + 1]
      /\ UNCHANGED <<radio, inward, timeout, outward, manager, count, broker>>
  BY DEF PeerUnheard
<1>3. /\ peer.next \in 0..Radix - 1 /\ peer.gap \in Nat
      /\ manager.rolling_counter_rx \in 0..Radix - 1
      /\ count.lost \in Nat
      /\ Radix \in Nat /\ Radix > 1 /\ MaxLost \in Nat
  BY <1>1, RadioBridgeAssumption DEF TypeOK, Manager, Byte
<1>4. (peer.next + 1) % Radix = IF peer.next = Radix - 1 THEN 0 ELSE peer.next + 1
  BY <1>3, ByteSucc DEF Byte
<1>5. peer' \in [next : Byte, gap : 0..MaxLost]
  BY <1>2, <1>3, <1>4 DEF Byte
<1>6. TypeOK'
  BY <1>1, <1>2, <1>5 DEF TypeOK
<1>7. Numbering'
  <2>1. peer'.gap = peer.gap + 1 /\ peer'.gap < Radix
    BY <1>2, <1>3
  <2>2. ASSUME count.heard = "this"
        PROVE  peer'.next \in {manager.rolling_counter_rx + 1 + peer'.gap,
                               (manager.rolling_counter_rx + 1 + peer'.gap) - Radix}
    <3>1. peer.next \in {manager.rolling_counter_rx + 1 + peer.gap,
                         (manager.rolling_counter_rx + 1 + peer.gap) - Radix}
      BY <1>1, <2>2, Zenon DEF Numbering
    <3>2. peer'.next = IF peer.next = Radix - 1 THEN 0 ELSE peer.next + 1
      BY <1>2, <1>4
    <3>. QED  BY <1>2, <1>3, <2>1, <3>1, <3>2
  <2>. QED  BY <1>1, <1>2, <2>1, <2>2, Zenon DEF Numbering
<1>8. Standing' /\ DroppedEstimate'
  BY <1>2, Zenon DEF IndInv, Standing, DroppedEstimate
<1>. QED  BY <1>6, <1>7, <1>8 DEF IndInv

\* A restart that nobody hears of: what was heard is from an earlier run.
LEMMA PeerRestartsInv ==
    ASSUME IndInv, PeerRestarts
    PROVE  IndInv'
<1>1. TypeOK
  BY DEF IndInv
<1> DEFINE heard == IF count.heard = "none" THEN "none" ELSE "earlier"
<1>2. /\ count.restarts < MaxRestarts
      /\ peer' = [next |-> 0, gap |-> 0]
      /\ count' = [count EXCEPT !.restarts = @ + 1, !.heard = heard]
      /\ UNCHANGED <<radio, inward, timeout, outward, manager, broker>>
  BY Zenon DEF PeerRestarts
<1>3. /\ heard \in {"none", "earlier"}
      /\ heard = "none" <=> count.heard = "none"
  OBVIOUS
<1> HIDE DEF heard
<1>4. /\ count'.heard = heard
      /\ count'.lost = count.lost
      /\ count'.odd = count.odd
  BY <1>1, <1>2 DEF TypeOK
<1>5. TypeOK'
  <2>1. peer' \in [next : Byte, gap : 0..MaxLost]
    BY <1>2, RadioBridgeAssumption DEF Byte
  <2>2. count.restarts + 1 \in 0..MaxRestarts
    BY <1>1, <1>2, RadioBridgeAssumption DEF TypeOK
  <2>. QED  BY <1>1, <1>2, <1>3, <2>1, <2>2 DEF TypeOK
<1>6. Numbering'
  <2>1. peer'.gap < Radix
    BY <1>2, RadioBridgeAssumption
  <2>2. count'.heard # "this" /\ (count'.heard = "none" <=> count.heard = "none")
    BY <1>3, <1>4
  <2>. QED  BY <1>2, <2>1, <2>2, Zenon DEF IndInv, Numbering
<1>7. Standing'
  BY <1>2, <1>3, <1>4 DEF IndInv, Standing
<1>8. DroppedEstimate'
  BY <1>2, <1>4, Zenon DEF IndInv, DroppedEstimate
<1>. QED  BY <1>5, <1>6, <1>7, <1>8 DEF IndInv

\* What the broker does is no business of the radio and its counters.
LEMMA BrokerInv ==
    ASSUME IndInv, BrokerStops \/ BrokerStarts \/ SocketFails
    PROVE  IndInv'
<1>1. TypeOK'
  BY DEF IndInv, TypeOK, BrokerStops, BrokerStarts, SocketFails
<1>2. UNCHANGED <<radio, inward, manager, peer, count>>
  BY DEF BrokerStops, BrokerStarts, SocketFails
<1>3. Numbering' /\ Standing' /\ DroppedEstimate'
  BY <1>2, Zenon DEF IndInv, Numbering, Standing, DroppedEstimate
<1>. QED  BY <1>1, <1>3 DEF IndInv

\* Every reachable state of the bridge satisfies the inductive invariant, with
\* SPI accesses that fail and flags whose clear is lost, a peer that restarts
\* with and without a HELLO, and a program that crashes.
THEOREM BridgeInvariance == Spec => []IndInv
<1>1. IndInv /\ [Next]_vars => IndInv'
  <2> SUFFICES ASSUME IndInv, [Next]_vars PROVE IndInv'
    OBVIOUS
  <2>1. CASE Next
    BY <2>1, StartInv, ReadDatagramInv, NoteSenderInv, TransmitInv, TryReceiveInv,
       ReceiveNoFrameInv, ReceiveCrashInv, ReceiveHelloInv, ReceiveHelloAgainInv,
       ReceiveDataInv, ReceiveDataAgainInv, DeliverInv, RestartInv,
       PeerUnheardInv, PeerRestartsInv, BrokerInv, Zenon
       DEF Next, Receive
  <2>2. CASE UNCHANGED vars
    <3>1. TypeOK'
      BY <2>2 DEF IndInv, TypeOK, vars
    <3>2. Numbering' /\ Standing' /\ DroppedEstimate'
      BY <2>2, Zenon DEF IndInv, Numbering, Standing, DroppedEstimate, vars
    <3>. QED  BY <3>1, <3>2 DEF IndInv
  <2>. QED  BY <2>1, <2>2
<1>. QED  BY <1>1, InitInv, PTL DEF Spec

\* dropped_ of RadioManager is at least the number of frames that were lost
\* between two of the same run of the peer, and at most less than one round more
\* for each unannounced restart and each frame read twice, whatever the width
\* of the counter.
THEOREM DroppedIsEstimated == Spec => []DroppedEstimate
<1>1. IndInv => DroppedEstimate
  BY DEF IndInv
<1>. QED  BY <1>1, BridgeInvariance, PTL

-----------------------------------------------------------------------------
(* The microcontroller radio *)

\* Whatever the rounding of the prediction does, the timeout of TransmitMessage
\* is at least the time on air, for every frame of 4 to 128 bytes.
LEMMA TimeoutCoversAirtime ==
    ASSUME NEW len \in 4..128
    PROVE  /\ TimeOnAir(len) \in Nat \ {0}
           /\ Ticks(len) \in Nat \ {0}
           /\ TimeOnAir(len) <= 10000 * Ticks(len)
<1> DEFINE q == (8 * len + 8) \div 36
<1>1. SymbolTime = 4096
  BY SMT DEF SymbolTime, Chips, bandwidth_hz
<1>2. q \in 1..28 /\ (8 * len + 43) \div 36 \in q..q + 1
  BY SMT
<1>3. TimeOnAir(len) = 82944 + 24576 * ((8 * len + 43) \div 36)
  BY <1>1, SMT DEF TimeOnAir, CeilDiv, spreading_factor, preamble, coding_rate
<1>4. q % 36 # 0
  BY <1>2, SMT
<1>5. PredictTimeOnAir(len) = 50 + (57344 + 24576 * q) \div 1000
  <2>1. 8 * len - 36 + 28 + 16 = 8 * len + 8
    BY SMT
  <2>2. PredictTimeOnAir(len) =
          ((1000 * 8 + 4250) * 512) \div 125000
          + (1000 * (8 + (q + 1) * 6) * 512) \div 125000
    BY <1>4, <2>1, SMT
       DEF PredictTimeOnAir, Chips, bandwidth_hz, spreading_factor, preamble, coding_rate
  <2> HIDE DEF q
  <2>3. (1000 * (8 + (q + 1) * 6) * 512) \div 125000 = (57344 + 24576 * q) \div 1000
    BY <1>2, SMT
  <2>4. ((1000 * 8 + 4250) * 512) \div 125000 = 50
    BY SMT
  <2> QED BY <2>2, <2>3, <2>4, SMT
<1>6. Ticks(len) = 1 + (50 + (57344 + 24576 * q) \div 1000) \div 10
  BY <1>5 DEF Ticks
<1> HIDE DEF q
<1>7. 107520 + 24576 * q <= 10000 * (1 + (50 + (57344 + 24576 * q) \div 1000) \div 10)
  BY <1>2, SMTT(30)
<1> QED BY <1>2, <1>3, <1>6, <1>7, SMT

\* What is sent of a frame fits the buffer of the chip.
LEMMA TruncatedType ==
    ASSUME NEW len \in Lengths
    PROVE  Truncated(len) \in 4..128
<1>1. len \in 4..255
  BY McuRadioAssumption
<1> QED BY <1>1 DEF Truncated, max_payload_bytes

\* A chip after reset, and no frame, have their types.
LEMMA ResetTypes == ResetChip \in Chip /\ Nothing \in Got
<1>1. {} \in SUBSET {"TxDone", "RxDone", "RxTimeout"} /\ 0 \in 0..255 /\ 0 \in Nat
  OBVIOUS
<1> QED BY <1>1, Zenon DEF ResetChip, Chip, Nothing, Got

\* A chip that is switched on sends nothing.
LEMMA McuInitInv == McuInit => McuInv
<1> SUFFICES ASSUME McuInit PROVE McuInv
  OBVIOUS
<1>1. McuTypeOK
  BY ResetTypes DEF McuInit, McuTypeOK, Call
<1>2. OnTheAir /\ Pointer /\ NoFrameCutShort /\ FirstFrameIntact
  BY DEF McuInit, OnTheAir, Pointer, NoFrameCutShort, FirstFrameIntact, ResetChip, Nothing
<1> QED BY <1>1, <1>2 DEF McuInv

\* Starting, stopping, and the call that begins to receive.
LEMMA CallsInv ==
    ASSUME McuInv, Begin \/ DeepSleep \/ Standby \/ ReceiveMessage
    PROVE  McuInv'
<1>1. CASE Begin
  <2>1. McuTypeOK'
    BY <1>1 DEF McuInv, McuTypeOK, Chip, Call, Got, Begin, OpModeStandby
  <2>2. OnTheAir'
    BY <1>1 DEF McuInv, McuTypeOK, Chip, Call, Got, OnTheAir, Begin, OpModeStandby
  <2>3. Pointer'
    BY <1>1 DEF McuInv, McuTypeOK, Chip, Call, Got, Pointer, Begin, OpModeStandby
  <2>4. NoFrameCutShort' /\ FirstFrameIntact'
    BY <1>1 DEF McuInv, McuTypeOK, Chip, Call, Got, OnTheAir, Pointer, NoFrameCutShort, FirstFrameIntact, Begin, OpModeStandby
  <2> QED BY <2>1, <2>2, <2>3, <2>4 DEF McuInv
<1>2. CASE DeepSleep
  <2>1. McuTypeOK'
    BY <1>2, ResetTypes DEF McuInv, McuTypeOK, Call, DeepSleep, FateAfter
  <2>2. OnTheAir'
    BY <1>2 DEF McuInv, McuTypeOK, Chip, Call, Got, OnTheAir, DeepSleep, ResetChip, Nothing, FateAfter
  <2>3. Pointer'
    BY <1>2 DEF McuInv, McuTypeOK, Chip, Call, Got, Pointer, DeepSleep, ResetChip, Nothing, FateAfter
  <2>4. NoFrameCutShort' /\ FirstFrameIntact'
    BY <1>2 DEF McuInv, McuTypeOK, Chip, Call, Got, OnTheAir, Pointer, NoFrameCutShort, FirstFrameIntact, DeepSleep, ResetChip, Nothing, FateAfter
  <2> QED BY <2>1, <2>2, <2>3, <2>4 DEF McuInv
<1>3. CASE Standby
  <2>1. McuTypeOK'
    BY <1>3 DEF McuInv, McuTypeOK, Chip, Call, Got, Standby, OpModeStandby, FateAfter
  <2>2. OnTheAir'
    BY <1>3 DEF McuInv, McuTypeOK, Chip, Call, Got, OnTheAir, Standby, OpModeStandby, FateAfter
  <2>3. Pointer'
    BY <1>3 DEF McuInv, McuTypeOK, Chip, Call, Got, Pointer, Standby, OpModeStandby, FateAfter
  <2>4. NoFrameCutShort' /\ FirstFrameIntact'
    BY <1>3 DEF McuInv, McuTypeOK, Chip, Call, Got, OnTheAir, Pointer, NoFrameCutShort, FirstFrameIntact, Standby, OpModeStandby, FateAfter
  <2> QED BY <2>1, <2>2, <2>3, <2>4 DEF McuInv
<1>4. CASE ReceiveMessage
  <2>1. McuTypeOK'
    BY <1>4 DEF McuInv, McuTypeOK, Chip, Call, Got, ReceiveMessage, OpModeStandby, FateAfter
  <2>2. OnTheAir'
    BY <1>4 DEF McuInv, McuTypeOK, Chip, Call, Got, OnTheAir, ReceiveMessage, OpModeStandby, FateAfter
  <2>3. Pointer'
    BY <1>4 DEF McuInv, McuTypeOK, Chip, Call, Got, Pointer, ReceiveMessage, OpModeStandby, FateAfter
  <2>4. NoFrameCutShort' /\ FirstFrameIntact'
    BY <1>4 DEF McuInv, McuTypeOK, Chip, Call, Got, OnTheAir, Pointer, NoFrameCutShort, FirstFrameIntact, ReceiveMessage, OpModeStandby, FateAfter
  <2> QED BY <2>1, <2>2, <2>3, <2>4 DEF McuInv
<1> QED BY <1>1, <1>2, <1>3, <1>4

\* The call that begins to transmit.
LEMMA TransmitMessageInv ==
    ASSUME McuInv, NEW len \in Lengths, TransmitMessage(len)
    PROVE  McuInv'
<1> DEFINE t == Truncated(len)
           air == TimeOnAir(t)
           ticks == Ticks(t)
<1>1. air \in Nat \ {0} /\ ticks \in Nat \ {0} /\ air <= 10000 * ticks
  BY TruncatedType, TimeoutCoversAirtime
<1>2. PICK tx \in {"sending", "stuck"} :
        chip' = [chip EXCEPT !.ptr = "transmit", !.irq = {}, !.tx = tx, !.left = air]
  BY Zenon DEF TransmitMessage
<1>3. /\ call.pc = "idle"
      /\ rx_warm' = FALSE
      /\ call' = [pc |-> "tx", ticks |-> ticks]
      /\ fate' = FateAfter(chip)
      /\ taken' = FALSE
      /\ got' = got
  BY Zenon DEF TransmitMessage
<1> HIDE DEF air, ticks
<1>4. McuTypeOK'
  <2>1. chip' \in Chip
    <3>1. /\ {} \in SUBSET {"TxDone", "RxDone", "RxTimeout"}
          /\ tx \in {"off", "sending", "stuck"}
          /\ air \in Nat
      BY <1>1, <1>2
    <3>2. chip \in Chip
      BY DEF McuInv, McuTypeOK
    <3> QED BY <1>2, <3>1, <3>2, Zenon DEF Chip
  <2>2. call' \in Call
    BY <1>1, <1>3 DEF Call
  <2> QED BY <1>3, <2>1, <2>2 DEF McuInv, McuTypeOK, FateAfter
<1>5. OnTheAir'
  BY <1>1, <1>2, <1>3 DEF McuInv, McuTypeOK, Chip, Call, Got, OnTheAir, FateAfter
<1>6. Pointer'
  BY <1>1, <1>2, <1>3 DEF McuInv, McuTypeOK, Chip, Call, Got, Pointer, FateAfter
<1>7. NoFrameCutShort' /\ FirstFrameIntact'
  BY <1>1, <1>2, <1>3 DEF McuInv, McuTypeOK, Chip, Call, Got, OnTheAir, Pointer, NoFrameCutShort, FirstFrameIntact, FateAfter
<1> QED BY <1>4, <1>5, <1>6, <1>7 DEF McuInv

\* Ten more milliseconds of a transmission.
LEMMA SendingType ==
    ASSUME NEW c \in Chip
    PROVE  Sending(c) \in Chip
<1>1. CASE c.tx = "stuck"
  BY <1>1 DEF Sending
<1>2. CASE c.tx # "stuck" /\ c.left > 10000
  <2>1. c.left - 10000 \in Nat
    BY <1>2 DEF Chip
  <2>2. Sending(c) = [c EXCEPT !.left = c.left - 10000]
    BY <1>2 DEF Sending
  <2> QED BY <2>1, <2>2 DEF Chip
<1>3. CASE c.tx # "stuck" /\ ~(c.left > 10000)
  <2> DEFINE empty == [c EXCEPT !.left = 0]
             off == [empty EXCEPT !.tx = "off"]
             irq == off.irq \cup {"TxDone"}
  <2>1. empty \in Chip
    BY DEF Chip
  <2>2. off \in Chip
    BY <2>1 DEF Chip
  <2>3. irq \in SUBSET {"TxDone", "RxDone", "RxTimeout"}
    BY <2>2 DEF Chip
  <2>4. Sending(c) = [off EXCEPT !.irq = irq]
    BY <1>3 DEF Sending, Chip
  <2> HIDE DEF off, irq
  <2> QED BY <2>2, <2>3, <2>4, Zenon DEF Chip
<1> QED BY <1>1, <1>2, <1>3

\* Waiting for the end of a transmission.
LEMMA TransmitPollInv ==
    ASSUME McuInv, TransmitPoll
    PROVE  McuInv'
<1>1. CASE TransmitDone
  <2>1. McuTypeOK'
    BY <1>1 DEF McuInv, McuTypeOK, Chip, Call, Got, TransmitDone, Returned
  <2>2. OnTheAir'
    BY <1>1 DEF McuInv, McuTypeOK, Chip, Call, Got, OnTheAir, TransmitDone, Returned
  <2>3. Pointer'
    BY <1>1 DEF McuInv, McuTypeOK, Chip, Call, Got, Pointer, TransmitDone, Returned
  <2>4. NoFrameCutShort' /\ FirstFrameIntact'
    BY <1>1 DEF McuInv, McuTypeOK, Chip, Call, Got, OnTheAir, Pointer, NoFrameCutShort, FirstFrameIntact, TransmitDone, Returned
  <2> QED BY <2>1, <2>2, <2>3, <2>4 DEF McuInv
<1>2. CASE TransmitTimeout
  <2>1. McuTypeOK'
    BY <1>2 DEF McuInv, McuTypeOK, Chip, Call, Got, TransmitTimeout, Returned
  <2>2. OnTheAir'
    BY <1>2 DEF McuInv, McuTypeOK, Chip, Call, Got, OnTheAir, TransmitTimeout, Returned
  <2>3. Pointer'
    BY <1>2 DEF McuInv, McuTypeOK, Chip, Call, Got, Pointer, TransmitTimeout, Returned
  <2>4. NoFrameCutShort' /\ FirstFrameIntact'
    BY <1>2 DEF McuInv, McuTypeOK, Chip, Call, Got, OnTheAir, Pointer, NoFrameCutShort, FirstFrameIntact, TransmitTimeout, Returned
  <2> QED BY <2>1, <2>2, <2>3, <2>4 DEF McuInv
<1>3. CASE TransmitDelay
  <2>1. McuTypeOK'
    <3>1. chip' \in Chip
      BY <1>3, SendingType DEF McuInv, McuTypeOK, TransmitDelay
    <3>2. call' \in Call
      BY <1>3 DEF McuInv, McuTypeOK, Call, TransmitDelay
    <3> QED BY <1>3, <3>1, <3>2 DEF McuInv, McuTypeOK, TransmitDelay
  <2>2. OnTheAir'
    BY <1>3 DEF McuInv, McuTypeOK, Chip, Call, Got, OnTheAir, TransmitDelay, Sending
  <2>3. Pointer'
    BY <1>3 DEF McuInv, McuTypeOK, Chip, Call, Got, Pointer, TransmitDelay, Sending
  <2>4. NoFrameCutShort' /\ FirstFrameIntact'
    BY <1>3 DEF McuInv, McuTypeOK, Chip, Call, Got, OnTheAir, Pointer, NoFrameCutShort, FirstFrameIntact, TransmitDelay, Sending
  <2> QED BY <2>1, <2>2, <2>3, <2>4 DEF McuInv
<1> QED BY <1>1, <1>2, <1>3 DEF TransmitPoll

\* Waiting for a frame, and reading it.
LEMMA ReceiveInv ==
    ASSUME McuInv, ChipStops \/ ReceivePoll
    PROVE  McuInv'
<1>1. CASE ChipReceives
  <2>1. McuTypeOK'
    <3>1. PICK nb \in Sizes : chip' = [chip EXCEPT !.irq = {"RxDone"}, !.nb = nb]
      BY <1>1 DEF ChipReceives
    <3>2. nb \in 0..255
      BY McuRadioAssumption
    <3>3. chip' \in Chip
      BY <3>1, <3>2 DEF McuInv, McuTypeOK, Chip
    <3> QED BY <1>1, <3>3 DEF McuInv, McuTypeOK, ChipReceives
  <2>2. OnTheAir'
    BY <1>1, McuRadioAssumption DEF McuInv, McuTypeOK, Chip, Call, Got, OnTheAir, ChipReceives
  <2>3. Pointer'
    BY <1>1, McuRadioAssumption DEF McuInv, McuTypeOK, Chip, Call, Got, Pointer, ChipReceives
  <2>4. NoFrameCutShort' /\ FirstFrameIntact'
    BY <1>1, McuRadioAssumption DEF McuInv, McuTypeOK, Chip, Call, Got, OnTheAir, Pointer, NoFrameCutShort, FirstFrameIntact, ChipReceives
  <2> QED BY <2>1, <2>2, <2>3, <2>4 DEF McuInv
<1>2. CASE ChipTimesOut
  <2>1. McuTypeOK'
    BY <1>2 DEF McuInv, McuTypeOK, Chip, Call, Got, ChipTimesOut
  <2>2. OnTheAir'
    BY <1>2 DEF McuInv, McuTypeOK, Chip, Call, Got, OnTheAir, ChipTimesOut
  <2>3. Pointer'
    BY <1>2 DEF McuInv, McuTypeOK, Chip, Call, Got, Pointer, ChipTimesOut
  <2>4. NoFrameCutShort' /\ FirstFrameIntact'
    BY <1>2 DEF McuInv, McuTypeOK, Chip, Call, Got, OnTheAir, Pointer, NoFrameCutShort, FirstFrameIntact, ChipTimesOut
  <2> QED BY <2>1, <2>2, <2>3, <2>4 DEF McuInv
<1>3. CASE ReceiveGivesUp
  <2>1. McuTypeOK'
    BY <1>3 DEF McuInv, McuTypeOK, Chip, Call, Got, ReceiveGivesUp, Returned
  <2>2. OnTheAir'
    BY <1>3 DEF McuInv, McuTypeOK, Chip, Call, Got, OnTheAir, ReceiveGivesUp, Returned
  <2>3. Pointer'
    BY <1>3 DEF McuInv, McuTypeOK, Chip, Call, Got, Pointer, ReceiveGivesUp, Returned
  <2>4. NoFrameCutShort' /\ FirstFrameIntact'
    BY <1>3 DEF McuInv, McuTypeOK, Chip, Call, Got, OnTheAir, Pointer, NoFrameCutShort, FirstFrameIntact, ReceiveGivesUp, Returned
  <2> QED BY <2>1, <2>2, <2>3, <2>4 DEF McuInv
<1>4. CASE ReceiveTooLong
  <2>1. McuTypeOK'
    BY <1>4 DEF McuInv, McuTypeOK, Chip, Call, Got, ReceiveTooLong, Returned
  <2>2. OnTheAir'
    BY <1>4 DEF McuInv, McuTypeOK, Chip, Call, Got, OnTheAir, ReceiveTooLong, Returned
  <2>3. Pointer'
    BY <1>4 DEF McuInv, McuTypeOK, Chip, Call, Got, Pointer, ReceiveTooLong, Returned
  <2>4. NoFrameCutShort' /\ FirstFrameIntact'
    BY <1>4 DEF McuInv, McuTypeOK, Chip, Call, Got, OnTheAir, Pointer, NoFrameCutShort, FirstFrameIntact, ReceiveTooLong, Returned
  <2> QED BY <2>1, <2>2, <2>3, <2>4 DEF McuInv
<1>5. CASE ReceiveFrame
  <2>1. McuTypeOK'
    BY <1>5 DEF McuInv, McuTypeOK, Chip, Call, Got, ReceiveFrame, Returned, payloadSizeBytes
  <2>2. OnTheAir'
    BY <1>5 DEF McuInv, McuTypeOK, Chip, Call, Got, OnTheAir, ReceiveFrame, Returned, payloadSizeBytes
  <2>3. Pointer'
    BY <1>5 DEF McuInv, McuTypeOK, Chip, Call, Got, Pointer, ReceiveFrame, Returned, payloadSizeBytes
  <2>4. NoFrameCutShort' /\ FirstFrameIntact'
    BY <1>5 DEF McuInv, McuTypeOK, Chip, Call, Got, OnTheAir, Pointer, NoFrameCutShort, FirstFrameIntact, ReceiveFrame, Returned, payloadSizeBytes
  <2> QED BY <2>1, <2>2, <2>3, <2>4 DEF McuInv
<1> QED BY <1>1, <1>2, <1>3, <1>4, <1>5 DEF ChipStops, ReceivePoll

\* The inductive invariant of the driver and the chip.
THEOREM RadioInvariance == McuSpec => []McuInv
<1>1. McuInv /\ [McuNext]_mcuVars => McuInv'
  <2> SUFFICES ASSUME McuInv, [McuNext]_mcuVars PROVE McuInv'
    OBVIOUS
  <2>1. CASE UNCHANGED mcuVars
    BY <2>1 DEF mcuVars, McuInv, McuTypeOK, OnTheAir, Pointer, NoFrameCutShort,
                FirstFrameIntact
  <2>2. CASE McuNext
    BY <2>2, CallsInv, TransmitMessageInv, TransmitPollInv, ReceiveInv DEF McuNext
  <2> QED BY <2>1, <2>2
<1> QED BY McuInitInv, <1>1, PTL DEF McuSpec

\* Type correctness of the driver and the chip.
THEOREM RadioTypeCorrect == McuSpec => []McuTypeOK
<1>1. McuInv => McuTypeOK
  BY DEF McuInv
<1> QED BY RadioInvariance, <1>1, PTL

\* Whatever lengths from 4 bytes up are sent, no transmission is cut short by
\* the standby or the transmission that follows it.
THEOREM NeverCutShort == McuSpec => []NoFrameCutShort
<1>1. McuInv => NoFrameCutShort
  BY DEF McuInv
<1> QED BY RadioInvariance, <1>1, PTL

\* The first frame after a transmission or a standby is returned as received.
THEOREM FirstIsIntact == McuSpec => []FirstFrameIntact
<1>1. McuInv => FirstFrameIntact
  BY DEF McuInv
<1> QED BY RadioInvariance, <1>1, PTL
=============================================================================
