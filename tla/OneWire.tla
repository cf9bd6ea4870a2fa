------------------------------ MODULE OneWire ------------------------------
(***************************************************************************)
(* The 1-Wire search of the ground sensor (ds18b20.c): which thermometers  *)
(* hang on the wire, found bit by bit, and the conversion of what they     *)
(* measured.                                                               *)
(*                                                                         *)
(* An address has RomBits bits instead of 64, of which the first           *)
(* FamilyBits, instead of 8, are the family code, least significant bit    *)
(* first.  All devices answer at once and a 0 wins, so that a bit and its  *)
(* complement both read 0 where devices differ and both 1 where none       *)
(* answers.  The checksum of an address is only printed and left out, and  *)
(* so is LastFamilyDiscrepancy, which is never read.                       *)
(***************************************************************************)
EXTENDS Integers, Sequences, FiniteSets

CONSTANTS
    RomBits,      \* bits of an address
    FamilyBits,   \* bits of the family code
    DS18S20,      \* family code of the 9 bit thermometer
    DS18B20       \* family code of the 12 bit thermometer

ASSUME OneWireAssumption ==
    /\ RomBits \in Nat /\ FamilyBits \in 1..RomBits
    /\ {DS18S20, DS18B20} \subseteq 1..(2^FamilyBits - 1)
    /\ DS18S20 # DS18B20

Bit == {0, 1}
Rom == [1..RomBits -> Bit]

\* The number that the first k bits of r make.
Number(r, k) ==
    LET n[b \in 0..k] == IF b = 0 THEN 0 ELSE n[b - 1] + r[b] * 2^(b - 1)
    IN  n[k]

family(r) == Number(r, FamilyBits)

-----------------------------------------------------------------------------
(* The search.  Its state survives from one call of ds_search to the next. *)

reset_search ==
    [ROM_NO |-> [b \in 1..RomBits |-> 0], LastDiscrepancy |-> 0,
     LastDeviceFlag |-> FALSE]

\* What read_bit returns for bit b, and then for its complement.
id_bit(alive, b) == IF \E d \in alive : d[b] = 0 THEN 0 ELSE 1
cmp_id_bit(alive, b) == IF \E d \in alive : d[b] = 1 THEN 0 ELSE 1

search_direction(s, alive, b) ==
    IF id_bit(alive, b) # cmp_id_bit(alive, b) THEN id_bit(alive, b)
    ELSE IF b < s.LastDiscrepancy THEN s.ROM_NO[b]
    ELSE IF b = s.LastDiscrepancy THEN 1 ELSE 0

\* One pass of the loop of ds_search, for bit b.  w has the devices of the
\* wire that still take part, the address so far, and the last bit at which 0
\* was chosen.
walk_bit(s, w, b) ==
    LET dir == search_direction(s, w.alive, b)
    IN  IF w.alive = {} THEN w
        ELSE [alive |-> {d \in w.alive : d[b] = dir},
              rom |-> [w.rom EXCEPT ![b] = dir],
              last_zero |-> IF /\ id_bit(w.alive, b) = cmp_id_bit(w.alive, b)
                               /\ dir = 0
                            THEN b ELSE w.last_zero]

\* The loop of ds_search.
Walk(s, wire) ==
    LET walk[b \in 0..RomBits] ==
          IF b = 0 THEN [alive |-> wire, rom |-> s.ROM_NO, last_zero |-> 0]
          ELSE walk_bit(s, walk[b - 1], b)
    IN  walk[RomBits]

\* ds_search: the state of the search after it, and whether it found a device.
ds_search(s, wire) ==
    LET w == Walk(s, wire)
        searched == ~s.LastDeviceFlag /\ wire # {}
        rom == IF searched THEN w.rom ELSE s.ROM_NO
        found == searched /\ w.alive # {} /\ family(rom) # 0
    IN  [found |-> found,
         search |->
            IF found
            THEN [ROM_NO |-> rom, LastDiscrepancy |-> w.last_zero,
                  LastDeviceFlag |-> w.last_zero = 0]
            ELSE [reset_search EXCEPT !.ROM_NO = rom]]

-----------------------------------------------------------------------------
(* exec_ds18b20 *)

\* Mutant: a device of another family ends the search.
SearchesOn_Known(found, known, room) == found /\ known /\ room

\* After a device of another family the loop continues, at its condition.
SearchesOn(found, known, room) == found /\ room

\* One pass of the loop of exec_ds18b20, on the devices of wire.
search_once(l, wire, max_results) ==
    LET r == ds_search(l.search, wire)
        known == family(r.search.ROM_NO) \in {DS18S20, DS18B20}
        results == IF r.found /\ known
                   THEN Append(l.results, r.search.ROM_NO)
                   ELSE l.results
    IN  IF ~l.more THEN l
        ELSE [search |-> r.search, results |-> results,
              more |-> SearchesOn(r.found, known, Len(results) < max_results)]

\* The addresses found, at most max_results.  Searches after the first see
\* the devices of later: contacts may come loose in between.  The check of the
\* arguments that the function begins with holds for its only caller, whose pin
\* is a constant and whose array has room for one to eight results.
exec_ds18b20(wire, later, max_results) ==
    LET most == Cardinality(wire) + 1
        loop[k \in 0..most] ==
          IF k = 0
          THEN [search |-> reset_search, results |-> << >>, more |-> TRUE]
          ELSE search_once(loop[k - 1], IF k = 1 THEN wire ELSE later,
                           max_results)
    IN  loop[most]

-----------------------------------------------------------------------------
(* The conversion of a measurement, a 16 bit two's complement number *)

Word == 2^16

Temperature(fam, raw) ==
    LET negative == raw >= Word \div 2
        t == IF negative THEN Word - raw ELSE raw
    IN  [tSign |-> IF negative THEN "-" ELSE "+",
         tVal |-> IF fam = DS18S20 THEN t \div 2 ELSE t \div 16,
         tFract |-> IF fam = DS18S20 THEN IF t % 2 = 1 THEN 50 ELSE 0
                    ELSE ((t % 16) * 100) \div 16]
=============================================================================
