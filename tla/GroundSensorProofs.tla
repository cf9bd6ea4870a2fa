------------------------- MODULE GroundSensorProofs -------------------------
(***************************************************************************)
(* The ground sensor, for any number of attempts, slots and thermometers:  *)
(* what the 1-Wire search finds, the arithmetic of a reading, memory,      *)
(* console and nap.                                                        *)
(*                                                                         *)
(* The search is a computation of as many passes as an address has bits,   *)
(* inside a loop of as many passes as there are devices.  Induction over   *)
(* both goes by sets of numbers (Least, Induction, Recursion).             *)
(***************************************************************************)
EXTENDS GroundSensor, WellFoundedInduction, FiniteSetTheorems, TLAPS

-----------------------------------------------------------------------------
(* Induction and recursion over the natural numbers *)

\* A set of natural numbers that is not empty has a least element.
LEMMA Least ==
    ASSUME NEW S \in SUBSET Nat, S # {}
    PROVE  \E n \in S : \A m \in S : n <= m
<1> DEFINE R == OpToRel(<, Nat)
<1>1. IsWellFoundedOn(R, Nat)
  BY NatLessThanWellFounded, Zenon
<1>2. \A i, j \in Nat : i < j => <<i, j>> \in R
  BY Zenon DEF OpToRel
<1> HIDE DEF R
<1>3. PICK x \in S : \A y \in S : ~ (<<y, x>> \in R)
  BY <1>1, WFMin
<1>4. \A y \in S : ~(y < x)
  BY <1>2, <1>3
<1>5. \A y \in S : x <= y
  BY <1>4
<1>. QED  BY <1>5

\* A set with 0 and the successor of each of its numbers has them all.
LEMMA Induction ==
    ASSUME NEW S, 0 \in S, \A n \in Nat : n \in S => n + 1 \in S
    PROVE  Nat \subseteq S
<1>1. SUFFICES ASSUME Nat \ S # {} PROVE FALSE
  OBVIOUS
<1>2. PICK n \in Nat \ S : \A m \in Nat \ S : n <= m
  BY <1>1, Least
<1>3. n # 0 /\ n - 1 \in Nat
  BY <1>2
<1>4. n - 1 \in S
  BY <1>2, <1>3
<1>. QED  BY <1>2, <1>3, <1>4

\* A computation of N steps on a state of S, of which step k is the function
\* F[k], goes through some values.
Computes(N, S) ==
    \A a \in S : \A F \in [1..N -> [S -> S]] :
        \E f \in [0..N -> S] :
            f[0] = a /\ \A k \in 1..N : f[k] = F[k][f[k - 1]]

\* For any number of steps and any set of states.
LEMMA Recursion ==
    ASSUME NEW N \in Nat, NEW S
    PROVE  Computes(N, S)
<1> SUFFICES ASSUME NEW a \in S, NEW F \in [1..N -> [S -> S]]
             PROVE  \E f \in [0..N -> S] :
                       f[0] = a /\ \A k \in 1..N : f[k] = F[k][f[k - 1]]
  BY DEF Computes
<1> DEFINE Good(n, f) == f[0] = a /\ \A k \in 1..n : f[k] = F[k][f[k - 1]]
           P == {n \in Nat : n <= N => \E f \in [0..n -> S] : Good(n, f)}
<1>1. 0 \in P
  <2>1. [k \in 0..0 |-> a] \in [0..0 -> S] /\ Good(0, [k \in 0..0 |-> a])
    OBVIOUS
  <2>. QED  BY <2>1
<1>2. ASSUME NEW n \in Nat, n \in P PROVE n + 1 \in P
  <2> SUFFICES ASSUME n + 1 <= N
               PROVE  \E f \in [0..(n + 1) -> S] : Good(n + 1, f)
    OBVIOUS
  <2>1. PICK f \in [0..n -> S] : Good(n, f)
    BY <1>2
  <2> DEFINE g == [k \in 0..(n + 1) |-> IF k <= n THEN f[k] ELSE F[n + 1][f[n]]]
  <2>2. F[n + 1] \in [S -> S] /\ f[n] \in S
    OBVIOUS
  <2>3. F[n + 1][f[n]] \in S
    BY <2>2
  <2>4. g \in [0..(n + 1) -> S]
    BY <2>3
  <2>5. g[0] = a
    BY <2>1
  <2>6. \A k \in 1..(n + 1) : g[k] = F[k][g[k - 1]]
    <3> SUFFICES ASSUME NEW k \in 1..(n + 1) PROVE g[k] = F[k][g[k - 1]]
      OBVIOUS
    <3>1. g[k - 1] = f[k - 1]
      OBVIOUS
    <3>2. CASE k <= n
      BY <2>1, <3>1, <3>2
    <3>3. CASE k = n + 1
      BY <3>1, <3>3
    <3>. QED  BY <3>2, <3>3
  <2> HIDE DEF g
  <2>. QED  BY <2>4, <2>5, <2>6
<1> HIDE DEF P
<1>3. Nat \subseteq P
  BY <1>1, <1>2, Induction
<1>4. N \in P
  BY <1>3
<1>. QED  BY <1>4 DEF P

-----------------------------------------------------------------------------
(* The walk of one search *)

SearchState == [ROM_NO : Rom, LastDiscrepancy : 0..RomBits, LastDeviceFlag : BOOLEAN]
WalkState == [alive : SUBSET Rom, rom : Rom, last_zero : 0..RomBits]

\* A direction is a bit.
LEMMA DirectionType ==
    ASSUME NEW s \in SearchState, NEW alive, NEW b \in 1..RomBits
    PROVE  search_direction(s, alive, b) \in Bit
<1>1. s.ROM_NO[b] \in Bit
  BY DEF SearchState, Rom
<1>. QED  BY <1>1 DEF search_direction, id_bit, cmp_id_bit, Bit

\* A pass leaves devices, an address and a bit number.
LEMMA WalkBitType ==
    ASSUME NEW s \in SearchState, NEW w \in WalkState, NEW b \in 1..RomBits
    PROVE  walk_bit(s, w, b) \in WalkState
<1> DEFINE dir == search_direction(s, w.alive, b)
<1>1. dir \in Bit
  BY DirectionType
<1> HIDE DEF dir
<1>2. {d \in w.alive : d[b] = dir} \in SUBSET Rom
  BY DEF WalkState
<1>3. [w.rom EXCEPT ![b] = dir] \in Rom
  BY <1>1 DEF WalkState, Rom
<1>4. b \in 0..RomBits /\ w.last_zero \in 0..RomBits
  BY OneWireAssumption DEF WalkState
<1>. QED  BY <1>2, <1>3, <1>4 DEF walk_bit, WalkState, dir

\* The walk is a computation of RomBits passes.
LEMMA WalkUnfolds ==
    ASSUME NEW s \in SearchState, NEW W \in SUBSET Rom
    PROVE  \E f \in [0..RomBits -> WalkState] :
              /\ f[0] = [alive |-> W, rom |-> s.ROM_NO, last_zero |-> 0]
              /\ \A b \in 1..RomBits : f[b] = walk_bit(s, f[b - 1], b)
              /\ Walk(s, W) = f[RomBits]
<1> DEFINE a == [alive |-> W, rom |-> s.ROM_NO, last_zero |-> 0]
           F == [b \in 1..RomBits |-> [w \in WalkState |-> walk_bit(s, w, b)]]
           Is(f) == f = [b \in 0..RomBits |->
                           IF b = 0 THEN a ELSE walk_bit(s, f[b - 1], b)]
           g == CHOOSE f : Is(f)
<1>0. RomBits \in Nat
  BY OneWireAssumption
<1>1. a \in WalkState
  BY <1>0 DEF WalkState, SearchState
<1>2. F \in [1..RomBits -> [WalkState -> WalkState]]
  BY WalkBitType
<1>3. PICK f \in [0..RomBits -> WalkState] :
         f[0] = a /\ \A k \in 1..RomBits : f[k] = F[k][f[k - 1]]
  <2> HIDE DEF a, F
  <2>1. Computes(RomBits, WalkState)
    BY <1>0, Recursion
  <2>. QED  BY <1>1, <1>2, <2>1 DEF Computes
<1>4. \A b \in 1..RomBits : f[b - 1] \in WalkState /\ f[b] = walk_bit(s, f[b - 1], b)
  <2> SUFFICES ASSUME NEW b \in 1..RomBits
               PROVE  f[b - 1] \in WalkState /\ f[b] = walk_bit(s, f[b - 1], b)
    OBVIOUS
  <2>1. f[b - 1] \in WalkState
    BY <1>0, <1>3
  <2>. QED  BY <1>3, <2>1
<1>5. Is(f)
  <2> HIDE DEF a
  <2>. QED  BY <1>0, <1>3, <1>4
<1>6. Is(g)
  BY <1>5
<1>7. Walk(s, W) = g[RomBits]
  BY DEF Walk
<1> HIDE DEF g
<1>8. g[0] = a /\ \A b \in 1..RomBits : g[b] = walk_bit(s, g[b - 1], b)
  <2> HIDE DEF a
  <2>. QED  BY <1>0, <1>6
<1>9. g \in [0..RomBits -> WalkState]
  <2> DEFINE P == {n \in Nat : n <= RomBits => g[n] \in WalkState}
  <2>1. 0 \in P
    BY <1>1, <1>8
  <2>2. \A n \in Nat : n \in P => n + 1 \in P
    <3> SUFFICES ASSUME NEW n \in Nat, n \in P, n + 1 <= RomBits
                 PROVE  g[n + 1] \in WalkState
      BY <1>0
    <3>1. g[n] \in WalkState /\ n + 1 \in 1..RomBits /\ (n + 1) - 1 = n
      BY <1>0
    <3>2. g[n + 1] = walk_bit(s, g[n], n + 1)
      BY <1>8, <3>1
    <3>. QED  BY <3>1, <3>2, WalkBitType
  <2> HIDE DEF P
  <2>3. Nat \subseteq P
    BY <2>1, <2>2, Induction
  <2>4. \A b \in 0..RomBits : g[b] \in WalkState
    BY <1>0, <2>3 DEF P
  <2> HIDE DEF a
  <2>5. g = [b \in 0..RomBits |-> g[b]]
    BY <1>6
  <2>. QED  BY <2>4, <2>5
<1>. QED  BY <1>7, <1>8, <1>9

\* d has the first n bits of r.
Agree(d, r, n) == \A i \in 1..n : d[i] = r[i]

\* Going along r, devices of W differ in bit i, and r has a 0 there.
Fork(W, r, i) == r[i] = 0 /\ \E d \in W : d[i] = 1 /\ Agree(d, r, i - 1)

\* z is the last of these bits among the first n, or 0.
LastFork(W, r, n, z) ==
    /\ z \in 0..n
    /\ z # 0 => Fork(W, r, z)
    /\ \A i \in (z + 1)..n : ~Fork(W, r, i)

\* Behind bit z, r has a 1 only where every device of W that goes along has.
LeastFrom(W, r, n, z) ==
    \A i \in (z + 1)..n : r[i] = 1 => \A d \in W : Agree(d, r, i - 1) => d[i] = 1

\* Where a search on W stands that found a device.
Position(W, s) ==
    /\ s.ROM_NO \in W
    /\ LastFork(W, s.ROM_NO, RomBits, s.LastDiscrepancy)
    /\ s.LastDeviceFlag <=> s.LastDiscrepancy = 0

\* The first n bits of the next address: those of the last one before its last
\* fork, and 1 there.
Turns(r, rom, n, z) ==
    \A i \in 1..n : (i < z => rom[i] = r[i]) /\ (i = z => rom[i] = 1)

\* The walk after b bits.
WalkInv(s, W, w, b) ==
    /\ w.alive = {d \in W : Agree(d, w.rom, b)}
    /\ w.alive # {}
    /\ LastFork(W, w.rom, b, w.last_zero)
    /\ LeastFrom(W, w.rom, b, s.LastDiscrepancy)
    /\ Position(W, s) /\ s.LastDiscrepancy # 0 =>
          Turns(s.ROM_NO, w.rom, b, s.LastDiscrepancy)

\* The direction in which a walk goes on: some device takes it; 0 is chosen
\* against devices with 1 exactly where it is noted; behind the last fork 1 is
\* taken only without a choice; before it the last address is followed, and at
\* it 1 is chosen.
Directs(s, alive, b, dir) ==
    /\ dir \in Bit
    /\ \E d \in alive : d[b] = dir
    /\ id_bit(alive, b) = cmp_id_bit(alive, b) /\ dir = 0 <=>
          dir = 0 /\ \E d \in alive : d[b] = 1
    /\ b > s.LastDiscrepancy /\ dir = 1 => \A d \in alive : d[b] = 1
    /\ b < s.LastDiscrepancy /\ s.ROM_NO \in alive => dir = s.ROM_NO[b]
    /\ /\ b = s.LastDiscrepancy
       /\ \E d \in alive : d[b] = 0
       /\ \E d \in alive : d[b] = 1
       => dir = 1

\* As long as some device takes part.
LEMMA Direction ==
    ASSUME NEW s \in SearchState, NEW alive \in SUBSET Rom, alive # {},
           NEW b \in 1..RomBits
    PROVE  Directs(s, alive, b, search_direction(s, alive, b))
<1> DEFINE dir == search_direction(s, alive, b)
<1>1. \A d \in alive : d[b] \in Bit
  BY DEF Rom
<1>2. s.LastDiscrepancy \in Int /\ s.ROM_NO[b] \in Bit /\ b \in Int
  BY OneWireAssumption DEF SearchState, Rom
<1>3. id_bit(alive, b) = 0 <=> \E d \in alive : d[b] = 0
  BY DEF id_bit
<1>4. cmp_id_bit(alive, b) = 0 <=> \E d \in alive : d[b] = 1
  BY DEF cmp_id_bit
<1>5. id_bit(alive, b) \in Bit /\ cmp_id_bit(alive, b) \in Bit
  BY DEF id_bit, cmp_id_bit, Bit
<1>6. dir \in Bit
  BY DirectionType
<1>7. PICK e \in alive : TRUE
  OBVIOUS
<1>8. e[b] = 0 \/ e[b] = 1
  BY <1>1 DEF Bit
<1>9. dir = IF id_bit(alive, b) # cmp_id_bit(alive, b) THEN id_bit(alive, b)
            ELSE IF b < s.LastDiscrepancy THEN s.ROM_NO[b]
            ELSE IF b = s.LastDiscrepancy THEN 1 ELSE 0
  BY DEF search_direction
<1> HIDE DEF dir
<1>10. \A x \in Bit : x = 0 \/ x = 1
  BY DEF Bit
<1>11. \E d \in alive : d[b] = dir
  BY <1>3, <1>4, <1>5, <1>6, <1>7, <1>8, <1>9, <1>10
<1>12. id_bit(alive, b) = cmp_id_bit(alive, b) /\ dir = 0 <=>
         dir = 0 /\ \E d \in alive : d[b] = 1
  BY <1>3, <1>4, <1>5, <1>7, <1>8, <1>9, <1>10
<1>13. b > s.LastDiscrepancy /\ dir = 1 => \A d \in alive : d[b] = 1
  BY <1>1, <1>2, <1>3, <1>5, <1>9, <1>10
<1>14. b < s.LastDiscrepancy /\ s.ROM_NO \in alive => dir = s.ROM_NO[b]
  BY <1>1, <1>2, <1>3, <1>4, <1>5, <1>9, <1>10
<1>15. /\ b = s.LastDiscrepancy
       /\ \E d \in alive : d[b] = 0
       /\ \E d \in alive : d[b] = 1
       => dir = 1
  BY <1>2, <1>3, <1>4, <1>9
<1>. QED  BY <1>6, <1>11, <1>12, <1>13, <1>14, <1>15 DEF Directs, dir

\* One pass of the walk.
LEMMA WalkStep ==
    ASSUME NEW s \in SearchState, NEW W \in SUBSET Rom, NEW w \in WalkState,
           NEW b \in 1..RomBits, WalkInv(s, W, w, b - 1)
    PROVE  WalkInv(s, W, walk_bit(s, w, b), b)
<1> DEFINE dir == search_direction(s, w.alive, b)
           v == walk_bit(s, w, b)
           z == s.LastDiscrepancy
<1>0. /\ w.alive \in SUBSET Rom /\ w.alive # {} /\ w.rom \in Rom
      /\ w.last_zero \in 0..(b - 1) /\ z \in 0..RomBits
      /\ RomBits \in Nat /\ b \in Nat /\ b - 1 \in Nat
      /\ w.alive = {d \in W : Agree(d, w.rom, b - 1)}
  BY OneWireAssumption DEF WalkInv, WalkState, SearchState, LastFork
<1>1. /\ dir \in Bit
      /\ \E d \in w.alive : d[b] = dir
      /\ id_bit(w.alive, b) = cmp_id_bit(w.alive, b) /\ dir = 0 <=>
            dir = 0 /\ \E d \in w.alive : d[b] = 1
      /\ b > z /\ dir = 1 => \A d \in w.alive : d[b] = 1
      /\ b < z /\ s.ROM_NO \in w.alive => dir = s.ROM_NO[b]
      /\ /\ b = z
         /\ \E d \in w.alive : d[b] = 0
         /\ \E d \in w.alive : d[b] = 1
         => dir = 1
  <2>1. Directs(s, w.alive, b, dir)
    BY <1>0, Direction
  <2> HIDE DEF dir
  <2>. QED  BY <2>1 DEF Directs
<1>2. /\ v.alive = {d \in w.alive : d[b] = dir}
      /\ v.rom = [w.rom EXCEPT ![b] = dir]
      /\ v.last_zero = IF dir = 0 /\ \E d \in w.alive : d[b] = 1
                       THEN b ELSE w.last_zero
  BY <1>0, <1>1 DEF walk_bit
<1> HIDE DEF dir, v, z
<1>3. v.rom[b] = dir /\ \A i \in 1..(b - 1) : v.rom[i] = w.rom[i]
  BY <1>0, <1>2 DEF Rom
<1>4. \A d : \A i \in 0..(b - 1) : Agree(d, v.rom, i) <=> Agree(d, w.rom, i)
  BY <1>0, <1>3 DEF Agree
<1>5. \A d : Agree(d, v.rom, b) <=> Agree(d, w.rom, b - 1) /\ d[b] = dir
  BY <1>0, <1>3 DEF Agree
<1>6. v.alive = {d \in W : Agree(d, v.rom, b)} /\ v.alive # {}
  BY <1>0, <1>1, <1>2, <1>5
<1>7. \A i \in 1..(b - 1) : Fork(W, v.rom, i) <=> Fork(W, w.rom, i)
  BY <1>0, <1>3, <1>4 DEF Fork
<1>8. Fork(W, v.rom, b) <=> dir = 0 /\ \E d \in w.alive : d[b] = 1
  BY <1>0, <1>3, <1>4 DEF Fork
<1>9. LastFork(W, v.rom, b, v.last_zero)
  <2>1. LastFork(W, w.rom, b - 1, w.last_zero)
    BY DEF WalkInv
  <2>2. CASE Fork(W, v.rom, b)
    BY <1>0, <1>2, <1>8, <2>2 DEF LastFork
  <2>3. CASE ~Fork(W, v.rom, b)
    <3>1. v.last_zero = w.last_zero
      BY <1>2, <1>8, <2>3
    <3>2. v.last_zero \in 0..b
      BY <1>0, <3>1
    <3>3. v.last_zero # 0 => Fork(W, v.rom, v.last_zero)
      BY <1>0, <1>7, <2>1, <3>1 DEF LastFork
    <3>4. \A i \in (v.last_zero + 1)..b : ~Fork(W, v.rom, i)
      BY <1>0, <1>7, <2>1, <2>3, <3>1 DEF LastFork
    <3>. QED  BY <3>2, <3>3, <3>4 DEF LastFork
  <2>. QED  BY <2>2, <2>3
<1>10. LeastFrom(W, v.rom, b, z)
  <2> SUFFICES ASSUME NEW i \in (z + 1)..b, v.rom[i] = 1,
                      NEW d \in W, Agree(d, v.rom, i - 1)
               PROVE  d[i] = 1
    BY DEF LeastFrom
  <2>1. CASE i = b
    BY <1>0, <1>1, <1>3, <1>4, <2>1
  <2>2. CASE i < b
    <3>1. i \in (z + 1)..(b - 1) /\ i \in 1..(b - 1) /\ i - 1 \in 0..(b - 1)
      BY <1>0, <2>2
    <3>2. w.rom[i] = 1 /\ Agree(d, w.rom, i - 1)
      BY <1>3, <1>4, <3>1
    <3>3. LeastFrom(W, w.rom, b - 1, z)
      BY DEF WalkInv, z
    <3>. QED  BY <3>1, <3>2, <3>3 DEF LeastFrom
  <2>. QED  BY <1>0, <2>1, <2>2
<1>11. ASSUME Position(W, s), z # 0 PROVE Turns(s.ROM_NO, v.rom, b, z)
  <2> DEFINE r == s.ROM_NO
  <2>0. r \in W /\ LastFork(W, r, RomBits, z)
    BY <1>11 DEF Position, z
  <2>1. Turns(r, w.rom, b - 1, z)
    BY <1>11 DEF WalkInv, z
  <2> HIDE DEF r
  <2>2. \A i \in 1..(b - 1) : (i < z => v.rom[i] = r[i]) /\ (i = z => v.rom[i] = 1)
    BY <1>3, <2>1 DEF Turns
  <2>3. b <= z => r \in w.alive
    <3> SUFFICES ASSUME b <= z PROVE Agree(r, w.rom, b - 1)
      BY <1>0, <2>0
    <3>. QED  BY <1>0, <2>1 DEF Agree, Turns
  <2>4. b < z => dir = r[b]
    BY <1>0, <1>1, <2>3 DEF r
  <2>5. b = z => dir = 1
    <3> SUFFICES ASSUME b = z PROVE dir = 1
      OBVIOUS
    <3>1. Fork(W, r, b)
      BY <1>11, <2>0 DEF LastFork
    <3>2. r[b] = 0 /\ r \in w.alive
      BY <1>0, <2>3, <3>1 DEF Fork
    <3>3. PICK d \in W : d[b] = 1 /\ Agree(d, r, b - 1)
      BY <3>1 DEF Fork
    <3>4. d \in w.alive
      <4>1. \A i \in 1..(b - 1) : w.rom[i] = r[i]
        BY <1>0, <2>1 DEF Turns
      <4>. QED  BY <1>0, <3>3, <4>1 DEF Agree
    <3>. QED  BY <1>1, <3>2, <3>3, <3>4
  <2>. QED  BY <1>0, <1>3, <2>2, <2>4, <2>5 DEF Turns, r
<1>. QED  BY <1>6, <1>9, <1>10, <1>11 DEF WalkInv, v, z

\* Addresses with the same bits are the same.
LEMMA SameBits ==
    ASSUME NEW a \in Rom, NEW b \in Rom, \A i \in 1..RomBits : a[i] = b[i]
    PROVE  a = b
<1>1. a = [i \in 1..RomBits |-> a[i]] /\ b = [i \in 1..RomBits |-> b[i]]
  BY DEF Rom
<1>. QED  BY <1>1, Zenon

\* The whole walk, on a wire with devices.
LEMMA WalkEnds ==
    ASSUME NEW s \in SearchState, NEW W \in SUBSET Rom, W # {}
    PROVE  /\ Walk(s, W) \in WalkState
           /\ WalkInv(s, W, Walk(s, W), RomBits)
           /\ Walk(s, W).rom \in W
<1>0. RomBits \in Nat
  BY OneWireAssumption
<1>1. PICK f \in [0..RomBits -> WalkState] :
         /\ f[0] = [alive |-> W, rom |-> s.ROM_NO, last_zero |-> 0]
         /\ \A b \in 1..RomBits : f[b] = walk_bit(s, f[b - 1], b)
         /\ Walk(s, W) = f[RomBits]
  BY WalkUnfolds
<1> DEFINE P == {n \in Nat : n <= RomBits => WalkInv(s, W, f[n], n)}
<1>2. 0 \in P
  <2>1. f[0].alive = W /\ f[0].last_zero = 0
    BY <1>1
  <2>2. \A d : Agree(d, f[0].rom, 0)
    BY DEF Agree
  <2>3. LastFork(W, f[0].rom, 0, 0)
    BY DEF LastFork
  <2>4. LeastFrom(W, f[0].rom, 0, s.LastDiscrepancy)
    BY DEF LeastFrom, SearchState
  <2>5. Turns(s.ROM_NO, f[0].rom, 0, s.LastDiscrepancy)
    BY DEF Turns
  <2>. QED  BY <2>1, <2>2, <2>3, <2>4, <2>5 DEF WalkInv
<1>3. \A n \in Nat : n \in P => n + 1 \in P
  <2> SUFFICES ASSUME NEW n \in Nat, n \in P, n + 1 <= RomBits
               PROVE  WalkInv(s, W, f[n + 1], n + 1)
    BY <1>0
  <2> DEFINE b == n + 1
  <2>1. b \in 1..RomBits /\ b - 1 = n /\ n \in 0..RomBits
    BY <1>0
  <2>2. f[n] \in WalkState /\ WalkInv(s, W, f[n], n)
    BY <1>0, <1>1, <2>1
  <2>3. f[b] = walk_bit(s, f[n], b)
    BY <1>1, <2>1
  <2> HIDE DEF b
  <2>4. WalkInv(s, W, walk_bit(s, f[n], b), b)
    BY <2>1, <2>2, WalkStep
  <2>. QED  BY <2>3, <2>4 DEF b
<1> HIDE DEF P
<1>4. Nat \subseteq P
  BY <1>2, <1>3, Induction
<1>5. RomBits \in P
  BY <1>0, <1>4
<1>6. Walk(s, W) \in WalkState /\ WalkInv(s, W, Walk(s, W), RomBits)
  BY <1>0, <1>1, <1>5 DEF P
<1>7. PICK d \in W : Agree(d, Walk(s, W).rom, RomBits)
  BY <1>6 DEF WalkInv
<1>8. d = Walk(s, W).rom
  <2>1. d \in Rom /\ Walk(s, W).rom \in Rom
    BY <1>6 DEF WalkState
  <2>. QED  BY <1>7, <2>1, SameBits DEF Agree
<1>. QED  BY <1>6, <1>8

-----------------------------------------------------------------------------
(* The order of the addresses *)

\* Two addresses part at some bit.
LEMMA Part ==
    ASSUME NEW a \in Rom, NEW b \in Rom, a # b
    PROVE  \E i \in 1..RomBits :
              /\ Agree(a, b, i - 1) /\ Agree(b, a, i - 1)
              /\ \/ a[i] = 0 /\ b[i] = 1
                 \/ a[i] = 1 /\ b[i] = 0
<1> DEFINE S == {i \in 1..RomBits : a[i] # b[i]}
<1>0. RomBits \in Nat
  BY OneWireAssumption
<1>1. S \in SUBSET Nat
  BY <1>0
<1>2. S # {}
  BY SameBits
<1>3. PICK i \in S : \A m \in S : i <= m
  <2> HIDE DEF S
  <2>. QED  BY <1>1, <1>2, Least
<1>4. \A m \in 1..(i - 1) : a[m] = b[m]
  BY <1>0, <1>3
<1>5. i \in 1..RomBits /\ a[i] # b[i] /\ a[i] \in Bit /\ b[i] \in Bit
  BY <1>3 DEF Rom
<1>6. (a[i] = 0 /\ b[i] = 1) \/ (a[i] = 1 /\ b[i] = 0)
  <2>1. \A x, y \in Bit : x # y => (x = 0 /\ y = 1) \/ (x = 1 /\ y = 0)
    BY DEF Bit
  <2>. QED  BY <1>5, <2>1, Zenon
<1>. QED  BY <1>4, <1>5, <1>6 DEF Agree

\* Where a has a 0 and b a 1 behind the same bits, a comes before b.
LEMMA Parted ==
    ASSUME NEW a, NEW b, NEW i \in 1..RomBits,
           Agree(a, b, i - 1), a[i] = 0, b[i] = 1
    PROVE  Before(a, b)
BY DEF Before, Agree

\* The order is strict.
LEMMA BeforeTransitive ==
    ASSUME NEW a \in Rom, NEW b \in Rom, NEW c \in Rom, Before(a, b), Before(b, c)
    PROVE  Before(a, c)
<1>0. \A i \in 1..RomBits : a[i] \in Int /\ b[i] \in Int /\ c[i] \in Int
  BY DEF Rom, Bit
<1>1. PICK j \in 1..RomBits : a[j] < b[j] /\ \A i \in 1..(j - 1) : a[i] = b[i]
  BY DEF Before
<1>2. PICK k \in 1..RomBits : b[k] < c[k] /\ \A i \in 1..(k - 1) : b[i] = c[i]
  BY DEF Before
<1>3. CASE j <= k
  <2>1. a[j] < c[j]
    BY <1>0, <1>1, <1>2, <1>3, OneWireAssumption
  <2>2. \A i \in 1..(j - 1) : a[i] = c[i]
    BY <1>1, <1>2, <1>3, OneWireAssumption
  <2>. QED  BY <2>1, <2>2 DEF Before
<1>4. CASE k < j
  <2>1. a[k] < c[k]
    BY <1>0, <1>1, <1>2, <1>4, OneWireAssumption
  <2>2. \A i \in 1..(k - 1) : a[i] = c[i]
    BY <1>1, <1>2, <1>4, OneWireAssumption
  <2>. QED  BY <2>1, <2>2 DEF Before
<1>. QED  BY <1>3, <1>4, OneWireAssumption

\* No address comes before itself.
LEMMA BeforeIrreflexive ==
    ASSUME NEW a \in Rom
    PROVE  ~Before(a, a)
BY DEF Before, Rom, Bit

\* Before or the same.
UpTo(a, b) == a = b \/ Before(a, b)

\* A walk without a last fork finds the first device of all.
LEMMA FirstIsLeast ==
    ASSUME NEW W \in SUBSET Rom, NEW r \in W, LeastFrom(W, r, RomBits, 0), NEW d \in W
    PROVE  UpTo(r, d)
<1> SUFFICES ASSUME r # d PROVE Before(r, d)
  BY DEF UpTo
<1>1. PICK i \in 1..RomBits :
         /\ Agree(r, d, i - 1) /\ Agree(d, r, i - 1)
         /\ \/ r[i] = 0 /\ d[i] = 1
            \/ r[i] = 1 /\ d[i] = 0
  BY Part
<1>2. ~(r[i] = 1 /\ d[i] = 0)
  BY <1>1 DEF LeastFrom
<1>. QED  BY <1>1, <1>2, Parted

\* An address without a fork belongs to the last device.
LEMMA LastIsGreatest ==
    ASSUME NEW W \in SUBSET Rom, NEW r \in W, LastFork(W, r, RomBits, 0), NEW d \in W
    PROVE  UpTo(d, r)
<1> SUFFICES ASSUME d # r PROVE Before(d, r)
  BY DEF UpTo
<1>1. PICK i \in 1..RomBits :
         /\ Agree(d, r, i - 1) /\ Agree(r, d, i - 1)
         /\ \/ d[i] = 0 /\ r[i] = 1
            \/ d[i] = 1 /\ r[i] = 0
  BY Part
<1>2. ~Fork(W, r, i)
  BY DEF LastFork
<1>3. ~(d[i] = 1 /\ r[i] = 0)
  BY <1>1, <1>2 DEF Fork
<1>. QED  BY <1>1, <1>3, Parted

\* A walk that turns at the last fork of r finds the device next to r.
LEMMA NextIsSuccessor ==
    ASSUME NEW W \in SUBSET Rom, NEW r \in W, NEW q \in W, NEW z \in 1..RomBits,
           LastFork(W, r, RomBits, z), Turns(r, q, RomBits, z),
           LeastFrom(W, q, RomBits, z)
    PROVE  Before(r, q) /\ \A d \in W : UpTo(d, r) \/ UpTo(q, d)
<1>0. RomBits \in Nat /\ z \in Nat
  BY OneWireAssumption
<1>1. Agree(r, q, z - 1) /\ Agree(q, r, z - 1) /\ r[z] = 0 /\ q[z] = 1
  BY <1>0 DEF Agree, Turns, LastFork, Fork
<1>2. Before(r, q)
  BY <1>1, Parted
<1>3. ASSUME NEW d \in W, d # q, ~Before(q, d) PROVE UpTo(d, r)
  <2>1. PICK i \in 1..RomBits :
           /\ Agree(q, d, i - 1) /\ Agree(d, q, i - 1)
           /\ \/ q[i] = 0 /\ d[i] = 1
              \/ q[i] = 1 /\ d[i] = 0
    BY <1>3, Part
  <2>2. q[i] = 1 /\ d[i] = 0
    BY <1>3, <2>1, Parted
  <2>3. i <= z
    BY <1>0, <2>1, <2>2 DEF LeastFrom
  <2>4. CASE i < z
    <3>1. Agree(d, r, i - 1) /\ r[i] = 1
      BY <1>0, <1>1, <2>1, <2>2, <2>4 DEF Agree
    <3>. QED  BY <2>2, <3>1, Parted DEF UpTo
  <2>5. CASE i = z
    <3>1. Agree(d, r, z - 1) /\ d[z] = 0
      BY <1>0, <1>1, <2>1, <2>2, <2>5 DEF Agree
    <3> SUFFICES ASSUME d # r PROVE Before(d, r)
      BY DEF UpTo
    <3>2. PICK j \in 1..RomBits :
             /\ Agree(d, r, j - 1) /\ Agree(r, d, j - 1)
             /\ \/ d[j] = 0 /\ r[j] = 1
                \/ d[j] = 1 /\ r[j] = 0
      BY Part
    <3>3. j > z
      BY <1>0, <1>1, <3>1, <3>2 DEF Agree
    <3>4. ~Fork(W, r, j)
      BY <1>0, <3>3 DEF LastFork
    <3>5. ~(d[j] = 1 /\ r[j] = 0)
      BY <3>2, <3>4 DEF Fork
    <3>. QED  BY <3>2, <3>5, Parted
  <2>. QED  BY <1>0, <2>3, <2>4, <2>5
<1>4. \A d \in W : UpTo(d, r) \/ UpTo(q, d)
  BY <1>3 DEF UpTo
<1>. QED  BY <1>2, <1>4

-----------------------------------------------------------------------------
(* One search *)

\* What search r on W, continued from s, finds.
Finds(s, W, r) ==
    /\ r.search \in SearchState
    /\ r.found <=> ~s.LastDeviceFlag /\ W # {}
    /\ r.found => Position(W, r.search)
    /\ r.found /\ s.LastDiscrepancy = 0 => \A d \in W : UpTo(r.search.ROM_NO, d)
    /\ r.found /\ Position(W, s) =>
          /\ Before(s.ROM_NO, r.search.ROM_NO)
          /\ \A d \in W : UpTo(d, s.ROM_NO) \/ UpTo(r.search.ROM_NO, d)

\* ds_search does what Finds says, from any state it may be left in.
LEMMA DsSearch ==
    ASSUME NEW s \in SearchState, NEW W \in SUBSET Devices
    PROVE  Finds(s, W, ds_search(s, W))
<1> DEFINE w == Walk(s, W)
           r == ds_search(s, W)
<1>0. /\ W \in SUBSET Rom /\ \A d \in W : family(d) # 0
      /\ RomBits \in Nat
      /\ s.ROM_NO \in Rom /\ s.LastDiscrepancy \in 0..RomBits
  BY OneWireAssumption DEF Devices, SearchState
<1>1. CASE s.LastDeviceFlag \/ W = {}
  <2>1. ~r.found
    BY <1>1, Zenon DEF ds_search
  <2>2. r.search = [reset_search EXCEPT !.ROM_NO = s.ROM_NO]
    BY <1>1, Zenon DEF ds_search
  <2>3. reset_search \in SearchState
    <3>1. 0 \in 0..RomBits /\ 0 \in Bit /\ FALSE \in BOOLEAN
      BY <1>0 DEF Bit
    <3>2. [b \in 1..RomBits |-> 0] \in Rom
      BY <3>1 DEF Rom
    <3>. QED  BY <3>1, <3>2, Zenon DEF SearchState, reset_search
  <2>4. \A q \in SearchState : \A x \in Rom : [q EXCEPT !.ROM_NO = x] \in SearchState
    BY ZenonT(60) DEF SearchState
  <2>5. r.search \in SearchState
    BY <1>0, <2>2, <2>3, <2>4, Zenon
  <2> HIDE DEF r
  <2>. QED  BY <1>1, <2>1, <2>5, Zenon DEF Finds, r
<1>2. CASE ~s.LastDeviceFlag /\ W # {}
  <2>1. w \in WalkState /\ WalkInv(s, W, w, RomBits) /\ w.rom \in W
    BY <1>0, <1>2, WalkEnds
  <2>2. w.alive # {} /\ family(w.rom) # 0
    BY <1>0, <2>1 DEF WalkInv
  <2>3. r.found
    BY <1>2, <2>2, Zenon DEF ds_search
  <2>4. r.search = [ROM_NO |-> w.rom, LastDiscrepancy |-> w.last_zero,
                    LastDeviceFlag |-> w.last_zero = 0]
    BY <1>2, <2>2, Zenon DEF ds_search
  <2> DEFINE last == w.last_zero = 0
  <2>a. r.search = [ROM_NO |-> w.rom, LastDiscrepancy |-> w.last_zero, LastDeviceFlag |-> last]
    BY <2>4
  <2>b. last \in BOOLEAN
    OBVIOUS
  <2> HIDE DEF r, w, last
  <2>5. r.search \in SearchState
    <3>1. w.rom \in Rom /\ w.last_zero \in 0..RomBits
      BY <2>1 DEF WalkState
    <3>2. \A x \in Rom : \A y \in 0..RomBits : \A l \in BOOLEAN :
             [ROM_NO |-> x, LastDiscrepancy |-> y, LastDeviceFlag |-> l] \in SearchState
      BY Zenon DEF SearchState
    <3>. QED  BY <2>a, <2>b, <3>1, <3>2, Zenon
  <2>6. /\ r.search.ROM_NO = w.rom /\ r.search.LastDiscrepancy = w.last_zero
        /\ r.search.LastDeviceFlag <=> w.last_zero = 0
    <3>2. r.search.ROM_NO = w.rom /\ r.search.LastDiscrepancy = w.last_zero
      BY <2>a
    <3>3. r.search.LastDeviceFlag = last
      BY <2>a
    <3>. QED  BY <3>2, <3>3, Zenon DEF last
  <2>7. Position(W, r.search)
    <3>1. LastFork(W, w.rom, RomBits, w.last_zero)
      BY <2>1 DEF WalkInv
    <3>. QED  BY <2>1, <2>6, <3>1, Zenon DEF Position
  <2>8. ASSUME s.LastDiscrepancy = 0 PROVE \A d \in W : UpTo(w.rom, d)
    BY <1>0, <2>1, <2>8, FirstIsLeast DEF WalkInv
  <2>9. ASSUME Position(W, s)
        PROVE  /\ Before(s.ROM_NO, w.rom)
               /\ \A d \in W : UpTo(d, s.ROM_NO) \/ UpTo(w.rom, d)
    <3>1. s.LastDiscrepancy # 0
      BY <1>2, <2>9, Zenon DEF Position
    <3>2. s.LastDiscrepancy \in 1..RomBits
      BY <1>0, <3>1
    <3>3. /\ s.ROM_NO \in W
          /\ LastFork(W, s.ROM_NO, RomBits, s.LastDiscrepancy)
      BY <2>9, Zenon DEF Position
    <3>4. /\ Turns(s.ROM_NO, w.rom, RomBits, s.LastDiscrepancy)
          /\ LeastFrom(W, w.rom, RomBits, s.LastDiscrepancy)
      BY <2>1, <2>9, <3>1, Zenon DEF WalkInv
    <3>. QED  BY <1>0, <2>1, <3>2, <3>3, <3>4, NextIsSuccessor
  <2>. QED  BY <1>2, <2>3, <2>5, <2>6, <2>7, <2>8, <2>9, Zenon DEF Finds, r
<1>. QED  BY <1>1, <1>2, Zenon

-----------------------------------------------------------------------------
(* The loop of searches *)

LoopState == [search : SearchState, results : Seq(Rom), more : BOOLEAN]

\* A search is continued on a wire with devices.
Continues(l, W) == l.more /\ ~l.search.LastDeviceFlag /\ W # {}

\* What a pass from l to m does, on the devices of W and with room for M
\* thermometers.
Passes(l, W, M, m) ==
    /\ ~l.more => m = l
    /\ l.more /\ ~Continues(l, W) => ~m.more /\ m.results = l.results
    /\ Continues(l, W) =>
          /\ Finds(l.search, W, [found |-> TRUE, search |-> m.search])
          /\ m.results = IF m.search.ROM_NO \in Thermometers(W)
                         THEN Append(l.results, m.search.ROM_NO) ELSE l.results
          /\ m.more <=> Len(m.results) < M

\* A pass of exec_ds18b20 is one of these.
LEMMA SearchOnce ==
    ASSUME NEW l \in LoopState, NEW W \in SUBSET Devices, NEW M \in Nat
    PROVE  /\ search_once(l, W, M) \in LoopState
           /\ Passes(l, W, M, search_once(l, W, M))
<1> DEFINE r == ds_search(l.search, W)
           m == search_once(l, W, M)
           known == family(r.search.ROM_NO) \in {DS18S20, DS18B20}
           results == IF r.found /\ known
                      THEN Append(l.results, r.search.ROM_NO) ELSE l.results
           more == SearchesOn(r.found, known, Len(results) < M)
<1>0. l.search \in SearchState /\ l.results \in Seq(Rom) /\ l.more \in BOOLEAN
  BY Zenon DEF LoopState
<1>1. Finds(l.search, W, r)
  BY <1>0, DsSearch
<1>2. ~l.more => m = l
  BY Zenon DEF search_once
<1>3. l.more => m = [search |-> r.search, results |-> results, more |-> more]
  BY Zenon DEF search_once
<1>4. more <=> r.found /\ Len(results) < M
  BY Zenon DEF SearchesOn
<1>5. more \in BOOLEAN
  BY Zenon DEF SearchesOn
<1>6. r.found <=> ~l.search.LastDeviceFlag /\ W # {}
  BY <1>1, Zenon DEF Finds
<1> HIDE DEF r, m
<1>7. r.search \in SearchState /\ r.search.ROM_NO \in Rom
  BY <1>1 DEF Finds, SearchState
<1>8. results \in Seq(Rom)
  BY <1>0, <1>7
<1> HIDE DEF more, known, results
<1>9. m \in LoopState
  <2>1. \A x \in SearchState : \A y \in Seq(Rom) : \A z \in BOOLEAN :
           [search |-> x, results |-> y, more |-> z] \in LoopState
    BY Zenon DEF LoopState
  <2>. QED  BY <1>2, <1>3, <1>5, <1>7, <1>8, <2>1, Zenon
<1>10. l.more => m.search = r.search /\ m.results = results /\ m.more = more
  BY <1>3
<1>11. ASSUME l.more, ~Continues(l, W) PROVE ~m.more /\ m.results = l.results
  <2>1. ~r.found
    BY <1>6, <1>11, Zenon DEF Continues
  <2>. QED  BY <1>4, <1>10, <1>11, <2>1, Zenon DEF results
<1>12. ASSUME Continues(l, W)
       PROVE  /\ Finds(l.search, W, [found |-> TRUE, search |-> m.search])
              /\ m.results = IF m.search.ROM_NO \in Thermometers(W)
                             THEN Append(l.results, m.search.ROM_NO) ELSE l.results
              /\ m.more <=> Len(m.results) < M
  <2>1. r.found /\ l.more
    BY <1>6, <1>12, Zenon DEF Continues
  <2>2. m.search = r.search /\ m.results = results /\ m.more = more
    BY <1>10, <2>1, Zenon
  <2>3. r.search.ROM_NO \in W
    BY <1>1, <2>1, Zenon DEF Finds, Position
  <2>4. known <=> r.search.ROM_NO \in Thermometers(W)
    BY <2>3, Zenon DEF known, Thermometers
  <2>5. m.results = IF m.search.ROM_NO \in Thermometers(W)
                    THEN Append(l.results, m.search.ROM_NO) ELSE l.results
    BY <2>1, <2>2, <2>4, Zenon DEF results
  <2>6. m.more <=> Len(m.results) < M
    BY <1>4, <2>1, <2>2, Zenon
  <2>7. Finds(l.search, W, [found |-> TRUE, search |-> m.search])
    <3> DEFINE q == [found |-> TRUE, search |-> m.search]
    <3>1. q.found /\ q.search = r.search
      BY <2>2, Zenon
    <3> HIDE DEF q
    <3>2. Finds(l.search, W, q)
      BY <1>1, <2>1, <3>1, Zenon DEF Finds
    <3>. QED  BY <3>2 DEF q
  <2>. QED  BY <2>5, <2>6, <2>7
<1>13. Passes(l, W, M, m)
  BY <1>2, <1>11, <1>12, Zenon DEF Passes
<1>. QED  BY <1>9, <1>13 DEF m

\* There are finitely many addresses.
LEMMA RomFinite == IsFiniteSet(Rom)
<1> DEFINE f == [r \in Rom |-> {i \in 1..RomBits : r[i] = 1}]
<1>1. IsFiniteSet(SUBSET (1..RomBits))
  <2> DEFINE B == 1..RomBits
  <2>1. 1 \in Int /\ RomBits \in Int
    BY OneWireAssumption
  <2>2. IsFiniteSet(B)
    BY <2>1, FS_Interval
  <2> HIDE DEF B
  <2>3. IsFiniteSet(SUBSET B)
    BY <2>2, FS_SUBSET, Zenon
  <2>. QED  BY <2>3 DEF B
<1>2. f \in [Rom -> SUBSET (1..RomBits)]
  OBVIOUS
<1>3. \A a, b \in Rom : f[a] = f[b] => a = b
  <2> SUFFICES ASSUME NEW a \in Rom, NEW b \in Rom, f[a] = f[b] PROVE a = b
    OBVIOUS
  <2>1. ASSUME NEW i \in 1..RomBits PROVE a[i] = b[i]
    <3>1. i \in f[a] <=> i \in f[b]
      OBVIOUS
    <3>2. a[i] = 1 <=> b[i] = 1
      BY <3>1
    <3>3. a[i] \in Bit /\ b[i] \in Bit
      BY DEF Rom
    <3>4. \A x, y \in Bit : (x = 1 <=> y = 1) => x = y
      BY DEF Bit
    <3>. QED  BY <3>2, <3>3, <3>4, Zenon
  <2>. QED  BY <2>1, SameBits
<1>4. f \in Injection(Rom, SUBSET (1..RomBits))
  <2>1. DOMAIN f = Rom
    OBVIOUS
  <2> HIDE DEF f
  <2>. QED  BY <1>2, <1>3, <2>1 DEF Injection, IsInjective
<1> HIDE DEF f
<1>. QED  BY <1>1, <1>4, FS_Injection

\* The loop is a computation too, on wire at first and on later behind that.
On(k, wr, later) == IF k = 1 THEN wr ELSE later

Start == [search |-> reset_search, results |-> << >>, more |-> TRUE]

\* The loop begins with a search of its own and nothing found.
LEMMA StartType == Start \in LoopState
<1>1. RomBits \in Nat /\ 0 \in 0..RomBits /\ 0 \in Bit /\ FALSE \in BOOLEAN /\ TRUE \in BOOLEAN
  BY OneWireAssumption DEF Bit
<1>2. [b \in 1..RomBits |-> 0] \in Rom
  BY <1>1 DEF Rom
<1>3. reset_search \in SearchState
  BY <1>1, <1>2, Zenon DEF SearchState, reset_search
<1>4. << >> \in Seq(Rom)
  OBVIOUS
<1>. QED  BY <1>1, <1>3, <1>4, Zenon DEF Start, LoopState

\* exec_ds18b20 goes through one more pass than there are devices.
LEMMA LoopUnfolds ==
    ASSUME NEW wr \in SUBSET Devices, NEW later \in SUBSET wr, NEW M \in Nat
    PROVE  \E f \in [0..(Cardinality(wr) + 1) -> LoopState] :
              /\ f[0] = Start
              /\ \A k \in 1..(Cardinality(wr) + 1) :
                    f[k] = search_once(f[k - 1], On(k, wr, later), M)
              /\ exec_ds18b20(wr, later, M) = f[Cardinality(wr) + 1]
<1> DEFINE N == Cardinality(wr) + 1
           F == [k \in 1..N |->
                   [l \in LoopState |-> search_once(l, On(k, wr, later), M)]]
           Is(f) == f = [k \in 0..N |->
                           IF k = 0 THEN Start
                           ELSE search_once(f[k - 1], On(k, wr, later), M)]
           g == CHOOSE f : Is(f)
<1>0. N \in Nat
  <2>1. wr \in SUBSET Rom
    BY DEF Devices
  <2>2. IsFiniteSet(wr)
    BY <2>1, RomFinite, FS_Subset
  <2>3. Cardinality(wr) \in Nat
    BY <2>2, FS_CardinalityType
  <2>. QED  BY <2>3
<1>a. exec_ds18b20(wr, later, M) = g[N]
  BY DEF exec_ds18b20, On, Start
<1> HIDE DEF N
<1>1. \A k : On(k, wr, later) \in SUBSET Devices
  BY DEF On
<1>b. \A k \in 1..N : \A l \in LoopState : search_once(l, On(k, wr, later), M) \in LoopState
  BY <1>1, SearchOnce
<1>2. F \in [1..N -> [LoopState -> LoopState]]
  BY <1>b
<1>3. PICK f \in [0..N -> LoopState] :
         f[0] = Start /\ \A k \in 1..N : f[k] = F[k][f[k - 1]]
  <2> HIDE DEF F
  <2>1. Computes(N, LoopState)
    BY <1>0, Recursion
  <2>. QED  BY <1>2, <2>1, StartType DEF Computes
<1>4. \A k \in 1..N : f[k - 1] \in LoopState /\ f[k] = search_once(f[k - 1], On(k, wr, later), M)
  <2> SUFFICES ASSUME NEW k \in 1..N
               PROVE  f[k - 1] \in LoopState /\ f[k] = search_once(f[k - 1], On(k, wr, later), M)
    OBVIOUS
  <2>1. f[k - 1] \in LoopState
    BY <1>0, <1>3
  <2>. QED  BY <1>3, <2>1
<1>5. Is(f)
  BY <1>0, <1>3, <1>4
<1>6. Is(g)
  BY <1>5
<1> HIDE DEF g
<1>8. g[0] = Start /\ \A k \in 1..N : g[k] = search_once(g[k - 1], On(k, wr, later), M)
  BY <1>0, <1>6
<1>9. g \in [0..N -> LoopState]
  <2> DEFINE P == {n \in Nat : n <= N => g[n] \in LoopState}
  <2>1. 0 \in P
    BY <1>8, StartType
  <2>2. \A n \in Nat : n \in P => n + 1 \in P
    <3> SUFFICES ASSUME NEW n \in Nat, n \in P, n + 1 <= N
                 PROVE  g[n + 1] \in LoopState
      BY <1>0
    <3>1. g[n] \in LoopState /\ n + 1 \in 1..N /\ (n + 1) - 1 = n
      BY <1>0
    <3>2. g[n + 1] = search_once(g[n], On(n + 1, wr, later), M)
      BY <1>8, <3>1
    <3>. QED  BY <1>b, <3>1, <3>2
  <2> HIDE DEF P
  <2>3. Nat \subseteq P
    BY <2>1, <2>2, Induction
  <2>4. \A k \in 0..N : g[k] \in LoopState
    BY <1>0, <2>3 DEF P
  <2>5. g = [k \in 0..N |-> g[k]]
    BY <1>6
  <2>. QED  BY <2>4, <2>5
<1>. QED  BY <1>a, <1>8, <1>9 DEF N

\* The devices of W that a search has met when it stands at r.
Met(W, r) == {d \in W : UpTo(d, r)}

\* A search that stands at a device has met one at least, and no more than
\* there are.
LEMMA MetSome ==
    ASSUME NEW W \in SUBSET Rom, NEW r \in W
    PROVE  /\ IsFiniteSet(W) /\ Cardinality(W) \in Nat
           /\ IsFiniteSet(Met(W, r)) /\ Cardinality(Met(W, r)) \in Nat
           /\ 1 <= Cardinality(Met(W, r)) /\ Cardinality(Met(W, r)) <= Cardinality(W)
<1>1. IsFiniteSet(W)
  BY RomFinite, FS_Subset
<1>2. Met(W, r) \in SUBSET W
  BY DEF Met
<1>3. IsFiniteSet(Met(W, r)) /\ Cardinality(Met(W, r)) <= Cardinality(W)
  BY <1>1, <1>2, FS_Subset
<1>4. Cardinality(W) \in Nat /\ Cardinality(Met(W, r)) \in Nat
  BY <1>1, <1>3, FS_CardinalityType
<1>5. r \in Met(W, r)
  BY DEF Met, UpTo
<1>6. Cardinality(Met(W, r)) # 0
  BY <1>3, <1>5, FS_EmptySet
<1>. QED  BY <1>1, <1>3, <1>4, <1>6

\* Each search meets one device more.
LEMMA MetMore ==
    ASSUME NEW W \in SUBSET Rom, NEW r \in W, NEW q \in W, Before(r, q)
    PROVE  Cardinality(Met(W, q)) >= Cardinality(Met(W, r)) + 1
<1>1. Met(W, r) \cup {q} \in SUBSET Met(W, q)
  <2> SUFFICES ASSUME NEW d \in W, UpTo(d, r) PROVE UpTo(d, q)
    BY DEF Met, UpTo
  <2>. QED  BY BeforeTransitive DEF UpTo
<1>2. q \notin Met(W, r)
  BY BeforeTransitive, BeforeIrreflexive DEF Met, UpTo
<1>3. /\ IsFiniteSet(Met(W, r)) /\ IsFiniteSet(Met(W, q))
      /\ Cardinality(Met(W, r)) \in Nat /\ Cardinality(Met(W, q)) \in Nat
  BY MetSome
<1>4. Cardinality(Met(W, r) \cup {q}) = Cardinality(Met(W, r)) + 1
  BY <1>2, <1>3, FS_AddElement
<1>5. Cardinality(Met(W, r) \cup {q}) <= Cardinality(Met(W, q))
  BY <1>1, <1>3, FS_Subset
<1>. QED  BY <1>3, <1>4, <1>5

\* After k passes: what was found is there and has room; a search that goes on
\* stands at a device, and has met one for each pass on the same wire.
LoopInv(wr, later, M, k, l) ==
    /\ Len(l.results) <= M
    /\ \A i \in 1..Len(l.results) : l.results[i] \in Thermometers(wr)
    /\ k = 0 => l = Start
    /\ k # 0 /\ l.more =>
          /\ Len(l.results) < M
          /\ Position(On(k, wr, later), l.search)
          /\ Cardinality(Met(On(k, wr, later), l.search.ROM_NO)) >=
                IF later = wr THEN k ELSE k - 1

\* What Start is made of.
LEMMA StartIs ==
    /\ Start.more
    /\ Start.results = << >>
    /\ ~Start.search.LastDeviceFlag
    /\ Start.search.LastDiscrepancy = 0
<1>1. Start.search = reset_search /\ Start.results = << >> /\ Start.more
  BY Zenon DEF Start
<1>2. ~reset_search.LastDeviceFlag /\ reset_search.LastDiscrepancy = 0
  BY Zenon DEF reset_search
<1>. QED  BY <1>1, <1>2, Zenon

\* One more pass, whatever came loose before it.
LEMMA LoopStep ==
    ASSUME NEW wr \in SUBSET Devices, NEW later \in SUBSET wr, NEW M \in Nat \ {0},
           NEW k \in Nat, NEW l \in LoopState, LoopInv(wr, later, M, k, l),
           NEW m \in LoopState, Passes(l, On(k + 1, wr, later), M, m)
    PROVE  LoopInv(wr, later, M, k + 1, m)
<1> DEFINE V == On(k + 1, wr, later)
<1>0. /\ V \in SUBSET wr /\ V \in SUBSET Rom /\ k + 1 # 0
      /\ l.results \in Seq(Rom) /\ m.results \in Seq(Rom)
      /\ k = 0 => V = wr
      /\ k # 0 => V = later
      /\ k = 1 => On(k, wr, later) = wr
      /\ k # 1 => On(k, wr, later) = later
  BY DEF On, Devices, LoopState
<1>1. CASE ~l.more
  <2>1. m = l /\ ~m.more
    BY <1>1, Zenon DEF Passes
  <2>. QED  BY <1>0, <2>1, Zenon DEF LoopInv
<1>2. CASE l.more /\ ~Continues(l, V)
  <2>1. m.results = l.results /\ ~m.more
    BY <1>2, Zenon DEF Passes
  <2>. QED  BY <1>0, <2>1, Zenon DEF LoopInv
<1>3. CASE Continues(l, V)
  <2> DEFINE q == m.search.ROM_NO
             r == l.search.ROM_NO
  <2>0. l.more
    BY <1>3, Zenon DEF Continues
  <2>1. /\ Position(V, m.search)
        /\ Position(V, l.search) => Before(r, q)
    <3> DEFINE x == [found |-> TRUE, search |-> m.search]
    <3>1. x.found /\ x.search = m.search
      BY Zenon
    <3>2. Finds(l.search, V, x)
      BY <1>3, Zenon DEF Passes
    <3> HIDE DEF x
    <3>. QED  BY <3>1, <3>2, Zenon DEF Finds
  <2>2. /\ m.results = IF q \in Thermometers(V) THEN Append(l.results, q) ELSE l.results
        /\ m.more <=> Len(m.results) < M
    BY <1>3, Zenon DEF Passes
  <2>3. q \in V
    BY <2>1, Zenon DEF Position
  <2>4. Len(l.results) < M
    BY <2>0, StartIs DEF LoopInv
  <2>5. \A i \in 1..Len(l.results) : l.results[i] \in Thermometers(wr)
    BY DEF LoopInv
  <2>6. q \in Thermometers(V) => q \in Thermometers(wr)
    BY <1>0 DEF Thermometers
  <2> HIDE DEF V, q
  <2>7. Len(m.results) <= M /\ \A i \in 1..Len(m.results) : m.results[i] \in Thermometers(wr)
    <3>1. CASE q \in Thermometers(V)
      <4>1. m.results = Append(l.results, q) /\ q \in Rom
        BY <1>0, <2>2, <2>3, <3>1
      <4>2. /\ Len(m.results) = Len(l.results) + 1
            /\ m.results[Len(l.results) + 1] = q
            /\ \A i \in 1..Len(l.results) : m.results[i] = l.results[i]
        BY <1>0, <4>1
      <4>. QED  BY <1>0, <2>4, <2>5, <2>6, <3>1, <4>2
    <3>2. CASE q \notin Thermometers(V)
      BY <1>0, <2>2, <2>4, <2>5, <3>2
    <3>. QED  BY <3>1, <3>2
  <2>8. Cardinality(Met(V, q)) >= IF later = wr THEN k + 1 ELSE k
    <3>0. Cardinality(Met(V, q)) >= 1 /\ Cardinality(Met(V, q)) \in Nat
      BY <1>0, <2>3, MetSome
    <3>1. CASE k = 0 \/ (k = 1 /\ later # wr)
      BY <3>0, <3>1
    <3>2. CASE k # 0 /\ (k = 1 => later = wr)
      <4>1. On(k, wr, later) = V
        BY <1>0, <3>2
      <4>2. /\ Position(V, l.search)
            /\ Cardinality(Met(V, r)) >= IF later = wr THEN k ELSE k - 1
        BY <2>0, <3>2, <4>1, Zenon DEF LoopInv
      <4>3. r \in V
        BY <4>2, Zenon DEF Position
      <4>4. Cardinality(Met(V, r)) \in Nat
        BY <1>0, <4>3, MetSome
      <4>5. Before(r, q)
        BY <2>1, <4>2, Zenon
      <4> HIDE DEF r
      <4>6. Cardinality(Met(V, q)) >= Cardinality(Met(V, r)) + 1
        BY <1>0, <2>3, <4>3, <4>5, MetMore
      <4>. QED  BY <3>0, <4>2, <4>4, <4>6
    <3>. QED  BY <3>1, <3>2
  <2>9. k + 1 # 0 /\ (k + 1) - 1 = k
    OBVIOUS
  <2>. QED  BY <2>1, <2>2, <2>7, <2>8, <2>9, Zenon DEF LoopInv, V, q
<1>4. l.more \in BOOLEAN
  BY Zenon DEF LoopState
<1>. QED  BY <1>1, <1>2, <1>3, <1>4, Zenon DEF Continues

\* On a wire that does not change: what was found is in order, a search that
\* goes on has found every thermometer it met, and one that has ended has found
\* all it had room for.
OrderInv(W, M, k, l) ==
    /\ \A i, j \in 1..Len(l.results) : i < j => Before(l.results[i], l.results[j])
    /\ k # 0 /\ l.more =>
          /\ \A i \in 1..Len(l.results) : UpTo(l.results[i], l.search.ROM_NO)
          /\ \A d \in Thermometers(W) : UpTo(d, l.search.ROM_NO) =>
                \E i \in 1..Len(l.results) : l.results[i] = d
    /\ ~l.more =>
          \A d \in Thermometers(W) :
             \/ \E i \in 1..Len(l.results) : l.results[i] = d
             \/ /\ Len(l.results) = M
                /\ \A i \in 1..Len(l.results) : Before(l.results[i], d)

\* One more pass, on a wire that does not change.
LEMMA OrderStep ==
    ASSUME NEW W \in SUBSET Devices, NEW M \in Nat \ {0}, NEW k \in Nat,
           NEW l \in LoopState, LoopInv(W, W, M, k, l), OrderInv(W, M, k, l),
           NEW m \in LoopState, Passes(l, W, M, m), LoopInv(W, W, M, k + 1, m)
    PROVE  OrderInv(W, M, k + 1, m)
<1>0. /\ W \in SUBSET Rom /\ k + 1 # 0
      /\ l.results \in Seq(Rom) /\ m.results \in Seq(Rom)
      /\ On(k, W, W) = W
      /\ \A d \in Thermometers(W) : d \in W /\ d \in Rom
      /\ \A i \in 1..Len(l.results) : l.results[i] \in Rom
  BY DEF On, Devices, LoopState, Thermometers
<1>1. CASE ~l.more
  <2>1. m = l /\ ~m.more
    BY <1>1, Zenon DEF Passes
  <2>. QED  BY <1>0, <2>1, Zenon DEF OrderInv
<1>2. CASE l.more /\ ~Continues(l, W)
  <2>1. m.results = l.results /\ ~m.more
    BY <1>2, Zenon DEF Passes
  <2>2. ASSUME NEW d \in Thermometers(W)
        PROVE  \E i \in 1..Len(l.results) : l.results[i] = d
    <3>1. l.search.LastDeviceFlag
      BY <1>0, <1>2, Zenon DEF Continues
    <3>2. k # 0
      BY <3>1, StartIs, Zenon DEF LoopInv
    <3>3. Position(W, l.search)
      BY <1>0, <1>2, <3>2, Zenon DEF LoopInv
    <3>4. l.search.ROM_NO \in W /\ LastFork(W, l.search.ROM_NO, RomBits, 0)
      BY <3>1, <3>3, Zenon DEF Position
    <3>5. UpTo(d, l.search.ROM_NO)
      BY <1>0, <3>4, LastIsGreatest
    <3>. QED  BY <1>2, <3>2, <3>5, Zenon DEF OrderInv
  <2>3. \A i, j \in 1..Len(l.results) : i < j => Before(l.results[i], l.results[j])
    BY Zenon DEF OrderInv
  <2>. QED  BY <2>1, <2>2, <2>3, Zenon DEF OrderInv
<1>3. CASE Continues(l, W)
  <2> DEFINE q == m.search.ROM_NO
             r == l.search.ROM_NO
             old == l.results
             new == m.results
  <2>0. l.more
    BY <1>3, Zenon DEF Continues
  <2>1. /\ Position(W, m.search)
        /\ l.search.LastDiscrepancy = 0 => \A d \in W : UpTo(q, d)
        /\ Position(W, l.search) =>
              Before(r, q) /\ \A d \in W : UpTo(d, r) \/ UpTo(q, d)
    <3> DEFINE x == [found |-> TRUE, search |-> m.search]
    <3>1. x.found /\ x.search = m.search
      BY Zenon
    <3>2. Finds(l.search, W, x)
      BY <1>3, Zenon DEF Passes
    <3> HIDE DEF x
    <3>. QED  BY <3>1, <3>2, Zenon DEF Finds
  <2>2. /\ new = IF q \in Thermometers(W) THEN Append(old, q) ELSE old
        /\ m.more <=> Len(new) < M
    BY <1>3, Zenon DEF Passes
  <2>3. q \in W /\ q \in Rom
    BY <1>0, <2>1, Zenon DEF Position
  <2>4. Len(new) <= M /\ old \in Seq(Rom) /\ new \in Seq(Rom)
    BY <1>0 DEF LoopInv
  <2>5. \A i, j \in 1..Len(old) : i < j => Before(old[i], old[j])
    BY Zenon DEF OrderInv
  <2>6. /\ \A i \in 1..Len(old) : Before(old[i], q)
        /\ \A d \in Thermometers(W) : UpTo(q, d) \/ \E i \in 1..Len(old) : old[i] = d
    <3>1. CASE k = 0
      <4>1. l = Start
        BY <3>1, Zenon DEF LoopInv
      <4>2. Len(old) = 0 /\ l.search.LastDiscrepancy = 0
        BY <4>1, StartIs
      <4>. QED  BY <1>0, <2>1, <4>2
    <3>2. CASE k # 0
      <4>1. Position(W, l.search)
        BY <1>0, <2>0, <3>2, Zenon DEF LoopInv
      <4>2. /\ \A i \in 1..Len(old) : UpTo(old[i], r)
            /\ \A d \in Thermometers(W) : UpTo(d, r) => \E i \in 1..Len(old) : old[i] = d
        BY <2>0, <3>2, Zenon DEF OrderInv
      <4>3. Before(r, q) /\ \A d \in W : UpTo(d, r) \/ UpTo(q, d)
        BY <2>1, <4>1, Zenon
      <4>4. r \in Rom
        BY <1>0, <4>1, Zenon DEF Position
      <4>5. ASSUME NEW i \in 1..Len(old) PROVE Before(old[i], q)
        <5>1. UpTo(old[i], r) /\ old[i] \in Rom
          BY <1>0, <4>2
        <5>. QED  BY <2>3, <4>3, <4>4, <5>1, BeforeTransitive DEF UpTo
      <4>6. ASSUME NEW d \in Thermometers(W)
            PROVE  UpTo(q, d) \/ \E i \in 1..Len(old) : old[i] = d
        BY <1>0, <4>2, <4>3, Zenon
      <4>. QED  BY <4>5, <4>6
    <3>. QED  BY <3>1, <3>2
  <2> HIDE DEF q, r, old, new
  <2>7. /\ \A i \in 1..Len(old) : i \in 1..Len(new) /\ new[i] = old[i]
        /\ \A i \in 1..Len(new) : i \in 1..Len(old) \/ (i = Len(old) + 1 /\ new[i] = q)
        /\ q \in Thermometers(W) => \E i \in 1..Len(new) : new[i] = q
    BY <2>2, <2>3, <2>4
  <2>8. ASSUME NEW i \in 1..Len(new), NEW j \in 1..Len(new), i < j
        PROVE  Before(new[i], new[j])
    <3>1. i \in 1..Len(old)
      BY <2>4, <2>7, <2>8
    <3>2. CASE j \in 1..Len(old)
      <4>1. Before(old[i], old[j])
        BY <2>5, <2>8, <3>1, <3>2
      <4>. QED  BY <2>7, <3>1, <3>2, <4>1
    <3>3. CASE new[j] = q
      BY <2>6, <2>7, <3>1, <3>3
    <3>. QED  BY <2>7, <3>2, <3>3
  <2>9. \A i \in 1..Len(new) : UpTo(new[i], q) /\ new[i] \in Rom
    BY <2>4, <2>6, <2>7 DEF UpTo
  <2>10. ASSUME NEW d \in Thermometers(W)
         PROVE  \/ \E i \in 1..Len(new) : new[i] = d
                \/ Before(q, d)
    <3>1. CASE \E i \in 1..Len(old) : old[i] = d
      BY <2>7, <3>1, Zenon
    <3>2. CASE UpTo(q, d)
      BY <2>7, <3>2 DEF UpTo
    <3>. QED  BY <2>6, <3>1, <3>2, Zenon
  <2>11. ASSUME NEW d \in Thermometers(W), UpTo(d, q)
         PROVE  \E i \in 1..Len(new) : new[i] = d
    <3>1. ~Before(q, d)
      BY <1>0, <2>3, <2>11, BeforeTransitive, BeforeIrreflexive DEF UpTo
    <3>. QED  BY <2>10, <3>1, Zenon
  <2>12. ASSUME ~m.more, NEW d \in Thermometers(W), ~\E i \in 1..Len(new) : new[i] = d
         PROVE  Len(new) = M /\ \A i \in 1..Len(new) : Before(new[i], d)
    <3>1. ~(Len(new) < M)
      BY <2>2, <2>12, Zenon
    <3>2. Len(new) = M
      BY <2>4, <3>1
    <3>3. Before(q, d) /\ d \in Rom
      BY <1>0, <2>10, <2>12, Zenon
    <3>4. ASSUME NEW i \in 1..Len(new) PROVE Before(new[i], d)
      <4>1. UpTo(new[i], q) /\ new[i] \in Rom
        BY <2>9
      <4>. QED  BY <2>3, <3>3, <4>1, BeforeTransitive DEF UpTo
    <3>. QED  BY <3>2, <3>4
  <2>. QED  BY <2>8, <2>9, <2>11, <2>12, Zenon DEF OrderInv, q, new
<1>4. l.more \in BOOLEAN
  BY Zenon DEF LoopState
<1>. QED  BY <1>1, <1>2, <1>3, <1>4, Zenon DEF Continues

\* What exec_ds18b20 returns, for any devices, addresses of any length and any
\* room: the loop ends, and has found the right thermometers.
Right(wr, later, M, l) ==
    /\ l \in LoopState
    /\ ~l.more
    /\ Len(l.results) <= M
    /\ \A i \in 1..Len(l.results) : l.results[i] \in Thermometers(wr)
    /\ later = wr =>
          /\ \A i, j \in 1..Len(l.results) : i < j => Before(l.results[i], l.results[j])
          /\ \A d \in Thermometers(wr) :
                \/ \E i \in 1..Len(l.results) : l.results[i] = d
                \/ /\ Len(l.results) = M
                   /\ \A i \in 1..Len(l.results) : Before(l.results[i], d)

\* A first search of any wire, and those that follow it on what is left of it.
LEMMA SearchIsRight ==
    ASSUME NEW wr \in SUBSET Devices, NEW later \in SUBSET wr, NEW M \in Nat \ {0}
    PROVE  Right(wr, later, M, exec_ds18b20(wr, later, M))
<1> DEFINE N == Cardinality(wr) + 1
<1>0. /\ wr \in SUBSET Rom /\ later \in SUBSET Rom
      /\ IsFiniteSet(wr) /\ Cardinality(wr) \in Nat /\ N \in Nat \ {0}
  <2>1. wr \in SUBSET Rom /\ later \in SUBSET Rom
    BY DEF Devices
  <2>2. IsFiniteSet(wr)
    BY <2>1, RomFinite, FS_Subset
  <2>3. Cardinality(wr) \in Nat
    BY <2>2, FS_CardinalityType
  <2>. QED  BY <2>1, <2>2, <2>3
<1>1. PICK f \in [0..N -> LoopState] :
         /\ f[0] = Start
         /\ \A k \in 1..N : f[k] = search_once(f[k - 1], On(k, wr, later), M)
         /\ exec_ds18b20(wr, later, M) = f[N]
  BY LoopUnfolds
<1> HIDE DEF N
<1>2. \A k \in Nat : k + 1 <= N =>
         /\ f[k] \in LoopState /\ f[k + 1] \in LoopState
         /\ Passes(f[k], On(k + 1, wr, later), M, f[k + 1])
  <2> SUFFICES ASSUME NEW k \in Nat, k + 1 <= N
               PROVE  /\ f[k] \in LoopState /\ f[k + 1] \in LoopState
                      /\ Passes(f[k], On(k + 1, wr, later), M, f[k + 1])
    OBVIOUS
  <2>1. f[k] \in LoopState /\ f[k + 1] \in LoopState /\ k + 1 \in 1..N /\ (k + 1) - 1 = k
    BY <1>0, <1>1
  <2>2. f[k + 1] = search_once(f[k], On(k + 1, wr, later), M)
    BY <1>1, <2>1
  <2>3. On(k + 1, wr, later) \in SUBSET Devices
    BY DEF On
  <2>4. Passes(f[k], On(k + 1, wr, later), M, search_once(f[k], On(k + 1, wr, later), M))
    BY <2>1, <2>3, SearchOnce
  <2>. QED  BY <2>1, <2>2, <2>4
<1> DEFINE Inv(k) == /\ LoopInv(wr, later, M, k, f[k])
                     /\ later = wr => OrderInv(wr, M, k, f[k])
           P == {k \in Nat : k <= N => Inv(k)}
<1>3. 0 \in P
  <2>1. f[0] = Start /\ Len(f[0].results) = 0 /\ f[0].more
    BY <1>1, StartIs
  <2>2. LoopInv(wr, later, M, 0, f[0])
    BY <2>1 DEF LoopInv
  <2>3. OrderInv(wr, M, 0, f[0])
    BY <2>1 DEF OrderInv
  <2>. QED  BY <2>2, <2>3
<1>4. \A k \in Nat : k \in P => k + 1 \in P
  <2> SUFFICES ASSUME NEW k \in Nat, Inv(k), k + 1 <= N PROVE Inv(k + 1)
    BY <1>0
  <2>1. /\ f[k] \in LoopState /\ f[k + 1] \in LoopState
        /\ Passes(f[k], On(k + 1, wr, later), M, f[k + 1])
    BY <1>2
  <2>2. LoopInv(wr, later, M, k + 1, f[k + 1])
    BY <2>1, LoopStep
  <2>3. ASSUME later = wr PROVE OrderInv(wr, M, k + 1, f[k + 1])
    <3>1. On(k + 1, wr, later) = wr
      BY <2>3, Zenon DEF On
    <3>2. LoopInv(wr, wr, M, k, f[k]) /\ LoopInv(wr, wr, M, k + 1, f[k + 1])
      BY <2>2, <2>3
    <3>3. Passes(f[k], wr, M, f[k + 1]) /\ OrderInv(wr, M, k, f[k])
      BY <2>1, <2>3, <3>1
    <3>. QED  BY <2>1, <3>2, <3>3, OrderStep
  <2>. QED  BY <2>2, <2>3
<1> HIDE DEF P
<1>5. Nat \subseteq P
  BY <1>3, <1>4, Induction
<1>6. Inv(N)
  <2>1. N \in P
    BY <1>0, <1>5
  <2>. QED  BY <1>0, <2>1 DEF P
<1> DEFINE l == f[N]
<1>7. l \in LoopState
  BY <1>0, <1>1
<1> HIDE DEF l
<1>8. ~l.more
  <2> SUFFICES ASSUME l.more PROVE FALSE
    BY Zenon
  <2> DEFINE V == On(N, wr, later)
             q == l.search.ROM_NO
  <2>1. LoopInv(wr, later, M, N, l)
    BY <1>6 DEF l
  <2>2. /\ Position(V, l.search)
        /\ Cardinality(Met(V, q)) >= IF later = wr THEN N ELSE N - 1
    BY <1>0, <2>1, Zenon DEF LoopInv
  <2>3. q \in V
    BY <2>2, Zenon DEF Position
  <2>4. V \in SUBSET wr
    BY DEF On
  <2>5. V \in SUBSET Rom
    BY <1>0, <2>4
  <2> HIDE DEF V, q
  <2>6. /\ Cardinality(Met(V, q)) \in Nat /\ Cardinality(V) \in Nat
        /\ Cardinality(Met(V, q)) <= Cardinality(V)
    BY <2>3, <2>5, MetSome
  <2>7. Cardinality(V) <= Cardinality(wr) /\ (Cardinality(wr) = Cardinality(V) => wr = V)
    BY <1>0, <2>4, FS_Subset
  <2>8. CASE later = wr
    BY <1>0, <2>2, <2>6, <2>7, <2>8 DEF N
  <2>9. CASE later # wr
    <3>1. wr # {}
      BY <2>9
    <3>2. Cardinality(wr) # 0
      BY <1>0, <3>1, FS_EmptySet
    <3>3. N # 1
      BY <1>0, <3>2 DEF N
    <3>4. V = later
      BY <3>3 DEF V, On
    <3>. QED  BY <1>0, <2>2, <2>6, <2>7, <2>9, <3>4 DEF N
  <2>. QED  BY <2>8, <2>9
<1>9. LoopInv(wr, later, M, N, l) /\ (later = wr => OrderInv(wr, M, N, l))
  BY <1>6 DEF l
<1>10. Right(wr, later, M, l)
  BY <1>7, <1>8, <1>9, Zenon DEF Right, LoopInv, OrderInv
<1>. QED  BY <1>1, <1>10 DEF l

-----------------------------------------------------------------------------
(* The conversion of a measurement *)

\* A word is a number of values.
LEMMA WordType == Word \in Nat
BY DEF Word

\* Degrees and hundredths of a measurement in half degrees.
LEMMA Halves ==
    ASSUME NEW t \in Nat
    PROVE  LET h == (t \div 2) * 100 + (IF t % 2 = 1 THEN 50 ELSE 0)
           IN  h * 2 <= t * 100 /\ t * 100 < (h + 1) * 2
BY Z3

\* The same of a measurement in sixteenths.
LEMMA Sixteenths ==
    ASSUME NEW t \in Nat
    PROVE  LET h == (t \div 16) * 100 + ((t % 16) * 100) \div 16
           IN  h * 16 <= t * 100 /\ t * 100 < (h + 1) * 16
BY Z3

\* One entry of ReadingExact.
Exact(m) ==
    LET unit == IF family(m.rom) = DS18S20 THEN 2 ELSE 16
        magnitude == IF m.raw < Word \div 2 THEN m.raw ELSE Word - m.raw
        hundredths == m.t.tVal * 100 + m.t.tFract
    IN  /\ (m.t.tSign = "-") <=> (m.raw >= Word \div 2)
        /\ hundredths * unit <= magnitude * 100
        /\ magnitude * 100 < (hundredths + 1) * unit

\* ReadingExact speaks of every entry alone.
LEMMA ReadingExactIs ==
    ReadingExact <=> \A i \in DOMAIN my.thermals1 : Exact(my.thermals1[i])
BY DEF ReadingExact, Exact

\* Of any address, and of any measurement that fits a word.
LEMMA TemperatureExact ==
    ASSUME NEW rom, NEW raw \in 0..(Word - 1)
    PROVE  Exact([rom |-> rom, raw |-> raw, t |-> Temperature(family(rom), raw)])
<1> DEFINE t == IF raw >= Word \div 2 THEN Word - raw ELSE raw
           T == Temperature(family(rom), raw)
<1>1. t \in Nat /\ t = IF raw < Word \div 2 THEN raw ELSE Word - raw
  BY WordType
<1> HIDE DEF t
<1>2. /\ T.tSign = IF raw >= Word \div 2 THEN "-" ELSE "+"
      /\ T.tVal = IF family(rom) = DS18S20 THEN t \div 2 ELSE t \div 16
      /\ T.tFract = IF family(rom) = DS18S20 THEN IF t % 2 = 1 THEN 50 ELSE 0
                    ELSE ((t % 16) * 100) \div 16
  BY Zenon DEF Temperature, t
<1> HIDE DEF T
<1>3. CASE family(rom) = DS18S20
  <2>1. T.tVal = t \div 2 /\ T.tFract = IF t % 2 = 1 THEN 50 ELSE 0
    BY <1>2, <1>3
  <2>2. /\ (T.tVal * 100 + T.tFract) * 2 <= t * 100
        /\ t * 100 < ((T.tVal * 100 + T.tFract) + 1) * 2
    BY <1>1, <2>1, Halves
  <2>. QED  BY <1>1, <1>2, <1>3, <2>2 DEF Exact, T
<1>4. CASE family(rom) # DS18S20
  <2>1. T.tVal = t \div 16 /\ T.tFract = ((t % 16) * 100) \div 16
    BY <1>2, <1>4
  <2>2. /\ (T.tVal * 100 + T.tFract) * 16 <= t * 100
        /\ t * 100 < ((T.tVal * 100 + T.tFract) + 1) * 16
    BY <1>1, <2>1, Sixteenths
  <2>. QED  BY <1>1, <1>2, <1>4, <2>2 DEF Exact, T
<1>. QED  BY <1>3, <1>4

-----------------------------------------------------------------------------
(* The parts of the invariant *)

MemoryInv == CheckerIsLast /\ NoCallbackOnFreed
NapInv == SlotMeansOutcome /\ NapMeansOutcome
ConsoleInv == LockHolder /\ LeftOnPurpose

\* There is a slot for the report.
LEMMA SlotZero == 0 \in Slots
BY GroundAssumption DEF Slots

\* A sensor that sleeps before its first boot has measured and reported
\* nothing.
LEMMA InitInv == Init => IndInv
<1> SUFFICES ASSUME Init PROVE IndInv
  OBVIOUS
<1>1. ControlOK
  <2>1. my = my_state /\ my.wifi_retried \in Nat
    BY DEF Init, my_state
  <2>2. push \in [heap : {"none", "live", "freed"},
                  conn : {"none", "unroutable", "connecting", "sending",
                          "closing", "closed"},
                  checker : BOOLEAN, fn : BOOLEAN]
    BY Zenon DEF Init, NoPush
  <2>3. telemetry \in [Slots -> [handle : {NULL, ThePush}, done : BOOLEAN]]
    BY Zenon DEF Init, NoTelemetry
  <2>4. state \in States /\ timer \in BOOLEAN /\ locked \in BOOLEAN /\ diag2 \in BOOLEAN
    BY DEF Init, States
  <2>. QED  BY <2>1, <2>2, <2>3, <2>4 DEF ControlOK
<1>2. MemoryInv /\ NapInv /\ ConsoleInv
  BY DEF Init, NoPush, MemoryInv, CheckerIsLast, NoCallbackOnFreed, NapInv, SlotMeansOutcome,
       NapMeansOutcome, ConsoleInv, LockHolder, LeftOnPurpose, Left
<1>3. ReadingExact
  <2>1. my.thermals1 = << >>
    BY DEF Init, my_state
  <2>2. DOMAIN << >> = {}
    OBVIOUS
  <2>. QED  BY <2>1, <2>2, ReadingExactIs
<1>. QED  BY <1>1, <1>2, <1>3 DEF IndInv, MemoryInv, NapInv, ConsoleInv

-----------------------------------------------------------------------------
(* The steps *)

\* Measurements stay exact as long as they stay.
LEMMA ReadingKept ==
    ASSUME ReadingExact, my'.thermals1 = my.thermals1
    PROVE  ReadingExact'
<1>1. \A i \in DOMAIN my.thermals1 : Exact(my.thermals1[i])
  BY ReadingExactIs
<1>2. \A i \in DOMAIN my'.thermals1 : Exact(my'.thermals1[i])
  BY <1>1, Zenon
<1>. QED  BY <1>2 DEF ReadingExact, Exact

\* Deep sleep and reset forget everything.
LEMMA ResetInv ==
    ASSUME Reset
    PROVE  IndInv'
<1>1. ControlOK'
  <2>1. DOMAIN my' = DOMAIN my_state /\ my'.wifi_retried \in Nat
    BY DEF Reset, my_state
  <2>2. push' \in [heap : {"none", "live", "freed"},
                   conn : {"none", "unroutable", "connecting", "sending",
                           "closing", "closed"},
                   checker : BOOLEAN, fn : BOOLEAN]
    BY Zenon DEF Reset, NoPush
  <2>3. telemetry' \in [Slots -> [handle : {NULL, ThePush}, done : BOOLEAN]]
    BY Zenon DEF Reset, NoTelemetry
  <2>4. state' \in States /\ timer' \in BOOLEAN /\ locked' \in BOOLEAN /\ diag2' \in BOOLEAN
    BY DEF Reset, States
  <2>. QED  BY <2>1, <2>2, <2>3, <2>4, Zenon DEF ControlOK
<1>2. MemoryInv' /\ NapInv' /\ ConsoleInv'
  BY DEF Reset, NoPush, MemoryInv, CheckerIsLast, NoCallbackOnFreed, NapInv, SlotMeansOutcome,
       NapMeansOutcome, ConsoleInv, LockHolder, LeftOnPurpose, Left
<1>3. ReadingExact'
  <2>1. DOMAIN my'.thermals1 = {}
    BY DEF Reset, my_state
  <2>. QED  BY <2>1 DEF ReadingExact
<1>. QED  BY <1>1, <1>2, <1>3, Zenon DEF IndInv, MemoryInv, NapInv, ConsoleInv

\* A boot starts the chain anew, with the console unlocked.
LEMMA BootInv ==
    ASSUME IndInv, sentrifarm_init
    PROVE  IndInv'
<1>0. ControlOK /\ MemoryInv /\ NapInv
  BY DEF IndInv, MemoryInv, NapInv
<1>1. ControlOK'
  <2>1. DOMAIN my' = DOMAIN my_state /\ my'.wifi_retried \in Nat
    BY DEF sentrifarm_init, my_state
  <2>2. state' \in States /\ timer' \in BOOLEAN /\ locked' \in BOOLEAN /\ diag2' \in BOOLEAN
    BY DEF sentrifarm_init, States
  <2>3. UNCHANGED <<push, telemetry>>
    BY DEF sentrifarm_init
  <2>. QED  BY <1>0, <2>1, <2>2, <2>3, Zenon DEF ControlOK
<1>2. MemoryInv' /\ NapInv' /\ ConsoleInv'
  BY <1>0 DEF sentrifarm_init, MemoryInv, CheckerIsLast, NoCallbackOnFreed, NapInv, SlotMeansOutcome,
       NapMeansOutcome, ConsoleInv, LockHolder, LeftOnPurpose, Left
<1>3. ReadingExact'
  <2>1. DOMAIN my'.thermals1 = {}
    BY DEF sentrifarm_init, my_state
  <2>. QED  BY <2>1 DEF ReadingExact
<1>. QED  BY <1>1, <1>2, <1>3, Zenon DEF IndInv, MemoryInv, NapInv, ConsoleInv

\* Steps that touch neither my_state nor the report.
LEMMA PlainSteps ==
    ASSUME IndInv,
           WakeAndScan \/ Settle \/ TelemetryFinished \/ TelemetryFault
             \/ Done \/ RebootRequired
    PROVE  IndInv'
<1>0. ControlOK /\ MemoryInv /\ NapInv /\ ConsoleInv /\ ReadingExact
  BY DEF IndInv, MemoryInv, NapInv, ConsoleInv
<1>1. CASE Reset
  BY <1>1, ResetInv
<1>2. CASE ~Reset
  <2>1. UNCHANGED <<my, telemetry, push, diag2, outcome>>
    BY <1>2, Zenon DEF WakeAndScan, Settle, TelemetryFinished, TelemetryFault, Done, RebootRequired
  <2>2. ControlOK'
    <3>1. state' \in States /\ timer' \in BOOLEAN /\ locked' \in BOOLEAN
      BY <1>0, <1>2 DEF ControlOK, States, WakeAndScan, Settle, TelemetryFinished, TelemetryFault,
           Done, RebootRequired, Proceed, Leave
    <3>. QED  BY <1>0, <2>1, <3>1, Zenon DEF ControlOK
  <2>3. MemoryInv'
    BY <1>0, <2>1 DEF MemoryInv, CheckerIsLast, NoCallbackOnFreed
  <2>4. NapInv'
    <3>1. CASE TelemetryFinished
      BY <1>0, <2>1, <3>1, SlotZero DEF NapInv, SlotMeansOutcome, NapMeansOutcome,
           TelemetryFinished, Fires, Proceed, sentri_check_telemetry
    <3>2. CASE ~TelemetryFinished
      BY <1>0, <1>2, <2>1, <3>2 DEF NapInv, SlotMeansOutcome, NapMeansOutcome,
           WakeAndScan, Settle, TelemetryFault, Done, RebootRequired, Fires, Proceed, Leave
    <3>. QED  BY <3>1, <3>2
  <2>5. ConsoleInv'
    BY <1>0, <1>2, <2>1 DEF ConsoleInv, LockHolder, LeftOnPurpose, Left,
         WakeAndScan, Settle, TelemetryFinished, TelemetryFault, Done, RebootRequired,
         Fires, Proceed, Leave
  <2>6. ReadingExact'
    BY <1>0, <2>1, ReadingKept
  <2>. QED  BY <2>2, <2>3, <2>4, <2>5, <2>6, Zenon DEF IndInv, MemoryInv, NapInv, ConsoleInv
<1>. QED  BY <1>1, <1>2

\* The polls for the network and for the report.
LEMMA WaitSteps ==
    ASSUME IndInv, WifiWaits \/ WifiFinished \/ TelemetryWaits
    PROVE  IndInv'
<1>0. ControlOK /\ MemoryInv /\ NapInv /\ ConsoleInv /\ ReadingExact
  BY DEF IndInv, MemoryInv, NapInv, ConsoleInv
<1>1. UNCHANGED <<telemetry, push, diag2, outcome>>
  BY Zenon DEF WifiWaits, WifiFinished, TelemetryWaits
<1>2. /\ DOMAIN my' = DOMAIN my_state
      /\ my'.thermals1 = my.thermals1
      /\ my'.wifi_retried = IF WifiWaits THEN my.wifi_retried + 1 ELSE my.wifi_retried
  <2>1. DOMAIN my = {"error_flags", "thermals1", "wifi_pending", "wifi_retried", "telemetry_retried"}
    BY <1>0 DEF ControlOK, my_state
  <2>2. CASE WifiWaits
    BY <1>0, <2>1, <2>2 DEF ControlOK, WifiWaits, sentri_check_wifi
  <2>3. CASE WifiFinished /\ ~WifiWaits
    BY <1>0, <2>1, <2>3 DEF ControlOK, WifiFinished, sentri_check_wifi
  <2>4. CASE TelemetryWaits /\ ~WifiWaits
    BY <1>0, <2>1, <2>4 DEF ControlOK, TelemetryWaits
  <2>. QED  BY <2>2, <2>3, <2>4
<1>3. my'.wifi_retried \in Nat /\ my'.wifi_retried >= my.wifi_retried
  BY <1>0, <1>2 DEF ControlOK
<1>4. state' \in States /\ timer' \in BOOLEAN /\ locked' \in BOOLEAN
  BY <1>0 DEF ControlOK, States, WifiWaits, WifiFinished, TelemetryWaits, Proceed, Leave
<1>5. ControlOK'
  BY <1>0, <1>1, <1>2, <1>3, <1>4, Zenon DEF ControlOK
<1>6. MemoryInv'
  BY <1>0, <1>1 DEF MemoryInv, CheckerIsLast, NoCallbackOnFreed
<1>7. NapInv'
  BY <1>0, <1>1 DEF NapInv, SlotMeansOutcome, NapMeansOutcome, WifiWaits, WifiFinished,
       TelemetryWaits, Fires, Proceed, Leave
<1>8. LockHolder'
  BY <1>0, <1>1 DEF ConsoleInv, LockHolder, WifiWaits, WifiFinished, TelemetryWaits, Fires,
       Proceed, Leave
<1>9. LeftOnPurpose'
  <2>1. CASE WifiWaits
    BY <1>0, <1>1, <1>3, <2>1, GroundAssumption DEF ControlOK, LeftOnPurpose, Left,
         WifiWaits, Fires, Proceed, Leave
  <2>2. CASE WifiFinished \/ TelemetryWaits
    BY <1>0, <1>1, <2>2 DEF LeftOnPurpose, Left, WifiFinished, TelemetryWaits, Fires, Proceed
  <2>. QED  BY <2>1, <2>2
<1>10. ReadingExact'
  BY <1>0, <1>2, ReadingKept
<1>. QED  BY <1>5, <1>6, <1>7, <1>8, <1>9, <1>10, Zenon DEF IndInv, MemoryInv, NapInv, ConsoleInv

\* The connection of a report begins with memory of its own, and its slot open.
LEMMA ReportSteps ==
    ASSUME IndInv, TelemetryRefused \/ Telemetry
    PROVE  IndInv'
<1>0. ControlOK /\ MemoryInv /\ NapInv /\ ConsoleInv /\ ReadingExact
  BY DEF IndInv, MemoryInv, NapInv, ConsoleInv
<1>1. /\ state' = "TELEMETRY_PENDING" /\ timer' = TRUE
      /\ my' = [my EXCEPT !.telemetry_retried = 0]
      /\ UNCHANGED <<diag2, outcome>>
  BY DEF TelemetryRefused, Telemetry, Proceed
<1>2. /\ DOMAIN my' = DOMAIN my_state
      /\ my'.thermals1 = my.thermals1
      /\ my'.wifi_retried = my.wifi_retried
  <2>1. DOMAIN my = {"error_flags", "thermals1", "wifi_pending", "wifi_retried", "telemetry_retried"}
    BY <1>0 DEF ControlOK, my_state
  <2>. QED  BY <1>0, <1>1, <2>1 DEF ControlOK
<1>3. /\ telemetry' \in [Slots -> [handle : {NULL, ThePush}, done : BOOLEAN]]
      /\ telemetry'[0].done = FALSE
  <2>1. Prepared \in [Slots -> [handle : {NULL, ThePush}, done : BOOLEAN]]
    BY Zenon DEF Prepared
  <2>2. Prepared[0] = [handle |-> NULL, done |-> FALSE]
    BY SlotZero DEF Prepared
  <2>3. CASE TelemetryRefused
    BY <2>1, <2>2, <2>3 DEF TelemetryRefused
  <2>4. CASE Telemetry
    <3> DEFINE R == [handle : {NULL, ThePush}, done : BOOLEAN]
               e == [Prepared[0] EXCEPT !.handle = ThePush]
    <3>1. e \in R /\ e.done = FALSE
      <4>1. Prepared[0] \in R
        BY <2>1, SlotZero, Zenon
      <4>2. e \in R /\ e.done = Prepared[0].done
        BY <4>1, Zenon
      <4>3. Prepared[0].done = FALSE
        BY <2>2
      <4>. QED  BY <4>2, <4>3, Zenon
    <3>2. telemetry' = [Prepared EXCEPT ![0] = e]
      BY <2>4, Zenon DEF Telemetry
    <3>3. Prepared \in [Slots -> R]
      BY <2>1
    <3> HIDE DEF R, e
    <3>4. telemetry' \in [Slots -> R] /\ telemetry'[0] = e
      BY <3>1, <3>2, <3>3, SlotZero
    <3>. QED  BY <3>1, <3>4 DEF R
  <2>. QED  BY <2>3, <2>4
<1>4. /\ push' \in [heap : {"none", "live", "freed"},
                     conn : {"none", "unroutable", "connecting", "sending",
                             "closing", "closed"},
                     checker : BOOLEAN, fn : BOOLEAN]
      /\ MemoryInv'
      /\ locked' \in BOOLEAN /\ LockHolder'
  <2>1. CASE TelemetryRefused
    <3>1. UNCHANGED <<push, locked>> /\ state # "scan"
      BY <2>1 DEF TelemetryRefused, Fires
    <3>. QED  BY <1>0, <3>1, Zenon DEF ControlOK, MemoryInv, CheckerIsLast,
                NoCallbackOnFreed, ConsoleInv, LockHolder
  <2>2. CASE Telemetry
    <3>1. PICK c \in {"connecting", "unroutable"} :
             push' = [heap |-> "live", conn |-> c, checker |-> FALSE, fn |-> FALSE]
      BY <2>2 DEF Telemetry, NoPush
    <3>2. push' \in [heap : {"none", "live", "freed"},
                     conn : {"none", "unroutable", "connecting", "sending",
                             "closing", "closed"},
                     checker : BOOLEAN, fn : BOOLEAN]
      BY <3>1, Zenon
    <3>3. MemoryInv' /\ LockHolder'
      BY <3>1 DEF MemoryInv, CheckerIsLast, NoCallbackOnFreed, LockHolder
    <3>4. locked' \in BOOLEAN
      BY <2>2 DEF Telemetry
    <3>. QED  BY <3>2, <3>3, <3>4
  <2>. QED  BY <2>1, <2>2
<1>5. ControlOK'
  BY <1>0, <1>1, <1>2, <1>3, <1>4, Zenon DEF ControlOK, States
<1>6. NapInv'
  BY <1>1, <1>3 DEF NapInv, SlotMeansOutcome, NapMeansOutcome
<1>7. LeftOnPurpose'
  BY <1>1 DEF LeftOnPurpose, Left
<1>8. ReadingExact'
  BY <1>0, <1>2, ReadingKept
<1>. QED  BY <1>4, <1>5, <1>6, <1>7, <1>8, Zenon DEF IndInv, MemoryInv, NapInv, ConsoleInv

\* Whatever the search found, each address has its temperature.
LEMMA SensorsInv ==
    ASSUME IndInv, Sensors
    PROVE  IndInv'
<1>0. ControlOK /\ MemoryInv /\ NapInv /\ ConsoleInv /\ ReadingExact
  BY DEF IndInv, MemoryInv, NapInv, ConsoleInv
<1>1. /\ state = "SENSORS" /\ state' = "WIFI_PENDING" /\ timer' = TRUE
      /\ UNCHANGED <<telemetry, push, locked, diag2, outcome>>
  BY DEF Sensors, Fires, Proceed
<1>2. PICK later \in SUBSET wire : \E raw \in Raws :
         my' = [my EXCEPT
            !.thermals1 = [i \in 1..Len(Search[wire][later].results) |->
                [rom |-> Search[wire][later].results[i], raw |-> raw,
                 t |-> Temperature(family(Search[wire][later].results[i]), raw)]],
            !.error_flags = @ \cup Missing(Len(Search[wire][later].results)),
            !.wifi_pending = TRUE, !.wifi_retried = 0]
  BY Zenon DEF Sensors
<1> DEFINE rs == Search[wire][later].results
           flags == Missing(Len(rs))
<1>3. PICK raw \in Raws :
         my' = [my EXCEPT
            !.thermals1 = [i \in 1..Len(rs) |->
                [rom |-> rs[i], raw |-> raw, t |-> Temperature(family(rs[i]), raw)]],
            !.error_flags = @ \cup flags,
            !.wifi_pending = TRUE, !.wifi_retried = 0]
  BY <1>2, Zenon
<1> HIDE DEF rs, flags
<1> DEFINE th == [i \in 1..Len(rs) |->
                [rom |-> rs[i], raw |-> raw, t |-> Temperature(family(rs[i]), raw)]]
<1>5. /\ DOMAIN my' = DOMAIN my_state
      /\ my'.thermals1 = th
      /\ my'.wifi_retried = 0
  <2> HIDE DEF th
  <2>1. DOMAIN my = {"error_flags", "thermals1", "wifi_pending", "wifi_retried", "telemetry_retried"}
    BY <1>0 DEF ControlOK, my_state
  <2>2. my' = [my EXCEPT !.thermals1 = th, !.error_flags = @ \cup flags,
                         !.wifi_pending = TRUE, !.wifi_retried = 0]
    BY <1>3, Zenon DEF th
  <2>. QED  BY <1>0, <2>1, <2>2 DEF ControlOK
<1>6. ReadingExact'
  <2>1. raw \in 0..(Word - 1)
    BY GroundAssumption
  <2>2. \A i \in DOMAIN th : Exact(th[i])
    BY <2>1, TemperatureExact, Zenon
  <2> HIDE DEF th
  <2>3. \A i \in DOMAIN my'.thermals1 : Exact(my'.thermals1[i])
    BY <1>5, <2>2, Zenon
  <2>. QED  BY <2>3 DEF ReadingExact, Exact
<1> HIDE DEF th
<1>7. ControlOK'
  BY <1>0, <1>1, <1>5 DEF ControlOK, States
<1>8. MemoryInv' /\ NapInv' /\ ConsoleInv'
  BY <1>0, <1>1 DEF MemoryInv, CheckerIsLast, NoCallbackOnFreed, NapInv, SlotMeansOutcome,
       NapMeansOutcome, ConsoleInv, LockHolder, LeftOnPurpose, Left
<1>. QED  BY <1>6, <1>7, <1>8, Zenon DEF IndInv, MemoryInv, NapInv, ConsoleInv

\* The callbacks of the connection, between any two steps of the chain.
LEMMA CallbackSteps ==
    ASSUME IndInv,
           connected \/ datasent \/ disconnected \/ reconnect \/ conn_checker_handler
    PROVE  IndInv'
<1>0. ControlOK /\ MemoryInv /\ NapInv /\ ConsoleInv /\ ReadingExact
  BY DEF IndInv, MemoryInv, NapInv, ConsoleInv
<1>1. UNCHANGED <<state, timer, my, diag2>>
  BY Zenon DEF connected, datasent, disconnected, reconnect, conn_checker_handler
<1>2. /\ telemetry' \in [Slots -> [handle : {NULL, ThePush}, done : BOOLEAN]]
      /\ \/ outcome' = outcome /\ telemetry' = telemetry
         \/ outcome' # "none"
  <2>1. CASE connected \/ datasent \/ conn_checker_handler
    <3>1. telemetry' = telemetry /\ (outcome' = outcome \/ outcome' = "sent")
      BY <2>1, Zenon DEF connected, datasent, conn_checker_handler
    <3>. QED  BY <1>0, <3>1 DEF ControlOK
  <2>2. CASE disconnected \/ reconnect
    <3>1. telemetry' = Finished(ThePush) /\ outcome' # "none"
      BY <2>2 DEF disconnected, reconnect
    <3>2. \A i \in Slots : [telemetry[i] EXCEPT !.done = @ \/ telemetry[i].handle = ThePush]
                           \in [handle : {NULL, ThePush}, done : BOOLEAN]
      BY <1>0, Zenon DEF ControlOK
    <3>3. Finished(ThePush) \in [Slots -> [handle : {NULL, ThePush}, done : BOOLEAN]]
      BY <3>2, Zenon DEF Finished
    <3>. QED  BY <3>1, <3>3
  <2>. QED  BY <2>1, <2>2
<1>3. push' \in [heap : {"none", "live", "freed"},
                 conn : {"none", "unroutable", "connecting", "sending",
                         "closing", "closed"},
                 checker : BOOLEAN, fn : BOOLEAN]
  BY <1>0, Zenon DEF ControlOK, connected, datasent, disconnected, reconnect, conn_checker_handler
<1>4. locked' \in BOOLEAN
  BY <1>0, Zenon DEF ControlOK, connected, datasent, disconnected, reconnect, conn_checker_handler
<1>5. ControlOK'
  BY <1>0, <1>1, <1>2, <1>3, <1>4, Zenon DEF ControlOK
<1>6. MemoryInv' /\ LockHolder'
  <2> USE <1>0, <1>1 DEF ControlOK, MemoryInv, CheckerIsLast, NoCallbackOnFreed, ConsoleInv, LockHolder
  <2>1. CASE connected
    BY <2>1 DEF connected
  <2>2. CASE datasent
    BY <2>2 DEF datasent
  <2>3. CASE disconnected
    BY <2>3 DEF disconnected, Closing
  <2>4. CASE reconnect
    BY <2>4 DEF reconnect, Closing
  <2>5. CASE conn_checker_handler
    BY <2>5 DEF conn_checker_handler
  <2>. QED  BY <2>1, <2>2, <2>3, <2>4, <2>5, Zenon
<1>7. NapInv'
  BY <1>0, <1>1, <1>2 DEF NapInv, SlotMeansOutcome, NapMeansOutcome
<1>8. LeftOnPurpose'
  BY <1>0, <1>1 DEF ConsoleInv, LeftOnPurpose, Left
<1>9. ReadingExact'
  BY <1>0, <1>1, ReadingKept
<1>. QED  BY <1>5, <1>6, <1>7, <1>8, <1>9, Zenon DEF IndInv, MemoryInv, NapInv, ConsoleInv

-----------------------------------------------------------------------------
(* The theorems *)

\* The invariant that the other theorems follow from: what the callbacks of
\* tcp_push.c may find, in whatever order they come between the timers.
THEOREM GroundInvariance == Spec => []IndInv
<1>1. Init => IndInv
  BY InitInv
<1>2. IndInv /\ [Next]_vars => IndInv'
  <2> SUFFICES ASSUME IndInv, [Next]_vars PROVE IndInv'
    OBVIOUS
  <2>1. CASE Wake \/ scan_done_cb
    BY <2>1, BootInv, ResetInv, PlainSteps DEF Wake, WakeWithoutScan, scan_done_cb
  <2>2. CASE Sensors
    BY <2>2, SensorsInv
  <2>3. CASE Chain
    BY <2>3, PlainSteps, WaitSteps, ReportSteps DEF Chain
  <2>4. CASE connected \/ datasent \/ disconnected \/ reconnect \/ conn_checker
    BY <2>4, CallbackSteps, ResetInv DEF conn_checker, CheckerCrashes
  <2>5. CASE UNCHANGED vars
    BY <2>5, ReadingKept DEF vars, IndInv, ControlOK, CheckerIsLast, NoCallbackOnFreed,
         SlotMeansOutcome, NapMeansOutcome, LockHolder, LeftOnPurpose, Left
  <2>. QED  BY <2>1, <2>2, <2>3, <2>4, <2>5 DEF Next, sentri_state_timer_cb
<1>. QED  BY <1>1, <1>2, PTL DEF Spec

\* No callback of a connection finds its memory freed by conn_checker.
THEOREM CallbacksFindMemory == Spec => []NoCallbackOnFreed
<1>1. IndInv => NoCallbackOnFreed
  BY DEF IndInv
<1>. QED  BY <1>1, GroundInvariance, PTL

\* STATE_DONE is reached only when a callback has told what became of the
\* report, for any number of telemetry slots.
THEOREM NapHasOutcome == Spec => []NapMeansOutcome
<1>1. IndInv => NapMeansOutcome
  BY DEF IndInv
<1>. QED  BY <1>1, GroundInvariance, PTL

\* Where the chain of timers ends for good it does so on purpose and with a
\* console that can be used, for any number of attempts.
THEOREM ChainLeftInOrder == Spec => []LeftInOrder
<1>1. IndInv => LeftInOrder
  BY DEF IndInv, LeftInOrder, LockHolder, ConsoleIsOpen, Left
<1>. QED  BY <1>1, GroundInvariance, PTL

\* Every temperature that is reported is its measurement to a hundredth of a
\* degree, for every 16 bit measurement of either family.
THEOREM ReadingsAreExact == Spec => []ReadingExact
<1>1. IndInv => ReadingExact
  BY DEF IndInv
<1>. QED  BY <1>1, GroundInvariance, PTL

-----------------------------------------------------------------------------
(* What is reported of the thermometers *)

\* A search that exec_ds18b20 begins comes to an end, whatever is on the wire
\* and whatever comes loose of it, although its loop has no bound.
THEOREM SearchTerminates == SearchEnds
<1> SUFFICES ASSUME NEW w \in SUBSET Devices, NEW later \in SUBSET w
             PROVE  ~Search[w][later].more
  BY DEF SearchEnds
<1>1. Search[w][later] = exec_ds18b20(w, later, TRAIT_EXPECTED_THERMALS1)
  BY DEF Search
<1>2. Right(w, later, TRAIT_EXPECTED_THERMALS1,
            exec_ds18b20(w, later, TRAIT_EXPECTED_THERMALS1))
  BY SearchIsRight, GroundAssumption
<1>. QED  BY <1>1, <1>2, Zenon DEF Right

\* SensorsFound of the registers th.
Found(th, wr, ls) ==
    LET found == [i \in DOMAIN th |-> th[i].rom]
    IN  /\ Len(found) <= TRAIT_EXPECTED_THERMALS1
        /\ \A i \in DOMAIN found : found[i] \in Thermometers(wr)
        /\ ~ls => AllInOrder(found, wr)

\* What was found, while the network is waited for.
FoundInv ==
    /\ wire \in SUBSET Devices
    /\ state = "WIFI_PENDING" => Found(my.thermals1, wire, loose)

\* The search leaves the right thermometers in the registers.
LEMMA FoundAtFirst ==
    ASSUME ControlOK, FoundInv, Sensors
    PROVE  FoundInv'
<1>1. UNCHANGED wire
  BY DEF Sensors
<1>2. PICK later \in SUBSET wire :
         /\ \E raw \in Raws :
              my' = [my EXCEPT
                !.thermals1 = [i \in 1..Len(Search[wire][later].results) |->
                    [rom |-> Search[wire][later].results[i], raw |-> raw,
                     t |-> Temperature(family(Search[wire][later].results[i]), raw)]],
                !.error_flags = @ \cup Missing(Len(Search[wire][later].results)),
                !.wifi_pending = TRUE, !.wifi_retried = 0]
         /\ loose' = (later # wire)
  BY Zenon DEF Sensors
<1> DEFINE l == Search[wire][later]
           rs == l.results
           flags == Missing(Len(rs))
           M == TRAIT_EXPECTED_THERMALS1
<1>3. Right(wire, later, M, l)
  <2>1. Search[wire][later] = exec_ds18b20(wire, later, M)
    BY DEF Search, FoundInv
  <2>2. Right(wire, later, M, exec_ds18b20(wire, later, M))
    BY SearchIsRight, GroundAssumption DEF FoundInv
  <2>. QED  BY <2>1, <2>2
<1>4. PICK raw \in Raws :
         my' = [my EXCEPT
            !.thermals1 = [i \in 1..Len(rs) |->
                [rom |-> rs[i], raw |-> raw, t |-> Temperature(family(rs[i]), raw)]],
            !.error_flags = @ \cup flags,
            !.wifi_pending = TRUE, !.wifi_retried = 0]
  BY <1>2, Zenon
<1> DEFINE th == [i \in 1..Len(rs) |->
                [rom |-> rs[i], raw |-> raw, t |-> Temperature(family(rs[i]), raw)]]
<1> HIDE DEF l
<1>5. /\ rs \in Seq(Rom) /\ Len(rs) <= M
      /\ \A i \in 1..Len(rs) : rs[i] \in Thermometers(wire)
      /\ later = wire =>
          /\ \A i, j \in 1..Len(rs) : i < j => Before(rs[i], rs[j])
          /\ \A d \in Thermometers(wire) :
                \/ \E i \in 1..Len(rs) : rs[i] = d
                \/ Len(rs) = M /\ \A i \in 1..Len(rs) : Before(rs[i], d)
  <2>1. l.results \in Seq(Rom)
    BY <1>3, Zenon DEF Right, LoopState
  <2>. QED  BY <1>3, <2>1, Zenon DEF Right
<1> HIDE DEF rs, flags
<1>6. my'.thermals1 = th
  <2> HIDE DEF th
  <2>1. DOMAIN my = {"error_flags", "thermals1", "wifi_pending", "wifi_retried", "telemetry_retried"}
    BY DEF ControlOK, my_state
  <2>2. my' = [my EXCEPT !.thermals1 = th, !.error_flags = @ \cup flags,
                         !.wifi_pending = TRUE, !.wifi_retried = 0]
    BY <1>4, Zenon DEF th
  <2>. QED  BY <2>1, <2>2 DEF ControlOK
<1>7. DOMAIN th = 1..Len(rs) /\ \A i \in 1..Len(rs) : th[i].rom = rs[i]
  OBVIOUS
<1> HIDE DEF th
<1>8. [i \in DOMAIN th |-> th[i].rom] = rs
  <2>1. [i \in DOMAIN th |-> th[i].rom] = [i \in 1..Len(rs) |-> rs[i]]
    BY <1>7
  <2>2. rs = [i \in 1..Len(rs) |-> rs[i]]
    BY <1>5
  <2>. QED  BY <2>1, <2>2
<1>9. DOMAIN rs = 1..Len(rs)
  BY <1>5
<1>10. later = wire => AllInOrder(rs, wire)
  BY <1>5, <1>9, Zenon DEF AllInOrder
<1>11. Found(th, wire, later # wire)
  BY <1>5, <1>8, <1>9, <1>10, Zenon DEF Found
<1>12. Found(my'.thermals1, wire', loose')
  BY <1>1, <1>2, <1>6, <1>11, Zenon
<1>. QED  BY <1>1, <1>12 DEF FoundInv

\* It stays so while the network is waited for.
LEMMA FoundKept ==
    ASSUME ControlOK, FoundInv, [Next]_vars, ~Sensors
    PROVE  FoundInv'
<1>1. CASE /\ state' # "WIFI_PENDING"
           /\ UNCHANGED wire
  BY <1>1 DEF FoundInv
<1>2. CASE state' = state /\ UNCHANGED <<wire, loose>> /\ my'.thermals1 = my.thermals1
  <2>1. ASSUME state = "WIFI_PENDING" PROVE Found(my'.thermals1, wire', loose')
    <3>1. Found(my.thermals1, wire, loose)
      BY <2>1 DEF FoundInv
    <3>. QED  BY <1>2, <3>1, Zenon
  <2>. QED  BY <1>2, <2>1 DEF FoundInv
<1>3. CASE Reset \/ sentrifarm_init
  BY <1>1, <1>3 DEF Reset, sentrifarm_init
<1>4. CASE WakeAndScan
  BY <1>1, <1>4 DEF WakeAndScan
<1>5. CASE Settle \/ TelemetryFinished \/ TelemetryFault \/ Done \/ RebootRequired
  BY <1>1, <1>3, <1>5 DEF Settle, TelemetryFinished, TelemetryFault, Done, RebootRequired,
       Fires, Proceed, Leave
<1>6. CASE WifiFinished
  BY <1>1, <1>6 DEF WifiFinished, Proceed
<1>7. CASE TelemetryRefused \/ Telemetry \/ TelemetryWaits
  BY <1>1, <1>7 DEF TelemetryRefused, Telemetry, TelemetryWaits, Proceed
<1>8. CASE WifiWaits
  <2>1. DOMAIN my = {"error_flags", "thermals1", "wifi_pending", "wifi_retried", "telemetry_retried"}
    BY DEF ControlOK, my_state
  <2>2. my'.thermals1 = my.thermals1
    BY <1>8, <2>1 DEF ControlOK, WifiWaits, sentri_check_wifi
  <2>3. /\ UNCHANGED <<wire, loose>>
        /\ state = "WIFI_PENDING"
        /\ state' = "ERROR" \/ state' = "WIFI_PENDING"
    BY <1>8 DEF WifiWaits, Fires, Proceed, Leave
  <2>. QED  BY <1>1, <1>2, <2>2, <2>3
<1>9. CASE connected \/ datasent \/ disconnected \/ reconnect \/ conn_checker_handler
  BY <1>2, <1>9 DEF connected, datasent, disconnected, reconnect, conn_checker_handler
<1>10. CASE UNCHANGED vars
  BY <1>2, <1>10 DEF vars
<1>. QED  BY <1>3, <1>4, <1>5, <1>6, <1>7, <1>8, <1>9, <1>10
          DEF Next, Wake, WakeWithoutScan, scan_done_cb, sentri_state_timer_cb, Chain,
              conn_checker, CheckerCrashes

\* A report has thermometers that are on the wire and no more than there is
\* room for; all of them and each once if nothing came loose; and each with
\* its temperature.  For addresses of any length and any number of devices.
THEOREM ThermometersRight == Spec => []SensorsRight
<1>1. Init => FoundInv
  BY DEF Init, FoundInv
<1>2. IndInv /\ FoundInv /\ [Next]_vars => FoundInv'
  BY FoundAtFirst, FoundKept DEF IndInv
<1>3. IndInv /\ FoundInv => SensorsRight
  BY DEF IndInv, FoundInv, Found, SensorsRight, SensorsFound
<1>. QED  BY <1>1, <1>2, <1>3, GroundInvariance, PTL DEF Spec

-----------------------------------------------------------------------------
(* Types *)

\* A temperature fits the fields it is stored in.
LEMMA TemperatureType ==
    ASSUME NEW fam, NEW raw \in 0..(Word - 1)
    PROVE  Temperature(fam, raw)
             \in [tSign : {"+", "-"}, tVal : 0..Word - 1, tFract : 0..99]
<1> DEFINE t == IF raw >= Word \div 2 THEN Word - raw ELSE raw
           v == IF fam = DS18S20 THEN t \div 2 ELSE t \div 16
           c == IF fam = DS18S20 THEN IF t % 2 = 1 THEN 50 ELSE 0
                ELSE ((t % 16) * 100) \div 16
<1>1. t \in 0..Word /\ Word \in Nat /\ Word >= 1
  BY WordType
<1> HIDE DEF t
<1>2. t \div 2 \in 0..(Word - 1) /\ t \div 16 \in 0..(Word - 1)
  BY <1>1, Z3
<1>3. ((t % 16) * 100) \div 16 \in 0..99
  BY <1>1, Z3
<1>4. v \in 0..(Word - 1) /\ c \in 0..99
  BY <1>2, <1>3
<1>5. Temperature(fam, raw) = [tSign |-> IF raw >= Word \div 2 THEN "-" ELSE "+",
                               tVal |-> v, tFract |-> c]
  BY Zenon DEF Temperature, t
<1> HIDE DEF v, c
<1>. QED  BY <1>4, <1>5

\* Every step keeps the types, given those of the control.
LEMMA DataStep ==
    ASSUME ControlOK, DataOK, [Next]_vars
    PROVE  DataOK'
<1> DEFINE Same == UNCHANGED <<wire, loose>>
           W == MAX_WIFIUP_RETRY_ATTEMPTS
           T == MAX_TELEMETRY_RETRY_ATTEMPTS
           Outcomes == {"none", "sent", "closed", "fault"}
<1>a. W \in Nat /\ T \in Nat /\ TRAIT_EXPECTED_THERMALS1 \in Nat \ {0}
  BY GroundAssumption
<1>b. DOMAIN my = {"error_flags", "thermals1", "wifi_pending", "wifi_retried", "telemetry_retried"}
  BY DEF ControlOK, my_state
<1>1. CASE my' = my_state /\ wire' = wire /\ loose' \in BOOLEAN /\ outcome' \in Outcomes
           /\ state' \notin {"WIFI_PENDING", "TELEMETRY_PENDING"}
  <2>1. /\ my'.error_flags = {} /\ my'.thermals1 = << >> /\ my'.wifi_pending = FALSE
        /\ my'.wifi_retried = 0 /\ my'.telemetry_retried = 0
    BY <1>1 DEF my_state
  <2>2. << >> \in Seq(Thermal) /\ Len(<< >>) = 0
    OBVIOUS
  <2>3. /\ my'.wifi_retried \in 0..W + 2 /\ my'.telemetry_retried \in 0..T + 2
        /\ Len(my'.thermals1) <= TRAIT_EXPECTED_THERMALS1
        /\ my'.error_flags \subseteq Errors /\ my'.thermals1 \in Seq(Thermal)
    BY <1>a, <2>1, <2>2
  <2>4. my'.wifi_pending \in BOOLEAN
    BY <2>1, Zenon
  <2>5. wire' \in SUBSET Devices
    BY <1>1 DEF DataOK
  <2>. QED  BY <1>1, <2>3, <2>4, <2>5, Zenon DEF DataOK
<1>2. CASE /\ my' = my /\ Same /\ outcome' \in Outcomes
           /\ state' = state => timer' = timer
           /\ state' # state => state' \notin {"WIFI_PENDING", "TELEMETRY_PENDING"}
  BY <1>2 DEF DataOK
<1>3. CASE Reset \/ sentrifarm_init
  BY <1>1, <1>3 DEF Reset, sentrifarm_init, DataOK
<1>4. CASE WakeAndScan
  BY <1>2, <1>4 DEF WakeAndScan, DataOK
<1>5. CASE Settle \/ TelemetryFinished \/ TelemetryFault \/ Done \/ RebootRequired
  <2>1. CASE Reset
    BY <1>3, <2>1
  <2>2. CASE ~Reset
    <3>1. UNCHANGED <<my, wire, loose, outcome>>
      BY <1>5, <2>2, Zenon DEF Settle, TelemetryFinished, TelemetryFault, Done, RebootRequired
    <3>2. state' \notin {"WIFI_PENDING", "TELEMETRY_PENDING"}
      BY <1>5, <2>2 DEF Settle, TelemetryFinished, TelemetryFault, Done, RebootRequired,
           Proceed, Leave
    <3>. QED  BY <3>1, <3>2 DEF DataOK
  <2>. QED  BY <2>1, <2>2
<1>6. CASE Sensors
  <2>1. PICK later \in SUBSET wire :
           /\ \E raw \in Raws :
                my' = [my EXCEPT
                  !.thermals1 = [i \in 1..Len(Search[wire][later].results) |->
                      [rom |-> Search[wire][later].results[i], raw |-> raw,
                       t |-> Temperature(family(Search[wire][later].results[i]), raw)]],
                  !.error_flags = @ \cup Missing(Len(Search[wire][later].results)),
                  !.wifi_pending = TRUE, !.wifi_retried = 0]
           /\ loose' = (later # wire)
    BY <1>6, Zenon DEF Sensors
  <2> DEFINE l == Search[wire][later]
             rs == l.results
             flags == Missing(Len(rs))
             M == TRAIT_EXPECTED_THERMALS1
  <2>2. rs \in Seq(Rom) /\ Len(rs) <= M
    <3>1. Search[wire][later] = exec_ds18b20(wire, later, M)
      BY DEF Search, DataOK
    <3>2. Right(wire, later, M, exec_ds18b20(wire, later, M))
      BY <1>a, SearchIsRight DEF DataOK
    <3> HIDE DEF M
    <3>. QED  BY <3>1, <3>2, Zenon DEF Right, LoopState
  <2>3. PICK raw \in Raws :
           my' = [my EXCEPT
              !.thermals1 = [i \in 1..Len(rs) |->
                  [rom |-> rs[i], raw |-> raw, t |-> Temperature(family(rs[i]), raw)]],
              !.error_flags = @ \cup flags,
              !.wifi_pending = TRUE, !.wifi_retried = 0]
    BY <2>1, Zenon
  <2> HIDE DEF rs, flags
  <2> DEFINE th == [i \in 1..Len(rs) |->
                  [rom |-> rs[i], raw |-> raw, t |-> Temperature(family(rs[i]), raw)]]
  <2>4. th \in Seq(Thermal) /\ Len(th) <= M
    <3>1. raw \in 0..(Word - 1)
      BY GroundAssumption
    <3>2. \A i \in 1..Len(rs) : rs[i] \in Rom
      BY <2>2
    <3>3. \A i \in 1..Len(rs) :
             [rom |-> rs[i], raw |-> raw, t |-> Temperature(family(rs[i]), raw)] \in Thermal
      BY <3>1, <3>2, TemperatureType, Zenon DEF Thermal
    <3>4. Len(rs) \in Nat
      BY <2>2
    <3>5. th \in [1..Len(rs) -> Thermal]
      BY <3>3, Zenon
    <3> HIDE DEF th
    <3>6. th \in Seq(Thermal) /\ Len(th) = Len(rs)
      BY <3>4, <3>5
    <3>. QED  BY <2>2, <3>6
  <2> HIDE DEF th
  <2>5. my' = [my EXCEPT !.thermals1 = th, !.error_flags = @ \cup flags,
                         !.wifi_pending = TRUE, !.wifi_retried = 0]
    BY <2>3, Zenon DEF th
  <2>6. /\ my'.thermals1 = th /\ my'.error_flags = my.error_flags \cup flags
        /\ my'.wifi_retried = 0 /\ my'.telemetry_retried = my.telemetry_retried
        /\ my'.wifi_pending = TRUE
    BY <1>b, <2>5 DEF ControlOK
  <2>7. flags \subseteq Errors
    BY DEF flags, Missing, Errors
  <2>8. my'.wifi_pending \in BOOLEAN /\ loose' \in BOOLEAN
    BY <2>1, <2>6, Zenon
  <2>9. /\ UNCHANGED <<wire, outcome>> /\ state' = "WIFI_PENDING"
    BY <1>6 DEF Sensors, Proceed
  <2>. QED  BY <1>a, <2>4, <2>6, <2>7, <2>8, <2>9 DEF DataOK
<1>7. CASE WifiWaits \/ WifiFinished
  <2>1. PICK s \in Status :
           my' = sentri_check_wifi(s)
             \/ my' = [sentri_check_wifi(s) EXCEPT !.wifi_retried = @ + 1]
    BY <1>7, Zenon DEF WifiWaits, WifiFinished
  <2> DEFINE flags == (IF s = "CONNECT_FAIL" THEN {"WIFI_CONNECT"} ELSE {}) \cup
                      (IF s = "NO_AP_FOUND" THEN {"WIFI_AP_NOT_FOUND"} ELSE {})
             p == my.wifi_pending /\ s \notin {"CONNECT_FAIL", "NO_AP_FOUND", "GOT_IP"}
             c == [my EXCEPT !.wifi_pending = p, !.error_flags = @ \cup flags]
  <2>2. sentri_check_wifi(s) = c
    BY Zenon DEF sentri_check_wifi
  <2>3. p \in BOOLEAN
    BY Zenon
  <2>4. flags \subseteq Errors /\ (my.error_flags \cup flags) \subseteq Errors
    BY DEF Errors, DataOK
  <2> HIDE DEF flags, p
  <2>5. /\ my'.thermals1 = my.thermals1 /\ my'.error_flags = my.error_flags \cup flags
        /\ my'.wifi_pending = p /\ my'.telemetry_retried = my.telemetry_retried
    BY <1>b, <2>1, <2>2 DEF ControlOK
  <2>6. /\ WifiWaits => my'.wifi_retried = my.wifi_retried + 1
        /\ WifiFinished => my'.wifi_retried = my.wifi_retried \/ WifiWaits
    <3>1. ASSUME WifiWaits PROVE my'.wifi_retried = my.wifi_retried + 1
      BY <1>b, <3>1 DEF ControlOK, WifiWaits, sentri_check_wifi
    <3>2. ASSUME WifiFinished PROVE my'.wifi_retried = my.wifi_retried
      BY <1>b, <3>2 DEF ControlOK, WifiFinished, sentri_check_wifi
    <3>. QED  BY <3>1, <3>2
  <2>7. my'.wifi_pending \in BOOLEAN
    BY <2>3, <2>5, Zenon
  <2>8. /\ UNCHANGED <<wire, loose, outcome>>
        /\ state = "WIFI_PENDING" /\ timer
        /\ WifiFinished => state' \in {"REBOOT_REQUIRED", "TELEMETRY"}
        /\ WifiWaits => /\ state' \in {"WIFI_PENDING", "ERROR"}
                        /\ timer' => my.wifi_retried <= W
    BY <1>7, <1>a DEF WifiWaits, WifiFinished, Fires, Proceed, Leave, ControlOK
  <2>9. my.wifi_retried \in Nat /\ my.wifi_retried <= W + 1
    BY <2>8, <1>a DEF DataOK, ControlOK
  <2>. QED  BY <1>7, <1>a, <2>4, <2>5, <2>6, <2>7, <2>8, <2>9 DEF DataOK
<1>8. CASE TelemetryRefused \/ Telemetry \/ TelemetryWaits
  <2>1. /\ my'.thermals1 = my.thermals1 /\ my'.error_flags = my.error_flags
        /\ my'.wifi_pending = my.wifi_pending /\ my'.wifi_retried = my.wifi_retried
        /\ \/ my'.telemetry_retried = 0
           \/ TelemetryWaits /\ my'.telemetry_retried = my.telemetry_retried + 1
    BY <1>8, <1>b DEF TelemetryRefused, Telemetry, TelemetryWaits, ControlOK
  <2>2. my.wifi_pending \in BOOLEAN
    BY DEF DataOK
  <2>3. my'.wifi_pending \in BOOLEAN
    BY <2>1, <2>2, Zenon
  <2>4. /\ UNCHANGED <<wire, loose, outcome>>
        /\ state' \in {"TELEMETRY_PENDING", "TELEMETRY_FAULT"}
        /\ TelemetryWaits => /\ state = "TELEMETRY_PENDING"
                             /\ state' = "TELEMETRY_PENDING" => ~(my.telemetry_retried > T)
    BY <1>8 DEF TelemetryRefused, Telemetry, TelemetryWaits, Fires, Proceed
  <2>5. /\ my.telemetry_retried \in 0..T + 2
        /\ TelemetryWaits => my.telemetry_retried <= T + 1
    BY <2>4 DEF DataOK
  <2>6. /\ my'.telemetry_retried \in 0..T + 2
        /\ state' = "TELEMETRY_PENDING" => my'.telemetry_retried <= T + 1
    BY <1>a, <2>1, <2>4, <2>5
  <2>. QED  BY <2>1, <2>3, <2>4, <2>6 DEF DataOK
<1>9. CASE connected \/ datasent \/ disconnected \/ reconnect \/ conn_checker_handler
  <2>1. UNCHANGED <<state, timer, my, wire, loose>>
    BY <1>9, Zenon DEF connected, datasent, disconnected, reconnect, conn_checker_handler
  <2>2. outcome' \in Outcomes
    BY <1>9 DEF connected, datasent, disconnected, reconnect, conn_checker_handler, DataOK
  <2>. QED  BY <2>1, <2>2 DEF DataOK
<1>10. CASE UNCHANGED vars
  BY <1>10 DEF vars, DataOK
<1>. QED  BY <1>3, <1>4, <1>5, <1>6, <1>7, <1>8, <1>9, <1>10
          DEF Next, Wake, WakeWithoutScan, scan_done_cb, sentri_state_timer_cb, Chain,
              conn_checker, CheckerCrashes

\* The types of the sensor: its registers never hold more thermometers than
\* there is room for, and neither poll goes beyond its number of attempts.
THEOREM GroundTypes == Spec => []TypeOK
<1>1. Init => DataOK
  <2> SUFFICES ASSUME Init PROVE DataOK
    OBVIOUS
  <2>1. /\ my.error_flags = {} /\ my.thermals1 = << >> /\ my.wifi_pending = FALSE
        /\ my.wifi_retried = 0 /\ my.telemetry_retried = 0
    BY DEF Init, my_state
  <2>2. << >> \in Seq(Thermal) /\ Len(<< >>) = 0
    OBVIOUS
  <2>3. /\ my.wifi_retried \in 0..MAX_WIFIUP_RETRY_ATTEMPTS + 2
        /\ my.telemetry_retried \in 0..MAX_TELEMETRY_RETRY_ATTEMPTS + 2
        /\ Len(my.thermals1) <= TRAIT_EXPECTED_THERMALS1
        /\ my.error_flags \subseteq Errors /\ my.thermals1 \in Seq(Thermal)
    BY <2>1, <2>2, GroundAssumption
  <2>4. my.wifi_pending \in BOOLEAN
    BY <2>1, Zenon
  <2>5. state \notin {"WIFI_PENDING", "TELEMETRY_PENDING"}
    BY DEF Init
  <2>. QED  BY <2>3, <2>4, <2>5, Zenon DEF Init, DataOK
<1>2. IndInv /\ DataOK /\ [Next]_vars => DataOK'
  BY DataStep DEF IndInv
<1>3. IndInv /\ DataOK => TypeOK
  BY Zenon DEF IndInv, ControlOK, DataOK, TypeOK
<1>. QED  BY <1>1, <1>2, <1>3, GroundInvariance, PTL DEF Spec
=============================================================================
