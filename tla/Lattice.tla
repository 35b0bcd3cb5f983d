------------------------------ MODULE Lattice ------------------------------
(***************************************************************************)
(* The hexagonal lattice of internal/lattice: axial coordinates, rings,    *)
(* the packed (Morton) key under which a coordinate is stored, the bounds  *)
(* a scan must respect, and the two coarsenings of the grid.               *)
(*                                                                         *)
(* A coordinate is the pair <<q, r>>; the third cube axis is -q - r.       *)
(***************************************************************************)
EXTENDS Integers, Sequences, FiniteSets, FiniteSetsExt, SequencesExt

Origin == <<0, 0>>
Abs(x) == IF x < 0 THEN -x ELSE x
Plus(a, b) == <<a[1] + b[1], a[2] + b[2]>>
Times(k, a) == <<k * a[1], k * a[2]>>
CubeS(c) == -c[1] - c[2]

(* Coord.Distance: half the cube Manhattan distance. *)
Distance(a, b) ==
  (Abs(a[1] - b[1]) + Abs(a[2] - b[2]) + Abs((a[1] + a[2]) - (b[1] + b[2]))) \div 2

(* cubeDirections, by index 0..5. *)
Direction(i) == <<<<1, 0>>, <<1, -1>>, <<0, -1>>, <<-1, 0>>, <<-1, 1>>, <<0, 1>>>>[i + 1]

Neighbors(c) == [i \in 1..6 |-> Plus(c, Direction(i - 1))]

(* RingInto: six sides of k steps, from center + k in the +q direction;    *)
(* side i starts at the i-th corner and steps in direction i + 2.          *)
Ring(center, k) ==
  IF k < 0 THEN <<>> ELSE IF k = 0 THEN <<center>> ELSE
  [n \in 1..6*k |->
     LET i == (n - 1) \div k
         j == (n - 1) % k
     IN  Plus(center, Plus(Times(k, Direction(i)), Times(j, Direction((i + 2) % 6))))]

(* SpiralRange: the rings minR..maxR in ascending order; WalkRings is the  *)
(* range from the centre, taken from a table where it is short (TLC        *)
(* computes the table once).                                               *)
SpiralRange(center, minR, maxR) ==
  IF maxR < 0 \/ minR > maxR THEN <<>>
  ELSE LET first == Max({minR, 0})
       IN  FlattenSeq([i \in 1..maxR - first + 1 |-> Ring(center, first + i - 1)])
ShortSpirals == [n \in 0..2 |-> SpiralRange(Origin, 0, n)]
WalkRings(center, maxR) ==
  LET spiral == IF maxR \in DOMAIN ShortSpirals THEN ShortSpirals[maxR] ELSE SpiralRange(Origin, 0, maxR)
  IN  [i \in DOMAIN spiral |-> Plus(center, spiral[i])]

HexDiskCellCount(radius) == 1 + 3 * radius * (radius + 1)

-----------------------------------------------------------------------------
(* Packed keys.                                                            *)

MaxAxialAbs == 2^18 - 1
ZigzagBits == 21

InPackRange(c) == \A x \in {c[1], c[2], CubeS(c)} : Abs(x) <= MaxAxialAbs

Zigzag(n) == IF n >= 0 THEN 2 * n ELSE 2 * (-(n + 1)) + 1
Unzigzag(z) == IF z % 2 = 0 THEN z \div 2 ELSE -((z + 1) \div 2)
Bit(z, i) == (z \div 2^i) % 2

(* Pack: bit i of the three zigzag axes is octal digit i of the key. Digits *)
(* that are zero are not summed: only the digits a small coordinate has     *)
(* reach TLC's integers.                                                    *)
MortonDigit(c, i) == Bit(Zigzag(c[1]), i) + 2 * Bit(Zigzag(c[2]), i) + 4 * Bit(Zigzag(CubeS(c)), i)
Pack(c) ==
  MapThenSumSet(LAMBDA i : MortonDigit(c, i) * 8^i,
                {i \in 0..ZigzagBits - 1 : MortonDigit(c, i) # 0})

(* Unpack, of a key of n octal digits: the axis takes its own bit of each. *)
Unpack(p, n) ==
  LET axis(k) == Unzigzag(MapThenSumSet(LAMBDA i : Bit((p \div 8^i) % 8, k) * 2^i, 0..n - 1))
  IN  <<axis(0), axis(1)>>

(* The keys of the coordinates the models reach (TLC computes the table    *)
(* once).                                                                  *)
Keys == [c \in (-6..6) \X (-6..6) |-> Pack(c)]
Key(c) == Keys[c]

(* Compare, Less: the order of the keys in the tree. *)
PackedLess(a, b) == Key(a) < Key(b)

(* The members of S in ascending order of Less. *)
Sorted(S, Less(_, _)) ==
  [i \in 1..Cardinality(S) |->
     CHOOSE x \in S : Cardinality({y \in S : Less(y, x)}) = i - 1]

(* validatePackedRadius: the whole disk around the centre can be packed. *)
PackedRadius(center, radius) ==
  /\ radius >= 0
  /\ InPackRange(center)
  /\ radius <= Min({MaxAxialAbs - Abs(x) : x \in {center[1], center[2], CubeS(center)}})

(* WalkRingsPackedSeq: what cannot be packed is skipped. *)
WalkRingsPacked(center, maxR) == SelectSeq(WalkRings(center, maxR), InPackRange)

-----------------------------------------------------------------------------
(* Coarsening.                                                             *)

SuperHexCenter(p) == <<2 * p[1] - p[2], p[1] + 3 * p[2]>>

CoordLess(a, b) == a[1] < b[1] \/ (a[1] = b[1] /\ a[2] < b[2])

(* SuperHexParent: of the nine parents around the rounded-down transform,  *)
(* the one whose centre is nearest, the least of them on a tie.            *)
SuperHexParent(c) ==
  LET around == {<<((3 * c[1] + c[2]) \div 7) + dq, ((2 * c[2] - c[1]) \div 7) + dr>> :
                   dq \in -1..1, dr \in -1..1}
      far(p) == Distance(c, SuperHexCenter(p))
  IN  CHOOSE p \in around : \A o \in around :
        far(p) < far(o) \/ (far(p) = far(o) /\ ~CoordLess(o, p))

SuperHexChildren(p) == WalkRings(SuperHexCenter(p), 1)

(* CoarsenCoord and RefineCoord: the parallelogram hierarchy. TLA+'s \div  *)
(* rounds down, which is what floorDiv makes of Go's division.             *)
CoarsenCoord(c, factor) == <<c[1] \div factor, c[2] \div factor>>
RefineCoord(c, factor) ==
  {Plus(Times(factor, c), <<dq, dr>>) : dq \in 0..factor - 1, dr \in 0..factor - 1}
=============================================================================
