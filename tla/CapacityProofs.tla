---------------------------- MODULE CapacityProofs ----------------------------
(***************************************************************************)
(* Proofs about the capacities and the block rows of a configuration, for  *)
(* every width of an int and whatever numbers a client sends.              *)
(***************************************************************************)
EXTENDS Capacity, FiniteSetTheorems, TLAPS

\* Two numbers an int cannot tell apart are this far apart, or a multiple of it.
Span == 2 * (MaxInt + 1)

\* It is positive.
LEMMA SpanType == MaxInt \in Nat \ {0} /\ Span \in Nat \ {0} /\ Span = 2 * MaxInt + 2
  BY CapacityAssumption DEF Span

\* Arithmetic of ints: what is kept of a number,
LEMMA Wraps ==
  ASSUME NEW x \in Int
  PROVE  Wrap(x) \in Word /\ \E k \in Int : x = Wrap(x) + Span * k
PROOF
<1>1. PICK y, q, r : y = x + MaxInt + 1 /\ q = y \div Span /\ r = y % Span
  OBVIOUS
<1>2. y \in Int
  BY <1>1, SpanType
<1>3. q \in Int /\ r \in 0 .. Span - 1 /\ y = Span * q + r
  <2>1. Span > 0 /\ Span \in Int
    BY SpanType
  <2>2. QED BY <1>1, <1>2, <2>1
<1>4. Wrap(x) = r - (MaxInt + 1)
  BY <1>1, <1>2 DEF Wrap, Span
<1>5. Span * q \in Int
  BY <1>3, SpanType
<1>6. x = Wrap(x) + Span * q
  BY <1>1, <1>3, <1>4, <1>5, SpanType
<1>7. Wrap(x) \in Word
  BY <1>3, <1>4, SpanType DEF Word
<1>8. QED BY <1>3, <1>6, <1>7

\* that what differs by a multiple of the span is kept alike,
LEMMA WrapSame ==
  ASSUME NEW x \in Int, NEW y \in Int, NEW k \in Int, x = y + Span * k
  PROVE  Wrap(x) = Wrap(y)
PROOF
<1>1. PICK i \in Int : x = Wrap(x) + Span * i
  BY Wraps
<1>2. PICK j \in Int : y = Wrap(y) + Span * j
  BY Wraps
<1>3. PICK a \in Word, b \in Word : a = Wrap(x) /\ b = Wrap(y)
  BY Wraps
<1>4. a \in Int /\ b \in Int /\ a - b < Span /\ b - a < Span
  BY SpanType DEF Word
<1>5. a - b = Span * (k + j - i)
  <2>1. a + Span * i = b + Span * j + Span * k
    BY <1>1, <1>2, <1>3
  <2>2. Span \in Int
    BY SpanType
  <2>3. QED BY <1>4, <2>1, <2>2
<1>6. PICK n \in Int : n = k + j - i /\ a - b = Span * n
  BY <1>5
<1>7. n = 0
  <2>1. Span \in Nat \ {0}
    BY SpanType
  <2>2. n >= 1 => Span * n >= Span
    BY <2>1
  <2>3. n <= -1 => Span * n <= -Span
    BY <2>1
  <2>4. QED BY <1>4, <1>6, <2>1, <2>2, <2>3
<1>8. a = b
  BY <1>4, <1>6, <1>7, SpanType
<1>9. QED BY <1>3, <1>8

\* that an int is kept as it is,
LEMMA WrapExact ==
  ASSUME NEW x \in Word
  PROVE  Wrap(x) = x
PROOF
<1>1. x \in Int
  BY SpanType DEF Word
<1>2. PICK k \in Int, a \in Word : a = Wrap(x) /\ x = a + Span * k
  BY <1>1, Wraps
<1>3. a \in Int /\ x - a < Span /\ a - x < Span
  BY <1>1, SpanType DEF Word
<1>4. k = 0
  <2>1. Span \in Nat \ {0}
    BY SpanType
  <2>2. k >= 1 => Span * k >= Span
    BY <2>1
  <2>3. k <= -1 => Span * k <= -Span
    BY <2>1
  <2>4. Span * k = x - a
    BY <1>1, <1>2, <1>3, <2>1
  <2>5. QED BY <1>1, <1>3, <2>1, <2>2, <2>3, <2>4
<1>5. QED BY <1>1, <1>2, <1>3, <1>4, SpanType

\* that what is computed from kept numbers is kept of the whole,
LEMMA WrapProduct ==
  ASSUME NEW x \in Int, NEW y \in Int
  PROVE  Wrap(Wrap(x) * y) = Wrap(x * y)
PROOF
<1>1. PICK k \in Int, a \in Word : a = Wrap(x) /\ x = a + Span * k
  BY Wraps
<1>2. a \in Int /\ Span \in Int
  BY SpanType DEF Word
<1>3. x * y = a * y + Span * (k * y)
  BY <1>1, <1>2
<1>4. a * y \in Int /\ x * y \in Int /\ k * y \in Int
  BY <1>2
<1>5. QED BY <1>1, <1>3, <1>4, WrapSame

\* So is an overflow inside a sum.
LEMMA WrapSum ==
  ASSUME NEW x \in Int, NEW y \in Int
  PROVE  Wrap(Wrap(x) + y) = Wrap(x + y)
PROOF
<1>1. PICK k \in Int, a \in Word : a = Wrap(x) /\ x = a + Span * k
  BY Wraps
<1>2. a \in Int /\ Span \in Int
  BY SpanType DEF Word
<1>3. x + y = (a + y) + Span * k
  BY <1>1, <1>2
<1>4. a + y \in Int /\ x + y \in Int
  BY <1>2
<1>5. QED BY <1>1, <1>3, <1>4, WrapSame

\* and that no natural number is kept as a larger one.
LEMMA WrapLess ==
  ASSUME NEW x \in Nat
  PROVE  Wrap(x) <= x
PROOF
<1>1. Wrap(x) \in Word
  BY Wraps
<1>2. CASE x <= MaxInt
  <2>1. x \in Word
    BY <1>2, SpanType DEF Word
  <2>2. QED BY <2>1, WrapExact
<1>3. CASE x > MaxInt
  BY <1>1, <1>3, SpanType DEF Word
<1>4. QED BY <1>2, <1>3, SpanType
-----------------------------------------------------------------------------
\* The blocks of a die, and the numbers without an overflow.
Stride(l) == Times(l.planes, l.blocks)
Volume(l) == l.die * l.planes * l.blocks

\* A layout NewLayout accepts: its block number is what an int keeps of the
\* volume, and no die is without blocks.
LEMMA AcceptedLayout ==
  ASSUME NEW l \in Asked, LaidOut(l)
  PROVE  /\ l.die \in 1 .. MaxInt /\ l.planes \in 1 .. MaxInt
         /\ l.blocks \in 1 .. MaxInt /\ l.pages \in 1 .. MaxInt /\ l.bytes \in 1 .. MaxInt
         /\ Volume(l) \in Nat /\ TotalBlocks(l) = Wrap(Volume(l))
         /\ TotalBlocks(l) \in 1 .. MaxInt /\ TotalBlocks(l) <= Volume(l)
         /\ l.reserved \in 0 .. TotalBlocks(l) - 1
         /\ UsableBlocks(l) = TotalBlocks(l) - l.reserved
         /\ Stride(l) \in Int \ {0}
         /\ \E k \in Int : TotalBlocks(l) = Stride(l) * l.die + Span * k
PROOF
<1>1. PICK d, p, b, g, y, r : /\ d = l.die /\ p = l.planes /\ b = l.blocks
                              /\ g = l.pages /\ y = l.bytes /\ r = l.reserved
  OBVIOUS
<1>2. d \in Word /\ p \in Word /\ b \in Word /\ g \in Word /\ y \in Word /\ r \in Word
  BY <1>1, CapacityAssumption DEF Asked
<1>3. d > 0 /\ p > 0 /\ b > 0 /\ g > 0 /\ y > 0 /\ r >= 0 /\ r < TotalBlocks(l)
  BY <1>1 DEF LaidOut, Dimension
<1>4. /\ d \in 1 .. MaxInt /\ p \in 1 .. MaxInt /\ b \in 1 .. MaxInt /\ g \in 1 .. MaxInt
      /\ y \in 1 .. MaxInt /\ r \in Nat
  BY <1>2, <1>3, SpanType DEF Word
<1>5. d \in Nat /\ p \in Nat /\ b \in Nat /\ d * p \in Nat /\ d * p * b \in Nat /\ p * b \in Nat
  BY <1>4, SpanType
<1>6. TotalBlocks(l) = Wrap(d * p * b)
  <2>1. PICK x \in Int : x = d * p
    BY <1>5
  <2>2. Wrap(Wrap(x) * b) = Wrap(x * b)
    BY <1>5, WrapProduct
  <2>3. QED BY <1>1, <2>1, <2>2 DEF TotalBlocks, Times
<1>7. Volume(l) = d * p * b
  BY <1>1 DEF Volume
<1>8. PICK n \in Word : n = TotalBlocks(l)
  BY <1>5, <1>6, Wraps
<1>9. n \in 1 .. MaxInt /\ n <= d * p * b
  BY <1>3, <1>4, <1>5, <1>6, <1>8, WrapLess, SpanType DEF Word
<1>10. UsableBlocks(l) = n - r
  <2>1. n - r \in Word
    BY <1>3, <1>4, <1>8, <1>9, SpanType DEF Word
  <2>2. QED BY <1>1, <1>8, <2>1, WrapExact DEF UsableBlocks
<1>11. PICK s \in Word, i \in Int : s = Stride(l) /\ p * b = s + Span * i
  BY <1>1, <1>5, Wraps DEF Stride, Times
<1>12. s \in Int /\ Span \in Int
  BY SpanType DEF Word
<1>13. PICK j \in Int : d * p * b = n + Span * j
  BY <1>5, <1>6, <1>8, Wraps
<1>14. n = s * d + Span * (i * d - j)
  <2>1. d * p * b = d * (p * b)
    BY <1>5
  <2>2. d * (p * b) = d * s + d * (Span * i)
    <3>1. \A x, z \in Int : d * (x + z) = d * x + d * z
      BY <1>5
    <3>2. Span * i \in Int
      BY <1>12
    <3>3. QED BY <1>11, <1>12, <3>1, <3>2
  <2>3. n = d * s + d * (Span * i) - Span * j
    BY <1>5, <1>9, <1>12, <1>13, <2>1, <2>2
  <2>4. d * s = s * d /\ d * (Span * i) = Span * (i * d)
    BY <1>5, <1>12
  <2>5. QED BY <1>5, <1>9, <1>12, <2>3, <2>4
<1>15. i * d - j \in Int
  BY <1>5
<1>16. s # 0
  <2>1. SUFFICES ASSUME s = 0 PROVE FALSE
    OBVIOUS
  <2>2. PICK k \in Int : k = i * d - j
    BY <1>15
  <2>3. n = 0 + Span * k
    BY <1>5, <1>12, <1>14, <2>1, <2>2
  <2>4. Wrap(n) = Wrap(0)
    BY <1>9, <2>2, <2>3, WrapSame
  <2>5. 0 \in Word
    BY SpanType DEF Word
  <2>6. QED BY <1>8, <1>9, <2>4, <2>5, WrapExact
<1>17. /\ TotalBlocks(l) \in 1 .. MaxInt /\ TotalBlocks(l) <= Volume(l)
       /\ Volume(l) \in Nat /\ TotalBlocks(l) = Wrap(Volume(l))
  BY <1>5, <1>6, <1>7, <1>8, <1>9
<1>18. l.reserved \in 0 .. TotalBlocks(l) - 1 /\ UsableBlocks(l) = TotalBlocks(l) - l.reserved
  BY <1>1, <1>3, <1>4, <1>8, <1>9, <1>10
<1>19. Stride(l) \in Int \ {0} /\ \E k \in Int : TotalBlocks(l) = Stride(l) * l.die + Span * k
  BY <1>1, <1>8, <1>11, <1>12, <1>14, <1>15, <1>16
<1>20. QED BY <1>1, <1>4, <1>17, <1>18, <1>19

\* What makes the properties inductive: the totals are those of an accepted
\* layout, and the rows made so far are those of the first block numbers.
Stored == phase \notin {"asked", "refused"}
RowOf(i) == [loc |-> IndexToLocation(asked, i - 1), reserved |-> i - 1 \in ReserveSet(asked)]
CapacityInv ==
  /\ asked \in Asked
  /\ Stored => /\ LaidOut(asked)
               /\ capacity = [blocks |-> TotalBlocks(asked), usable |-> UsableBlocks(asked),
                              pages |-> TotalPages(asked), bytes |-> TotalBytes(asked)]
  /\ phase \in {"placing", "ready"} => Reservable(asked)
  /\ phase \notin {"placing", "ready"} => rows = << >>
  /\ \E S : rows \in Seq(S)
  /\ phase = "ready" => Len(rows) = capacity.blocks
  /\ phase = "placing" => Len(rows) <= capacity.blocks
  /\ \A i \in DOMAIN rows : rows[i] = RowOf(i)

\* It holds before a configuration is sent,
LEMMA CapacityInit == Init => CapacityInv
PROOF
<1> SUFFICES ASSUME Init PROVE CapacityInv
  OBVIOUS
<1>1. rows \in Seq({}) /\ DOMAIN rows = {}
  BY DEF Init
<1>2. QED BY <1>1 DEF Init, CapacityInv, Stored

\* every step keeps it, the rows being placed one by one,
LEMMA CapacityStep == CapacityInv /\ [Next]_vars => CapacityInv'
PROOF
<1> SUFFICES ASSUME CapacityInv, [Next]_vars PROVE CapacityInv'
  OBVIOUS
<1>1. CASE Refuse \/ Compute \/ UNCHANGED vars
  BY <1>1 DEF Refuse, Compute, vars, CapacityInv, Stored, RowOf
<1>2. CASE Choose
  <2>1. rows = << >> /\ rows' = rows /\ asked' = asked /\ capacity' = capacity
        /\ phase' \in {"placing", "rowless"} /\ (phase' = "placing" => Reservable(asked))
        /\ LaidOut(asked) /\ phase = "stored"
    BY <1>2 DEF Choose, CapacityInv, Stored
  <2>2. Len(rows) <= capacity.blocks
    BY <2>1, AcceptedLayout DEF CapacityInv, Stored
  <2>3. QED BY <2>1, <2>2 DEF CapacityInv, Stored, RowOf
<1>3. CASE Place
  <2>1. PICK S : rows \in Seq(S)
    BY DEF CapacityInv
  <2>2. PICK row : row = RowOf(Len(rows) + 1)
    OBVIOUS
  <2>3. rows' = Append(rows, row)
    BY <1>3, <2>1, <2>2 DEF Place, RowOf
  <2>4. rows \in Seq(S \cup {row})
    BY <2>1
  <2>5. /\ rows' \in Seq(S \cup {row}) /\ Len(rows') = Len(rows) + 1
        /\ DOMAIN rows' = DOMAIN rows \cup {Len(rows) + 1}
        /\ rows'[Len(rows) + 1] = row /\ \A i \in DOMAIN rows : rows'[i] = rows[i]
    BY <2>3, <2>4
  <2>6. asked' = asked /\ capacity' = capacity /\ phase' = "placing" /\ phase = "placing"
        /\ Len(rows) < capacity.blocks
    BY <1>3 DEF Place
  <2>7. Len(rows') <= capacity.blocks
    BY <2>1, <2>5, <2>6, AcceptedLayout DEF CapacityInv, Stored
  <2>8. \A i \in DOMAIN rows' : rows'[i] = RowOf(i)
    BY <2>2, <2>5 DEF CapacityInv
  <2>9. QED BY <2>5, <2>6, <2>7, <2>8 DEF CapacityInv, Stored, RowOf
<1>4. CASE Insert
  BY <1>4 DEF Insert, CapacityInv, Stored, RowOf
<1>5. QED BY <1>1, <1>2, <1>3, <1>4 DEF Next

\* so it holds throughout.
LEMMA CapacityInvariant == Spec => []CapacityInv
  BY CapacityInit, CapacityStep, PTL DEF Spec
-----------------------------------------------------------------------------
\* Division of ints.
LEMMA QuoType ==
  ASSUME NEW x \in Int, NEW y \in Int \ {0}
  PROVE  /\ Quo(x, y) \in Int /\ Rem(x, y) \in Int /\ x = y * Quo(x, y) + Rem(x, y)
         /\ x >= 0 /\ y > 0 => Quo(x, y) = x \div y /\ Quo(x, y) >= 0 /\ Rem(x, y) \in 0 .. y - 1
PROOF
<1>1. Abs(x) \in Nat /\ Abs(y) \in Nat \ {0}
  BY DEF Abs
<1>2. PICK a \in Nat, b \in Nat \ {0} : a = Abs(x) /\ b = Abs(y)
  BY <1>1
<1>3. PICK q \in Int : q = a \div b
  OBVIOUS
<1>4. Quo(x, y) = IF (x < 0) = (y < 0) THEN q ELSE -q
  BY <1>2, <1>3 DEF Quo
<1>5. PICK z \in Int : z = Quo(x, y)
  BY <1>4
<1>6. Rem(x, y) = x - y * z
  BY <1>5 DEF Rem
<1>7. y * z \in Int
  BY <1>5
<1>8. ASSUME x >= 0, y > 0 PROVE z = x \div y /\ z >= 0 /\ x - y * z \in 0 .. y - 1
  <2>1. a = x /\ b = y /\ z = q
    BY <1>2, <1>4, <1>5, <1>8 DEF Abs
  <2>2. z = x \div y
    BY <1>3, <2>1
  <2>3. PICK m : m = x % y
    OBVIOUS
  <2>4. x = y * z + m /\ m \in 0 .. y - 1 /\ z >= 0
    BY <1>8, <2>2, <2>3
  <2>5. QED BY <1>7, <2>2, <2>4
<1>9. x = y * z + (x - y * z) /\ x - y * z \in Int
  BY <1>7
<1>10. QED BY <1>5, <1>6, <1>8, <1>9

\* The three numbers of a location determine the block, whatever the stride is.
LEMMA LocationIs ==
  ASSUME NEW l \in Asked, LaidOut(l), NEW i \in Int, NEW loc, loc = IndexToLocation(l, i)
  PROVE  /\ loc.die \in Int /\ loc.plane \in Int /\ loc.block \in Int
         /\ i = Stride(l) * loc.die + (l.blocks * loc.plane + loc.block)
PROOF
<1>1. PICK s, b : s = Stride(l) /\ b = l.blocks
  OBVIOUS
<1>2. s \in Int \ {0} /\ b \in Int \ {0}
  BY <1>1, AcceptedLayout, SpanType
<1>3. PICK q, rest : q = Quo(i, s) /\ rest = Rem(i, s)
  OBVIOUS
<1>4. q \in Int /\ rest \in Int /\ i = s * q + rest
  BY <1>2, <1>3, QuoType
<1>5. PICK p, r : p = Quo(rest, b) /\ r = Rem(rest, b)
  OBVIOUS
<1>6. p \in Int /\ r \in Int /\ rest = b * p + r
  BY <1>2, <1>4, <1>5, QuoType
<1>7. loc = [die |-> q, plane |-> p, block |-> r]
  BY <1>1, <1>3, <1>5 DEF IndexToLocation, Stride
<1>8. QED BY <1>1, <1>4, <1>6, <1>7

\* LocationToIndex leads back to a block number of the layout.
LEMMA LocationBack ==
  ASSUME NEW l \in Asked, LaidOut(l), NEW i \in 0 .. TotalBlocks(l) - 1
  PROVE  LocationToIndex(l, IndexToLocation(l, i)) = i
PROOF
<1>1. PICK loc, d, p, b, x, y, z :
        /\ loc = IndexToLocation(l, i) /\ d = l.die /\ p = l.planes /\ b = l.blocks
        /\ x = loc.die /\ y = loc.plane /\ z = loc.block
  OBVIOUS
<1>2. i \in Word /\ i \in Int
  BY AcceptedLayout, SpanType DEF Word
<1>3. p \in Int /\ b \in Int
  BY <1>1, AcceptedLayout, SpanType
<1>4. x \in Int /\ y \in Int /\ z \in Int /\ i = Stride(l) * x + (b * y + z)
  BY <1>1, <1>2, LocationIs
<1>5. PICK k \in Int, s \in Int : s = Stride(l) /\ p * b = s + Span * k
  <2>1. p * b \in Int
    BY <1>3
  <2>2. PICK k \in Int, s \in Word : s = Wrap(p * b) /\ p * b = s + Span * k
    BY <2>1, Wraps
  <2>3. s \in Int
    BY SpanType DEF Word
  <2>4. QED BY <1>1, <2>2, <2>3 DEF Stride, Times
<1>6. Times(Times(x, p), b) = Wrap(x * p * b)
  <2>1. PICK u \in Int : u = x * p
    BY <1>3, <1>4
  <2>2. QED BY <1>3, <2>1, WrapProduct DEF Times
<1>7. PICK u \in Int, v \in Int : u = x * p * b /\ v = y * b
  BY <1>3, <1>4
<1>8. LocationToIndex(l, loc) = Wrap(u + v + z)
  <2>1. LocationToIndex(l, loc) = Wrap(Wrap(Wrap(u) + Wrap(v)) + z)
    BY <1>1, <1>6, <1>7 DEF LocationToIndex, Times
  <2>2. PICK a \in Int, c \in Int : a = Wrap(u) /\ c = Wrap(v)
    <3>1. Wrap(u) \in Word /\ Wrap(v) \in Word
      BY Wraps
    <3>2. QED BY <3>1, SpanType DEF Word
  <2>3. Wrap(a + c) = Wrap(u + c)
    BY <2>2, WrapSum
  <2>4. Wrap(c + u) = Wrap(v + u)
    BY <2>2, WrapSum
  <2>5. Wrap(a + c) = Wrap(u + v)
    BY <2>3, <2>4
  <2>6. PICK e \in Int : e = u + v
    OBVIOUS
  <2>7. Wrap(Wrap(e) + z) = Wrap(e + z)
    BY <1>4, <2>6, WrapSum
  <2>8. QED BY <1>4, <2>1, <2>2, <2>5, <2>6, <2>7
<1>9. u + v + z = i + Span * (k * x)
  <2>1. u = x * (p * b)
    BY <1>3, <1>4, <1>7
  <2>2. x * (s + Span * k) = s * x + Span * (k * x)
    <3>1. \A m, n \in Int : x * (m + n) = x * m + x * n
      BY <1>4
    <3>2. Span * k \in Int /\ x * (Span * k) = Span * (k * x) /\ x * s = s * x
      BY <1>4, <1>5, SpanType
    <3>3. QED BY <1>5, <3>1, <3>2
  <2>3. v = b * y
    BY <1>3, <1>4, <1>7
  <2>4. s * x \in Int /\ b * y \in Int /\ Span * (k * x) \in Int
    BY <1>3, <1>4, <1>5, SpanType
  <2>5. QED BY <1>4, <1>5, <2>1, <2>2, <2>3, <2>4
<1>10. u + v + z \in Int /\ k * x \in Int
  BY <1>4, <1>7
<1>11. Wrap(u + v + z) = Wrap(i)
  BY <1>2, <1>9, <1>10, WrapSame
<1>12. QED BY <1>1, <1>2, <1>8, <1>11, WrapExact

\* The rows made so far stand for block numbers of the layout.
LEMMA RowsNumbered ==
  ASSUME CapacityInv, NEW i \in DOMAIN rows
  PROVE  /\ LaidOut(asked) /\ asked \in Asked /\ i \in Nat \ {0}
         /\ i - 1 \in 0 .. TotalBlocks(asked) - 1 /\ rows[i] = RowOf(i)
PROOF
<1>1. DOMAIN rows = 1 .. Len(rows) /\ Len(rows) \in Nat
  BY DEF CapacityInv
<1>2. phase \in {"placing", "ready"}
  BY <1>1 DEF CapacityInv
<1>3. LaidOut(asked) /\ capacity.blocks = TotalBlocks(asked) /\ asked \in Asked
  BY <1>2 DEF CapacityInv, Stored
<1>4. TotalBlocks(asked) \in Nat
  BY <1>3, AcceptedLayout
<1>5. Len(rows) <= TotalBlocks(asked)
  BY <1>2, <1>3, <1>4 DEF CapacityInv
<1>6. QED BY <1>1, <1>3, <1>4, <1>5 DEF CapacityInv

\* A row is reserved when its block is among those set aside.
LEMMA RowReserved ==
  ASSUME CapacityInv, NEW i \in DOMAIN rows
  PROVE  rows[i].reserved <=> i - 1 \in ReserveSet(asked)
PROOF
<1>1. rows[i].reserved = (i - 1 \in ReserveSet(asked))
  BY RowsNumbered DEF RowOf
<1>2. QED BY <1>1

\* No two blocks are placed at one location and no location is taken for another
\* block's, whatever overflows.
THEOREM BlocksLocated == Spec => []RowsLocateBlocks
PROOF
<1>1. CapacityInv => RowsLocateBlocks
  <2> SUFFICES ASSUME CapacityInv, NEW i \in DOMAIN rows
               PROVE  /\ \A j \in DOMAIN rows : rows[i].loc = rows[j].loc => i = j
                      /\ LocationToIndex(asked, rows[i].loc) = i - 1
    BY DEF RowsLocateBlocks
  <2>1. rows[i].loc = IndexToLocation(asked, i - 1)
    BY RowsNumbered DEF RowOf
  <2>2. ASSUME NEW j \in DOMAIN rows, rows[i].loc = rows[j].loc PROVE i = j
    <3>1. rows[j].loc = IndexToLocation(asked, j - 1)
      BY RowsNumbered DEF RowOf
    <3>2. i - 1 = j - 1
      <4>1. LocationToIndex(asked, IndexToLocation(asked, i - 1)) = i - 1
        BY RowsNumbered, LocationBack
      <4>2. LocationToIndex(asked, IndexToLocation(asked, j - 1)) = j - 1
        BY RowsNumbered, LocationBack
      <4>3. QED BY <2>1, <2>2, <3>1, <4>1, <4>2
    <3>3. QED BY <3>2, RowsNumbered
  <2>3. LocationToIndex(asked, rows[i].loc) = i - 1
    BY <2>1, RowsNumbered, LocationBack
  <2>4. QED BY <2>2, <2>3
<1>2. QED BY <1>1, CapacityInvariant, PTL

\* The pages the layout admits are those of the blocks with a row.
THEOREM PagesLieOnRows == Spec => []PagesOnRows
PROOF
<1>1. CapacityInv => PagesOnRows
  <2> SUFFICES ASSUME CapacityInv, phase = "ready", NEW ppn \in 0 .. MaxInt, Addressable(asked, ppn)
               PROVE  LET at == PageToBlock(asked, ppn) IN
                      /\ at.block \in 0 .. Len(rows) - 1 /\ at.page \in 0 .. asked.pages - 1
                      /\ BlockToPage(asked, at.block) + at.page = ppn
    BY DEF PagesOnRows
  <2>1. LaidOut(asked) /\ asked \in Asked /\ Len(rows) = TotalBlocks(asked)
    BY DEF CapacityInv, Stored
  <2>2. PICK g, n : g = asked.pages /\ n = TotalBlocks(asked)
    OBVIOUS
  <2>3. g \in 1 .. MaxInt /\ n \in 1 .. MaxInt /\ ppn \in Nat /\ MaxInt \in Nat
    BY <2>1, <2>2, AcceptedLayout, SpanType
  <2>4. PICK b, p : b = Quo(ppn, g) /\ p = Rem(ppn, g)
    OBVIOUS
  <2>5. b \in Nat /\ p \in 0 .. g - 1 /\ ppn = g * b + p
    BY <2>3, <2>4, QuoType
  <2>6. ppn < n * g
    <3>1. n * g \in Nat
      BY <2>3
    <3>2. Wrap(n * g) <= n * g /\ Wrap(n * g) \in Int
      BY <3>1, WrapLess, Wraps, SpanType DEF Word
    <3>3. ppn < Wrap(n * g)
      BY <2>2 DEF Addressable, TotalPages, Times
    <3>4. QED BY <2>3, <3>1, <3>2, <3>3
  <2>7. b < n
    <3>1. SUFFICES ASSUME b >= n PROVE FALSE
      BY <2>3, <2>5
    <3>2. g * b >= g * n
      BY <2>3, <2>5, <3>1
    <3>3. g * n = n * g /\ g * n \in Nat /\ g * b \in Nat
      BY <2>3, <2>5
    <3>4. QED BY <2>3, <2>5, <2>6, <3>2, <3>3
  <2>8. BlockToPage(asked, b) = g * b
    <3>1. b * g = g * b /\ g * b \in Nat /\ g * b <= MaxInt
      BY <2>3, <2>5
    <3>2. g * b \in Word
      BY <2>3, <3>1 DEF Word
    <3>3. QED BY <2>2, <3>1, <3>2, WrapExact DEF BlockToPage, Times
  <2>9. PageToBlock(asked, ppn) = [block |-> b, page |-> p]
    BY <2>2, <2>4 DEF PageToBlock
  <2>10. b \in 0 .. Len(rows) - 1 /\ p \in 0 .. asked.pages - 1
    BY <2>1, <2>2, <2>3, <2>5, <2>7
  <2>11. QED BY <2>5, <2>8, <2>9, <2>10
<1>2. QED BY <1>1, CapacityInvariant, PTL

\* The totals never exceed the product of the dimensions.
THEOREM CapacityHonest == Spec => []NeverOverstated
PROOF
<1>1. CapacityInv => NeverOverstated
  <2> SUFFICES ASSUME CapacityInv, Stored
               PROVE  /\ capacity.blocks \in 1 .. Volume(asked)
                      /\ capacity.usable \in 1 .. capacity.blocks
                      /\ capacity.pages <= Volume(asked) * asked.pages
                      /\ capacity.bytes <= Volume(asked) * asked.pages * asked.bytes
    BY DEF NeverOverstated, Stored, Volume
  <2>1. /\ asked \in Asked /\ LaidOut(asked)
        /\ capacity = [blocks |-> TotalBlocks(asked), usable |-> UsableBlocks(asked),
                       pages |-> TotalPages(asked), bytes |-> TotalBytes(asked)]
    BY DEF CapacityInv
  <2>2. PICK n, v, g, y : /\ n = TotalBlocks(asked) /\ v = Volume(asked)
                          /\ g = asked.pages /\ y = asked.bytes
    OBVIOUS
  <2>3. /\ n \in Nat \ {0} /\ v \in Nat /\ g \in Nat \ {0} /\ y \in Nat \ {0} /\ n <= v
        /\ asked.reserved \in 0 .. n - 1 /\ UsableBlocks(asked) = n - asked.reserved
    BY <2>1, <2>2, AcceptedLayout, SpanType
  <2>4. n * g \in Nat /\ v * g \in Nat /\ n * g <= v * g
    BY <2>3
  <2>5. Wrap(n * g) \in Int /\ Wrap(n * g) <= n * g
    BY <2>4, Wraps, WrapLess, SpanType DEF Word
  <2>6. TotalPages(asked) = Wrap(n * g)
    BY <2>2 DEF TotalPages, Times
  <2>7. TotalBytes(asked) <= v * g * y
    <3>1. PICK a \in Nat, c \in Nat : a = n * g /\ c = v * g /\ a <= c
      BY <2>4
    <3>2. TotalBytes(asked) = Wrap(a * y)
      <4>1. TotalBytes(asked) = Wrap(Wrap(a) * y)
        BY <2>2, <2>6, <3>1 DEF TotalBytes, Times
      <4>2. a \in Int /\ y \in Int
        BY <2>3
      <4>3. Wrap(Wrap(a) * y) = Wrap(a * y)
        BY <4>2, WrapProduct
      <4>4. QED BY <4>1, <4>3
    <3>3. a * y \in Nat /\ c * y \in Nat /\ a * y <= c * y
      BY <2>3, <3>1
    <3>4. Wrap(a * y) \in Int /\ Wrap(a * y) <= a * y
      BY <3>3, Wraps, WrapLess, SpanType DEF Word
    <3>5. QED BY <3>1, <3>2, <3>3, <3>4
  <2>8. QED BY <2>1, <2>2, <2>3, <2>4, <2>5, <2>6, <2>7
<1>2. QED BY <1>1, CapacityInvariant, PTL

\* A chip with rows has its floor of reserved blocks, and a block that is not.
THEOREM FloorKept == Spec => []FloorMet
PROOF
<1>1. CapacityInv => FloorMet
  <2> SUFFICES ASSUME CapacityInv, phase = "ready",
                      NEW kept, kept = {i \in DOMAIN rows : rows[i].reserved}
               PROVE  Cardinality(kept) = asked.reserved /\ kept # DOMAIN rows
    BY DEF FloorMet
  <2>1. LaidOut(asked) /\ asked \in Asked /\ Len(rows) = TotalBlocks(asked) /\ Reservable(asked)
    BY DEF CapacityInv, Stored
  <2>2. PICK n, r : n = TotalBlocks(asked) /\ r = asked.reserved
    OBVIOUS
  <2>3. n \in Nat \ {0} /\ r \in 0 .. n - 1 /\ UsableBlocks(asked) = n - r /\ r <= n - r
    BY <2>1, <2>2, AcceptedLayout, SpanType DEF Reservable
  <2>4. DOMAIN rows = 1 .. n
    BY <2>1, <2>2 DEF CapacityInv
  <2>5. ASSUME NEW i \in DOMAIN rows
        PROVE  rows[i].reserved <=> i - 1 \in (n - r) - r .. (n - r) - 1
    <3>1. ReserveSet(asked) = (n - r) - r .. (n - r) - 1
      BY <2>2, <2>3 DEF ReserveSet
    <3>2. QED BY <3>1, RowReserved
  <2>6. kept = (n - r) - r + 1 .. n - r
    BY <2>3, <2>4, <2>5
  <2>7. Cardinality(kept) = r
    <3>1. PICK lo \in Int, hi \in Int : lo = (n - r) - r + 1 /\ hi = n - r
      BY <2>3
    <3>2. Cardinality(lo .. hi) = IF lo > hi THEN 0 ELSE hi - lo + 1
      BY FS_Interval
    <3>3. kept = lo .. hi
      BY <2>6, <3>1
    <3>4. (IF lo > hi THEN 0 ELSE hi - lo + 1) = r
      BY <2>3, <3>1
    <3>5. QED BY <3>2, <3>3, <3>4
  <2>8. kept # DOMAIN rows
    <3>1. CASE r = 0
      BY <2>3, <2>4, <2>6, <3>1
    <3>2. CASE r # 0
      <4>1. n \in DOMAIN rows /\ n \notin kept
        BY <2>3, <2>4, <2>6, <3>2
      <4>2. QED BY <4>1
    <3>3. QED BY <3>1, <3>2
  <2>9. QED BY <2>2, <2>7, <2>8
<1>2. QED BY <1>1, CapacityInvariant, PTL

\* Where the number of pages fits an int, no product of dimensions overflows.
LEMMA Fitting ==
  ASSUME NEW l \in Asked, LaidOut(l), Volume(l) * l.pages <= MaxInt
  PROVE  /\ TotalBlocks(l) = Volume(l) /\ TotalPages(l) = Volume(l) * l.pages
         /\ Stride(l) = l.planes * l.blocks /\ Stride(l) \in Nat \ {0}
PROOF
<1>1. PICK d, p, b, g : d = l.die /\ p = l.planes /\ b = l.blocks /\ g = l.pages
  OBVIOUS
<1>2. d \in Nat \ {0} /\ p \in Nat \ {0} /\ b \in Nat \ {0} /\ g \in Nat \ {0}
  BY <1>1, AcceptedLayout, SpanType
<1>3. \A x, y \in Nat \ {0} : x * y \in Nat \ {0} /\ x <= x * y /\ y <= x * y
  OBVIOUS
<1>4. PICK s \in Nat \ {0}, v \in Nat \ {0} : s = p * b /\ v = d * p * b
  BY <1>2, <1>3
<1>5. v = d * s
  BY <1>2, <1>4
<1>6. PICK n \in Nat \ {0} : n = v * g
  BY <1>2, <1>3
<1>7. s <= v /\ v <= n /\ n <= MaxInt
  BY <1>1, <1>2, <1>3, <1>4, <1>5, <1>6 DEF Volume
<1>8. s \in Word /\ v \in Word /\ n \in Word
  BY <1>7, SpanType DEF Word
<1>9. Volume(l) = v /\ TotalBlocks(l) = v
  BY <1>1, <1>4, <1>8, AcceptedLayout, WrapExact DEF Volume
<1>10. TotalPages(l) = n /\ Stride(l) = s
  BY <1>1, <1>4, <1>6, <1>8, <1>9, WrapExact DEF TotalPages, Stride, Times
<1>11. QED BY <1>1, <1>4, <1>6, <1>9, <1>10

\* Where the number of pages fits an int, totals and rows are those of Geometry.
THEOREM LayoutExact == Spec => []ExactWhenFits
PROOF
<1>1. CapacityInv => ExactWhenFits
  <2> SUFFICES ASSUME CapacityInv, phase = "ready", Volume(asked) * asked.pages <= MaxInt
      PROVE LET l == asked
                n == Volume(asked)
            IN /\ capacity.blocks = n /\ capacity.usable = n - l.reserved
               /\ capacity.pages = n * l.pages
               /\ n * l.pages * l.bytes <= MaxInt => capacity.bytes = n * l.pages * l.bytes
               /\ \A i \in DOMAIN rows :
                    LET b == i - 1 IN
                    /\ rows[i].loc = Chip(l.die, l.planes, l.blocks, l.pages, l.reserved)!IndexToLocation(b)
                    /\ rows[i].reserved
                         <=> b \in Chip(l.die, l.planes, l.blocks, l.pages, l.reserved)!ReserveSet
    BY DEF ExactWhenFits, Volume
  <2>1. /\ asked \in Asked /\ LaidOut(asked)
        /\ capacity = [blocks |-> TotalBlocks(asked), usable |-> UsableBlocks(asked),
                       pages |-> TotalPages(asked), bytes |-> TotalBytes(asked)]
    BY DEF CapacityInv, Stored
  <2>2. /\ TotalBlocks(asked) = Volume(asked) /\ TotalPages(asked) = Volume(asked) * asked.pages
        /\ UsableBlocks(asked) = Volume(asked) - asked.reserved
        /\ Stride(asked) = asked.planes * asked.blocks /\ Stride(asked) \in Nat \ {0}
    BY <2>1, Fitting, AcceptedLayout
  <2>3. ASSUME NEW i \in DOMAIN rows
        PROVE  rows[i].loc = Chip(asked.die, asked.planes, asked.blocks, asked.pages,
                                  asked.reserved)!IndexToLocation(i - 1)
    <3>1. PICK x, s, b : x = i - 1 /\ s = Stride(asked) /\ b = asked.blocks
      OBVIOUS
    <3>2. x \in Nat /\ rows[i].loc = IndexToLocation(asked, x)
      BY <2>1, <3>1, RowsNumbered, AcceptedLayout DEF RowOf
    <3>3. s \in Nat \ {0} /\ b \in Nat \ {0} /\ s = asked.planes * b
      BY <2>1, <2>2, <3>1, AcceptedLayout, SpanType
    <3>4. \A y \in Nat, m \in Nat \ {0} : Quo(y, m) = y \div m /\ Rem(y, m) = y % m /\ y % m \in Nat
      <4> TAKE y \in Nat, m \in Nat \ {0}
      <4>1. PICK q, r : q = Quo(y, m) /\ r = Rem(y, m)
        OBVIOUS
      <4>2. y \in Int /\ m \in Int \ {0} /\ y >= 0 /\ m > 0
        OBVIOUS
      <4>3. q = (y \div m) /\ q \in Int /\ r \in 0 .. m - 1 /\ y = (m * q) + r
        <5>1. /\ Quo(y, m) = (y \div m) /\ Quo(y, m) \in Int
              /\ Rem(y, m) \in 0 .. m - 1 /\ y = (m * Quo(y, m)) + Rem(y, m)
          BY <4>2, QuoType
        <5>2. QED BY <4>1, <5>1
      <4>4. r = (y % m)
        BY <4>3
      <4>5. QED BY <4>1, <4>3, <4>4
    <3>5. PICK rest \in Nat : rest = Rem(x, s) /\ rest = x % s
      BY <3>2, <3>3, <3>4
    <3>6. rows[i].loc = [die |-> x \div s, plane |-> rest \div b, block |-> rest % b]
      <4>1. /\ Quo(x, s) = x \div s /\ Rem(x, s) = rest
            /\ Quo(rest, b) = rest \div b /\ Rem(rest, b) = rest % b
        BY <3>2, <3>3, <3>4, <3>5
      <4>2. Times(asked.planes, asked.blocks) = s
        BY <3>1 DEF Stride
      <4>3. IndexToLocation(asked, x) = [die |-> Quo(x, s), plane |-> Quo(rest, b), block |-> Rem(rest, b)]
        BY <3>1, <4>1, <4>2 DEF IndexToLocation
      <4>4. QED BY <3>2, <4>1, <4>3
    <3>7. QED BY <3>1, <3>3, <3>5, <3>6 DEF Chip!IndexToLocation
  <2>4. ASSUME NEW i \in DOMAIN rows
        PROVE  rows[i].reserved <=> i - 1 \in Chip(asked.die, asked.planes, asked.blocks, asked.pages,
                                                   asked.reserved)!ReserveSet
    <3>1. Chip(asked.die, asked.planes, asked.blocks, asked.pages, asked.reserved)!ReserveSet
            = ReserveSet(asked)
      BY <2>2 DEF ReserveSet, Chip!ReserveSet, Chip!UsableBlocks, Chip!TotalBlocks, Volume
    <3>2. QED BY <3>1, RowReserved
  <2>5. ASSUME Volume(asked) * asked.pages * asked.bytes <= MaxInt
        PROVE  TotalBytes(asked) = Volume(asked) * asked.pages * asked.bytes
    <3>1. PICK n \in Nat, y \in Nat : n = Volume(asked) * asked.pages /\ y = asked.bytes
      BY <2>1, AcceptedLayout, SpanType
    <3>2. n * y \in Word
      BY <2>5, <3>1, SpanType DEF Word
    <3>3. QED BY <2>2, <3>1, <3>2, WrapExact DEF TotalBytes, Times
  <2>6. QED BY <2>1, <2>2, <2>3, <2>4, <2>5
<1>2. QED BY <1>1, CapacityInvariant, PTL
===============================================================================
