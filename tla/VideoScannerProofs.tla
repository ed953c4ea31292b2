-------------------------- MODULE VideoScannerProofs --------------------------
(* Proofs about VideoScanner for any geometry of the screen, any flash       *)
(* period, and slices shorter than a frame.                                  *)
EXTENDS VideoScanner, TLAPS

-----------------------------------------------------------------------------
(* Division                                                                  *)

\* Products of natural numbers.
LEMMA Product ==
    ASSUME NEW a \in Nat, NEW b \in Nat, NEW c \in Nat
    PROVE  a * c \in Nat /\ (a + b) * c = a * c + b * c /\ (a + 1) * c = a * c + c
  OBVIOUS

\* Division with remainder of natural numbers.
LEMMA DivMod ==
    ASSUME NEW a \in Nat, NEW b \in Nat \ {0}
    PROVE  a \div b \in Nat /\ a % b \in 0 .. b - 1 /\ a = (a \div b) * b + (a % b)
  OBVIOUS

\* Quotient and remainder are unique.
LEMMA DivUnique ==
    ASSUME NEW b \in Nat \ {0}, NEW q \in Nat, NEW p \in Nat,
           NEW r \in 0 .. b - 1, NEW s \in 0 .. b - 1, q * b + r = p * b + s
    PROVE  q = p /\ r = s
<1>1. ASSUME NEW x \in Nat, NEW y \in Nat, NEW u \in 0 .. b - 1, NEW v \in 0 .. b - 1, x < y
      PROVE  x * b + u < y * b + v
  <2>1. (x + 1) * b <= y * b
    BY <1>1
  <2>2. (x + 1) * b = x * b + b
    OBVIOUS
  <2>3. x * b \in Nat /\ y * b \in Nat
    OBVIOUS
  <2> QED
    BY <2>1, <2>2, <2>3
<1>2. q = p
  BY <1>1
<1> QED
  BY <1>2

\* The quotient and remainder of a number that is given by a quotient and a remainder.
LEMMA DivOf ==
    ASSUME NEW b \in Nat \ {0}, NEW q \in Nat, NEW r \in 0 .. b - 1
    PROVE  (q * b + r) \div b = q /\ (q * b + r) % b = r
<1>1. q * b + r \in Nat
  OBVIOUS
<1> QED
  BY <1>1, DivMod, DivUnique

\* A multiple leaves no remainder.
LEMMA ModMultiple ==
    ASSUME NEW b \in Nat \ {0}, NEW q \in Nat
    PROVE  (q * b) % b = 0
<1>1. 0 \in 0 .. b - 1 /\ q * b + 0 = q * b
  OBVIOUS
<1> QED
  BY <1>1, DivOf

\* The remainders of successive numbers.
LEMMA ModNext ==
    ASSUME NEW a \in Nat, NEW b \in Nat \ {0}
    PROVE  (a + 1) % b = IF a % b = b - 1 THEN 0 ELSE (a % b) + 1
<1> DEFINE q == a \div b
<1>1. q \in Nat /\ a % b \in 0 .. b - 1 /\ a = q * b + (a % b)
  BY DivMod
<1>2. CASE a % b = b - 1
  <2>1. a + 1 = (q + 1) * b + 0 /\ q + 1 \in Nat /\ 0 \in 0 .. b - 1
    BY <1>1, <1>2, Product
  <2>2. ((q + 1) * b + 0) % b = 0
    BY <2>1, DivOf
  <2> QED
    BY <1>2, <2>1, <2>2
<1>3. CASE a % b # b - 1
  <2>1. a + 1 = q * b + ((a % b) + 1) /\ (a % b) + 1 \in 0 .. b - 1
    BY <1>1, <1>3
  <2>2. (q * b + ((a % b) + 1)) % b = (a % b) + 1
    BY <1>1, <2>1, DivOf
  <2> QED
    BY <1>3, <2>1, <2>2
<1> QED
  BY <1>2, <1>3

\* The remainder of a number less than b above a multiple of b.
LEMMA ModAbove ==
    ASSUME NEW b \in Nat \ {0}, NEW a \in Nat, NEW c \in Nat, a % b = 0, a <= c, c - a < b
    PROVE  c % b = c - a
<1>1. a = (a \div b) * b + 0 /\ a \div b \in Nat
  BY DivMod
<1>2. c = (a \div b) * b + (c - a) /\ c - a \in 0 .. b - 1
  BY <1>1
<1>3. ((a \div b) * b + (c - a)) % b = c - a
  BY <1>1, <1>2, DivOf
<1> QED
  BY <1>2, <1>3

\* Adding a multiple of b to a number leaves its remainder.
LEMMA ModPlus ==
    ASSUME NEW b \in Nat \ {0}, NEW a \in Nat, NEW q \in Nat
    PROVE  (a + q * b) % b = a % b
<1>1. a \div b \in Nat /\ a % b \in 0 .. b - 1 /\ a = (a \div b) * b + (a % b)
  BY DivMod
<1>2. a + q * b = ((a \div b) + q) * b + (a % b) /\ (a \div b) + q \in Nat
  BY <1>1, Product
<1>3. (((a \div b) + q) * b + (a % b)) % b = a % b
  BY <1>1, <1>2, DivOf
<1> QED
  BY <1>2, <1>3

\* A number without remainder is a multiple.
LEMMA IsMultiple ==
    ASSUME NEW b \in Nat \ {0}, NEW a \in Nat, a % b = 0
    PROVE  \E q \in Nat : a = q * b
<1>1. (a \div b) \in Nat /\ a = (a \div b) * b + 0
  BY DivMod
<1>2. PICK q \in Nat : q = a \div b
  BY <1>1
<1>3. q * b \in Nat
  BY Product
<1>4. a = q * b
  BY <1>1, <1>2, <1>3
<1> QED
  BY <1>4

-----------------------------------------------------------------------------
(* The geometry                                                              *)

\* The frame is a whole number of scanlines.
LEMMA WholeLines ==
    /\ CYCLES_SCANLINE \in Nat \ {0} /\ SCANLINES_FRAME \in Nat \ {0}
    /\ CYCLES_FRAME = SCANLINES_FRAME * CYCLES_SCANLINE
  BY GeometryAssumption DEF CYCLES_FRAME, CYCLES_SCANLINE, SCANLINES_FRAME

\* Frames, scanlines and rows are not empty, and scanlines and frames begin or end blank.
LEMMA Geometry ==
    /\ CYCLES_SCANLINE \in Nat \ {0} /\ SCANLINES_FRAME \in Nat \ {0} /\ CYCLES_FRAME \in Nat \ {0}
    /\ CYCLES_SCANLINE <= CYCLES_FRAME
    /\ HBL \in Nat \ {0} /\ HBL < CYCLES_SCANLINE
    /\ VisLines \in Nat \ {0} /\ VisLines < SCANLINES_FRAME
    /\ RowLines \in Nat \ {0} /\ FlashPeriod \in Nat \ {0} /\ Slices \subseteq Nat
<1>1. /\ HBL \in Nat \ {0} /\ VIS \in Nat \ {0} /\ RowLines \in Nat \ {0} /\ VisLines \in Nat \ {0}
      /\ VblLines \in Nat \ {0} /\ FlashPeriod \in Nat \ {0} /\ Slices \subseteq Nat
  BY GeometryAssumption
<1>2. CYCLES_SCANLINE \in Nat \ {0} /\ HBL < CYCLES_SCANLINE
  BY <1>1 DEF CYCLES_SCANLINE
<1>3. SCANLINES_FRAME \in Nat \ {0} /\ VisLines < SCANLINES_FRAME
  BY <1>1 DEF SCANLINES_FRAME
<1>4. ASSUME NEW x \in Nat \ {0}, NEW y \in Nat \ {0}
      PROVE  x * y \in Nat \ {0} /\ y <= x * y
  OBVIOUS
<1>5. CYCLES_FRAME \in Nat \ {0} /\ CYCLES_SCANLINE <= CYCLES_FRAME
  BY <1>2, <1>3, <1>4, WholeLines
<1> QED
  BY <1>1, <1>2, <1>3, <1>5

\* Where the beam is in its frame, from the line and the column.
Place(v, h) == v * CYCLES_SCANLINE + h

\* A place in the frame has one line and one column.
LEMMA OnePlace ==
    ASSUME NEW v \in Nat, NEW h \in 0 .. CYCLES_SCANLINE - 1,
           NEW w \in Nat, NEW g \in 0 .. CYCLES_SCANLINE - 1, Place(v, h) = Place(w, g)
    PROVE  v = w /\ h = g
  BY Geometry, DivUnique DEF Place

\* Lines and columns are within the frame.
LEMMA PlaceInFrame ==
    ASSUME NEW v \in 0 .. SCANLINES_FRAME - 1, NEW h \in 0 .. CYCLES_SCANLINE - 1
    PROVE  Place(v, h) \in 0 .. CYCLES_FRAME - 1
<1>1. ASSUME NEW s \in Nat \ {0}, NEW l \in Nat \ {0}, NEW x \in 0 .. l - 1, NEW y \in 0 .. s - 1
      PROVE  x * s + y \in 0 .. l * s - 1
  <2>1. (x + 1) * s <= l * s /\ (x + 1) * s = x * s + s /\ x * s \in Nat /\ l * s \in Nat
    OBVIOUS
  <2> QED
    BY <2>1
<1> QED
  BY <1>1, WholeLines DEF Place

\* Row and Column find the place of a count of cycles in its frame.
LEMMA PlaceOf ==
    ASSUME NEW last \in Nat
    PROVE  /\ Row(last) \in 0 .. SCANLINES_FRAME - 1 /\ Column(last) \in 0 .. CYCLES_SCANLINE - 1
           /\ last % CYCLES_FRAME = Place(Row(last), Column(last))
<1> DEFINE S == CYCLES_SCANLINE
           q == last \div S
           n == q \div SCANLINES_FRAME
<1>1. q \in Nat /\ Column(last) \in 0 .. S - 1 /\ last = q * S + Column(last)
  BY Geometry, DivMod DEF Column
<1>2. n \in Nat /\ Row(last) \in 0 .. SCANLINES_FRAME - 1 /\ q = n * SCANLINES_FRAME + Row(last)
  BY <1>1, Geometry, DivMod DEF Row
<1>3. ASSUME NEW s \in Nat, NEW l \in Nat, NEW x \in Nat, NEW r \in Nat, NEW c \in Nat
      PROVE  (x * l + r) * s + c = x * (l * s) + (r * s + c)
  OBVIOUS
<1>4. last = n * CYCLES_FRAME + Place(Row(last), Column(last))
  <2> HIDE DEF q, n
  <2>1. last = (n * SCANLINES_FRAME + Row(last)) * CYCLES_SCANLINE + Column(last)
    BY <1>1, <1>2
  <2>2. Row(last) \in Nat /\ Column(last) \in Nat
    BY <1>1, <1>2, Geometry
  <2>3. last = n * (SCANLINES_FRAME * CYCLES_SCANLINE) + (Row(last) * CYCLES_SCANLINE + Column(last))
    BY <1>2, <1>3, <2>1, <2>2, WholeLines
  <2> QED
    BY <2>3, WholeLines DEF Place
<1>5. Place(Row(last), Column(last)) \in 0 .. CYCLES_FRAME - 1
  BY <1>1, <1>2, PlaceInFrame
<1>6. (n * CYCLES_FRAME + Place(Row(last), Column(last))) % CYCLES_FRAME
         = Place(Row(last), Column(last))
  BY <1>2, <1>5, Geometry, DivOf
<1> QED
  BY <1>1, <1>2, <1>4, <1>6

\* _setScannerDirty(): a frame at least, up to the end of a scanline; from the top, a frame.
LEMMA DirtyWindow ==
    ASSUME NEW last \in Nat
    PROVE  /\ _setScannerDirty(last) \in Nat /\ _setScannerDirty(last) >= CYCLES_FRAME
           /\ (last + _setScannerDirty(last)) % CYCLES_SCANLINE = 0
<1> DEFINE s == CYCLES_SCANLINE
           f == SCANLINES_FRAME
           k == RowLines - 1 - (Row(last) % RowLines)
           e == Column(last)
           a == last \div s
           x == k * s + (s - e)
           y == RowLines * s
           q == x \div y
           r == x % y
           t == last + _setScannerDirty(last)
           u == a + f + k + 1
<1>1. k \in Nat
  <2>1. Row(last) \in Nat
    BY PlaceOf, Geometry
  <2>2. (Row(last) % RowLines) \in 0 .. RowLines - 1
    BY <2>1, Geometry, DivMod
  <2> QED
    BY <2>2, Geometry
<1>2. e \in 0 .. s - 1 /\ last = a * s + e /\ a \in Nat
  BY Geometry, DivMod DEF Column
<1>3. /\ s \in Nat \ {0} /\ f \in Nat /\ RowLines \in Nat \ {0}
      /\ CYCLES_FRAME = f * s /\ _setScannerDirty(last) = f * s + r
  BY WholeLines, Geometry DEF _setScannerDirty
<1> HIDE DEF k, e, a, s, f
<1>4. x \in Nat /\ y \in Nat \ {0}
  BY <1>1, <1>2, <1>3
<1> HIDE DEF x, y
<1>5. q \in Nat /\ r \in Nat /\ x = q * y + r
  BY <1>4, DivMod
<1> HIDE DEF q, r
<1>6. f * s \in Nat /\ a * s \in Nat
  BY <1>2, <1>3
<1>7. t \in Nat /\ u \in Nat /\ q * RowLines \in Nat
  BY <1>1, <1>2, <1>3, <1>5, <1>6
<1>8. q * y = (q * RowLines) * s
  BY <1>3, <1>5 DEF y
<1>9. u * s = a * s + f * s + k * s + s
  BY <1>1, <1>2, <1>3
<1>10. t + (q * RowLines) * s = u * s
  BY <1>1, <1>2, <1>3, <1>5, <1>8, <1>9 DEF x
<1> HIDE DEF t, u
<1>11. (t + (q * RowLines) * s) % s = t % s
  BY <1>3, <1>7, ModPlus
<1>12. (u * s) % s = 0
  BY <1>3, <1>7, ModMultiple
<1>13. t % s = 0
  BY <1>10, <1>11, <1>12
<1>14. _setScannerDirty(last) \in Nat /\ _setScannerDirty(last) >= CYCLES_FRAME
  BY <1>3, <1>5, <1>6
<1> QED
  BY <1>13, <1>14 DEF t, s
-----------------------------------------------------------------------------
(* The invariant                                                             *)
(*                                                                           *)
(* What the runs check says nothing of how long a scan may be.  OrderInv     *)
(* bounds by two frames how far the CPU may be ahead of the frame that is    *)
(* scanned, so that the end of a frame takes away as much from both counts,  *)
(* and at rest by one frame, unless nothing is left to scan.                 *)

\* Every slice is shorter than a frame.
ShortSlices == \A n \in Slices : n < CYCLES_FRAME

\* A count of cycles that ends a scanline
Aligned(cycles) == cycles % CYCLES_SCANLINE = 0

\* How far the CPU is ahead of the scanner, and where the scanner is in its frame.
Lag == cycles_video_frame - cyclesFrameLast
At  == cyclesFrameLast % CYCLES_FRAME

\* The types of what TypeOK leaves out
MoreTypes ==
    /\ scancol \in Nat /\ scanidx \in Nat
    /\ watched \in (0 .. VisLines - 1) \X (HBL .. CYCLES_SCANLINE - 1)

OrderAtRest == pc = "cpu" => Lag = 0 \/ Lag + At < CYCLES_FRAME

OrderInScan ==
    pc # "cpu" =>
        /\ At = Place(vCount, hCount)
        /\ cyclesCount <= Lag /\ Lag + At < 2 * CYCLES_FRAME
        /\ cyclesCount = Lag \/ cyclesCount = cyclesDirty \/ Lag + At < CYCLES_FRAME

OrderInv ==
    /\ cyclesFrameLast <= cycles_video_frame
    /\ OrderAtRest /\ OrderInScan
    /\ pc = "setDirty" => cyclesCount = Lag /\ cyclesCount < cyclesDirty

\* A redraw ends at the start of a scanline.
AlignInv ==
    pc = "update" \/ (pc = "cpu" /\ cyclesDirty # 0) => Aligned(cyclesFrameLast + cyclesDirty)

\* The columns of a line that the scanner has read when it is at a column
Columns(v, h) == IF v < VisLines /\ h >= HBL THEN h - HBL ELSE 0

BufferInScan == ~reset_scanner /\ scancol + scanidx = Columns(vCount, hCount)

BufferAtRest ==
    /\ scanidx = 0
    /\ reset_scanner => cyclesFrameLast = 0 /\ cyclesDirty # 0
    /\ ~reset_scanner =>
          scancol = (IF cyclesDirty = 0 THEN 0
                     ELSE Columns(Row(cyclesFrameLast), Column(cyclesFrameLast)))

BufferInv == IF pc = "cpu" THEN BufferAtRest ELSE BufferInScan

\* Cycles until the scanner comes to the watched position
WatchedAt == Place(watched[1], watched[2])
Ahead(at, place) == IF at <= place THEN place - at ELSE place + CYCLES_FRAME - at
Distance == Ahead(At, WatchedAt)

\* The redraw reaches the position that has changed.
WindowInv == stale => Distance < cyclesDirty

IInv == TypeOK /\ MoreTypes /\ NoUnderflow /\ OrderInv /\ AlignInv /\ BufferInv /\ WindowInv

\* The ranges of what the invariant speaks of.
LEMMA Ranges ==
    ASSUME TypeOK, MoreTypes
    PROVE  /\ cycles_video_frame \in Nat /\ cyclesFrameLast \in Nat /\ cyclesDirty \in Nat
           /\ cyclesCount \in Nat
           /\ hCount \in 0 .. CYCLES_SCANLINE - 1 /\ vCount \in 0 .. SCANLINES_FRAME - 1
           /\ textFlashCounter \in 0 .. FlashPeriod - 1
           /\ ((textFlashCounter + 1) % FlashPeriod) \in 0 .. FlashPeriod - 1
           /\ At \in 0 .. CYCLES_FRAME - 1 /\ Lag \in Int
           /\ WatchedAt \in 0 .. CYCLES_FRAME - 1 /\ Distance \in 0 .. CYCLES_FRAME - 1
<1>1. /\ cycles_video_frame \in Nat /\ cyclesFrameLast \in Nat /\ cyclesDirty \in Nat
      /\ cyclesCount \in Nat
      /\ hCount \in 0 .. CYCLES_SCANLINE - 1 /\ vCount \in 0 .. SCANLINES_FRAME - 1
      /\ textFlashCounter \in 0 .. FlashPeriod - 1
  BY DEF TypeOK
<1>2. textFlashCounter + 1 \in Nat
  BY <1>1, Geometry
<1>3. ((textFlashCounter + 1) % FlashPeriod) \in 0 .. FlashPeriod - 1
  BY <1>2, Geometry, DivMod
<1>4. At \in 0 .. CYCLES_FRAME - 1 /\ Lag \in Int
  <2>1. At \in 0 .. CYCLES_FRAME - 1
    BY <1>1, Geometry, DivMod DEF At
  <2> QED
    BY <1>1, <2>1 DEF Lag
<1>5. watched[1] \in 0 .. SCANLINES_FRAME - 1 /\ watched[2] \in 0 .. CYCLES_SCANLINE - 1
  BY Geometry DEF MoreTypes
<1>6. WatchedAt \in 0 .. CYCLES_FRAME - 1
  BY <1>5, PlaceInFrame DEF WatchedAt
<1>7. Distance \in 0 .. CYCLES_FRAME - 1
  BY <1>4, <1>6, Geometry DEF Distance, Ahead
<1> QED
  BY <1>1, <1>3, <1>4, <1>6, <1>7

\* The top of the frame is the start of its first line.
LEMMA Top ==
    /\ 0 % CYCLES_FRAME = 0 /\ Column(0) = 0 /\ Aligned(CYCLES_FRAME)
    /\ \A v : Columns(v, 0) = 0
<1>1. 0 * CYCLES_FRAME = 0 /\ 0 * CYCLES_SCANLINE = 0
  BY Geometry
<1>2. 0 % CYCLES_FRAME = 0 /\ 0 % CYCLES_SCANLINE = 0
  BY <1>1, Geometry, ModMultiple
<1>3. CYCLES_FRAME % CYCLES_SCANLINE = 0
  BY WholeLines, ModMultiple
<1>4. \A v : Columns(v, 0) = 0
  BY Geometry DEF Columns
<1> QED
  BY <1>2, <1>3, <1>4 DEF Column, Aligned

\* What a step that ends in a scan has to show.
LEMMA InScan ==
    ASSUME TypeOK', MoreTypes, MoreTypes', watched' = watched, pc' # "cpu",
           NEW c \in Nat, cycles_video_frame' = c, NEW l \in Nat, cyclesFrameLast' = l,
           NEW d \in Nat, cyclesDirty' = d, NEW k \in Nat, cyclesCount' = k,
           NEW v \in Nat, vCount' = v, NEW h \in Nat, hCount' = h,
           NEW at \in 0 .. CYCLES_FRAME - 1, l % CYCLES_FRAME = at, at = Place(v, h),
           l <= c, k <= c - l, k <= d, (c - l) + at < 2 * CYCLES_FRAME,
           k = c - l \/ k = d \/ (c - l) + at < CYCLES_FRAME,
           pc' = "setDirty" => k = c - l /\ k < d,
           pc' = "update" => Aligned(l + d),
           BufferInScan',
           stale' => Ahead(at, WatchedAt) < d
    PROVE  IInv'
<1>1. At' = at /\ Lag' = c - l
  BY DEF At, Lag
<1>2. OrderInv'
  BY <1>1 DEF OrderInv, OrderAtRest, OrderInScan
<1>3. AlignInv'
  BY DEF AlignInv
<1>4. BufferInv'
  BY Zenon DEF BufferInv, BufferInScan, BufferAtRest
<1>5. WindowInv'
  <2>1. Distance' = Ahead(at, WatchedAt)
    BY <1>1 DEF Distance, WatchedAt, Ahead
  <2> QED
    BY <2>1, Zenon DEF WindowInv
<1>6. NoUnderflow'
  BY DEF NoUnderflow
<1> QED
  BY <1>2, <1>3, <1>4, <1>5, <1>6 DEF IInv

\* What a step that ends at rest has to show.
LEMMA AtRest ==
    ASSUME TypeOK', MoreTypes, MoreTypes', watched' = watched, pc' = "cpu",
           NEW c \in Nat, cycles_video_frame' = c, NEW l \in Nat, cyclesFrameLast' = l,
           NEW d \in Nat, cyclesDirty' = d,
           NEW at \in 0 .. CYCLES_FRAME - 1, l % CYCLES_FRAME = at,
           l <= c, c - l = 0 \/ (c - l) + at < CYCLES_FRAME,
           d # 0 => Aligned(l + d),
           BufferAtRest',
           stale' => Ahead(at, WatchedAt) < d
    PROVE  IInv'
<1>1. At' = at /\ Lag' = c - l
  BY DEF At, Lag
<1>2. OrderInv'
  BY <1>1 DEF OrderInv, OrderAtRest, OrderInScan
<1>3. AlignInv'
  BY DEF AlignInv
<1>4. BufferInv'
  BY Zenon DEF BufferInv, BufferAtRest, BufferInScan
<1>5. WindowInv'
  <2>1. Distance' = Ahead(at, WatchedAt)
    BY <1>1 DEF Distance, WatchedAt, Ahead
  <2> QED
    BY <2>1, Zenon DEF WindowInv
<1>6. NoUnderflow'
  BY DEF NoUnderflow
<1> QED
  BY <1>2, <1>3, <1>4, <1>5, <1>6 DEF IInv

\* A whole frame reaches every position from the top.
LEMMA FromTop ==
    ASSUME TypeOK, MoreTypes, NEW at \in 0 .. CYCLES_FRAME - 1
    PROVE  Ahead(at, WatchedAt) \in 0 .. CYCLES_FRAME - 1 /\ Ahead(0, WatchedAt) = WatchedAt
  BY Ranges, Geometry DEF Ahead

\* No column of the scanline has been read, unless the next scan forgets them anyway.
NothingRead == scanidx = 0 /\ (~reset_scanner => scancol = 0)

\* A redraw of a frame or more begins at the top of the screen.
LEMMA AtTop ==
    ASSUME TypeOK, TypeOK', MoreTypes, MoreTypes', watched' = watched, pc' = "cpu",
           cyclesFrameLast' = 0, NEW c \in Nat, cycles_video_frame' = c, c < CYCLES_FRAME,
           NEW d \in Nat, cyclesDirty' = d, d >= CYCLES_FRAME, Aligned(d), NothingRead'
    PROVE  IInv'
<1>1. 0 \in 0 .. CYCLES_FRAME - 1 /\ 0 \in Nat /\ 0 % CYCLES_FRAME = 0 /\ 0 <= c /\ c - 0 = c
      /\ c + 0 = c /\ 0 + d = d
  BY Top, Geometry
<1>2. BufferAtRest'
  <2>1. Column(0) = 0 /\ (\A v : Columns(v, 0) = 0) /\ d # 0
    BY Top, Geometry
  <2> QED
    BY <2>1, Zenon DEF BufferAtRest, NothingRead
<1>3. Ahead(0, WatchedAt) < d
  BY <1>1, FromTop, Geometry
<1> QED
  BY <1>1, <1>2, <1>3, AtRest

\* The first redraw begins at the top of the screen with a whole frame.
LEMMA InvInit == Init => IInv
<1> SUFFICES ASSUME Init PROVE IInv
  OBVIOUS
<1>1. TypeOK /\ MoreTypes
  <2>1. 0 \in 0 .. CYCLES_SCANLINE - 1 /\ 0 \in 0 .. SCANLINES_FRAME - 1
        /\ 0 \in 0 .. FlashPeriod - 1 /\ CYCLES_FRAME \in Nat
    BY Geometry
  <2>2. {cycles_video_frame, cyclesFrameLast, cyclesDirty, cyclesCount} \subseteq Nat
    BY <2>1 DEF Init
  <2>3. 0 \in Nat
    OBVIOUS
  <2> QED
    BY <2>1, <2>2, <2>3, Zenon DEF Init, TypeOK, MoreTypes, Modes
<1>2. At = 0 /\ Lag = 0
  BY Top DEF Init, At, Lag
<1>3. OrderInv
  BY <1>2, Geometry DEF Init, OrderInv, OrderAtRest, OrderInScan
<1>4. AlignInv
  <2>1. 0 + CYCLES_FRAME = CYCLES_FRAME
    BY Geometry
  <2> QED
    BY <2>1, Top, Zenon DEF Init, AlignInv
<1>5. BufferInv
  <2>1. Column(0) = 0 /\ \A v : Columns(v, 0) = 0
    BY Top
  <2> QED
    BY <2>1, Geometry DEF Init, BufferInv, BufferInScan, BufferAtRest
<1>6. WindowInv
  BY <1>1, Ranges DEF Init, WindowInv
<1> QED
  BY <1>1, <1>3, <1>4, <1>5, <1>6 DEF IInv, NoUnderflow, Init

-----------------------------------------------------------------------------
(* The steps                                                                 *)

\* A scan begins: what is shown until now is scanned up to the present position of the beam.
LEMMA BeginKeeps ==
    ASSUME IInv, pc = "cpu", NEW caller \in {"update", "setDirty"},
           NEW c \in Nat, NEW l \in Nat, NEW d \in Nat, Begin(caller, c, l, d),
           l <= c, (c - l) + (l % CYCLES_FRAME) < 2 * CYCLES_FRAME,
           caller = "setDirty" => c - l < d,
           caller = "update" => Aligned(l + d),
           reset_scanner => l = 0,
           ~reset_scanner => scancol = Columns(Row(l), Column(l)),
           stale => Ahead(l % CYCLES_FRAME, WatchedAt) < d
    PROVE  IInv'
<1> DEFINE at == l % CYCLES_FRAME
           k  == Iterations(c - l, d)
<1>1. TypeOK /\ MoreTypes /\ scanidx = 0
  BY DEF IInv, BufferInv, BufferInScan, BufferAtRest
<1>2. /\ Row(l) \in 0 .. SCANLINES_FRAME - 1 /\ Column(l) \in 0 .. CYCLES_SCANLINE - 1
      /\ at = Place(Row(l), Column(l))
  BY PlaceOf
<1>3. at \in 0 .. CYCLES_FRAME - 1
  BY Geometry, DivMod
<1>4. k \in Nat /\ k <= c - l /\ k <= d /\ (k = c - l \/ k = d) /\ (c - l < d => k = c - l)
  BY DEF Iterations
<1>5. /\ pc' = caller /\ cyclesFrameLast' = l /\ hCount' = Column(l) /\ vCount' = Row(l)
      /\ cyclesCount' = k /\ cycles_video_frame' = c /\ cyclesDirty' = d
      /\ reset_scanner' = FALSE /\ watched' = watched /\ stale' = stale
      /\ scancol' = (IF reset_scanner THEN 0 ELSE scancol) /\ scanidx' = 0
      /\ textFlashCounter' = textFlashCounter /\ mode' = mode
  BY <1>1, Zenon DEF Begin
<1> HIDE DEF at, k
<1>6. TypeOK'
  BY <1>1, <1>2, <1>4, <1>5 DEF TypeOK
<1>7. MoreTypes'
  BY <1>1, <1>5 DEF MoreTypes
<1>8. BufferInScan'
  <2>1. scancol' = Columns(Row(l), Column(l))
    <3>1. CASE reset_scanner
      <4>1. l = 0 /\ scancol' = 0 /\ Column(0) = 0 /\ \A v : Columns(v, 0) = 0
        BY <1>5, <3>1, Top, Zenon
      <4> QED
        BY <4>1, Zenon
    <3>2. CASE ~reset_scanner
      BY <1>5, <3>2, Zenon
    <3> QED
      BY <3>1, <3>2, Zenon
  <2>2. Columns(Row(l), Column(l)) \in Nat
    BY <1>2, Geometry DEF Columns
  <2>3. PICK x \in Nat : x = Columns(Row(l), Column(l))
    BY <2>2
  <2>4. scancol' + scanidx' = Columns(vCount', hCount')
    BY <1>5, <2>1, <2>3
  <2> QED
    BY <1>5, <2>4, Zenon DEF BufferInScan
<1>9. stale' => Ahead(at, WatchedAt) < d
  BY <1>5, Zenon DEF at
<1>10. pc' # "cpu" /\ (pc' = "setDirty" => k = c - l /\ k < d) /\ (pc' = "update" => Aligned(l + d))
  BY <1>4, <1>5
<1>11. Row(l) \in Nat /\ Column(l) \in Nat /\ (c - l) + at < 2 * CYCLES_FRAME /\ l % CYCLES_FRAME = at
  BY <1>2, Geometry DEF at
<1> QED
  BY <1>1, <1>2, <1>3, <1>4, <1>5, <1>6, <1>7, <1>8, <1>9, <1>10, <1>11, InScan, Zenon

\* At rest the scanner is behind by the cycles that run next, which end within the next frame.
LEMMA Behind ==
    ASSUME IInv, pc = "cpu", ShortSlices, NEW n \in Slices
    PROVE  /\ n \in Nat /\ cyclesFrameLast <= cycles_video_frame + n /\ (cycles_video_frame + n) \in Nat
           /\ (cycles_video_frame + n - cyclesFrameLast) + At < 2 * CYCLES_FRAME
<1>1. TypeOK /\ MoreTypes /\ n \in Nat /\ n < CYCLES_FRAME
  BY Geometry DEF IInv, ShortSlices
<1>2. cyclesFrameLast <= cycles_video_frame /\ (Lag = 0 \/ Lag + At < CYCLES_FRAME)
  BY DEF IInv, OrderInv, OrderAtRest
<1> QED
  BY <1>1, <1>2, Ranges, Geometry DEF Lag

\* The end of a slice with something to redraw.
LEMMA UpdateDirtyKeeps ==
    ASSUME IInv, ShortSlices, NEW n \in Slices, UpdateDirty(n)
    PROVE  IInv'
<1>1. pc = "cpu" /\ cyclesDirty # 0
      /\ Begin("update", cycles_video_frame + n, cyclesFrameLast, cyclesDirty)
  BY DEF UpdateDirty
<1>2. TypeOK /\ MoreTypes
  BY DEF IInv
<1>3. /\ reset_scanner => cyclesFrameLast = 0
      /\ ~reset_scanner => scancol = Columns(Row(cyclesFrameLast), Column(cyclesFrameLast))
  BY <1>1, Zenon DEF IInv, BufferInv, BufferInScan, BufferAtRest
<1>4. Aligned(cyclesFrameLast + cyclesDirty)
  BY <1>1 DEF IInv, AlignInv
<1>5. stale => Ahead(cyclesFrameLast % CYCLES_FRAME, WatchedAt) < cyclesDirty
  BY DEF IInv, WindowInv, Distance, At
<1>6. (cycles_video_frame + n - cyclesFrameLast) + (cyclesFrameLast % CYCLES_FRAME) < 2 * CYCLES_FRAME
  BY <1>1, Behind DEF At
<1> QED
  BY <1>1, <1>2, <1>3, <1>4, <1>5, <1>6, Behind, Ranges, BeginKeeps

\* A change of video memory or of a switch.
LEMMA SetDirtyKeeps ==
    ASSUME IInv, ShortSlices, NEW n \in Slices, video_setDirty(n)
    PROVE  IInv'
<1> DEFINE c == cycles_video_frame + n
           l == IF cyclesDirty = 0 THEN c - Column(c) ELSE cyclesFrameLast
<1>1. pc = "cpu" /\ Begin("setDirty", c, l, Unbounded)
  BY DEF video_setDirty
<1>2. TypeOK /\ MoreTypes
  BY DEF IInv
<1>3. c \in Nat /\ cyclesFrameLast <= c /\ (c - cyclesFrameLast) + At < 2 * CYCLES_FRAME
  <2>1. pc = "cpu"
    BY <1>1
  <2>2. cyclesFrameLast <= cycles_video_frame + n
    BY <2>1, Behind
  <2>3. (cycles_video_frame + n) \in Nat
    BY <2>1, Behind
  <2>4. (cycles_video_frame + n - cyclesFrameLast) + At < 2 * CYCLES_FRAME
    BY <2>1, Behind
  <2>5. c = cycles_video_frame + n
    OBVIOUS
  <2>6. n \in Nat
    BY Geometry
  <2> HIDE DEF c
  <2> QED
    BY <1>2, <2>2, <2>3, <2>4, <2>5, <2>6, Ranges
<1>4. Column(c) \in 0 .. CYCLES_SCANLINE - 1 /\ c - Column(c) \in Nat /\ Column(c - Column(c)) = 0
  <2>1. (c % CYCLES_SCANLINE) \in 0 .. CYCLES_SCANLINE - 1 /\ (c \div CYCLES_SCANLINE) \in Nat
        /\ c = (c \div CYCLES_SCANLINE) * CYCLES_SCANLINE + (c % CYCLES_SCANLINE)
    BY <1>3, Geometry, DivMod
  <2>2. PICK q \in Nat, r \in 0 .. CYCLES_SCANLINE - 1 :
            r = c % CYCLES_SCANLINE /\ c = q * CYCLES_SCANLINE + r
    BY <2>1, Zenon
  <2>3. q * CYCLES_SCANLINE \in Nat /\ (q * CYCLES_SCANLINE) % CYCLES_SCANLINE = 0
    BY Geometry, Product, ModMultiple
  <2>4. c - r = q * CYCLES_SCANLINE
    BY <2>2, <2>3, <1>3, Geometry
  <2> QED
    BY <2>1, <2>2, <2>3, <2>4 DEF Column
<1>5. Unbounded \in Nat /\ Unbounded >= 2 * CYCLES_FRAME
  BY Geometry DEF Unbounded
<1>6. /\ l \in Nat /\ l <= c /\ (c - l) + (l % CYCLES_FRAME) < 2 * CYCLES_FRAME
      /\ (l % CYCLES_FRAME) \in 0 .. CYCLES_FRAME - 1
  <2>1. CASE cyclesDirty = 0
    <3>1. l = c - Column(c)
      BY <2>1
    <3>2. l \in Nat /\ l <= c /\ c - l < CYCLES_SCANLINE
      BY <3>1, <1>3, <1>4, Geometry
    <3>3. (l % CYCLES_FRAME) \in 0 .. CYCLES_FRAME - 1
      BY <3>2, Geometry, DivMod
    <3> HIDE DEF l, c
    <3> QED
      BY <3>2, <3>3, <1>3, Geometry
  <2>2. CASE cyclesDirty # 0
    <3>1. l = cyclesFrameLast /\ cyclesFrameLast \in Nat
      BY <2>2, <1>2, Ranges
    <3>2. (l % CYCLES_FRAME) \in 0 .. CYCLES_FRAME - 1
      BY <3>1, Geometry, DivMod
    <3> QED
      BY <3>1, <3>2, <1>3 DEF At
  <2> QED
    BY <2>1, <2>2
<1>7. reset_scanner => l = 0
  BY <1>1, Zenon DEF IInv, BufferInv, BufferInScan, BufferAtRest
<1>8. ~reset_scanner => scancol = Columns(Row(l), Column(l))
  <2>1. CASE cyclesDirty = 0
    <3>1. Columns(Row(l), Column(l)) = 0
      BY <2>1, <1>4, Top
    <3>2. ~reset_scanner => scancol = 0
      BY <1>1, <2>1, Zenon DEF IInv, BufferInv, BufferInScan, BufferAtRest
    <3> QED
      BY <3>1, <3>2, Zenon
  <2>2. CASE cyclesDirty # 0
    BY <1>1, <2>2, Zenon DEF IInv, BufferInv, BufferInScan, BufferAtRest
  <2> QED
    BY <2>1, <2>2
<1> HIDE DEF c, l
<1>9. Ahead(l % CYCLES_FRAME, WatchedAt) < Unbounded
  <2>1. PICK at \in 0 .. CYCLES_FRAME - 1 : at = l % CYCLES_FRAME
    BY <1>6
  <2>2. Ahead(at, WatchedAt) \in 0 .. CYCLES_FRAME - 1
    BY <1>2, FromTop
  <2>3. Ahead(at, WatchedAt) < Unbounded
    BY <2>2, <1>5, Geometry
  <2> QED
    BY <2>1, <2>3
<1>10. c - l < Unbounded
  <2>1. PICK at \in 0 .. CYCLES_FRAME - 1 : at = l % CYCLES_FRAME
    BY <1>6
  <2>2. (c - l) + at < 2 * CYCLES_FRAME
    BY <2>1, <1>6
  <2> QED
    BY <2>1, <2>2, <1>3, <1>5, <1>6, Geometry
<1> QED
  BY <1>1, <1>3, <1>5, <1>6, <1>7, <1>8, <1>9, <1>10, BeginKeeps

\* The end of a slice with a screen that is up to date.
LEMMA UpdateCleanKeeps ==
    ASSUME IInv, NEW n \in Slices, UpdateClean(n)
    PROVE  IInv'
<1> DEFINE c == cycles_video_frame + n
<1>1. TypeOK /\ MoreTypes /\ c \in Nat
  <2>1. TypeOK /\ MoreTypes
    BY DEF IInv
  <2> QED
    BY <2>1, Ranges, Geometry
<1>2. /\ pc = "cpu" /\ cyclesDirty = 0 /\ pc' = pc /\ cyclesCount' = cyclesCount
      /\ hCount' = hCount /\ vCount' = vCount /\ mode' = mode /\ watched' = watched
      /\ reset_scanner' = FALSE
  BY Zenon DEF UpdateClean
<1>3. scancol' = 0 /\ scanidx' = 0
  BY <1>2, Zenon DEF UpdateClean, IInv, BufferInv, BufferInScan, BufferAtRest
<1>4. /\ textFlashCounter \in 0 .. FlashPeriod - 1
      /\ ((textFlashCounter + 1) % FlashPeriod) \in 0 .. FlashPeriod - 1
  BY <1>1, Ranges
<1>5. MoreTypes'
  BY <1>1, <1>2, <1>3 DEF MoreTypes
<1>6. ~stale
  <2>1. Distance \in Nat
    BY <1>1, Ranges, Geometry
  <2>2. ~(Distance < 0)
    BY <2>1
  <2> QED
    BY <1>2, <2>2, Zenon DEF IInv, WindowInv
<1>7. ASSUME NEW x \in Nat, x < CYCLES_FRAME, cycles_video_frame' = x, cyclesFrameLast' = x,
             cyclesDirty' = 0, stale' = stale, textFlashCounter' \in 0 .. FlashPeriod - 1
      PROVE  IInv'
  <2>1. x % CYCLES_FRAME = x
    <3>1. 0 * CYCLES_FRAME + x = x /\ x \in 0 .. CYCLES_FRAME - 1
      BY <1>7, Geometry
    <3> QED
      BY <3>1, Geometry, DivOf
  <2>2. TypeOK'
    BY <1>1, <1>2, <1>7 DEF TypeOK
  <2>3. BufferAtRest'
    BY <1>2, <1>3, <1>7, Zenon DEF BufferAtRest
  <2>4. ~stale'
    BY <1>6, <1>7, Zenon
  <2>5. x \in 0 .. CYCLES_FRAME - 1 /\ x <= x /\ x - x = 0 /\ 0 \in Nat /\ pc' = "cpu"
    BY <1>2, <1>7, Geometry
  <2> QED
    BY <1>1, <1>2, <1>5, <1>7, <2>1, <2>2, <2>3, <2>4, <2>5, AtRest, Zenon
<1>8. CASE c < CYCLES_FRAME /\ cycles_video_frame' = c /\ cyclesFrameLast' = c
           /\ UNCHANGED <<cyclesDirty, textFlashCounter, stale>>
  BY <1>1, <1>2, <1>4, <1>7, <1>8
<1>9. CASE c >= CYCLES_FRAME /\ _endOfFrame(c, c, 0)
  <2>1. PICK x \in 0 .. CYCLES_FRAME - 1 : x = c % CYCLES_FRAME
    BY <1>1, Geometry, DivMod
  <2>2. x \in Nat /\ x < CYCLES_FRAME
    BY Geometry
  <2>3. cycles_video_frame' = x /\ textFlashCounter' \in 0 .. FlashPeriod - 1
    BY <1>4, <1>9, <2>1 DEF _endOfFrame
  <2>4. CASE cyclesFrameLast' = 0 /\ cyclesDirty' = _setScannerDirty(0) /\ stale' = TRUE
    <3>1. PICK d \in Nat : d = _setScannerDirty(0) /\ d >= CYCLES_FRAME /\ Aligned(0 + d)
      BY DirtyWindow DEF Aligned
    <3>2. 0 + d = d
      OBVIOUS
    <3>3. Aligned(d)
      BY <3>1, <3>2
    <3>4. NothingRead'
      BY <1>3, Zenon DEF NothingRead
    <3>5. cyclesDirty' = d /\ cyclesFrameLast' = 0 /\ pc' = "cpu" /\ stale' = TRUE
      BY <1>2, <2>4, <3>1
    <3>6. TypeOK'
      BY <1>1, <1>2, <2>2, <2>3, <3>5 DEF TypeOK
    <3> QED
      BY <1>1, <1>2, <1>5, <2>2, <2>3, <3>1, <3>3, <3>4, <3>5, <3>6, AtTop
  <2>5. CASE cyclesFrameLast' = c % CYCLES_FRAME /\ cyclesDirty' = 0 /\ UNCHANGED stale
    BY <1>7, <2>1, <2>2, <2>3, <2>5
  <2> QED
    BY <1>9, <2>4, <2>5 DEF _endOfFrame
<1> QED
  BY <1>2, <1>8, <1>9 DEF UpdateClean

\* In a scan the beam is where the counters say, with a cycle left for each iteration.
LEMMA ScanFacts ==
    ASSUME IInv, pc # "cpu", cyclesCount > 0, cyclesDirty > 0
    PROVE  /\ TypeOK /\ MoreTypes /\ At = Place(vCount, hCount)
           /\ cyclesFrameLast + 1 <= cycles_video_frame
           /\ cyclesCount - 1 \in Nat /\ cyclesDirty - 1 \in Nat /\ cyclesFrameLast + 1 \in Nat
           /\ cyclesCount <= Lag /\ cyclesCount <= cyclesDirty /\ Lag + At < 2 * CYCLES_FRAME
           /\ cyclesCount = Lag \/ cyclesCount = cyclesDirty \/ Lag + At < CYCLES_FRAME
           /\ pc = "setDirty" => cyclesCount = Lag /\ cyclesCount < cyclesDirty
           /\ pc = "update" => Aligned(cyclesFrameLast + cyclesDirty)
           /\ ~reset_scanner /\ scancol + scanidx = Columns(vCount, hCount)
<1>1. TypeOK /\ MoreTypes
  BY DEF IInv
<1>2. /\ At = Place(vCount, hCount) /\ cyclesCount <= Lag /\ Lag + At < 2 * CYCLES_FRAME
      /\ cyclesCount = Lag \/ cyclesCount = cyclesDirty \/ Lag + At < CYCLES_FRAME
      /\ cyclesCount <= cyclesDirty
      /\ pc = "setDirty" => cyclesCount = Lag /\ cyclesCount < cyclesDirty
  BY DEF IInv, OrderInv, OrderInScan, NoUnderflow
<1>3. pc = "update" => Aligned(cyclesFrameLast + cyclesDirty)
  BY DEF IInv, AlignInv
<1>4. ~reset_scanner /\ scancol + scanidx = Columns(vCount, hCount)
  BY Zenon DEF IInv, BufferInv, BufferInScan, BufferAtRest
<1>5. cyclesFrameLast + 1 <= cycles_video_frame
  BY <1>1, <1>2, Ranges DEF Lag
<1>6. cyclesCount - 1 \in Nat /\ cyclesDirty - 1 \in Nat /\ cyclesFrameLast + 1 \in Nat
  BY <1>1, Ranges
<1> QED
  BY <1>1, <1>2, <1>3, <1>4, <1>5, <1>6, Zenon

\* The watched position that the beam has not read is a cycle nearer after an iteration.
LEMMA Nearer ==
    ASSUME IInv, pc # "cpu", cyclesCount > 0, cyclesDirty > 0, stale, ~Seen
    PROVE  At # WatchedAt /\ Distance < cyclesDirty
<1>1. TypeOK /\ MoreTypes /\ At = Place(vCount, hCount)
  BY ScanFacts, Zenon
<1>2. Distance < cyclesDirty
  BY Zenon DEF IInv, WindowInv
<1>3. ASSUME At = WatchedAt PROVE FALSE
  <2>1. /\ watched[1] \in 0 .. VisLines - 1 /\ watched[2] \in HBL .. CYCLES_SCANLINE - 1
        /\ watched = <<watched[1], watched[2]>>
    BY <1>1 DEF MoreTypes
  <2>2. vCount \in Nat /\ hCount \in 0 .. CYCLES_SCANLINE - 1 /\ watched[1] \in Nat
        /\ watched[2] \in 0 .. CYCLES_SCANLINE - 1
    BY <1>1, <2>1, Ranges, Geometry
  <2>3. vCount = watched[1] /\ hCount = watched[2]
    <3>1. PICK v \in Nat, h \in 0 .. CYCLES_SCANLINE - 1 : v = vCount /\ h = hCount
      BY <2>2
    <3>2. PICK a \in Nat, b \in 0 .. CYCLES_SCANLINE - 1 : a = watched[1] /\ b = watched[2]
      BY <2>2
    <3>3. Place(v, h) = Place(a, b)
      BY <1>1, <1>3, <3>1, <3>2, Zenon DEF WatchedAt
    <3>4. v = a /\ h = b
      BY <3>3, OnePlace
    <3> QED
      BY <3>1, <3>2, <3>4
  <2>4. hCount >= HBL /\ vCount < VisLines
    BY <2>1, <2>3, Geometry
  <2> QED
    BY <2>1, <2>3, <2>4, Zenon DEF Seen, Visible
<1> QED
  BY <1>2, <1>3

\* An iteration within the frame.
LEMMA ForwardKeeps ==
    ASSUME IInv, pc # "cpu", cyclesCount > 0, cyclesDirty > 0, MoreTypes', BufferInScan',
           NEW v \in 0 .. SCANLINES_FRAME - 1, vCount' = v,
           NEW h \in 0 .. CYCLES_SCANLINE - 1, hCount' = h, Place(v, h) = At + 1,
           cyclesFrameLast' = cyclesFrameLast + 1, cyclesDirty' = cyclesDirty - 1,
           cyclesCount' = cyclesCount - 1, stale' = (stale /\ ~Seen),
           UNCHANGED <<cycles_video_frame, textFlashCounter, pc, mode, reset_scanner, watched>>
    PROVE  IInv'
<1>1. TypeOK /\ MoreTypes
  BY ScanFacts, Zenon
<1>2. PICK c \in Nat, l \in Nat, d \in Nat, k \in Nat,
           at \in 0 .. CYCLES_FRAME - 1, w \in 0 .. CYCLES_FRAME - 1 :
         /\ c = cycles_video_frame /\ l = cyclesFrameLast + 1 /\ d = cyclesDirty - 1
         /\ k = cyclesCount - 1 /\ at = Place(v, h) /\ w = WatchedAt
  <2>1. cycles_video_frame \in Nat /\ WatchedAt \in 0 .. CYCLES_FRAME - 1
    BY <1>1, Ranges
  <2>2. cyclesCount - 1 \in Nat /\ cyclesDirty - 1 \in Nat /\ cyclesFrameLast + 1 \in Nat
    BY ScanFacts, Zenon
  <2>3. Place(v, h) \in 0 .. CYCLES_FRAME - 1
    BY PlaceInFrame
  <2> QED
    BY <2>1, <2>2, <2>3, Zenon
<1>3. l % CYCLES_FRAME = at
  <2>1. At = cyclesFrameLast % CYCLES_FRAME /\ cyclesFrameLast \in Nat /\ At \in 0 .. CYCLES_FRAME - 1
    BY <1>1, Ranges DEF At
  <2>2. at = At + 1 /\ At # CYCLES_FRAME - 1
    BY <1>2, <2>1, Geometry
  <2> QED
    BY <1>2, <2>1, <2>2, Geometry, ModNext
<1>4. /\ l <= c /\ k <= c - l /\ k <= d /\ (c - l) + at < 2 * CYCLES_FRAME
      /\ k = c - l \/ k = d \/ (c - l) + at < CYCLES_FRAME
      /\ pc = "setDirty" => k = c - l /\ k < d
  <2>1. c - l = Lag - 1 /\ at = At + 1 /\ At \in Nat /\ Lag \in Int /\ cyclesCount \in Nat
        /\ cyclesDirty \in Nat
    BY <1>1, <1>2, Ranges, Geometry DEF Lag
  <2>2. /\ cyclesFrameLast + 1 <= cycles_video_frame
        /\ cyclesCount <= Lag /\ cyclesCount <= cyclesDirty /\ Lag + At < 2 * CYCLES_FRAME
        /\ cyclesCount = Lag \/ cyclesCount = cyclesDirty \/ Lag + At < CYCLES_FRAME
        /\ pc = "setDirty" => cyclesCount = Lag /\ cyclesCount < cyclesDirty
    BY ScanFacts, Zenon
  <2> QED
    BY <1>2, <2>1, <2>2, Geometry
<1>5. pc = "update" => Aligned(l + d)
  <2>1. l + d = cyclesFrameLast + cyclesDirty
    BY <1>1, <1>2, Ranges
  <2>2. pc = "update" => Aligned(cyclesFrameLast + cyclesDirty)
    BY ScanFacts, Zenon
  <2> QED
    BY <2>1, <2>2
<1>6. stale' => Ahead(at, WatchedAt) < d
  <2>1. CASE stale /\ ~Seen
    <3>1. At # WatchedAt /\ Distance < cyclesDirty
      BY <2>1, Nearer
    <3>2. Ahead(at, w) = Distance - 1
      <4>1. at = At + 1 /\ At \in 0 .. CYCLES_FRAME - 1
        BY <1>1, <1>2, Ranges
      <4> QED
        BY <1>2, <3>1, <4>1, Geometry DEF Distance, Ahead
    <3>3. Ahead(at, w) < d
      BY <1>1, <1>2, <3>1, <3>2, Ranges, Geometry
    <3> QED
      BY <1>2, <3>3
  <2>2. CASE ~(stale /\ ~Seen)
    BY <2>2, Zenon
  <2> QED
    BY <2>1, <2>2, Zenon
<1>7. TypeOK'
  <2>1. /\ pc' = pc /\ mode' = mode /\ cycles_video_frame' = c /\ cyclesFrameLast' = l
        /\ cyclesDirty' = d
        /\ cyclesCount' = k /\ textFlashCounter' = textFlashCounter
    BY <1>2
  <2>2. reset_scanner' \in BOOLEAN /\ stale' \in BOOLEAN
    <3>1. reset_scanner' = reset_scanner /\ reset_scanner \in BOOLEAN
      BY <1>1 DEF TypeOK
    <3>2. stale' \in BOOLEAN
      BY Zenon
    <3> QED
      BY <3>1, <3>2, Zenon
  <2>3. {cycles_video_frame', cyclesFrameLast', cyclesDirty', cyclesCount'} \subseteq Nat
    BY <2>1
  <2>4. mode' \in Modes /\ pc' \in {"cpu", "update", "setDirty"}
        /\ textFlashCounter' \in 0 .. FlashPeriod - 1
    BY <1>1, <2>1 DEF TypeOK
  <2> QED
    BY <2>2, <2>3, <2>4, Zenon DEF TypeOK
<1>8. v \in Nat /\ h \in Nat
  BY Geometry
<1>9. pc' = pc /\ pc' # "cpu" /\ watched' = watched /\ cycles_video_frame' = c /\ cyclesFrameLast' = l
      /\ cyclesDirty' = d /\ cyclesCount' = k /\ at = Place(v, h)
  BY <1>2
<1> QED
  BY <1>1, <1>3, <1>4, <1>5, <1>6, <1>7, <1>8, <1>9, InScan, Zenon

\* The beam moves on within its scanline.
LEMMA WithinKeeps ==
    ASSUME IInv, Scan, Within
    PROVE  IInv'
<1>1. pc # "cpu" /\ cyclesCount > 0 /\ cyclesDirty > 0
  BY DEF Scan
<1>2. /\ TypeOK /\ MoreTypes /\ At = Place(vCount, hCount) /\ ~reset_scanner
      /\ scancol + scanidx = Columns(vCount, hCount)
  BY <1>1, ScanFacts, Zenon
<1>3. hCount + 1 # CYCLES_SCANLINE
  BY DEF Within, LastHere
<1>4. PICK v \in 0 .. SCANLINES_FRAME - 1, h \in 0 .. CYCLES_SCANLINE - 1 : v = vCount /\ h = hCount + 1
  BY <1>2, <1>3, Ranges, Geometry
<1>5. Place(v, h) = At + 1
  <2>1. v * CYCLES_SCANLINE \in Nat
    BY Product, Geometry
  <2>2. hCount \in Nat
    BY <1>2, Ranges, Geometry
  <2> QED
    BY <1>2, <1>4, <2>1, <2>2 DEF Place
<1>6. PICK x \in Nat, y \in Nat : x = scancol /\ y = scanidx
  BY <1>2 DEF MoreTypes
<1>7. scancol' = x /\ scanidx' = IF Visible THEN y + 1 ELSE y
  BY <1>6 DEF Within
<1>8. BufferInScan'
  <2>1. Columns(v, h) = Columns(vCount, hCount) + (IF Visible THEN 1 ELSE 0)
    BY <1>2, <1>4, Ranges, Geometry DEF Columns, Visible
  <2>2. scancol' + scanidx' = Columns(v, h)
    <3>1. CASE Visible
      BY <1>2, <1>6, <1>7, <2>1, <3>1
    <3>2. CASE ~Visible
      BY <1>2, <1>6, <1>7, <2>1, <3>2
    <3> QED
      BY <3>1, <3>2
  <2>3. ~reset_scanner' /\ vCount' = v /\ hCount' = h
    BY <1>2, <1>4, Zenon DEF Scan, Within
  <2> QED
    BY <2>2, <2>3, Zenon DEF BufferInScan
<1>9. MoreTypes'
  <2>1. scanidx' \in Nat /\ scancol' \in Nat
    BY <1>7
  <2> QED
    BY <1>2, <2>1 DEF MoreTypes, Scan
<1>10. /\ vCount' = v /\ hCount' = h /\ cyclesFrameLast' = cyclesFrameLast + 1
       /\ cyclesDirty' = cyclesDirty - 1 /\ cyclesCount' = cyclesCount - 1 /\ stale' = (stale /\ ~Seen)
       /\ UNCHANGED <<cycles_video_frame, textFlashCounter, pc, mode, reset_scanner, watched>>
  BY <1>4, Zenon DEF Scan, Within
<1> QED
  BY <1>1, <1>5, <1>8, <1>9, <1>10, ForwardKeeps, Zenon

\* The beam goes on with the next scanline.
LEMMA NextLineKeeps ==
    ASSUME IInv, Scan, NextLine
    PROVE  IInv'
<1>1. pc # "cpu" /\ cyclesCount > 0 /\ cyclesDirty > 0
  BY DEF Scan
<1>2. /\ TypeOK /\ MoreTypes /\ At = Place(vCount, hCount) /\ ~reset_scanner
  BY <1>1, ScanFacts, Zenon
<1>3. hCount + 1 = CYCLES_SCANLINE /\ vCount + 1 # SCANLINES_FRAME
  BY DEF NextLine, LastHere
<1>4. PICK v \in 0 .. SCANLINES_FRAME - 1 : v = vCount + 1
  BY <1>2, <1>3, Ranges, Geometry
<1>5. Place(v, 0) = At + 1
  <2>1. vCount \in Nat /\ hCount \in Nat
    BY <1>2, Ranges, Geometry
  <2>2. (vCount + 1) * CYCLES_SCANLINE = vCount * CYCLES_SCANLINE + CYCLES_SCANLINE
        /\ vCount * CYCLES_SCANLINE \in Nat
    BY <2>1, Product, Geometry
  <2>3. PICK p \in Nat : p = vCount * CYCLES_SCANLINE
    BY <2>2
  <2>4. Place(v, 0) = p + CYCLES_SCANLINE + 0
    BY <1>4, <2>2, <2>3 DEF Place
  <2>5. At = p + hCount
    BY <1>2, <2>3 DEF Place
  <2> QED
    BY <1>3, <2>1, <2>4, <2>5, Geometry
<1>6. scancol' = 0 /\ scanidx' = 0 /\ 0 + 0 = 0
  BY DEF NextLine
<1>7. BufferInScan'
  <2>1. Columns(v, 0) = 0
    BY Top
  <2>2. ~reset_scanner' /\ vCount' = v /\ hCount' = 0
    BY <1>2, <1>4, Zenon DEF Scan, NextLine
  <2> QED
    BY <1>6, <2>1, <2>2, Zenon DEF BufferInScan
<1>8. MoreTypes'
  BY <1>2, <1>6 DEF MoreTypes, Scan
<1>9. /\ vCount' = v /\ hCount' = 0 /\ cyclesFrameLast' = cyclesFrameLast + 1
      /\ cyclesDirty' = cyclesDirty - 1 /\ cyclesCount' = cyclesCount - 1 /\ stale' = (stale /\ ~Seen)
      /\ UNCHANGED <<cycles_video_frame, textFlashCounter, pc, mode, reset_scanner, watched>>
  BY <1>4, Zenon DEF Scan, NextLine
<1>10. 0 \in 0 .. CYCLES_SCANLINE - 1
  BY Geometry
<1> QED
  BY <1>1, <1>5, <1>7, <1>8, <1>9, <1>10, ForwardKeeps, Zenon

\* After the last cycle of a frame the frame was unprocessed, and is taken off the counts.
LEMMA EndOfFrame ==
    ASSUME IInv, pc # "cpu", cyclesCount > 0, cyclesDirty > 0, LastHere, vCount + 1 = SCANLINES_FRAME
    PROVE  /\ At = CYCLES_FRAME - 1 /\ ((cyclesFrameLast + 1) % CYCLES_FRAME) = 0
           /\ Lag - 1 \in Nat /\ Lag - 1 < CYCLES_FRAME
           /\ cycles_video_frame >= CYCLES_FRAME
           /\ (cycles_video_frame % CYCLES_FRAME) = Lag - 1
<1>1. /\ TypeOK /\ MoreTypes /\ At = Place(vCount, hCount) /\ Lag + At < 2 * CYCLES_FRAME
      /\ cyclesFrameLast + 1 <= cycles_video_frame
  BY ScanFacts, Zenon
<1>2. At = CYCLES_FRAME - 1
  <2>1. vCount \in Nat /\ hCount \in Nat /\ hCount = CYCLES_SCANLINE - 1
    BY <1>1, Ranges, Geometry DEF LastHere
  <2>2. (vCount + 1) * CYCLES_SCANLINE = vCount * CYCLES_SCANLINE + CYCLES_SCANLINE
        /\ vCount * CYCLES_SCANLINE \in Nat
    BY <2>1, Product, Geometry
  <2>3. PICK p \in Nat : p = vCount * CYCLES_SCANLINE
    BY <2>2
  <2>4. CYCLES_FRAME = p + CYCLES_SCANLINE
    BY <2>2, <2>3, WholeLines
  <2>5. At = p + hCount
    BY <1>1, <2>3 DEF Place
  <2> QED
    BY <2>1, <2>4, <2>5, Geometry
<1>3. PICK l \in Nat, c \in Nat : l = cyclesFrameLast + 1 /\ c = cycles_video_frame
  BY <1>1, Ranges
<1>4. l % CYCLES_FRAME = 0
  <2>1. At = cyclesFrameLast % CYCLES_FRAME /\ cyclesFrameLast \in Nat
    BY <1>1, Ranges DEF At
  <2> QED
    BY <1>2, <1>3, <2>1, Geometry, ModNext
<1>5. l <= c /\ c - l = Lag - 1 /\ c - l < CYCLES_FRAME
  BY <1>1, <1>2, <1>3, Ranges, Geometry DEF Lag
<1>6. c % CYCLES_FRAME = c - l
  <2>1. CYCLES_FRAME \in Nat \ {0}
    BY Geometry
  <2> QED
    BY <1>4, <1>5, <2>1, ModAbove, Zenon
<1>7. c >= CYCLES_FRAME
  <2>1. CYCLES_FRAME \in Nat \ {0}
    BY Geometry
  <2>2. PICK q \in Nat : l = q * CYCLES_FRAME
    BY <1>4, <2>1, IsMultiple
  <2>3. q # 0
    BY <1>1, <1>3, <2>2, Ranges, Geometry
  <2>4. q * CYCLES_FRAME >= CYCLES_FRAME
    <3>1. ASSUME NEW x \in Nat \ {0}, NEW y \in Nat PROVE x * y >= y
      OBVIOUS
    <3> QED
      BY <2>3, <3>1, Geometry
  <2> QED
    BY <1>5, <2>2, <2>4, Geometry
<1> QED
  BY <1>2, <1>3, <1>4, <1>5, <1>6, <1>7

\* The beam goes on with the next frame; the text may flash.
LEMMA NextFrameKeeps ==
    ASSUME IInv, Scan, NextFrame
    PROVE  IInv'
<1>1. /\ pc # "cpu" /\ cyclesCount > 0 /\ cyclesDirty > 0 /\ LastHere /\ vCount + 1 = SCANLINES_FRAME
      /\ _endOfFrame(cyclesFrameLast + 1, cycles_video_frame, cyclesDirty - 1)
  BY DEF Scan, NextFrame
<1>2. /\ TypeOK /\ MoreTypes /\ ~reset_scanner /\ cyclesDirty - 1 \in Nat /\ cyclesCount - 1 \in Nat
      /\ cyclesCount <= Lag /\ cyclesCount <= cyclesDirty
      /\ pc = "setDirty" => cyclesCount = Lag /\ cyclesCount < cyclesDirty
      /\ pc = "update" => Aligned(cyclesFrameLast + cyclesDirty)
  BY <1>1, ScanFacts, Zenon
<1>3. /\ At = CYCLES_FRAME - 1 /\ ((cyclesFrameLast + 1) % CYCLES_FRAME) = 0
      /\ Lag - 1 \in Nat /\ Lag - 1 < CYCLES_FRAME
      /\ (cycles_video_frame % CYCLES_FRAME) = Lag - 1
  BY <1>1, EndOfFrame, Zenon
<1>4. PICK c \in Nat, k \in Nat, d \in Nat : c = Lag - 1 /\ k = cyclesCount - 1 /\ d = cyclesDirty - 1
  BY <1>2, <1>3, Zenon
<1>5. c < CYCLES_FRAME /\ k <= c /\ k <= d /\ (pc = "setDirty" => k = c /\ k < d)
  <2>1. Lag \in Int /\ cyclesCount \in Nat /\ cyclesDirty \in Nat
    BY <1>2, Ranges
  <2> QED
    BY <1>2, <1>3, <1>4, <2>1
<1>6. PICK w \in 0 .. CYCLES_FRAME - 1 : w = WatchedAt
  BY <1>2, Ranges
<1>7. /\ 0 \in 0 .. CYCLES_FRAME - 1 /\ 0 \in Nat /\ 0 % CYCLES_FRAME = 0 /\ 0 = Place(0, 0)
      /\ 0 <= c /\ c - 0 = c /\ c + 0 = c /\ (c - 0) + 0 < 2 * CYCLES_FRAME
      /\ (c - 0) + 0 < CYCLES_FRAME
  <2>1. 0 * CYCLES_SCANLINE + 0 = 0
    BY Geometry
  <2> QED
    BY <1>5, <2>1, Top, Geometry DEF Place
<1>8. /\ hCount' = 0 /\ vCount' = 0 /\ scancol' = 0 /\ scanidx' = 0 /\ cyclesCount' = k
      /\ cycles_video_frame' = c /\ pc' = pc /\ mode' = mode /\ watched' = watched
      /\ reset_scanner' = reset_scanner
  <2>1. cycles_video_frame' = cycles_video_frame % CYCLES_FRAME
    BY <1>1, Zenon DEF _endOfFrame
  <2> QED
    BY <1>3, <1>4, <2>1, Zenon DEF Scan, NextFrame
<1>9. BufferInScan'
  <2>1. Columns(0, 0) = 0 /\ 0 + 0 = 0
    BY Top
  <2> QED
    BY <1>2, <1>8, <2>1, Zenon DEF BufferInScan
<1>10. MoreTypes'
  BY <1>2, <1>8 DEF MoreTypes
<1>11. ASSUME NEW e \in Nat, cyclesFrameLast' = 0, cyclesDirty' = e, stale' \in BOOLEAN,
              k <= e, pc = "setDirty" => k < e, pc = "update" => Aligned(e), stale' => w < e
       PROVE  IInv'
  <2>1. TypeOK'
    <3>1. textFlashCounter' \in 0 .. FlashPeriod - 1
      <4>1. textFlashCounter' = (textFlashCounter + 1) % FlashPeriod
        BY <1>1, Zenon DEF _endOfFrame
      <4> QED
        BY <1>2, <4>1, Ranges
    <3>2. {cycles_video_frame', cyclesFrameLast', cyclesDirty', cyclesCount'} \subseteq Nat
      BY <1>8, <1>11
    <3>3. hCount' \in 0 .. CYCLES_SCANLINE - 1 /\ vCount' \in 0 .. SCANLINES_FRAME - 1
      BY <1>8, Geometry
    <3>4. mode' \in Modes /\ pc' \in {"cpu", "update", "setDirty"} /\ reset_scanner' \in BOOLEAN
      BY <1>2, <1>8 DEF TypeOK
    <3> QED
      BY <1>11, <3>1, <3>2, <3>3, <3>4, Zenon DEF TypeOK
  <2>2. Ahead(0, WatchedAt) = w /\ 0 + e = e
    BY <1>2, <1>6, <1>7, FromTop
  <2>3. stale' => Ahead(0, WatchedAt) < e
    BY <1>11, <2>2, Zenon
  <2>4. pc' = "setDirty" => k = c - 0 /\ k < e
    BY <1>5, <1>7, <1>8, <1>11
  <2>5. pc' = "update" => Aligned(0 + e)
    BY <1>8, <1>11, <2>2
  <2>6. k <= c - 0 /\ pc' # "cpu"
    BY <1>1, <1>5, <1>7, <1>8
  <2> QED
    BY <1>2, <1>7, <1>8, <1>9, <1>10, <1>11, <2>1, <2>3, <2>4, <2>5, <2>6, InScan, Zenon
<1>12. CASE cyclesFrameLast' = 0 /\ cyclesDirty' = _setScannerDirty(0) /\ stale' = TRUE
  <2>1. PICK e \in Nat : e = _setScannerDirty(0) /\ e >= CYCLES_FRAME /\ Aligned(0 + e)
    BY DirtyWindow DEF Aligned
  <2>2. 0 + e = e /\ w < e /\ k < e /\ k <= e
    BY <1>5, <2>1, Geometry
  <2>3. Aligned(e)
    BY <2>1, <2>2
  <2>4. cyclesFrameLast' = 0 /\ cyclesDirty' = e /\ stale' \in BOOLEAN
    BY <1>12, <2>1
  <2> QED
    BY <1>11, <2>2, <2>3, <2>4
<1>13. CASE /\ cyclesFrameLast' = (cyclesFrameLast + 1) % CYCLES_FRAME /\ cyclesDirty' = cyclesDirty - 1
            /\ UNCHANGED stale
  <2>1. cyclesFrameLast' = 0 /\ cyclesDirty' = d
    BY <1>3, <1>4, <1>13, Zenon
  <2>2. stale' => w < d
    <3>1. CASE stale
      <4>1. ~Seen
        BY <1>1, <1>2, Ranges, Geometry DEF Seen, Visible
      <4>2. At # WatchedAt /\ Distance < cyclesDirty
        BY <1>1, <3>1, <4>1, Nearer
      <4>3. Distance = w + 1
        BY <1>3, <1>6, <4>2, Geometry DEF Distance, Ahead
      <4> QED
        BY <1>2, <1>4, <4>2, <4>3, Ranges
    <3>2. CASE ~stale
      BY <1>13, <3>2, Zenon
    <3> QED
      BY <3>1, <3>2, Zenon
  <2>3. stale' \in BOOLEAN
    BY <1>2, <1>13 DEF TypeOK
  <2>4. pc = "update" => Aligned(d)
    <3>1. PICK l \in Nat : l = cyclesFrameLast + 1
      BY <1>2, Ranges
    <3>2. l % CYCLES_FRAME = 0 /\ CYCLES_FRAME \in Nat \ {0}
      BY <1>3, <3>1, Geometry
    <3>3. PICK q \in Nat : l = q * CYCLES_FRAME
      BY <3>2, IsMultiple
    <3>4. l = (q * SCANLINES_FRAME) * CYCLES_SCANLINE /\ q * SCANLINES_FRAME \in Nat
      BY <3>3, WholeLines
    <3>5. PICK x \in Nat : x = q * SCANLINES_FRAME
      BY <3>4
    <3>6. (d + x * CYCLES_SCANLINE) % CYCLES_SCANLINE = d % CYCLES_SCANLINE
      BY Geometry, ModPlus
    <3>7. cyclesFrameLast + cyclesDirty = d + l
      BY <1>2, <1>4, <3>1, Ranges
    <3>8. d + l = d + x * CYCLES_SCANLINE
      BY <3>4, <3>5
    <3> QED
      BY <1>2, <3>6, <3>7, <3>8 DEF Aligned
  <2> QED
    BY <1>5, <1>11, <2>1, <2>2, <2>3, <2>4
<1> QED
  BY <1>1, <1>12, <1>13, Zenon DEF _endOfFrame

\* A scan leaves no column unflushed.
LEMMA FlushKeeps ==
    ASSUME IInv, pc # "cpu", FlushRest
    PROVE  /\ scanidx' = 0 /\ scancol' = Columns(Row(cyclesFrameLast), Column(cyclesFrameLast))
           /\ vCount = Row(cyclesFrameLast) /\ hCount = Column(cyclesFrameLast) /\ scancol' \in Nat
<1>1. TypeOK /\ MoreTypes /\ At = Place(vCount, hCount)
  BY DEF IInv, OrderInv, OrderInScan
<1>2. scancol + scanidx = Columns(vCount, hCount)
  BY Zenon DEF IInv, BufferInv, BufferInScan, BufferAtRest
<1>3. vCount = Row(cyclesFrameLast) /\ hCount = Column(cyclesFrameLast)
  <2>1. PICK l \in Nat : l = cyclesFrameLast
    BY <1>1, Ranges
  <2>2. PICK v \in Nat, h \in 0 .. CYCLES_SCANLINE - 1 : v = vCount /\ h = hCount
    BY <1>1, Ranges, Geometry
  <2>3. PICK w \in Nat, g \in 0 .. CYCLES_SCANLINE - 1 : w = Row(l) /\ g = Column(l)
    <3>1. Row(l) \in 0 .. SCANLINES_FRAME - 1 /\ Column(l) \in 0 .. CYCLES_SCANLINE - 1
      BY PlaceOf, Zenon
    <3>2. Row(l) \in Nat
      BY <3>1, Geometry
    <3> QED
      BY <3>1, <3>2, Zenon
  <2>4. l % CYCLES_FRAME = Place(Row(l), Column(l))
    BY PlaceOf, Zenon
  <2>5. Place(v, h) = Place(w, g)
    BY <1>1, <2>1, <2>2, <2>3, <2>4, Zenon DEF At
  <2>6. v = w /\ h = g
    BY <2>5, OnePlace
  <2> QED
    BY <2>1, <2>2, <2>3, <2>6, Zenon
<1>4. PICK x \in Nat, y \in Nat, z \in Nat : x = scancol /\ y = scanidx /\ z = Columns(vCount, hCount)
  <2>1. Columns(vCount, hCount) \in Nat
    BY <1>1, Ranges, Geometry DEF Columns
  <2> QED
    BY <1>1, <2>1 DEF MoreTypes
<1>5. scanidx' = 0 /\ scancol' = z
  <2>1. CASE scanidx > 0 /\ vCount < VisLines
    BY <1>2, <1>4, <2>1 DEF FlushRest
  <2>2. CASE ~(scanidx > 0 /\ vCount < VisLines)
    <3>1. scancol' = x /\ scanidx' = y
      BY <1>4, <2>2, Zenon DEF FlushRest
    <3>2. y = 0
      <4>1. vCount \in Nat /\ VisLines \in Nat
        BY <1>1, Ranges, Geometry
      <4>2. CASE ~(vCount < VisLines)
        <5>1. z = 0
          BY <1>4, <4>2, Zenon DEF Columns
        <5> QED
          BY <1>2, <1>4, <5>1
      <4>3. CASE vCount < VisLines
        BY <1>4, <2>2, <4>3
      <4> QED
        BY <4>2, <4>3
    <3> QED
      BY <1>2, <1>4, <3>1, <3>2
  <2> QED
    BY <2>1, <2>2
<1> QED
  BY <1>3, <1>4, <1>5, Zenon

\* The end of the slice has been scanned, or the redraw is over.
LEMMA EndUpdateKeeps ==
    ASSUME IInv, EndUpdate
    PROVE  IInv'
<1>1. /\ pc = "update" /\ pc # "cpu" /\ cyclesCount = 0 /\ FlushRest /\ pc' = "cpu"
      /\ hCount' = 0 /\ vCount' = 0
      /\ cyclesCount' = cyclesCount
      /\ cycles_video_frame' = cycles_video_frame /\ cyclesDirty' = cyclesDirty
      /\ textFlashCounter' = textFlashCounter /\ reset_scanner' = reset_scanner
      /\ mode' = mode /\ watched' = watched /\ stale' = stale
  BY DEF EndUpdate, Return
<1>2. /\ TypeOK /\ MoreTypes /\ ~reset_scanner
      /\ cyclesFrameLast <= cycles_video_frame
      /\ cyclesCount = Lag \/ cyclesCount = cyclesDirty \/ Lag + At < CYCLES_FRAME
      /\ Aligned(cyclesFrameLast + cyclesDirty)
  BY <1>1, Zenon DEF IInv, OrderInv, OrderInScan, AlignInv, BufferInv, BufferInScan, BufferAtRest
<1>3. /\ scanidx' = 0 /\ scancol' = Columns(Row(cyclesFrameLast), Column(cyclesFrameLast))
      /\ scancol' \in Nat
  BY <1>1, FlushKeeps, Zenon
<1>4. MoreTypes'
  BY <1>1, <1>2, <1>3 DEF MoreTypes
<1>5. PICK c \in Nat, d \in Nat : c = cycles_video_frame /\ d = cyclesDirty
  BY <1>2, Ranges
<1>6. ASSUME NEW x \in Nat, cyclesFrameLast' = x PROVE TypeOK'
  <2>1. 0 \in 0 .. CYCLES_SCANLINE - 1 /\ 0 \in 0 .. SCANLINES_FRAME - 1
    BY Geometry
  <2>2. {cycles_video_frame', cyclesFrameLast', cyclesDirty', cyclesCount'} \subseteq Nat
    BY <1>1, <1>2, <1>5, <1>6
  <2>3. /\ mode \in Modes /\ textFlashCounter \in 0 .. FlashPeriod - 1
        /\ reset_scanner \in BOOLEAN /\ stale \in BOOLEAN
    BY <1>2, Zenon DEF TypeOK
  <2> QED
    BY <1>1, <2>1, <2>2, <2>3 DEF TypeOK
<1>7. stale => Distance < cyclesDirty
  BY DEF IInv, WindowInv
<1>8. CASE cyclesDirty = 0
  <2>1. cyclesFrameLast' = c /\ d = 0
    BY <1>5, <1>8 DEF EndUpdate
  <2>2. Column(cyclesFrameLast) = 0
    <3>1. cyclesFrameLast + cyclesDirty = cyclesFrameLast
      BY <1>2, <1>8, Ranges
    <3> QED
      BY <1>2, <3>1, Zenon DEF Aligned, Column
  <2>3. scancol' = 0
    BY <1>3, <2>2, Top, Zenon
  <2>4. BufferAtRest'
    BY <1>1, <1>2, <1>3, <1>8, <2>3, Zenon DEF BufferAtRest
  <2>5. ~stale'
    <3>1. Distance \in Nat
      BY <1>2, Ranges, Geometry
    <3>2. ~(Distance < 0)
      BY <3>1
    <3> QED
      BY <1>1, <1>7, <1>8, <3>2, Zenon
  <2>6. PICK at \in 0 .. CYCLES_FRAME - 1 : c % CYCLES_FRAME = at
    BY Geometry, DivMod
  <2>7. c <= c /\ c - c = 0 /\ TypeOK'
    BY <1>6, <2>1
  <2> QED
    BY <1>1, <1>2, <1>4, <1>5, <2>1, <2>4, <2>5, <2>6, <2>7, AtRest, Zenon
<1>9. CASE cyclesDirty # 0
  <2>1. PICK l \in Nat, at \in 0 .. CYCLES_FRAME - 1 : l = cyclesFrameLast /\ at = At
    BY <1>2, Ranges
  <2>2. cyclesFrameLast' = l
    BY <1>9, <2>1 DEF EndUpdate
  <2>3. l <= c /\ (c - l = 0 \/ (c - l) + at < CYCLES_FRAME)
    BY <1>1, <1>2, <1>5, <1>9, <2>1, Ranges DEF Lag
  <2>4. Aligned(l + d) /\ l % CYCLES_FRAME = at
    BY <1>2, <1>5, <2>1, Zenon DEF At
  <2>5. BufferAtRest'
    BY <1>1, <1>2, <1>3, <1>9, <2>1, <2>2, Zenon DEF BufferAtRest
  <2>6. stale' => Ahead(at, WatchedAt) < d
    BY <1>1, <1>5, <1>7, <2>1, Zenon DEF Distance
  <2>7. TypeOK'
    BY <1>6, <2>2
  <2> QED
    BY <1>1, <1>2, <1>4, <1>5, <2>1, <2>2, <2>3, <2>4, <2>5, <2>6, <2>7, AtRest, Zenon
<1> QED
  BY <1>8, <1>9

\* The redraw that a change starts.
LEMMA EndSetDirtyKeeps ==
    ASSUME IInv, EndSetDirty
    PROVE  IInv'
<1>1. /\ pc = "setDirty" /\ pc # "cpu" /\ cyclesCount = 0 /\ FlushRest /\ pc' = "cpu"
      /\ hCount' = 0 /\ vCount' = 0
      /\ cyclesCount' = cyclesCount
      /\ cycles_video_frame' = cycles_video_frame /\ cyclesFrameLast' = cyclesFrameLast
      /\ textFlashCounter' = textFlashCounter /\ reset_scanner' = reset_scanner
      /\ mode' \in Modes /\ watched' = watched /\ stale' = TRUE
      /\ cyclesDirty' = _setScannerDirty(cyclesFrameLast)
  BY DEF EndSetDirty, Return
<1>2. /\ TypeOK /\ MoreTypes /\ ~reset_scanner
      /\ cyclesFrameLast <= cycles_video_frame /\ cyclesCount = Lag
  BY <1>1, Zenon DEF IInv, OrderInv, BufferInv, BufferInScan, BufferAtRest
<1>3. /\ scanidx' = 0 /\ scancol' = Columns(Row(cyclesFrameLast), Column(cyclesFrameLast))
      /\ scancol' \in Nat
  BY <1>1, FlushKeeps, Zenon
<1>4. MoreTypes'
  BY <1>1, <1>2, <1>3 DEF MoreTypes
<1>5. PICK c \in Nat, l \in Nat, at \in 0 .. CYCLES_FRAME - 1 :
         c = cycles_video_frame /\ l = cyclesFrameLast /\ at = At
  BY <1>2, Ranges
<1>6. l <= c /\ c - l = 0
  BY <1>1, <1>2, <1>5, Ranges DEF Lag
<1>7. PICK d \in Nat : d = _setScannerDirty(l) /\ d >= CYCLES_FRAME /\ Aligned(l + d)
  BY DirtyWindow DEF Aligned
<1>8. TypeOK'
  <2>1. 0 \in 0 .. CYCLES_SCANLINE - 1 /\ 0 \in 0 .. SCANLINES_FRAME - 1
    BY Geometry
  <2>2. {cycles_video_frame', cyclesFrameLast', cyclesDirty', cyclesCount'} \subseteq Nat
    BY <1>1, <1>2, <1>5, <1>7
  <2>3. textFlashCounter \in 0 .. FlashPeriod - 1 /\ reset_scanner \in BOOLEAN
    BY <1>2, Zenon DEF TypeOK
  <2> QED
    BY <1>1, <2>1, <2>2, <2>3 DEF TypeOK
<1>9. d # 0 /\ Ahead(at, WatchedAt) < d
  BY <1>2, <1>7, FromTop, Geometry
<1>10. cyclesDirty' = d /\ l % CYCLES_FRAME = at
  BY <1>1, <1>5, <1>7, Zenon DEF At
<1>11. BufferAtRest'
  BY <1>1, <1>2, <1>3, <1>5, <1>9, <1>10, Zenon DEF BufferAtRest
<1> QED
  BY <1>1, <1>2, <1>4, <1>5, <1>6, <1>7, <1>8, <1>9, <1>10, <1>11, AtRest, Zenon

\* reinitialize() leaves a whole frame to redraw.
LEMMA ResetKeeps ==
    ASSUME IInv, video_scannerReset
    PROVE  IInv'
<1>1. /\ pc = "cpu" /\ pc' = "cpu" /\ cycles_video_frame' = 0 /\ cyclesFrameLast' = 0
      /\ cyclesDirty' = CYCLES_FRAME
      /\ reset_scanner' = TRUE /\ mode' = "text40" /\ stale' = TRUE /\ watched' = watched
      /\ textFlashCounter' = textFlashCounter /\ cyclesCount' = cyclesCount /\ hCount' = hCount
      /\ vCount' = vCount /\ scancol' = scancol /\ scanidx' = scanidx
  BY DEF video_scannerReset, scan
<1>2. TypeOK /\ MoreTypes /\ scanidx = 0
  BY <1>1, Zenon DEF IInv, BufferInv, BufferInScan, BufferAtRest
<1>3. TypeOK'
  <2>1. {cycles_video_frame', cyclesFrameLast', cyclesDirty', cyclesCount'} \subseteq Nat
    <3>1. 0 \in Nat /\ CYCLES_FRAME \in Nat /\ cyclesCount \in Nat
      BY <1>2, Ranges, Geometry
    <3> QED
      BY <1>1, <3>1
  <2> QED
    BY <1>1, <1>2, <2>1 DEF TypeOK, Modes
<1>4. MoreTypes'
  BY <1>1, <1>2 DEF MoreTypes
<1>5. NothingRead'
  BY <1>1, <1>2, Zenon DEF NothingRead
<1>6. CYCLES_FRAME \in Nat /\ Aligned(CYCLES_FRAME) /\ CYCLES_FRAME >= CYCLES_FRAME /\ 0 \in Nat
      /\ 0 < CYCLES_FRAME
  BY Geometry, Top
<1> QED
  BY <1>1, <1>2, <1>3, <1>4, <1>5, <1>6, AtTop, Zenon

\* The invariant looks at nothing but the variables.
LEMMA StutterKeeps == IInv /\ UNCHANGED vars => IInv'
<1> SUFFICES ASSUME IInv, UNCHANGED vars PROVE IInv'
  OBVIOUS
<1>1. /\ pc' = pc /\ cycles_video_frame' = cycles_video_frame /\ cyclesFrameLast' = cyclesFrameLast
      /\ cyclesDirty' = cyclesDirty /\ textFlashCounter' = textFlashCounter
      /\ cyclesCount' = cyclesCount
      /\ hCount' = hCount /\ vCount' = vCount /\ scancol' = scancol /\ scanidx' = scanidx
      /\ reset_scanner' = reset_scanner /\ mode' = mode /\ watched' = watched /\ stale' = stale
  BY DEF vars, beam, scan
<1>2. TypeOK' /\ MoreTypes' /\ NoUnderflow'
  BY <1>1 DEF IInv, TypeOK, MoreTypes, NoUnderflow
<1>3. At' = At /\ Lag' = Lag /\ Distance' = Distance
  BY <1>1 DEF At, Lag, Distance, WatchedAt, Ahead
<1>4. OrderInv' /\ AlignInv'
  BY <1>1, <1>3 DEF IInv, OrderInv, OrderAtRest, OrderInScan, AlignInv
<1>5. BufferInv' /\ WindowInv'
  BY <1>1, <1>3, Zenon DEF IInv, BufferInv, WindowInv, BufferInScan, BufferAtRest
<1> QED
  BY <1>2, <1>4, <1>5 DEF IInv

-----------------------------------------------------------------------------
(* The theorems                                                              *)

\* Every step keeps the invariant.
LEMMA Keeps == ShortSlices /\ IInv /\ [Next]_vars => IInv'
<1> SUFFICES ASSUME ShortSlices, IInv, [Next]_vars PROVE IInv'
  OBVIOUS
<1>1. ASSUME NEW n \in Slices, video_setDirty(n) PROVE IInv'
  BY <1>1, SetDirtyKeeps
<1>2. ASSUME NEW n \in Slices, UpdateClean(n) PROVE IInv'
  BY <1>2, UpdateCleanKeeps
<1>3. ASSUME NEW n \in Slices, UpdateDirty(n) PROVE IInv'
  BY <1>3, UpdateDirtyKeeps
<1>4. CASE Scan
  BY <1>4, WithinKeeps, NextLineKeeps, NextFrameKeeps DEF Scan
<1>5. CASE EndUpdate
  BY <1>5, EndUpdateKeeps
<1>6. CASE EndSetDirty
  BY <1>6, EndSetDirtyKeeps
<1>7. CASE video_scannerReset
  BY <1>7, ResetKeeps
<1>8. CASE UNCHANGED vars
  BY <1>8, StutterKeeps
<1> QED
  BY <1>1, <1>2, <1>3, <1>4, <1>5, <1>6, <1>7, <1>8 DEF Next

\* At every speed of the CPU a slice is a fraction of a frame (timing.c:315; only the feedback
\* of a full audio queue can make it longer): then the invariant always holds.
THEOREM Invariance == ShortSlices /\ Spec => []IInv
<1> SUFFICES ASSUME ShortSlices PROVE Spec => []IInv
  OBVIOUS
<1>1. IInv /\ [Next]_vars => IInv'
  BY Keeps
<1> QED
  BY InvInit, <1>1, PTL DEF Spec

\* Variables and locals of the scanner keep their types and ranges; cyclesDirty stays unsigned.
THEOREM TypeCorrect == ShortSlices /\ Spec => []TypeOK
<1>1. IInv => TypeOK
  BY DEF IInv
<1> QED
  BY Invariance, <1>1, PTL

\* video_scannerUpdate() and video_setDirty() (video.c:246, video.c:361): the scanner is never
\* ahead of the CPU, and has come up with it when a change is made.
THEOREM BeamKeepsOrder == ShortSlices /\ Spec => []BeamInOrder
<1>1. IInv => BeamInOrder
  <2> SUFFICES ASSUME IInv, pc = "setDirty", cyclesCount = 0 PROVE cyclesFrameLast = cycles_video_frame
    BY DEF IInv, OrderInv, BeamInOrder
  <2>1. TypeOK /\ MoreTypes /\ cyclesCount = Lag
    BY DEF IInv, OrderInv
  <2> QED
    BY <2>1, Ranges DEF Lag
<1> QED
  BY Invariance, <1>1, PTL

\* The loop of the scanner (video.c:363) never runs out of cycles to redraw, also when a flash
\* restarts the redraw on the way: the unsigned cyclesDirty never underflows.
THEOREM RedrawLimitsScan == ShortSlices /\ Spec => []NoUnderflow
<1>1. IInv => NoUnderflow
  BY DEF IInv
<1> QED
  BY Invariance, <1>1, PTL

\* The scanline buffer (video.c:387) holds exactly what has been read of the line since the
\* last flush, and is empty where a redraw ends.
THEOREM BufferIsLine == ShortSlices /\ Spec => []ScanlineBuffer
<1>1. IInv => ScanlineBuffer
  <2> SUFFICES ASSUME IInv, pc # "cpu" PROVE ScanlineBuffer
    BY DEF ScanlineBuffer
  <2>1. TypeOK /\ MoreTypes /\ scancol + scanidx = Columns(vCount, hCount) /\ ~reset_scanner
    BY Zenon DEF IInv, BufferInv, BufferInScan, BufferAtRest
  <2>2. PICK x \in Nat, y \in Nat, v \in 0 .. SCANLINES_FRAME - 1, h \in 0 .. CYCLES_SCANLINE - 1 :
           x = scancol /\ y = scanidx /\ v = vCount /\ h = hCount
    BY <2>1, Ranges DEF MoreTypes
  <2>3. x + y = Columns(v, h)
    BY <2>1, <2>2, Zenon
  <2>4. Columns(v, h) = 0 => x = 0 /\ y = 0
    BY <2>3
  <2>5. v < VisLines => x + y = (IF h < HBL THEN 0 ELSE h - HBL)
    BY <2>3, Geometry DEF Columns
  <2>6. v >= VisLines => Columns(v, h) = 0
    BY Geometry DEF Columns
  <2>7. cyclesDirty = 0 => Columns(v, h) = 0
    <3> SUFFICES ASSUME cyclesDirty = 0 PROVE Columns(v, h) = 0
      OBVIOUS
    <3>1. CASE pc = "update"
      <4>1. Aligned(cyclesFrameLast + cyclesDirty) /\ At = Place(v, h)
        BY <2>2, <3>1, Zenon DEF IInv, AlignInv, OrderInv, OrderInScan
      <4>2. PICK l \in Nat : l = cyclesFrameLast /\ l = cyclesFrameLast + cyclesDirty
        BY <2>1, Ranges
      <4>3. Column(l) = 0
        BY <4>1, <4>2, Zenon DEF Aligned, Column
      <4>4. PICK w \in Nat : w = Row(l)
        <5>1. Row(l) \in 0 .. SCANLINES_FRAME - 1
          BY PlaceOf, Zenon
        <5> QED
          BY <5>1, Geometry
      <4>5. Place(v, h) = Place(w, 0)
        BY <4>1, <4>2, <4>3, <4>4, PlaceOf, Zenon DEF At
      <4>6. v \in Nat /\ 0 \in 0 .. CYCLES_SCANLINE - 1
        BY Geometry
      <4>7. h = 0
        BY <4>5, <4>6, OnePlace
      <4> QED
        BY <4>7, Top
    <3>2. CASE pc = "setDirty"
      <4>1. cyclesCount < cyclesDirty
        BY <3>2 DEF IInv, OrderInv
      <4> QED
        BY <2>1, <4>1, Ranges
    <3> QED
      BY <2>1, <3>1, <3>2 DEF TypeOK
  <2> QED
    BY <2>2, <2>4, <2>5, <2>6, <2>7 DEF ScanlineBuffer
<1> QED
  BY Invariance, <1>1, PTL

\* The assertion that the authors disabled (video.c:285) holds as long as slices are shorter
\* than a frame: a frame that ends was unprocessed.
THEOREM FramesAreOwed == ShortSlices /\ Spec => []FrameWasOwed
<1>1. IInv => FrameWasOwed
  BY EndOfFrame DEF FrameWasOwed
<1> QED
  BY Invariance, <1>1, PTL

\* A position that has changed is still to be redrawn.
StaleIsOwed == stale \in BOOLEAN /\ (stale => cyclesDirty > 0)

LEMMA InvOwes == IInv => StaleIsOwed
<1> SUFFICES ASSUME IInv PROVE StaleIsOwed
  OBVIOUS
<1>1. TypeOK /\ MoreTypes /\ (stale => Distance < cyclesDirty)
  BY Zenon DEF IInv, WindowInv
<1>2. Distance < cyclesDirty => cyclesDirty > 0
  BY <1>1, Ranges, Geometry
<1>3. stale \in BOOLEAN
  BY <1>1 DEF TypeOK
<1> QED
  BY <1>1, <1>2, <1>3, Zenon DEF StaleIsOwed

\* video_scannerUpdate() counts the screen as up to date only when every position that has
\* changed was read again.
THEOREM ScreenIsCurrent == ShortSlices /\ Spec => []ScreenCurrent
<1>1. StaleIsOwed => ScreenCurrent
  BY DEF StaleIsOwed, ScreenCurrent
<1> QED
  BY Invariance, InvOwes, <1>1, PTL

\* The scanner (video_setDirty(), video_scannerUpdate() and the end of a frame) implements
\* Redraw: a change starts a redraw, and only one that shows it ends.
THEOREM ScannerImplementsRedraw == ShortSlices /\ Spec => RedrawsChanges
<1>1. Init => Abstract!Init
  BY Geometry DEF Init, Abstract!Init
<1>2. StaleIsOwed /\ StaleIsOwed' => [Abstract!Change \/ Abstract!Look]_(Abstract!redrawVars)
  BY DEF StaleIsOwed, Abstract!Change, Abstract!Look, Abstract!redrawVars
<1> QED
  BY Invariance, InvOwes, <1>1, <1>2, PTL DEF RedrawsChanges, Abstract!Spec, Spec

=============================================================================
